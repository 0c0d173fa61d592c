---------------------------- MODULE GatewayProofs ----------------------------
(***************************************************************************)
(* What the gateway keeps for every instance.  Of its rotation, for every  *)
(* set of requests, relays, conversations and saved settings: a request    *)
(* that gives up has tried every member, failover lands on the member that *)
(* answered, a conversation stays with its member, and rotation is fair to *)
(* every member by its weight.                                             *)
(* Of the operations that send Codex to the gateway and away from it, for  *)
(* all suppliers: they agree about where it is sent, or put back what they *)
(* found, and the user's sign-in survives them.                            *)
(***************************************************************************)
EXTENDS RelayRotation, ProviderConfig, StreamProofs

-----------------------------------------------------------------------------
(* Sequences and sums. *)

(* How often something is in a sequence. *)

\* How often something is among the first elements of a queue.
Times(q, n, x) == Cardinality({i \in 1..n : q[i] = x})

\* It is a number, which grows by one with each place that holds it.
LEMMA TimesFacts ==
  ASSUME NEW q, NEW x, NEW n \in Nat
  PROVE  /\ Times(q, n, x) \in Nat /\ Times(q, 0, x) = 0
         /\ Times(q, n + 1, x) = Times(q, n, x) + (IF q[n + 1] = x THEN 1 ELSE 0)
         /\ \A m \in 0..n : Times(q, m, x) <= Times(q, n, x)
<1> DEFINE S(m) == {i \in 1..m : q[i] = x}
<1>1. ASSUME NEW m \in Nat
      PROVE  IsFiniteSet(S(m)) /\ Cardinality(S(m)) \in Nat
  <2>1. IsFiniteSet(1..m) /\ S(m) \in SUBSET (1..m)
    BY FS_Interval
  <2> QED
    BY <2>1, FS_Subset, FS_CardinalityType
<1>2. S(0) = {}
  OBVIOUS
<1>3. ASSUME q[n + 1] = x
      PROVE  Cardinality(S(n + 1)) = Cardinality(S(n)) + 1
  <2>1. S(n + 1) = S(n) \union {n + 1} /\ n + 1 \notin S(n)
    BY <1>3
  <2> HIDE DEF S
  <2> QED
    BY <1>1, <2>1, FS_AddElement
<1>4. q[n + 1] # x => S(n + 1) = S(n)
  OBVIOUS
<1>5. ASSUME NEW m \in 0..n
      PROVE  Cardinality(S(m)) <= Cardinality(S(n))
  BY <1>1, FS_Subset
<1> HIDE DEF S
<1>6. Cardinality(S(n + 1)) = Cardinality(S(n)) + (IF q[n + 1] = x THEN 1 ELSE 0)
  BY <1>1, <1>3, <1>4
<1>7. Cardinality(S(0)) = 0
  BY <1>2, FS_EmptySet
<1> QED
  BY <1>1, <1>5, <1>6, <1>7 DEF S, Times

\* A queue with w times r behind it, and what that is.
Behind(q, a, w, r) == q = a \o [k \in 1..w |-> r]
Longer(q, a, w, r) ==
  /\ Len(q) = Len(a) + w
  /\ \A x : Times(q, Len(q), x) = Times(a, Len(a), x) + (IF x = r THEN w ELSE 0)

\* A piece of equal elements adds its length to the count of them.
LEMMA TimesWithPiece ==
  ASSUME NEW S, NEW a \in Seq(S), NEW w \in Nat, NEW r \in S, NEW q, Behind(q, a, w, r)
  PROVE  q \in Seq(S) /\ Longer(q, a, w, r)
<1> DEFINE b == [k \in 1..w |-> r]
<1>1. b \in Seq(S) /\ Len(b) = w /\ \A k \in 1..w : b[k] = r
  OBVIOUS
<1>0. q = a \o b
  BY DEF Behind
<1> HIDE DEF b
<1>2. q \in Seq(S) /\ Len(q) = Len(a) + w /\ Len(a) \in Nat
  <2>1. a \o b \in Seq(S) /\ Len(a \o b) = Len(a) + Len(b) /\ Len(a) \in Nat
    BY <1>1
  <2> QED
    BY <1>0, <1>1, <2>1, Zenon
<1>3. \A i \in 1..Len(q) : q[i] = IF i <= Len(a) THEN a[i] ELSE r
  BY <1>0, <1>1
<1> SUFFICES ASSUME NEW x
             PROVE  Times(q, Len(q), x) = Times(a, Len(a), x) + (IF x = r THEN w ELSE 0)
  BY <1>2 DEF Longer
<1> DEFINE A == {i \in 1..Len(a) : a[i] = x}
           B == {i \in Len(a) + 1..Len(a) + w : r = x}
<1>4. {i \in 1..Len(q) : q[i] = x} = A \union B
  BY <1>2, <1>3
<1>5. A \intersect B = {}
  OBVIOUS
<1>6. IsFiniteSet(A) /\ IsFiniteSet(B)
  <2>1. IsFiniteSet(1..Len(a)) /\ IsFiniteSet(Len(a) + 1..Len(a) + w)
    BY <1>2, FS_Interval
  <2>2. A \in SUBSET (1..Len(a)) /\ B \in SUBSET (Len(a) + 1..Len(a) + w)
    OBVIOUS
  <2> QED
    BY <2>1, <2>2, FS_Subset
<1>7. Cardinality(A \union B) = Cardinality(A) + Cardinality(B)
  <2> HIDE DEF A, B
  <2>1. Cardinality(A \union B) = Cardinality(A) + Cardinality(B) - Cardinality({})
    BY <1>5, <1>6, FS_Union
  <2>2. Cardinality(A) \in Nat /\ Cardinality(B) \in Nat /\ Cardinality({}) = 0
    BY <1>6, FS_CardinalityType, FS_EmptySet
  <2> QED
    BY <2>1, <2>2
<1>8. Cardinality(B) = IF x = r THEN w ELSE 0
  <2>1. CASE x = r
    <3>1. B = Len(a) + 1..Len(a) + w
      BY <2>1
    <3>2. PICK lo \in Int, hi \in Int : lo = Len(a) + 1 /\ hi = Len(a) + w
      BY <1>2
    <3>3. Cardinality(lo..hi) = IF lo > hi THEN 0 ELSE hi - lo + 1
      BY FS_Interval
    <3>4. hi - lo + 1 = w /\ (lo > hi => w = 0)
      BY <1>2, <3>2
    <3> HIDE DEF B
    <3>5. Cardinality(B) = w
      BY <3>1, <3>2, <3>3, <3>4
    <3> QED
      BY <2>1, <3>5
  <2>2. CASE x # r
    <3>1. B = {}
      BY <2>2
    <3> QED
      BY <2>2, <3>1, FS_EmptySet
  <2> QED
    BY <2>1, <2>2
<1> HIDE DEF A, B
<1> QED
  BY <1>4, <1>7, <1>8 DEF Times, A

\* What the concatenation of a list of queues is defined by.
Flattens(f, seqs, n) == f = [i \in 1..n |-> IF i = 1 THEN seqs[i] ELSE f[i - 1] \o seqs[i]]

\* There is such a function for every length.
LEMMA Flattened ==
  ASSUME NEW seqs
  PROVE  \A n \in Nat : \E f : Flattens(f, seqs, n)
<1> DEFINE T == {n \in Nat : \E f : Flattens(f, seqs, n)}
<1>1. 0 \in T
  <2> DEFINE f == [i \in 1..0 |-> seqs]
  <2>1. Flattens(f, seqs, 0)
    BY DEF Flattens
  <2> QED
    BY <2>1
<1>2. ASSUME NEW n \in Nat, n \in T
      PROVE  n + 1 \in T
  <2>1. PICK g : Flattens(g, seqs, n)
    BY <1>2
  <2> DEFINE f == [i \in 1..n + 1 |-> IF i = n + 1
                     THEN IF i = 1 THEN seqs[i] ELSE g[n] \o seqs[i] ELSE g[i]]
  <2>2. ASSUME NEW i \in 1..n + 1
        PROVE  f[i] = IF i = 1 THEN seqs[i] ELSE f[i - 1] \o seqs[i]
    <3>1. CASE i = n + 1
      <4>1. i # 1 => n \in 1..n + 1 /\ n # n + 1 /\ i - 1 = n
        BY <3>1
      <4> QED
        BY <3>1, <4>1
    <3>2. CASE i # n + 1
      <4>1. i \in 1..n /\ (i # 1 => i - 1 \in 1..n + 1 /\ i - 1 # n + 1)
        BY <3>2
      <4>2. g[i] = IF i = 1 THEN seqs[i] ELSE g[i - 1] \o seqs[i]
        BY <2>1, <4>1 DEF Flattens
      <4> QED
        BY <3>2, <4>1, <4>2
    <3> QED
      BY <3>1, <3>2
  <2>3. Flattens(f, seqs, n + 1)
    BY <2>2, Zenon DEF Flattens
  <2> QED
    BY <2>3
<1>3. Nat \subseteq T
  <2> HIDE DEF T
  <2> QED
    BY <1>1, <1>2, Induction
<1> QED
  BY <1>3

\* The concatenation is a value of it.
LEMMA FlattenIs ==
  ASSUME NEW seqs, Len(seqs) \in Nat \ {0}
  PROVE  \E f : Flattens(f, seqs, Len(seqs)) /\ FlattenSeq(seqs) = f[Len(seqs)]
<1> DEFINE Is(f) == f = [i \in 1..Len(seqs) |-> IF i = 1 THEN seqs[i] ELSE f[i - 1] \o seqs[i]]
<1>1. \A f : Is(f) <=> Flattens(f, seqs, Len(seqs))
  BY DEF Flattens
<1>2. \E f : Is(f)
  <2> HIDE DEF Is
  <2> QED
    BY <1>1, Flattened
<1>3. Is(CHOOSE f : Is(f))
  BY <1>2, Zenon
<1>4. FlattenSeq(seqs) = (CHOOSE f : Is(f))[Len(seqs)]
  BY Zenon DEF FlattenSeq
<1> QED
  BY <1>1, <1>3, <1>4, Zenon

(* Sums. *)

\* The sum of a function over a set.
Total(w, S) == FoldFunctionOnSet(+, 0, w, S)

\* Among the subsets of a finite set that have a property there is a smallest one.
LEMMA Smallest ==
  ASSUME NEW S, IsFiniteSet(S), NEW T \in SUBSET SUBSET S, T # {}
  PROVE  \E m \in T : \A k \in T : k \subseteq m => k = m
<1>1. T \in SUBSET FiniteSubsetsOf(S)
  <2>1. \A k \in T : k \in SUBSET S /\ IsFiniteSet(k)
    BY FS_Subset
  <2> QED
    BY <2>1 DEF FiniteSubsetsOf
<1>2. PICK m \in T : \A k \in T : ~(<<k, m>> \in StrictSubsetOrdering(S))
  BY <1>1, FS_StrictSubsetOrderingWellFounded, WFMin, Zenon
<1>3. ASSUME NEW k \in T, k \subseteq m, k # m
      PROVE  FALSE
  <2>1. <<k, m>> \in (SUBSET S) \X (SUBSET S)
    BY Zenon
  <2>2. <<k, m>> \in StrictSubsetOrdering(S)
    BY <1>3, <2>1, Zenon DEF StrictSubsetOrdering
  <2> QED
    BY <1>2, <2>2
<1> QED
  BY <1>2, <1>3

\* The element that a sum takes first.
Some(s) == CHOOSE u \in s : TRUE

\* What a sum over a set is defined by.
Sums(g, w, S) == g = [s \in SUBSET S |-> IF s = {} THEN 0 ELSE w[Some(s)] + g[s \ {Some(s)}]]

\* The total is a value of such a function, if there is one.
LEMMA TotalIs ==
  ASSUME NEW w, NEW S, NEW g, Sums(g, w, S)
  PROVE  \E h : Sums(h, w, S) /\ Total(w, S) = h[S]
<1> DEFINE Is(h) == h = [s \in SUBSET S |-> IF s = {} THEN 0
                          ELSE w[CHOOSE u \in s : TRUE] + h[s \ {CHOOSE u \in s : TRUE}]]
<1>1. \A h : Is(h) <=> Sums(h, w, S)
  BY DEF Sums, Some
<1>2. \E h : Is(h)
  <2> HIDE DEF Is
  <2> QED
    BY <1>1
<1>3. Is(CHOOSE h : Is(h))
  BY <1>2, Zenon
<1>4. Total(w, S) = (CHOOSE h : Is(h))[S]
  BY DEF Total, FoldFunctionOnSet, MapThenFoldSet
<1> QED
  BY <1>1, <1>3, <1>4, Zenon

\* Two such functions agree where both are defined.
LEMMA SumsAgree ==
  ASSUME NEW S, IsFiniteSet(S), NEW R \in SUBSET S, NEW w, NEW g, Sums(g, w, S), NEW h, Sums(h, w, R)
  PROVE  \A s \in SUBSET R : g[s] = h[s]
<1> DEFINE T == {s \in SUBSET R : g[s] # h[s]}
<1> SUFFICES ASSUME T # {} PROVE FALSE
  OBVIOUS
<1>1. PICK m \in T : \A k \in T : k \subseteq m => k = m
  <2>1. IsFiniteSet(R) /\ T \in SUBSET SUBSET R
    BY FS_Subset
  <2> HIDE DEF T
  <2> QED
    BY <2>1, Smallest
<1>2. m \in SUBSET R /\ m \in SUBSET S
  OBVIOUS
<1>3. m # {}
  BY <1>1, <1>2 DEF Sums
<1>4. Some(m) \in m
  BY <1>3 DEF Some
<1> DEFINE r == m \ {Some(m)}
<1>5. r \in SUBSET R /\ r \subseteq m /\ r # m
  BY <1>2, <1>4
<1>6. g[r] = h[r]
  BY <1>1, <1>5
<1>7. g[m] = w[Some(m)] + g[r] /\ h[m] = w[Some(m)] + h[r]
  BY <1>2, <1>3 DEF Sums
<1> QED
  BY <1>1, <1>6, <1>7

\* There is one for every finite set, whose values are the totals.
LEMMA TotalSums ==
  ASSUME NEW w, NEW S, IsFiniteSet(S)
  PROVE  Sums([s \in SUBSET S |-> Total(w, s)], w, S)
<1> DEFINE G(A) == [s \in SUBSET A |-> Total(w, s)]
           T == {A \in SUBSET S : ~Sums(G(A), w, A)}
<1> SUFFICES ASSUME T # {} PROVE FALSE
  OBVIOUS
<1>1. PICK A \in T : \A k \in T : k \subseteq A => k = A
  <2>1. T \in SUBSET SUBSET S
    OBVIOUS
  <2> HIDE DEF T
  <2> QED
    BY <2>1, Smallest
<1>2. A \in SUBSET S /\ IsFiniteSet(A)
  BY FS_Subset
<1>3. \A B \in SUBSET A : B # A => Sums(G(B), w, B)
  BY <1>1, <1>2
<1>4. PICK v : v = IF A = {} THEN 0 ELSE w[Some(A)] + Total(w, A \ {Some(A)})
  OBVIOUS
<1> DEFINE g == [s \in SUBSET A |-> IF s = A THEN v ELSE Total(w, s)]
<1>5. ASSUME NEW s \in SUBSET A
      PROVE  g[s] = IF s = {} THEN 0 ELSE w[Some(s)] + g[s \ {Some(s)}]
  <2>1. s # {} => Some(s) \in s /\ s \ {Some(s)} \in SUBSET A /\ s \ {Some(s)} # A
    BY DEF Some
  <2>2. CASE s = A
    BY <1>4, <2>1, <2>2
  <2>3. CASE s # A
    <3>1. Sums(G(s), w, s)
      BY <1>3, <2>3
    <3>2. s \in SUBSET s /\ s \ {Some(s)} \in SUBSET s
      OBVIOUS
    <3>3. Total(w, s) = IF s = {} THEN 0 ELSE w[Some(s)] + Total(w, s \ {Some(s)})
      BY <3>1, <3>2 DEF Sums
    <3> QED
      BY <2>1, <2>3, <3>3
  <2> QED
    BY <2>2, <2>3
<1>6. Sums(g, w, A)
  BY <1>5 DEF Sums
<1>7. PICK h : Sums(h, w, A) /\ Total(w, A) = h[A]
  <2> HIDE DEF g
  <2> QED
    BY <1>6, TotalIs
<1>8. g[A] = h[A]
  <2> HIDE DEF g
  <2>1. A \in SUBSET A
    OBVIOUS
  <2> QED
    BY <1>2, <1>6, <1>7, <2>1, SumsAgree
<1>9. g = G(A)
  BY <1>7, <1>8
<1> QED
  BY <1>1, <1>6, <1>9

\* A total is the value at any element and the total of the others.
LEMMA TotalStep ==
  ASSUME NEW S, IsFiniteSet(S), NEW w \in [S -> Nat]
  PROVE  \A A \in SUBSET S :
           /\ Total(w, A) \in Nat
           /\ \A x \in A : Total(w, A) = w[x] + Total(w, A \ {x})
<1> DEFINE Right(A) == Total(w, A) \in Nat /\ \A x \in A : Total(w, A) = w[x] + Total(w, A \ {x})
           T == {A \in SUBSET S : ~Right(A)}
<1> SUFFICES ASSUME T # {} PROVE FALSE
  OBVIOUS
<1>1. PICK A \in T : \A k \in T : k \subseteq A => k = A
  <2>1. T \in SUBSET SUBSET S
    OBVIOUS
  <2> HIDE DEF T
  <2> QED
    BY <2>1, Smallest
<1>2. A \in SUBSET S /\ ~Right(A)
  OBVIOUS
<1>3. ASSUME NEW x \in A
      PROVE  A \ {x} \in SUBSET S /\ Right(A \ {x})
  BY <1>1, <1>2
<1>4. A = {} => Total(w, A) = 0
  <2> DEFINE W == [s \in SUBSET S |-> Total(w, s)]
  <2>1. {} \in SUBSET S /\ W[{}] = Total(w, {})
    OBVIOUS
  <2>2. Sums(W, w, S)
    BY TotalSums
  <2> HIDE DEF W
  <2>3. W[{}] = 0
    BY <2>1, <2>2 DEF Sums
  <2> QED
    BY <2>1, <2>3
<1>5. A # {} => Some(A) \in A /\ Total(w, A) = w[Some(A)] + Total(w, A \ {Some(A)})
  <2>1. A # {} => Some(A) \in A /\ A \ {Some(A)} \in SUBSET S
    BY <1>2 DEF Some
  <2> DEFINE W == [s \in SUBSET S |-> Total(w, s)]
  <2>2. A # {} => W[A] = w[Some(A)] + W[A \ {Some(A)}]
    <3>1. Sums(W, w, S)
      BY TotalSums
    <3> HIDE DEF W
    <3> QED
      BY <1>2, <3>1 DEF Sums
  <2> QED
    BY <1>2, <2>1, <2>2
<1>6. CASE A = {}
  BY <1>2, <1>4, <1>6
<1>7. CASE A # {}
  <2> DEFINE u == Some(A)
  <2>1. u \in A /\ Total(w, A) = w[u] + Total(w, A \ {u})
    BY <1>5, <1>7
  <2>2. Total(w, A \ {u}) \in Nat /\ w[u] \in Nat
    BY <1>2, <1>3, <2>1
  <2>3. ASSUME NEW x \in A
        PROVE  Total(w, A) = w[x] + Total(w, A \ {x})
    <3>1. CASE x = u
      BY <2>1, <3>1
    <3>2. CASE x # u
      <4>1. w[x] \in Nat /\ x \in A \ {u} /\ u \in A \ {x}
        BY <1>2, <2>1, <3>2
      <4>2. Total(w, A \ {u}) = w[x] + Total(w, (A \ {u}) \ {x})
        BY <1>3, <2>1, <4>1
      <4>3. Total(w, A \ {x}) = w[u] + Total(w, (A \ {x}) \ {u})
        BY <1>3, <4>1
      <4>4. (A \ {x}) \ {u} = (A \ {u}) \ {x}
        OBVIOUS
      <4>5. Total(w, (A \ {x}) \ {u}) \in Nat
        <5>1. (A \ {x}) \ {u} # A /\ (A \ {x}) \ {u} \in SUBSET S /\ (A \ {x}) \ {u} \subseteq A
          BY <1>2
        <5> QED
          BY <1>1, <5>1
      <4>6. Total(w, (A \ {x}) \ {u}) = Total(w, (A \ {u}) \ {x})
        BY <4>4
      <4> DEFINE wx == w[x]
                 wu == w[u]
                 rest == Total(w, (A \ {u}) \ {x})
                 nou == Total(w, A \ {u})
                 nox == Total(w, A \ {x})
                 all == Total(w, A)
      <4>7. all = wu + nou /\ nou = wx + rest /\ nox = wu + rest /\ {wx, wu, rest} \subseteq Nat
        BY <2>1, <2>2, <4>1, <4>2, <4>3, <4>5, <4>6
      <4> HIDE DEF wx, wu, rest, nou, nox, all
      <4>8. all = wx + nox
        BY <4>7
      <4> QED
        BY <4>8 DEF wx, nox, all
    <3> QED
      BY <3>1, <3>2
  <2> QED
    BY <1>2, <2>1, <2>2, <2>3
<1> QED
  BY <1>6, <1>7

\* Functions that agree on a set have the same total there.
LEMMA TotalAgrees ==
  ASSUME NEW S, IsFiniteSet(S), NEW u, NEW w, \A x \in S : u[x] = w[x]
  PROVE  Total(u, S) = Total(w, S)
<1> DEFINE g == [s \in SUBSET S |-> Total(u, s)]
           h == [s \in SUBSET S |-> Total(w, s)]
<1>1. Sums(g, u, S) /\ Sums(h, w, S)
  BY TotalSums
<1>2. g[S] = Total(u, S) /\ h[S] = Total(w, S) /\ S \in SUBSET S
  OBVIOUS
<1> HIDE DEF g, h
<1>3. ASSUME NEW s \in SUBSET S
      PROVE  h[s] = IF s = {} THEN 0 ELSE u[Some(s)] + h[s \ {Some(s)}]
  <2>1. s # {} => Some(s) \in S
    BY DEF Some
  <2> QED
    BY <1>1, <2>1 DEF Sums
<1>4. Sums(h, u, S)
  <2>1. h = [s \in SUBSET S |-> h[s]]
    BY DEF h
  <2>2. [s \in SUBSET S |-> h[s]] = [s \in SUBSET S |-> IF s = {} THEN 0 ELSE u[Some(s)] + h[s \ {Some(s)}]]
    BY <1>3, Zenon
  <2>3. h = [s \in SUBSET S |-> IF s = {} THEN 0 ELSE u[Some(s)] + h[s \ {Some(s)}]]
    BY <2>1, <2>2, Zenon
  <2> QED
    BY <2>3, Zenon DEF Sums
<1>5. g[S] = h[S]
  <2>1. S \in SUBSET S /\ Sums(g, u, S)
    BY <1>1
  <2> QED
    BY <1>4, <2>1, SumsAgree
<1> QED
  BY <1>2, <1>5

\* Nothing has no total, and one more at one place is one more in all.
LEMMA TotalFacts ==
  ASSUME NEW S, IsFiniteSet(S)
  PROVE  /\ Total([x \in S |-> 0], S) = 0
         /\ \A w \in [S -> Nat], x \in S : Total([w EXCEPT ![x] = @ + 1], S) = Total(w, S) + 1
<1>1. Total([x \in S |-> 0], S) = 0
  <2> DEFINE w == [x \in S |-> 0]
             T == {A \in SUBSET S : Total(w, A) # 0}
  <2>1. w \in [S -> Nat] /\ \A x \in S : w[x] = 0
    OBVIOUS
  <2> HIDE DEF w
  <2>2. SUFFICES ASSUME T # {} PROVE FALSE
    BY DEF w
  <2>3. PICK A \in T : \A k \in T : k \subseteq A => k = A
    <3>1. T \in SUBSET SUBSET S
      OBVIOUS
    <3> HIDE DEF T
    <3> QED
      BY <2>2, <3>1, Smallest
  <2>4. A = {} => Total(w, A) = 0
    <3>1. Sums([s \in SUBSET S |-> Total(w, s)], w, S) /\ A \in SUBSET S
      BY TotalSums
    <3> QED
      BY <3>1 DEF Sums
  <2>5. PICK x \in A : TRUE
    BY <2>4
  <2>6. Total(w, A) = w[x] + Total(w, A \ {x})
    BY <2>1, TotalStep
  <2>7. Total(w, A \ {x}) = 0
    BY <2>3, <2>5
  <2>8. w[x] = 0
    BY <2>1
  <2> QED
    BY <2>6, <2>7, <2>8
<1>2. ASSUME NEW w \in [S -> Nat], NEW x \in S
      PROVE  Total([w EXCEPT ![x] = @ + 1], S) = Total(w, S) + 1
  <2> DEFINE u == [w EXCEPT ![x] = @ + 1]
  <2>1. u \in [S -> Nat] /\ u[x] = w[x] + 1 /\ w[x] \in Nat /\ \A y \in S \ {x} : u[y] = w[y]
    OBVIOUS
  <2> HIDE DEF u
  <2>2. S \in SUBSET S /\ S \ {x} \in SUBSET S /\ IsFiniteSet(S \ {x})
    BY FS_Subset
  <2>3. Total(u, S) = u[x] + Total(u, S \ {x}) /\ Total(w, S) = w[x] + Total(w, S \ {x})
    BY <2>1, <2>2, TotalStep
  <2>4. Total(u, S \ {x}) = Total(w, S \ {x})
    BY <2>1, <2>2, TotalAgrees
  <2>5. Total(w, S \ {x}) \in Nat
    BY <2>2, TotalStep
  <2>6. Total(u, S) = Total(w, S) + 1
    BY <2>1, <2>3, <2>4, <2>5
  <2> QED
    BY <2>6 DEF u
<1> QED
  BY <1>1, <1>2

-----------------------------------------------------------------------------
(* Rotation.                                                                 *)

(* Aggregates and their cycles. *)

LEMMA AggregateFacts ==
  ASSUME NEW p \in Plans, p.agg # NoAggregate
  PROVE  /\ p.agg.strategy \in Strategies
         /\ Len(p.agg.members) \in Nat \ {0}
         /\ DOMAIN p.agg.members = 1..Len(p.agg.members)
         /\ \A i \in DOMAIN p.agg.members :
              p.agg.members[i].relay \in Relays /\ p.agg.members[i].weight \in Nat
         /\ \A i, j \in DOMAIN p.agg.members :
              p.agg.members[i].relay = p.agg.members[j].relay => i = j
<1> DEFINE members == p.agg.members
<1>1. IsAggregate(p.agg)
  BY PlanAssumption
<1>2. members \in Seq([relay : Relays, weight : Nat]) /\ members # <<>>
  BY <1>1 DEF IsAggregate
<1>3. Len(members) \in Nat \ {0} /\ DOMAIN members = 1..Len(members)
  <2> HIDE DEF members
  <2> QED
    BY <1>2
<1>4. \A i \in DOMAIN members : members[i] \in [relay : Relays, weight : Nat]
  BY <1>2, ElementIn, Zenon
<1> QED
  BY <1>1, <1>3, <1>4 DEF IsAggregate

LEMMA MemberFacts ==
  ASSUME NEW p \in Plans, p.agg # NoAggregate
  PROVE  /\ Members(p.agg) \in Seq(Relays) /\ Len(Members(p.agg)) = Len(p.agg.members)
         /\ \A i \in DOMAIN p.agg.members : Members(p.agg)[i] = p.agg.members[i].relay
         /\ Range(Members(p.agg)) = {p.agg.members[i].relay : i \in DOMAIN p.agg.members}
         /\ Range(Members(p.agg)) \subseteq Relays
<1>1. /\ Len(p.agg.members) \in Nat
      /\ DOMAIN p.agg.members = 1..Len(p.agg.members)
      /\ \A i \in DOMAIN p.agg.members : p.agg.members[i].relay \in Relays
  BY AggregateFacts
<1>2. Members(p.agg) = [i \in 1..Len(p.agg.members) |-> p.agg.members[i].relay]
  BY <1>1 DEF Members
<1>3. Members(p.agg) \in Seq(Relays) /\ Len(Members(p.agg)) = Len(p.agg.members)
  BY <1>1, <1>2
<1> QED
  BY <1>1, <1>2, <1>3 DEF Range

\* How often a member is in a weighted schedule.
Repeats(m) == IF m.weight = 0 THEN 1 ELSE m.weight

\* How the schedule grows, member by member: each is in it as often as its weight says.
Grows(f, a) ==
  /\ Len(f[1]) = Repeats(a.members[1])
  /\ \A i \in 1..Len(a.members) :
       /\ f[i] \in Seq(Range(Members(a))) /\ f[i] # <<>>
       /\ i > 1 => Len(f[i]) = Len(f[i - 1]) + Repeats(a.members[i])
       /\ \A j \in 1..Len(a.members) :
            Times(f[i], Len(f[i]), a.members[j].relay) = IF j <= i THEN Repeats(a.members[j]) ELSE 0

\* The schedule grows like that.
LEMMA ScheduleGrows ==
  ASSUME NEW p \in Plans, p.agg # NoAggregate
  PROVE  \E f : Grows(f, p.agg) /\ WeightedSchedule(p.agg) = f[Len(p.agg.members)]
<1> DEFINE members == p.agg.members
           n == Len(members)
           S == Range(Members(p.agg))
           seqs == [i \in DOMAIN members |-> [k \in 1..Repeats(members[i]) |-> members[i].relay]]
<1>1. /\ n \in Nat \ {0} /\ DOMAIN members = 1..n
      /\ \A i \in 1..n : members[i].weight \in Nat
      /\ \A i, j \in 1..n : members[i].relay = members[j].relay => i = j
  BY AggregateFacts
<1>2. \A i \in 1..n : Repeats(members[i]) \in Nat \ {0} /\ members[i].relay \in S
  BY <1>1 DEF Repeats, Members, Range
<1>3. Len(seqs) = n /\ \A i \in 1..n : seqs[i] = [k \in 1..Repeats(members[i]) |-> members[i].relay]
  BY <1>1
<1>4. WeightedSchedule(p.agg) = FlattenSeq(seqs)
  BY DEF WeightedSchedule, Repeats
<1> HIDE DEF seqs
<1>5. PICK f : Flattens(f, seqs, n) /\ WeightedSchedule(p.agg) = f[n]
  BY <1>1, <1>3, <1>4, FlattenIs
<1> HIDE DEF members, n, S
<1>6. f[1] = seqs[1] /\ \A i \in 1..n : i # 1 => f[i] = f[i - 1] \o seqs[i]
  <2>1. \A i \in 1..n : f[i] = IF i = 1 THEN seqs[i] ELSE f[i - 1] \o seqs[i]
    BY <1>5 DEF Flattens
  <2>2. 1 \in 1..n
    BY <1>1
  <2> QED
    BY <2>1, <2>2
<1> DEFINE Right(i) == /\ f[i] \in Seq(S) /\ f[i] # <<>>
                       /\ i > 1 => Len(f[i]) = Len(f[i - 1]) + Repeats(members[i])
                       /\ \A j \in 1..n : Times(f[i], Len(f[i]), members[j].relay) = IF j <= i THEN Repeats(members[j]) ELSE 0
           T == {i \in Nat : i \in 1..n => Right(i)}
<1>7. Right(1) /\ Len(f[1]) = Repeats(members[1])
  <2> DEFINE w == Repeats(members[1])
             r == members[1].relay
             q == <<>> \o [k \in 1..w |-> r]
  <2>1. 1 \in 1..n /\ w \in Nat \ {0} /\ r \in S /\ <<>> \in Seq(S)
    BY <1>1, <1>2
  <2>2. f[1] = q
    <3>1. [k \in 1..w |-> r] \in Seq(S)
      BY <2>1
    <3> QED
      BY <1>3, <1>6, <2>1, <3>1
  <2> HIDE DEF w, r
  <2>3. Behind(q, <<>>, w, r)
    BY DEF Behind
  <2> HIDE DEF q
  <2>10. q \in Seq(S) /\ Longer(q, <<>>, w, r)
    BY <2>1, <2>3, TimesWithPiece
  <2>9. q \in Seq(S) /\ Len(q) = Len(<<>>) + w
        /\ \A x : Times(q, Len(q), x) = Times(<<>>, Len(<<>>), x) + (IF x = r THEN w ELSE 0)
    BY <2>10 DEF Longer
  <2>4. \A x : Times(<<>>, Len(<<>>), x) = 0
    BY TimesFacts
  <2>5. \A j \in 1..n : members[j].relay = r <=> j <= 1
    BY <1>1, <2>1 DEF r
  <2>6. ASSUME NEW j \in 1..n
        PROVE  Times(q, Len(q), members[j].relay) = IF j <= 1 THEN Repeats(members[j]) ELSE 0
    <3>1. Times(q, Len(q), members[j].relay) = IF j <= 1 THEN w ELSE 0
      BY <2>1, <2>9, <2>4, <2>5
    <3>2. j <= 1 => j = 1
      BY <1>1
    <3> QED
      BY <3>1, <3>2 DEF w
  <2>7. Len(q) = w
    BY <2>1, <2>9
  <2>8. q # <<>>
    BY <2>1, <2>7
  <2> QED
    BY <2>2, <2>9, <2>6, <2>7, <2>8 DEF w
<1>8. ASSUME NEW i \in Nat, i \in T
      PROVE  i + 1 \in T
  <2> SUFFICES ASSUME i + 1 \in 1..n, i # 0 PROVE Right(i + 1)
    BY <1>7
  <2> DEFINE w == Repeats(members[i + 1])
             r == members[i + 1].relay
             q == f[i] \o [k \in 1..w |-> r]
  <2>1. w \in Nat \ {0} /\ r \in S
    BY <1>2
  <2>2. i \in 1..n /\ Right(i) /\ f[i] \in Seq(S)
    BY <1>1, <1>8
  <2>3. f[i + 1] = q
    <3>1. i + 1 # 1 /\ (i + 1) - 1 = i
      OBVIOUS
    <3> QED
      BY <1>3, <1>6, <3>1
  <2> HIDE DEF w, r
  <2>8. Behind(q, f[i], w, r)
    BY DEF Behind
  <2> HIDE DEF q
  <2>9. q \in Seq(S) /\ Longer(q, f[i], w, r)
    BY <2>1, <2>2, <2>8, TimesWithPiece
  <2>4. q \in Seq(S) /\ Len(q) = Len(f[i]) + w
        /\ \A x : Times(q, Len(q), x) = Times(f[i], Len(f[i]), x) + (IF x = r THEN w ELSE 0)
    BY <2>9 DEF Longer
  <2>5. \A j \in 1..n : members[j].relay = r <=> j = i + 1
    BY <1>1 DEF r
  <2>6. ASSUME NEW j \in 1..n
        PROVE  Times(q, Len(q), members[j].relay) = IF j <= i + 1 THEN Repeats(members[j]) ELSE 0
    <3>1. Times(f[i], Len(f[i]), members[j].relay) = IF j <= i THEN Repeats(members[j]) ELSE 0
      BY <2>2
    <3>2. CASE j = i + 1
      BY <2>1, <2>4, <2>5, <3>1, <3>2 DEF w
    <3>3. CASE j # i + 1
      <4>1. j <= i + 1 <=> j <= i
        BY <1>1, <3>3
      <4>2. Repeats(members[j]) \in Nat
        BY <1>2
      <4> QED
        BY <2>4, <2>5, <3>1, <3>3, <4>1, <4>2
    <3> QED
      BY <3>2, <3>3
  <2>7. Len(q) \in Nat /\ Len(f[i]) \in Nat /\ q # <<>>
    BY <2>1, <2>2, <2>4
  <2> QED
    BY <2>3, <2>4, <2>6, <2>7 DEF w
<1>9. Nat \subseteq T
  <2>1. 0 \in T
    OBVIOUS
  <2> HIDE DEF T
  <2> QED
    BY <1>8, <2>1, Induction
<1>10. \A i \in 1..n : Right(i)
  BY <1>1, <1>9
<1>11. Grows(f, p.agg)
  BY <1>7, <1>10 DEF Grows, members, n, S
<1> QED
  BY <1>5, <1>11 DEF n, members

\* Every position of a cycle holds a member; only weights make it longer.
LEMMA CycleFacts ==
  ASSUME NEW p \in Plans, p.agg # NoAggregate
  PROVE  /\ Len(Cycle(p.agg)) \in Nat \ {0} /\ DOMAIN Cycle(p.agg) = 1..Len(Cycle(p.agg))
         /\ \A i \in DOMAIN Cycle(p.agg) : Cycle(p.agg)[i] \in Range(Members(p.agg))
         /\ p.agg.strategy # "weighted" => Cycle(p.agg) = Members(p.agg)
<1>1. CASE p.agg.strategy = "weighted"
  <2>1. PICK f : Grows(f, p.agg) /\ WeightedSchedule(p.agg) = f[Len(p.agg.members)]
    BY ScheduleGrows
  <2>2. Len(p.agg.members) \in 1..Len(p.agg.members)
    BY AggregateFacts
  <2>3. Cycle(p.agg) \in Seq(Range(Members(p.agg))) /\ Cycle(p.agg) # <<>>
    BY <1>1, <2>1, <2>2 DEF Grows, Cycle
  <2> QED
    BY <1>1, <2>3
<1>2. CASE p.agg.strategy # "weighted"
  <2>1. Cycle(p.agg) = Members(p.agg)
    BY <1>2 DEF Cycle
  <2>2. \A i \in DOMAIN Members(p.agg) : Members(p.agg)[i] \in Range(Members(p.agg))
    BY DEF Range
  <2> QED
    BY <2>1, <2>2, MemberFacts, AggregateFacts
<1> QED
  BY <1>1, <1>2

LEMMA SequenceOf ==
  ASSUME NEW S, NEW n \in Nat \ {0}, NEW f \in [1..n -> S]
  PROVE  f \in Seq(S) /\ Len(f) = n /\ f # <<>>
OBVIOUS

LEMMA AroundFacts ==
  ASSUME NEW n \in Nat \ {0}, NEW i \in 1..(2 * n)
  PROVE  Around(i, n) \in 1..n
BY DEF Around

\* The candidates after a member are all members, each in its place of the circle.
LEMMA CandidateFacts ==
  ASSUME NEW p \in Plans, p.agg # NoAggregate, NEW j \in DOMAIN p.agg.members
  PROVE  LET n    == Len(p.agg.members)
             cand == Candidates(p.agg, p.agg.members[j].relay)
         IN  /\ cand \in Seq(Relays) /\ Len(cand) = n /\ cand # <<>>
             /\ \A k \in 1..n : cand[k] = p.agg.members[Around(j + k - 1, n)].relay
             /\ Range(cand) = Range(Members(p.agg))
<1> DEFINE members == p.agg.members
           n       == Len(members)
           cand    == Candidates(p.agg, members[j].relay)
<1>1. n \in Nat \ {0} /\ DOMAIN members = 1..n /\ j \in 1..n
  BY AggregateFacts
<1>2. \A k \in 1..n : j + k - 1 \in 1..(2 * n)
  BY <1>1
<1>3. \A k \in 1..n : Around(j + k - 1, n) \in 1..n
  BY <1>1, <1>2, AroundFacts
<1>4. {i \in 1..n : members[i].relay = members[j].relay} = {j}
  BY <1>1, AggregateFacts
<1>5. cand = [k \in 1..n |-> IF k = 1 THEN members[j].relay
                             ELSE members[Around(j + k - 1, n)].relay]
  <2> DEFINE places == {i \in 1..n : members[i].relay = members[j].relay}
             pos    == IF places = {} THEN 0 ELSE CHOOSE i \in places : TRUE
  <2>1. places = {j}
    BY <1>4
  <2> HIDE DEF places
  <2>2. pos = j
    BY <2>1
  <2>3. cand = [k \in 1..n |-> IF k = 1 THEN members[j].relay
                               ELSE members[Around(pos + k - 1, n)].relay]
    BY DEF Candidates, places
  <2> HIDE DEF pos, cand, members, n
  <2> QED
    BY <2>2, <2>3
<1>6. Around(j + 1 - 1, n) = j
  BY <1>1 DEF Around
<1>7. cand = [k \in 1..n |-> members[Around(j + k - 1, n)].relay]
  BY <1>5, <1>6
<1>8. \A i \in 1..n : \E k \in 1..n : Around(j + k - 1, n) = i
  <2> HIDE DEF members, n, cand
  <2> TAKE i \in 1..n
  <2>1. CASE i >= j
    <3>1. i - j + 1 \in 1..n /\ Around(j + (i - j + 1) - 1, n) = i
      BY <1>1, <2>1 DEF Around
    <3> QED
      BY <3>1
  <2>2. CASE i < j
    <3>1. i - j + 1 + n \in 1..n /\ Around(j + (i - j + 1 + n) - 1, n) = i
      <4>1. i \in Nat /\ j \in Nat /\ n \in Nat /\ 1 <= i /\ i < j /\ j <= n
        BY <1>1, <2>2
      <4>2. i - j + 1 + n \in 1..n /\ j + (i - j + 1 + n) - 1 = i + n
        BY <4>1
      <4>3. Around(i + n, n) = i
        BY <4>1 DEF Around
      <4> QED
        BY <4>2, <4>3
    <3> QED
      BY <3>1
  <2> QED
    BY <1>1, <2>1, <2>2
<1>9. \A i \in 1..n : members[i].relay \in Relays
  BY <1>1, AggregateFacts
<1>10. cand \in Seq(Relays) /\ Len(cand) = n /\ cand # <<>>
  <2>1. \A k \in 1..n : members[Around(j + k - 1, n)].relay \in Relays
    BY <1>3, <1>9
  <2>2. cand \in [1..n -> Relays]
    BY <1>7, <2>1
  <2> HIDE DEF cand, n
  <2> QED
    BY <1>1, <2>2, SequenceOf
<1>11. Range(cand) = {members[i].relay : i \in 1..n}
  <2> HIDE DEF cand, members, n
  <2>1. Range(cand) = {members[Around(j + k - 1, n)].relay : k \in 1..n}
    BY <1>7 DEF Range
  <2> QED
    BY <2>1, <1>3, <1>8
<1> QED
  BY <1>1, <1>7, <1>10, <1>11, MemberFacts

-----------------------------------------------------------------------------
(* The selector. *)

LEMMA SelectorIntro ==
  ASSUME NEW p \in Plans, p.agg # NoAggregate, NEW i \in DOMAIN Cycle(p.agg),
         NEW C \in SUBSET Conversations, NEW f \in [C -> Range(Members(p.agg))]
  PROVE  IsSelector([agg |-> p.agg, index |-> i, assigned |-> f])
BY DEF IsSelector

LEMMA FreshIsSelector ==
  ASSUME NEW p \in Plans, p.agg # NoAggregate
  PROVE  IsSelector(FreshSelector(p.agg)) /\ FreshSelector(p.agg).agg = p.agg
<1>1. 1 \in DOMAIN Cycle(p.agg)
  BY CycleFacts
<1>2. [conv \in {} |-> 0] \in [{} -> Range(Members(p.agg))] /\ {} \in SUBSET Conversations
  OBVIOUS
<1> QED
  BY <1>1, <1>2, SelectorIntro DEF FreshSelector

LEMMA FoundIsSelector ==
  ASSUME TypeOK, NEW p \in Plans, p.agg # NoAggregate
  PROVE  IsSelector(SelectorFor(p.agg)) /\ SelectorFor(p.agg).agg = p.agg
BY FreshIsSelector DEF SelectorFor, TypeOK

\* A pick is a member; the selector stays one, for the same aggregate.
LEMMA PickFacts ==
  ASSUME NEW s, IsSelector(s), NEW conv \in Conversations \union {NoConversation}
  PROVE  /\ IsSelector(AfterPick(s, conv)) /\ AfterPick(s, conv).agg = s.agg
         /\ Picked(s, conv) \in Range(Members(s.agg))
         /\ s.agg.strategy = "failover" =>
              AfterPick(s, conv) = s /\ Picked(s, conv) = Members(s.agg)[s.index]
              /\ s.index \in DOMAIN s.agg.members
         /\ s.agg.strategy = "conversation" =>
              /\ \A d \in DOMAIN s.assigned : /\ d \in DOMAIN AfterPick(s, conv).assigned
                                              /\ AfterPick(s, conv).assigned[d] = s.assigned[d]
              /\ conv # NoConversation => /\ conv \in DOMAIN AfterPick(s, conv).assigned
                                       /\ AfterPick(s, conv).assigned[conv] = Picked(s, conv)
<1>1. PICK p \in Plans : p.agg # NoAggregate /\
        \E i \in DOMAIN Cycle(p.agg), C \in SUBSET Conversations :
          \E f \in [C -> Range(Members(p.agg))] : s = [agg |-> p.agg, index |-> i, assigned |-> f]
  BY DEF IsSelector
<1>2. PICK i \in DOMAIN Cycle(p.agg), C \in SUBSET Conversations :
        \E f \in [C -> Range(Members(p.agg))] : s = [agg |-> p.agg, index |-> i, assigned |-> f]
  BY <1>1
<1>3. PICK f \in [C -> Range(Members(p.agg))] : s = [agg |-> p.agg, index |-> i, assigned |-> f]
  BY <1>2
<1>4. s.agg = p.agg /\ s.index = i /\ s.assigned = f /\ DOMAIN f = C
  BY <1>3
<1>5. Picked(s, conv) \in Range(Members(p.agg))
  BY <1>1, <1>4, CycleFacts DEF Picked, Assigned
<1>6. NextIndex(s) \in DOMAIN Cycle(p.agg)
  BY <1>1, <1>4, CycleFacts, AroundFacts DEF NextIndex
<1>7. CASE ~Moves(s, conv)
  <2>1. AfterPick(s, conv) = s /\ IsSelector(s)
    BY <1>7 DEF AfterPick
  <2>2. s.agg.strategy = "failover" =>
          Picked(s, conv) = Members(s.agg)[s.index] /\ s.index \in DOMAIN s.agg.members
    BY <1>1, <1>4, CycleFacts, MemberFacts, AggregateFacts DEF Picked, Assigned
  <2>3. s.agg.strategy = "conversation" => conv \in DOMAIN s.assigned /\ s.assigned[conv] = Picked(s, conv)
    BY <1>7 DEF Moves, Picked, Assigned
  <2> QED
    BY <1>4, <1>5, <2>1, <2>2, <2>3
<1>8. CASE Moves(s, conv)
  <2>1. s.agg.strategy # "failover"
    BY <1>8 DEF Moves
  <2>2. CASE s.agg.strategy = "conversation" /\ conv # NoConversation
    <3> DEFINE g == [x \in C \union {conv} |-> IF x = conv THEN Picked(s, conv) ELSE f[x]]
    <3>1. g \in [C \union {conv} -> Range(Members(p.agg))] /\ C \union {conv} \in SUBSET Conversations
      BY <1>5, <2>2
    <3>2. AfterPick(s, conv) = [agg |-> p.agg, index |-> NextIndex(s), assigned |-> g]
      BY <1>3, <1>4, <1>8, <2>2 DEF AfterPick
    <3>3. DOMAIN g = C \union {conv} /\ g[conv] = Picked(s, conv)
          /\ \A d \in C : d # conv => g[d] = f[d]
      OBVIOUS
    <3>4. conv \notin C
      BY <1>4, <1>8, <2>2 DEF Moves, Assigned
    <3> HIDE DEF g
    <3>5. IsSelector(AfterPick(s, conv))
      BY <1>1, <1>6, <3>1, <3>2, SelectorIntro
    <3> QED
      BY <1>4, <1>5, <2>1, <3>2, <3>3, <3>4, <3>5
  <2>3. CASE ~(s.agg.strategy = "conversation" /\ conv # NoConversation)
    <3>1. AfterPick(s, conv) = [agg |-> p.agg, index |-> NextIndex(s), assigned |-> f]
      BY <1>3, <1>4, <1>8, <2>3 DEF AfterPick
    <3>2. IsSelector(AfterPick(s, conv))
      BY <1>1, <1>6, <3>1, SelectorIntro
    <3> QED
      BY <1>4, <1>5, <2>1, <2>3, <3>1, <3>2
  <2> QED
    BY <2>2, <2>3
<1> QED
  BY <1>7, <1>8

\* What an attempt records keeps the selector one, for the same aggregate.
LEMMA RecordFacts ==
  ASSUME TypeOK, NEW p, NEW ok \in BOOLEAN, Recorded(p, ok) # NoSelector
  PROVE  LET s == Recorded(p, ok)
         IN  /\ selector # NoSelector /\ p.agg # NoAggregate /\ IsSelector(selector)
             /\ IsSelector(s) /\ s.agg = selector.agg /\ s.assigned = selector.assigned
             /\ ok => s = selector
             /\ selector.agg.strategy = "failover" /\ ~ok => s.index = NextIndex(selector)
<1> DEFINE s == Recorded(p, ok)
<1>1. selector # NoSelector /\ p.agg # NoAggregate /\ IsSelector(selector)
  BY DEF Recorded, TypeOK
<1>2. PICK q \in Plans : q.agg # NoAggregate /\
        \E i \in DOMAIN Cycle(q.agg), C \in SUBSET Conversations :
          \E f \in [C -> Range(Members(q.agg))] :
            selector = [agg |-> q.agg, index |-> i, assigned |-> f]
  BY <1>1 DEF IsSelector
<1>3. PICK i \in DOMAIN Cycle(q.agg), C \in SUBSET Conversations :
        \E f \in [C -> Range(Members(q.agg))] :
          selector = [agg |-> q.agg, index |-> i, assigned |-> f]
  BY <1>2
<1>4. PICK f \in [C -> Range(Members(q.agg))] :
        selector = [agg |-> q.agg, index |-> i, assigned |-> f]
  BY <1>3
<1>5. NextIndex(selector) \in DOMAIN Cycle(q.agg)
  BY <1>2, <1>4, CycleFacts, AroundFacts DEF NextIndex
<1>6. CASE ok \/ selector.agg.strategy # "failover"
  <2>1. s = selector
    BY <1>1, <1>6 DEF Recorded
  <2> QED
    BY <1>1, <1>6, <2>1
<1>7. CASE ~ok /\ selector.agg.strategy = "failover"
  <2>1. s = [selector EXCEPT !.index = NextIndex(selector)]
    BY <1>1, <1>7 DEF Recorded
  <2>2. s = [agg |-> q.agg, index |-> NextIndex(selector), assigned |-> f]
    BY <1>4, <2>1
  <2>3. IsSelector(s)
    BY <1>2, <1>5, <2>2, SelectorIntro
  <2> QED
    BY <1>1, <1>4, <1>7, <2>2, <2>3
<1> QED
  BY <1>6, <1>7

-----------------------------------------------------------------------------
(* Types. *)

LEMMA LoadedIsRequest ==
  ASSUME TypeOK, NEW r \in Requests, req[r].phase # "idle"
  PROVE  /\ req[r] \in Request /\ req[r].plan \in Plans
         /\ req[r].conv \in Conversations \union {NoConversation}
BY DEF TypeOK, Idle, Request

LEMMA AttemptFacts ==
  ASSUME NEW q \in Request, NEW k \in DOMAIN q.cand
  PROVE  LET t == Attempt(q, k)
         IN  /\ t \in Request /\ t.phase \in {"sending", "refused"} /\ t.at = k
             /\ t.cand = q.cand /\ t.plan = q.plan /\ t.conv = q.conv
<1>1. k \in Nat
  BY DEF Request
<1> QED
  BY <1>1 DEF Attempt, Request, Over

\* What a request that begins its attempts looks like.
LEMMA StartedFacts ==
  ASSUME TypeOK, NEW r \in Requests, req[r].phase # "idle",
         NEW cand \in Seq(Relays), cand # <<>>, Started(r, cand)
  PROVE  /\ req' \in [Requests -> Request \union {Idle}]
         /\ \A x \in Requests \ {r} : req'[x] = req[x]
         /\ req'[r].phase \in {"sending", "refused"} /\ req'[r].at = 1
         /\ req'[r].cand = cand /\ 1 \in DOMAIN cand
         /\ req'[r].plan = req[r].plan /\ req'[r].conv = req[r].conv
<1> DEFINE q == [req[r] EXCEPT !.cand = cand]
<1>1. req[r] \in Request
  BY LoadedIsRequest
<1>2. q \in Request /\ q.cand = cand /\ q.plan = req[r].plan /\ q.conv = req[r].conv
  BY <1>1 DEF Request
<1>3. 1 \in DOMAIN cand
  OBVIOUS
<1>4. req' = [req EXCEPT ![r] = Attempt(q, 1)]
  BY DEF Started
<1> HIDE DEF q
<1> QED
  BY <1>2, <1>3, <1>4, AttemptFacts DEF TypeOK

LEMMA RefusedFacts ==
  ASSUME TypeOK, NEW r \in Requests, req[r].phase # "idle", Refused(r)
  PROVE  /\ req' \in [Requests -> Request \union {Idle}]
         /\ \A x \in Requests \ {r} : req'[x] = req[x]
         /\ req'[r].phase = "refused"
         /\ req'[r].plan = req[r].plan /\ req'[r].conv = req[r].conv
         /\ req'[r].cand = req[r].cand
<1>1. req[r] \in Request
  BY LoadedIsRequest
<1>2. req' = [req EXCEPT ![r] = [req[r] EXCEPT !.phase = "refused"]]
  BY DEF Refused
<1>3. [req[r] EXCEPT !.phase = "refused"] \in Request
  BY <1>1 DEF Request, Over
<1>4. req'[r] = [req[r] EXCEPT !.phase = "refused"]
  BY <1>2 DEF TypeOK
<1> QED
  BY <1>1, <1>2, <1>3, <1>4 DEF TypeOK, Request

LEMMA TouchFacts ==
  ASSUME NEW r \in Requests, NEW s, NEW chose \in BOOLEAN, TypeOK, Touch(r, s, chose)
  PROVE  seen' \in [Requests -> {"alone", "same", "other"}]
BY DEF Touch, TypeOK

\* The candidates of a pick: all members of the request's aggregate.
LEMMA PickedCandidates ==
  ASSUME NEW p \in Plans, p.agg # NoAggregate, NEW relay \in Range(Members(p.agg))
  PROVE  LET cand == Candidates(p.agg, relay)
         IN  /\ cand \in Seq(Relays) /\ cand # <<>> /\ cand[1] = relay
             /\ Len(cand) = Len(p.agg.members) /\ Range(cand) = Range(Members(p.agg))
<1>1. PICK j \in DOMAIN p.agg.members : relay = p.agg.members[j].relay
  BY MemberFacts
<1>2. Len(p.agg.members) \in Nat \ {0} /\ j \in 1..Len(p.agg.members)
  BY AggregateFacts
<1>3. Around(j + 1 - 1, Len(p.agg.members)) = j
  BY <1>2 DEF Around
<1> QED
  BY <1>1, <1>2, <1>3, CandidateFacts

\* A request that selects: which selector it finds and leaves, and how it starts.
LEMMA SelectFacts ==
  ASSUME TypeOK, NEW r \in Requests, SelectMember(r)
  PROVE  LET p == req[r].plan
             s == SelectorFor(p.agg)
             conv == req[r].conv
             cand == Candidates(p.agg, Picked(s, conv))
         IN  /\ p \in Plans /\ p.agg # NoAggregate /\ req[r].phase = "loaded"
             /\ IsSelector(s) /\ s.agg = p.agg
             /\ IsSelector(selector') /\ selector'.agg = p.agg /\ selector' = AfterPick(s, conv)
             /\ conv \in Conversations \union {NoConversation}
             /\ Picked(s, conv) \in Range(Members(p.agg))
             /\ Touch(r, s, TRUE)
             /\ req' \in [Requests -> Request \union {Idle}]
             /\ \A x \in Requests \ {r} : req'[x] = req[x]
             /\ req'[r].phase \in {"sending", "refused"} /\ req'[r].at = 1 /\ 1 \in DOMAIN cand
             /\ req'[r].cand = cand /\ req'[r].plan = p /\ req'[r].conv = conv
<1> DEFINE p == req[r].plan
           s == SelectorFor(p.agg)
           conv == req[r].conv
           cand == Candidates(p.agg, Picked(s, conv))
<1>1. req[r].phase = "loaded" /\ p.agg # NoAggregate /\ Touch(r, s, TRUE) /\ Started(r, cand)
      /\ selector' = AfterPick(s, conv)
  BY DEF SelectMember
<1>2. p \in Plans /\ conv \in Conversations \union {NoConversation}
  BY <1>1, LoadedIsRequest
<1>3. IsSelector(s) /\ s.agg = p.agg
  BY <1>1, <1>2, FoundIsSelector
<1>4. /\ IsSelector(AfterPick(s, conv)) /\ AfterPick(s, conv).agg = s.agg
      /\ Picked(s, conv) \in Range(Members(s.agg))
  <2> HIDE DEF s, conv
  <2> QED
    BY <1>2, <1>3, PickFacts
<1>5. cand \in Seq(Relays) /\ cand # <<>>
  BY <1>1, <1>2, <1>3, <1>4, PickedCandidates
<1> HIDE DEF cand
<1>6. /\ req' \in [Requests -> Request \union {Idle}]
      /\ \A x \in Requests \ {r} : req'[x] = req[x]
      /\ req'[r].phase \in {"sending", "refused"} /\ req'[r].at = 1 /\ 1 \in DOMAIN cand
      /\ req'[r].cand = cand /\ req'[r].plan = p /\ req'[r].conv = conv
  BY <1>1, <1>5, StartedFacts
<1> QED
  BY <1>1, <1>2, <1>3, <1>4, <1>6 DEF cand

\* What an answer makes of a request.
LEMMA AnswerFacts ==
  ASSUME TypeOK, NEW r \in Requests, NEW ok \in BOOLEAN, Answer(r, ok)
  PROVE  LET q == req[r]
         IN  /\ q \in Request /\ q.plan \in Plans /\ q.phase = "sending" /\ q.at \in DOMAIN q.cand
             /\ selector' = Recorded(q.plan, ok) /\ Touch(r, Recorded(q.plan, ok), FALSE)
             /\ req' \in [Requests -> Request \union {Idle}]
             /\ \A x \in Requests \ {r} : req'[x] = req[x]
             /\ req'[r].plan = q.plan /\ req'[r].conv = q.conv /\ req'[r].cand = q.cand
             /\ \/ ok /\ req'[r].phase = "served" /\ req'[r].at = q.at
                \/ /\ ~ok /\ q.at < Len(q.cand)
                   /\ req'[r].phase \in {"sending", "refused"}
                   /\ req'[r].at = q.at + 1 /\ q.at + 1 \in DOMAIN q.cand
                \/ ~ok /\ q.at = Len(q.cand) /\ req'[r].phase = "exhausted" /\ req'[r].at = q.at
<1> DEFINE q == req[r]
           t == IF ok THEN [q EXCEPT !.phase = "served"]
                ELSE IF q.at < Len(q.cand) THEN Attempt(q, q.at + 1)
                ELSE [q EXCEPT !.phase = "exhausted"]
<1>1. /\ q.phase = "sending" /\ selector' = Recorded(q.plan, ok)
      /\ Touch(r, Recorded(q.plan, ok), FALSE) /\ req' = [req EXCEPT ![r] = t]
  BY DEF Answer
<1>2. q \in Request /\ q.plan \in Plans /\ q.at \in DOMAIN q.cand
  BY <1>1, LoadedIsRequest DEF TypeOK
<1>3. q.cand \in Seq(Relays) /\ q.at \in 1..Len(q.cand)
  BY <1>2 DEF Request
<1>4. req'[r] = t /\ \A x \in Requests \ {r} : req'[x] = req[x]
  BY <1>1 DEF TypeOK
<1>5. CASE ok
  <2>1. t = [q EXCEPT !.phase = "served"]
    BY <1>5
  <2>2. t \in Request /\ t.plan = q.plan /\ t.conv = q.conv /\ t.cand = q.cand
        /\ t.phase = "served" /\ t.at = q.at
    BY <1>2, <2>1 DEF Request, Over
  <2> QED
    BY <1>1, <1>2, <1>4, <1>5, <2>2 DEF TypeOK
<1>6. CASE ~ok /\ q.at < Len(q.cand)
  <2>1. q.at + 1 \in DOMAIN q.cand
    BY <1>3, <1>6
  <2>2. t = Attempt(q, q.at + 1)
    BY <1>6
  <2>3. t \in Request /\ t.plan = q.plan /\ t.conv = q.conv /\ t.cand = q.cand
        /\ t.phase \in {"sending", "refused"} /\ t.at = q.at + 1
    <3> HIDE DEF q, t
    <3> QED
      BY <1>2, <2>1, <2>2, AttemptFacts
  <2> QED
    BY <1>1, <1>2, <1>4, <1>6, <2>1, <2>3 DEF TypeOK
<1>7. CASE ~ok /\ ~(q.at < Len(q.cand))
  <2>1. t = [q EXCEPT !.phase = "exhausted"] /\ q.at = Len(q.cand)
    BY <1>3, <1>7
  <2>2. t \in Request /\ t.plan = q.plan /\ t.conv = q.conv /\ t.cand = q.cand
        /\ t.phase = "exhausted" /\ t.at = q.at
    BY <1>2, <2>1 DEF Request, Over
  <2> QED
    BY <1>1, <1>2, <1>4, <1>7, <2>1, <2>2 DEF TypeOK
<1> QED
  BY <1>5, <1>6, <1>7

LEMMA RotationInitType == Init => TypeOK
<1> SUFFICES ASSUME Init PROVE TypeOK
  OBVIOUS
<1>1. NoPicks \in [Relays -> 0..MaxPicks] /\ saves \in 0..MaxSaves
  BY BoundAssumption DEF NoPicks, Init
<1>2. req \in [Requests -> Request \union {Idle}] /\ \A r \in Requests : req[r].phase = "idle"
  BY DEF Init, Idle
<1> QED
  BY <1>1, <1>2 DEF Init, TypeOK

\* A request that leaves its attempts alone, or has them all before it.
LEMMA AtStays ==
  ASSUME TypeOK, NEW r \in Requests, \A x \in Requests \ {r} : req'[x] = req[x],
         req'[r].phase \in {"sending", "served"} => req'[r].at \in DOMAIN req'[r].cand
  PROVE  \A x \in Requests :
           req'[x].phase \in {"sending", "served"} => req'[x].at \in DOMAIN req'[x].cand
BY DEF TypeOK

LEMMA RotationTypeStep == TypeOK /\ [Next]_vars => TypeOK'
<1> SUFFICES ASSUME TypeOK, [Next]_vars PROVE TypeOK'
  OBVIOUS
<1>1. ASSUME NEW p \in Plans, Save(p) PROVE TypeOK'
  BY <1>1, BoundAssumption DEF Save, TypeOK, IsSelector
<1>2. ASSUME NEW r \in Requests, NEW conv \in Conversations \union {NoConversation}, Load(r, conv)
      PROVE TypeOK'
  <2> DEFINE q == [phase |-> "loaded", plan |-> settings, conv |-> conv, cand |-> <<>>, at |-> 0]
  <2>1. q \in Request
    BY DEF Request, TypeOK
  <2>2. req' = [req EXCEPT ![r] = q] /\ q.phase = "loaded"
    BY <1>2 DEF Load
  <2>3. UNCHANGED <<settings, selector, picks, seen, saves>>
    BY <1>2 DEF Load
  <2> HIDE DEF q
  <2>4. req' \in [Requests -> Request \union {Idle}] /\ req'[r].phase = "loaded"
        /\ \A x \in Requests \ {r} : req'[x] = req[x]
    BY <2>1, <2>2 DEF TypeOK
  <2> QED
    BY <2>3, <2>4, AtStays DEF TypeOK, IsSelector
<1>3. ASSUME NEW r \in Requests, Route(r) PROVE TypeOK'
  <2>1. req[r].phase = "loaded" /\ UNCHANGED <<settings, selector, picks, seen, saves>>
    BY <1>3 DEF Route
  <2>2. req[r].plan.route \in Seq(Relays) /\ req[r].plan.route # <<>>
    BY <2>1, LoadedIsRequest, PlanAssumption
  <2>3. /\ req' \in [Requests -> Request \union {Idle}]
        /\ \A x \in Requests \ {r} : req'[x] = req[x]
        /\ req'[r].phase \in {"sending", "served"} => req'[r].at \in DOMAIN req'[r].cand
    BY <1>3, <2>1, <2>2, StartedFacts, RefusedFacts DEF Route
  <2> QED
    BY <2>1, <2>3, AtStays DEF TypeOK, IsSelector
<1>4. ASSUME NEW r \in Requests, SelectPlain(r) PROVE TypeOK'
  <2>1. /\ req[r].phase = "loaded" /\ selector' = NoSelector /\ picks' = NoPicks
        /\ Touch(r, NoSelector, FALSE) /\ Started(r, req[r].plan.route)
        /\ UNCHANGED <<settings, saves>>
    BY <1>4 DEF SelectPlain
  <2>2. req[r].plan.route \in Seq(Relays) /\ req[r].plan.route # <<>>
    BY <2>1, LoadedIsRequest, PlanAssumption
  <2>3. /\ req' \in [Requests -> Request \union {Idle}]
        /\ \A x \in Requests \ {r} : req'[x] = req[x]
        /\ req'[r].phase \in {"sending", "served"} => req'[r].at \in DOMAIN req'[r].cand
    BY <2>1, <2>2, StartedFacts
  <2>4. NoPicks \in [Relays -> 0..MaxPicks]
    BY BoundAssumption DEF NoPicks
  <2>5. seen' \in [Requests -> {"alone", "same", "other"}]
    BY <2>1, TouchFacts
  <2> QED
    BY <2>1, <2>3, <2>4, <2>5, AtStays DEF TypeOK
<1>5. ASSUME NEW r \in Requests, SelectInvalid(r) PROVE TypeOK'
  <2>1. req[r].phase = "loaded" /\ UNCHANGED <<settings, selector, picks, seen, saves>> /\ Refused(r)
    BY <1>5 DEF SelectInvalid
  <2>2. /\ req' \in [Requests -> Request \union {Idle}]
        /\ \A x \in Requests \ {r} : req'[x] = req[x]
        /\ req'[r].phase = "refused"
    BY <2>1, RefusedFacts
  <2> QED
    BY <2>1, <2>2, AtStays DEF TypeOK, IsSelector
<1>6. ASSUME NEW r \in Requests, SelectMember(r) PROVE TypeOK'
  <2> DEFINE s == SelectorFor(req[r].plan.agg)
             base == IF s = selector THEN picks ELSE NoPicks
  <2>1. /\ IsSelector(selector') /\ Touch(r, s, TRUE)
        /\ req' \in [Requests -> Request \union {Idle}]
        /\ \A x \in Requests \ {r} : req'[x] = req[x]
        /\ req'[r].at \in DOMAIN req'[r].cand
    BY <1>6, SelectFacts
  <2>2. /\ \A x \in Relays : base[x] < MaxPicks
        /\ picks' = IF Moves(s, req[r].conv) THEN [base EXCEPT ![Picked(s, req[r].conv)] = @ + 1] ELSE base
        /\ UNCHANGED <<settings, saves>>
    BY <1>6 DEF SelectMember
  <2> HIDE DEF s
  <2>3. base \in [Relays -> 0..MaxPicks]
    BY BoundAssumption DEF TypeOK, NoPicks
  <2> HIDE DEF base
  <2>4. picks' \in [Relays -> 0..MaxPicks]
    <3>1. PICK x : x = Picked(s, req[r].conv)
      OBVIOUS
    <3>2. [base EXCEPT ![x] = @ + 1] \in [Relays -> 0..MaxPicks]
      <4>1. CASE x \in Relays
        <5>1. base[x] + 1 \in 0..MaxPicks
          BY <2>2, <2>3, <4>1, BoundAssumption
        <5> QED
          BY <2>3, <5>1
      <4>2. CASE x \notin Relays
        BY <2>3, <4>2
      <4> QED
        BY <4>1, <4>2
    <3> QED
      BY <2>2, <2>3, <3>1, <3>2
  <2>5. seen' \in [Requests -> {"alone", "same", "other"}]
    BY <2>1, TouchFacts
  <2>6. IsSelector(selector)'
    BY <2>1 DEF IsSelector
  <2> QED
    BY <2>1, <2>2, <2>4, <2>5, <2>6, AtStays DEF TypeOK
<1>7. ASSUME NEW r \in Requests, Probe(r) PROVE TypeOK'
  <2> DEFINE a == req[r].plan.agg
             s == IF a = NoAggregate THEN NoSelector
                  ELSE IF Valid(req[r].plan) THEN SelectorFor(a) ELSE selector
  <2>1. /\ req[r].phase = "loaded" /\ selector' = s /\ Touch(r, s, FALSE)
        /\ picks' = IF s = selector THEN picks ELSE NoPicks
        /\ req' = [req EXCEPT ![r] = Idle]
        /\ UNCHANGED <<settings, saves>>
    BY <1>7 DEF Probe
  <2>2. s # NoSelector => IsSelector(s)
    BY <2>1, LoadedIsRequest, FoundIsSelector DEF TypeOK
  <2> HIDE DEF s
  <2>3. picks' \in [Relays -> 0..MaxPicks]
    BY <2>1, BoundAssumption DEF TypeOK, NoPicks
  <2>4. seen' \in [Requests -> {"alone", "same", "other"}]
    BY <2>1, TouchFacts
  <2>5. /\ req' \in [Requests -> Request \union {Idle}]
        /\ \A x \in Requests \ {r} : req'[x] = req[x]
        /\ req'[r].phase = "idle"
    BY <2>1 DEF TypeOK, Idle
  <2>6. selector' # NoSelector => IsSelector(selector)'
    BY <2>1, <2>2 DEF IsSelector
  <2> QED
    BY <2>1, <2>3, <2>4, <2>5, <2>6, AtStays DEF TypeOK
<1>8. ASSUME NEW r \in Requests, NEW ok \in BOOLEAN, Answer(r, ok) PROVE TypeOK'
  <2> DEFINE s == Recorded(req[r].plan, ok)
  <2>1. /\ selector' = s /\ Touch(r, s, FALSE)
        /\ req' \in [Requests -> Request \union {Idle}]
        /\ \A x \in Requests \ {r} : req'[x] = req[x]
        /\ req'[r].phase \in {"sending", "served"} => req'[r].at \in DOMAIN req'[r].cand
    BY <1>8, AnswerFacts
  <2>2. s # NoSelector => IsSelector(s)
    BY RecordFacts
  <2>3. picks' = (IF s = NoSelector THEN NoPicks ELSE picks) /\ UNCHANGED <<settings, saves>>
    BY <1>8 DEF Answer
  <2> HIDE DEF s
  <2>4. picks' \in [Relays -> 0..MaxPicks]
    BY <2>3, BoundAssumption DEF TypeOK, NoPicks
  <2>5. seen' \in [Requests -> {"alone", "same", "other"}]
    BY <2>1, TouchFacts
  <2>6. selector' # NoSelector => IsSelector(selector)'
    BY <2>1, <2>2 DEF IsSelector
  <2> QED
    BY <2>1, <2>3, <2>4, <2>5, <2>6, AtStays DEF TypeOK
<1>9. ASSUME NEW r \in Requests, Done(r) PROVE TypeOK'
  <2>1. /\ req' = [req EXCEPT ![r] = Idle] /\ seen' = [seen EXCEPT ![r] = "other"]
        /\ UNCHANGED <<settings, selector, picks, saves>>
    BY <1>9 DEF Done
  <2>2. /\ req' \in [Requests -> Request \union {Idle}]
        /\ \A x \in Requests \ {r} : req'[x] = req[x]
        /\ req'[r].phase = "idle"
    BY <2>1 DEF TypeOK, Idle
  <2> QED
    BY <2>1, <2>2, AtStays DEF TypeOK, IsSelector
<1>10. CASE UNCHANGED vars
  BY <1>10 DEF vars, TypeOK, IsSelector
<1> QED
  BY <1>1, <1>2, <1>3, <1>4, <1>5, <1>6, <1>7, <1>8, <1>9, <1>10 DEF Next

\* The selector's index stays in the cycle of its strategy, whatever settings requests bring.
THEOREM RotationTypeCorrect == Spec => []TypeOK
<1> QED
  BY RotationInitType, RotationTypeStep, PTL DEF Spec

-----------------------------------------------------------------------------
(* Fair rotation. *)

\* What a member has of a round, and how long a round is.
Share(a, m) == IF a.strategy = "weighted" /\ m.weight > 0 THEN m.weight ELSE 1
RoundOf(a) == FoldLeft(LAMBDA n, m : n + Share(a, m), 0, a.members)

\* The length of a round is the value of a fold over the members.
LEMMA RoundFolds ==
  ASSUME NEW p \in Plans, p.agg # NoAggregate, NEW op,
         op = IF p.agg.strategy = "weighted" THEN "weigh" ELSE "count"
  PROVE  \E f : /\ f[0] = 0 /\ f[Len(p.agg.members)] = RoundOf(p.agg)
                /\ \A n \in 0..Len(p.agg.members) - 1 :
                     f[n + 1] = f[n] + Share(p.agg, p.agg.members[n + 1])
<1> DEFINE a == p.agg
           q == a.members
           Is(g) == g = [s \in SUBSET (1..Len(q)) |->
                           IF s = {} THEN 0 ELSE g[s \ {Max(s)}] + Share(a, q[Max(s)])]
<1>0. q \in Seq([relay : Relays, weight : Nat]) /\ Len(q) \in Nat /\ DOMAIN q = 1..Len(q)
  BY PlanAssumption, AggregateFacts DEF IsAggregate
<1>1. \A v, x : Folded(op, AnySlot, v, x) = v + Share(a, x)
  <2>1. \A v, x : Folded("weigh", AnySlot, v, x) = v + (IF x.weight > 0 THEN x.weight ELSE 1)
    BY DEF Folded
  <2>2. \A v, x : Folded("count", AnySlot, v, x) = v + 1
    BY DEF Folded
  <2> QED
    BY <2>1, <2>2 DEF Share
<1> HIDE DEF a, q
<1>2. \A g : Is(g) <=> Iterates(g, op, AnySlot, 0, q, Len(q))
  <2> TAKE g
  <2>1. \A s : g[s \ {Max(s)}] + Share(a, q[Max(s)]) = Folded(op, AnySlot, g[s \ {Max(s)}], q[Max(s)])
    BY <1>1
  <2> QED
    BY <2>1 DEF Iterates
<1>3. \E g : Is(g)
  <2> HIDE DEF Is
  <2> QED
    BY <1>0, <1>2, Iterated
<1>4. Is(CHOOSE g : Is(g))
  BY <1>3, Zenon
<1>5. RoundOf(a) = (CHOOSE g : Is(g))[1..Len(q)]
  BY <1>0 DEF RoundOf, FoldLeft, MapThenFoldSet, q
<1> DEFINE h == CHOOSE g : Is(g)
<1> HIDE DEF Is
<1>6. Iterates(h, op, AnySlot, 0, q, Len(q)) /\ RoundOf(a) = h[1..Len(q)]
  BY <1>2, <1>4, <1>5 DEF h
<1> HIDE DEF h
<1>7. PICK f : /\ f[0] = 0 /\ f[Len(q)] = h[1..Len(q)]
               /\ \A n \in 0..Len(q) - 1 : f[n + 1] = Folded(op, AnySlot, f[n], q[n + 1])
  <2>1. PICK z : z = 0
    OBVIOUS
  <2>2. q \in Seq([relay : Relays, weight : Nat]) /\ Iterates(h, op, AnySlot, z, q, Len(q))
    BY <1>0, <1>6, <2>1
  <2>3. \E f : /\ f[0] = z /\ f[Len(q)] = h[1..Len(q)]
               /\ \A n \in 0..Len(q) - 1 : f[n + 1] = Folded(op, AnySlot, f[n], q[n + 1])
    BY <2>2, FoldSteps
  <2> QED
    BY <2>1, <2>3
<1>8. f[Len(q)] = RoundOf(a) /\ \A n \in 0..Len(q) - 1 : f[n + 1] = f[n] + Share(a, q[n + 1])
  BY <1>1, <1>6, <1>7
<1> QED
  BY <1>7, <1>8, Zenon DEF a, q

\* A round is as long as the cycle of the strategy.
LEMMA RoundIs ==
  ASSUME NEW p \in Plans, p.agg # NoAggregate
  PROVE  RoundOf(p.agg) = Len(Cycle(p.agg))
<1> DEFINE a == p.agg
           q == a.members
<1>0. /\ Len(q) \in Nat \ {0}
      /\ \A i \in 1..Len(q) : q[i].weight \in Nat
  BY AggregateFacts
<1>1. PICK f : /\ f[0] = 0 /\ f[Len(q)] = RoundOf(a)
               /\ \A n \in 0..Len(q) - 1 : f[n + 1] = f[n] + Share(a, q[n + 1])
  BY RoundFolds
<1>2. CASE a.strategy = "weighted"
  <2>1. PICK h : Grows(h, a) /\ WeightedSchedule(a) = h[Len(q)]
    BY ScheduleGrows
  <2> DEFINE T == {i \in Nat : i \in 1..Len(q) => f[i] = Len(h[i])}
  <2>2. \A i \in 1..Len(q) : Share(a, q[i]) = Repeats(q[i]) /\ Repeats(q[i]) \in Nat
    BY <1>0, <1>2 DEF Share, Repeats
  <2>3. Len(h[1]) = Repeats(q[1]) /\ \A i \in 1..Len(q) : i > 1 => Len(h[i]) = Len(h[i - 1]) + Repeats(q[i])
    BY <2>1 DEF Grows
  <2> HIDE DEF a, q
  <2>4. 0 \in T
    OBVIOUS
  <2>5. ASSUME NEW i \in Nat, i \in T
        PROVE  i + 1 \in T
    <3> SUFFICES ASSUME i + 1 \in 1..Len(q)
                 PROVE  f[i + 1] = Len(h[i + 1])
      OBVIOUS
    <3>1. f[i + 1] = f[i] + Repeats(q[i + 1])
      BY <1>0, <1>1, <2>2
    <3>2. CASE i = 0
      <4>1. f[i + 1] = 0 + Repeats(q[1]) /\ Repeats(q[1]) \in Nat
        BY <1>0, <1>1, <2>2, <3>1, <3>2
      <4> QED
        BY <2>3, <3>2, <4>1
    <3>3. CASE i # 0
      <4>1. f[i] = Len(h[i]) /\ (i + 1) - 1 = i /\ i + 1 > 1
        BY <1>0, <2>5, <3>3
      <4> QED
        BY <2>3, <3>1, <4>1
    <3> QED
      BY <3>2, <3>3
  <2>6. Nat \subseteq T
    <3> HIDE DEF T
    <3> QED
      BY <2>4, <2>5, Induction
  <2>7. f[Len(q)] = Len(h[Len(q)])
    BY <1>0, <2>6
  <2> QED
    BY <1>1, <1>2, <2>1, <2>7 DEF Cycle, a, q
<1>3. CASE a.strategy # "weighted"
  <2> DEFINE T == {i \in Nat : i \in 0..Len(q) => f[i] = i}
  <2>1. \A m : Share(a, m) = 1
    BY <1>3 DEF Share
  <2> HIDE DEF a, q
  <2>2. 0 \in T
    BY <1>1
  <2>3. ASSUME NEW i \in Nat, i \in T
        PROVE  i + 1 \in T
    BY <1>0, <1>1, <2>1, <2>3
  <2>4. Nat \subseteq T
    <3> HIDE DEF T
    <3> QED
      BY <2>2, <2>3, Induction
  <2>5. f[Len(q)] = Len(q)
    BY <1>0, <2>4
  <2>6. Len(Cycle(a)) = Len(q)
    BY <1>3, CycleFacts, MemberFacts DEF a, q
  <2> QED
    BY <1>1, <2>5, <2>6 DEF a
<1> QED
  BY <1>2, <1>3 DEF a

\* In one round each member comes as often as its share.
LEMMA RoundShares ==
  ASSUME NEW p \in Plans, p.agg # NoAggregate, NEW j \in DOMAIN p.agg.members
  PROVE  Times(Cycle(p.agg), Len(Cycle(p.agg)), p.agg.members[j].relay) = Share(p.agg, p.agg.members[j])
<1> DEFINE a == p.agg
           q == a.members
<1>0. /\ Len(q) \in Nat \ {0} /\ j \in 1..Len(q) /\ DOMAIN q = 1..Len(q)
      /\ \A i \in 1..Len(q) : q[i].weight \in Nat
      /\ \A i \in 1..Len(q) : q[i].relay = q[j].relay => i = j
  BY AggregateFacts
<1>1. CASE a.strategy = "weighted"
  <2>1. PICK h : Grows(h, a) /\ WeightedSchedule(a) = h[Len(q)]
    BY ScheduleGrows
  <2>2. Len(q) \in 1..Len(q)
    BY <1>0
  <2>3. Times(h[Len(q)], Len(h[Len(q)]), q[j].relay) = IF j <= Len(q) THEN Repeats(q[j]) ELSE 0
    BY <1>0, <2>1, <2>2 DEF Grows
  <2>4. Share(a, q[j]) = Repeats(q[j]) /\ j <= Len(q)
    BY <1>0, <1>1 DEF Share, Repeats
  <2>5. Cycle(a) = h[Len(q)]
    BY <1>1, <2>1 DEF Cycle
  <2> QED
    BY <2>3, <2>4, <2>5
<1>2. CASE a.strategy # "weighted"
  <2> DEFINE w == Members(a)
  <2>1. Cycle(a) = w /\ Len(w) = Len(q)
    BY <1>2, CycleFacts, MemberFacts
  <2>2. \A i \in 1..Len(q) : w[i] = q[i].relay
    BY <1>0, MemberFacts
  <2> HIDE DEF w
  <2>3. {i \in 1..Len(q) : w[i] = q[j].relay} = {j}
    BY <1>0, <2>2
  <2>4. Cardinality({j}) = 1
    BY FS_Singleton
  <2>5. Share(a, q[j]) = 1
    BY <1>2 DEF Share
  <2> QED
    BY <2>1, <2>3, <2>4, <2>5 DEF Times
<1> QED
  BY <1>1, <1>2

\* How a selector has rotated: k rounds of its cycle and a part of the next.
RotatedBy(s, w, k) ==
  LET q == Cycle(s.agg)
  IN  /\ Total(w, Relays) = k * Len(q) + (s.index - 1)
      /\ \A x \in Relays : w[x] = k * Times(q, Len(q), x) + Times(q, s.index - 1, x)
Rotated(s, w) == \E k \in Nat : RotatedBy(s, w, k)

\* A new selector has not rotated.
LEMMA FreshRotated ==
  ASSUME NEW p \in Plans, p.agg # NoAggregate
  PROVE  Rotated(FreshSelector(p.agg), NoPicks)
<1> DEFINE s == FreshSelector(p.agg)
           q == Cycle(p.agg)
<1>1. s.agg = p.agg /\ s.index - 1 = 0 /\ Len(q) \in Nat
  BY CycleFacts DEF FreshSelector
<1>2. Total(NoPicks, Relays) = 0
  BY RelayAssumption, TotalFacts DEF NoPicks
<1>3. \A x \in Relays : NoPicks[x] = 0 /\ Times(q, Len(q), x) \in Nat /\ Times(q, 0, x) = 0
  BY <1>1, TimesFacts DEF NoPicks
<1> HIDE DEF s, q
<1>4. RotatedBy(s, NoPicks, 0)
  BY <1>1, <1>2, <1>3 DEF RotatedBy, q
<1> QED
  BY <1>4 DEF Rotated, s

\* A pick that moves the index keeps it rotating.
LEMMA PickRotates ==
  ASSUME NEW s, IsSelector(s), NEW conv, Moves(s, conv), NEW w \in [Relays -> Nat], Rotated(s, w)
  PROVE  Rotated(AfterPick(s, conv), [w EXCEPT ![Picked(s, conv)] = @ + 1])
<1>1. PICK p \in Plans : /\ p.agg # NoAggregate /\ s.agg = p.agg /\ s.index \in DOMAIN Cycle(p.agg)
                         /\ \E C : \E f \in [C -> Range(Members(p.agg))] : s = [agg |-> p.agg, index |-> s.index, assigned |-> f]
  BY DEF IsSelector
<1>2. PICK k \in Nat : RotatedBy(s, w, k)
  BY DEF Rotated
<1> DEFINE t == AfterPick(s, conv)
           q == Cycle(p.agg)
           i == s.index
           y == q[i]
           u == [w EXCEPT ![y] = @ + 1]
<1>3. t.agg = p.agg /\ t.index = Around(i + 1, Len(q))
  BY <1>1 DEF AfterPick, NextIndex
<1>4. Picked(s, conv) = y
  BY <1>1 DEF Moves, Picked
<1>5. Len(q) \in Nat \ {0} /\ i \in 1..Len(q) /\ y \in Relays
  BY <1>1, CycleFacts, MemberFacts
<1> HIDE DEF t, q, i
<1>6. Total(u, Relays) = Total(w, Relays) + 1
  BY <1>5, RelayAssumption, TotalFacts
<1>7. Total(w, Relays) = k * Len(q) + (i - 1)
      /\ \A x \in Relays : w[x] = k * Times(q, Len(q), x) + Times(q, i - 1, x)
  BY <1>1, <1>2 DEF RotatedBy, q, i
<1>8. \A x \in Relays : u[x] = w[x] + (IF y = x THEN 1 ELSE 0)
  BY <1>5
<1>9. ASSUME NEW x \in Relays
      PROVE  /\ Times(q, i, x) = Times(q, i - 1, x) + (IF y = x THEN 1 ELSE 0)
             /\ Times(q, i, x) \in Nat /\ Times(q, i - 1, x) \in Nat /\ Times(q, Len(q), x) \in Nat /\ Times(q, 0, x) = 0
  <2>1. i - 1 \in Nat /\ (i - 1) + 1 = i
    BY <1>5
  <2>2. \A n \in Nat : Times(q, n + 1, x) = Times(q, n, x) + (IF q[n + 1] = x THEN 1 ELSE 0)
    BY TimesFacts
  <2>3. \A n \in Nat : Times(q, n, x) \in Nat /\ Times(q, 0, x) = 0
    BY TimesFacts
  <2>4. Times(q, i, x) = Times(q, i - 1, x) + (IF q[i] = x THEN 1 ELSE 0)
    BY <2>1, <2>2
  <2> QED
    BY <1>5, <2>1, <2>3, <2>4
<1>10. \A x \in Relays : u[x] = k * Times(q, Len(q), x) + Times(q, i, x)
  <2> TAKE x \in Relays
  <2> DEFINE kt == k * Times(q, Len(q), x)
  <2>1. kt \in Int
    BY <1>9
  <2>2. w[x] = kt + Times(q, i - 1, x)
    BY <1>7
  <2> HIDE DEF kt, u
  <2>3. u[x] = kt + Times(q, i, x)
    BY <1>8, <1>9, <2>1, <2>2
  <2> QED
    BY <2>3 DEF kt
<1> HIDE DEF y, u
<1>11. CASE i < Len(q)
  <2>1. t.index = i + 1 /\ t.index - 1 = i
    BY <1>3, <1>5, <1>11 DEF Around
  <2>2. Total(u, Relays) = k * Len(q) + i
    <3> DEFINE kl == k * Len(q)
    <3>1. kl \in Int /\ Total(w, Relays) = kl + (i - 1)
      BY <1>5, <1>7
    <3> HIDE DEF kl
    <3>2. Total(u, Relays) = kl + i
      BY <1>5, <1>6, <3>1
    <3> QED
      BY <3>2 DEF kl
  <2>3. RotatedBy(t, u, k)
    BY <1>3, <1>10, <2>1, <2>2 DEF RotatedBy, q
  <2> QED
    BY <1>4, <2>3 DEF Rotated, t, u
<1>12. CASE i = Len(q)
  <2>1. t.index = 1 /\ t.index - 1 = 0
    BY <1>3, <1>5, <1>12 DEF Around
  <2>2. \A m \in Nat : (k + 1) * m = k * m + m
    OBVIOUS
  <2>3. Total(u, Relays) = (k + 1) * Len(q) + 0
    <3> DEFINE kl == k * Len(q)
    <3>1. kl \in Int /\ Total(w, Relays) = kl + (i - 1)
      BY <1>5, <1>7
    <3> HIDE DEF kl
    <3>2. Total(u, Relays) = kl + Len(q)
      BY <1>5, <1>6, <1>12, <3>1
    <3>3. (k + 1) * Len(q) = kl + Len(q)
      BY <1>5, <2>2 DEF kl
    <3> QED
      BY <1>5, <3>1, <3>2, <3>3
  <2>4. ASSUME NEW x \in Relays
        PROVE  u[x] = (k + 1) * Times(q, Len(q), x) + Times(q, 0, x)
    <3> DEFINE kt == k * Times(q, Len(q), x)
    <3>1. kt \in Int /\ (k + 1) * Times(q, Len(q), x) = kt + Times(q, Len(q), x)
      BY <1>9, <2>2
    <3>2. u[x] = kt + Times(q, Len(q), x)
      BY <1>10, <1>12
    <3> HIDE DEF kt
    <3> QED
      BY <1>9, <3>1, <3>2
  <2>5. RotatedBy(t, u, k + 1)
    BY <1>3, <2>1, <2>3, <2>4 DEF RotatedBy, q
  <2> QED
    BY <1>4, <2>5 DEF Rotated, t, u
<1> QED
  BY <1>5, <1>11, <1>12

\* Nothing is counted before there is a selector; then it has rotated.
Even ==
  \/ selector = NoSelector /\ picks = NoPicks
  \/ IsSelector(selector) /\ (selector.agg.strategy # "failover" => Rotated(selector, picks))

\* A selector that has rotated is fair to its members.
LEMMA EvenIsFair == TypeOK /\ Even => Fair
<1> SUFFICES ASSUME TypeOK, Even, selector # NoSelector, selector.agg.strategy # "failover",
                    NEW m \in Range(selector.agg.members)
             PROVE  LET rounds == FoldFunction(+, 0, picks) \div RoundOf(selector.agg)
                    IN  /\ rounds * Share(selector.agg, m) <= picks[m.relay]
                        /\ picks[m.relay] <= (rounds + 1) * Share(selector.agg, m)
  BY DEF Fair, RoundOf, Share
<1>1. PICK p \in Plans : p.agg # NoAggregate /\ selector.agg = p.agg /\ selector.index \in DOMAIN Cycle(p.agg)
  BY DEF TypeOK, IsSelector
<1>2. PICK k \in Nat : RotatedBy(selector, picks, k)
  BY DEF Even, Rotated
<1> DEFINE q == Cycle(p.agg)
           i == selector.index - 1
<1>3. Len(q) \in Nat \ {0} /\ i \in 0..Len(q) - 1
  BY <1>1, CycleFacts
<1>4. PICK j \in DOMAIN p.agg.members : m = p.agg.members[j]
  BY <1>1 DEF Range
<1>5. m.relay \in Relays
  BY <1>1, <1>4, AggregateFacts
<1>6. RoundOf(selector.agg) = Len(q)
  BY <1>1, RoundIs
<1>7. FoldFunction(+, 0, picks) = Total(picks, Relays)
  BY DEF FoldFunction, Total, TypeOK
<1>8. Total(picks, Relays) = k * Len(q) + i
  BY <1>1, <1>2 DEF RotatedBy
<1> HIDE DEF q, i
<1>9. (k * Len(q) + i) \div Len(q) = k
  <2>1. \A l \in Nat \ {0} : \A r \in 0..l - 1 : (k * l + r) \div l = k
    OBVIOUS
  <2> QED
    BY <1>3, <2>1
<1> DEFINE share == Share(selector.agg, m)
<1>10. share = Times(q, Len(q), m.relay)
  BY <1>1, <1>4, RoundShares DEF q
<1>11. share \in Nat /\ Times(q, i, m.relay) \in 0..share
  <2>1. \A n \in 0..Len(q) : Times(q, n, m.relay) <= Times(q, Len(q), m.relay)
    BY <1>3, TimesFacts
  <2>2. \A n \in Nat : Times(q, n, m.relay) \in Nat
    BY TimesFacts
  <2> QED
    BY <1>3, <1>10, <2>1, <2>2
<1>12. picks[m.relay] = k * share + Times(q, i, m.relay)
  BY <1>1, <1>2, <1>5, <1>10 DEF RotatedBy, q, i
<1> HIDE DEF share
<1>13. k * share <= picks[m.relay] /\ picks[m.relay] <= (k + 1) * share
  <2> DEFINE ks == k * share
  <2>1. ks \in Int /\ (k + 1) * share = ks + share
    BY <1>11
  <2> HIDE DEF ks
  <2>2. ks <= picks[m.relay] /\ picks[m.relay] <= ks + share
    BY <1>11, <1>12, <2>1 DEF ks
  <2> QED
    BY <2>1, <2>2 DEF ks
<1> QED
  BY <1>6, <1>7, <1>8, <1>9, <1>13 DEF share

\* So it is at first.
LEMMA EvenInit == Init => Even
BY DEF Init, Even

\* A request that finds or makes a selector finds it rotated.
LEMMA FoundEven ==
  ASSUME TypeOK, Even, NEW p \in Plans, p.agg # NoAggregate, p.agg.strategy # "failover",
         NEW base, base = IF SelectorFor(p.agg) = selector THEN picks ELSE NoPicks
  PROVE  Rotated(SelectorFor(p.agg), base)
<1>1. CASE selector # NoSelector /\ selector.agg = p.agg
  BY <1>1 DEF SelectorFor, Even
<1>2. CASE ~(selector # NoSelector /\ selector.agg = p.agg)
  <2>1. SelectorFor(p.agg) = FreshSelector(p.agg) /\ FreshSelector(p.agg).agg = p.agg
    BY <1>2, FreshIsSelector DEF SelectorFor
  <2>2. CASE base = NoPicks
    BY <2>1, <2>2, FreshRotated
  <2>3. CASE base # NoPicks
    <3>1. SelectorFor(p.agg) = selector /\ base = picks /\ selector.agg = p.agg
      BY <2>1, <2>3
    <3> QED
      BY <2>3, <3>1 DEF Even
  <2> QED
    BY <2>2, <2>3
<1> QED
  BY <1>1, <1>2

\* A selection keeps it.
LEMMA SelectEven ==
  ASSUME TypeOK, Even, NEW r \in Requests, SelectMember(r)
  PROVE  Even'
<1> DEFINE a == req[r].plan.agg
           conv == req[r].conv
           s == SelectorFor(a)
           base == IF s = selector THEN picks ELSE NoPicks
<1>1. /\ req[r].phase = "loaded" /\ a # NoAggregate
      /\ selector' = AfterPick(s, conv)
      /\ picks' = IF Moves(s, conv) THEN [base EXCEPT ![Picked(s, conv)] = @ + 1] ELSE base
      /\ \A x \in Relays : base[x] < MaxPicks
  BY DEF SelectMember
<1>2. req[r].plan \in Plans /\ conv \in Conversations \union {NoConversation}
  BY <1>1, LoadedIsRequest
<1>3. IsSelector(s) /\ s.agg = a
  BY <1>1, <1>2, FoundIsSelector
<1>4. IsSelector(AfterPick(s, conv)) /\ AfterPick(s, conv).agg = a
  BY <1>2, <1>3, PickFacts
<1>5. base \in [Relays -> Nat]
  BY BoundAssumption DEF TypeOK, NoPicks
<1>6. a.strategy # "failover" => Rotated(s, base)
  BY <1>1, <1>2, FoundEven
<1> HIDE DEF a, conv, s, base
<1>7. a.strategy # "failover" => Rotated(selector', picks')
  <2>1. CASE Moves(s, conv)
    BY <1>1, <1>3, <1>5, <1>6, <2>1, PickRotates
  <2>2. CASE ~Moves(s, conv)
    BY <1>1, <1>6, <2>2 DEF AfterPick
  <2> QED
    BY <2>1, <2>2
<1>8. IsSelector(selector') /\ (selector'.agg.strategy # "failover" => Rotated(selector', picks'))
  BY <1>1, <1>4, <1>7
<1> QED
  BY <1>8 DEF Even, IsSelector, Rotated, RotatedBy

\* So does a request that only looks.
LEMMA ProbeEven ==
  ASSUME TypeOK, Even, NEW r \in Requests, Probe(r)
  PROVE  Even'
<1> DEFINE a == req[r].plan.agg
           s == IF a = NoAggregate THEN NoSelector
                ELSE IF Valid(req[r].plan) THEN SelectorFor(a) ELSE selector
<1>1. /\ req[r].phase = "loaded" /\ selector' = s
      /\ picks' = IF s = selector THEN picks ELSE NoPicks
  BY DEF Probe
<1>2. req[r].plan \in Plans
  BY <1>1, LoadedIsRequest
<1>3. CASE s = selector
  BY <1>1, <1>3 DEF Even, IsSelector, Rotated, RotatedBy
<1>4. CASE s # selector /\ a = NoAggregate
  BY <1>1, <1>4 DEF Even, NoPicks
<1>5. CASE s # selector /\ a # NoAggregate
  <2>1. s = SelectorFor(a) /\ IsSelector(s) /\ s.agg = a
    BY <1>2, <1>5, FoundIsSelector
  <2>2. a.strategy # "failover" => Rotated(s, NoPicks)
    <3> HIDE DEF s
    <3> QED
      BY <1>2, <1>5, <2>1, FoundEven
  <2> HIDE DEF a, s
  <2>3. IsSelector(selector') /\ (selector'.agg.strategy # "failover" => Rotated(selector', picks'))
    BY <1>1, <1>5, <2>1, <2>2
  <2> QED
    BY <2>3 DEF Even, IsSelector, Rotated, RotatedBy
<1> QED
  BY <1>3, <1>4, <1>5

\* So does an upstream's answer.
LEMMA AnswerEven ==
  ASSUME TypeOK, Even, NEW r \in Requests, NEW ok \in BOOLEAN, Answer(r, ok)
  PROVE  Even'
<1> DEFINE s == Recorded(req[r].plan, ok)
<1>1. selector' = s /\ picks' = IF s = NoSelector THEN NoPicks ELSE picks
  BY DEF Answer
<1>2. CASE s = NoSelector
  BY <1>1, <1>2 DEF Even, NoPicks
<1>3. CASE s # NoSelector
  <2>1. selector # NoSelector /\ IsSelector(s) /\ s.agg = selector.agg
    BY <1>3, RecordFacts
  <2>2. selector.agg.strategy # "failover" => s = selector /\ Rotated(selector, picks)
    BY <1>3, <2>1 DEF Recorded, Even
  <2> HIDE DEF s
  <2>3. IsSelector(selector') /\ (selector'.agg.strategy # "failover" => Rotated(selector', picks'))
    BY <1>1, <1>3, <2>1, <2>2
  <2> QED
    BY <2>3 DEF Even, IsSelector, Rotated, RotatedBy
<1> QED
  BY <1>2, <1>3

\* Every step keeps it.
LEMMA EvenStep == TypeOK /\ Even /\ [Next]_vars => Even'
<1> SUFFICES ASSUME TypeOK, Even, [Next]_vars PROVE Even'
  OBVIOUS
<1>1. CASE UNCHANGED <<selector, picks>>
  BY <1>1 DEF Even, IsSelector, Rotated, RotatedBy
<1>2. ASSUME NEW r \in Requests, SelectPlain(r)
      PROVE  Even'
  BY <1>2 DEF SelectPlain, Even, NoPicks
<1>3. ASSUME NEW p \in Plans, Save(p)
      PROVE  Even'
  BY <1>1, <1>3 DEF Save
<1>4. ASSUME NEW r \in Requests, NEW conv \in Conversations \union {NoConversation}, Load(r, conv)
      PROVE  Even'
  BY <1>1, <1>4 DEF Load
<1>5. ASSUME NEW r \in Requests, Route(r) \/ SelectInvalid(r) \/ Done(r)
      PROVE  Even'
  BY <1>1, <1>5 DEF Route, SelectInvalid, Done
<1>6. CASE UNCHANGED vars
  BY <1>1, <1>6 DEF vars
<1> QED
  BY <1>2, <1>3, <1>4, <1>5, <1>6, SelectEven, ProbeEven, AnswerEven DEF Next

\* Whatever requests overlap, however often the settings change and whatever the weights: after any
\* number of picks each member of a rotating aggregate has had its share of every full round and at
\* most its share of the one under way (RelayRotationSelector::select under the mutex of GLOBAL_SELECTOR).
THEOREM FairAlways == Spec => []Fair
<1>1. Spec => [](TypeOK /\ Even)
  BY RotationInitType, RotationTypeStep, EvenInit, EvenStep, PTL DEF Spec
<1> QED
  BY <1>1, EvenIsFair, PTL

-----------------------------------------------------------------------------
(* A request that gives up has tried every member. *)

Complete(q) ==
  q.phase \in {"sending", "served", "exhausted"} /\ q.plan.agg # NoAggregate =>
    /\ Len(q.cand) = Len(q.plan.agg.members) /\ Range(q.cand) = Range(Members(q.plan.agg))
    /\ q.phase = "exhausted" => q.at = Len(q.cand)

AllComplete == \A r \in Requests : Complete(req[r])

\* A step changes one request.
LEMMA OneRequestCompletes ==
  ASSUME AllComplete, NEW r \in Requests, \A x \in Requests \ {r} : req'[x] = req[x],
         Complete(req'[r])
  PROVE  AllComplete'
<1>1. \A x \in Requests : Complete(req'[x])
  BY DEF AllComplete
<1> QED
  BY <1>1 DEF AllComplete, Complete

LEMMA CompleteStep == TypeOK /\ AllComplete /\ [Next]_vars => AllComplete'
<1> SUFFICES ASSUME TypeOK, AllComplete, [Next]_vars PROVE AllComplete'
  OBVIOUS
<1>1. ASSUME NEW p \in Plans, Save(p) PROVE AllComplete'
  BY <1>1 DEF Save, AllComplete, Complete
<1>2. ASSUME NEW r \in Requests, NEW conv \in Conversations \union {NoConversation}, Load(r, conv)
      PROVE AllComplete'
  <2>1. req'[r].phase = "loaded" /\ \A x \in Requests \ {r} : req'[x] = req[x]
    BY <1>2 DEF Load, TypeOK
  <2> QED
    BY <2>1, OneRequestCompletes DEF Complete
<1>3. ASSUME NEW r \in Requests, Route(r) PROVE AllComplete'
  <2>1. req[r].phase = "loaded" /\ req[r].plan.hot
    BY <1>3 DEF Route
  <2>2. /\ req[r].plan.route \in Seq(Relays) /\ req[r].plan.route # <<>>
        /\ req[r].plan.agg = NoAggregate
    BY <2>1, LoadedIsRequest, PlanAssumption
  <2>3. req'[r].plan = req[r].plan /\ \A x \in Requests \ {r} : req'[x] = req[x]
    BY <1>3, <2>1, <2>2, StartedFacts, RefusedFacts DEF Route
  <2> QED
    BY <2>2, <2>3, OneRequestCompletes DEF Complete
<1>4. ASSUME NEW r \in Requests, SelectPlain(r) PROVE AllComplete'
  <2>1. req[r].phase = "loaded" /\ req[r].plan.agg = NoAggregate /\ Started(r, req[r].plan.route)
    BY <1>4 DEF SelectPlain
  <2>2. req[r].plan.route \in Seq(Relays) /\ req[r].plan.route # <<>>
    BY <2>1, LoadedIsRequest, PlanAssumption
  <2>3. req'[r].plan = req[r].plan /\ \A x \in Requests \ {r} : req'[x] = req[x]
    BY <2>1, <2>2, StartedFacts
  <2> QED
    BY <2>1, <2>3, OneRequestCompletes DEF Complete
<1>5. ASSUME NEW r \in Requests, SelectInvalid(r) PROVE AllComplete'
  <2>1. req[r].phase = "loaded" /\ Refused(r)
    BY <1>5 DEF SelectInvalid
  <2>2. req'[r].phase = "refused" /\ \A x \in Requests \ {r} : req'[x] = req[x]
    BY <2>1, RefusedFacts
  <2> QED
    BY <2>2, OneRequestCompletes DEF Complete
<1>6. ASSUME NEW r \in Requests, SelectMember(r) PROVE AllComplete'
  <2> DEFINE p == req[r].plan
             relay == Picked(SelectorFor(p.agg), req[r].conv)
  <2>1. /\ p \in Plans /\ p.agg # NoAggregate /\ relay \in Range(Members(p.agg))
        /\ \A x \in Requests \ {r} : req'[x] = req[x]
        /\ req'[r].phase \in {"sending", "refused"}
        /\ req'[r].cand = Candidates(p.agg, relay) /\ req'[r].plan = p
    BY <1>6, SelectFacts
  <2> HIDE DEF p, relay
  <2>2. /\ Len(req'[r].cand) = Len(p.agg.members)
        /\ Range(req'[r].cand) = Range(Members(p.agg))
    BY <2>1, PickedCandidates
  <2> QED
    BY <2>1, <2>2, OneRequestCompletes DEF Complete
<1>7. ASSUME NEW r \in Requests, Probe(r) PROVE AllComplete'
  <2>1. req'[r].phase = "idle" /\ \A x \in Requests \ {r} : req'[x] = req[x]
    BY <1>7 DEF Probe, TypeOK, Idle
  <2> QED
    BY <2>1, OneRequestCompletes DEF Complete
<1>8. ASSUME NEW r \in Requests, NEW ok \in BOOLEAN, Answer(r, ok) PROVE AllComplete'
  <2>1. /\ req[r].phase = "sending"
        /\ \A x \in Requests \ {r} : req'[x] = req[x]
        /\ req'[r].plan = req[r].plan /\ req'[r].cand = req[r].cand
        /\ req'[r].phase = "exhausted" => req'[r].at = Len(req'[r].cand)
    BY <1>8, AnswerFacts
  <2>2. Complete(req'[r])
    BY <2>1 DEF AllComplete, Complete
  <2> QED
    BY <2>1, <2>2, OneRequestCompletes
<1>9. ASSUME NEW r \in Requests, Done(r) PROVE AllComplete'
  <2>1. req'[r].phase = "idle" /\ \A x \in Requests \ {r} : req'[x] = req[x]
    BY <1>9 DEF Done, TypeOK, Idle
  <2> QED
    BY <2>1, OneRequestCompletes DEF Complete
<1>10. CASE UNCHANGED vars
  BY <1>10 DEF vars, AllComplete, Complete
<1> QED
  BY <1>1, <1>2, <1>3, <1>4, <1>5, <1>6, <1>7, <1>8, <1>9, <1>10 DEF Next

\* Whatever happens to the selector meanwhile, a request that gives up has tried every
\* member of its own aggregate.
THEOREM TriedAllAlways == Spec => []TriedAll
<1>1. Init => AllComplete
  BY DEF Init, AllComplete, Complete, Idle
<1>2. AllComplete => TriedAll
  BY DEF AllComplete, Complete, TriedAll
<1> QED
  BY <1>1, <1>2, CompleteStep, RotationTypeCorrect, PTL DEF Spec

-----------------------------------------------------------------------------
(* What a request may still say of the selector that chose for it. *)

\* Failover: the index is at the candidate being tried.
Lands(q) ==
  /\ q.plan.agg = selector.agg
  /\ \E j \in DOMAIN q.plan.agg.members :
       /\ q.cand = Candidates(q.plan.agg, q.plan.agg.members[j].relay)
       /\ selector.index = Around(j + q.at - 1, Len(q.plan.agg.members))

Remembered(q) == q.conv \in DOMAIN selector.assigned /\ selector.assigned[q.conv] = q.cand[1]

\* Before it selects, a request has no selector; afterwards it has its own until that one
\* is gone.
Knows(r) ==
  /\ req[r].phase \in {"idle", "loaded"} => seen[r] = "other"
  /\ /\ seen[r] = "alone" /\ req[r].phase \in {"sending", "served"}
     /\ selector # NoSelector /\ selector.agg.strategy = "failover"
     => Lands(req[r])
  /\ /\ seen[r] # "other" /\ Chosen(r)
     /\ selector # NoSelector /\ selector.agg.strategy = "conversation"
     /\ req[r].conv # NoConversation
     => Remembered(req[r])

KnowsAll == \A r \in Requests : Knows(r)

\* What a step of r makes of another request's knowledge of the selector.
LEMMA TouchOthers ==
  ASSUME NEW r \in Requests, NEW s, NEW chose \in BOOLEAN, Touch(r, s, chose),
         NEW x \in Requests \ {r}, seen'[x] # "other"
  PROVE  /\ seen[x] # "other" /\ selector # NoSelector /\ s # NoSelector
         /\ s.agg = selector.agg
         /\ seen'[x] = "alone" => s = selector /\ seen[x] = "alone"
BY DEF Touch

LEMMA TouchOwn ==
  ASSUME NEW r \in Requests, NEW s, Touch(r, s, FALSE), seen'[r] # "other"
  PROVE  /\ seen'[r] = seen[r] /\ selector # NoSelector /\ s # NoSelector
         /\ s.agg = selector.agg
BY DEF Touch

\* A request that another one's step leaves alone knows what it knew, when the selector
\* is the same for failover, and keeps its conversations.
LEMMA OthersKnow ==
  ASSUME NEW r \in Requests, Knows(r), req'[r] = req[r],
         seen'[r] # "other" =>
           /\ seen[r] # "other" /\ selector # NoSelector /\ selector'.agg = selector.agg
           /\ selector.agg.strategy = "failover" /\ seen'[r] = "alone" =>
                selector' = selector /\ seen[r] = "alone"
           /\ selector.agg.strategy = "conversation" =>
                \A d \in DOMAIN selector.assigned :
                  d \in DOMAIN selector'.assigned /\ selector'.assigned[d] = selector.assigned[d]
  PROVE  Knows(r)'
<1>1. (req[r].phase \in {"idle", "loaded"} => seen[r] = "other")'
  BY DEF Knows
<1>2. ASSUME seen'[r] = "alone", req'[r].phase \in {"sending", "served"},
             selector' # NoSelector, selector'.agg.strategy = "failover"
      PROVE  Lands(req[r])'
  BY <1>2 DEF Knows, Lands
<1>3. ASSUME seen'[r] # "other", Chosen(r)', selector' # NoSelector,
             selector'.agg.strategy = "conversation", req'[r].conv # NoConversation
      PROVE  Remembered(req[r])'
  BY <1>3 DEF Knows, Remembered, Chosen
<1> QED
  BY <1>1, <1>2, <1>3 DEF Knows

LEMMA NobodyKnows ==
  ASSUME NEW r \in Requests, seen'[r] = "other"
  PROVE  Knows(r)'
BY DEF Knows

\* A step that leaves the selector and what is known of it alone.
LEMMA QuietKnows ==
  ASSUME TypeOK, KnowsAll, NEW r \in Requests, \A x \in Requests \ {r} : req'[x] = req[x],
         UNCHANGED <<selector, seen>>, seen[r] = "other"
  PROVE  KnowsAll'
<1>1. ASSUME NEW x \in Requests \ {r} PROVE Knows(x)'
  BY <1>1 DEF KnowsAll, Knows, Lands, Remembered, Chosen
<1>2. Knows(r)'
  BY NobodyKnows
<1> QED
  BY <1>1, <1>2 DEF KnowsAll

LEMMA SelectKnows ==
  ASSUME TypeOK, KnowsAll, NEW r \in Requests, SelectMember(r)
  PROVE  KnowsAll'
<1> DEFINE p == req[r].plan
           s == SelectorFor(p.agg)
           conv == req[r].conv
<1>1. /\ p \in Plans /\ p.agg # NoAggregate
      /\ IsSelector(s) /\ s.agg = p.agg
      /\ selector'.agg = p.agg /\ selector' = AfterPick(s, conv)
      /\ conv \in Conversations \union {NoConversation}
      /\ Picked(s, conv) \in Range(Members(p.agg))
      /\ Touch(r, s, TRUE)
      /\ \A x \in Requests \ {r} : req'[x] = req[x]
      /\ req'[r].phase \in {"sending", "refused"} /\ req'[r].at = 1
      /\ req'[r].cand = Candidates(p.agg, Picked(s, conv)) /\ req'[r].plan = p /\ req'[r].conv = conv
  BY SelectFacts
<1> HIDE DEF p, s, conv
<1>2. /\ s.agg.strategy = "failover" =>
           AfterPick(s, conv) = s /\ Picked(s, conv) = Members(s.agg)[s.index]
           /\ s.index \in DOMAIN s.agg.members
      /\ s.agg.strategy = "conversation" =>
           /\ \A d \in DOMAIN s.assigned : /\ d \in DOMAIN AfterPick(s, conv).assigned
                                           /\ AfterPick(s, conv).assigned[d] = s.assigned[d]
           /\ conv # NoConversation => /\ conv \in DOMAIN AfterPick(s, conv).assigned
                                    /\ AfterPick(s, conv).assigned[conv] = Picked(s, conv)
  BY <1>1, PickFacts
<1>3. ASSUME NEW x \in Requests \ {r} PROVE Knows(x)'
  <2>1. seen'[x] # "other" =>
          /\ seen[x] # "other" /\ selector # NoSelector /\ s.agg = selector.agg
          /\ seen'[x] = "alone" => s = selector /\ seen[x] = "alone"
    BY <1>1, TouchOthers
  <2>2. seen'[x] # "other" => s = selector
    BY <1>1, <2>1 DEF SelectorFor, s
  <2>3. Knows(x) /\ req'[x] = req[x]
    BY <1>1 DEF KnowsAll
  <2> QED
    BY <1>1, <1>2, <2>1, <2>2, <2>3, OthersKnow
<1>4. Knows(r)'
  <2>1. ASSUME s.agg.strategy = "failover" PROVE Lands(req[r])'
    <3>1. s.index \in DOMAIN p.agg.members /\ selector' = s
          /\ Picked(s, conv) = p.agg.members[s.index].relay
      BY <1>1, <1>2, <2>1, MemberFacts
    <3>2. Len(p.agg.members) \in Nat /\ s.index \in 1..Len(p.agg.members)
      BY <1>1, <3>1, AggregateFacts
    <3>3. s.index = Around(s.index + 1 - 1, Len(p.agg.members))
      BY <3>2 DEF Around
    <3> QED
      BY <1>1, <3>1, <3>3 DEF Lands
  <2>2. ASSUME s.agg.strategy = "conversation", conv # NoConversation PROVE Remembered(req[r])'
    <3>1. req'[r].cand[1] = Picked(s, conv)
      BY <1>1, PickedCandidates
    <3> QED
      BY <1>1, <1>2, <2>2, <3>1 DEF Remembered
  <2> QED
    BY <1>1, <2>1, <2>2 DEF Knows
<1> QED
  BY <1>3, <1>4 DEF KnowsAll

\* The index moves on with the request that failed.
LEMMA NextLands ==
  ASSUME NEW n \in Nat \ {0}, NEW j \in 1..n, NEW at \in 1..n, at < n
  PROVE  Around(Around(j + at - 1, n) + 1, n) = Around(j + (at + 1) - 1, n)
BY DEF Around

LEMMA AnswerKnows ==
  ASSUME TypeOK, KnowsAll, NEW r \in Requests, NEW ok \in BOOLEAN, Answer(r, ok)
  PROVE  KnowsAll'
<1> DEFINE q == req[r]
           s == Recorded(q.plan, ok)
<1>1. /\ q \in Request /\ q.plan \in Plans /\ q.phase = "sending" /\ q.at \in DOMAIN q.cand
      /\ selector' = s /\ Touch(r, s, FALSE)
      /\ \A x \in Requests \ {r} : req'[x] = req[x]
      /\ req'[r].plan = q.plan /\ req'[r].conv = q.conv /\ req'[r].cand = q.cand
      /\ \/ ok /\ req'[r].phase = "served" /\ req'[r].at = q.at
         \/ /\ ~ok /\ q.at < Len(q.cand)
            /\ req'[r].phase \in {"sending", "refused"}
            /\ req'[r].at = q.at + 1 /\ q.at + 1 \in DOMAIN q.cand
         \/ ~ok /\ q.at = Len(q.cand) /\ req'[r].phase = "exhausted" /\ req'[r].at = q.at
  BY AnswerFacts
<1>2. s # NoSelector =>
        /\ selector # NoSelector /\ q.plan.agg # NoAggregate
        /\ s.agg = selector.agg /\ s.assigned = selector.assigned
        /\ ok => s = selector
        /\ selector.agg.strategy = "failover" /\ ~ok => s.index = NextIndex(selector)
  BY RecordFacts
<1>3. Knows(r) /\ \A x \in Requests : Knows(x)
  BY DEF KnowsAll
<1> HIDE DEF s
<1>4. ASSUME NEW x \in Requests \ {r} PROVE Knows(x)'
  <2>1. seen'[x] # "other" =>
          /\ seen[x] # "other" /\ selector # NoSelector /\ s # NoSelector /\ s.agg = selector.agg
          /\ seen'[x] = "alone" => s = selector /\ seen[x] = "alone"
    BY <1>1, TouchOthers
  <2> QED
    BY <1>1, <1>2, <1>3, <2>1, OthersKnow
<1>5. Knows(r)'
  <2>1. seen'[r] # "other" =>
          seen'[r] = seen[r] /\ selector # NoSelector /\ s # NoSelector /\ s.agg = selector.agg
    BY <1>1, TouchOwn
  <2>2. ASSUME seen'[r] = "alone", req'[r].phase \in {"sending", "served"},
               selector' # NoSelector, selector'.agg.strategy = "failover"
        PROVE  Lands(req[r])'
    <3>1. s # NoSelector /\ seen[r] = "alone" /\ selector # NoSelector
          /\ selector.agg.strategy = "failover" /\ s.agg = selector.agg
      BY <1>1, <2>1, <2>2
    <3>2. Lands(q)
      BY <1>1, <1>3, <3>1 DEF Knows
    <3>3. CASE ok
      BY <1>1, <1>2, <3>1, <3>2, <3>3 DEF Lands
    <3>4. CASE ~ok
      <4>1. q.plan.agg = selector.agg /\ q.plan.agg # NoAggregate
        BY <1>2, <3>1, <3>2 DEF Lands
      <4>2. PICK j \in DOMAIN q.plan.agg.members :
              /\ q.cand = Candidates(q.plan.agg, q.plan.agg.members[j].relay)
              /\ selector.index = Around(j + q.at - 1, Len(q.plan.agg.members))
        BY <3>2 DEF Lands
      <4> DEFINE n == Len(q.plan.agg.members)
      <4>3. n \in Nat \ {0} /\ j \in 1..n
        BY <1>1, <4>1, AggregateFacts
      <4>4. Len(q.cand) = n /\ DOMAIN q.cand = 1..n
        <5>1. q.cand \in Seq(Relays) /\ Len(q.cand) = n
          BY <1>1, <4>1, <4>2, CandidateFacts
        <5> QED
          BY <5>1
      <4>5. req'[r].at = q.at + 1 /\ q.at \in 1..n /\ q.at < n
        BY <1>1, <2>2, <3>4, <4>4
      <4>6. s.index = Around(selector.index + 1, n)
        <5>1. Len(Cycle(selector.agg)) = n
          BY <1>1, <3>1, <4>1, CycleFacts, MemberFacts
        <5> QED
          BY <1>2, <3>1, <3>4, <5>1 DEF NextIndex
      <4>7. s.index = Around(j + req'[r].at - 1, n)
        BY <4>2, <4>3, <4>5, <4>6, NextLands
      <4> QED
        BY <1>1, <3>1, <4>1, <4>2, <4>7 DEF Lands
    <3> QED
      BY <3>3, <3>4
  <2>3. ASSUME seen'[r] # "other", Chosen(r)', selector' # NoSelector,
               selector'.agg.strategy = "conversation", req'[r].conv # NoConversation
        PROVE  Remembered(req[r])'
    <3>1. Remembered(q)
      BY <1>1, <1>2, <1>3, <2>1, <2>3 DEF Knows, Chosen
    <3> QED
      BY <1>1, <1>2, <2>1, <2>3, <3>1 DEF Remembered
  <2> QED
    BY <1>1, <2>2, <2>3 DEF Knows, Over
<1> QED
  BY <1>4, <1>5 DEF KnowsAll

LEMMA KnowsStep == TypeOK /\ KnowsAll /\ [Next]_vars => KnowsAll'
<1> SUFFICES ASSUME TypeOK, KnowsAll, [Next]_vars PROVE KnowsAll'
  OBVIOUS
<1>1. ASSUME NEW p \in Plans, Save(p) PROVE KnowsAll'
  BY <1>1 DEF Save, KnowsAll, Knows, Lands, Remembered, Chosen
<1>2. ASSUME NEW r \in Requests, NEW conv \in Conversations \union {NoConversation}, Load(r, conv)
      PROVE KnowsAll'
  <2>1. req[r].phase = "idle" /\ UNCHANGED <<selector, seen>>
        /\ \A x \in Requests \ {r} : req'[x] = req[x]
    BY <1>2 DEF Load, TypeOK
  <2> QED
    BY <2>1, QuietKnows DEF KnowsAll, Knows
<1>3. ASSUME NEW r \in Requests, Route(r) PROVE KnowsAll'
  <2>1. req[r].phase = "loaded" /\ req[r].plan.hot /\ UNCHANGED <<selector, seen>>
    BY <1>3 DEF Route
  <2>2. req[r].plan.route \in Seq(Relays) /\ req[r].plan.route # <<>>
    BY <2>1, LoadedIsRequest, PlanAssumption
  <2>3. \A x \in Requests \ {r} : req'[x] = req[x]
    BY <1>3, <2>1, <2>2, StartedFacts, RefusedFacts DEF Route
  <2> QED
    BY <2>1, <2>3, QuietKnows DEF KnowsAll, Knows
<1>4. ASSUME NEW r \in Requests, SelectPlain(r) PROVE KnowsAll'
  <2>1. \A x \in Requests : seen'[x] = "other"
    BY <1>4 DEF SelectPlain, Touch
  <2> QED
    BY <2>1, NobodyKnows DEF KnowsAll
<1>5. ASSUME NEW r \in Requests, SelectInvalid(r) PROVE KnowsAll'
  <2>1. req[r].phase = "loaded" /\ Refused(r) /\ UNCHANGED <<selector, seen>>
    BY <1>5 DEF SelectInvalid
  <2>2. \A x \in Requests \ {r} : req'[x] = req[x]
    BY <2>1, RefusedFacts
  <2> QED
    BY <2>1, <2>2, QuietKnows DEF KnowsAll, Knows
<1>6. ASSUME NEW r \in Requests, SelectMember(r) PROVE KnowsAll'
  BY <1>6, SelectKnows
<1>7. ASSUME NEW r \in Requests, Probe(r) PROVE KnowsAll'
  <2> DEFINE p == req[r].plan
  <2>1. PICK s : /\ s \in {NoSelector, selector, SelectorFor(p.agg)}
                 /\ selector' = s /\ Touch(r, s, FALSE)
    BY <1>7 DEF Probe
  <2>2. req[r].phase = "loaded" /\ p \in Plans /\ \A x \in Requests \ {r} : req'[x] = req[x]
    BY <1>7, LoadedIsRequest DEF Probe, TypeOK
  <2>3. seen[r] = "other"
    BY <2>2 DEF KnowsAll, Knows
  <2>4. Knows(r)'
    BY <2>1, <2>3, TouchOwn, NobodyKnows
  <2>5. ASSUME NEW x \in Requests \ {r} PROVE Knows(x)'
    <3>1. seen'[x] # "other" =>
            /\ seen[x] # "other" /\ selector # NoSelector /\ s # NoSelector
            /\ s.agg = selector.agg
            /\ seen'[x] = "alone" => s = selector /\ seen[x] = "alone"
      BY <2>1, TouchOthers
    <3>2. SelectorFor(p.agg) = selector \/ SelectorFor(p.agg) = FreshSelector(p.agg)
      BY DEF SelectorFor
    <3>3. seen'[x] # "other" => s = selector
      BY <2>1, <3>1, <3>2 DEF SelectorFor, FreshSelector
    <3> QED
      BY <2>1, <2>2, <3>1, <3>3, OthersKnow DEF KnowsAll
  <2> QED
    BY <2>4, <2>5 DEF KnowsAll
<1>8. ASSUME NEW r \in Requests, NEW ok \in BOOLEAN, Answer(r, ok) PROVE KnowsAll'
  BY <1>8, AnswerKnows
<1>9. ASSUME NEW r \in Requests, Done(r) PROVE KnowsAll'
  <2>1. /\ selector' = selector /\ seen'[r] = "other"
        /\ \A x \in Requests \ {r} : req'[x] = req[x] /\ seen'[x] = seen[x]
    BY <1>9 DEF Done, TypeOK
  <2>2. ASSUME NEW x \in Requests \ {r} PROVE Knows(x)'
    BY <2>1 DEF KnowsAll, Knows, Lands, Remembered, Chosen
  <2> QED
    BY <2>1, <2>2, NobodyKnows DEF KnowsAll
<1>10. CASE UNCHANGED vars
  BY <1>10 DEF vars, KnowsAll, Knows, Lands, Remembered, Chosen
<1> QED
  BY <1>1, <1>2, <1>3, <1>4, <1>5, <1>6, <1>7, <1>8, <1>9, <1>10 DEF Next

LEMMA KnowsInit == Init => KnowsAll
BY DEF Init, KnowsAll, Knows

LEMMA KnowsAlways == Spec => [](TypeOK /\ KnowsAll)
<1> QED
  BY RotationTypeCorrect, KnowsInit, KnowsStep, PTL DEF Spec

\* Failover lands on the member that answered, for the request that was alone with it.
THEOREM AloneLandsAlways == Spec => []AloneLands
<1>1. TypeOK /\ KnowsAll => AloneLands
  <2> SUFFICES ASSUME TypeOK, KnowsAll, NEW r \in Requests,
                      req[r].phase = "served", seen[r] = "alone",
                      selector # NoSelector, selector.agg.strategy = "failover"
               PROVE  Cycle(selector.agg)[selector.index] = req[r].cand[req[r].at]
    BY DEF AloneLands
  <2> DEFINE q == req[r]
             n == Len(q.plan.agg.members)
  <2>1. q.plan \in Plans /\ q.at \in DOMAIN q.cand
    BY LoadedIsRequest DEF TypeOK
  <2>2. Lands(q)
    BY DEF KnowsAll, Knows
  <2>3. PICK j \in DOMAIN q.plan.agg.members :
          /\ q.cand = Candidates(q.plan.agg, q.plan.agg.members[j].relay)
          /\ selector.index = Around(j + q.at - 1, n)
    BY <2>2 DEF Lands
  <2>4. q.plan.agg = selector.agg /\ q.plan.agg # NoAggregate
    <3>1. IsSelector(selector)
      BY DEF TypeOK
    <3>2. \E p \in Plans : p.agg # NoAggregate /\ selector.agg = p.agg
      BY <3>1 DEF IsSelector
    <3> QED
      BY <2>2, <3>2 DEF Lands
  <2>5. /\ q.cand \in Seq(Relays) /\ Len(q.cand) = n
        /\ \A k \in 1..n : q.cand[k] = q.plan.agg.members[Around(j + k - 1, n)].relay
    BY <2>1, <2>3, <2>4, CandidateFacts
  <2>6. n \in Nat \ {0} /\ j \in 1..n /\ DOMAIN q.plan.agg.members = 1..n
    BY <2>1, <2>4, AggregateFacts
  <2>7. q.at \in 1..n /\ selector.index \in DOMAIN q.plan.agg.members
    <3>1. q.at \in 1..n
      BY <2>1, <2>5
    <3>2. j + q.at - 1 \in 1..(2 * n)
      <4> HIDE DEF q, n
      <4> QED
        BY <2>6, <3>1
    <3> QED
      BY <2>3, <2>6, <3>1, <3>2, AroundFacts
  <2>8. Cycle(selector.agg) = Members(q.plan.agg)
    BY <2>1, <2>4, CycleFacts
  <2>9. Members(q.plan.agg)[selector.index] = q.plan.agg.members[selector.index].relay
    BY <2>1, <2>4, <2>7, MemberFacts
  <2> QED
    BY <2>3, <2>5, <2>7, <2>8, <2>9
<1> QED
  BY <1>1, KnowsAlways, PTL

\* A conversation stays with its member while the selector lives.
THEOREM StickyAlways == Spec => []Sticky
<1>1. KnowsAll => Sticky
  BY DEF KnowsAll, Knows, Remembered, Sticky
<1> QED
  BY <1>1, KnowsAlways, PTL

\* Both memories of the selector.
THEOREM SelectorRemembersAlways == Spec => []SelectorRemembers
  BY AloneLandsAlways, StickyAlways, PTL DEF SelectorRemembers

-----------------------------------------------------------------------------
(* What Codex talks to.                                                      *)

\* What the records of the model range over.
Setting == [hot : BOOLEAN, on : BOOLEAN, active : Suppliers, kept : BOOLEAN]
Targets == Suppliers \cup {"gateway"}
Keys == Apis \cup {"gateway", "tokens", "none"}
States == [settings : Setting, auth : Keys, config : Targets, server : BOOLEAN]
Operations == {"enable", "disable", "save", "mappings", "switch", "apply", "clear", "import", "reset", "logout"}
Writes == [do : {"start", "stop", "capture"}] \cup [do : {"save"}, to : Setting]
          \cup [do : {"auth"}, to : Targets, s : Setting]
          \cup [do : {"config", "putConfig"}, to : Targets] \cup [do : {"putAuth"}, to : Keys]
Jobs == [op : Operations, cur : Setting, was : States, todo : Seq(Writes), undoing : BOOLEAN,
         failures : Nat, old : Keys, alone : BOOLEAN, clean : BOOLEAN]

\* The k-th write from the end.
FromEnd(q, k) == q[Len(q) + 1 - k]
\* The writes of a series, in whatever order.
Parts(q) == {q[i] : i \in DOMAIN q}

\* What a write makes of the four places, and of the job it is in.
AfterWrite(w, st) ==
  CASE w.do = "start" -> [st EXCEPT !.server = TRUE]
    [] w.do = "stop" -> [st EXCEPT !.server = FALSE]
    [] w.do = "save" -> [st EXCEPT !.settings = w.to]
    [] w.do = "auth" -> [st EXCEPT !.auth = AuthOf(w.to, w.s, st.auth)]
    [] w.do = "putAuth" -> [st EXCEPT !.auth = w.to]
    [] w.do \in {"config", "putConfig"} -> [st EXCEPT !.config = w.to]
    [] OTHER -> st

\* All four say gateway or none does, and the key is that of the provider.
Coherent(st) ==
  /\ st.settings.hot <=> st.server
  /\ st.settings.hot <=> st.config = "gateway"
  /\ IF st.config = "official" THEN st.auth \in {"tokens", "none"} ELSE st.auth = st.config

\* The writes of an operation, the last one first.
Plan(op, hot) ==
  CASE op = "enable" -> <<"config", "auth", "save", "start">>
    [] op = "disable" /\ hot -> <<"stop", "save", "config", "auth">>
    [] op = "disable" /\ ~hot -> <<"stop", "save">>
    [] op = "save" /\ hot -> <<"config", "auth", "start", "save">>
    [] op = "mappings" /\ hot -> <<"config", "auth", "save">>
    [] op = "switch" -> <<"config", "auth", "save", "capture">>
    [] op \in {"apply", "clear"} -> <<"config", "auth">>
    [] op = "logout" -> <<"config", "auth", "save">>
    [] OTHER -> <<"save">>

\* What it is to make of the four places.
Own(new) ==
  /\ new.config # "gateway"
  /\ IF new.config = "official" THEN new.auth \in {"tokens", "none"} ELSE new.auth = new.config
\* Codex's two files are left alone.
SameLive(was, new) == new.auth = was.auth /\ new.config = was.config
\* What each operation is to make of the four places when it goes through.
Aim(op, was, new) ==
  CASE op = "enable" ->
         /\ new.settings = [was.settings EXCEPT !.hot = TRUE]
         /\ new.auth = "gateway" /\ new.config = "gateway" /\ new.server = TRUE
    [] op = "disable" ->
         /\ new.settings = [was.settings EXCEPT !.hot = FALSE] /\ new.server = FALSE
         /\ IF was.settings.hot THEN Own(new) ELSE SameLive(was, new)
    [] op \in {"save", "mappings"} ->
         /\ new.settings.hot = was.settings.hot
         /\ IF was.settings.hot
            THEN /\ new.auth = "gateway" /\ new.config = "gateway"
                 /\ new.server = (IF op = "save" THEN TRUE ELSE was.server)
            ELSE SameLive(was, new) /\ new.server = was.server
    [] op = "switch" -> ~was.settings.hot /\ Own(new) /\ new.server = was.server
    [] op \in {"apply", "clear"} ->
         ~was.settings.hot /\ new.settings = was.settings /\ Own(new) /\ new.server = was.server
    [] op = "import" ->
         ~was.settings.hot /\ new.settings = was.settings /\ SameLive(was, new) /\ new.server = was.server
    [] op = "reset" -> new.settings = Default /\ SameLive(was, new) /\ new.server = was.server
    [] op = "logout" -> ~new.settings.hot /\ Own(new) /\ new.server = was.server

\* A write that is still to come.
Left(j, w) == \E k \in 1..Len(j.todo) : Plan(j.op, j.cur.hot)[k] = w
\* A write brings its place to the new state.
Fits(w, st, new) ==
  /\ w.do = "save" => w.to = new.settings
  /\ w.do = "auth" => AuthOf(w.to, w.s, st.auth) = new.auth
  /\ w.do = "config" => w.to = new.config
  /\ w.do = "start" => new.server = TRUE
  /\ w.do = "stop" => new.server = FALSE

\* An operation nobody disturbs on its way from the state it found to a new one.
Going(j, st, new) ==
  /\ j.cur = j.was.settings
  /\ Len(j.todo) <= Len(Plan(j.op, j.cur.hot))
  /\ \A k \in 1..Len(j.todo) : /\ FromEnd(j.todo, k).do = Plan(j.op, j.cur.hot)[k]
                               /\ Fits(FromEnd(j.todo, k), st, new)
  /\ st.settings = IF Left(j, "save") THEN j.was.settings ELSE new.settings
  /\ st.auth = IF Left(j, "auth") THEN j.was.auth ELSE new.auth
  /\ st.config = IF Left(j, "config") THEN j.was.config ELSE new.config
  /\ st.server = IF Left(j, "start") \/ Left(j, "stop") THEN j.was.server ELSE new.server
  /\ Left(j, "config") /\ ~Left(j, "auth") => j.old = j.was.auth
  /\ Aim(j.op, j.was, new)

\* On its way back, after one failure.
Back(j, st) ==
  /\ \A w \in Parts(j.todo) :
       /\ w.do \in {"save", "auth", "config", "putConfig", "putAuth", "stop"}
       /\ w.do = "save" => w.to = j.was.settings
       /\ w.do = "auth" => w.to = "gateway" /\ j.was.auth = "gateway"
       /\ w.do \in {"config", "putConfig"} => w.to = j.was.config
       /\ w.do = "putAuth" => w.to = j.was.auth
       /\ w.do = "stop" => j.was.server = FALSE
  /\ (\A w \in Parts(j.todo) : w.do # "save") => st.settings = j.was.settings
  /\ (\A w \in Parts(j.todo) : w.do \notin {"auth", "putAuth"}) => st.auth = j.was.auth
  /\ (\A w \in Parts(j.todo) : w.do \notin {"config", "putConfig"}) => st.config = j.was.config
  /\ (\A w \in Parts(j.todo) : w.do # "stop") => st.server = j.was.server

\* Codex has the gateway's address only while the settings say so.
Gate(st) == st.config = "gateway" => st.settings.hot
\* Codex is away from the gateway and nothing still to be written sends it there.
Quiet(q, st) ==
  /\ st.config # "gateway"
  /\ \A w \in Parts(q) : w.do \in {"config", "putConfig"} => w.to # "gateway"
\* The settings say that Codex may have the gateway's address and no write takes that back.
StaysHot(q, st) ==
  /\ st.settings.hot
  /\ \A w \in Parts(q) : w.do = "save" => w.to.hot

\* auth.json is written just before config.toml.
Paired(q) ==
  \A i \in DOMAIN q :
    /\ q[i].do = "config" => i = 1 \/ q[i - 1].do = "auth"
    /\ q[i].do = "auth" => i < Len(q) /\ q[i + 1].do = "config"
    /\ q[i].do = "putConfig" => i < Len(q) /\ q[i + 1].do = "putAuth"
    /\ q[i].do = "capture" => i = 1

\* The operations that may change `hot' without the gateway, and the operations of each actor.
Turners == {"switch", "reset", "logout"}
OpsOf(a) ==
  CASE a = "async" -> {"enable", "disable", "save", "mappings"}
    [] a = "sync" -> {"switch", "apply", "clear", "import", "reset"}
    [] a = "bridge" -> {"logout"}

\* Every variable has its type.
ConfigTypes ==
  /\ Snapshot \in States /\ form \in Setting
  /\ jobs \in [Actors -> Jobs \cup {NoJob}]
  /\ begun \in Nat /\ crashes \in Nat
  /\ {backedUp, signedIn, interfered, damaged} \subseteq BOOLEAN

\* One after the other, or it is known that they overlapped.
Overlaps(a) ==
  LET j == jobs[a]
  IN  /\ j.op \in OpsOf(a)
      /\ j.alone => Busy = {a}
      /\ ~j.alone => interfered
      /\ ~j.clean => interfered \/ damaged
      /\ j.clean /\ j.alone => Coherent(j.was)
      /\ ~j.undoing => j.failures = 0
      /\ j.undoing => /\ j.failures > 0 /\ (j.failures # 1 => damaged)
                      /\ \A w \in Parts(j.todo) : w.do # "capture"
      /\ ~interfered => Gate(j.was)
      /\ Paired(j.todo)

\* Without interference such an operation has left `hot' as it was.
Turned(j, new) == j.op \in Turners /\ ~Left(j, "save") => new.settings.hot = j.was.settings.hot
\* An undisturbed operation is on its way to what it is for, or on its way back.
OnItsWay(a) ==
  LET j == jobs[a]
  IN  /\ j.alone /\ ~j.undoing =>
           \E new \in States :
             /\ Going(j, Snapshot, new)
             /\ ~interfered => Turned(j, new)
             /\ j.op = "logout" /\ signedIn => new.auth = "tokens"
      /\ j.alone /\ j.undoing /\ j.failures = 1 /\ j.clean /\ ~damaged => Back(j, Snapshot)
      /\ j.undoing /\ ~interfered => Quiet(j.todo, Snapshot) \/ StaysHot(j.todo, Snapshot)

\* While no backup has the sign-in, nobody has written auth.json.
Unwritten(j) ==
  /\ j.todo # <<>> => Head(j.todo).do # "config"
  /\ \A w \in Parts(j.todo) : w.do = "putAuth" => w.to = "tokens"
  /\ j.op = "switch" /\ ~j.undoing /\ (\A w \in Parts(j.todo) : w.do # "capture") => j.was.auth = "tokens"
SignInSafe ==
  signedIn /\ ~backedUp => auth = "tokens" /\ \A a \in Busy : Unwritten(jobs[a])

\* The inductive invariant.
CInv ==
  /\ ConfigTypes
  /\ \A a \in Busy : Overlaps(a) /\ OnItsWay(a)
  /\ SignInSafe
  /\ Agreement /\ NoDeadGateway

-----------------------------------------------------------------------------
(* Sequences.                                                                *)

\* The head is the last write from the end, and the tail keeps the others where they were.
LEMMA TailLast ==
  ASSUME NEW S, NEW q \in Seq(S), q # <<>>
  PROVE  /\ Tail(q) \in Seq(S) /\ Len(Tail(q)) = Len(q) - 1 /\ Len(q) \in Nat \ {0}
         /\ Head(q) = FromEnd(q, Len(q)) /\ Head(q) \in S /\ Head(q) = q[1]
         /\ \A k \in 1..Len(q) - 1 : FromEnd(Tail(q), k) = FromEnd(q, k)
         /\ \A i \in 1..Len(q) - 1 : Tail(q)[i] = q[i + 1]
  BY DEF FromEnd

\* A series consists of its head and of what its tail consists of.
LEMMA PartsOf ==
  ASSUME NEW S, NEW q \in Seq(S), q # <<>>
  PROVE  Parts(q) = {Head(q)} \cup Parts(Tail(q)) /\ Parts(q) \subseteq S
<1>1. /\ DOMAIN q = 1..Len(q) /\ DOMAIN Tail(q) = 1..Len(q) - 1 /\ Head(q) = q[1] /\ Len(q) \in Nat \ {0}
      /\ \A i \in 1..Len(q) - 1 : Tail(q)[i] = q[i + 1]
      /\ \A i \in 1..Len(q) : q[i] \in S
  BY TailLast
<1>2. ASSUME NEW i \in 1..Len(q)
      PROVE  q[i] \in {Head(q)} \cup Parts(Tail(q))
  <2>1. CASE i = 1
    BY <1>1, <2>1
  <2>2. CASE i # 1
    <3>1. i - 1 \in 1..Len(q) - 1 /\ q[i] = Tail(q)[i - 1]
      BY <1>1, <2>2
    <3> QED
      BY <1>1, <3>1 DEF Parts
  <2> QED
    BY <2>1, <2>2
<1>3. ASSUME NEW i \in 1..Len(q) - 1
      PROVE  Tail(q)[i] \in Parts(q)
  <2>1. i + 1 \in 1..Len(q) /\ Tail(q)[i] = q[i + 1]
    BY <1>1
  <2> QED
    BY <1>1, <2>1 DEF Parts
<1>4. 1 \in DOMAIN q
  BY <1>1
<1> QED
  BY <1>1, <1>2, <1>3, <1>4 DEF Parts

\* What short series consist of.
LEMMA PartsOfFew ==
  /\ Parts(<<>>) = {}
  /\ \A x : Parts(<<x>>) = {x}
  /\ \A x, y : Parts(<<x, y>>) = {x, y}
  /\ \A x, y, z : Parts(<<x, y, z>>) = {x, y, z}
  /\ \A x, y, z, u : Parts(<<x, y, z, u>>) = {x, y, z, u}
  BY DEF Parts

\* A write put in front of a series.
LEMMA OneMore ==
  ASSUME NEW S, NEW q \in Seq(S), NEW x \in S
  PROVE  /\ <<x>> \o q \in Seq(S) /\ <<x>> \o q # <<>> /\ Head(<<x>> \o q) = x
         /\ Tail(<<x>> \o q) = q /\ Len(<<x>> \o q) = Len(q) + 1
         /\ \A i \in 1..Len(q) : (<<x>> \o q)[i + 1] = q[i]
         /\ (<<x>> \o q)[1] = x
  OBVIOUS

\* Sequences of one length with the same elements are one.
LEMMA Same ==
  ASSUME NEW S, NEW q \in Seq(S), NEW r \in Seq(S), Len(q) = Len(r),
         \A i \in 1..Len(q) : q[i] = r[i]
  PROVE  q = r
  OBVIOUS

\* Two series joined: one write and one.
LEMMA JoinOneOne ==
  ASSUME NEW x, NEW y
  PROVE  <<x>> \o <<y>> = <<x, y>>
<1> DEFINE S == {x, y}
           q == <<x>> \o <<y>>
           r == <<x, y>>
<1>1. q \in Seq(S) /\ r \in Seq(S)
  OBVIOUS
<1>2. Len(q) = 2 /\ q[1] = x /\ q[2] = y
  OBVIOUS
<1>3. Len(r) = 2 /\ r[1] = x /\ r[2] = y
  OBVIOUS
<1> HIDE DEF q, r, S
<1>4. \A i \in 1..2 : i = 1 \/ i = 2
  OBVIOUS
<1>5. q = r
  BY <1>1, <1>2, <1>3, <1>4, Same
<1> QED
  BY <1>5 DEF q, r

\* Two series joined: one write and two.
LEMMA JoinOneTwo ==
  ASSUME NEW x, NEW y, NEW z
  PROVE  <<x>> \o <<y, z>> = <<x, y, z>>
<1> DEFINE S == {x, y, z}
           q == <<x>> \o <<y, z>>
           r == <<x, y, z>>
<1>1. q \in Seq(S) /\ r \in Seq(S)
  OBVIOUS
<1>2. Len(q) = 3 /\ q[1] = x /\ q[2] = y /\ q[3] = z
  OBVIOUS
<1>3. Len(r) = 3 /\ r[1] = x /\ r[2] = y /\ r[3] = z
  OBVIOUS
<1> HIDE DEF q, r, S
<1>4. \A i \in 1..3 : i = 1 \/ i = 2 \/ i = 3
  OBVIOUS
<1>5. q = r
  BY <1>1, <1>2, <1>3, <1>4, Same
<1> QED
  BY <1>5 DEF q, r

\* Two series joined: one write and three.
LEMMA JoinOneThree ==
  ASSUME NEW x, NEW y, NEW z, NEW u
  PROVE  <<x>> \o <<y, z, u>> = <<x, y, z, u>>
<1> DEFINE S == {x, y, z, u}
           q == <<x>> \o <<y, z, u>>
           r == <<x, y, z, u>>
<1>1. q \in Seq(S) /\ r \in Seq(S)
  OBVIOUS
<1>2. Len(q) = 4 /\ q[1] = x /\ q[2] = y /\ q[3] = z /\ q[4] = u
  OBVIOUS
<1>3. Len(r) = 4 /\ r[1] = x /\ r[2] = y /\ r[3] = z /\ r[4] = u
  OBVIOUS
<1> HIDE DEF q, r, S
<1>4. \A i \in 1..4 : i = 1 \/ i = 2 \/ i = 3 \/ i = 4
  OBVIOUS
<1>5. q = r
  BY <1>1, <1>2, <1>3, <1>4, Same
<1> QED
  BY <1>5 DEF q, r

\* Two series joined: two writes and two.
LEMMA JoinTwoTwo ==
  ASSUME NEW x, NEW y, NEW z, NEW u
  PROVE  <<x, y>> \o <<z, u>> = <<x, y, z, u>>
<1> DEFINE S == {x, y, z, u}
           q == <<x, y>> \o <<z, u>>
           r == <<x, y, z, u>>
<1>1. q \in Seq(S) /\ r \in Seq(S)
  OBVIOUS
<1>2. Len(q) = 4 /\ q[1] = x /\ q[2] = y /\ q[3] = z /\ q[4] = u
  OBVIOUS
<1>3. Len(r) = 4 /\ r[1] = x /\ r[2] = y /\ r[3] = z /\ r[4] = u
  OBVIOUS
<1> HIDE DEF q, r, S
<1>4. \A i \in 1..4 : i = 1 \/ i = 2 \/ i = 3 \/ i = 4
  OBVIOUS
<1>5. q = r
  BY <1>1, <1>2, <1>3, <1>4, Same
<1> QED
  BY <1>5 DEF q, r

\* Nothing is added by an empty series.
LEMMA JoinEmpty ==
  /\ \A x, y : <<>> \o <<x, y>> = <<x, y>>
  /\ \A x : <<x>> \o <<>> = <<x>>
<1>1. \A x, y : <<>> \o <<x, y>> = <<x, y>>
  OBVIOUS
<1>2. \A x : <<x>> \o <<>> = <<x>>
  OBVIOUS
<1> QED
  BY <1>1, <1>2

-----------------------------------------------------------------------------
(* The programs of the operations, written out.                              *)

\* The operations written out: what each writes, in the order of the code.
LEMMA Programs ==
  ASSUME NEW cur, NEW sent
  PROVE  /\ Enable(cur) = <<StartIt, SaveAs([cur EXCEPT !.hot = TRUE]), ToAuth("gateway", cur), ToConfig("gateway")>>
         /\ Disable(cur) =
              IF cur.hot
              THEN LET d == IF cur.on THEN cur.active ELSE "official"
                   IN  <<ToAuth(d, cur), ToConfig(d), SaveAs([cur EXCEPT !.hot = FALSE]), StopIt>>
              ELSE <<SaveAs([cur EXCEPT !.hot = FALSE]), StopIt>>
         /\ SaveForm(cur, sent) =
              IF cur.hot
              THEN <<SaveAs([sent EXCEPT !.hot = cur.hot]), StartIt, ToAuth("gateway", cur), ToConfig("gateway")>>
              ELSE <<SaveAs([sent EXCEPT !.hot = cur.hot])>>
         /\ SaveMappings(cur) =
              IF cur.hot THEN <<SaveAs(cur), ToAuth("gateway", cur), ToConfig("gateway")>> ELSE <<SaveAs(cur)>>
         /\ Switch(cur, sent) # <<>> =>
              /\ ~cur.hot /\ sent.on
              /\ Switch(cur, sent) =
                   LET d == IF sent.on THEN sent.active ELSE "official"
                   IN  <<Capture, SaveAs(sent), ToAuth(d, sent), ToConfig(d)>>
         /\ Logout(cur) # <<>> =>
              LET s == [cur EXCEPT !.kept = @ \/ backedUp]
              IN  Logout(cur) = <<SaveAs([cur EXCEPT !.hot = FALSE, !.on = FALSE]), ToAuth("official", s), ToConfig("official")>>
<1>1. Enable(cur) = <<StartIt, SaveAs([cur EXCEPT !.hot = TRUE]), ToAuth("gateway", cur), ToConfig("gateway")>>
  BY JoinTwoTwo DEF Enable, Live
<1>2. Disable(cur) =
              IF cur.hot
              THEN LET d == IF cur.on THEN cur.active ELSE "official"
                   IN  <<ToAuth(d, cur), ToConfig(d), SaveAs([cur EXCEPT !.hot = FALSE]), StopIt>>
              ELSE <<SaveAs([cur EXCEPT !.hot = FALSE]), StopIt>>
  BY JoinTwoTwo, JoinEmpty DEF Disable, Direct, Live
<1>3. SaveForm(cur, sent) =
              IF cur.hot
              THEN <<SaveAs([sent EXCEPT !.hot = cur.hot]), StartIt, ToAuth("gateway", cur), ToConfig("gateway")>>
              ELSE <<SaveAs([sent EXCEPT !.hot = cur.hot])>>
  <2> DEFINE save == SaveAs([sent EXCEPT !.hot = cur.hot])
             l1 == ToAuth("gateway", cur)
             l2 == ToConfig("gateway")
  <2>1. SaveForm(cur, sent) = <<save>> \o (IF cur.hot THEN <<StartIt>> \o <<l1, l2>> ELSE <<>>)
    BY DEF SaveForm, Live
  <2> HIDE DEF save, l1, l2
  <2>2. <<StartIt>> \o <<l1, l2>> = <<StartIt, l1, l2>>
    BY JoinOneTwo, Zenon
  <2>3. <<save>> \o <<StartIt, l1, l2>> = <<save, StartIt, l1, l2>>
    BY JoinOneThree, Zenon
  <2>4. <<save>> \o <<>> = <<save>>
    BY JoinEmpty, Zenon
  <2>5. SaveForm(cur, sent) = IF cur.hot THEN <<save, StartIt, l1, l2>> ELSE <<save>>
    <3>1. CASE cur.hot
      BY <2>1, <2>2, <2>3, <3>1, Zenon
    <3>2. CASE ~cur.hot
      BY <2>1, <2>4, <3>2, Zenon
    <3> QED
      BY <3>1, <3>2, Zenon
  <2> QED
    BY <2>5 DEF save, l1, l2
<1>4. SaveMappings(cur) =
              IF cur.hot THEN <<SaveAs(cur), ToAuth("gateway", cur), ToConfig("gateway")>> ELSE <<SaveAs(cur)>>
  BY JoinOneTwo, JoinEmpty DEF SaveMappings, Live
<1>5. Switch(cur, sent) # <<>> =>
              /\ ~cur.hot /\ sent.on
              /\ Switch(cur, sent) =
                   LET d == IF sent.on THEN sent.active ELSE "official"
                   IN  <<Capture, SaveAs(sent), ToAuth(d, sent), ToConfig(d)>>
  BY JoinTwoTwo DEF Switch, Direct, Live
<1>6. Logout(cur) # <<>> =>
              LET s == [cur EXCEPT !.kept = @ \/ backedUp]
              IN  Logout(cur) = <<SaveAs([cur EXCEPT !.hot = FALSE, !.on = FALSE]), ToAuth("official", s), ToConfig("official")>>
  BY JoinOneTwo DEF Logout, Live
<1> QED
  BY <1>1, <1>2, <1>3, <1>4, <1>5, <1>6

\* What each operation writes to turn back, written out.
LEMMA UndoingPrograms ==
  ASSUME NEW job, NEW failed
  PROVE  Undoing(job, failed) =
           CASE job.op = "enable" /\ failed = "save" -> <<StopIt>>
             [] job.op = "enable" /\ failed \in {"auth", "config"} ->
                  IF job.cur.hot THEN <<SaveAs(job.cur), ToAuth("gateway", job.cur), ToConfig("gateway")>>
                  ELSE <<SaveAs(job.cur), StopIt>>
             [] job.op \in {"save", "mappings"} /\ failed = "start" -> <<SaveAs(job.cur)>>
             [] job.op \in {"save", "mappings"} /\ failed \in {"auth", "config"} ->
                  <<SaveAs(job.cur), ToAuth("gateway", job.cur), ToConfig("gateway")>>
             [] job.op = "switch" /\ failed \in {"auth", "config"} ->
                  <<SaveAs(job.was.settings), PutConfig(job.was.config), PutAuth(job.was.auth)>>
             [] job.op = "logout" /\ failed \in {"auth", "config"} -> <<SaveAs(job.cur)>>
             [] OTHER -> <<>>
  BY JoinOneOne, JoinOneTwo DEF Undoing, Live

-----------------------------------------------------------------------------
(* One write of an operation that is on its way.                             *)

\* What the writes of an operation that goes forward do.
Kinds == {"start", "stop", "save", "auth", "config", "capture"}

\* There are no other plans than these.
LEMMA PlanCases ==
  ASSUME NEW op, NEW hot
  PROVE  Plan(op, hot) \in {<<"config", "auth", "save", "start">>, <<"stop", "save", "config", "auth">>,
                            <<"stop", "save">>, <<"config", "auth", "start", "save">>,
                            <<"config", "auth", "save">>, <<"config", "auth", "save", "capture">>,
                            <<"config", "auth">>, <<"save">>}
  BY DEF Plan

\* A series of different writes does each once.
LEMMA OnceEach ==
  ASSUME NEW p,
         p \in {<<"config", "auth", "save", "start">>, <<"stop", "save", "config", "auth">>,
                <<"stop", "save">>, <<"config", "auth", "start", "save">>,
                <<"config", "auth", "save">>, <<"config", "auth", "save", "capture">>,
                <<"config", "auth">>, <<"save">>}
  PROVE  /\ Len(p) \in 1..4
         /\ \A i \in 1..Len(p) : p[i] \in Kinds
         /\ \A i, k \in 1..Len(p) :
              /\ p[i] = p[k] => i = k
              /\ ~(p[i] = "start" /\ p[k] = "stop")
              /\ p[i] = "config" /\ p[k] = "auth" => i < k
<1>1. CASE p = <<"config", "auth", "save", "start">>
  <2>1. Len(p) = 4 /\ 1..Len(p) = {1, 2, 3, 4}
    BY <1>1
  <2>2. p[1] = "config" /\ p[2] = "auth" /\ p[3] = "save" /\ p[4] = "start"
    BY <1>1
  <2> QED
    BY <2>1, <2>2 DEF Kinds
<1>2. CASE p = <<"stop", "save", "config", "auth">>
  <2>1. Len(p) = 4 /\ 1..Len(p) = {1, 2, 3, 4}
    BY <1>2
  <2>2. p[1] = "stop" /\ p[2] = "save" /\ p[3] = "config" /\ p[4] = "auth"
    BY <1>2
  <2> QED
    BY <2>1, <2>2 DEF Kinds
<1>3. CASE p = <<"stop", "save">>
  <2>1. Len(p) = 2 /\ 1..Len(p) = {1, 2}
    BY <1>3
  <2>2. p[1] = "stop" /\ p[2] = "save"
    BY <1>3
  <2> QED
    BY <2>1, <2>2 DEF Kinds
<1>4. CASE p = <<"config", "auth", "start", "save">>
  <2>1. Len(p) = 4 /\ 1..Len(p) = {1, 2, 3, 4}
    BY <1>4
  <2>2. p[1] = "config" /\ p[2] = "auth" /\ p[3] = "start" /\ p[4] = "save"
    BY <1>4
  <2> QED
    BY <2>1, <2>2 DEF Kinds
<1>5. CASE p = <<"config", "auth", "save">>
  <2>1. Len(p) = 3 /\ 1..Len(p) = {1, 2, 3}
    BY <1>5
  <2>2. p[1] = "config" /\ p[2] = "auth" /\ p[3] = "save"
    BY <1>5
  <2> QED
    BY <2>1, <2>2 DEF Kinds
<1>6. CASE p = <<"config", "auth", "save", "capture">>
  <2>1. Len(p) = 4 /\ 1..Len(p) = {1, 2, 3, 4}
    BY <1>6
  <2>2. p[1] = "config" /\ p[2] = "auth" /\ p[3] = "save" /\ p[4] = "capture"
    BY <1>6
  <2> QED
    BY <2>1, <2>2 DEF Kinds
<1>7. CASE p = <<"config", "auth">>
  <2>1. Len(p) = 2 /\ 1..Len(p) = {1, 2}
    BY <1>7
  <2>2. p[1] = "config" /\ p[2] = "auth"
    BY <1>7
  <2> QED
    BY <2>1, <2>2 DEF Kinds
<1>8. CASE p = <<"save">>
  <2>1. Len(p) = 1 /\ 1..Len(p) = {1}
    BY <1>8
  <2>2. p[1] = "save"
    BY <1>8
  <2> QED
    BY <2>1, <2>2 DEF Kinds
<1> QED
  BY <1>1, <1>2, <1>3, <1>4, <1>5, <1>6, <1>7, <1>8

\* No operation writes a place twice, starts and stops the gateway, or writes config.toml before auth.json.
LEMMA PlanOnce ==
  ASSUME NEW op, NEW hot, NEW p, p = Plan(op, hot)
  PROVE  /\ Len(p) \in 1..4
         /\ \A i \in 1..Len(p) : p[i] \in Kinds
         /\ \A i, k \in 1..Len(p) :
              /\ p[i] = p[k] => i = k
              /\ ~(p[i] = "start" /\ p[k] = "stop")
              /\ p[i] = "config" /\ p[k] = "auth" => i < k
<1>1. p \in {<<"config", "auth", "save", "start">>, <<"stop", "save", "config", "auth">>,
                <<"stop", "save">>, <<"config", "auth", "start", "save">>,
                <<"config", "auth", "save">>, <<"config", "auth", "save", "capture">>,
                <<"config", "auth">>, <<"save">>}
  BY PlanCases
<1> QED
  BY <1>1, OnceEach

\* The next write of an operation that goes forward is the next of its plan, and fits the state it goes to.
LEMMA GoingHead ==
  ASSUME NEW j \in Jobs, NEW st, NEW new, Going(j, st, new), j.todo # <<>>
  PROVE  /\ Head(j.todo) \in Writes /\ Head(j.todo).do \in Kinds
         /\ Fits(Head(j.todo), st, new)
         /\ Left(j, Head(j.todo).do)
         /\ \A w : Left(j, w) => w \in Kinds
         /\ ~(Left(j, "start") /\ Left(j, "stop"))
         /\ Left(j, "auth") => Head(j.todo).do # "config" 
<1> DEFINE p == Plan(j.op, j.cur.hot)
           n == Len(j.todo)
<1>1. j.todo \in Seq(Writes)
  BY DEF Jobs
<1>2. n \in Nat \ {0} /\ Head(j.todo) = FromEnd(j.todo, n) /\ Head(j.todo) \in Writes
  BY <1>1, TailLast
<1>3. n <= Len(p) /\ FromEnd(j.todo, n).do = p[n] /\ Fits(FromEnd(j.todo, n), st, new)
  BY <1>2 DEF Going
<1>4. /\ Len(p) \in 1..4 /\ \A i \in 1..Len(p) : p[i] \in Kinds
      /\ \A i, k \in 1..Len(p) : ~(p[i] = "start" /\ p[k] = "stop")
      /\ \A i, k \in 1..Len(p) : p[i] = "config" /\ p[k] = "auth" => i < k
  BY PlanOnce
<1>5. \A w : Left(j, w) <=> \E k \in 1..n : p[k] = w
  BY DEF Left
<1>6. \A k \in 1..n : k \in 1..Len(p) /\ k <= n
  BY <1>2, <1>3, <1>4
<1> HIDE DEF n, p
<1>7. n \in 1..n
  BY <1>2
<1> QED
  BY <1>2, <1>3, <1>4, <1>5, <1>6, <1>7

\* A write that is done is no longer to come, the others are.
LEMMA LeftTail ==
  ASSUME NEW j \in Jobs, NEW st, NEW new, Going(j, st, new), j.todo # <<>>,
         NEW k \in Jobs, k.op = j.op, k.cur = j.cur, k.todo = Tail(j.todo), NEW w
  PROVE  Left(k, w) <=> Left(j, w) /\ w # Head(j.todo).do
<1> DEFINE p == Plan(j.op, j.cur.hot)
           n == Len(j.todo)
<1>1. j.todo \in Seq(Writes)
  BY DEF Jobs
<1>2. n \in Nat \ {0} /\ Head(j.todo) = FromEnd(j.todo, n) /\ Len(k.todo) = n - 1
  BY <1>1, TailLast
<1>3. n <= Len(p) /\ FromEnd(j.todo, n).do = p[n]
  BY <1>2 DEF Going
<1>4. Len(p) \in 1..4 /\ \A i, l \in 1..Len(p) : p[i] = p[l] => i = l
  BY PlanOnce
<1>5. Left(j, w) <=> \E l \in 1..n : p[l] = w
  BY DEF Left
<1>6. Left(k, w) <=> \E l \in 1..n - 1 : p[l] = w
  BY <1>2 DEF Left
<1> HIDE DEF n, p
<1>7. \A l : l \in 1..n <=> l \in 1..n - 1 \/ l = n
  BY <1>2
<1>8. \A l \in 1..n : l \in 1..Len(p)
  BY <1>2, <1>3, <1>4
<1>9. \A l \in 1..n - 1 : l # n /\ l \in 1..n
  BY <1>2
<1>10. n \in 1..n
  BY <1>2
<1> QED
  BY <1>2, <1>3, <1>4, <1>5, <1>6, <1>7, <1>8, <1>9, <1>10

\* What a write carries.
LEMMA WriteFields ==
  ASSUME NEW w \in Writes
  PROVE  /\ w.do \in {"start", "stop", "capture", "save", "auth", "config", "putConfig", "putAuth"}
         /\ w.do = "save" => w.to \in Setting
         /\ w.do = "auth" => w.to \in Targets /\ w.s \in Setting
         /\ w.do \in {"config", "putConfig"} => w.to \in Targets
         /\ w.do = "putAuth" => w.to \in Keys
  BY DEF Writes

\* What a write changes.
LEMMA AfterWriteFields ==
  ASSUME NEW w \in Writes, NEW st \in States
  PROVE  /\ AfterWrite(w, st).settings = IF w.do = "save" THEN w.to ELSE st.settings
         /\ AfterWrite(w, st).auth = IF w.do = "auth" THEN AuthOf(w.to, w.s, st.auth)
                               ELSE IF w.do = "putAuth" THEN w.to ELSE st.auth
         /\ AfterWrite(w, st).config = IF w.do \in {"config", "putConfig"} THEN w.to ELSE st.config
         /\ AfterWrite(w, st).server = IF w.do = "start" THEN TRUE ELSE IF w.do = "stop" THEN FALSE ELSE st.server
         /\ AfterWrite(w, st) \in States
<1>1. /\ w.do \in {"start", "stop", "capture", "save", "auth", "config", "putConfig", "putAuth"}
      /\ w.do = "save" => w.to \in Setting
      /\ w.do = "auth" => w.to \in Targets /\ w.s \in Setting
      /\ w.do \in {"config", "putConfig"} => w.to \in Targets
      /\ w.do = "putAuth" => w.to \in Keys
  BY WriteFields
<1>2. w.do = "auth" => AuthOf(w.to, w.s, st.auth) \in Keys
  BY <1>1 DEF AuthOf, Keys, Targets, Suppliers
<1>3. CASE w.do \in {"start", "stop", "capture"}
  <2>1. AfterWrite(w, st) = IF w.do = "start" THEN [st EXCEPT !.server = TRUE]
                      ELSE IF w.do = "stop" THEN [st EXCEPT !.server = FALSE] ELSE st
    BY <1>3 DEF AfterWrite
  <2> QED
    BY <1>3, <2>1 DEF States
<1>4. CASE w.do = "save"
  <2>1. AfterWrite(w, st) = [st EXCEPT !.settings = w.to]
    BY <1>4 DEF AfterWrite
  <2> QED
    BY <1>1, <1>4, <2>1 DEF States
<1>5. CASE w.do = "auth"
  <2>1. AfterWrite(w, st) = [st EXCEPT !.auth = AuthOf(w.to, w.s, st.auth)]
    BY <1>5 DEF AfterWrite
  <2> QED
    BY <1>2, <1>5, <2>1 DEF States
<1>6. CASE w.do = "putAuth"
  <2>1. AfterWrite(w, st) = [st EXCEPT !.auth = w.to]
    BY <1>6 DEF AfterWrite
  <2> QED
    BY <1>1, <1>6, <2>1 DEF States
<1>7. CASE w.do \in {"config", "putConfig"}
  <2>1. AfterWrite(w, st) = [st EXCEPT !.config = w.to]
    BY <1>7 DEF AfterWrite
  <2> QED
    BY <1>1, <1>7, <2>1 DEF States
<1> QED
  BY <1>1, <1>3, <1>4, <1>5, <1>6, <1>7

\* A state is its four places.
LEMMA SameFields ==
  ASSUME NEW s \in States, NEW t \in States, s.settings = t.settings, s.auth = t.auth,
         s.config = t.config, s.server = t.server
  PROVE  s = t
  BY DEF States

\* The capture of a supplier change finds what it found when it began.
LEMMA CaptureAlone ==
  ASSUME NEW j \in Jobs, NEW st \in States, NEW new \in States, Going(j, st, new), j.todo # <<>>,
         Head(j.todo).do = "capture"
  PROVE  st = j.was
<1> DEFINE p == Plan(j.op, j.cur.hot)
           n == Len(j.todo)
<1>1. n \in Nat \ {0} /\ Head(j.todo) = FromEnd(j.todo, n) /\ j.was \in States
  BY TailLast DEF Jobs
<1>2. n <= Len(p) /\ p[n] = "capture"
  BY <1>1 DEF Going
<1>3. j.op = "switch"
  <2> SUFFICES ASSUME j.op # "switch" PROVE FALSE
    OBVIOUS
  <2>1. p \in {<<"config", "auth", "save", "start">>, <<"stop", "save", "config", "auth">>,
               <<"stop", "save">>, <<"config", "auth", "start", "save">>,
               <<"config", "auth", "save">>, <<"config", "auth">>, <<"save">>}
    BY DEF Plan
  <2> HIDE DEF p, n
  <2> QED
    BY <1>1, <1>2, <2>1
<1>4. p = <<"config", "auth", "save", "capture">>
  BY <1>3 DEF Plan
<1>5. n = 4
  <2> HIDE DEF p, n
  <2> QED
    BY <1>1, <1>2, <1>4
<1>6. \A w : Left(j, w) <=> w \in {"config", "auth", "save", "capture"}
  <2>1. \A w : Left(j, w) <=> \E k \in 1..4 : p[k] = w
    BY <1>5 DEF Left
  <2>2. p[1] = "config" /\ p[2] = "auth" /\ p[3] = "save" /\ p[4] = "capture" /\ 1..4 = {1, 2, 3, 4}
    BY <1>4
  <2> HIDE DEF p, n
  <2> QED
    BY <2>1, <2>2
<1>7. st.settings = j.was.settings /\ st.auth = j.was.auth /\ st.config = j.was.config
  BY <1>6 DEF Going
<1>8. st.server = new.server /\ new.server = j.was.server
  BY <1>6, <1>3 DEF Going, Aim
<1> QED
  BY <1>1, <1>7, <1>8, SameFields

\* One write later an undisturbed operation is still on its way to the same state.
LEMMA GoingOn ==
  ASSUME NEW j \in Jobs, NEW st \in States, NEW new \in States, Going(j, st, new), j.todo # <<>>,
         NEW k \in Jobs, k.op = j.op, k.cur = j.cur, k.was = j.was, k.todo = Tail(j.todo),
         k.old = IF Head(j.todo).do = "auth" THEN st.auth
                 ELSE IF Head(j.todo).do = "config" THEN "none" ELSE j.old
  PROVE  Going(k, AfterWrite(Head(j.todo), st), new)
<1> DEFINE w == Head(j.todo)
           p == Plan(j.op, j.cur.hot)
           n == Len(j.todo)
<1>1. /\ w \in Writes /\ w.do \in Kinds /\ Fits(w, st, new) /\ Left(j, w.do)
      /\ ~(Left(j, "start") /\ Left(j, "stop"))
      /\ Left(j, "auth") => w.do # "config"
  BY GoingHead
<1>2. \A x : Left(k, x) <=> Left(j, x) /\ x # w.do
  BY LeftTail
<1>3. /\ AfterWrite(w, st).settings = IF w.do = "save" THEN w.to ELSE st.settings
      /\ AfterWrite(w, st).auth = IF w.do = "auth" THEN AuthOf(w.to, w.s, st.auth)
                            ELSE IF w.do = "putAuth" THEN w.to ELSE st.auth
      /\ AfterWrite(w, st).config = IF w.do \in {"config", "putConfig"} THEN w.to ELSE st.config
      /\ AfterWrite(w, st).server = IF w.do = "start" THEN TRUE ELSE IF w.do = "stop" THEN FALSE ELSE st.server
  BY <1>1, AfterWriteFields
<1>4. /\ n \in Nat \ {0} /\ Len(k.todo) = n - 1
      /\ \A l \in 1..n - 1 : FromEnd(k.todo, l) = FromEnd(j.todo, l)
      /\ \A l \in 1..n - 1 : l \in 1..n
  BY TailLast DEF Jobs
<1>5. /\ j.cur = j.was.settings /\ n <= Len(p)
      /\ \A l \in 1..n : FromEnd(j.todo, l).do = p[l] /\ Fits(FromEnd(j.todo, l), st, new)
      /\ st.settings = IF Left(j, "save") THEN j.was.settings ELSE new.settings
      /\ st.auth = IF Left(j, "auth") THEN j.was.auth ELSE new.auth
      /\ st.config = IF Left(j, "config") THEN j.was.config ELSE new.config
      /\ st.server = IF Left(j, "start") \/ Left(j, "stop") THEN j.was.server ELSE new.server
      /\ Left(j, "config") /\ ~Left(j, "auth") => j.old = j.was.auth
      /\ Aim(j.op, j.was, new)
  BY DEF Going
<1>6. w.do \notin {"putAuth", "putConfig"}
  BY <1>1 DEF Kinds
<1>7. \A l \in 1..n - 1 : FromEnd(k.todo, l).do = p[l] /\ Fits(FromEnd(k.todo, l), AfterWrite(w, st), new)
  <2> SUFFICES ASSUME NEW l \in 1..n - 1
               PROVE  FromEnd(k.todo, l).do = p[l] /\ Fits(FromEnd(k.todo, l), AfterWrite(w, st), new)
    OBVIOUS
  <2>1. FromEnd(k.todo, l) = FromEnd(j.todo, l) /\ FromEnd(j.todo, l).do = p[l] /\ Fits(FromEnd(j.todo, l), st, new)
    BY <1>4, <1>5
  <2>2. Left(k, p[l])
    BY <1>4 DEF Left
  <2>3. FromEnd(j.todo, l).do = "auth" => AfterWrite(w, st).auth = st.auth
    BY <2>1, <2>2, <1>2, <1>3, <1>6
  <2> HIDE DEF w, p, n
  <2> QED
    BY <2>1, <2>3 DEF Fits
<1>8. AfterWrite(w, st).settings = IF Left(k, "save") THEN k.was.settings ELSE new.settings
  BY <1>1, <1>2, <1>3, <1>5 DEF Fits
<1>9. AfterWrite(w, st).auth = IF Left(k, "auth") THEN k.was.auth ELSE new.auth
  BY <1>1, <1>2, <1>3, <1>5, <1>6 DEF Fits
<1>10. AfterWrite(w, st).config = IF Left(k, "config") THEN k.was.config ELSE new.config
  BY <1>1, <1>2, <1>3, <1>5, <1>6 DEF Fits
<1>11. AfterWrite(w, st).server = IF Left(k, "start") \/ Left(k, "stop") THEN k.was.server ELSE new.server
  BY <1>1, <1>2, <1>3, <1>5, <1>6 DEF Fits
<1>12. Left(k, "config") /\ ~Left(k, "auth") => k.old = k.was.auth
  BY <1>1, <1>2, <1>5
<1> HIDE DEF w
<1>13. k.cur = k.was.settings /\ Len(k.todo) <= Len(p) /\ Aim(k.op, k.was, new)
  <2>1. Len(p) \in 1..4
    BY PlanOnce
  <2> HIDE DEF p, n
  <2> QED
    BY <1>4, <1>5, <2>1
<1>14. \A l \in 1..Len(k.todo) : FromEnd(k.todo, l).do = Plan(k.op, k.cur.hot)[l] /\ Fits(FromEnd(k.todo, l), AfterWrite(w, st), new)
  BY <1>4, <1>7
<1>15. Going(k, AfterWrite(w, st), new)
  BY <1>8, <1>9, <1>10, <1>11, <1>12, <1>13, <1>14 DEF Going
<1> QED
  BY <1>15 DEF w

\* One write later an operation that turns back still restores what it found.
LEMMA BackOn ==
  ASSUME NEW j \in Jobs, NEW st \in States, Back(j, st), j.todo # <<>>,
         NEW k \in Jobs, k.was = j.was, k.todo = Tail(j.todo)
  PROVE  Back(k, AfterWrite(Head(j.todo), st))
<1> DEFINE w == Head(j.todo)
<1>1. j.todo \in Seq(Writes) /\ w \in Writes /\ Parts(j.todo) = {w} \cup Parts(k.todo)
  <2>1. j.todo \in Seq(Writes)
    BY DEF Jobs
  <2> QED
    BY <2>1, TailLast, PartsOf
<1>2. /\ AfterWrite(w, st).settings = IF w.do = "save" THEN w.to ELSE st.settings
      /\ AfterWrite(w, st).auth = IF w.do = "auth" THEN AuthOf(w.to, w.s, st.auth)
                            ELSE IF w.do = "putAuth" THEN w.to ELSE st.auth
      /\ AfterWrite(w, st).config = IF w.do \in {"config", "putConfig"} THEN w.to ELSE st.config
      /\ AfterWrite(w, st).server = IF w.do = "start" THEN TRUE ELSE IF w.do = "stop" THEN FALSE ELSE st.server
  BY <1>1, AfterWriteFields
<1> HIDE DEF w
<1>3. /\ w.do \in {"save", "auth", "config", "putConfig", "putAuth", "stop"}
      /\ w.do = "save" => w.to = j.was.settings
      /\ w.do = "auth" => w.to = "gateway" /\ j.was.auth = "gateway"
      /\ w.do \in {"config", "putConfig"} => w.to = j.was.config
      /\ w.do = "putAuth" => w.to = j.was.auth
      /\ w.do = "stop" => j.was.server = FALSE
  BY <1>1 DEF Back
<1>4. ASSUME \A x \in Parts(k.todo) : x.do # "save"
      PROVE  AfterWrite(w, st).settings = j.was.settings
  BY <1>1, <1>2, <1>3, <1>4 DEF Back
<1>5. ASSUME \A x \in Parts(k.todo) : x.do \notin {"auth", "putAuth"}
      PROVE  AfterWrite(w, st).auth = j.was.auth
  <2>1. w.do = "auth" => AuthOf(w.to, w.s, st.auth) = "gateway"
    BY <1>3 DEF AuthOf
  <2> QED
    BY <1>1, <1>2, <1>3, <1>5, <2>1 DEF Back
<1>6. ASSUME \A x \in Parts(k.todo) : x.do \notin {"config", "putConfig"}
      PROVE  AfterWrite(w, st).config = j.was.config
  BY <1>1, <1>2, <1>3, <1>6 DEF Back
<1>7. ASSUME \A x \in Parts(k.todo) : x.do # "stop"
      PROVE  AfterWrite(w, st).server = j.was.server
  BY <1>1, <1>2, <1>3, <1>7 DEF Back
<1>8. \A x \in Parts(k.todo) :
       /\ x.do \in {"save", "auth", "config", "putConfig", "putAuth", "stop"}
       /\ x.do = "save" => x.to = k.was.settings
       /\ x.do = "auth" => x.to = "gateway" /\ k.was.auth = "gateway"
       /\ x.do \in {"config", "putConfig"} => x.to = k.was.config
       /\ x.do = "putAuth" => x.to = k.was.auth
       /\ x.do = "stop" => k.was.server = FALSE
  BY <1>1 DEF Back
<1>9. Back(k, AfterWrite(w, st))
  BY <1>4, <1>5, <1>6, <1>7, <1>8, Zenon DEF Back
<1> QED
  BY <1>9 DEF w

\* A write that turns back never leads Codex to a gateway that the settings deny.
LEMMA GateOn ==
  ASSUME NEW q \in Seq(Writes), q # <<>>, NEW st \in States, Quiet(q, st) \/ StaysHot(q, st)
  PROVE  Quiet(Tail(q), AfterWrite(Head(q), st)) \/ StaysHot(Tail(q), AfterWrite(Head(q), st))
<1> DEFINE w == Head(q)
<1>1. w \in Writes /\ Parts(q) = {w} \cup Parts(Tail(q))
  BY TailLast, PartsOf
<1>2. /\ AfterWrite(w, st).settings = IF w.do = "save" THEN w.to ELSE st.settings
      /\ AfterWrite(w, st).config = IF w.do \in {"config", "putConfig"} THEN w.to ELSE st.config
  BY <1>1, AfterWriteFields
<1>3. CASE Quiet(q, st)
  <2>1. Quiet(Tail(q), AfterWrite(w, st))
    <3> HIDE DEF w
    <3> QED
      BY <1>1, <1>2, <1>3 DEF Quiet
  <2> QED
    BY <2>1 DEF w
<1>4. CASE StaysHot(q, st)
  <2>1. StaysHot(Tail(q), AfterWrite(w, st))
    <3> HIDE DEF w
    <3> QED
      BY <1>1, <1>2, <1>4 DEF StaysHot
  <2> QED
    BY <2>1 DEF w
<1> QED
  BY <1>3, <1>4

\* While turning back, Codex has the gateway's address only as the settings say.
LEMMA GateKept ==
  ASSUME NEW q, NEW st, Quiet(q, st) \/ StaysHot(q, st)
  PROVE  Gate(st)
  BY DEF Quiet, StaysHot, Gate

\* The order of auth.json and config.toml outlives the first write.
LEMMA PairedTail ==
  ASSUME NEW q \in Seq(Writes), q # <<>>, Paired(q)
  PROVE  /\ Paired(Tail(q))
         /\ \A w \in Parts(Tail(q)) : w.do # "capture"
         /\ Tail(q) # <<>> /\ Head(q).do # "auth" => Head(Tail(q)).do # "config"
         /\ Head(q).do = "auth" => Tail(q) # <<>> /\ Head(Tail(q)).do = "config"
         /\ Head(q).do = "putConfig" => Tail(q) # <<>> /\ Head(Tail(q)).do = "putAuth"
<1> DEFINE r == Tail(q)
           n == Len(q)
<1>1. /\ DOMAIN q = 1..n /\ DOMAIN r = 1..n - 1 /\ Head(q) = q[1] /\ n \in Nat \ {0} /\ Len(r) = n - 1
      /\ \A i \in 1..n - 1 : r[i] = q[i + 1]
      /\ r \in Seq(Writes)
  BY TailLast
<1>2. /\ \A i \in 1..n : q[i].do = "config" => i = 1 \/ q[i - 1].do = "auth"
      /\ \A i \in 1..n : q[i].do = "auth" => i < n /\ q[i + 1].do = "config"
      /\ \A i \in 1..n : q[i].do = "putConfig" => i < n /\ q[i + 1].do = "putAuth"
      /\ \A i \in 1..n : q[i].do = "capture" => i = 1
  BY <1>1 DEF Paired
<1>3. \A i \in 1..n - 1 : i + 1 \in 1..n /\ i + 1 # 1 /\ (i + 1) - 1 = i /\ (i # 1 => i - 1 \in 1..n - 1 /\ (i - 1) + 1 = i)
  BY <1>1
<1> HIDE DEF n, r
<1>4. \A i \in 1..n - 1 : r[i].do # "capture"
  BY <1>1, <1>2, <1>3
<1>5. \A i \in 1..n - 1 : r[i].do = "config" => q[i].do = "auth"
  BY <1>1, <1>2, <1>3
<1>6. \A i \in 1..n - 1 : r[i].do = "config" => i = 1 \/ r[i - 1].do = "auth"
  BY <1>1, <1>3, <1>5
<1>7. \A i \in 1..n - 1 : r[i].do = "auth" => i < n - 1 /\ r[i + 1].do = "config"
  <2> SUFFICES ASSUME NEW i \in 1..n - 1, r[i].do = "auth" PROVE i < n - 1 /\ r[i + 1].do = "config"
    OBVIOUS
  <2>1. i + 1 < n /\ q[(i + 1) + 1].do = "config"
    BY <1>1, <1>2, <1>3
  <2>2. i + 1 \in 1..n - 1
    BY <1>1, <2>1
  <2> QED
    BY <1>1, <2>1, <2>2
<1>8. \A i \in 1..n - 1 : r[i].do = "putConfig" => i < n - 1 /\ r[i + 1].do = "putAuth"
  <2> SUFFICES ASSUME NEW i \in 1..n - 1, r[i].do = "putConfig" PROVE i < n - 1 /\ r[i + 1].do = "putAuth"
    OBVIOUS
  <2>1. i + 1 < n /\ q[(i + 1) + 1].do = "putAuth"
    BY <1>1, <1>2, <1>3
  <2>2. i + 1 \in 1..n - 1
    BY <1>1, <2>1
  <2> QED
    BY <1>1, <2>1, <2>2
<1>9. Paired(r)
  BY <1>1, <1>4, <1>6, <1>7, <1>8, Zenon DEF Paired
<1>10. \A w \in Parts(r) : w.do # "capture"
  BY <1>1, <1>4 DEF Parts
<1>11. r # <<>> => 1 \in 1..n - 1 /\ Head(r) = r[1]
  BY <1>1
<1>12. r # <<>> /\ Head(q).do # "auth" => Head(r).do # "config"
  BY <1>1, <1>5, <1>11
<1>13. /\ Head(q).do = "auth" => r # <<>> /\ Head(r).do = "config"
       /\ Head(q).do = "putConfig" => r # <<>> /\ Head(r).do = "putAuth"
  <2>1. 1 \in 1..n
    BY <1>1
  <2>2. n > 1 => 1 \in 1..n - 1 /\ r # <<>>
    BY <1>1
  <2> QED
    BY <1>1, <1>2, <1>11, <2>1, <2>2
<1> QED
  BY <1>9, <1>10, <1>12, <1>13 DEF r

\* auth.json may be put back before whatever is left.
LEMMA PairedFront ==
  ASSUME NEW q \in Seq(Writes), NEW x \in Writes, x.do = "putAuth", Paired(q),
         q # <<>> => Head(q).do # "config", \A w \in Parts(q) : w.do # "capture"
  PROVE  Paired(<<x>> \o q)
<1> DEFINE r == <<x>> \o q
           n == Len(q)
<1>1. /\ r \in Seq(Writes) /\ Len(r) = n + 1 /\ DOMAIN r = 1..n + 1 /\ DOMAIN q = 1..n /\ n \in Nat
      /\ r[1] = x /\ \A i \in 1..n : r[i + 1] = q[i]
  BY OneMore
<1>2. /\ \A i \in 1..n : q[i].do = "config" => i = 1 \/ q[i - 1].do = "auth"
      /\ \A i \in 1..n : q[i].do = "auth" => i < n /\ q[i + 1].do = "config"
      /\ \A i \in 1..n : q[i].do = "putConfig" => i < n /\ q[i + 1].do = "putAuth"
      /\ \A i \in 1..n : q[i].do # "capture"
  BY <1>1 DEF Paired, Parts
<1>3. 1 \in 1..n => q[1].do # "config"
  <2>1. 1 \in 1..n => q # <<>> /\ Head(q) = q[1]
    BY <1>1
  <2> QED
    BY <2>1
<1> HIDE DEF r, n
<1>4. \A i \in 1..n + 1 : i = 1 \/ (i - 1 \in 1..n /\ (i - 1) + 1 = i)
  BY <1>1
<1>5. \A i \in 1..n + 1 : r[i].do = "config" => i = 1 \/ r[i - 1].do = "auth"
  <2> SUFFICES ASSUME NEW i \in 1..n + 1, r[i].do = "config", i # 1 PROVE r[i - 1].do = "auth"
    OBVIOUS
  <2>1. q[i - 1].do = "config" /\ i - 1 \in 1..n
    BY <1>1, <1>4
  <2>2. i - 1 # 1 /\ q[(i - 1) - 1].do = "auth"
    BY <1>2, <1>3, <2>1
  <2>3. (i - 1) - 1 \in 1..n /\ ((i - 1) - 1) + 1 = i - 1
    BY <1>1, <2>1, <2>2
  <2> QED
    BY <1>1, <2>2, <2>3
<1>6. \A i \in 1..n + 1 : r[i].do = "auth" => i < n + 1 /\ r[i + 1].do = "config"
  <2> SUFFICES ASSUME NEW i \in 1..n + 1, r[i].do = "auth" PROVE i < n + 1 /\ r[i + 1].do = "config"
    OBVIOUS
  <2>1. i # 1 /\ q[i - 1].do = "auth" /\ i - 1 \in 1..n
    BY <1>1, <1>4
  <2>2. i - 1 < n /\ q[(i - 1) + 1].do = "config" /\ (i - 1) + 1 = i
    BY <1>2, <1>4, <2>1
  <2>3. i \in 1..n
    BY <1>1, <2>1, <2>2
  <2> QED
    BY <1>1, <2>2, <2>3
<1>7. \A i \in 1..n + 1 : r[i].do = "putConfig" => i < n + 1 /\ r[i + 1].do = "putAuth"
  <2> SUFFICES ASSUME NEW i \in 1..n + 1, r[i].do = "putConfig" PROVE i < n + 1 /\ r[i + 1].do = "putAuth"
    OBVIOUS
  <2>1. i # 1 /\ q[i - 1].do = "putConfig" /\ i - 1 \in 1..n
    BY <1>1, <1>4
  <2>2. i - 1 < n /\ q[(i - 1) + 1].do = "putAuth" /\ (i - 1) + 1 = i
    BY <1>2, <1>4, <2>1
  <2>3. i \in 1..n
    BY <1>1, <2>1, <2>2
  <2> QED
    BY <1>1, <2>2, <2>3
<1>8. \A i \in 1..n + 1 : r[i].do = "capture" => i = 1
  <2> SUFFICES ASSUME NEW i \in 1..n + 1, r[i].do = "capture", i # 1 PROVE FALSE
    OBVIOUS
  <2>1. i - 1 \in 1..n /\ (i - 1) + 1 = i
    BY <1>4
  <2>2. r[i] = q[i - 1]
    BY <1>1, <2>1
  <2> QED
    BY <1>2, <2>1, <2>2
<1>9. Paired(r)
  BY <1>1, <1>5, <1>6, <1>7, <1>8, Zenon DEF Paired
<1> QED
  BY <1>9 DEF r

-----------------------------------------------------------------------------
(* What an operation that goes through makes of the four places.             *)

\* An operation that goes through from where the four places agree leaves them in agreement.
LEMMA AimCoherent ==
  ASSUME NEW op \in Operations, NEW was \in States, NEW new \in States, Aim(op, was, new), Coherent(was),
         op \in Turners => new.settings.hot = was.settings.hot
  PROVE  Coherent(new)
<1>0. was.settings \in Setting /\ new.settings \in Setting
  BY DEF States
<1>1. CASE op = "enable"
  <2>1. /\ new.settings.hot = TRUE /\ new.auth = "gateway" /\ new.config = "gateway" /\ new.server = TRUE
    BY <1>0, <1>1 DEF Aim, Setting
  <2> QED
    BY <2>1 DEF Coherent
<1>2. CASE op = "disable"
  <2>1. /\ new.settings.hot = FALSE /\ new.server = FALSE
        /\ IF was.settings.hot THEN Own(new) ELSE SameLive(was, new)
    BY <1>0, <1>2 DEF Aim, Setting
  <2> QED
    BY <2>1 DEF Coherent, Own, SameLive
<1>3. CASE op \in {"save", "mappings"}
  <2>1. /\ new.settings.hot = was.settings.hot
        /\ IF was.settings.hot
           THEN /\ new.auth = "gateway" /\ new.config = "gateway"
                /\ new.server = (IF op = "save" THEN TRUE ELSE was.server)
           ELSE SameLive(was, new) /\ new.server = was.server
    BY <1>3 DEF Aim
  <2> QED
    BY <2>1 DEF Coherent, SameLive
<1>4. CASE op \in {"switch", "apply", "clear"}
  <2>1. ~was.settings.hot /\ Own(new) /\ new.server = was.server /\ new.settings.hot = was.settings.hot
    BY <1>4 DEF Aim, Turners
  <2> QED
    BY <2>1 DEF Coherent, Own
<1>5. CASE op = "import"
  <2>1. ~was.settings.hot /\ SameLive(was, new) /\ new.server = was.server /\ new.settings.hot = was.settings.hot
    BY <1>5 DEF Aim
  <2> QED
    BY <2>1 DEF Coherent, SameLive
<1>6. CASE op = "reset"
  <2>1. SameLive(was, new) /\ new.server = was.server /\ new.settings.hot = was.settings.hot
    BY <1>6 DEF Aim, Turners
  <2> QED
    BY <2>1 DEF Coherent, SameLive
<1>7. CASE op = "logout"
  <2>1. ~new.settings.hot /\ Own(new) /\ new.server = was.server /\ new.settings.hot = was.settings.hot
    BY <1>7 DEF Aim, Turners
  <2> QED
    BY <2>1 DEF Coherent, Own
<1> QED
  BY <1>1, <1>2, <1>3, <1>4, <1>5, <1>6, <1>7 DEF Operations

\* The writes an operation still has, by their number.
Has(p, n, w) == \E k \in 1..n : p[k] = w

\* Which writes are still to come, by how many are, for each plan.
LEMMA HasOf ==
  ASSUME NEW p, NEW m \in 1..4, NEW n \in Nat, n <= m, Len(p) = m
  PROVE  /\ n \in 0..4
         /\ p = <<"config", "auth", "save", "start">> =>
              /\ n <= 4 /\ (Has(p, n, "config") <=> n >= 1) /\ (Has(p, n, "auth") <=> n >= 2)
              /\ (Has(p, n, "save") <=> n >= 3) /\ (Has(p, n, "start") <=> n >= 4) /\ ~Has(p, n, "stop")
         /\ p = <<"stop", "save", "config", "auth">> =>
              /\ n <= 4 /\ (Has(p, n, "config") <=> n >= 3) /\ (Has(p, n, "auth") <=> n >= 4)
              /\ (Has(p, n, "save") <=> n >= 2) /\ ~Has(p, n, "start") /\ (Has(p, n, "stop") <=> n >= 1)
         /\ p = <<"stop", "save">> =>
              /\ n <= 2 /\ ~Has(p, n, "config") /\ ~Has(p, n, "auth")
              /\ (Has(p, n, "save") <=> n >= 2) /\ ~Has(p, n, "start") /\ (Has(p, n, "stop") <=> n >= 1)
         /\ p = <<"config", "auth", "start", "save">> =>
              /\ n <= 4 /\ (Has(p, n, "config") <=> n >= 1) /\ (Has(p, n, "auth") <=> n >= 2)
              /\ (Has(p, n, "save") <=> n >= 4) /\ (Has(p, n, "start") <=> n >= 3) /\ ~Has(p, n, "stop")
         /\ p = <<"config", "auth", "save">> =>
              /\ n <= 3 /\ (Has(p, n, "config") <=> n >= 1) /\ (Has(p, n, "auth") <=> n >= 2)
              /\ (Has(p, n, "save") <=> n >= 3) /\ ~Has(p, n, "start") /\ ~Has(p, n, "stop")
         /\ p = <<"config", "auth", "save", "capture">> =>
              /\ n <= 4 /\ (Has(p, n, "config") <=> n >= 1) /\ (Has(p, n, "auth") <=> n >= 2)
              /\ (Has(p, n, "save") <=> n >= 3) /\ ~Has(p, n, "start") /\ ~Has(p, n, "stop")
         /\ p = <<"config", "auth">> =>
              /\ n <= 2 /\ (Has(p, n, "config") <=> n >= 1) /\ (Has(p, n, "auth") <=> n >= 2)
              /\ ~Has(p, n, "save") /\ ~Has(p, n, "start") /\ ~Has(p, n, "stop")
         /\ p = <<"save">> =>
              /\ n <= 1 /\ ~Has(p, n, "config") /\ ~Has(p, n, "auth")
              /\ (Has(p, n, "save") <=> n >= 1) /\ ~Has(p, n, "start") /\ ~Has(p, n, "stop")
<1>1. n \in 0..4
  OBVIOUS
<1>2. \A k : k \in 1..n <=> (k = 1 /\ n >= 1) \/ (k = 2 /\ n >= 2) \/ (k = 3 /\ n >= 3) \/ (k = 4 /\ n >= 4)
  BY <1>1
<1>3. \A w : Has(p, n, w) <=> \/ n >= 1 /\ p[1] = w
                              \/ n >= 2 /\ p[2] = w
                              \/ n >= 3 /\ p[3] = w
                              \/ n >= 4 /\ p[4] = w
  BY <1>2 DEF Has
<1>4. ASSUME p = <<"config", "auth", "save", "start">>
      PROVE  /\ n <= 4 /\ (Has(p, n, "config") <=> n >= 1) /\ (Has(p, n, "auth") <=> n >= 2)
             /\ (Has(p, n, "save") <=> n >= 3) /\ (Has(p, n, "start") <=> n >= 4) /\ ~Has(p, n, "stop")
  <2>1. Len(p) = 4 /\ p[1] = "config" /\ p[2] = "auth" /\ p[3] = "save" /\ p[4] = "start"
    BY <1>4
  <2>2. n <= 4
    BY <2>1
  <2> QED
    BY <1>1, <1>3, <2>1, <2>2
<1>5. ASSUME p = <<"stop", "save", "config", "auth">>
      PROVE  /\ n <= 4 /\ (Has(p, n, "config") <=> n >= 3) /\ (Has(p, n, "auth") <=> n >= 4)
             /\ (Has(p, n, "save") <=> n >= 2) /\ ~Has(p, n, "start") /\ (Has(p, n, "stop") <=> n >= 1)
  <2>1. Len(p) = 4 /\ p[1] = "stop" /\ p[2] = "save" /\ p[3] = "config" /\ p[4] = "auth"
    BY <1>5
  <2>2. n <= 4
    BY <2>1
  <2> QED
    BY <1>1, <1>3, <2>1, <2>2
<1>6. ASSUME p = <<"stop", "save">>
      PROVE  /\ n <= 2 /\ ~Has(p, n, "config") /\ ~Has(p, n, "auth")
             /\ (Has(p, n, "save") <=> n >= 2) /\ ~Has(p, n, "start") /\ (Has(p, n, "stop") <=> n >= 1)
  <2>1. Len(p) = 2 /\ p[1] = "stop" /\ p[2] = "save"
    BY <1>6
  <2>2. n <= 2
    BY <2>1
  <2> QED
    BY <1>1, <1>3, <2>1, <2>2
<1>7. ASSUME p = <<"config", "auth", "start", "save">>
      PROVE  /\ n <= 4 /\ (Has(p, n, "config") <=> n >= 1) /\ (Has(p, n, "auth") <=> n >= 2)
             /\ (Has(p, n, "save") <=> n >= 4) /\ (Has(p, n, "start") <=> n >= 3) /\ ~Has(p, n, "stop")
  <2>1. Len(p) = 4 /\ p[1] = "config" /\ p[2] = "auth" /\ p[3] = "start" /\ p[4] = "save"
    BY <1>7
  <2>2. n <= 4
    BY <2>1
  <2> QED
    BY <1>1, <1>3, <2>1, <2>2
<1>8. ASSUME p = <<"config", "auth", "save">>
      PROVE  /\ n <= 3 /\ (Has(p, n, "config") <=> n >= 1) /\ (Has(p, n, "auth") <=> n >= 2)
             /\ (Has(p, n, "save") <=> n >= 3) /\ ~Has(p, n, "start") /\ ~Has(p, n, "stop")
  <2>1. Len(p) = 3 /\ p[1] = "config" /\ p[2] = "auth" /\ p[3] = "save"
    BY <1>8
  <2>2. n <= 3
    BY <2>1
  <2> QED
    BY <1>1, <1>3, <2>1, <2>2
<1>9. ASSUME p = <<"config", "auth", "save", "capture">>
      PROVE  /\ n <= 4 /\ (Has(p, n, "config") <=> n >= 1) /\ (Has(p, n, "auth") <=> n >= 2)
             /\ (Has(p, n, "save") <=> n >= 3) /\ ~Has(p, n, "start") /\ ~Has(p, n, "stop")
  <2>1. Len(p) = 4 /\ p[1] = "config" /\ p[2] = "auth" /\ p[3] = "save" /\ p[4] = "capture"
    BY <1>9
  <2>2. n <= 4
    BY <2>1
  <2> QED
    BY <1>1, <1>3, <2>1, <2>2
<1>10. ASSUME p = <<"config", "auth">>
      PROVE  /\ n <= 2 /\ (Has(p, n, "config") <=> n >= 1) /\ (Has(p, n, "auth") <=> n >= 2)
             /\ ~Has(p, n, "save") /\ ~Has(p, n, "start") /\ ~Has(p, n, "stop")
  <2>1. Len(p) = 2 /\ p[1] = "config" /\ p[2] = "auth"
    BY <1>10
  <2>2. n <= 2
    BY <2>1
  <2> QED
    BY <1>1, <1>3, <2>1, <2>2
<1>11. ASSUME p = <<"save">>
      PROVE  /\ n <= 1 /\ ~Has(p, n, "config") /\ ~Has(p, n, "auth")
             /\ (Has(p, n, "save") <=> n >= 1) /\ ~Has(p, n, "start") /\ ~Has(p, n, "stop")
  <2>1. Len(p) = 1 /\ p[1] = "save"
    BY <1>11
  <2>2. n <= 1
    BY <2>1
  <2> QED
    BY <1>1, <1>3, <2>1, <2>2
<1> QED
  BY <1>1, <1>4, <1>5, <1>6, <1>7, <1>8, <1>9, <1>10, <1>11

\* The order of auth.json and config.toml in short series.
LEMMA PairedFew ==
  /\ Paired(<<>>)
  /\ \A x : x.do \notin {"config", "auth", "putConfig"} => Paired(<<x>>)
  /\ \A x, y : x.do = "save" /\ y.do = "stop" => Paired(<<x, y>>)
  /\ \A x, y, z : x.do = "save" /\ y.do = "auth" /\ z.do = "config" => Paired(<<x, y, z>>)
  /\ \A x, y, z : x.do = "save" /\ y.do = "putConfig" /\ z.do = "putAuth" => Paired(<<x, y, z>>)
<1>1. Paired(<<>>)
  BY DEF Paired
<1>2. ASSUME NEW x, x.do \notin {"config", "auth", "putConfig"} PROVE Paired(<<x>>)
  <2> DEFINE q == <<x>>
  <2>1. DOMAIN q = {1} /\ q[1] = x
    OBVIOUS
  <2> HIDE DEF q
  <2>2. Paired(q)
    BY <1>2, <2>1 DEF Paired
  <2> QED
    BY <2>2 DEF q
<1>3. ASSUME NEW x, NEW y, x.do = "save" /\ y.do = "stop" PROVE Paired(<<x, y>>)
  <2> DEFINE q == <<x, y>>
  <2>1. DOMAIN q = {1, 2} /\ q[1] = x /\ q[2] = y
    OBVIOUS
  <2> HIDE DEF q
  <2>2. Paired(q)
    BY <1>3, <2>1 DEF Paired
  <2> QED
    BY <2>2 DEF q
<1>4. ASSUME NEW x, NEW y, NEW z, x.do = "save" /\ y.do = "auth" /\ z.do = "config" PROVE Paired(<<x, y, z>>)
  <2> DEFINE q == <<x, y, z>>
  <2>1. DOMAIN q = {1, 2, 3} /\ Len(q) = 3 /\ q[1] = x /\ q[2] = y /\ q[3] = z
    OBVIOUS
  <2> HIDE DEF q
  <2>2. Paired(q)
    BY <1>4, <2>1 DEF Paired
  <2> QED
    BY <2>2 DEF q
<1>5. ASSUME NEW x, NEW y, NEW z, x.do = "save" /\ y.do = "putConfig" /\ z.do = "putAuth" PROVE Paired(<<x, y, z>>)
  <2> DEFINE q == <<x, y, z>>
  <2>1. DOMAIN q = {1, 2, 3} /\ Len(q) = 3 /\ q[1] = x /\ q[2] = y /\ q[3] = z
    OBVIOUS
  <2> HIDE DEF q
  <2>2. Paired(q)
    BY <1>5, <2>1 DEF Paired
  <2> QED
    BY <2>2 DEF q
<1> QED
  BY <1>1, <1>2, <1>3, <1>4, <1>5

\* A write put in front of a series is one of its writes.
LEMMA PartsFront ==
  ASSUME NEW S, NEW q \in Seq(S), NEW x \in S
  PROVE  /\ <<x>> \o q \in Seq(S) /\ Parts(<<x>> \o q) = {x} \cup Parts(q)
         /\ <<x>> \o q # <<>> /\ Head(<<x>> \o q) = x
<1> DEFINE r == <<x>> \o q
<1>1. r \in Seq(S) /\ r # <<>> /\ Head(r) = x /\ Tail(r) = q
  BY OneMore
<1> HIDE DEF r
<1>2. Parts(r) = {x} \cup Parts(q)
  BY <1>1, PartsOf
<1> QED
  BY <1>1, <1>2 DEF r

\* The single writes.
LEMMA WritesAre ==
  /\ StartIt \in Writes /\ StopIt \in Writes /\ Capture \in Writes
  /\ StartIt.do = "start" /\ StopIt.do = "stop" /\ Capture.do = "capture"
  /\ \A s : SaveAs(s).do = "save" /\ SaveAs(s).to = s /\ (s \in Setting => SaveAs(s) \in Writes)
  /\ \A t, s : /\ ToAuth(t, s).do = "auth" /\ ToAuth(t, s).to = t /\ ToAuth(t, s).s = s
               /\ t \in Targets /\ s \in Setting => ToAuth(t, s) \in Writes
  /\ \A t : ToConfig(t).do = "config" /\ ToConfig(t).to = t /\ (t \in Targets => ToConfig(t) \in Writes)
  /\ \A t : PutConfig(t).do = "putConfig" /\ PutConfig(t).to = t /\ (t \in Targets => PutConfig(t) \in Writes)
  /\ \A t : PutAuth(t).do = "putAuth" /\ PutAuth(t).to = t /\ (t \in Keys => PutAuth(t) \in Writes)
  BY DEF StartIt, StopIt, Capture, SaveAs, ToAuth, ToConfig, PutConfig, PutAuth, Writes

\* What turns an operation back are writes of the right kind in the right order, none a capture.
LEMMA UndoingGood ==
  ASSUME NEW j \in Jobs, NEW f
  PROVE  LET u == Undoing(j, f)
         IN  /\ u \in Seq(Writes) /\ Paired(u)
             /\ \A w \in Parts(u) : w.do \in {"save", "stop", "auth", "config", "putConfig", "putAuth"}
             /\ u # <<>> => Head(u).do # "config"
             /\ \A w \in Parts(u) : w.do = "putAuth" => j.op = "switch" /\ f \in {"auth", "config"} /\ w.to = j.was.auth
<1> DEFINE u == Undoing(j, f)
<1>0. /\ j.cur \in Setting /\ j.was \in States /\ "gateway" \in Targets
      /\ j.was.settings \in Setting /\ j.was.config \in Targets /\ j.was.auth \in Keys
  BY DEF Jobs, States, Targets
<1>1. \/ u = <<>>
      \/ u = <<StopIt>>
      \/ u = <<SaveAs(j.cur)>>
      \/ u = <<SaveAs(j.cur), StopIt>>
      \/ u = <<SaveAs(j.cur), ToAuth("gateway", j.cur), ToConfig("gateway")>>
      \/ /\ u = <<SaveAs(j.was.settings), PutConfig(j.was.config), PutAuth(j.was.auth)>>
         /\ j.op = "switch" /\ f \in {"auth", "config"}
  BY UndoingPrograms
<1> HIDE DEF u
<1> SUFFICES /\ u \in Seq(Writes) /\ Paired(u)
             /\ \A w \in Parts(u) : w.do \in {"save", "stop", "auth", "config", "putConfig", "putAuth"}
             /\ u # <<>> => Head(u).do # "config"
             /\ \A w \in Parts(u) : w.do = "putAuth" => j.op = "switch" /\ f \in {"auth", "config"} /\ w.to = j.was.auth
  BY DEF u
<1>2. CASE u = <<>>
  BY <1>2, PairedFew, PartsOfFew
<1>3. CASE u = <<StopIt>>
  <2> DEFINE x == StopIt
  <2>1. u = <<x>> /\ x \in Writes /\ x.do = "stop"
    BY <1>3, WritesAre
  <2> HIDE DEF x
  <2>2. u \in Seq(Writes) /\ Head(u) = x /\ Parts(u) = {x} /\ Paired(u)
    BY <2>1, PairedFew, PartsOfFew
  <2> QED
    BY <2>1, <2>2
<1>4. CASE u = <<SaveAs(j.cur)>>
  <2> DEFINE x == SaveAs(j.cur)
  <2>1. u = <<x>> /\ x \in Writes /\ x.do = "save"
    BY <1>0, <1>4, WritesAre
  <2> HIDE DEF x
  <2>2. u \in Seq(Writes) /\ Head(u) = x /\ Parts(u) = {x} /\ Paired(u)
    BY <2>1, PairedFew, PartsOfFew
  <2> QED
    BY <2>1, <2>2
<1>5. CASE u = <<SaveAs(j.cur), StopIt>>
  <2> DEFINE x == SaveAs(j.cur)
             y == StopIt
  <2>1. u = <<x, y>> /\ x \in Writes /\ x.do = "save" /\ y \in Writes /\ y.do = "stop"
    BY <1>0, <1>5, WritesAre
  <2> HIDE DEF x, y
  <2>2. u \in Seq(Writes) /\ Head(u) = x /\ Parts(u) = {x, y} /\ Paired(u)
    BY <2>1, PairedFew, PartsOfFew
  <2> QED
    BY <2>1, <2>2
<1>6. CASE u = <<SaveAs(j.cur), ToAuth("gateway", j.cur), ToConfig("gateway")>>
  <2> DEFINE x == SaveAs(j.cur)
             y == ToAuth("gateway", j.cur)
             z == ToConfig("gateway")
  <2>1. /\ u = <<x, y, z>> /\ x \in Writes /\ x.do = "save" /\ y \in Writes /\ y.do = "auth"
        /\ z \in Writes /\ z.do = "config"
    BY <1>0, <1>6, WritesAre
  <2> HIDE DEF x, y, z
  <2>2. u \in Seq(Writes) /\ Head(u) = x /\ Parts(u) = {x, y, z} /\ Paired(u)
    BY <2>1, PairedFew, PartsOfFew
  <2> QED
    BY <2>1, <2>2
<1>7. CASE /\ u = <<SaveAs(j.was.settings), PutConfig(j.was.config), PutAuth(j.was.auth)>>
           /\ j.op = "switch" /\ f \in {"auth", "config"}
  <2> DEFINE x == SaveAs(j.was.settings)
             y == PutConfig(j.was.config)
             z == PutAuth(j.was.auth)
  <2>1. /\ u = <<x, y, z>> /\ x \in Writes /\ x.do = "save" /\ y \in Writes /\ y.do = "putConfig"
        /\ z \in Writes /\ z.do = "putAuth" /\ z.to = j.was.auth
    BY <1>0, <1>7, WritesAre
  <2> HIDE DEF x, y, z
  <2>2. u \in Seq(Writes) /\ Head(u) = x /\ Parts(u) = {x, y, z} /\ Paired(u)
    BY <2>1, PairedFew, PartsOfFew
  <2> QED
    BY <1>7, <2>1, <2>2
<1> QED
  BY <1>1, <1>2, <1>3, <1>4, <1>5, <1>6, <1>7

\* What is left of an operation that was turning back already.
LEMMA RestGood ==
  ASSUME NEW q \in Seq(Writes), q # <<>>, Paired(q), NEW r,
         r = IF Head(q).do \in {"auth", "putConfig"} THEN Tail(Tail(q)) ELSE Tail(q)
  PROVE  /\ r \in Seq(Writes) /\ Paired(r) /\ Parts(r) \subseteq Parts(q)
         /\ \A w \in Parts(r) : w.do # "capture"
         /\ r # <<>> => Head(r).do # "config"
<1>1. /\ Tail(q) \in Seq(Writes) /\ Paired(Tail(q)) /\ Parts(Tail(q)) \subseteq Parts(q)
      /\ \A w \in Parts(Tail(q)) : w.do # "capture"
      /\ Tail(q) # <<>> /\ Head(q).do # "auth" => Head(Tail(q)).do # "config"
      /\ Head(q).do = "auth" => Tail(q) # <<>> /\ Head(Tail(q)).do = "config"
      /\ Head(q).do = "putConfig" => Tail(q) # <<>> /\ Head(Tail(q)).do = "putAuth"
  BY TailLast, PartsOf, PairedTail
<1>2. CASE Head(q).do \in {"auth", "putConfig"}
  <2> DEFINE t == Tail(q)
  <2>1. t \in Seq(Writes) /\ t # <<>> /\ Paired(t) /\ Head(t).do \in {"config", "putAuth"} /\ r = Tail(t)
    BY <1>1, <1>2
  <2>2. Parts(t) \subseteq Parts(q)
    BY <1>1
  <2> HIDE DEF t
  <2>3. /\ Tail(t) \in Seq(Writes) /\ Paired(Tail(t)) /\ Parts(Tail(t)) \subseteq Parts(t)
        /\ \A w \in Parts(Tail(t)) : w.do # "capture"
        /\ Tail(t) # <<>> /\ Head(t).do # "auth" => Head(Tail(t)).do # "config"
    <3>1. Tail(t) \in Seq(Writes)
      BY <2>1, TailLast
    <3>2. Parts(Tail(t)) \subseteq Parts(t)
      BY <2>1, PartsOf
    <3>3. /\ Paired(Tail(t)) /\ \A w \in Parts(Tail(t)) : w.do # "capture"
          /\ Tail(t) # <<>> /\ Head(t).do # "auth" => Head(Tail(t)).do # "config"
      BY <2>1, PairedTail
    <3> QED
      BY <3>1, <3>2, <3>3
  <2> QED
    BY <2>1, <2>2, <2>3
<1>3. CASE Head(q).do \notin {"auth", "putConfig"}
  BY <1>1, <1>3
<1> QED
  BY <1>2, <1>3

\* So is what is left after any failure.
LEMMA LeftGood ==
  ASSUME NEW j \in Jobs, j.todo # <<>>, Paired(j.todo), NEW f, f = Head(j.todo).do, NEW r, r = WhatIsLeft(j, f)
  PROVE  /\ r \in Seq(Writes) /\ Paired(r)
         /\ \A w \in Parts(r) : w.do # "capture"
         /\ r # <<>> => Head(r).do # "config"
         /\ ~j.undoing => Parts(r) = (IF f = "config" THEN {PutAuth(j.old)} ELSE {}) \cup Parts(Undoing(j, f))
         /\ j.undoing => \A w \in Parts(r) : w \in Parts(j.todo) \/ w.do = "putAuth"
         /\ \A w \in Parts(r) : w.do = "putAuth" =>
              \/ f = "config"
              \/ w \in Parts(j.todo)
              \/ ~j.undoing /\ j.op = "switch" /\ f = "auth" /\ w.to = j.was.auth
<1> DEFINE after == IF ~j.undoing THEN Undoing(j, f)
                    ELSE IF f \in {"auth", "putConfig"} THEN Tail(Tail(j.todo)) ELSE Tail(j.todo)
<1>1. j.todo \in Seq(Writes) /\ j.old \in Keys /\ j.undoing \in BOOLEAN
  BY DEF Jobs
<1>2. r = (IF f = "config" THEN <<PutAuth(j.old)>> ELSE <<>>) \o after
  BY DEF WhatIsLeft
<1>3. /\ after \in Seq(Writes) /\ Paired(after)
      /\ \A w \in Parts(after) : w.do # "capture"
      /\ after # <<>> => Head(after).do # "config"
      /\ j.undoing => Parts(after) \subseteq Parts(j.todo)
      /\ \A w \in Parts(after) : w.do = "putAuth" =>
              \/ w \in Parts(j.todo)
              \/ ~j.undoing /\ j.op = "switch" /\ f \in {"auth", "config"} /\ w.to = j.was.auth
  <2>1. CASE ~j.undoing
    <3> DEFINE u == Undoing(j, f)
    <3>1. /\ u \in Seq(Writes) /\ Paired(u)
          /\ \A w \in Parts(u) : w.do \in {"save", "stop", "auth", "config", "putConfig", "putAuth"}
          /\ u # <<>> => Head(u).do # "config"
          /\ \A w \in Parts(u) : w.do = "putAuth" => j.op = "switch" /\ f \in {"auth", "config"} /\ w.to = j.was.auth
      BY UndoingGood
    <3>2. after = u
      BY <2>1
    <3> HIDE DEF u, after
    <3> QED
      BY <2>1, <3>1, <3>2
  <2>2. CASE j.undoing
    <3>1. after = IF Head(j.todo).do \in {"auth", "putConfig"} THEN Tail(Tail(j.todo)) ELSE Tail(j.todo)
      BY <2>2
    <3> HIDE DEF after
    <3>2. /\ after \in Seq(Writes) /\ Paired(after) /\ Parts(after) \subseteq Parts(j.todo)
          /\ \A w \in Parts(after) : w.do # "capture"
          /\ after # <<>> => Head(after).do # "config"
      BY <1>1, <3>1, RestGood
    <3> QED
      BY <2>2, <3>2
  <2> HIDE DEF after
  <2> QED
    BY <2>1, <2>2
<1>4. ~j.undoing => after = Undoing(j, f)
  OBVIOUS
<1> HIDE DEF after
<1>5. CASE f # "config"
  <2>1. r = after
    BY <1>2, <1>3, <1>5
  <2> QED
    BY <1>3, <1>4, <1>5, <2>1
<1>6. CASE f = "config"
  <2> DEFINE x == PutAuth(j.old)
  <2>1. x \in Writes /\ x.do = "putAuth" /\ r = <<x>> \o after
    BY <1>1, <1>2, <1>6, WritesAre
  <2> HIDE DEF x
  <2>2. r \in Seq(Writes) /\ Parts(r) = {x} \cup Parts(after) /\ r # <<>> /\ Head(r) = x
    <3>1. after \in Seq(Writes) /\ x \in Writes
      BY <1>3, <2>1
    <3>2. /\ <<x>> \o after \in Seq(Writes) /\ Parts(<<x>> \o after) = {x} \cup Parts(after)
          /\ <<x>> \o after # <<>> /\ Head(<<x>> \o after) = x
      BY <3>1, PartsFront, Zenon
    <3> QED
      BY <2>1, <3>2, Zenon
  <2>3. Paired(r)
    BY <1>3, <2>1, PairedFront
  <2>4. ~j.undoing => Parts(r) = {x} \cup Parts(Undoing(j, f))
    BY <1>4, <2>2
  <2> QED
    BY <1>3, <1>6, <2>1, <2>2, <2>3, <2>4 DEF x
<1> QED
  BY <1>5, <1>6

\* Which writes are left, by the one that comes next.
LEMMA StageOf ==
  ASSUME NEW j \in Jobs, NEW st, NEW new, Going(j, st, new), j.todo # <<>>, NEW f, f = Head(j.todo).do,
         NEW p, p = Plan(j.op, j.cur.hot)
  PROVE  /\ p = <<"config", "auth", "save", "start">> =>
              /\ f \in {"config", "auth", "save", "start"}
              /\ (Left(j, "config") <=> f \in {"config", "auth", "save", "start"})
              /\ (Left(j, "auth") <=> f \in {"auth", "save", "start"})
              /\ (Left(j, "save") <=> f \in {"save", "start"})
              /\ (Left(j, "start") <=> f \in {"start"})
              /\ ~Left(j, "stop")
         /\ p = <<"stop", "save", "config", "auth">> =>
              /\ f \in {"stop", "save", "config", "auth"}
              /\ (Left(j, "config") <=> f \in {"config", "auth"})
              /\ (Left(j, "auth") <=> f \in {"auth"})
              /\ (Left(j, "save") <=> f \in {"save", "config", "auth"})
              /\ ~Left(j, "start")
              /\ (Left(j, "stop") <=> f \in {"stop", "save", "config", "auth"})
         /\ p = <<"stop", "save">> =>
              /\ f \in {"stop", "save"}
              /\ ~Left(j, "config")
              /\ ~Left(j, "auth")
              /\ (Left(j, "save") <=> f \in {"save"})
              /\ ~Left(j, "start")
              /\ (Left(j, "stop") <=> f \in {"stop", "save"})
         /\ p = <<"config", "auth", "start", "save">> =>
              /\ f \in {"config", "auth", "start", "save"}
              /\ (Left(j, "config") <=> f \in {"config", "auth", "start", "save"})
              /\ (Left(j, "auth") <=> f \in {"auth", "start", "save"})
              /\ (Left(j, "save") <=> f \in {"save"})
              /\ (Left(j, "start") <=> f \in {"start", "save"})
              /\ ~Left(j, "stop")
         /\ p = <<"config", "auth", "save">> =>
              /\ f \in {"config", "auth", "save"}
              /\ (Left(j, "config") <=> f \in {"config", "auth", "save"})
              /\ (Left(j, "auth") <=> f \in {"auth", "save"})
              /\ (Left(j, "save") <=> f \in {"save"})
              /\ ~Left(j, "start")
              /\ ~Left(j, "stop")
         /\ p = <<"config", "auth", "save", "capture">> =>
              /\ f \in {"config", "auth", "save", "capture"}
              /\ (Left(j, "config") <=> f \in {"config", "auth", "save", "capture"})
              /\ (Left(j, "auth") <=> f \in {"auth", "save", "capture"})
              /\ (Left(j, "save") <=> f \in {"save", "capture"})
              /\ ~Left(j, "start")
              /\ ~Left(j, "stop")
         /\ p = <<"config", "auth">> =>
              /\ f \in {"config", "auth"}
              /\ (Left(j, "config") <=> f \in {"config", "auth"})
              /\ (Left(j, "auth") <=> f \in {"auth"})
              /\ ~Left(j, "save")
              /\ ~Left(j, "start")
              /\ ~Left(j, "stop")
         /\ p = <<"save">> =>
              /\ f \in {"save"}
              /\ ~Left(j, "config")
              /\ ~Left(j, "auth")
              /\ (Left(j, "save") <=> f \in {"save"})
              /\ ~Left(j, "start")
              /\ ~Left(j, "stop")
<1> DEFINE n == Len(j.todo)
<1>1. n \in Nat \ {0} /\ Head(j.todo) = FromEnd(j.todo, n)
  BY TailLast DEF Jobs
<1>2. n <= Len(p) /\ p[n] = f
  BY <1>1 DEF Going
<1>3. \A w : Left(j, w) <=> Has(p, n, w)
  BY DEF Left, Has
<1>4. Len(p) \in 1..4
  BY PlanOnce
<1> HIDE DEF n
<1>5. ASSUME p = <<"config", "auth", "save", "start">>
      PROVE  /\ f \in {"config", "auth", "save", "start"}
             /\ (Left(j, "config") <=> f \in {"config", "auth", "save", "start"})
             /\ (Left(j, "auth") <=> f \in {"auth", "save", "start"})
             /\ (Left(j, "save") <=> f \in {"save", "start"})
             /\ (Left(j, "start") <=> f \in {"start"})
             /\ ~Left(j, "stop")
  <2>1. n \in 0..4 /\ n <= 4 /\ (Has(p, n, "config") <=> n >= 1) /\ (Has(p, n, "auth") <=> n >= 2)
        /\ (Has(p, n, "save") <=> n >= 3) /\ (Has(p, n, "start") <=> n >= 4) /\ ~Has(p, n, "stop")
    BY <1>1, <1>2, <1>4, <1>5, HasOf
  <2>2. p[1] = "config" /\ p[2] = "auth" /\ p[3] = "save" /\ p[4] = "start"
    BY <1>5
  <2>3. n = 1 \/ n = 2 \/ n = 3 \/ n = 4
    BY <1>1, <2>1
  <2> QED
    BY <1>2, <1>3, <2>1, <2>2, <2>3
<1>6. ASSUME p = <<"stop", "save", "config", "auth">>
      PROVE  /\ f \in {"stop", "save", "config", "auth"}
             /\ (Left(j, "config") <=> f \in {"config", "auth"})
             /\ (Left(j, "auth") <=> f \in {"auth"})
             /\ (Left(j, "save") <=> f \in {"save", "config", "auth"})
             /\ ~Left(j, "start")
             /\ (Left(j, "stop") <=> f \in {"stop", "save", "config", "auth"})
  <2>1. n \in 0..4 /\ n <= 4 /\ (Has(p, n, "config") <=> n >= 3) /\ (Has(p, n, "auth") <=> n >= 4)
        /\ (Has(p, n, "save") <=> n >= 2) /\ ~Has(p, n, "start") /\ (Has(p, n, "stop") <=> n >= 1)
    BY <1>1, <1>2, <1>4, <1>6, HasOf
  <2>2. p[1] = "stop" /\ p[2] = "save" /\ p[3] = "config" /\ p[4] = "auth"
    BY <1>6
  <2>3. n = 1 \/ n = 2 \/ n = 3 \/ n = 4
    BY <1>1, <2>1
  <2> QED
    BY <1>2, <1>3, <2>1, <2>2, <2>3
<1>7. ASSUME p = <<"stop", "save">>
      PROVE  /\ f \in {"stop", "save"}
             /\ ~Left(j, "config")
             /\ ~Left(j, "auth")
             /\ (Left(j, "save") <=> f \in {"save"})
             /\ ~Left(j, "start")
             /\ (Left(j, "stop") <=> f \in {"stop", "save"})
  <2>1. n \in 0..4 /\ n <= 2 /\ ~Has(p, n, "config") /\ ~Has(p, n, "auth")
        /\ (Has(p, n, "save") <=> n >= 2) /\ ~Has(p, n, "start") /\ (Has(p, n, "stop") <=> n >= 1)
    BY <1>1, <1>2, <1>4, <1>7, HasOf
  <2>2. p[1] = "stop" /\ p[2] = "save"
    BY <1>7
  <2>3. n = 1 \/ n = 2
    BY <1>1, <2>1
  <2> QED
    BY <1>2, <1>3, <2>1, <2>2, <2>3
<1>8. ASSUME p = <<"config", "auth", "start", "save">>
      PROVE  /\ f \in {"config", "auth", "start", "save"}
             /\ (Left(j, "config") <=> f \in {"config", "auth", "start", "save"})
             /\ (Left(j, "auth") <=> f \in {"auth", "start", "save"})
             /\ (Left(j, "save") <=> f \in {"save"})
             /\ (Left(j, "start") <=> f \in {"start", "save"})
             /\ ~Left(j, "stop")
  <2>1. n \in 0..4 /\ n <= 4 /\ (Has(p, n, "config") <=> n >= 1) /\ (Has(p, n, "auth") <=> n >= 2)
        /\ (Has(p, n, "save") <=> n >= 4) /\ (Has(p, n, "start") <=> n >= 3) /\ ~Has(p, n, "stop")
    BY <1>1, <1>2, <1>4, <1>8, HasOf
  <2>2. p[1] = "config" /\ p[2] = "auth" /\ p[3] = "start" /\ p[4] = "save"
    BY <1>8
  <2>3. n = 1 \/ n = 2 \/ n = 3 \/ n = 4
    BY <1>1, <2>1
  <2> QED
    BY <1>2, <1>3, <2>1, <2>2, <2>3
<1>9. ASSUME p = <<"config", "auth", "save">>
      PROVE  /\ f \in {"config", "auth", "save"}
             /\ (Left(j, "config") <=> f \in {"config", "auth", "save"})
             /\ (Left(j, "auth") <=> f \in {"auth", "save"})
             /\ (Left(j, "save") <=> f \in {"save"})
             /\ ~Left(j, "start")
             /\ ~Left(j, "stop")
  <2>1. n \in 0..4 /\ n <= 3 /\ (Has(p, n, "config") <=> n >= 1) /\ (Has(p, n, "auth") <=> n >= 2)
        /\ (Has(p, n, "save") <=> n >= 3) /\ ~Has(p, n, "start") /\ ~Has(p, n, "stop")
    BY <1>1, <1>2, <1>4, <1>9, HasOf
  <2>2. p[1] = "config" /\ p[2] = "auth" /\ p[3] = "save"
    BY <1>9
  <2>3. n = 1 \/ n = 2 \/ n = 3
    BY <1>1, <2>1
  <2> QED
    BY <1>2, <1>3, <2>1, <2>2, <2>3
<1>10. ASSUME p = <<"config", "auth", "save", "capture">>
      PROVE  /\ f \in {"config", "auth", "save", "capture"}
             /\ (Left(j, "config") <=> f \in {"config", "auth", "save", "capture"})
             /\ (Left(j, "auth") <=> f \in {"auth", "save", "capture"})
             /\ (Left(j, "save") <=> f \in {"save", "capture"})
             /\ ~Left(j, "start")
             /\ ~Left(j, "stop")
  <2>1. n \in 0..4 /\ n <= 4 /\ (Has(p, n, "config") <=> n >= 1) /\ (Has(p, n, "auth") <=> n >= 2)
        /\ (Has(p, n, "save") <=> n >= 3) /\ ~Has(p, n, "start") /\ ~Has(p, n, "stop")
    BY <1>1, <1>2, <1>4, <1>10, HasOf
  <2>2. p[1] = "config" /\ p[2] = "auth" /\ p[3] = "save" /\ p[4] = "capture"
    BY <1>10
  <2>3. n = 1 \/ n = 2 \/ n = 3 \/ n = 4
    BY <1>1, <2>1
  <2> QED
    BY <1>2, <1>3, <2>1, <2>2, <2>3
<1>11. ASSUME p = <<"config", "auth">>
      PROVE  /\ f \in {"config", "auth"}
             /\ (Left(j, "config") <=> f \in {"config", "auth"})
             /\ (Left(j, "auth") <=> f \in {"auth"})
             /\ ~Left(j, "save")
             /\ ~Left(j, "start")
             /\ ~Left(j, "stop")
  <2>1. n \in 0..4 /\ n <= 2 /\ (Has(p, n, "config") <=> n >= 1) /\ (Has(p, n, "auth") <=> n >= 2)
        /\ ~Has(p, n, "save") /\ ~Has(p, n, "start") /\ ~Has(p, n, "stop")
    BY <1>1, <1>2, <1>4, <1>11, HasOf
  <2>2. p[1] = "config" /\ p[2] = "auth"
    BY <1>11
  <2>3. n = 1 \/ n = 2
    BY <1>1, <2>1
  <2> QED
    BY <1>2, <1>3, <2>1, <2>2, <2>3
<1>12. ASSUME p = <<"save">>
      PROVE  /\ f \in {"save"}
             /\ ~Left(j, "config")
             /\ ~Left(j, "auth")
             /\ (Left(j, "save") <=> f \in {"save"})
             /\ ~Left(j, "start")
             /\ ~Left(j, "stop")
  <2>1. n \in 0..4 /\ n <= 1 /\ ~Has(p, n, "config") /\ ~Has(p, n, "auth")
        /\ (Has(p, n, "save") <=> n >= 1) /\ ~Has(p, n, "start") /\ ~Has(p, n, "stop")
    BY <1>1, <1>2, <1>4, <1>12, HasOf
  <2>2. p[1] = "save"
    BY <1>12
  <2>3. n = 1
    BY <1>1, <2>1
  <2> QED
    BY <1>2, <1>3, <2>1, <2>2, <2>3
<1> QED
  BY <1>5, <1>6, <1>7, <1>8, <1>9, <1>10, <1>11, <1>12

\* What turns an operation back, write by write.
LEMMA UndoParts ==
  ASSUME NEW j, NEW f, NEW P, P = Parts(Undoing(j, f))
  PROVE  /\ j.op = "enable" /\ f = "save" => P = {StopIt}
         /\ j.op = "enable" /\ f \in {"auth", "config"} =>
              P = IF j.cur.hot THEN {SaveAs(j.cur), ToAuth("gateway", j.cur), ToConfig("gateway")}
                  ELSE {SaveAs(j.cur), StopIt}
         /\ j.op \in {"save", "mappings"} /\ f = "start" => P = {SaveAs(j.cur)}
         /\ j.op \in {"save", "mappings"} /\ f \in {"auth", "config"} =>
              P = {SaveAs(j.cur), ToAuth("gateway", j.cur), ToConfig("gateway")}
         /\ j.op = "switch" /\ f \in {"auth", "config"} =>
              P = {SaveAs(j.was.settings), PutConfig(j.was.config), PutAuth(j.was.auth)}
         /\ j.op = "logout" /\ f \in {"auth", "config"} => P = {SaveAs(j.cur)}
         /\ f = "save" /\ j.op # "enable" => P = {}
         /\ f = "start" /\ j.op = "enable" => P = {}
         /\ j.op \in {"disable", "apply", "clear", "import", "reset"} => P = {}
<1> DEFINE u == Undoing(j, f)
           S == SaveAs(j.cur)
           A == ToAuth("gateway", j.cur)
           C == ToConfig("gateway")
<1>1. u = CASE j.op = "enable" /\ f = "save" -> <<StopIt>>
             [] j.op = "enable" /\ f \in {"auth", "config"} ->
                  IF j.cur.hot THEN <<S, A, C>> ELSE <<S, StopIt>>
             [] j.op \in {"save", "mappings"} /\ f = "start" -> <<S>>
             [] j.op \in {"save", "mappings"} /\ f \in {"auth", "config"} -> <<S, A, C>>
             [] j.op = "switch" /\ f \in {"auth", "config"} ->
                  <<SaveAs(j.was.settings), PutConfig(j.was.config), PutAuth(j.was.auth)>>
             [] j.op = "logout" /\ f \in {"auth", "config"} -> <<S>>
             [] OTHER -> <<>>
  BY UndoingPrograms
<1> DEFINE W == SaveAs(j.was.settings)
           V == PutConfig(j.was.config)
           B == PutAuth(j.was.auth)
           X == StopIt
<1>2. P = Parts(u)
  OBVIOUS
<1>3. /\ j.op = "enable" /\ f = "save" => u = <<X>>
      /\ j.op = "enable" /\ f \in {"auth", "config"} => u = IF j.cur.hot THEN <<S, A, C>> ELSE <<S, X>>
      /\ j.op \in {"save", "mappings"} /\ f = "start" => u = <<S>>
      /\ j.op \in {"save", "mappings"} /\ f \in {"auth", "config"} => u = <<S, A, C>>
      /\ j.op = "switch" /\ f \in {"auth", "config"} => u = <<W, V, B>>
      /\ j.op = "logout" /\ f \in {"auth", "config"} => u = <<S>>
      /\ f = "save" /\ j.op # "enable" => u = <<>>
      /\ f = "start" /\ j.op = "enable" => u = <<>>
      /\ j.op \in {"disable", "apply", "clear", "import", "reset"} => u = <<>>
  <2> HIDE DEF u, S, A, C
  <2> QED
    BY <1>1
<1> HIDE DEF u, S, A, C, W, V, B, X
<1>4. /\ Parts(<<>>) = {} /\ Parts(<<X>>) = {X} /\ Parts(<<S>>) = {S} /\ Parts(<<S, X>>) = {S, X}
      /\ Parts(<<S, A, C>>) = {S, A, C} /\ Parts(<<W, V, B>>) = {W, V, B}
  BY PartsOfFew
<1>5. /\ j.op = "enable" /\ f = "save" => P = {X}
      /\ j.op = "enable" /\ f \in {"auth", "config"} => P = IF j.cur.hot THEN {S, A, C} ELSE {S, X}
      /\ j.op \in {"save", "mappings"} /\ f = "start" => P = {S}
      /\ j.op \in {"save", "mappings"} /\ f \in {"auth", "config"} => P = {S, A, C}
      /\ j.op = "switch" /\ f \in {"auth", "config"} => P = {W, V, B}
      /\ j.op = "logout" /\ f \in {"auth", "config"} => P = {S}
      /\ f = "save" /\ j.op # "enable" => P = {}
      /\ f = "start" /\ j.op = "enable" => P = {}
      /\ j.op \in {"disable", "apply", "clear", "import", "reset"} => P = {}
  BY <1>2, <1>3, <1>4, Zenon
<1> QED
  BY <1>5 DEF S, A, C, W, V, B, X

\* An operation that no other overlapped and one of whose writes fails is on its way back.
LEMMA TurnsBack ==
  ASSUME NEW j \in Jobs, NEW st \in States, NEW new \in States, Going(j, st, new), j.todo # <<>>,
         ~j.undoing, Paired(j.todo), Coherent(j.was), NEW f, f = Head(j.todo).do, f \notin {"stop", "capture"},
         ~LeftAsItIs(j, f), NEW k \in Jobs, k.was = j.was, k.todo = WhatIsLeft(j, f)
  PROVE  Back(k, st)
<1> DEFINE p == Plan(j.op, j.cur.hot)
           S == SaveAs(j.cur)
           A == ToAuth("gateway", j.cur)
           C == ToConfig("gateway")
           W == SaveAs(j.was.settings)
           V == PutConfig(j.was.config)
           B == PutAuth(j.was.auth)
           X == StopIt
           O == PutAuth(j.old)
           P == Parts(Undoing(j, f))
           R == Parts(k.todo)
<1>1. /\ S.do = "save" /\ S.to = j.cur
      /\ A.do = "auth" /\ A.to = "gateway"
      /\ C.do = "config" /\ C.to = "gateway"
      /\ W.do = "save" /\ W.to = j.was.settings
      /\ V.do = "putConfig" /\ V.to = j.was.config
      /\ B.do = "putAuth" /\ B.to = j.was.auth
      /\ X.do = "stop"
      /\ O.do = "putAuth" /\ O.to = j.old
  BY WritesAre
<1>2. R = (IF f = "config" THEN {O} ELSE {}) \cup P
  BY LeftGood
<1>3. /\ j.op = "enable" /\ f = "save" => P = {X}
      /\ j.op = "enable" /\ f \in {"auth", "config"} => P = IF j.cur.hot THEN {S, A, C} ELSE {S, X}
      /\ j.op \in {"save", "mappings"} /\ f = "start" => P = {S}
      /\ j.op \in {"save", "mappings"} /\ f \in {"auth", "config"} => P = {S, A, C}
      /\ j.op = "switch" /\ f \in {"auth", "config"} => P = {W, V, B}
      /\ j.op = "logout" /\ f \in {"auth", "config"} => P = {S}
      /\ f = "save" /\ j.op # "enable" => P = {}
      /\ f = "start" /\ j.op = "enable" => P = {}
      /\ j.op \in {"disable", "apply", "clear", "import", "reset"} => P = {}
  BY UndoParts
<1>4. /\ j.cur = j.was.settings
      /\ st.settings = IF Left(j, "save") THEN j.was.settings ELSE new.settings
      /\ st.auth = IF Left(j, "auth") THEN j.was.auth ELSE new.auth
      /\ st.config = IF Left(j, "config") THEN j.was.config ELSE new.config
      /\ st.server = IF Left(j, "start") \/ Left(j, "stop") THEN j.was.server ELSE new.server
      /\ Left(j, "config") /\ ~Left(j, "auth") => j.old = j.was.auth
      /\ Aim(j.op, j.was, new)
  BY DEF Going
<1>5. /\ j.was.settings.hot <=> j.was.server
      /\ j.was.settings.hot <=> j.was.config = "gateway"
      /\ j.was.settings.hot => j.was.auth = "gateway"
  BY DEF Coherent
<1>6. j.was.settings.hot \in BOOLEAN /\ j.was.server \in BOOLEAN /\ j.op \in Operations
  BY DEF Jobs, States, Setting
<1>7. /\ f = "save" => j.op # "disable" /\ ~(j.op = "enable" /\ j.cur.hot)
  BY DEF LeftAsItIs
<1>8. k.was = j.was
  OBVIOUS
<1> HIDE DEF S, A, C, W, V, B, X, O, P, R
<1>9. Back(k, st) <=>
        /\ \A w \in R :
             /\ w.do \in {"save", "auth", "config", "putConfig", "putAuth", "stop"}
             /\ w.do = "save" => w.to = j.was.settings
             /\ w.do = "auth" => w.to = "gateway" /\ j.was.auth = "gateway"
             /\ w.do \in {"config", "putConfig"} => w.to = j.was.config
             /\ w.do = "putAuth" => w.to = j.was.auth
             /\ w.do = "stop" => j.was.server = FALSE
        /\ (\A w \in R : w.do # "save") => st.settings = j.was.settings
        /\ (\A w \in R : w.do \notin {"auth", "putAuth"}) => st.auth = j.was.auth
        /\ (\A w \in R : w.do \notin {"config", "putConfig"}) => st.config = j.was.config
        /\ (\A w \in R : w.do # "stop") => st.server = j.was.server
  BY <1>8, Zenon DEF Back, R
<1>hot. ASSUME R = {S, A, C} \/ (R = {O, S, A, C} /\ j.old = j.was.auth), j.cur.hot,
               st.server = j.was.server
        PROVE  Back(k, st)
  <2>1. \A w \in R :
             /\ w.do \in {"save", "auth", "config", "putConfig", "putAuth", "stop"}
             /\ w.do = "save" => w.to = j.was.settings
             /\ w.do = "auth" => w.to = "gateway" /\ j.was.auth = "gateway"
             /\ w.do \in {"config", "putConfig"} => w.to = j.was.config
             /\ w.do = "putAuth" => w.to = j.was.auth
             /\ w.do = "stop" => j.was.server = FALSE
    BY <1>hot, <1>1, <1>4, <1>5
  <2>2. /\ ~\A w \in R : w.do # "save"
        /\ ~\A w \in R : w.do \notin {"auth", "putAuth"}
        /\ ~\A w \in R : w.do \notin {"config", "putConfig"}
    BY <1>hot, <1>1
  <2> QED
    BY <1>hot, <1>9, <2>1, <2>2, Zenon
<1>10. CASE j.op = "enable"
  <2>1. p = <<"config", "auth", "save", "start">>
    BY <1>4, <1>10 DEF Plan
  <2>2. /\ f \in {"config", "auth", "save", "start"}
        /\ (Left(j, "config") <=> f \in {"config", "auth", "save", "start"})
        /\ (Left(j, "auth") <=> f \in {"auth", "save", "start"})
        /\ (Left(j, "save") <=> f \in {"save", "start"})
        /\ (Left(j, "start") <=> f \in {"start"})
        /\ ~Left(j, "stop")
    BY <2>1, StageOf
  <2> HIDE DEF p
  <2>3. new.server = TRUE
    BY <1>4, <1>10 DEF Aim, SameLive
  <2>4. CASE f = "config"
    <3>1. R = (IF j.cur.hot THEN {O, S, A, C} ELSE {O, S, X})
      BY <1>2, <1>3, <1>10, <2>4
    <3>2. /\ st.server = (IF j.cur.hot THEN j.was.server ELSE TRUE) /\ j.old = j.was.auth
          /\ st.config = j.was.config
      BY <1>4, <1>5, <1>6, <1>10, <2>2, <2>3, <2>4
    <3>3. CASE j.cur.hot
      BY <1>hot, <3>1, <3>2, <3>3
    <3>4. CASE ~j.cur.hot
      BY <1>1, <1>4, <1>5, <1>6, <1>9, <3>1, <3>2, <3>4
    <3> QED
      BY <3>3, <3>4
  <2>5. CASE f = "auth"
    <3>1. R = (IF j.cur.hot THEN {S, A, C} ELSE {S, X})
      BY <1>2, <1>3, <1>10, <2>5
    <3>2. /\ st.server = (IF j.cur.hot THEN j.was.server ELSE TRUE)
          /\ st.auth = j.was.auth /\ st.config = j.was.config
      BY <1>4, <1>5, <1>6, <1>10, <2>2, <2>3, <2>5
    <3>3. CASE j.cur.hot
      BY <1>hot, <3>1, <3>2, <3>3
    <3>4. CASE ~j.cur.hot
      BY <1>1, <1>4, <1>5, <1>6, <1>9, <3>1, <3>2, <3>4
    <3> QED
      BY <3>3, <3>4
  <2>6. CASE f = "save"
    BY <2>1, <2>2, <1>1, <1>2, <1>3, <1>4, <1>5, <1>6, <1>7, <1>9, <1>10, <2>3, <2>6
  <2>7. CASE f = "start"
    BY <2>1, <2>2, <1>1, <1>2, <1>3, <1>4, <1>5, <1>6, <1>7, <1>9, <1>10, <2>3, <2>7
  <2> QED
    BY <2>2, <2>4, <2>5, <2>6, <2>7
<1>11. CASE j.op = "disable" /\ j.cur.hot
  <2>1. p = <<"stop", "save", "config", "auth">>
    BY <1>4, <1>11 DEF Plan
  <2>2. /\ f \in {"stop", "save", "config", "auth"}
        /\ (Left(j, "config") <=> f \in {"config", "auth"})
        /\ (Left(j, "auth") <=> f \in {"auth"})
        /\ (Left(j, "save") <=> f \in {"save", "config", "auth"})
        /\ ~Left(j, "start")
        /\ (Left(j, "stop") <=> f \in {"stop", "save", "config", "auth"})
    BY <2>1, StageOf
  <2> HIDE DEF p
  <2>4. CASE f = "save"
    BY <2>1, <2>2, <1>1, <1>2, <1>3, <1>4, <1>5, <1>6, <1>7, <1>9, <1>11, <2>4
  <2>5. CASE f = "config"
    BY <2>1, <2>2, <1>1, <1>2, <1>3, <1>4, <1>5, <1>6, <1>7, <1>9, <1>11, <2>5
  <2>6. CASE f = "auth"
    BY <2>1, <2>2, <1>1, <1>2, <1>3, <1>4, <1>5, <1>6, <1>7, <1>9, <1>11, <2>6
  <2> QED
    BY <2>2, <2>4, <2>5, <2>6
<1>12. CASE j.op = "disable" /\ ~j.cur.hot
  <2>1. p = <<"stop", "save">>
    BY <1>4, <1>12 DEF Plan
  <2>2. /\ f \in {"stop", "save"}
        /\ ~Left(j, "config")
        /\ ~Left(j, "auth")
        /\ (Left(j, "save") <=> f \in {"save"})
        /\ ~Left(j, "start")
        /\ (Left(j, "stop") <=> f \in {"stop", "save"})
    BY <2>1, StageOf
  <2> HIDE DEF p
  <2>4. CASE f = "save"
    BY <2>1, <2>2, <1>1, <1>2, <1>3, <1>4, <1>5, <1>6, <1>7, <1>9, <1>12, <2>4
  <2> QED
    BY <2>2, <2>4
<1>13. CASE j.op = "save" /\ j.cur.hot
  <2>1. p = <<"config", "auth", "start", "save">>
    BY <1>4, <1>13 DEF Plan
  <2>2. /\ f \in {"config", "auth", "start", "save"}
        /\ (Left(j, "config") <=> f \in {"config", "auth", "start", "save"})
        /\ (Left(j, "auth") <=> f \in {"auth", "start", "save"})
        /\ (Left(j, "save") <=> f \in {"save"})
        /\ (Left(j, "start") <=> f \in {"start", "save"})
        /\ ~Left(j, "stop")
    BY <2>1, StageOf
  <2> HIDE DEF p
  <2>3. new.server = TRUE
    BY <1>4, <1>13 DEF Aim, SameLive
  <2>4. CASE f = "config"
    <3>1. P = {S, A, C}
      BY <1>3, <1>13, <2>4
    <3>2. R = {O, S, A, C}
      BY <1>2, <2>4, <3>1
    <3>3. st.server = j.was.server /\ j.old = j.was.auth
      BY <1>4, <1>5, <1>6, <1>13, <2>2, <2>3, <2>4
    <3> QED
      BY <1>13, <1>hot, <3>2, <3>3
  <2>5. CASE f = "auth"
    <3>1. P = {S, A, C}
      BY <1>3, <1>13, <2>5
    <3>2. R = {S, A, C}
      BY <1>2, <2>5, <3>1
    <3>3. st.server = j.was.server
      BY <1>4, <1>5, <1>6, <1>13, <2>2, <2>3, <2>5
    <3> QED
      BY <1>13, <1>hot, <3>2, <3>3
  <2>6. CASE f = "start"
    BY <2>1, <2>2, <1>1, <1>2, <1>3, <1>4, <1>5, <1>6, <1>7, <1>9, <1>13, <2>3, <2>6
  <2>7. CASE f = "save"
    BY <2>1, <2>2, <1>1, <1>2, <1>3, <1>4, <1>5, <1>6, <1>7, <1>9, <1>13, <2>3, <2>7
  <2> QED
    BY <2>2, <2>4, <2>5, <2>6, <2>7
<1>14. CASE j.op = "mappings" /\ j.cur.hot
  <2>1. p = <<"config", "auth", "save">>
    BY <1>4, <1>14 DEF Plan
  <2>2. /\ f \in {"config", "auth", "save"}
        /\ (Left(j, "config") <=> f \in {"config", "auth", "save"})
        /\ (Left(j, "auth") <=> f \in {"auth", "save"})
        /\ (Left(j, "save") <=> f \in {"save"})
        /\ ~Left(j, "start")
        /\ ~Left(j, "stop")
    BY <2>1, StageOf
  <2> HIDE DEF p
  <2>3. new.server = j.was.server
    BY <1>4, <1>14 DEF Aim, SameLive
  <2>4. CASE f = "config"
    BY <2>1, <2>2, <1>1, <1>2, <1>3, <1>4, <1>5, <1>6, <1>7, <1>9, <1>14, <2>3, <2>4
  <2>5. CASE f = "auth"
    BY <2>1, <2>2, <1>1, <1>2, <1>3, <1>4, <1>5, <1>6, <1>7, <1>9, <1>14, <2>3, <2>5
  <2>6. CASE f = "save"
    BY <2>1, <2>2, <1>1, <1>2, <1>3, <1>4, <1>5, <1>6, <1>7, <1>9, <1>14, <2>3, <2>6
  <2> QED
    BY <2>2, <2>4, <2>5, <2>6
<1>15. CASE j.op \in {"save", "mappings"} /\ ~j.cur.hot
  <2>1. p = <<"save">>
    BY <1>4, <1>15 DEF Plan
  <2>2. /\ f \in {"save"}
        /\ ~Left(j, "config")
        /\ ~Left(j, "auth")
        /\ (Left(j, "save") <=> f \in {"save"})
        /\ ~Left(j, "start")
        /\ ~Left(j, "stop")
    BY <2>1, StageOf
  <2> HIDE DEF p
  <2>3. new.auth = j.was.auth /\ new.config = j.was.config /\ new.server = j.was.server
    BY <1>4, <1>15 DEF Aim, SameLive
  <2>4. CASE f = "save"
    BY <2>1, <2>2, <1>1, <1>2, <1>3, <1>4, <1>5, <1>6, <1>7, <1>9, <1>15, <2>3, <2>4
  <2> QED
    BY <2>2, <2>4
<1>16. CASE j.op = "switch"
  <2>1. p = <<"config", "auth", "save", "capture">>
    BY <1>4, <1>16 DEF Plan
  <2>2. /\ f \in {"config", "auth", "save", "capture"}
        /\ (Left(j, "config") <=> f \in {"config", "auth", "save", "capture"})
        /\ (Left(j, "auth") <=> f \in {"auth", "save", "capture"})
        /\ (Left(j, "save") <=> f \in {"save", "capture"})
        /\ ~Left(j, "start")
        /\ ~Left(j, "stop")
    BY <2>1, StageOf
  <2> HIDE DEF p
  <2>3. new.server = j.was.server
    BY <1>4, <1>16 DEF Aim, SameLive
  <2>4. CASE f = "config"
    BY <2>1, <2>2, <1>1, <1>2, <1>3, <1>4, <1>5, <1>6, <1>7, <1>9, <1>16, <2>3, <2>4
  <2>5. CASE f = "auth"
    BY <2>1, <2>2, <1>1, <1>2, <1>3, <1>4, <1>5, <1>6, <1>7, <1>9, <1>16, <2>3, <2>5
  <2>6. CASE f = "save"
    BY <2>1, <2>2, <1>1, <1>2, <1>3, <1>4, <1>5, <1>6, <1>7, <1>9, <1>16, <2>3, <2>6
  <2> QED
    BY <2>2, <2>4, <2>5, <2>6
<1>17. CASE j.op \in {"apply", "clear"}
  <2>1. p = <<"config", "auth">>
    BY <1>4, <1>17 DEF Plan
  <2>2. /\ f \in {"config", "auth"}
        /\ (Left(j, "config") <=> f \in {"config", "auth"})
        /\ (Left(j, "auth") <=> f \in {"auth"})
        /\ ~Left(j, "save")
        /\ ~Left(j, "start")
        /\ ~Left(j, "stop")
    BY <2>1, StageOf
  <2> HIDE DEF p
  <2>3. new.server = j.was.server /\ new.settings = j.was.settings
    BY <1>4, <1>17 DEF Aim, SameLive
  <2>4. CASE f = "config"
    BY <2>1, <2>2, <1>1, <1>2, <1>3, <1>4, <1>5, <1>6, <1>7, <1>9, <1>17, <2>3, <2>4
  <2>5. CASE f = "auth"
    BY <2>1, <2>2, <1>1, <1>2, <1>3, <1>4, <1>5, <1>6, <1>7, <1>9, <1>17, <2>3, <2>5
  <2> QED
    BY <2>2, <2>4, <2>5
<1>18. CASE j.op \in {"import", "reset"}
  <2>1. p = <<"save">>
    BY <1>4, <1>18 DEF Plan
  <2>2. /\ f \in {"save"}
        /\ ~Left(j, "config")
        /\ ~Left(j, "auth")
        /\ (Left(j, "save") <=> f \in {"save"})
        /\ ~Left(j, "start")
        /\ ~Left(j, "stop")
    BY <2>1, StageOf
  <2> HIDE DEF p
  <2>3. new.auth = j.was.auth /\ new.config = j.was.config /\ new.server = j.was.server
    BY <1>4, <1>18 DEF Aim, SameLive
  <2>4. CASE f = "save"
    BY <2>1, <2>2, <1>1, <1>2, <1>3, <1>4, <1>5, <1>6, <1>7, <1>9, <1>18, <2>3, <2>4
  <2> QED
    BY <2>2, <2>4
<1>19. CASE j.op = "logout"
  <2>1. p = <<"config", "auth", "save">>
    BY <1>4, <1>19 DEF Plan
  <2>2. /\ f \in {"config", "auth", "save"}
        /\ (Left(j, "config") <=> f \in {"config", "auth", "save"})
        /\ (Left(j, "auth") <=> f \in {"auth", "save"})
        /\ (Left(j, "save") <=> f \in {"save"})
        /\ ~Left(j, "start")
        /\ ~Left(j, "stop")
    BY <2>1, StageOf
  <2> HIDE DEF p
  <2>3. new.server = j.was.server
    BY <1>4, <1>19 DEF Aim, SameLive
  <2>4. CASE f = "config"
    BY <2>1, <2>2, <1>1, <1>2, <1>3, <1>4, <1>5, <1>6, <1>7, <1>9, <1>19, <2>3, <2>4
  <2>5. CASE f = "auth"
    BY <2>1, <2>2, <1>1, <1>2, <1>3, <1>4, <1>5, <1>6, <1>7, <1>9, <1>19, <2>3, <2>5
  <2>6. CASE f = "save"
    BY <2>1, <2>2, <1>1, <1>2, <1>3, <1>4, <1>5, <1>6, <1>7, <1>9, <1>19, <2>3, <2>6
  <2> QED
    BY <2>2, <2>4, <2>5, <2>6
<1> QED
  BY <1>6, <1>10, <1>11, <1>12, <1>13, <1>14, <1>15, <1>16, <1>17, <1>18, <1>19 DEF Operations

\* An operation of which no other got in the way is on its way back with hot switching on, or
\* with Codex away from the gateway.
LEMMA TurnsSafe ==
  ASSUME NEW j \in Jobs, NEW st \in States, NEW new \in States, Going(j, st, new), j.todo # <<>>,
         ~j.undoing, Paired(j.todo), Gate(j.was), Gate(st), Turned(j, new),
         NEW f, f = Head(j.todo).do, f \notin {"stop", "capture"}, NEW r, r = WhatIsLeft(j, f)
  PROVE  Quiet(r, st) \/ StaysHot(r, st)
<1> DEFINE p == Plan(j.op, j.cur.hot)
           S == SaveAs(j.cur)
           A == ToAuth("gateway", j.cur)
           C == ToConfig("gateway")
           W == SaveAs(j.was.settings)
           V == PutConfig(j.was.config)
           B == PutAuth(j.was.auth)
           X == StopIt
           O == PutAuth(j.old)
           P == Parts(Undoing(j, f))
           R == Parts(r)
<1>1. /\ S.do = "save" /\ S.to = j.cur
      /\ A.do = "auth"
      /\ C.do = "config"
      /\ W.do = "save" /\ W.to = j.was.settings
      /\ V.do = "putConfig" /\ V.to = j.was.config
      /\ B.do = "putAuth"
      /\ X.do = "stop"
      /\ O.do = "putAuth"
  BY WritesAre
<1>2. R = (IF f = "config" THEN {O} ELSE {}) \cup P
  BY LeftGood
<1>3. /\ j.op = "enable" /\ f = "save" => P = {X}
      /\ j.op = "enable" /\ f \in {"auth", "config"} => P = IF j.cur.hot THEN {S, A, C} ELSE {S, X}
      /\ j.op \in {"save", "mappings"} /\ f = "start" => P = {S}
      /\ j.op \in {"save", "mappings"} /\ f \in {"auth", "config"} => P = {S, A, C}
      /\ j.op = "switch" /\ f \in {"auth", "config"} => P = {W, V, B}
      /\ j.op = "logout" /\ f \in {"auth", "config"} => P = {S}
      /\ f = "save" /\ j.op # "enable" => P = {}
      /\ f = "start" /\ j.op = "enable" => P = {}
      /\ j.op \in {"disable", "apply", "clear", "import", "reset"} => P = {}
  BY UndoParts
<1>4. /\ j.cur = j.was.settings
      /\ st.settings = IF Left(j, "save") THEN j.was.settings ELSE new.settings
      /\ st.config = IF Left(j, "config") THEN j.was.config ELSE new.config
      /\ Aim(j.op, j.was, new)
  BY DEF Going
<1>5. /\ j.was.config = "gateway" => j.was.settings.hot
      /\ st.config = "gateway" => st.settings.hot
      /\ j.op \in Turners /\ ~Left(j, "save") => new.settings.hot = j.was.settings.hot
  BY DEF Gate, Turned
<1>6. j.op \in Operations /\ new.settings \in Setting /\ j.was.settings \in Setting
  BY DEF Jobs, States
<1> HIDE DEF S, A, C, W, V, B, X, O, P, R
<1>7. /\ Quiet(r, st) <=> /\ st.config # "gateway"
                          /\ \A w \in R : w.do \in {"config", "putConfig"} => w.to # "gateway"
      /\ StaysHot(r, st) <=> /\ st.settings.hot
                             /\ \A w \in R : w.do = "save" => w.to.hot
  BY Zenon DEF Quiet, StaysHot, R
<1>8. (\A w \in R : w.do \notin {"config", "putConfig", "save"}) => Quiet(r, st) \/ StaysHot(r, st)
  BY <1>5, <1>7
<1>9. CASE j.op = "enable"
  <2>1. p = <<"config", "auth", "save", "start">>
    BY <1>4, <1>9 DEF Plan
  <2>2. /\ f \in {"config", "auth", "save", "start"}
        /\ (Left(j, "config") <=> f \in {"config", "auth", "save", "start"})
        /\ (Left(j, "auth") <=> f \in {"auth", "save", "start"})
        /\ (Left(j, "save") <=> f \in {"save", "start"})
        /\ (Left(j, "start") <=> f \in {"start"})
        /\ ~Left(j, "stop")
    BY <2>1, StageOf
  <2> HIDE DEF p
  <2>3. new.settings.hot
    BY <1>4, <1>6, <1>9 DEF Aim, Setting, Turners
  <2>4. CASE f = "config"
    BY <2>1, <2>2, <1>1, <1>2, <1>3, <1>4, <1>5, <1>7, <1>8, <1>9, <2>3, <2>4
  <2>5. CASE f = "auth"
    BY <2>1, <2>2, <1>1, <1>2, <1>3, <1>4, <1>5, <1>7, <1>8, <1>9, <2>3, <2>5
  <2>6. CASE f = "save"
    BY <2>1, <2>2, <1>1, <1>2, <1>3, <1>4, <1>5, <1>7, <1>8, <1>9, <2>3, <2>6
  <2>7. CASE f = "start"
    BY <2>1, <2>2, <1>1, <1>2, <1>3, <1>4, <1>5, <1>7, <1>8, <1>9, <2>3, <2>7
  <2> QED
    BY <2>2, <2>4, <2>5, <2>6, <2>7
<1>10. CASE j.op = "disable" /\ j.cur.hot
  <2>1. p = <<"stop", "save", "config", "auth">>
    BY <1>4, <1>10 DEF Plan
  <2>2. /\ f \in {"stop", "save", "config", "auth"}
        /\ (Left(j, "config") <=> f \in {"config", "auth"})
        /\ (Left(j, "auth") <=> f \in {"auth"})
        /\ (Left(j, "save") <=> f \in {"save", "config", "auth"})
        /\ ~Left(j, "start")
        /\ (Left(j, "stop") <=> f \in {"stop", "save", "config", "auth"})
    BY <2>1, StageOf
  <2> HIDE DEF p
  <2>4. CASE f = "save"
    BY <2>1, <2>2, <1>1, <1>2, <1>3, <1>4, <1>5, <1>7, <1>8, <1>10, <2>4
  <2>5. CASE f = "config"
    BY <2>1, <2>2, <1>1, <1>2, <1>3, <1>4, <1>5, <1>7, <1>8, <1>10, <2>5
  <2>6. CASE f = "auth"
    BY <2>1, <2>2, <1>1, <1>2, <1>3, <1>4, <1>5, <1>7, <1>8, <1>10, <2>6
  <2> QED
    BY <2>2, <2>4, <2>5, <2>6
<1>11. CASE j.op = "disable" /\ ~j.cur.hot
  <2>1. p = <<"stop", "save">>
    BY <1>4, <1>11 DEF Plan
  <2>2. /\ f \in {"stop", "save"}
        /\ ~Left(j, "config")
        /\ ~Left(j, "auth")
        /\ (Left(j, "save") <=> f \in {"save"})
        /\ ~Left(j, "start")
        /\ (Left(j, "stop") <=> f \in {"stop", "save"})
    BY <2>1, StageOf
  <2> HIDE DEF p
  <2>4. CASE f = "save"
    BY <2>1, <2>2, <1>1, <1>2, <1>3, <1>4, <1>5, <1>7, <1>8, <1>11, <2>4
  <2> QED
    BY <2>2, <2>4
<1>12. CASE j.op = "save" /\ j.cur.hot
  <2>1. p = <<"config", "auth", "start", "save">>
    BY <1>4, <1>12 DEF Plan
  <2>2. /\ f \in {"config", "auth", "start", "save"}
        /\ (Left(j, "config") <=> f \in {"config", "auth", "start", "save"})
        /\ (Left(j, "auth") <=> f \in {"auth", "start", "save"})
        /\ (Left(j, "save") <=> f \in {"save"})
        /\ (Left(j, "start") <=> f \in {"start", "save"})
        /\ ~Left(j, "stop")
    BY <2>1, StageOf
  <2> HIDE DEF p
  <2>3. new.settings.hot
    BY <1>4, <1>6, <1>12 DEF Aim, Setting, Turners
  <2>4. CASE f = "config"
    BY <2>1, <2>2, <1>1, <1>2, <1>3, <1>4, <1>5, <1>7, <1>8, <1>12, <2>3, <2>4
  <2>5. CASE f = "auth"
    BY <2>1, <2>2, <1>1, <1>2, <1>3, <1>4, <1>5, <1>7, <1>8, <1>12, <2>3, <2>5
  <2>6. CASE f = "start"
    BY <2>1, <2>2, <1>1, <1>2, <1>3, <1>4, <1>5, <1>7, <1>8, <1>12, <2>3, <2>6
  <2>7. CASE f = "save"
    BY <2>1, <2>2, <1>1, <1>2, <1>3, <1>4, <1>5, <1>7, <1>8, <1>12, <2>3, <2>7
  <2> QED
    BY <2>2, <2>4, <2>5, <2>6, <2>7
<1>13. CASE j.op = "mappings" /\ j.cur.hot
  <2>1. p = <<"config", "auth", "save">>
    BY <1>4, <1>13 DEF Plan
  <2>2. /\ f \in {"config", "auth", "save"}
        /\ (Left(j, "config") <=> f \in {"config", "auth", "save"})
        /\ (Left(j, "auth") <=> f \in {"auth", "save"})
        /\ (Left(j, "save") <=> f \in {"save"})
        /\ ~Left(j, "start")
        /\ ~Left(j, "stop")
    BY <2>1, StageOf
  <2> HIDE DEF p
  <2>3. new.settings.hot
    BY <1>4, <1>6, <1>13 DEF Aim, Setting, Turners
  <2>4. CASE f = "config"
    BY <2>1, <2>2, <1>1, <1>2, <1>3, <1>4, <1>5, <1>7, <1>8, <1>13, <2>3, <2>4
  <2>5. CASE f = "auth"
    BY <2>1, <2>2, <1>1, <1>2, <1>3, <1>4, <1>5, <1>7, <1>8, <1>13, <2>3, <2>5
  <2>6. CASE f = "save"
    BY <2>1, <2>2, <1>1, <1>2, <1>3, <1>4, <1>5, <1>7, <1>8, <1>13, <2>3, <2>6
  <2> QED
    BY <2>2, <2>4, <2>5, <2>6
<1>14. CASE j.op \in {"save", "mappings"} /\ ~j.cur.hot
  <2>1. p = <<"save">>
    BY <1>4, <1>14 DEF Plan
  <2>2. /\ f \in {"save"}
        /\ ~Left(j, "config")
        /\ ~Left(j, "auth")
        /\ (Left(j, "save") <=> f \in {"save"})
        /\ ~Left(j, "start")
        /\ ~Left(j, "stop")
    BY <2>1, StageOf
  <2> HIDE DEF p
  <2>4. CASE f = "save"
    BY <2>1, <2>2, <1>1, <1>2, <1>3, <1>4, <1>5, <1>7, <1>8, <1>14, <2>4
  <2> QED
    BY <2>2, <2>4
<1>15. CASE j.op = "switch"
  <2>1. p = <<"config", "auth", "save", "capture">>
    BY <1>4, <1>15 DEF Plan
  <2>2. /\ f \in {"config", "auth", "save", "capture"}
        /\ (Left(j, "config") <=> f \in {"config", "auth", "save", "capture"})
        /\ (Left(j, "auth") <=> f \in {"auth", "save", "capture"})
        /\ (Left(j, "save") <=> f \in {"save", "capture"})
        /\ ~Left(j, "start")
        /\ ~Left(j, "stop")
    BY <2>1, StageOf
  <2> HIDE DEF p
  <2>3. ~j.was.settings.hot
    BY <1>4, <1>6, <1>15 DEF Aim, Setting, Turners
  <2>4. CASE f = "config"
    BY <2>1, <2>2, <1>1, <1>2, <1>3, <1>4, <1>5, <1>7, <1>8, <1>15, <2>3, <2>4
  <2>5. CASE f = "auth"
    BY <2>1, <2>2, <1>1, <1>2, <1>3, <1>4, <1>5, <1>7, <1>8, <1>15, <2>3, <2>5
  <2>6. CASE f = "save"
    BY <2>1, <2>2, <1>1, <1>2, <1>3, <1>4, <1>5, <1>7, <1>8, <1>15, <2>3, <2>6
  <2> QED
    BY <2>2, <2>4, <2>5, <2>6
<1>16. CASE j.op \in {"apply", "clear"}
  <2>1. p = <<"config", "auth">>
    BY <1>4, <1>16 DEF Plan
  <2>2. /\ f \in {"config", "auth"}
        /\ (Left(j, "config") <=> f \in {"config", "auth"})
        /\ (Left(j, "auth") <=> f \in {"auth"})
        /\ ~Left(j, "save")
        /\ ~Left(j, "start")
        /\ ~Left(j, "stop")
    BY <2>1, StageOf
  <2> HIDE DEF p
  <2>4. CASE f = "config"
    BY <2>1, <2>2, <1>1, <1>2, <1>3, <1>4, <1>5, <1>7, <1>8, <1>16, <2>4
  <2>5. CASE f = "auth"
    BY <2>1, <2>2, <1>1, <1>2, <1>3, <1>4, <1>5, <1>7, <1>8, <1>16, <2>5
  <2> QED
    BY <2>2, <2>4, <2>5
<1>17. CASE j.op \in {"import", "reset"}
  <2>1. p = <<"save">>
    BY <1>4, <1>17 DEF Plan
  <2>2. /\ f \in {"save"}
        /\ ~Left(j, "config")
        /\ ~Left(j, "auth")
        /\ (Left(j, "save") <=> f \in {"save"})
        /\ ~Left(j, "start")
        /\ ~Left(j, "stop")
    BY <2>1, StageOf
  <2> HIDE DEF p
  <2>4. CASE f = "save"
    BY <2>1, <2>2, <1>1, <1>2, <1>3, <1>4, <1>5, <1>7, <1>8, <1>17, <2>4
  <2> QED
    BY <2>2, <2>4
<1>18. CASE j.op = "logout"
  <2>1. p = <<"config", "auth", "save">>
    BY <1>4, <1>18 DEF Plan
  <2>2. /\ f \in {"config", "auth", "save"}
        /\ (Left(j, "config") <=> f \in {"config", "auth", "save"})
        /\ (Left(j, "auth") <=> f \in {"auth", "save"})
        /\ (Left(j, "save") <=> f \in {"save"})
        /\ ~Left(j, "start")
        /\ ~Left(j, "stop")
    BY <2>1, StageOf
  <2> HIDE DEF p
  <2>3. ~new.settings.hot /\ j.op \in Turners
    BY <1>4, <1>6, <1>18 DEF Aim, Setting, Turners
  <2>4. CASE f = "config"
    BY <2>1, <2>2, <1>1, <1>2, <1>3, <1>4, <1>5, <1>7, <1>8, <1>18, <2>3, <2>4
  <2>5. CASE f = "auth"
    BY <2>1, <2>2, <1>1, <1>2, <1>3, <1>4, <1>5, <1>7, <1>8, <1>18, <2>3, <2>5
  <2>6. CASE f = "save"
    BY <2>1, <2>2, <1>1, <1>2, <1>3, <1>4, <1>5, <1>7, <1>8, <1>18, <2>3, <2>6
  <2> QED
    BY <2>2, <2>4, <2>5, <2>6
<1> QED
  BY <1>6, <1>9, <1>10, <1>11, <1>12, <1>13, <1>14, <1>15, <1>16, <1>17, <1>18 DEF Operations

\* On its way, an operation does not leave Codex with a gateway that the settings do not have.
LEMMA GoingGate ==
  ASSUME NEW j \in Jobs, NEW st \in States, NEW new \in States, Going(j, st, new),
         Gate(j.was), Turned(j, new)
  PROVE  Gate(st)
<1> DEFINE p == Plan(j.op, j.cur.hot)
           n == Len(j.todo)
<1>1. /\ j.cur = j.was.settings /\ n <= Len(p)
      /\ st.settings = IF Left(j, "save") THEN j.was.settings ELSE new.settings
      /\ st.config = IF Left(j, "config") THEN j.was.config ELSE new.config
      /\ Aim(j.op, j.was, new)
  BY DEF Going
<1>2. /\ j.was.config = "gateway" => j.was.settings.hot
      /\ j.op \in Turners /\ ~Left(j, "save") => new.settings.hot = j.was.settings.hot
  BY DEF Gate, Turned
<1>3. j.op \in Operations /\ new.settings \in Setting /\ j.was.settings \in Setting /\ n \in Nat
  BY DEF Jobs, States
<1>4. Len(p) \in 1..4
  BY PlanOnce
<1>5. \A w : Left(j, w) <=> Has(p, n, w)
  BY DEF Left, Has
<1> HIDE DEF n
<1>6. CASE j.op = "enable"
  <2>1. new.settings.hot
    BY <1>1, <1>2, <1>3, <1>6 DEF Aim, SameLive, Own, Setting, Turners
  <2>2. p = <<"config", "auth", "save", "start">>
    BY <1>1, <1>6 DEF Plan
  <2> HIDE DEF p
  <2>3. n \in 0..4 /\ (Left(j, "save") <=> n >= 3) /\ (Left(j, "config") <=> n >= 1)
    BY <1>1, <1>3, <1>4, <1>5, <2>2, HasOf
  <2> QED
    BY <1>1, <1>2, <1>6, <2>1, <2>3 DEF Gate
<1>7. CASE j.op = "disable" /\ j.cur.hot
  <2>1. new.config # "gateway"
    BY <1>1, <1>2, <1>3, <1>7 DEF Aim, SameLive, Own, Setting, Turners
  <2>2. p = <<"stop", "save", "config", "auth">>
    BY <1>1, <1>7 DEF Plan
  <2> HIDE DEF p
  <2>3. n \in 0..4 /\ (Left(j, "save") <=> n >= 2) /\ (Left(j, "config") <=> n >= 3)
    BY <1>1, <1>3, <1>4, <1>5, <2>2, HasOf
  <2> QED
    BY <1>1, <1>2, <1>7, <2>1, <2>3 DEF Gate
<1>8. CASE j.op = "disable" /\ ~j.cur.hot
  <2>1. new.config = j.was.config /\ j.was.config # "gateway"
    BY <1>1, <1>2, <1>3, <1>8 DEF Aim, SameLive, Own, Setting, Turners
  <2>2. p = <<"stop", "save">>
    BY <1>1, <1>8 DEF Plan
  <2> HIDE DEF p
  <2>3. n \in 0..4 /\ (Left(j, "save") <=> n >= 2) /\ ~Left(j, "config")
    BY <1>1, <1>3, <1>4, <1>5, <2>2, HasOf
  <2> QED
    BY <1>1, <1>2, <1>8, <2>1, <2>3 DEF Gate
<1>9. CASE j.op \in {"save", "mappings"} /\ j.cur.hot
  <2>1. new.settings.hot
    BY <1>1, <1>2, <1>3, <1>9 DEF Aim, SameLive, Own, Setting, Turners
  <2> QED
    BY <1>1, <1>2, <1>9, <2>1 DEF Gate
<1>10. CASE j.op \in {"save", "mappings"} /\ ~j.cur.hot
  <2>1. new.config = j.was.config /\ j.was.config # "gateway"
    BY <1>1, <1>2, <1>3, <1>10 DEF Aim, SameLive, Own, Setting, Turners
  <2> QED
    BY <1>1, <1>2, <1>10, <2>1 DEF Gate
<1>11. CASE j.op \in {"switch", "apply", "clear"}
  <2>1. new.config # "gateway" /\ j.was.config # "gateway"
    BY <1>1, <1>2, <1>3, <1>11 DEF Aim, SameLive, Own, Setting, Turners
  <2> QED
    BY <1>1, <1>2, <1>11, <2>1 DEF Gate
<1>12. CASE j.op = "import"
  <2>1. new.config = j.was.config /\ j.was.config # "gateway"
    BY <1>1, <1>2, <1>3, <1>12 DEF Aim, SameLive, Own, Setting, Turners
  <2> QED
    BY <1>1, <1>2, <1>12, <2>1 DEF Gate
<1>13. CASE j.op = "reset"
  <2>1. new.config = j.was.config /\ j.op \in Turners
    BY <1>1, <1>2, <1>3, <1>13 DEF Aim, SameLive, Own, Setting, Turners
  <2>2. p = <<"save">>
    BY <1>1, <1>13 DEF Plan
  <2> HIDE DEF p
  <2>3. n \in 0..4 /\ (Left(j, "save") <=> n >= 1) /\ ~Left(j, "config")
    BY <1>1, <1>3, <1>4, <1>5, <2>2, HasOf
  <2> QED
    BY <1>1, <1>2, <1>13, <2>1, <2>3 DEF Gate
<1>14. CASE j.op = "logout"
  <2>1. new.config # "gateway" /\ ~new.settings.hot /\ j.op \in Turners
    BY <1>1, <1>2, <1>3, <1>14 DEF Aim, SameLive, Own, Setting, Turners
  <2> QED
    BY <1>1, <1>2, <1>14, <2>1 DEF Gate
<1> QED
  BY <1>3, <1>6, <1>7, <1>8, <1>9, <1>10, <1>11, <1>12, <1>13, <1>14 DEF Operations

-----------------------------------------------------------------------------
(* An operation begins.                                                      *)

\* Short series counted from the end.
LEMMA LastOfFew ==
  /\ \A x : Len(<<x>>) = 1 /\ FromEnd(<<x>>, 1) = x
  /\ \A x, y : Len(<<x, y>>) = 2 /\ FromEnd(<<x, y>>, 1) = y /\ FromEnd(<<x, y>>, 2) = x
  /\ \A x, y, z : /\ Len(<<x, y, z>>) = 3 /\ FromEnd(<<x, y, z>>, 1) = z
                  /\ FromEnd(<<x, y, z>>, 2) = y /\ FromEnd(<<x, y, z>>, 3) = x
  /\ \A x, y, z, u : /\ Len(<<x, y, z, u>>) = 4 /\ FromEnd(<<x, y, z, u>>, 1) = u /\ FromEnd(<<x, y, z, u>>, 2) = z
                     /\ FromEnd(<<x, y, z, u>>, 3) = y /\ FromEnd(<<x, y, z, u>>, 4) = x
  BY DEF FromEnd

\* An operation of one write that fits is on its way.
LEMMA SetsOut1 ==
  ASSUME NEW j \in Jobs, NEW st \in States, NEW new \in States, st = j.was, j.cur = st.settings,
         NEW x, j.todo = <<x>>, Plan(j.op, j.cur.hot) = <<x.do>>,
         Fits(x, st, new),
         "save" \notin {x.do} => new.settings = st.settings,
         "config" \in {x.do} <=> "auth" \in {x.do},
         "auth" \notin {x.do} => new.auth = st.auth /\ new.config = st.config,
         "start" \notin {x.do} /\ "stop" \notin {x.do} => new.server = st.server,
         Aim(j.op, st, new)
  PROVE  Going(j, st, new) /\ ("save" \in {x.do} => Left(j, "save"))
<1> DEFINE p == Plan(j.op, j.cur.hot)
           q == j.todo
<1>1. Len(q) = 1 /\ FromEnd(q, 1) = x
  BY LastOfFew
<1>2. Len(p) = 1 /\ p[1] = x.do /\ 1..1 = {1}
  OBVIOUS
<1>3. \A w : Left(j, w) <=> \E k \in 1..1 : p[k] = w
  BY <1>1 DEF Left
<1> HIDE DEF p, q
<1>4. \A w : Left(j, w) <=> w \in {x.do}
  BY <1>2, <1>3
<1>5. Len(q) <= Len(p) /\ \A k \in 1..Len(q) : FromEnd(q, k).do = p[k] /\ Fits(FromEnd(q, k), st, new)
  BY <1>1, <1>2
<1>6. /\ st.settings = IF Left(j, "save") THEN st.settings ELSE new.settings
      /\ st.auth = IF Left(j, "auth") THEN st.auth ELSE new.auth
      /\ st.config = IF Left(j, "config") THEN st.config ELSE new.config
      /\ st.server = IF Left(j, "start") \/ Left(j, "stop") THEN st.server ELSE new.server
      /\ Left(j, "config") => Left(j, "auth")
  BY <1>4
<1> QED
  BY <1>4, <1>5, <1>6 DEF Going, p, q

\* An operation of two writes that fit is on its way.
LEMMA SetsOut2 ==
  ASSUME NEW j \in Jobs, NEW st \in States, NEW new \in States, st = j.was, j.cur = st.settings,
         NEW x, NEW y, j.todo = <<x, y>>, Plan(j.op, j.cur.hot) = <<y.do, x.do>>,
         Fits(x, st, new), Fits(y, st, new),
         "save" \notin {x.do, y.do} => new.settings = st.settings,
         "config" \in {x.do, y.do} <=> "auth" \in {x.do, y.do},
         "auth" \notin {x.do, y.do} => new.auth = st.auth /\ new.config = st.config,
         "start" \notin {x.do, y.do} /\ "stop" \notin {x.do, y.do} => new.server = st.server,
         Aim(j.op, st, new)
  PROVE  Going(j, st, new) /\ ("save" \in {x.do, y.do} => Left(j, "save"))
<1> DEFINE p == Plan(j.op, j.cur.hot)
           q == j.todo
<1>1. Len(q) = 2 /\ FromEnd(q, 1) = y /\ FromEnd(q, 2) = x
  BY LastOfFew
<1>2. Len(p) = 2 /\ p[1] = y.do /\ p[2] = x.do /\ 1..2 = {1, 2}
  OBVIOUS
<1>3. \A w : Left(j, w) <=> \E k \in 1..2 : p[k] = w
  BY <1>1 DEF Left
<1> HIDE DEF p, q
<1>4. \A w : Left(j, w) <=> w \in {x.do, y.do}
  BY <1>2, <1>3
<1>5. Len(q) <= Len(p) /\ \A k \in 1..Len(q) : FromEnd(q, k).do = p[k] /\ Fits(FromEnd(q, k), st, new)
  BY <1>1, <1>2
<1>6. /\ st.settings = IF Left(j, "save") THEN st.settings ELSE new.settings
      /\ st.auth = IF Left(j, "auth") THEN st.auth ELSE new.auth
      /\ st.config = IF Left(j, "config") THEN st.config ELSE new.config
      /\ st.server = IF Left(j, "start") \/ Left(j, "stop") THEN st.server ELSE new.server
      /\ Left(j, "config") => Left(j, "auth")
  BY <1>4
<1> QED
  BY <1>4, <1>5, <1>6 DEF Going, p, q

\* An operation of three writes that fit is on its way.
LEMMA SetsOut3 ==
  ASSUME NEW j \in Jobs, NEW st \in States, NEW new \in States, st = j.was, j.cur = st.settings,
         NEW x, NEW y, NEW z, j.todo = <<x, y, z>>, Plan(j.op, j.cur.hot) = <<z.do, y.do, x.do>>,
         Fits(x, st, new), Fits(y, st, new), Fits(z, st, new),
         "save" \notin {x.do, y.do, z.do} => new.settings = st.settings,
         "config" \in {x.do, y.do, z.do} <=> "auth" \in {x.do, y.do, z.do},
         "auth" \notin {x.do, y.do, z.do} => new.auth = st.auth /\ new.config = st.config,
         "start" \notin {x.do, y.do, z.do} /\ "stop" \notin {x.do, y.do, z.do} => new.server = st.server,
         Aim(j.op, st, new)
  PROVE  Going(j, st, new) /\ ("save" \in {x.do, y.do, z.do} => Left(j, "save"))
<1> DEFINE p == Plan(j.op, j.cur.hot)
           q == j.todo
<1>1. Len(q) = 3 /\ FromEnd(q, 1) = z /\ FromEnd(q, 2) = y /\ FromEnd(q, 3) = x
  BY LastOfFew
<1>2. Len(p) = 3 /\ p[1] = z.do /\ p[2] = y.do /\ p[3] = x.do /\ 1..3 = {1, 2, 3}
  OBVIOUS
<1>3. \A w : Left(j, w) <=> \E k \in 1..3 : p[k] = w
  BY <1>1 DEF Left
<1> HIDE DEF p, q
<1>4. \A w : Left(j, w) <=> w \in {x.do, y.do, z.do}
  BY <1>2, <1>3
<1>5. Len(q) <= Len(p) /\ \A k \in 1..Len(q) : FromEnd(q, k).do = p[k] /\ Fits(FromEnd(q, k), st, new)
  BY <1>1, <1>2
<1>6. /\ st.settings = IF Left(j, "save") THEN st.settings ELSE new.settings
      /\ st.auth = IF Left(j, "auth") THEN st.auth ELSE new.auth
      /\ st.config = IF Left(j, "config") THEN st.config ELSE new.config
      /\ st.server = IF Left(j, "start") \/ Left(j, "stop") THEN st.server ELSE new.server
      /\ Left(j, "config") => Left(j, "auth")
  BY <1>4
<1> QED
  BY <1>4, <1>5, <1>6 DEF Going, p, q

\* An operation of four writes that fit is on its way.
LEMMA SetsOut4 ==
  ASSUME NEW j \in Jobs, NEW st \in States, NEW new \in States, st = j.was, j.cur = st.settings,
         NEW x, NEW y, NEW z, NEW u, j.todo = <<x, y, z, u>>, Plan(j.op, j.cur.hot) = <<u.do, z.do, y.do, x.do>>,
         Fits(x, st, new), Fits(y, st, new), Fits(z, st, new), Fits(u, st, new),
         "save" \notin {x.do, y.do, z.do, u.do} => new.settings = st.settings,
         "config" \in {x.do, y.do, z.do, u.do} <=> "auth" \in {x.do, y.do, z.do, u.do},
         "auth" \notin {x.do, y.do, z.do, u.do} => new.auth = st.auth /\ new.config = st.config,
         "start" \notin {x.do, y.do, z.do, u.do} /\ "stop" \notin {x.do, y.do, z.do, u.do} => new.server = st.server,
         Aim(j.op, st, new)
  PROVE  Going(j, st, new) /\ ("save" \in {x.do, y.do, z.do, u.do} => Left(j, "save"))
<1> DEFINE p == Plan(j.op, j.cur.hot)
           q == j.todo
<1>1. Len(q) = 4 /\ FromEnd(q, 1) = u /\ FromEnd(q, 2) = z /\ FromEnd(q, 3) = y /\ FromEnd(q, 4) = x
  BY LastOfFew
<1>2. Len(p) = 4 /\ p[1] = u.do /\ p[2] = z.do /\ p[3] = y.do /\ p[4] = x.do /\ 1..4 = {1, 2, 3, 4}
  OBVIOUS
<1>3. \A w : Left(j, w) <=> \E k \in 1..4 : p[k] = w
  BY <1>1 DEF Left
<1> HIDE DEF p, q
<1>4. \A w : Left(j, w) <=> w \in {x.do, y.do, z.do, u.do}
  BY <1>2, <1>3
<1>5. Len(q) <= Len(p) /\ \A k \in 1..Len(q) : FromEnd(q, k).do = p[k] /\ Fits(FromEnd(q, k), st, new)
  BY <1>1, <1>2
<1>6. /\ st.settings = IF Left(j, "save") THEN st.settings ELSE new.settings
      /\ st.auth = IF Left(j, "auth") THEN st.auth ELSE new.auth
      /\ st.config = IF Left(j, "config") THEN st.config ELSE new.config
      /\ st.server = IF Left(j, "start") \/ Left(j, "stop") THEN st.server ELSE new.server
      /\ Left(j, "config") => Left(j, "auth")
  BY <1>4
<1> QED
  BY <1>4, <1>5, <1>6 DEF Going, p, q


\* Saving the form while hot: the settings, the gateway, both files.
LEMMA SaveFormIs ==
  ASSUME NEW cur, NEW sent, cur.hot
  PROVE  SaveForm(cur, sent) =
           <<SaveAs([sent EXCEPT !.hot = cur.hot]), StartIt, ToAuth("gateway", cur), ToConfig("gateway")>>
  BY Programs, Zenon

\* Enabling hot switching is on its way when it begins alone.
LEMMA BeginsEnable ==
  ASSUME NEW j \in Jobs, NEW st \in States, st = j.was, j.cur = st.settings,
         j.op = "enable", j.todo = Enable(j.cur)
  PROVE  \E new \in States : Going(j, st, new) /\ Turned(j, new)
<1> DEFINE cur == j.cur
           on == [cur EXCEPT !.hot = TRUE]
           x == StartIt
           y == SaveAs(on)
           z == ToAuth("gateway", cur)
           u == ToConfig("gateway")
           new == [settings |-> on, auth |-> "gateway", config |-> "gateway", server |-> TRUE]
<1>1. cur \in Setting /\ st.auth \in Keys /\ st.config \in Targets /\ st.server \in BOOLEAN
  BY DEF States
<1>2. on \in Setting
  BY <1>1 DEF Setting
<1>3. j.todo = <<x, y, z, u>>
  BY <1>1, <1>2, Programs
<1>4. new \in States
  BY <1>1, <1>2 DEF States, Setting, Keys, Targets, Suppliers, AuthOf
<1>5. /\ x.do = "start"
      /\ y.do = "save" /\ y.to = on
      /\ z.do = "auth" /\ z.to = "gateway" /\ z.s = cur
      /\ u.do = "config" /\ u.to = "gateway"
  BY WritesAre
<1>6. /\ new.settings = on /\ new.auth = "gateway"
      /\ new.config = "gateway" /\ new.server = TRUE
  OBVIOUS
<1> HIDE DEF x, y, z, u, new
<1>7. Fits(x, st, new) /\ Fits(y, st, new) /\ Fits(z, st, new) /\ Fits(u, st, new)
  BY <1>5, <1>6 DEF Fits, AuthOf
<1>8. Aim(j.op, st, new)
  BY <1>1, <1>2, <1>6, NameAssumption DEF Aim, SameLive, Own, AuthOf, Suppliers, Setting
<1>9. Plan(j.op, j.cur.hot) = <<u.do, z.do, y.do, x.do>>
  BY <1>1, <1>2, <1>5 DEF Plan
<1>10. Going(j, st, new) /\ ("save" \in {x.do, y.do, z.do, u.do} => Left(j, "save"))
  BY <1>3, <1>4, <1>5, <1>6, <1>7, <1>8, <1>9, SetsOut4
<1>11. Going(j, st, new) /\ Turned(j, new)
  BY <1>10, <1>5 DEF Turned, Turners
<1> QED
  BY <1>4, <1>11

\* Disabling it is on its way when it begins alone.
LEMMA BeginsDisable ==
  ASSUME NEW j \in Jobs, NEW st \in States, st = j.was, j.cur = st.settings,
         j.op = "disable", j.cur.hot, j.todo = Disable(j.cur)
  PROVE  \E new \in States : Going(j, st, new) /\ Turned(j, new)
<1> DEFINE cur == j.cur
           off == [cur EXCEPT !.hot = FALSE]
           d == IF cur.on THEN cur.active ELSE "official"
           x == ToAuth(d, cur)
           y == ToConfig(d)
           z == SaveAs(off)
           u == StopIt
           new == [settings |-> off, auth |-> AuthOf(d, cur, st.auth), config |-> d, server |-> FALSE]
<1>1. cur \in Setting /\ st.auth \in Keys /\ st.config \in Targets /\ st.server \in BOOLEAN
  BY DEF States
<1>2. off \in Setting
  BY <1>1 DEF Setting
<1>3. d \in Suppliers
  BY <1>1 DEF Setting, Suppliers
<1>4. j.todo = <<x, y, z, u>>
  BY <1>1, <1>2, <1>3, Programs
<1>5. new \in States
  BY <1>1, <1>2, <1>3 DEF States, Setting, Keys, Targets, Suppliers, AuthOf
<1>6. /\ x.do = "auth" /\ x.to = d /\ x.s = cur
      /\ y.do = "config" /\ y.to = d
      /\ z.do = "save" /\ z.to = off
      /\ u.do = "stop"
  BY WritesAre
<1>7. /\ new.settings = off /\ new.auth = AuthOf(d, cur, st.auth)
      /\ new.config = d /\ new.server = FALSE
  OBVIOUS
<1> HIDE DEF x, y, z, u, new
<1>8. Fits(x, st, new) /\ Fits(y, st, new) /\ Fits(z, st, new) /\ Fits(u, st, new)
  BY <1>6, <1>7 DEF Fits, AuthOf
<1>9. Aim(j.op, st, new)
  BY <1>1, <1>2, <1>3, <1>7, NameAssumption DEF Aim, SameLive, Own, AuthOf, Suppliers, Setting
<1>10. Plan(j.op, j.cur.hot) = <<u.do, z.do, y.do, x.do>>
  BY <1>1, <1>2, <1>3, <1>6 DEF Plan
<1>11. Going(j, st, new) /\ ("save" \in {x.do, y.do, z.do, u.do} => Left(j, "save"))
  BY <1>4, <1>5, <1>6, <1>7, <1>8, <1>9, <1>10, SetsOut4
<1>12. Going(j, st, new) /\ Turned(j, new)
  BY <1>11, <1>6 DEF Turned, Turners
<1> QED
  BY <1>5, <1>12

\* Disabling it when it is off already is on its way when it begins alone.
LEMMA BeginsDisableAgain ==
  ASSUME NEW j \in Jobs, NEW st \in States, st = j.was, j.cur = st.settings,
         j.op = "disable", ~j.cur.hot, j.todo = Disable(j.cur)
  PROVE  \E new \in States : Going(j, st, new) /\ Turned(j, new)
<1> DEFINE cur == j.cur
           off == [cur EXCEPT !.hot = FALSE]
           x == SaveAs(off)
           y == StopIt
           new == [settings |-> off, auth |-> st.auth, config |-> st.config, server |-> FALSE]
<1>1. cur \in Setting /\ st.auth \in Keys /\ st.config \in Targets /\ st.server \in BOOLEAN
  BY DEF States
<1>2. off \in Setting
  BY <1>1 DEF Setting
<1>3. j.todo = <<x, y>>
  BY <1>1, <1>2, Programs
<1>4. new \in States
  BY <1>1, <1>2 DEF States, Setting, Keys, Targets, Suppliers, AuthOf
<1>5. /\ x.do = "save" /\ x.to = off
      /\ y.do = "stop"
  BY WritesAre
<1>6. /\ new.settings = off /\ new.auth = st.auth
      /\ new.config = st.config /\ new.server = FALSE
  OBVIOUS
<1> HIDE DEF x, y, new
<1>7. Fits(x, st, new) /\ Fits(y, st, new)
  BY <1>5, <1>6 DEF Fits, AuthOf
<1>8. Aim(j.op, st, new)
  BY <1>1, <1>2, <1>6, NameAssumption DEF Aim, SameLive, Own, AuthOf, Suppliers, Setting
<1>9. Plan(j.op, j.cur.hot) = <<y.do, x.do>>
  BY <1>1, <1>2, <1>5 DEF Plan
<1>10. Going(j, st, new) /\ ("save" \in {x.do, y.do} => Left(j, "save"))
  BY <1>3, <1>4, <1>5, <1>6, <1>7, <1>8, <1>9, SetsOut2
<1>11. Going(j, st, new) /\ Turned(j, new)
  BY <1>10, <1>5 DEF Turned, Turners
<1> QED
  BY <1>4, <1>11

\* Saving the form while hot is on its way when it begins alone.
LEMMA BeginsSave ==
  ASSUME NEW j \in Jobs, NEW st \in States, st = j.was, j.cur = st.settings,
         j.op = "save", j.cur.hot, NEW sent \in Setting, j.todo = SaveForm(j.cur, sent)
  PROVE  \E new \in States : Going(j, st, new) /\ Turned(j, new)
<1> DEFINE cur == j.cur
           as == [sent EXCEPT !.hot = cur.hot]
           x == SaveAs(as)
           y == StartIt
           z == ToAuth("gateway", cur)
           u == ToConfig("gateway")
           new == [settings |-> as, auth |-> "gateway", config |-> "gateway", server |-> TRUE]
<1>1. cur \in Setting /\ st.auth \in Keys /\ st.config \in Targets /\ st.server \in BOOLEAN
  BY DEF States
<1>2. as \in Setting /\ as.hot = cur.hot
  BY <1>1 DEF Setting
<1>3. j.todo = <<x, y, z, u>>
  BY SaveFormIs, Zenon
<1>4. new \in States
  BY <1>1, <1>2 DEF States, Setting, Keys, Targets, Suppliers, AuthOf
<1>5. /\ x.do = "save" /\ x.to = as
      /\ y.do = "start"
      /\ z.do = "auth" /\ z.to = "gateway" /\ z.s = cur
      /\ u.do = "config" /\ u.to = "gateway"
  BY WritesAre
<1>6. /\ new.settings = as /\ new.auth = "gateway"
      /\ new.config = "gateway" /\ new.server = TRUE
  OBVIOUS
<1> HIDE DEF x, y, z, u, new
<1>7. Fits(x, st, new) /\ Fits(y, st, new) /\ Fits(z, st, new) /\ Fits(u, st, new)
  BY <1>5, <1>6 DEF Fits, AuthOf
<1>8. Aim(j.op, st, new)
  BY <1>1, <1>2, <1>6, NameAssumption DEF Aim, SameLive, Own, AuthOf, Suppliers, Setting
<1>9. Plan(j.op, j.cur.hot) = <<u.do, z.do, y.do, x.do>>
  BY <1>1, <1>2, <1>5 DEF Plan
<1>10. Going(j, st, new) /\ ("save" \in {x.do, y.do, z.do, u.do} => Left(j, "save"))
  BY <1>3, <1>4, <1>5, <1>6, <1>7, <1>8, <1>9, SetsOut4
<1>11. Going(j, st, new) /\ Turned(j, new)
  BY <1>10, <1>5 DEF Turned, Turners
<1> QED
  BY <1>4, <1>11

\* Saving the form otherwise is on its way when it begins alone.
LEMMA BeginsSaveOff ==
  ASSUME NEW j \in Jobs, NEW st \in States, st = j.was, j.cur = st.settings,
         j.op = "save", ~j.cur.hot, NEW sent \in Setting, j.todo = SaveForm(j.cur, sent)
  PROVE  \E new \in States : Going(j, st, new) /\ Turned(j, new)
<1> DEFINE cur == j.cur
           as == [sent EXCEPT !.hot = cur.hot]
           x == SaveAs(as)
           new == [settings |-> as, auth |-> st.auth, config |-> st.config, server |-> st.server]
<1>1. cur \in Setting /\ st.auth \in Keys /\ st.config \in Targets /\ st.server \in BOOLEAN
  BY DEF States
<1>2. as \in Setting /\ as.hot = cur.hot
  BY <1>1 DEF Setting
<1>3. j.todo = <<x>>
  BY <1>1, <1>2, Programs
<1>4. new \in States
  BY <1>1, <1>2 DEF States, Setting, Keys, Targets, Suppliers, AuthOf
<1>5. /\ x.do = "save" /\ x.to = as
  BY WritesAre
<1>6. /\ new.settings = as /\ new.auth = st.auth
      /\ new.config = st.config /\ new.server = st.server
  OBVIOUS
<1> HIDE DEF x, new
<1>7. Fits(x, st, new)
  BY <1>5, <1>6 DEF Fits, AuthOf
<1>8. Aim(j.op, st, new)
  BY <1>1, <1>2, <1>6, NameAssumption DEF Aim, SameLive, Own, AuthOf, Suppliers, Setting
<1>9. Plan(j.op, j.cur.hot) = <<x.do>>
  BY <1>1, <1>2, <1>5 DEF Plan
<1>10. Going(j, st, new) /\ ("save" \in {x.do} => Left(j, "save"))
  BY <1>3, <1>4, <1>5, <1>6, <1>7, <1>8, <1>9, SetsOut1
<1>11. Going(j, st, new) /\ Turned(j, new)
  BY <1>10, <1>5 DEF Turned, Turners
<1> QED
  BY <1>4, <1>11

\* Saving the mappings while hot is on its way when it begins alone.
LEMMA BeginsMappings ==
  ASSUME NEW j \in Jobs, NEW st \in States, st = j.was, j.cur = st.settings,
         j.op = "mappings", j.cur.hot, j.todo = SaveMappings(j.cur)
  PROVE  \E new \in States : Going(j, st, new) /\ Turned(j, new)
<1> DEFINE cur == j.cur
           x == SaveAs(cur)
           y == ToAuth("gateway", cur)
           z == ToConfig("gateway")
           new == [settings |-> cur, auth |-> "gateway", config |-> "gateway", server |-> st.server]
<1>1. cur \in Setting /\ st.auth \in Keys /\ st.config \in Targets /\ st.server \in BOOLEAN
  BY DEF States
<1>2. j.todo = <<x, y, z>>
  BY <1>1, Programs
<1>3. new \in States
  BY <1>1 DEF States, Setting, Keys, Targets, Suppliers, AuthOf
<1>4. /\ x.do = "save" /\ x.to = cur
      /\ y.do = "auth" /\ y.to = "gateway" /\ y.s = cur
      /\ z.do = "config" /\ z.to = "gateway"
  BY WritesAre
<1>5. /\ new.settings = cur /\ new.auth = "gateway"
      /\ new.config = "gateway" /\ new.server = st.server
  OBVIOUS
<1> HIDE DEF x, y, z, new
<1>6. Fits(x, st, new) /\ Fits(y, st, new) /\ Fits(z, st, new)
  BY <1>4, <1>5 DEF Fits, AuthOf
<1>7. Aim(j.op, st, new)
  BY <1>1, <1>5, NameAssumption DEF Aim, SameLive, Own, AuthOf, Suppliers, Setting
<1>8. Plan(j.op, j.cur.hot) = <<z.do, y.do, x.do>>
  BY <1>1, <1>4 DEF Plan
<1>9. Going(j, st, new) /\ ("save" \in {x.do, y.do, z.do} => Left(j, "save"))
  BY <1>2, <1>3, <1>4, <1>5, <1>6, <1>7, <1>8, SetsOut3
<1>10. Going(j, st, new) /\ Turned(j, new)
  BY <1>9, <1>4 DEF Turned, Turners
<1> QED
  BY <1>3, <1>10

\* Saving the mappings otherwise is on its way when it begins alone.
LEMMA BeginsMappingsOff ==
  ASSUME NEW j \in Jobs, NEW st \in States, st = j.was, j.cur = st.settings,
         j.op = "mappings", ~j.cur.hot, j.todo = SaveMappings(j.cur)
  PROVE  \E new \in States : Going(j, st, new) /\ Turned(j, new)
<1> DEFINE cur == j.cur
           x == SaveAs(cur)
           new == [settings |-> cur, auth |-> st.auth, config |-> st.config, server |-> st.server]
<1>1. cur \in Setting /\ st.auth \in Keys /\ st.config \in Targets /\ st.server \in BOOLEAN
  BY DEF States
<1>2. j.todo = <<x>>
  BY <1>1, Programs
<1>3. new \in States
  BY <1>1 DEF States, Setting, Keys, Targets, Suppliers, AuthOf
<1>4. /\ x.do = "save" /\ x.to = cur
  BY WritesAre
<1>5. /\ new.settings = cur /\ new.auth = st.auth
      /\ new.config = st.config /\ new.server = st.server
  OBVIOUS
<1> HIDE DEF x, new
<1>6. Fits(x, st, new)
  BY <1>4, <1>5 DEF Fits, AuthOf
<1>7. Aim(j.op, st, new)
  BY <1>1, <1>5, NameAssumption DEF Aim, SameLive, Own, AuthOf, Suppliers, Setting
<1>8. Plan(j.op, j.cur.hot) = <<x.do>>
  BY <1>1, <1>4 DEF Plan
<1>9. Going(j, st, new) /\ ("save" \in {x.do} => Left(j, "save"))
  BY <1>2, <1>3, <1>4, <1>5, <1>6, <1>7, <1>8, SetsOut1
<1>10. Going(j, st, new) /\ Turned(j, new)
  BY <1>9, <1>4 DEF Turned, Turners
<1> QED
  BY <1>3, <1>10

\* Changing the supplier is on its way when it begins alone.
LEMMA BeginsSwitch ==
  ASSUME NEW j \in Jobs, NEW st \in States, st = j.was, j.cur = st.settings,
         j.op = "switch", NEW sent \in Setting, j.todo # <<>>, j.todo = Switch(j.cur, sent)
  PROVE  \E new \in States : Going(j, st, new) /\ Turned(j, new)
<1> DEFINE cur == j.cur
           d == IF sent.on THEN sent.active ELSE "official"
           x == Capture
           y == SaveAs(sent)
           z == ToAuth(d, sent)
           u == ToConfig(d)
           new == [settings |-> sent, auth |-> AuthOf(d, sent, st.auth), config |-> d, server |-> st.server]
<1>1. cur \in Setting /\ st.auth \in Keys /\ st.config \in Targets /\ st.server \in BOOLEAN
  BY DEF States
<1>2. d \in Suppliers
  BY <1>1 DEF Setting, Suppliers
<1>3. ~cur.hot
  BY Programs
<1>4. j.todo = <<x, y, z, u>>
  BY <1>1, <1>2, <1>3, Programs
<1>5. new \in States
  BY <1>1, <1>2, <1>3 DEF States, Setting, Keys, Targets, Suppliers, AuthOf
<1>6. /\ x.do = "capture"
      /\ y.do = "save" /\ y.to = sent
      /\ z.do = "auth" /\ z.to = d /\ z.s = sent
      /\ u.do = "config" /\ u.to = d
  BY WritesAre
<1>7. /\ new.settings = sent /\ new.auth = AuthOf(d, sent, st.auth)
      /\ new.config = d /\ new.server = st.server
  OBVIOUS
<1> HIDE DEF x, y, z, u, new
<1>8. Fits(x, st, new) /\ Fits(y, st, new) /\ Fits(z, st, new) /\ Fits(u, st, new)
  BY <1>6, <1>7 DEF Fits, AuthOf
<1>9. Aim(j.op, st, new)
  BY <1>1, <1>2, <1>3, <1>7, NameAssumption DEF Aim, SameLive, Own, AuthOf, Suppliers, Setting
<1>10. Plan(j.op, j.cur.hot) = <<u.do, z.do, y.do, x.do>>
  BY <1>1, <1>2, <1>3, <1>6 DEF Plan
<1>11. Going(j, st, new) /\ ("save" \in {x.do, y.do, z.do, u.do} => Left(j, "save"))
  BY <1>4, <1>5, <1>6, <1>7, <1>8, <1>9, <1>10, SetsOut4
<1>12. Going(j, st, new) /\ Turned(j, new)
  BY <1>11, <1>6 DEF Turned, Turners
<1> QED
  BY <1>5, <1>12

\* Applying the supplier is on its way when it begins alone.
LEMMA BeginsApply ==
  ASSUME NEW j \in Jobs, NEW st \in States, st = j.was, j.cur = st.settings,
         j.op = "apply", j.todo # <<>>, j.todo = Apply(j.cur)
  PROVE  \E new \in States : Going(j, st, new) /\ Turned(j, new)
<1> DEFINE cur == j.cur
           d == IF cur.on THEN cur.active ELSE "official"
           x == ToAuth(d, cur)
           y == ToConfig(d)
           new == [settings |-> cur, auth |-> AuthOf(d, cur, st.auth), config |-> d, server |-> st.server]
<1>1. cur \in Setting /\ st.auth \in Keys /\ st.config \in Targets /\ st.server \in BOOLEAN
  BY DEF States
<1>2. d \in Suppliers
  BY <1>1 DEF Setting, Suppliers
<1>3. ~cur.hot
  BY DEF Apply
<1>4. j.todo = <<x, y>>
  BY <1>1, <1>2, <1>3, Programs DEF Apply, Direct, Live
<1>5. new \in States
  BY <1>1, <1>2, <1>3 DEF States, Setting, Keys, Targets, Suppliers, AuthOf
<1>6. /\ x.do = "auth" /\ x.to = d /\ x.s = cur
      /\ y.do = "config" /\ y.to = d
  BY WritesAre
<1>7. /\ new.settings = cur /\ new.auth = AuthOf(d, cur, st.auth)
      /\ new.config = d /\ new.server = st.server
  OBVIOUS
<1> HIDE DEF x, y, new
<1>8. Fits(x, st, new) /\ Fits(y, st, new)
  BY <1>6, <1>7 DEF Fits, AuthOf
<1>9. Aim(j.op, st, new)
  BY <1>1, <1>2, <1>3, <1>7, NameAssumption DEF Aim, SameLive, Own, AuthOf, Suppliers, Setting
<1>10. Plan(j.op, j.cur.hot) = <<y.do, x.do>>
  BY <1>1, <1>2, <1>3, <1>6 DEF Plan
<1>11. Going(j, st, new) /\ ("save" \in {x.do, y.do} => Left(j, "save"))
  BY <1>4, <1>5, <1>6, <1>7, <1>8, <1>9, <1>10, SetsOut2
<1>12. Going(j, st, new) /\ Turned(j, new)
  BY <1>11, <1>6 DEF Turned, Turners
<1> QED
  BY <1>5, <1>12

\* Clearing the API configuration is on its way when it begins alone.
LEMMA BeginsClear ==
  ASSUME NEW j \in Jobs, NEW st \in States, st = j.was, j.cur = st.settings,
         j.op = "clear", j.todo # <<>>, j.todo = Clear(j.cur)
  PROVE  \E new \in States : Going(j, st, new) /\ Turned(j, new)
<1> DEFINE cur == j.cur
           x == ToAuth("official", cur)
           y == ToConfig("official")
           new == [settings |-> cur, auth |-> AuthOf("official", cur, st.auth), config |-> "official", server |-> st.server]
<1>1. cur \in Setting /\ st.auth \in Keys /\ st.config \in Targets /\ st.server \in BOOLEAN
  BY DEF States
<1>2. ~cur.hot
  BY DEF Clear
<1>3. j.todo = <<x, y>>
  BY <1>1, <1>2, Programs DEF Clear, Live
<1>4. new \in States
  BY <1>1, <1>2 DEF States, Setting, Keys, Targets, Suppliers, AuthOf
<1>5. /\ x.do = "auth" /\ x.to = "official" /\ x.s = cur
      /\ y.do = "config" /\ y.to = "official"
  BY WritesAre
<1>6. /\ new.settings = cur /\ new.auth = AuthOf("official", cur, st.auth)
      /\ new.config = "official" /\ new.server = st.server
  OBVIOUS
<1> HIDE DEF x, y, new
<1>7. Fits(x, st, new) /\ Fits(y, st, new)
  BY <1>5, <1>6 DEF Fits, AuthOf
<1>8. Aim(j.op, st, new)
  BY <1>1, <1>2, <1>6, NameAssumption DEF Aim, SameLive, Own, AuthOf, Suppliers, Setting
<1>9. Plan(j.op, j.cur.hot) = <<y.do, x.do>>
  BY <1>1, <1>2, <1>5 DEF Plan
<1>10. Going(j, st, new) /\ ("save" \in {x.do, y.do} => Left(j, "save"))
  BY <1>3, <1>4, <1>5, <1>6, <1>7, <1>8, <1>9, SetsOut2
<1>11. Going(j, st, new) /\ Turned(j, new)
  BY <1>10, <1>5 DEF Turned, Turners
<1> QED
  BY <1>4, <1>11

\* Importing settings is on its way when it begins alone.
LEMMA BeginsImport ==
  ASSUME NEW j \in Jobs, NEW st \in States, st = j.was, j.cur = st.settings,
         j.op = "import", j.todo # <<>>, j.todo = Import(j.cur)
  PROVE  \E new \in States : Going(j, st, new) /\ Turned(j, new)
<1> DEFINE cur == j.cur
           x == SaveAs(cur)
           new == [settings |-> cur, auth |-> st.auth, config |-> st.config, server |-> st.server]
<1>1. cur \in Setting /\ st.auth \in Keys /\ st.config \in Targets /\ st.server \in BOOLEAN
  BY DEF States
<1>2. ~cur.hot
  BY DEF Import
<1>3. j.todo = <<x>>
  BY <1>1, <1>2, Programs DEF Import
<1>4. new \in States
  BY <1>1, <1>2 DEF States, Setting, Keys, Targets, Suppliers, AuthOf
<1>5. /\ x.do = "save" /\ x.to = cur
  BY WritesAre
<1>6. /\ new.settings = cur /\ new.auth = st.auth
      /\ new.config = st.config /\ new.server = st.server
  OBVIOUS
<1> HIDE DEF x, new
<1>7. Fits(x, st, new)
  BY <1>5, <1>6 DEF Fits, AuthOf
<1>8. Aim(j.op, st, new)
  BY <1>1, <1>2, <1>6, NameAssumption DEF Aim, SameLive, Own, AuthOf, Suppliers, Setting
<1>9. Plan(j.op, j.cur.hot) = <<x.do>>
  BY <1>1, <1>2, <1>5 DEF Plan
<1>10. Going(j, st, new) /\ ("save" \in {x.do} => Left(j, "save"))
  BY <1>3, <1>4, <1>5, <1>6, <1>7, <1>8, <1>9, SetsOut1
<1>11. Going(j, st, new) /\ Turned(j, new)
  BY <1>10, <1>5 DEF Turned, Turners
<1> QED
  BY <1>4, <1>11

\* Resetting the settings is on its way when it begins alone.
LEMMA BeginsReset ==
  ASSUME NEW j \in Jobs, NEW st \in States, st = j.was, j.cur = st.settings,
         j.op = "reset", j.todo = <<SaveAs(Default)>>
  PROVE  \E new \in States : Going(j, st, new) /\ Turned(j, new)
<1> DEFINE cur == j.cur
           x == SaveAs(Default)
           new == [settings |-> Default, auth |-> st.auth, config |-> st.config, server |-> st.server]
<1>1. cur \in Setting /\ st.auth \in Keys /\ st.config \in Targets /\ st.server \in BOOLEAN
  BY DEF States
<1>2. Default \in Setting
  BY DEF Default, Setting, Suppliers
<1>3. j.todo = <<x>>
  BY <1>1, <1>2, Programs
<1>4. new \in States
  BY <1>1, <1>2 DEF States, Setting, Keys, Targets, Suppliers, AuthOf
<1>5. /\ x.do = "save" /\ x.to = Default
  BY WritesAre
<1>6. /\ new.settings = Default /\ new.auth = st.auth
      /\ new.config = st.config /\ new.server = st.server
  OBVIOUS
<1> HIDE DEF x, new
<1>7. Fits(x, st, new)
  BY <1>5, <1>6 DEF Fits, AuthOf
<1>8. Aim(j.op, st, new)
  BY <1>1, <1>2, <1>6, NameAssumption DEF Aim, SameLive, Own, AuthOf, Suppliers, Setting
<1>9. Plan(j.op, j.cur.hot) = <<x.do>>
  BY <1>1, <1>2, <1>5 DEF Plan
<1>10. Going(j, st, new) /\ ("save" \in {x.do} => Left(j, "save"))
  BY <1>3, <1>4, <1>5, <1>6, <1>7, <1>8, <1>9, SetsOut1
<1>11. Going(j, st, new) /\ Turned(j, new)
  BY <1>10, <1>5 DEF Turned, Turners
<1> QED
  BY <1>4, <1>11

\* Logging out of the API is on its way when it begins alone, to a state with the sign-in if one is known.
LEMMA BeginsLogout ==
  ASSUME NEW j \in Jobs, NEW st \in States, st = j.was, j.cur = st.settings,
         j.op = "logout", j.todo # <<>>, j.todo = Logout(j.cur), backedUp \in BOOLEAN
  PROVE  \E new \in States : Going(j, st, new) /\ Turned(j, new) /\ (st.auth = "tokens" \/ backedUp => new.auth = "tokens")
<1> DEFINE cur == j.cur
           off == [cur EXCEPT !.hot = FALSE, !.on = FALSE]
           has == [cur EXCEPT !.kept = @ \/ backedUp]
           x == SaveAs(off)
           y == ToAuth("official", has)
           z == ToConfig("official")
           new == [settings |-> off, auth |-> AuthOf("official", has, st.auth), config |-> "official", server |-> st.server]
<1>1. cur \in Setting /\ st.auth \in Keys /\ st.config \in Targets /\ st.server \in BOOLEAN
  BY DEF States
<1>2. off \in Setting /\ off.hot = FALSE
  BY <1>1 DEF Setting
<1>3. has \in Setting /\ (has.kept <=> cur.kept \/ backedUp)
  BY <1>1 DEF Setting
<1>4. j.todo = <<x, y, z>>
  BY <1>1, <1>2, <1>3, Programs
<1>5. new \in States
  BY <1>1, <1>2, <1>3 DEF States, Setting, Keys, Targets, Suppliers, AuthOf
<1>6. /\ x.do = "save" /\ x.to = off
      /\ y.do = "auth" /\ y.to = "official" /\ y.s = has
      /\ z.do = "config" /\ z.to = "official"
  BY WritesAre
<1>7. /\ new.settings = off /\ new.auth = AuthOf("official", has, st.auth)
      /\ new.config = "official" /\ new.server = st.server
  OBVIOUS
<1> HIDE DEF x, y, z, new
<1>8. Fits(x, st, new) /\ Fits(y, st, new) /\ Fits(z, st, new)
  BY <1>6, <1>7 DEF Fits, AuthOf
<1>9. Aim(j.op, st, new)
  BY <1>1, <1>2, <1>3, <1>7, NameAssumption DEF Aim, SameLive, Own, AuthOf, Suppliers, Setting
<1>10. Plan(j.op, j.cur.hot) = <<z.do, y.do, x.do>>
  BY <1>1, <1>2, <1>3, <1>6 DEF Plan
<1>11. Going(j, st, new) /\ ("save" \in {x.do, y.do, z.do} => Left(j, "save"))
  BY <1>4, <1>5, <1>6, <1>7, <1>8, <1>9, <1>10, SetsOut3
<1>12. Going(j, st, new) /\ Turned(j, new)
  BY <1>11, <1>6 DEF Turned, Turners
<1>13. st.auth = "tokens" \/ backedUp => new.auth = "tokens"
  BY <1>1, <1>2, <1>3, <1>7 DEF AuthOf
<1> QED
  BY <1>5, <1>12, <1>13


\* What every program of an operation is.
WellMade(q) ==
  /\ q \in Seq(Writes) /\ Paired(q)
  /\ q # <<>> => Head(q).do # "config"
  /\ \A w \in Parts(q) : w.do # "putAuth"
\* The writes that need no other beside them.
Plain == {"save", "start", "stop"}

\* A series of one plain write is well made.
LEMMA WellMadeOne ==
  ASSUME NEW x \in Writes,
         x.do \in Plain
  PROVE  WellMade(<<x>>)
<1> DEFINE q == <<x>>
<1>1. /\ DOMAIN q = {1} /\ Len(q) = 1 /\ q[1] = x
      /\ q \in Seq(Writes) /\ Head(q) = x
  OBVIOUS
<1>2. Parts(q) = {x}
  BY PartsOfFew
<1> HIDE DEF q
<1>3. Paired(q)
  BY <1>1 DEF Paired, Plain
<1>4. WellMade(q)
  BY <1>1, <1>2, <1>3 DEF WellMade, Plain
<1> QED
  BY <1>4 DEF q

\* A series of two plain writes is well made.
LEMMA WellMadeTwo ==
  ASSUME NEW x \in Writes, NEW y \in Writes,
         x.do \in Plain, y.do \in Plain
  PROVE  WellMade(<<x, y>>)
<1> DEFINE q == <<x, y>>
<1>1. /\ DOMAIN q = {1, 2} /\ Len(q) = 2 /\ q[1] = x /\ q[2] = y
      /\ q \in Seq(Writes) /\ Head(q) = x
  OBVIOUS
<1>2. Parts(q) = {x, y}
  BY PartsOfFew
<1> HIDE DEF q
<1>3. Paired(q)
  BY <1>1 DEF Paired, Plain
<1>4. WellMade(q)
  BY <1>1, <1>2, <1>3 DEF WellMade, Plain
<1> QED
  BY <1>4 DEF q

\* The series that writes both of Codex's files is well made.
LEMMA WellMadeLive ==
  ASSUME NEW x \in Writes, NEW y \in Writes,
         x.do = "auth", y.do = "config"
  PROVE  WellMade(<<x, y>>)
<1> DEFINE q == <<x, y>>
<1>1. /\ DOMAIN q = {1, 2} /\ Len(q) = 2 /\ q[1] = x /\ q[2] = y
      /\ q \in Seq(Writes) /\ Head(q) = x
  OBVIOUS
<1>2. Parts(q) = {x, y}
  BY PartsOfFew
<1> HIDE DEF q
<1>3. Paired(q)
  BY <1>1 DEF Paired, Plain
<1>4. WellMade(q)
  BY <1>1, <1>2, <1>3 DEF WellMade, Plain
<1> QED
  BY <1>4 DEF q

\* A plain write and both files are well made.
LEMMA WellMadeThree ==
  ASSUME NEW x \in Writes, NEW y \in Writes, NEW z \in Writes,
         x.do \in Plain, y.do = "auth", z.do = "config"
  PROVE  WellMade(<<x, y, z>>)
<1> DEFINE q == <<x, y, z>>
<1>1. /\ DOMAIN q = {1, 2, 3} /\ Len(q) = 3 /\ q[1] = x /\ q[2] = y /\ q[3] = z
      /\ q \in Seq(Writes) /\ Head(q) = x
  OBVIOUS
<1>2. Parts(q) = {x, y, z}
  BY PartsOfFew
<1> HIDE DEF q
<1>3. Paired(q)
  BY <1>1 DEF Paired, Plain
<1>4. WellMade(q)
  BY <1>1, <1>2, <1>3 DEF WellMade, Plain
<1> QED
  BY <1>4 DEF q

\* Two writes and both files are well made.
LEMMA WellMadeFour ==
  ASSUME NEW x \in Writes, NEW y \in Writes, NEW z \in Writes, NEW u \in Writes,
         x.do \in Plain \cup {"capture"}, y.do \in Plain, z.do = "auth", u.do = "config"
  PROVE  WellMade(<<x, y, z, u>>)
<1> DEFINE q == <<x, y, z, u>>
<1>1. /\ DOMAIN q = {1, 2, 3, 4} /\ Len(q) = 4 /\ q[1] = x /\ q[2] = y /\ q[3] = z /\ q[4] = u
      /\ q \in Seq(Writes) /\ Head(q) = x
  OBVIOUS
<1>2. Parts(q) = {x, y, z, u}
  BY PartsOfFew
<1> HIDE DEF q
<1>3. Paired(q)
  BY <1>1 DEF Paired, Plain
<1>4. WellMade(q)
  BY <1>1, <1>2, <1>3 DEF WellMade, Plain
<1> QED
  BY <1>4 DEF q

\* Both files and two plain writes are well made.
LEMMA WellMadeBack ==
  ASSUME NEW x \in Writes, NEW y \in Writes, NEW z \in Writes, NEW u \in Writes,
         x.do = "auth", y.do = "config", z.do \in Plain, u.do \in Plain
  PROVE  WellMade(<<x, y, z, u>>)
<1> DEFINE q == <<x, y, z, u>>
<1>1. /\ DOMAIN q = {1, 2, 3, 4} /\ Len(q) = 4 /\ q[1] = x /\ q[2] = y /\ q[3] = z /\ q[4] = u
      /\ q \in Seq(Writes) /\ Head(q) = x
  OBVIOUS
<1>2. Parts(q) = {x, y, z, u}
  BY PartsOfFew
<1> HIDE DEF q
<1>3. Paired(q)
  BY <1>1 DEF Paired, Plain
<1>4. WellMade(q)
  BY <1>1, <1>2, <1>3 DEF WellMade, Plain
<1> QED
  BY <1>4 DEF q

\* Enabling hot switching writes a well made series.
LEMMA EnableMade ==
  ASSUME NEW cur \in Setting
  PROVE  WellMade(Enable(cur))
<1> DEFINE x == StartIt
           y == SaveAs([cur EXCEPT !.hot = TRUE])
           z == ToAuth("gateway", cur)
           u == ToConfig("gateway")
<1>1. [cur EXCEPT !.hot = TRUE] \in Setting
  BY DEF Setting
<1>2. /\ x \in Writes /\ x.do = "start"
      /\ y \in Writes /\ y.do = "save"
      /\ z \in Writes /\ z.do = "auth"
      /\ u \in Writes /\ u.do = "config"
  BY <1>1, WritesAre DEF Targets
<1>3. Enable(cur) = <<x, y, z, u>>
  BY <1>1, Programs
<1> HIDE DEF x, y, z, u
<1>4. WellMade(<<x, y, z, u>>)
  BY <1>2, WellMadeFour DEF Plain
<1> QED
  BY <1>3, <1>4, Zenon

\* Disabling it writes a well made series.
LEMMA DisableMade ==
  ASSUME NEW cur \in Setting,
         cur.hot
  PROVE  WellMade(Disable(cur))
<1> DEFINE x == ToAuth(IF cur.on THEN cur.active ELSE "official", cur)
           y == ToConfig(IF cur.on THEN cur.active ELSE "official")
           z == SaveAs([cur EXCEPT !.hot = FALSE])
           u == StopIt
<1>1. [cur EXCEPT !.hot = FALSE] \in Setting
  BY DEF Setting
<1>2. (IF cur.on THEN cur.active ELSE "official") \in Targets
  BY DEF Setting, Targets, Suppliers
<1>3. /\ x \in Writes /\ x.do = "auth"
      /\ y \in Writes /\ y.do = "config"
      /\ z \in Writes /\ z.do = "save"
      /\ u \in Writes /\ u.do = "stop"
  BY <1>1, <1>2, WritesAre DEF Targets
<1>4. Disable(cur) = <<x, y, z, u>>
  BY <1>1, <1>2, Programs
<1> HIDE DEF x, y, z, u
<1>5. WellMade(<<x, y, z, u>>)
  BY <1>3, WellMadeBack DEF Plain
<1> QED
  BY <1>4, <1>5, Zenon

\* Disabling it when it is off already writes a well made series.
LEMMA DisableAgainMade ==
  ASSUME NEW cur \in Setting,
         ~cur.hot
  PROVE  WellMade(Disable(cur))
<1> DEFINE x == SaveAs([cur EXCEPT !.hot = FALSE])
           y == StopIt
<1>1. [cur EXCEPT !.hot = FALSE] \in Setting
  BY DEF Setting
<1>2. /\ x \in Writes /\ x.do = "save"
      /\ y \in Writes /\ y.do = "stop"
  BY <1>1, WritesAre DEF Targets
<1>3. Disable(cur) = <<x, y>>
  BY <1>1, Programs
<1> HIDE DEF x, y
<1>4. WellMade(<<x, y>>)
  BY <1>2, WellMadeTwo DEF Plain
<1> QED
  BY <1>3, <1>4, Zenon

\* Saving the form while hot writes a well made series.
LEMMA SaveMade ==
  ASSUME NEW cur \in Setting, NEW sent \in Setting,
         cur.hot
  PROVE  WellMade(SaveForm(cur, sent))
<1> DEFINE x == SaveAs([sent EXCEPT !.hot = cur.hot])
           y == StartIt
           z == ToAuth("gateway", cur)
           u == ToConfig("gateway")
<1>1. [sent EXCEPT !.hot = cur.hot] \in Setting
  BY DEF Setting
<1>2. /\ x \in Writes /\ x.do = "save"
      /\ y \in Writes /\ y.do = "start"
      /\ z \in Writes /\ z.do = "auth"
      /\ u \in Writes /\ u.do = "config"
  BY <1>1, WritesAre DEF Targets
<1>3. SaveForm(cur, sent) = <<x, y, z, u>>
  BY SaveFormIs, Zenon
<1> HIDE DEF x, y, z, u
<1>4. WellMade(<<x, y, z, u>>)
  BY <1>2, WellMadeFour DEF Plain
<1> QED
  BY <1>3, <1>4, Zenon

\* Saving the form otherwise writes a well made series.
LEMMA SaveOffMade ==
  ASSUME NEW cur \in Setting, NEW sent \in Setting,
         ~cur.hot
  PROVE  WellMade(SaveForm(cur, sent))
<1> DEFINE x == SaveAs([sent EXCEPT !.hot = cur.hot])
<1>1. [sent EXCEPT !.hot = cur.hot] \in Setting
  BY DEF Setting
<1>2. /\ x \in Writes /\ x.do = "save"
  BY <1>1, WritesAre DEF Targets
<1>3. SaveForm(cur, sent) = <<x>>
  BY <1>1, Programs
<1> HIDE DEF x
<1>4. WellMade(<<x>>)
  BY <1>2, WellMadeOne DEF Plain
<1> QED
  BY <1>3, <1>4, Zenon

\* Saving the mappings while hot writes a well made series.
LEMMA MappingsMade ==
  ASSUME NEW cur \in Setting,
         cur.hot
  PROVE  WellMade(SaveMappings(cur))
<1> DEFINE x == SaveAs(cur)
           y == ToAuth("gateway", cur)
           z == ToConfig("gateway")
<1>1. /\ x \in Writes /\ x.do = "save"
      /\ y \in Writes /\ y.do = "auth"
      /\ z \in Writes /\ z.do = "config"
  BY WritesAre DEF Targets
<1>2. SaveMappings(cur) = <<x, y, z>>
  BY Programs
<1> HIDE DEF x, y, z
<1>3. WellMade(<<x, y, z>>)
  BY <1>1, WellMadeThree DEF Plain
<1> QED
  BY <1>2, <1>3, Zenon

\* Saving the mappings otherwise writes a well made series.
LEMMA MappingsOffMade ==
  ASSUME NEW cur \in Setting,
         ~cur.hot
  PROVE  WellMade(SaveMappings(cur))
<1> DEFINE x == SaveAs(cur)
<1>1. /\ x \in Writes /\ x.do = "save"
  BY WritesAre DEF Targets
<1>2. SaveMappings(cur) = <<x>>
  BY Programs
<1> HIDE DEF x
<1>3. WellMade(<<x>>)
  BY <1>1, WellMadeOne DEF Plain
<1> QED
  BY <1>2, <1>3, Zenon

\* Changing the supplier writes a well made series.
LEMMA SwitchMade ==
  ASSUME NEW cur \in Setting, NEW sent \in Setting,
         Switch(cur, sent) # <<>>
  PROVE  WellMade(Switch(cur, sent)) /\ \E w \in Parts(Switch(cur, sent)) : w.do = "capture"
<1> DEFINE x == Capture
           y == SaveAs(sent)
           z == ToAuth(IF sent.on THEN sent.active ELSE "official", sent)
           u == ToConfig(IF sent.on THEN sent.active ELSE "official")
<1>1. (IF sent.on THEN sent.active ELSE "official") \in Targets
  BY DEF Setting, Targets, Suppliers
<1>2. /\ x \in Writes /\ x.do = "capture"
      /\ y \in Writes /\ y.do = "save"
      /\ z \in Writes /\ z.do = "auth"
      /\ u \in Writes /\ u.do = "config"
  BY <1>1, WritesAre DEF Targets
<1>3. Switch(cur, sent) = <<x, y, z, u>>
  BY <1>1, Programs
<1> HIDE DEF x, y, z, u
<1>4. WellMade(<<x, y, z, u>>)
  BY <1>2, WellMadeFour DEF Plain
<1>5. x \in Parts(<<x, y, z, u>>) /\ x.do = "capture"
  BY <1>2, PartsOfFew
<1> QED
  BY <1>3, <1>4, <1>5

\* Applying the supplier writes a well made series.
LEMMA ApplyMade ==
  ASSUME NEW cur \in Setting,
         Apply(cur) # <<>>
  PROVE  WellMade(Apply(cur))
<1> DEFINE x == ToAuth(IF cur.on THEN cur.active ELSE "official", cur)
           y == ToConfig(IF cur.on THEN cur.active ELSE "official")
<1>1. (IF cur.on THEN cur.active ELSE "official") \in Targets
  BY DEF Setting, Targets, Suppliers
<1>2. /\ x \in Writes /\ x.do = "auth"
      /\ y \in Writes /\ y.do = "config"
  BY <1>1, WritesAre DEF Targets
<1>3. Apply(cur) = <<x, y>>
  BY <1>1 DEF Apply, Direct, Live
<1> HIDE DEF x, y
<1>4. WellMade(<<x, y>>)
  BY <1>2, WellMadeLive DEF Plain
<1> QED
  BY <1>3, <1>4, Zenon

\* Clearing the API configuration writes a well made series.
LEMMA ClearMade ==
  ASSUME NEW cur \in Setting,
         Clear(cur) # <<>>
  PROVE  WellMade(Clear(cur))
<1> DEFINE x == ToAuth("official", cur)
           y == ToConfig("official")
<1>1. "official" \in Targets
  BY DEF Targets, Suppliers
<1>2. /\ x \in Writes /\ x.do = "auth"
      /\ y \in Writes /\ y.do = "config"
  BY <1>1, WritesAre DEF Targets
<1>3. Clear(cur) = <<x, y>>
  BY <1>1 DEF Clear, Live
<1> HIDE DEF x, y
<1>4. WellMade(<<x, y>>)
  BY <1>2, WellMadeLive DEF Plain
<1> QED
  BY <1>3, <1>4, Zenon

\* Importing settings writes a well made series.
LEMMA ImportMade ==
  ASSUME NEW cur \in Setting,
         Import(cur) # <<>>
  PROVE  WellMade(Import(cur))
<1> DEFINE x == SaveAs(cur)
<1>1. /\ x \in Writes /\ x.do = "save"
  BY WritesAre DEF Targets
<1>2. Import(cur) = <<x>>
  BY DEF Import
<1> HIDE DEF x
<1>3. WellMade(<<x>>)
  BY <1>1, WellMadeOne DEF Plain
<1> QED
  BY <1>2, <1>3, Zenon

\* Logging out of the API writes a well made series.
LEMMA LogoutMade ==
  ASSUME NEW cur \in Setting,
         Logout(cur) # <<>>, backedUp \in BOOLEAN
  PROVE  WellMade(Logout(cur))
<1> DEFINE x == SaveAs([cur EXCEPT !.hot = FALSE, !.on = FALSE])
           y == ToAuth("official", [cur EXCEPT !.kept = @ \/ backedUp])
           z == ToConfig("official")
<1>1. "official" \in Targets
  BY DEF Targets, Suppliers
<1>2. [cur EXCEPT !.hot = FALSE, !.on = FALSE] \in Setting
  BY DEF Setting
<1>3. [cur EXCEPT !.kept = @ \/ backedUp] \in Setting
  BY DEF Setting
<1>4. /\ x \in Writes /\ x.do = "save"
      /\ y \in Writes /\ y.do = "auth"
      /\ z \in Writes /\ z.do = "config"
  BY <1>1, <1>2, <1>3, WritesAre DEF Targets
<1>5. Logout(cur) = <<x, y, z>>
  BY <1>1, <1>2, <1>3, Programs
<1> HIDE DEF x, y, z
<1>6. WellMade(<<x, y, z>>)
  BY <1>4, WellMadeThree DEF Plain
<1> QED
  BY <1>5, <1>6, Zenon


-----------------------------------------------------------------------------
(* The invariant holds at first and every step keeps it.                     *)

\* Who is in an operation, and who is not.
LEMMA BusyAre ==
  ASSUME ConfigTypes
  PROVE  /\ \A a \in Busy : a \in Actors /\ jobs[a] \in Jobs
         /\ \A a \in Actors : a \notin Busy => jobs[a] = NoJob
         /\ \A j \in Jobs : j # NoJob
         /\ Snapshot \in States
<1>1. \A j \in Jobs : j # NoJob
  BY DEF Jobs, NoJob, Operations
<1> QED
  BY <1>1 DEF Busy, ConfigTypes

\* The first state, with or without a sign-in.
LEMMA ConfigInitial == ConfigInit => CInv
<1> SUFFICES ASSUME ConfigInit PROVE CInv
  OBVIOUS
<1>1. Default \in Setting
  BY DEF Default, Setting, Suppliers
<1>2. Snapshot \in States
  BY <1>1 DEF Snapshot, States, ConfigInit, Keys, Targets, Suppliers
<1>3. Busy = {}
  BY DEF Busy, ConfigInit
<1>4. signedIn \in BOOLEAN
  BY DEF ConfigInit
<1>5. ConfigTypes
  BY <1>1, <1>2, <1>4 DEF ConfigTypes, ConfigInit
<1>6. SignInSafe
  BY <1>3 DEF SignInSafe, ConfigInit
<1>7. Agreement /\ NoDeadGateway
  BY DEF Agreement, NoDeadGateway, ConfigInit, Default
<1> QED
  BY <1>3, <1>5, <1>6, <1>7 DEF CInv

\* The first state of an operation that no other overlaps.
Starting(j, st, saved) ==
  \E new \in States : /\ Going(j, st, new) /\ Turned(j, new)
                      /\ j.op = "logout" /\ (st.auth = "tokens" \/ saved) => new.auth = "tokens"

\* Beginning any operation keeps the invariant: alone it is on its way, otherwise the overlap is noted.
LEMMA BeginKeeps ==
  ASSUME CInv, NEW a \in Actors, NEW op \in OpsOf(a), NEW todo, Begin(a, op, todo), WellMade(todo),
         op = "switch" => \E w \in Parts(todo) : w.do = "capture",
         Job(op, todo) \in Jobs => (Busy = {} => Starting(Job(op, todo), Snapshot, backedUp))
  PROVE  CInv'
<1> DEFINE j == Job(op, todo)
<1>1. ConfigTypes /\ SignInSafe /\ Agreement /\ NoDeadGateway /\ \A b \in Busy : Overlaps(b) /\ OnItsWay(b)
  BY DEF CInv
<1>2. /\ \A b \in Busy : b \in Actors /\ jobs[b] \in Jobs
      /\ \A b \in Actors : b \notin Busy => jobs[b] = NoJob
      /\ \A k \in Jobs : k # NoJob
      /\ Snapshot \in States
  BY <1>1, BusyAre
<1>3. /\ jobs[a] = NoJob /\ begun' = begun + 1
      /\ jobs' = [b \in Actors |-> IF b = a THEN j ELSE IF b \in Busy THEN Disturbed(jobs[b]) ELSE jobs[b]]
      /\ interfered' = (interfered \/ Busy # {})
      /\ UNCHANGED <<stored, auth, config, backedUp, server, form, crashes, signedIn, damaged>>
  BY DEF Begin
<1>4. a \notin Busy
  BY <1>3 DEF Busy
<1>5. op \in Operations
  BY DEF OpsOf, Operations, Actors
<1>6. NoSnapshot \in States /\ stored \in Setting /\ "none" \in Keys
  BY <1>1 DEF NoSnapshot, States, Default, Setting, Suppliers, Keys, Targets, ConfigTypes, Snapshot
<1>7. /\ j \in Jobs /\ j.op = op /\ j.cur = stored /\ j.was = (IF Busy = {} THEN Snapshot ELSE NoSnapshot)
      /\ j.todo = todo /\ j.undoing = FALSE /\ j.failures = 0 /\ j.old = "none"
      /\ j.alone = (Busy = {}) /\ j.clean = (~interfered /\ ~damaged)
  <2>1. (IF Busy = {} THEN Snapshot ELSE NoSnapshot) \in States
    BY <1>2, <1>6
  <2>2. todo \in Seq(Writes)
    BY DEF WellMade
  <2> QED
    BY <1>5, <1>6, <2>1, <2>2 DEF Job, Jobs
<1>8. ASSUME NEW b \in Busy
      PROVE  LET k == Disturbed(jobs[b])
             IN  /\ k \in Jobs /\ k.op = jobs[b].op /\ k.cur = jobs[b].cur /\ k.todo = jobs[b].todo
                 /\ k.was = (IF jobs[b].op = "switch" THEN jobs[b].was ELSE NoSnapshot)
                 /\ k.undoing = jobs[b].undoing /\ k.failures = jobs[b].failures /\ k.old = jobs[b].old
                 /\ k.alone = FALSE /\ k.clean = jobs[b].clean
  <2>1. jobs[b] \in Jobs
    BY <1>2
  <2> QED
    BY <1>6, <2>1 DEF Disturbed, Jobs
<1> HIDE DEF j
<1>9. /\ jobs'[a] = j
      /\ \A b \in Busy : b # a /\ jobs'[b] = Disturbed(jobs[b])
      /\ \A b \in Actors : b # a /\ b \notin Busy => jobs'[b] = NoJob
  BY <1>2, <1>3, <1>4
<1>10. Busy' = Busy \cup {a}
  <2>1. \A b \in Actors : jobs'[b] # NoJob <=> b \in Busy \cup {a}
    BY <1>2, <1>7, <1>8, <1>9
  <2>2. Busy' = {b \in Actors : jobs'[b] # NoJob}
    BY DEF Busy
  <2>3. Busy \subseteq Actors
    BY <1>2
  <2> QED
    BY <2>1, <2>2, <2>3
<1>11. Snapshot' = Snapshot
  BY <1>3 DEF Snapshot
<1>12. ConfigTypes'
  <2>1. jobs' \in [Actors -> Jobs \cup {NoJob}]
    <3>1. \A b \in Actors : jobs'[b] \in Jobs \cup {NoJob}
      BY <1>7, <1>8, <1>9
    <3>2. jobs' = [b \in Actors |-> jobs'[b]]
      BY <1>3
    <3> QED
      BY <3>1, <3>2
  <2>2. interfered' \in BOOLEAN /\ damaged' \in BOOLEAN /\ backedUp' \in BOOLEAN /\ signedIn' \in BOOLEAN
    BY <1>1, <1>3, Zenon DEF ConfigTypes
  <2>3. form' \in Setting /\ begun' \in Nat /\ crashes' \in Nat
    BY <1>1, <1>3 DEF ConfigTypes
  <2>4. Snapshot' \in States
    BY <1>2, <1>11
  <2>5. {backedUp', signedIn', interfered', damaged'} \subseteq BOOLEAN
    BY <2>2
  <2> QED
    BY <2>1, <2>3, <2>4, <2>5, Zenon DEF ConfigTypes
<1>13. Overlaps(a)'
  <2>1. Busy = {} => (~interfered /\ ~damaged => Coherent(Snapshot)) /\ (~interfered => Gate(Snapshot))
    BY <1>1 DEF Agreement, NoDeadGateway, Coherent, Gate, Snapshot
  <2>2. Busy = {} => j.was = Snapshot /\ Busy' = {a} /\ (interfered' <=> interfered)
    BY <1>3, <1>7, <1>10
  <2>3. Busy # {} => interfered'
    BY <1>3
  <2>4. interfered => interfered'
    BY <1>3
  <2>5. damaged' = damaged
    BY <1>3
  <2>6. Paired(todo)
    BY DEF WellMade
  <2> QED
    BY <1>7, <1>9, <2>1, <2>2, <2>3, <2>4, <2>5, <2>6 DEF Overlaps
<1>14. ASSUME NEW b \in Busy
       PROVE  Overlaps(b)' /\ OnItsWay(b)'
  <2>1. interfered' = TRUE
    BY <1>3
  <2>2. Overlaps(b)
    BY <1>1
  <2>3. damaged' = damaged /\ jobs'[b] = Disturbed(jobs[b])
    BY <1>3, <1>9
  <2>4. Overlaps(b)'
    BY <1>8, <2>1, <2>2, <2>3 DEF Overlaps
  <2>5. OnItsWay(b)'
    BY <1>8, <2>1, <2>3 DEF OnItsWay
  <2> QED
    BY <2>4, <2>5
<1>15. OnItsWay(a)'
  <2>1. ASSUME j.alone
        PROVE  \E new \in States :
             /\ Going(j, Snapshot, new)
             /\ Turned(j, new)
             /\ j.op = "logout" /\ signedIn => new.auth = "tokens"
    <3>1. Starting(j, Snapshot, backedUp)
      BY <1>7, <2>1 DEF j
    <3>2. PICK new \in States :
                 /\ Going(j, Snapshot, new) /\ Turned(j, new)
                 /\ j.op = "logout" /\ (Snapshot.auth = "tokens" \/ backedUp) => new.auth = "tokens"
      BY <3>1 DEF Starting
    <3>3. signedIn => Snapshot.auth = "tokens" \/ backedUp
      BY <1>1 DEF SignInSafe, Snapshot
    <3>4. ASSUME j.op = "logout", signedIn
          PROVE  new.auth = "tokens"
      <4>1. Snapshot.auth = "tokens" \/ backedUp
        BY <3>3, <3>4
      <4> QED
        BY <3>2, <3>4, <4>1
    <3>5. Going(j, Snapshot, new) /\ Turned(j, new)
      BY <3>2
    <3> QED
      BY <3>4, <3>5, Zenon
  <2>2. signedIn' = signedIn
    BY <1>3
  <2>3. j.undoing = FALSE
    BY <1>7
  <2> QED
    BY <1>9, <1>11, <2>1, <2>2, <2>3 DEF OnItsWay
<1>16. SignInSafe'
  <2> SUFFICES ASSUME signedIn', ~backedUp'
               PROVE  auth' = "tokens" /\ \A b \in Busy' : Unwritten(jobs'[b])
    BY DEF SignInSafe
  <2>1. auth = "tokens" /\ \A b \in Busy : Unwritten(jobs[b])
    BY <1>1, <1>3 DEF SignInSafe
  <2>2. ASSUME NEW b \in Busy PROVE Unwritten(Disturbed(jobs[b]))
    BY <1>8, <2>1 DEF Unwritten
  <2>3. Unwritten(j)
    BY <1>7 DEF Unwritten, WellMade
  <2>4. auth' = "tokens"
    BY <1>3, <2>1
  <2> QED
    BY <1>9, <1>10, <2>2, <2>3, <2>4
<1>17. Agreement'
  BY <1>10 DEF Agreement
<1>18. NoDeadGateway'
  BY <1>1, <1>3 DEF NoDeadGateway
<1> QED
  BY <1>10, <1>12, <1>13, <1>14, <1>15, <1>16, <1>17, <1>18 DEF CInv

\* An operation that begins alone works with what it finds.
LEMMA JobStarts ==
  ASSUME CInv, Busy = {}, NEW op, NEW todo, NEW j, j = Job(op, todo)
  PROVE  /\ j.op = op /\ Snapshot = j.was /\ j.cur = Snapshot.settings /\ j.cur = stored /\ j.todo = todo
         /\ Snapshot \in States
<1>1. Snapshot \in States
  BY DEF CInv, ConfigTypes
<1> QED
  BY <1>1 DEF Job, Snapshot

\* What the window may send are settings.
LEMMA FormsAre ==
  ASSUME CInv
  PROVE  /\ stored \in Setting /\ backedUp \in BOOLEAN
         /\ \A sent \in Edited : sent \in Setting /\ Backfilled(sent) \in Setting
<1>1. stored \in Setting /\ form \in Setting /\ backedUp \in BOOLEAN
  BY DEF CInv, ConfigTypes, States, Snapshot
<1>2. \A sent \in Edited : sent \in Setting
  BY <1>1 DEF Edited, Setting
<1>3. \A sent \in Setting : Backfilled(sent) \in Setting
  BY DEF Backfilled, Setting
<1> QED
  BY <1>1, <1>2, <1>3

\* Enabling hot switching begins.
LEMMA KeepsEnable == CInv /\ BeginEnable => CInv'
<1> SUFFICES ASSUME CInv, BeginEnable PROVE CInv'
  OBVIOUS
<1> DEFINE todo == Enable(stored)
<1>1. Begin("async", "enable", todo)
  BY DEF BeginEnable
<1>2. stored \in Setting /\ todo # <<>> /\ backedUp \in BOOLEAN
  BY <1>1, FormsAre DEF Begin
<1>3. WellMade(todo)
  BY <1>2, EnableMade
<1>4. ASSUME Job("enable", todo) \in Jobs, Busy = {}
      PROVE  Starting(Job("enable", todo), Snapshot, backedUp)
  <2> DEFINE j == Job("enable", todo)
  <2>1. j.op = "enable" /\ Snapshot = j.was /\ j.cur = Snapshot.settings /\ j.cur = stored /\ j.todo = todo
        /\ Snapshot \in States /\ j \in Jobs
    BY <1>4, JobStarts
  <2> HIDE DEF j
  <2>2. \E new \in States : Going(j, Snapshot, new) /\ Turned(j, new)
    BY <1>2, <2>1, BeginsEnable
  <2>3. Starting(j, Snapshot, backedUp)
    BY <2>1, <2>2 DEF Starting
  <2> QED
    BY <2>3 DEF j
<1>5. "enable" \in OpsOf("async") /\ "async" \in Actors /\ "enable" # "switch"
  BY DEF OpsOf, Actors
<1> HIDE DEF todo
<1> QED
  BY <1>1, <1>3, <1>4, <1>5, BeginKeeps

\* Disabling it begins.
LEMMA KeepsDisable == CInv /\ BeginDisable => CInv'
<1> SUFFICES ASSUME CInv, BeginDisable PROVE CInv'
  OBVIOUS
<1> DEFINE todo == Disable(stored)
<1>1. Begin("async", "disable", todo)
  BY DEF BeginDisable
<1>2. stored \in Setting /\ todo # <<>> /\ backedUp \in BOOLEAN
  BY <1>1, FormsAre DEF Begin
<1>3. WellMade(todo)
  <2>1. CASE stored.hot
    BY <1>2, <2>1, DisableMade
  <2>2. CASE ~stored.hot
    BY <1>2, <2>2, DisableAgainMade
  <2> QED
    BY <2>1, <2>2
<1>4. ASSUME Job("disable", todo) \in Jobs, Busy = {}
      PROVE  Starting(Job("disable", todo), Snapshot, backedUp)
  <2> DEFINE j == Job("disable", todo)
  <2>1. j.op = "disable" /\ Snapshot = j.was /\ j.cur = Snapshot.settings /\ j.cur = stored /\ j.todo = todo
        /\ Snapshot \in States /\ j \in Jobs
    BY <1>4, JobStarts
  <2> HIDE DEF j
  <2>2. \E new \in States : Going(j, Snapshot, new) /\ Turned(j, new)
    <3>1. CASE j.cur.hot
      BY <1>2, <2>1, <3>1, BeginsDisable
    <3>2. CASE ~j.cur.hot
      BY <1>2, <2>1, <3>2, BeginsDisableAgain
    <3> QED
      BY <3>1, <3>2
  <2>3. Starting(j, Snapshot, backedUp)
    BY <2>1, <2>2 DEF Starting
  <2> QED
    BY <2>3 DEF j
<1>5. "disable" \in OpsOf("async") /\ "async" \in Actors /\ "disable" # "switch"
  BY DEF OpsOf, Actors
<1> HIDE DEF todo
<1> QED
  BY <1>1, <1>3, <1>4, <1>5, BeginKeeps

\* Saving the form while hot begins.
LEMMA KeepsSave == CInv /\ BeginSave => CInv'
<1> SUFFICES ASSUME CInv, BeginSave PROVE CInv'
  OBVIOUS
<1>1. PICK form1 \in Edited : Begin("async", "save", SaveForm(stored, form1))
  BY DEF BeginSave
<1> DEFINE sent == form1
           todo == SaveForm(stored, sent)
<1>2. stored \in Setting /\ todo # <<>> /\ backedUp \in BOOLEAN /\ sent \in Setting
  BY <1>1, FormsAre DEF Begin
<1> HIDE DEF sent
<1>3. WellMade(todo)
  <2>1. CASE stored.hot
    BY <1>2, <2>1, SaveMade
  <2>2. CASE ~stored.hot
    BY <1>2, <2>2, SaveOffMade
  <2> QED
    BY <2>1, <2>2
<1>4. ASSUME Job("save", todo) \in Jobs, Busy = {}
      PROVE  Starting(Job("save", todo), Snapshot, backedUp)
  <2> DEFINE j == Job("save", todo)
  <2>1. j.op = "save" /\ Snapshot = j.was /\ j.cur = Snapshot.settings /\ j.cur = stored /\ j.todo = todo
        /\ Snapshot \in States /\ j \in Jobs
    BY <1>4, JobStarts
  <2> HIDE DEF j
  <2>2. \E new \in States : Going(j, Snapshot, new) /\ Turned(j, new)
    <3>1. CASE j.cur.hot
      BY <1>2, <2>1, <3>1, BeginsSave
    <3>2. CASE ~j.cur.hot
      BY <1>2, <2>1, <3>2, BeginsSaveOff
    <3> QED
      BY <3>1, <3>2
  <2>3. Starting(j, Snapshot, backedUp)
    BY <2>1, <2>2 DEF Starting
  <2> QED
    BY <2>3 DEF j
<1>5. "save" \in OpsOf("async") /\ "async" \in Actors /\ "save" # "switch"
  BY DEF OpsOf, Actors
<1>6. Begin("async", "save", todo)
  BY <1>1 DEF sent
<1> HIDE DEF todo
<1> QED
  BY <1>6, <1>3, <1>4, <1>5, BeginKeeps

\* Saving the mappings while hot begins.
LEMMA KeepsMappings == CInv /\ BeginMappings => CInv'
<1> SUFFICES ASSUME CInv, BeginMappings PROVE CInv'
  OBVIOUS
<1> DEFINE todo == SaveMappings(stored)
<1>1. Begin("async", "mappings", todo)
  BY DEF BeginMappings
<1>2. stored \in Setting /\ todo # <<>> /\ backedUp \in BOOLEAN
  BY <1>1, FormsAre DEF Begin
<1>3. WellMade(todo)
  <2>1. CASE stored.hot
    BY <1>2, <2>1, MappingsMade
  <2>2. CASE ~stored.hot
    BY <1>2, <2>2, MappingsOffMade
  <2> QED
    BY <2>1, <2>2
<1>4. ASSUME Job("mappings", todo) \in Jobs, Busy = {}
      PROVE  Starting(Job("mappings", todo), Snapshot, backedUp)
  <2> DEFINE j == Job("mappings", todo)
  <2>1. j.op = "mappings" /\ Snapshot = j.was /\ j.cur = Snapshot.settings /\ j.cur = stored /\ j.todo = todo
        /\ Snapshot \in States /\ j \in Jobs
    BY <1>4, JobStarts
  <2> HIDE DEF j
  <2>2. \E new \in States : Going(j, Snapshot, new) /\ Turned(j, new)
    <3>1. CASE j.cur.hot
      BY <1>2, <2>1, <3>1, BeginsMappings
    <3>2. CASE ~j.cur.hot
      BY <1>2, <2>1, <3>2, BeginsMappingsOff
    <3> QED
      BY <3>1, <3>2
  <2>3. Starting(j, Snapshot, backedUp)
    BY <2>1, <2>2 DEF Starting
  <2> QED
    BY <2>3 DEF j
<1>5. "mappings" \in OpsOf("async") /\ "async" \in Actors /\ "mappings" # "switch"
  BY DEF OpsOf, Actors
<1> HIDE DEF todo
<1> QED
  BY <1>1, <1>3, <1>4, <1>5, BeginKeeps

\* Changing the supplier begins.
LEMMA KeepsSwitch == CInv /\ BeginSwitch => CInv'
<1> SUFFICES ASSUME CInv, BeginSwitch PROVE CInv'
  OBVIOUS
<1>1. PICK form1 \in Edited : Begin("sync", "switch", Switch(stored, Backfilled(form1)))
  BY DEF BeginSwitch
<1> DEFINE sent == Backfilled(form1)
           todo == Switch(stored, sent)
<1>2. stored \in Setting /\ todo # <<>> /\ backedUp \in BOOLEAN /\ sent \in Setting
  BY <1>1, FormsAre DEF Begin
<1> HIDE DEF sent
<1>3. WellMade(todo) /\ \E w \in Parts(todo) : w.do = "capture"
  BY <1>2, SwitchMade
<1>4. ASSUME Job("switch", todo) \in Jobs, Busy = {}
      PROVE  Starting(Job("switch", todo), Snapshot, backedUp)
  <2> DEFINE j == Job("switch", todo)
  <2>1. j.op = "switch" /\ Snapshot = j.was /\ j.cur = Snapshot.settings /\ j.cur = stored /\ j.todo = todo
        /\ Snapshot \in States /\ j \in Jobs
    BY <1>4, JobStarts
  <2> HIDE DEF j
  <2>2. \E new \in States : Going(j, Snapshot, new) /\ Turned(j, new)
    BY <1>2, <2>1, BeginsSwitch
  <2>3. Starting(j, Snapshot, backedUp)
    BY <2>1, <2>2 DEF Starting
  <2> QED
    BY <2>3 DEF j
<1>5. "switch" \in OpsOf("sync") /\ "sync" \in Actors
  BY DEF OpsOf, Actors
<1>6. Begin("sync", "switch", todo)
  BY <1>1 DEF sent
<1> HIDE DEF todo
<1> QED
  BY <1>6, <1>3, <1>4, <1>5, BeginKeeps

\* Applying the supplier begins.
LEMMA KeepsApply == CInv /\ BeginApply => CInv'
<1> SUFFICES ASSUME CInv, BeginApply PROVE CInv'
  OBVIOUS
<1> DEFINE todo == Apply(stored)
<1>1. Begin("sync", "apply", todo)
  BY DEF BeginApply
<1>2. stored \in Setting /\ todo # <<>> /\ backedUp \in BOOLEAN
  BY <1>1, FormsAre DEF Begin
<1>3. WellMade(todo)
  BY <1>2, ApplyMade
<1>4. ASSUME Job("apply", todo) \in Jobs, Busy = {}
      PROVE  Starting(Job("apply", todo), Snapshot, backedUp)
  <2> DEFINE j == Job("apply", todo)
  <2>1. j.op = "apply" /\ Snapshot = j.was /\ j.cur = Snapshot.settings /\ j.cur = stored /\ j.todo = todo
        /\ Snapshot \in States /\ j \in Jobs
    BY <1>4, JobStarts
  <2> HIDE DEF j
  <2>2. \E new \in States : Going(j, Snapshot, new) /\ Turned(j, new)
    BY <1>2, <2>1, BeginsApply
  <2>3. Starting(j, Snapshot, backedUp)
    BY <2>1, <2>2 DEF Starting
  <2> QED
    BY <2>3 DEF j
<1>5. "apply" \in OpsOf("sync") /\ "sync" \in Actors /\ "apply" # "switch"
  BY DEF OpsOf, Actors
<1> HIDE DEF todo
<1> QED
  BY <1>1, <1>3, <1>4, <1>5, BeginKeeps

\* Clearing the API configuration begins.
LEMMA KeepsClear == CInv /\ BeginClear => CInv'
<1> SUFFICES ASSUME CInv, BeginClear PROVE CInv'
  OBVIOUS
<1> DEFINE todo == Clear(stored)
<1>1. Begin("sync", "clear", todo)
  BY DEF BeginClear
<1>2. stored \in Setting /\ todo # <<>> /\ backedUp \in BOOLEAN
  BY <1>1, FormsAre DEF Begin
<1>3. WellMade(todo)
  BY <1>2, ClearMade
<1>4. ASSUME Job("clear", todo) \in Jobs, Busy = {}
      PROVE  Starting(Job("clear", todo), Snapshot, backedUp)
  <2> DEFINE j == Job("clear", todo)
  <2>1. j.op = "clear" /\ Snapshot = j.was /\ j.cur = Snapshot.settings /\ j.cur = stored /\ j.todo = todo
        /\ Snapshot \in States /\ j \in Jobs
    BY <1>4, JobStarts
  <2> HIDE DEF j
  <2>2. \E new \in States : Going(j, Snapshot, new) /\ Turned(j, new)
    BY <1>2, <2>1, BeginsClear
  <2>3. Starting(j, Snapshot, backedUp)
    BY <2>1, <2>2 DEF Starting
  <2> QED
    BY <2>3 DEF j
<1>5. "clear" \in OpsOf("sync") /\ "sync" \in Actors /\ "clear" # "switch"
  BY DEF OpsOf, Actors
<1> HIDE DEF todo
<1> QED
  BY <1>1, <1>3, <1>4, <1>5, BeginKeeps

\* Importing settings begins.
LEMMA KeepsImport == CInv /\ BeginImport => CInv'
<1> SUFFICES ASSUME CInv, BeginImport PROVE CInv'
  OBVIOUS
<1> DEFINE todo == Import(stored)
<1>1. Begin("sync", "import", todo)
  BY DEF BeginImport
<1>2. stored \in Setting /\ todo # <<>> /\ backedUp \in BOOLEAN
  BY <1>1, FormsAre DEF Begin
<1>3. WellMade(todo)
  BY <1>2, ImportMade
<1>4. ASSUME Job("import", todo) \in Jobs, Busy = {}
      PROVE  Starting(Job("import", todo), Snapshot, backedUp)
  <2> DEFINE j == Job("import", todo)
  <2>1. j.op = "import" /\ Snapshot = j.was /\ j.cur = Snapshot.settings /\ j.cur = stored /\ j.todo = todo
        /\ Snapshot \in States /\ j \in Jobs
    BY <1>4, JobStarts
  <2> HIDE DEF j
  <2>2. \E new \in States : Going(j, Snapshot, new) /\ Turned(j, new)
    BY <1>2, <2>1, BeginsImport
  <2>3. Starting(j, Snapshot, backedUp)
    BY <2>1, <2>2 DEF Starting
  <2> QED
    BY <2>3 DEF j
<1>5. "import" \in OpsOf("sync") /\ "sync" \in Actors /\ "import" # "switch"
  BY DEF OpsOf, Actors
<1> HIDE DEF todo
<1> QED
  BY <1>1, <1>3, <1>4, <1>5, BeginKeeps

\* Resetting the settings begins.
LEMMA KeepsReset == CInv /\ BeginReset => CInv'
<1> SUFFICES ASSUME CInv, BeginReset PROVE CInv'
  OBVIOUS
<1> DEFINE todo == <<SaveAs(Default)>>
<1>1. Begin("sync", "reset", todo)
  BY DEF BeginReset
<1>2. stored \in Setting /\ todo # <<>> /\ backedUp \in BOOLEAN
  BY <1>1, FormsAre DEF Begin
<1>3. WellMade(todo)
  <2>1. SaveAs(Default) \in Writes /\ SaveAs(Default).do = "save"
    BY WritesAre DEF Default, Setting, Suppliers
  <2> QED
    BY <2>1, WellMadeOne DEF Plain
<1>4. ASSUME Job("reset", todo) \in Jobs, Busy = {}
      PROVE  Starting(Job("reset", todo), Snapshot, backedUp)
  <2> DEFINE j == Job("reset", todo)
  <2>1. j.op = "reset" /\ Snapshot = j.was /\ j.cur = Snapshot.settings /\ j.cur = stored /\ j.todo = todo
        /\ Snapshot \in States /\ j \in Jobs
    BY <1>4, JobStarts
  <2> HIDE DEF j
  <2>2. \E new \in States : Going(j, Snapshot, new) /\ Turned(j, new)
    BY <1>2, <2>1, BeginsReset
  <2>3. Starting(j, Snapshot, backedUp)
    BY <2>1, <2>2 DEF Starting
  <2> QED
    BY <2>3 DEF j
<1>5. "reset" \in OpsOf("sync") /\ "sync" \in Actors /\ "reset" # "switch"
  BY DEF OpsOf, Actors
<1> HIDE DEF todo
<1> QED
  BY <1>1, <1>3, <1>4, <1>5, BeginKeeps

\* Logging out of the API begins.
LEMMA KeepsLogout == CInv /\ BeginLogout => CInv'
<1> SUFFICES ASSUME CInv, BeginLogout PROVE CInv'
  OBVIOUS
<1> DEFINE todo == Logout(stored)
<1>1. Begin("bridge", "logout", todo)
  BY DEF BeginLogout
<1>2. stored \in Setting /\ todo # <<>> /\ backedUp \in BOOLEAN
  BY <1>1, FormsAre DEF Begin
<1>3. WellMade(todo)
  BY <1>2, LogoutMade
<1>4. ASSUME Job("logout", todo) \in Jobs, Busy = {}
      PROVE  Starting(Job("logout", todo), Snapshot, backedUp)
  <2> DEFINE j == Job("logout", todo)
  <2>1. j.op = "logout" /\ Snapshot = j.was /\ j.cur = Snapshot.settings /\ j.cur = stored /\ j.todo = todo
        /\ Snapshot \in States /\ j \in Jobs
    BY <1>4, JobStarts
  <2> HIDE DEF j
  <2>2. \E new \in States : Going(j, Snapshot, new) /\ Turned(j, new) /\ (Snapshot.auth = "tokens" \/ backedUp => new.auth = "tokens")
    BY <1>2, <2>1, BeginsLogout
  <2>3. Starting(j, Snapshot, backedUp)
    BY <2>1, <2>2 DEF Starting
  <2> QED
    BY <2>3 DEF j
<1>5. "logout" \in OpsOf("bridge") /\ "bridge" \in Actors /\ "logout" # "switch"
  BY DEF OpsOf, Actors
<1> HIDE DEF todo
<1> QED
  BY <1>1, <1>3, <1>4, <1>5, BeginKeeps


\* One write of an operation.
LEMMA WriteKeeps ==
  ASSUME CInv, NEW a \in Busy, NEW j, j = jobs[a], j.todo # <<>>, NEW w, w = Head(j.todo), NEW k \in Jobs,
         jobs' = [jobs EXCEPT ![a] = k],
         k.op = j.op, k.cur = j.cur, k.todo = Tail(j.todo), k.undoing = j.undoing,
         k.failures = j.failures, k.alone = j.alone, k.clean = j.clean,
         k.was = IF w.do = "capture" THEN Snapshot ELSE j.was,
         w.do # "putConfig" => k.old = IF w.do = "auth" THEN Snapshot.auth
                                       ELSE IF w.do = "config" THEN "none" ELSE j.old,
         Snapshot' = AfterWrite(w, Snapshot), interfered' \in BOOLEAN, backedUp' \in BOOLEAN, interfered => interfered',
         w.do = "save" /\ j.op \in Turners /\ ~interfered' => w.to.hot = Snapshot.settings.hot,
         UNCHANGED <<damaged, signedIn, form, begun, crashes>>, SignInSafe'
  PROVE  CInv'
<1>1. ConfigTypes /\ NoDeadGateway /\ \A b \in Busy : Overlaps(b) /\ OnItsWay(b)
  BY DEF CInv
<1>2. /\ \A b \in Busy : b \in Actors /\ jobs[b] \in Jobs
      /\ \A b \in Actors : b \notin Busy => jobs[b] = NoJob
      /\ \A i \in Jobs : i # NoJob
      /\ Snapshot \in States
  BY <1>1, BusyAre
<1>3. j \in Jobs /\ j.todo \in Seq(Writes) /\ w \in Writes /\ Parts(j.todo) = {w} \cup Parts(k.todo)
  <2>1. j \in Jobs
    BY <1>2
  <2>2. j.todo \in Seq(Writes)
    BY <2>1 DEF Jobs
  <2> QED
    BY <2>1, <2>2, TailLast, PartsOf
<1>4. jobs'[a] = k /\ (\A b \in Actors : b # a => jobs'[b] = jobs[b]) /\ jobs' \in [Actors -> Jobs \cup {NoJob}]
  <2>1. jobs \in [Actors -> Jobs \cup {NoJob}]
    BY <1>1 DEF ConfigTypes
  <2>2. jobs' \in [Actors -> Jobs \cup {NoJob}]
    BY <2>1
  <2> QED
    BY <1>2, <2>1, <2>2
<1>5. Busy' = Busy
  <2>1. \A b \in Actors : jobs'[b] # NoJob <=> b \in Busy
    BY <1>2, <1>4
  <2>2. Busy' = {b \in Actors : jobs'[b] # NoJob}
    BY DEF Busy
  <2> QED
    BY <1>2, <2>1, <2>2
<1>6. AfterWrite(w, Snapshot) \in States
  BY <1>2, <1>3, AfterWriteFields
<1>7. damaged' = damaged /\ signedIn' = signedIn
  OBVIOUS
<1>8. ConfigTypes'
  <2>1. damaged' \in BOOLEAN /\ signedIn' \in BOOLEAN
    BY <1>1, <1>7, Zenon DEF ConfigTypes
  <2>2. form' \in Setting /\ begun' \in Nat /\ crashes' \in Nat
    BY <1>1 DEF ConfigTypes
  <2>3. {backedUp', signedIn', interfered', damaged'} \subseteq BOOLEAN
    BY <2>1
  <2>4. Snapshot' \in States
    BY <1>6
  <2> QED
    BY <1>4, <2>2, <2>3, <2>4, Zenon DEF ConfigTypes
<1>9. /\ j.op \in OpsOf(a)
      /\ j.alone => Busy = {a}
      /\ ~j.alone => interfered
      /\ ~j.clean => interfered \/ damaged
      /\ j.clean /\ j.alone => Coherent(j.was)
      /\ ~j.undoing => j.failures = 0
      /\ j.undoing => j.failures > 0 /\ (j.failures # 1 => damaged)
      /\ j.undoing => w.do # "capture" /\ \A x \in Parts(k.todo) : x.do # "capture"
      /\ ~interfered => Gate(j.was)
      /\ Paired(j.todo)
  BY <1>1, <1>3 DEF Overlaps
<1>10. /\ j.alone /\ ~j.undoing =>
           \E new \in States :
             /\ Going(j, Snapshot, new)
             /\ ~interfered => Turned(j, new)
             /\ j.op = "logout" /\ signedIn => new.auth = "tokens"
       /\ j.alone /\ j.undoing /\ j.failures = 1 /\ j.clean /\ ~damaged => Back(j, Snapshot)
       /\ j.undoing /\ ~interfered => Quiet(j.todo, Snapshot) \/ StaysHot(j.todo, Snapshot)
  BY <1>1 DEF OnItsWay
<1>11. j.alone => k.was = j.was
  <2> SUFFICES ASSUME j.alone, w.do = "capture" PROVE Snapshot = j.was
    OBVIOUS
  <2>1. ~j.undoing
    BY <1>9
  <2>2. PICK new \in States : Going(j, Snapshot, new)
    BY <1>10, <2>1
  <2> QED
    BY <1>2, <1>3, <2>2, CaptureAlone
<1>12. Overlaps(a)'
  <2>1. ~interfered => Gate(k.was)
    BY <1>1, <1>9 DEF NoDeadGateway, Gate, Snapshot
  <2>2. Paired(k.todo)
    BY <1>3, <1>9, PairedTail
  <2> QED
    BY <1>4, <1>5, <1>7, <1>9, <1>11, <2>1, <2>2 DEF Overlaps
<1>13. ASSUME NEW b \in Busy, b # a
       PROVE  Overlaps(b)' /\ OnItsWay(b)'
  <2>1. Overlaps(b) /\ ~jobs[b].alone /\ interfered
    BY <1>1, <1>13 DEF Overlaps
  <2>2. jobs'[b] = jobs[b]
    BY <1>2, <1>4, <1>13
  <2>3. interfered'
    BY <2>1
  <2>4. Overlaps(b)'
    BY <1>7, <2>1, <2>2, <2>3 DEF Overlaps
  <2>5. OnItsWay(b)'
    BY <2>1, <2>2, <2>3 DEF OnItsWay
  <2> QED
    BY <2>4, <2>5
<1>14. ASSUME j.alone, ~j.undoing
       PROVE  \E new \in States :
                /\ Going(k, AfterWrite(w, Snapshot), new)
                /\ ~interfered' => Turned(k, new)
                /\ j.op = "logout" /\ signedIn => new.auth = "tokens"
  <2>1. PICK new \in States :
             /\ Going(j, Snapshot, new)
             /\ ~interfered => Turned(j, new)
             /\ j.op = "logout" /\ signedIn => new.auth = "tokens"
    BY <1>10, <1>14
  <2>2. w.do \in Kinds /\ Fits(w, Snapshot, new) /\ Left(j, w.do)
    BY <1>3, <2>1, GoingHead
  <2>3. Going(k, AfterWrite(w, Snapshot), new)
    <3>1. w.do # "putConfig"
      BY <2>2 DEF Kinds
    <3> QED
      BY <1>2, <1>3, <1>11, <1>14, <2>1, <3>1, GoingOn
  <2>4. ~interfered' => Turned(k, new)
    <3> SUFFICES ASSUME ~interfered', k.op \in Turners, ~Left(k, "save")
                 PROVE  new.settings.hot = k.was.settings.hot
      BY DEF Turned
    <3>1. Left(k, "save") <=> Left(j, "save") /\ "save" # w.do
      BY <1>2, <1>3, <2>1, LeftTail
    <3>2. CASE w.do = "save"
      <4>1. Snapshot.settings = j.was.settings
        BY <2>1, <2>2, <3>2 DEF Going
      <4>2. w.to = new.settings
        BY <2>2, <3>2 DEF Fits
      <4> QED
        BY <1>11, <1>14, <3>2, <4>1, <4>2
    <3>3. CASE w.do # "save"
      <4>1. Turned(j, new)
        BY <2>1
      <4> QED
        BY <1>11, <1>14, <3>1, <3>3, <4>1 DEF Turned
    <3> QED
      BY <3>2, <3>3
  <2> QED
    BY <2>1, <2>3, <2>4
<1>15. ASSUME j.alone, j.undoing, j.failures = 1, j.clean, ~damaged
       PROVE  Back(k, AfterWrite(w, Snapshot))
  <2>1. Back(j, Snapshot)
    BY <1>10, <1>15
  <2> QED
    BY <1>2, <1>3, <1>11, <1>15, <2>1, BackOn
<1>16. ASSUME j.undoing, ~interfered
       PROVE  Quiet(k.todo, AfterWrite(w, Snapshot)) \/ StaysHot(k.todo, AfterWrite(w, Snapshot))
  BY <1>2, <1>3, <1>10, <1>16, GateOn
<1>17. OnItsWay(a)'
  <2>1. /\ k.alone /\ ~k.undoing =>
           \E new \in States :
             /\ Going(k, Snapshot', new)
             /\ ~interfered' => Turned(k, new)
             /\ k.op = "logout" /\ signedIn' => new.auth = "tokens"
        /\ k.alone /\ k.undoing /\ k.failures = 1 /\ k.clean /\ ~damaged' => Back(k, Snapshot')
        /\ k.undoing /\ ~interfered' => Quiet(k.todo, Snapshot') \/ StaysHot(k.todo, Snapshot')
    BY <1>7, <1>14, <1>15, <1>16
  <2> QED
    BY <1>4, <2>1 DEF OnItsWay
<1>18. Agreement'
  BY <1>5 DEF Agreement
<1>19. NoDeadGateway'
  <2> SUFFICES ASSUME ~interfered' PROVE Gate(Snapshot')
    BY DEF NoDeadGateway, Gate, Snapshot
  <2>1. ~interfered /\ j.alone
    BY <1>9
  <2>2. CASE j.undoing
    BY <1>16, <2>1, <2>2, GateKept
  <2>3. CASE ~j.undoing
    <3>1. PICK new \in States : Going(k, AfterWrite(w, Snapshot), new) /\ Turned(k, new)
      BY <1>14, <2>1, <2>3
    <3>2. Gate(k.was)
      BY <1>9, <1>11, <2>1
    <3> QED
      BY <1>6, <3>1, <3>2, GoingGate
  <2> QED
    BY <2>2, <2>3
<1> QED
  BY <1>5, <1>8, <1>12, <1>13, <1>17, <1>18, <1>19 DEF CInv

\* Until its first write to auth.json an operation stays harmless to the sign-in.
LEMMA UnwrittenOn ==
  ASSUME NEW j \in Jobs, j.todo # <<>>, Paired(j.todo), Unwritten(j), NEW w, w = Head(j.todo), w.do # "auth",
         NEW k \in Jobs, k.op = j.op, k.undoing = j.undoing, k.todo = Tail(j.todo), NEW s, s.auth = "tokens",
         k.was = IF w.do = "capture" THEN s ELSE j.was
  PROVE  Unwritten(k)
<1>1. j.todo \in Seq(Writes)
  BY DEF Jobs
<1>2. Parts(j.todo) = {w} \cup Parts(k.todo)
  BY <1>1, PartsOf
<1>3. k.todo # <<>> => Head(k.todo).do # "config"
  BY <1>1, PairedTail
<1>4. /\ \A x \in Parts(j.todo) : x.do = "putAuth" => x.to = "tokens"
      /\ j.op = "switch" /\ ~j.undoing /\ (\A x \in Parts(j.todo) : x.do # "capture") => j.was.auth = "tokens"
  BY DEF Unwritten
<1>5. ASSUME k.op = "switch", ~k.undoing, \A x \in Parts(k.todo) : x.do # "capture"
      PROVE  k.was.auth = "tokens"
  <2>1. CASE w.do = "capture"
    BY <2>1
  <2>2. CASE w.do # "capture"
    BY <1>2, <1>4, <1>5, <2>2
  <2> QED
    BY <2>1, <2>2
<1>6. \A x \in Parts(k.todo) : x.do = "putAuth" => x.to = "tokens"
  BY <1>2, <1>4
<1> QED
  BY <1>3, <1>5, <1>6 DEF Unwritten

\* A step keeps the sign-in safe that leaves a safe operation safe.
LEMMA SafeKept ==
  ASSUME CInv, NEW a \in Busy, NEW k \in Jobs, jobs' = [jobs EXCEPT ![a] = k], signedIn' = signedIn,
         signedIn /\ ~backedUp' => /\ ~backedUp
                                   /\ auth = "tokens" => auth' = "tokens"
                                   /\ auth = "tokens" /\ Unwritten(jobs[a]) => Unwritten(k)
  PROVE  SignInSafe'
<1>1. ConfigTypes /\ SignInSafe
  BY DEF CInv
<1>2. /\ \A b \in Busy : b \in Actors
      /\ \A b \in Actors : b \notin Busy => jobs[b] = NoJob
      /\ \A i \in Jobs : i # NoJob
  BY <1>1, BusyAre
<1>3. jobs'[a] = k /\ (\A b \in Actors : b # a => jobs'[b] = jobs[b])
  BY <1>1, <1>2 DEF ConfigTypes
<1>4. \A b \in Busy' : b \in Busy
  BY <1>2, <1>3 DEF Busy
<1> SUFFICES ASSUME signedIn', ~backedUp'
             PROVE  auth' = "tokens" /\ \A b \in Busy' : Unwritten(jobs'[b])
  BY DEF SignInSafe
<1>5. auth = "tokens" /\ \A b \in Busy : Unwritten(jobs[b])
  BY <1>1 DEF SignInSafe
<1>6. auth' = "tokens" /\ Unwritten(k)
  BY <1>5
<1>7. ASSUME NEW b \in Busy' PROVE Unwritten(jobs'[b])
  BY <1>2, <1>3, <1>4, <1>5, <1>6, <1>7
<1> QED
  BY <1>6, <1>7

\* The next write of an operation.
LEMMA NextWrite ==
  ASSUME CInv, NEW a \in Actors, NEW do, Next1(a, do), NEW j, j = jobs[a]
  PROVE  /\ a \in Busy /\ j \in Jobs /\ j.todo \in Seq(Writes) /\ j.todo # <<>>
         /\ Head(j.todo) \in Writes /\ Head(j.todo).do = do /\ Paired(j.todo)
         /\ [j EXCEPT !.todo = Tail(@)] \in Jobs
<1>1. a \in Busy
  BY DEF Next1, Busy
<1>2. j \in Jobs
  BY <1>1, BusyAre DEF CInv
<1>3. j.todo \in Seq(Writes) /\ j.todo # <<>> /\ Head(j.todo).do = do
  BY <1>2 DEF Jobs, Next1
<1>4. Tail(j.todo) \in Seq(Writes) /\ Head(j.todo) \in Writes
  BY <1>3, TailLast
<1>5. Paired(j.todo)
  BY <1>1 DEF CInv, Overlaps
<1>6. [j EXCEPT !.todo = Tail(@)] \in Jobs
  BY <1>2, <1>4 DEF Jobs
<1> QED
  BY <1>1, <1>2, <1>3, <1>4, <1>5, <1>6

\* The gateway is started.
LEMMA KeepsStart ==
  ASSUME CInv, NEW a \in Actors, StartServer(a)
  PROVE  CInv'
<1> DEFINE j == jobs[a]
           w == Head(j.todo)
           k == [j EXCEPT !.todo = Tail(@)]
<1>1. Next1(a, "start")
  BY DEF StartServer
<1>2. w.do = "start"
  BY <1>1 DEF Next1
<1>3. /\ a \in Busy /\ j \in Jobs /\ j.todo \in Seq(Writes) /\ j.todo # <<>>
      /\ w \in Writes /\ Paired(j.todo) /\ [j EXCEPT !.todo = Tail(@)] \in Jobs
  BY <1>1, NextWrite
<1>4. ConfigTypes /\ Snapshot \in States /\ jobs \in [Actors -> Jobs \cup {NoJob}]
  BY DEF CInv, ConfigTypes
<1>5. jobs' = [jobs EXCEPT ![a] = k]
  BY <1>3, <1>4 DEF StartServer, Keep
<1>6. k \in Jobs
  BY <1>3
<1>7. /\ k \in Jobs /\ k.op = j.op /\ k.cur = j.cur /\ k.todo = Tail(j.todo) /\ k.undoing = j.undoing
      /\ k.failures = j.failures /\ k.alone = j.alone /\ k.clean = j.clean
      /\ k.was = IF w.do = "capture" THEN Snapshot ELSE j.was
      /\ w.do # "putConfig" => k.old = IF w.do = "auth" THEN Snapshot.auth
                                       ELSE IF w.do = "config" THEN "none" ELSE j.old
  BY <1>2, <1>3, <1>4, <1>6 DEF Jobs, Snapshot
<1> HIDE DEF k
<1>8. Snapshot' = AfterWrite(w, Snapshot)
  <2>1. Snapshot' = [settings |-> stored', auth |-> auth', config |-> config', server |-> server']
    BY DEF Snapshot
  <2> QED
    BY <1>2, <1>4, <2>1 DEF StartServer, AfterWrite, Snapshot, States
<1>9. UNCHANGED <<damaged, signedIn, form, begun, crashes>>
  BY DEF StartServer, configHistory
<1>10. /\ interfered' \in BOOLEAN /\ backedUp' \in BOOLEAN /\ (interfered => interfered')
       /\ w.do = "save" /\ j.op \in Turners /\ ~interfered' => w.to.hot = Snapshot.settings.hot
  <2>1. interfered' = interfered /\ backedUp' = backedUp
    BY DEF StartServer, configHistory
  <2>2. interfered \in BOOLEAN /\ backedUp \in BOOLEAN
    BY <1>4, Zenon DEF ConfigTypes
  <2> QED
    BY <1>2, <2>1, <2>2
<1>11. SignInSafe'
  <2>1. backedUp' = backedUp /\ signedIn' = signedIn
    BY DEF StartServer, configHistory
  <2>2. ASSUME auth = "tokens", Unwritten(j)
        PROVE  Unwritten(k) /\ auth' = "tokens"
    <3>1. Snapshot.auth = "tokens"
      BY <2>2 DEF Snapshot
    <3>2. Unwritten(k)
      BY <1>2, <1>3, <1>7, <2>2, <3>1, UnwrittenOn
    <3>3. auth' = "tokens"
      BY <2>2 DEF StartServer
    <3> QED
      BY <3>2, <3>3
  <2>3. ASSUME signedIn, ~backedUp, auth = "tokens"
        PROVE  auth' = "tokens" /\ Unwritten(k)
    <3>1. Unwritten(j)
      BY <1>3, <2>3 DEF CInv, SignInSafe
    <3> QED
      BY <2>2, <2>3, <3>1
  <2>4. ASSUME signedIn, ~backedUp'
        PROVE  /\ ~backedUp
               /\ auth = "tokens" => auth' = "tokens"
               /\ auth = "tokens" /\ Unwritten(jobs[a]) => Unwritten(k)
    <3>1. ~backedUp
      BY <2>1, <2>4
    <3> QED
      BY <2>3, <2>4, <3>1
  <2>5. k \in Jobs
    BY <1>7
  <2> QED
    BY <1>3, <1>5, <2>1, <2>4, <2>5, SafeKept
<1> HIDE DEF w, j
<1>12. /\ j = jobs[a] /\ w = Head(j.todo)
  BY DEF j, w
<1> QED
  BY <1>3, <1>5, <1>7, <1>8, <1>9, <1>10, <1>11, <1>12, WriteKeeps

\* The gateway is stopped.
LEMMA KeepsStop ==
  ASSUME CInv, NEW a \in Actors, StopServer(a)
  PROVE  CInv'
<1> DEFINE j == jobs[a]
           w == Head(j.todo)
           k == [j EXCEPT !.todo = Tail(@)]
<1>1. Next1(a, "stop")
  BY DEF StopServer
<1>2. w.do = "stop"
  BY <1>1 DEF Next1
<1>3. /\ a \in Busy /\ j \in Jobs /\ j.todo \in Seq(Writes) /\ j.todo # <<>>
      /\ w \in Writes /\ Paired(j.todo) /\ [j EXCEPT !.todo = Tail(@)] \in Jobs
  BY <1>1, NextWrite
<1>4. ConfigTypes /\ Snapshot \in States /\ jobs \in [Actors -> Jobs \cup {NoJob}]
  BY DEF CInv, ConfigTypes
<1>5. jobs' = [jobs EXCEPT ![a] = k]
  BY <1>3, <1>4 DEF StopServer, Keep
<1>6. k \in Jobs
  BY <1>3
<1>7. /\ k \in Jobs /\ k.op = j.op /\ k.cur = j.cur /\ k.todo = Tail(j.todo) /\ k.undoing = j.undoing
      /\ k.failures = j.failures /\ k.alone = j.alone /\ k.clean = j.clean
      /\ k.was = IF w.do = "capture" THEN Snapshot ELSE j.was
      /\ w.do # "putConfig" => k.old = IF w.do = "auth" THEN Snapshot.auth
                                       ELSE IF w.do = "config" THEN "none" ELSE j.old
  BY <1>2, <1>3, <1>4, <1>6 DEF Jobs, Snapshot
<1> HIDE DEF k
<1>8. Snapshot' = AfterWrite(w, Snapshot)
  <2>1. Snapshot' = [settings |-> stored', auth |-> auth', config |-> config', server |-> server']
    BY DEF Snapshot
  <2> QED
    BY <1>2, <1>4, <2>1 DEF StopServer, AfterWrite, Snapshot, States
<1>9. UNCHANGED <<damaged, signedIn, form, begun, crashes>>
  BY DEF StopServer, configHistory
<1>10. /\ interfered' \in BOOLEAN /\ backedUp' \in BOOLEAN /\ (interfered => interfered')
       /\ w.do = "save" /\ j.op \in Turners /\ ~interfered' => w.to.hot = Snapshot.settings.hot
  <2>1. interfered' = interfered /\ backedUp' = backedUp
    BY DEF StopServer, configHistory
  <2>2. interfered \in BOOLEAN /\ backedUp \in BOOLEAN
    BY <1>4, Zenon DEF ConfigTypes
  <2> QED
    BY <1>2, <2>1, <2>2
<1>11. SignInSafe'
  <2>1. backedUp' = backedUp /\ signedIn' = signedIn
    BY DEF StopServer, configHistory
  <2>2. ASSUME auth = "tokens", Unwritten(j)
        PROVE  Unwritten(k) /\ auth' = "tokens"
    <3>1. Snapshot.auth = "tokens"
      BY <2>2 DEF Snapshot
    <3>2. Unwritten(k)
      BY <1>2, <1>3, <1>7, <2>2, <3>1, UnwrittenOn
    <3>3. auth' = "tokens"
      BY <2>2 DEF StopServer
    <3> QED
      BY <3>2, <3>3
  <2>3. ASSUME signedIn, ~backedUp, auth = "tokens"
        PROVE  auth' = "tokens" /\ Unwritten(k)
    <3>1. Unwritten(j)
      BY <1>3, <2>3 DEF CInv, SignInSafe
    <3> QED
      BY <2>2, <2>3, <3>1
  <2>4. ASSUME signedIn, ~backedUp'
        PROVE  /\ ~backedUp
               /\ auth = "tokens" => auth' = "tokens"
               /\ auth = "tokens" /\ Unwritten(jobs[a]) => Unwritten(k)
    <3>1. ~backedUp
      BY <2>1, <2>4
    <3> QED
      BY <2>3, <2>4, <3>1
  <2>5. k \in Jobs
    BY <1>7
  <2> QED
    BY <1>3, <1>5, <2>1, <2>4, <2>5, SafeKept
<1> HIDE DEF w, j
<1>12. /\ j = jobs[a] /\ w = Head(j.todo)
  BY DEF j, w
<1> QED
  BY <1>3, <1>5, <1>7, <1>8, <1>9, <1>10, <1>11, <1>12, WriteKeeps

\* The supplier change captures both files.
LEMMA KeepsCapture ==
  ASSUME CInv, NEW a \in Actors, CaptureFiles(a)
  PROVE  CInv'
<1> DEFINE j == jobs[a]
           w == Head(j.todo)
           k == [j EXCEPT !.todo = Tail(@), !.was = Snapshot]
<1>1. Next1(a, "capture")
  BY DEF CaptureFiles
<1>2. w.do = "capture"
  BY <1>1 DEF Next1
<1>3. /\ a \in Busy /\ j \in Jobs /\ j.todo \in Seq(Writes) /\ j.todo # <<>>
      /\ w \in Writes /\ Paired(j.todo) /\ [j EXCEPT !.todo = Tail(@)] \in Jobs
  BY <1>1, NextWrite
<1>4. ConfigTypes /\ Snapshot \in States /\ jobs \in [Actors -> Jobs \cup {NoJob}]
  BY DEF CInv, ConfigTypes
<1>5. jobs' = [jobs EXCEPT ![a] = k]
  <2>1. [Snapshot EXCEPT !.server = @] = Snapshot
    BY <1>4 DEF States
  <2>2. jobs' = [jobs EXCEPT ![a].todo = Tail(@), ![a].was = Snapshot]
    BY <2>1 DEF CaptureFiles
  <2> QED
    BY <1>3, <1>4, <2>2
<1>6. k \in Jobs
  BY <1>3, <1>4 DEF Jobs
<1>7. /\ k \in Jobs /\ k.op = j.op /\ k.cur = j.cur /\ k.todo = Tail(j.todo) /\ k.undoing = j.undoing
      /\ k.failures = j.failures /\ k.alone = j.alone /\ k.clean = j.clean
      /\ k.was = IF w.do = "capture" THEN Snapshot ELSE j.was
      /\ w.do # "putConfig" => k.old = IF w.do = "auth" THEN Snapshot.auth
                                       ELSE IF w.do = "config" THEN "none" ELSE j.old
  BY <1>2, <1>3, <1>4, <1>6 DEF Jobs, Snapshot
<1> HIDE DEF k
<1>8. Snapshot' = AfterWrite(w, Snapshot)
  <2>1. Snapshot' = [settings |-> stored', auth |-> auth', config |-> config', server |-> server']
    BY DEF Snapshot
  <2> QED
    BY <1>2, <1>4, <2>1 DEF CaptureFiles, AfterWrite, Snapshot, States
<1>9. UNCHANGED <<damaged, signedIn, form, begun, crashes>>
  BY DEF CaptureFiles, configHistory
<1>10. /\ interfered' \in BOOLEAN /\ backedUp' \in BOOLEAN /\ (interfered => interfered')
       /\ w.do = "save" /\ j.op \in Turners /\ ~interfered' => w.to.hot = Snapshot.settings.hot
  <2>1. interfered' = interfered /\ backedUp' = backedUp
    BY DEF CaptureFiles, configHistory
  <2>2. interfered \in BOOLEAN /\ backedUp \in BOOLEAN
    BY <1>4, Zenon DEF ConfigTypes
  <2> QED
    BY <1>2, <2>1, <2>2
<1>11. SignInSafe'
  <2>1. backedUp' = backedUp /\ signedIn' = signedIn
    BY DEF CaptureFiles, configHistory
  <2>2. ASSUME auth = "tokens", Unwritten(j)
        PROVE  Unwritten(k) /\ auth' = "tokens"
    <3>1. Snapshot.auth = "tokens"
      BY <2>2 DEF Snapshot
    <3>2. Unwritten(k)
      BY <1>2, <1>3, <1>7, <2>2, <3>1, UnwrittenOn
    <3>3. auth' = "tokens"
      BY <2>2 DEF CaptureFiles
    <3> QED
      BY <3>2, <3>3
  <2>3. ASSUME signedIn, ~backedUp, auth = "tokens"
        PROVE  auth' = "tokens" /\ Unwritten(k)
    <3>1. Unwritten(j)
      BY <1>3, <2>3 DEF CInv, SignInSafe
    <3> QED
      BY <2>2, <2>3, <3>1
  <2>4. ASSUME signedIn, ~backedUp'
        PROVE  /\ ~backedUp
               /\ auth = "tokens" => auth' = "tokens"
               /\ auth = "tokens" /\ Unwritten(jobs[a]) => Unwritten(k)
    <3>1. ~backedUp
      BY <2>1, <2>4
    <3> QED
      BY <2>3, <2>4, <3>1
  <2>5. k \in Jobs
    BY <1>7
  <2> QED
    BY <1>3, <1>5, <2>1, <2>4, <2>5, SafeKept
<1> HIDE DEF w, j
<1>12. /\ j = jobs[a] /\ w = Head(j.todo)
  BY DEF j, w
<1> QED
  BY <1>3, <1>5, <1>7, <1>8, <1>9, <1>10, <1>11, <1>12, WriteKeeps

\* The settings are saved.
LEMMA KeepsSaved ==
  ASSUME CInv, NEW a \in Actors, SaveSettings(a)
  PROVE  CInv'
<1> DEFINE j == jobs[a]
           w == Head(j.todo)
           k == [j EXCEPT !.todo = Tail(@)]
<1>1. Next1(a, "save")
  BY DEF SaveSettings
<1>2. w.do = "save"
  BY <1>1 DEF Next1
<1>3. /\ a \in Busy /\ j \in Jobs /\ j.todo \in Seq(Writes) /\ j.todo # <<>>
      /\ w \in Writes /\ Paired(j.todo) /\ [j EXCEPT !.todo = Tail(@)] \in Jobs
  BY <1>1, NextWrite
<1>4. ConfigTypes /\ Snapshot \in States /\ jobs \in [Actors -> Jobs \cup {NoJob}]
  BY DEF CInv, ConfigTypes
<1>5. jobs' = [jobs EXCEPT ![a] = k]
  BY <1>3, <1>4 DEF SaveSettings, Keep
<1>6. k \in Jobs
  BY <1>3
<1>7. /\ k \in Jobs /\ k.op = j.op /\ k.cur = j.cur /\ k.todo = Tail(j.todo) /\ k.undoing = j.undoing
      /\ k.failures = j.failures /\ k.alone = j.alone /\ k.clean = j.clean
      /\ k.was = IF w.do = "capture" THEN Snapshot ELSE j.was
      /\ w.do # "putConfig" => k.old = IF w.do = "auth" THEN Snapshot.auth
                                       ELSE IF w.do = "config" THEN "none" ELSE j.old
  BY <1>2, <1>3, <1>4, <1>6 DEF Jobs, Snapshot
<1> HIDE DEF k
<1>8. Snapshot' = AfterWrite(w, Snapshot)
  <2>1. Snapshot' = [settings |-> stored', auth |-> auth', config |-> config', server |-> server']
    BY DEF Snapshot
  <2> QED
    BY <1>2, <1>4, <2>1 DEF SaveSettings, AfterWrite, Snapshot, States, To
<1>9. UNCHANGED <<damaged, signedIn, form, begun, crashes>>
  BY DEF SaveSettings, configHistory
<1>10. /\ interfered' \in BOOLEAN /\ backedUp' \in BOOLEAN /\ (interfered => interfered')
       /\ w.do = "save" /\ j.op \in Turners /\ ~interfered' => w.to.hot = Snapshot.settings.hot
  <2>1. interfered' = (interfered \/ (w.to.hot # Snapshot.settings.hot /\ j.op \in Turners))
    BY DEF SaveSettings, To, Snapshot, Turners
  <2>2. interfered \in BOOLEAN /\ backedUp \in BOOLEAN /\ backedUp' = backedUp
    BY <1>4, Zenon DEF ConfigTypes, SaveSettings
  <2> HIDE DEF w, j
  <2>3. interfered' \in BOOLEAN /\ (interfered => interfered')
    BY <2>1
  <2>4. j.op \in Turners /\ ~interfered' => w.to.hot = Snapshot.settings.hot
    BY <2>1
  <2> QED
    BY <2>2, <2>3, <2>4
<1>11. SignInSafe'
  <2>1. backedUp' = backedUp /\ signedIn' = signedIn
    BY DEF SaveSettings, configHistory
  <2>2. ASSUME auth = "tokens", Unwritten(j)
        PROVE  Unwritten(k) /\ auth' = "tokens"
    <3>1. Snapshot.auth = "tokens"
      BY <2>2 DEF Snapshot
    <3>2. Unwritten(k)
      BY <1>2, <1>3, <1>7, <2>2, <3>1, UnwrittenOn
    <3>3. auth' = "tokens"
      BY <2>2 DEF SaveSettings
    <3> QED
      BY <3>2, <3>3
  <2>3. ASSUME signedIn, ~backedUp, auth = "tokens"
        PROVE  auth' = "tokens" /\ Unwritten(k)
    <3>1. Unwritten(j)
      BY <1>3, <2>3 DEF CInv, SignInSafe
    <3> QED
      BY <2>2, <2>3, <3>1
  <2>4. ASSUME signedIn, ~backedUp'
        PROVE  /\ ~backedUp
               /\ auth = "tokens" => auth' = "tokens"
               /\ auth = "tokens" /\ Unwritten(jobs[a]) => Unwritten(k)
    <3>1. ~backedUp
      BY <2>1, <2>4
    <3> QED
      BY <2>3, <2>4, <3>1
  <2>5. k \in Jobs
    BY <1>7
  <2> QED
    BY <1>3, <1>5, <2>1, <2>4, <2>5, SafeKept
<1> HIDE DEF w, j
<1>12. /\ j = jobs[a] /\ w = Head(j.todo)
  BY DEF j, w
<1> QED
  BY <1>3, <1>5, <1>7, <1>8, <1>9, <1>10, <1>11, <1>12, WriteKeeps

\* config.toml is written or put back.
LEMMA KeepsConfig ==
  ASSUME CInv, NEW a \in Actors, WriteConfig(a)
  PROVE  CInv'
<1> DEFINE j == jobs[a]
           w == Head(j.todo)
           k == [j EXCEPT !.todo = Tail(@), !.old = "none"]
<1>1. Next1(a, w.do) /\ w.do \in {"config", "putConfig"}
  BY DEF WriteConfig, Next1
<1>2. w.do \in {"config", "putConfig"}
  BY <1>1
<1>3. /\ a \in Busy /\ j \in Jobs /\ j.todo \in Seq(Writes) /\ j.todo # <<>>
      /\ w \in Writes /\ Paired(j.todo) /\ [j EXCEPT !.todo = Tail(@)] \in Jobs
  BY <1>1, NextWrite
<1>4. ConfigTypes /\ Snapshot \in States /\ jobs \in [Actors -> Jobs \cup {NoJob}]
  BY DEF CInv, ConfigTypes
<1>5. jobs' = [jobs EXCEPT ![a] = k]
  BY <1>3, <1>4 DEF WriteConfig, Keep
<1>6. k \in Jobs
  BY <1>3 DEF Jobs, Keys
<1>7. /\ k \in Jobs /\ k.op = j.op /\ k.cur = j.cur /\ k.todo = Tail(j.todo) /\ k.undoing = j.undoing
      /\ k.failures = j.failures /\ k.alone = j.alone /\ k.clean = j.clean
      /\ k.was = IF w.do = "capture" THEN Snapshot ELSE j.was
      /\ w.do # "putConfig" => k.old = IF w.do = "auth" THEN Snapshot.auth
                                       ELSE IF w.do = "config" THEN "none" ELSE j.old
  BY <1>2, <1>3, <1>4, <1>6 DEF Jobs, Snapshot
<1> HIDE DEF k
<1>8. Snapshot' = AfterWrite(w, Snapshot)
  <2>1. Snapshot' = [settings |-> stored', auth |-> auth', config |-> config', server |-> server']
    BY DEF Snapshot
  <2> QED
    BY <1>2, <1>4, <2>1 DEF WriteConfig, AfterWrite, Snapshot, States, To
<1>9. UNCHANGED <<damaged, signedIn, form, begun, crashes>>
  BY DEF WriteConfig, configHistory
<1>10. /\ interfered' \in BOOLEAN /\ backedUp' \in BOOLEAN /\ (interfered => interfered')
       /\ w.do = "save" /\ j.op \in Turners /\ ~interfered' => w.to.hot = Snapshot.settings.hot
  <2>1. interfered' = interfered /\ backedUp' = backedUp
    BY DEF WriteConfig, configHistory
  <2>2. interfered \in BOOLEAN /\ backedUp \in BOOLEAN
    BY <1>4, Zenon DEF ConfigTypes
  <2> QED
    BY <1>2, <2>1, <2>2
<1>11. SignInSafe'
  <2>1. backedUp' = backedUp /\ signedIn' = signedIn
    BY DEF WriteConfig, configHistory
  <2>2. ASSUME auth = "tokens", Unwritten(j)
        PROVE  Unwritten(k) /\ auth' = "tokens"
    <3>1. Snapshot.auth = "tokens"
      BY <2>2 DEF Snapshot
    <3>2. Unwritten(k)
      BY <1>2, <1>3, <1>7, <2>2, <3>1, UnwrittenOn
    <3>3. auth' = "tokens"
      BY <2>2 DEF WriteConfig
    <3> QED
      BY <3>2, <3>3
  <2>3. ASSUME signedIn, ~backedUp, auth = "tokens"
        PROVE  auth' = "tokens" /\ Unwritten(k)
    <3>1. Unwritten(j)
      BY <1>3, <2>3 DEF CInv, SignInSafe
    <3> QED
      BY <2>2, <2>3, <3>1
  <2>4. ASSUME signedIn, ~backedUp'
        PROVE  /\ ~backedUp
               /\ auth = "tokens" => auth' = "tokens"
               /\ auth = "tokens" /\ Unwritten(jobs[a]) => Unwritten(k)
    <3>1. ~backedUp
      BY <2>1, <2>4
    <3> QED
      BY <2>3, <2>4, <3>1
  <2>5. k \in Jobs
    BY <1>7
  <2> QED
    BY <1>3, <1>5, <2>1, <2>4, <2>5, SafeKept
<1> HIDE DEF w, j
<1>12. /\ j = jobs[a] /\ w = Head(j.todo)
  BY DEF j, w
<1> QED
  BY <1>3, <1>5, <1>7, <1>8, <1>9, <1>10, <1>11, <1>12, WriteKeeps

\* auth.json is put back.
LEMMA KeepsRestored ==
  ASSUME CInv, NEW a \in Actors, RestoreAuth(a)
  PROVE  CInv'
<1> DEFINE j == jobs[a]
           w == Head(j.todo)
           k == [j EXCEPT !.todo = Tail(@)]
<1>1. Next1(a, "putAuth")
  BY DEF RestoreAuth
<1>2. w.do = "putAuth"
  BY <1>1 DEF Next1
<1>3. /\ a \in Busy /\ j \in Jobs /\ j.todo \in Seq(Writes) /\ j.todo # <<>>
      /\ w \in Writes /\ Paired(j.todo) /\ [j EXCEPT !.todo = Tail(@)] \in Jobs
  BY <1>1, NextWrite
<1>4. ConfigTypes /\ Snapshot \in States /\ jobs \in [Actors -> Jobs \cup {NoJob}]
  BY DEF CInv, ConfigTypes
<1>5. jobs' = [jobs EXCEPT ![a] = k]
  BY <1>3, <1>4 DEF RestoreAuth, Keep
<1>6. k \in Jobs
  BY <1>3
<1>7. /\ k \in Jobs /\ k.op = j.op /\ k.cur = j.cur /\ k.todo = Tail(j.todo) /\ k.undoing = j.undoing
      /\ k.failures = j.failures /\ k.alone = j.alone /\ k.clean = j.clean
      /\ k.was = IF w.do = "capture" THEN Snapshot ELSE j.was
      /\ w.do # "putConfig" => k.old = IF w.do = "auth" THEN Snapshot.auth
                                       ELSE IF w.do = "config" THEN "none" ELSE j.old
  BY <1>2, <1>3, <1>4, <1>6 DEF Jobs, Snapshot
<1> HIDE DEF k
<1>8. Snapshot' = AfterWrite(w, Snapshot)
  <2>1. Snapshot' = [settings |-> stored', auth |-> auth', config |-> config', server |-> server']
    BY DEF Snapshot
  <2> QED
    BY <1>2, <1>4, <2>1 DEF RestoreAuth, AfterWrite, Snapshot, States, To
<1>9. UNCHANGED <<damaged, signedIn, form, begun, crashes>>
  BY DEF RestoreAuth, configHistory
<1>10. /\ interfered' \in BOOLEAN /\ backedUp' \in BOOLEAN /\ (interfered => interfered')
       /\ w.do = "save" /\ j.op \in Turners /\ ~interfered' => w.to.hot = Snapshot.settings.hot
  <2>1. interfered' = interfered /\ backedUp' = backedUp
    BY DEF RestoreAuth, configHistory
  <2>2. interfered \in BOOLEAN /\ backedUp \in BOOLEAN
    BY <1>4, Zenon DEF ConfigTypes
  <2> QED
    BY <1>2, <2>1, <2>2
<1>11. SignInSafe'
  <2>1. backedUp' = backedUp /\ signedIn' = signedIn
    BY DEF RestoreAuth, configHistory
  <2>2. ASSUME auth = "tokens", Unwritten(j)
        PROVE  Unwritten(k) /\ auth' = "tokens"
    <3>1. Snapshot.auth = "tokens"
      BY <2>2 DEF Snapshot
    <3>2. Unwritten(k)
      BY <1>2, <1>3, <1>7, <2>2, <3>1, UnwrittenOn
    <3>3. auth' = "tokens"
      <4>1. w \in Parts(j.todo)
        BY <1>3, PartsOf
      <4>2. w.to = "tokens"
        BY <1>2, <2>2, <4>1 DEF Unwritten
      <4> QED
        BY <4>2 DEF RestoreAuth, To
    <3> QED
      BY <3>2, <3>3
  <2>3. ASSUME signedIn, ~backedUp, auth = "tokens"
        PROVE  auth' = "tokens" /\ Unwritten(k)
    <3>1. Unwritten(j)
      BY <1>3, <2>3 DEF CInv, SignInSafe
    <3> QED
      BY <2>2, <2>3, <3>1
  <2>4. ASSUME signedIn, ~backedUp'
        PROVE  /\ ~backedUp
               /\ auth = "tokens" => auth' = "tokens"
               /\ auth = "tokens" /\ Unwritten(jobs[a]) => Unwritten(k)
    <3>1. ~backedUp
      BY <2>1, <2>4
    <3> QED
      BY <2>3, <2>4, <3>1
  <2>5. k \in Jobs
    BY <1>7
  <2> QED
    BY <1>3, <1>5, <2>1, <2>4, <2>5, SafeKept
<1> HIDE DEF w, j
<1>12. /\ j = jobs[a] /\ w = Head(j.todo)
  BY DEF j, w
<1> QED
  BY <1>3, <1>5, <1>7, <1>8, <1>9, <1>10, <1>11, <1>12, WriteKeeps

\* auth.json is written, after a copy of the sign-in.
LEMMA KeepsAuth ==
  ASSUME CInv, NEW a \in Actors, WriteAuth(a)
  PROVE  CInv'
<1> DEFINE j == jobs[a]
           w == Head(j.todo)
           k == [j EXCEPT !.todo = Tail(@), !.old = auth]
<1>1. Next1(a, "auth")
  BY DEF WriteAuth
<1>2. w.do = "auth"
  BY <1>1 DEF Next1
<1>3. /\ a \in Busy /\ j \in Jobs /\ j.todo \in Seq(Writes) /\ j.todo # <<>>
      /\ w \in Writes /\ Paired(j.todo) /\ [j EXCEPT !.todo = Tail(@)] \in Jobs
  BY <1>1, NextWrite
<1>4. ConfigTypes /\ Snapshot \in States /\ jobs \in [Actors -> Jobs \cup {NoJob}]
  BY DEF CInv, ConfigTypes
<1>5. jobs' = [jobs EXCEPT ![a] = k]
  BY <1>3, <1>4 DEF WriteAuth, Keep
<1>6. k \in Jobs
  <2>1. auth \in Keys
    BY <1>4 DEF Snapshot, States
  <2> QED
    BY <1>3, <2>1 DEF Jobs
<1>7. /\ k \in Jobs /\ k.op = j.op /\ k.cur = j.cur /\ k.todo = Tail(j.todo) /\ k.undoing = j.undoing
      /\ k.failures = j.failures /\ k.alone = j.alone /\ k.clean = j.clean
      /\ k.was = IF w.do = "capture" THEN Snapshot ELSE j.was
      /\ w.do # "putConfig" => k.old = IF w.do = "auth" THEN Snapshot.auth
                                       ELSE IF w.do = "config" THEN "none" ELSE j.old
  BY <1>2, <1>3, <1>4, <1>6 DEF Jobs, Snapshot
<1> HIDE DEF k
<1>8. Snapshot' = AfterWrite(w, Snapshot)
  <2>1. Snapshot' = [settings |-> stored', auth |-> auth', config |-> config', server |-> server']
    BY DEF Snapshot
  <2> QED
    BY <1>2, <1>4, <2>1 DEF WriteAuth, AfterWrite, Snapshot, States, To
<1>9. UNCHANGED <<damaged, signedIn, form, begun, crashes>>
  BY DEF WriteAuth, configHistory
<1>10. /\ interfered' \in BOOLEAN /\ backedUp' \in BOOLEAN /\ (interfered => interfered')
       /\ w.do = "save" /\ j.op \in Turners /\ ~interfered' => w.to.hot = Snapshot.settings.hot
  <2>1. interfered' = interfered /\ backedUp' = (backedUp \/ auth = "tokens")
    BY DEF WriteAuth, configHistory
  <2>2. interfered \in BOOLEAN
    BY <1>4, Zenon DEF ConfigTypes
  <2> QED
    BY <1>2, <2>1, <2>2
<1>11. SignInSafe'
  <2>1. backedUp' = (backedUp \/ auth = "tokens") /\ signedIn' = signedIn
    BY DEF WriteAuth, configHistory
  <2>2. ASSUME signedIn, ~backedUp'
        PROVE  FALSE
    <3>1. ~backedUp /\ auth # "tokens"
      BY <2>1, <2>2
    <3> QED
      BY <2>2, <3>1 DEF CInv, SignInSafe
  <2>3. k \in Jobs
    BY <1>7
  <2> QED
    BY <1>3, <1>5, <2>1, <2>2, <2>3, SafeKept
<1> HIDE DEF w, j
<1>12. /\ j = jobs[a] /\ w = Head(j.todo)
  BY DEF j, w
<1> QED
  BY <1>3, <1>5, <1>7, <1>8, <1>9, <1>10, <1>11, <1>12, WriteKeeps


\* An operation after a failure that leaves r to be written.
Failed(j, r) == [j EXCEPT !.todo = r, !.old = "none", !.undoing = TRUE, !.failures = @ + 1]

\* What a failure leaves alone.
LEMMA FailedJob ==
  ASSUME NEW j \in Jobs, NEW r \in Seq(Writes)
  PROVE  /\ Failed(j, r) \in Jobs /\ Failed(j, r).op = j.op /\ Failed(j, r).was = j.was
         /\ Failed(j, r).todo = r /\ Failed(j, r).undoing = TRUE
         /\ Failed(j, r).failures = j.failures + 1 /\ j.failures \in Nat
         /\ Failed(j, r).alone = j.alone /\ Failed(j, r).clean = j.clean
<1>1. j.failures \in Nat /\ j.failures + 1 \in Nat /\ "none" \in Keys
  BY DEF Jobs, Keys
<1>2. Failed(j, r) \in Jobs
  BY <1>1 DEF Jobs, Failed
<1>3. j.failures + 1 = Failed(j, r).failures
  BY DEF Jobs, Failed
<1>4. /\ Failed(j, r).op = j.op /\ Failed(j, r).was = j.was
      /\ Failed(j, r).alone = j.alone /\ Failed(j, r).clean = j.clean
  BY DEF Jobs, Failed
<1>5. Failed(j, r).todo = r /\ Failed(j, r).undoing = TRUE
  BY DEF Jobs, Failed
<1> QED
  BY <1>1, <1>2, <1>3, <1>4, <1>5

\* A write fails, and the operation turns back or goes on turning back.
LEMMA KeepsFails ==
  ASSUME CInv, NEW a \in Actors, Fails(a)
  PROVE  CInv'
<1> DEFINE j == jobs[a]
           f == Head(j.todo).do
           r == WhatIsLeft(j, f)
           k == Failed(j, r)
<1>1. Next1(a, f) /\ f \in {"start", "save", "auth", "config", "putConfig", "putAuth"}
  BY DEF Fails, MayFail, Next1
<1>2. /\ a \in Busy /\ j \in Jobs /\ j.todo \in Seq(Writes) /\ j.todo # <<>>
      /\ Paired(j.todo)
  <2> HIDE DEF f
  <2> QED
    BY <1>1, NextWrite
<1>3. /\ jobs' = [jobs EXCEPT ![a] = k]
      /\ damaged' = (damaged \/ j.undoing \/ LeftAsItIs(j, f))
      /\ UNCHANGED <<stored, auth, config, backedUp, server, form, begun, crashes, signedIn, interfered>>
  BY DEF Fails, Failed
<1>4. /\ r \in Seq(Writes) /\ Paired(r)
      /\ \A w \in Parts(r) : w.do # "capture"
      /\ r # <<>> => Head(r).do # "config"
      /\ j.undoing => \A w \in Parts(r) : w \in Parts(j.todo) \/ w.do = "putAuth"
      /\ \A w \in Parts(r) : w.do = "putAuth" =>
           \/ f = "config"
           \/ w \in Parts(j.todo)
           \/ ~j.undoing /\ j.op = "switch" /\ f = "auth" /\ w.to = j.was.auth
  BY <1>2, LeftGood
<1>5. /\ ConfigTypes /\ SignInSafe /\ NoDeadGateway /\ Snapshot \in States
      /\ \A b \in Busy : Overlaps(b) /\ OnItsWay(b)
      /\ jobs \in [Actors -> Jobs \cup {NoJob}]
  BY DEF CInv, ConfigTypes
<1>6. /\ \A b \in Busy : b \in Actors /\ jobs[b] \in Jobs
      /\ \A b \in Actors : b \notin Busy => jobs[b] = NoJob
      /\ \A i \in Jobs : i # NoJob
  BY <1>5, BusyAre
<1> HIDE DEF r
<1>7. /\ k \in Jobs /\ k.op = j.op /\ k.was = j.was /\ k.todo = r /\ k.undoing = TRUE
      /\ k.failures = j.failures + 1 /\ j.failures \in Nat /\ k.alone = j.alone /\ k.clean = j.clean
  BY <1>2, <1>4, FailedJob
<1>8. r = WhatIsLeft(j, f) /\ f = Head(j.todo).do
  BY DEF r
<1> HIDE DEF k, f
<1>9. jobs'[a] = k /\ (\A b \in Actors : b # a => jobs'[b] = jobs[b]) /\ jobs' \in [Actors -> Jobs \cup {NoJob}]
  BY <1>2, <1>3, <1>5, <1>7
<1>10. Busy' = Busy
  <2>1. \A b \in Actors : jobs'[b] # NoJob <=> b \in Busy
    BY <1>2, <1>6, <1>7, <1>9
  <2>2. Busy' = {b \in Actors : jobs'[b] # NoJob}
    BY DEF Busy
  <2> QED
    BY <1>6, <2>1, <2>2
<1>11. Snapshot' = Snapshot
  BY <1>3 DEF Snapshot
<1>12. j.undoing \in BOOLEAN
  BY <1>2 DEF Jobs
<1> HIDE DEF j
<1>13. ConfigTypes'
  <2>1. damaged' \in BOOLEAN
    BY <1>3, <1>5, <1>12, Zenon DEF ConfigTypes, LeftAsItIs
  <2>2. interfered' \in BOOLEAN /\ backedUp' \in BOOLEAN /\ signedIn' \in BOOLEAN
    BY <1>3, <1>5, Zenon DEF ConfigTypes
  <2>3. form' \in Setting /\ begun' \in Nat /\ crashes' \in Nat
    BY <1>3, <1>5 DEF ConfigTypes
  <2>4. {backedUp', signedIn', interfered', damaged'} \subseteq BOOLEAN
    BY <2>1, <2>2
  <2>5. Snapshot' \in States
    BY <1>5, <1>11
  <2> QED
    BY <1>9, <2>3, <2>4, <2>5, Zenon DEF ConfigTypes
<1>14. /\ j.op \in OpsOf(a)
       /\ j.alone => Busy = {a}
       /\ ~j.alone => interfered
       /\ ~j.clean => interfered \/ damaged
       /\ j.clean /\ j.alone => Coherent(j.was)
       /\ ~j.undoing => j.failures = 0
       /\ ~interfered => Gate(j.was)
  BY <1>2, <1>5 DEF Overlaps, j
<1>15. interfered' = interfered /\ signedIn' = signedIn /\ (damaged => damaged')
  BY <1>3
<1>16. Overlaps(a)'
  <2>1. ~j.clean => interfered' \/ damaged'
    BY <1>14, <1>15
  <2>2. k.failures > 0 /\ (k.failures # 1 => damaged')
    <3>1. CASE j.undoing
      <4>1. damaged'
        BY <1>3, <3>1, Zenon DEF j
      <4> QED
        BY <1>7, <4>1
    <3>2. CASE ~j.undoing
      BY <1>7, <1>14, <3>2
    <3> QED
      BY <3>1, <3>2
  <2> QED
    BY <1>4, <1>7, <1>9, <1>10, <1>14, <1>15, <2>1, <2>2 DEF Overlaps
<1>17. ASSUME NEW b \in Busy, b # a
       PROVE  Overlaps(b)' /\ OnItsWay(b)'
  <2>1. Overlaps(b) /\ ~jobs[b].alone /\ interfered
    BY <1>2, <1>5, <1>17 DEF Overlaps
  <2>2. jobs'[b] = jobs[b]
    BY <1>6, <1>9, <1>17
  <2>3. interfered'
    BY <1>15, <2>1
  <2>4. Overlaps(b)'
    BY <1>15, <2>1, <2>2, <2>3 DEF Overlaps
  <2>5. OnItsWay(b)'
    BY <2>1, <2>2, <2>3 DEF OnItsWay
  <2> QED
    BY <2>4, <2>5
<1>18. /\ j.alone /\ ~j.undoing => \E new \in States : Going(j, Snapshot, new) /\ (~interfered => Turned(j, new))
       /\ j.undoing /\ ~interfered => Quiet(j.todo, Snapshot) \/ StaysHot(j.todo, Snapshot)
  <2>1. OnItsWay(a)
    BY <1>2, <1>5
  <2> QED
    BY <2>1 DEF OnItsWay, j
<1>19. j \in Jobs /\ j.todo # <<>> /\ Paired(j.todo) /\ f \notin {"stop", "capture"}
  BY <1>1, <1>2 DEF j
<1>20. ASSUME j.alone, k.failures = 1, j.clean, ~damaged'
       PROVE  Back(k, Snapshot)
  <2>1. ~j.undoing /\ ~LeftAsItIs(j, f)
    BY <1>3, <1>20 DEF j
  <2>2. PICK new \in States : Going(j, Snapshot, new)
    BY <1>18, <1>20, <2>1
  <2> QED
    BY <1>5, <1>7, <1>8, <1>14, <1>19, <1>20, <2>1, <2>2, TurnsBack
<1>21. ASSUME ~interfered
       PROVE  Quiet(r, Snapshot) \/ StaysHot(r, Snapshot)
  <2>1. Gate(Snapshot) /\ Gate(j.was) /\ j.alone
    BY <1>5, <1>14, <1>21 DEF NoDeadGateway, Gate, Snapshot
  <2>2. CASE ~j.undoing
    <3>1. PICK new \in States : Going(j, Snapshot, new) /\ Turned(j, new)
      BY <1>18, <1>21, <2>1, <2>2
    <3> QED
      BY <1>5, <1>8, <1>19, <2>1, <2>2, <3>1, TurnsSafe
  <2>3. CASE j.undoing
    <3>1. Quiet(j.todo, Snapshot) \/ StaysHot(j.todo, Snapshot)
      BY <1>18, <1>21, <2>3
    <3>2. \A w \in Parts(r) : w \in Parts(j.todo) \/ w.do = "putAuth"
      BY <1>4, <2>3 DEF j
    <3>3. Quiet(j.todo, Snapshot) => Quiet(r, Snapshot)
      BY <3>2 DEF Quiet
    <3>4. StaysHot(j.todo, Snapshot) => StaysHot(r, Snapshot)
      BY <3>2 DEF StaysHot
    <3> QED
      BY <3>1, <3>3, <3>4
  <2> QED
    BY <2>2, <2>3
<1>22. OnItsWay(a)'
  <2>1. k.alone /\ k.undoing /\ k.failures = 1 /\ k.clean /\ ~damaged' => Back(k, Snapshot')
    BY <1>7, <1>11, <1>20 DEF j
  <2>2. k.undoing /\ ~interfered' => Quiet(k.todo, Snapshot') \/ StaysHot(k.todo, Snapshot')
    BY <1>7, <1>11, <1>15, <1>21
  <2>3. k.undoing
    BY <1>7
  <2> QED
    BY <1>9, <2>1, <2>2, <2>3 DEF OnItsWay
<1>23. SignInSafe'
  <2> SUFFICES ASSUME signedIn, ~backedUp, auth = "tokens", Unwritten(j)
               PROVE  Unwritten(k)
    <3>1. signedIn /\ ~backedUp' =>
            /\ ~backedUp
            /\ auth = "tokens" => auth' = "tokens"
            /\ auth = "tokens" /\ Unwritten(jobs[a]) => Unwritten(k)
      BY <1>3 DEF j
    <3> QED
      BY <1>2, <1>3, <1>7, <3>1, SafeKept
  <2>1. f # "config"
    BY <1>8, <1>19 DEF Unwritten
  <2>2. \A w \in Parts(j.todo) : w.do = "putAuth" => w.to = "tokens"
    BY DEF Unwritten
  <2>3. ASSUME ~j.undoing, j.op = "switch", f = "auth"
        PROVE  j.was.auth = "tokens"
    <3>1. \A w \in Parts(j.todo) : w.do # "capture"
      <4>1. j.todo \in Seq(Writes)
        BY <1>2 DEF j
      <4>2. Parts(j.todo) = {Head(j.todo)} \cup Parts(Tail(j.todo)) /\ \A w \in Parts(Tail(j.todo)) : w.do # "capture"
        BY <1>19, <4>1, PartsOf, PairedTail
      <4> QED
        BY <1>8, <2>3, <4>2
    <3> QED
      BY <2>3, <3>1 DEF Unwritten
  <2>4. \A w \in Parts(r) : w.do = "putAuth" => w.to = "tokens"
    BY <1>4, <2>1, <2>2, <2>3 DEF j
  <2> QED
    BY <1>4, <1>7, <2>4 DEF Unwritten
<1>24. Agreement'
  BY <1>2, <1>10 DEF Agreement
<1>25. NoDeadGateway'
  BY <1>3, <1>5 DEF NoDeadGateway
<1> QED
  BY <1>10, <1>13, <1>16, <1>17, <1>22, <1>23, <1>24, <1>25 DEF CInv

\* An operation that has nothing left to write has made the new state.
LEMMA Through ==
  ASSUME NEW j \in Jobs, NEW st \in States, NEW new \in States, Going(j, st, new), j.todo = <<>>
  PROVE  st = new
<1>1. \A w : ~Left(j, w)
  BY DEF Left
<1>2. st.settings = new.settings /\ st.auth = new.auth /\ st.config = new.config /\ st.server = new.server
  BY <1>1 DEF Going
<1> QED
  BY <1>2, SameFields

\* One that has turned back has restored the old one.
LEMMA BackAgain ==
  ASSUME NEW j \in Jobs, NEW st \in States, Back(j, st), j.todo = <<>>
  PROVE  st = j.was
<1>1. Parts(j.todo) = {} /\ j.was \in States
  BY PartsOfFew DEF Jobs
<1>2. st.settings = j.was.settings /\ st.auth = j.was.auth /\ st.config = j.was.config /\ st.server = j.was.server
  BY <1>1 DEF Back
<1> QED
  BY <1>1, <1>2, SameFields

\* The command answers: what it promised is there.
LEMMA KeepsAnswers ==
  ASSUME CInv, NEW a \in Actors, Answers(a)
  PROVE  CInv'
<1> DEFINE j == jobs[a]
           settled == j.op = "enable" /\ ~j.undoing /\ j.alone
<1>1. /\ jobs[a] # NoJob /\ j.todo = <<>>
      /\ jobs' = [jobs EXCEPT ![a] = NoJob]
      /\ interfered' = (interfered /\ ~settled)
      /\ damaged' = (damaged /\ ~settled)
      /\ UNCHANGED <<stored, auth, config, backedUp, server, form, begun, crashes, signedIn>>
  BY DEF Answers, Finished
<1>2. /\ ConfigTypes /\ SignInSafe /\ NoDeadGateway /\ Snapshot \in States
      /\ \A b \in Busy : Overlaps(b) /\ OnItsWay(b)
      /\ jobs \in [Actors -> Jobs \cup {NoJob}]
  BY DEF CInv, ConfigTypes
<1>3. /\ \A b \in Busy : b \in Actors /\ jobs[b] \in Jobs
      /\ \A b \in Actors : b \notin Busy => jobs[b] = NoJob
      /\ \A i \in Jobs : i # NoJob
  BY <1>2, BusyAre
<1>4. a \in Busy /\ j \in Jobs /\ Overlaps(a) /\ OnItsWay(a)
  BY <1>1, <1>2, <1>3 DEF Busy
<1>5. jobs'[a] = NoJob /\ (\A b \in Actors : b # a => jobs'[b] = jobs[b]) /\ jobs' \in [Actors -> Jobs \cup {NoJob}]
  BY <1>1, <1>2
<1>6. Busy' = Busy \ {a}
  <2>1. \A b \in Actors : jobs'[b] # NoJob <=> b \in Busy \ {a}
    BY <1>3, <1>5
  <2>2. Busy' = {b \in Actors : jobs'[b] # NoJob}
    BY DEF Busy
  <2> QED
    BY <1>3, <2>1, <2>2
<1>7. Snapshot' = Snapshot
  BY <1>1 DEF Snapshot
<1>8. j.op \in OpsOf(a) /\ j.op \in Operations /\ j.alone \in BOOLEAN /\ j.undoing \in BOOLEAN /\ j.was \in States
  BY <1>4 DEF Jobs, Overlaps
<1> HIDE DEF settled
<1>9. ConfigTypes'
  <2>1. interfered' \in BOOLEAN /\ damaged' \in BOOLEAN /\ backedUp' \in BOOLEAN /\ signedIn' \in BOOLEAN
    BY <1>1, <1>2, Zenon DEF ConfigTypes
  <2>2. form' \in Setting /\ begun' \in Nat /\ crashes' \in Nat
    BY <1>1, <1>2 DEF ConfigTypes
  <2>3. {backedUp', signedIn', interfered', damaged'} \subseteq BOOLEAN
    BY <2>1
  <2>4. Snapshot' \in States
    BY <1>2, <1>7
  <2> QED
    BY <1>5, <2>2, <2>3, <2>4, Zenon DEF ConfigTypes
<1>10. SignInSafe'
  <2> SUFFICES ASSUME signedIn, ~backedUp
               PROVE  auth' = "tokens" /\ \A b \in Busy' : Unwritten(jobs'[b])
    BY <1>1 DEF SignInSafe
  <2>1. auth = "tokens" /\ \A b \in Busy : Unwritten(jobs[b])
    BY <1>2 DEF SignInSafe
  <2>2. \A b \in Busy' : b \in Busy /\ jobs'[b] = jobs[b]
    BY <1>3, <1>5, <1>6
  <2> QED
    BY <1>1, <2>1, <2>2
<1>11. CASE settled
  <2>1. Busy' = {}
    BY <1>4, <1>6, <1>11 DEF Overlaps, settled
  <2>2. PICK new \in States : Going(j, Snapshot, new)
    BY <1>4, <1>11 DEF OnItsWay, settled
  <2>3. Snapshot = new /\ Aim("enable", j.was, new)
    BY <1>1, <1>2, <1>4, <1>11, <2>2, Through DEF Going, settled
  <2>4. Snapshot.settings.hot /\ Snapshot.auth = "gateway" /\ Snapshot.config = "gateway" /\ Snapshot.server
    BY <1>8, <2>3 DEF Aim, States, Setting
  <2>5. Agreement' /\ NoDeadGateway'
    <3>1. stored.hot /\ auth = "gateway" /\ config = "gateway" /\ server
      BY <2>4 DEF Snapshot
    <3>2. stored' = stored /\ auth' = auth /\ config' = config /\ server' = server
      BY <1>1
    <3>3. server \in BOOLEAN /\ stored.hot \in BOOLEAN
      BY <1>2 DEF Snapshot, States, Setting
    <3> QED
      BY <3>1, <3>2, <3>3 DEF Agreement, NoDeadGateway
  <2> QED
    BY <1>9, <1>10, <2>1, <2>5 DEF CInv
<1>12. CASE ~settled
  <2>1. interfered' = interfered /\ damaged' = damaged
    <3>1. interfered \in BOOLEAN /\ damaged \in BOOLEAN
      BY <1>2, Zenon DEF ConfigTypes
    <3> QED
      BY <1>1, <1>12, <3>1
  <2>2. ASSUME NEW b \in Busy'
        PROVE  Overlaps(b)' /\ OnItsWay(b)'
    <3>1. b \in Busy /\ b # a
      BY <1>6, <2>2
    <3>2. Overlaps(b) /\ ~jobs[b].alone /\ interfered
      BY <1>2, <1>4, <3>1 DEF Overlaps
    <3>3. jobs'[b] = jobs[b]
      BY <1>3, <1>5, <3>1
    <3>4. interfered'
      BY <2>1, <3>2
    <3>5. Overlaps(b)'
      BY <2>1, <3>2, <3>3, <3>4 DEF Overlaps
    <3>6. OnItsWay(b)'
      BY <3>2, <3>3, <3>4 DEF OnItsWay
    <3> QED
      BY <3>5, <3>6
  <2>3. ASSUME ~interfered, ~damaged
        PROVE  Coherent(Snapshot)
    <3>1. j.alone /\ j.clean /\ Coherent(j.was)
      BY <1>4, <2>3 DEF Overlaps
    <3>2. CASE j.undoing
      <4>1. j.failures = 1
        BY <1>4, <2>3, <3>2 DEF Overlaps
      <4>2. Back(j, Snapshot)
        BY <1>4, <2>3, <3>1, <3>2, <4>1 DEF OnItsWay
      <4> QED
        BY <1>1, <1>2, <1>4, <3>1, <4>2, BackAgain
    <3>3. CASE ~j.undoing
      <4>1. PICK new \in States : Going(j, Snapshot, new) /\ Turned(j, new)
        BY <1>4, <2>3, <3>1, <3>3 DEF OnItsWay
      <4>2. Snapshot = new /\ Aim(j.op, j.was, new)
        BY <1>1, <1>2, <1>4, <4>1, Through DEF Going
      <4>3. j.op \in Turners => new.settings.hot = j.was.settings.hot
        <5>1. ~Left(j, "save")
          BY <1>1 DEF Left
        <5> QED
          BY <4>1, <5>1 DEF Turned
      <4> QED
        BY <1>2, <1>8, <3>1, <4>2, <4>3, AimCoherent
    <3> QED
      BY <3>2, <3>3
  <2>4. Agreement'
    <3> SUFFICES ASSUME ~interfered, ~damaged
                 PROVE  /\ stored.hot <=> server
                        /\ stored.hot <=> config = "gateway"
                        /\ IF config = "official" THEN auth \in {"tokens", "none"} ELSE auth = config
      BY <1>1, <2>1 DEF Agreement
    <3> QED
      BY <2>3 DEF Coherent, Snapshot
  <2>5. NoDeadGateway'
    BY <1>1, <1>2, <2>1 DEF NoDeadGateway
  <2> QED
    BY <1>9, <1>10, <2>2, <2>4, <2>5 DEF CInv
<1> QED
  BY <1>11, <1>12

\* The window reads the settings, or nothing happens.
LEMMA KeepsWindow ==
  ASSUME CInv, LoadForm \/ UNCHANGED configVars
  PROVE  CInv'
<1>1. /\ UNCHANGED <<stored, auth, config, backedUp, server, jobs, begun, crashes, signedIn, interfered, damaged>>
      /\ form' \in {form, stored}
  BY DEF LoadForm, configVars, configHistory
<1>2. Snapshot' = Snapshot /\ Busy' = Busy
  BY <1>1 DEF Snapshot, Busy
<1>3. ConfigTypes /\ stored \in Setting
  BY DEF CInv, ConfigTypes, Snapshot, States
<1>4. ConfigTypes'
  <2>1. form' \in Setting
    BY <1>1, <1>3 DEF ConfigTypes
  <2> QED
    BY <1>1, <1>2, <1>3, <2>1, Zenon DEF ConfigTypes
<1>5. ASSUME NEW a \in Busy PROVE Overlaps(a)' /\ OnItsWay(a)'
  <2>1. Overlaps(a) /\ OnItsWay(a)
    BY DEF CInv
  <2>2. Overlaps(a)'
    BY <1>1, <1>2, <2>1 DEF Overlaps
  <2>3. OnItsWay(a)'
    BY <1>1, <1>2, <2>1 DEF OnItsWay
  <2> QED
    BY <2>2, <2>3
<1>6. SignInSafe'
  BY <1>1, <1>2 DEF CInv, SignInSafe
<1>7. Agreement' /\ NoDeadGateway'
  BY <1>1, <1>2 DEF CInv, Agreement, NoDeadGateway
<1> QED
  BY <1>2, <1>4, <1>5, <1>6, <1>7 DEF CInv

\* The user signs in while nothing is written.
LEMMA KeepsSignIn ==
  ASSUME CInv, SignIn
  PROVE  CInv'
<1>1. /\ config = "official" /\ auth = "none" /\ Busy = {} /\ auth' = "tokens" /\ signedIn' = TRUE
      /\ UNCHANGED <<stored, config, backedUp, server, form, jobs, begun, crashes, interfered, damaged>>
  BY DEF SignIn
<1>2. Busy' = {}
  BY <1>1 DEF Busy
<1>3. ConfigTypes
  BY DEF CInv
<1>4. Snapshot' \in States
  <2>1. /\ stored \in Setting /\ config \in Targets /\ server \in BOOLEAN
    BY <1>3 DEF ConfigTypes, Snapshot, States
  <2> QED
    BY <1>1, <2>1 DEF Snapshot, States, Keys
<1>5. ConfigTypes'
  <2>1. backedUp' \in BOOLEAN /\ interfered' \in BOOLEAN /\ damaged' \in BOOLEAN
    BY <1>1, <1>3, Zenon DEF ConfigTypes
  <2>2. {backedUp', signedIn', interfered', damaged'} \subseteq BOOLEAN
    BY <1>1, <2>1
  <2> QED
    BY <1>1, <1>3, <1>4, <2>2, Zenon DEF ConfigTypes
<1>6. SignInSafe'
  BY <1>1, <1>2 DEF SignInSafe
<1>7. Agreement'
  BY <1>1 DEF CInv, Agreement
<1>8. NoDeadGateway'
  BY <1>1 DEF CInv, NoDeadGateway
<1> QED
  BY <1>2, <1>5, <1>6, <1>7, <1>8 DEF CInv

\* The program ends and is started again.
LEMMA KeepsRestart ==
  ASSUME CInv, NEW started \in BOOLEAN, Restart(started)
  PROVE  CInv'
<1>1. /\ crashes' = crashes + 1 /\ jobs' = [a \in Actors |-> NoJob]
      /\ server' = (stored.hot /\ started) /\ form' = stored
      /\ damaged' = (damaged \/ Busy # {} \/ (stored.hot /\ ~started))
      /\ UNCHANGED <<stored, auth, config, backedUp, begun, signedIn, interfered>>
  BY DEF Restart
<1>2. Busy' = {}
  BY <1>1 DEF Busy
<1>3. ConfigTypes /\ stored \in Setting /\ auth \in Keys /\ config \in Targets /\ stored.hot \in BOOLEAN
  BY DEF CInv, ConfigTypes, Snapshot, States, Setting
<1>4. Snapshot' \in States
  <2>1. server' \in BOOLEAN
    BY <1>1, <1>3
  <2> QED
    BY <1>1, <1>3, <2>1 DEF Snapshot, States
<1>5. ConfigTypes'
  <2>1. backedUp' \in BOOLEAN /\ interfered' \in BOOLEAN /\ signedIn' \in BOOLEAN
    BY <1>1, <1>3, Zenon DEF ConfigTypes
  <2>2. damaged' \in BOOLEAN
    BY <1>1, <1>3, Zenon DEF ConfigTypes
  <2>3. {backedUp', signedIn', interfered', damaged'} \subseteq BOOLEAN
    BY <2>1, <2>2
  <2>4. jobs' \in [Actors -> Jobs \cup {NoJob}]
    BY <1>1
  <2>5. begun' \in Nat /\ crashes' \in Nat /\ form' \in Setting
    BY <1>1, <1>3 DEF ConfigTypes
  <2> QED
    BY <1>4, <2>3, <2>4, <2>5, Zenon DEF ConfigTypes
<1>6. SignInSafe'
  BY <1>1, <1>2 DEF CInv, SignInSafe
<1>7. Agreement'
  <2> SUFFICES ASSUME ~interfered, ~damaged'
               PROVE  /\ stored.hot <=> server'
                      /\ stored.hot <=> config = "gateway"
                      /\ IF config = "official" THEN auth \in {"tokens", "none"} ELSE auth = config
    BY <1>1 DEF Agreement
  <2>1. ~damaged /\ Busy = {} /\ (stored.hot => started)
    BY <1>1, Zenon
  <2>2. stored.hot <=> server'
    BY <1>1, <2>1
  <2> QED
    BY <2>1, <2>2 DEF CInv, Agreement
<1>8. NoDeadGateway'
  BY <1>1 DEF CInv, NoDeadGateway
<1> QED
  BY <1>2, <1>5, <1>6, <1>7, <1>8 DEF CInv

\* Every step keeps the invariant.
LEMMA ConfigStep == CInv /\ [ConfigNext]_configVars => CInv'
<1> SUFFICES ASSUME CInv, [ConfigNext]_configVars PROVE CInv'
  OBVIOUS
<1>1. CASE BeginEnable
  BY <1>1, KeepsEnable
<1>2. CASE BeginDisable
  BY <1>2, KeepsDisable
<1>3. CASE BeginSave
  BY <1>3, KeepsSave
<1>4. CASE BeginMappings
  BY <1>4, KeepsMappings
<1>5. CASE BeginSwitch
  BY <1>5, KeepsSwitch
<1>6. CASE BeginApply
  BY <1>6, KeepsApply
<1>7. CASE BeginClear
  BY <1>7, KeepsClear
<1>8. CASE BeginImport
  BY <1>8, KeepsImport
<1>9. CASE BeginReset
  BY <1>9, KeepsReset
<1>10. CASE BeginLogout
  BY <1>10, KeepsLogout
<1>11. ASSUME NEW a \in Actors,
              \/ StartServer(a) \/ StopServer(a) \/ CaptureFiles(a) \/ SaveSettings(a)
              \/ WriteAuth(a) \/ WriteConfig(a) \/ RestoreAuth(a) \/ Fails(a) \/ Answers(a)
       PROVE  CInv'
  BY <1>11, KeepsStart, KeepsStop, KeepsCapture, KeepsSaved, KeepsAuth, KeepsConfig, KeepsRestored,
     KeepsFails, KeepsAnswers
<1>12. CASE LoadForm \/ UNCHANGED configVars
  BY <1>12, KeepsWindow
<1>13. CASE SignIn
  BY <1>13, KeepsSignIn
<1>14. CASE \E started \in BOOLEAN : Restart(started)
  BY <1>14, KeepsRestart
<1> QED
  BY <1>1, <1>2, <1>3, <1>4, <1>5, <1>6, <1>7, <1>8, <1>9, <1>10, <1>11, <1>12, <1>13, <1>14 DEF ConfigNext

\* The invariant holds: of hot switching, supplier changes and logouts, whatever overlaps, fails or
\* ends.
THEOREM ConfigInvariant == ConfigSpec => []CInv
<1> QED
  BY ConfigInitial, ConfigStep, PTL DEF ConfigSpec

\* For any suppliers and any number of operations, failures and crashes, Codex is never left with the
\* gateway's address while the settings say that hot switching is off (set_hot_switch writes in the
\* order that makes it so).
THEOREM AlwaysNoDeadGateway == ConfigSpec => []NoDeadGateway
<1>1. CInv => NoDeadGateway
  BY DEF CInv
<1> QED
  BY <1>1, ConfigInvariant, PTL

\* Between operations the settings, the gateway, auth.json and config.toml agree, unless commands
\* overlapped or a failure was one that the code leaves as it is.
THEOREM AlwaysAgreement == ConfigSpec => []Agreement
<1>1. CInv => Agreement
  BY DEF CInv
<1> QED
  BY <1>1, ConfigInvariant, PTL

\* An operation that is over.
LEMMA FinishedIs ==
  ASSUME CInv, NEW a \in Actors, Finished(a)
  PROVE  a \in Busy /\ jobs[a] \in Jobs /\ jobs[a].todo = <<>> /\ Snapshot \in States
<1>1. ConfigTypes
  BY DEF CInv
<1> QED
  BY <1>1, BusyAre DEF Finished, Busy

\* An operation of which one write failed leaves the four places as it found them: the code's undo,
\* for every operation and every place of the failure.
THEOREM AlwaysRolledBack == ConfigSpec => []RolledBack
<1>1. CInv => RolledBack
  <2> SUFFICES ASSUME CInv, NEW a \in Actors, Finished(a), jobs[a].undoing, jobs[a].failures = 1,
                      jobs[a].alone, jobs[a].clean, ~damaged
               PROVE  Snapshot = jobs[a].was
    BY DEF RolledBack
  <2>1. a \in Busy /\ jobs[a] \in Jobs /\ jobs[a].todo = <<>> /\ Snapshot \in States
    BY FinishedIs
  <2>2. Back(jobs[a], Snapshot)
    BY <2>1 DEF CInv, OnItsWay
  <2> QED
    BY <2>1, <2>2, BackAgain
<1> QED
  BY <1>1, ConfigInvariant, PTL

\* A sign-in at ChatGPT is in auth.json, in a backup or in the official profile whatever happens, and
\* a logout that goes through alone (core_logout_api_mode) puts it back into auth.json.
THEOREM AlwaysSignInSurvives == ConfigSpec => []SignInSurvives
<1>1. CInv => SignInSurvives
  <2> SUFFICES ASSUME CInv, signedIn
               PROVE  /\ auth = "tokens" \/ backedUp \/ stored.kept
                      /\ Finished("bridge") /\ ~jobs["bridge"].undoing /\ jobs["bridge"].alone => auth = "tokens"
    BY DEF SignInSurvives
  <2>1. auth = "tokens" \/ backedUp
    BY DEF CInv, SignInSafe
  <2>2. ASSUME Finished("bridge"), ~jobs["bridge"].undoing, jobs["bridge"].alone
        PROVE  auth = "tokens"
    <3> DEFINE j == jobs["bridge"]
    <3>1. "bridge" \in Busy /\ j \in Jobs /\ j.todo = <<>> /\ Snapshot \in States
      BY <2>2, FinishedIs DEF Actors
    <3>2. Overlaps("bridge") /\ OnItsWay("bridge")
      BY <3>1 DEF CInv
    <3>3. j.op = "logout"
      BY <3>2 DEF Overlaps, OpsOf
    <3>4. PICK new \in States : /\ Going(j, Snapshot, new)
                                /\ j.op = "logout" /\ signedIn => new.auth = "tokens"
      BY <2>2, <3>2 DEF OnItsWay
    <3>5. new.auth = "tokens"
      BY <3>3, <3>4
    <3>6. Snapshot = new
      BY <3>1, <3>4, Through
    <3> QED
      BY <3>5, <3>6 DEF Snapshot
  <2> QED
    BY <2>1, <2>2
<1> QED
  BY <1>1, ConfigInvariant, PTL
=============================================================================
