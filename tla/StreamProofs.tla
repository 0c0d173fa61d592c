---------------------------- MODULE StreamProofs ----------------------------
(***************************************************************************)
(* What the conversion of an upstream's stream keeps, for all chunks and   *)
(* tools: the client is told one verdict, and at the end what was          *)
(* streamed, item by item in the order of their numbers, which is what the *)
(* answer in one piece says, however the upstream cuts it.                 *)
(*                                                                         *)
(* The folds of the community modules are recursive functions over sets:   *)
(* what a fold does is proved once, for all the operators the gateway      *)
(* folds with, and GatewayProofs uses it for the selector's weights.       *)
(***************************************************************************)
EXTENDS StreamConverter, FiniteSetTheorems, FunctionTheorems, WellFoundedInduction, TLAPS

-----------------------------------------------------------------------------
(* Sequences and folds.                                                      *)

(* Induction over the natural numbers, from the order of the library. *)

\* A set of natural numbers has a least element.
LEMMA Least ==
  ASSUME NEW T \in SUBSET Nat, T # {}
  PROVE  \E m \in T : \A k \in T : ~(k < m)
<1>1. PICK m \in T : \A k \in T : ~(<<k, m>> \in OpToRel(<, Nat))
  BY NatLessThanWellFounded, WFMin, Zenon
<1>2. \A k \in T : k < m => <<k, m>> \in OpToRel(<, Nat)
  BY DEF OpToRel
<1> QED
  BY <1>1, <1>2

\* Induction over the natural numbers, as a fact about a set.
LEMMA Induction ==
  ASSUME NEW T, 0 \in T, \A n \in Nat : n \in T => n + 1 \in T
  PROVE  Nat \subseteq T
<1> SUFFICES ASSUME ~(Nat \subseteq T) PROVE FALSE
  OBVIOUS
<1>1. PICK m \in Nat \ T : \A k \in Nat \ T : ~(k < m)
  BY Least
<1>2. m # 0 /\ m - 1 \in Nat /\ m - 1 < m
  BY <1>1
<1>3. m - 1 \in T
  BY <1>1, <1>2
<1> QED
  BY <1>1, <1>2, <1>3

(* Folds. *)

\* The operators that are folded over a sequence; the last two collect the arguments of a
\* call and the text of a slot.
Folded(op, slot, v, x) ==
  CASE op = "push" -> PushTool(v, x) [] op = "close" -> CloseTool(v, x) [] op = "show" -> Shown(v, x)
    [] op = "weigh" -> v + (IF x.weight > 0 THEN x.weight ELSE 1) [] op = "count" -> v + 1
    [] op = "args" -> IF x.tool = slot THEN v \o x.args ELSE v
    [] OTHER -> IF x.type = "delta" /\ x.slot = slot THEN v \o x.text ELSE v

\* The others ask for no slot.
AnySlot == "any"

\* What a fold is defined by.
Iterates(g, op, slot, v, q, m) ==
  g = [s \in SUBSET (1..m) |-> IF s = {} THEN v ELSE Folded(op, slot, g[s \ {Max(s)}], q[Max(s)])]

\* The last position of a set of them.
LEMMA MaxOf ==
  ASSUME NEW m \in Nat, NEW s \in SUBSET (1..m+1), m + 1 \in s
  PROVE  Max(s) = m + 1
<1>1. \A y \in s : m + 1 >= y
  OBVIOUS
<1>2. \A x \in s : (\A y \in s : x >= y) => x = m + 1
  OBVIOUS
<1> QED
  BY <1>1, <1>2 DEF Max

\* Such a function exists for every length, by induction.
LEMMA Iterated ==
  ASSUME NEW op, NEW slot, NEW v, NEW q
  PROVE  \A m \in Nat : \E g : Iterates(g, op, slot, v, q, m)
<1> DEFINE T == {m \in Nat : \E g : Iterates(g, op, slot, v, q, m)}
<1>1. 0 \in T
  <2> DEFINE g == [s \in SUBSET (1..0) |-> v]
  <2>1. \A s \in SUBSET (1..0) : s = {}
    OBVIOUS
  <2>2. Iterates(g, op, slot, v, q, 0)
    BY <2>1 DEF Iterates
  <2> QED
    BY <2>2
<1>2. ASSUME NEW m \in Nat, m \in T
      PROVE  m + 1 \in T
  <2>1. PICK g : Iterates(g, op, slot, v, q, m)
    BY <1>2
  <2> DEFINE h == [s \in SUBSET (1..m+1) |-> IF m + 1 \in s THEN Folded(op, slot, g[s \ {m + 1}], q[m + 1]) ELSE g[s]]
  <2>2. ASSUME NEW s \in SUBSET (1..m+1)
        PROVE  h[s] = IF s = {} THEN v ELSE Folded(op, slot, h[s \ {Max(s)}], q[Max(s)])
    <3>1. CASE m + 1 \in s
      <4>1. Max(s) = m + 1
        BY <3>1, MaxOf
      <4>2. h[s \ {m + 1}] = g[s \ {m + 1}]
        OBVIOUS
      <4> QED
        BY <3>1, <4>1, <4>2
    <3>2. CASE m + 1 \notin s
      <4>1. s \in SUBSET (1..m)
        BY <3>2
      <4>2. g[s] = IF s = {} THEN v ELSE Folded(op, slot, g[s \ {Max(s)}], q[Max(s)])
        BY <2>1, <4>1 DEF Iterates
      <4>3. h[s \ {Max(s)}] = g[s \ {Max(s)}]
        BY <3>2
      <4> QED
        BY <3>2, <4>2, <4>3
    <3> QED
      BY <3>1, <3>2
  <2>3. Iterates(h, op, slot, v, q, m + 1)
    BY <2>2 DEF Iterates
  <2> QED
    BY <2>3
<1>3. Nat \subseteq T
  <2> HIDE DEF T
  <2> QED
    BY <1>1, <1>2, Induction
<1> QED
  BY <1>3

\* A fold passes through the values of its operator, one for each element.
LEMMA FoldSteps ==
  ASSUME NEW op, NEW slot, NEW v, NEW S, NEW q \in Seq(S), NEW g, Iterates(g, op, slot, v, q, Len(q))
  PROVE  \E f : /\ f[0] = v /\ f[Len(q)] = g[1..Len(q)]
                /\ \A n \in 0..Len(q) - 1 : f[n + 1] = Folded(op, slot, f[n], q[n + 1])
<1>0. Len(q) \in Nat /\ DOMAIN q = 1..Len(q)
  OBVIOUS
<1>1. Iterates(g, op, slot, v, q, Len(q))
  OBVIOUS
<1> DEFINE f == [n \in 0..Len(q) |-> g[1..n]]
<1>3. f[0] = v
  BY <1>0, <1>1 DEF Iterates
<1>4. ASSUME NEW n \in 0..Len(q) - 1
      PROVE  f[n + 1] = Folded(op, slot, f[n], q[n + 1])
  <2>0. n \in Nat
    BY <1>0
  <2>1. Max(1..n+1) = n + 1
    <3>1. n + 1 \in 1..n+1 /\ 1..n+1 \in SUBSET (1..n+1)
      BY <2>0
    <3> QED
      BY <2>0, <3>1, MaxOf, Zenon
  <2>2. (1..n+1) \ {n+1} = 1..n /\ 1..n+1 # {} /\ 1..n+1 \in SUBSET (1..Len(q))
    <3>1. \A k : k \in (1..n+1) \ {n+1} <=> k \in 1..n
      BY <2>0
    <3>2. n + 1 \in 1..n+1 /\ 1..n+1 \in SUBSET (1..Len(q))
      BY <1>0, <2>0
    <3>3. (1..n+1) \ {n+1} = 1..n
      BY <3>1
    <3> QED
      BY <3>2, <3>3
  <2>3. g[1..n+1] = Folded(op, slot, g[1..n], q[n + 1])
    BY <1>1, <2>1, <2>2 DEF Iterates
  <2>4. n \in 0..Len(q) /\ n + 1 \in 0..Len(q)
    BY <1>0
  <2> QED
    BY <2>3, <2>4
<1>5. f[Len(q)] = g[1..Len(q)]
  BY <1>0
<1> HIDE DEF f
<1> QED
  BY <1>3, <1>4, <1>5

\* What a sequence over a set holds is of that set.
LEMMA ElementIn ==
  ASSUME NEW S, NEW q \in Seq(S), NEW i \in DOMAIN q
  PROVE  q[i] \in S
OBVIOUS

-----------------------------------------------------------------------------
(* The verdict of a stream.                                                  *)

\* The three folds of the converter are values of such functions.
LEMMA Folds ==
  ASSUME NEW v, NEW S, NEW q \in Seq(S)
  PROVE  /\ \E g : Iterates(g, "push", AnySlot, v, q, Len(q)) /\ FoldLeft(PushTool, v, q) = g[1..Len(q)]
         /\ \E g : Iterates(g, "close", AnySlot, v, q, Len(q)) /\ FoldLeft(CloseTool, v, q) = g[1..Len(q)]
         /\ \E g : Iterates(g, "show", AnySlot, v, q, Len(q)) /\ FoldLeft(Shown, v, q) = g[1..Len(q)]
<1>0. DOMAIN q = 1..Len(q) /\ Len(q) \in Nat
  OBVIOUS
<1>1. \E g : Iterates(g, "push", AnySlot, v, q, Len(q)) /\ FoldLeft(PushTool, v, q) = g[1..Len(q)]
  <2> DEFINE Is(g) == g = [s \in SUBSET (1..Len(q)) |->
                            IF s = {} THEN v ELSE PushTool(g[s \ {Max(s)}], q[Max(s)])]
  <2>1. \A w, x : Folded("push", AnySlot, w, x) = PushTool(w, x)
    BY DEF Folded
  <2>2. \A g : Is(g) <=> Iterates(g, "push", AnySlot, v, q, Len(q))
    BY <2>1 DEF Iterates
  <2>3. \E g : Is(g)
    BY <1>0, <2>2, Iterated
  <2>4. Is(CHOOSE g : Is(g))
    BY <2>3
  <2>5. FoldLeft(PushTool, v, q) = (CHOOSE g : Is(g))[1..Len(q)]
    BY <1>0 DEF FoldLeft, MapThenFoldSet
  <2> QED
    BY <2>2, <2>4, <2>5
<1>2. \E g : Iterates(g, "close", AnySlot, v, q, Len(q)) /\ FoldLeft(CloseTool, v, q) = g[1..Len(q)]
  <2> DEFINE Is(g) == g = [s \in SUBSET (1..Len(q)) |->
                            IF s = {} THEN v ELSE CloseTool(g[s \ {Max(s)}], q[Max(s)])]
  <2>1. \A w, x : Folded("close", AnySlot, w, x) = CloseTool(w, x)
    BY DEF Folded
  <2>2. \A g : Is(g) <=> Iterates(g, "close", AnySlot, v, q, Len(q))
    BY <2>1 DEF Iterates
  <2>3. \E g : Is(g)
    BY <1>0, <2>2, Iterated
  <2>4. Is(CHOOSE g : Is(g))
    BY <2>3
  <2>5. FoldLeft(CloseTool, v, q) = (CHOOSE g : Is(g))[1..Len(q)]
    BY <1>0 DEF FoldLeft, MapThenFoldSet
  <2> QED
    BY <2>2, <2>4, <2>5
<1>3. \E g : Iterates(g, "show", AnySlot, v, q, Len(q)) /\ FoldLeft(Shown, v, q) = g[1..Len(q)]
  <2> DEFINE Is(g) == g = [s \in SUBSET (1..Len(q)) |->
                            IF s = {} THEN v ELSE Shown(g[s \ {Max(s)}], q[Max(s)])]
  <2>1. \A w, x : Folded("show", AnySlot, w, x) = Shown(w, x)
    BY DEF Folded
  <2>2. \A g : Is(g) <=> Iterates(g, "show", AnySlot, v, q, Len(q))
    BY <2>1 DEF Iterates
  <2>3. \E g : Is(g)
    BY <1>0, <2>2, Iterated
  <2>4. Is(CHOOSE g : Is(g))
    BY <2>3
  <2>5. FoldLeft(Shown, v, q) = (CHOOSE g : Is(g))[1..Len(q)]
    BY <1>0 DEF FoldLeft, MapThenFoldSet
  <2> QED
    BY <2>2, <2>4, <2>5
<1> QED
  BY <1>1, <1>2, <1>3

(* What the methods of the converter do to its verdict: nothing, but for two. *)

\* The fields of a converter, of which the output is a sequence.
IsConverter(v) ==
  {"started", "completed", "failed", "next", "mode", "think", "items", "output", "out"} \subseteq DOMAIN v
  /\ \E S : v.out \in Seq(S)

\* Where an event of a type is in the output.
Told(v, type) == {i \in DOMAIN v.out : v.out[i].type = type}

\* w is v after more output, which is no verdict.
Adds(v, w) ==
  /\ DOMAIN v.out \subseteq DOMAIN w.out /\ \A i \in DOMAIN v.out : w.out[i] = v.out[i]
  /\ IsConverter(w) /\ w.completed = v.completed /\ w.failed = v.failed
  /\ Told(w, "completed") = Told(v, "completed") /\ Told(w, "failed") = Told(v, "failed")

\* One after the other.
LEMMA AddsOn ==
  ASSUME NEW v, NEW w, NEW x, Adds(v, w), Adds(w, x)
  PROVE  Adds(v, x)
  BY DEF Adds

\* Nothing at all.
LEMMA AddsSelf ==
  ASSUME NEW v, IsConverter(v)
  PROVE  Adds(v, v)
  BY DEF Adds

\* What Emit does to the record.
LEMMA EmitTells ==
  ASSUME NEW v, IsConverter(v), NEW e
  PROVE  /\ IsConverter(Emit(v, e)) /\ Emit(v, e).completed = v.completed /\ Emit(v, e).failed = v.failed
         /\ Len(v.out) \in Nat /\ DOMAIN v.out = 1..Len(v.out)
         /\ DOMAIN Emit(v, e).out = 1..Len(v.out) + 1 /\ Emit(v, e).out[Len(v.out) + 1] = e
         /\ \A i \in 1..Len(v.out) : Emit(v, e).out[i] = v.out[i]
<1>1. PICK S : v.out \in Seq(S)
  BY DEF IsConverter
<1>2. v.out \in Seq(S \union {e})
  BY <1>1
<1>3. /\ Append(v.out, e) \in Seq(S \union {e}) /\ Len(Append(v.out, e)) = Len(v.out) + 1
      /\ Len(v.out) \in Nat /\ DOMAIN v.out = 1..Len(v.out)
      /\ DOMAIN Append(v.out, e) = 1..Len(v.out) + 1
      /\ Append(v.out, e)[Len(v.out) + 1] = e
      /\ \A i \in 1..Len(v.out) : Append(v.out, e)[i] = v.out[i]
  BY <1>2
<1>4. Emit(v, e).out = Append(v.out, e) /\ DOMAIN Emit(v, e) = DOMAIN v
  BY DEF Emit, IsConverter
<1>5. Emit(v, e).completed = v.completed /\ Emit(v, e).failed = v.failed
  BY DEF Emit, IsConverter
<1>6. IsConverter(Emit(v, e))
  BY <1>3, <1>4 DEF IsConverter
<1> QED
  BY <1>3, <1>4, <1>5, <1>6

\* An event is told after all others.
LEMMA EmitTold ==
  ASSUME NEW v, IsConverter(v), NEW e, NEW type
  PROVE  /\ e.type = type => Told(Emit(v, e), type) = Told(v, type) \union {Len(v.out) + 1}
         /\ e.type # type => Told(Emit(v, e), type) = Told(v, type)
<1> DEFINE n == Len(v.out)
           x == Emit(v, e).out
<1>1. /\ n \in Nat /\ DOMAIN v.out = 1..n /\ DOMAIN x = 1..n + 1
      /\ x[n + 1] = e /\ \A i \in 1..n : x[i] = v.out[i]
  BY EmitTells
<1>2. Told(v, type) = {i \in DOMAIN v.out : v.out[i].type = type} /\
      Told(Emit(v, e), type) = {i \in DOMAIN x : x[i].type = type}
  BY DEF Told
<1> HIDE DEF n, x
<1>3. 1..n + 1 = 1..n \union {n + 1} /\ n + 1 \notin 1..n
  BY <1>1
<1>4. \A i \in 1..n : x[i].type = type <=> v.out[i].type = type
  BY <1>1
<1>5. e.type = type => {i \in DOMAIN x : x[i].type = type} = {i \in DOMAIN v.out : v.out[i].type = type} \union {n + 1}
  BY <1>1, <1>3, <1>4
<1>6. e.type # type => {i \in DOMAIN x : x[i].type = type} = {i \in DOMAIN v.out : v.out[i].type = type}
  BY <1>1, <1>3, <1>4
<1> QED
  BY <1>2, <1>5, <1>6 DEF n

\* An event that is no verdict.
LEMMA EmitAdds ==
  ASSUME NEW v, IsConverter(v), NEW e, e.type \notin {"completed", "failed"}
  PROVE  Adds(v, Emit(v, e))
<1>1. Told(Emit(v, e), "completed") = Told(v, "completed")
  BY EmitTold
<1>2. Told(Emit(v, e), "failed") = Told(v, "failed")
  BY EmitTold
<1> QED
  BY <1>1, <1>2, EmitTells DEF Adds

\* An assignment to another field.
LEMMA SetAdds ==
  ASSUME NEW v, IsConverter(v), NEW w, DOMAIN w = DOMAIN v,
         w.out = v.out, w.completed = v.completed, w.failed = v.failed
  PROVE  Adds(v, w)
  BY DEF Adds, IsConverter, Told

\* Start tells no verdict.
LEMMA StartAdds ==
  ASSUME NEW v, IsConverter(v)
  PROVE  Adds(v, Start(v))
<1> DEFINE w == [v EXCEPT !.started = TRUE]
<1>1. Adds(v, w)
  BY SetAdds DEF IsConverter
<1>2. Adds(w, Emit(w, [type |-> "created"]))
  BY <1>1, EmitAdds DEF Adds
<1> HIDE DEF w
<1>3. Adds(v, Emit(w, [type |-> "created"]))
  BY <1>1, <1>2, AddsOn
<1> QED
  BY <1>3, AddsSelf DEF Start, w

\* Nor does any other method: an item is opened,
LEMMA OpenAdds ==
  ASSUME NEW v, IsConverter(v), NEW s
  PROVE  Adds(v, Open(v, s))
<1> DEFINE w == [v EXCEPT !.next = @ + 1, !.items[s].index = v.next + 1]
           e == [type |-> "added", slot |-> s, id |-> v.items[s].id, index |-> v.next + 1]
<1>1. Adds(v, w)
  BY SetAdds DEF IsConverter
<1>2. Adds(w, Emit(w, e))
  BY <1>1, EmitAdds DEF Adds
<1>4. Open(v, s) = v \/ Open(v, s) = Emit(w, e)
  BY DEF Open
<1> HIDE DEF w, e
<1>3. Adds(v, Emit(w, e))
  BY <1>1, <1>2, AddsOn
<1> QED
  BY <1>3, <1>4, AddsSelf

\* gets a delta,
LEMMA DeltaAdds ==
  ASSUME NEW v, IsConverter(v), NEW s, NEW d
  PROVE  Adds(v, Delta(v, s, d))
  BY EmitAdds DEF Delta

\* text,
LEMMA PushAdds ==
  ASSUME NEW v, IsConverter(v), NEW s, NEW d
  PROVE  Adds(v, Push(v, s, d))
<1> DEFINE o == Open(v, s)
           w == [o EXCEPT !.items[s].content = @ \o d]
<1>1. Adds(v, o)
  BY OpenAdds
<1> HIDE DEF o
<1>2. Adds(o, w)
  BY <1>1, SetAdds DEF Adds, IsConverter
<1>5. Push(v, s, d) = Delta(w, s, d)
  BY DEF Push, o
<1> HIDE DEF w
<1>3. Adds(w, Delta(w, s, d))
  BY <1>2, DeltaAdds DEF Adds
<1>4. Adds(v, w)
  BY <1>1, <1>2, AddsOn
<1> QED
  BY <1>3, <1>4, <1>5, AddsOn

\* is closed;
LEMMA CloseAdds ==
  ASSUME NEW v, IsConverter(v), NEW s
  PROVE  Adds(v, Close(v, s))
<1> DEFINE i == v.items[s]
           item == [slot |-> s, index |-> i.index, id |-> i.id, content |-> i.content]
           w == [v EXCEPT !.items[s].done = TRUE, !.output = Append(@, item)]
           e == [type |-> "done", slot |-> s]
<1>1. Adds(v, w)
  BY SetAdds DEF IsConverter
<1>2. Adds(w, Emit(w, e))
  BY <1>1, EmitAdds DEF Adds
<1>4. Close(v, s) = v \/ Close(v, s) = Emit(w, e)
  BY DEF Close
<1> HIDE DEF w, e
<1>3. Adds(v, Emit(w, e))
  BY <1>1, <1>2, AddsOn
<1> QED
  BY <1>3, <1>4, AddsSelf

\* Adds is a relation of converters.
LEMMA AddsConverter ==
  ASSUME NEW v, NEW w, Adds(v, w)
  PROVE  IsConverter(w)
  BY DEF Adds

\* a think block is told,
LEMMA ThinkAdds ==
  ASSUME NEW v, IsConverter(v), NEW reasoning, NEW answer
  PROVE  Adds(v, PushThink(v, reasoning, answer))
<1> DEFINE p == PushReasoning(v, reasoning)
           r == IF reasoning = <<>> THEN v ELSE CloseReasoning(p)
<1>1. Adds(v, p)
  BY PushAdds DEF PushReasoning
<1>2. Adds(p, CloseReasoning(p))
  BY <1>1, CloseAdds, AddsConverter DEF CloseReasoning
<1>3. Adds(v, r)
  BY <1>1, <1>2, AddsOn, AddsSelf
<1>4. PushThink(v, reasoning, answer) = IF answer = <<>> THEN r ELSE PushText(r, answer)
  BY DEF PushThink
<1> HIDE DEF r
<1>5. Adds(r, PushText(r, answer))
  BY <1>3, PushAdds, AddsConverter DEF PushText
<1> QED
  BY <1>3, <1>4, <1>5, AddsOn

\* is over,
LEMMA InTextAdds ==
  ASSUME NEW v, IsConverter(v)
  PROVE  Adds(v, InText(v))
<1>1. /\ DOMAIN InText(v) = DOMAIN v /\ InText(v).out = v.out
      /\ InText(v).completed = v.completed /\ InText(v).failed = v.failed
  BY DEF InText, IsConverter
<1> QED
  BY <1>1, SetAdds

\* is looked for,
LEMMA DrainAdds ==
  ASSUME NEW v, IsConverter(v)
  PROVE  Adds(v, Drain(v))
<1>1. Adds(v, InText(v))
  BY InTextAdds
<1>2. \A r, a : Adds(InText(v), PushThink(InText(v), r, a))
  BY <1>1, ThinkAdds, AddsConverter
<1>3. \A r, a : Adds(v, PushThink(InText(v), r, a))
  BY <1>1, <1>2, AddsOn
<1> QED
  BY <1>3, AddsSelf DEF Drain

\* White space and text that is no think block.
LEMMA PlainAdds ==
  ASSUME NEW v, IsConverter(v), NEW d
  PROVE  /\ Adds(v, PushText(CloseReasoning(v), d))
         /\ Adds(v, PushText(CloseReasoning(InText(v)), d))
<1>1. ASSUME NEW w, IsConverter(w)
      PROVE  Adds(w, PushText(CloseReasoning(w), d))
  <2>1. Adds(w, CloseReasoning(w))
    BY <1>1, CloseAdds DEF CloseReasoning
  <2>2. Adds(CloseReasoning(w), PushText(CloseReasoning(w), d))
    BY <2>1, PushAdds, AddsConverter DEF PushText
  <2> QED
    BY <2>1, <2>2, AddsOn
<1>2. Adds(v, InText(v))
  BY InTextAdds
<1> QED
  BY <1>1, <1>2, AddsOn, AddsConverter

\* content comes,
LEMMA ContentAdds ==
  ASSUME NEW v, IsConverter(v), NEW d
  PROVE  Adds(v, PushContent(v, d))
<1> DEFINE w == [v EXCEPT !.think = @ \o d]
           r == [w EXCEPT !.mode = "reasoning"]
<1>1. Adds(v, w)
  BY SetAdds DEF IsConverter
<1>2. IsConverter(w)
  BY <1>1, AddsConverter
<1>3. Adds(w, r)
  BY <1>2, SetAdds DEF IsConverter
<1>4. \/ PushContent(v, d) = PushText(CloseReasoning(v), d)
      \/ PushContent(v, d) = Drain(w)
      \/ PushContent(v, d) = w
      \/ PushContent(v, d) = Drain(r)
      \/ PushContent(v, d) = PushText(CloseReasoning(InText(w)), w.think)
  BY DEF PushContent
<1> HIDE DEF r, w
<1>5. Adds(w, Drain(w)) /\ Adds(r, Drain(r)) /\ Adds(w, PushText(CloseReasoning(InText(w)), w.think))
  BY <1>2, <1>3, DrainAdds, PlainAdds, AddsConverter
<1>6. Adds(v, Drain(w)) /\ Adds(v, PushText(CloseReasoning(InText(w)), w.think))
  BY <1>1, <1>5, AddsOn
<1>7. Adds(v, Drain(r))
  BY <1>1, <1>3, <1>5, AddsOn
<1>8. Adds(v, PushText(CloseReasoning(v), d))
  BY PlainAdds
<1> QED
  BY <1>1, <1>4, <1>6, <1>7, <1>8

\* a think block is decided;
LEMMA FlushAdds ==
  ASSUME NEW v, IsConverter(v)
  PROVE  Adds(v, FlushThink(v))
<1>1. \/ FlushThink(v) = v
      \/ FlushThink(v) = InText(v)
      \/ FlushThink(v) = PushText(CloseReasoning(InText(v)), v.think)
      \/ FlushThink(v) = Drain(v)
      \/ FlushThink(v) = PushThink(InText(v), Trim(Body(v.think)), <<>>)
  BY DEF FlushThink
<1>2. Adds(v, InText(v)) /\ IsConverter(InText(v))
  BY InTextAdds, AddsConverter
<1>3. Adds(InText(v), PushThink(InText(v), Trim(Body(v.think)), <<>>))
  BY <1>2, ThinkAdds
<1> QED
  BY <1>1, <1>2, <1>3, AddsOn, AddsSelf, DrainAdds, PlainAdds

\* a call is announced,
LEMMA AnnounceAdds ==
  ASSUME NEW v, IsConverter(v), NEW t
  PROVE  Adds(v, Announce(v, t))
<1> DEFINE w == [v EXCEPT !.items[t].id = OrElse(@, "generated"), !.items[t].name = OrElse(@, "unknown")]
<1>1. Adds(v, w)
  BY SetAdds DEF IsConverter
<1>2. Announce(v, t) = Open(w, t)
  BY DEF Announce
<1> HIDE DEF w
<1>3. Adds(w, Open(w, t))
  BY <1>1, OpenAdds, AddsConverter
<1> QED
  BY <1>1, <1>2, <1>3, AddsOn

\* gets arguments,
LEMMA ToolDeltaAdds ==
  ASSUME NEW v, IsConverter(v), NEW t, NEW d
  PROVE  Adds(v, ToolDelta(v, t, d))
  BY DeltaAdds, AddsSelf DEF ToolDelta

\* a delta of its own,
LEMMA PushToolAdds ==
  ASSUME NEW v, IsConverter(v), NEW t
  PROVE  Adds(v, PushTool(v, t))
<1> DEFINE old == IF t.tool \in DOMAIN v.items THEN v.items[t.tool] ELSE Blank
           new == [old EXCEPT !.id = IF t.id = NoId THEN @ ELSE t.id,
                              !.name = OrElse(t.name, @),
                              !.content = @ \o t.args]
           w   == [v EXCEPT !.items = [s \in DOMAIN @ \union {t.tool} |-> IF s = t.tool THEN new ELSE @[s]]]
<1>1. Adds(v, w)
  BY SetAdds DEF IsConverter
<1>2. \/ PushTool(v, t) = ToolDelta(w, t.tool, t.args)
      \/ PushTool(v, t) = ToolDelta(Announce(w, t.tool), t.tool, new.content)
      \/ PushTool(v, t) = w
  BY DEF PushTool
<1> HIDE DEF w, new
<1>3. IsConverter(w)
  BY <1>1, AddsConverter
<1>4. Adds(w, Announce(w, t.tool)) /\ IsConverter(Announce(w, t.tool))
  BY <1>3, AnnounceAdds, AddsConverter
<1>5. /\ Adds(w, ToolDelta(w, t.tool, t.args))
      /\ Adds(Announce(w, t.tool), ToolDelta(Announce(w, t.tool), t.tool, new.content))
  BY <1>3, <1>4, ToolDeltaAdds
<1>6. Adds(w, ToolDelta(Announce(w, t.tool), t.tool, new.content))
  BY <1>4, <1>5, AddsOn
<1> QED
  BY <1>1, <1>2, <1>5, <1>6, AddsOn

\* and ends;
LEMMA CloseToolAdds ==
  ASSUME NEW v, IsConverter(v), NEW t
  PROVE  Adds(v, CloseTool(v, t))
<1> DEFINE w == IF Added(v, t) THEN v ELSE Announce(v, t)
           x == IF w.items[t].name = "custom" THEN Delta(w, t, w.items[t].content) ELSE w
<1>1. Adds(v, w)
  BY AnnounceAdds, AddsSelf
<1>2. IsConverter(w)
  BY <1>1, AddsConverter
<1>3. CloseTool(v, t) = v \/ CloseTool(v, t) = Close(x, t)
  BY DEF CloseTool
<1> HIDE DEF w
<1>4. Adds(w, x)
  BY <1>2, DeltaAdds, AddsSelf
<1> HIDE DEF x
<1>5. Adds(x, Close(x, t))
  BY <1>4, CloseAdds, AddsConverter
<1>6. Adds(w, Close(x, t))
  BY <1>4, <1>5, AddsOn
<1>7. Adds(v, Close(x, t))
  BY <1>1, <1>6, AddsOn
<1> QED
  BY <1>3, <1>7, AddsSelf

\* an item of an answer in one piece is replayed.
LEMMA ShownAdds ==
  ASSUME NEW v, IsConverter(v), NEW i
  PROVE  Adds(v, Shown(v, i))
<1> DEFINE a == Emit(v, [type |-> "added", slot |-> i.slot, id |-> i.id, index |-> i.index])
           b == IF i.content = <<>> THEN a ELSE Delta(a, i.slot, i.content)
           e == [type |-> "done", slot |-> i.slot]
<1>1. Adds(v, a)
  BY EmitAdds
<1>2. Shown(v, i) = Emit(b, e)
  BY DEF Shown
<1> HIDE DEF a
<1>3. Adds(a, b)
  BY <1>1, DeltaAdds, AddsSelf, AddsConverter
<1> HIDE DEF b
<1>4. Adds(b, Emit(b, e))
  BY <1>3, EmitAdds, AddsConverter
<1>5. Adds(a, Emit(b, e))
  BY <1>3, <1>4, AddsOn
<1> QED
  BY <1>1, <1>2, <1>5, AddsOn

\* Nor do the folds, by induction over their sequence.
LEMMA FoldAdds ==
  ASSUME NEW v, IsConverter(v), NEW S, NEW q \in Seq(S)
  PROVE  /\ Adds(v, FoldLeft(PushTool, v, q)) /\ Adds(v, FoldLeft(CloseTool, v, q))
         /\ Adds(v, FoldLeft(Shown, v, q))
<1>1. ASSUME NEW op \in {"push", "close", "show"}, NEW g, Iterates(g, op, AnySlot, v, q, Len(q))
      PROVE  Adds(v, g[1..Len(q)])
  <2>1. PICK f : /\ f[0] = v /\ f[Len(q)] = g[1..Len(q)]
                 /\ \A n \in 0..Len(q) - 1 : f[n + 1] = Folded(op, AnySlot, f[n], q[n + 1])
    <3>1. q \in Seq(S) /\ Iterates(g, op, AnySlot, v, q, Len(q))
      BY <1>1
    <3> QED
      BY <3>1, FoldSteps
  <2>2. \A w, x : IsConverter(w) => Adds(w, Folded(op, AnySlot, w, x))
    <3>1. \A w, x : Folded(op, AnySlot, w, x) \in {PushTool(w, x), CloseTool(w, x), Shown(w, x)}
      BY DEF Folded
    <3> QED
      BY <3>1, PushToolAdds, CloseToolAdds, ShownAdds
  <2> DEFINE Good == {n \in Nat : n <= Len(q) => Adds(v, f[n])}
  <2>3. 0 \in Good
    BY <2>1, AddsSelf
  <2>4. ASSUME NEW n \in Nat, n \in Good
        PROVE  n + 1 \in Good
    <3> SUFFICES ASSUME n + 1 <= Len(q)
                 PROVE  Adds(v, f[n + 1])
      OBVIOUS
    <3>1. n \in 0..Len(q) - 1 /\ Adds(v, f[n])
      BY <2>4
    <3>2. Adds(f[n], f[n + 1])
      BY <2>1, <2>2, <3>1, AddsConverter
    <3> QED
      BY <3>1, <3>2, AddsOn
  <2>5. Nat \subseteq Good
    <3> HIDE DEF Good
    <3> QED
      BY <2>3, <2>4, Induction
  <2>6. Len(q) \in Nat
    OBVIOUS
  <2>7. Adds(v, f[Len(q)])
    BY <2>5, <2>6
  <2> QED
    BY <2>1, <2>7
<1> QED
  BY <1>1, Folds

\* No chunk tells a verdict.
LEMMA ChunkAdds ==
  ASSUME NEW v, IsConverter(v), NEW k \in Chunks
  PROVE  Adds(v, HandleChunk(v, k))
<1> DEFINE a == Start(v)
           b == IF k.reasoning = <<>> THEN a ELSE PushReasoning(a, k.reasoning)
           d == IF k.content = <<>> THEN b ELSE PushContent(b, k.content)
           e == CloseReasoning(FlushThink(d))
<1>1. Adds(v, a)
  BY StartAdds
<1>2. HandleChunk(v, k) = IF k.tools = <<>> THEN d ELSE FoldLeft(PushTool, e, k.tools)
  BY DEF HandleChunk
<1> HIDE DEF a
<1>3. Adds(a, b)
  BY <1>1, PushAdds, AddsSelf, AddsConverter DEF PushReasoning
<1> HIDE DEF b
<1>4. Adds(b, d)
  BY <1>3, ContentAdds, AddsSelf, AddsConverter
<1> HIDE DEF d
<1>5. Adds(d, FlushThink(d))
  BY <1>4, FlushAdds, AddsConverter
<1>6. Adds(FlushThink(d), e)
  BY <1>5, CloseAdds, AddsConverter DEF CloseReasoning
<1> HIDE DEF e
<1>7. k.tools \in Seq([tool : Range(Tools), id : STRING, name : STRING, args : Seq(STRING)])
  BY ChunkAssumption
<1>8. Adds(e, FoldLeft(PushTool, e, k.tools))
  BY <1>6, <1>7, FoldAdds, AddsConverter
<1>9. Adds(v, d)
  BY <1>1, <1>3, <1>4, AddsOn
<1>10. Adds(v, e)
  BY <1>5, <1>6, <1>9, AddsOn
<1> QED
  BY <1>2, <1>8, <1>9, <1>10, AddsOn

(* The verdict. *)

\* A converter is completed when it has told a verdict; it completes once, before any failure.
Verdict(v) ==
  /\ IsConverter(v)
  /\ v.completed <=> Told(v, "completed") \union Told(v, "failed") # {}
  /\ v.failed => v.completed
  /\ \A i, j \in Told(v, "completed") : i = j
  /\ \A i \in Told(v, "completed"), j \in Told(v, "failed") : i < j

\* Whatever tells no verdict keeps what is said of it.
LEMMA AddsVerdict ==
  ASSUME NEW v, Verdict(v), NEW w, Adds(v, w)
  PROVE  Verdict(w)
  BY DEF Verdict, Adds

\* A new converter has told none.
LEMMA NewVerdict == Verdict(New) /\ New.completed = FALSE
<1>1. New.out = <<>> /\ New.completed = FALSE /\ New.failed = FALSE
  BY DEF New
<1>2. <<>> \in Seq({})
  OBVIOUS
<1>3. IsConverter(New)
  BY <1>1, <1>2 DEF IsConverter, New
<1>4. Told(New, "completed") = {} /\ Told(New, "failed") = {}
  BY <1>1 DEF Told
<1> QED
  BY <1>1, <1>3, <1>4 DEF Verdict

\* A failure is told, after whatever else was.
LEMMA FailVerdict ==
  ASSUME NEW v, Verdict(v)
  PROVE  Verdict(Fail(v)) /\ Fail(v).completed
<1> DEFINE w == [v EXCEPT !.completed = TRUE, !.failed = TRUE]
           e == [type |-> "failed"]
<1>1. /\ IsConverter(w) /\ w.completed = TRUE /\ w.failed = TRUE
      /\ Told(w, "completed") = Told(v, "completed") /\ Told(w, "failed") = Told(v, "failed")
      /\ w.out = v.out
  BY DEF Verdict, IsConverter, Told
<1>2. Fail(v) = Emit(w, e)
  BY DEF Fail
<1> HIDE DEF w
<1>3. e.type = "failed" /\ e.type # "completed"
  OBVIOUS
<1> HIDE DEF e
<1>4. /\ Told(Emit(w, e), "completed") = Told(v, "completed")
      /\ Told(Emit(w, e), "failed") = Told(v, "failed") \union {Len(w.out) + 1}
  BY <1>1, <1>3, EmitTold
<1>5. \A i \in Told(v, "completed") : i < Len(w.out) + 1
  <2>1. DOMAIN w.out = 1..Len(w.out) /\ Len(w.out) \in Nat
    BY <1>1, EmitTells
  <2> QED
    BY <1>1, <2>1 DEF Told
<1>6. IsConverter(Emit(w, e)) /\ Emit(w, e).completed = TRUE /\ Emit(w, e).failed = TRUE
  BY <1>1, EmitTells
<1> QED
  BY <1>2, <1>4, <1>5, <1>6 DEF Verdict

\* response.completed, when there was no verdict.
LEMMA CompleteVerdict ==
  ASSUME NEW v, Verdict(v), ~v.completed, NEW e, e.type = "completed"
  PROVE  Verdict(Emit([v EXCEPT !.completed = TRUE], e))
<1> DEFINE w == [v EXCEPT !.completed = TRUE]
<1>1. /\ IsConverter(w) /\ w.completed = TRUE /\ w.failed = v.failed
      /\ Told(w, "completed") = Told(v, "completed") /\ Told(w, "failed") = Told(v, "failed")
  BY DEF Verdict, IsConverter, Told
<1> HIDE DEF w
<1>2. Told(v, "completed") = {} /\ Told(v, "failed") = {}
  BY DEF Verdict
<1>3. Told(Emit(w, e), "completed") = {Len(w.out) + 1} /\ Told(Emit(w, e), "failed") = {}
  <2>1. e.type # "failed"
    OBVIOUS
  <2> QED
    BY <1>1, <1>2, <2>1, EmitTold
<1>4. IsConverter(Emit(w, e)) /\ Emit(w, e).completed = TRUE /\ Emit(w, e).failed = v.failed
  BY <1>1, EmitTells
<1>5. Verdict(Emit(w, e))
  BY <1>3, <1>4 DEF Verdict
<1> QED
  BY <1>5 DEF w

\* The end completes a response that had no verdict.
LEMMA FinalizeVerdict ==
  ASSUME NEW v, Verdict(v)
  PROVE  Verdict(Finalize(v)) /\ Finalize(v).completed
<1> DEFINE a == FlushThink(Start(v))
           b == Close(CloseReasoning(a), "text")
           w == FoldLeft(CloseTool, b, Tools)
           e == [type |-> "completed", items |-> CompletedItems(w)]
<1>1. CASE v.completed
  BY <1>1 DEF Finalize
<1>2. CASE ~v.completed
  <2>1. Finalize(v) = Emit([w EXCEPT !.completed = TRUE], e)
    BY <1>2 DEF Finalize
  <2>2. Adds(v, Start(v)) /\ IsConverter(Start(v))
    BY StartAdds, AddsConverter DEF Verdict
  <2>3. Adds(Start(v), a) /\ IsConverter(a)
    BY <2>2, FlushAdds, AddsConverter
  <2>4. Adds(v, a)
    BY <2>2, <2>3, AddsOn
  <2> HIDE DEF a
  <2>5. Adds(a, CloseReasoning(a)) /\ IsConverter(CloseReasoning(a))
    BY <2>3, CloseAdds, AddsConverter DEF CloseReasoning
  <2>6. Adds(CloseReasoning(a), b) /\ IsConverter(b)
    BY <2>5, CloseAdds, AddsConverter
  <2>7. Adds(v, b)
    BY <2>4, <2>5, <2>6, AddsOn
  <2> HIDE DEF b
  <2>8. Adds(b, w)
    BY <2>6, ToolsAssumption, FoldAdds
  <2>9. Adds(v, w)
    BY <2>7, <2>8, AddsOn
  <2> HIDE DEF w
  <2>10. Verdict(w) /\ ~w.completed
    BY <1>2, <2>9, AddsVerdict DEF Adds
  <2>11. Verdict(Emit([w EXCEPT !.completed = TRUE], e))
    BY <2>10, CompleteVerdict
  <2>12. Emit([w EXCEPT !.completed = TRUE], e).completed
    <3>1. IsConverter([w EXCEPT !.completed = TRUE]) /\ [w EXCEPT !.completed = TRUE].completed = TRUE
      BY <2>10 DEF Verdict, IsConverter
    <3> HIDE DEF e
    <3> QED
      BY <3>1, EmitTells
  <2> QED
    BY <2>1, <2>11, <2>12
<1> QED
  BY <1>1, <1>2

\* The items of an answer in one piece are a sequence.
LEMMA WholeIsSequence ==
  ASSUME NEW m \in Chunks
  PROVE  \E S : WholeItems(m) \in Seq(S)
<1>1. m.tools \in Seq([tool : Range(Tools), id : STRING, name : STRING, args : Seq(STRING)])
  BY ChunkAssumption
<1> DEFINE Item(s, id, text) == [slot |-> s, id |-> id, content |-> text]
           Said(s, text) == IF text = <<>> THEN <<>> ELSE <<Item(s, "", text)>>
           calls == [k \in DOMAIN m.tools |->
                 Item(m.tools[k].tool, IF m.tools[k].id \in {NoId, ""} THEN "generated" ELSE m.tools[k].id,
                      WholeArguments(m.tools[k].name = "custom", m.tools[k].args))]
           all   == Said("reasoning", ReasoningText(m)) \o Said("text", MessageText(m)) \o calls
           S == {calls[k] : k \in DOMAIN m.tools} \union
                {Item("reasoning", "", ReasoningText(m)), Item("text", "", MessageText(m))}
<1>2. calls \in Seq(S)
  <2>1. DOMAIN calls = 1..Len(m.tools) /\ Len(m.tools) \in Nat
    BY <1>1
  <2>2. \A k \in DOMAIN m.tools : calls[k] \in S
    OBVIOUS
  <2>3. calls = [k \in 1..Len(m.tools) |-> calls[k]]
    BY <2>1
  <2> HIDE DEF calls, S
  <2>4. calls \in [1..Len(m.tools) -> S]
    BY <2>1, <2>2, <2>3
  <2> QED
    BY <2>1, <2>4
<1>3. Said("reasoning", ReasoningText(m)) \in Seq(S) /\ Said("text", MessageText(m)) \in Seq(S)
  <2>1. Item("reasoning", "", ReasoningText(m)) \in S /\ Item("text", "", MessageText(m)) \in S
    OBVIOUS
  <2>2. <<>> \in Seq(S)
    OBVIOUS
  <2>3. \A x : x \in S => <<x>> \in Seq(S)
    <3> HIDE DEF S
    <3> QED
      OBVIOUS
  <2> HIDE DEF S, Item
  <2>4. <<Item("reasoning", "", ReasoningText(m))>> \in Seq(S) /\ <<Item("text", "", MessageText(m))>> \in Seq(S)
    BY <2>1, <2>3
  <2> QED
    BY <2>2, <2>4
<1> HIDE DEF calls, Said, S
<1>4. all \in Seq(S)
  BY <1>2, <1>3
<1> DEFINE W == [k \in DOMAIN all |-> [slot |-> all[k].slot, index |-> k, id |-> all[k].id,
                                       content |-> all[k].content]]
<1>5. WholeItems(m) = W
  BY DEF WholeItems, calls, Said
<1> HIDE DEF all
<1>6. W \in Seq({W[k] : k \in DOMAIN all})
  BY <1>4
<1> QED
  BY <1>5, <1>6

\* An answer in one piece is told with one completion and no failure.
LEMMA ReplayVerdict ==
  ASSUME NEW m \in Chunks
  PROVE  /\ IsConverter(Replay(WholeItems(m)))
         /\ Told(Replay(WholeItems(m)), "failed") = {}
         /\ \E n \in Nat : Told(Replay(WholeItems(m)), "completed") = {n}
         /\ Replay(WholeItems(m)).completed = FALSE /\ Replay(WholeItems(m)).failed = FALSE
<1> DEFINE items == WholeItems(m)
           w == FoldLeft(Shown, Start(New), items)
           e == [type |-> "completed", items |-> items]
<1>1. PICK S : items \in Seq(S)
  BY WholeIsSequence
<1>2. Replay(items) = Emit(w, e)
  BY DEF Replay
<1> HIDE DEF items
<1>3. Adds(New, Start(New))
  BY NewVerdict, StartAdds DEF Verdict
<1>4. Adds(Start(New), w)
  BY <1>1, <1>3, FoldAdds, AddsConverter
<1>5. Adds(New, w)
  BY <1>3, <1>4, AddsOn
<1> HIDE DEF w
<1>6. /\ IsConverter(w) /\ w.completed = FALSE /\ w.failed = FALSE
      /\ Told(w, "completed") = {} /\ Told(w, "failed") = {}
  BY <1>5, NewVerdict DEF Adds, Verdict, New
<1>7. e.type = "completed" /\ e.type # "failed"
  OBVIOUS
<1> HIDE DEF e
<1>8. Told(Emit(w, e), "completed") = {Len(w.out) + 1} /\ Told(Emit(w, e), "failed") = {}
  <2>1. Told(Emit(w, e), "completed") = Told(w, "completed") \union {Len(w.out) + 1}
    BY <1>6, <1>7, EmitTold
  <2>2. Told(Emit(w, e), "failed") = Told(w, "failed")
    BY <1>6, <1>7, EmitTold
  <2> QED
    BY <1>6, <2>1, <2>2
<1>9. /\ Len(w.out) + 1 \in Nat
      /\ IsConverter(Emit(w, e)) /\ Emit(w, e).completed = FALSE /\ Emit(w, e).failed = FALSE
  BY <1>6, EmitTells
<1> QED
  BY <1>2, <1>8, <1>9 DEF items

(* The reachable states. *)

\* What an answer in one piece leaves is told at once; its converter is not asked again.
Replayed == /\ link = "closed" /\ IsConverter(c) /\ Told(c, "failed") = {}
            /\ \E n \in Nat : Told(c, "completed") = {n}

\* The inductive invariant.
VInv == /\ buffer \in Seq(Block)
        /\ Verdict(c) \/ Replayed
        /\ link = "closed" => Replayed \/ c.completed

\* Every block keeps the verdict.
LEMMA HandleVerdict ==
  ASSUME NEW v, Verdict(v), NEW b \in Block
  PROVE  Verdict(Handle(v, b))
<1>1. b.type = "DONE" \/ b.type = "error" \/ (b.type = "chunk" /\ b.chunk \in Chunks)
  BY DEF Block
<1>2. CASE b.type = "DONE"
  BY <1>2, FinalizeVerdict DEF Handle
<1>3. CASE b.type = "error"
  BY <1>3, FailVerdict DEF Handle
<1>4. CASE b.type = "chunk" /\ b.chunk \in Chunks
  <2>1. Adds(v, HandleChunk(v, b.chunk))
    BY <1>4, ChunkAdds DEF Verdict
  <2>2. Handle(v, b) = HandleChunk(v, b.chunk)
    BY <1>4 DEF Handle
  <2> QED
    BY <2>1, <2>2, AddsVerdict
<1> QED
  BY <1>1, <1>2, <1>3, <1>4

\* The inductive invariant holds initially, is kept by every step and implies the property.
LEMMA VInit == StreamInit => VInv
<1> SUFFICES ASSUME StreamInit PROVE VInv
  OBVIOUS
<1>1. Verdict(c) /\ link = "open" /\ buffer = <<>>
  BY NewVerdict DEF StreamInit
<1>2. buffer \in Seq(Block)
  BY <1>1
<1> QED
  BY <1>1, <1>2 DEF VInv

\* Every step keeps the invariant.
LEMMA VStep == VInv /\ [StreamNext]_streamVars => VInv'
<1> SUFFICES ASSUME VInv, [StreamNext]_streamVars
             PROVE  VInv'
  OBVIOUS
<1>0. link = "open" => Verdict(c)
  BY DEF VInv, Replayed
<1>1. ASSUME NEW b \in Block, NEW samePacket \in BOOLEAN, Arrive(b, samePacket)
      PROVE  VInv'
  <2> DEFINE waiting == Append(buffer, b)
             stays   == c.failed /\ samePacket
  <2>1. waiting \in Seq(Block) /\ waiting # <<>>
    BY DEF VInv
  <2>2. Head(waiting) \in Block /\ Tail(waiting) \in Seq(Block)
    BY <2>1
  <2>3. /\ link = "open" /\ link' = link
        /\ c' = IF stays THEN c ELSE Handle(c, Head(waiting))
        /\ buffer' = IF stays THEN waiting ELSE Tail(waiting)
    BY <1>1 DEF Arrive
  <2> HIDE DEF waiting
  <2>4. Verdict(Handle(c, Head(waiting)))
    BY <1>0, <2>2, <2>3, HandleVerdict
  <2>5. Verdict(c) /\ Verdict(c')
    BY <1>0, <2>3, <2>4
  <2>6. buffer' \in Seq(Block)
    BY <2>1, <2>2, <2>3
  <2> QED
    BY <2>3, <2>5, <2>6 DEF VInv
<1>2. CASE End
  <2>1. link = "open" /\ c' = (IF c.failed THEN c ELSE Finalize(c)) /\ UNCHANGED buffer
    BY <1>2 DEF End
  <2>2. Verdict(c) /\ Verdict(Finalize(c)) /\ Finalize(c).completed
    BY <1>0, <2>1, FinalizeVerdict
  <2>3. Verdict(c') /\ c'.completed
    BY <2>1, <2>2 DEF Verdict
  <2> QED
    BY <2>1, <2>3 DEF VInv
<1>3. CASE Break
  <2>1. link = "open" /\ c' = Fail(c) /\ UNCHANGED buffer
    BY <1>3 DEF Break
  <2>2. Verdict(c') /\ c'.completed
    BY <1>0, <2>1, FailVerdict
  <2> QED
    BY <2>1, <2>2 DEF VInv
<1>4. ASSUME NEW m \in Chunks, AnswerWhole(m)
      PROVE  VInv'
  <2>1. link' = "closed" /\ c' = Replay(WholeItems(m)) /\ UNCHANGED buffer
    BY <1>4 DEF AnswerWhole
  <2>2. Replayed'
    BY <2>1, ReplayVerdict DEF Replayed
  <2> QED
    BY <2>1, <2>2 DEF VInv
<1>5. CASE AnswerBreaks
  <2>1. link = "open" /\ link' = "dropped" /\ UNCHANGED <<c, buffer>>
    BY <1>5 DEF AnswerBreaks
  <2>2. Verdict(c)
    BY <1>0, <2>1
  <2> QED
    BY <2>1, <2>2 DEF VInv
<1>6. CASE UNCHANGED streamVars
  BY <1>6 DEF streamVars, VInv, Replayed
<1> QED
  BY <1>1, <1>2, <1>3, <1>4, <1>5, <1>6 DEF StreamNext

\* It says that there is one verdict.
LEMMA VImplies == VInv => OneVerdict
<1> SUFFICES ASSUME VInv PROVE OneVerdict
  OBVIOUS
<1>1. Positions("completed") = Told(c, "completed") /\ Positions("failed") = Told(c, "failed")
  BY DEF Positions, Told
<1>2. \A i, j \in Told(c, "completed") : i = j
  BY DEF VInv, Verdict, Replayed
<1>3. \A i \in Told(c, "completed"), k \in Told(c, "failed") : i < k
  BY DEF VInv, Verdict, Replayed
<1>4. link = "closed" => Told(c, "completed") \union Told(c, "failed") # {}
  BY DEF VInv, Verdict, Replayed
<1>5. Cardinality(Told(c, "completed")) <= 1
  <2>1. CASE Told(c, "completed") = {}
    BY <2>1, FS_EmptySet
  <2>2. CASE Told(c, "completed") # {}
    <3>1. PICK n : n \in Told(c, "completed")
      BY <2>2
    <3>2. Told(c, "completed") = {n}
      BY <1>2, <3>1
    <3> QED
      BY <3>2, FS_Singleton
  <2> QED
    BY <2>1, <2>2
<1> QED
  BY <1>1, <1>3, <1>4, <1>5 DEF OneVerdict

\* A response is completed at most once, never after it has failed, and a stream that is
\* over has told the client one or the other: ChatSseToResponsesConverter's handle_block,
\* finalize and fail in whatever order the connection calls them.
THEOREM AlwaysOneVerdict == StreamSpec => []OneVerdict
<1>1. StreamSpec => []VInv
  BY VInit, VStep, PTL DEF StreamSpec
<1> QED
  BY <1>1, VImplies, PTL

-----------------------------------------------------------------------------
(* The completed response.                                                   *)

\* A fold passes through one more value when the sequence grows by one element.
LEMMA FoldOneMore ==
  ASSUME NEW op, NEW slot, NEW v, NEW S, NEW q \in Seq(S), NEW e \in S,
         NEW g, Iterates(g, op, slot, v, q, Len(q)),
         NEW h, Iterates(h, op, slot, v, Append(q, e), Len(q) + 1)
  PROVE  h[1..Len(q) + 1] = Folded(op, slot, g[1..Len(q)], e)
<1> DEFINE r == Append(q, e)
           n == Len(q)
<1>1. /\ n \in Nat /\ r \in Seq(S) /\ Len(r) = n + 1 /\ r[n + 1] = e
      /\ \A i \in 1..n : r[i] = q[i]
  OBVIOUS
<1>2. PICK f : /\ f[0] = v /\ f[n] = g[1..n]
               /\ \A k \in 0..n - 1 : f[k + 1] = Folded(op, slot, f[k], q[k + 1])
  <2>1. q \in Seq(S) /\ Iterates(g, op, slot, v, q, Len(q))
    OBVIOUS
  <2> QED
    BY <2>1, FoldSteps
<1>3. Iterates(h, op, slot, v, r, Len(r))
  BY <1>1
<1> HIDE DEF r, n
<1>4. PICK x : /\ x[0] = v /\ x[Len(r)] = h[1..Len(r)]
               /\ \A k \in 0..Len(r) - 1 : x[k + 1] = Folded(op, slot, x[k], r[k + 1])
  BY <1>1, <1>3, FoldSteps
<1> DEFINE T == {k \in Nat : k <= n => x[k] = f[k]}
<1>5. 0 \in T
  BY <1>2, <1>4
<1>6. ASSUME NEW k \in Nat, k \in T
      PROVE  k + 1 \in T
  <2>1. CASE k + 1 <= n
    <3>1. k \in 0..n - 1 /\ k \in 0..Len(r) - 1 /\ k + 1 \in 1..n /\ k <= n
      BY <1>1, <2>1
    <3>2. x[k] = f[k] /\ r[k + 1] = q[k + 1]
      BY <1>1, <1>6, <3>1
    <3>3. x[k + 1] = f[k + 1]
      BY <1>2, <1>4, <3>1, <3>2
    <3> QED
      BY <3>3
  <2> QED
    BY <2>1
<1>7. Nat \subseteq T
  <2> HIDE DEF T
  <2> QED
    BY <1>5, <1>6, Induction
<1>8. x[n] = f[n]
  BY <1>1, <1>7
<1>9. n \in 0..Len(r) - 1
  BY <1>1
<1>10. x[n + 1] = Folded(op, slot, x[n], r[n + 1])
  BY <1>4, <1>9
<1> QED
  BY <1>1, <1>2, <1>4, <1>8, <1>10 DEF n

\* The text that the deltas of a slot bring.
TextOf(q, s) ==
  FoldLeft(LAMBDA text, e : IF e.type = "delta" /\ e.slot = s THEN text \o e.text ELSE text, <<>>, q)

\* It is a fold.
LEMMA TextFolds ==
  ASSUME NEW S, NEW q \in Seq(S), NEW s
  PROVE  \E g : Iterates(g, "text", s, <<>>, q, Len(q)) /\ TextOf(q, s) = g[1..Len(q)]
<1>0. DOMAIN q = 1..Len(q) /\ Len(q) \in Nat
  OBVIOUS
<1> DEFINE Is(g) == g = [z \in SUBSET (1..Len(q)) |->
              IF z = {} THEN <<>>
              ELSE IF q[Max(z)].type = "delta" /\ q[Max(z)].slot = s
                   THEN g[z \ {Max(z)}] \o q[Max(z)].text ELSE g[z \ {Max(z)}]]
<1>1. \A w, x : Folded("text", s, w, x) = IF x.type = "delta" /\ x.slot = s THEN w \o x.text ELSE w
  BY DEF Folded
<1>2. \A g : Is(g) <=> Iterates(g, "text", s, <<>>, q, Len(q))
  <2> TAKE g
  <2>1. \A z : (IF q[Max(z)].type = "delta" /\ q[Max(z)].slot = s
                THEN g[z \ {Max(z)}] \o q[Max(z)].text ELSE g[z \ {Max(z)}])
              = Folded("text", s, g[z \ {Max(z)}], q[Max(z)])
    BY <1>1
  <2> QED
    BY <2>1 DEF Iterates
<1>3. \E g : Is(g)
  BY <1>0, <1>2, Iterated
<1>4. Is(CHOOSE g : Is(g))
  BY <1>3
<1>5. TextOf(q, s) = (CHOOSE g : Is(g))[1..Len(q)]
  BY <1>0 DEF TextOf, FoldLeft, MapThenFoldSet
<1> QED
  BY <1>2, <1>4, <1>5

\* Nothing brings no text, and one event more brings its text to its slot.
LEMMA TextStep ==
  ASSUME NEW S, NEW q \in Seq(S), NEW e, NEW s
  PROVE  TextOf(Append(q, e), s) =
           IF e.type = "delta" /\ e.slot = s THEN TextOf(q, s) \o e.text ELSE TextOf(q, s)
<1> DEFINE T == S \union {e}
<1>1. q \in Seq(T) /\ e \in T /\ Append(q, e) \in Seq(T) /\ Len(Append(q, e)) = Len(q) + 1
  OBVIOUS
<1>2. PICK g : Iterates(g, "text", s, <<>>, q, Len(q)) /\ TextOf(q, s) = g[1..Len(q)]
  BY TextFolds
<1> HIDE DEF T
<1>3. PICK h : /\ Iterates(h, "text", s, <<>>, Append(q, e), Len(Append(q, e)))
               /\ TextOf(Append(q, e), s) = h[1..Len(Append(q, e))]
  BY <1>1, TextFolds
<1>4. h[1..Len(q) + 1] = Folded("text", s, g[1..Len(q)], e)
  <2>1. Iterates(h, "text", s, <<>>, Append(q, e), Len(q) + 1)
    BY <1>1, <1>3
  <2> QED
    BY <1>1, <1>2, <2>1, FoldOneMore
<1> QED
  BY <1>1, <1>2, <1>3, <1>4 DEF Folded

\* Nothing brings no text.
LEMMA TextEmpty ==
  ASSUME NEW s
  PROVE  TextOf(<<>>, s) = <<>>
<1>1. <<>> \in Seq({}) /\ Len(<<>>) = 0 /\ 1..0 = {}
  OBVIOUS
<1>2. PICK g : Iterates(g, "text", s, <<>>, <<>>, Len(<<>>)) /\ TextOf(<<>>, s) = g[1..Len(<<>>)]
  BY <1>1, TextFolds
<1>3. {} \in SUBSET (1..Len(<<>>)) /\ 1..Len(<<>>) = {}
  BY <1>1
<1> QED
  BY <1>2, <1>3 DEF Iterates

(* What holds of a converter until it completes.  p says that the upstream has been   *)
(* proper, X holds the slots whose text is just being written.                        *)

\* The slots that are not calls.
OwnSlots == {"reasoning", "text"}

\* Every item is a record, and belongs to one of the slots.
Typed(v) ==
  /\ IsConverter(v) /\ OwnSlots \subseteq DOMAIN v.items
  /\ \A s \in DOMAIN v.items :
       /\ DOMAIN v.items[s] = {"index", "id", "name", "content", "done"}
       /\ v.items[s].index \in Nat /\ v.items[s].done \in BOOLEAN
       /\ s \in OwnSlots => v.items[s].name # "custom"
       /\ s \notin OwnSlots => s \in Range(Tools) /\ v.items[s].content \in Seq(STRING)

\* Event i of the output added the item of slot s as it is.
AddedBy(v, p, s, i) ==
  /\ v.out[i].slot = s /\ v.out[i].index = v.items[s].index
  /\ p => v.out[i].id = v.items[s].id

\* The items that were added are numbered without a gap, and each was told.
Numbered(v, p) ==
  /\ v.next \in Nat
  /\ \A s \in DOMAIN v.items : v.items[s].index <= v.next
  /\ \A s, t \in DOMAIN v.items : Added(v, s) /\ v.items[s].index = v.items[t].index => s = t
  /\ \A n \in 1..v.next : \E s \in DOMAIN v.items : v.items[s].index = n
  /\ \A s \in DOMAIN v.items : Added(v, s) => \E i \in Told(v, "added") : AddedBy(v, p, s, i)
  /\ IsFiniteSet(Told(v, "added")) /\ Cardinality(Told(v, "added")) = v.next

\* Event k closed the item o.
ClosedBy(v, p, o, k) ==
  /\ v.out[k].slot = o.slot
  /\ p => o.content = TextOf(SubSeq(v.out, 1, k - 1), o.slot)

\* An item of the list of closed ones is the item of its slot, with the text streamed before.
Shut(v, p, o) ==
  /\ o.slot \in DOMAIN v.items /\ v.items[o.slot].done
  /\ o.index # 0 /\ o.index = v.items[o.slot].index
  /\ p => o.id = v.items[o.slot].id
  /\ \E k \in Told(v, "done") : ClosedBy(v, p, o, k)

\* The list of closed items has each of them once.
Listed(v, p) ==
  /\ \E S : v.output \in Seq(S)
  /\ \A j \in DOMAIN v.output : Shut(v, p, v.output[j])
  /\ \A s \in DOMAIN v.items : v.items[s].done => \E j \in DOMAIN v.output : v.output[j].slot = s
  /\ \A i, j \in DOMAIN v.output : v.output[i].slot = v.output[j].slot => i = j

\* The text of an item so far: that of a custom call is told at its end.
SoFar(item) == IF item.name = "custom" THEN <<>> ELSE item.content

\* What was streamed is what the open items hold.
Streaming(v, p, X) == p =>
  /\ \A s \in DOMAIN v.items \ X : ~v.items[s].done => TextOf(v.out, s) = SoFar(v.items[s])
  /\ \A s : s \notin DOMAIN v.items => TextOf(v.out, s) = <<>>
  /\ \A s \in DOMAIN v.items \ (X \union OwnSlots) : Added(v, s)

\* All of it.
InStep(v, p, X) == Typed(v) /\ Numbered(v, p) /\ Listed(v, p) /\ Streaming(v, p, X)

(* Steps that neither add an item nor close one. *)

\* w is v after such a step.
Minor(v, w, p) ==
  /\ w.next = v.next /\ w.output = v.output
  /\ DOMAIN v.items \subseteq DOMAIN w.items
  /\ \A s \in DOMAIN v.items :
       /\ w.items[s].index = v.items[s].index /\ w.items[s].done = v.items[s].done
       /\ p /\ Added(v, s) => w.items[s].id = v.items[s].id
  /\ \A s \in DOMAIN w.items \ DOMAIN v.items : w.items[s].index = 0 /\ w.items[s].done = FALSE
  /\ Told(w, "added") = Told(v, "added") /\ Told(w, "done") = Told(v, "done")
  /\ \A k \in DOMAIN v.out : /\ w.out[k] = v.out[k]
                             /\ SubSeq(w.out, 1, k - 1) = SubSeq(v.out, 1, k - 1)

\* The numbers and the list of closed items stay what they are.
LEMMA MinorNumbers ==
  ASSUME NEW v, NEW w, NEW p, Numbered(v, p), Minor(v, w, p)
  PROVE  Numbered(w, p)
<1>1. w.next \in Nat /\ \A s \in DOMAIN w.items : w.items[s].index <= w.next
  BY DEF Numbered, Minor
<1>2. \A s, t \in DOMAIN w.items : Added(w, s) /\ w.items[s].index = w.items[t].index => s = t
  BY DEF Numbered, Minor, Added
<1>3. \A n \in 1..w.next : \E s \in DOMAIN w.items : w.items[s].index = n
  BY DEF Numbered, Minor
<1>4. ASSUME NEW s \in DOMAIN w.items, Added(w, s)
      PROVE  \E i \in Told(w, "added") : AddedBy(w, p, s, i)
  <2>1. s \in DOMAIN v.items /\ Added(v, s)
    BY <1>4 DEF Minor, Added
  <2>2. PICK i \in Told(v, "added") : AddedBy(v, p, s, i)
    BY <2>1 DEF Numbered
  <2>3. w.out[i] = v.out[i] /\ w.items[s].index = v.items[s].index /\ (p => w.items[s].id = v.items[s].id)
    BY <2>1 DEF Minor, Told
  <2>4. AddedBy(w, p, s, i) /\ i \in Told(w, "added")
    BY <2>2, <2>3 DEF AddedBy, Minor
  <2> QED
    BY <2>4
<1>5. IsFiniteSet(Told(w, "added")) /\ Cardinality(Told(w, "added")) = w.next
  BY DEF Numbered, Minor
<1> QED
  BY <1>1, <1>2, <1>3, <1>4, <1>5 DEF Numbered

\* A closed item stays one.
LEMMA MinorShut ==
  ASSUME NEW v, NEW w, NEW p, Minor(v, w, p), NEW o, Shut(v, p, o)
  PROVE  Shut(w, p, o)
<1>1. o.slot \in DOMAIN v.items /\ Added(v, o.slot)
  BY DEF Shut, Added
<1>2. /\ o.slot \in DOMAIN w.items /\ w.items[o.slot].done
      /\ o.index # 0 /\ o.index = w.items[o.slot].index
      /\ p => o.id = w.items[o.slot].id
  BY <1>1 DEF Minor, Shut
<1>3. PICK k \in Told(v, "done") : ClosedBy(v, p, o, k)
  BY DEF Shut
<1>4. w.out[k] = v.out[k] /\ SubSeq(w.out, 1, k - 1) = SubSeq(v.out, 1, k - 1) /\ k \in Told(w, "done")
  BY DEF Minor, Told
<1>5. ClosedBy(w, p, o, k)
  BY <1>3, <1>4 DEF ClosedBy
<1> QED
  BY <1>2, <1>4, <1>5 DEF Shut

\* So does the list of them.
LEMMA MinorList ==
  ASSUME NEW v, NEW w, NEW p, Listed(v, p), Minor(v, w, p)
  PROVE  Listed(w, p)
<1>1. w.output = v.output
  BY DEF Minor
<1>2. \A j \in DOMAIN w.output : Shut(w, p, w.output[j])
  BY <1>1, MinorShut DEF Listed
<1>3. \A s \in DOMAIN w.items : w.items[s].done => \E j \in DOMAIN w.output : w.output[j].slot = s
  BY <1>1 DEF Listed, Minor
<1>4. /\ \E S : w.output \in Seq(S)
      /\ \A i, j \in DOMAIN w.output : w.output[i].slot = w.output[j].slot => i = j
  BY <1>1 DEF Listed
<1> QED
  BY <1>2, <1>3, <1>4 DEF Listed

\* The stream stays with the items wherever neither has changed.
LEMMA StreamsOn ==
  ASSUME NEW v, NEW w, NEW p, NEW X, Streaming(v, p, X), NEW Y, X \subseteq Y, Y \subseteq DOMAIN w.items,
         \A s : s \notin Y => TextOf(w.out, s) = TextOf(v.out, s),
         DOMAIN v.items \subseteq DOMAIN w.items,
         \A s \in DOMAIN w.items \ Y : s \in DOMAIN v.items /\ w.items[s] = v.items[s]
  PROVE  Streaming(w, p, Y)
<1> SUFFICES ASSUME p
             PROVE  /\ \A s \in DOMAIN w.items \ Y : ~w.items[s].done => TextOf(w.out, s) = SoFar(w.items[s])
                    /\ \A s : s \notin DOMAIN w.items => TextOf(w.out, s) = <<>>
                    /\ \A s \in DOMAIN w.items \ (Y \union OwnSlots) : Added(w, s)
  BY DEF Streaming
<1>1. \A s \in DOMAIN w.items \ Y : ~w.items[s].done => TextOf(w.out, s) = SoFar(w.items[s])
  BY DEF Streaming
<1>2. \A s : s \notin DOMAIN w.items => TextOf(w.out, s) = <<>>
  <2> TAKE s
  <2> HAVE s \notin DOMAIN w.items
  <2>1. s \notin Y /\ s \notin DOMAIN v.items
    OBVIOUS
  <2> QED
    BY <2>1 DEF Streaming
<1>3. \A s \in DOMAIN w.items \ (Y \union OwnSlots) : Added(w, s)
  BY DEF Streaming, Added
<1> QED
  BY <1>1, <1>2, <1>3

\* A slot is written when what was streamed is what its item holds.
LEMMA Written ==
  ASSUME NEW v, NEW p, NEW s, Streaming(v, p, {s}),
         p /\ ~v.items[s].done => TextOf(v.out, s) = SoFar(v.items[s]),
         p /\ s \notin OwnSlots => Added(v, s)
  PROVE  Streaming(v, p, {})
  BY DEF Streaming

(* The steps that the methods are made of. *)

\* What an event leaves alone, and what it brings.
LEMMA EmitRest ==
  ASSUME NEW v, IsConverter(v), NEW e
  PROVE  /\ Emit(v, e).items = v.items /\ Emit(v, e).next = v.next /\ Emit(v, e).output = v.output
         /\ Emit(v, e).mode = v.mode /\ Emit(v, e).think = v.think
         /\ \A k \in DOMAIN v.out : /\ Emit(v, e).out[k] = v.out[k]
                                    /\ SubSeq(Emit(v, e).out, 1, k - 1) = SubSeq(v.out, 1, k - 1)
         /\ SubSeq(Emit(v, e).out, 1, Len(v.out)) = v.out
<1>1. PICK S : v.out \in Seq(S)
  BY DEF IsConverter
<1>2. /\ Emit(v, e).items = v.items /\ Emit(v, e).next = v.next /\ Emit(v, e).output = v.output
      /\ Emit(v, e).mode = v.mode /\ Emit(v, e).think = v.think /\ Emit(v, e).out = Append(v.out, e)
  BY DEF Emit, IsConverter
<1> DEFINE q == v.out
           r == Append(q, e)
<1>3. q \in Seq(S) /\ r \in Seq(S \union {e}) /\ Len(q) \in Nat /\ DOMAIN q = 1..Len(q)
  BY <1>1
<1>4. \A k \in 1..Len(q) : r[k] = q[k]
  BY <1>3
<1>5. ASSUME NEW k \in 1..Len(q) + 1
      PROVE  SubSeq(r, 1, k - 1) = SubSeq(q, 1, k - 1)
  <2>1. SubSeq(r, 1, k - 1) = [i \in 1..k - 1 |-> r[i]] /\ SubSeq(q, 1, k - 1) = [i \in 1..k - 1 |-> q[i]]
    BY <1>3
  <2>2. \A i \in 1..k - 1 : r[i] = q[i]
    BY <1>3, <1>4
  <2> HIDE DEF q, r
  <2> QED
    BY <2>1, <2>2
<1>6. SubSeq(r, 1, Len(q)) = q
  <2>1. SubSeq(q, 1, Len(q)) = q
    BY <1>3
  <2>2. Len(q) + 1 \in 1..Len(q) + 1 /\ Len(q) + 1 - 1 = Len(q)
    BY <1>3
  <2> HIDE DEF q, r
  <2> QED
    BY <1>5, <2>1, <2>2
<1> HIDE DEF q, r
<1>8. \A k \in DOMAIN q : r[k] = q[k] /\ SubSeq(r, 1, k - 1) = SubSeq(q, 1, k - 1)
  BY <1>3, <1>4, <1>5
<1> QED
  BY <1>2, <1>6, <1>8 DEF q, r

\* The text of a slot.
LEMMA EmitText ==
  ASSUME NEW v, IsConverter(v), NEW e, NEW s
  PROVE  /\ e.type = "delta" /\ e.slot = s => TextOf(Emit(v, e).out, s) = TextOf(v.out, s) \o e.text
         /\ e.type # "delta" \/ e.slot # s => TextOf(Emit(v, e).out, s) = TextOf(v.out, s)
<1>1. PICK S : v.out \in Seq(S)
  BY DEF IsConverter
<1>2. Emit(v, e).out = Append(v.out, e)
  BY DEF Emit, IsConverter
<1>3. TextOf(Append(v.out, e), s) =
        IF e.type = "delta" /\ e.slot = s THEN TextOf(v.out, s) \o e.text ELSE TextOf(v.out, s)
  BY <1>1, TextStep
<1> QED
  BY <1>2, <1>3

\* An assignment to another field.
LEMMA SameInStep ==
  ASSUME NEW v, NEW p, NEW X, InStep(v, p, X), NEW w, IsConverter(w),
         w.items = v.items, w.next = v.next, w.output = v.output, w.out = v.out
  PROVE  InStep(w, p, X)
<1>1. Typed(w)
  BY DEF InStep, Typed
<1>2. Minor(v, w, p)
  BY DEF Minor, Told
<1>3. Numbered(w, p) /\ Listed(w, p)
  BY <1>2, MinorNumbers, MinorList DEF InStep
<1>4. Streaming(w, p, X)
  BY DEF InStep, Streaming, Added
<1> QED
  BY <1>1, <1>3, <1>4 DEF InStep

\* An event that is of no item.
LEMMA EmitInStep ==
  ASSUME NEW v, NEW p, NEW X, InStep(v, p, X), NEW e, e.type \notin {"added", "done", "delta"}
  PROVE  InStep(Emit(v, e), p, X)
<1> DEFINE w == Emit(v, e)
<1>0. IsConverter(v)
  BY DEF InStep, Typed
<1>1. /\ w.items = v.items /\ w.next = v.next /\ w.output = v.output
      /\ \A k \in DOMAIN v.out : w.out[k] = v.out[k] /\ SubSeq(w.out, 1, k - 1) = SubSeq(v.out, 1, k - 1)
  BY <1>0, EmitRest
<1>8. \A s : TextOf(w.out, s) = TextOf(v.out, s)
  <2>1. e.type # "delta"
    OBVIOUS
  <2> QED
    BY <1>0, <2>1, EmitText
<1>2. Told(w, "added") = Told(v, "added") /\ Told(w, "done") = Told(v, "done") /\ IsConverter(w)
  BY <1>0, EmitTold, EmitTells
<1> HIDE DEF w
<1>3. Typed(w)
  BY <1>1, <1>2 DEF InStep, Typed
<1>4. Minor(v, w, p)
  BY <1>1, <1>2 DEF Minor
<1>5. Numbered(w, p) /\ Listed(w, p)
  BY <1>4, MinorNumbers, MinorList DEF InStep
<1>6. Streaming(w, p, X)
  BY <1>1, <1>8 DEF InStep, Streaming, Added
<1>7. InStep(w, p, X)
  BY <1>3, <1>5, <1>6 DEF InStep
<1> QED
  BY <1>7 DEF w

\* A delta brings its text to its slot.
LEMMA DeltaInStep ==
  ASSUME NEW v, NEW p, NEW s \in DOMAIN v.items, InStep(v, p, {s}), NEW d
  PROVE  /\ InStep(Delta(v, s, d), p, {s}) /\ Delta(v, s, d).items = v.items
         /\ TextOf(Delta(v, s, d).out, s) = TextOf(v.out, s) \o d
<1> DEFINE e == [type |-> "delta", slot |-> s, text |-> d]
           w == Emit(v, e)
<1>0. IsConverter(v) /\ w = Delta(v, s, d) /\ e.type = "delta" /\ e.slot = s /\ e.text = d
  BY DEF InStep, Typed, Delta
<1> HIDE DEF e
<1>1. /\ w.items = v.items /\ w.next = v.next /\ w.output = v.output
      /\ \A k \in DOMAIN v.out : w.out[k] = v.out[k] /\ SubSeq(w.out, 1, k - 1) = SubSeq(v.out, 1, k - 1)
  BY <1>0, EmitRest
<1>8. \A t : t \notin {s} => TextOf(w.out, t) = TextOf(v.out, t)
  <2> SUFFICES ASSUME NEW t, t \notin {s}
               PROVE  TextOf(w.out, t) = TextOf(v.out, t)
    OBVIOUS
  <2>1. e.slot # t
    BY <1>0
  <2>2. e.type # "delta" \/ e.slot # t
    BY <2>1
  <2>3. IsConverter(v)
    BY <1>0
  <2>4. e.type # "delta" \/ e.slot # t => TextOf(Emit(v, e).out, t) = TextOf(v.out, t)
    BY <2>3, EmitText
  <2> QED
    BY <2>2, <2>4
<1>9. TextOf(w.out, s) = TextOf(v.out, s) \o d
  <2>1. TextOf(w.out, s) = TextOf(v.out, s) \o e.text
    <3>1. IsConverter(v) /\ e.type = "delta" /\ e.slot = s
      BY <1>0
    <3>2. TextOf(Emit(v, e).out, s) = TextOf(v.out, s) \o e.text
      BY <3>1, EmitText
    <3> QED
      BY <3>2
  <2> QED
    BY <1>0, <2>1
<1>2. Told(w, "added") = Told(v, "added") /\ Told(w, "done") = Told(v, "done") /\ IsConverter(w)
  <2>1. e.type # "added" /\ e.type # "done"
    BY <1>0
  <2> QED
    BY <1>0, <2>1, EmitTold, EmitTells
<1> HIDE DEF w
<1>3. Typed(w)
  BY <1>1, <1>2 DEF InStep, Typed
<1>4. Minor(v, w, p)
  BY <1>1, <1>2 DEF Minor
<1>5. Numbered(w, p) /\ Listed(w, p)
  BY <1>4, MinorNumbers, MinorList DEF InStep
<1>6. Streaming(w, p, {s})
  <2>1. Streaming(v, p, {s}) /\ {s} \subseteq DOMAIN w.items
    BY <1>1 DEF InStep
  <2> QED
    BY <1>1, <1>8, <2>1, StreamsOn
<1>7. InStep(w, p, {s})
  BY <1>3, <1>5, <1>6 DEF InStep
<1> QED
  BY <1>0, <1>1, <1>7, <1>9

\* An item is written, or a new one, before its stream.
Rewrites(v, w, p, s) ==
  /\ IsConverter(w) /\ w.next = v.next /\ w.output = v.output /\ w.out = v.out
  /\ DOMAIN w.items = DOMAIN v.items \union {s}
  /\ \A x \in DOMAIN v.items \ {s} : w.items[x] = v.items[x]
  /\ DOMAIN w.items[s] = {"index", "id", "name", "content", "done"}
  /\ s \in OwnSlots => w.items[s].name # "custom"
  /\ s \notin OwnSlots => s \in Range(Tools) /\ w.items[s].content \in Seq(STRING)
  /\ s \in DOMAIN v.items => /\ w.items[s].index = v.items[s].index /\ w.items[s].done = v.items[s].done
                             /\ p /\ Added(v, s) => w.items[s].id = v.items[s].id
  /\ s \notin DOMAIN v.items => w.items[s].index = 0 /\ w.items[s].done = FALSE

\* All of it holds but for the stream of the item written.
LEMMA ItemInStep ==
  ASSUME NEW v, NEW p, NEW s, NEW X, InStep(v, p, X), X \subseteq {s}, NEW w, Rewrites(v, w, p, s)
  PROVE  InStep(w, p, {s})
<1>1. Typed(w)
  <2>1. OwnSlots \subseteq DOMAIN w.items
    BY DEF InStep, Typed, Rewrites
  <2>2. w.items[s].index \in Nat /\ w.items[s].done \in BOOLEAN
    <3>1. CASE s \in DOMAIN v.items
      <4>1. v.items[s].index \in Nat /\ v.items[s].done \in BOOLEAN
        BY <3>1 DEF InStep, Typed
      <4> QED
        BY <3>1, <4>1 DEF Rewrites
    <3>2. CASE s \notin DOMAIN v.items
      <4>1. w.items[s].index = 0 /\ w.items[s].done = FALSE
        BY <3>2 DEF Rewrites
      <4>2. w.items[s].index \in Nat
        BY <4>1
      <4>3. w.items[s].done \in BOOLEAN
        BY <4>1, Zenon
      <4> QED
        BY <4>2, <4>3
    <3> QED
      BY <3>1, <3>2
  <2>3. \A x \in DOMAIN w.items :
          /\ DOMAIN w.items[x] = {"index", "id", "name", "content", "done"}
          /\ w.items[x].index \in Nat /\ w.items[x].done \in BOOLEAN
          /\ x \in OwnSlots => w.items[x].name # "custom"
          /\ x \notin OwnSlots => x \in Range(Tools) /\ w.items[x].content \in Seq(STRING)
    <3> TAKE x \in DOMAIN w.items
    <3>1. CASE x = s
      BY <2>2, <3>1 DEF Rewrites
    <3>2. CASE x # s
      <4>1. x \in DOMAIN v.items /\ w.items[x] = v.items[x]
        BY <3>2 DEF Rewrites
      <4> QED
        BY <4>1 DEF InStep, Typed
    <3> QED
      BY <3>1, <3>2
  <2> QED
    BY <2>1, <2>3 DEF Typed, Rewrites
<1>2. Minor(v, w, p)
  <2>1. Told(w, "added") = Told(v, "added") /\ Told(w, "done") = Told(v, "done")
    BY DEF Told, Rewrites
  <2>2. \A x \in DOMAIN v.items :
          /\ w.items[x].index = v.items[x].index /\ w.items[x].done = v.items[x].done
          /\ p /\ Added(v, x) => w.items[x].id = v.items[x].id
    BY DEF Rewrites
  <2> QED
    BY <2>1, <2>2 DEF Minor, Rewrites
<1>3. Numbered(w, p) /\ Listed(w, p)
  BY <1>2, MinorNumbers, MinorList DEF InStep
<1>4. Streaming(w, p, {s})
  <2>1. Streaming(v, p, X)
    BY DEF InStep
  <2>2. /\ {s} \subseteq DOMAIN w.items /\ DOMAIN v.items \subseteq DOMAIN w.items
        /\ \A x : x \notin {s} => TextOf(w.out, x) = TextOf(v.out, x)
        /\ \A x \in DOMAIN w.items \ {s} : x \in DOMAIN v.items /\ w.items[x] = v.items[x]
    BY DEF Rewrites
  <2> QED
    BY <2>1, <2>2, StreamsOn
<1> QED
  BY <1>1, <1>3, <1>4 DEF InStep

\* An item that was not added is not closed.
LEMMA OpenIsNotDone ==
  ASSUME NEW v, NEW p, Listed(v, p), NEW s \in DOMAIN v.items, ~Added(v, s)
  PROVE  ~v.items[s].done
<1> SUFFICES ASSUME v.items[s].done PROVE FALSE
  OBVIOUS
<1>1. PICK j \in DOMAIN v.output : v.output[j].slot = s
  BY DEF Listed
<1>2. Shut(v, p, v.output[j])
  BY DEF Listed
<1> QED
  BY <1>1, <1>2 DEF Shut, Added

\* What Open does when the item was not added.
Opening(v, w, s) ==
  /\ IsConverter(w) /\ w.next = v.next + 1 /\ w.output = v.output
  /\ DOMAIN w.items = DOMAIN v.items /\ \A x \in DOMAIN v.items \ {s} : w.items[x] = v.items[x]
  /\ DOMAIN w.items[s] = DOMAIN v.items[s] /\ w.items[s].index = v.next + 1
  /\ w.items[s].id = v.items[s].id /\ w.items[s].name = v.items[s].name
  /\ w.items[s].content = v.items[s].content /\ w.items[s].done = v.items[s].done
  /\ \A k \in DOMAIN v.out : w.out[k] = v.out[k] /\ SubSeq(w.out, 1, k - 1) = SubSeq(v.out, 1, k - 1)
  /\ Told(w, "done") = Told(v, "done")
  /\ Len(v.out) + 1 \notin Told(v, "added")
  /\ Told(w, "added") = Told(v, "added") \union {Len(v.out) + 1}
  /\ w.out[Len(v.out) + 1].slot = s /\ w.out[Len(v.out) + 1].id = v.items[s].id
  /\ w.out[Len(v.out) + 1].index = v.next + 1
  /\ \A x : TextOf(w.out, x) = TextOf(v.out, x)

\* Open does that or nothing.
LEMMA OpenIs ==
  ASSUME NEW v, Typed(v), NEW s \in DOMAIN v.items
  PROVE  \/ Open(v, s) = v /\ Added(v, s)
         \/ Opening(v, Open(v, s), s) /\ ~Added(v, s)
<1> DEFINE a == [v EXCEPT !.next = @ + 1, !.items[s].index = v.next + 1]
           e == [type |-> "added", slot |-> s, id |-> v.items[s].id, index |-> v.next + 1]
           w == Emit(a, e)
<1>0. IsConverter(v) /\ DOMAIN v.items[s] = {"index", "id", "name", "content", "done"}
  BY DEF Typed
<1>1. /\ DOMAIN a = DOMAIN v /\ a.next = v.next + 1 /\ a.output = v.output /\ a.out = v.out
      /\ a.items = [v.items EXCEPT ![s] = [v.items[s] EXCEPT !.index = v.next + 1]]
  BY <1>0 DEF IsConverter
<1>2. /\ DOMAIN a.items = DOMAIN v.items /\ \A x \in DOMAIN v.items \ {s} : a.items[x] = v.items[x]
      /\ DOMAIN a.items[s] = DOMAIN v.items[s] /\ a.items[s].index = v.next + 1
      /\ a.items[s].id = v.items[s].id /\ a.items[s].name = v.items[s].name
      /\ a.items[s].content = v.items[s].content /\ a.items[s].done = v.items[s].done
  BY <1>0, <1>1
<1>3. IsConverter(a)
  BY <1>0, <1>1 DEF IsConverter
<1>4. e.type = "added" /\ e.slot = s /\ e.id = v.items[s].id /\ e.index = v.next + 1
  OBVIOUS
<1>5. (Open(v, s) = v /\ Added(v, s)) \/ (Open(v, s) = w /\ ~Added(v, s))
  <2>1. CASE Added(v, s)
    BY <2>1 DEF Open
  <2>2. CASE ~Added(v, s)
    BY <2>2 DEF Open
  <2> QED
    BY <2>1, <2>2
<1> HIDE DEF a, e
<1>6. /\ w.items = a.items /\ w.next = a.next /\ w.output = a.output
      /\ \A k \in DOMAIN a.out : w.out[k] = a.out[k] /\ SubSeq(w.out, 1, k - 1) = SubSeq(a.out, 1, k - 1)
  BY <1>3, EmitRest
<1>7. /\ IsConverter(w) /\ w.out[Len(v.out) + 1] = e
      /\ Len(v.out) \in Nat /\ DOMAIN v.out = 1..Len(v.out)
  BY <1>1, <1>3, EmitTells
<1>8. Told(w, "added") = Told(v, "added") \union {Len(v.out) + 1} /\ Told(w, "done") = Told(v, "done")
  <2>1. Told(a, "added") = Told(v, "added") /\ Told(a, "done") = Told(v, "done")
    BY <1>1 DEF Told
  <2>2. e.type # "done"
    BY <1>4
  <2> QED
    BY <1>1, <1>3, <1>4, <2>1, <2>2, EmitTold
<1>9. Len(v.out) + 1 \notin Told(v, "added")
  BY <1>7 DEF Told
<1>10. \A x : TextOf(w.out, x) = TextOf(v.out, x)
  <2>1. e.type # "delta"
    BY <1>4
  <2> TAKE x
  <2>2. TextOf(w.out, x) = TextOf(a.out, x)
    BY <1>3, <2>1, EmitText
  <2> QED
    BY <1>1, <2>2
<1> HIDE DEF w
<1>11. Opening(v, w, s)
  BY <1>1, <1>2, <1>4, <1>6, <1>7, <1>8, <1>9, <1>10 DEF Opening
<1> QED
  BY <1>5, <1>11

\* An item is opened.
LEMMA OpenInStep ==
  ASSUME NEW v, NEW p, NEW s \in DOMAIN v.items, NEW X, InStep(v, p, X), X \subseteq {s}
  PROVE  /\ InStep(Open(v, s), p, X) /\ Added(Open(v, s), s)
         /\ DOMAIN Open(v, s).items = DOMAIN v.items
         /\ \A x \in DOMAIN v.items \ {s} : Open(v, s).items[x] = v.items[x]
         /\ Open(v, s).items[s].id = v.items[s].id /\ Open(v, s).items[s].name = v.items[s].name
         /\ Open(v, s).items[s].content = v.items[s].content
         /\ Open(v, s).items[s].done = v.items[s].done
         /\ TextOf(Open(v, s).out, s) = TextOf(v.out, s)
<1> DEFINE w == Open(v, s)
           m == Len(v.out) + 1
<1>0. Typed(v) /\ Numbered(v, p) /\ Listed(v, p) /\ Streaming(v, p, X)
  BY DEF InStep
<1>1. (w = v /\ Added(v, s)) \/ (Opening(v, w, s) /\ ~Added(v, s))
  BY <1>0, OpenIs
<1> HIDE DEF w
<1>2. CASE w = v /\ Added(v, s)
  BY <1>2 DEF w
<1>3. CASE Opening(v, w, s) /\ ~Added(v, s)
  <2>0. v.next \in Nat
    BY <1>0 DEF Numbered
  <2>1. Typed(w)
    <3>1. IsConverter(w) /\ OwnSlots \subseteq DOMAIN w.items
      BY <1>0, <1>3 DEF Typed, Opening
    <3>2. ASSUME NEW x \in DOMAIN w.items
          PROVE  /\ DOMAIN w.items[x] = {"index", "id", "name", "content", "done"}
                 /\ w.items[x].index \in Nat /\ w.items[x].done \in BOOLEAN
                 /\ x \in OwnSlots => w.items[x].name # "custom"
                 /\ x \notin OwnSlots => x \in Range(Tools) /\ w.items[x].content \in Seq(STRING)
      <4>1. CASE x = s
        <5>1. /\ DOMAIN w.items[x] = DOMAIN v.items[s] /\ w.items[x].index = v.next + 1
              /\ w.items[x].done = v.items[s].done /\ w.items[x].name = v.items[s].name
              /\ w.items[x].content = v.items[s].content
          BY <1>3, <4>1 DEF Opening
        <5> QED
          BY <1>0, <2>0, <4>1, <5>1 DEF Typed
      <4>2. CASE x # s
        <5>1. x \in DOMAIN v.items /\ w.items[x] = v.items[x]
          BY <1>3, <4>2 DEF Opening
        <5> QED
          BY <1>0, <5>1 DEF Typed
      <4> QED
        BY <4>1, <4>2
    <3> QED
      BY <3>1, <3>2 DEF Typed
  <2>2. Numbered(w, p)
    <3>1. w.next \in Nat /\ w.next = v.next + 1
      BY <1>3, <2>0 DEF Opening
    <3>2. /\ \A x \in DOMAIN v.items \ {s} : w.items[x] = v.items[x]
          /\ DOMAIN w.items = DOMAIN v.items /\ w.items[s].index = v.next + 1
      BY <1>3 DEF Opening
    <3>3. \A x \in DOMAIN v.items : v.items[x].index \in Nat /\ v.items[x].index <= v.next
      BY <1>0 DEF Typed, Numbered
    <3>4. \A x \in DOMAIN w.items : w.items[x].index <= w.next
      BY <2>0, <3>1, <3>2, <3>3
    <3>5. \A x, t \in DOMAIN w.items : Added(w, x) /\ w.items[x].index = w.items[t].index => x = t
      <4> TAKE x, t \in DOMAIN w.items
      <4> HAVE Added(w, x) /\ w.items[x].index = w.items[t].index
      <4>1. CASE x = s
        BY <2>0, <3>2, <3>3, <4>1
      <4>2. CASE t = s
        BY <2>0, <3>2, <3>3, <4>2
      <4>3. CASE x # s /\ t # s
        BY <1>0, <3>2, <4>3 DEF Numbered, Added
      <4> QED
        BY <4>1, <4>2, <4>3
    <3>6. \A n \in 1..w.next : \E x \in DOMAIN w.items : w.items[x].index = n
      <4> TAKE n \in 1..w.next
      <4>1. CASE n = v.next + 1
        BY <3>2, <4>1
      <4>2. CASE n # v.next + 1
        <5>1. n \in 1..v.next
          BY <2>0, <3>1, <4>2
        <5>2. PICK x \in DOMAIN v.items : v.items[x].index = n
          BY <1>0, <5>1 DEF Numbered
        <5>3. x # s
          BY <1>3, <5>1, <5>2 DEF Added
        <5> QED
          BY <3>2, <5>2, <5>3
      <4> QED
        BY <4>1, <4>2
    <3>7. ASSUME NEW x \in DOMAIN w.items, Added(w, x)
          PROVE  \E i \in Told(w, "added") : AddedBy(w, p, x, i)
      <4>1. CASE x = s
        <5>1. m \in Told(w, "added") /\ w.out[m].slot = s /\ w.out[m].id = w.items[s].id /\ w.out[m].index = w.items[s].index
          BY <1>3 DEF Opening
        <5> QED
          BY <4>1, <5>1 DEF AddedBy
      <4>2. CASE x # s
        <5>1. x \in DOMAIN v.items /\ w.items[x] = v.items[x] /\ Added(v, x)
          BY <3>2, <3>7, <4>2 DEF Added
        <5>2. PICK i \in Told(v, "added") : AddedBy(v, p, x, i)
          BY <1>0, <5>1 DEF Numbered
        <5>3. i \in Told(w, "added") /\ w.out[i] = v.out[i]
          BY <1>3 DEF Opening, Told
        <5> QED
          BY <5>1, <5>2, <5>3 DEF AddedBy
      <4> QED
        BY <4>1, <4>2
    <3>8. IsFiniteSet(Told(w, "added")) /\ Cardinality(Told(w, "added")) = w.next
      <4>1. Told(w, "added") = Told(v, "added") \union {m} /\ m \notin Told(v, "added")
        BY <1>3 DEF Opening
      <4>2. IsFiniteSet(Told(v, "added")) /\ Cardinality(Told(v, "added")) = v.next
        BY <1>0 DEF Numbered
      <4> QED
        BY <3>1, <4>1, <4>2, FS_AddElement
    <3> QED
      BY <3>1, <3>4, <3>5, <3>6, <3>7, <3>8 DEF Numbered
  <2>3. Listed(w, p)
    <3>1. w.output = v.output
      BY <1>3 DEF Opening
    <3>2. ASSUME NEW j \in DOMAIN v.output
          PROVE  Shut(w, p, v.output[j])
      <4> DEFINE o == v.output[j]
      <4>1. Shut(v, p, o)
        BY <1>0 DEF Listed
      <4> HIDE DEF o
      <4>2. o.slot \in DOMAIN v.items /\ o.slot # s
        BY <1>3, <4>1 DEF Shut, Added
      <4>3. o.slot \in DOMAIN w.items /\ w.items[o.slot] = v.items[o.slot]
        BY <1>3, <4>2 DEF Opening
      <4>4. PICK k \in Told(v, "done") : ClosedBy(v, p, o, k)
        BY <4>1 DEF Shut
      <4>5. k \in Told(w, "done") /\ w.out[k] = v.out[k] /\ SubSeq(w.out, 1, k - 1) = SubSeq(v.out, 1, k - 1)
        BY <1>3 DEF Opening, Told
      <4>6. ClosedBy(w, p, o, k)
        BY <4>4, <4>5 DEF ClosedBy
      <4>7. Shut(w, p, o)
        BY <4>1, <4>3, <4>5, <4>6 DEF Shut
      <4> QED
        BY <4>7 DEF o
    <3>3. \A x \in DOMAIN w.items : w.items[x].done => \E j \in DOMAIN v.output : v.output[j].slot = x
      <4> TAKE x \in DOMAIN w.items
      <4>1. x \in DOMAIN v.items /\ w.items[x].done = v.items[x].done
        <5>1. CASE x = s
          BY <1>3, <5>1 DEF Opening
        <5>2. CASE x # s
          BY <1>3, <5>2 DEF Opening
        <5> QED
          BY <5>1, <5>2
      <4> QED
        BY <1>0, <4>1 DEF Listed
    <3>4. /\ \E S : w.output \in Seq(S)
          /\ \A i, j \in DOMAIN w.output : w.output[i].slot = w.output[j].slot => i = j
      BY <1>0, <3>1 DEF Listed
    <3> QED
      BY <3>1, <3>2, <3>3, <3>4 DEF Listed
  <2>4. Streaming(w, p, X)
    <3>1. ASSUME p, NEW x \in DOMAIN w.items \ X, ~w.items[x].done
          PROVE  TextOf(w.out, x) = SoFar(w.items[x])
      <4>1. /\ x \in DOMAIN v.items /\ w.items[x].done = v.items[x].done
            /\ SoFar(w.items[x]) = SoFar(v.items[x])
        <5>1. CASE x = s
          BY <1>3, <5>1 DEF Opening, SoFar
        <5>2. CASE x # s
          BY <1>3, <5>2 DEF Opening, SoFar
        <5> QED
          BY <5>1, <5>2
      <4>2. TextOf(w.out, x) = TextOf(v.out, x)
        BY <1>3 DEF Opening
      <4> QED
        BY <1>0, <3>1, <4>1, <4>2 DEF Streaming
    <3>2. ASSUME p, NEW x, x \notin DOMAIN w.items
          PROVE  TextOf(w.out, x) = <<>>
      BY <1>0, <1>3, <3>2 DEF Streaming, Opening
    <3>3. ASSUME p, NEW x \in DOMAIN w.items \ (X \union OwnSlots)
          PROVE  Added(w, x)
      <4>1. CASE x = s
        BY <1>3, <2>0, <4>1 DEF Opening, Added
      <4>2. CASE x # s
        BY <1>0, <1>3, <3>3, <4>2 DEF Opening, Added, Streaming
      <4> QED
        BY <4>1, <4>2
    <3> QED
      BY <3>1, <3>2, <3>3 DEF Streaming
  <2>5. Added(w, s)
    BY <1>3, <2>0 DEF Opening, Added
  <2>6. InStep(w, p, X)
    BY <2>1, <2>2, <2>3, <2>4 DEF InStep
  <2>7. /\ DOMAIN w.items = DOMAIN v.items /\ \A x \in DOMAIN v.items \ {s} : w.items[x] = v.items[x]
        /\ w.items[s].id = v.items[s].id /\ w.items[s].name = v.items[s].name
        /\ w.items[s].content = v.items[s].content /\ w.items[s].done = v.items[s].done
        /\ TextOf(w.out, s) = TextOf(v.out, s)
    BY <1>3 DEF Opening
  <2> QED
    BY <2>5, <2>6, <2>7 DEF w
<1> QED
  BY <1>1, <1>2, <1>3

\* What Close does to an item that is open.
Closing(v, w, s) ==
  /\ IsConverter(w) /\ w.next = v.next
  /\ w.output = Append(v.output, [slot |-> s, index |-> v.items[s].index, id |-> v.items[s].id,
                                  content |-> v.items[s].content])
  /\ DOMAIN w.items = DOMAIN v.items /\ \A x \in DOMAIN v.items \ {s} : w.items[x] = v.items[x]
  /\ DOMAIN w.items[s] = DOMAIN v.items[s] /\ w.items[s].index = v.items[s].index
  /\ w.items[s].id = v.items[s].id /\ w.items[s].name = v.items[s].name
  /\ w.items[s].content = v.items[s].content /\ w.items[s].done = TRUE
  /\ \A k \in DOMAIN v.out : w.out[k] = v.out[k] /\ SubSeq(w.out, 1, k - 1) = SubSeq(v.out, 1, k - 1)
  /\ SubSeq(w.out, 1, Len(v.out)) = v.out
  /\ Len(v.out) \in Nat /\ w.out[Len(v.out) + 1].slot = s
  /\ Told(w, "done") = Told(v, "done") \union {Len(v.out) + 1}
  /\ Told(w, "added") = Told(v, "added")
  /\ \A x : TextOf(w.out, x) = TextOf(v.out, x)

\* Close does that or nothing.
LEMMA CloseIs ==
  ASSUME NEW v, Typed(v), NEW s \in DOMAIN v.items
  PROVE  \/ Close(v, s) = v /\ (~Added(v, s) \/ v.items[s].done)
         \/ Closing(v, Close(v, s), s) /\ Added(v, s) /\ ~v.items[s].done
<1> DEFINE i == v.items[s]
           item == [slot |-> s, index |-> i.index, id |-> i.id, content |-> i.content]
           a == [v EXCEPT !.items[s].done = TRUE, !.output = Append(@, item)]
           e == [type |-> "done", slot |-> s]
           w == Emit(a, e)
<1>0. IsConverter(v) /\ DOMAIN v.items[s] = {"index", "id", "name", "content", "done"}
  BY DEF Typed
<1>1. /\ DOMAIN a = DOMAIN v /\ a.next = v.next /\ a.output = Append(v.output, item) /\ a.out = v.out
      /\ a.items = [v.items EXCEPT ![s] = [v.items[s] EXCEPT !.done = TRUE]]
  BY <1>0 DEF IsConverter
<1>2. /\ DOMAIN a.items = DOMAIN v.items /\ \A x \in DOMAIN v.items \ {s} : a.items[x] = v.items[x]
      /\ DOMAIN a.items[s] = DOMAIN v.items[s] /\ a.items[s].index = v.items[s].index
      /\ a.items[s].id = v.items[s].id /\ a.items[s].name = v.items[s].name
      /\ a.items[s].content = v.items[s].content /\ a.items[s].done = TRUE
  BY <1>0, <1>1
<1>3. IsConverter(a)
  BY <1>0, <1>1 DEF IsConverter
<1>4. e.type = "done" /\ e.slot = s
  OBVIOUS
<1>5. \/ Close(v, s) = v /\ (~Added(v, s) \/ v.items[s].done)
      \/ Close(v, s) = w /\ Added(v, s) /\ ~v.items[s].done
  <2>1. CASE ~Added(v, s) \/ v.items[s].done
    BY <2>1 DEF Close
  <2>2. CASE ~(~Added(v, s) \/ v.items[s].done)
    BY <2>2 DEF Close
  <2> QED
    BY <2>1, <2>2
<1> HIDE DEF a, e
<1>6. /\ w.items = a.items /\ w.next = a.next /\ w.output = a.output
      /\ \A k \in DOMAIN a.out : w.out[k] = a.out[k] /\ SubSeq(w.out, 1, k - 1) = SubSeq(a.out, 1, k - 1)
      /\ SubSeq(w.out, 1, Len(a.out)) = a.out
  BY <1>3, EmitRest
<1>7. IsConverter(w) /\ w.out[Len(v.out) + 1] = e /\ Len(v.out) \in Nat
  BY <1>1, <1>3, EmitTells
<1>8. Told(w, "done") = Told(v, "done") \union {Len(v.out) + 1} /\ Told(w, "added") = Told(v, "added")
  <2>1. Told(a, "added") = Told(v, "added") /\ Told(a, "done") = Told(v, "done")
    BY <1>1 DEF Told
  <2>2. e.type # "added"
    BY <1>4
  <2>3. Told(w, "added") = Told(a, "added")
    BY <1>3, <2>2, EmitTold
  <2>4. Told(w, "done") = Told(a, "done") \union {Len(a.out) + 1}
    BY <1>3, <1>4, EmitTold
  <2> QED
    BY <1>1, <2>1, <2>3, <2>4
<1>10. \A x : TextOf(w.out, x) = TextOf(v.out, x)
  <2>1. e.type # "delta"
    BY <1>4
  <2> TAKE x
  <2>2. TextOf(w.out, x) = TextOf(a.out, x)
    BY <1>3, <2>1, EmitText
  <2> QED
    BY <1>1, <2>2
<1> HIDE DEF w
<1>11. Closing(v, w, s)
  BY <1>1, <1>2, <1>4, <1>6, <1>7, <1>8, <1>10 DEF Closing
<1> QED
  BY <1>5, <1>11

\* An item is closed, with all of its text streamed.
Whole(v, p, s) == p /\ Added(v, s) /\ ~v.items[s].done => TextOf(v.out, s) = v.items[s].content

\* All of it holds then, and the item is done if it was added.
LEMMA CloseInStep ==
  ASSUME NEW v, NEW p, NEW s \in DOMAIN v.items, NEW X, InStep(v, p, X), X \subseteq {s}, Whole(v, p, s)
  PROVE  /\ InStep(Close(v, s), p, X) /\ DOMAIN Close(v, s).items = DOMAIN v.items
         /\ \A x \in DOMAIN v.items \ {s} : Close(v, s).items[x] = v.items[x]
         /\ Close(v, s).items[s].index = v.items[s].index
         /\ Added(Close(v, s), s) => Close(v, s).items[s].done
<1> DEFINE w == Close(v, s)
           m == Len(v.out) + 1
           n == Len(v.output) + 1
           o == [slot |-> s, index |-> v.items[s].index, id |-> v.items[s].id, content |-> v.items[s].content]
<1>0. Typed(v) /\ Numbered(v, p) /\ Listed(v, p) /\ Streaming(v, p, X)
  BY DEF InStep
<1>1. \/ w = v /\ (~Added(v, s) \/ v.items[s].done)
      \/ Closing(v, w, s) /\ Added(v, s) /\ ~v.items[s].done
  BY <1>0, CloseIs
<1> HIDE DEF w
<1>2. CASE w = v /\ (~Added(v, s) \/ v.items[s].done)
  BY <1>2 DEF w
<1>3. CASE Closing(v, w, s) /\ Added(v, s) /\ ~v.items[s].done
  <2>1. Typed(w)
    <3>1. IsConverter(w) /\ OwnSlots \subseteq DOMAIN w.items
      BY <1>0, <1>3 DEF Typed, Closing
    <3>2. ASSUME NEW x \in DOMAIN w.items
          PROVE  /\ DOMAIN w.items[x] = {"index", "id", "name", "content", "done"}
                 /\ w.items[x].index \in Nat /\ w.items[x].done \in BOOLEAN
                 /\ x \in OwnSlots => w.items[x].name # "custom"
                 /\ x \notin OwnSlots => x \in Range(Tools) /\ w.items[x].content \in Seq(STRING)
      <4>1. CASE x = s
        <5>1. /\ DOMAIN w.items[x] = DOMAIN v.items[s] /\ w.items[x].index = v.items[s].index
              /\ w.items[x].done = TRUE /\ w.items[x].name = v.items[s].name
              /\ w.items[x].content = v.items[s].content
          BY <1>3, <4>1 DEF Closing
        <5>2. w.items[x].done \in BOOLEAN
          BY <5>1, Zenon
        <5> QED
          BY <1>0, <4>1, <5>1, <5>2 DEF Typed
      <4>2. CASE x # s
        <5>1. x \in DOMAIN v.items /\ w.items[x] = v.items[x]
          BY <1>3, <4>2 DEF Closing
        <5> QED
          BY <1>0, <5>1 DEF Typed
      <4> QED
        BY <4>1, <4>2
    <3> QED
      BY <3>1, <3>2 DEF Typed
  <2>0. \A x \in DOMAIN v.items : /\ x \in DOMAIN w.items /\ w.items[x].index = v.items[x].index
                                  /\ w.items[x].id = v.items[x].id
    <3> TAKE x \in DOMAIN v.items
    <3>1. CASE x = s
      BY <1>3, <3>1 DEF Closing
    <3>2. CASE x # s
      BY <1>3, <3>2 DEF Closing
    <3> QED
      BY <3>1, <3>2
  <2>2. Numbered(w, p)
    <3>1. w.next = v.next /\ DOMAIN w.items = DOMAIN v.items /\ Told(w, "added") = Told(v, "added")
      BY <1>3 DEF Closing
    <3>2. \A x, t \in DOMAIN w.items : Added(w, x) /\ w.items[x].index = w.items[t].index => x = t
      BY <1>0, <2>0, <3>1 DEF Numbered, Added
    <3>3. /\ \A x \in DOMAIN w.items : w.items[x].index <= w.next
          /\ \A k \in 1..w.next : \E x \in DOMAIN w.items : w.items[x].index = k
      BY <1>0, <2>0, <3>1 DEF Numbered
    <3>4. ASSUME NEW x \in DOMAIN w.items, Added(w, x)
          PROVE  \E k \in Told(w, "added") : AddedBy(w, p, x, k)
      <4>1. x \in DOMAIN v.items /\ Added(v, x) /\ w.items[x].index = v.items[x].index /\ w.items[x].id = v.items[x].id
        BY <2>0, <3>1, <3>4 DEF Added
      <4>2. PICK k \in Told(v, "added") : AddedBy(v, p, x, k)
        BY <1>0, <4>1 DEF Numbered
      <4>3. k \in Told(w, "added") /\ w.out[k] = v.out[k]
        BY <1>3, <3>1 DEF Closing, Told
      <4> QED
        BY <4>1, <4>2, <4>3 DEF AddedBy
    <3>5. /\ w.next \in Nat
          /\ IsFiniteSet(Told(w, "added")) /\ Cardinality(Told(w, "added")) = w.next
      BY <1>0, <3>1 DEF Numbered
    <3> QED
      BY <3>2, <3>3, <3>4, <3>5 DEF Numbered
  <2>3. Listed(w, p)
    <3>1. PICK S : v.output \in Seq(S)
      BY <1>0 DEF Listed
    <3>2. w.output = Append(v.output, o)
      BY <1>3 DEF Closing
    <3>3. /\ w.output \in Seq(S \union {o}) /\ Len(v.output) \in Nat
          /\ DOMAIN v.output = 1..Len(v.output) /\ DOMAIN w.output = DOMAIN v.output \union {n}
          /\ n \notin DOMAIN v.output
          /\ w.output[n] = o /\ \A j \in DOMAIN v.output : w.output[j] = v.output[j]
      <4> HIDE DEF o
      <4> QED
        BY <3>1, <3>2
    <3>4. o.slot = s /\ o.index = v.items[s].index /\ o.id = v.items[s].id /\ o.content = v.items[s].content
      OBVIOUS
    <3> HIDE DEF o, n
    <3>5. Shut(w, p, o)
      <4>1. m \in Told(w, "done") /\ w.out[m].slot = o.slot /\ SubSeq(w.out, 1, m - 1) = v.out
        BY <1>3, <3>4 DEF Closing
      <4>2. p => o.content = TextOf(SubSeq(w.out, 1, m - 1), o.slot)
        BY <1>3, <3>4, <4>1 DEF Whole
      <4>3. ClosedBy(w, p, o, m)
        BY <4>1, <4>2 DEF ClosedBy
      <4>4. o.slot \in DOMAIN w.items /\ o.index # 0 /\ o.index = w.items[o.slot].index /\ o.id = w.items[o.slot].id
        BY <1>3, <2>0, <3>4 DEF Added
      <4>5. w.items[o.slot].done
        BY <1>3, <3>4 DEF Closing
      <4> QED
        BY <4>1, <4>3, <4>4, <4>5 DEF Shut
    <3>6. ASSUME NEW j \in DOMAIN v.output
          PROVE  Shut(w, p, v.output[j]) /\ v.output[j].slot # s
      <4> DEFINE x == v.output[j]
      <4>1. Shut(v, p, x)
        BY <1>0 DEF Listed
      <4> HIDE DEF x
      <4>2. x.slot \in DOMAIN v.items /\ x.slot # s
        BY <1>3, <4>1 DEF Shut
      <4>3. x.slot \in DOMAIN w.items /\ w.items[x.slot] = v.items[x.slot]
        BY <1>3, <4>2 DEF Closing
      <4>4. PICK k \in Told(v, "done") : ClosedBy(v, p, x, k)
        BY <4>1 DEF Shut
      <4>5. k \in Told(w, "done") /\ w.out[k] = v.out[k] /\ SubSeq(w.out, 1, k - 1) = SubSeq(v.out, 1, k - 1)
        BY <1>3 DEF Closing, Told
      <4>6. ClosedBy(w, p, x, k)
        BY <4>4, <4>5 DEF ClosedBy
      <4>7. Shut(w, p, x)
        BY <4>1, <4>3, <4>5, <4>6 DEF Shut
      <4> QED
        BY <4>2, <4>7 DEF x
    <3>7. \A j \in DOMAIN w.output : Shut(w, p, w.output[j])
      BY <3>3, <3>5, <3>6
    <3>8. ASSUME NEW x \in DOMAIN w.items, w.items[x].done
          PROVE  \E j \in DOMAIN w.output : w.output[j].slot = x
      <4>1. CASE x = s
        BY <3>3, <3>4, <4>1
      <4>2. CASE x # s
        <5>1. x \in DOMAIN v.items /\ v.items[x].done
          BY <1>3, <3>8, <4>2 DEF Closing
        <5>2. PICK j \in DOMAIN v.output : v.output[j].slot = x
          BY <1>0, <5>1 DEF Listed
        <5> QED
          BY <3>3, <5>2
      <4> QED
        BY <4>1, <4>2
    <3>9. \A i, j \in DOMAIN w.output : w.output[i].slot = w.output[j].slot => i = j
      <4> TAKE i, j \in DOMAIN w.output
      <4> HAVE w.output[i].slot = w.output[j].slot
      <4>1. CASE i = n
        BY <3>3, <3>4, <3>6, <4>1
      <4>2. CASE j = n
        BY <3>3, <3>4, <3>6, <4>2
      <4>3. CASE i # n /\ j # n
        BY <1>0, <3>3, <4>3 DEF Listed
      <4> QED
        BY <4>1, <4>2, <4>3
    <3> QED
      BY <3>3, <3>7, <3>8, <3>9 DEF Listed
  <2>4. Streaming(w, p, X)
    <3>1. ASSUME p, NEW x \in DOMAIN w.items \ X, ~w.items[x].done
          PROVE  TextOf(w.out, x) = SoFar(w.items[x])
      <4>1. x \in DOMAIN v.items /\ w.items[x] = v.items[x] /\ TextOf(w.out, x) = TextOf(v.out, x)
        BY <1>3, <3>1 DEF Closing
      <4> QED
        BY <1>0, <3>1, <4>1 DEF Streaming
    <3>2. ASSUME p, NEW x, x \notin DOMAIN w.items
          PROVE  TextOf(w.out, x) = <<>>
      BY <1>0, <1>3, <3>2 DEF Streaming, Closing
    <3>3. ASSUME p, NEW x \in DOMAIN w.items \ (X \union OwnSlots)
          PROVE  Added(w, x)
      <4>1. x \in DOMAIN v.items \ (X \union OwnSlots) /\ w.items[x].index = v.items[x].index
        BY <1>3, <2>0, <3>3 DEF Closing
      <4> QED
        BY <1>0, <3>3, <4>1 DEF Streaming, Added
    <3> QED
      BY <3>1, <3>2, <3>3 DEF Streaming
  <2>5. InStep(w, p, X)
    BY <2>1, <2>2, <2>3, <2>4 DEF InStep
  <2>6. /\ DOMAIN w.items = DOMAIN v.items /\ \A x \in DOMAIN v.items \ {s} : w.items[x] = v.items[x]
        /\ w.items[s].index = v.items[s].index /\ w.items[s].done
    BY <1>3 DEF Closing
  <2> QED
    BY <2>5, <2>6 DEF w
<1> QED
  BY <1>1, <1>2, <1>3

(* The methods for reasoning and text. *)

\* Between the methods: all streams are written, and D are the slots that have an item.
Holds(v, p, D) == InStep(v, p, {}) /\ DOMAIN v.items = D

\* A converter is one, and has the items of reasoning and text.
LEMMA HoldsFacts ==
  ASSUME NEW v, NEW p, NEW D, Holds(v, p, D)
  PROVE  /\ IsConverter(v) /\ OwnSlots \subseteq D /\ InStep(v, p, {})
         /\ \A s \in D : InStep(v, p, {s}) /\ s \in DOMAIN v.items
<1>1. IsConverter(v) /\ OwnSlots \subseteq D /\ InStep(v, p, {}) /\ DOMAIN v.items = D
  BY DEF Holds, InStep, Typed
<1>2. \A s : Streaming(v, p, {s})
  BY <1>1 DEF InStep, Streaming
<1>3. \A s \in D : InStep(v, p, {s})
  BY <1>1, <1>2 DEF InStep
<1> QED
  BY <1>1, <1>3

\* An assignment to another field keeps it.
LEMMA HoldsSame ==
  ASSUME NEW v, NEW p, NEW D, Holds(v, p, D), NEW w, IsConverter(w),
         w.items = v.items, w.next = v.next, w.output = v.output, w.out = v.out
  PROVE  Holds(w, p, D)
  BY SameInStep DEF Holds

\* An assignment to an item of a converter.
LEMMA ItemSet ==
  ASSUME NEW v, IsConverter(v), NEW s \in DOMAIN v.items, NEW i, NEW w, w = [v EXCEPT !.items[s] = i]
  PROVE  /\ IsConverter(w) /\ w.next = v.next /\ w.output = v.output /\ w.out = v.out
         /\ DOMAIN w.items = DOMAIN v.items /\ w.items[s] = i
         /\ \A x \in DOMAIN v.items \ {s} : w.items[x] = v.items[x]
<1>1. /\ DOMAIN w = DOMAIN v /\ w.next = v.next /\ w.output = v.output /\ w.out = v.out
      /\ w.items = [v.items EXCEPT ![s] = i]
  BY DEF IsConverter
<1> QED
  BY <1>1 DEF IsConverter

\* Text of an item that is not a call is told as it comes.
LEMMA PushHolds ==
  ASSUME NEW v, NEW p, NEW D, Holds(v, p, D), NEW s \in OwnSlots, NEW d
  PROVE  Holds(Push(v, s, d), p, D)
<1> DEFINE o == Open(v, s)
           i == [o.items[s] EXCEPT !.content = @ \o d]
           a == [o EXCEPT !.items[s] = i]
           w == Delta(a, s, d)
<1>1. s \in D /\ s \in DOMAIN v.items /\ InStep(v, p, {}) /\ DOMAIN v.items = D /\ IsConverter(v)
  BY HoldsFacts DEF Holds
<1>2. InStep(o, p, {}) /\ Added(o, s) /\ DOMAIN o.items = D
  BY <1>1, OpenInStep
<1>3. Push(v, s, d) = w
  BY DEF Push
<1> HIDE DEF o
<1>4. /\ IsConverter(o) /\ s \in DOMAIN o.items /\ o.items[s].name # "custom"
      /\ DOMAIN o.items[s] = {"index", "id", "name", "content", "done"}
  BY <1>1, <1>2 DEF InStep, Typed
<1>5. /\ DOMAIN i = {"index", "id", "name", "content", "done"} /\ i.name = o.items[s].name
      /\ i.index = o.items[s].index /\ i.done = o.items[s].done /\ i.id = o.items[s].id
      /\ i.content = o.items[s].content \o d
  BY <1>4
<1> HIDE DEF i
<1>6. /\ IsConverter(a) /\ a.next = o.next /\ a.output = o.output /\ a.out = o.out
      /\ DOMAIN a.items = DOMAIN o.items /\ a.items[s] = i
      /\ \A x \in DOMAIN o.items \ {s} : a.items[x] = o.items[x]
  BY <1>4, ItemSet
<1> HIDE DEF a
<1>7. InStep(a, p, {s})
  <2>1. DOMAIN a.items = DOMAIN o.items \union {s} /\ {} \subseteq {s}
    BY <1>4, <1>6
  <2>2. /\ DOMAIN a.items[s] = {"index", "id", "name", "content", "done"}
        /\ a.items[s].name # "custom" /\ a.items[s].index = o.items[s].index
        /\ a.items[s].done = o.items[s].done /\ a.items[s].id = o.items[s].id
    BY <1>4, <1>5, <1>6
  <2>3. /\ s \in OwnSlots => a.items[s].name # "custom"
        /\ s \notin OwnSlots => s \in Range(Tools) /\ a.items[s].content \in Seq(STRING)
        /\ s \in DOMAIN o.items => /\ a.items[s].index = o.items[s].index /\ a.items[s].done = o.items[s].done
                                   /\ p /\ Added(o, s) => a.items[s].id = o.items[s].id
        /\ s \notin DOMAIN o.items => a.items[s].index = 0 /\ a.items[s].done = FALSE
    BY <1>4, <2>2
  <2>4. Rewrites(o, a, p, s)
    BY <1>6, <2>1, <2>2, <2>3 DEF Rewrites
  <2> QED
    BY <1>2, <2>1, <2>4, ItemInStep
<1>8. /\ InStep(w, p, {s}) /\ w.items = a.items /\ TextOf(w.out, s) = TextOf(a.out, s) \o d
  <2>1. s \in DOMAIN a.items
    BY <1>4, <1>6
  <2> QED
    BY <1>7, <2>1, DeltaInStep
<1> HIDE DEF w
<1>9. p /\ ~w.items[s].done => TextOf(w.out, s) = SoFar(w.items[s])
  <2> SUFFICES ASSUME p, ~w.items[s].done
               PROVE  TextOf(w.out, s) = SoFar(w.items[s])
    OBVIOUS
  <2>1. ~o.items[s].done
    BY <1>5, <1>6, <1>8
  <2>2. TextOf(o.out, s) = SoFar(o.items[s])
    BY <1>2, <1>4, <2>1 DEF InStep, Streaming
  <2>3. SoFar(o.items[s]) = o.items[s].content /\ SoFar(w.items[s]) = i.content
    BY <1>4, <1>5, <1>6, <1>8 DEF SoFar
  <2> QED
    BY <1>5, <1>6, <1>8, <2>2, <2>3
<1>10. Streaming(w, p, {})
  <2>1. Streaming(w, p, {s})
    BY <1>8 DEF InStep
  <2> QED
    BY <1>9, <2>1, Written
<1>11. Holds(w, p, D)
  BY <1>2, <1>6, <1>8, <1>10 DEF InStep, Holds
<1> QED
  BY <1>3, <1>11

\* The items of a set of slots that were added are closed.
AllShut(v, Z) == \A s \in DOMAIN v.items : s \in Z /\ Added(v, s) => v.items[s].done

\* Such an item is closed at any time.
LEMMA CloseHolds ==
  ASSUME NEW v, NEW p, NEW D, Holds(v, p, D), NEW s \in OwnSlots
  PROVE  /\ Holds(Close(v, s), p, D)
         /\ \A Z : AllShut(v, Z) => AllShut(Close(v, s), Z \union {s})
<1> DEFINE w == Close(v, s)
<1>1. s \in D /\ s \in DOMAIN v.items /\ InStep(v, p, {}) /\ DOMAIN v.items = D
  BY HoldsFacts DEF Holds
<1>2. Whole(v, p, s)
  <2>1. v.items[s].name # "custom"
    BY <1>1 DEF InStep, Typed
  <2>2. p /\ ~v.items[s].done => TextOf(v.out, s) = SoFar(v.items[s])
    BY <1>1 DEF InStep, Streaming
  <2> QED
    BY <2>1, <2>2 DEF SoFar, Whole
<1>3. /\ InStep(w, p, {}) /\ DOMAIN w.items = DOMAIN v.items
      /\ \A x \in DOMAIN v.items \ {s} : w.items[x] = v.items[x]
      /\ Added(w, s) => w.items[s].done
  <2>1. {} \subseteq {s} /\ s \in DOMAIN v.items /\ InStep(v, p, {})
    BY <1>1
  <2> QED
    BY <1>2, <2>1, CloseInStep
<1> HIDE DEF w
<1>4. Holds(w, p, D)
  BY <1>1, <1>3 DEF Holds
<1>5. ASSUME NEW Z, AllShut(v, Z)
      PROVE  AllShut(w, Z \union {s})
  <2>1. ASSUME NEW x \in DOMAIN w.items, x \in Z \union {s}, Added(w, x)
        PROVE  w.items[x].done
    <3>1. CASE x = s
      BY <1>3, <2>1, <3>1
    <3>2. CASE x # s
      BY <1>3, <1>5, <2>1, <3>2 DEF AllShut, Added
    <3> QED
      BY <3>1, <3>2
  <2> QED
    BY <2>1 DEF AllShut
<1> QED
  BY <1>4, <1>5 DEF w

\* Reasoning and text keep it.
LEMMA ReasoningHolds ==
  ASSUME NEW v, NEW p, NEW D, Holds(v, p, D)
  PROVE  Holds(CloseReasoning(v), p, D) /\ \A d : Holds(PushReasoning(v, d), p, D) /\ Holds(PushText(v, d), p, D)
  BY PushHolds, CloseHolds DEF CloseReasoning, PushReasoning, PushText, OwnSlots

\* A think block and what follows it.
LEMMA ThinkHolds ==
  ASSUME NEW v, NEW p, NEW D, Holds(v, p, D), NEW reasoning, NEW answer
  PROVE  Holds(PushThink(v, reasoning, answer), p, D)
<1> DEFINE r == IF reasoning = <<>> THEN v ELSE CloseReasoning(PushReasoning(v, reasoning))
<1>1. Holds(r, p, D)
  BY ReasoningHolds
<1>2. PushThink(v, reasoning, answer) \in {r, PushText(r, answer)}
  BY DEF PushThink
<1> HIDE DEF r
<1> QED
  BY <1>1, <1>2, ReasoningHolds

\* The end of a think block keeps it,
LEMMA InTextHolds ==
  ASSUME NEW v, NEW p, NEW D, Holds(v, p, D)
  PROVE  Holds(InText(v), p, D)
<1>1. IsConverter(v)
  BY HoldsFacts
<1>2. /\ IsConverter(InText(v)) /\ InText(v).items = v.items /\ InText(v).next = v.next
      /\ InText(v).output = v.output /\ InText(v).out = v.out
  BY <1>1 DEF InText, IsConverter
<1> QED
  BY <1>2, HoldsSame

\* and what was in it.
LEMMA DrainHolds ==
  ASSUME NEW v, NEW p, NEW D, Holds(v, p, D)
  PROVE  Holds(Drain(v), p, D)
  BY InTextHolds, ThinkHolds DEF Drain

\* Content, as it comes.
LEMMA ContentHolds ==
  ASSUME NEW v, NEW p, NEW D, Holds(v, p, D), NEW d
  PROVE  Holds(PushContent(v, d), p, D)
<1> DEFINE w == [v EXCEPT !.think = @ \o d]
           x == [w EXCEPT !.mode = "reasoning"]
<1>0. IsConverter(v)
  BY HoldsFacts
<1>1. /\ IsConverter(w) /\ w.items = v.items /\ w.next = v.next /\ w.output = v.output /\ w.out = v.out
  BY <1>0 DEF IsConverter
<1>2. Holds(w, p, D)
  BY <1>1, HoldsSame
<1>3. PushContent(v, d) \in {PushText(CloseReasoning(v), d), Drain(w), w, Drain(x),
                             PushText(CloseReasoning(InText(w)), w.think)}
  BY DEF PushContent
<1> HIDE DEF w
<1>4. /\ IsConverter(x) /\ x.items = w.items /\ x.next = w.next /\ x.output = w.output /\ x.out = w.out
  BY <1>1 DEF IsConverter
<1>5. Holds(x, p, D)
  BY <1>2, <1>4, HoldsSame
<1> HIDE DEF x
<1>6. Holds(PushText(CloseReasoning(v), d), p, D)
  BY ReasoningHolds
<1>7. Holds(PushText(CloseReasoning(InText(w)), w.think), p, D)
  BY <1>2, InTextHolds, ReasoningHolds
<1> QED
  BY <1>2, <1>3, <1>5, <1>6, <1>7, DrainHolds

\* What a half-seen think block was is decided.
LEMMA FlushHolds ==
  ASSUME NEW v, NEW p, NEW D, Holds(v, p, D)
  PROVE  Holds(FlushThink(v), p, D)
<1>1. FlushThink(v) \in {v, InText(v), PushText(CloseReasoning(InText(v)), v.think), Drain(v),
                         PushThink(InText(v), Trim(Body(v.think)), <<>>)}
  BY DEF FlushThink
<1>2. Holds(InText(v), p, D)
  BY InTextHolds
<1> QED
  BY <1>1, <1>2, ReasoningHolds, DrainHolds, ThinkHolds

\* The response is created.
LEMMA StartHolds ==
  ASSUME NEW v, NEW p, NEW D, Holds(v, p, D)
  PROVE  Holds(Start(v), p, D)
<1> DEFINE w == [v EXCEPT !.started = TRUE]
           e == [type |-> "created"]
<1>0. IsConverter(v)
  BY HoldsFacts
<1>1. /\ IsConverter(w) /\ w.items = v.items /\ w.next = v.next /\ w.output = v.output /\ w.out = v.out
  BY <1>0 DEF IsConverter
<1>2. Holds(w, p, D)
  BY <1>1, HoldsSame
<1>3. Start(v) \in {v, Emit(w, e)}
  BY DEF Start
<1>4. e.type \notin {"added", "done", "delta"}
  OBVIOUS
<1> HIDE DEF w, e
<1>5. InStep(Emit(w, e), p, {}) /\ Emit(w, e).items = w.items
  BY <1>1, <1>2, <1>4, EmitInStep, EmitRest DEF Holds
<1> QED
  BY <1>2, <1>3, <1>5 DEF Holds

(* The methods for tool calls. *)

\* The slot of a call is none of the others.
LEMMA ToolIsNotOwn ==
  ASSUME NEW t \in Range(Tools)
  PROVE  t \notin OwnSlots
  BY ToolsAssumption DEF OwnSlots

\* A call gets its names and is added.
LEMMA AnnounceInStep ==
  ASSUME NEW v, NEW p, NEW t \in DOMAIN v.items, InStep(v, p, {t}), t \notin OwnSlots, ~Added(v, t)
  PROVE  /\ InStep(Announce(v, t), p, {t}) /\ Added(Announce(v, t), t)
         /\ DOMAIN Announce(v, t).items = DOMAIN v.items
         /\ \A x \in DOMAIN v.items \ {t} : Announce(v, t).items[x] = v.items[x]
         /\ Announce(v, t).items[t].content = v.items[t].content
         /\ TextOf(Announce(v, t).out, t) = TextOf(v.out, t)
<1> DEFINE i == [v.items[t] EXCEPT !.id = OrElse(@, "generated"), !.name = OrElse(@, "unknown")]
           a == [v EXCEPT !.items[t].id = OrElse(@, "generated"), !.items[t].name = OrElse(@, "unknown")]
<1>0. IsConverter(v) /\ DOMAIN v.items[t] = {"index", "id", "name", "content", "done"}
  BY DEF InStep, Typed
<1>1. /\ DOMAIN i = {"index", "id", "name", "content", "done"} /\ i.index = v.items[t].index
      /\ i.done = v.items[t].done /\ i.content = v.items[t].content
  BY <1>0
<1>2. /\ DOMAIN a = DOMAIN v /\ a.next = v.next /\ a.output = v.output /\ a.out = v.out
      /\ DOMAIN a.items = DOMAIN v.items /\ a.items[t] = i
      /\ \A x \in DOMAIN v.items \ {t} : a.items[x] = v.items[x]
  BY <1>0 DEF IsConverter
<1>3. Announce(v, t) = Open(a, t)
  BY DEF Announce
<1> HIDE DEF a, i
<1>4. IsConverter(a)
  BY <1>0, <1>2 DEF IsConverter
<1>5. Rewrites(v, a, p, t)
  <2>1. t \in Range(Tools) /\ v.items[t].content \in Seq(STRING)
    BY DEF InStep, Typed
  <2> QED
    BY <1>1, <1>2, <1>4, <2>1 DEF Rewrites
<1>6. InStep(a, p, {t})
  <2>1. {t} \subseteq {t}
    OBVIOUS
  <2> QED
    BY <1>5, <2>1, ItemInStep
<1>7. t \in DOMAIN a.items /\ {t} \subseteq {t}
  BY <1>2
<1>8. /\ InStep(Open(a, t), p, {t}) /\ Added(Open(a, t), t)
      /\ DOMAIN Open(a, t).items = DOMAIN a.items
      /\ \A x \in DOMAIN a.items \ {t} : Open(a, t).items[x] = a.items[x]
      /\ Open(a, t).items[t].content = a.items[t].content
      /\ TextOf(Open(a, t).out, t) = TextOf(a.out, t)
  BY <1>6, <1>7, OpenInStep
<1> QED
  BY <1>1, <1>2, <1>3, <1>8

\* The stream of a call lacks the end of its arguments.
Lacks(v, p, t, d) == p /\ ~v.items[t].done =>
  \E pre \in Seq(STRING) : /\ v.items[t].content = pre \o d
                           /\ TextOf(v.out, t) = IF v.items[t].name = "custom" THEN <<>> ELSE pre

\* A delta brings it.
LEMMA ToolDeltaHolds ==
  ASSUME NEW v, NEW p, NEW t \in DOMAIN v.items, InStep(v, p, {t}), Added(v, t),
         NEW d \in Seq(STRING), Lacks(v, p, t, d)
  PROVE  Holds(ToolDelta(v, t, d), p, DOMAIN v.items)
<1> DEFINE w == ToolDelta(v, t, d)
<1>1. CASE d = <<>> \/ v.items[t].name = "custom"
  <2>1. w = v
    BY <1>1 DEF ToolDelta
  <2>2. p /\ ~v.items[t].done => TextOf(v.out, t) = SoFar(v.items[t])
    <3> SUFFICES ASSUME p, ~v.items[t].done
                 PROVE  TextOf(v.out, t) = SoFar(v.items[t])
      OBVIOUS
    <3>1. PICK pre \in Seq(STRING) : /\ v.items[t].content = pre \o d
                           /\ TextOf(v.out, t) = IF v.items[t].name = "custom" THEN <<>> ELSE pre
      BY DEF Lacks
    <3>2. pre \o <<>> = pre
      BY <3>1
    <3> QED
      BY <1>1, <3>1, <3>2 DEF SoFar
  <2>3. Streaming(v, p, {t})
    BY DEF InStep
  <2>4. Streaming(v, p, {})
    BY <2>2, <2>3, Written
  <2> HIDE DEF w
  <2> QED
    BY <2>1, <2>4 DEF Holds, InStep, w
<1>2. CASE ~(d = <<>> \/ v.items[t].name = "custom")
  <2>1. w = Delta(v, t, d)
    BY <1>2 DEF ToolDelta
  <2> HIDE DEF w
  <2>2. InStep(w, p, {t}) /\ w.items = v.items /\ TextOf(w.out, t) = TextOf(v.out, t) \o d
    BY <2>1, DeltaInStep
  <2>3. p /\ ~w.items[t].done => TextOf(w.out, t) = SoFar(w.items[t])
    <3> SUFFICES ASSUME p, ~v.items[t].done
                 PROVE  TextOf(w.out, t) = SoFar(v.items[t])
      BY <2>2
    <3>1. PICK pre \in Seq(STRING) : /\ v.items[t].content = pre \o d
                           /\ TextOf(v.out, t) = IF v.items[t].name = "custom" THEN <<>> ELSE pre
      BY DEF Lacks
    <3> QED
      BY <1>2, <2>2, <3>1 DEF SoFar
  <2>4. Streaming(w, p, {t}) /\ Added(w, t)
    BY <2>2 DEF InStep, Added
  <2>5. Streaming(w, p, {})
    BY <2>3, <2>4, Written
  <2> QED
    BY <2>2, <2>5 DEF Holds, InStep, w
<1> QED
  BY <1>1, <1>2

\* What a delta of a call is.
Call == [tool : Range(Tools), id : STRING, name : STRING, args : Seq(STRING)]

\* A delta of a call is taken; a proper upstream names the call with the first and only there.
LEMMA PushToolHolds ==
  ASSUME NEW v, NEW p, NEW D, Holds(v, p, D), NEW t \in Call, p => ProperDelta(t, D \ OwnSlots)
  PROVE  Holds(PushTool(v, t), p, D \union {t.tool})
<1> DEFINE s   == t.tool
           old == IF s \in DOMAIN v.items THEN v.items[s] ELSE Blank
           new == [old EXCEPT !.id = IF t.id = NoId THEN @ ELSE t.id,
                              !.name = OrElse(t.name, @),
                              !.content = @ \o t.args]
           w   == [v EXCEPT !.items = [z \in DOMAIN @ \union {s} |-> IF z = s THEN new ELSE @[z]]]
<1>1. /\ IsConverter(v) /\ InStep(v, p, {}) /\ DOMAIN v.items = D
      /\ Typed(v) /\ Streaming(v, p, {})
  BY HoldsFacts DEF Holds, InStep
<1>2. s \in Range(Tools) /\ s \notin OwnSlots /\ t.args \in Seq(STRING)
  BY ToolIsNotOwn DEF Call
<1>3. \/ PushTool(v, t) = ToolDelta(w, s, t.args) /\ new.index # 0
      \/ PushTool(v, t) = ToolDelta(Announce(w, s), s, new.content) /\ new.index = 0
      \/ PushTool(v, t) = w /\ new.index = 0 /\ new.id = "" /\ new.name = ""
  BY DEF PushTool
<1>4. /\ DOMAIN old = {"index", "id", "name", "content", "done"} /\ old.content \in Seq(STRING)
      /\ s \notin D => old.index = 0 /\ old.done = FALSE /\ old.content = <<>>
      /\ s \in D => old = v.items[s]
  <2>1. CASE s \in D
    BY <1>1, <1>2, <2>1 DEF Typed
  <2>2. CASE s \notin D
    <3>1. old = Blank
      BY <1>1, <2>2
    <3>2. <<>> \in Seq(STRING)
      OBVIOUS
    <3>3. DOMAIN Blank = {"index", "id", "name", "content", "done"}
      BY DEF Blank
    <3>4. Blank.index = 0 /\ Blank.content = <<>>
      BY DEF Blank
    <3>5. Blank.done = FALSE
      BY DEF Blank
    <3> QED
      BY <2>2, <3>1, <3>2, <3>3, <3>4, <3>5
  <2> QED
    BY <2>1, <2>2
<1> HIDE DEF old
<1>5. /\ DOMAIN new = {"index", "id", "name", "content", "done"} /\ new.index = old.index
      /\ new.done = old.done /\ new.content = old.content \o t.args
      /\ new.id = (IF t.id = NoId THEN old.id ELSE t.id) /\ new.name = OrElse(t.name, old.name)
  BY <1>4
<1>6. new.content \in Seq(STRING)
  BY <1>2, <1>4, <1>5
<1>7. /\ DOMAIN w = DOMAIN v /\ w.next = v.next /\ w.output = v.output /\ w.out = v.out
      /\ DOMAIN w.items = D \union {s} /\ w.items[s] = new
      /\ \A x \in D \ {s} : w.items[x] = v.items[x]
  <2> HIDE DEF new, s
  <2> QED
    BY <1>1 DEF IsConverter
<1> HIDE DEF w, new
<1>8. InStep(w, p, {s})
  <2>1. IsConverter(w)
    BY <1>1, <1>7 DEF IsConverter
  <2>2. s \in D => /\ new.index = v.items[s].index /\ new.done = v.items[s].done
                   /\ p => new.id = v.items[s].id
    BY <1>2, <1>4, <1>5 DEF ProperDelta
  <2>3. s \notin D => new.index = 0 /\ new.done = FALSE
    BY <1>4, <1>5
  <2> HIDE DEF s
  <2>4. Rewrites(v, w, p, s)
    BY <1>1, <1>2, <1>5, <1>6, <1>7, <2>1, <2>2, <2>3 DEF Rewrites
  <2>5. {} \subseteq {s}
    OBVIOUS
  <2> QED
    BY <1>1, <2>4, <2>5, ItemInStep
<1>9. p => IF s \in D THEN t.id = NoId /\ t.name = "" /\ new.index # 0
           ELSE t.id \notin {NoId, ""} /\ t.name # ""
  <2> SUFFICES ASSUME p
               PROVE  IF s \in D THEN t.id = NoId /\ t.name = "" /\ new.index # 0
                      ELSE t.id \notin {NoId, ""} /\ t.name # ""
    OBVIOUS
  <2>1. s \in D <=> s \in D \ OwnSlots
    BY <1>2
  <2>2. s \in D => new.index # 0
    <3> HAVE s \in D
    <3>1. Added(v, s)
      BY <1>1, <1>2 DEF Streaming
    <3> QED
      BY <1>4, <1>5, <3>1 DEF Added
  <2> QED
    BY <2>1, <2>2 DEF ProperDelta
<1>10. s \in DOMAIN w.items /\ DOMAIN w.items = D \union {s}
  BY <1>7
<1>11. p /\ s \notin D => TextOf(w.out, s) = <<>>
  BY <1>1, <1>7 DEF Streaming
<1>12. CASE PushTool(v, t) = ToolDelta(w, s, t.args) /\ new.index # 0
  <2>1. Added(w, s)
    BY <1>7, <1>12 DEF Added
  <2>2. ASSUME p, ~w.items[s].done
        PROVE  /\ old.content \in Seq(STRING) /\ w.items[s].content = old.content \o t.args
               /\ TextOf(w.out, s) = IF w.items[s].name = "custom" THEN <<>> ELSE old.content
    <3>1. s \in D
      BY <1>4, <1>5, <1>12
    <3>2. new.name = old.name
      BY <1>5, <1>9, <2>2, <3>1 DEF OrElse
    <3>3. TextOf(v.out, s) = SoFar(old)
      BY <1>1, <1>4, <1>5, <1>7, <2>2, <3>1 DEF Streaming
    <3> QED
      BY <1>4, <1>5, <1>7, <3>2, <3>3 DEF SoFar
  <2>3. Lacks(w, p, s, t.args)
    BY <2>2 DEF Lacks
  <2> HIDE DEF s
  <2>4. Holds(ToolDelta(w, s, t.args), p, DOMAIN w.items)
    BY <1>2, <1>8, <1>10, <2>1, <2>3, ToolDeltaHolds
  <2> QED
    BY <1>10, <1>12, <2>4 DEF s
<1>13. CASE PushTool(v, t) = ToolDelta(Announce(w, s), s, new.content) /\ new.index = 0
  <2> DEFINE x == Announce(w, s)
  <2>0. ~Added(w, s)
    BY <1>7, <1>13 DEF Added
  <2>1. /\ InStep(x, p, {s}) /\ Added(x, s) /\ DOMAIN x.items = DOMAIN w.items
        /\ x.items[s].content = new.content /\ TextOf(x.out, s) = TextOf(w.out, s)
    <3> HIDE DEF s
    <3> QED
      BY <1>2, <1>7, <1>8, <1>10, <2>0, AnnounceInStep
  <2> HIDE DEF x
  <2>2. ASSUME p
        PROVE  /\ <<>> \in Seq(STRING) /\ x.items[s].content = <<>> \o new.content
               /\ TextOf(x.out, s) = IF x.items[s].name = "custom" THEN <<>> ELSE <<>>
    <3>1. s \notin D
      BY <1>9, <1>13, <2>2
    <3>2. <<>> \o new.content = new.content /\ <<>> \in Seq(STRING)
      BY <1>6
    <3> QED
      BY <1>11, <2>1, <2>2, <3>1, <3>2
  <2>3. Lacks(x, p, s, new.content)
    BY <2>2 DEF Lacks
  <2> HIDE DEF s
  <2>4. Holds(ToolDelta(x, s, new.content), p, DOMAIN x.items)
    BY <1>6, <1>10, <2>1, <2>3, ToolDeltaHolds
  <2> QED
    BY <1>10, <1>13, <2>1, <2>4 DEF s, x
<1>14. CASE PushTool(v, t) = w /\ new.index = 0 /\ new.id = "" /\ new.name = ""
  <2>1. ~p
    <3> SUFFICES ASSUME p PROVE FALSE
      OBVIOUS
    <3>1. s \notin D
      BY <1>9, <1>14
    <3>2. t.name # ""
      BY <1>9, <3>1
    <3> QED
      BY <1>5, <1>14, <3>2 DEF OrElse
  <2>2. Holds(w, p, DOMAIN w.items)
    BY <1>8, <2>1 DEF InStep, Streaming, Holds
  <2> QED
    BY <1>10, <1>14, <2>2
<1> QED
  BY <1>3, <1>12, <1>13, <1>14

\* A call ends; the input of a custom tool is told then.
LEMMA CloseToolHolds ==
  ASSUME NEW v, NEW p, NEW D, Holds(v, p, D), NEW t \in Range(Tools)
  PROVE  /\ Holds(CloseTool(v, t), p, D)
         /\ \A Z : AllShut(v, Z) => AllShut(CloseTool(v, t), Z \union {t})
<1> DEFINE w == IF Added(v, t) THEN v ELSE Announce(v, t)
           x == IF w.items[t].name = "custom" THEN Delta(w, t, w.items[t].content) ELSE w
           y == Close(x, t)
<1>0. t \notin OwnSlots
  BY ToolIsNotOwn
<1>1. CASE t \notin DOMAIN v.items \/ v.items[t].done
  <2>1. CloseTool(v, t) = v
    BY <1>1 DEF CloseTool
  <2>2. \A Z : AllShut(v, Z) => AllShut(v, Z \union {t})
    BY <1>1 DEF AllShut
  <2> QED
    BY <2>1, <2>2
<1>2. CASE ~(t \notin DOMAIN v.items \/ v.items[t].done)
  <2>0. /\ t \in D /\ t \in DOMAIN v.items /\ ~v.items[t].done /\ DOMAIN v.items = D
        /\ InStep(v, p, {t}) /\ InStep(v, p, {})
    BY <1>2, HoldsFacts DEF Holds
  <2>1. CloseTool(v, t) = y
    BY <1>2 DEF CloseTool
  <2>2. p => w = v
    <3> HAVE p
    <3>1. Added(v, t)
      BY <1>0, <2>0 DEF InStep, Streaming
    <3> QED
      BY <3>1
  <2>3. /\ InStep(w, p, {t}) /\ DOMAIN w.items = D /\ Added(w, t)
        /\ \A z \in D \ {t} : w.items[z] = v.items[z]
    <3>1. CASE Added(v, t)
      BY <2>0, <3>1
    <3>2. CASE ~Added(v, t)
      <4>1. w = Announce(v, t)
        BY <3>2
      <4> HIDE DEF w
      <4> QED
        BY <1>0, <2>0, <3>2, <4>1, AnnounceInStep
    <3> QED
      BY <3>1, <3>2
  <2>4. p => TextOf(w.out, t) = SoFar(w.items[t])
    BY <2>0, <2>2 DEF InStep, Streaming
  <2> HIDE DEF w
  <2>5. w.items[t].content \in Seq(STRING) /\ t \in DOMAIN w.items
    BY <1>0, <2>0, <2>3 DEF InStep, Typed
  <2>6. InStep(x, p, {t}) /\ x.items = w.items /\ (p => TextOf(x.out, t) = w.items[t].content)
    <3>1. CASE w.items[t].name = "custom"
      <4>1. x = Delta(w, t, w.items[t].content)
        BY <3>1
      <4> HIDE DEF x
      <4>2. /\ InStep(x, p, {t}) /\ x.items = w.items
            /\ TextOf(x.out, t) = TextOf(w.out, t) \o w.items[t].content
        <5> DEFINE d == w.items[t].content
        <5> HIDE DEF d
        <5>1. /\ InStep(Delta(w, t, d), p, {t}) /\ Delta(w, t, d).items = w.items
              /\ TextOf(Delta(w, t, d).out, t) = TextOf(w.out, t) \o d
          BY <2>3, <2>5, DeltaInStep
        <5> QED
          BY <4>1, <5>1 DEF d
      <4>3. <<>> \o w.items[t].content = w.items[t].content
        BY <2>5
      <4> QED
        BY <2>4, <3>1, <4>2, <4>3 DEF SoFar
    <3>2. CASE w.items[t].name # "custom"
      BY <2>3, <2>4, <3>2 DEF SoFar
    <3> QED
      BY <3>1, <3>2
  <2> HIDE DEF x
  <2>7. Whole(x, p, t) /\ t \in DOMAIN x.items /\ {t} \subseteq {t}
    BY <2>5, <2>6 DEF Whole
  <2>8. /\ InStep(y, p, {t}) /\ DOMAIN y.items = DOMAIN x.items
        /\ \A z \in DOMAIN x.items \ {t} : y.items[z] = x.items[z]
        /\ y.items[t].index = x.items[t].index
        /\ Added(y, t) => y.items[t].done
    BY <2>6, <2>7, CloseInStep
  <2> HIDE DEF y
  <2>9. Added(y, t) /\ y.items[t].done /\ DOMAIN y.items = D
    BY <2>3, <2>6, <2>8 DEF Added
  <2>10. Streaming(y, p, {})
    <3>1. Streaming(y, p, {t})
      BY <2>8 DEF InStep
    <3> QED
      BY <2>9, <3>1, Written
  <2>11. Holds(y, p, D)
    BY <2>8, <2>9, <2>10 DEF Holds, InStep
  <2>12. ASSUME NEW Z, AllShut(v, Z)
         PROVE  AllShut(y, Z \union {t})
    <3>1. ASSUME NEW z \in DOMAIN y.items, z \in Z \union {t}, Added(y, z)
          PROVE  y.items[z].done
      <4>1. CASE z = t
        BY <2>9, <4>1
      <4>2. CASE z # t
        <5>1. z \in D \ {t} /\ z \in Z /\ y.items[z] = v.items[z]
          BY <2>3, <2>6, <2>8, <2>9, <3>1, <4>2
        <5> QED
          BY <2>0, <2>12, <3>1, <5>1 DEF AllShut, Added
      <4> QED
        BY <4>1, <4>2
    <3> QED
      BY <3>1 DEF AllShut
  <2> QED
    BY <2>1, <2>11, <2>12 DEF y
<1> QED
  BY <1>1, <1>2

(* A chunk. *)

\* A new converter has no items but the two that are not calls.
LEMMA NewHolds ==
  ASSUME NEW p
  PROVE  Holds(New, p, OwnSlots)
<1>1. /\ New.next = 0 /\ New.output = <<>> /\ New.out = <<>>
      /\ New.items = [s \in OwnSlots |-> Blank]
  BY DEF New, OwnSlots
<1>2. IsConverter(New) /\ Told(New, "added") = {} /\ Told(New, "done") = {}
  BY <1>1, NewVerdict DEF Verdict, Told
<1>3. DOMAIN New.items = OwnSlots /\ \A s \in OwnSlots : New.items[s] = Blank
  BY <1>1
<1>4. DOMAIN Blank = {"index", "id", "name", "content", "done"}
  BY DEF Blank
<1>5. Blank.index = 0 /\ Blank.content = <<>> /\ Blank.name # "custom"
  BY DEF Blank
<1>6. Blank.done = FALSE
  BY DEF Blank
<1>7. Blank.done \in BOOLEAN /\ ~Blank.done
  BY <1>6, Zenon
<1>8. Typed(New)
  BY <1>2, <1>3, <1>4, <1>5, <1>7 DEF Typed
<1>9. Numbered(New, p)
  <2>1. New.next \in Nat /\ 1..New.next = {}
    BY <1>1
  <2>2. \A s \in DOMAIN New.items : New.items[s].index = 0 /\ ~Added(New, s)
    BY <1>3, <1>5 DEF Added
  <2>3. \A s \in DOMAIN New.items : New.items[s].index <= New.next
    BY <1>1, <2>2
  <2>4. IsFiniteSet(Told(New, "added")) /\ Cardinality(Told(New, "added")) = New.next
    BY <1>1, <1>2, FS_EmptySet
  <2> QED
    BY <2>1, <2>2, <2>3, <2>4 DEF Numbered
<1>10. Listed(New, p)
  <2>1. <<>> \in Seq({}) /\ DOMAIN <<>> = {}
    OBVIOUS
  <2> QED
    BY <1>1, <1>3, <1>7, <2>1 DEF Listed
<1>11. Streaming(New, p, {})
  BY <1>1, <1>3, <1>5, TextEmpty DEF Streaming, SoFar
<1> QED
  BY <1>3, <1>8, <1>9, <1>10, <1>11 DEF Holds, InStep

\* The slots of the first calls of a chunk.
Called(k, n) == {k.tools[i].tool : i \in 1..n}

\* A chunk of a proper upstream goes on naming each call once.
Proper(k, known) == \A i \in DOMAIN k.tools : ProperDelta(k.tools[i], known \union Called(k, i - 1))

\* Such a chunk keeps it and adds the slots of its calls.
LEMMA ChunkHolds ==
  ASSUME NEW v, NEW p, NEW D, Holds(v, p, D), NEW k \in Chunks, p => Proper(k, D \ OwnSlots)
  PROVE  Holds(HandleChunk(v, k), p, D \union Called(k, Len(k.tools)))
<1> DEFINE a == Start(v)
           b == IF k.reasoning = <<>> THEN a ELSE PushReasoning(a, k.reasoning)
           d == IF k.content = <<>> THEN b ELSE PushContent(b, k.content)
           e == CloseReasoning(FlushThink(d))
           q == k.tools
<1>1. Holds(a, p, D)
  BY StartHolds
<1>2. (HandleChunk(v, k) = d /\ q = <<>>) \/ HandleChunk(v, k) = FoldLeft(PushTool, e, q)
  BY DEF HandleChunk
<1> HIDE DEF a
<1>3. Holds(b, p, D)
  BY <1>1, ReasoningHolds
<1> HIDE DEF b
<1>4. Holds(d, p, D)
  BY <1>3, ContentHolds
<1> HIDE DEF d
<1>5. Holds(e, p, D)
  BY <1>4, FlushHolds, ReasoningHolds
<1> HIDE DEF e
<1>6. q \in Seq(Call)
  BY ChunkAssumption DEF Call
<1>7. CASE HandleChunk(v, k) = d /\ q = <<>>
  <2>1. Called(k, Len(q)) = {}
    BY <1>7 DEF Called
  <2> QED
    BY <1>4, <1>7, <2>1
<1>8. CASE HandleChunk(v, k) = FoldLeft(PushTool, e, q)
  <2>1. PICK g : Iterates(g, "push", AnySlot, e, q, Len(q)) /\ FoldLeft(PushTool, e, q) = g[1..Len(q)]
    BY <1>6, Folds
  <2> HIDE DEF q
  <2>2. PICK f : /\ f[0] = e /\ f[Len(q)] = g[1..Len(q)]
                 /\ \A n \in 0..Len(q) - 1 : f[n + 1] = Folded("push", AnySlot, f[n], q[n + 1])
    <3>1. q \in Seq(Call) /\ Iterates(g, "push", AnySlot, e, q, Len(q))
      BY <1>6, <2>1
    <3> QED
      BY <3>1, FoldSteps
  <2>3. Len(q) \in Nat /\ DOMAIN q = 1..Len(q)
    BY <1>6
  <2> DEFINE Good == {n \in Nat : n <= Len(q) => Holds(f[n], p, D \union Called(k, n))}
  <2>4. 0 \in Good
    <3>1. Called(k, 0) = {}
      BY DEF Called
    <3> QED
      BY <1>5, <2>2, <3>1
  <2>5. ASSUME NEW n \in Nat, n \in Good
        PROVE  n + 1 \in Good
    <3> SUFFICES ASSUME n + 1 <= Len(q)
                 PROVE  Holds(f[n + 1], p, D \union Called(k, n + 1))
      OBVIOUS
    <3> DEFINE t == q[n + 1]
               C == Called(k, n)
    <3>1. n \in 0..Len(q) - 1 /\ n <= Len(q) /\ n + 1 \in DOMAIN q
      BY <2>3
    <3>2. Holds(f[n], p, D \union C)
      BY <2>5, <3>1
    <3>3. t \in Call
      BY <1>6, <3>1, ElementIn
    <3>4. f[n + 1] = PushTool(f[n], t)
      BY <2>2, <3>1 DEF Folded
    <3>5. Called(k, n + 1) = C \union {t.tool}
      BY <2>3 DEF Called, q
    <3>6. C \cap OwnSlots = {}
      <4>1. ASSUME NEW i \in 1..n
            PROVE  q[i].tool \notin OwnSlots
        <5>1. i \in DOMAIN q
          BY <2>3, <3>1
        <5>2. q[i] \in Call
          BY <1>6, <5>1, ElementIn
        <5>3. q[i].tool \in Range(Tools)
          BY <5>2 DEF Call
        <5> QED
          BY <5>3, ToolIsNotOwn
      <4> QED
        BY <4>1 DEF Called, q
    <3>7. p => ProperDelta(t, (D \union C) \ OwnSlots)
      <4>1. (D \union C) \ OwnSlots = (D \ OwnSlots) \union C
        BY <3>6
      <4>2. n + 1 - 1 = n
        OBVIOUS
      <4>3. p => ProperDelta(k.tools[n + 1], (D \ OwnSlots) \union Called(k, n + 1 - 1))
        <5> HAVE p
        <5>1. Proper(k, D \ OwnSlots)
          OBVIOUS
        <5>2. n + 1 \in DOMAIN k.tools
          BY <3>1 DEF q
        <5> DEFINE i == n + 1
        <5>3. i \in DOMAIN k.tools
          BY <5>2
        <5> HIDE DEF i
        <5>4. ProperDelta(k.tools[i], (D \ OwnSlots) \union Called(k, i - 1))
          BY <5>1, <5>3 DEF Proper
        <5> QED
          BY <5>4 DEF i
      <4> QED
        BY <4>1, <4>2, <4>3 DEF q
    <3> HIDE DEF t, C
    <3>8. Holds(PushTool(f[n], t), p, (D \union C) \union {t.tool})
      BY <3>2, <3>3, <3>7, PushToolHolds
    <3>9. (D \union C) \union {t.tool} = D \union (C \union {t.tool})
      OBVIOUS
    <3> QED
      BY <3>4, <3>5, <3>8, <3>9
  <2>6. Nat \subseteq Good
    <3> HIDE DEF Good
    <3> QED
      BY <2>4, <2>5, Induction
  <2>7. Holds(f[Len(q)], p, D \union Called(k, Len(q)))
    <3>1. Len(q) \in Good
      BY <2>3, <2>6
    <3> QED
      BY <2>3, <3>1
  <2> QED
    BY <1>8, <2>1, <2>2, <2>7 DEF q
<1> QED
  BY <1>2, <1>7, <1>8

(* The end. *)

\* At the end every item that was added is closed.
LEMMA EndHolds ==
  ASSUME NEW v, NEW p, NEW D, Holds(v, p, D),
         NEW w, w = FoldLeft(CloseTool, Close(CloseReasoning(FlushThink(Start(v))), "text"), Tools)
  PROVE  Holds(w, p, D) /\ AllShut(w, D)
<1> DEFINE a == FlushThink(Start(v))
           b == CloseReasoning(a)
           e == Close(b, "text")
<1>1. Holds(a, p, D)
  BY StartHolds, FlushHolds
<1>2. w = FoldLeft(CloseTool, e, Tools)
  OBVIOUS
<1> HIDE DEF a
<1>3. "reasoning" \in OwnSlots /\ "text" \in OwnSlots /\ ({} \union {"reasoning"}) \union {"text"} = OwnSlots
  BY DEF OwnSlots
<1>4. AllShut(a, {})
  BY DEF AllShut
<1>5. Holds(b, p, D) /\ AllShut(b, {} \union {"reasoning"})
  BY <1>1, <1>3, <1>4, CloseHolds DEF CloseReasoning
<1> HIDE DEF b
<1>6. Holds(e, p, D) /\ AllShut(e, OwnSlots)
  BY <1>3, <1>5, CloseHolds
<1> HIDE DEF e
<1>7. Tools \in Seq(STRING) /\ Len(Tools) \in Nat /\ DOMAIN Tools = 1..Len(Tools)
  BY ToolsAssumption
<1>8. PICK g : Iterates(g, "close", AnySlot, e, Tools, Len(Tools)) /\ FoldLeft(CloseTool, e, Tools) = g[1..Len(Tools)]
  BY <1>7, Folds
<1>9. PICK f : /\ f[0] = e /\ f[Len(Tools)] = g[1..Len(Tools)]
               /\ \A n \in 0..Len(Tools) - 1 : f[n + 1] = Folded("close", AnySlot, f[n], Tools[n + 1])
  <2>1. Tools \in Seq(STRING) /\ Iterates(g, "close", AnySlot, e, Tools, Len(Tools))
    BY <1>7, <1>8
  <2> QED
    BY <2>1, FoldSteps
<1> DEFINE Z(n) == OwnSlots \union {Tools[i] : i \in 1..n}
           Good == {n \in Nat : n <= Len(Tools) => Holds(f[n], p, D) /\ AllShut(f[n], Z(n))}
<1>10. 0 \in Good
  <2>1. Z(0) = OwnSlots
    OBVIOUS
  <2> QED
    BY <1>6, <1>9, <2>1
<1>11. ASSUME NEW n \in Nat, n \in Good
       PROVE  n + 1 \in Good
  <2> SUFFICES ASSUME n + 1 <= Len(Tools)
               PROVE  Holds(f[n + 1], p, D) /\ AllShut(f[n + 1], Z(n + 1))
    OBVIOUS
  <2>1. n \in 0..Len(Tools) - 1 /\ n <= Len(Tools) /\ n + 1 \in DOMAIN Tools
    BY <1>7
  <2>2. Tools[n + 1] \in Range(Tools)
    BY <2>1 DEF Range
  <2>3. Holds(f[n], p, D) /\ AllShut(f[n], Z(n))
    BY <1>11, <2>1
  <2>4. f[n + 1] = CloseTool(f[n], Tools[n + 1])
    BY <1>9, <2>1 DEF Folded
  <2>5. Z(n + 1) = Z(n) \union {Tools[n + 1]}
    OBVIOUS
  <2> HIDE DEF Z
  <2> QED
    BY <2>2, <2>3, <2>4, <2>5, CloseToolHolds
<1>12. Nat \subseteq Good
  <2> HIDE DEF Good
  <2> QED
    BY <1>10, <1>11, Induction
<1>13. Holds(w, p, D) /\ AllShut(w, Z(Len(Tools)))
  <2>1. Len(Tools) \in Good
    BY <1>7, <1>12
  <2>2. Holds(f[Len(Tools)], p, D) /\ AllShut(f[Len(Tools)], Z(Len(Tools)))
    BY <1>7, <2>1
  <2>3. w = f[Len(Tools)]
    BY <1>2, <1>8, <1>9
  <2> QED
    BY <2>2, <2>3
<1>14. D \subseteq Z(Len(Tools))
  <2>1. \A s \in D : s \notin OwnSlots => s \in Range(Tools)
    BY <1>13 DEF Holds, InStep, Typed
  <2>2. \A s \in Range(Tools) : \E i \in 1..Len(Tools) : Tools[i] = s
    BY <1>7 DEF Range
  <2> QED
    BY <2>1, <2>2
<1> HIDE DEF Z
<1> QED
  BY <1>13, <1>14 DEF AllShut

(* What response.completed says. *)

\* The list in the order of the numbers, when all that was added is closed.
LEMMA SortedItems ==
  ASSUME NEW w, NEW p, NEW D, Holds(w, p, D), AllShut(w, D)
  PROVE  /\ Len(CompletedItems(w)) = w.next /\ DOMAIN CompletedItems(w) = 1..w.next
         /\ \A n \in 1..w.next : \E j \in DOMAIN w.output : /\ CompletedItems(w)[n] = w.output[j]
                                                           /\ w.output[j].index = n
<1> DEFINE J == DOMAIN w.output
           N == w.next
           f == [j \in J |-> w.output[j].index]
<1>1. N \in Nat /\ Typed(w) /\ Numbered(w, p) /\ Listed(w, p) /\ DOMAIN w.items = D
  BY DEF Holds, InStep, Numbered
<1>2. Len(w.output) \in Nat /\ J = 1..Len(w.output)
  <2>1. PICK S : w.output \in Seq(S)
    BY <1>1 DEF Listed
  <2> QED
    BY <2>1
<1>3. ASSUME NEW j \in J
      PROVE  /\ w.output[j].slot \in D /\ w.output[j].index = w.items[w.output[j].slot].index
             /\ w.output[j].index \in 1..N
  <2>1. Shut(w, p, w.output[j])
    BY <1>1 DEF Listed
  <2> DEFINE s == w.output[j].slot
  <2>2. s \in D /\ w.output[j].index = w.items[s].index /\ w.output[j].index # 0
    BY <1>1, <2>1 DEF Shut
  <2>3. w.items[s].index \in Nat /\ w.items[s].index <= N
    BY <1>1, <2>2 DEF Typed, Numbered
  <2> QED
    BY <1>1, <2>2, <2>3
<1>4. \A i, j \in J : w.output[i].index = w.output[j].index => i = j
  <2> TAKE i, j \in J
  <2> HAVE w.output[i].index = w.output[j].index
  <2> DEFINE s == w.output[i].slot
             t == w.output[j].slot
  <2>1. s \in D /\ t \in D /\ w.items[s].index = w.items[t].index /\ w.items[s].index \in 1..N
    BY <1>3
  <2>2. Added(w, s)
    BY <1>1, <2>1 DEF Added
  <2>3. s = t
    BY <1>1, <2>1, <2>2 DEF Numbered
  <2> QED
    BY <1>1, <2>3 DEF Listed
<1>5. \A n \in 1..N : \E j \in J : w.output[j].index = n
  <2> TAKE n \in 1..N
  <2>1. PICK s \in D : w.items[s].index = n
    BY <1>1 DEF Numbered
  <2>2. w.items[s].done
    BY <1>1, <2>1 DEF AllShut, Added
  <2>3. PICK j \in J : w.output[j].slot = s
    BY <1>1, <2>1, <2>2 DEF Listed
  <2> QED
    BY <1>3, <2>1, <2>3
<1> HIDE DEF J, N
<1>6. \A j \in J : f[j] = w.output[j].index
  OBVIOUS
<1>7. f \in [J -> 1..N] /\ (\A i, j \in J : f[i] = f[j] => i = j) /\ \A n \in 1..N : \E j \in J : f[j] = n
  BY <1>3, <1>4, <1>5
<1> HIDE DEF f
<1>8. f \in Bijection(J, 1..N)
  BY <1>7, Fun_IsBij
<1>9. Len(w.output) = N
  <2>1. IsFiniteSet(J) /\ Cardinality(J) = Len(w.output)
    BY <1>2, FS_Interval
  <2>2. Cardinality(1..N) = N
    BY <1>1, FS_Interval
  <2>3. ExistsBijection(J, 1..N)
    BY <1>8 DEF ExistsBijection
  <2> QED
    BY <2>1, <2>2, <2>3, FS_Bijection
<1> DEFINE B(k) == {i \in J : Earlier(w, i, k)}
<1>10. ASSUME NEW k \in J
       PROVE  Cardinality(B(k)) = f[k] - 1
  <2>1. f[k] \in 1..N /\ f[k] \in Nat
    BY <1>1, <1>7
  <2>2. \A i \in J : Earlier(w, i, k) <=> f[i] < f[k]
    <3> TAKE i \in J
    <3>1. f[i] \in 1..N /\ f[i] = w.output[i].index /\ f[k] = w.output[k].index
      BY <1>6, <1>7
    <3>2. w.output[i].index = w.output[k].index => i = k
      BY <1>4
    <3>3. ~(k < k)
      BY <1>2
    <3> QED
      BY <1>1, <3>1, <3>2, <3>3 DEF Earlier
  <2>3. B(k) = {i \in J : f[i] < f[k]}
    BY <2>2
  <2> DEFINE A == {i \in J : f[i] < f[k]}
             M == 1..f[k] - 1
             h == [i \in A |-> f[i]]
  <2>4. \A i \in A : i \in J /\ h[i] = f[i] /\ f[i] \in M
    BY <1>1, <1>7, <2>1
  <2>5. \A n \in M : \E i \in A : h[i] = n
    <3> TAKE n \in M
    <3>1. n \in 1..N /\ n < f[k]
      BY <1>1, <2>1
    <3>2. PICK i \in J : f[i] = n
      BY <1>7, <3>1
    <3>3. i \in A
      BY <3>1, <3>2
    <3> QED
      BY <2>4, <3>2, <3>3
  <2>6. h \in [A -> M] /\ \A i, j \in A : h[i] = h[j] => i = j
    BY <1>7, <2>4
  <2>7. A \subseteq J
    OBVIOUS
  <2> HIDE DEF A, M, h
  <2>8. h \in Bijection(A, M)
    BY <2>5, <2>6, Fun_IsBij
  <2>9. IsFiniteSet(A)
    <3>1. IsFiniteSet(J)
      BY <1>2, FS_Interval
    <3> QED
      BY <2>7, <3>1, FS_Subset
  <2>10. Cardinality(M) = Cardinality(A)
    BY <2>8, <2>9, FS_Bijection DEF ExistsBijection
  <2>11. Cardinality(M) = f[k] - 1
    BY <2>1, FS_Interval DEF M
  <2> QED
    BY <2>3, <2>10, <2>11 DEF A
<1> DEFINE items == CompletedItems(w)
<1>11. items = [n \in J |-> w.output[CHOOSE k \in J : Cardinality(B(k)) = n - 1]]
  BY DEF CompletedItems, J
<1>12. J = 1..N
  BY <1>2, <1>9
<1> HIDE DEF B
<1>13. ASSUME NEW n \in 1..N
       PROVE  \E j \in J : items[n] = w.output[j] /\ w.output[j].index = n
  <2> DEFINE j == CHOOSE k \in J : Cardinality(B(k)) = n - 1
  <2>1. PICK k \in J : f[k] = n
    BY <1>7
  <2>2. \E z \in J : Cardinality(B(z)) = n - 1
    BY <1>10, <2>1
  <2>3. j \in J /\ Cardinality(B(j)) = n - 1
    BY <2>2
  <2>4. items[n] = w.output[j]
    BY <1>11, <1>12
  <2> HIDE DEF j
  <2>5. f[j] - 1 = n - 1 /\ f[j] \in 1..N
    BY <1>7, <1>10, <2>3
  <2>6. f[j] = n
    BY <1>1, <2>5
  <2> QED
    BY <1>6, <2>3, <2>4, <2>6
<1>14. DOMAIN items = 1..N
  BY <1>11, <1>12
<1>15. Len(items) = N
  <2> DEFINE x(n) == w.output[CHOOSE k \in J : Cardinality(B(k)) = n - 1]
  <2>1. items = [n \in 1..N |-> x(n)]
    BY <1>11, <1>12
  <2> HIDE DEF x
  <2> QED
    BY <1>1, <2>1
<1> QED
  BY <1>13, <1>14, <1>15 DEF J, N

\* Where an event of a type is in an output.
At(q, type) == {i \in DOMAIN q : q[i].type = type}

\* Item i of the event at n was added before it under that number, and closed with that text.
SaysItem(q, p, i, item, n) ==
  /\ item.index = i
  /\ \E k \in At(q, "added") : /\ k < n /\ q[k].slot = item.slot /\ q[k].index = i
                               /\ p => q[k].id = item.id
  /\ \E k \in At(q, "done") : /\ q[k].slot = item.slot
                              /\ p => item.content = TextOf(SubSeq(q, 1, k - 1), item.slot)

\* The items of the event at n are those that were added before it.
Says(q, p, n) ==
  /\ Len(q[n].items) = Cardinality({i \in At(q, "added") : i < n})
  /\ \A i \in DOMAIN q[n].items : SaysItem(q, p, i, q[n].items[i], n)

\* The property asks that of every completion.
LEMMA SaysIs == CompletedIsStreamed <=> \A n \in At(c.out, "completed") : Says(c.out, heard.proper, n)
<1>1. \A s, k : Streamed(s, k) = TextOf(SubSeq(c.out, 1, k - 1), s)
  BY DEF Streamed, TextOf
<1>2. \A type : Positions(type) = At(c.out, type)
  BY DEF Positions, At
<1> DEFINE Item(n, i) ==
             LET items == c.out[n].items
                 added == {k \in Positions("added") : k < n}
             IN  /\ items[i].index = i
                 /\ \E k \in added : /\ c.out[k].slot = items[i].slot /\ c.out[k].index = i
                                     /\ heard.proper => c.out[k].id = items[i].id
                 /\ \E k \in Positions("done") :
                      /\ c.out[k].slot = items[i].slot
                      /\ heard.proper => items[i].content = Streamed(items[i].slot, k)
           Event(n) ==
             LET items == c.out[n].items
                 added == {k \in Positions("added") : k < n}
             IN  Len(items) = Cardinality(added) /\ \A i \in DOMAIN items : Item(n, i)
<1>3. CompletedIsStreamed <=> \A n \in Positions("completed") : Event(n)
  BY DEF CompletedIsStreamed
<1>4. \A n, i : Item(n, i) <=> SaysItem(c.out, heard.proper, i, c.out[n].items[i], n)
  BY <1>1, <1>2 DEF SaysItem
<1> HIDE DEF Item
<1>5. ASSUME NEW n
      PROVE  Event(n) <=> Says(c.out, heard.proper, n)
  <2>1. {k \in Positions("added") : k < n} = {k \in At(c.out, "added") : k < n}
    BY <1>2
  <2> QED
    BY <1>4, <2>1 DEF Says
<1> HIDE DEF Event
<1> QED
  BY <1>2, <1>3, <1>5

\* What was said stays said when more is told.
Prolongs(q, r) ==
  /\ \E S : q \in Seq(S)
  /\ \E S : r \in Seq(S)
  /\ DOMAIN q \subseteq DOMAIN r /\ \A i \in DOMAIN q : r[i] = q[i]

\* Such a completion is one of the longer output too.
LEMMA SaysStays ==
  ASSUME NEW q, NEW r, Prolongs(q, r), NEW p, NEW n \in DOMAIN q, Says(q, p, n)
  PROVE  Says(r, p, n)
<1>1. PICK S : q \in Seq(S)
  BY DEF Prolongs
<1>2. PICK T : r \in Seq(T)
  BY DEF Prolongs
<1>3. /\ DOMAIN q = 1..Len(q) /\ Len(q) \in Nat /\ DOMAIN r = 1..Len(r) /\ Len(r) \in Nat
      /\ DOMAIN q \subseteq DOMAIN r /\ \A i \in DOMAIN q : r[i] = q[i]
  BY <1>1, <1>2 DEF Prolongs
<1>4. r[n] = q[n]
  BY <1>3
<1>5. {i \in At(r, "added") : i < n} = {i \in At(q, "added") : i < n}
  <2>1. \A i \in DOMAIN r : i < n => i \in DOMAIN q
    BY <1>3
  <2> QED
    BY <1>3, <2>1 DEF At
<1>6. \A k \in DOMAIN q : SubSeq(r, 1, k - 1) = SubSeq(q, 1, k - 1)
  <2> TAKE k \in DOMAIN q
  <2>1. SubSeq(r, 1, k - 1) = [i \in 1..k - 1 |-> r[i]] /\ SubSeq(q, 1, k - 1) = [i \in 1..k - 1 |-> q[i]]
    BY <1>1, <1>2, <1>3
  <2>2. \A i \in 1..k - 1 : r[i] = q[i]
    BY <1>3
  <2> QED
    BY <2>1, <2>2
<1>7. ASSUME NEW i \in DOMAIN q[n].items
      PROVE  SaysItem(r, p, i, q[n].items[i], n)
  <2> DEFINE item == q[n].items[i]
  <2>1. SaysItem(q, p, i, item, n)
    BY DEF Says
  <2> HIDE DEF item
  <2>2. PICK k \in At(q, "added") :
          k < n /\ q[k].slot = item.slot /\ q[k].index = i /\ (p => q[k].id = item.id)
    BY <2>1 DEF SaysItem
  <2>3. k \in At(r, "added") /\ r[k] = q[k]
    BY <1>3 DEF At
  <2>4. PICK d \in At(q, "done") :
          q[d].slot = item.slot /\ (p => item.content = TextOf(SubSeq(q, 1, d - 1), item.slot))
    BY <2>1 DEF SaysItem
  <2>5. d \in At(r, "done") /\ r[d] = q[d] /\ SubSeq(r, 1, d - 1) = SubSeq(q, 1, d - 1)
    BY <1>3, <1>6 DEF At
  <2>6. SaysItem(r, p, i, item, n)
    BY <2>1, <2>2, <2>3, <2>4, <2>5 DEF SaysItem
  <2> QED
    BY <2>6 DEF item
<1> QED
  BY <1>4, <1>5, <1>7 DEF Says

\* So for a converter that has told no other completion.
SaysAll(v, p) == \A n \in Told(v, "completed") : Says(v.out, p, n)

\* Then the completions told before are all there are.
LEMMA SaysLonger ==
  ASSUME NEW v, NEW w, NEW p, SaysAll(v, p), Prolongs(v.out, w.out), Told(w, "completed") = Told(v, "completed")
  PROVE  SaysAll(w, p)
<1> SUFFICES ASSUME NEW n \in Told(w, "completed")
             PROVE  Says(w.out, p, n)
  BY DEF SaysAll
<1>1. n \in DOMAIN v.out /\ Says(v.out, p, n)
  BY DEF SaysAll, Told
<1> QED
  BY <1>1, SaysStays

\* Output that is no verdict is told after.
LEMMA AddsLonger ==
  ASSUME NEW v, NEW w, IsConverter(v), Adds(v, w)
  PROVE  Prolongs(v.out, w.out) /\ Told(w, "completed") = Told(v, "completed") /\ w.completed = v.completed
  BY DEF Adds, IsConverter, Prolongs

\* So is a failure.
LEMMA FailLonger ==
  ASSUME NEW v, IsConverter(v)
  PROVE  Prolongs(v.out, Fail(v).out) /\ Told(Fail(v), "completed") = Told(v, "completed")
<1> DEFINE w == [v EXCEPT !.completed = TRUE, !.failed = TRUE]
           e == [type |-> "failed"]
<1>1. IsConverter(w) /\ w.out = v.out
  BY DEF IsConverter
<1>2. Told(w, "completed") = Told(v, "completed") /\ Fail(v) = Emit(w, e) /\ e.type # "completed"
  BY <1>1 DEF Told, Fail
<1> HIDE DEF w, e
<1>3. Told(Emit(w, e), "completed") = Told(w, "completed")
  BY <1>1, <1>2, EmitTold
<1>4. /\ IsConverter(Emit(w, e)) /\ Len(w.out) \in Nat /\ DOMAIN w.out = 1..Len(w.out)
      /\ DOMAIN Emit(w, e).out = 1..Len(w.out) + 1
      /\ \A i \in 1..Len(w.out) : Emit(w, e).out[i] = w.out[i]
  BY <1>1, EmitTells
<1>5. DOMAIN w.out \subseteq DOMAIN Emit(w, e).out /\ \A i \in DOMAIN w.out : Emit(w, e).out[i] = w.out[i]
  BY <1>4
<1>6. Prolongs(w.out, Emit(w, e).out)
  BY <1>1, <1>4, <1>5 DEF Prolongs, IsConverter
<1> QED
  BY <1>1, <1>2, <1>3, <1>6

\* Until the completion, the end tells no verdict.
LEMMA EndAdds ==
  ASSUME NEW v, IsConverter(v),
         NEW w, w = FoldLeft(CloseTool, Close(CloseReasoning(FlushThink(Start(v))), "text"), Tools)
  PROVE  Adds(v, w)
<1> DEFINE a == FlushThink(Start(v))
           b == Close(CloseReasoning(a), "text")
<1>2. Adds(v, Start(v)) /\ IsConverter(Start(v))
  BY StartAdds, AddsConverter
<1>3. Adds(Start(v), a) /\ IsConverter(a)
  BY <1>2, FlushAdds, AddsConverter
<1>4. Adds(v, a)
  BY <1>2, <1>3, AddsOn
<1>0. w = FoldLeft(CloseTool, b, Tools)
  OBVIOUS
<1> HIDE DEF a
<1>5. Adds(a, CloseReasoning(a)) /\ IsConverter(CloseReasoning(a))
  BY <1>3, CloseAdds, AddsConverter DEF CloseReasoning
<1>6. Adds(CloseReasoning(a), b) /\ IsConverter(b)
  BY <1>5, CloseAdds, AddsConverter
<1>7. Adds(v, b)
  BY <1>4, <1>5, <1>6, AddsOn
<1> HIDE DEF b
<1>8. Adds(b, w)
  BY <1>0, <1>6, ToolsAssumption, FoldAdds
<1> QED
  BY <1>7, <1>8, AddsOn

\* The end says what was streamed.
LEMMA FinalizeSays ==
  ASSUME NEW v, Verdict(v), ~v.completed, NEW p, NEW D, Holds(v, p, D)
  PROVE  SaysAll(Finalize(v), p)
<1> DEFINE w == FoldLeft(CloseTool, Close(CloseReasoning(FlushThink(Start(v))), "text"), Tools)
           a == [w EXCEPT !.completed = TRUE]
           items == CompletedItems(w)
           e == [type |-> "completed", items |-> items]
           x == Emit(a, e)
           q == x.out
           m == Len(w.out) + 1
<1>1. Finalize(v) = x
  BY DEF Finalize
<1>2. Adds(v, w) /\ Holds(w, p, D) /\ AllShut(w, D)
  BY EndAdds, EndHolds DEF Verdict
<1> HIDE DEF w
<1>3. Told(w, "completed") = {} /\ IsConverter(w)
  BY <1>2 DEF Adds, Verdict
<1>4. IsConverter(a) /\ a.out = w.out
  BY <1>3 DEF IsConverter
<1>5. e.type = "completed" /\ e.items = items
  OBVIOUS
<1>6. Told(a, "completed") = {} /\ Told(a, "added") = Told(w, "added") /\ Told(a, "done") = Told(w, "done")
  BY <1>3, <1>4 DEF Told
<1> HIDE DEF a, e
<1>7. /\ Told(x, "completed") = {m}
      /\ Told(x, "added") = Told(w, "added") /\ Told(x, "done") = Told(w, "done")
  <2>1. e.type # "added" /\ e.type # "done"
    BY <1>5
  <2>2. Told(x, "completed") = Told(a, "completed") \union {Len(a.out) + 1}
    BY <1>4, <1>5, EmitTold
  <2>3. Told(x, "added") = Told(a, "added")
    BY <1>4, <2>1, EmitTold
  <2>4. Told(x, "done") = Told(a, "done")
    BY <1>4, <2>1, EmitTold
  <2> QED
    BY <1>4, <1>6, <2>2, <2>3, <2>4
<1>8. /\ Len(w.out) \in Nat /\ DOMAIN w.out = 1..Len(w.out)
      /\ q[m] = e /\ \A i \in 1..Len(w.out) : q[i] = w.out[i]
  BY <1>4, EmitTells
<1>9. \A k \in DOMAIN w.out : q[k] = w.out[k] /\ SubSeq(q, 1, k - 1) = SubSeq(w.out, 1, k - 1)
  BY <1>4, EmitRest
<1>10. At(q, "added") = Told(w, "added") /\ At(q, "done") = Told(w, "done")
  BY <1>7 DEF At, Told
<1>11. {i \in At(q, "added") : i < m} = Told(w, "added")
  <2>1. \A i \in DOMAIN w.out : i < m
    BY <1>8
  <2> QED
    BY <1>10, <2>1 DEF Told
<1>12. /\ Numbered(w, p) /\ Listed(w, p) /\ Typed(w)
  BY <1>2 DEF Holds, InStep
<1>13. /\ Len(items) = w.next /\ DOMAIN items = 1..w.next
       /\ \A n \in 1..w.next : \E j \in DOMAIN w.output : items[n] = w.output[j] /\ w.output[j].index = n
  BY <1>2, SortedItems
<1> HIDE DEF items, x, m, q
<1>14. ASSUME NEW i \in DOMAIN items
       PROVE  SaysItem(q, p, i, items[i], m)
  <2> DEFINE o == items[i]
  <2>1. PICK j \in DOMAIN w.output : o = w.output[j] /\ w.output[j].index = i
    BY <1>13
  <2>2. Shut(w, p, o) /\ o.index = i
    BY <1>12, <2>1 DEF Listed
  <2> HIDE DEF o
  <2>3. /\ o.slot \in DOMAIN w.items /\ Added(w, o.slot) /\ w.items[o.slot].index = i
        /\ p => o.id = w.items[o.slot].id
    BY <2>2 DEF Shut, Added
  <2>4. PICK k \in Told(w, "added") : AddedBy(w, p, o.slot, k)
    BY <1>12, <2>3 DEF Numbered
  <2>10. k \in {y \in At(q, "added") : y < m}
    BY <1>11
  <2>5. /\ k \in At(q, "added") /\ k < m /\ q[k].slot = o.slot /\ q[k].index = i
        /\ p => q[k].id = o.id
    BY <1>9, <2>3, <2>4, <2>10 DEF AddedBy, Told
  <2>6. PICK d \in Told(w, "done") : ClosedBy(w, p, o, d)
    BY <2>2 DEF Shut
  <2>7. d \in At(q, "done") /\ q[d] = w.out[d] /\ SubSeq(q, 1, d - 1) = SubSeq(w.out, 1, d - 1)
    BY <1>9, <1>10 DEF Told
  <2>8. q[d].slot = o.slot /\ (p => o.content = TextOf(SubSeq(q, 1, d - 1), o.slot))
    BY <2>6, <2>7 DEF ClosedBy
  <2>9. SaysItem(q, p, i, o, m)
    BY <2>2, <2>5, <2>7, <2>8 DEF SaysItem
  <2> QED
    BY <2>9 DEF o
<1>15. Says(q, p, m)
  <2>1. q[m].items = items
    BY <1>5, <1>8
  <2>2. Len(items) = Cardinality({i \in At(q, "added") : i < m})
    BY <1>11, <1>12, <1>13 DEF Numbered
  <2> QED
    BY <1>14, <2>1, <2>2 DEF Says
<1>16. SaysAll(x, p)
  BY <1>7, <1>15 DEF SaysAll, q
<1> QED
  BY <1>1, <1>16 DEF x

(* An answer in one piece: its texts are texts, each item is of its own slot. *)

\* A selection is a position or none.
LEMMA SelectIn ==
  ASSUME NEW q, NEW P(_), Len(q) \in Nat
  PROVE  SelectInSeq(q, P) \in 0..Len(q)
<1> DEFINE I == {i \in 1..Len(q) : P(q[i])}
<1>1. CASE I = {}
  BY <1>1 DEF SelectInSeq
<1>2. CASE I # {}
  <2>1. I \in SUBSET Nat
    OBVIOUS
  <2>2. PICK m \in I : \A k \in I : ~(k < m)
    BY <1>2, <2>1, Least
  <2>3. \A k \in I : m <= k
    BY <2>1, <2>2
  <2>4. Min(I) \in I
    BY <2>2, <2>3 DEF Min
  <2>5. SelectInSeq(q, P) = Min(I)
    BY <1>2 DEF SelectInSeq
  <2> QED
    BY <2>4, <2>5
<1> QED
  BY <1>1, <1>2

\* A piece of a sequence.
LEMMA PieceIn ==
  ASSUME NEW S, NEW s \in Seq(S), NEW a \in Nat, a > 0, NEW b \in Int, b <= Len(s)
  PROVE  SubSeq(s, a, b) \in Seq(S)
OBVIOUS

\* White space taken off a text leaves a text.
LEMMA TrimIn ==
  ASSUME NEW s \in Seq(STRING)
  PROVE  TrimStart(s) \in Seq(STRING) /\ Trim(s) \in Seq(STRING)
<1>1. ASSUME NEW x \in Seq(STRING)
      PROVE  TrimStart(x) \in Seq(STRING) /\ Reverse(x) \in Seq(STRING)
  <2> DEFINE P(y) == y # "_"
             k == SelectInSeq(x, P)
  <2>1. Len(x) \in Nat
    OBVIOUS
  <2>2. k \in 0..Len(x)
    BY <2>1, SelectIn
  <2>3. TrimStart(x) = IF k = 0 THEN <<>> ELSE SubSeq(x, k, Len(x))
    BY DEF TrimStart
  <2> HIDE DEF k
  <2>4. <<>> \in Seq(STRING) /\ (k # 0 => SubSeq(x, k, Len(x)) \in Seq(STRING))
    BY <2>1, <2>2, PieceIn
  <2>5. Reverse(x) \in Seq(STRING)
    BY DEF Reverse
  <2> QED
    BY <2>3, <2>4, <2>5
<1> QED
  BY <1>1 DEF Trim

\* Reasoning and text of an answer in one piece.
LEMMA TextsIn ==
  ASSUME NEW m \in Chunks
  PROVE  ReasoningText(m) \in Seq(STRING) /\ MessageText(m) \in Seq(STRING)
<1>1. m.reasoning \in Seq(STRING) /\ m.content \in Seq(STRING)
  BY ChunkAssumption
<1> DEFINE s == m.content
           b == Body(s)
           n == CloseAt(s)
<1>2. b \in Seq(STRING)
  <2> DEFINE t == TrimStart(s)
  <2>1. t \in Seq(STRING)
    BY <1>1, TrimIn
  <2>2. b = SubSeq(t, 3, Len(t))
    BY DEF Body
  <2> HIDE DEF t, b
  <2>3. 3 \in Nat /\ 3 > 0 /\ Len(t) \in Int /\ Len(t) <= Len(t)
    BY <2>1
  <2> QED
    BY <2>1, <2>2, <2>3, PieceIn
<1>3. n \in 0..Len(b)
  <2> DEFINE q == [i \in DOMAIN b |-> <<b[i], IF i < Len(b) THEN b[i + 1] ELSE "">>]
             P(x) == x = <<"c1", "c2">>
  <2>1. n = SelectInSeq(q, P)
    BY DEF CloseAt
  <2> HIDE DEF b
  <2>2. DOMAIN q = 1..Len(b) /\ Len(b) \in Nat
    BY <1>2
  <2>3. Len(q) = Len(b)
    BY <2>2
  <2> HIDE DEF q, P, n
  <2>4. Len(q) \in Nat
    BY <2>2, <2>3
  <2>5. SelectInSeq(q, P) \in 0..Len(q)
    BY <2>4, SelectIn
  <2> QED
    BY <2>1, <2>3, <2>5
<1>4. SplitReasoning(s) = Trim(SubSeq(b, 1, n - 1)) /\ SplitAnswer(s) = TrimStart(SubSeq(b, n + 2, Len(b)))
  BY DEF SplitReasoning, SplitAnswer
<1>8. ReasoningText(m) \in {m.reasoning, SplitReasoning(s), <<>>} /\ MessageText(m) \in {SplitAnswer(s), s}
  BY DEF ReasoningText, MessageText
<1> HIDE DEF b, n
<1>5. 1 \in Nat /\ 1 > 0 /\ n - 1 \in Int /\ n - 1 <= Len(b) /\ n + 2 \in Nat /\ n + 2 > 0 /\ Len(b) \in Int
  BY <1>2, <1>3
<1>6. SubSeq(b, 1, n - 1) \in Seq(STRING) /\ SubSeq(b, n + 2, Len(b)) \in Seq(STRING)
  <2>1. Len(b) <= Len(b)
    BY <1>5
  <2> QED
    BY <1>2, <1>5, <2>1, PieceIn
<1>7. SplitReasoning(s) \in Seq(STRING) /\ SplitAnswer(s) \in Seq(STRING)
  BY <1>4, <1>6, TrimIn
<1>9. <<>> \in Seq(STRING)
  OBVIOUS
<1> QED
  BY <1>1, <1>7, <1>8, <1>9

\* A function on an initial segment of the numbers is a sequence.
LEMMA FunctionIsSeq ==
  ASSUME NEW S, NEW n \in Nat, NEW f \in [1..n -> S]
  PROVE  f \in Seq(S)
OBVIOUS

\* No two of its items are of one slot.
Distinct(q) == \A i, j \in DOMAIN q : q[i].slot = q[j].slot => i = j

\* So for two lists in a row that have no slot in common.
LEMMA JoinedDistinct ==
  ASSUME NEW S, NEW q \in Seq(S), NEW r \in Seq(S), Distinct(q), Distinct(r),
         \A i \in DOMAIN q, j \in DOMAIN r : q[i].slot # r[j].slot
  PROVE  Distinct(q \o r)
<1>1. /\ DOMAIN q = 1..Len(q) /\ Len(q) \in Nat /\ DOMAIN r = 1..Len(r) /\ Len(r) \in Nat
      /\ DOMAIN (q \o r) = 1..Len(q) + Len(r)
      /\ \A i \in 1..Len(q) : (q \o r)[i] = q[i]
      /\ \A i \in Len(q) + 1..Len(q) + Len(r) : (q \o r)[i] = r[i - Len(q)] /\ i - Len(q) \in 1..Len(r)
  OBVIOUS
<1> SUFFICES ASSUME NEW i \in DOMAIN (q \o r), NEW j \in DOMAIN (q \o r), (q \o r)[i].slot = (q \o r)[j].slot
             PROVE  i = j
  BY DEF Distinct
<1> DEFINE x == q \o r
<1>2. i \in Nat /\ j \in Nat /\ x[i].slot = x[j].slot
  BY <1>1
<1>3. /\ i \in 1..Len(q) \/ i \in Len(q) + 1..Len(q) + Len(r)
      /\ j \in 1..Len(q) \/ j \in Len(q) + 1..Len(q) + Len(r)
  BY <1>1
<1>4. /\ \A k \in 1..Len(q) : x[k] = q[k]
      /\ \A k \in Len(q) + 1..Len(q) + Len(r) : x[k] = r[k - Len(q)] /\ k - Len(q) \in 1..Len(r)
  BY <1>1
<1> HIDE DEF x
<1>5. CASE i \in 1..Len(q) /\ j \in 1..Len(q)
  BY <1>1, <1>2, <1>4, <1>5 DEF Distinct
<1>6. CASE i \in Len(q) + 1..Len(q) + Len(r) /\ j \in Len(q) + 1..Len(q) + Len(r)
  <2> DEFINE a == i - Len(q)
             b == j - Len(q)
  <2>1. a \in DOMAIN r /\ b \in DOMAIN r /\ x[i] = r[a] /\ x[j] = r[b]
    BY <1>1, <1>4, <1>6
  <2>2. a = b => i = j
    BY <1>1, <1>2
  <2> HIDE DEF a, b
  <2>3. r[a].slot = r[b].slot
    BY <1>2, <2>1
  <2>4. a = b
    BY <2>1, <2>3 DEF Distinct
  <2> QED
    BY <2>2, <2>4
<1>7. CASE i \in 1..Len(q) /\ j \in Len(q) + 1..Len(q) + Len(r)
  BY <1>1, <1>2, <1>4, <1>7
<1>8. CASE i \in Len(q) + 1..Len(q) + Len(r) /\ j \in 1..Len(q)
  BY <1>1, <1>2, <1>4, <1>8
<1> QED
  BY <1>3, <1>5, <1>6, <1>7, <1>8

\* The arguments of a call in an answer in one piece, in their normal form.
ArgsIn(m, k) == WholeArguments(m.tools[k].name = "custom", m.tools[k].args)

\* A sequence in brackets is a sequence.
LEMMA BracketedIn ==
  ASSUME NEW S, NEW s \in Seq(S), NEW o \in S, NEW i \in S, NEW e \in S
  PROVE  <<o, e>> \in Seq(S) /\ <<o, i>> \o s \o <<e>> \in Seq(S)
<1>1. <<o, e>> \in Seq(S) /\ <<o, i>> \in Seq(S) /\ <<e>> \in Seq(S)
  OBVIOUS
<1> QED
  BY <1>1

\* What texts are made of, with the three pieces the normal form of arguments adds.
Letters == STRING \union {"{", "input", "}"}

\* A text is made of them.
LEMMA TextOfLetters ==
  ASSUME NEW s \in Seq(STRING)
  PROVE  s \in Seq(Letters)
<1>1. STRING \subseteq Letters
  BY DEF Letters
<1>2. DOMAIN s = 1..Len(s) /\ Len(s) \in Nat /\ \A i \in 1..Len(s) : s[i] \in Letters
  <2>1. DOMAIN s = 1..Len(s) /\ Len(s) \in Nat
    OBVIOUS
  <2>2. \A i \in DOMAIN s : s[i] \in STRING
    BY ElementIn
  <2> QED
    BY <1>1, <2>1, <2>2, Zenon
<1>3. s = [i \in 1..Len(s) |-> s[i]]
  OBVIOUS
<1>4. s \in [1..Len(s) -> Letters]
  BY <1>2, <1>3
<1> QED
  BY <1>2, <1>4, FunctionIsSeq

\* The normal form of arguments is a sequence of them.
LEMMA ArgumentsIn ==
  ASSUME NEW s \in Seq(STRING), NEW custom
  PROVE  WholeArguments(custom, s) \in Seq(Letters)
<1>1. s \in Seq(Letters) /\ Trim(s) \in Seq(Letters)
  BY TrimIn, TextOfLetters
<1>2. PICK o \in Letters : o = "{"
  BY DEF Letters
<1>3. PICK i \in Letters : i = "input"
  BY DEF Letters
<1>4. PICK e \in Letters : e = "}"
  BY DEF Letters
<1>5. <<o, e>> \in Seq(Letters) /\ <<o, i>> \o s \o <<e>> \in Seq(Letters)
  BY <1>1, BracketedIn
<1>6. <<"{", "}">> \in Seq(Letters) /\ Wrapped(s) \in Seq(Letters)
  BY <1>2, <1>3, <1>4, <1>5, Zenon DEF Wrapped
<1>7. WholeArguments(custom, s) \in {<<"{", "}">>, Trim(s), s, Wrapped(s)}
  BY DEF WholeArguments
<1> QED
  BY <1>1, <1>6, <1>7

\* What a list of items to replay is.
Replays(items) ==
  /\ \E S : items \in Seq(S)
  /\ \A i \in DOMAIN items : items[i].index = i /\ items[i].content \in Seq(Letters)
  /\ Distinct(items)

\* The items of an answer in one piece, whose calls are of distinct tools, are one.
LEMMA WholeReplays ==
  ASSUME NEW m \in Chunks, \A i, j \in DOMAIN m.tools : m.tools[i].tool = m.tools[j].tool => i = j
  PROVE  Replays(WholeItems(m))
<1>1. m.tools \in Seq(Call)
  BY ChunkAssumption DEF Call
<1>2. ReasoningText(m) \in Seq(Letters) /\ MessageText(m) \in Seq(Letters)
  BY TextsIn, TextOfLetters
<1> DEFINE Item(s, id, text) == [slot |-> s, id |-> id, content |-> text]
           Said(s, text) == IF text = <<>> THEN <<>> ELSE <<Item(s, "", text)>>
           id(k) == IF m.tools[k].id \in {NoId, ""} THEN "generated" ELSE m.tools[k].id
           calls == [k \in DOMAIN m.tools |->
                 Item(m.tools[k].tool, IF m.tools[k].id \in {NoId, ""} THEN "generated" ELSE m.tools[k].id,
                      ArgsIn(m, k))]
           R == Said("reasoning", ReasoningText(m))
           T == Said("text", MessageText(m))
           all == R \o T \o calls
           Id == {""} \union {id(k) : k \in DOMAIN m.tools}
           S == [slot : OwnSlots \union Range(Tools), id : Id, content : Seq(Letters)]
           W == [k \in DOMAIN all |-> [slot |-> all[k].slot, index |-> k, id |-> all[k].id,
                                       content |-> all[k].content]]
<1>3. WholeItems(m) = W
  BY DEF WholeItems, ArgsIn
<1>4. /\ DOMAIN m.tools = 1..Len(m.tools) /\ Len(m.tools) \in Nat
      /\ \A k \in DOMAIN m.tools : m.tools[k].tool \in Range(Tools) /\ ArgsIn(m, k) \in Seq(Letters)
  <2>1. DOMAIN m.tools = 1..Len(m.tools) /\ Len(m.tools) \in Nat
    BY <1>1
  <2>2. ASSUME NEW k \in DOMAIN m.tools
        PROVE  m.tools[k].tool \in Range(Tools) /\ ArgsIn(m, k) \in Seq(Letters)
    <3>1. m.tools[k] \in Call
      BY <1>1, ElementIn
    <3>2. m.tools[k].tool \in Range(Tools) /\ m.tools[k].args \in Seq(STRING)
      BY <3>1 DEF Call
    <3> QED
      BY <3>2, ArgumentsIn DEF ArgsIn
  <2> QED
    BY <2>1, <2>2
<1>5. calls \in Seq(S) /\ DOMAIN calls = DOMAIN m.tools /\ \A k \in DOMAIN calls : calls[k].slot = m.tools[k].tool
  <2>1. \A k \in DOMAIN m.tools : calls[k] \in S /\ calls[k].slot = m.tools[k].tool
    BY <1>4
  <2>2. calls \in [1..Len(m.tools) -> S] /\ DOMAIN calls = DOMAIN m.tools
    <3>1. calls = [k \in 1..Len(m.tools) |-> calls[k]]
      BY <1>4
    <3> HIDE DEF calls, S
    <3> QED
      BY <1>4, <2>1, <3>1
  <2> HIDE DEF calls, S
  <2>3. calls \in Seq(S)
    BY <1>4, <2>2, FunctionIsSeq
  <2> QED
    BY <2>1, <2>2, <2>3
<1>6. ASSUME NEW s \in OwnSlots, NEW text \in Seq(Letters)
      PROVE  /\ Said(s, text) \in Seq(S) /\ Distinct(Said(s, text))
             /\ \A i \in DOMAIN Said(s, text) : Said(s, text)[i].slot = s
  <2>1. PICK e \in Id : e = ""
    OBVIOUS
  <2> HIDE DEF Id
  <2>2. Item(s, e, text) \in S /\ Item(s, e, text).slot = s
    OBVIOUS
  <2>3. Said(s, text) = IF text = <<>> THEN <<>> ELSE <<Item(s, e, text)>>
    BY <2>1
  <2>4. PICK i \in S : i = Item(s, e, text)
    BY <2>2
  <2>5. i.slot = s /\ (Said(s, text) = <<>> \/ Said(s, text) = <<i>>)
    BY <2>2, <2>3, <2>4
  <2> HIDE DEF Said, Item, S
  <2>6. CASE Said(s, text) = <<>>
    BY <2>6 DEF Distinct
  <2>7. CASE Said(s, text) = <<i>>
    <3>1. <<i>> \in Seq(S) /\ DOMAIN <<i>> = {1} /\ <<i>>[1] = i
      OBVIOUS
    <3> QED
      BY <2>5, <2>7, <3>1 DEF Distinct
  <2> QED
    BY <2>5, <2>6, <2>7
<1>7. /\ R \in Seq(S) /\ Distinct(R) /\ \A i \in DOMAIN R : R[i].slot = "reasoning"
      /\ T \in Seq(S) /\ Distinct(T) /\ \A i \in DOMAIN T : T[i].slot = "text"
  BY <1>2, <1>6 DEF OwnSlots
<1>8. Distinct(calls) /\ \A i \in DOMAIN calls : calls[i].slot \notin OwnSlots
  <2>1. \A i \in DOMAIN calls : calls[i].slot \notin OwnSlots
    BY <1>4, <1>5, ToolIsNotOwn
  <2>2. \A i, j \in DOMAIN calls : calls[i].slot = calls[j].slot => i = j
    BY <1>5
  <2> HIDE DEF calls
  <2> QED
    BY <2>1, <2>2 DEF Distinct
<1>12. \A x \in S : x.content \in Seq(Letters)
  OBVIOUS
<1> HIDE DEF calls, R, T, S
<1>9. R \o T \in Seq(S) /\ Distinct(R \o T) /\ \A i \in DOMAIN (R \o T) : (R \o T)[i].slot \in OwnSlots
  <2>1. \A i \in DOMAIN R, j \in DOMAIN T : R[i].slot # T[j].slot
    BY <1>7
  <2>2. Distinct(R \o T)
    BY <1>7, <2>1, JoinedDistinct
  <2>3. R \o T \in Seq(S)
    BY <1>7
  <2>4. ASSUME NEW i \in DOMAIN (R \o T)
        PROVE  (R \o T)[i].slot \in OwnSlots
    <3>1. (\E k \in DOMAIN R : (R \o T)[i] = R[k]) \/ (\E k \in DOMAIN T : (R \o T)[i] = T[k])
      BY <1>7
    <3> QED
      BY <1>7, <3>1 DEF OwnSlots
  <2> QED
    BY <2>2, <2>3, <2>4
<1>10. all \in Seq(S) /\ Distinct(all)
  <2> DEFINE q == R \o T
  <2>1. all = q \o calls
    OBVIOUS
  <2>2. q \in Seq(S) /\ Distinct(q) /\ \A i \in DOMAIN q : q[i].slot \in OwnSlots
    BY <1>9
  <2> HIDE DEF q
  <2>3. \A i \in DOMAIN q, j \in DOMAIN calls : q[i].slot # calls[j].slot
    BY <1>8, <2>2
  <2>4. Distinct(q \o calls)
    BY <1>5, <1>8, <2>2, <2>3, JoinedDistinct
  <2> HIDE DEF all
  <2> QED
    BY <1>5, <2>1, <2>2, <2>4
<1> HIDE DEF all
<1>11. W \in Seq({W[k] : k \in DOMAIN all}) /\ DOMAIN W = DOMAIN all
  BY <1>10
<1>13. \A k \in DOMAIN W : W[k].slot = all[k].slot /\ W[k].index = k /\ W[k].content \in Seq(Letters)
  <2>1. \A k \in DOMAIN all : all[k] \in S
    BY <1>10, ElementIn
  <2> QED
    BY <1>12, <2>1
<1>14. Distinct(W)
  BY <1>10, <1>11, <1>13 DEF Distinct
<1> HIDE DEF W
<1> QED
  BY <1>3, <1>11, <1>13, <1>14 DEF Replays

\* Event k of the output added the i-th item of a list.
AddedAt(v, items, i, k) == /\ v.out[k].slot = items[i].slot /\ v.out[k].index = i
                           /\ v.out[k].id = items[i].id

\* Event d closed it, with its text before.
ClosedAt(v, items, i, d) == /\ v.out[d].slot = items[i].slot
                            /\ items[i].content = TextOf(SubSeq(v.out, 1, d - 1), items[i].slot)

\* The first n items of a list have been shown.
ShownSoFar(v, items, n) ==
  /\ IsConverter(v) /\ Told(v, "completed") = {}
  /\ \A i \in 1..n : \E k \in Told(v, "added") : AddedAt(v, items, i, k)
  /\ \A i \in 1..n : \E d \in Told(v, "done") : ClosedAt(v, items, i, d)
  /\ IsFiniteSet(Told(v, "added")) /\ Cardinality(Told(v, "added")) = n
  /\ \A i \in DOMAIN items : i > n => TextOf(v.out, items[i].slot) = <<>>

\* One item more: added, with its text if there is any, and closed.
LEMMA ShownOneMore ==
  ASSUME NEW items, Replays(items), NEW n \in Nat, n + 1 \in DOMAIN items,
         NEW v, ShownSoFar(v, items, n)
  PROVE  ShownSoFar(Shown(v, items[n + 1]), items, n + 1)
<1> DEFINE m == n + 1
           s == items[m].slot
           text == items[m].content
           e == [type |-> "added", slot |-> s, id |-> items[m].id, index |-> items[m].index]
           a == Emit(v, e)
           f == [type |-> "delta", slot |-> s, text |-> text]
           b == IF text = <<>> THEN a ELSE Emit(a, f)
           g == [type |-> "done", slot |-> s]
           w == Emit(b, g)
<1>1. Shown(v, items[m]) = w
  BY DEF Shown, Delta
<1>2. m \in DOMAIN items /\ m \in Nat /\ text \in Seq(Letters) /\ items[m].index = m /\ Distinct(items)
  BY DEF Replays
<1>3. /\ e.type = "added" /\ e.slot = s /\ e.id = items[m].id /\ e.index = m
      /\ f.type = "delta" /\ f.slot = s /\ f.text = text
      /\ g.type = "done" /\ g.slot = s
  BY <1>2
<1>4. \A i \in DOMAIN items : i # m => items[i].slot # s
  BY <1>2 DEF Distinct
<1>5. /\ IsConverter(v) /\ Told(v, "completed") = {}
      /\ IsFiniteSet(Told(v, "added")) /\ Cardinality(Told(v, "added")) = n
      /\ TextOf(v.out, s) = <<>>
  BY <1>2 DEF ShownSoFar
<1> HIDE DEF e, f, g, s, text
\* added
<1>6. /\ IsConverter(a) /\ Len(v.out) \in Nat /\ DOMAIN v.out = 1..Len(v.out) /\ Len(v.out) + 1 \in DOMAIN a.out
      /\ a.out[Len(v.out) + 1] = e
  <2>1. 1..Len(v.out) \subseteq Nat /\ (Len(v.out) \in Nat => Len(v.out) + 1 \in 1..Len(v.out) + 1)
    OBVIOUS
  <2> QED
    BY <1>5, <2>1, EmitTells
<1>7. \A k \in DOMAIN v.out : a.out[k] = v.out[k] /\ SubSeq(a.out, 1, k - 1) = SubSeq(v.out, 1, k - 1)
  BY <1>5, EmitRest
<1>8. /\ Told(a, "added") = Told(v, "added") \union {Len(v.out) + 1}
      /\ Told(a, "completed") = {} /\ Told(a, "done") = Told(v, "done")
  <2>1. e.type # "completed" /\ e.type # "done"
    BY <1>3
  <2>2. Told(a, "added") = Told(v, "added") \union {Len(v.out) + 1}
    BY <1>3, <1>5, EmitTold
  <2>3. Told(a, "completed") = Told(v, "completed")
    BY <1>5, <2>1, EmitTold
  <2>4. Told(a, "done") = Told(v, "done")
    BY <1>5, <2>1, EmitTold
  <2> QED
    BY <1>5, <2>2, <2>3, <2>4
<1>9. \A x : TextOf(a.out, x) = TextOf(v.out, x)
  <2>1. e.type # "delta"
    BY <1>3
  <2> QED
    BY <1>5, <2>1, EmitText
<1> HIDE DEF a
\* with its text
<1>10. /\ IsConverter(b) /\ DOMAIN a.out \subseteq DOMAIN b.out
       /\ \A k \in DOMAIN a.out : b.out[k] = a.out[k] /\ SubSeq(b.out, 1, k - 1) = SubSeq(a.out, 1, k - 1)
       /\ Told(b, "added") = Told(a, "added")
       /\ Told(b, "completed") = {} /\ Told(b, "done") = Told(a, "done")
       /\ TextOf(b.out, s) = text
       /\ \A x : x # s => TextOf(b.out, x) = TextOf(a.out, x)
  <2>1. CASE text = <<>>
    <3>1. b = a
      BY <2>1
    <3> QED
      BY <1>5, <1>6, <1>8, <1>9, <2>1, <3>1
  <2>2. CASE text # <<>>
    <3>1. b = Emit(a, f)
      BY <2>2
    <3> HIDE DEF b
    <3>2. f.type # "added" /\ f.type # "completed" /\ f.type # "done"
      BY <1>3
    <3>3. Told(Emit(a, f), "added") = Told(a, "added")
      BY <1>6, <3>2, EmitTold
    <3>4. Told(Emit(a, f), "completed") = Told(a, "completed")
      BY <1>6, <3>2, EmitTold
    <3>5. Told(Emit(a, f), "done") = Told(a, "done")
      BY <1>6, <3>2, EmitTold
    <3>6. IsConverter(Emit(a, f)) /\ DOMAIN a.out \subseteq DOMAIN Emit(a, f).out
      <4>1. \A k \in Nat : 1..k \subseteq 1..k + 1
        OBVIOUS
      <4>2. IsConverter(Emit(a, f)) /\ Len(a.out) \in Nat /\ DOMAIN a.out = 1..Len(a.out)
            /\ DOMAIN Emit(a, f).out = 1..Len(a.out) + 1
        BY <1>6, EmitTells
      <4> QED
        BY <4>1, <4>2
    <3>7. \A k \in DOMAIN a.out : /\ Emit(a, f).out[k] = a.out[k]
                                  /\ SubSeq(Emit(a, f).out, 1, k - 1) = SubSeq(a.out, 1, k - 1)
      BY <1>6, EmitRest
    <3>8. TextOf(Emit(a, f).out, s) = TextOf(a.out, s) \o f.text
      BY <1>3, <1>6, EmitText
    <3>9. \A x : x # s => TextOf(Emit(a, f).out, x) = TextOf(a.out, x)
      <4> TAKE x
      <4> HAVE x # s
      <4>1. f.slot # x
        BY <1>3
      <4> QED
        BY <1>6, <4>1, EmitText
    <3>10. TextOf(Emit(a, f).out, s) = text
      <4>1. TextOf(a.out, s) = <<>> /\ <<>> \o text = text
        BY <1>2, <1>5, <1>9 DEF text
      <4> QED
        BY <1>3, <3>8, <4>1
    <3> QED
      BY <1>8, <3>1, <3>3, <3>4, <3>5, <3>6, <3>7, <3>9, <3>10
  <2> QED
    BY <2>1, <2>2
<1> HIDE DEF b
\* and closed
<1> DEFINE d == Len(b.out) + 1
<1>11. /\ IsConverter(w) /\ DOMAIN b.out \subseteq DOMAIN w.out
       /\ w.out[d] = g
       /\ \A k \in DOMAIN b.out : w.out[k] = b.out[k] /\ SubSeq(w.out, 1, k - 1) = SubSeq(b.out, 1, k - 1)
       /\ SubSeq(w.out, 1, d - 1) = b.out
  <2>1. \A k \in Nat : 1..k \subseteq 1..k + 1
    OBVIOUS
  <2>2. IsConverter(w) /\ Len(b.out) \in Nat /\ DOMAIN b.out = 1..Len(b.out)
        /\ DOMAIN w.out = 1..Len(b.out) + 1 /\ w.out[d] = g
    BY <1>10, EmitTells
  <2>3. /\ \A k \in DOMAIN b.out : w.out[k] = b.out[k] /\ SubSeq(w.out, 1, k - 1) = SubSeq(b.out, 1, k - 1)
        /\ SubSeq(w.out, 1, Len(b.out)) = b.out
    BY <1>10, EmitRest
  <2>4. d - 1 = Len(b.out)
    BY <2>2
  <2> HIDE DEF d
  <2> QED
    BY <2>1, <2>2, <2>3, <2>4
<1>12. /\ Told(w, "done") = Told(b, "done") \union {d}
       /\ Told(w, "added") = Told(b, "added") /\ Told(w, "completed") = {}
  <2>1. g.type # "added" /\ g.type # "completed"
    BY <1>3
  <2>2. Told(w, "done") = Told(b, "done") \union {d}
    BY <1>3, <1>10, EmitTold
  <2>3. Told(w, "added") = Told(b, "added")
    BY <1>10, <2>1, EmitTold
  <2>4. Told(w, "completed") = Told(b, "completed")
    BY <1>10, <2>1, EmitTold
  <2> QED
    BY <1>10, <2>2, <2>3, <2>4
<1>13. \A x : TextOf(w.out, x) = TextOf(b.out, x)
  <2> TAKE x
  <2>1. g.type # "delta" /\ IsConverter(b)
    BY <1>3, <1>10
  <2> QED
    BY <2>1, EmitText
<1> HIDE DEF w, d
\* What was so before stays so.
<1>14. \A k \in DOMAIN v.out : /\ k \in DOMAIN a.out /\ w.out[k] = v.out[k]
                               /\ SubSeq(w.out, 1, k - 1) = SubSeq(v.out, 1, k - 1)
  <2>1. DOMAIN v.out \subseteq DOMAIN a.out
    <3>1. \A k \in Nat : 1..k \subseteq 1..k + 1
      OBVIOUS
    <3>2. DOMAIN a.out = 1..Len(v.out) + 1
      BY <1>5, EmitTells DEF a
    <3> QED
      BY <1>6, <3>1, <3>2
  <2> TAKE k \in DOMAIN v.out
  <2>2. k \in DOMAIN a.out /\ k \in DOMAIN b.out
    BY <1>10, <2>1
  <2> QED
    BY <1>7, <1>10, <1>11, <2>2
<1>15. \A i \in 1..m : \E k \in Told(w, "added") : AddedAt(w, items, i, k)
  <2>1. ASSUME NEW i \in 1..n
        PROVE  \E k \in Told(w, "added") : AddedAt(w, items, i, k)
    <3>1. PICK k \in Told(v, "added") : AddedAt(v, items, i, k)
      BY DEF ShownSoFar
    <3>2. k \in Told(w, "added") /\ k \in DOMAIN v.out
      BY <1>8, <1>10, <1>12 DEF Told
    <3>3. w.out[k] = v.out[k]
      BY <1>14, <3>2
    <3> QED
      BY <3>1, <3>2, <3>3 DEF AddedAt
  <2>2. Len(v.out) + 1 \in Told(w, "added") /\ AddedAt(w, items, m, Len(v.out) + 1)
    <3>1. Len(v.out) + 1 \in Told(w, "added") /\ Len(v.out) + 1 \in DOMAIN a.out
      BY <1>6, <1>8, <1>10, <1>12
    <3>2. w.out[Len(v.out) + 1] = e
      BY <1>6, <1>10, <1>11, <3>1
    <3> QED
      BY <1>3, <3>1, <3>2 DEF AddedAt, s
  <2>3. \A i \in 1..m : i \in 1..n \/ i = m
    OBVIOUS
  <2> HIDE DEF m
  <2> QED
    BY <2>1, <2>2, <2>3
<1>16. \A i \in 1..m : \E k \in Told(w, "done") : ClosedAt(w, items, i, k)
  <2>1. ASSUME NEW i \in 1..n
        PROVE  \E k \in Told(w, "done") : ClosedAt(w, items, i, k)
    <3>1. PICK k \in Told(v, "done") : ClosedAt(v, items, i, k)
      BY DEF ShownSoFar
    <3>2. k \in Told(w, "done") /\ k \in DOMAIN v.out
      BY <1>8, <1>10, <1>12 DEF Told
    <3>3. w.out[k] = v.out[k] /\ SubSeq(w.out, 1, k - 1) = SubSeq(v.out, 1, k - 1)
      BY <1>14, <3>2
    <3> QED
      BY <3>1, <3>2, <3>3 DEF ClosedAt
  <2>2. d \in Told(w, "done") /\ ClosedAt(w, items, m, d)
    BY <1>3, <1>10, <1>11, <1>12 DEF ClosedAt, s, text
  <2>3. \A i \in 1..m : i \in 1..n \/ i = m
    OBVIOUS
  <2> HIDE DEF m
  <2> QED
    BY <2>1, <2>2, <2>3
<1>17. IsFiniteSet(Told(w, "added")) /\ Cardinality(Told(w, "added")) = m
  <2>1. Len(v.out) + 1 \notin Told(v, "added")
    BY <1>6 DEF Told
  <2>2. Told(w, "added") = Told(v, "added") \union {Len(v.out) + 1}
    BY <1>8, <1>10, <1>12
  <2> QED
    BY <1>5, <2>1, <2>2, FS_AddElement
<1>18. \A i \in DOMAIN items : i > m => TextOf(w.out, items[i].slot) = <<>>
  <2> TAKE i \in DOMAIN items
  <2> HAVE i > m
  <2>0. i \in Nat
    BY DEF Replays
  <2>1. i > n /\ i # m
    BY <2>0
  <2>2. TextOf(v.out, items[i].slot) = <<>> /\ items[i].slot # s
    BY <1>4, <2>1 DEF ShownSoFar
  <2> QED
    BY <1>9, <1>10, <1>13, <2>2
<1>19. ShownSoFar(w, items, m)
  BY <1>11, <1>12, <1>15, <1>16, <1>17, <1>18 DEF ShownSoFar
<1> QED
  BY <1>1, <1>19

\* f goes through the folding g of a list.
Walks(f, g, op, slot, v, q) ==
  /\ f[0] = v /\ f[Len(q)] = g[1..Len(q)]
  /\ \A n \in 0..Len(q) - 1 : f[n + 1] = Folded(op, slot, f[n], q[n + 1])

\* The folding of a list can be walked through.
LEMMA FoldWalks ==
  ASSUME NEW op, NEW slot, NEW v, NEW S, NEW q \in Seq(S), NEW g, Iterates(g, op, slot, v, q, Len(q))
  PROVE  \E f : Walks(f, g, op, slot, v, q)
<1>1. PICK f : /\ f[0] = v /\ f[Len(q)] = g[1..Len(q)]
               /\ \A n \in 0..Len(q) - 1 : f[n + 1] = Folded(op, slot, f[n], q[n + 1])
  BY FoldSteps
<1> QED
  BY <1>1 DEF Walks

\* All of them.
LEMMA ShowAll ==
  ASSUME NEW items, Replays(items), NEW v, ShownSoFar(v, items, 0)
  PROVE  ShownSoFar(FoldLeft(Shown, v, items), items, Len(items))
<1>1. PICK S : items \in Seq(S)
  BY DEF Replays
<1>2. PICK g : Iterates(g, "show", AnySlot, v, items, Len(items)) /\ FoldLeft(Shown, v, items) = g[1..Len(items)]
  BY <1>1, Folds
<1>10. PICK f : Walks(f, g, "show", AnySlot, v, items)
  BY <1>1, <1>2, FoldWalks
<1>3. /\ f[0] = v /\ f[Len(items)] = g[1..Len(items)]
      /\ \A n \in 0..Len(items) - 1 : f[n + 1] = Folded("show", AnySlot, f[n], items[n + 1])
  BY <1>10 DEF Walks
<1>4. \A w, x : Folded("show", AnySlot, w, x) = Shown(w, x)
  BY DEF Folded
<1> DEFINE Good == {n \in Nat : n <= Len(items) => ShownSoFar(f[n], items, n)}
<1>5. 0 \in Good
  BY <1>3
<1>6. ASSUME NEW n \in Nat, n \in Good
      PROVE  n + 1 \in Good
  <2> SUFFICES ASSUME n + 1 <= Len(items)
               PROVE  ShownSoFar(f[n + 1], items, n + 1)
    OBVIOUS
  <2>1. n \in 0..Len(items) - 1 /\ n + 1 \in DOMAIN items /\ n <= Len(items)
    BY <1>1
  <2>2. ShownSoFar(f[n], items, n)
    BY <1>6, <2>1
  <2>3. f[n + 1] = Shown(f[n], items[n + 1])
    BY <1>3, <1>4, <2>1
  <2> QED
    BY <2>1, <2>2, <2>3, ShownOneMore
<1>7. Nat \subseteq Good
  <2> HIDE DEF Good
  <2> QED
    BY <1>5, <1>6, Induction
<1>8. Len(items) \in Good
  BY <1>1, <1>7
<1> QED
  BY <1>1, <1>2, <1>3, <1>8

\* The replay of an answer says what it has shown.
LEMMA ReplaySays ==
  ASSUME NEW items, Replays(items), NEW p
  PROVE  SaysAll(Replay(items), p)
<1> DEFINE a == Start(New)
           w == FoldLeft(Shown, a, items)
           e == [type |-> "completed", items |-> items]
           x == Emit(w, e)
           q == x.out
           m == Len(w.out) + 1
           N == Len(items)
<1>1. Replay(items) = x
  BY DEF Replay
<1>2. ShownSoFar(a, items, 0)
  <2> DEFINE n == [New EXCEPT !.started = TRUE]
             r == [type |-> "created"]
  <2>1. IsConverter(n) /\ n.out = <<>>
    BY NewVerdict DEF Verdict, IsConverter, New
  <2>2. a = Emit(n, r)
    BY DEF Start, New
  <2>3. r.type = "created"
    OBVIOUS
  <2> HIDE DEF n, r, a
  <2>4. Told(n, "added") = {} /\ Told(n, "completed") = {}
    BY <2>1 DEF Told
  <2>5. Told(a, "added") = {} /\ Told(a, "completed") = {}
    <3>1. r.type # "added" /\ r.type # "completed"
      BY <2>3
    <3>2. Told(Emit(n, r), "added") = Told(n, "added")
      BY <2>1, <3>1, EmitTold
    <3>3. Told(Emit(n, r), "completed") = Told(n, "completed")
      BY <2>1, <3>1, EmitTold
    <3> QED
      BY <2>2, <2>4, <3>2, <3>3
  <2>6. IsConverter(a)
    BY <2>1, <2>2, EmitTells
  <2>7. \A s : TextOf(a.out, s) = <<>>
    <3>1. r.type # "delta"
      BY <2>3
    <3>2. \A s : TextOf(Emit(n, r).out, s) = TextOf(n.out, s)
      BY <2>1, <3>1, EmitText
    <3> QED
      BY <2>1, <2>2, <3>2, TextEmpty
  <2>8. IsFiniteSet({}) /\ Cardinality({}) = 0 /\ 1..0 = {}
    BY FS_EmptySet
  <2> QED
    BY <2>5, <2>6, <2>7, <2>8 DEF ShownSoFar
<1>3. ShownSoFar(w, items, N)
  <2> HIDE DEF a
  <2> QED
    BY <1>2, ShowAll
<1>4. e.type = "completed" /\ e.items = items
  OBVIOUS
<1> HIDE DEF w, e
<1>5. IsConverter(w) /\ Told(w, "completed") = {}
  BY <1>3 DEF ShownSoFar
<1>6. /\ Told(x, "completed") = {m}
      /\ Told(x, "added") = Told(w, "added") /\ Told(x, "done") = Told(w, "done")
  <2>1. e.type # "added" /\ e.type # "done"
    BY <1>4
  <2>2. Told(x, "completed") = Told(w, "completed") \union {m}
    BY <1>4, <1>5, EmitTold
  <2>3. Told(x, "added") = Told(w, "added")
    BY <1>5, <2>1, EmitTold
  <2>4. Told(x, "done") = Told(w, "done")
    BY <1>5, <2>1, EmitTold
  <2> QED
    BY <1>5, <2>2, <2>3, <2>4
<1>7. /\ Len(w.out) \in Nat /\ DOMAIN w.out = 1..Len(w.out) /\ q[m] = e
  BY <1>5, EmitTells
<1>8. \A k \in DOMAIN w.out : q[k] = w.out[k] /\ SubSeq(q, 1, k - 1) = SubSeq(w.out, 1, k - 1)
  BY <1>5, EmitRest
<1>9. At(q, "added") = Told(w, "added") /\ At(q, "done") = Told(w, "done")
  BY <1>6 DEF At, Told
<1>10. {i \in At(q, "added") : i < m} = Told(w, "added")
  <2>1. \A i \in DOMAIN w.out : i < m
    BY <1>7
  <2> QED
    BY <1>9, <2>1 DEF Told
<1>11. N \in Nat /\ DOMAIN items = 1..N /\ \A i \in 1..N : items[i].index = i
  BY DEF Replays
<1> HIDE DEF x, m, q, N
<1>12. ASSUME NEW i \in DOMAIN items
       PROVE  SaysItem(q, p, i, items[i], m)
  <2>1. i \in 1..N /\ items[i].index = i
    BY <1>11
  <2>2. PICK k \in Told(w, "added") : AddedAt(w, items, i, k)
    BY <1>3, <2>1 DEF ShownSoFar
  <2>3. k \in {y \in At(q, "added") : y < m} /\ k \in DOMAIN w.out
    BY <1>10 DEF Told
  <2>4. k \in At(q, "added") /\ k < m /\ q[k] = w.out[k]
    BY <1>8, <2>3
  <2>5. PICK d \in Told(w, "done") : ClosedAt(w, items, i, d)
    BY <1>3, <2>1 DEF ShownSoFar
  <2>6. d \in At(q, "done") /\ q[d] = w.out[d] /\ SubSeq(q, 1, d - 1) = SubSeq(w.out, 1, d - 1)
    BY <1>8, <1>9 DEF Told
  <2>7. q[k].slot = items[i].slot /\ q[k].index = i /\ q[k].id = items[i].id
    BY <2>2, <2>4 DEF AddedAt
  <2>8. q[d].slot = items[i].slot /\ items[i].content = TextOf(SubSeq(q, 1, d - 1), items[i].slot)
    BY <2>5, <2>6 DEF ClosedAt
  <2> QED
    BY <2>1, <2>4, <2>6, <2>7, <2>8 DEF SaysItem
<1>13. Says(q, p, m)
  <2>1. q[m].items = items
    BY <1>4, <1>7
  <2>2. Len(items) = Cardinality({i \in At(q, "added") : i < m})
    BY <1>3, <1>10 DEF ShownSoFar, N
  <2> QED
    BY <1>12, <2>1, <2>2 DEF Says
<1>14. SaysAll(x, p)
  BY <1>6, <1>13 DEF SaysAll, q
<1> QED
  BY <1>1, <1>14 DEF x

\* What is asked of a proper upstream only is asked of fewer.
LEMMA HoldsWeaker ==
  ASSUME NEW v, NEW p, NEW D, Holds(v, p, D), NEW r, r => p
  PROVE  Holds(v, r, D)
<1>1. Typed(v) /\ Numbered(v, p) /\ Listed(v, p) /\ Streaming(v, p, {}) /\ DOMAIN v.items = D
  BY DEF Holds, InStep
<1>2. Numbered(v, r)
  <2>1. \A s, i : AddedBy(v, p, s, i) => AddedBy(v, r, s, i)
    BY DEF AddedBy
  <2>2. \A s \in DOMAIN v.items : Added(v, s) => \E i \in Told(v, "added") : AddedBy(v, r, s, i)
    BY <1>1, <2>1 DEF Numbered
  <2> QED
    BY <1>1, <2>2 DEF Numbered
<1>3. Listed(v, r)
  <2>1. \A o, k : ClosedBy(v, p, o, k) => ClosedBy(v, r, o, k)
    BY DEF ClosedBy
  <2>2. \A o : Shut(v, p, o) => Shut(v, r, o)
    BY <2>1 DEF Shut
  <2> QED
    BY <1>1, <2>2 DEF Listed
<1>4. Streaming(v, r, {})
  BY <1>1 DEF Streaming
<1> QED
  BY <1>1, <1>2, <1>3, <1>4 DEF Holds, InStep

\* So is what a completion says.
LEMMA SaysWeaker ==
  ASSUME NEW v, NEW p, SaysAll(v, p), NEW r, r => p
  PROVE  SaysAll(v, r)
<1>1. \A q, i, item, n : SaysItem(q, p, i, item, n) => SaysItem(q, r, i, item, n)
  BY DEF SaysItem
<1>2. \A q, n : Says(q, p, n) => Says(q, r, n)
  BY <1>1 DEF Says
<1> QED
  BY <1>2 DEF SaysAll

\* The fields of what was heard.
HeardTyped == DOMAIN heard = {"before", "after", "args", "custom", "field", "proper"}

\* A chunk adds its calls to those heard, and its habits to those of the upstream.
LEMMA HearIs ==
  ASSUME HeardTyped, NEW k \in Chunks
  PROVE  /\ DOMAIN Hear(k) = DOMAIN heard
         /\ DOMAIN Hear(k).args = DOMAIN heard.args \union Called(k, Len(k.tools))
         /\ Hear(k).proper <=> heard.proper /\ Proper(k, DOMAIN heard.args)
<1> DEFINE known     == DOMAIN heard.args
           Calls(n)  == {k.tools[i].tool : i \in 1..n}
           called    == known \union Calls(Len(k.tools))
           Args(t)   == FoldLeft(LAMBDA text, d : IF d.tool = t THEN text \o d.args ELSE text,
                                 IF t \in known THEN heard.args[t] ELSE <<>>, k.tools)
           h == [heard EXCEPT
                  !.before = IF known = {} THEN @ \o k.content ELSE @,
                  !.after  = IF known = {} THEN @ ELSE @ \o k.content,
                  !.args   = [t \in called |-> Args(t)],
                  !.custom = @ \union {k.tools[i].tool : i \in {j \in DOMAIN k.tools : k.tools[j].name = "custom"}},
                  !.field  = @ \/ k.reasoning # <<>>,
                  !.proper = @ /\ \A i \in DOMAIN k.tools : ProperDelta(k.tools[i], known \union Calls(i - 1))]
<1>1. Hear(k) = h
  BY DEF Hear
<1>2. \A n : Calls(n) = Called(k, n)
  BY DEF Called
<1> DEFINE P == \A i \in DOMAIN k.tools : ProperDelta(k.tools[i], known \union Calls(i - 1))
<1>3. P <=> Proper(k, DOMAIN heard.args)
  BY <1>2 DEF Proper
<1> HIDE DEF Args, Calls
<1>4. DOMAIN h = DOMAIN heard /\ DOMAIN h.args = called
  BY DEF HeardTyped
<1>5. h.proper = (heard.proper /\ P)
  BY DEF HeardTyped
<1> HIDE DEF h, P
<1>6. h.proper <=> heard.proper /\ P
  BY <1>5, Zenon
<1>7. DOMAIN h.args = known \union Called(k, Len(k.tools))
  BY <1>2, <1>4
<1> QED
  BY <1>1, <1>3, <1>4, <1>6, <1>7

\* The inductive invariant: until it completes, the converter holds together with what was heard.
SInv ==
  /\ VInv /\ HeardTyped /\ SaysAll(c, heard.proper)
  /\ ~c.completed /\ link = "open" =>
       /\ buffer = <<>> /\ DOMAIN heard.args \cap OwnSlots = {}
       /\ Holds(c, heard.proper, OwnSlots \union DOMAIN heard.args)

\* A block after the end leaves what the completion says.
LEMMA HandleSays ==
  ASSUME NEW v, Verdict(v), v.completed, NEW p, SaysAll(v, p), NEW b \in Block
  PROVE  SaysAll(Handle(v, b), p) /\ Handle(v, b).completed
<1>0. IsConverter(v)
  BY DEF Verdict
<1>1. b.type = "DONE" \/ b.type = "error" \/ (b.type = "chunk" /\ b.chunk \in Chunks)
  BY DEF Block
<1>2. CASE b.type = "DONE"
  BY <1>2 DEF Handle, Finalize
<1>3. CASE b.type = "error"
  <2>1. Handle(v, b) = Fail(v)
    BY <1>3 DEF Handle
  <2>2. Prolongs(v.out, Fail(v).out) /\ Told(Fail(v), "completed") = Told(v, "completed")
    BY <1>0, FailLonger
  <2>3. SaysAll(Fail(v), p)
    BY <2>2, SaysLonger
  <2> QED
    BY <2>1, <2>3, FailVerdict
<1>4. CASE b.type = "chunk" /\ b.chunk \in Chunks
  <2>1. Handle(v, b) = HandleChunk(v, b.chunk)
    BY <1>4 DEF Handle
  <2>2. Adds(v, HandleChunk(v, b.chunk))
    BY <1>0, <1>4, ChunkAdds
  <2>3. /\ Prolongs(v.out, HandleChunk(v, b.chunk).out)
        /\ Told(HandleChunk(v, b.chunk), "completed") = Told(v, "completed")
        /\ HandleChunk(v, b.chunk).completed
    BY <1>0, <2>2, AddsLonger
  <2>4. SaysAll(HandleChunk(v, b.chunk), p)
    BY <2>3, SaysLonger
  <2> QED
    BY <2>1, <2>3, <2>4
<1> QED
  BY <1>1, <1>2, <1>3, <1>4

\* The invariant holds initially.
LEMMA SInit == StreamInit => SInv
<1> SUFFICES ASSUME StreamInit PROVE SInv
  OBVIOUS
<1>1. c = New /\ buffer = <<>> /\ heard = Silence
  BY DEF StreamInit
<1>2. VInv
  BY VInit
<1>3. HeardTyped /\ DOMAIN heard.args = {}
  BY <1>1 DEF HeardTyped, Silence
<1>4. SaysAll(c, heard.proper)
  BY <1>1, NewVerdict DEF Verdict, SaysAll
<1>5. Holds(c, heard.proper, OwnSlots)
  BY <1>1, NewHolds
<1>6. OwnSlots \union DOMAIN heard.args = OwnSlots /\ DOMAIN heard.args \cap OwnSlots = {}
  BY <1>3
<1> QED
  BY <1>1, <1>2, <1>3, <1>4, <1>5, <1>6 DEF SInv

\* A chunk that comes in time is taken and heard.
LEMMA HeardHolds ==
  ASSUME SInv, ~c.completed, link = "open", NEW k \in Chunks
  PROVE  /\ Holds(HandleChunk(c, k), Hear(k).proper, OwnSlots \union DOMAIN Hear(k).args)
         /\ DOMAIN Hear(k).args \cap OwnSlots = {}
         /\ SaysAll(HandleChunk(c, k), Hear(k).proper)
         /\ HandleChunk(c, k).completed = c.completed
<1> DEFINE A == DOMAIN heard.args
           p == heard.proper
           r == Hear(k).proper
           w == HandleChunk(c, k)
           B == Called(k, Len(k.tools))
           D == OwnSlots \union A
<1>1. HeardTyped /\ Holds(c, p, D) /\ A \cap OwnSlots = {} /\ SaysAll(c, p) /\ IsConverter(c)
  BY DEF SInv, VInv, Verdict, Replayed
<1>2. DOMAIN Hear(k).args = A \union B /\ (r <=> p /\ Proper(k, A))
  BY <1>1, HearIs
<1>3. D \ OwnSlots = A
  BY <1>1
<1> HIDE DEF A, B, D, p, r
<1>4. (r => p) /\ (r => Proper(k, D \ OwnSlots))
  BY <1>2, <1>3
<1>5. Holds(c, r, D)
  BY <1>1, <1>4, HoldsWeaker
<1>6. Holds(w, r, D \union B)
  BY <1>4, <1>5, ChunkHolds DEF B
<1>7. D \union B = OwnSlots \union DOMAIN Hear(k).args
  BY <1>2 DEF D
<1>8. B \cap OwnSlots = {}
  <2>1. k.tools \in Seq(Call)
    BY ChunkAssumption DEF Call
  <2>2. ASSUME NEW i \in 1..Len(k.tools)
        PROVE  k.tools[i].tool \notin OwnSlots
    <3>1. i \in DOMAIN k.tools
      BY <2>1
    <3>2. k.tools[i] \in Call
      BY <2>1, <3>1, ElementIn
    <3>3. k.tools[i].tool \in Range(Tools)
      BY <3>2 DEF Call
    <3> QED
      BY <3>3, ToolIsNotOwn
  <2> QED
    BY <2>2 DEF B, Called
<1>9. Adds(c, w)
  BY <1>1, ChunkAdds
<1>10. Prolongs(c.out, w.out) /\ Told(w, "completed") = Told(c, "completed") /\ w.completed = c.completed
  BY <1>1, <1>9, AddsLonger
<1>11. SaysAll(c, r)
  BY <1>1, <1>4, SaysWeaker
<1> HIDE DEF w
<1>12. SaysAll(w, r)
  BY <1>10, <1>11, SaysLonger
<1> QED
  BY <1>1, <1>2, <1>6, <1>7, <1>8, <1>10, <1>12 DEF w, r

\* Every step keeps the invariant.
LEMMA SStep == SInv /\ [StreamNext]_streamVars => SInv'
<1> SUFFICES ASSUME SInv, [StreamNext]_streamVars
             PROVE  SInv'
  OBVIOUS
<1>0. /\ VInv /\ VInv' /\ HeardTyped /\ SaysAll(c, heard.proper)
      /\ link = "open" => Verdict(c) /\ IsConverter(c)
  BY VStep DEF SInv, VInv, Replayed, Verdict
<1>1. ASSUME NEW b \in Block, NEW samePacket \in BOOLEAN, Arrive(b, samePacket)
      PROVE  SInv'
  <2> DEFINE waiting == Append(buffer, b)
             stays   == c.failed /\ samePacket
  <2>1. waiting \in Seq(Block) /\ waiting # <<>>
    BY <1>0 DEF VInv
  <2>2. Head(waiting) \in Block
    BY <2>1
  <2>3. /\ link = "open" /\ link' = link
        /\ c' = IF stays THEN c ELSE Handle(c, Head(waiting))
        /\ buffer' = IF stays THEN waiting ELSE Tail(waiting)
        /\ heard' = IF c.completed \/ b.type # "chunk" THEN heard ELSE Hear(b.chunk)
    BY <1>1 DEF Arrive
  <2>4. CASE c.completed
    <3>1. heard' = heard
      BY <2>3, <2>4
    <3>2. SaysAll(Handle(c, Head(waiting)), heard.proper) /\ Handle(c, Head(waiting)).completed
      <4> HIDE DEF waiting
      <4> QED
        BY <1>0, <2>2, <2>3, <2>4, HandleSays
    <3> HIDE DEF waiting
    <3>3. SaysAll(c', heard.proper) /\ c'.completed
      BY <1>0, <2>3, <2>4, <3>2
    <3> QED
      BY <1>0, <3>1, <3>3 DEF SInv, HeardTyped
  <2>5. CASE ~c.completed
    <3>1. /\ buffer = <<>> /\ Holds(c, heard.proper, OwnSlots \union DOMAIN heard.args) /\ ~c.failed
      BY <1>0, <2>3, <2>5 DEF SInv, Verdict
    <3>2. Head(waiting) = b /\ Tail(waiting) = <<>>
      BY <3>1
    <3> HIDE DEF waiting
    <3>3. c' = Handle(c, b) /\ buffer' = <<>>
      BY <2>3, <3>1, <3>2
    <3>4. b.type = "DONE" \/ b.type = "error" \/ (b.type = "chunk" /\ b.chunk \in Chunks)
      BY DEF Block
    <3>5. CASE b.type = "DONE"
      <4>1. c' = Finalize(c) /\ heard' = heard
        BY <2>3, <3>3, <3>5 DEF Handle
      <4>2. SaysAll(Finalize(c), heard.proper) /\ Finalize(c).completed
        BY <1>0, <2>3, <2>5, <3>1, FinalizeSays, FinalizeVerdict
      <4> HIDE DEF stays
      <4> QED
        BY <1>0, <4>1, <4>2 DEF SInv, HeardTyped
    <3>6. CASE b.type = "error"
      <4>1. c' = Fail(c) /\ heard' = heard
        BY <2>3, <3>3, <3>6 DEF Handle
      <4>2. Prolongs(c.out, Fail(c).out) /\ Told(Fail(c), "completed") = Told(c, "completed")
        BY <1>0, <2>3, FailLonger
      <4>3. SaysAll(Fail(c), heard.proper)
        BY <1>0, <4>2, SaysLonger
      <4>4. Fail(c).completed
        BY <1>0, <2>3, FailVerdict
      <4> QED
        BY <1>0, <4>1, <4>3, <4>4 DEF SInv, HeardTyped
    <3>7. CASE b.type = "chunk" /\ b.chunk \in Chunks
      <4>1. c' = HandleChunk(c, b.chunk) /\ heard' = Hear(b.chunk)
        BY <2>3, <2>5, <3>3, <3>7 DEF Handle
      <4>2. /\ Holds(HandleChunk(c, b.chunk), Hear(b.chunk).proper, OwnSlots \union DOMAIN Hear(b.chunk).args)
            /\ DOMAIN Hear(b.chunk).args \cap OwnSlots = {}
            /\ SaysAll(HandleChunk(c, b.chunk), Hear(b.chunk).proper)
        BY <2>3, <2>5, <3>7, HeardHolds
      <4>3. DOMAIN Hear(b.chunk) = DOMAIN heard
        BY <1>0, <3>7, HearIs
      <4>4. /\ Holds(c', heard'.proper, OwnSlots \union DOMAIN heard'.args)
            /\ DOMAIN heard'.args \cap OwnSlots = {} /\ SaysAll(c', heard'.proper)
            /\ DOMAIN heard' = DOMAIN heard
        BY <4>1, <4>2, <4>3
      <4> QED
        BY <1>0, <3>3, <4>4 DEF SInv, HeardTyped
    <3> QED
      BY <3>4, <3>5, <3>6, <3>7
  <2> QED
    BY <2>4, <2>5
<1>2. CASE End
  <2>1. link = "open" /\ link' = "closed" /\ c' = (IF c.failed THEN c ELSE Finalize(c)) /\ heard' = heard
    BY <1>2 DEF End
  <2>2. SaysAll(Finalize(c), heard.proper)
    <3>1. CASE c.completed
      BY <1>0, <3>1 DEF Finalize
    <3>2. CASE ~c.completed
      BY <1>0, <2>1, <3>2, FinalizeSays DEF SInv
    <3> QED
      BY <3>1, <3>2
  <2>3. SaysAll(c', heard.proper)
    BY <1>0, <2>1, <2>2
  <2> QED
    BY <1>0, <2>1, <2>3 DEF SInv, HeardTyped
<1>3. CASE Break
  <2>1. link = "open" /\ link' = "closed" /\ c' = Fail(c) /\ heard' = heard
    BY <1>3 DEF Break
  <2>2. Prolongs(c.out, Fail(c).out) /\ Told(Fail(c), "completed") = Told(c, "completed")
    BY <1>0, <2>1, FailLonger
  <2>3. SaysAll(Fail(c), heard.proper)
    BY <1>0, <2>2, SaysLonger
  <2> QED
    BY <1>0, <2>1, <2>3 DEF SInv, HeardTyped
<1>4. ASSUME NEW m \in Chunks, AnswerWhole(m)
      PROVE  SInv'
  <2>1. /\ link' = "closed" /\ c' = Replay(WholeItems(m)) /\ heard' = Hear(m)
        /\ \A i, j \in DOMAIN m.tools : m.tools[i].tool = m.tools[j].tool => i = j
    BY <1>4 DEF AnswerWhole
  <2>2. Replays(WholeItems(m))
    BY <2>1, WholeReplays
  <2>3. SaysAll(Replay(WholeItems(m)), Hear(m).proper) /\ DOMAIN Hear(m) = DOMAIN heard
    BY <1>0, <2>2, ReplaySays, HearIs
  <2>4. SaysAll(c', heard'.proper) /\ DOMAIN heard' = DOMAIN heard
    BY <2>1, <2>3
  <2> QED
    BY <1>0, <2>1, <2>4 DEF SInv, HeardTyped
<1>5. CASE AnswerBreaks
  <2>1. link' = "dropped" /\ UNCHANGED <<c, buffer, heard>>
    BY <1>5 DEF AnswerBreaks
  <2> QED
    BY <1>0, <2>1 DEF SInv, HeardTyped
<1>6. CASE UNCHANGED streamVars
  BY <1>0, <1>6 DEF streamVars, SInv, HeardTyped
<1> QED
  BY <1>1, <1>2, <1>3, <1>4, <1>5, <1>6 DEF StreamNext

\* The completed response says what was streamed: every item that was opened is in it, in the
\* order of the indices, with the text its deltas brought and, as far as the upstream is proper,
\* the id it was added with: what ChatSseState's finalize_into collects at the end.
THEOREM CompletedIsStreamedAlways == StreamSpec => []CompletedIsStreamed
<1>1. StreamSpec => []SInv
  BY SInit, SStep, PTL DEF StreamSpec
<1>2. SInv => CompletedIsStreamed
  <2>1. Told(c, "completed") = At(c.out, "completed")
    BY DEF Told, At
  <2> QED
    BY <2>1, SaysIs DEF SInv, SaysAll
<1> QED
  BY <1>1, <1>2, PTL

-----------------------------------------------------------------------------
(* What the cuts of an upstream do not change: texts.                        *)

\* The first of a set of positions, or 0 when there is none.
FirstOf(I) == IF I # {} THEN Min(I) ELSE 0

\* The first is one of them and none is before it.
LEMMA FirstIs ==
  ASSUME NEW n \in Nat, NEW I \in SUBSET (1..n)
  PROVE  \/ FirstOf(I) = 0 /\ I = {}
         \/ FirstOf(I) \in I /\ \A k \in I : FirstOf(I) <= k
<1>1. CASE I = {}
  BY <1>1 DEF FirstOf
<1>2. CASE I # {}
  <2>1. I \in SUBSET Nat
    OBVIOUS
  <2>2. PICK m \in I : \A k \in I : ~(k < m)
    BY <1>2, <2>1, Least
  <2>3. \A k \in I : m <= k
    BY <2>1, <2>2
  <2>4. Min(I) \in I /\ \A k \in I : Min(I) <= k
    BY <2>2, <2>3 DEF Min
  <2> QED
    BY <1>2, <2>4 DEF FirstOf
<1> QED
  BY <1>1, <1>2

\* A text, and the character that is white space.
Text == Seq(STRING)
Space == "_"

\* t is s without the white space before it.
TrimsTo(s, t) ==
  \/ t = <<>> /\ \A i \in 1..Len(s) : s[i] = Space
  \/ \E k \in 1..Len(s) : /\ s[k] # Space /\ \A i \in 1..k-1 : s[i] = Space
                          /\ t = SubSeq(s, k, Len(s))

\* TrimStart is that,
LEMMA TrimIs ==
  ASSUME NEW s \in Text
  PROVE  TrimsTo(s, TrimStart(s)) /\ TrimStart(s) \in Text
<1> DEFINE I == {i \in 1..Len(s) : s[i] # Space}
           k == FirstOf(I)
<1>1. Len(s) \in Nat
  BY DEF Text
<1>2. TrimStart(s) = IF k = 0 THEN <<>> ELSE SubSeq(s, k, Len(s))
  BY DEF TrimStart, SelectInSeq, FirstOf, Space
<1>3. (k = 0 /\ I = {}) \/ (k \in I /\ \A i \in I : k <= i)
  <2>1. I \in SUBSET (1..Len(s))
    OBVIOUS
  <2> HIDE DEF I
  <2> QED
    BY <1>1, <2>1, FirstIs
<1> HIDE DEF k
<1>4. TrimsTo(s, TrimStart(s))
  <2>1. CASE k = 0 /\ I = {}
    <3>1. \A i \in 1..Len(s) : s[i] = Space
      BY <2>1
    <3> QED
      BY <1>2, <2>1, <3>1 DEF TrimsTo
  <2>2. CASE k \in I /\ \A i \in I : k <= i
    <3>1. k \in 1..Len(s) /\ s[k] # Space /\ k # 0
      BY <1>1, <2>2
    <3>2. \A i \in 1..k-1 : i \in 1..Len(s) /\ ~(k <= i)
      BY <1>1, <3>1
    <3>3. \A i \in 1..k-1 : s[i] = Space
      BY <2>2, <3>2
    <3>4. TrimStart(s) = SubSeq(s, k, Len(s))
      BY <1>2, <3>1
    <3> QED
      BY <3>1, <3>3, <3>4 DEF TrimsTo
  <2> QED
    BY <1>3, <2>1, <2>2
<1> QED
  BY <1>4, TrimIn DEF Text

\* and nothing else is.
LEMMA TrimOne ==
  ASSUME NEW s \in Text, NEW t, NEW u, TrimsTo(s, t), TrimsTo(s, u)
  PROVE  t = u
<1>1. Len(s) \in Nat
  BY DEF Text
<1> DEFINE First(k) == k \in 1..Len(s) /\ s[k] # Space /\ \A i \in 1..k-1 : s[i] = Space
<1>2. ASSUME NEW k, NEW j, First(k), First(j)
      PROVE  k = j
  <2>1. k \in Nat /\ j \in Nat /\ k > 0 /\ j > 0
    BY <1>1, <1>2
  <2>2. ~(k < j) /\ ~(j < k)
    BY <1>2, <2>1
  <2> QED
    BY <2>1, <2>2
<1>3. \A k : First(k) => ~\A i \in 1..Len(s) : s[i] = Space
  OBVIOUS
<1>4. TrimsTo(s, t) <=> (t = <<>> /\ \A i \in 1..Len(s) : s[i] = Space) \/ \E k : First(k) /\ t = SubSeq(s, k, Len(s))
  BY DEF TrimsTo
<1>5. TrimsTo(s, u) <=> (u = <<>> /\ \A i \in 1..Len(s) : s[i] = Space) \/ \E k : First(k) /\ u = SubSeq(s, k, Len(s))
  BY DEF TrimsTo
<1> HIDE DEF First
<1> QED
  BY <1>2, <1>3, <1>4, <1>5

\* The parts of two texts in a row.
LEMMA JoinIs ==
  ASSUME NEW s \in Text, NEW d \in Text
  PROVE  /\ s \o d \in Text /\ Len(s \o d) = Len(s) + Len(d) /\ Len(s) \in Nat /\ Len(d) \in Nat
         /\ \A i \in 1..Len(s) : (s \o d)[i] = s[i]
         /\ \A i \in 1..Len(d) : (s \o d)[Len(s) + i] = d[i]
BY DEF Text

\* The end of two texts in a row, from a position in the first or in the second.
LEMMA JoinEnd ==
  ASSUME NEW s \in Text, NEW d \in Text
  PROVE  /\ \A k \in 1..Len(s) + 1 : SubSeq(s \o d, k, Len(s) + Len(d)) = SubSeq(s, k, Len(s)) \o d
         /\ \A k \in 1..Len(d) : SubSeq(s \o d, Len(s) + k, Len(s) + Len(d)) = SubSeq(d, k, Len(d))
<1>1. ASSUME NEW k \in 1..Len(s) + 1
      PROVE  SubSeq(s \o d, k, Len(s) + Len(d)) = SubSeq(s, k, Len(s)) \o d
  <2> DEFINE x == SubSeq(s \o d, k, Len(s) + Len(d))
             y == SubSeq(s, k, Len(s)) \o d
  <2>1. /\ Len(s) \in Nat /\ Len(d) \in Nat /\ s \o d \in Seq(STRING) /\ Len(s \o d) = Len(s) + Len(d)
        /\ s \in Seq(STRING) /\ d \in Seq(STRING)
    BY DEF Text
  <2>2. x \in Seq(STRING) /\ Len(x) = Len(s) + Len(d) - k + 1
    BY <2>1
  <2>3. SubSeq(s, k, Len(s)) \in Seq(STRING) /\ Len(SubSeq(s, k, Len(s))) = Len(s) - k + 1
    BY <2>1
  <2>4. y \in Seq(STRING) /\ Len(y) = Len(x)
    BY <2>1, <2>2, <2>3
  <2>5. ASSUME NEW i \in 1..Len(x)
        PROVE  x[i] = y[i]
    <3>1. x[i] = (s \o d)[k + i - 1]
      BY <2>1, <2>2
    <3>2. CASE k + i - 1 <= Len(s)
      <4>1. (s \o d)[k + i - 1] = s[k + i - 1]
        BY <2>1, <2>2, <3>2
      <4>2. SubSeq(s, k, Len(s))[i] = s[k + i - 1] /\ i <= Len(s) - k + 1
        BY <2>1, <2>2, <3>2
      <4>3. y[i] = SubSeq(s, k, Len(s))[i]
        BY <2>1, <2>2, <2>3, <4>2
      <4> QED
        BY <3>1, <4>1, <4>2, <4>3
    <3>3. CASE k + i - 1 > Len(s)
      <4>1. (s \o d)[k + i - 1] = d[k + i - 1 - Len(s)]
        BY <2>1, <2>2, <3>3
      <4>2. y[i] = d[i - (Len(s) - k + 1)]
        BY <2>1, <2>2, <2>3, <3>3
      <4> QED
        BY <2>1, <2>2, <3>1, <4>1, <4>2
    <3> QED
      BY <2>1, <2>2, <3>2, <3>3
  <2> HIDE DEF x, y
  <2>6. x = y
    BY <2>2, <2>4, <2>5
  <2> QED
    BY <2>6 DEF x, y
<1>2. ASSUME NEW k \in 1..Len(d)
      PROVE  SubSeq(s \o d, Len(s) + k, Len(s) + Len(d)) = SubSeq(d, k, Len(d))
  <2> DEFINE x == SubSeq(s \o d, Len(s) + k, Len(s) + Len(d))
             y == SubSeq(d, k, Len(d))
  <2>1. /\ Len(s) \in Nat /\ Len(d) \in Nat /\ s \o d \in Seq(STRING) /\ Len(s \o d) = Len(s) + Len(d)
        /\ s \in Seq(STRING) /\ d \in Seq(STRING)
    BY DEF Text
  <2>2. x \in Seq(STRING) /\ Len(x) = Len(d) - k + 1 /\ y \in Seq(STRING) /\ Len(y) = Len(x)
    BY <2>1
  <2>5. ASSUME NEW i \in 1..Len(x)
        PROVE  x[i] = y[i]
    BY <2>1, <2>2
  <2> HIDE DEF x, y
  <2>6. x = y
    BY <2>2, <2>5
  <2> QED
    BY <2>6 DEF x, y
<1> QED
  BY <1>1, <1>2

\* White space before two texts in a row is before the first, and before the second where
\* the first is nothing else.
LEMMA TrimJoin ==
  ASSUME NEW s \in Text, NEW d \in Text
  PROVE  TrimStart(s \o d) = IF TrimStart(s) = <<>> THEN TrimStart(d) ELSE TrimStart(s) \o d
<1> DEFINE x == s \o d
<1>0. /\ x \in Text /\ Len(x) = Len(s) + Len(d) /\ Len(s) \in Nat /\ Len(d) \in Nat
      /\ \A i \in 1..Len(s) : x[i] = s[i]
      /\ \A i \in 1..Len(d) : x[Len(s) + i] = d[i]
  BY JoinIs
<1>1. /\ TrimsTo(s, TrimStart(s)) /\ TrimsTo(d, TrimStart(d)) /\ TrimsTo(x, TrimStart(x))
      /\ TrimStart(d) \in Text
  BY <1>0, TrimIs
<1>2. /\ \A k \in 1..Len(s) + 1 : SubSeq(x, k, Len(x)) = SubSeq(s, k, Len(s)) \o d
      /\ \A k \in 1..Len(d) : SubSeq(x, Len(s) + k, Len(x)) = SubSeq(d, k, Len(d))
  BY <1>0, JoinEnd
<1> HIDE DEF x
<1>3. ASSUME NEW k \in 1..Len(s)
      PROVE  SubSeq(s, k, Len(s)) # <<>>
  <2>1. s \in Seq(STRING) /\ Len(SubSeq(s, k, Len(s))) = Len(s) - k + 1
    BY <1>0 DEF Text
  <2>2. Len(s) - k + 1 > 0
    BY <1>0
  <2> DEFINE y == SubSeq(s, k, Len(s))
  <2>3. Len(y) > 0
    BY <2>1, <2>2
  <2> HIDE DEF y
  <2>4. y # <<>>
    BY <2>3
  <2> QED
    BY <2>4 DEF y
<1>4. CASE TrimStart(s) = <<>>
  <2>1. \A i \in 1..Len(s) : s[i] = Space
    BY <1>1, <1>3, <1>4 DEF TrimsTo
  <2>2. TrimsTo(x, TrimStart(d))
    <3>1. CASE TrimStart(d) = <<>> /\ \A i \in 1..Len(d) : d[i] = Space
      <4>1. ASSUME NEW i \in 1..Len(x)
            PROVE  x[i] = Space
        <5>1. i \in 1..Len(s) \/ (i - Len(s) \in 1..Len(d) /\ i = Len(s) + (i - Len(s)))
          BY <1>0
        <5> QED
          BY <1>0, <2>1, <3>1, <5>1
      <4> QED
        BY <3>1, <4>1 DEF TrimsTo
    <3>2. CASE \E k \in 1..Len(d) : /\ d[k] # Space /\ \A i \in 1..k-1 : d[i] = Space
                                    /\ TrimStart(d) = SubSeq(d, k, Len(d))
      <4>1. PICK k \in 1..Len(d) : /\ d[k] # Space /\ \A i \in 1..k-1 : d[i] = Space
                                   /\ TrimStart(d) = SubSeq(d, k, Len(d))
        BY <3>2
      <4>2. /\ Len(s) + k \in 1..Len(x) /\ x[Len(s) + k] # Space
            /\ TrimStart(d) = SubSeq(x, Len(s) + k, Len(x))
        <5>1. Len(s) + k \in 1..Len(x)
          BY <1>0
        <5>2. x[Len(s) + k] = d[k]
          BY <1>0
        <5>3. SubSeq(x, Len(s) + k, Len(x)) = SubSeq(d, k, Len(d))
          BY <1>2
        <5> QED
          BY <4>1, <5>1, <5>2, <5>3
      <4>3. ASSUME NEW i \in 1..Len(s) + k - 1
            PROVE  x[i] = Space
        <5>1. i \in 1..Len(s) \/ (i - Len(s) \in 1..k-1 /\ i - Len(s) \in 1..Len(d) /\ i = Len(s) + (i - Len(s)))
          BY <1>0
        <5> QED
          BY <1>0, <2>1, <4>1, <5>1
      <4>4. \E n \in 1..Len(x) : /\ x[n] # Space /\ \A i \in 1..n-1 : x[i] = Space
                                 /\ TrimStart(d) = SubSeq(x, n, Len(x))
        BY <4>2, <4>3
      <4> QED
        BY <4>4 DEF TrimsTo
    <3> QED
      BY <1>1, <3>1, <3>2 DEF TrimsTo
  <2>3. TrimStart(x) = TrimStart(d)
    BY <1>0, <1>1, <2>2, TrimOne
  <2> QED
    BY <1>4, <2>3 DEF x
<1>5. CASE TrimStart(s) # <<>>
  <2>1. PICK k \in 1..Len(s) : /\ s[k] # Space /\ \A i \in 1..k-1 : s[i] = Space
                               /\ TrimStart(s) = SubSeq(s, k, Len(s))
    BY <1>1, <1>5 DEF TrimsTo
  <2>2. k \in 1..Len(x) /\ x[k] # Space /\ TrimStart(s) \o d = SubSeq(x, k, Len(x))
    <3>1. k \in 1..Len(s) + 1 /\ k \in 1..Len(x)
      BY <1>0
    <3>2. x[k] = s[k]
      BY <1>0
    <3>3. SubSeq(x, k, Len(x)) = SubSeq(s, k, Len(s)) \o d
      BY <1>2, <3>1
    <3> QED
      BY <2>1, <3>1, <3>2, <3>3
  <2>3. \A i \in 1..k-1 : x[i] = Space
    <3>1. \A i \in 1..k-1 : i \in 1..Len(s)
      BY <1>0
    <3> QED
      BY <1>0, <2>1, <3>1
  <2>4. TrimsTo(x, TrimStart(s) \o d)
    BY <2>2, <2>3 DEF TrimsTo
  <2>5. TrimStart(x) = TrimStart(s) \o d
    BY <1>0, <1>1, <2>4, TrimOne
  <2> QED
    BY <1>5, <2>5 DEF x
<1> QED
  BY <1>4, <1>5

\* There is no white space before a text without the white space before it.
LEMMA TrimTrim ==
  ASSUME NEW s \in Text
  PROVE  TrimStart(TrimStart(s)) = TrimStart(s)
<1> DEFINE t == TrimStart(s)
<1>1. TrimsTo(s, t) /\ t \in Text /\ Len(s) \in Nat
  BY TrimIs DEF Text
<1>2. TrimsTo(t, TrimStart(t))
  BY <1>1, TrimIs
<1> HIDE DEF t
<1>3. TrimsTo(t, t)
  <2>1. CASE t = <<>>
    BY <2>1 DEF TrimsTo
  <2>2. CASE t # <<>>
    <3>1. PICK k \in 1..Len(s) : s[k] # Space /\ t = SubSeq(s, k, Len(s))
      BY <1>1, <2>2 DEF TrimsTo
    <3>2. Len(t) \in Nat /\ 1 \in 1..Len(t) /\ t[1] = s[k] /\ SubSeq(t, 1, Len(t)) = t
      <4>1. s \in Seq(STRING) /\ t \in Seq(STRING) /\ k \in Nat /\ k > 0 /\ k <= Len(s)
        BY <1>1 DEF Text
      <4>2. Len(t) = Len(s) - k + 1 /\ t[1] = s[k]
        BY <1>1, <3>1, <4>1
      <4>3. Len(t) \in Nat /\ 1 <= Len(t) /\ SubSeq(t, 1, Len(t)) = t
        BY <1>1, <4>1, <4>2
      <4> QED
        BY <4>2, <4>3
    <3>3. \A i \in 1..1-1 : t[i] = Space
      OBVIOUS
    <3>4. t[1] # Space
      BY <3>1, <3>2
    <3> QED
      BY <3>2, <3>3, <3>4 DEF TrimsTo
  <2> QED
    BY <2>1, <2>2
<1> QED
  BY <1>1, <1>2, <1>3, TrimOne DEF t

\* Texts that differ in the white space before them still do no more than that when both go on.
LEMMA TrimOn ==
  ASSUME NEW s \in Text, NEW r \in Text, NEW d \in Text, TrimStart(s) = TrimStart(r)
  PROVE  TrimStart(s \o d) = TrimStart(r \o d)
BY TrimJoin

\* The beginning of two texts in a row.
LEMMA JoinStart ==
  ASSUME NEW s \in Text, NEW d \in Text, NEW k \in 0..Len(s)
  PROVE  SubSeq(s \o d, 1, k) = SubSeq(s, 1, k)
<1> DEFINE x == SubSeq(s \o d, 1, k)
           y == SubSeq(s, 1, k)
<1>1. /\ Len(s) \in Nat /\ Len(d) \in Nat /\ s \o d \in Seq(STRING) /\ Len(s \o d) = Len(s) + Len(d)
      /\ s \in Seq(STRING) /\ d \in Seq(STRING)
  BY DEF Text
<1>2. x \in Seq(STRING) /\ Len(x) = k /\ y \in Seq(STRING) /\ Len(y) = k
  BY <1>1
<1>3. ASSUME NEW i \in 1..k
      PROVE  x[i] = y[i]
  BY <1>1, <1>2
<1> HIDE DEF x, y
<1>4. x = y
  BY <1>2, <1>3
<1> QED
  BY <1>4 DEF x, y

(* The think block. *)

\* The closing tag begins at i.
Shuts(b, i) == b[i] = "c1" /\ b[i + 1] = "c2"

\* n is the first such position, or 0.
ClosesAt(b, n) ==
  \/ n = 0 /\ \A i \in 1..Len(b)-1 : ~Shuts(b, i)
  \/ n \in 1..Len(b)-1 /\ Shuts(b, n) /\ \A i \in 1..n-1 : ~Shuts(b, i)

\* There is one such position.
LEMMA ClosesOnce ==
  ASSUME NEW b \in Text, NEW n, NEW m, ClosesAt(b, n), ClosesAt(b, m)
  PROVE  n = m
<1>1. Len(b) \in Nat
  BY DEF Text
<1> QED
  BY <1>1 DEF ClosesAt

\* CloseAt is it, in the body of the block, which is a text.
LEMMA CloseAtIs ==
  ASSUME NEW s \in Text
  PROVE  Body(s) \in Text /\ ClosesAt(Body(s), CloseAt(s))
<1> DEFINE b == Body(s)
           n == CloseAt(s)
<1>2. b \in Text
  <2> DEFINE t == TrimStart(s)
  <2>1. t \in Seq(STRING)
    BY TrimIs DEF Text
  <2>2. b = SubSeq(t, 3, Len(t))
    BY DEF Body
  <2> HIDE DEF t, b
  <2>3. 3 \in Nat /\ 3 > 0 /\ Len(t) \in Int /\ Len(t) <= Len(t)
    BY <2>1
  <2> QED
    BY <2>1, <2>2, <2>3, PieceIn DEF Text
<1>3. ClosesAt(b, n)
  <2> DEFINE q == [i \in DOMAIN b |-> <<b[i], IF i < Len(b) THEN b[i + 1] ELSE "">>]
             I == {i \in 1..Len(q) : q[i] = <<"c1", "c2">>}
  <2>1. n = FirstOf(I)
    BY DEF CloseAt, SelectInSeq, FirstOf
  <2> HIDE DEF b
  <2>2. DOMAIN b = 1..Len(b) /\ Len(b) \in Nat
    BY <1>2 DEF Text
  <2>3. Len(q) = Len(b)
    BY <2>2
  <2>4. ASSUME NEW i \in 1..Len(b)
        PROVE  q[i] = <<"c1", "c2">> <=> i \in 1..Len(b)-1 /\ Shuts(b, i)
    <3>1. q[i] = <<b[i], IF i < Len(b) THEN b[i + 1] ELSE "">>
      BY <2>2
    <3>2. CASE i < Len(b)
      <4>1. q[i] = <<b[i], b[i + 1]>> /\ i \in 1..Len(b)-1
        BY <2>2, <3>1, <3>2
      <4> HIDE DEF q
      <4> QED
        BY <4>1 DEF Shuts
    <3>3. CASE ~(i < Len(b))
      <4>1. i \notin 1..Len(b)-1
        BY <2>2, <3>3
      <4>2. q[i] = <<b[i], "">>
        BY <3>1, <3>3
      <4>3. "" # "c2"
        OBVIOUS
      <4>4. \A x : <<x, "">> # <<"c1", "c2">>
        BY <4>3
      <4> HIDE DEF q
      <4> QED
        BY <4>1, <4>2, <4>4
    <3> QED
      BY <3>2, <3>3
  <2> HIDE DEF q
  <2>5. I \in SUBSET (1..Len(b))
    BY <2>3
  <2>6. \A i : i \in I <=> i \in 1..Len(b)-1 /\ Shuts(b, i)
    <3>1. \A i \in 1..Len(b)-1 : i \in 1..Len(b)
      BY <2>2
    <3> QED
      BY <2>3, <2>4, <3>1
  <2> HIDE DEF I, n
  <2>7. (n = 0 /\ I = {}) \/ (n \in I /\ \A k \in I : n <= k)
    BY <2>1, <2>2, <2>5, FirstIs
  <2>8. CASE n = 0 /\ I = {}
    BY <2>6, <2>8 DEF ClosesAt
  <2>9. CASE n \in I /\ \A k \in I : n <= k
    <3>1. n \in 1..Len(b)-1 /\ Shuts(b, n)
      BY <2>6, <2>9
    <3>2. \A i \in 1..n-1 : i \in 1..Len(b)-1 /\ ~(n <= i)
      BY <2>2, <3>1
    <3>3. \A i \in 1..n-1 : ~Shuts(b, i)
      BY <2>6, <2>9, <3>2
    <3> QED
      BY <3>1, <3>3 DEF ClosesAt
  <2> QED
    BY <2>7, <2>8, <2>9
<1> QED
  BY <1>2, <1>3

\* What follows the closing tag.
Rest(s) == SubSeq(Body(s), CloseAt(s) + 2, Len(Body(s)))

\* The parts of a text with a think block are texts.
LEMMA PartsIn ==
  ASSUME NEW s \in Text
  PROVE  /\ Rest(s) \in Text /\ SplitAnswer(s) = TrimStart(Rest(s)) /\ SplitAnswer(s) \in Text
         /\ SplitReasoning(s) \in Text /\ Body(s) \in Text /\ Trim(Body(s)) \in Text
<1> DEFINE b == Body(s)
           n == CloseAt(s)
<1>1. b \in Text /\ ClosesAt(b, n)
  BY CloseAtIs
<1>2. SplitReasoning(s) = Trim(SubSeq(b, 1, n - 1)) /\ SplitAnswer(s) = TrimStart(Rest(s))
  BY DEF SplitReasoning, SplitAnswer, Rest
<1>3. Rest(s) = SubSeq(b, n + 2, Len(b))
  BY DEF Rest
<1> HIDE DEF b, n
<1>4. Len(b) \in Nat
  BY <1>1 DEF Text
<1>5. n \in Nat /\ n <= Len(b)
  BY <1>1, <1>4 DEF ClosesAt
<1>6. 1 \in Nat /\ 1 > 0 /\ n - 1 \in Int /\ n - 1 <= Len(b) /\ n + 2 \in Nat /\ n + 2 > 0 /\ Len(b) \in Int /\ Len(b) <= Len(b)
  BY <1>4, <1>5
<1>7. SubSeq(b, 1, n - 1) \in Seq(STRING) /\ SubSeq(b, n + 2, Len(b)) \in Seq(STRING)
  BY <1>1, <1>6, PieceIn DEF Text
<1>8. Rest(s) \in Seq(STRING) /\ b \in Seq(STRING)
  BY <1>1, <1>3, <1>7 DEF Text
<1>9. Trim(SubSeq(b, 1, n - 1)) \in Seq(STRING) /\ TrimStart(Rest(s)) \in Seq(STRING) /\ Trim(b) \in Seq(STRING)
  BY <1>7, <1>8, TrimIn
<1> QED
  BY <1>2, <1>8, <1>9 DEF Text, b

\* A think block that has begun goes on.
LEMMA BodyOn ==
  ASSUME NEW s \in Text, NEW d \in Text, Opens(TrimStart(s))
  PROVE  Opens(TrimStart(s \o d)) /\ Body(s \o d) = Body(s) \o d
<1> DEFINE t == TrimStart(s)
<1>1. t \in Text /\ Opens(t)
  BY TrimIs
<1>2. TrimStart(s \o d) = IF t = <<>> THEN TrimStart(d) ELSE t \o d
  BY TrimJoin
<1>3. Body(s) = SubSeq(t, 3, Len(t)) /\ Body(s \o d) = SubSeq(TrimStart(s \o d), 3, Len(TrimStart(s \o d)))
  BY DEF Body
<1> HIDE DEF t
<1>4. Len(t) \in Nat /\ Len(t) >= 2 /\ t # <<>>
  <2>1. Len(t) \in Nat /\ Len(t) >= 2
    BY <1>1 DEF Text, Opens
  <2> QED
    BY <2>1
<1>5. TrimStart(s \o d) = t \o d
  BY <1>2, <1>4
<1>6. /\ Len(t \o d) = Len(t) + Len(d) /\ Len(d) \in Nat /\ (t \o d)[1] = t[1] /\ (t \o d)[2] = t[2]
  <2>1. 1 \in 1..Len(t) /\ 2 \in 1..Len(t)
    BY <1>4
  <2> QED
    BY <1>1, <2>1, JoinIs
<1>7. Opens(t \o d)
  <2>1. Len(t \o d) >= 2
    BY <1>4, <1>6
  <2> QED
    BY <1>1, <1>6, <2>1 DEF Opens
<1>8. SubSeq(t \o d, 3, Len(t \o d)) = SubSeq(t, 3, Len(t)) \o d
  <2>1. 3 \in 1..Len(t) + 1
    BY <1>4
  <2> QED
    BY <1>1, <1>6, <2>1, JoinEnd
<1> QED
  BY <1>3, <1>5, <1>7, <1>8

\* A think block that is closed stays closed where it is, whatever follows.
LEMMA ThinkOn ==
  ASSUME NEW s \in Text, NEW d \in Text, Thinks(s)
  PROVE  /\ Thinks(s \o d) /\ SplitReasoning(s \o d) = SplitReasoning(s)
         /\ Rest(s \o d) = Rest(s) \o d
<1> DEFINE b == Body(s)
           n == CloseAt(s)
<1>1. Opens(TrimStart(s)) /\ n # 0
  BY DEF Thinks
<1>2. Opens(TrimStart(s \o d)) /\ Body(s \o d) = b \o d
  BY <1>1, BodyOn
<1>3. s \o d \in Text
  BY JoinIs
<1>4. b \in Text /\ ClosesAt(b, n) /\ ClosesAt(b \o d, CloseAt(s \o d))
  BY <1>2, <1>3, CloseAtIs
<1>5. /\ SplitReasoning(s) = Trim(SubSeq(b, 1, n - 1)) /\ Rest(s) = SubSeq(b, n + 2, Len(b))
      /\ SplitReasoning(s \o d) = Trim(SubSeq(b \o d, 1, CloseAt(s \o d) - 1))
      /\ Rest(s \o d) = SubSeq(b \o d, CloseAt(s \o d) + 2, Len(b \o d))
  BY <1>2 DEF SplitReasoning, Rest
<1> HIDE DEF b, n
<1>6. /\ b \o d \in Text /\ Len(b \o d) = Len(b) + Len(d) /\ Len(b) \in Nat /\ Len(d) \in Nat
      /\ \A i \in 1..Len(b) : (b \o d)[i] = b[i]
  BY <1>4, JoinIs
<1>7. n \in 1..Len(b)-1 /\ Shuts(b, n) /\ \A i \in 1..n-1 : ~Shuts(b, i)
  BY <1>1, <1>4 DEF ClosesAt
<1>8. ASSUME NEW i \in 1..Len(b)-1
      PROVE  Shuts(b \o d, i) <=> Shuts(b, i)
  <2>1. i \in 1..Len(b) /\ i + 1 \in 1..Len(b)
    BY <1>6
  <2> QED
    BY <1>6, <2>1 DEF Shuts
<1>9. ClosesAt(b \o d, n)
  <2>1. n \in 1..Len(b \o d)-1 /\ \A i \in 1..n-1 : i \in 1..Len(b)-1
    BY <1>6, <1>7
  <2> QED
    BY <1>7, <1>8, <2>1 DEF ClosesAt
<1>10. CloseAt(s \o d) = n
  BY <1>4, <1>6, <1>9, ClosesOnce
<1>11. SubSeq(b \o d, 1, n - 1) = SubSeq(b, 1, n - 1)
  <2>1. n - 1 \in 0..Len(b)
    BY <1>6, <1>7
  <2> QED
    BY <1>4, <2>1, JoinStart
<1>12. SubSeq(b \o d, n + 2, Len(b \o d)) = SubSeq(b, n + 2, Len(b)) \o d
  <2>1. n + 2 \in 1..Len(b) + 1
    BY <1>6, <1>7
  <2>2. SubSeq(b \o d, n + 2, Len(b) + Len(d)) = SubSeq(b, n + 2, Len(b)) \o d
    BY <1>4, <2>1, JoinEnd
  <2> QED
    BY <1>6, <2>2
<1>13. Thinks(s \o d)
  BY <1>1, <1>2, <1>10 DEF Thinks
<1> QED
  BY <1>5, <1>10, <1>11, <1>12, <1>13

(* What a stream makes of the content before the first call. *)

\* A think block that is still open.
Cut(B) == Opens(TrimStart(B)) /\ ~Thinks(B)

\* Its text and its reasoning.
AnswerOf(B) == IF Cut(B) THEN <<>> ELSE IF Thinks(B) THEN SplitAnswer(B) ELSE B
ThoughtOf(B) == IF Cut(B) THEN Trim(Body(B)) ELSE IF Thinks(B) THEN SplitReasoning(B) ELSE <<>>

\* No more content can change which is which.
Decided(B) == Thinks(B) \/ PrefixDecision(B) = "text"

\* Both are texts.
LEMMA AnswerIn ==
  ASSUME NEW B \in Text
  PROVE  AnswerOf(B) \in Text /\ ThoughtOf(B) \in Text
<1>1. <<>> \in Text
  BY DEF Text
<1> QED
  BY <1>1, PartsIn DEF AnswerOf, ThoughtOf

\* What PrefixDecision decides.
LEMMA PrefixIs ==
  ASSUME NEW B
  PROVE  /\ PrefixDecision(B) = "reasoning" <=> Opens(TrimStart(B))
         /\ PrefixDecision(B) = "more" => ~Opens(TrimStart(B))
         /\ PrefixDecision(B) = "text" <=> ~Opens(TrimStart(B)) /\ TrimStart(B) # <<>> /\ TrimStart(B) # <<"o1">>
         /\ PrefixDecision(B) \in {"more", "reasoning", "text"}
BY DEF PrefixDecision

\* Text stays text.
LEMMA TextOn ==
  ASSUME NEW B \in Text, NEW d \in Text, PrefixDecision(B) = "text"
  PROVE  PrefixDecision(B \o d) = "text"
<1> DEFINE t == TrimStart(B)
<1>1. t \in Text /\ ~Opens(t) /\ t # <<>> /\ t # <<"o1">>
  BY TrimIs, PrefixIs
<1>2. TrimStart(B \o d) = t \o d
  BY <1>1, TrimJoin
<1> HIDE DEF t
<1>3. /\ Len(t \o d) = Len(t) + Len(d) /\ Len(d) \in Nat /\ Len(t) \in Nat
      /\ \A i \in 1..Len(t) : (t \o d)[i] = t[i]
  BY <1>1, JoinIs
<1>4. Len(t) >= 1
  <2>1. t \in Seq(STRING)
    BY <1>1 DEF Text
  <2> QED
    BY <1>1, <2>1
<1>5. (t \o d)[1] = t[1]
  BY <1>3, <1>4
<1>6. CASE Len(t) >= 2
  <2>1. (t \o d)[2] = t[2] /\ Len(t \o d) >= 2
    BY <1>3, <1>6
  <2>2. ~Opens(t \o d)
    BY <1>1, <1>5, <1>6, <2>1 DEF Opens
  <2>3. t \o d # <<>> /\ t \o d # <<"o1">>
    BY <2>1
  <2> QED
    BY <1>2, <2>2, <2>3, PrefixIs
<1>7. CASE Len(t) = 1
  <2>1. t[1] # "o1"
    <3>1. t \in Seq(STRING)
      BY <1>1 DEF Text
    <3>2. t = <<t[1]>>
      BY <1>7, <3>1
    <3> QED
      BY <1>1, <3>2
  <2>2. ~Opens(t \o d)
    BY <1>5, <2>1 DEF Opens
  <2> DEFINE u == t \o d
  <2>3. Len(u) >= 1 /\ u[1] # "o1"
    BY <1>3, <1>4, <1>5, <2>1
  <2> HIDE DEF u
  <2>4. u # <<>> /\ u # <<"o1">>
    BY <2>3
  <2> USE DEF u
  <2> QED
    BY <1>2, <2>2, <2>4, PrefixIs
<1> QED
  BY <1>3, <1>4, <1>6, <1>7

\* What is decided stays so, and more content is more text.
LEMMA AnswerOn ==
  ASSUME NEW B \in Text, NEW d \in Text, Decided(B)
  PROVE  /\ Decided(B \o d) /\ ThoughtOf(B \o d) = ThoughtOf(B)
         /\ TrimStart(AnswerOf(B \o d)) = TrimStart(AnswerOf(B) \o d)
<1>1. B \o d \in Text
  BY JoinIs
<1>2. CASE Thinks(B)
  <2>1. /\ Thinks(B \o d) /\ SplitReasoning(B \o d) = SplitReasoning(B)
        /\ Rest(B \o d) = Rest(B) \o d
    BY <1>2, ThinkOn
  <2>2. /\ AnswerOf(B) = TrimStart(Rest(B)) /\ AnswerOf(B \o d) = TrimStart(Rest(B \o d))
        /\ ThoughtOf(B) = SplitReasoning(B) /\ ThoughtOf(B \o d) = SplitReasoning(B \o d)
    BY <1>1, <1>2, <2>1, PartsIn DEF AnswerOf, ThoughtOf, Cut
  <2> DEFINE r == Rest(B)
             t == TrimStart(r)
  <2>3. r \in Text /\ t \in Text
    BY PartsIn, TrimIs
  <2>4. TrimStart(t) = TrimStart(r)
    BY <2>3, TrimTrim
  <2>5. r \o d \in Text
    BY <2>3, JoinIs
  <2>6. TrimStart(TrimStart(r \o d)) = TrimStart(r \o d)
    BY <2>5, TrimTrim
  <2> HIDE DEF t
  <2>7. TrimStart(t \o d) = TrimStart(r \o d)
    BY <2>3, <2>4, TrimOn
  <2>8. TrimStart(AnswerOf(B \o d)) = TrimStart(AnswerOf(B) \o d)
    BY <2>1, <2>2, <2>6, <2>7 DEF t
  <2> QED
    BY <2>1, <2>2, <2>8 DEF Decided
<1>3. CASE PrefixDecision(B) = "text"
  <2>1. PrefixDecision(B \o d) = "text"
    BY <1>3, TextOn
  <2>2. \A x : PrefixDecision(x) = "text" => AnswerOf(x) = x /\ ThoughtOf(x) = <<>>
    BY PrefixIs DEF AnswerOf, ThoughtOf, Cut, Thinks
  <2> QED
    BY <1>3, <2>1, <2>2 DEF Decided
<1> QED
  BY <1>2, <1>3 DEF Decided

\* Texts in a row, however they are grouped, and with nothing.
LEMMA JoinJoin ==
  ASSUME NEW s \in Text, NEW d \in Text, NEW e \in Text
  PROVE  (s \o d) \o e = s \o (d \o e)
<1> DEFINE x == (s \o d) \o e
           y == s \o (d \o e)
<1>1. s \in Seq(STRING) /\ d \in Seq(STRING) /\ e \in Seq(STRING)
  BY DEF Text
<1>2. s \o d \in Seq(STRING) /\ Len(s \o d) = Len(s) + Len(d) /\ d \o e \in Seq(STRING) /\ Len(d \o e) = Len(d) + Len(e)
  BY <1>1
<1>3. x \in Seq(STRING) /\ y \in Seq(STRING) /\ Len(x) = Len(y) /\ Len(y) = Len(s) + (Len(d) + Len(e))
  BY <1>1, <1>2
<1>4. ASSUME NEW i \in 1..Len(x)
      PROVE  x[i] = y[i]
  BY <1>1, <1>2, <1>3
<1> HIDE DEF x, y
<1>5. x = y
  BY <1>3, <1>4
<1> QED
  BY <1>5 DEF x, y

\* Nothing before a text or after it leaves the text.
LEMMA JoinNone ==
  ASSUME NEW s \in Text
  PROVE  s \o <<>> = s /\ <<>> \o s = s /\ <<>> \in Text
BY DEF Text

-----------------------------------------------------------------------------
(* What the methods of the converter do to the texts of its items.           *)

\* Closed items are told as they are; only reasoning that came in a field may go on after.
Kept(v, f) == \A j \in DOMAIN v.output : v.output[j].slot # "reasoning" \/ ~f =>
                v.output[j].content = v.items[v.output[j].slot].content

\* Until the end, it does not close a text or a call, and no text is without its item.
Tidy(v, f) ==
  /\ Kept(v, f)
  /\ \A s \in OwnSlots : v.items[s].content \in Text /\ (~Added(v, s) => v.items[s].content = <<>>)
  /\ \A s \in DOMAIN v.items : v.items[s].done => s = "reasoning"

\* Both together, whatever the habits of the upstream.
Anyhow == FALSE
Sound(v, f, D) == Holds(v, Anyhow, D) /\ Tidy(v, f)

\* What it reads with is what it was.
Still(v, w) == w.mode = v.mode /\ w.think = v.think

\* The text of s is longer by d, and its item added.
Wrote(v, w, s, d) ==
  /\ Still(v, w) /\ w.output = v.output
  /\ DOMAIN w.items = DOMAIN v.items /\ \A x \in DOMAIN v.items \ {s} : w.items[x] = v.items[x]
  /\ w.items[s].content = v.items[s].content \o d /\ w.items[s].done = v.items[s].done
  /\ Added(w, s)

\* The item of s is closed, or nothing happens.
Ended(v, w, s) ==
  /\ Still(v, w)
  /\ DOMAIN w.items = DOMAIN v.items /\ \A x \in DOMAIN v.items \ {s} : w.items[x] = v.items[x]
  /\ w.items[s].content = v.items[s].content /\ w.items[s].index = v.items[s].index
  /\ \/ w.output = v.output
     \/ \E o : w.output = Append(v.output, o) /\ o.slot = s /\ o.content = v.items[s].content

\* An event is none of the texts.
LEMMA EmitStill ==
  ASSUME NEW v, IsConverter(v), NEW e
  PROVE  Still(v, Emit(v, e))
BY EmitRest DEF Still

\* Nor is a new item.
LEMMA OpenStill ==
  ASSUME NEW v, Typed(v), NEW s \in DOMAIN v.items
  PROVE  Still(v, Open(v, s))
<1> DEFINE a == [v EXCEPT !.next = @ + 1, !.items[s].index = v.next + 1]
           e == [type |-> "added", slot |-> s, id |-> v.items[s].id, index |-> v.next + 1]
<1>1. IsConverter(v)
  BY DEF Typed
<1>2. a.mode = v.mode /\ a.think = v.think /\ IsConverter(a)
  BY <1>1 DEF IsConverter
<1>3. Open(v, s) = v \/ Open(v, s) = Emit(a, e)
  BY DEF Open
<1> HIDE DEF a, e
<1>4. Still(a, Emit(a, e))
  BY <1>2, EmitStill
<1> QED
  BY <1>2, <1>3, <1>4 DEF Still

\* Push writes.
LEMMA PushWrites ==
  ASSUME NEW v, NEW D, Holds(v, Anyhow, D), NEW s \in OwnSlots, NEW d
  PROVE  Wrote(v, Push(v, s, d), s, d)
<1> DEFINE o == Open(v, s)
           i == [o.items[s] EXCEPT !.content = @ \o d]
           a == [o EXCEPT !.items[s] = i]
           e == [type |-> "delta", slot |-> s, text |-> d]
           w == Emit(a, e)
<1>1. s \in DOMAIN v.items /\ InStep(v, Anyhow, {}) /\ Typed(v) /\ {} \subseteq {s}
  BY HoldsFacts DEF InStep
<1>2. /\ InStep(o, Anyhow, {}) /\ Added(o, s) /\ DOMAIN o.items = DOMAIN v.items
      /\ \A x \in DOMAIN v.items \ {s} : o.items[x] = v.items[x]
      /\ o.items[s].content = v.items[s].content /\ o.items[s].done = v.items[s].done
  BY <1>1, OpenInStep
<1>3. Still(v, o) /\ o.output = v.output
  BY <1>1, OpenStill, OpenIs DEF Opening
<1>4. Push(v, s, d) = w
  BY DEF Push, Delta
<1> HIDE DEF o
<1>5. /\ IsConverter(o) /\ s \in DOMAIN o.items
      /\ DOMAIN o.items[s] = {"index", "id", "name", "content", "done"}
  BY <1>1, <1>2 DEF InStep, Typed
<1>6. i.content = o.items[s].content \o d /\ i.done = o.items[s].done /\ i.index = o.items[s].index
  BY <1>5
<1>7. a.mode = o.mode /\ a.think = o.think
  BY <1>5 DEF IsConverter
<1> HIDE DEF i
<1>8. /\ IsConverter(a) /\ a.output = o.output
      /\ DOMAIN a.items = DOMAIN o.items /\ a.items[s] = i
      /\ \A x \in DOMAIN o.items \ {s} : a.items[x] = o.items[x]
  BY <1>5, ItemSet
<1> HIDE DEF a, e
<1>9. w.items = a.items /\ w.output = a.output /\ w.mode = a.mode /\ w.think = a.think
  BY <1>8, EmitRest
<1> HIDE DEF w
<1>10. Still(v, w) /\ w.output = v.output
  BY <1>3, <1>7, <1>8, <1>9 DEF Still
<1>11. DOMAIN w.items = DOMAIN v.items /\ \A x \in DOMAIN v.items \ {s} : w.items[x] = v.items[x]
  BY <1>2, <1>8, <1>9
<1>12. w.items[s].content = v.items[s].content \o d /\ w.items[s].done = v.items[s].done
  BY <1>2, <1>6, <1>8, <1>9
<1>13. Added(w, s)
  BY <1>2, <1>6, <1>8, <1>9 DEF Added
<1>14. Wrote(v, w, s, d)
  BY <1>10, <1>11, <1>12, <1>13 DEF Wrote
<1> QED
  BY <1>4, <1>14

\* Close ends.
LEMMA CloseEnds ==
  ASSUME NEW v, Typed(v), NEW s \in DOMAIN v.items
  PROVE  Ended(v, Close(v, s), s)
<1> DEFINE o == [slot |-> s, index |-> v.items[s].index, id |-> v.items[s].id, content |-> v.items[s].content]
           a == [v EXCEPT !.items[s].done = TRUE, !.output = Append(@, o)]
           e == [type |-> "done", slot |-> s]
           w == Close(v, s)
<1>1. IsConverter(v)
  BY DEF Typed
<1>2. a.mode = v.mode /\ a.think = v.think /\ IsConverter(a)
  BY <1>1 DEF IsConverter
<1>3. w = v \/ w = Emit(a, e)
  BY DEF Close
<1>4. o.slot = s /\ o.content = v.items[s].content
  OBVIOUS
<1>5. w = v \/ Closing(v, w, s)
  BY CloseIs
<1> HIDE DEF w, a, e
<1>6. Still(v, w)
  <2>1. Still(a, Emit(a, e))
    BY <1>2, EmitStill
  <2> QED
    BY <1>2, <1>3, <2>1 DEF Still
<1>7. Ended(v, w, s)
  <2>1. CASE w = v
    <3>1. /\ DOMAIN w.items = DOMAIN v.items /\ \A x \in DOMAIN v.items \ {s} : w.items[x] = v.items[x]
          /\ w.items[s].content = v.items[s].content /\ w.items[s].index = v.items[s].index
      BY <2>1
    <3>2. w.output = v.output
      BY <2>1
    <3> QED
      BY <1>6, <3>1, <3>2 DEF Ended
  <2>2. CASE Closing(v, w, s)
    <3>1. w.output = Append(v.output, o)
      BY <2>2 DEF Closing
    <3> HIDE DEF o
    <3>2. /\ DOMAIN w.items = DOMAIN v.items /\ \A x \in DOMAIN v.items \ {s} : w.items[x] = v.items[x]
          /\ w.items[s].content = v.items[s].content /\ w.items[s].index = v.items[s].index
      BY <2>2 DEF Closing
    <3>3. \E x : w.output = Append(v.output, x) /\ x.slot = s /\ x.content = v.items[s].content
      BY <1>4, <3>1
    <3> QED
      BY <1>6, <3>2, <3>3 DEF Ended
  <2> QED
    BY <1>5, <2>1, <2>2
<1> QED
  BY <1>7 DEF w

\* No item but that of reasoning is closed yet.
LEMMA OnlyReasoning ==
  ASSUME NEW v, NEW f, NEW D, Sound(v, f, D), NEW j \in DOMAIN v.output
  PROVE  v.output[j].slot = "reasoning" /\ v.items["reasoning"].done /\ "reasoning" \in DOMAIN v.items
<1>1. Shut(v, Anyhow, v.output[j])
  BY DEF Sound, Holds, InStep, Listed
<1> QED
  BY <1>1 DEF Shut, Sound, Tidy

\* Writing keeps it, where the reasoning is still open or came in a field.
LEMMA WroteTidy ==
  ASSUME NEW v, NEW f, NEW D, Sound(v, f, D), NEW s \in OwnSlots, NEW d \in Text, NEW w, Wrote(v, w, s, d),
         s = "reasoning" => f \/ ~v.items[s].done
  PROVE  Tidy(w, f)
<1>1. s \in DOMAIN v.items /\ OwnSlots \subseteq DOMAIN v.items
  BY HoldsFacts DEF Sound, Holds
<1>2. Kept(w, f)
  <2> SUFFICES ASSUME NEW j \in DOMAIN w.output, w.output[j].slot # "reasoning" \/ ~f
               PROVE  w.output[j].content = w.items[w.output[j].slot].content
    BY DEF Kept
  <2>1. w.output = v.output
    BY DEF Wrote
  <2>2. w.output[j].slot = "reasoning" /\ v.items["reasoning"].done /\ "reasoning" \in DOMAIN v.items
    BY <2>1, OnlyReasoning
  <2>3. s # "reasoning"
    BY <2>2
  <2>4. w.items["reasoning"] = v.items["reasoning"]
    BY <2>2, <2>3 DEF Wrote
  <2>5. v.output[j].content = v.items[v.output[j].slot].content
    BY <2>1 DEF Sound, Tidy, Kept
  <2> QED
    BY <2>1, <2>2, <2>4, <2>5
<1>3. ASSUME NEW x \in OwnSlots
      PROVE  w.items[x].content \in Text /\ (~Added(w, x) => w.items[x].content = <<>>)
  <2>1. v.items[x].content \in Text /\ (~Added(v, x) => v.items[x].content = <<>>)
    BY DEF Sound, Tidy
  <2>2. CASE x = s
    <3>1. v.items[x].content \o d \in Text
      BY <2>1, JoinIs
    <3> QED
      BY <2>2, <3>1 DEF Wrote
  <2>3. CASE x # s
    <3>1. w.items[x] = v.items[x]
      BY <1>1, <2>3 DEF Wrote
    <3> QED
      BY <2>1, <3>1 DEF Added
  <2> QED
    BY <2>2, <2>3
<1>4. ASSUME NEW x \in DOMAIN w.items, w.items[x].done
      PROVE  x = "reasoning"
  <2>1. x \in DOMAIN v.items /\ v.items[x].done
    BY <1>4 DEF Wrote
  <2> QED
    BY <2>1 DEF Sound, Tidy
<1> QED
  BY <1>2, <1>3, <1>4 DEF Tidy

\* The closed items are a list, each of a slot that has an item.
Slotted(v) == /\ \E S : v.output \in Seq(S)
              /\ \A j \in DOMAIN v.output : v.output[j].slot \in DOMAIN v.items

\* The end of an item keeps what the closed ones tell.
LEMMA EndedKept ==
  ASSUME NEW v, NEW f, Kept(v, f), Slotted(v), NEW s \in DOMAIN v.items, NEW w, Ended(v, w, s)
  PROVE  Kept(w, f)
<1> SUFFICES ASSUME NEW j \in DOMAIN w.output, w.output[j].slot # "reasoning" \/ ~f
             PROVE  w.output[j].content = w.items[w.output[j].slot].content
  BY DEF Kept
<1>1. \A x \in DOMAIN v.items : w.items[x].content = v.items[x].content
  BY DEF Ended
<1>2. ASSUME j \in DOMAIN v.output, w.output[j] = v.output[j]
      PROVE  w.output[j].content = w.items[w.output[j].slot].content
  <2>1. v.output[j].slot \in DOMAIN v.items
    BY <1>2 DEF Slotted
  <2>2. v.output[j].content = v.items[v.output[j].slot].content
    BY <1>2 DEF Kept
  <2> QED
    BY <1>1, <1>2, <2>1, <2>2
<1>3. CASE w.output = v.output
  BY <1>2, <1>3
<1>4. CASE \E o : w.output = Append(v.output, o) /\ o.slot = s /\ o.content = v.items[s].content
  <2>1. PICK o : w.output = Append(v.output, o) /\ o.slot = s /\ o.content = v.items[s].content
    BY <1>4
  <2>2. PICK S : v.output \in Seq(S)
    BY DEF Slotted
  <2>3. (j \in DOMAIN v.output /\ w.output[j] = v.output[j]) \/ w.output[j] = o
    BY <2>1, <2>2
  <2>4. CASE w.output[j] = o
    BY <1>1, <2>1, <2>4
  <2> QED
    BY <1>2, <2>3, <2>4
<1> QED
  BY <1>3, <1>4 DEF Ended

\* So does the end of reasoning the rest.
LEMMA EndedTidy ==
  ASSUME NEW v, NEW f, NEW D, Sound(v, f, D), NEW w, NEW s, s = "reasoning", Ended(v, w, s)
  PROVE  Tidy(w, f)
<1>1. s \in DOMAIN v.items /\ OwnSlots \subseteq DOMAIN v.items /\ Slotted(v)
  BY HoldsFacts DEF Sound, Holds, OwnSlots, InStep, Listed, Shut, Slotted
<1>2. Kept(w, f)
  BY <1>1, EndedKept DEF Sound, Tidy
<1>3. \A x \in OwnSlots : w.items[x].content = v.items[x].content /\ w.items[x].index = v.items[x].index
  BY <1>1 DEF Ended
<1>4. \A x \in OwnSlots : w.items[x].content \in Text /\ (~Added(w, x) => w.items[x].content = <<>>)
  BY <1>3 DEF Sound, Tidy, Added
<1>5. ASSUME NEW x \in DOMAIN w.items, w.items[x].done
      PROVE  x = "reasoning"
  <2>1. CASE x # s
    BY <1>5, <2>1 DEF Ended, Sound, Tidy
  <2> QED
    BY <2>1
<1> QED
  BY <1>2, <1>4, <1>5 DEF Tidy

\* The texts are r of reasoning and a of text longer, and the rest is what it was.
Learns(v, w, f, r, a) ==
  /\ w.items["text"].content = v.items["text"].content \o a
  /\ ~f => w.items["reasoning"].content = v.items["reasoning"].content \o r
  /\ DOMAIN w.items = DOMAIN v.items
  /\ \A x \in DOMAIN v.items \ OwnSlots : w.items[x].content = v.items[x].content

\* A step that does no more.
Turns(v, w, f, D, r, a) == Sound(w, f, D) /\ Still(v, w) /\ Learns(v, w, f, r, a)

\* Two in a row.
LEMMA TurnsOn ==
  ASSUME NEW v, NEW u, NEW w, NEW f, NEW D, Sound(v, f, D), NEW r \in Text, NEW a \in Text,
         NEW q \in Text, NEW b \in Text, Turns(v, u, f, D, r, a), Turns(u, w, f, D, q, b)
  PROVE  Turns(v, w, f, D, r \o q, a \o b)
<1>1. /\ v.items["text"].content \in Text /\ v.items["reasoning"].content \in Text
  BY DEF Sound, Tidy, OwnSlots
<1>2. Still(v, w)
  BY DEF Turns, Still
<1>3. w.items["text"].content = v.items["text"].content \o (a \o b)
  <2>1. w.items["text"].content = (v.items["text"].content \o a) \o b
    BY DEF Turns, Learns
  <2> QED
    BY <1>1, <2>1, JoinJoin
<1>4. ASSUME ~f
      PROVE  w.items["reasoning"].content = v.items["reasoning"].content \o (r \o q)
  <2>1. w.items["reasoning"].content = (v.items["reasoning"].content \o r) \o q
    BY <1>4 DEF Turns, Learns
  <2> QED
    BY <1>1, <2>1, JoinJoin
<1>5. DOMAIN w.items = DOMAIN v.items /\ \A x \in DOMAIN v.items \ OwnSlots : w.items[x].content = v.items[x].content
  BY DEF Turns, Learns
<1>6. Learns(v, w, f, r \o q, a \o b)
  BY <1>3, <1>4, <1>5 DEF Learns
<1> QED
  BY <1>2, <1>6 DEF Turns

\* Text.
LEMMA TextTurns ==
  ASSUME NEW v, NEW f, NEW D, Sound(v, f, D), NEW d \in Text
  PROVE  Turns(v, PushText(v, d), f, D, <<>>, d)
<1>1. PICK s : s = "text"
  OBVIOUS
<1> DEFINE w == Push(v, s, d)
<1>2. PushText(v, d) = w
  BY <1>1 DEF PushText
<1>3. s \in OwnSlots /\ (s = "reasoning" => f \/ ~v.items[s].done)
  BY <1>1 DEF OwnSlots
<1>4. Holds(v, Anyhow, D)
  BY DEF Sound
<1>5. Holds(w, Anyhow, D) /\ Wrote(v, w, s, d)
  BY <1>3, <1>4, PushHolds, PushWrites
<1> HIDE DEF w
<1>6. Tidy(w, f)
  BY <1>3, <1>5, WroteTidy
<1>7. "reasoning" \in DOMAIN v.items \ {s}
  <2>1. OwnSlots \subseteq DOMAIN v.items
    BY <1>4, HoldsFacts DEF Holds
  <2> QED
    BY <1>1, <2>1 DEF OwnSlots
<1>8. w.items["reasoning"] = v.items["reasoning"]
  BY <1>5, <1>7 DEF Wrote
<1>9. v.items["reasoning"].content \o <<>> = v.items["reasoning"].content
  BY JoinNone DEF Sound, Tidy, OwnSlots
<1>10. \A x \in DOMAIN v.items \ OwnSlots : w.items[x].content = v.items[x].content
  BY <1>3, <1>5 DEF Wrote
<1>11. Learns(v, w, f, <<>>, d)
  BY <1>1, <1>5, <1>8, <1>9, <1>10 DEF Wrote, Learns
<1> QED
  BY <1>2, <1>5, <1>6, <1>11 DEF Turns, Sound, Wrote

\* Reasoning.
LEMMA ReasoningTurns ==
  ASSUME NEW v, NEW f, NEW D, Sound(v, f, D), NEW d \in Text, f \/ ~v.items["reasoning"].done
  PROVE  Turns(v, PushReasoning(v, d), f, D, d, <<>>)
<1>1. PICK s : s = "reasoning"
  OBVIOUS
<1> DEFINE w == Push(v, s, d)
<1>2. PushReasoning(v, d) = w
  BY <1>1 DEF PushReasoning
<1>3. s \in OwnSlots /\ (s = "reasoning" => f \/ ~v.items[s].done)
  BY <1>1 DEF OwnSlots
<1>4. Holds(v, Anyhow, D)
  BY DEF Sound
<1>5. Holds(w, Anyhow, D) /\ Wrote(v, w, s, d)
  BY <1>3, <1>4, PushHolds, PushWrites
<1> HIDE DEF w
<1>6. Tidy(w, f)
  BY <1>3, <1>5, WroteTidy
<1>7. "text" \in DOMAIN v.items \ {s}
  <2>1. OwnSlots \subseteq DOMAIN v.items
    BY <1>4, HoldsFacts DEF Holds
  <2> QED
    BY <1>1, <2>1 DEF OwnSlots
<1>8. w.items["text"] = v.items["text"]
  BY <1>5, <1>7 DEF Wrote
<1>9. v.items["text"].content \o <<>> = v.items["text"].content
  BY JoinNone DEF Sound, Tidy, OwnSlots
<1>10. \A x \in DOMAIN v.items \ OwnSlots : w.items[x].content = v.items[x].content
  BY <1>3, <1>5 DEF Wrote
<1>11. Learns(v, w, f, d, <<>>)
  BY <1>1, <1>5, <1>8, <1>9, <1>10 DEF Wrote, Learns
<1> QED
  BY <1>2, <1>5, <1>6, <1>11 DEF Turns, Sound, Wrote

\* The end of reasoning.
LEMMA CloseTurns ==
  ASSUME NEW v, NEW f, NEW D, Sound(v, f, D)
  PROVE  Turns(v, CloseReasoning(v), f, D, <<>>, <<>>)
<1>1. PICK s : s = "reasoning"
  OBVIOUS
<1> DEFINE w == Close(v, s)
<1>2. CloseReasoning(v) = w
  BY <1>1 DEF CloseReasoning
<1>3. s \in OwnSlots
  BY <1>1 DEF OwnSlots
<1>4. Holds(v, Anyhow, D)
  BY DEF Sound
<1>5. OwnSlots \subseteq DOMAIN v.items /\ Typed(v) /\ s \in DOMAIN v.items
  BY <1>3, <1>4, HoldsFacts DEF Holds, InStep
<1>6. Holds(w, Anyhow, D) /\ Ended(v, w, s)
  BY <1>3, <1>4, <1>5, CloseHolds, CloseEnds
<1> HIDE DEF w
<1>7. Tidy(w, f)
  BY <1>1, <1>6, EndedTidy
<1>8. \A x \in DOMAIN v.items : w.items[x].content = v.items[x].content
  BY <1>6 DEF Ended
<1>9. /\ v.items["text"].content \o <<>> = v.items["text"].content
      /\ v.items["reasoning"].content \o <<>> = v.items["reasoning"].content
  BY JoinNone DEF Sound, Tidy, OwnSlots
<1>10. "text" \in DOMAIN v.items /\ "reasoning" \in DOMAIN v.items
  BY <1>5 DEF OwnSlots
<1>11. Learns(v, w, f, <<>>, <<>>)
  BY <1>6, <1>8, <1>9, <1>10 DEF Ended, Learns
<1> QED
  BY <1>2, <1>6, <1>7, <1>11 DEF Turns, Sound, Ended

\* Text after the end of reasoning.
LEMMA AnswerTurns ==
  ASSUME NEW v, NEW f, NEW D, Sound(v, f, D), NEW d \in Text
  PROVE  Turns(v, PushText(CloseReasoning(v), d), f, D, <<>>, d)
<1> DEFINE u == CloseReasoning(v)
           w == PushText(u, d)
<1>1. PICK e : e = <<>>
  OBVIOUS
<1>2. e \in Text /\ e \o e = e /\ e \o d = d
  BY <1>1, JoinNone
<1>3. Turns(v, u, f, D, e, e)
  BY <1>1, CloseTurns
<1> HIDE DEF u
<1>4. Sound(u, f, D)
  BY <1>3 DEF Turns
<1>5. Turns(u, w, f, D, e, d)
  BY <1>1, <1>4, TextTurns
<1> HIDE DEF w
<1>6. Turns(v, w, f, D, e \o e, e \o d)
  BY <1>2, <1>3, <1>5, TurnsOn
<1> QED
  BY <1>1, <1>2, <1>6 DEF u, w

\* A think block and what follows it.
LEMMA ThinkTurns ==
  ASSUME NEW v, NEW f, NEW D, Sound(v, f, D), NEW r \in Text, NEW a \in Text, f \/ ~v.items["reasoning"].done
  PROVE  Turns(v, PushThink(v, r, a), f, D, r, a)
<1>1. PICK e : e = <<>>
  OBVIOUS
<1>2. e \in Text /\ e \o e = e /\ e \o a = a /\ r \o e = r /\ a \o e = a
  BY <1>1, JoinNone
<1>3. ASSUME NEW x, Sound(x, f, D)
      PROVE  Turns(x, x, f, D, e, e)
  <2>1. x.items["text"].content \in Text /\ x.items["reasoning"].content \in Text
    BY <1>3 DEF Sound, Tidy, OwnSlots
  <2>2. Learns(x, x, f, e, e)
    BY <1>1, <2>1, JoinNone DEF Learns
  <2> QED
    BY <1>3, <2>2 DEF Turns, Still
<1> DEFINE u == IF r = <<>> THEN v ELSE CloseReasoning(PushReasoning(v, r))
           w == IF a = <<>> THEN u ELSE PushText(u, a)
<1>4. PushThink(v, r, a) = w
  BY DEF PushThink
<1>5. Turns(v, u, f, D, r, e)
  <2>1. CASE r = <<>>
    BY <1>1, <1>3, <2>1
  <2>2. CASE r # <<>>
    <3> DEFINE x == PushReasoning(v, r)
    <3>1. Turns(v, x, f, D, r, e)
      BY <1>1, ReasoningTurns
    <3> HIDE DEF x
    <3>2. Sound(x, f, D)
      BY <3>1 DEF Turns
    <3>3. Turns(x, CloseReasoning(x), f, D, e, e)
      BY <1>1, <3>2, CloseTurns
    <3>4. Turns(v, CloseReasoning(x), f, D, r \o e, e \o e)
      BY <1>2, <3>1, <3>3, TurnsOn
    <3> QED
      BY <1>2, <2>2, <3>4 DEF x
  <2> QED
    BY <2>1, <2>2
<1> HIDE DEF u
<1>6. Sound(u, f, D)
  BY <1>5 DEF Turns
<1>7. Turns(u, w, f, D, e, a)
  <2>1. CASE a = <<>>
    BY <1>1, <1>3, <1>6, <2>1
  <2>2. CASE a # <<>>
    BY <1>1, <1>6, <2>2, TextTurns
  <2> QED
    BY <2>1, <2>2
<1> HIDE DEF w
<1>8. Turns(v, w, f, D, r \o e, e \o a)
  BY <1>2, <1>5, <1>7, TurnsOn
<1> QED
  BY <1>2, <1>4, <1>8

(* Reading content. *)

\* The converter does not know yet what the content B is.
Waiting(v, B, f) ==
  /\ v.think = B /\ v.items["text"].content = <<>>
  /\ ~f => v.items["reasoning"].content = <<>> /\ ~v.items["reasoning"].done

\* It knows: its text is the answer in B and what came after, its reasoning the thought in B.
Settled(v, B, A, f) ==
  /\ v.mode = "text" /\ TrimStart(v.items["text"].content) = TrimStart(AnswerOf(B) \o A)
  /\ ~f => v.items["reasoning"].content = ThoughtOf(B)

\* One or the other: after a call it knows, before one it knows when B decides it.
Reads(v, B, A, f, called) ==
  \/ /\ ~called /\ A = <<>> /\ Waiting(v, B, f)
     /\ (v.mode = "detecting" /\ PrefixDecision(B) = "more") \/ (v.mode = "reasoning" /\ Cut(B))
  \/ Settled(v, B, A, f) /\ (called \/ (A = <<>> /\ Decided(B)))

\* The texts of the calls are what they were.
SameCalls(v, w) == /\ DOMAIN w.items = DOMAIN v.items
                   /\ \A x \in DOMAIN v.items \ OwnSlots : w.items[x].content = v.items[x].content

\* An assignment to another field changes no text.
LEMMA SoundSame ==
  ASSUME NEW v, NEW f, NEW D, Sound(v, f, D), NEW w, IsConverter(w),
         w.items = v.items, w.next = v.next, w.output = v.output, w.out = v.out
  PROVE  Sound(w, f, D)
<1>1. Holds(v, Anyhow, D)
  BY DEF Sound
<1>2. Holds(w, Anyhow, D)
  BY <1>1, HoldsSame
<1>3. Tidy(w, f)
  BY DEF Sound, Tidy, Kept, Added
<1> QED
  BY <1>2, <1>3 DEF Sound

\* Such are the assignments to the buffer of content and to the mode.
LEMMA BufferSound ==
  ASSUME NEW v, NEW f, NEW D, Sound(v, f, D), NEW d
  PROVE  /\ Sound(InText(v), f, D) /\ InText(v).mode = "text" /\ InText(v).items = v.items
         /\ Sound([v EXCEPT !.think = @ \o d], f, D)
         /\ Sound([v EXCEPT !.mode = "reasoning"], f, D)
<1>1. IsConverter(v)
  BY HoldsFacts DEF Sound
<1> DEFINE a == InText(v)
           b == [v EXCEPT !.think = @ \o d]
           e == [v EXCEPT !.mode = "reasoning"]
<1>2. /\ IsConverter(a) /\ a.items = v.items /\ a.next = v.next /\ a.output = v.output /\ a.out = v.out
      /\ a.mode = "text"
  BY <1>1 DEF IsConverter, InText
<1>3. IsConverter(b) /\ b.items = v.items /\ b.next = v.next /\ b.output = v.output /\ b.out = v.out
  BY <1>1 DEF IsConverter
<1>4. IsConverter(e) /\ e.items = v.items /\ e.next = v.next /\ e.output = v.output /\ e.out = v.out
  BY <1>1 DEF IsConverter
<1> HIDE DEF a, b, e
<1>5. Sound(a, f, D)
  BY <1>2, SoundSame
<1>6. Sound(b, f, D)
  BY <1>3, SoundSame
<1>7. Sound(e, f, D)
  BY <1>4, SoundSame
<1> QED
  BY <1>2, <1>5, <1>6, <1>7 DEF a, b, e

\* A converter whose texts are those of B knows it.
LEMMA Settles ==
  ASSUME NEW v, NEW w, NEW f, NEW D, NEW B \in Text, NEW A, A = <<>>, Sound(v, f, D),
         v.items["text"].content = <<>>, ~f => v.items["reasoning"].content = <<>>, v.mode = "text",
         NEW r \in Text, NEW a \in Text, Turns(v, w, f, D, r, a),
         TrimStart(a) = TrimStart(AnswerOf(B)), r = ThoughtOf(B)
  PROVE  Settled(w, B, A, f)
<1>1. w.mode = "text" /\ w.items["text"].content = a /\ (~f => w.items["reasoning"].content = r)
  BY JoinNone DEF Turns, Still, Learns
<1>2. AnswerOf(B) \o A = AnswerOf(B)
  BY AnswerIn, JoinNone
<1> QED
  BY <1>1, <1>2 DEF Settled

\* A think block is read up to its end.
LEMMA DrainReads ==
  ASSUME NEW v, NEW f, NEW D, Sound(v, f, D), NEW B \in Text, v.mode = "reasoning",
         Waiting(v, B, f), Opens(TrimStart(B)), NEW A, A = <<>>, NEW called, ~called
  PROVE  Sound(Drain(v), f, D) /\ SameCalls(v, Drain(v)) /\ Reads(Drain(v), B, A, f, called)
<1>1. v.think = B
  BY DEF Waiting
<1>2. CASE CloseAt(B) = 0
  <2>1. Drain(v) = v
    BY <1>1, <1>2 DEF Drain
  <2>2. Cut(B)
    BY <1>2 DEF Cut, Thinks
  <2> QED
    BY <2>1, <2>2 DEF Reads, SameCalls
<1>3. CASE CloseAt(B) # 0
  <2> DEFINE u == InText(v)
             r == SplitReasoning(B)
             a == SplitAnswer(B)
             w == PushThink(u, r, a)
  <2>1. Drain(v) = w
    BY <1>1, <1>3 DEF Drain
  <2>2. Thinks(B)
    BY <1>3 DEF Thinks
  <2>3. r \in Text /\ a \in Text /\ r = ThoughtOf(B) /\ a = AnswerOf(B)
    BY <2>2, PartsIn DEF ThoughtOf, AnswerOf, Cut
  <2>4. Sound(u, f, D) /\ u.mode = "text" /\ u.items = v.items
    BY BufferSound
  <2> HIDE DEF u, r, a
  <2>5. f \/ ~u.items["reasoning"].done
    BY <2>4 DEF Waiting
  <2>6. Turns(u, w, f, D, r, a)
    BY <2>3, <2>4, <2>5, ThinkTurns
  <2> HIDE DEF w
  <2>7. u.items["text"].content = <<>> /\ (~f => u.items["reasoning"].content = <<>>)
    BY <2>4 DEF Waiting
  <2>8. TrimStart(a) = TrimStart(AnswerOf(B))
    BY <2>3
  <2>9. Settled(w, B, A, f)
    BY <2>3, <2>4, <2>6, <2>7, <2>8, Settles
  <2>10. Reads(w, B, A, f, called)
    BY <2>2, <2>9 DEF Reads, Decided
  <2>11. Sound(w, f, D) /\ SameCalls(v, w)
    BY <2>4, <2>6 DEF Turns, Learns, SameCalls
  <2> QED
    BY <2>1, <2>10, <2>11
<1> QED
  BY <1>2, <1>3

\* More content, when it is known what the content is.
LEMMA SettledReads ==
  ASSUME NEW v, NEW f, NEW D, Sound(v, f, D), NEW B \in Text, NEW A \in Text, NEW called,
         Settled(v, B, A, f), called \/ (A = <<>> /\ Decided(B)), NEW d \in Text
  PROVE  /\ Sound(PushContent(v, d), f, D) /\ SameCalls(v, PushContent(v, d))
         /\ Reads(PushContent(v, d), IF called THEN B ELSE B \o d, IF called THEN A \o d ELSE A, f, called)
<1> DEFINE w == PushText(CloseReasoning(v), d)
           x == v.items["text"].content
           y == AnswerOf(B)
<1>1. PushContent(v, d) = w
  BY DEF PushContent, Settled
<1>2. Turns(v, w, f, D, <<>>, d)
  BY AnswerTurns
<1> HIDE DEF w
<1>3. x \in Text /\ y \in Text /\ TrimStart(x) = TrimStart(y \o A) /\ y \o A \in Text
  BY AnswerIn, JoinIs DEF Sound, Tidy, OwnSlots, Settled
<1>4. w.items["text"].content = x \o d /\ w.mode = "text"
  BY <1>2 DEF Turns, Still, Learns, Settled
<1>5. ~f => w.items["reasoning"].content = ThoughtOf(B)
  <2>1. ThoughtOf(B) \o <<>> = ThoughtOf(B)
    BY AnswerIn, JoinNone
  <2> QED
    BY <1>2, <2>1 DEF Turns, Learns, Settled
<1>6. Sound(w, f, D) /\ SameCalls(v, w)
  BY <1>2 DEF Turns, Learns, SameCalls
<1> HIDE DEF x, y
<1>7. TrimStart(x \o d) = TrimStart((y \o A) \o d)
  BY <1>3, TrimOn
<1>8. CASE called
  <2>1. (y \o A) \o d = y \o (A \o d)
    BY <1>3, JoinJoin
  <2>2. Settled(w, B, A \o d, f)
    BY <1>4, <1>5, <1>7, <2>1 DEF Settled, y
  <2>3. Reads(w, B, A \o d, f, called)
    BY <1>8, <2>2 DEF Reads
  <2> QED
    BY <1>1, <1>6, <1>8, <2>3
<1>9. CASE ~called
  <2>1. A = <<>> /\ Decided(B)
    BY <1>9
  <2>2. /\ Decided(B \o d) /\ ThoughtOf(B \o d) = ThoughtOf(B)
        /\ TrimStart(AnswerOf(B \o d)) = TrimStart(y \o d)
    BY <2>1, AnswerOn DEF y
  <2>3. B \o d \in Text
    BY JoinIs
  <2>4. y \o A = y /\ AnswerOf(B \o d) \o A = AnswerOf(B \o d)
    BY <1>3, <2>1, <2>3, AnswerIn, JoinNone
  <2>5. Settled(w, B \o d, A, f)
    BY <1>4, <1>5, <1>7, <2>2, <2>4 DEF Settled
  <2>6. Reads(w, B \o d, A, f, called)
    BY <2>1, <2>2, <2>5 DEF Reads
  <2> QED
    BY <1>1, <1>6, <1>9, <2>6
<1> QED
  BY <1>8, <1>9

\* More content, when it is not.
LEMMA WaitingReads ==
  ASSUME NEW v, NEW f, NEW D, Sound(v, f, D), NEW B \in Text, NEW A, A = <<>>, NEW called, ~called,
         Waiting(v, B, f), NEW d \in Text,
         (v.mode = "detecting" /\ PrefixDecision(B) = "more") \/ (v.mode = "reasoning" /\ Cut(B))
  PROVE  /\ Sound(PushContent(v, d), f, D) /\ SameCalls(v, PushContent(v, d))
         /\ Reads(PushContent(v, d), B \o d, A, f, called)
<1> DEFINE x == [v EXCEPT !.think = @ \o d]
           e == B \o d
           z == [x EXCEPT !.mode = "reasoning"]
<1>0. IsConverter(v)
  BY HoldsFacts DEF Sound
<1>1. Sound(x, f, D)
  BY BufferSound
<1>2. x.mode = v.mode /\ x.think = e /\ x.items = v.items
  BY <1>0 DEF Waiting, IsConverter
<1>3. /\ v.mode = "reasoning" => PushContent(v, d) = Drain(x)
      /\ v.mode = "detecting" /\ PrefixDecision(x.think) = "more" => PushContent(v, d) = x
      /\ v.mode = "detecting" /\ PrefixDecision(x.think) = "reasoning" => PushContent(v, d) = Drain(z)
      /\ v.mode = "detecting" /\ PrefixDecision(x.think) = "text" =>
           PushContent(v, d) = PushText(CloseReasoning(InText(x)), x.think)
  BY DEF PushContent
<1>4. e \in Text
  BY JoinIs
<1>5. Waiting(x, e, f)
  BY <1>2 DEF Waiting
<1>6. z.mode = "reasoning" /\ z.think = e /\ z.items = v.items /\ Sound(z, f, D)
  <2>1. IsConverter(x)
    BY <1>1, HoldsFacts DEF Sound
  <2> HIDE DEF x
  <2>2. Sound(z, f, D)
    BY <1>1, BufferSound
  <2> QED
    BY <1>2, <2>1, <2>2 DEF IsConverter
<1> HIDE DEF x, z, e
<1>7. CASE v.mode = "reasoning" /\ Cut(B)
  <2>1. Opens(TrimStart(B))
    BY <1>7 DEF Cut
  <2>2. Opens(TrimStart(e))
    BY <2>1, BodyOn DEF e
  <2>3. x.mode = "reasoning"
    BY <1>2, <1>7
  <2>4. Sound(Drain(x), f, D) /\ SameCalls(x, Drain(x)) /\ Reads(Drain(x), e, A, f, called)
    BY <1>1, <1>4, <1>5, <2>2, <2>3, DrainReads
  <2> QED
    BY <1>2, <1>3, <1>7, <2>4 DEF SameCalls, e
<1>8. CASE v.mode = "detecting" /\ PrefixDecision(e) = "more"
  <2>1. PushContent(v, d) = x
    BY <1>2, <1>3, <1>8
  <2>2. Reads(x, e, A, f, called)
    BY <1>2, <1>5, <1>8 DEF Reads
  <2> QED
    BY <1>1, <1>2, <2>1, <2>2 DEF SameCalls, e
<1>9. CASE v.mode = "detecting" /\ PrefixDecision(e) = "reasoning"
  <2>1. Opens(TrimStart(e))
    BY <1>9, PrefixIs
  <2>2. Waiting(z, e, f)
    BY <1>2, <1>5, <1>6 DEF Waiting
  <2>3. Sound(Drain(z), f, D) /\ SameCalls(z, Drain(z)) /\ Reads(Drain(z), e, A, f, called)
    BY <1>4, <1>6, <2>1, <2>2, DrainReads
  <2> QED
    BY <1>2, <1>3, <1>6, <1>9, <2>3 DEF SameCalls, e
<1>10. CASE v.mode = "detecting" /\ PrefixDecision(e) = "text"
  <2> DEFINE u == InText(x)
             w == PushText(CloseReasoning(u), e)
  <2>1. PushContent(v, d) = w
    BY <1>2, <1>3, <1>10
  <2>2. Sound(u, f, D) /\ u.mode = "text" /\ u.items = x.items
    BY <1>1, BufferSound
  <2> HIDE DEF u
  <2>3. PICK n : n = <<>>
    OBVIOUS
  <2>4. Turns(u, w, f, D, n, e)
    BY <1>4, <2>2, <2>3, AnswerTurns
  <2> HIDE DEF w
  <2>5. AnswerOf(e) = e /\ ThoughtOf(e) = n
    BY <1>10, <2>3, PrefixIs DEF AnswerOf, ThoughtOf, Cut, Thinks
  <2>6. u.items["text"].content = <<>> /\ (~f => u.items["reasoning"].content = <<>>)
    BY <1>5, <2>2 DEF Waiting
  <2>7. n \in Text /\ TrimStart(e) = TrimStart(AnswerOf(e))
    BY <2>3, <2>5, JoinNone, <1>4
  <2>8. Settled(w, e, A, f)
    BY <1>4, <2>2, <2>4, <2>5, <2>6, <2>7, Settles
  <2>9. Reads(w, e, A, f, called)
    BY <1>10, <2>8 DEF Reads, Decided
  <2>10. Sound(w, f, D) /\ SameCalls(v, w)
    BY <1>2, <2>2, <2>4 DEF Turns, Learns, SameCalls
  <2> QED
    BY <2>1, <2>9, <2>10 DEF e
<1> QED
  BY <1>7, <1>8, <1>9, <1>10, PrefixIs

\* A call or the end decides what is not known yet.
LEMMA FlushReads ==
  ASSUME NEW v, NEW f, NEW D, Sound(v, f, D), NEW B \in Text, NEW A \in Text, NEW called, Reads(v, B, A, f, called)
  PROVE  Sound(FlushThink(v), f, D) /\ SameCalls(v, FlushThink(v)) /\ Settled(FlushThink(v), B, A, f)
<1>1. CASE Settled(v, B, A, f)
  <2>1. FlushThink(v) = v
    BY <1>1 DEF FlushThink, Settled
  <2> QED
    BY <1>1, <2>1 DEF SameCalls
<1>2. CASE Waiting(v, B, f) /\ A = <<>> /\ v.mode = "detecting" /\ PrefixDecision(B) = "more"
  <2> DEFINE u == InText(v)
             w == IF B = <<>> THEN u ELSE PushText(CloseReasoning(u), B)
  <2>1. FlushThink(v) = w
    BY <1>2 DEF FlushThink, Waiting
  <2>2. Sound(u, f, D) /\ u.mode = "text" /\ u.items = v.items
    BY BufferSound
  <2>3. PICK n : n = <<>>
    OBVIOUS
  <2>5. AnswerOf(B) = B /\ ThoughtOf(B) = n
    BY <1>2, <2>3, PrefixIs DEF AnswerOf, ThoughtOf, Cut, Thinks
  <2> HIDE DEF u
  <2>6. u.items["text"].content = <<>> /\ (~f => u.items["reasoning"].content = <<>>)
    BY <1>2, <2>2 DEF Waiting
  <2>7. Turns(u, w, f, D, n, B)
    <3>1. CASE B = <<>>
      <4>1. n \o n = n
        BY <2>3, JoinNone
      <4>2. u.items["text"].content = n /\ (~f => u.items["reasoning"].content = n)
        BY <2>3, <2>6
      <4>3. Learns(u, u, f, n, n)
        BY <4>1, <4>2 DEF Learns
      <4>4. Turns(u, u, f, D, n, n)
        BY <2>2, <4>3 DEF Turns, Still
      <4> QED
        BY <2>3, <3>1, <4>4
    <3>2. CASE B # <<>>
      <4>1. Turns(u, PushText(CloseReasoning(u), B), f, D, n, B)
        BY <2>2, <2>3, AnswerTurns
      <4> QED
        BY <3>2, <4>1
    <3> QED
      BY <3>1, <3>2
  <2> HIDE DEF w
  <2>8. n \in Text /\ TrimStart(B) = TrimStart(AnswerOf(B))
    BY <2>3, <2>5, JoinNone
  <2>9. A = <<>>
    BY <1>2
  <2>10. Settled(w, B, A, f)
    BY <2>2, <2>5, <2>6, <2>7, <2>8, <2>9, Settles
  <2>11. Sound(w, f, D) /\ SameCalls(v, w)
    BY <2>2, <2>7 DEF Turns, Learns, SameCalls
  <2> QED
    BY <2>1, <2>10, <2>11
<1>3. CASE Waiting(v, B, f) /\ A = <<>> /\ v.mode = "reasoning" /\ Cut(B)
  <2> DEFINE u == InText(v)
             r == Trim(Body(B))
             w == PushThink(u, r, <<>>)
  <2>1. CloseAt(B) = 0
    BY <1>3 DEF Cut, Thinks
  <2>2. FlushThink(v) = w
    BY <1>3, <2>1 DEF FlushThink, Waiting
  <2>3. Sound(u, f, D) /\ u.mode = "text" /\ u.items = v.items
    BY BufferSound
  <2>4. PICK n : n = <<>>
    OBVIOUS
  <2>5. AnswerOf(B) = n /\ ThoughtOf(B) = r /\ r \in Text /\ n \in Text
    BY <1>3, <2>4, PartsIn, JoinNone DEF AnswerOf, ThoughtOf
  <2> HIDE DEF u, r
  <2>6. u.items["text"].content = <<>> /\ (~f => u.items["reasoning"].content = <<>>)
    BY <1>3, <2>3 DEF Waiting
  <2>7. f \/ ~u.items["reasoning"].done
    BY <1>3, <2>3 DEF Waiting
  <2>8. Turns(u, w, f, D, r, n)
    BY <2>3, <2>4, <2>5, <2>7, ThinkTurns
  <2> HIDE DEF w
  <2>9. TrimStart(n) = TrimStart(AnswerOf(B)) /\ A = <<>>
    BY <1>3, <2>5
  <2>10. Settled(w, B, A, f)
    BY <2>3, <2>5, <2>6, <2>8, <2>9, Settles
  <2>11. Sound(w, f, D) /\ SameCalls(v, w)
    BY <2>3, <2>8 DEF Turns, Learns, SameCalls
  <2> QED
    BY <2>2, <2>10, <2>11
<1> QED
  BY <1>1, <1>2, <1>3 DEF Reads

(* Calls. *)

\* No text is changed but that of item t, and that is not changed either.
QuietCall(v, w, t) ==
  /\ Still(v, w) /\ w.output = v.output
  /\ DOMAIN w.items = DOMAIN v.items /\ \A x \in DOMAIN v.items \ {t} : w.items[x] = v.items[x]
  /\ w.items[t].content = v.items[t].content /\ w.items[t].done = v.items[t].done

\* A call has d more of its arguments.
Takes(v, w, t, d) ==
  /\ Still(v, w) /\ w.output = v.output
  /\ DOMAIN w.items = DOMAIN v.items \union {t}
  /\ \A x \in DOMAIN v.items \ {t} : w.items[x] = v.items[x]
  /\ w.items[t].content = (IF t \in DOMAIN v.items THEN v.items[t].content ELSE <<>>) \o d
  /\ w.items[t].done = (IF t \in DOMAIN v.items THEN v.items[t].done ELSE FALSE)

\* An item of a call is written, or a new one.
LEMMA TypedItem ==
  ASSUME NEW v, Typed(v), NEW w, IsConverter(w), NEW s \in Range(Tools),
         DOMAIN w.items = DOMAIN v.items \union {s},
         \A x \in DOMAIN v.items \ {s} : w.items[x] = v.items[x],
         DOMAIN w.items[s] = {"index", "id", "name", "content", "done"},
         w.items[s].index \in Nat, w.items[s].done \in BOOLEAN, w.items[s].content \in Seq(STRING)
  PROVE  Typed(w)
<1>1. s \notin OwnSlots
  BY ToolIsNotOwn
<1>2. OwnSlots \subseteq DOMAIN w.items
  BY DEF Typed
<1>3. ASSUME NEW x \in DOMAIN w.items, x # s
      PROVE  /\ DOMAIN w.items[x] = {"index", "id", "name", "content", "done"}
             /\ w.items[x].index \in Nat /\ w.items[x].done \in BOOLEAN
             /\ x \in OwnSlots => w.items[x].name # "custom"
             /\ x \notin OwnSlots => x \in Range(Tools) /\ w.items[x].content \in Seq(STRING)
  <2>1. x \in DOMAIN v.items /\ w.items[x] = v.items[x]
    BY <1>3
  <2> QED
    BY <2>1 DEF Typed
<1> QED
  BY <1>1, <1>2, <1>3 DEF Typed

\* A delta is none of the texts.
LEMMA DeltaQuiet ==
  ASSUME NEW v, IsConverter(v), NEW t, NEW d
  PROVE  /\ Delta(v, t, d).items = v.items /\ Delta(v, t, d).output = v.output /\ Still(v, Delta(v, t, d))
         /\ ToolDelta(v, t, d) \in {v, Delta(v, t, d)}
<1>1. PICK e : Delta(v, t, d) = Emit(v, e)
  BY DEF Delta
<1>2. Emit(v, e).items = v.items /\ Emit(v, e).output = v.output /\ Still(v, Emit(v, e))
  BY EmitRest, EmitStill
<1>3. ToolDelta(v, t, d) \in {v, Delta(v, t, d)}
  BY DEF ToolDelta
<1> QED
  BY <1>1, <1>2, <1>3

\* Nor are the names of a call.
LEMMA AnnounceQuiet ==
  ASSUME NEW v, Typed(v), v.next \in Nat, NEW t \in DOMAIN v.items, t \notin OwnSlots
  PROVE  QuietCall(v, Announce(v, t), t) /\ Added(Announce(v, t), t) /\ IsConverter(Announce(v, t))
<1> DEFINE i == [v.items[t] EXCEPT !.id = OrElse(@, "generated"), !.name = OrElse(@, "unknown")]
           a == [v EXCEPT !.items[t].id = OrElse(@, "generated"), !.items[t].name = OrElse(@, "unknown")]
           w == Open(a, t)
<1>0. /\ IsConverter(v) /\ DOMAIN v.items[t] = {"index", "id", "name", "content", "done"}
      /\ v.items[t].index \in Nat /\ v.items[t].done \in BOOLEAN /\ t \in Range(Tools)
      /\ v.items[t].content \in Seq(STRING)
  BY DEF Typed
<1>1. /\ DOMAIN i = {"index", "id", "name", "content", "done"} /\ i.index = v.items[t].index
      /\ i.done = v.items[t].done /\ i.content = v.items[t].content
  BY <1>0
<1>2. /\ DOMAIN a = DOMAIN v /\ a.next = v.next /\ a.output = v.output /\ a.out = v.out
      /\ a.mode = v.mode /\ a.think = v.think
      /\ DOMAIN a.items = DOMAIN v.items /\ a.items[t] = i
      /\ \A x \in DOMAIN v.items \ {t} : a.items[x] = v.items[x]
  BY <1>0 DEF IsConverter
<1>3. Announce(v, t) = w
  BY DEF Announce
<1> HIDE DEF a, i
<1>4. IsConverter(a)
  BY <1>0, <1>2 DEF IsConverter
<1>5. Typed(a)
  <2>1. /\ DOMAIN a.items = DOMAIN v.items \union {t} /\ \A x \in DOMAIN v.items \ {t} : a.items[x] = v.items[x]
        /\ DOMAIN a.items[t] = {"index", "id", "name", "content", "done"}
        /\ a.items[t].index \in Nat /\ a.items[t].done \in BOOLEAN /\ a.items[t].content \in Seq(STRING)
    BY <1>0, <1>1, <1>2
  <2> QED
    BY <1>0, <1>4, <2>1, TypedItem
<1>6. t \in DOMAIN a.items
  BY <1>2
<1>7. Still(a, w) /\ ((w = a /\ Added(a, t)) \/ Opening(a, w, t))
  BY <1>5, <1>6, OpenIs, OpenStill
<1> HIDE DEF w
<1>8. Still(v, w)
  BY <1>2, <1>7 DEF Still
<1>9. /\ w.output = a.output /\ DOMAIN w.items = DOMAIN a.items
      /\ \A x \in DOMAIN a.items \ {t} : w.items[x] = a.items[x]
      /\ w.items[t].content = a.items[t].content /\ w.items[t].done = a.items[t].done
      /\ IsConverter(w)
  BY <1>4, <1>7 DEF Opening
<1>10. Added(w, t)
  <2>1. CASE w = a /\ Added(a, t)
    BY <2>1
  <2>2. CASE Opening(a, w, t)
    <3>1. w.items[t].index = v.next + 1
      BY <1>2, <2>2 DEF Opening
    <3> QED
      BY <3>1 DEF Added
  <2> QED
    BY <1>7, <2>1, <2>2
<1>11. QuietCall(v, w, t)
  BY <1>1, <1>2, <1>8, <1>9 DEF QuietCall
<1> QED
  BY <1>3, <1>9, <1>10, <1>11

\* A delta of a call is taken.
LEMMA PushToolTakes ==
  ASSUME NEW v, NEW p, NEW D, Holds(v, p, D), NEW t \in Call
  PROVE  Takes(v, PushTool(v, t), t.tool, t.args)
<1> DEFINE s   == t.tool
           old == IF s \in DOMAIN v.items THEN v.items[s] ELSE Blank
           new == [old EXCEPT !.id = IF t.id = NoId THEN @ ELSE t.id,
                              !.name = OrElse(t.name, @),
                              !.content = @ \o t.args]
           w   == [v EXCEPT !.items = [z \in DOMAIN @ \union {s} |-> IF z = s THEN new ELSE @[z]]]
<1>1. IsConverter(v) /\ Typed(v) /\ v.next \in Nat
  BY HoldsFacts DEF Holds, InStep, Numbered
<1>2. s \in Range(Tools) /\ s \notin OwnSlots /\ t.args \in Seq(STRING)
  BY ToolIsNotOwn DEF Call
<1>3. \/ PushTool(v, t) = ToolDelta(w, s, t.args)
      \/ PushTool(v, t) = ToolDelta(Announce(w, s), s, new.content)
      \/ PushTool(v, t) = w
  BY DEF PushTool
<1>4. /\ DOMAIN old = {"index", "id", "name", "content", "done"} /\ old.content \in Seq(STRING)
      /\ old.index \in Nat /\ old.done \in BOOLEAN
      /\ s \notin DOMAIN v.items => old.done = FALSE /\ old.content = <<>>
      /\ s \in DOMAIN v.items => old = v.items[s]
  <2>1. CASE s \in DOMAIN v.items
    BY <1>1, <1>2, <2>1 DEF Typed
  <2>2. CASE s \notin DOMAIN v.items
    <3>1. old = Blank
      BY <2>2
    <3>2. <<>> \in Seq(STRING)
      OBVIOUS
    <3>3. DOMAIN Blank = {"index", "id", "name", "content", "done"}
      BY DEF Blank
    <3>4. Blank.index = 0 /\ Blank.content = <<>>
      BY DEF Blank
    <3>5. Blank.done = FALSE
      BY DEF Blank
    <3>6. old.index \in Nat
      BY <3>1, <3>4
    <3>7. old.done = FALSE /\ old.done \in BOOLEAN
      BY <3>1, <3>5
    <3> QED
      BY <2>2, <3>1, <3>2, <3>3, <3>4, <3>6, <3>7
  <2> QED
    BY <2>1, <2>2
<1> HIDE DEF old
<1>5. /\ DOMAIN new = {"index", "id", "name", "content", "done"} /\ new.index = old.index
      /\ new.done = old.done /\ new.content = old.content \o t.args
  BY <1>4
<1>6. new.content \in Seq(STRING)
  BY <1>2, <1>4, <1>5
<1>7. /\ DOMAIN w = DOMAIN v /\ w.output = v.output /\ w.next = v.next /\ w.out = v.out
      /\ w.mode = v.mode /\ w.think = v.think
      /\ DOMAIN w.items = DOMAIN v.items \union {s} /\ w.items[s] = new
      /\ \A x \in DOMAIN v.items \ {s} : w.items[x] = v.items[x]
  <2> HIDE DEF new, s
  <2> QED
    BY <1>1 DEF IsConverter
<1> HIDE DEF w, new
<1>8. IsConverter(w)
  BY <1>1, <1>7 DEF IsConverter
<1> DEFINE d == t.args
<1>9. Takes(v, w, s, d)
  <2>1. w.items[s].content = (IF s \in DOMAIN v.items THEN v.items[s].content ELSE <<>>) \o d
    BY <1>4, <1>5, <1>7
  <2>2. w.items[s].done = (IF s \in DOMAIN v.items THEN v.items[s].done ELSE FALSE)
    BY <1>4, <1>5, <1>7
  <2>3. Still(v, w)
    BY <1>7 DEF Still
  <2> HIDE DEF s, d
  <2> QED
    BY <1>7, <2>1, <2>2, <2>3 DEF Takes
<1> HIDE DEF s, d
<1>10. Typed(w)
  <2>1. /\ DOMAIN w.items[s] = {"index", "id", "name", "content", "done"}
        /\ w.items[s].index \in Nat /\ w.items[s].done \in BOOLEAN /\ w.items[s].content \in Seq(STRING)
    BY <1>4, <1>5, <1>6, <1>7
  <2> QED
    BY <1>1, <1>2, <1>7, <1>8, <2>1, TypedItem
<1>11. s \in DOMAIN w.items /\ w.next \in Nat
  BY <1>1, <1>7
<1>12. ASSUME NEW x, QuietCall(w, x, s)
       PROVE  Takes(v, x, s, d)
  BY <1>9, <1>12 DEF Takes, QuietCall, Still
<1>13. ASSUME NEW x, QuietCall(w, x, s), IsConverter(x), NEW e
       PROVE  Takes(v, ToolDelta(x, s, e), s, d)
  <2> DEFINE y == ToolDelta(x, s, e)
  <2>1. y.items = x.items /\ y.output = x.output /\ Still(x, y)
    BY <1>13, DeltaQuiet DEF Still
  <2> HIDE DEF y
  <2>2. QuietCall(w, y, s)
    BY <1>13, <2>1 DEF QuietCall, Still
  <2> QED
    BY <1>12, <2>2 DEF y
<1>14. QuietCall(w, w, s)
  BY DEF QuietCall, Still
<1>15. QuietCall(w, Announce(w, s), s) /\ IsConverter(Announce(w, s))
  BY <1>2, <1>10, <1>11, AnnounceQuiet
<1>16. Takes(v, PushTool(v, t), s, d)
  <2>1. Takes(v, ToolDelta(w, s, t.args), s, d)
    BY <1>8, <1>13, <1>14
  <2>2. Takes(v, ToolDelta(Announce(w, s), s, new.content), s, d)
    BY <1>13, <1>15
  <2> QED
    BY <1>3, <1>9, <2>1, <2>2
<1> QED
  BY <1>16 DEF s, d

\* A call ends: its item is added and closed, and told as it is.
LEMMA CloseToolEnds ==
  ASSUME NEW v, NEW p, NEW D, Holds(v, p, D), NEW f, Kept(v, f), NEW t \in Range(Tools)
  PROVE  /\ Kept(CloseTool(v, t), f)
         /\ \A x \in DOMAIN v.items : CloseTool(v, t).items[x].content = v.items[x].content
         /\ \A x \in DOMAIN v.items : v.items[x].done => CloseTool(v, t).items[x].done
         /\ t \in DOMAIN v.items => CloseTool(v, t).items[t].done
<1> DEFINE w == IF Added(v, t) THEN v ELSE Announce(v, t)
           x == IF w.items[t].name = "custom" THEN Delta(w, t, w.items[t].content) ELSE w
           y == Close(x, t)
<1>0. t \notin OwnSlots
  BY ToolIsNotOwn
<1>1. CASE t \notin DOMAIN v.items \/ v.items[t].done
  <2>1. CloseTool(v, t) = v
    BY <1>1 DEF CloseTool
  <2> QED
    BY <1>1, <2>1
<1>2. CASE ~(t \notin DOMAIN v.items \/ v.items[t].done)
  <2>0. /\ t \in D /\ t \in DOMAIN v.items /\ ~v.items[t].done /\ DOMAIN v.items = D
        /\ InStep(v, p, {t}) /\ Typed(v) /\ v.next \in Nat /\ IsConverter(v) /\ Slotted(v)
    BY <1>2, HoldsFacts DEF Holds, InStep, Numbered, Listed, Shut, Slotted
  <2>1. CloseTool(v, t) = y
    BY <1>2 DEF CloseTool
  <2>2. /\ QuietCall(v, w, t) /\ Added(w, t) /\ Typed(w)
    <3>1. CASE Added(v, t)
      BY <2>0, <3>1 DEF QuietCall, Still
    <3>2. CASE ~Added(v, t)
      <4>1. w = Announce(v, t)
        BY <3>2
      <4> HIDE DEF w
      <4>2. InStep(w, p, {t}) /\ QuietCall(v, w, t) /\ Added(w, t)
        BY <1>0, <2>0, <3>2, <4>1, AnnounceInStep, AnnounceQuiet
      <4> QED
        BY <4>2 DEF InStep
    <3> QED
      BY <3>1, <3>2
  <2> HIDE DEF w
  <2>3. IsConverter(w)
    BY <2>2 DEF Typed
  <2>4. x.items = w.items /\ x.output = w.output /\ IsConverter(x)
    <3> DEFINE e == [type |-> "delta", slot |-> t, text |-> w.items[t].content]
    <3>1. x = w \/ x = Emit(w, e)
      BY DEF Delta
    <3> HIDE DEF x, e
    <3> QED
      BY <2>3, <3>1, EmitRest, EmitTells
  <2> HIDE DEF x
  <2>5. Typed(x) /\ t \in DOMAIN x.items
    BY <2>0, <2>2, <2>4 DEF Typed, QuietCall
  <2>6. /\ DOMAIN x.items = DOMAIN v.items /\ x.output = v.output /\ x.items[t].done = v.items[t].done
        /\ \A z \in DOMAIN v.items \ {t} : x.items[z] = v.items[z]
        /\ \A z \in DOMAIN v.items : x.items[z].content = v.items[z].content
        /\ Added(x, t)
    BY <2>2, <2>4 DEF QuietCall, Added
  <2>7. Kept(x, f) /\ Slotted(x)
    BY <2>0, <2>6 DEF Kept, Slotted
  <2>8. Ended(x, y, t) /\ (Closing(x, y, t) \/ ~Added(x, t) \/ x.items[t].done)
    BY <2>5, CloseEnds, CloseIs
  <2> HIDE DEF y
  <2>9. Kept(y, f)
    BY <2>5, <2>7, <2>8, EndedKept
  <2>10. y.items[t].done
    BY <2>0, <2>6, <2>8 DEF Closing
  <2>11. \A z \in DOMAIN v.items : y.items[z].content = v.items[z].content
    BY <2>5, <2>6, <2>8 DEF Ended
  <2>12. \A z \in DOMAIN v.items : v.items[z].done => y.items[z].done
    BY <2>5, <2>6, <2>8, <2>10 DEF Ended
  <2> QED
    BY <2>1, <2>9, <2>10, <2>11, <2>12
<1> QED
  BY <1>1, <1>2

\* What the deltas of a call make of its arguments.
ArgsOf(q, t, v) == FoldLeft(LAMBDA text, d : IF d.tool = t THEN text \o d.args ELSE text, v, q)

\* It is a fold.
LEMMA ArgsFolds ==
  ASSUME NEW S, NEW q \in Seq(S), NEW t, NEW v
  PROVE  \E g : Iterates(g, "args", t, v, q, Len(q)) /\ ArgsOf(q, t, v) = g[1..Len(q)]
<1>0. DOMAIN q = 1..Len(q) /\ Len(q) \in Nat
  OBVIOUS
<1> DEFINE Is(g) == g = [z \in SUBSET (1..Len(q)) |->
              IF z = {} THEN v
              ELSE IF q[Max(z)].tool = t THEN g[z \ {Max(z)}] \o q[Max(z)].args ELSE g[z \ {Max(z)}]]
<1>1. \A w, x : Folded("args", t, w, x) = IF x.tool = t THEN w \o x.args ELSE w
  BY DEF Folded
<1>2. \A g : Is(g) <=> Iterates(g, "args", t, v, q, Len(q))
  <2> TAKE g
  <2>1. \A z : (IF q[Max(z)].tool = t THEN g[z \ {Max(z)}] \o q[Max(z)].args ELSE g[z \ {Max(z)}])
              = Folded("args", t, g[z \ {Max(z)}], q[Max(z)])
    BY <1>1
  <2> QED
    BY <2>1 DEF Iterates
<1>3. \E g : Is(g)
  BY <1>0, <1>2, Iterated
<1>4. Is(CHOOSE g : Is(g))
  BY <1>3
<1>5. ArgsOf(q, t, v) = (CHOOSE g : Is(g))[1..Len(q)]
  BY <1>0 DEF ArgsOf, FoldLeft, MapThenFoldSet
<1> QED
  BY <1>2, <1>4, <1>5

\* So it passes through the arguments after each delta.
LEMMA ArgsSteps ==
  ASSUME NEW S, NEW q \in Seq(S), NEW t, NEW v
  PROVE  \E f : /\ f[0] = v /\ f[Len(q)] = ArgsOf(q, t, v)
                /\ \A n \in 0..Len(q) - 1 : f[n + 1] = IF q[n + 1].tool = t THEN f[n] \o q[n + 1].args ELSE f[n]
<1>1. PICK op : op = "args"
  OBVIOUS
<1>2. PICK g : Iterates(g, op, t, v, q, Len(q)) /\ ArgsOf(q, t, v) = g[1..Len(q)]
  BY <1>1, ArgsFolds
<1>3. PICK f : /\ f[0] = v /\ f[Len(q)] = g[1..Len(q)]
               /\ \A n \in 0..Len(q) - 1 : f[n + 1] = Folded(op, t, f[n], q[n + 1])
  <2>1. Iterates(g, op, t, v, q, Len(q))
    BY <1>2
  <2> QED
    BY <2>1, FoldSteps
<1>4. \A w, x : Folded(op, t, w, x) = IF x.tool = t THEN w \o x.args ELSE w
  BY <1>1 DEF Folded
<1>5. ASSUME NEW n \in 0..Len(q) - 1
      PROVE  f[n + 1] = IF q[n + 1].tool = t THEN f[n] \o q[n + 1].args ELSE f[n]
  <2>1. f[n + 1] = Folded(op, t, f[n], q[n + 1])
    BY <1>3
  <2> QED
    BY <1>4, <2>1
<1>6. f[0] = v /\ f[Len(q)] = ArgsOf(q, t, v)
  BY <1>2, <1>3
<1> QED
  BY <1>5, <1>6

\* The text of a slot, or nothing.
TextIn(v, t) == IF t \in DOMAIN v.items THEN v.items[t].content ELSE <<>>

\* A delta of a call keeps what the closed items tell.
LEMMA TakesTidy ==
  ASSUME NEW v, NEW f, NEW D, Sound(v, f, D), NEW t, t \notin OwnSlots, NEW d, NEW w, Takes(v, w, t, d)
  PROVE  Tidy(w, f)
<1>1. OwnSlots \subseteq DOMAIN v.items
  BY HoldsFacts DEF Sound, Holds
<1>2. \A s \in OwnSlots : w.items[s] = v.items[s]
  BY <1>1 DEF Takes
<1>3. Kept(w, f)
  <2> SUFFICES ASSUME NEW j \in DOMAIN w.output, w.output[j].slot # "reasoning" \/ ~f
               PROVE  w.output[j].content = w.items[w.output[j].slot].content
    BY DEF Kept
  <2>1. w.output = v.output
    BY DEF Takes
  <2>2. w.output[j].slot = "reasoning"
    BY <2>1, OnlyReasoning
  <2>3. w.items["reasoning"] = v.items["reasoning"]
    BY <1>2 DEF OwnSlots
  <2>4. v.output[j].content = v.items[v.output[j].slot].content
    BY <2>1 DEF Sound, Tidy, Kept
  <2> QED
    BY <2>1, <2>2, <2>3, <2>4
<1>4. \A s \in OwnSlots : w.items[s].content \in Text /\ (~Added(w, s) => w.items[s].content = <<>>)
  BY <1>2 DEF Sound, Tidy, Added
<1>5. ASSUME NEW x \in DOMAIN w.items, w.items[x].done
      PROVE  x = "reasoning"
  <2>1. CASE x \in DOMAIN v.items
    <3>1. v.items[x].done
      BY <1>5, <2>1 DEF Takes
    <3> QED
      BY <2>1, <3>1 DEF Sound, Tidy
  <2>2. CASE x \notin DOMAIN v.items
    <3>1. x = t /\ w.items[t].done = FALSE
      BY <2>2 DEF Takes
    <3> QED
      BY <1>5, <3>1
  <2> QED
    BY <2>1, <2>2
<1> QED
  BY <1>3, <1>4, <1>5 DEF Tidy

\* The deltas of a chunk: the texts of the calls are the arguments that came for them.
LEMMA CallsRead ==
  ASSUME NEW e, NEW f, NEW D, Sound(e, f, D), NEW q \in Seq(Call), NEW w, w = FoldLeft(PushTool, e, q)
  PROVE  /\ Sound(w, f, DOMAIN w.items) /\ Still(e, w) /\ \A s \in OwnSlots : w.items[s] = e.items[s]
         /\ \A t : t \notin OwnSlots => TextIn(w, t) = ArgsOf(q, t, TextIn(e, t))
<1>1. PICK g : Iterates(g, "push", AnySlot, e, q, Len(q)) /\ FoldLeft(PushTool, e, q) = g[1..Len(q)]
  BY Folds
<1>2. PICK h : /\ h[0] = e /\ h[Len(q)] = g[1..Len(q)]
               /\ \A n \in 0..Len(q) - 1 : h[n + 1] = Folded("push", AnySlot, h[n], q[n + 1])
  <2>1. Iterates(g, "push", AnySlot, e, q, Len(q))
    BY <1>1
  <2> QED
    BY <2>1, FoldSteps, SMTT(20)
<1>3. Len(q) \in Nat /\ DOMAIN q = 1..Len(q)
  OBVIOUS
<1>4. ASSUME NEW n \in Nat, n + 1 <= Len(q), Sound(h[n], f, DOMAIN h[n].items)
      PROVE  /\ q[n + 1] \in Call /\ q[n + 1].tool \notin OwnSlots
             /\ Takes(h[n], h[n + 1], q[n + 1].tool, q[n + 1].args)
             /\ Sound(h[n + 1], f, DOMAIN h[n + 1].items)
  <2> DEFINE v == h[n]
             t == q[n + 1]
             x == h[n + 1]
             E == DOMAIN v.items
  <2>1. n \in 0..Len(q) - 1 /\ n + 1 \in DOMAIN q
    BY <1>3, <1>4
  <2>2. t \in Call
    BY <2>1, ElementIn
  <2>3. x = PushTool(v, t)
    BY <1>2, <2>1 DEF Folded
  <2>4. Sound(v, f, E)
    BY <1>4
  <2> HIDE DEF v, t, x, E
  <2>5. Holds(v, Anyhow, E) /\ (Anyhow => ProperDelta(t, E \ OwnSlots))
    BY <2>4 DEF Sound, Anyhow
  <2>6. Holds(x, Anyhow, E \union {t.tool})
    BY <2>2, <2>3, <2>5, PushToolHolds
  <2>7. t.tool \notin OwnSlots
    BY <2>2, ToolIsNotOwn DEF Call
  <2> DEFINE s == t.tool
             d == t.args
  <2>8. Takes(v, x, s, d)
    BY <2>2, <2>3, <2>5, PushToolTakes
  <2>9. s \notin OwnSlots
    BY <2>7
  <2> HIDE DEF s, d
  <2>10. Tidy(x, f)
    BY <2>4, <2>8, <2>9, TakesTidy
  <2>11. Sound(x, f, DOMAIN x.items)
    BY <2>6, <2>10 DEF Sound, Holds
  <2> QED
    BY <2>2, <2>7, <2>8, <2>11 DEF v, t, x, s, d
<1> DEFINE Good == {n \in Nat : n <= Len(q) =>
                      /\ Sound(h[n], f, DOMAIN h[n].items) /\ Still(e, h[n])
                      /\ \A s \in OwnSlots : h[n].items[s] = e.items[s]}
<1>5. 0 \in Good
  <2>1. DOMAIN e.items = D
    BY DEF Sound, Holds
  <2> QED
    BY <1>2, <2>1 DEF Still
<1>6. ASSUME NEW n \in Nat, n \in Good
      PROVE  n + 1 \in Good
  <2> SUFFICES ASSUME n + 1 <= Len(q)
               PROVE  /\ Sound(h[n + 1], f, DOMAIN h[n + 1].items) /\ Still(e, h[n + 1])
                      /\ \A s \in OwnSlots : h[n + 1].items[s] = e.items[s]
    OBVIOUS
  <2>1. n <= Len(q)
    BY <1>3
  <2>2. /\ Sound(h[n], f, DOMAIN h[n].items) /\ Still(e, h[n])
        /\ \A s \in OwnSlots : h[n].items[s] = e.items[s]
    BY <1>6, <2>1
  <2>3. /\ q[n + 1].tool \notin OwnSlots
        /\ Takes(h[n], h[n + 1], q[n + 1].tool, q[n + 1].args)
        /\ Sound(h[n + 1], f, DOMAIN h[n + 1].items)
    BY <1>4, <2>2
  <2>4. Still(e, h[n + 1])
    BY <2>2, <2>3 DEF Takes, Still
  <2>5. OwnSlots \subseteq DOMAIN h[n].items
    BY <2>2, HoldsFacts DEF Sound, Holds
  <2>6. \A s \in OwnSlots : h[n + 1].items[s] = h[n].items[s]
    BY <2>3, <2>5 DEF Takes
  <2> QED
    BY <2>2, <2>3, <2>4, <2>6
<1>7. Nat \subseteq Good
  <2> HIDE DEF Good
  <2> QED
    BY <1>5, <1>6, Induction
<1>8. \A n \in 0..Len(q) : Sound(h[n], f, DOMAIN h[n].items)
  BY <1>3, <1>7
<1>9. Sound(w, f, DOMAIN w.items) /\ Still(e, w) /\ \A s \in OwnSlots : w.items[s] = e.items[s]
  <2>1. w = h[Len(q)] /\ Len(q) \in Good
    BY <1>1, <1>2, <1>3, <1>7
  <2> QED
    BY <1>3, <2>1
<1>10. ASSUME NEW t, t \notin OwnSlots
       PROVE  TextIn(w, t) = ArgsOf(q, t, TextIn(e, t))
  <2> DEFINE b == TextIn(e, t)
  <2>1. PICK a : /\ a[0] = b /\ a[Len(q)] = ArgsOf(q, t, b)
                 /\ \A n \in 0..Len(q) - 1 : a[n + 1] = IF q[n + 1].tool = t THEN a[n] \o q[n + 1].args ELSE a[n]
    <3> HIDE DEF b
    <3> QED
      BY ArgsSteps
  <2> DEFINE Same == {n \in Nat : n <= Len(q) => TextIn(h[n], t) = a[n]}
  <2>2. 0 \in Same
    BY <1>2, <2>1
  <2>3. ASSUME NEW n \in Nat, n \in Same
        PROVE  n + 1 \in Same
    <3> SUFFICES ASSUME n + 1 <= Len(q)
                 PROVE  TextIn(h[n + 1], t) = a[n + 1]
      OBVIOUS
    <3>1. n <= Len(q) /\ n \in 0..Len(q) /\ n \in 0..Len(q) - 1
      BY <1>3
    <3>2. TextIn(h[n], t) = a[n] /\ Sound(h[n], f, DOMAIN h[n].items)
      BY <1>8, <2>3, <3>1
    <3> DEFINE s == q[n + 1].tool
               d == q[n + 1].args
    <3>3. Takes(h[n], h[n + 1], s, d)
      BY <1>4, <3>2
    <3>4. a[n + 1] = IF s = t THEN a[n] \o d ELSE a[n]
      BY <2>1, <3>1
    <3> HIDE DEF s, d
    <3>5. CASE s = t
      <4>1. TextIn(h[n + 1], t) = TextIn(h[n], t) \o d
        BY <3>3, <3>5 DEF Takes, TextIn
      <4> QED
        BY <3>2, <3>4, <3>5, <4>1
    <3>6. CASE s # t
      <4>1. TextIn(h[n + 1], t) = TextIn(h[n], t)
        BY <3>3, <3>6 DEF Takes, TextIn
      <4> QED
        BY <3>2, <3>4, <3>6, <4>1
    <3> QED
      BY <3>5, <3>6
  <2>4. Nat \subseteq Same
    <3> HIDE DEF Same
    <3> QED
      BY <2>2, <2>3, Induction
  <2>5. TextIn(h[Len(q)], t) = a[Len(q)]
    <3>1. Len(q) \in Same
      BY <1>3, <2>4
    <3> QED
      BY <1>3, <3>1
  <2> QED
    BY <1>1, <1>2, <2>1, <2>5
<1> QED
  BY <1>9, <1>10

\* No delta brings nothing.
LEMMA ArgsNone ==
  ASSUME NEW t, NEW v
  PROVE  ArgsOf(<<>>, t, v) = v
<1>1. <<>> \in Seq({}) /\ Len(<<>>) = 0 /\ 1..0 = {}
  OBVIOUS
<1>2. PICK g : Iterates(g, "args", t, v, <<>>, Len(<<>>)) /\ ArgsOf(<<>>, t, v) = g[1..Len(<<>>)]
  BY <1>1, ArgsFolds
<1>3. {} \in SUBSET (1..Len(<<>>)) /\ 1..Len(<<>>) = {}
  BY <1>1
<1> QED
  BY <1>2, <1>3 DEF Iterates

(* A chunk. *)

\* Once reasoning came in a field, less is said of it.
LEMMA SoundField ==
  ASSUME NEW v, NEW f, NEW D, Sound(v, f, D), NEW g, f => g
  PROVE  Sound(v, g, D)
BY DEF Sound, Tidy, Kept

\* So of what was read, while the two items of its own stay what they are.
LEMMA ReadsField ==
  ASSUME NEW v, NEW B, NEW A, NEW f, NEW called, Reads(v, B, A, f, called), NEW g, f => g,
         NEW w, Still(v, w), w.items["text"] = v.items["text"], ~g => w.items["reasoning"] = v.items["reasoning"]
  PROVE  Reads(w, B, A, g, called)
<1>1. Waiting(v, B, f) => Waiting(w, B, g)
  BY DEF Waiting, Still
<1>2. Settled(v, B, A, f) => Settled(w, B, A, g)
  BY DEF Settled, Still
<1>3. w.mode = v.mode
  BY DEF Still
<1> QED
  BY <1>1, <1>2, <1>3 DEF Reads

\* The start of the response is none of the texts.
LEMMA StartReads ==
  ASSUME NEW v, NEW f, NEW D, Sound(v, f, D)
  PROVE  Sound(Start(v), f, D) /\ Still(v, Start(v)) /\ Start(v).items = v.items
<1> DEFINE w == [v EXCEPT !.started = TRUE]
           e == [type |-> "created"]
<1>0. IsConverter(v)
  BY HoldsFacts DEF Sound
<1>1. /\ IsConverter(w) /\ w.items = v.items /\ w.output = v.output /\ w.mode = v.mode /\ w.think = v.think
  BY <1>0 DEF IsConverter
<1>2. Start(v) = v \/ Start(v) = Emit(w, e)
  BY DEF Start
<1> HIDE DEF w, e
<1>3. Emit(w, e).items = w.items /\ Emit(w, e).output = w.output /\ Still(w, Emit(w, e))
  BY <1>1, EmitRest, EmitStill
<1>4. Start(v).items = v.items /\ Start(v).output = v.output /\ Still(v, Start(v))
  BY <1>1, <1>2, <1>3 DEF Still
<1>5. Holds(Start(v), Anyhow, D)
  BY StartHolds DEF Sound
<1>6. Tidy(Start(v), f)
  BY <1>4 DEF Sound, Tidy, Kept, Added
<1> QED
  BY <1>4, <1>5, <1>6 DEF Sound

\* Reasoning in a field is none of the content.
LEMMA FieldReads ==
  ASSUME NEW v, NEW f, NEW D, Sound(v, f, D), f, NEW B, NEW A, NEW called, Reads(v, B, A, f, called), NEW d \in Text
  PROVE  /\ Sound(PushReasoning(v, d), f, D) /\ SameCalls(v, PushReasoning(v, d))
         /\ Reads(PushReasoning(v, d), B, A, f, called)
<1> DEFINE w == PushReasoning(v, d)
<1>1. Turns(v, w, f, D, d, <<>>)
  BY ReasoningTurns
<1> HIDE DEF w
<1>2. w.items["text"].content = v.items["text"].content /\ Still(v, w)
  BY <1>1, JoinNone DEF Turns, Learns, Sound, Tidy, OwnSlots
<1>3. Sound(w, f, D) /\ SameCalls(v, w)
  BY <1>1 DEF Turns, Learns, SameCalls
<1>4. Waiting(v, B, f) => Waiting(w, B, f)
  BY <1>2 DEF Waiting, Still
<1>5. Settled(v, B, A, f) => Settled(w, B, A, f)
  BY <1>2 DEF Settled, Still
<1>6. w.mode = v.mode
  BY <1>2 DEF Still
<1>7. Reads(w, B, A, f, called)
  BY <1>4, <1>5, <1>6 DEF Reads
<1> QED
  BY <1>3, <1>7 DEF w

\* Content, whatever is known of it.
LEMMA ContentReads ==
  ASSUME NEW v, NEW f, NEW D, Sound(v, f, D), NEW B \in Text, NEW A \in Text, NEW called,
         Reads(v, B, A, f, called), NEW d \in Text
  PROVE  /\ Sound(PushContent(v, d), f, D) /\ SameCalls(v, PushContent(v, d))
         /\ Reads(PushContent(v, d), IF called THEN B ELSE B \o d, IF called THEN A \o d ELSE A, f, called)
<1>1. CASE Settled(v, B, A, f) /\ (called \/ (A = <<>> /\ Decided(B)))
  BY <1>1, SettledReads
<1>2. CASE ~called /\ A = <<>> /\ Waiting(v, B, f)
           /\ ((v.mode = "detecting" /\ PrefixDecision(B) = "more") \/ (v.mode = "reasoning" /\ Cut(B)))
  <2>1. /\ A = <<>> /\ ~called /\ Waiting(v, B, f)
        /\ (v.mode = "detecting" /\ PrefixDecision(B) = "more") \/ (v.mode = "reasoning" /\ Cut(B))
    BY <1>2
  <2>2. /\ Sound(PushContent(v, d), f, D) /\ SameCalls(v, PushContent(v, d))
        /\ Reads(PushContent(v, d), B \o d, A, f, called)
    BY <2>1, WaitingReads
  <2> QED
    BY <2>1, <2>2
<1> QED
  BY <1>1, <1>2 DEF Reads

\* A chunk is read as it was meant.
LEMMA ChunkReads ==
  ASSUME NEW v, NEW f, NEW D, Sound(v, f, D), NEW B \in Text, NEW A \in Text, NEW called,
         Reads(v, B, A, f, called), NEW k \in Chunks, NEW g, g <=> f \/ k.reasoning # <<>>,
         NEW w, w = HandleChunk(v, k), NEW late, late <=> called \/ k.tools # <<>>
  PROVE  /\ Sound(w, g, DOMAIN w.items)
         /\ Reads(w, IF called THEN B ELSE B \o k.content, IF called THEN A \o k.content ELSE A, g, late)
         /\ \A t : t \notin OwnSlots => TextIn(w, t) = ArgsOf(k.tools, t, TextIn(v, t))
<1> DEFINE a == Start(v)
           b == IF k.reasoning = <<>> THEN a ELSE PushReasoning(a, k.reasoning)
           d == IF k.content = <<>> THEN b ELSE PushContent(b, k.content)
           e == CloseReasoning(FlushThink(d))
           q == k.tools
           C == IF called THEN B ELSE B \o k.content
           E == IF called THEN A \o k.content ELSE A
<1>1. (w = d /\ q = <<>>) \/ (w = FoldLeft(PushTool, e, q) /\ q # <<>>)
  BY DEF HandleChunk
<1>2. k.reasoning \in Text /\ k.content \in Text /\ q \in Seq(Call)
  BY ChunkAssumption DEF Text, Call
<1>3. C \in Text /\ E \in Text
  BY <1>2, JoinIs
<1>4. Sound(a, g, D) /\ Reads(a, B, A, g, called) /\ SameCalls(v, a)
  <2>1. Sound(a, f, D) /\ Still(v, a) /\ a.items = v.items
    BY StartReads
  <2> HIDE DEF a
  <2>2. Reads(a, B, A, g, called)
    BY <2>1, ReadsField
  <2> QED
    BY <2>1, <2>2, SoundField DEF SameCalls
<1> HIDE DEF a
<1>5. Sound(b, g, D) /\ Reads(b, B, A, g, called) /\ SameCalls(a, b)
  <2>1. CASE k.reasoning = <<>>
    BY <1>4, <2>1 DEF SameCalls
  <2>2. CASE k.reasoning # <<>>
    BY <1>2, <1>4, <2>2, FieldReads
  <2> QED
    BY <2>1, <2>2
<1> HIDE DEF b
<1>6. Sound(d, g, D) /\ Reads(d, C, E, g, called) /\ SameCalls(b, d)
  <2>1. CASE k.content = <<>>
    <3>1. C = B /\ E = A
      BY <2>1, JoinNone
    <3> QED
      BY <1>5, <2>1, <3>1 DEF SameCalls
  <2>2. CASE k.content # <<>>
    BY <1>2, <1>5, <2>2, ContentReads
  <2> QED
    BY <2>1, <2>2
<1> HIDE DEF d
<1>7. \A t : t \notin OwnSlots => TextIn(d, t) = TextIn(v, t)
  BY <1>4, <1>5, <1>6 DEF SameCalls, TextIn
<1>8. CASE w = d /\ q = <<>>
  <2>1. Reads(w, C, E, g, late)
    BY <1>6, <1>8 DEF Reads
  <2>2. Sound(w, g, DOMAIN w.items)
    BY <1>6, <1>8 DEF Sound, Holds
  <2>3. \A t : t \notin OwnSlots => TextIn(w, t) = ArgsOf(q, t, TextIn(v, t))
    BY <1>7, <1>8, ArgsNone
  <2> QED
    BY <2>1, <2>2, <2>3
<1>9. CASE w = FoldLeft(PushTool, e, q) /\ q # <<>>
  <2> DEFINE u == FlushThink(d)
  <2>1. Sound(u, g, D) /\ SameCalls(d, u) /\ Settled(u, C, E, g)
    <3> HIDE DEF C, E
    <3> QED
      BY <1>3, <1>6, FlushReads
  <2> HIDE DEF u
  <2>2. PICK n : n = <<>>
    OBVIOUS
  <2>3. Turns(u, e, g, D, n, n)
    BY <2>1, <2>2, CloseTurns DEF u
  <2> HIDE DEF e
  <2>4. Sound(e, g, D) /\ SameCalls(u, e)
    BY <2>3 DEF Turns, Learns, SameCalls
  <2>5. Settled(e, C, E, g)
    <3>1. /\ e.items["text"].content = u.items["text"].content /\ e.mode = u.mode
          /\ ~g => e.items["reasoning"].content = u.items["reasoning"].content
      BY <2>1, <2>2, <2>3, JoinNone DEF Turns, Learns, Still, Sound, Tidy, OwnSlots
    <3> HIDE DEF C, E
    <3> QED
      BY <2>1, <3>1 DEF Settled
  <2>6. /\ Sound(w, g, DOMAIN w.items) /\ Still(e, w) /\ \A s \in OwnSlots : w.items[s] = e.items[s]
        /\ \A t : t \notin OwnSlots => TextIn(w, t) = ArgsOf(q, t, TextIn(e, t))
    <3>1. w = FoldLeft(PushTool, e, q)
      BY <1>9
    <3> HIDE DEF q
    <3> QED
      BY <1>2, <2>4, <3>1, CallsRead
  <2>7. Settled(w, C, E, g)
    <3>1. w.items["text"] = e.items["text"] /\ w.items["reasoning"] = e.items["reasoning"] /\ w.mode = e.mode
      BY <2>6 DEF Still, OwnSlots
    <3> HIDE DEF C, E
    <3> QED
      BY <2>5, <3>1 DEF Settled
  <2>8. Reads(w, C, E, g, late)
    BY <1>9, <2>7 DEF Reads
  <2>9. \A t : t \notin OwnSlots => TextIn(e, t) = TextIn(v, t)
    BY <1>7, <2>1, <2>4 DEF SameCalls, TextIn
  <2> QED
    BY <2>6, <2>8, <2>9
<1> QED
  BY <1>1, <1>8, <1>9

(* The end. *)

\* A text is told by the list of closed items, or there is none.
Full(v, s) == v.items[s].done \/ v.items[s].content = <<>>

\* So for all of D.
AllFull(v, D) == \A s \in D : Full(v, s)

\* Every text is what it was, and what was told is.
Holding(v, w, f) ==
  /\ Kept(w, f) /\ DOMAIN w.items = DOMAIN v.items
  /\ \A x \in DOMAIN v.items : w.items[x].content = v.items[x].content

\* The items of a slot in a list have the text x, and only without a text there is none.
Tells(q, s, x) ==
  /\ \A i \in 1..Len(q) : q[i].slot = s => q[i].content = x
  /\ (\E i \in 1..Len(q) : q[i].slot = s) \/ x = <<>>

\* Then it is the text of the slot.
LEMMA ContentFrom ==
  ASSUME NEW q, Len(q) \in Nat, NEW s, NEW x, Tells(q, s, x)
  PROVE  ContentOf(q, s) = x
<1> DEFINE n == Len(q)
           I == {i \in 1..n : q[i].slot = s}
           k == SelectInSeq(q, LAMBDA i : i.slot = s)
<1>1. k = FirstOf(I)
  BY DEF SelectInSeq, FirstOf
<1>2. ContentOf(q, s) = IF k = 0 THEN <<>> ELSE q[k].content
  BY DEF ContentOf
<1>3. n \in Nat /\ I \in SUBSET (1..n) /\ 0 \notin I
  OBVIOUS
<1> HIDE DEF k, n
<1>4. \/ FirstOf(I) = 0 /\ I = {}
      \/ FirstOf(I) \in I
  <2> HIDE DEF I
  <2> QED
    BY <1>3, FirstIs
<1>5. CASE k = 0 /\ I = {}
  <2>1. x = <<>>
    BY <1>5 DEF n, Tells
  <2> QED
    BY <1>2, <1>5, <2>1
<1>6. CASE k \in I
  <2>1. q[k].content = x /\ k # 0
    BY <1>3, <1>6 DEF n, Tells
  <2> QED
    BY <1>2, <2>1
<1> QED
  BY <1>1, <1>4, <1>5, <1>6

\* What the completion says of a slot whose text is told is that text.
LEMMA ContentIs ==
  ASSUME NEW w, NEW p, NEW D, Holds(w, p, D), AllShut(w, D), NEW f, Kept(w, f),
         NEW s \in D, s # "reasoning" \/ ~f, Full(w, s)
  PROVE  ContentOf(CompletedItems(w), s) = w.items[s].content
<1> DEFINE q == CompletedItems(w)
           x == w.items[s].content
<1>1. /\ Len(q) = w.next /\ \A n \in 1..w.next : \E j \in DOMAIN w.output : q[n] = w.output[j] /\ w.output[j].index = n
  BY SortedItems
<1>2. Typed(w) /\ Numbered(w, p) /\ Listed(w, p) /\ DOMAIN w.items = D /\ w.next \in Nat
  BY DEF Holds, InStep, Numbered
<1> HIDE DEF q
<1>3. \A i \in 1..Len(q) : q[i].slot = s => q[i].content = x
  <2> SUFFICES ASSUME NEW i \in 1..Len(q), q[i].slot = s
               PROVE  q[i].content = x
    OBVIOUS
  <2>1. PICK j \in DOMAIN w.output : q[i] = w.output[j]
    BY <1>1
  <2> QED
    BY <2>1 DEF Kept
<1>4. (\E i \in 1..Len(q) : q[i].slot = s) \/ x = <<>>
  <2>1. CASE x = <<>>
    BY <2>1
  <2>2. CASE w.items[s].done
    <3>1. PICK j \in DOMAIN w.output : w.output[j].slot = s
      BY <1>2, <2>2 DEF Listed
    <3>2. Shut(w, p, w.output[j])
      BY <1>2 DEF Listed
    <3> DEFINE n == w.items[s].index
    <3>3. n # 0 /\ n \in Nat /\ n <= w.next
      BY <1>2, <3>1, <3>2 DEF Shut, Typed, Numbered
    <3>4. n \in 1..w.next
      BY <1>2, <3>3
    <3>5. PICK i \in DOMAIN w.output : q[n] = w.output[i] /\ w.output[i].index = n
      BY <1>1, <3>4
    <3> DEFINE t == w.output[i].slot
    <3>6. t \in DOMAIN w.items /\ w.items[t].index = n
      BY <1>2, <3>5 DEF Listed, Shut
    <3>7. t = s
      <4> HIDE DEF t
      <4>1. Added(w, t) /\ w.items[t].index = w.items[s].index
        BY <3>3, <3>6 DEF Added
      <4> QED
        BY <1>2, <3>6, <4>1 DEF Numbered
    <3> QED
      BY <1>1, <3>4, <3>5, <3>7
  <2> QED
    BY <2>1, <2>2 DEF Full
<1>5. Len(q) \in Nat
  BY <1>1, <1>2
<1> HIDE DEF x
<1>6. Tells(q, s, x)
  BY <1>3, <1>4 DEF Tells
<1>7. ContentOf(q, s) = x
  BY <1>5, <1>6, ContentFrom
<1> QED
  BY <1>7 DEF q, x

\* The end of an item of its own keeps every text.
LEMMA CloseHolding ==
  ASSUME NEW v, NEW p, NEW D, Holds(v, p, D), NEW f, Kept(v, f), NEW s \in OwnSlots
  PROVE  Holding(v, Close(v, s), f) /\ \A x \in OwnSlots : Added(Close(v, s), x) <=> Added(v, x)
<1> DEFINE w == Close(v, s)
<1>1. Typed(v) /\ Listed(v, p) /\ s \in DOMAIN v.items /\ OwnSlots \subseteq DOMAIN v.items
  BY HoldsFacts DEF Holds, InStep
<1>2. Slotted(v)
  BY <1>1 DEF Slotted, Listed, Shut
<1>3. Ended(v, w, s)
  BY <1>1, CloseEnds
<1> HIDE DEF w
<1>4. Kept(w, f)
  BY <1>1, <1>2, <1>3, EndedKept
<1>5. /\ DOMAIN w.items = DOMAIN v.items
      /\ \A x \in DOMAIN v.items : w.items[x].content = v.items[x].content /\ w.items[x].index = v.items[x].index
  BY <1>3 DEF Ended
<1>6. Holding(v, w, f) /\ \A x \in OwnSlots : Added(w, x) <=> Added(v, x)
  BY <1>1, <1>4, <1>5 DEF Holding, Added
<1> QED
  BY <1>6 DEF w

\* h are the converters after the end of each call.
ClosesBy(h, v) == h[0] = v /\ \A n \in 0..Len(Tools) - 1 : h[n + 1] = CloseTool(h[n], Tools[n + 1])

\* The end of the calls passes through such.
LEMMA CloseSteps ==
  ASSUME NEW v
  PROVE  \E h : ClosesBy(h, v) /\ h[Len(Tools)] = FoldLeft(CloseTool, v, Tools)
<1>0. Tools \in Seq(STRING)
  BY ToolsAssumption
<1>1. PICK op : op = "close"
  OBVIOUS
<1>2. PICK g : Iterates(g, op, AnySlot, v, Tools, Len(Tools)) /\ FoldLeft(CloseTool, v, Tools) = g[1..Len(Tools)]
  BY <1>0, <1>1, Folds
<1>3. PICK f : /\ f[0] = v /\ f[Len(Tools)] = g[1..Len(Tools)]
               /\ \A n \in 0..Len(Tools) - 1 : f[n + 1] = Folded(op, AnySlot, f[n], Tools[n + 1])
  <2>1. Iterates(g, op, AnySlot, v, Tools, Len(Tools))
    BY <1>2
  <2> QED
    BY <1>0, <2>1, FoldSteps
<1>4. \A a, x : Folded(op, AnySlot, a, x) = CloseTool(a, x)
  BY <1>1 DEF Folded
<1>5. ClosesBy(f, v)
  BY <1>3, <1>4 DEF ClosesBy
<1>6. f[Len(Tools)] = FoldLeft(CloseTool, v, Tools)
  BY <1>2, <1>3
<1> QED
  BY <1>5, <1>6

\* So does the end of the calls, and all of them are told.
LEMMA CallsEnd ==
  ASSUME NEW e, NEW p, NEW D, Holds(e, p, D), NEW f, Kept(e, f), AllFull(e, OwnSlots),
         NEW w, w = FoldLeft(CloseTool, e, Tools)
  PROVE  Holding(e, w, f) /\ \A s \in D : Full(w, s)
<1>7. Tools \in Seq(STRING) /\ Len(Tools) \in Nat /\ DOMAIN Tools = 1..Len(Tools)
  BY ToolsAssumption
<1>8. PICK h : ClosesBy(h, e) /\ h[Len(Tools)] = w
  BY CloseSteps
<1>9. /\ h[0] = e /\ h[Len(Tools)] = w
      /\ \A n \in 0..Len(Tools) - 1 : h[n + 1] = CloseTool(h[n], Tools[n + 1])
  BY <1>8 DEF ClosesBy
<1> DEFINE Z(n) == OwnSlots \union {Tools[i] : i \in 1..n}
           Ready(n) == \A s \in D : s \in Z(n) => Full(h[n], s)
           Good == {n \in Nat : n <= Len(Tools) => Holds(h[n], p, D) /\ Holding(e, h[n], f) /\ Ready(n)}
<1>10. 0 \in Good
  <2>1. Z(0) = OwnSlots
    OBVIOUS
  <2>2. Holding(e, e, f)
    BY DEF Holding
  <2> QED
    BY <1>9, <2>1, <2>2 DEF AllFull
<1>11. ASSUME NEW n \in Nat, n \in Good
       PROVE  n + 1 \in Good
  <2> SUFFICES ASSUME n + 1 <= Len(Tools)
               PROVE  Holds(h[n + 1], p, D) /\ Holding(e, h[n + 1], f) /\ Ready(n + 1)
    OBVIOUS
  <2>1. n \in 0..Len(Tools) - 1 /\ n <= Len(Tools) /\ n + 1 \in DOMAIN Tools
    BY <1>7
  <2> DEFINE t == Tools[n + 1]
             a == h[n]
             b == CloseTool(a, t)
  <2>2. t \in Range(Tools)
    BY <2>1 DEF Range
  <2>3. Holds(a, p, D) /\ Holding(e, a, f) /\ Ready(n)
    BY <1>11, <2>1
  <2>4. h[n + 1] = b
    BY <1>9, <2>1
  <2>5. Z(n + 1) = Z(n) \union {t}
    OBVIOUS
  <2>6. Kept(a, f) /\ DOMAIN a.items = D
    BY <2>3 DEF Holding, Holds
  <2>9. \A s \in D : s \in Z(n) => Full(a, s)
    BY <2>3
  <2> HIDE DEF Z, t, a
  <2>7. /\ Kept(b, f)
        /\ \A x \in DOMAIN a.items : b.items[x].content = a.items[x].content
        /\ \A x \in DOMAIN a.items : a.items[x].done => b.items[x].done
        /\ t \in DOMAIN a.items => b.items[t].done
    BY <2>2, <2>3, <2>6, CloseToolEnds
  <2>8. Holds(b, p, D)
    BY <2>2, <2>3, CloseToolHolds
  <2> HIDE DEF b
  <2>10. DOMAIN b.items = D
    BY <2>8 DEF Holds
  <2>11. Holding(e, b, f)
    BY <2>3, <2>6, <2>7, <2>10 DEF Holding
  <2>12. \A s \in D : s \in Z(n) \union {t} => Full(b, s)
    BY <2>6, <2>7, <2>9 DEF Full
  <2> QED
    BY <2>4, <2>5, <2>8, <2>11, <2>12
<1>12. Nat \subseteq Good
  <2> HIDE DEF Good
  <2> QED
    BY <1>10, <1>11, Induction
<1>13. Holds(w, p, D) /\ Holding(e, w, f) /\ \A s \in D : s \in Z(Len(Tools)) => Full(w, s)
  <2>1. Len(Tools) \in Good
    BY <1>7, <1>12
  <2>2. Holds(h[Len(Tools)], p, D) /\ Holding(e, h[Len(Tools)], f) /\ Ready(Len(Tools))
    BY <1>7, <2>1
  <2>3. w = h[Len(Tools)]
    BY <1>9
  <2> QED
    BY <2>2, <2>3
<1>14. D \subseteq Z(Len(Tools))
  <2>1. \A s \in D : s \notin OwnSlots => s \in Range(Tools)
    BY <1>13 DEF Holds, InStep, Typed
  <2>2. \A s \in Range(Tools) : \E i \in 1..Len(Tools) : Tools[i] = s
    BY <1>7 DEF Range
  <2> QED
    BY <2>1, <2>2
<1> HIDE DEF Z
<1> QED
  BY <1>13, <1>14

\* At the end it has told the answer in what it was given.
LEMMA EndReads ==
  ASSUME NEW v, NEW f, NEW D, Sound(v, f, D), NEW B \in Text, NEW A \in Text, NEW called,
         Reads(v, B, A, f, called),
         NEW w, w = FoldLeft(CloseTool, Close(CloseReasoning(FlushThink(Start(v))), "text"), Tools)
  PROVE  /\ Holds(w, Anyhow, D) /\ AllShut(w, D) /\ Kept(w, f) /\ \A s \in D : Full(w, s)
         /\ TrimStart(w.items["text"].content) = TrimStart(AnswerOf(B) \o A)
         /\ ~f => w.items["reasoning"].content = ThoughtOf(B)
         /\ \A t \in D \ OwnSlots : w.items[t].content = v.items[t].content
<1> DEFINE a0 == Start(v)
           a == FlushThink(a0)
           b == CloseReasoning(a)
           e == Close(b, "text")
<1>0. Holds(v, Anyhow, D) /\ w = FoldLeft(CloseTool, e, Tools)
  BY DEF Sound
<1>1. Holds(w, Anyhow, D) /\ AllShut(w, D)
  BY <1>0, EndHolds
<1>2. Sound(a0, f, D) /\ Still(v, a0) /\ a0.items = v.items
  BY StartReads
<1>3. Reads(a0, B, A, f, called)
  <2>1. f => f
    OBVIOUS
  <2>2. a0.items["text"] = v.items["text"] /\ (~f => a0.items["reasoning"] = v.items["reasoning"])
    BY <1>2
  <2> HIDE DEF a0
  <2> QED
    BY <1>2, <2>1, <2>2, ReadsField
<1> HIDE DEF a0
<1>4. Sound(a, f, D) /\ SameCalls(a0, a) /\ Settled(a, B, A, f)
  BY <1>2, <1>3, FlushReads
<1> HIDE DEF a
<1>5. Holds(a, Anyhow, D) /\ Kept(a, f) /\ OwnSlots \subseteq D /\ DOMAIN a.items = D
  BY <1>4, HoldsFacts DEF Sound, Tidy, Holds
<1>6. "reasoning" \in OwnSlots /\ "text" \in OwnSlots /\ ({} \union {"reasoning"}) \union {"text"} = OwnSlots
  BY DEF OwnSlots
<1>7. AllShut(a, {})
  BY DEF AllShut
<1>8. /\ Holds(b, Anyhow, D) /\ AllShut(b, {} \union {"reasoning"}) /\ Holding(a, b, f)
      /\ \A x \in OwnSlots : Added(b, x) <=> Added(a, x)
  BY <1>5, <1>6, <1>7, CloseHolds, CloseHolding DEF CloseReasoning
<1> HIDE DEF b
<1>9. Kept(b, f)
  BY <1>8 DEF Holding
<1>10. /\ Holds(e, Anyhow, D) /\ AllShut(e, OwnSlots) /\ Holding(b, e, f)
       /\ \A x \in OwnSlots : Added(e, x) <=> Added(b, x)
  BY <1>6, <1>8, <1>9, CloseHolds, CloseHolding
<1> HIDE DEF e
<1>11. Kept(e, f) /\ DOMAIN e.items = D /\ \A x \in D : e.items[x].content = a.items[x].content
  BY <1>5, <1>8, <1>10 DEF Holding
<1>12. ASSUME NEW s \in OwnSlots
       PROVE  Full(e, s)
  <2>1. s \in D
    BY <1>5
  <2>2. CASE Added(e, s)
    BY <1>10, <1>11, <2>1, <2>2 DEF AllShut, Full
  <2>3. CASE ~Added(e, s)
    <3>1. ~Added(a, s)
      BY <1>8, <1>10, <2>3
    <3>2. a.items[s].content = <<>>
      BY <1>4, <3>1 DEF Sound, Tidy
    <3> QED
      BY <1>11, <2>1, <3>2 DEF Full
  <2> QED
    BY <2>2, <2>3
<1>13. Holding(e, w, f) /\ \A s \in D : Full(w, s)
  <2>1. AllFull(e, OwnSlots)
    BY <1>12 DEF AllFull
  <2> QED
    BY <1>0, <1>10, <1>11, <2>1, CallsEnd
<1>14. Kept(w, f) /\ \A x \in D : w.items[x].content = a.items[x].content
  BY <1>11, <1>13 DEF Holding
<1>15. w.items["text"].content = a.items["text"].content /\ w.items["reasoning"].content = a.items["reasoning"].content
  BY <1>5, <1>6, <1>14
<1>16. \A t \in D \ OwnSlots : w.items[t].content = v.items[t].content
  BY <1>2, <1>4, <1>5, <1>14 DEF SameCalls
<1> QED
  BY <1>1, <1>4, <1>13, <1>14, <1>15, <1>16 DEF Settled

(* What the completion says of what was heard. *)

\* The arguments of a call: as they came in pieces, in normal form in one.
Argued(h, n, t) == IF n > 0 THEN h.args[t] ELSE WholeArguments(t \in h.custom, h.args[t])

\* The items of a completion say what was heard in n pieces.
Agrees(items, h, n) ==
  LET said == [reasoning |-> <<>>, content |-> h.before, tools |-> <<>>]
      cut  == Opens(TrimStart(h.before)) /\ ~Thinks(h.before) /\ n > 0
  IN  /\ TrimStart(ContentOf(items, "text")) =
           TrimStart((IF cut THEN <<>> ELSE MessageText(said)) \o h.after)
      /\ ~h.field => ContentOf(items, "reasoning") =
                       IF cut THEN Trim(Body(h.before)) ELSE ReasoningText(said)
      /\ \A t \in DOMAIN h.args : ContentOf(items, t) = Argued(h, n, t)

\* So does every completion.
AgreesAll(v, h, n) == \A i \in Told(v, "completed") : Agrees(v.out[i].items, h, n)

\* The texts of an answer without a field of its own.
LEMMA SaidIs ==
  ASSUME NEW B, NEW m, m.content = B
  PROVE  /\ MessageText(m) = IF Thinks(B) THEN SplitAnswer(B) ELSE B
         /\ m.reasoning = <<>> => ReasoningText(m) = IF Thinks(B) THEN SplitReasoning(B) ELSE <<>>
BY DEF MessageText, ReasoningText

\* Unless a think block was cut in the only piece, the completion tells the answer and the thought.
LEMMA AgreesIs ==
  ASSUME NEW items, NEW h, NEW n, n > 0 \/ ~Cut(h.before)
  PROVE  Agrees(items, h, n) <=>
           /\ TrimStart(ContentOf(items, "text")) = TrimStart(AnswerOf(h.before) \o h.after)
           /\ ~h.field => ContentOf(items, "reasoning") = ThoughtOf(h.before)
           /\ \A t \in DOMAIN h.args : ContentOf(items, t) = Argued(h, n, t)
<1> DEFINE B == h.before
           said == [reasoning |-> <<>>, content |-> B, tools |-> <<>>]
           cut == Opens(TrimStart(B)) /\ ~Thinks(B) /\ n > 0
<1>1. cut <=> Cut(B)
  BY DEF Cut
<1>2. said.content = B /\ said.reasoning = <<>>
  OBVIOUS
<1>3. Agrees(items, h, n) <=>
        /\ TrimStart(ContentOf(items, "text")) = TrimStart((IF cut THEN <<>> ELSE MessageText(said)) \o h.after)
        /\ ~h.field => ContentOf(items, "reasoning") = IF cut THEN Trim(Body(B)) ELSE ReasoningText(said)
        /\ \A t \in DOMAIN h.args : ContentOf(items, t) = Argued(h, n, t)
  BY DEF Agrees
<1> HIDE DEF said, cut
<1>4. /\ MessageText(said) = IF Thinks(B) THEN SplitAnswer(B) ELSE B
      /\ ReasoningText(said) = IF Thinks(B) THEN SplitReasoning(B) ELSE <<>>
  BY <1>2, SaidIs
<1>5. AnswerOf(B) = IF cut THEN <<>> ELSE MessageText(said)
  BY <1>1, <1>4 DEF AnswerOf
<1>6. ThoughtOf(B) = IF cut THEN Trim(Body(B)) ELSE ReasoningText(said)
  BY <1>1, <1>4 DEF ThoughtOf
<1> QED
  BY <1>3, <1>5, <1>6

\* In how many pieces does not matter any more after the first.
LEMMA AgreesMore ==
  ASSUME NEW v, NEW h, NEW n, n > 0, NEW m, m > 0, AgreesAll(v, h, n)
  PROVE  AgreesAll(v, h, m)
<1>1. (n > 0) /\ (m > 0)
  OBVIOUS
<1>2. ASSUME NEW items, Agrees(items, h, n)
      PROVE  Agrees(items, h, m)
  <2>1. \A t : Argued(h, n, t) = Argued(h, m, t)
    BY <1>1 DEF Argued
  <2> QED
    BY <1>1, <1>2, <2>1, AgreesIs
<1> QED
  BY <1>2 DEF AgreesAll

\* Then the completions told before are all there are.
LEMMA AgreesLonger ==
  ASSUME NEW v, NEW w, NEW h, NEW n, AgreesAll(v, h, n), Prolongs(v.out, w.out), Told(w, "completed") = Told(v, "completed")
  PROVE  AgreesAll(w, h, n)
<1> SUFFICES ASSUME NEW i \in Told(w, "completed")
             PROVE  Agrees(w.out[i].items, h, n)
  BY DEF AgreesAll
<1>1. i \in DOMAIN v.out /\ Agrees(v.out[i].items, h, n)
  BY DEF AgreesAll, Told
<1>2. w.out[i] = v.out[i]
  BY <1>1 DEF Prolongs
<1> QED
  BY <1>1, <1>2

\* The end says what was heard.
LEMMA FinalizeAgrees ==
  ASSUME NEW v, Verdict(v), ~v.completed, NEW h, NEW D, D = OwnSlots \union DOMAIN h.args,
         DOMAIN h.args \cap OwnSlots = {},
         Sound(v, h.field, D), h.before \in Text, h.after \in Text, NEW called,
         Reads(v, h.before, h.after, h.field, called),
         \A t \in DOMAIN h.args : v.items[t].content = h.args[t],
         NEW n, n > 0 \/ (~Cut(h.before) /\ DOMAIN h.args = {})
  PROVE  AgreesAll(Finalize(v), h, n)
<1> DEFINE w == FoldLeft(CloseTool, Close(CloseReasoning(FlushThink(Start(v))), "text"), Tools)
           a == [w EXCEPT !.completed = TRUE]
           items == CompletedItems(w)
           e == [type |-> "completed", items |-> items]
           x == Emit(a, e)
           f == h.field
           B == h.before
           A == h.after
<1>1. Finalize(v) = x
  BY DEF Finalize
<1>2. Adds(v, w)
  BY EndAdds DEF Verdict
<1>3. /\ Holds(w, Anyhow, D) /\ AllShut(w, D) /\ Kept(w, f) /\ \A s \in D : Full(w, s)
      /\ TrimStart(w.items["text"].content) = TrimStart(AnswerOf(B) \o A)
      /\ ~f => w.items["reasoning"].content = ThoughtOf(B)
      /\ \A t \in D \ OwnSlots : w.items[t].content = v.items[t].content
  BY EndReads
<1> HIDE DEF w
<1>4. Told(w, "completed") = {} /\ IsConverter(w)
  BY <1>2 DEF Adds, Verdict
<1>5. IsConverter(a) /\ a.out = w.out
  BY <1>4 DEF IsConverter
<1>6. e.type = "completed" /\ e.items = items
  OBVIOUS
<1>7. Told(a, "completed") = {}
  BY <1>4, <1>5 DEF Told
<1>8. ASSUME NEW s \in D, s # "reasoning" \/ ~f
      PROVE  ContentOf(items, s) = w.items[s].content
  BY <1>3, <1>8, ContentIs
<1>9. "text" \in D /\ "reasoning" \in D /\ "text" # "reasoning" /\ "reasoning" \notin DOMAIN h.args
  BY DEF OwnSlots
<1> HIDE DEF a, e, items
<1>10. TrimStart(ContentOf(items, "text")) = TrimStart(AnswerOf(B) \o A)
  BY <1>3, <1>8, <1>9
<1>11. ~f => ContentOf(items, "reasoning") = ThoughtOf(B)
  BY <1>3, <1>8, <1>9
<1>12. \A t \in DOMAIN h.args : ContentOf(items, t) = h.args[t]
  <2> SUFFICES ASSUME NEW t \in DOMAIN h.args
               PROVE  ContentOf(items, t) = h.args[t]
    OBVIOUS
  <2>1. t \in D \ OwnSlots /\ t # "reasoning"
    BY <1>9
  <2> QED
    BY <1>3, <1>8, <2>1
<1>13. Agrees(items, h, n)
  <2>1. \A t \in DOMAIN h.args : Argued(h, n, t) = h.args[t]
    BY DEF Argued
  <2> QED
    BY <1>10, <1>11, <1>12, <2>1, AgreesIs
<1>14. Told(x, "completed") = {Len(a.out) + 1} /\ x.out[Len(a.out) + 1] = e
  <2>1. Told(x, "completed") = Told(a, "completed") \union {Len(a.out) + 1}
    BY <1>5, <1>6, EmitTold
  <2>2. x.out[Len(a.out) + 1] = e
    BY <1>5, EmitTells
  <2> QED
    BY <1>7, <2>1, <2>2
<1> HIDE DEF x
<1>15. AgreesAll(x, h, n)
  BY <1>6, <1>13, <1>14 DEF AgreesAll
<1> QED
  BY <1>1, <1>15

\* A failure says nothing of it.
LEMMA FailAgrees ==
  ASSUME NEW v, IsConverter(v), NEW h, NEW n, AgreesAll(v, h, n)
  PROVE  AgreesAll(Fail(v), h, n)
BY FailLonger, AgreesLonger

\* Nor does a block after the end.
LEMMA HandleAgrees ==
  ASSUME NEW v, Verdict(v), v.completed, NEW h, NEW n, AgreesAll(v, h, n), NEW b \in Block
  PROVE  AgreesAll(Handle(v, b), h, n)
<1>0. IsConverter(v)
  BY DEF Verdict
<1>1. b.type = "DONE" \/ b.type = "error" \/ (b.type = "chunk" /\ b.chunk \in Chunks)
  BY DEF Block
<1>2. CASE b.type = "DONE"
  BY <1>2 DEF Handle, Finalize
<1>3. CASE b.type = "error"
  <2>1. Handle(v, b) = Fail(v)
    BY <1>3 DEF Handle
  <2> QED
    BY <1>0, <2>1, FailAgrees
<1>4. CASE b.type = "chunk" /\ b.chunk \in Chunks
  <2>1. Handle(v, b) = HandleChunk(v, b.chunk)
    BY <1>4 DEF Handle
  <2>2. Adds(v, HandleChunk(v, b.chunk))
    BY <1>0, <1>4, ChunkAdds
  <2>3. /\ Prolongs(v.out, HandleChunk(v, b.chunk).out)
        /\ Told(HandleChunk(v, b.chunk), "completed") = Told(v, "completed")
    BY <1>0, <2>2, AddsLonger
  <2>4. AgreesAll(HandleChunk(v, b.chunk), h, n)
    BY <2>3, AgreesLonger
  <2> QED
    BY <2>1, <2>4
<1> QED
  BY <1>1, <1>2, <1>3, <1>4

(* An answer in one piece says the same. *)

\* The arguments of a call that comes once.
LEMMA ArgsOnce ==
  ASSUME NEW q \in Seq(Call), \A i, j \in DOMAIN q : q[i].tool = q[j].tool => i = j, NEW k \in DOMAIN q
  PROVE  ArgsOf(q, q[k].tool, <<>>) = q[k].args
<1> DEFINE t == q[k].tool
           a == q[k].args
<1>1. DOMAIN q = 1..Len(q) /\ Len(q) \in Nat /\ k \in 1..Len(q)
  OBVIOUS
<1>2. a \in Text
  <2>1. q[k] \in Call
    BY ElementIn
  <2> QED
    BY <2>1 DEF Call, Text
<1>3. <<>> \o a = a
  BY <1>2, JoinNone
<1>4. PICK z : z = <<>>
  OBVIOUS
<1>5. PICK f : /\ f[0] = z /\ f[Len(q)] = ArgsOf(q, t, z)
               /\ \A n \in 0..Len(q) - 1 : f[n + 1] = IF q[n + 1].tool = t THEN f[n] \o q[n + 1].args ELSE f[n]
  <2> HIDE DEF t
  <2> QED
    BY ArgsSteps
<1>6. \A i \in 1..Len(q) : q[i].tool = t <=> i = k
  BY <1>1
<1>7. z \o a = a
  BY <1>3, <1>4
<1> HIDE DEF t
<1> DEFINE Good == {n \in Nat : n <= Len(q) => f[n] = IF n < k THEN z ELSE a}
<1>8. 0 \in Good
  BY <1>1, <1>5
<1>9. ASSUME NEW n \in Nat, n \in Good
      PROVE  n + 1 \in Good
  <2> HIDE DEF a
  <2> SUFFICES ASSUME n + 1 <= Len(q)
               PROVE  f[n + 1] = IF n + 1 < k THEN z ELSE a
    OBVIOUS
  <2>1. n \in 0..Len(q) - 1 /\ n + 1 \in 1..Len(q) /\ k \in Nat
    BY <1>1
  <2>2. f[n] = IF n < k THEN z ELSE a
    BY <1>9, <2>1
  <2>3. f[n + 1] = IF q[n + 1].tool = t THEN f[n] \o q[n + 1].args ELSE f[n]
    BY <1>5, <2>1
  <2>4. q[n + 1].tool = t <=> n + 1 = k
    BY <1>6, <2>1
  <2>5. CASE n + 1 = k
    <3>1. q[n + 1].args = a
      BY <2>5 DEF a
    <3>3. f[n] = z
      <4>1. n < k
        BY <2>1, <2>5
      <4> QED
        BY <2>2, <4>1
    <3>4. f[n + 1] = f[n] \o q[n + 1].args
      BY <2>3, <2>4, <2>5
    <3>2. f[n + 1] = z \o a
      BY <3>1, <3>3, <3>4
    <3> QED
      BY <1>7, <2>1, <2>5, <3>2
  <2>6. CASE n + 1 # k
    <3>1. f[n + 1] = f[n]
      BY <2>3, <2>4, <2>6
    <3>2. n < k <=> n + 1 < k
      BY <2>1, <2>6
    <3> QED
      BY <2>2, <3>1, <3>2
  <2> QED
    BY <2>5, <2>6
<1>10. Nat \subseteq Good
  <2> HIDE DEF Good
  <2> QED
    BY <1>8, <1>9, Induction
<1>11. f[Len(q)] = a
  <2>1. Len(q) \in Good
    BY <1>1, <1>10
  <2>2. ~(Len(q) < k)
    BY <1>1
  <2> HIDE DEF a
  <2> QED
    BY <1>1, <2>1, <2>2
<1> QED
  BY <1>4, <1>5, <1>11 DEF t

\* x has the items of q and r and no other.
Joined(x, q, r) ==
  /\ \A i \in DOMAIN x : (\E j \in DOMAIN q : x[i] = q[j]) \/ (\E j \in DOMAIN r : x[i] = r[j])
  /\ \A j \in DOMAIN q : \E i \in DOMAIN x : x[i] = q[j]
  /\ \A j \in DOMAIN r : \E i \in DOMAIN x : x[i] = r[j]

\* So have two lists in a row.
LEMMA JoinedItems ==
  ASSUME NEW S, NEW q \in Seq(S), NEW r \in Seq(S)
  PROVE  Joined(q \o r, q, r)
<1>1. /\ DOMAIN q = 1..Len(q) /\ Len(q) \in Nat /\ DOMAIN r = 1..Len(r) /\ Len(r) \in Nat
      /\ DOMAIN (q \o r) = 1..Len(q) + Len(r)
      /\ \A i \in 1..Len(q) : (q \o r)[i] = q[i]
      /\ \A i \in Len(q) + 1..Len(q) + Len(r) : (q \o r)[i] = r[i - Len(q)] /\ i - Len(q) \in 1..Len(r)
      /\ \A j \in 1..Len(r) : (q \o r)[Len(q) + j] = r[j]
  OBVIOUS
<1> DEFINE x == q \o r
<1> HIDE DEF x
<1>2. /\ DOMAIN x = 1..Len(q) + Len(r)
      /\ \A i \in 1..Len(q) : x[i] = q[i]
      /\ \A i \in Len(q) + 1..Len(q) + Len(r) : x[i] = r[i - Len(q)] /\ i - Len(q) \in 1..Len(r)
      /\ \A j \in 1..Len(r) : x[Len(q) + j] = r[j]
  BY <1>1 DEF x
<1>3. ASSUME NEW i \in DOMAIN x
      PROVE  (\E j \in DOMAIN q : x[i] = q[j]) \/ (\E j \in DOMAIN r : x[i] = r[j])
  <2>1. i \in 1..Len(q) \/ i \in Len(q) + 1..Len(q) + Len(r)
    BY <1>1, <1>2
  <2> QED
    BY <1>1, <1>2, <2>1
<1>4. \A j \in DOMAIN q : j \in DOMAIN x /\ x[j] = q[j]
  BY <1>1, <1>2
<1>5. \A j \in DOMAIN r : Len(q) + j \in DOMAIN x /\ x[Len(q) + j] = r[j]
  BY <1>1, <1>2
<1>6. Joined(x, q, r)
  BY <1>3, <1>4, <1>5 DEF Joined
<1> QED
  BY <1>6 DEF x

\* It has the item of s with the text x, or no text is there to have.
LEMMA SaidHas ==
  ASSUME NEW q, NEW i, NEW x, q = IF x = <<>> THEN <<>> ELSE <<i>>
  PROVE  /\ \A j \in DOMAIN q : q[j] = i
         /\ x # <<>> => 1 \in DOMAIN q /\ q[1] = i
<1>1. DOMAIN <<>> = {} /\ DOMAIN <<i>> = {1} /\ <<i>>[1] = i
  OBVIOUS
<1> QED
  BY <1>1

\* What the items of an answer in one piece are.
LEMMA WholeTells ==
  ASSUME NEW m \in Chunks, \A i, j \in DOMAIN m.tools : m.tools[i].tool = m.tools[j].tool => i = j,
         NEW q, q = WholeItems(m)
  PROVE  /\ Tells(q, "reasoning", ReasoningText(m)) /\ Tells(q, "text", MessageText(m))
         /\ \A k \in DOMAIN m.tools : Tells(q, m.tools[k].tool, ArgsIn(m, k))
<1>0. m.tools \in Seq(Call)
  BY ChunkAssumption DEF Call
<1>1. DOMAIN m.tools = 1..Len(m.tools) /\ Len(m.tools) \in Nat
  BY <1>0
<1> DEFINE Item(s, id, text) == [slot |-> s, id |-> id, content |-> text]
           Said(s, text) == IF text = <<>> THEN <<>> ELSE <<Item(s, "", text)>>
           id(k) == IF m.tools[k].id \in {NoId, ""} THEN "generated" ELSE m.tools[k].id
           calls == [k \in DOMAIN m.tools |->
                 Item(m.tools[k].tool, IF m.tools[k].id \in {NoId, ""} THEN "generated" ELSE m.tools[k].id,
                      ArgsIn(m, k))]
           x == ReasoningText(m)
           y == MessageText(m)
           R == Said("reasoning", x)
           T == Said("text", y)
           all == R \o T \o calls
<1>2. q = [k \in DOMAIN all |-> [slot |-> all[k].slot, index |-> k, id |-> all[k].id,
                                 content |-> all[k].content]]
  BY DEF WholeItems, ArgsIn
<1>3. /\ DOMAIN calls = DOMAIN m.tools
      /\ \A k \in DOMAIN m.tools : calls[k].slot = m.tools[k].tool /\ calls[k].content = ArgsIn(m, k)
  OBVIOUS
<1>4. PICK r : r.slot = "reasoning" /\ r.content = x /\ R = IF x = <<>> THEN <<>> ELSE <<r>>
  <2>1. Item("reasoning", "", x).slot = "reasoning" /\ Item("reasoning", "", x).content = x
    OBVIOUS
  <2> HIDE DEF Item
  <2> QED
    BY <2>1
<1>5. PICK t : t.slot = "text" /\ t.content = y /\ T = IF y = <<>> THEN <<>> ELSE <<t>>
  <2>1. Item("text", "", y).slot = "text" /\ Item("text", "", y).content = y
    OBVIOUS
  <2> HIDE DEF Item
  <2> QED
    BY <2>1
<1>6. \A k \in DOMAIN m.tools : m.tools[k].tool \notin OwnSlots
  <2> SUFFICES ASSUME NEW k \in DOMAIN m.tools
               PROVE  m.tools[k].tool \notin OwnSlots
    OBVIOUS
  <2>1. m.tools[k] \in Call
    BY <1>0, ElementIn
  <2>2. m.tools[k].tool \in Range(Tools)
    BY <2>1 DEF Call
  <2> QED
    BY <2>2, ToolIsNotOwn
<1> DEFINE S == {r, t} \union {calls[k] : k \in DOMAIN m.tools}
<1>7. calls \in Seq(S)
  <2>1. \A k \in DOMAIN m.tools : calls[k] \in S
    OBVIOUS
  <2>2. calls = [k \in 1..Len(m.tools) |-> calls[k]]
    BY <1>1
  <2> HIDE DEF calls, S
  <2>3. calls \in [1..Len(m.tools) -> S]
    BY <1>1, <2>1, <2>2
  <2> QED
    BY <1>1, <2>3, FunctionIsSeq
<1> HIDE DEF R, T, x, y
<1>8. r \in S /\ t \in S
  OBVIOUS
<1> HIDE DEF calls, S
<1>9. R \in Seq(S) /\ T \in Seq(S)
  <2>1. <<>> \in Seq(S) /\ <<r>> \in Seq(S) /\ <<t>> \in Seq(S)
    BY <1>8
  <2> QED
    BY <1>4, <1>5, <2>1
<1> DEFINE b == R \o T
<1>10. b \in Seq(S) /\ all = b \o calls
  BY <1>9
<1>11. Joined(b, R, T)
  BY <1>9, JoinedItems
<1> HIDE DEF b, all
<1>12. Joined(all, b, calls)
  BY <1>7, <1>10, JoinedItems
<1>13. /\ \A j \in DOMAIN R : R[j] = r
       /\ x # <<>> => 1 \in DOMAIN R /\ R[1] = r
  BY <1>4, SaidHas
<1>14. /\ \A j \in DOMAIN T : T[j] = t
       /\ y # <<>> => 1 \in DOMAIN T /\ T[1] = t
  BY <1>5, SaidHas
<1>15. DOMAIN q = DOMAIN all /\ \A i \in DOMAIN q : q[i].slot = all[i].slot /\ q[i].content = all[i].content
  BY <1>2
<1>16. DOMAIN q = 1..Len(q)
  <2>1. all \in Seq(S)
    BY <1>7, <1>10
  <2>2. DOMAIN all = 1..Len(all) /\ Len(all) \in Nat
    BY <2>1
  <2> QED
    BY <1>2, <2>2
<1>17. ASSUME NEW i \in DOMAIN q
       PROVE  \/ all[i] = r \/ all[i] = t
              \/ \E k \in DOMAIN m.tools : q[i].slot = m.tools[k].tool /\ q[i].content = ArgsIn(m, k)
  <2>1. (\E j \in DOMAIN b : all[i] = b[j]) \/ (\E j \in DOMAIN calls : all[i] = calls[j])
    BY <1>12, <1>15 DEF Joined
  <2>2. CASE \E j \in DOMAIN b : all[i] = b[j]
    BY <1>11, <1>13, <1>14, <2>2 DEF Joined
  <2>3. CASE \E j \in DOMAIN calls : all[i] = calls[j]
    BY <1>3, <1>15, <2>3
  <2> QED
    BY <2>1, <2>2, <2>3
<1>18. Tells(q, "reasoning", x)
  <2>1. ASSUME NEW i \in DOMAIN q, q[i].slot = "reasoning"
        PROVE  q[i].content = x
    <3>1. "reasoning" \in OwnSlots /\ "reasoning" # "text"
      BY DEF OwnSlots
    <3> QED
      BY <1>4, <1>5, <1>6, <1>15, <1>17, <2>1, <3>1
  <2>2. x # <<>> => \E i \in DOMAIN q : q[i].slot = "reasoning"
    BY <1>4, <1>11, <1>12, <1>13, <1>15 DEF Joined
  <2> QED
    BY <1>16, <2>1, <2>2 DEF Tells
<1>19. Tells(q, "text", y)
  <2>1. ASSUME NEW i \in DOMAIN q, q[i].slot = "text"
        PROVE  q[i].content = y
    <3>1. "text" \in OwnSlots /\ "reasoning" # "text"
      BY DEF OwnSlots
    <3> QED
      BY <1>4, <1>5, <1>6, <1>15, <1>17, <2>1, <3>1
  <2>2. y # <<>> => \E i \in DOMAIN q : q[i].slot = "text"
    BY <1>5, <1>11, <1>12, <1>14, <1>15 DEF Joined
  <2> QED
    BY <1>16, <2>1, <2>2 DEF Tells
<1>20. ASSUME NEW k \in DOMAIN m.tools
       PROVE  Tells(q, m.tools[k].tool, ArgsIn(m, k))
  <2>1. ASSUME NEW i \in DOMAIN q, q[i].slot = m.tools[k].tool
        PROVE  q[i].content = ArgsIn(m, k)
    <3>1. "reasoning" \in OwnSlots /\ "text" \in OwnSlots
      BY DEF OwnSlots
    <3> QED
      BY <1>4, <1>5, <1>6, <1>15, <1>17, <2>1, <3>1
  <2>2. \E i \in DOMAIN q : q[i].slot = m.tools[k].tool
    BY <1>3, <1>12, <1>15 DEF Joined
  <2> QED
    BY <1>16, <2>1, <2>2 DEF Tells
<1> QED
  BY <1>18, <1>19, <1>20 DEF x, y

(* The invariant of what the completion says of what was heard. *)

\* The custom tools a chunk names.
CustomOf(k) == {k.tools[i].tool : i \in {j \in DOMAIN k.tools : k.tools[j].name = "custom"}}

\* What a chunk adds to what was heard.
LEMMA HearSays ==
  ASSUME HeardTyped, NEW k \in Chunks
  PROVE  /\ Hear(k).before = IF DOMAIN heard.args = {} THEN heard.before \o k.content ELSE heard.before
         /\ Hear(k).after = IF DOMAIN heard.args = {} THEN heard.after ELSE heard.after \o k.content
         /\ Hear(k).field <=> heard.field \/ k.reasoning # <<>>
         /\ Hear(k).custom = heard.custom \union CustomOf(k)
         /\ \A t \in DOMAIN Hear(k).args :
              Hear(k).args[t] = ArgsOf(k.tools, t, IF t \in DOMAIN heard.args THEN heard.args[t] ELSE <<>>)
<1> DEFINE known     == DOMAIN heard.args
           Calls(n)  == {k.tools[i].tool : i \in 1..n}
           called    == known \union Calls(Len(k.tools))
           Args(t)   == FoldLeft(LAMBDA text, d : IF d.tool = t THEN text \o d.args ELSE text,
                                 IF t \in known THEN heard.args[t] ELSE <<>>, k.tools)
           P == \A i \in DOMAIN k.tools : ProperDelta(k.tools[i], known \union Calls(i - 1))
           h == [heard EXCEPT
                  !.before = IF known = {} THEN @ \o k.content ELSE @,
                  !.after  = IF known = {} THEN @ ELSE @ \o k.content,
                  !.args   = [t \in called |-> Args(t)],
                  !.custom = @ \union {k.tools[i].tool : i \in {j \in DOMAIN k.tools : k.tools[j].name = "custom"}},
                  !.field  = @ \/ k.reasoning # <<>>,
                  !.proper = @ /\ P]
<1>1. Hear(k) = h
  BY DEF Hear
<1>2. \A t : Args(t) = ArgsOf(k.tools, t, IF t \in known THEN heard.args[t] ELSE <<>>)
  BY DEF ArgsOf
<1> HIDE DEF Args, P, called
<1> DEFINE g == heard.field \/ k.reasoning # <<>>
<1>3. /\ h.before = IF known = {} THEN heard.before \o k.content ELSE heard.before
      /\ h.after = IF known = {} THEN heard.after ELSE heard.after \o k.content
      /\ h.args = [t \in called |-> Args(t)]
      /\ h.custom = heard.custom \union CustomOf(k)
  BY DEF HeardTyped, CustomOf
<1>4. h.field = g
  BY DEF HeardTyped
<1> HIDE DEF h, g
<1>5. h.field <=> g
  BY <1>4, Zenon
<1>6. \A t \in DOMAIN h.args : h.args[t] = ArgsOf(k.tools, t, IF t \in known THEN heard.args[t] ELSE <<>>)
  BY <1>2, <1>3
<1> QED
  BY <1>1, <1>3, <1>5, <1>6 DEF g

\* Nothing was heard.
LEMMA SilenceIs ==
  ASSUME heard = Silence
  PROVE  /\ HeardTyped /\ heard.before = <<>> /\ heard.after = <<>> /\ DOMAIN heard.args = {} /\ ~heard.field
         /\ heard.custom = {}
BY DEF Silence, HeardTyped

\* White space alone is no tag.
LEMMA NothingRead == <<>> \in Text /\ TrimStart(<<>>) = <<>> /\ PrefixDecision(<<>>) = "more" /\ ~Cut(<<>>)
<1>1. PICK z : z = <<>>
  OBVIOUS
<1>2. z \in Text /\ Len(z) = 0
  BY <1>1 DEF Text
<1>3. TrimStart(z) = <<>>
  <2>1. TrimsTo(z, TrimStart(z))
    BY <1>2, TrimIs
  <2> QED
    BY <1>2, <2>1 DEF TrimsTo
<1>4. ~Opens(TrimStart(z))
  BY <1>3 DEF Opens
<1>5. PrefixDecision(z) = "more"
  BY <1>3, <1>4 DEF PrefixDecision
<1> QED
  BY <1>1, <1>2, <1>3, <1>4, <1>5 DEF Cut

\* A new converter is in step with that.
LEMMA NewReads ==
  ASSUME NEW f, ~f
  PROVE  /\ Tidy(New, f) /\ Reads(New, <<>>, <<>>, f, FALSE)
<1>1. /\ New.items["text"].content = <<>> /\ New.items["reasoning"].content = <<>>
      /\ New.items["text"].done = FALSE /\ New.items["reasoning"].done = FALSE
      /\ New.think = <<>> /\ New.mode = "detecting" /\ New.output = <<>>
      /\ DOMAIN New.items = OwnSlots
  BY DEF New, Blank, OwnSlots
<1>2. \A s \in OwnSlots : New.items[s].content = <<>> /\ New.items[s].done = FALSE
  BY <1>1 DEF OwnSlots
<1>3. DOMAIN <<>> = {}
  OBVIOUS
<1>4. Tidy(New, f)
  BY <1>1, <1>2, <1>3, NothingRead DEF Tidy, Kept
<1>5. Waiting(New, <<>>, f)
  BY <1>1 DEF Waiting
<1> QED
  BY <1>1, <1>4, <1>5, NothingRead DEF Reads

\* The answer in one piece says what was heard of it.
LEMMA WholeAgrees ==
  ASSUME heard = Silence, NEW m \in Chunks,
         \A i, j \in DOMAIN m.tools : m.tools[i].tool = m.tools[j].tool => i = j
  PROVE  Agrees(WholeItems(m), Hear(m), 0)
<1> DEFINE q == WholeItems(m)
           h == Hear(m)
           said == [reasoning |-> <<>>, content |-> h.before, tools |-> <<>>]
<1>1. m.reasoning \in Text /\ m.content \in Text /\ m.tools \in Seq(Call)
  BY ChunkAssumption DEF Text, Call
<1>2. /\ HeardTyped /\ heard.before = <<>> /\ heard.after = <<>> /\ DOMAIN heard.args = {} /\ ~heard.field
      /\ heard.custom = {}
  BY SilenceIs
<1>3. /\ h.before = <<>> \o m.content /\ h.after = <<>> /\ (h.field <=> m.reasoning # <<>>)
      /\ \A t \in DOMAIN h.args : h.args[t] = ArgsOf(m.tools, t, <<>>)
      /\ h.custom = CustomOf(m)
  BY <1>2, HearSays
<1>4. DOMAIN h.args = Called(m, Len(m.tools))
  BY <1>2, HearIs
<1>5. h.before = m.content
  BY <1>1, <1>3, JoinNone
<1>6. /\ Tells(q, "reasoning", ReasoningText(m)) /\ Tells(q, "text", MessageText(m))
      /\ \A k \in DOMAIN m.tools : Tells(q, m.tools[k].tool, ArgsIn(m, k))
  BY WholeTells
<1>7. Len(q) \in Nat
  <2>1. Replays(q)
    BY WholeReplays
  <2>2. PICK S : q \in Seq(S)
    BY <2>1 DEF Replays
  <2> HIDE DEF q
  <2> QED
    BY <2>2
<1> HIDE DEF q, h
<1>8. /\ ContentOf(q, "reasoning") = ReasoningText(m) /\ ContentOf(q, "text") = MessageText(m)
      /\ \A k \in DOMAIN m.tools : ContentOf(q, m.tools[k].tool) = ArgsIn(m, k)
  BY <1>6, <1>7, ContentFrom
<1>9. said.content = m.content /\ said.reasoning = <<>>
  BY <1>5
<1>10. MessageText(said) = MessageText(m) /\ (m.reasoning = <<>> => ReasoningText(said) = ReasoningText(m))
  <2> HIDE DEF said
  <2> QED
    BY <1>9 DEF MessageText, ReasoningText
<1>11. MessageText(said) \o h.after = MessageText(m)
  <2>1. MessageText(m) \in Text
    BY TextsIn DEF Text
  <2> HIDE DEF said
  <2> QED
    BY <1>3, <1>10, <2>1, JoinNone
<1>12. \A t \in DOMAIN h.args : ContentOf(q, t) = Argued(h, 0, t)
  <2> SUFFICES ASSUME NEW t \in DOMAIN h.args
               PROVE  ContentOf(q, t) = Argued(h, 0, t)
    OBVIOUS
  <2>1. PICK k \in 1..Len(m.tools) : m.tools[k].tool = t
    BY <1>4 DEF Called
  <2>2. k \in DOMAIN m.tools
    BY <1>1
  <2>3. ArgsOf(m.tools, t, <<>>) = m.tools[k].args
    BY <1>1, <2>1, <2>2, ArgsOnce
  <2>4. (t \in h.custom) = (m.tools[k].name = "custom")
    <3>1. t \in CustomOf(m) <=> m.tools[k].name = "custom"
      <4>1. \A j \in DOMAIN m.tools : m.tools[j].tool = m.tools[k].tool => j = k
        BY <2>2
      <4> DEFINE C == {j \in DOMAIN m.tools : m.tools[j].name = "custom"}
      <4>2. k \in C <=> m.tools[k].name = "custom"
        BY <2>2
      <4>3. C \subseteq DOMAIN m.tools /\ CustomOf(m) = {m.tools[i].tool : i \in C}
        BY DEF CustomOf
      <4> HIDE DEF C
      <4>4. t \in CustomOf(m) <=> k \in C
        BY <2>1, <4>1, <4>3
      <4> QED
        BY <4>2, <4>4
    <3> DEFINE A == t \in h.custom
               B == m.tools[k].name = "custom"
    <3>2. (A <=> B) /\ A \in BOOLEAN /\ B \in BOOLEAN
      BY <1>3, <3>1
    <3> HIDE DEF A, B
    <3>3. A = B
      BY <3>2
    <3> QED
      BY <3>3 DEF A, B
  <2>5. ArgsIn(m, k) = WholeArguments(t \in h.custom, h.args[t])
    BY <1>3, <2>3, <2>4, Zenon DEF ArgsIn
  <2>6. Argued(h, 0, t) = WholeArguments(t \in h.custom, h.args[t])
    <3>1. ~(0 > 0)
      OBVIOUS
    <3> QED
      BY <3>1 DEF Argued
  <2>7. ContentOf(q, t) = ArgsIn(m, k)
    BY <1>8, <2>1, <2>2
  <2> QED
    BY <2>5, <2>6, <2>7
<1>13. Agrees(q, h, 0)
  <2>1. ~(0 > 0)
    OBVIOUS
  <2>2. ~h.field => m.reasoning = <<>>
    BY <1>3
  <2>3. Agrees(q, h, 0) <=>
          /\ TrimStart(ContentOf(q, "text")) = TrimStart(MessageText(said) \o h.after)
          /\ ~h.field => ContentOf(q, "reasoning") = ReasoningText(said)
          /\ \A t \in DOMAIN h.args : ContentOf(q, t) = Argued(h, 0, t)
    BY <2>1 DEF Agrees
  <2> HIDE DEF said
  <2> QED
    BY <1>8, <1>10, <1>11, <1>12, <2>2, <2>3
<1> QED
  BY <1>13 DEF q, h

\* So does its replay.
LEMMA ReplayAgrees ==
  ASSUME NEW items, Replays(items), NEW h, NEW n, Agrees(items, h, n)
  PROVE  AgreesAll(Replay(items), h, n)
<1> DEFINE w == FoldLeft(Shown, Start(New), items)
           e == [type |-> "completed", items |-> items]
           x == Emit(w, e)
<1>1. Replay(items) = x
  BY DEF Replay
<1>2. IsConverter(w) /\ Told(w, "completed") = {}
  <2>1. PICK S : items \in Seq(S)
    BY DEF Replays
  <2>2. Adds(New, Start(New))
    BY NewVerdict, StartAdds DEF Verdict
  <2>3. Adds(Start(New), w)
    BY <2>1, <2>2, FoldAdds, AddsConverter
  <2> HIDE DEF w
  <2>4. Adds(New, w)
    BY <2>2, <2>3, AddsOn
  <2> QED
    BY <2>4, NewVerdict DEF Adds, Verdict, New
<1>3. e.type = "completed" /\ e.items = items
  OBVIOUS
<1> HIDE DEF w, e
<1>4. Told(x, "completed") = {Len(w.out) + 1} /\ x.out[Len(w.out) + 1] = e
  <2>1. Told(x, "completed") = Told(w, "completed") \union {Len(w.out) + 1}
    BY <1>2, <1>3, EmitTold
  <2>2. x.out[Len(w.out) + 1] = e
    BY <1>2, EmitTells
  <2> QED
    BY <1>2, <2>1, <2>2
<1> HIDE DEF x
<1>5. AgreesAll(x, h, n)
  BY <1>3, <1>4 DEF AgreesAll
<1> QED
  BY <1>1, <1>5

\* Until the completion, the converter holds what was heard.
InReading ==
  /\ Tidy(c, heard.field)
  /\ Reads(c, heard.before, heard.after, heard.field, DOMAIN heard.args # {})
  /\ \A t \in DOMAIN heard.args : c.items[t].content = heard.args[t]

\* The inductive invariant: then it does, and a completion has told it.
AnswerInv ==
  /\ SInv
  /\ heard.before \in Text /\ heard.after \in Text /\ blocks \in Nat
  /\ link = "open" /\ blocks = 0 => heard = Silence /\ ~c.completed
  /\ AgreesAll(c, heard, blocks)
  /\ link = "open" /\ ~c.completed => InReading

\* A converter that has not completed has told no completion.
LEMMA NoneAgrees ==
  ASSUME NEW v, Verdict(v), ~v.completed, NEW h, NEW n
  PROVE  AgreesAll(v, h, n)
BY DEF Verdict, AgreesAll

\* A chunk that comes in time is read and heard.
LEMMA ChunkInReading ==
  ASSUME AnswerInv, ~c.completed, link = "open", NEW k \in Chunks,
         NEW w, w = HandleChunk(c, k), NEW h, h = Hear(k)
  PROVE  /\ h.before \in Text /\ h.after \in Text
         /\ Tidy(w, h.field) /\ Reads(w, h.before, h.after, h.field, DOMAIN h.args # {})
         /\ \A t \in DOMAIN h.args : w.items[t].content = h.args[t]
<1> DEFINE A == DOMAIN heard.args
           f == heard.field
           p == heard.proper
           D == OwnSlots \union A
           called == A # {}
           late == DOMAIN h.args # {}
           B == Called(k, Len(k.tools))
<1>1. /\ SInv /\ HeardTyped /\ A \cap OwnSlots = {} /\ Holds(c, p, D) /\ InReading
      /\ heard.before \in Text /\ heard.after \in Text
  BY DEF AnswerInv, SInv
<1>2. k.reasoning \in Text /\ k.content \in Text /\ k.tools \in Seq(Call)
  BY ChunkAssumption DEF Text, Call
<1>3. /\ h.before = IF called THEN heard.before ELSE heard.before \o k.content
      /\ h.after = IF called THEN heard.after \o k.content ELSE heard.after
      /\ h.field <=> f \/ k.reasoning # <<>>
      /\ \A t \in DOMAIN h.args :
           h.args[t] = ArgsOf(k.tools, t, IF t \in A THEN heard.args[t] ELSE <<>>)
  BY <1>1, HearSays
<1>4. DOMAIN h.args = A \union B
  BY <1>1, HearIs
<1>5. Sound(c, f, D)
  <2>1. Holds(c, Anyhow, D)
    BY <1>1, HoldsWeaker DEF Anyhow
  <2> QED
    BY <1>1, <2>1 DEF Sound, InReading
<1>6. Reads(c, heard.before, heard.after, f, called)
  BY <1>1 DEF InReading
<1>7. late <=> called \/ k.tools # <<>>
  <2>1. B # {} <=> k.tools # <<>>
    <3> DEFINE q == k.tools
               n == Len(q)
    <3>1. n \in Nat /\ (q # <<>> <=> n > 0)
      <4> HIDE DEF q
      <4>1. q \in Seq(Call)
        BY <1>2 DEF q
      <4> QED
        BY <4>1
    <3>2. B = {q[i].tool : i \in 1..n}
      BY DEF Called
    <3> HIDE DEF q, n, B
    <3>3. n > 0 => q[1].tool \in B
      BY <3>1, <3>2
    <3>4. n = 0 => B = {}
      BY <3>1, <3>2
    <3>5. B # {} <=> q # <<>>
      BY <3>1, <3>3, <3>4
    <3> QED
      BY <3>5 DEF q
  <2> QED
    BY <1>4, <2>1
<1> DEFINE g == h.field
<1> HIDE DEF A, B, D, f, p, called, late, g
<1>8. g <=> f \/ k.reasoning # <<>>
  BY <1>3 DEF g
<1>9. /\ Sound(w, g, DOMAIN w.items)
      /\ Reads(w, IF called THEN heard.before ELSE heard.before \o k.content,
                  IF called THEN heard.after \o k.content ELSE heard.after, g, late)
      /\ \A t : t \notin OwnSlots => TextIn(w, t) = ArgsOf(k.tools, t, TextIn(c, t))
  BY <1>1, <1>5, <1>6, <1>7, <1>8, ChunkReads
<1>10. Tidy(w, g) /\ Reads(w, h.before, h.after, g, late)
  BY <1>3, <1>9 DEF Sound
<1>11. h.before \in Text /\ h.after \in Text
  <2>1. heard.before \o k.content \in Text /\ heard.after \o k.content \in Text
    BY <1>1, <1>2, JoinIs
  <2> QED
    BY <1>1, <1>3, <2>1
<1>12. /\ DOMAIN c.items = D /\ DOMAIN h.args \cap OwnSlots = {}
       /\ DOMAIN w.items = OwnSlots \union DOMAIN h.args
  BY <1>1, HeardHolds DEF Holds
<1>13. ASSUME NEW t \in DOMAIN h.args
       PROVE  w.items[t].content = h.args[t]
  <2>1. t \notin OwnSlots /\ t \in DOMAIN w.items
    BY <1>12
  <2>2. w.items[t].content = ArgsOf(k.tools, t, TextIn(c, t))
    BY <1>9, <2>1 DEF TextIn
  <2>3. TextIn(c, t) = IF t \in A THEN heard.args[t] ELSE <<>>
    <3>1. t \in DOMAIN c.items <=> t \in A
      BY <1>12, <2>1 DEF D
    <3>2. t \in A => c.items[t].content = heard.args[t]
      BY <1>1 DEF InReading, A
    <3> QED
      BY <3>1, <3>2 DEF TextIn
  <2> QED
    BY <1>3, <2>2, <2>3
<1> QED
  BY <1>10, <1>11, <1>13 DEF g, late

\* The end that comes in time says what was heard.
LEMMA EndAgrees ==
  ASSUME AnswerInv, ~c.completed, link = "open", NEW n, (n > 0) \/ n = blocks
  PROVE  AgreesAll(Finalize(c), heard, n)
<1> DEFINE D == OwnSlots \union DOMAIN heard.args
           called == DOMAIN heard.args # {}
<1>1. /\ SInv /\ DOMAIN heard.args \cap OwnSlots = {} /\ Holds(c, heard.proper, D) /\ InReading
      /\ heard.before \in Text /\ heard.after \in Text /\ Verdict(c)
  BY DEF AnswerInv, SInv, VInv, Replayed
<1>2. Sound(c, heard.field, D)
  <2>1. Holds(c, Anyhow, D)
    BY <1>1, HoldsWeaker DEF Anyhow
  <2> QED
    BY <1>1, <2>1 DEF Sound, InReading
<1>3. Reads(c, heard.before, heard.after, heard.field, called)
  BY <1>1 DEF InReading
<1>4. \A t \in DOMAIN heard.args : c.items[t].content = heard.args[t]
  BY <1>1 DEF InReading
<1>5. (n > 0) \/ (~Cut(heard.before) /\ DOMAIN heard.args = {})
  <2>1. CASE n > 0
    BY <2>1
  <2>2. CASE ~(n > 0)
    <3>1. n = blocks /\ blocks = 0
      BY <2>2 DEF AnswerInv
    <3>2. heard.before = <<>> /\ DOMAIN heard.args = {}
      BY <3>1, SilenceIs DEF AnswerInv
    <3> QED
      BY <3>2, NothingRead
  <2> QED
    BY <2>1, <2>2
<1> HIDE DEF called
<1> QED
  BY <1>1, <1>2, <1>3, <1>4, <1>5, FinalizeAgrees

\* The invariant holds initially.
LEMMA AnswerInit == StreamInit => AnswerInv
<1> SUFFICES ASSUME StreamInit PROVE AnswerInv
  OBVIOUS
<1>1. c = New /\ heard = Silence /\ blocks = 0 /\ SInv
  BY SInit DEF StreamInit
<1>2. heard.before = <<>> /\ heard.after = <<>> /\ DOMAIN heard.args = {} /\ ~heard.field
  BY <1>1, SilenceIs
<1>3. Verdict(c) /\ ~c.completed
  BY <1>1, NewVerdict DEF New
<1>4. AgreesAll(c, heard, blocks)
  BY <1>3, NoneAgrees
<1>5. InReading
  <2>1. Tidy(New, heard.field) /\ Reads(New, <<>>, <<>>, heard.field, FALSE)
    BY <1>2, NewReads
  <2>2. (DOMAIN heard.args # {}) = FALSE
    BY <1>2
  <2> QED
    BY <1>1, <1>2, <2>1, <2>2 DEF InReading
<1> QED
  BY <1>1, <1>2, <1>3, <1>4, <1>5, NothingRead DEF AnswerInv

\* Every step keeps it.
LEMMA AnswerStep == AnswerInv /\ [StreamNext]_streamVars => AnswerInv'
<1> SUFFICES ASSUME AnswerInv, [StreamNext]_streamVars
             PROVE  AnswerInv'
  OBVIOUS
<1>0. /\ SInv /\ SInv' /\ VInv /\ HeardTyped /\ AgreesAll(c, heard, blocks) /\ blocks \in Nat
      /\ heard.before \in Text /\ heard.after \in Text
      /\ link = "open" => Verdict(c) /\ IsConverter(c)
      /\ link' = "open" => Verdict(c') /\ IsConverter(c')
  BY SStep DEF AnswerInv, SInv, VInv, Replayed, Verdict
<1>1. ASSUME NEW b \in Block, NEW samePacket \in BOOLEAN, Arrive(b, samePacket)
      PROVE  AnswerInv'
  <2> DEFINE waiting == Append(buffer, b)
             stays   == c.failed /\ samePacket
             n       == blocks + 1
  <2>1. Head(waiting) \in Block
    <3>1. waiting \in Seq(Block) /\ waiting # <<>>
      BY <1>0 DEF VInv
    <3> QED
      BY <3>1
  <2>2. /\ link = "open" /\ link' = link /\ blocks' = n
        /\ c' = IF stays THEN c ELSE Handle(c, Head(waiting))
        /\ heard' = IF c.completed \/ b.type # "chunk" THEN heard ELSE Hear(b.chunk)
    BY <1>1 DEF Arrive
  <2>3. n \in Nat /\ n > 0 /\ n # 0
    BY <1>0
  <2> HIDE DEF n
  <2>4. CASE c.completed
    <3>1. heard' = heard
      BY <2>2, <2>4
    <3>2. blocks > 0
      <4>1. blocks # 0
        BY <2>2, <2>4 DEF AnswerInv
      <4> QED
        BY <1>0, <4>1
    <3>3. AgreesAll(c, heard, n)
      BY <1>0, <2>3, <3>2, AgreesMore
    <3>4. AgreesAll(Handle(c, Head(waiting)), heard, n) /\ Handle(c, Head(waiting)).completed
      <4> HIDE DEF waiting
      <4> QED
        BY <1>0, <2>1, <2>2, <2>4, <3>3, HandleAgrees, HandleSays DEF SInv
    <3> HIDE DEF waiting
    <3>5. AgreesAll(c', heard, n) /\ c'.completed
      BY <2>2, <2>4, <3>3, <3>4
    <3> QED
      BY <1>0, <2>2, <2>3, <3>1, <3>5 DEF AnswerInv
  <2>5. CASE ~c.completed
    <3>1. buffer = <<>> /\ ~c.failed
      BY <1>0, <2>2, <2>5 DEF SInv, Verdict
    <3>2. Head(waiting) = b
      BY <3>1
    <3> HIDE DEF waiting
    <3>3. c' = Handle(c, b)
      BY <2>2, <3>1, <3>2
    <3>4. b.type = "DONE" \/ b.type = "error" \/ (b.type = "chunk" /\ b.chunk \in Chunks)
      BY DEF Block
    <3>5. CASE b.type = "DONE"
      <4>1. c' = Finalize(c) /\ heard' = heard
        BY <2>2, <3>3, <3>5 DEF Handle
      <4>2. AgreesAll(Finalize(c), heard, n)
        BY <2>2, <2>3, <2>5, EndAgrees
      <4>3. Finalize(c).completed
        BY <1>0, <2>2, <2>5, FinalizeVerdict
      <4> QED
        BY <1>0, <2>2, <2>3, <4>1, <4>2, <4>3 DEF AnswerInv
    <3>6. CASE b.type = "error"
      <4>1. c' = Fail(c) /\ heard' = heard
        BY <2>2, <3>3, <3>6 DEF Handle
      <4>2. AgreesAll(Fail(c), heard, n)
        BY <1>0, <2>2, <2>5, NoneAgrees, FailAgrees
      <4>3. Fail(c).completed
        BY <1>0, <2>2, FailVerdict
      <4> QED
        BY <1>0, <2>2, <2>3, <4>1, <4>2, <4>3 DEF AnswerInv
    <3>7. CASE b.type = "chunk" /\ b.chunk \in Chunks
      <4> DEFINE w == HandleChunk(c, b.chunk)
                 h == Hear(b.chunk)
      <4>1. c' = w /\ heard' = h
        BY <2>2, <2>5, <3>3, <3>7 DEF Handle
      <4>2. /\ h.before \in Text /\ h.after \in Text
            /\ Tidy(w, h.field) /\ Reads(w, h.before, h.after, h.field, DOMAIN h.args # {})
            /\ \A t \in DOMAIN h.args : w.items[t].content = h.args[t]
        BY <2>2, <2>5, <3>7, ChunkInReading
      <4>3. ~w.completed
        BY <1>0, <2>2, <2>5, <3>7, HeardHolds
      <4> HIDE DEF w, h
      <4>4. Verdict(w)
        BY <1>0, <2>2, <4>1
      <4>5. AgreesAll(w, h, n)
        BY <4>3, <4>4, NoneAgrees
      <4> QED
        BY <1>0, <2>2, <2>3, <4>1, <4>2, <4>5 DEF AnswerInv, InReading
    <3> QED
      BY <3>4, <3>5, <3>6, <3>7
  <2> QED
    BY <2>4, <2>5
<1>2. CASE End
  <2>1. /\ link = "open" /\ link' # "open" /\ c' = (IF c.failed THEN c ELSE Finalize(c))
        /\ heard' = heard /\ blocks' = blocks
    BY <1>2 DEF End
  <2>2. AgreesAll(Finalize(c), heard, blocks)
    <3>1. CASE c.completed
      BY <1>0, <3>1 DEF Finalize
    <3>2. CASE ~c.completed
      BY <2>1, <3>2, EndAgrees
    <3> QED
      BY <3>1, <3>2
  <2>3. AgreesAll(c', heard, blocks)
    BY <1>0, <2>1, <2>2
  <2> QED
    BY <1>0, <2>1, <2>3 DEF AnswerInv
<1>3. CASE Break
  <2>1. link = "open" /\ link' # "open" /\ c' = Fail(c) /\ heard' = heard /\ blocks' = blocks
    BY <1>3 DEF Break
  <2>2. AgreesAll(Fail(c), heard, blocks)
    BY <1>0, <2>1, FailAgrees
  <2> QED
    BY <1>0, <2>1, <2>2 DEF AnswerInv
<1>4. ASSUME NEW m \in Chunks, AnswerWhole(m)
      PROVE  AnswerInv'
  <2>1. /\ link = "open" /\ link' # "open" /\ blocks = 0 /\ blocks' = blocks
        /\ c' = Replay(WholeItems(m)) /\ heard' = Hear(m)
        /\ \A i, j \in DOMAIN m.tools : m.tools[i].tool = m.tools[j].tool => i = j
    BY <1>4 DEF AnswerWhole
  <2>2. heard = Silence
    BY <2>1 DEF AnswerInv
  <2>3. Agrees(WholeItems(m), Hear(m), 0) /\ Replays(WholeItems(m))
    BY <2>1, <2>2, WholeAgrees, WholeReplays
  <2>4. AgreesAll(Replay(WholeItems(m)), Hear(m), 0)
    BY <2>3, ReplayAgrees
  <2>5. Hear(m).before \in Text /\ Hear(m).after \in Text
    <3>1. m.content \in Text
      BY ChunkAssumption DEF Text
    <3>2. heard.before \o m.content \in Text /\ heard.after \o m.content \in Text
      BY <1>0, <3>1, JoinIs
    <3>3. /\ Hear(m).before \in {heard.before, heard.before \o m.content}
          /\ Hear(m).after \in {heard.after, heard.after \o m.content}
      BY <1>0, HearSays
    <3> QED
      BY <1>0, <3>2, <3>3
  <2> QED
    BY <1>0, <2>1, <2>4, <2>5 DEF AnswerInv
<1>5. CASE AnswerBreaks
  <2>1. link' = "dropped" /\ UNCHANGED <<c, buffer, heard, blocks>>
    BY <1>5 DEF AnswerBreaks
  <2> QED
    BY <1>0, <2>1 DEF AnswerInv
<1>6. CASE UNCHANGED streamVars
  BY <1>0, <1>6 DEF streamVars, AnswerInv, InReading
<1> QED
  BY <1>1, <1>2, <1>3, <1>4, <1>5, <1>6 DEF StreamNext

\* However the upstream cuts its answer, the completed response says what the answer in one
\* piece says: the text, the reasoning in the content and the arguments of every call, which
\* push_content_delta collects through its buffer and chat_completion_to_response at once; but
\* arguments stay as they came in a stream, where the one piece goes through
\* responses_arguments_to_chat, which puts them in normal form.
THEOREM ChunksDoNotMatterAlways == StreamSpec => []ChunksDoNotMatter
<1>1. StreamSpec => []AnswerInv
  BY AnswerInit, AnswerStep, PTL DEF StreamSpec
<1>2. AnswerInv => ChunksDoNotMatter
  <2> SUFFICES ASSUME AnswerInv, NEW n \in Positions("completed")
               PROVE  Agrees(c.out[n].items, heard, blocks)
    BY DEF ChunksDoNotMatter, Agrees, Argued
  <2> QED
    BY DEF AnswerInv, AgreesAll, Told, Positions
<1> QED
  BY <1>1, <1>2, PTL
=============================================================================
