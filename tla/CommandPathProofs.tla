------------------------- MODULE CommandPathProofs -------------------------
(***************************************************************************)
(* Proofs about CommandPath, for every number of phones, commands, frames  *)
(* and exits and every size of the window and the cache.                   *)
(***************************************************************************)
EXTENDS CommandPath, SequenceTheorems, TLAPS

-----------------------------------------------------------------------------
(* The two bounded stores keep their types. *)

LEMMA RememberType ==
  ASSUME NEW g \in GuardType, NEW s \in 1..MaxSeq
  PROVE  Remember(g, s) \in GuardType
<1> DEFINE full == Append(g.order, s)
<1>1. full \in Seq(1..MaxSeq) /\ full # <<>>
  BY DEF GuardType
<1>2. Tail(full) \in Seq(1..MaxSeq)
  BY <1>1
<1>3. g.ids \union {s} \subseteq 1..MaxSeq
  BY DEF GuardType
<1>4. (IF s > g.highest THEN s ELSE g.highest) \in 0..MaxSeq
  BY BoundAssumption DEF GuardType
<1> QED
  BY <1>1, <1>2, <1>3, <1>4 DEF Remember, GuardType

LEMMA StoreType ==
  ASSUME NEW k \in CacheType, NEW c \in Commands, NEW a \in Answers
  PROVE  Store(k, c, a) \in CacheType
<1>1. Overflow(k, c) => k.order # <<>>
  BY CacheAssumption DEF Overflow, CacheType
<1>2. Overflow(k, c) => Tail(k.order) \in Seq(Commands)
  BY <1>1 DEF CacheType
<1>3. Store(k, c, a).order \in Seq(Commands)
  BY <1>2 DEF Store, CacheType
<1>4. Store(k, c, a).responses \in [Commands -> Answers \union {NoAnswer}]
  BY DEF Store, CacheType
<1> QED
  BY <1>3, <1>4 DEF Store, CacheType

-----------------------------------------------------------------------------
LEMMA InitType == Init => TypeOK
<1> SUFFICES ASSUME Init PROVE TypeOK
  OBVIOUS
<1>1. FreshGuard \in GuardType
  BY BoundAssumption DEF FreshGuard, GuardType
<1>2. FreshCache \in CacheType
  BY DEF FreshCache, CacheType
<1>3. nextSeq \in [Devices -> 1..(MaxSeq + 1)]
  BY BoundAssumption DEF Init
<1>4. guard \in [Devices -> GuardType] /\ cache \in [Devices -> CacheType]
  BY <1>1, <1>2 DEF Init
<1>5. cur \in Frame \union {NoFrame} /\ exits \in 0..MaxExits
  BY BoundAssumption DEF Init
<1>6. /\ taken \in [Devices -> SUBSET (1..MaxSeq)]
      /\ runs \in [Devices -> [Commands -> Nat]]
      /\ replied \in [Devices -> [Commands -> SUBSET Answers]]
  BY DEF Init
<1> QED
  BY <1>3, <1>4, <1>5, <1>6 DEF Init, TypeOK, NoAnswer, Answers

\* The frame in hand, while there is one.
LEMMA InHand ==
  ASSUME TypeOK, loop \in {"handling", "replying"}
  PROVE  cur \in Frame /\ cur.dev \in Devices /\ cur.cmd \in Commands
  BY DEF TypeOK, Frame, NoFrame

LEMMA RestType == Rest => cur' = NoFrame /\ inCodex' \in BOOLEAN /\ answer' = NoAnswer
  BY DEF Rest

LEMMA TypeStep == TypeOK /\ [Next]_vars => TypeOK'
<1> SUFFICES ASSUME TypeOK, [Next]_vars PROVE TypeOK'
  OBVIOUS
<1> USE DEF phoneVars, desktopVars, historyVars
<1>1. ASSUME NEW d \in Devices, NEW c \in Commands, Send(d, c) PROVE TypeOK'
  <2>1. nextSeq[d] \in 1..MaxSeq
    BY <1>1, BoundAssumption DEF Send, TypeOK
  <2>2. nextSeq' \in [Devices -> 1..(MaxSeq + 1)]
    BY <1>1, <2>1, BoundAssumption DEF Send, TypeOK
  <2>3. sent' \subseteq Frame
    BY <1>1, <2>1 DEF Send, TypeOK, Frame
  <2> QED
    BY <1>1, <2>2, <2>3 DEF Send, TypeOK
<1>2. CASE Connect
  BY <1>2 DEF Connect, TypeOK
<1>3. ASSUME NEW f \in sent, Receive(f) PROVE TypeOK'
  <2>1. f \in Frame /\ f.dev \in Devices /\ f.seq \in 1..MaxSeq /\ f.cmd \in Commands
    BY DEF TypeOK, Frame
  <2>2. guard' \in [Devices -> GuardType]
    BY <1>3, <2>1, RememberType DEF Receive, TypeOK
  <2>3. taken' \in [Devices -> SUBSET (1..MaxSeq)]
    BY <1>3, <2>1 DEF Receive, TypeOK
  <2>4. cur' \in Frame /\ cur' # NoFrame
    BY <1>3, <2>1 DEF Receive, Frame, NoFrame
  <2>5. Lookup(f.dev, f.cmd) \in Answers \union {NoAnswer}
    BY <2>1 DEF Lookup, TypeOK, CacheType
  <2>6. /\ answer' \in Answers \union {NoAnswer}
        /\ loop' \in {"handling", "replying"}
        /\ answer' = NoAnswer <=> loop' = "handling"
    BY <1>3, <2>5 DEF Receive
  <2> QED
    BY <1>3, <2>2, <2>3, <2>4, <2>6 DEF Receive, TypeOK
<1>4. CASE GiveToCodex
  <2>1. cur.dev \in Devices /\ cur.cmd \in Commands
    BY <1>4, InHand DEF GiveToCodex
  <2>2. given' \subseteq Devices \X Commands
    BY <1>4, <2>1 DEF GiveToCodex, TypeOK
  <2>3. runs' \in [Devices -> [Commands -> Nat]]
    BY <1>4, <2>1 DEF GiveToCodex, TypeOK
  <2> QED
    BY <1>4, <2>2, <2>3 DEF GiveToCodex, TypeOK
<1>5. ASSUME NEW a \in Answers, Settle(a) PROVE TypeOK'
  <2>1. cur \in Frame /\ cur.dev \in Devices /\ cur.cmd \in Commands
    BY <1>5, InHand DEF Settle
  <2>2. cache' \in [Devices -> CacheType]
    BY <1>5, <2>1, StoreType DEF Settle, TypeOK
  <2>3. runs' \in [Devices -> [Commands -> Nat]]
    BY <1>5, <2>1 DEF Settle, TypeOK
  <2>4. replied' \in [Devices -> [Commands -> SUBSET Answers]]
    BY <1>5, <2>1 DEF Settle, TypeOK
  <2>5. answer' \in Answers /\ answer' # NoAnswer
    BY <1>5 DEF Settle, Answers, NoAnswer
  <2> QED
    BY <1>5, <2>2, <2>3, <2>4, <2>5 DEF Settle, TypeOK
<1>6. CASE Reply
  <2>1. cur.dev \in Devices /\ cur.cmd \in Commands
    BY <1>6, InHand DEF Reply
  <2>2. answer \in Answers
    BY <1>6 DEF Reply, TypeOK
  <2>3. replied' \in [Devices -> [Commands -> SUBSET Answers]]
    BY <1>6, <2>1, <2>2 DEF Reply, TypeOK
  <2> QED
    BY <1>6, <2>3, RestType DEF Reply, TypeOK
<1>7. CASE ConnectionLost
  BY <1>7, RestType DEF ConnectionLost, TypeOK
<1>8. ASSUME NEW p \in BOOLEAN, Restart(p) PROVE TypeOK'
  <2>1. runs' \in [Devices -> [Commands -> Nat]]
    <3>1. CASE loop = "handling" /\ inCodex
      <4>1. cur.dev \in Devices /\ cur.cmd \in Commands
        BY <3>1, InHand
      <4>2. runs' = [runs EXCEPT ![cur.dev][cur.cmd] = 0]
        BY <1>8, <3>1 DEF Restart
      <4>3. runs \in [Devices -> [Commands -> Nat]]
        BY DEF TypeOK
      <4> QED
        BY <4>1, <4>2, <4>3
    <3>2. CASE ~(loop = "handling" /\ inCodex)
      BY <1>8, <3>2 DEF Restart, TypeOK
    <3> QED
      BY <3>1, <3>2
  <2> QED
    BY <1>8, <2>1, RestType DEF Restart, TypeOK
<1>9. CASE Exit
  <2>1. FreshGuard \in GuardType /\ FreshCache \in CacheType
    BY BoundAssumption DEF FreshGuard, GuardType, FreshCache, CacheType
  <2>2. guard' \in [Devices -> GuardType] /\ cache' \in [Devices -> CacheType]
    BY <1>9, <2>1 DEF Exit
  <2>3. exits' \in 0..MaxExits
    BY <1>9, BoundAssumption DEF Exit, TypeOK
  <2>4. /\ taken' \in [Devices -> SUBSET (1..MaxSeq)]
        /\ runs' \in [Devices -> [Commands -> Nat]]
        /\ replied' \in [Devices -> [Commands -> SUBSET Answers]]
    BY <1>9 DEF Exit
  <2> QED
    BY <1>9, <2>2, <2>3, <2>4, RestType DEF Exit, TypeOK
<1>10. CASE UNCHANGED vars
  BY <1>10 DEF vars, TypeOK
<1> QED
  BY <1>1, <1>2, <1>3, <1>4, <1>5, <1>6, <1>7, <1>8, <1>9, <1>10 DEF Next, Desktop

\* The type invariant of the command path, with the use of the loop's
\* variables phase by phase.
THEOREM TypeCorrect == Spec => []TypeOK
  BY InitType, TypeStep, PTL DEF Spec

-----------------------------------------------------------------------------
(***************************************************************************)
(* The record the desktop keeps.  AtMostOnce, OneAnswer and OkMeansGiven   *)
(* are not inductive: what keeps them true is that a command that was      *)
(* given or answered is either in hand or cached, and that what was        *)
(* replied is what is cached.                                              *)
(***************************************************************************)
InHandNow(d, c) == loop = "handling" /\ cur.dev = d /\ cur.cmd = c

\* A command Codex was given has a record: it is in hand or cached.
Recorded ==
  \A d \in Devices, c \in Commands :
    runs[d][c] # 0 =>
      /\ runs[d][c] = 1
      /\ \/ Cached(cache[d], c)
         \/ InHandNow(d, c) /\ inCodex

\* Only the cached answer was ever replied.
RepliesFromCache ==
  \A d \in Devices, c \in Commands :
    \A a \in replied[d][c] : cache[d].responses[c] = a

\* The answer about to be sent is the cached one; what is handled is not cached.
LoopAgreesWithCache ==
  /\ loop = "replying" => Lookup(cur.dev, cur.cmd) = answer
  /\ loop = "handling" => ~Cached(cache[cur.dev], cur.cmd)

\* "ok" is cached, for a command that needs Codex, only after it was given.
OkCachedMeansGiven ==
  /\ \A d \in Devices, c \in Commands \ StatusCommands :
       cache[d].responses[c] = "ok" => <<d, c>> \in given
  /\ loop = "handling" /\ inCodex => <<cur.dev, cur.cmd>> \in given

RecordInv == Recorded /\ RepliesFromCache /\ LoopAgreesWithCache /\ OkCachedMeansGiven
IInv == TypeOK /\ RecordInv

\* What storing an answer does to every command's answer.
LEMMA StoreFacts ==
  ASSUME NEW k \in CacheType, NEW c \in Commands, NEW a \in Answers, NEW x \in Commands
  PROVE  Store(k, c, a).responses[x] =
           (IF x = c THEN a ELSE IF x \in Evicted(k, c) THEN NoAnswer ELSE k.responses[x])
  BY DEF Store

LEMMA RecordInit == Init => RecordInv
<1> SUFFICES ASSUME Init PROVE RecordInv
  OBVIOUS
<1>1. Recorded /\ RepliesFromCache
  BY DEF Init, Recorded, RepliesFromCache
<1>2. LoopAgreesWithCache /\ OkCachedMeansGiven
  BY DEF Init, LoopAgreesWithCache, OkCachedMeansGiven, FreshCache, NoAnswer
<1> QED
  BY <1>1, <1>2 DEF RecordInv

LEMMA RecordStep == IInv /\ [Next]_vars => RecordInv'
<1> SUFFICES ASSUME TypeOK, RecordInv, [Next]_vars PROVE RecordInv'
  BY DEF IInv
<1> USE DEF phoneVars, desktopVars, historyVars
<1> HIDE DEF RecordInv
\* Most steps leave cache, runs, replied and given alone, and either keep the
\* command in hand or let go of one that is not being handled by Codex.
<1>1. ASSUME NEW d \in Devices, NEW c \in Commands, Send(d, c) PROVE RecordInv'
  BY <1>1 DEF Send, RecordInv, Recorded, RepliesFromCache, LoopAgreesWithCache,
              OkCachedMeansGiven, InHandNow, Cached, Lookup
<1>2. CASE Connect
  BY <1>2 DEF Connect, RecordInv, Recorded, RepliesFromCache, LoopAgreesWithCache,
              OkCachedMeansGiven, InHandNow, Cached, Lookup
<1>3. ASSUME NEW f \in sent, Receive(f) PROVE RecordInv'
  <2>1. f.dev \in Devices /\ f.cmd \in Commands
    BY DEF TypeOK, Frame
  <2>2. Recorded'
    BY <1>3 DEF Receive, RecordInv, Recorded, InHandNow, Cached
  <2>3. RepliesFromCache'
    BY <1>3 DEF Receive, RecordInv, RepliesFromCache
  <2>4. LoopAgreesWithCache'
    BY <1>3 DEF Receive, LoopAgreesWithCache, Lookup, Cached
  <2>5. OkCachedMeansGiven'
    BY <1>3 DEF Receive, RecordInv, OkCachedMeansGiven
  <2> QED
    BY <2>2, <2>3, <2>4, <2>5 DEF RecordInv
<1>4. CASE GiveToCodex
  <2>1. cur.dev \in Devices /\ cur.cmd \in Commands
    BY <1>4, InHand DEF GiveToCodex
  <2>2. runs[cur.dev][cur.cmd] = 0
    BY <1>4, <2>1 DEF GiveToCodex, RecordInv, Recorded, LoopAgreesWithCache, InHandNow
  <2>3. Recorded'
    <3> SUFFICES ASSUME NEW d \in Devices, NEW c \in Commands, runs'[d][c] # 0
                 PROVE  /\ runs'[d][c] = 1
                        /\ Cached(cache'[d], c) \/ (InHandNow(d, c) /\ inCodex)'
      BY DEF Recorded
    <3>1. CASE d = cur.dev /\ c = cur.cmd
      BY <1>4, <2>1, <2>2, <3>1 DEF GiveToCodex, TypeOK, InHandNow
    <3>2. CASE ~(d = cur.dev /\ c = cur.cmd)
      <4>1. runs'[d][c] = runs[d][c]
        BY <1>4, <2>1, <3>2 DEF GiveToCodex, TypeOK
      <4> QED
        BY <1>4, <3>2, <4>1 DEF GiveToCodex, RecordInv, Recorded, InHandNow
    <3> QED
      BY <3>1, <3>2
  <2>4. RepliesFromCache' /\ LoopAgreesWithCache' /\ OkCachedMeansGiven'
    BY <1>4 DEF GiveToCodex, RecordInv, RepliesFromCache, LoopAgreesWithCache,
                OkCachedMeansGiven, Lookup, Cached
  <2> QED
    BY <2>3, <2>4 DEF RecordInv
<1>5. ASSUME NEW a \in Answers, Settle(a) PROVE RecordInv'
  <2> DEFINE e == cur.dev
             lost == Evicted(cache[e], cur.cmd)
  <2>1. e \in Devices /\ cur.cmd \in Commands
    BY <1>5, InHand DEF Settle
  <2>2. \A d \in Devices, c \in Commands :
          cache'[d].responses[c] =
            (IF d = e /\ c = cur.cmd THEN a
             ELSE IF d = e /\ c \in lost THEN NoAnswer
             ELSE cache[d].responses[c])
    BY <1>5, <2>1, StoreFacts DEF Settle, TypeOK
  <2>3. \A d \in Devices, c \in Commands :
          /\ runs'[d][c] = (IF d = e /\ c \in lost THEN 0 ELSE runs[d][c])
          /\ replied'[d][c] = (IF d = e /\ c \in lost THEN {} ELSE replied[d][c])
    BY <1>5, <2>1 DEF Settle, TypeOK
  <2>4. a # NoAnswer
    BY DEF Answers, NoAnswer
  <2>5. ~Cached(cache[e], cur.cmd)
    BY <1>5 DEF Settle, RecordInv, LoopAgreesWithCache
  <2>6. Recorded'
    BY <2>2, <2>3, <2>4 DEF RecordInv, Recorded, InHandNow, Cached
  <2>7. RepliesFromCache'
    <3> SUFFICES ASSUME NEW d \in Devices, NEW c \in Commands, NEW b \in replied'[d][c]
                 PROVE  cache'[d].responses[c] = b
      BY DEF RepliesFromCache
    <3>1. b \in replied[d][c] /\ ~(d = e /\ c \in lost)
      BY <2>3
    <3>2. b \in Answers /\ cache[d].responses[c] = b
      BY <3>1 DEF RecordInv, RepliesFromCache, TypeOK
    <3>3. ~(d = e /\ c = cur.cmd)
      BY <2>5, <3>2 DEF Cached, Answers, NoAnswer
    <3> QED
      BY <2>2, <3>1, <3>2, <3>3
  <2>8. LoopAgreesWithCache'
    BY <1>5, <2>1, <2>2 DEF Settle, LoopAgreesWithCache, Lookup
  <2>9. OkCachedMeansGiven'
    <3>1. a = "ok" /\ cur.cmd \notin StatusCommands => <<e, cur.cmd>> \in given
      BY <1>5 DEF Settle, Outcome, RecordInv, OkCachedMeansGiven
    <3> QED
      BY <1>5, <2>1, <2>2, <3>1 DEF Settle, RecordInv, OkCachedMeansGiven, NoAnswer
  <2> QED
    BY <2>6, <2>7, <2>8, <2>9 DEF RecordInv
<1>6. CASE Reply
  <2>1. cur.dev \in Devices /\ cur.cmd \in Commands
    BY <1>6, InHand DEF Reply
  <2>2. Recorded' /\ LoopAgreesWithCache' /\ OkCachedMeansGiven'
    BY <1>6 DEF Reply, Rest, RecordInv, Recorded, InHandNow, LoopAgreesWithCache,
                OkCachedMeansGiven
  <2>3. RepliesFromCache'
    BY <1>6, <2>1 DEF Reply, RecordInv, RepliesFromCache, LoopAgreesWithCache, Lookup, TypeOK
  <2> QED
    BY <2>2, <2>3 DEF RecordInv
<1>7. CASE ConnectionLost
  BY <1>7 DEF ConnectionLost, Rest, RecordInv, Recorded, InHandNow, RepliesFromCache,
              LoopAgreesWithCache, OkCachedMeansGiven
<1>8. ASSUME NEW p \in BOOLEAN, Restart(p) PROVE RecordInv'
  <2>1. RepliesFromCache' /\ LoopAgreesWithCache' /\ OkCachedMeansGiven'
    BY <1>8 DEF Restart, RecordInv, RepliesFromCache, LoopAgreesWithCache, OkCachedMeansGiven
  <2>2. Recorded'
    <3>1. CASE loop = "handling" /\ inCodex
      <4>1. cur.dev \in Devices /\ cur.cmd \in Commands
        BY <3>1, InHand
      <4>2. runs' = [runs EXCEPT ![cur.dev][cur.cmd] = 0]
        BY <1>8, <3>1 DEF Restart
      <4>3. \A d \in Devices, c \in Commands :
              runs'[d][c] = (IF d = cur.dev /\ c = cur.cmd THEN 0 ELSE runs[d][c])
        BY <4>1, <4>2 DEF TypeOK
      <4> QED
        BY <1>8, <4>3 DEF Restart, RecordInv, Recorded, InHandNow
    <3>2. CASE ~(loop = "handling" /\ inCodex)
      BY <1>8, <3>2 DEF Restart, RecordInv, Recorded, InHandNow
    <3> QED
      BY <3>1, <3>2
  <2> QED
    BY <2>1, <2>2 DEF RecordInv
<1>9. CASE Exit
  BY <1>9 DEF Exit, FreshCache, RecordInv, Recorded, RepliesFromCache, LoopAgreesWithCache,
              OkCachedMeansGiven, NoAnswer
<1>10. CASE UNCHANGED vars
  BY <1>10 DEF vars, RecordInv, Recorded, InHandNow, RepliesFromCache,
               LoopAgreesWithCache, OkCachedMeansGiven, Cached, Lookup
<1> QED
  BY <1>1, <1>2, <1>3, <1>4, <1>5, <1>6, <1>7, <1>8, <1>9, <1>10 DEF Next, Desktop

LEMMA IInvAlways == Spec => []IInv
<1>1. Init => IInv
  BY InitType, RecordInit DEF IInv
<1>2. IInv /\ [Next]_vars => IInv'
  BY TypeStep, RecordStep DEF IInv
<1> QED
  BY <1>1, <1>2, PTL DEF Spec

\* While the desktop has its record of a command, Codex was given it at most once.
THEOREM CommandAtMostOnce == Spec => []AtMostOnce
<1>1. IInv => AtMostOnce
  BY DEF IInv, RecordInv, Recorded, AtMostOnce, TypeOK
<1> QED
  BY <1>1, IInvAlways, PTL

\* All replies to one command are the same answer.
THEOREM CommandOneAnswer == Spec => []OneAnswer
<1>1. IInv => OneAnswer
  BY DEF IInv, RecordInv, RepliesFromCache, OneAnswer
<1> QED
  BY <1>1, IInvAlways, PTL

\* A retry is not given to Codex again, and learns what the first attempt came to.
THEOREM RetriesHarmlessAlways == Spec => []RetriesHarmless
  BY CommandAtMostOnce, CommandOneAnswer, PTL DEF RetriesHarmless

\* "ok" is only replied for a command that this phone had Codex given.
THEOREM CommandOkMeansGiven == Spec => []OkMeansGiven
<1>1. IInv => OkMeansGiven
  BY DEF IInv, RecordInv, RepliesFromCache, OkCachedMeansGiven, OkMeansGiven
<1> QED
  BY <1>1, IInvAlways, PTL

-----------------------------------------------------------------------------
(***************************************************************************)
(* The guard.  Its highest sequence number bounds all it ever accepted, so *)
(* the order of commands survives the eviction of ids from the window.     *)
(***************************************************************************)
TakenBounded == \A d \in Devices : \A s \in taken[d] : s <= guard[d].highest

LEMMA TakenStep == TypeOK /\ TakenBounded /\ [Next]_vars => TakenBounded'
<1> SUFFICES ASSUME TypeOK, TakenBounded, [Next]_vars PROVE TakenBounded'
  OBVIOUS
<1> USE DEF phoneVars, desktopVars, historyVars
<1>1. ASSUME NEW f \in sent, Receive(f) PROVE TakenBounded'
  <2>1. f.dev \in Devices /\ f.seq \in 1..MaxSeq
    BY DEF TypeOK, Frame
  <2>2. \A d \in Devices : guard[d].highest \in Nat
    BY BoundAssumption DEF TypeOK, GuardType
  <2>3. \A d \in Devices : taken[d] \subseteq Nat
    BY BoundAssumption DEF TypeOK
  <2>4. \A d \in Devices : d # f.dev => guard'[d] = guard[d] /\ taken'[d] = taken[d]
    BY <1>1 DEF Receive, TypeOK
  <2>5. /\ guard'[f.dev].highest =
             IF f.seq > guard[f.dev].highest THEN f.seq ELSE guard[f.dev].highest
        /\ taken'[f.dev] = taken[f.dev] \union {f.seq}
    BY <1>1, <2>1 DEF Receive, TypeOK, Remember
  <2> QED
    BY <2>1, <2>2, <2>3, <2>4, <2>5, BoundAssumption DEF TakenBounded
<1>2. CASE Exit
  BY <1>2 DEF Exit, TakenBounded
<1>3. CASE UNCHANGED <<guard, taken>>
  BY <1>3 DEF TakenBounded
<1>4. (\A f \in sent : ~Receive(f)) /\ ~Exit => UNCHANGED <<guard, taken>>
  BY DEF Next, Desktop, Send, Connect, GiveToCodex, Settle, Reply, ConnectionLost, Restart, vars
<1> QED
  BY <1>1, <1>2, <1>3, <1>4

\* Commands of a phone are begun in the order it sent them, and no frame twice.
THEOREM CommandInOrderOnce == Spec => InOrderOnce
<1> DEFINE Order == \A f \in Frame : cur = NoFrame /\ cur' = f =>
                       \A s \in taken[f.dev] : s < f.seq
<1>1. TypeOK /\ TakenBounded /\ [Next]_vars => [Order]_vars
  <2> SUFFICES ASSUME TypeOK, TakenBounded, [Next]_vars,
                      NEW f \in Frame, cur = NoFrame, cur' = f, NEW s \in taken[f.dev]
               PROVE  s < f.seq
    OBVIOUS
  <2>1. cur' # NoFrame /\ cur' # cur
    BY DEF Frame, NoFrame
  <2>2. PICK g \in sent : Receive(g)
    BY <2>1 DEF Next, Desktop, Send, Connect, GiveToCodex, Settle, Reply, ConnectionLost,
                Restart, Exit, Rest, vars, phoneVars, desktopVars, historyVars
  <2>3. g = f
    BY <2>2 DEF Receive
  <2>4. f.dev \in Devices /\ f.seq \in Nat /\ s \in Nat /\ s > 0
    BY BoundAssumption DEF Frame, TypeOK
  <2>5. s <= guard[f.dev].highest /\ guard[f.dev].highest \in Nat
    BY <2>4, BoundAssumption DEF TakenBounded, TypeOK, GuardType
  <2>6. ~(guard[f.dev].highest > 0 /\ f.seq <= guard[f.dev].highest)
    BY <2>2, <2>3 DEF Receive, Accepts
  <2> QED
    BY <2>4, <2>5, <2>6
<1>2. Init => TypeOK /\ TakenBounded
  BY InitType DEF Init, TakenBounded
<1> HIDE DEF Order
<1>3. Spec => [][Order]_vars
  BY <1>1, <1>2, TypeStep, TakenStep, PTL DEF Spec
<1> QED
  BY <1>3 DEF InOrderOnce, Order
-----------------------------------------------------------------------------
(* The set and the queue of either store stay in step. *)

LEMMA AppendEntries ==
  ASSUME NEW S, NEW q \in Seq(S), NEW x \in S, Distinct(q), x \notin Entries(q)
  PROVE  /\ Entries(Append(q, x)) = Entries(q) \union {x}
         /\ Distinct(Append(q, x))
         /\ Len(Append(q, x)) = Len(q) + 1
<1>1. Len(Append(q, x)) = Len(q) + 1 /\ Len(q) \in Nat
  OBVIOUS
<1>2. \A i \in 1..Len(q) + 1 : Append(q, x)[i] = IF i = Len(q) + 1 THEN x ELSE q[i]
  OBVIOUS
<1> QED
  BY <1>1, <1>2 DEF Entries, Distinct

LEMMA TailEntries ==
  ASSUME NEW S, NEW q \in Seq(S), q # <<>>, Distinct(q)
  PROVE  /\ Entries(Tail(q)) = Entries(q) \ {Head(q)}
         /\ Distinct(Tail(q))
         /\ Len(Tail(q)) = Len(q) - 1
         /\ Head(q) \in Entries(q)
<1>1. Len(Tail(q)) = Len(q) - 1 /\ Len(q) \in Nat \ {0} /\ Head(q) = q[1]
  OBVIOUS
<1>2. \A i \in 1..Len(q) - 1 : Tail(q)[i] = q[i + 1]
  OBVIOUS
<1>3. Distinct(Tail(q))
  BY <1>1, <1>2 DEF Distinct
<1>4. Entries(Tail(q)) = {q[i] : i \in 2..Len(q)}
  <2>1. \A i \in 2..Len(q) : i - 1 \in 1..Len(q) - 1 /\ Tail(q)[i - 1] = q[i]
    BY <1>1, <1>2
  <2>2. \A i \in 1..Len(q) - 1 : i + 1 \in 2..Len(q)
    BY <1>1
  <2> QED
    BY <1>1, <1>2, <2>1, <2>2 DEF Entries
<1>5. \A i \in 2..Len(q) : i \in 1..Len(q) /\ q[i] # q[1]
  BY <1>1 DEF Distinct
<1>6. \A i \in 1..Len(q) : i = 1 \/ i \in 2..Len(q)
  BY <1>1
<1> QED
  BY <1>1, <1>3, <1>4, <1>5, <1>6 DEF Entries

LEMMA RememberCoherent ==
  ASSUME NEW g \in GuardType, NEW s \in 1..MaxSeq, GuardCoherent(g), Accepts(g, s)
  PROVE  GuardCoherent(Remember(g, s))
<1> DEFINE full == Append(g.order, s)
<1>1. /\ full \in Seq(1..MaxSeq) /\ full # <<>>
      /\ Entries(full) = g.ids \union {s} /\ Distinct(full)
      /\ Len(full) = Len(g.order) + 1 /\ Len(g.order) \in Nat
  <2>1. /\ g.order \in Seq(1..MaxSeq) /\ Len(g.order) \in Nat
        /\ g.ids = Entries(g.order) /\ Distinct(g.order) /\ s \notin Entries(g.order)
    BY DEF GuardType, GuardCoherent, Accepts
  <2>2. \A q \in Seq(1..MaxSeq) : Distinct(q) /\ s \notin Entries(q) =>
          /\ Entries(Append(q, s)) = Entries(q) \union {s}
          /\ Distinct(Append(q, s)) /\ Len(Append(q, s)) = Len(q) + 1
    BY AppendEntries
  <2>3. full \in Seq(1..MaxSeq) /\ full # <<>>
    BY <2>1
  <2> QED
    BY <2>1, <2>2, <2>3
<1>2. /\ Entries(Tail(full)) = (g.ids \union {s}) \ {Head(full)}
      /\ Distinct(Tail(full)) /\ Len(Tail(full)) = Len(full) - 1
  BY <1>1, TailEntries
<1>3. Len(g.order) <= Window
  BY DEF GuardCoherent
<1>4. CASE Len(full) > Window
  BY <1>1, <1>2, <1>3, <1>4, WindowAssumption DEF Remember, GuardCoherent
<1>5. CASE ~(Len(full) > Window)
  <2>1. /\ Remember(g, s).ids = g.ids \union {s}
        /\ Remember(g, s).order = full
    BY <1>5 DEF Remember
  <2> QED
    BY <1>1, <1>5, <2>1, WindowAssumption DEF GuardCoherent
<1> QED
  BY <1>4, <1>5

LEMMA StoreCoherent ==
  ASSUME NEW k \in CacheType, NEW c \in Commands, NEW a \in Answers,
         CacheCoherent(k), ~Cached(k, c)
  PROVE  CacheCoherent(Store(k, c, a))
<1> DEFINE q == IF Overflow(k, c) THEN Tail(k.order) ELSE k.order
<1>1. k.order \in Seq(Commands) /\ Len(k.order) \in Nat
  BY DEF CacheType
<1>2. Overflow(k, c) => k.order # <<>>
  BY <1>1, CacheAssumption DEF Overflow
<1>3. /\ q \in Seq(Commands) /\ Distinct(q)
      /\ Entries(q) = Entries(k.order) \ Evicted(k, c)
      /\ Len(q) \in Nat /\ Len(q) < CacheSize
  <2>1. CASE Overflow(k, c)
    BY <1>1, <1>2, <2>1, TailEntries, CacheAssumption DEF CacheCoherent, Evicted
  <2>2. CASE ~Overflow(k, c)
    BY <1>1, <2>2, CacheAssumption DEF CacheCoherent, Evicted, Overflow
  <2> QED
    BY <2>1, <2>2
<1>4. c \notin Entries(k.order)
  BY DEF CacheCoherent
<1>5. /\ Entries(Append(q, c)) = Entries(q) \union {c}
      /\ Distinct(Append(q, c)) /\ Len(Append(q, c)) <= CacheSize
  <2> HIDE DEF q
  <2>1. c \notin Entries(q)
    BY <1>3, <1>4
  <2>2. /\ Entries(Append(q, c)) = Entries(q) \union {c}
        /\ Distinct(Append(q, c)) /\ Len(Append(q, c)) = Len(q) + 1
    BY <1>3, <2>1, AppendEntries
  <2> QED
    BY <1>3, <2>2, CacheAssumption
<1>6. Store(k, c, a).order = Append(q, c)
  BY DEF Store
<1>7. \A x \in Commands :
        Cached(Store(k, c, a), x) <=> x = c \/ (Cached(k, x) /\ x \notin Evicted(k, c))
  BY StoreFacts DEF Cached, Answers, NoAnswer
<1>8. {x \in Commands : Cached(Store(k, c, a), x)} = Entries(Append(q, c))
  BY <1>3, <1>5, <1>7 DEF CacheCoherent
<1> QED
  BY <1>5, <1>6, <1>8 DEF CacheCoherent

LEMMA FreshCoherent == GuardCoherent(FreshGuard) /\ CacheCoherent(FreshCache)
<1>1. Entries(<<>>) = {} /\ Distinct(<<>>) /\ Len(<<>>) = 0
  BY DEF Entries, Distinct
<1>2. GuardCoherent(FreshGuard)
  BY <1>1, WindowAssumption DEF GuardCoherent, FreshGuard
<1>3. {c \in Commands : Cached(FreshCache, c)} = {} /\ FreshCache.order = <<>>
  BY DEF FreshCache, Cached
<1>4. CacheCoherent(FreshCache)
  BY <1>1, <1>3, CacheAssumption DEF CacheCoherent
<1> QED
  BY <1>2, <1>4

\* Neither store leaks, duplicates or outgrows its bound.
THEOREM CommandStoresCoherent == Spec => []StoresCoherent
<1>1. Init => StoresCoherent
  BY FreshCoherent DEF Init, StoresCoherent
<1>2. IInv /\ StoresCoherent /\ [Next]_vars => StoresCoherent'
  <2> SUFFICES ASSUME TypeOK, RecordInv, StoresCoherent, [Next]_vars PROVE StoresCoherent'
    BY DEF IInv
  <2>1. ASSUME NEW f \in sent, Receive(f) PROVE StoresCoherent'
    <3>1. f.dev \in Devices /\ f.seq \in 1..MaxSeq
      BY DEF TypeOK, Frame
    <3>2. GuardCoherent(Remember(guard[f.dev], f.seq))
      BY <2>1, <3>1, RememberCoherent DEF Receive, TypeOK, StoresCoherent
    <3> QED
      BY <2>1, <3>1, <3>2 DEF Receive, TypeOK, StoresCoherent
  <2>2. ASSUME NEW a \in Answers, Settle(a) PROVE StoresCoherent'
    <3>1. cur.dev \in Devices /\ cur.cmd \in Commands
      BY <2>2, InHand DEF Settle
    <3>2. CacheCoherent(Store(cache[cur.dev], cur.cmd, a))
      BY <2>2, <3>1, StoreCoherent
         DEF Settle, TypeOK, StoresCoherent, RecordInv, LoopAgreesWithCache
    <3> QED
      BY <2>2, <3>1, <3>2 DEF Settle, TypeOK, StoresCoherent
  <2>3. CASE Exit
    BY <2>3, FreshCoherent DEF Exit, StoresCoherent
  <2>4. CASE UNCHANGED <<guard, cache>>
    BY <2>4 DEF StoresCoherent
  <2>5. (\A f \in sent : ~Receive(f)) /\ (\A a \in Answers : ~Settle(a)) /\ ~Exit
          => UNCHANGED <<guard, cache>>
    BY DEF Next, Desktop, Send, Connect, GiveToCodex, Reply, ConnectionLost, Restart, vars,
           desktopVars
  <2> QED
    BY <2>1, <2>2, <2>3, <2>4, <2>5
<1> QED
  BY <1>1, <1>2, IInvAlways, PTL DEF Spec
-----------------------------------------------------------------------------
(***************************************************************************)
(* Refinement: every step of the desktop is a step of CommandLedger or     *)
(* changes nothing the ledger shows.                                       *)
(***************************************************************************)
AState   == [p \in Pairs |-> LedgerState(p[1], p[2])]
AGiven   == [p \in Pairs |-> runs[p[1]][p[2]]]
ASettled == [p \in Pairs |-> cache[p[1]].responses[p[2]]]
AReplies == [p \in Pairs |-> replied[p[1]][p[2]]]
AVars    == <<AState, AGiven, ASettled, AReplies>>

LEMMA PairType == \A p \in Pairs : p[1] \in Devices /\ p[2] \in Commands /\ p = <<p[1], p[2]>>
  BY DEF Pairs

LEMMA PairOf ==
  ASSUME NEW d \in Devices, NEW c \in Commands
  PROVE  \E q \in Pairs : q = <<d, c>> /\ q[1] = d /\ q[2] = c
<1> DEFINE r == <<d, c>>
<1>1. r \in Pairs
  BY DEF Pairs
<1>2. r = <<d, c>> /\ r[1] = d /\ r[2] = c
  OBVIOUS
<1> QED
  BY <1>1, <1>2

\* A command without a record has left no trace.
LEMMA Unrecorded ==
  ASSUME IInv, NEW d \in Devices, NEW c \in Commands, ~Cached(cache[d], c)
  PROVE  /\ cache[d].responses[c] = NoAnswer
         /\ replied[d][c] = {}
         /\ ~(InHandNow(d, c) /\ inCodex) => runs[d][c] = 0
<1>1. cache[d].responses[c] = NoAnswer
  BY DEF Cached
<1>2. \A a \in replied[d][c] : a \in Answers /\ a = NoAnswer
  BY <1>1 DEF IInv, RecordInv, RepliesFromCache, TypeOK
<1>3. replied[d][c] = {}
  BY <1>2 DEF Answers, NoAnswer
<1> QED
  BY <1>1, <1>3 DEF IInv, RecordInv, Recorded

LEMMA LedgerInit == Init => Ledger!Init
<1> SUFFICES ASSUME Init PROVE Ledger!Init
  OBVIOUS
<1>1. \A p \in Pairs : /\ LedgerState(p[1], p[2]) = "unknown"
                       /\ runs[p[1]][p[2]] = 0
                       /\ cache[p[1]].responses[p[2]] = NoAnswer
                       /\ replied[p[1]][p[2]] = {}
  BY PairType DEF Init, LedgerState, Cached, FreshCache
<1> QED
  BY <1>1 DEF Ledger!Init

LEMMA LedgerActions ==
  /\ \A q \in Pairs : Ledger!Begin(q) \/ Ledger!Give(q) \/ Ledger!Reply(q) => Ledger!Next
  /\ \A q \in Pairs, a \in Answers, lost \in SUBSET Pairs : Ledger!Settle(q, a, lost) => Ledger!Next
  /\ \A lost \in SUBSET Pairs : Ledger!Forget(lost) => Ledger!Next
<1>1. \A q \in Pairs : Ledger!Begin(q) \/ Ledger!Give(q) \/ Ledger!Reply(q) => Ledger!Next
  BY Zenon DEF Ledger!Next
<1>2. \A q \in Pairs, a \in Answers, lost \in SUBSET Pairs : Ledger!Settle(q, a, lost) => Ledger!Next
  BY Zenon DEF Ledger!Next
<1>3. \A lost \in SUBSET Pairs : Ledger!Forget(lost) => Ledger!Next
  BY Zenon DEF Ledger!Next
<1> QED
  BY <1>1, <1>2, <1>3

LEMMA LedgerStep ==
  IInv /\ StoresCoherent /\ [Next]_vars => [Ledger!Next]_(Ledger!ledger)
<1> SUFFICES ASSUME IInv, StoresCoherent, [Next]_vars
             PROVE  Ledger!Next \/ AVars' = AVars
  BY DEF Ledger!ledger, AVars, AState, AGiven, ASettled, AReplies
<1> USE DEF phoneVars, desktopVars, historyVars
<1>0. TypeOK /\ RecordInv
  BY DEF IInv
<1>1. ASSUME NEW d \in Devices, NEW c \in Commands, Send(d, c) PROVE AVars' = AVars
  BY <1>1 DEF Send, AVars, AState, AGiven, ASettled, AReplies, LedgerState
<1>2. CASE Connect
  BY <1>2 DEF Connect, AVars, AState, AGiven, ASettled, AReplies, LedgerState
<1>3. ASSUME NEW f \in sent, Receive(f) PROVE Ledger!Next \/ AVars' = AVars
  <2>1. f.dev \in Devices /\ f.cmd \in Commands
    BY <1>0 DEF TypeOK, Frame
  <2>2. CASE Cached(cache[f.dev], f.cmd)
    BY <1>3, <2>2 DEF Receive, Lookup, Cached, AVars, AState, AGiven, ASettled, AReplies,
                      LedgerState
  <2>3. CASE ~Cached(cache[f.dev], f.cmd)
    <3> DEFINE q == <<f.dev, f.cmd>>
    <3>1. q \in Pairs /\ q[1] = f.dev /\ q[2] = f.cmd
      BY <2>1 DEF Pairs
    <3>2. loop = "select" /\ loop' = "handling" /\ cur' = f /\ UNCHANGED <<cache, runs, replied>>
      BY <1>3, <2>3 DEF Receive, Lookup, Cached
    <3>3. AState[q] = "unknown" /\ \A p \in Pairs : AState[p] # "working"
      BY <2>3, <3>1, <3>2 DEF AState, LedgerState
    <3>4. AState' = [AState EXCEPT ![q] = "working"]
      <4>1. \A p \in Pairs : AState'[p] = IF p = q THEN "working" ELSE AState[p]
        BY <2>3, <3>1, <3>2, PairType DEF AState, LedgerState
      <4> QED
        BY <3>1, <4>1 DEF AState
    <3>5. UNCHANGED <<AGiven, ASettled, AReplies>>
      BY <3>2 DEF AGiven, ASettled, AReplies
    <3>6. Ledger!Begin(q)
      BY <3>3, <3>4, <3>5 DEF Ledger!Begin, AState, AGiven, ASettled, AReplies
    <3> QED
      BY <3>1, <3>6, LedgerActions, Zenon
  <2> QED
    BY <2>2, <2>3
<1>4. CASE GiveToCodex
  <2>1. cur.dev \in Devices /\ cur.cmd \in Commands
    BY <1>0, <1>4, InHand DEF GiveToCodex
  <2>2. PICK q \in Pairs : q = <<cur.dev, cur.cmd>> /\ q[1] = cur.dev /\ q[2] = cur.cmd
    BY <2>1, PairOf
  <2>3. ~Cached(cache[cur.dev], cur.cmd) /\ loop = "handling" /\ ~inCodex
    BY <1>0, <1>4 DEF GiveToCodex, RecordInv, LoopAgreesWithCache
  <2>4. runs[cur.dev][cur.cmd] = 0
    BY <2>1, <2>3, Unrecorded
  <2>5. AState[q] = "working" /\ AGiven[q] = 0
    BY <2>2, <2>3, <2>4 DEF AState, AGiven, LedgerState
  <2>6. AGiven' = [AGiven EXCEPT ![q] = 1]
    <3>1. runs' = [runs EXCEPT ![cur.dev][cur.cmd] = @ + 1] /\ runs \in [Devices -> [Commands -> Nat]]
      BY <1>0, <1>4 DEF GiveToCodex, TypeOK
    <3>2. \A p \in Pairs : AGiven'[p] = IF p = q THEN 1 ELSE AGiven[p]
      BY <2>1, <2>2, <2>4, <3>1, PairType DEF AGiven
    <3> QED
      BY <2>2, <3>2 DEF AGiven
  <2>7. UNCHANGED <<AState, ASettled, AReplies>>
    BY <1>4 DEF GiveToCodex, AState, LedgerState, ASettled, AReplies
  <2>8. Ledger!Give(q)
    BY <2>5, <2>6, <2>7 DEF Ledger!Give, AState, AGiven, ASettled, AReplies
  <2> QED
    BY <2>8, LedgerActions
<1>5. ASSUME NEW a \in Answers, Settle(a) PROVE Ledger!Next
  <2> DEFINE e == cur.dev
             gone == Evicted(cache[e], cur.cmd)
  <2>1. e \in Devices /\ cur.cmd \in Commands
    BY <1>0, <1>5, InHand DEF Settle
  <2>2. PICK q \in Pairs : q = <<e, cur.cmd>> /\ q[1] = e /\ q[2] = cur.cmd
    BY <2>1, PairOf
  <2>14. PICK lost \in SUBSET Pairs : lost = {p \in Pairs : p[1] = e /\ p[2] \in gone}
    OBVIOUS
  <2>3. loop = "handling" /\ ~Cached(cache[e], cur.cmd) /\ loop' = "replying"
    BY <1>0, <1>5 DEF Settle, RecordInv, LoopAgreesWithCache
  <2>4. \A c \in gone : c \in Commands /\ Cached(cache[e], c)
    <3>1. cache[e].order \in Seq(Commands) /\ CacheCoherent(cache[e])
      BY <1>0, <2>1 DEF TypeOK, CacheType, StoresCoherent
    <3>2. Overflow(cache[e], cur.cmd) => cache[e].order # <<>>
      BY <3>1, CacheAssumption DEF Overflow
    <3>3. Overflow(cache[e], cur.cmd) => Head(cache[e].order) \in Entries(cache[e].order)
      BY <3>1, <3>2, TailEntries DEF CacheCoherent
    <3> QED
      BY <3>1, <3>3 DEF Evicted, CacheCoherent
  <2>5. \A p \in Pairs : cache'[p[1]].responses[p[2]] =
          IF p = q THEN a ELSE IF p \in lost THEN NoAnswer ELSE cache[p[1]].responses[p[2]]
    <3>1. \A d \in Devices, c \in Commands :
            cache'[d].responses[c] =
              (IF d = e /\ c = cur.cmd THEN a
               ELSE IF d = e /\ c \in gone THEN NoAnswer
               ELSE cache[d].responses[c])
      BY <1>0, <1>5, <2>1, StoreFacts DEF Settle, TypeOK
    <3> QED
      BY <2>2, <2>14, <3>1, PairType
  <2>6. a # NoAnswer
    BY DEF Answers, NoAnswer
  <2>7. AState[q] = "working"
    BY <2>2, <2>3 DEF AState, LedgerState
  <2>8. \A p \in lost : AState[p] = "settled"
    BY <2>4, <2>14 DEF AState, LedgerState
  <2>9. AState' = [p \in Pairs |-> IF p = q THEN "settled"
                                  ELSE IF p \in lost THEN "unknown" ELSE AState[p]]
    <3>1. \A p \in Pairs : AState[p] =
            IF cache[p[1]].responses[p[2]] # NoAnswer THEN "settled"
            ELSE IF p = q THEN "working" ELSE "unknown"
      BY <2>2, <2>3, PairType DEF AState, LedgerState, Cached
    <3>2. \A p \in Pairs : AState'[p] =
            IF cache'[p[1]].responses[p[2]] # NoAnswer THEN "settled" ELSE "unknown"
      BY <2>3 DEF AState, LedgerState, Cached
    <3>3. \A p \in Pairs : AState'[p] = IF p = q THEN "settled"
                                       ELSE IF p \in lost THEN "unknown" ELSE AState[p]
      BY <2>5, <2>6, <3>1, <3>2
    <3> QED
      BY <3>3 DEF AState
  <2>10. AGiven' = [p \in Pairs |-> IF p \in lost THEN 0 ELSE AGiven[p]]
    <3>1. \A p \in Pairs : runs'[p[1]][p[2]] = IF p \in lost THEN 0 ELSE runs[p[1]][p[2]]
      BY <1>0, <1>5, <2>1, <2>14, PairType DEF Settle, TypeOK
    <3> QED
      BY <3>1 DEF AGiven
  <2>11. ASettled' = [p \in Pairs |-> IF p = q THEN a
                                    ELSE IF p \in lost THEN NoAnswer ELSE ASettled[p]]
    BY <2>5 DEF ASettled
  <2>12. AReplies' = [p \in Pairs |-> IF p \in lost THEN {} ELSE AReplies[p]]
    <3>1. \A p \in Pairs : replied'[p[1]][p[2]] =
            IF p \in lost THEN {} ELSE replied[p[1]][p[2]]
      BY <1>0, <1>5, <2>1, <2>14, PairType DEF Settle, TypeOK
    <3> QED
      BY <3>1 DEF AReplies
  <2>13. Ledger!Settle(q, a, lost)
    BY <2>7, <2>8, <2>9, <2>10, <2>11, <2>12
       DEF Ledger!Settle, AState, AGiven, ASettled, AReplies
  <2> QED
    BY <2>13, LedgerActions
<1>6. CASE Reply
  <2>1. cur.dev \in Devices /\ cur.cmd \in Commands /\ loop = "replying" /\ loop' = "select"
    BY <1>0, <1>6, InHand DEF Reply
  <2>2. PICK q \in Pairs : q = <<cur.dev, cur.cmd>> /\ q[1] = cur.dev /\ q[2] = cur.cmd
    BY <2>1, PairOf
  <2>3. cache[cur.dev].responses[cur.cmd] = answer /\ answer # NoAnswer
    BY <1>0, <2>1 DEF RecordInv, LoopAgreesWithCache, Lookup, TypeOK
  <2>4. AState[q] = "settled" /\ ASettled[q] = answer
    BY <2>2, <2>3 DEF AState, LedgerState, Cached, ASettled
  <2>5. AReplies' = [AReplies EXCEPT ![q] = @ \union {answer}]
    <3>1. /\ replied' = [replied EXCEPT ![cur.dev][cur.cmd] = @ \union {answer}]
          /\ replied \in [Devices -> [Commands -> SUBSET Answers]]
      BY <1>0, <1>6 DEF Reply, TypeOK
    <3>2. \A p \in Pairs : AReplies'[p] =
            IF p = q THEN AReplies[p] \union {answer} ELSE AReplies[p]
      BY <2>1, <2>2, <3>1, PairType DEF AReplies
    <3> QED
      BY <2>2, <3>2 DEF AReplies
  <2>6. UNCHANGED <<AState, AGiven, ASettled>>
    BY <1>6, <2>1 DEF Reply, AState, LedgerState, AGiven, ASettled
  <2>7. Ledger!Reply(q)
    BY <2>4, <2>5, <2>6 DEF Ledger!Reply, AState, AGiven, ASettled, AReplies
  <2> QED
    BY <2>7, LedgerActions
<1>7. CASE ConnectionLost
  BY <1>7 DEF ConnectionLost, AVars, AState, LedgerState, AGiven, ASettled, AReplies
<1>8. ASSUME NEW p \in BOOLEAN, Restart(p) PROVE Ledger!Next \/ AVars' = AVars
  <2>1. loop' = "down" /\ UNCHANGED <<cache, replied>>
    BY <1>8 DEF Restart
  <2>2. CASE loop # "handling"
    BY <1>8, <2>1, <2>2 DEF Restart, AVars, AState, LedgerState, AGiven, ASettled, AReplies
  <2>3. CASE loop = "handling"
    <3>1. cur.dev \in Devices /\ cur.cmd \in Commands
      BY <1>0, <2>3, InHand
    <3>2. PICK q \in Pairs : q = <<cur.dev, cur.cmd>> /\ q[1] = cur.dev /\ q[2] = cur.cmd
      BY <3>1, PairOf
    <3>11. PICK lost \in SUBSET Pairs : lost = {q}
      OBVIOUS
    <3>3. ~Cached(cache[cur.dev], cur.cmd)
      BY <1>0, <2>3 DEF RecordInv, LoopAgreesWithCache
    <3>4. /\ cache[cur.dev].responses[cur.cmd] = NoAnswer
          /\ replied[cur.dev][cur.cmd] = {}
          /\ ~inCodex => runs[cur.dev][cur.cmd] = 0
      BY <3>1, <3>3, Unrecorded
    <3>5. \A p2 \in Pairs : runs'[p2[1]][p2[2]] = IF p2 \in lost THEN 0 ELSE runs[p2[1]][p2[2]]
      <4>1. CASE inCodex
        <5>1. /\ runs' = [runs EXCEPT ![cur.dev][cur.cmd] = 0]
              /\ runs \in [Devices -> [Commands -> Nat]]
          BY <1>0, <1>8, <2>3, <4>1 DEF Restart, TypeOK
        <5> QED
          BY <3>1, <3>2, <3>11, <5>1, PairType
      <4>2. CASE ~inCodex
        <5>1. runs' = runs
          BY <1>8, <4>2 DEF Restart
        <5> QED
          BY <3>2, <3>4, <3>11, <4>2, <5>1, PairType
      <4> QED
        BY <4>1, <4>2
    <3>6. AState' = [r \in Pairs |-> IF r \in lost THEN "unknown" ELSE AState[r]]
      <4>1. \A r \in Pairs : AState'[r] = IF r \in lost THEN "unknown" ELSE AState[r]
        BY <2>1, <2>3, <3>2, <3>3, <3>11, PairType DEF AState, LedgerState
      <4> QED
        BY <4>1 DEF AState
    <3>7. AGiven' = [r \in Pairs |-> IF r \in lost THEN 0 ELSE AGiven[r]]
      BY <3>5 DEF AGiven
    <3>8. ASettled' = [r \in Pairs |-> IF r \in lost THEN NoAnswer ELSE ASettled[r]]
      BY <2>1, <3>2, <3>4, <3>11, PairType DEF ASettled
    <3>9. AReplies' = [r \in Pairs |-> IF r \in lost THEN {} ELSE AReplies[r]]
      BY <2>1, <3>2, <3>4, <3>11, PairType DEF AReplies
    <3>10. Ledger!Forget(lost)
      BY <3>6, <3>7, <3>8, <3>9 DEF Ledger!Forget, AState, AGiven, ASettled, AReplies
    <3> QED
      BY <3>10, LedgerActions
  <2> QED
    BY <2>2, <2>3
<1>9. CASE Exit
  <2>1. \A p \in Pairs : /\ LedgerState(p[1], p[2])' = "unknown"
                         /\ runs'[p[1]][p[2]] = 0
                         /\ cache'[p[1]].responses[p[2]] = NoAnswer
                         /\ replied'[p[1]][p[2]] = {}
    BY <1>9, PairType DEF Exit, LedgerState, Cached, FreshCache
  <2>2. Ledger!Forget(Pairs)
    BY <2>1 DEF Ledger!Forget
  <2> QED
    BY <2>2, LedgerActions, Zenon
<1>10. CASE UNCHANGED vars
  BY <1>10 DEF vars, AVars, AState, LedgerState, AGiven, ASettled, AReplies
<1> QED
  BY <1>1, <1>2, <1>3, <1>4, <1>5, <1>6, <1>7, <1>8, <1>9, <1>10 DEF Next, Desktop

\* The command path implements the ledger.
THEOREM CommandPathImplementsLedger == Spec => LedgerSpec
  BY LedgerInit, LedgerStep, IInvAlways, CommandStoresCoherent, PTL
     DEF Spec, LedgerSpec, Ledger!Spec
=============================================================================
