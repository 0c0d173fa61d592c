---------------------------- MODULE CodexProofs ----------------------------
(***************************************************************************)
(* What is proved of Codex's sessions, while they run (CodexSessions) and  *)
(* where they are kept (CodexData), for every number of sessions, commands,*)
(* runs, databases and deletions and every size of the channel.            *)
(*                                                                         *)
(* CodexSessions: the types, that the phone hears of a turn only after its *)
(* input was answered, and that the monitor shows the turns that run.  The *)
(* inductive invariants: no turn is known before its command was taken (in *)
(* Codex, its pipes or the channel), and between commands every command    *)
(* taken so far has been answered (IInv); the last message under way about *)
(* a session says whether a turn runs in it, and if none is under way what *)
(* is shown of it is right, unless it is blurred or its input is in hand   *)
(* (ShownPart).                                                            *)
(*                                                                         *)
(* CodexData: its four properties.  The inductive invariant DInv says that *)
(* one repair or cleanup works at a time, what a repair has made of the    *)
(* files and rows nobody else touched in each of its phases, which backup  *)
(* has what it overwrites, that every text somebody will write a file with *)
(* has all lines of an unexposed session, and what the cleanup's preview   *)
(* still says when it is carried out.                                      *)
(***************************************************************************)
EXTENDS CodexSessions, CodexData, FiniteSetTheorems, TLAPS


\* Queues whose turns belong to the first n commands.
InputOf(q, n) == q \in Seq(Asked) /\ \A i \in DOMAIN q : q[i].by <= n

OutputOf(q, n) ==
  q \in Seq(Answers \cup TurnEvents) /\ \A i \in DOMAIN q : q[i].is = "event" => q[i].turn <= n

ChannelOf(q, n) ==
  q \in Seq(TurnEvents \cup {Gone}) /\ \A i \in DOMAIN q : q[i].is = "event" => q[i].turn <= n

CodexType == [alive : BOOLEAN, threads : SUBSET Sessions, turn : [Sessions -> Nat],
              in : Seq(Asked), out : Seq(Answers \cup TurnEvents)]

CodexOf(c, n) ==
  /\ c \in CodexType /\ \A s \in Sessions : c.turn[s] <= n
  /\ InputOf(c.in, n) /\ OutputOf(c.out, n)

CodexPart == CodexOf(codex, commands)

ChannelPart ==
  /\ ChannelOf(events, commands) /\ Len(events) <= Capacity
  /\ reading => events \in Seq(TurnEvents)
  /\ reading \in BOOLEAN /\ blurred \subseteq Sessions

LoopPart ==
  /\ pending \subseteq Nat /\ lastId \in Nat
  /\ loop \in [at : {"starting", "idle", "over"}] \cup AtWork
  /\ allowed \subseteq Sessions
  /\ commands \in 0..MaxCommands /\ runs \in 1..MaxRuns /\ deaf \in BOOLEAN

OrderPart ==
  /\ answered \subseteq 1..commands /\ told \subseteq answered
  /\ IF Working THEN loop.by = commands /\ 1..(commands - 1) \subseteq answered
             ELSE answered = 1..commands

\* The channel is new with every run.
QuietPart == ~Listening => events = <<>>

IInv == CodexPart /\ ChannelPart /\ LoopPart /\ OrderPart /\ QuietPart

-----------------------------------------------------------------------------
(* Queues. *)

\* An element of a sequence.
LEMMA ElementIn ==
  ASSUME NEW S, NEW q \in Seq(S), NEW i \in DOMAIN q
  PROVE  q[i] \in S
OBVIOUS

\* A queue without its first element.
LEMMA TailFacts ==
  ASSUME NEW S, NEW q \in Seq(S), q # <<>>
  PROVE  /\ Tail(q) \in Seq(S) /\ Len(Tail(q)) = Len(q) - 1 /\ Head(q) \in S /\ Head(q) = q[1]
         /\ 1 \in DOMAIN q
         /\ \A i \in DOMAIN Tail(q) : i + 1 \in DOMAIN q /\ Tail(q)[i] = q[i + 1]
OBVIOUS

\* A queue with one more.
LEMMA AppendFacts ==
  ASSUME NEW S, NEW q \in Seq(S), NEW e \in S
  PROVE  /\ Append(q, e) \in Seq(S) /\ Len(Append(q, e)) = Len(q) + 1
         /\ \A i \in DOMAIN Append(q, e) :
              Append(q, e)[i] = e \/ (i \in DOMAIN q /\ Append(q, e)[i] = q[i])
OBVIOUS

\* Two queues in a row.
LEMMA ConcatFacts ==
  ASSUME NEW S, NEW q \in Seq(S), NEW t \in Seq(S)
  PROVE  /\ q \o t \in Seq(S)
         /\ \A i \in DOMAIN (q \o t) :
              \/ i \in DOMAIN q /\ (q \o t)[i] = q[i]
              \/ i - Len(q) \in DOMAIN t /\ (q \o t)[i] = t[i - Len(q)]
OBVIOUS

\* Sequences over a larger set.
LEMMA SeqSubset ==
  ASSUME NEW S, NEW T, S \subseteq T, NEW q \in Seq(S)
  PROVE  q \in Seq(T)
OBVIOUS

\* What was begun by n commands was begun by more.
LEMMA CodexLater ==
  ASSUME NEW c, NEW n \in Nat, CodexOf(c, n)
  PROVE  CodexOf(c, n + 1)
<1>1. c \in CodexType /\ c.turn \in [Sessions -> Nat]
  BY DEF CodexOf, CodexType
<1>2. \A s \in Sessions : c.turn[s] <= n + 1
  BY <1>1 DEF CodexOf
<1>3. InputOf(c.in, n + 1)
  <2>1. \A i \in DOMAIN c.in : c.in[i].by \in Nat
    <3>1. \A i \in DOMAIN c.in : c.in[i] \in Asked
      BY ElementIn DEF CodexOf, InputOf
    <3> QED
      BY <3>1 DEF Asked
  <2> QED
    BY <2>1 DEF CodexOf, InputOf
<1>4. OutputOf(c.out, n + 1)
  <2>1. \A i \in DOMAIN c.out : c.out[i].is = "event" => c.out[i].turn \in Nat
    BY DEF CodexOf, OutputOf, TurnEvents, Answers
  <2> QED
    BY <2>1 DEF CodexOf, OutputOf
<1> QED
  BY <1>1, <1>2, <1>3, <1>4 DEF CodexOf

\* The channel is still of its commands when there are more.
LEMMA ChannelLater ==
  ASSUME NEW q, NEW n \in Nat, ChannelOf(q, n)
  PROVE  ChannelOf(q, n + 1)
<1>1. \A i \in DOMAIN q : q[i].is = "event" => q[i].turn \in Nat
  BY DEF ChannelOf, TurnEvents, Gone
<1> QED
  BY <1>1 DEF ChannelOf

\* A full channel drops its first event.
LEMMA SendFacts ==
  ASSUME ChannelPart, reading, NEW n \in Nat, n = commands,
         NEW e \in TurnEvents \cup {Gone}, e.is = "event" => e.turn <= n, Send(e)
  PROVE  /\ ChannelOf(events', n) /\ Len(events') <= Capacity
         /\ e \in TurnEvents => events' \in Seq(TurnEvents)
         /\ blurred' \subseteq Sessions
<1>0. Capacity \in Nat \ {0}
  BY SizeAssumption
<1>1. /\ events \in Seq(TurnEvents) /\ events \in Seq(TurnEvents \cup {Gone})
      /\ \A i \in DOMAIN events : events[i].is = "event" => events[i].turn <= n
      /\ Len(events) <= Capacity
  BY DEF ChannelPart, ChannelOf
<1>2. CASE ~Listening
  BY <1>1, <1>2 DEF Send, ChannelPart, ChannelOf
<1>3. CASE Listening /\ Len(events) < Capacity
  <2>1. events' = Append(events, e) /\ blurred' = blurred
    BY <1>3 DEF Send
  <2>2. ChannelOf(events', n)
    BY <1>1, <2>1, AppendFacts DEF ChannelOf
  <2>3. Len(events') <= Capacity
    BY <1>0, <1>1, <1>3, <2>1
  <2>4. e \in TurnEvents => events' \in Seq(TurnEvents)
    BY <1>1, <2>1
  <2> QED
    BY <2>1, <2>2, <2>3, <2>4 DEF ChannelPart
<1>4. CASE Listening /\ ~(Len(events) < Capacity)
  <2>1. events' = Append(Tail(events), e) /\ blurred' = blurred \cup {Head(events).s}
    BY <1>4 DEF Send
  <2>2. events # <<>>
    BY <1>0, <1>1, <1>4
  <2>3. /\ Tail(events) \in Seq(TurnEvents) /\ Len(Tail(events)) = Len(events) - 1
        /\ Tail(events) \in Seq(TurnEvents \cup {Gone})
        /\ Head(events) \in TurnEvents
        /\ \A i \in DOMAIN Tail(events) : i + 1 \in DOMAIN events /\ Tail(events)[i] = events[i + 1]
    BY <1>1, <2>2, TailFacts
  <2>4. ChannelOf(Tail(events), n)
    BY <1>1, <2>3 DEF ChannelOf
  <2>5. ChannelOf(events', n)
    BY <2>1, <2>4, AppendFacts DEF ChannelOf
  <2>6. Len(events') <= Capacity
    BY <1>0, <1>1, <2>1, <2>3
  <2>7. e \in TurnEvents => events' \in Seq(TurnEvents)
    BY <2>1, <2>3
  <2>8. blurred' \subseteq Sessions
    BY <2>1, <2>3 DEF TurnEvents, ChannelPart
  <2> QED
    BY <2>5, <2>6, <2>7, <2>8
<1> QED
  BY <1>2, <1>3, <1>4

-----------------------------------------------------------------------------
(* The steps of the loop. *)

Commands == [at : {"idle", "first", "second"}, kind : Kinds, s : Sessions, by : Nat \ {0},
             id : Nat, what : {"read", "start", "turn", "resume", "interrupt"},
             result : {"writing", "none", "ok", "failed"}]

AsWriting(command, stage, next, what) ==
  [command EXCEPT !.at = stage, !.id = next, !.what = what, !.result = "writing"]

\* The command as it has its request written.
LEMMA WritingRecord ==
  ASSUME NEW command \in Commands, NEW stage \in {"first", "second"}, NEW next \in Nat,
         NEW what \in {"read", "start", "turn", "resume", "interrupt"}
  PROVE  LET w == AsWriting(command, stage, next, what)
         IN  /\ w \in AtWork /\ w.at = stage /\ w.kind = command.kind /\ w.s = command.s
             /\ w.by = command.by /\ w.id = next /\ w.what = what /\ w.result = "writing"
<1> DEFINE one == [command EXCEPT !.at = stage]
           two == [one EXCEPT !.id = next]
           three == [two EXCEPT !.what = what]
           four == [three EXCEPT !.result = "writing"]
<1>1. one \in AtWork /\ one.at = stage /\ one.kind = command.kind /\ one.s = command.s
      /\ one.by = command.by
  BY DEF Commands, AtWork
<1> HIDE DEF one
<1>2. two \in AtWork /\ two.at = stage /\ two.kind = command.kind /\ two.s = command.s
      /\ two.by = command.by /\ two.id = next
  BY <1>1 DEF AtWork
<1> HIDE DEF two
<1>3. three \in AtWork /\ three.at = stage /\ three.kind = command.kind /\ three.s = command.s
      /\ three.by = command.by /\ three.id = next /\ three.what = what
  BY <1>2 DEF AtWork
<1> HIDE DEF three
<1>4. four \in AtWork /\ four.at = stage /\ four.kind = command.kind /\ four.s = command.s
      /\ four.by = command.by /\ four.id = next /\ four.what = what /\ four.result = "writing"
  BY <1>3 DEF AtWork
<1>5. four = AsWriting(command, stage, next, what)
  BY DEF three, two, one, AsWriting
<1> QED
  BY <1>4, <1>5, Zenon

\* A request that is noted and has to be written: it is the loop's, and Codex has no part in it.
LEMMA AskFacts ==
  ASSUME pending \subseteq Nat, lastId \in Nat, NEW command \in Commands,
         NEW stage \in {"first", "second"},
         NEW what \in {"read", "start", "turn", "resume", "interrupt"},
         Ask(command, stage, what)
  PROVE  /\ codex' = codex /\ pending' = pending \cup {lastId + 1} /\ pending' \subseteq Nat
         /\ lastId' = lastId + 1 /\ lastId' \in Nat
         /\ loop' \in AtWork /\ loop'.at = stage /\ loop'.kind = command.kind
         /\ loop'.s = command.s /\ loop'.by = command.by /\ loop'.id = lastId + 1
         /\ loop'.what = what /\ loop'.result = "writing"
<1>1. lastId + 1 \in Nat
  OBVIOUS
<1>2. /\ codex' = codex /\ pending' = pending \cup {lastId + 1} /\ lastId' = lastId + 1
      /\ loop' = AsWriting(command, stage, lastId + 1, what)
  BY DEF Ask, AsWriting
<1> QED
  BY <1>1, <1>2, WritingRecord

\* A process just started.
LEMMA FreshCodex ==
  ASSUME NEW n \in Nat, NEW alive \in BOOLEAN, NEW threads \in SUBSET Sessions
  PROVE  CodexOf([alive |-> alive, threads |-> threads, turn |-> [s \in Sessions |-> 0],
                  in |-> <<>>, out |-> <<>>], n)
BY DEF CodexOf, CodexType, InputOf, OutputOf

\* A working loop is the command it works on.
LEMMA BusyFacts ==
  ASSUME IInv, Working
  PROVE  loop \in AtWork /\ loop \in Commands /\ loop.by = commands /\ commands \in Nat \ {0}
         /\ loop.s \in Sessions
BY DEF IInv, LoopPart, OrderPart, Working, AtWork, Commands

\* The loop between commands.
LEMMA IdleFacts ==
  ASSUME IInv, ~Working
  PROVE  answered = 1..commands
BY DEF IInv, OrderPart

\* The loop begins to listen.
LEMMA SubscribeStep == IInv /\ Subscribe => IInv'
<1> SUFFICES ASSUME IInv, Subscribe PROVE IInv'
  OBVIOUS
<1>1. loop' = [at |-> "idle"] /\ loop.at = "starting" /\ deaf' \in BOOLEAN
      /\ UNCHANGED <<codex, reading, pending, events, allowed, commands, runs, lastId,
                     answered, told, blurred>>
  BY DEF Subscribe, Idle, IInv, ChannelPart
<1>2. ~Working /\ ~Working'
  BY <1>1 DEF Working
<1> QED
  BY <1>1, <1>2 DEF IInv, CodexPart, ChannelPart, LoopPart, OrderPart, QuietPart, Listening

\* A command is taken when all before it are answered.
LEMMA TakeCommandStep ==
  ASSUME IInv, NEW kind \in Kinds, NEW s \in Sessions, TakeCommand(kind, s)
  PROVE  IInv'
<1> DEFINE n == commands + 1
           command == Command(kind, s)
<1>1. /\ loop.at = "idle" /\ commands < MaxCommands /\ commands' = n
      /\ UNCHANGED <<reading, events, allowed, runs, answered, told, blurred, deaf>>
      /\ \E stage \in {"first", "second"}, what \in {"read", "start", "interrupt"} :
           Ask(command, stage, what)
  BY DEF TakeCommand, Kinds
<1>2. commands \in Nat /\ n \in Nat /\ n \in 0..MaxCommands /\ n - 1 = commands
  BY <1>1, BoundAssumption DEF IInv, LoopPart
<1>3. CodexOf(codex, n) /\ ChannelOf(events, n)
  BY <1>2, CodexLater, ChannelLater DEF IInv, CodexPart, ChannelPart
<1>4. command \in Commands /\ command.by = n
  BY <1>2 DEF Command, Commands
<1> HIDE DEF command
<1>5. PICK stage \in {"first", "second"}, what \in {"read", "start", "interrupt"} :
        Ask(command, stage, what)
  BY <1>1
<1>6. /\ CodexOf(codex', n) /\ pending' \subseteq Nat /\ lastId' \in Nat
      /\ loop' \in AtWork /\ loop'.by = n /\ loop'.at = stage
  <2> HIDE DEF n
  <2> QED
    BY <1>3, <1>4, <1>5, AskFacts DEF IInv, LoopPart
<1>7. answered = 1..commands
  BY <1>1, IdleFacts DEF Working
<1>8. OrderPart'
  <2>1. answered \subseteq 1..n
    BY <1>2, <1>7
  <2> QED
    BY <1>1, <1>2, <1>6, <1>7, <2>1 DEF IInv, OrderPart, Working
<1>9. CodexPart' /\ ChannelPart'
  BY <1>1, <1>3, <1>6 DEF CodexPart, ChannelPart, IInv
<1>10. LoopPart'
  BY <1>1, <1>2, <1>6 DEF LoopPart, IInv
<1>11. QuietPart'
  BY <1>6 DEF QuietPart, Listening
<1> QED
  BY <1>8, <1>9, <1>10, <1>11 DEF IInv

\* The answer to the command ends it.
LEMMA RespondOrder ==
  ASSUME IInv, Working, answered' = answered \cup {loop.by}, loop' = Idle,
         commands' = commands, told' = told
  PROVE  OrderPart' /\ loop' \in [at : {"idle"}]
<1>1. loop.by = commands /\ commands \in Nat \ {0}
  BY BusyFacts
<1>2. 1..(commands - 1) \subseteq answered /\ answered \subseteq 1..commands /\ told \subseteq answered
  BY DEF IInv, OrderPart
<1>3. answered' = 1..commands
  <2>1. 1..commands = (1..(commands - 1)) \cup {commands}
    BY <1>1
  <2> QED
    BY <1>1, <1>2, <2>1
<1>4. ~Working'
  BY DEF Working, Idle
<1> QED
  BY <1>2, <1>3, <1>4 DEF OrderPart, Idle

\* A refused command is answered.
LEMMA RefuseStep == IInv /\ Refuse => IInv'
<1> SUFFICES ASSUME IInv, Refuse PROVE IInv'
  OBVIOUS
<1>1. Working /\ answered' = answered \cup {loop.by} /\ loop' = Idle
      /\ UNCHANGED <<codex, reading, pending, events, commands, runs, lastId, told, blurred, deaf>>
      /\ allowed' \subseteq allowed \cup {loop.s}
  BY DEF Refuse, Respond, Working
<1>2. loop.s \in Sessions
  BY <1>1, BusyFacts
<1>3. OrderPart' /\ loop' \in [at : {"idle"}]
  BY <1>1, RespondOrder
<1> QED
  BY <1>1, <1>2, <1>3 DEF IInv, CodexPart, ChannelPart, LoopPart, QuietPart, Listening

\* The second request of a command.
LEMMA GoOnStep == IInv /\ GoOn => IInv'
<1> SUFFICES ASSUME IInv, GoOn PROVE IInv'
  OBVIOUS
<1>1. /\ Working /\ allowed' \subseteq allowed \cup {loop.s}
      /\ UNCHANGED <<reading, events, commands, runs, answered, told, blurred, deaf>>
      /\ \E what \in {"read", "turn", "resume"} : Ask(loop, "second", what)
  BY DEF GoOn, Working
<1>2. loop \in Commands /\ loop.by = commands /\ commands \in Nat /\ loop.s \in Sessions
  BY <1>1, BusyFacts
<1>3. PICK what \in {"read", "turn", "resume"} : Ask(loop, "second", what)
  BY <1>1
<1>4. /\ CodexOf(codex', commands) /\ pending' \subseteq Nat /\ lastId' \in Nat
      /\ loop' \in AtWork /\ loop'.by = commands /\ loop'.at = "second"
  BY <1>2, <1>3, AskFacts DEF IInv, CodexPart, LoopPart
<1>5. OrderPart'
  BY <1>1, <1>4 DEF IInv, OrderPart, Working
<1> QED
  BY <1>1, <1>2, <1>4, <1>5 DEF IInv, CodexPart, ChannelPart, LoopPart, QuietPart, Listening

\* A command is answered.
LEMMA FinishStep == IInv /\ Finish => IInv'
<1> SUFFICES ASSUME IInv, Finish PROVE IInv'
  OBVIOUS
<1>1. /\ Working /\ answered' = answered \cup {loop.by} /\ loop' = Idle
      /\ UNCHANGED <<codex, reading, pending, events, commands, runs, lastId, told, deaf>>
      /\ allowed' \subseteq allowed \cup {loop.s} /\ blurred' \subseteq blurred \cup {loop.s}
  BY DEF Finish, Respond, Working
<1>2. loop.s \in Sessions
  BY <1>1, BusyFacts
<1>3. OrderPart' /\ loop' \in [at : {"idle"}]
  BY <1>1, RespondOrder
<1> QED
  BY <1>1, <1>2, <1>3 DEF IInv, CodexPart, ChannelPart, LoopPart, QuietPart, Listening

\* A request whose time is over.
LEMMA TimeOutStep == IInv /\ TimeOut => IInv'
<1> SUFFICES ASSUME IInv, TimeOut PROVE IInv'
  OBVIOUS
<1>1. /\ Working /\ pending' \subseteq pending /\ loop' = [loop EXCEPT !.result = "failed"]
      /\ UNCHANGED <<codex, reading, events, allowed, commands, runs, lastId, answered,
                     told, blurred, deaf>>
  BY DEF TimeOut, Working
<1>2. loop' \in AtWork /\ loop'.by = loop.by /\ loop'.at = loop.at
  BY <1>1, BusyFacts DEF AtWork
<1> QED
  BY <1>1, <1>2 DEF IInv, CodexPart, ChannelPart, LoopPart, OrderPart, QuietPart, Working, Listening

\* The item that a request becomes in the pipe.
Item == [id |-> loop.id, what |-> loop.what, s |-> loop.s, by |-> loop.by]

\* A request is written.
LEMMA WrittenFacts ==
  ASSUME IInv, Write
  PROVE  /\ Working /\ loop \in AtWork /\ loop.by = commands /\ Item \in Asked
         /\ codex.alive /\ codex.in \in Seq(Asked)
         /\ codex' \in CodexType /\ codex'.in = Append(codex.in, Item) /\ codex'.out = codex.out
         /\ codex'.turn = codex.turn /\ codex'.alive = codex.alive
         /\ loop' \in AtWork /\ loop'.at = loop.at /\ loop'.kind = loop.kind /\ loop'.s = loop.s
         /\ loop'.by = loop.by /\ loop'.id = loop.id /\ loop'.what = loop.what
         /\ loop'.result = "none"
<1>1. /\ Working /\ codex.alive /\ codex' = [codex EXCEPT !.in = Append(@, Item)]
      /\ loop' = [loop EXCEPT !.result = "none"]
  BY DEF Write, Writing, Item
<1>2. loop \in AtWork /\ loop.by = commands
  BY <1>1, BusyFacts
<1>3. Item \in Asked
  BY <1>2 DEF Item, Asked, AtWork
<1>4. codex \in CodexType /\ codex.in \in Seq(Asked)
  BY DEF IInv, CodexPart, CodexOf, CodexType
<1>5. /\ codex' \in CodexType /\ codex'.in = Append(codex.in, Item) /\ codex'.out = codex.out
      /\ codex'.turn = codex.turn /\ codex'.alive = codex.alive
  <2>1. Append(codex.in, Item) \in Seq(Asked)
    BY <1>3, <1>4
  <2> QED
    BY <1>1, <1>4, <2>1 DEF CodexType
<1>6. /\ loop' \in AtWork /\ loop'.at = loop.at /\ loop'.kind = loop.kind /\ loop'.s = loop.s
      /\ loop'.by = loop.by /\ loop'.id = loop.id /\ loop'.what = loop.what
      /\ loop'.result = "none"
  BY <1>1, <1>2 DEF AtWork
<1> QED
  BY <1>1, <1>2, <1>3, <1>4, <1>5, <1>6

\* A request is written to the pipe.
LEMMA WriteStep == IInv /\ Write => IInv'
<1> SUFFICES ASSUME IInv, Write PROVE IInv'
  OBVIOUS
<1>1. /\ Working /\ loop \in AtWork /\ loop.by = commands /\ Item \in Asked
      /\ codex' \in CodexType /\ codex'.in = Append(codex.in, Item) /\ codex'.out = codex.out
      /\ codex'.turn = codex.turn
      /\ loop' \in AtWork /\ loop'.at = loop.at /\ loop'.by = loop.by
  BY WrittenFacts
<1>2. UNCHANGED <<reading, pending, events, allowed, shown, commands, runs, lastId, answered,
                  told, blurred, deaf>>
  BY DEF Write
<1>3. CodexPart'
  <2>1. codex.in \in Seq(Asked) /\ \A i \in DOMAIN codex.in : codex.in[i].by <= commands
    BY DEF IInv, CodexPart, CodexOf, InputOf
  <2>2. Item.by <= commands
    <3>1. Item.by = commands /\ commands \in Nat
      BY <1>1 DEF Item, IInv, LoopPart
    <3> QED
      BY <3>1
  <2>3. InputOf(Append(codex.in, Item), commands)
    BY <1>1, <2>1, <2>2, AppendFacts DEF InputOf
  <2> QED
    BY <1>1, <1>2, <2>3 DEF IInv, CodexPart, CodexOf
<1> QED
  BY <1>1, <1>2, <1>3 DEF IInv, ChannelPart, LoopPart, OrderPart, QuietPart, Working, Listening

\* A request that cannot be written has failed.
LEMMA WriteFailsStep == IInv /\ WriteFails => IInv'
<1> SUFFICES ASSUME IInv, WriteFails PROVE IInv'
  OBVIOUS
<1>1. /\ Working /\ pending' \subseteq pending /\ loop' = [loop EXCEPT !.result = "failed"]
      /\ UNCHANGED <<codex, reading, events, allowed, commands, runs, lastId, answered,
                     told, blurred, deaf>>
  BY DEF WriteFails, Writing
<1>2. loop' \in AtWork /\ loop'.by = loop.by /\ loop'.at = loop.at
  BY <1>1, BusyFacts DEF AtWork
<1> QED
  BY <1>1, <1>2 DEF IInv, CodexPart, ChannelPart, LoopPart, OrderPart, QuietPart, Working, Listening

\* An event is heard between commands: its command has been answered.
LEMMA TakeEventStep == IInv /\ TakeEvent => IInv'
<1> SUFFICES ASSUME IInv, TakeEvent PROVE IInv'
  OBVIOUS
<1>1. /\ loop.at = "idle" /\ events # <<>> /\ Head(events).is = "event" /\ events' = Tail(events)
      /\ told' \subseteq told \cup {Head(events).turn} /\ blurred' \subseteq blurred
      /\ UNCHANGED <<codex, reading, pending, loop, allowed, commands, runs, lastId, answered,
                     deaf>>
  BY DEF TakeEvent, BetweenCommands
<1>2. /\ events \in Seq(TurnEvents \cup {Gone}) /\ Len(events) <= Capacity /\ Capacity \in Nat
      /\ \A i \in DOMAIN events : events[i].is = "event" => events[i].turn <= commands
  BY SizeAssumption DEF IInv, ChannelPart, ChannelOf
<1>3. /\ events' \in Seq(TurnEvents \cup {Gone}) /\ Len(events') = Len(events) - 1
      /\ Head(events) \in TurnEvents \cup {Gone} /\ Head(events) = events[1] /\ 1 \in DOMAIN events
      /\ \A i \in DOMAIN events' : i + 1 \in DOMAIN events /\ events'[i] = events[i + 1]
  BY <1>1, <1>2, TailFacts
<1>4. ChannelOf(events', commands)
  BY <1>2, <1>3 DEF ChannelOf
<1>5. Len(events') <= Capacity
  BY <1>2, <1>3
<1>6. events \in Seq(TurnEvents) => events' \in Seq(TurnEvents)
  BY <1>1
<1>7. ChannelPart'
  BY <1>1, <1>4, <1>5, <1>6 DEF IInv, ChannelPart
<1>8. Head(events).turn \in 1..commands
  <2>1. Head(events) \in TurnEvents /\ Head(events).turn <= commands
    BY <1>1, <1>2, <1>3 DEF Gone
  <2> QED
    BY <2>1 DEF TurnEvents, IInv, LoopPart
<1>9. answered = 1..commands
  BY <1>1, IdleFacts DEF Working
<1> QED
  BY <1>1, <1>7, <1>8, <1>9 DEF IInv, CodexPart, LoopPart, OrderPart, QuietPart, Working, Listening

\* A run ends, however it does.
LEMMA OverStep ==
  ASSUME IInv, loop.at = "idle", NEW m, NEW b, b \subseteq Sessions, Over(m, b)
  PROVE  IInv'
<1>1. /\ loop' = [at |-> "over"] /\ blurred' = b /\ reading' = FALSE /\ pending' = {}
      /\ codex' = [Died(codex) EXCEPT !.out = <<>>] /\ events' = <<>>
      /\ UNCHANGED <<allowed, commands, runs, lastId, answered, told, deaf>>
  BY DEF Over
<1>2. codex' = [alive |-> FALSE, threads |-> codex.threads, turn |-> [s \in Sessions |-> 0],
                in |-> <<>>, out |-> <<>>]
      /\ codex.threads \in SUBSET Sessions
  BY <1>1 DEF Died, CodexType, IInv, CodexPart, CodexOf
<1>3. CodexPart'
  <2>1. CodexOf(codex', commands)
    <3>1. commands \in Nat
      BY DEF IInv, LoopPart
    <3> QED
      BY <1>2, <3>1, FreshCodex, Zenon
  <2> QED
    BY <1>1, <2>1 DEF CodexPart
<1>4. ChannelPart'
  <2>1. ChannelOf(<<>>, commands') /\ Len(<<>>) <= Capacity
    BY SizeAssumption DEF ChannelOf
  <2> QED
    BY <1>1, <2>1, SizeAssumption, Zenon DEF ChannelPart
<1>5. LoopPart' /\ OrderPart' /\ QuietPart'
  BY <1>1 DEF IInv, LoopPart, OrderPart, QuietPart, Working
<1> QED
  BY <1>3, <1>4, <1>5 DEF IInv

\* The next run has a process and a channel of its own.
LEMMA ReconnectStep == IInv /\ Reconnect => IInv'
<1> SUFFICES ASSUME IInv, Reconnect PROVE IInv'
  OBVIOUS
<1>1. /\ loop.at = "over" /\ runs < MaxRuns /\ runs' = runs + 1 /\ loop' = [at |-> "starting"]
      /\ allowed' = {} /\ reading' = TRUE /\ deaf' = FALSE
      /\ codex' = [Started EXCEPT !.threads = codex.threads]
      /\ UNCHANGED <<pending, events, commands, lastId, answered, told, blurred>>
  BY DEF Reconnect
<1>2. codex' = [alive |-> TRUE, threads |-> codex.threads, turn |-> [s \in Sessions |-> 0],
                in |-> <<>>, out |-> <<>>]
      /\ codex.threads \in SUBSET Sessions
  BY <1>1 DEF Started, CodexType, IInv, CodexPart, CodexOf
<1>3. CodexPart'
  <2>1. CodexOf(codex', commands)
    <3>1. commands \in Nat
      BY DEF IInv, LoopPart
    <3> QED
      BY <1>2, <3>1, FreshCodex, Zenon
  <2> QED
    BY <1>1, <2>1 DEF CodexPart
<1>4. events = <<>> /\ events' = <<>>
  BY <1>1 DEF IInv, QuietPart, Listening
<1>5. ChannelPart' /\ QuietPart'
  BY <1>1, <1>4 DEF IInv, ChannelPart, QuietPart
<1>6. LoopPart'
  <2>1. runs + 1 \in 1..MaxRuns
    BY <1>1, BoundAssumption DEF IInv, LoopPart
  <2> QED
    BY <1>1, <2>1 DEF IInv, LoopPart
<1> QED
  BY <1>1, <1>3, <1>5, <1>6 DEF IInv, OrderPart, Working

-----------------------------------------------------------------------------
(* The steps of the reader and of Codex. *)

\* An answer reaches the command that waits for it, and nothing else of the loop changes.
LEMMA ResolvedFacts ==
  ASSUME IInv, NEW ok \in BOOLEAN
  PROVE  /\ Resolved(ok) \in [at : {"starting", "idle", "over"}] \cup AtWork
         /\ Resolved(ok).at = loop.at
         /\ Working => Resolved(ok).by = loop.by
<1>1. CASE Working /\ loop.result = "none" /\ loop.id \in pending
  <2>1. Resolved(ok) = [loop EXCEPT !.result = IF ok THEN "ok" ELSE "failed"]
    BY <1>1 DEF Resolved, Working
  <2>2. loop \in AtWork
    BY <1>1, BusyFacts
  <2> QED
    BY <2>1, <2>2 DEF AtWork
<1>2. CASE ~(Working /\ loop.result = "none" /\ loop.id \in pending)
  BY <1>2 DEF Resolved, Working, IInv, LoopPart
<1> QED
  BY <1>1, <1>2

\* A step that leaves the loop where it is keeps its part and the order of answers.
LEMMA SameLoop ==
  ASSUME IInv, loop' \in [at : {"starting", "idle", "over"}] \cup AtWork,
         loop'.at = loop.at, Working => loop'.by = loop.by,
         pending' \subseteq pending, allowed' = allowed, commands' = commands, runs' = runs,
         lastId' = lastId, answered' = answered, told' = told, deaf' = deaf
  PROVE  LoopPart' /\ OrderPart'
BY DEF IInv, LoopPart, OrderPart, Working

\* The reader resolves a request or passes an event on.
LEMMA ReadStep == IInv /\ Read => IInv'
<1> SUFFICES ASSUME IInv, Read PROVE IInv'
  OBVIOUS
<1> DEFINE item == Head(codex.out)
<1>1. /\ reading /\ codex.out # <<>> /\ codex' = [codex EXCEPT !.out = Tail(@)]
      /\ UNCHANGED <<reading, allowed, shown, commands, runs, lastId, answered, told, deaf>>
      /\ \/ item.is = "event" /\ Send(item) /\ UNCHANGED <<loop, pending>>
         \/ /\ item.is # "event" /\ pending' \subseteq pending /\ UNCHANGED <<events, blurred>>
            /\ loop' = loop \/ loop' = Resolved(item.ok)
  BY DEF Read
<1>2. /\ codex \in CodexType /\ codex.out \in Seq(Answers \cup TurnEvents) /\ InputOf(codex.in, commands)
      /\ \A s \in Sessions : codex.turn[s] <= commands
      /\ \A i \in DOMAIN codex.out : codex.out[i].is = "event" => codex.out[i].turn <= commands
  BY DEF IInv, CodexPart, CodexOf, OutputOf
<1>3. /\ Tail(codex.out) \in Seq(Answers \cup TurnEvents)
      /\ item \in Answers \cup TurnEvents /\ item = codex.out[1] /\ 1 \in DOMAIN codex.out
      /\ \A i \in DOMAIN Tail(codex.out) :
           i + 1 \in DOMAIN codex.out /\ Tail(codex.out)[i] = codex.out[i + 1]
  BY <1>1, <1>2, TailFacts
<1>4. OutputOf(Tail(codex.out), commands)
  BY <1>2, <1>3 DEF OutputOf
<1>5. /\ codex' \in CodexType /\ codex'.out = Tail(codex.out)
      /\ codex'.in = codex.in /\ codex'.turn = codex.turn
  BY <1>1, <1>2, <1>3 DEF CodexType
<1>6. CodexPart'
  BY <1>1, <1>2, <1>4, <1>5 DEF CodexPart, CodexOf
<1> HIDE DEF item
<1>7. CASE item.is = "event"
  <2>1. item \in TurnEvents /\ item.turn <= commands
    BY <1>2, <1>3, <1>7 DEF Answers
  <2>2. Send(item) /\ loop' = loop /\ pending' = pending
    BY <1>1, <1>7
  <2>3. commands \in Nat
    BY DEF IInv, LoopPart
  <2>4. /\ ChannelOf(events', commands) /\ Len(events') <= Capacity
        /\ events' \in Seq(TurnEvents) /\ blurred' \subseteq Sessions
    BY <1>1, <2>1, <2>2, <2>3, SendFacts DEF IInv
  <2>5. ChannelPart'
    BY <1>1, <2>4 DEF IInv, ChannelPart
  <2>6. LoopPart' /\ OrderPart'
    BY <1>1, <2>2, SameLoop DEF IInv, LoopPart
  <2>7. QuietPart'
    BY <2>2 DEF Send, QuietPart, Listening, IInv
  <2> QED
    BY <1>6, <2>5, <2>6, <2>7 DEF IInv
<1>8. CASE item.is # "event"
  <2>1. item.ok \in BOOLEAN
    BY <1>3, <1>8 DEF Answers, TurnEvents
  <2>2. /\ loop' \in [at : {"starting", "idle", "over"}] \cup AtWork
        /\ loop'.at = loop.at
        /\ Working => loop'.by = loop.by
    BY <1>1, <1>8, <2>1, ResolvedFacts DEF IInv, LoopPart
  <2>9. /\ pending' \subseteq pending /\ allowed' = allowed /\ commands' = commands /\ runs' = runs
        /\ lastId' = lastId /\ answered' = answered /\ told' = told /\ deaf' = deaf
    BY <1>1, <1>8
  <2>3. LoopPart' /\ OrderPart'
    BY <2>2, <2>9, SameLoop
  <2>4. ChannelPart'
    BY <1>1, <1>8 DEF IInv, ChannelPart
  <2>5. QuietPart'
    BY <1>1, <1>8, <2>2 DEF IInv, QuietPart, Listening
  <2> QED
    BY <1>6, <2>3, <2>4, <2>5 DEF IInv
<1> QED
  BY <1>7, <1>8

\* The reader sees the end of the output.
LEMMA ReadEndStep == IInv /\ ReadEnd => IInv'
<1> SUFFICES ASSUME IInv, ReadEnd PROVE IInv'
  OBVIOUS
<1>1. /\ reading /\ reading' = FALSE /\ loop' = Resolved(FALSE) /\ pending' = {} /\ Send(Gone)
      /\ UNCHANGED <<codex, allowed, shown, commands, runs, lastId, answered, told, deaf>>
  BY DEF ReadEnd
<1>2. /\ loop' \in [at : {"starting", "idle", "over"}] \cup AtWork
      /\ loop'.at = loop.at
      /\ Working => loop'.by = loop.by
  BY <1>1, ResolvedFacts
<1>3. LoopPart' /\ OrderPart'
  BY <1>1, <1>2, SameLoop
<1>4. /\ ChannelOf(events', commands) /\ Len(events') <= Capacity /\ blurred' \subseteq Sessions
  <2>1. commands \in Nat /\ Gone.is = "gone"
    BY DEF IInv, LoopPart, Gone
  <2> QED
    BY <1>1, <2>1, SendFacts DEF IInv
<1>5. ChannelPart'
  BY <1>1, <1>4 DEF ChannelPart
<1>6. QuietPart'
  <2>1. ~Listening => events' = events
    BY <1>1 DEF Send
  <2> QED
    BY <1>2, <2>1 DEF QuietPart, Listening, IInv
<1> QED
  BY <1>1, <1>3, <1>5, <1>6 DEF IInv, CodexPart

\* What Codex does changes Codex only.
LEMMA DoesStep ==
  ASSUME IInv, NEW c, CodexOf(c, commands), Does(c)
  PROVE  IInv'
<1>1. /\ codex' = c
      /\ UNCHANGED <<reading, pending, events, loop, allowed, commands, runs, lastId,
                     answered, told, blurred, deaf>>
  BY DEF Does
<1> QED
  BY <1>1 DEF IInv, CodexPart, ChannelPart, LoopPart, OrderPart, QuietPart, Working, Listening

\* Codex writes to its output.
LEMMA SaysFacts ==
  ASSUME NEW n \in Nat, NEW c, CodexOf(c, n), NEW items, OutputOf(items, n)
  PROVE  CodexOf(Says(c, items), n)
<1>1. /\ c \in CodexType /\ c.out \in Seq(Answers \cup TurnEvents)
      /\ items \in Seq(Answers \cup TurnEvents)
      /\ \A i \in DOMAIN c.out : c.out[i].is = "event" => c.out[i].turn <= n
      /\ \A i \in DOMAIN items : items[i].is = "event" => items[i].turn <= n
  BY DEF CodexOf, OutputOf
<1>2. OutputOf(c.out \o items, n)
  BY <1>1, ConcatFacts DEF OutputOf
<1>3. /\ Says(c, items) \in CodexType /\ Says(c, items).out = c.out \o items
      /\ Says(c, items).in = c.in /\ Says(c, items).turn = c.turn
  <2>1. c.out \o items \in Seq(Answers \cup TurnEvents)
    BY <1>2 DEF OutputOf
  <2> QED
    BY <1>1, <2>1 DEF Says, CodexType
<1> QED
  BY <1>2, <1>3 DEF CodexOf

\* What it writes, in the terms of the invariant.
LEMMA SaidFacts ==
  ASSUME NEW n \in Nat
  PROVE  /\ \A id \in Nat, ok \in BOOLEAN : OutputOf(<<Answer(id, ok)>>, n)
         /\ \A what \in {"started", "reasoning", "completed", "interrupted"}, s \in Sessions,
               turn \in 1..n :
              /\ OutputOf(<<Event(what, s, turn)>>, n)
              /\ \A id \in Nat, ok \in BOOLEAN :
                   /\ OutputOf(<<Answer(id, ok), Event(what, s, turn)>>, n)
                   /\ OutputOf(<<Event(what, s, turn), Answer(id, ok)>>, n)
<1>1. \A id \in Nat, ok \in BOOLEAN : Answer(id, ok) \in Answers /\ Answer(id, ok).is = "answer"
  BY DEF Answer, Answers
<1>2. \A what \in {"started", "reasoning", "completed", "interrupted"}, s \in Sessions, turn \in 1..n :
        Event(what, s, turn) \in TurnEvents /\ Event(what, s, turn).turn <= n
  BY DEF Event, TurnEvents
<1> QED
  BY <1>1, <1>2 DEF OutputOf

\* The request at the head of the input.
LEMMA ServedFacts ==
  ASSUME IInv, codex.in # <<>>
  PROVE  /\ commands \in Nat /\ Head(codex.in) \in Asked /\ Head(codex.in).by \in 1..commands
         /\ CodexOf(Served, commands) /\ Served.turn = codex.turn
<1>1. /\ codex \in CodexType /\ codex.in \in Seq(Asked) /\ OutputOf(codex.out, commands)
      /\ \A i \in DOMAIN codex.in : codex.in[i].by <= commands
      /\ \A s \in Sessions : codex.turn[s] <= commands
  BY DEF IInv, CodexPart, CodexOf, InputOf
<1>2. commands \in Nat
  BY DEF IInv, LoopPart
<1>3. /\ Tail(codex.in) \in Seq(Asked) /\ Head(codex.in) \in Asked /\ Head(codex.in) = codex.in[1]
      /\ 1 \in DOMAIN codex.in
      /\ \A i \in DOMAIN Tail(codex.in) : i + 1 \in DOMAIN codex.in /\ Tail(codex.in)[i] = codex.in[i + 1]
  BY <1>1, TailFacts
<1>4. Head(codex.in).by \in 1..commands
  <2>1. Head(codex.in).by \in Nat \ {0} /\ Head(codex.in).by <= commands
    BY <1>1, <1>3 DEF Asked
  <2> QED
    BY <1>2, <2>1
<1>5. InputOf(Tail(codex.in), commands)
  BY <1>1, <1>3 DEF InputOf
<1>6. /\ Served \in CodexType /\ Served.in = Tail(codex.in)
      /\ Served.out = codex.out /\ Served.turn = codex.turn
  BY <1>1, <1>3 DEF Served, CodexType
<1>7. CodexOf(Served, commands)
  BY <1>1, <1>5, <1>6 DEF CodexOf
<1> QED
  BY <1>2, <1>3, <1>4, <1>6, <1>7

\* A session's turn begins or ends.
LEMMA TurnFacts ==
  ASSUME NEW n \in Nat, NEW c, CodexOf(c, n), NEW s \in Sessions, NEW turn \in 0..n
  PROVE  CodexOf([c EXCEPT !.turn[s] = turn], n)
<1> DEFINE d == [c EXCEPT !.turn[s] = turn]
<1>1. /\ c \in CodexType /\ c.turn \in [Sessions -> Nat] /\ \A x \in Sessions : c.turn[x] <= n
      /\ InputOf(c.in, n) /\ OutputOf(c.out, n)
  BY DEF CodexOf, CodexType
<1>2. d \in CodexType /\ d.turn = [c.turn EXCEPT ![s] = turn] /\ d.in = c.in /\ d.out = c.out
  <2>1. turn \in Nat /\ [c.turn EXCEPT ![s] = turn] \in [Sessions -> Nat]
    BY <1>1
  <2>2. d = [c EXCEPT !.turn = [c.turn EXCEPT ![s] = turn]]
    OBVIOUS
  <2> HIDE DEF d
  <2> QED
    BY <1>1, <2>1, <2>2 DEF CodexType
<1>3. \A x \in Sessions : d.turn[x] <= n
  BY <1>1, <1>2
<1> QED
  BY <1>1, <1>2, <1>3 DEF CodexOf

\* Codex takes a request.
LEMMA ServeStep == IInv /\ Serve => IInv'
<1> SUFFICES ASSUME IInv, Serve PROVE IInv'
  OBVIOUS
<1> DEFINE r == Head(codex.in)
           yes == Answer(r.id, TRUE)
           begun == Event("started", r.s, r.by)
           ended == Event("interrupted", r.s, codex.turn[r.s])
<1>1. /\ commands \in Nat /\ r \in Asked /\ r.by \in 1..commands
      /\ CodexOf(Served, commands) /\ Served.turn = codex.turn
  BY ServedFacts DEF Serve
<1>2. r.s \in Sessions /\ r.id \in Nat /\ r.by \in 0..commands
  BY <1>1 DEF Asked
<1>3. codex.turn[r.s] \in 0..commands
  BY <1>1, <1>2 DEF IInv, CodexPart, CodexOf, CodexType
<1>4. \/ Does(Says(Served, <<Answer(r.id, FALSE)>>))
      \/ Does(Says(Served, <<yes>>))
      \/ r.what = "start" /\ Does(Says([Served EXCEPT !.threads = @ \cup {r.s}], <<yes>>))
      \/ \E items \in {<<yes, begun>>, <<begun, yes>>} :
           Does(Says([Served EXCEPT !.turn[r.s] = r.by], items))
      \/ Does(Says([Served EXCEPT !.turn[r.s] = 0],
                   IF codex.turn[r.s] = 0 THEN <<yes>> ELSE <<yes, ended>>))
  BY DEF Serve
<1>5. /\ OutputOf(<<yes>>, commands) /\ OutputOf(<<Answer(r.id, FALSE)>>, commands)
      /\ OutputOf(<<yes, begun>>, commands) /\ OutputOf(<<begun, yes>>, commands)
      /\ codex.turn[r.s] # 0 => OutputOf(<<yes, ended>>, commands)
  <2>1. codex.turn[r.s] # 0 => codex.turn[r.s] \in 1..commands
    BY <1>1, <1>3
  <2> HIDE DEF r
  <2> QED
    BY <1>1, <1>2, <2>1, SaidFacts
<1> HIDE DEF r, yes, begun, ended
<1>6. CASE \/ Does(Says(Served, <<Answer(r.id, FALSE)>>))
           \/ Does(Says(Served, <<yes>>))
  BY <1>1, <1>5, <1>6, SaysFacts, DoesStep
<1>7. CASE Does(Says([Served EXCEPT !.threads = @ \cup {r.s}], <<yes>>))
  <2> DEFINE c == [Served EXCEPT !.threads = @ \cup {r.s}]
  <2>1. CodexOf(c, commands)
    BY <1>1, <1>2 DEF CodexOf, CodexType
  <2> HIDE DEF c
  <2>2. Does(Says(c, <<yes>>))
    BY <1>7 DEF c
  <2> QED
    BY <1>1, <1>5, <2>1, <2>2, SaysFacts, DoesStep
<1>8. CASE \E items \in {<<yes, begun>>, <<begun, yes>>} :
             Does(Says([Served EXCEPT !.turn[r.s] = r.by], items))
  <2> DEFINE c == [Served EXCEPT !.turn[r.s] = r.by]
  <2>1. CodexOf(c, commands)
    BY <1>1, <1>2, TurnFacts
  <2> HIDE DEF c
  <2>2. PICK items \in {<<yes, begun>>, <<begun, yes>>} : Does(Says(c, items))
    BY <1>8 DEF c
  <2> QED
    BY <1>1, <1>5, <2>1, <2>2, SaysFacts, DoesStep
<1>9. CASE Does(Says([Served EXCEPT !.turn[r.s] = 0],
                     IF codex.turn[r.s] = 0 THEN <<yes>> ELSE <<yes, ended>>))
  <2> DEFINE c     == [Served EXCEPT !.turn[r.s] = 0]
             items == IF codex.turn[r.s] = 0 THEN <<yes>> ELSE <<yes, ended>>
  <2>1. CodexOf(c, commands)
    BY <1>1, <1>2, TurnFacts
  <2>2. OutputOf(items, commands)
    BY <1>5
  <2> HIDE DEF c, items
  <2>3. Does(Says(c, items))
    BY <1>9 DEF c, items
  <2> QED
    BY <1>1, <2>1, <2>2, <2>3, SaysFacts, DoesStep
<1> QED
  BY <1>4, <1>6, <1>7, <1>8, <1>9

\* Codex speaks in a turn.
LEMMA TurnStep ==
  ASSUME IInv, NEW s \in Sessions, Completes(s) \/ Reasons(s)
  PROVE  IInv'
<1>1. /\ commands \in Nat /\ CodexOf(codex, commands) /\ codex.turn[s] \in 1..commands
  BY DEF Completes, Reasons, IInv, CodexPart, CodexOf, CodexType, LoopPart
<1>2. /\ OutputOf(<<Event("completed", s, codex.turn[s])>>, commands)
      /\ OutputOf(<<Event("reasoning", s, codex.turn[s])>>, commands)
  BY <1>1, SaidFacts
<1>3. CASE Completes(s)
  <2>1. CodexOf([codex EXCEPT !.turn[s] = 0], commands)
    BY <1>1, TurnFacts
  <2>2. Does(Says([codex EXCEPT !.turn[s] = 0], <<Event("completed", s, codex.turn[s])>>))
    BY <1>3 DEF Completes
  <2> QED
    BY <1>1, <1>2, <2>1, <2>2, SaysFacts, DoesStep
<1>4. CASE Reasons(s)
  <2>1. Does(Says(codex, <<Event("reasoning", s, codex.turn[s])>>))
    BY <1>4 DEF Reasons
  <2> QED
    BY <1>1, <1>2, <2>1, SaysFacts, DoesStep
<1> QED
  BY <1>3, <1>4

\* The process ends.
LEMMA DiesStep == IInv /\ Dies => IInv'
<1> SUFFICES ASSUME IInv, Dies PROVE IInv'
  OBVIOUS
<1>1. Does(Died(codex))
  BY DEF Dies
<1>2. /\ Died(codex) \in CodexType /\ Died(codex).in = <<>> /\ Died(codex).out = codex.out
      /\ Died(codex).turn = [s \in Sessions |-> 0]
  <2>1. codex \in CodexType /\ <<>> \in Seq(Asked) /\ [s \in Sessions |-> 0] \in [Sessions -> Nat]
    BY DEF IInv, CodexPart, CodexOf
  <2> DEFINE one == [codex EXCEPT !.alive = FALSE]
             two == [one EXCEPT !.turn = [s \in Sessions |-> 0]]
  <2>2. one \in CodexType /\ one.out = codex.out
    BY <2>1 DEF CodexType
  <2> HIDE DEF one
  <2>3. two \in CodexType /\ two.out = codex.out /\ two.turn = [s \in Sessions |-> 0]
    BY <2>1, <2>2 DEF CodexType
  <2> HIDE DEF two
  <2>4. Died(codex) = [two EXCEPT !.in = <<>>]
    BY DEF Died, one, two
  <2> QED
    BY <2>1, <2>3, <2>4 DEF CodexType
<1>3. commands \in Nat /\ OutputOf(codex.out, commands)
  BY DEF IInv, LoopPart, CodexPart, CodexOf
<1>4. InputOf(<<>>, commands)
  BY DEF InputOf
<1>5. CodexOf(Died(codex), commands)
  BY <1>2, <1>3, <1>4 DEF CodexOf
<1> QED
  BY <1>1, <1>5, DoesStep

-----------------------------------------------------------------------------
(* The theorems. *)

\* The first run.
LEMMA SessionsInit == Init => IInv
<1> SUFFICES ASSUME Init PROVE IInv
  OBVIOUS
<1>1. 0 \in Nat /\ 0 \in 0..MaxCommands /\ 1 \in 1..MaxRuns /\ Capacity \in Nat
  BY BoundAssumption, SizeAssumption
<1>2. CodexPart
  <2>1. CodexOf(codex, 0)
    BY KnownAssumption, FreshCodex DEF Init, Started
  <2> QED
    BY <2>1 DEF CodexPart, Init
<1>3. ChannelPart /\ QuietPart
  BY <1>1 DEF Init, ChannelPart, ChannelOf, QuietPart
<1>4. LoopPart
  BY <1>1 DEF Init, LoopPart
<1>5. OrderPart
  <2>1. 1..0 = {}
    OBVIOUS
  <2> QED
    BY <2>1 DEF Init, OrderPart, Working
<1> QED
  BY <1>2, <1>3, <1>4, <1>5 DEF IInv

\* Every step keeps the invariant.
LEMMA SessionsStep == IInv /\ [Next]_vars => IInv'
<1> SUFFICES ASSUME IInv, [Next]_vars PROVE IInv'
  OBVIOUS
<1>1. CASE Subscribe \/ Write \/ WriteFails \/ Refuse \/ GoOn \/ Finish \/ TimeOut \/ TakeEvent
  BY <1>1, SubscribeStep, WriteStep, WriteFailsStep, RefuseStep, GoOnStep, FinishStep, TimeOutStep,
     TakeEventStep
<1>2. ASSUME NEW kind \in Kinds, NEW s \in Sessions, TakeCommand(kind, s) PROVE IInv'
  BY <1>2, TakeCommandStep
<1>3. CASE CodexLeft \/ Closed \/ SendFails
  <2>1. ActiveIn(shown) \subseteq Sessions
    BY DEF ActiveIn
  <2> QED
    BY <1>3, <2>1, OverStep DEF CodexLeft, Closed, SendFails
<1>4. CASE Reconnect \/ Read \/ ReadEnd \/ Serve \/ Dies
  BY <1>4, ReconnectStep, ReadStep, ReadEndStep, ServeStep, DiesStep
<1>5. ASSUME NEW s \in Sessions, Completes(s) \/ Reasons(s) PROVE IInv'
  BY <1>5, TurnStep
<1>6. CASE UNCHANGED vars
  BY <1>6 DEF vars, IInv, CodexPart, ChannelPart, LoopPart, OrderPart, QuietPart, Working, Listening
<1> QED
  BY <1>1, <1>2, <1>3, <1>4, <1>5, <1>6 DEF Next

\* It holds at all times.
LEMMA SessionsAlways == Spec => []IInv
<1> QED
  BY SessionsInit, SessionsStep, PTL DEF Spec

\* The variables keep their types; the channel never holds more than its capacity.
THEOREM SessionsTypeCorrect == Spec => []TypeOK
<1>1. IInv => TypeOK
  BY DEF IInv, CodexPart, CodexOf, CodexType, InputOf, OutputOf, ChannelPart, ChannelOf,
         LoopPart, OrderPart, TypeOK
<1> QED
  BY <1>1, SessionsAlways, PTL

\* The phone hears of a turn only after the input that began it was answered.
THEOREM EventsAfterAnswerAlways == Spec => []EventsAfterAnswer
<1>1. IInv => EventsAfterAnswer
  BY DEF IInv, OrderPart, EventsAfterAnswer
<1> QED
  BY <1>1, SessionsAlways, PTL

-----------------------------------------------------------------------------
(* What the monitor shows.                                                   *)

Statuses == {"waiting", "running", "ready", "completed", "stopped", "disconnected"}
Shown == [s : Sessions, status : Statuses]

\* Messages about a session, and what the last of them says: that a turn runs, or none.
About(x, s) == x.is = "event" /\ x.s = s
Of(q, s) == \E i \in DOMAIN q : About(q[i], s)
Lively(x) == x.what \in {"started", "reasoning"}
Ends(q, s, running) ==
  \A i \in DOMAIN q :
    About(q[i], s) /\ (\A k \in DOMAIN q : k > i => ~About(q[k], s)) => (Lively(q[i]) <=> running)
HasAnswer(q, id) == \E i \in DOMAIN q : q[i].is = "answer" /\ q[i].id = id
HasYes(q, id) == \E i \in DOMAIN q : q[i].is = "answer" /\ q[i].id = id /\ q[i].ok

TurnRuns(s) == codex.turn[s] # 0
InputStage == loop.at = "second" /\ loop.kind = "input"

\* The monitor lists every session once.
Once(m) == \A i, k \in DOMAIN m : m[i].s = m[k].s => i = k
ListPart == shown \in Seq(Shown) /\ Once(shown)

\* The loop has a request that may still get an answer.
Waits == Working /\ loop.result \in {"writing", "none"}

\* Ids are used once, and one request waits at most.
IdPart ==
  /\ \A i \in DOMAIN codex.in : codex.in[i].id <= lastId
  /\ \A id \in Nat : HasAnswer(codex.out, id) => id <= lastId
  /\ pending \subseteq (IF Waits THEN {loop.id} ELSE {})

\* A request that is not written yet is known to the loop only; what it asks for is decided.
UnwrittenPart ==
  Writing =>
    /\ loop.id <= lastId
    /\ \A i \in DOMAIN codex.in : codex.in[i].id # loop.id
    /\ ~HasAnswer(codex.out, loop.id)
    /\ loop.what = "turn" => loop.s \in allowed
    /\ InputStage => loop.what = "turn"

\* The request of an input is that for a turn; its session was made to wait.
InputPart ==
  InputStage =>
    /\ \A i \in DOMAIN codex.in :
         codex.in[i].id = loop.id => codex.in[i].what = "turn" /\ codex.in[i].s = loop.s
    /\ \A i \in DOMAIN shown : shown[i].s = loop.s => shown[i].status = "waiting"

\* Turns run in allowed sessions only.
AllowedPart ==
  codex.alive => \A s \in Sessions :
    \/ s \in allowed
    \/ /\ ~TurnRuns(s) /\ ~Of(codex.out, s) /\ ~Of(events, s)
       /\ \A i \in DOMAIN codex.in : codex.in[i].s = s => codex.in[i].what # "turn"

\* The last message under way about a session says whether its turn runs.
LastPart ==
  codex.alive => \A s \in Sessions :
    /\ Ends(codex.out, s, TurnRuns(s))
    /\ ~Of(codex.out, s) => Ends(events, s, TurnRuns(s))

\* The input in hand has not been accepted, as far as is known.
Unserved(s) ==
  InputStage /\ loop.s = s /\ loop.result # "ok" /\ ~HasYes(codex.out, loop.id)

\* When nothing about it is under way, what is shown of a session is right.
RightPart ==
  codex.alive => \A i \in DOMAIN shown :
    LET s == shown[i].s
    IN  s \notin blurred /\ ~Of(codex.out, s) /\ ~Of(events, s) =>
          (shown[i].status \in Active <=> TurnRuns(s)) \/ Unserved(s)

\* Between runs, and at the beginning of one.
BetweenPart ==
  /\ loop.at = "over" => /\ ~codex.alive
                         /\ \A i \in DOMAIN shown : shown[i].s \notin blurred => shown[i].status \notin Active
  /\ loop.at = "starting" => codex.in = <<>> /\ codex.out = <<>> /\ \A s \in Sessions : ~TurnRuns(s)

ShownPart ==
  /\ ListPart /\ IdPart /\ UnwrittenPart /\ InputPart /\ AllowedPart
  /\ LastPart /\ RightPart /\ BetweenPart

SInv == IInv /\ ShownPart

(* Queues of messages. *)

\* A message at the end of a queue.
LEMMA AppendIs ==
  ASSUME NEW S, NEW q \in Seq(S), NEW x
  PROVE  /\ Append(q, x) \in Seq(S \cup {x}) /\ Len(q) \in Nat /\ DOMAIN q = 1..Len(q)
         /\ DOMAIN Append(q, x) = 1..Len(q) + 1
         /\ \A i \in 1..Len(q) : Append(q, x)[i] = q[i]
         /\ Append(q, x)[Len(q) + 1] = x
OBVIOUS

\* An answer says nothing about a session.
LEMMA AnswerLast ==
  ASSUME NEW S, NEW q \in Seq(S), NEW x, x.is # "event", NEW s, NEW b
  PROVE  /\ Of(Append(q, x), s) <=> Of(q, s)
         /\ Ends(Append(q, x), s, b) <=> Ends(q, s, b)
<1> DEFINE r == Append(q, x)
           n == Len(q)
<1>1. /\ n \in Nat /\ DOMAIN q = 1..n /\ DOMAIN r = 1..n + 1
      /\ \A i \in 1..n : r[i] = q[i]
      /\ r[n + 1] = x
  BY AppendIs
<1>2. ~About(r[n + 1], s)
  BY <1>1 DEF About
<1> HIDE DEF r, n
<1>3. /\ \A i \in 1..n : i \in 1..n + 1 /\ i # n + 1
      /\ \A i \in 1..n + 1 : i = n + 1 \/ i \in 1..n
  BY <1>1
<1>4. Of(r, s) <=> Of(q, s)
  BY <1>1, <1>2, <1>3 DEF Of
<1>5. Ends(r, s, b) <=> Ends(q, s, b)
  <2>1. \A i \in 1..n : (\A k \in DOMAIN r : k > i => ~About(r[k], s))
                       <=> (\A k \in DOMAIN q : k > i => ~About(q[k], s))
    BY <1>1, <1>2, <1>3
  <2> QED
    BY <1>1, <1>2, <1>3, <2>1 DEF Ends
<1> QED
  BY <1>4, <1>5 DEF r

\* An event is the last word about its session.
LEMMA EventLast ==
  ASSUME NEW S, NEW q \in Seq(S), NEW x, x.is = "event"
  PROVE  /\ Of(Append(q, x), x.s)
         /\ \A s : s # x.s => (Of(Append(q, x), s) <=> Of(q, s))
         /\ \A b : (Lively(x) <=> b) => Ends(Append(q, x), x.s, b)
         /\ \A s, b : s # x.s => (Ends(Append(q, x), s, b) <=> Ends(q, s, b))
<1> DEFINE r == Append(q, x)
           n == Len(q)
<1>1. /\ n \in Nat /\ DOMAIN q = 1..n /\ DOMAIN r = 1..n + 1
      /\ \A i \in 1..n : r[i] = q[i]
      /\ r[n + 1] = x
  BY AppendIs
<1>2. \A s : About(r[n + 1], s) <=> s = x.s
  BY <1>1 DEF About
<1> HIDE DEF r, n
<1>3. /\ \A i \in 1..n : i \in 1..n + 1 /\ i # n + 1 /\ n + 1 > i
      /\ \A i \in 1..n + 1 : i = n + 1 \/ i \in 1..n
      /\ n + 1 \in 1..n + 1 /\ \A i \in 1..n + 1 : ~(i > n + 1)
  BY <1>1
<1>4. Of(r, x.s) /\ \A s : s # x.s => (Of(r, s) <=> Of(q, s))
  BY <1>1, <1>2, <1>3 DEF Of
<1>5. ASSUME NEW b, Lively(x) <=> b
      PROVE  Ends(r, x.s, b)
  BY <1>1, <1>2, <1>3, <1>5 DEF Ends
<1>6. ASSUME NEW s, NEW b, s # x.s
      PROVE  Ends(r, s, b) <=> Ends(q, s, b)
  <2>1. \A i \in 1..n : (\A k \in DOMAIN r : k > i => ~About(r[k], s))
                       <=> (\A k \in DOMAIN q : k > i => ~About(q[k], s))
    BY <1>1, <1>2, <1>3, <1>6
  <2> QED
    BY <1>1, <1>2, <1>3, <1>6, <2>1 DEF Ends
<1> QED
  BY <1>4, <1>5, <1>6 DEF r

\* A message is taken from the head of a queue.
LEMMA HeadTaken ==
  ASSUME NEW S, NEW q \in Seq(S), q # <<>>, NEW s, NEW b
  PROVE  /\ Of(q, s) <=> About(Head(q), s) \/ Of(Tail(q), s)
         /\ Ends(q, s, b) => Ends(Tail(q), s, b)
         /\ Ends(q, s, b) /\ About(Head(q), s) /\ ~Of(Tail(q), s) => (Lively(Head(q)) <=> b)
         /\ ~Of(q, s) => Ends(q, s, b)
<1> DEFINE r == Tail(q)
           n == Len(q)
<1>1. /\ n \in Nat \ {0} /\ DOMAIN q = 1..n /\ DOMAIN r = 1..n - 1 /\ Head(q) = q[1]
      /\ \A i \in 1..n - 1 : r[i] = q[i + 1]
  OBVIOUS
<1> HIDE DEF r, n
<1>2. /\ \A i \in 1..n - 1 : i + 1 \in 1..n
      /\ \A i \in 1..n : i = 1 \/ (i - 1 \in 1..n - 1 /\ i - 1 + 1 = i)
      /\ 1 \in 1..n
      /\ \A i, k \in 1..n - 1 : k > i <=> k + 1 > i + 1
  BY <1>1
<1>3. \A i \in 1..n : i # 1 => q[i] = r[i - 1]
  BY <1>1, <1>2
<1>4. Of(q, s) <=> About(q[1], s) \/ Of(r, s)
  BY <1>1, <1>2, <1>3 DEF Of
<1>5. ASSUME Ends(q, s, b) PROVE Ends(r, s, b)
  <2> SUFFICES ASSUME NEW i \in 1..n - 1, About(r[i], s), \A k \in 1..n - 1 : k > i => ~About(r[k], s)
               PROVE  Lively(r[i]) <=> b
    BY <1>1 DEF Ends
  <2>1. \A k \in 1..n : k > i + 1 => ~About(q[k], s)
    <3> TAKE k \in 1..n
    <3> HAVE k > i + 1
    <3>1. k - 1 \in 1..n - 1 /\ k - 1 > i /\ k # 1
      BY <1>1
    <3> QED
      BY <1>3, <3>1
  <2> QED
    BY <1>1, <1>2, <1>5, <2>1 DEF Ends
<1>6. ASSUME Ends(q, s, b), About(q[1], s), ~Of(r, s) PROVE Lively(q[1]) <=> b
  <2>1. \A k \in 1..n : k > 1 => ~About(q[k], s)
    BY <1>1, <1>2, <1>3, <1>6 DEF Of
  <2> QED
    BY <1>1, <1>2, <1>6, <2>1 DEF Ends
<1>7. ASSUME ~Of(q, s) PROVE Ends(q, s, b)
  BY <1>7 DEF Of, Ends
<1>8. Head(q) = q[1]
  BY <1>1
<1> DEFINE h == Head(q)
<1>9. q[1] = h
  BY <1>8
<1> HIDE DEF h
<1>10. /\ Of(q, s) <=> About(h, s) \/ Of(r, s)
       /\ Ends(q, s, b) => Ends(r, s, b)
       /\ Ends(q, s, b) /\ About(h, s) /\ ~Of(r, s) => (Lively(h) <=> b)
       /\ ~Of(q, s) => Ends(q, s, b)
  BY <1>4, <1>5, <1>6, <1>7, <1>9
<1> QED
  BY <1>10 DEF r, h

\* Answers in a queue with one more message.
LEMMA AnswersIn ==
  ASSUME NEW S, NEW q \in Seq(S), NEW x, NEW id
  PROVE  /\ HasAnswer(Append(q, x), id) <=> HasAnswer(q, id) \/ (x.is = "answer" /\ x.id = id)
         /\ HasYes(Append(q, x), id) <=> HasYes(q, id) \/ (x.is = "answer" /\ x.id = id /\ x.ok)
<1>1. /\ Len(q) \in Nat /\ DOMAIN q = 1..Len(q) /\ DOMAIN Append(q, x) = 1..Len(q) + 1
      /\ \A i \in 1..Len(q) : Append(q, x)[i] = q[i]
      /\ Append(q, x)[Len(q) + 1] = x
  BY AppendIs
<1>2. /\ \A i \in 1..Len(q) : i \in 1..Len(q) + 1
      /\ \A i \in 1..Len(q) + 1 : i = Len(q) + 1 \/ i \in 1..Len(q)
      /\ Len(q) + 1 \in 1..Len(q) + 1
  BY <1>1
<1>3. HasAnswer(Append(q, x), id) <=> HasAnswer(q, id) \/ (x.is = "answer" /\ x.id = id)
  BY <1>1, <1>2 DEF HasAnswer
<1>4. HasYes(Append(q, x), id) <=> HasYes(q, id) \/ (x.is = "answer" /\ x.id = id /\ x.ok)
  BY <1>1, <1>2 DEF HasYes
<1> QED
  BY <1>3, <1>4

\* Answers in a queue from which one message is taken.
LEMMA AnswersLeft ==
  ASSUME NEW S, NEW q \in Seq(S), q # <<>>, NEW id
  PROVE  /\ HasAnswer(Tail(q), id) => HasAnswer(q, id)
         /\ HasYes(Tail(q), id) => HasYes(q, id)
         /\ Head(q).is = "answer" /\ Head(q).id = id /\ Head(q).ok => HasYes(q, id)
<1>1. \A i \in DOMAIN Tail(q) : i + 1 \in DOMAIN q /\ Tail(q)[i] = q[i + 1]
  BY TailFacts
<1>2. Head(q) = q[1] /\ 1 \in DOMAIN q
  BY TailFacts
<1>3. HasAnswer(Tail(q), id) => HasAnswer(q, id)
  BY <1>1 DEF HasAnswer
<1>4. HasYes(Tail(q), id) => HasYes(q, id)
  BY <1>1 DEF HasYes
<1>5. Head(q).is = "answer" /\ Head(q).id = id /\ Head(q).ok => HasYes(q, id)
  BY <1>2 DEF HasYes
<1> QED
  BY <1>3, <1>4, <1>5

(* The list of sessions. *)

\* A part of a list.
LEMMA PartOf ==
  ASSUME NEW S, NEW q \in Seq(S), NEW a \in 1..Len(q) + 1, NEW b \in 0..Len(q), a <= b + 1
  PROVE  /\ SubSeq(q, a, b) \in Seq(S) /\ Len(SubSeq(q, a, b)) = b + 1 - a
         /\ \A i \in 1..b + 1 - a : SubSeq(q, a, b)[i] = q[a + i - 1]
<1>1. Len(q) \in Nat /\ \A i \in 1..Len(q) : q[i] \in S
  OBVIOUS
<1>2. SubSeq(q, a, b) = [i \in 1..b + 1 - a |-> q[i + a - 1]]
  BY <1>1
<1>3. \A i \in 1..b + 1 - a : i + a - 1 \in 1..Len(q) /\ i + a - 1 = a + i - 1
  BY <1>1
<1> DEFINE n == b + 1 - a
           t == [i \in 1..n |-> q[i + a - 1]]
<1>4. n \in Nat
  BY <1>1
<1>5. \A i \in 1..n : t[i] = q[a + i - 1] /\ t[i] \in S
  BY <1>1, <1>3
<1> HIDE DEF n
<1>6. t \in Seq(S) /\ Len(t) = n
  BY <1>4, <1>5
<1> QED
  BY <1>2, <1>5, <1>6 DEF n

\* The list without a session has the others as they were.
LEMMA WithoutFacts ==
  ASSUME NEW m \in Seq(Shown), Once(m), NEW s \in Sessions
  PROVE  /\ Without(m, s) \in Seq(Shown) /\ Once(Without(m, s))
         /\ \A i \in DOMAIN Without(m, s) :
              Without(m, s)[i].s # s /\ \E k \in DOMAIN m : Without(m, s)[i] = m[k]
<1> DEFINE at == {i \in DOMAIN m : m[i].s = s}
           n == Len(m)
<1>0. n \in Nat /\ DOMAIN m = 1..n /\ \A i \in 1..n : m[i] \in Shown
  OBVIOUS
<1>1. CASE at = {}
  BY <1>1 DEF Without
<1>2. CASE at # {}
  <2> DEFINE k == CHOOSE i \in at : TRUE
             w == RemoveAt(m, k)
  <2>1. k \in 1..n /\ m[k].s = s
    BY <1>2
  <2>2. Without(m, s) = w
    BY <1>2 DEF Without
  <2> HIDE DEF k, n
  <2>3. SubSeq(m, 1, k - 1) \in Seq(Shown) /\ Len(SubSeq(m, 1, k - 1)) = k - 1
        /\ \A i \in 1..k - 1 : SubSeq(m, 1, k - 1)[i] = m[i]
    BY <1>0, <2>1
  <2>4. SubSeq(m, k + 1, n) \in Seq(Shown) /\ Len(SubSeq(m, k + 1, n)) = n - k
        /\ \A i \in 1..n - k : SubSeq(m, k + 1, n)[i] = m[k + i]
    <3>1. /\ k + 1 \in 1..n + 1 /\ n \in 0..n /\ k + 1 <= n + 1 /\ n + 1 - (k + 1) = n - k
          /\ \A i \in 1..n - k : k + 1 + i - 1 = k + i
      BY <1>0, <2>1
    <3> QED
      BY <3>1, PartOf DEF n
  <2>5. w = SubSeq(m, 1, k - 1) \o SubSeq(m, k + 1, n)
    BY DEF RemoveAt, n
  <2> HIDE DEF w
  <2>6. /\ w \in Seq(Shown) /\ DOMAIN w = 1..n - 1
        /\ \A i \in 1..n - 1 : w[i] = IF i < k THEN m[i] ELSE m[i + 1]
    <3>1. w \in Seq(Shown)
      BY <2>3, <2>4, <2>5
    <3>2. Len(w) = n - 1
      BY <1>0, <2>1, <2>3, <2>4, <2>5
    <3>3. ASSUME NEW i \in 1..n - 1, i < k PROVE w[i] = m[i]
      <4>1. i \in 1..k - 1
        BY <1>0, <2>1, <3>3
      <4> QED
        BY <2>1, <2>3, <2>4, <2>5, <4>1
    <3>4. ASSUME NEW i \in 1..n - 1, ~(i < k) PROVE w[i] = m[i + 1]
      <4>1. i - (k - 1) \in 1..n - k /\ i \in 1..(k - 1) + (n - k) /\ ~(i <= k - 1)
            /\ k + (i - (k - 1)) = i + 1
        BY <1>0, <2>1, <3>4
      <4> DEFINE l == SubSeq(m, 1, k - 1)
                 r == SubSeq(m, k + 1, n)
      <4> HIDE DEF l, r
      <4>2. l \in Seq(Shown) /\ r \in Seq(Shown) /\ Len(l) = k - 1 /\ Len(r) = n - k /\ w = l \o r
        BY <2>3, <2>4, <2>5 DEF l, r
      <4>3. w[i] = r[i - (k - 1)]
        BY <4>1, <4>2
      <4> QED
        BY <2>4, <4>1, <4>3 DEF r
    <3> QED
      BY <1>0, <3>1, <3>2, <3>3, <3>4
  <2> DEFINE old(i) == IF i < k THEN i ELSE i + 1
  <2>7. \A i \in 1..n - 1 : old(i) \in 1..n /\ old(i) # k /\ w[i] = m[old(i)]
    BY <1>0, <2>1, <2>6
  <2>8. \A i, j \in 1..n - 1 : old(i) = old(j) => i = j
    BY <1>0, <2>1
  <2> HIDE DEF old
  <2>9. Once(w)
    BY <1>0, <2>6, <2>7, <2>8 DEF Once
  <2>10. \A i \in 1..n - 1 : w[i].s # s
    BY <1>0, <2>1, <2>7 DEF Once
  <2> QED
    BY <1>0, <2>2, <2>6, <2>7, <2>9, <2>10
<1> QED
  BY <1>1, <1>2

\* The list with a session used: it has it first, and others as they were.
LEMMA UsedFacts ==
  ASSUME NEW m \in Seq(Shown), Once(m), NEW s \in Sessions, NEW status \in Statuses
  PROVE  /\ Used(m, s, status) \in Seq(Shown) /\ Once(Used(m, s, status))
         /\ \A i \in DOMAIN Used(m, s, status) :
              \/ Used(m, s, status)[i] = [s |-> s, status |-> status]
              \/ /\ Used(m, s, status)[i].s # s
                 /\ \E k \in DOMAIN m : Used(m, s, status)[i] = m[k]
<1> DEFINE new == [s |-> s, status |-> status]
           w == Without(m, s)
           moved == <<new>> \o w
           n == Len(w)
<1>1. /\ w \in Seq(Shown) /\ Once(w)
      /\ \A i \in DOMAIN w : w[i].s # s /\ \E k \in DOMAIN m : w[i] = m[k]
  BY WithoutFacts
<1>2. new \in Shown /\ new.s = s
  BY DEF Shown
<1>3. Used(m, s, status) = IF Len(moved) > MaxSessions THEN Front(moved) ELSE moved
  BY DEF Used
<1> HIDE DEF new, w
<1>4. /\ n \in Nat /\ DOMAIN w = 1..n /\ moved \in Seq(Shown) /\ Len(moved) = n + 1
      /\ DOMAIN moved = 1..n + 1 /\ moved[1] = new
      /\ \A i \in 1..n + 1 : i # 1 => i - 1 \in 1..n /\ moved[i] = w[i - 1]
  <2>1. n \in Nat /\ DOMAIN w = 1..n /\ moved \in Seq(Shown) /\ Len(moved) = n + 1
        /\ DOMAIN moved = 1..n + 1 /\ moved[1] = new
    BY <1>1, <1>2
  <2>2. ASSUME NEW i \in 1..n + 1, i # 1 PROVE i - 1 \in 1..n /\ moved[i] = w[i - 1]
    BY <1>1, <1>2, <2>1, <2>2
  <2> QED
    BY <2>1, <2>2
<1> HIDE DEF moved, n
<1>5. Once(moved)
  <2> SUFFICES ASSUME NEW i \in 1..n + 1, NEW k \in 1..n + 1, moved[i].s = moved[k].s PROVE i = k
    BY <1>4 DEF Once
  <2>0. \A j \in 1..n + 1 : j # 1 => moved[j].s # s
    BY <1>1, <1>4
  <2>1. CASE i = 1 \/ k = 1
    BY <1>2, <1>4, <2>0, <2>1
  <2>2. CASE i # 1 /\ k # 1
    <3>1. /\ i - 1 \in DOMAIN w /\ k - 1 \in DOMAIN w
          /\ w[i - 1].s = w[k - 1].s
      BY <1>4, <2>2
    <3>2. i - 1 = k - 1
      BY <1>1, <3>1 DEF Once
    <3> QED
      BY <1>4, <3>2
  <2> QED
    BY <2>1, <2>2
<1>6. \A i \in DOMAIN moved : moved[i] = new \/ (moved[i].s # s /\ \E k \in DOMAIN m : moved[i] = m[k])
  BY <1>1, <1>4
<1>7. /\ Front(moved) \in Seq(Shown) /\ DOMAIN Front(moved) = 1..n
      /\ \A i \in 1..n : i \in 1..n + 1 /\ Front(moved)[i] = moved[i]
  BY <1>4 DEF Front
<1> DEFINE f == Front(moved)
<1> HIDE DEF f
<1>8. /\ Once(Front(moved))
      /\ \A i \in DOMAIN Front(moved) :
           Front(moved)[i] = new \/ (Front(moved)[i].s # s /\ \E k \in DOMAIN m : Front(moved)[i] = m[k])
  <2>1. DOMAIN f = 1..n /\ \A i \in 1..n : i \in DOMAIN moved /\ f[i] = moved[i]
    BY <1>4, <1>7 DEF f
  <2>2. Once(f)
    BY <1>5, <2>1 DEF Once
  <2> QED
    BY <1>6, <2>1, <2>2 DEF f
<1> QED
  BY <1>3, <1>4, <1>5, <1>6, <1>7, <1>8 DEF new

(* The steps of the loop, for what is shown. *)

\* A step of the loop that leaves Codex and the channel alone.
LEMMA SameWords ==
  ASSUME AllowedPart, LastPart, codex' = codex, events' = events, allowed \subseteq allowed'
  PROVE  AllowedPart' /\ LastPart'
BY DEF AllowedPart, LastPart, TurnRuns

\* It leaves the list alone too, and the input in hand is still in hand or the session blurred.
LEMMA SameList ==
  ASSUME RightPart, codex' = codex, events' = events, shown' = shown, blurred \subseteq blurred',
         \A i \in DOMAIN shown :
           Unserved(shown[i].s) => Unserved(shown[i].s)' \/ shown[i].s \in blurred'
  PROVE  RightPart'
BY DEF RightPart, TurnRuns

\* The loop begins to listen.
LEMMA SubscribeShown == SInv /\ Subscribe => ShownPart'
<1> SUFFICES ASSUME SInv, Subscribe PROVE ShownPart'
  OBVIOUS
<1>1. /\ loop.at = "starting" /\ loop' = [at |-> "idle"]
      /\ UNCHANGED <<codex, pending, events, allowed, shown, lastId, blurred>>
  BY DEF Subscribe, Idle
<1>2. AllowedPart' /\ LastPart'
  BY <1>1, SameWords DEF SInv, ShownPart
<1>3. RightPart'
  BY <1>1, SameList DEF SInv, ShownPart, Unserved, InputStage
<1>4. ListPart' /\ IdPart' /\ UnwrittenPart' /\ InputPart' /\ BetweenPart'
  BY <1>1 DEF SInv, ShownPart, ListPart, IdPart, Waits, UnwrittenPart, Writing, InputPart,
              BetweenPart, Working, InputStage
<1> QED
  BY <1>2, <1>3, <1>4 DEF ShownPart

\* The loop answers its command, and is idle.
LEMMA RespondShown ==
  ASSUME SInv, Working, Ended, loop' = Idle,
         UNCHANGED <<codex, pending, events, lastId>>, allowed \subseteq allowed'
  PROVE  /\ IdPart' /\ UnwrittenPart' /\ InputPart' /\ AllowedPart' /\ LastPart' /\ BetweenPart'
         /\ \A s : ~Unserved(s)'
<1>1. loop'.at = "idle"
  BY DEF Idle
<1>2. AllowedPart' /\ LastPart'
  BY SameWords DEF SInv, ShownPart
<1>3. IdPart' /\ UnwrittenPart'
  BY <1>1 DEF SInv, ShownPart, IdPart, Waits, Ended, UnwrittenPart, Writing, Working
<1>4. InputPart' /\ BetweenPart' /\ \A s : ~Unserved(s)'
  BY <1>1 DEF InputPart, BetweenPart, Unserved, InputStage
<1> QED
  BY <1>2, <1>3, <1>4

\* The first answer refuses the command.
LEMMA RefuseShown == SInv /\ Refuse => ShownPart'
<1> SUFFICES ASSUME SInv, Refuse PROVE ShownPart'
  OBVIOUS
<1>1. /\ loop.at = "first" /\ Ended /\ loop' = Idle
      /\ UNCHANGED <<codex, pending, events, shown, lastId, blurred>>
      /\ allowed \subseteq allowed'
  BY DEF Refuse, Respond
<1>2. /\ IdPart' /\ UnwrittenPart' /\ InputPart' /\ AllowedPart' /\ LastPart' /\ BetweenPart'
  BY <1>1, RespondShown DEF Working
<1>3. RightPart'
  BY <1>1, SameList DEF SInv, ShownPart, Unserved, InputStage
<1> QED
  BY <1>1, <1>2, <1>3 DEF SInv, ShownPart, ListPart

\* The second answer: a session whose input failed, or which is read during a turn, is blurred.
LEMMA FinishShown == SInv /\ Finish => ShownPart'
<1> SUFFICES ASSUME SInv, Finish PROVE ShownPart'
  OBVIOUS
<1> DEFINE ready == loop.result = "ok" /\ loop.kind \in {"create", "resume", "history"}
           lost == loop.result = "failed" /\ loop.kind = "input"
<1>1. /\ loop.at = "second" /\ Ended /\ loop' = Idle
      /\ UNCHANGED <<codex, pending, events, lastId>>
      /\ allowed \subseteq allowed'
      /\ shown' = IF ready THEN Used(shown, loop.s, "ready") ELSE shown
      /\ blurred' = IF lost \/ (ready /\ codex.turn[loop.s] # 0) THEN blurred \cup {loop.s} ELSE blurred
  BY DEF Finish, Respond
<1>2. /\ IdPart' /\ UnwrittenPart' /\ InputPart' /\ AllowedPart' /\ LastPart' /\ BetweenPart'
      /\ \A s : ~Unserved(s)'
  BY <1>1, RespondShown DEF Working
<1>3. loop \in AtWork /\ loop.s \in Sessions
  BY <1>1, BusyFacts DEF Working, SInv
<1>4. shown \in Seq(Shown) /\ Once(shown)
  BY DEF SInv, ShownPart, ListPart
<1>5. CASE ~ready
  <2>1. ListPart'
    BY <1>1, <1>4, <1>5 DEF ListPart
  <2>2. \A s : Unserved(s) => s \in blurred'
    BY <1>1, <1>3 DEF Unserved, InputStage, Ended, AtWork
  <2>3. RightPart'
    BY <1>1, <1>5, <2>2, SameList DEF SInv, ShownPart
  <2> QED
    BY <1>2, <2>1, <2>3 DEF ShownPart
<1>6. CASE ready
  <2> DEFINE u == Used(shown, loop.s, "ready")
  <2>1. /\ u \in Seq(Shown) /\ Once(u)
        /\ \A i \in DOMAIN u : \/ u[i] = [s |-> loop.s, status |-> "ready"]
                               \/ u[i].s # loop.s /\ \E k \in DOMAIN shown : u[i] = shown[k]
    <3>1. "ready" \in Statuses
      BY DEF Statuses
    <3> QED
      BY <1>3, <1>4, <3>1, UsedFacts, Zenon
  <2>2. shown' = u /\ \A s : ~Unserved(s)
    BY <1>1, <1>6 DEF Unserved, InputStage
  <2> HIDE DEF u
  <2>3. ListPart'
    BY <2>1, <2>2 DEF ListPart
  <2>4. ASSUME codex.alive, NEW i \in DOMAIN u,
               u[i].s \notin blurred', ~Of(codex.out, u[i].s), ~Of(events, u[i].s)
        PROVE  u[i].status \in Active <=> TurnRuns(u[i].s)
    <3>1. CASE u[i] = [s |-> loop.s, status |-> "ready"]
      BY <1>1, <1>6, <2>4, <3>1 DEF Active, TurnRuns
    <3>2. CASE u[i].s # loop.s /\ \E k \in DOMAIN shown : u[i] = shown[k]
      <4>1. PICK k \in DOMAIN shown : u[i] = shown[k]
        BY <3>2
      <4>2. shown[k].s \notin blurred /\ ~Unserved(shown[k].s)
        BY <1>1, <2>2, <2>4, <4>1
      <4> QED
        BY <2>4, <4>1, <4>2 DEF SInv, ShownPart, RightPart
    <3> QED
      BY <2>1, <2>4, <3>1, <3>2
  <2>5. RightPart'
    BY <1>1, <2>2, <2>4 DEF RightPart, TurnRuns
  <2> QED
    BY <1>2, <2>3, <2>5 DEF ShownPart
<1> QED
  BY <1>5, <1>6

\* No answer comes in time.
LEMMA TimeOutShown == SInv /\ TimeOut => ShownPart'
<1> SUFFICES ASSUME SInv, TimeOut PROVE ShownPart'
  OBVIOUS
<1>1. /\ Working /\ loop.result = "none" /\ pending' = pending \ {loop.id}
      /\ loop' = [loop EXCEPT !.result = "failed"]
      /\ UNCHANGED <<codex, events, allowed, shown, lastId, blurred>>
  BY DEF TimeOut, Working
<1>2. /\ loop'.at = loop.at /\ loop'.kind = loop.kind /\ loop'.s = loop.s /\ loop'.id = loop.id
      /\ loop'.result = "failed"
  BY <1>1, BusyFacts DEF SInv, AtWork
<1>3. AllowedPart' /\ LastPart'
  BY <1>1, SameWords DEF SInv, ShownPart
<1>4. RightPart'
  BY <1>1, <1>2, SameList DEF SInv, ShownPart, Unserved, InputStage
<1>5. IdPart' /\ UnwrittenPart'
  BY <1>1, <1>2 DEF SInv, ShownPart, IdPart, Waits, UnwrittenPart, Writing
<1>6. ListPart' /\ InputPart' /\ BetweenPart'
  BY <1>1, <1>2 DEF SInv, ShownPart, ListPart, InputPart, BetweenPart, InputStage, TurnRuns
<1> QED
  BY <1>3, <1>4, <1>5, <1>6 DEF ShownPart

\* A request cannot be written.
LEMMA WriteFailsShown == SInv /\ WriteFails => ShownPart'
<1> SUFFICES ASSUME SInv, WriteFails PROVE ShownPart'
  OBVIOUS
<1>1. /\ Working /\ loop.result = "writing" /\ pending' = pending \ {loop.id}
      /\ loop' = [loop EXCEPT !.result = "failed"]
      /\ UNCHANGED <<codex, events, allowed, shown, lastId, blurred>>
  BY DEF WriteFails, Writing
<1>2. /\ loop'.at = loop.at /\ loop'.kind = loop.kind /\ loop'.s = loop.s /\ loop'.id = loop.id
      /\ loop'.result = "failed"
  BY <1>1, BusyFacts DEF SInv, AtWork
<1>3. AllowedPart' /\ LastPart'
  BY <1>1, SameWords DEF SInv, ShownPart
<1>4. RightPart'
  BY <1>1, <1>2, SameList DEF SInv, ShownPart, Unserved, InputStage
<1>5. IdPart' /\ UnwrittenPart'
  BY <1>1, <1>2 DEF SInv, ShownPart, IdPart, Waits, UnwrittenPart, Writing
<1>6. ListPart' /\ InputPart' /\ BetweenPart'
  BY <1>1, <1>2 DEF SInv, ShownPart, ListPart, InputPart, BetweenPart, InputStage, TurnRuns
<1> QED
  BY <1>3, <1>4, <1>5, <1>6 DEF ShownPart

\* A request is written: an input asks for a turn, and in a session that is allowed.
LEMMA WriteShown == SInv /\ Write => ShownPart'
<1> SUFFICES ASSUME SInv, Write PROVE ShownPart'
  OBVIOUS
<1>1. /\ Working /\ loop \in AtWork /\ Item \in Asked /\ codex.alive /\ codex.in \in Seq(Asked)
      /\ codex'.in = Append(codex.in, Item) /\ codex'.out = codex.out
      /\ codex'.turn = codex.turn /\ codex'.alive = codex.alive
      /\ loop'.at = loop.at /\ loop'.kind = loop.kind /\ loop'.s = loop.s /\ loop'.id = loop.id
      /\ loop'.result = "none"
  BY WrittenFacts DEF SInv
<1>2. Writing /\ UNCHANGED <<pending, events, allowed, shown, lastId, blurred>>
  BY DEF Write
<1>3. /\ ListPart /\ IdPart /\ UnwrittenPart /\ InputPart /\ AllowedPart /\ LastPart /\ RightPart
  BY DEF SInv, ShownPart
<1>4. /\ Item.id = loop.id /\ Item.s = loop.s /\ Item.what = loop.what
      /\ loop.id <= lastId
      /\ loop.what = "turn" => loop.s \in allowed
      /\ InputStage => loop.what = "turn"
  BY <1>2, <1>3 DEF Item, UnwrittenPart
<1>5. \A i \in DOMAIN codex'.in :
        codex'.in[i] = Item \/ (i \in DOMAIN codex.in /\ codex'.in[i] = codex.in[i])
  BY <1>1, AppendFacts
<1>6. ListPart' /\ BetweenPart' /\ UnwrittenPart'
  BY <1>1, <1>2, <1>3 DEF ListPart, BetweenPart, UnwrittenPart, Writing, Working
<1>7. IdPart'
  <2>1. \A i \in DOMAIN codex'.in : codex'.in[i].id <= lastId'
    BY <1>2, <1>3, <1>4, <1>5 DEF IdPart
  <2>2. pending' \subseteq (IF Waits' THEN {loop'.id} ELSE {})
    BY <1>1, <1>2, <1>3 DEF IdPart, Waits, Writing, Working
  <2> QED
    BY <1>1, <1>2, <1>3, <2>1, <2>2 DEF IdPart
<1>8. InputPart'
  BY <1>1, <1>2, <1>3, <1>4, <1>5 DEF InputPart, UnwrittenPart, InputStage
<1>9. AllowedPart'
  BY <1>1, <1>2, <1>3, <1>4, <1>5 DEF AllowedPart, TurnRuns
<1>10. LastPart'
  BY <1>1, <1>2, <1>3 DEF LastPart, TurnRuns
<1>11. RightPart'
  BY <1>1, <1>2, <1>3 DEF RightPart, TurnRuns, Unserved, InputStage, Writing
<1> QED
  BY <1>3, <1>6, <1>7, <1>8, <1>9, <1>10, <1>11 DEF ShownPart

\* What is asked is new: no answer has its id, and only a session that is allowed gets a turn.
LEMMA AskedParts ==
  ASSUME SInv, NEW command \in Commands, NEW stage \in {"first", "second"},
         NEW what \in {"read", "start", "turn", "resume", "interrupt"},
         Ask(command, stage, what), pending = {}, events' = events,
         allowed \subseteq allowed', what = "turn" => command.s \in allowed',
         stage = "second" /\ command.kind = "input" => what = "turn"
  PROVE  /\ IdPart' /\ UnwrittenPart' /\ AllowedPart' /\ LastPart' /\ BetweenPart'
         /\ codex' = codex /\ loop'.at = stage /\ loop'.kind = command.kind
         /\ loop'.s = command.s /\ loop'.result = "writing"
         /\ ~HasYes(codex.out, loop'.id)
         /\ \A i \in DOMAIN codex.in : codex.in[i].id # loop'.id
<1>1. /\ codex' = codex /\ pending' = {lastId + 1} /\ lastId' = lastId + 1
      /\ loop'.at = stage /\ loop'.kind = command.kind /\ loop'.s = command.s
      /\ loop'.id = lastId + 1 /\ loop'.what = what /\ loop'.result = "writing"
  BY AskFacts DEF SInv, IInv, LoopPart
<1>2. /\ lastId \in Nat /\ \A i \in DOMAIN codex.in : codex.in[i].id \in Nat /\ codex.in[i].id <= lastId
      /\ \A id \in Nat : HasAnswer(codex.out, id) => id <= lastId
  <2>1. codex.in \in Seq(Asked) /\ lastId \in Nat
    BY DEF SInv, IInv, CodexPart, CodexOf, InputOf, LoopPart
  <2>2. \A i \in DOMAIN codex.in : codex.in[i].id \in Nat
    <3>1. \A i \in DOMAIN codex.in : codex.in[i] \in Asked
      BY <2>1, ElementIn
    <3> QED
      BY <3>1 DEF Asked
  <2> QED
    BY <2>1, <2>2 DEF SInv, ShownPart, IdPart
<1>3. lastId + 1 \in Nat /\ ~(lastId + 1 <= lastId) /\ lastId + 1 <= lastId + 1
      /\ \A n \in Nat : n <= lastId => n <= lastId + 1 /\ n # lastId + 1
  BY <1>2
<1>4. ~HasAnswer(codex.out, lastId + 1) /\ \A i \in DOMAIN codex.in : codex.in[i].id # lastId + 1
  BY <1>2, <1>3
<1>5. IdPart'
  <2>1. \A i \in DOMAIN codex'.in : codex'.in[i].id <= lastId'
    BY <1>1, <1>2, <1>3
  <2>2. \A id \in Nat : HasAnswer(codex'.out, id) => id <= lastId'
    BY <1>1, <1>2, <1>3
  <2>3. pending' \subseteq (IF Waits' THEN {loop'.id} ELSE {})
    BY <1>1 DEF Waits, Working
  <2> QED
    BY <2>1, <2>2, <2>3 DEF IdPart
<1>6. UnwrittenPart'
  BY <1>1, <1>3, <1>4 DEF UnwrittenPart, InputStage
<1>7. AllowedPart' /\ LastPart'
  BY <1>1, SameWords DEF SInv, ShownPart
<1>8. BetweenPart'
  BY <1>1 DEF BetweenPart
<1>9. ~HasYes(codex.out, loop'.id)
  BY <1>1, <1>4 DEF HasYes, HasAnswer
<1> QED
  BY <1>1, <1>4, <1>5, <1>6, <1>7, <1>8, <1>9

\* Nothing waits for an answer while the loop is idle, or has its answer.
LEMMA NothingWaits ==
  ASSUME SInv, ~Working \/ Ended
  PROVE  pending = {}
BY DEF SInv, ShownPart, IdPart, Waits, Ended

\* The loop takes a command.
LEMMA TakeCommandShown ==
  ASSUME SInv, NEW kind \in Kinds, NEW s \in Sessions, TakeCommand(kind, s)
  PROVE  ShownPart'
<1> DEFINE command == Command(kind, s)
<1>1. /\ loop.at = "idle" /\ UNCHANGED <<events, allowed, shown, blurred>>
      /\ \/ kind = "create" /\ Ask(command, "second", "start")
         \/ kind = "interrupt" /\ Ask(command, "second", "interrupt")
         \/ kind \notin {"create", "interrupt"} /\ Ask(command, "first", "read")
  BY DEF TakeCommand
<1>2. command \in Commands /\ command.kind = kind
  <2>1. commands + 1 \in Nat \ {0}
    BY DEF SInv, IInv, LoopPart
  <2> QED
    BY <2>1 DEF Command, Commands
<1>3. pending = {}
  BY <1>1, NothingWaits DEF Working
<1> HIDE DEF command
<1>4. PICK stage \in {"first", "second"}, what \in {"start", "interrupt", "read"} :
        Ask(command, stage, what) /\ (stage = "second" => command.kind # "input")
  BY <1>1, <1>2
<1>5. /\ IdPart' /\ UnwrittenPart' /\ AllowedPart' /\ LastPart' /\ BetweenPart'
      /\ codex' = codex /\ loop'.at = stage /\ loop'.kind = command.kind
  BY <1>1, <1>2, <1>3, <1>4, AskedParts
<1>6. ~InputStage' /\ ~InputStage
  BY <1>1, <1>4, <1>5 DEF InputStage
<1>7. ListPart' /\ InputPart'
  BY <1>1, <1>6 DEF SInv, ShownPart, ListPart, InputPart
<1>8. RightPart'
  <2>1. RightPart
    BY DEF SInv, ShownPart
  <2> QED
    BY <1>1, <1>5, <1>6, <2>1 DEF RightPart, TurnRuns, Unserved
<1> QED
  BY <1>5, <1>7, <1>8 DEF ShownPart

\* The loop asks the second time; the session of an input waits from here on.
LEMMA GoOnShown == SInv /\ GoOn => ShownPart'
<1> SUFFICES ASSUME SInv, GoOn PROVE ShownPart'
  OBVIOUS
<1> DEFINE what == CASE loop.kind = "input" -> "turn"
                     [] loop.kind = "resume" -> "resume"
                     [] OTHER -> "read"
<1>1. /\ loop.at = "first" /\ loop.result = "ok" /\ Ask(loop, "second", what)
      /\ allowed' = IF loop.kind = "history" THEN allowed ELSE allowed \cup {loop.s}
      /\ shown' = IF loop.kind = "input" THEN Used(shown, loop.s, "waiting") ELSE shown
      /\ UNCHANGED <<events, blurred>>
  BY DEF GoOn
<1>2. loop \in Commands /\ loop.s \in Sessions
  BY <1>1, BusyFacts DEF Working, SInv
<1>3. /\ pending = {} /\ what \in {"read", "turn", "resume"}
      /\ what = "turn" => loop.kind = "input"
      /\ loop.kind = "input" => what = "turn"
  BY <1>1, NothingWaits DEF Ended
<1> HIDE DEF what
<1>4. /\ IdPart' /\ UnwrittenPart' /\ AllowedPart' /\ LastPart' /\ BetweenPart'
      /\ ~HasYes(codex'.out, loop'.id)
      /\ \A i \in DOMAIN codex'.in : codex'.in[i].id # loop'.id
      /\ loop'.at = "second" /\ loop'.kind = loop.kind /\ loop'.s = loop.s /\ loop'.result # "ok"
      /\ codex' = codex
  <2>1. /\ IdPart' /\ UnwrittenPart' /\ AllowedPart' /\ LastPart' /\ BetweenPart'
        /\ codex' = codex /\ loop'.at = "second" /\ loop'.kind = loop.kind
        /\ loop'.s = loop.s /\ loop'.result = "writing"
        /\ ~HasYes(codex.out, loop'.id)
        /\ \A i \in DOMAIN codex.in : codex.in[i].id # loop'.id
    BY <1>1, <1>2, <1>3, AskedParts
  <2> QED
    BY <2>1
<1>5. /\ loop'.at = "second" /\ loop'.kind = loop.kind /\ loop'.s = loop.s /\ loop'.result # "ok"
      /\ codex'.alive = codex.alive /\ codex'.out = codex.out /\ codex'.turn = codex.turn
  BY <1>4
<1>6. shown \in Seq(Shown) /\ Once(shown) /\ RightPart /\ ~InputStage
  BY <1>1 DEF SInv, ShownPart, ListPart, InputStage
<1>7. CASE loop.kind # "input"
  <2>1. ListPart' /\ InputPart'
    BY <1>1, <1>5, <1>6, <1>7 DEF ListPart, InputPart, InputStage
  <2>2. RightPart'
    BY <1>1, <1>5, <1>6, <1>7 DEF RightPart, TurnRuns, Unserved
  <2> QED
    BY <1>4, <2>1, <2>2 DEF ShownPart
<1>8. CASE loop.kind = "input"
  <2> DEFINE u == Used(shown, loop.s, "waiting")
  <2>1. /\ u \in Seq(Shown) /\ Once(u)
        /\ \A i \in DOMAIN u : \/ u[i] = [s |-> loop.s, status |-> "waiting"]
                               \/ u[i].s # loop.s /\ \E k \in DOMAIN shown : u[i] = shown[k]
    <3>1. "waiting" \in Statuses
      BY DEF Statuses
    <3> QED
      BY <1>2, <1>6, <3>1, UsedFacts, Zenon
  <2>2. shown' = u
    BY <1>1, <1>8
  <2> HIDE DEF u
  <2>3. ListPart'
    BY <2>1, <2>2 DEF ListPart
  <2>4. InputPart'
    BY <1>4, <1>5, <1>8, <2>1, <2>2 DEF InputPart
  <2>5. InputStage' /\ loop'.s = loop.s /\ loop'.result # "ok" /\ ~HasYes(codex'.out, loop'.id)
    BY <1>4, <1>5, <1>8 DEF InputStage
  <2>6. ASSUME codex.alive, NEW i \in DOMAIN u,
               u[i].s \notin blurred, ~Of(codex.out, u[i].s), ~Of(events, u[i].s), u[i].s # loop.s
        PROVE  u[i].status \in Active <=> TurnRuns(u[i].s)
    <3>1. PICK k \in DOMAIN shown : u[i] = shown[k]
      BY <2>1, <2>6
    <3> QED
      BY <1>6, <2>6, <3>1 DEF RightPart, Unserved
  <2>7. RightPart'
    BY <1>1, <1>5, <2>2, <2>5, <2>6 DEF RightPart, TurnRuns, Unserved
  <2> QED
    BY <1>4, <2>3, <2>4, <2>7 DEF ShownPart
<1> QED
  BY <1>7, <1>8

\* A session of the list.
LEMMA ListedIn ==
  ASSUME NEW m \in Seq(Shown)
  PROVE  \A i \in DOMAIN m : m[i] \in Shown /\ m[i].s \in Sessions
<1>1. \A i \in DOMAIN m : m[i] \in Shown
  BY ElementIn
<1> QED
  BY <1>1 DEF Shown

\* What an event makes of the list.
LEMMA HeardFacts ==
  ASSUME NEW m \in Seq(Shown), Once(m), NEW e \in TurnEvents
  PROVE  /\ Heard(m, e) \in Seq(Shown) /\ Once(Heard(m, e)) /\ DOMAIN Heard(m, e) = DOMAIN m
         /\ \A i \in DOMAIN m :
              /\ Heard(m, e)[i].s = m[i].s
              /\ m[i].s # e.s => Heard(m, e)[i] = m[i]
              /\ m[i].s = e.s => (Heard(m, e)[i].status \in Active <=> Lively(e))
<1> DEFINE r == Heard(m, e)
<1>1. /\ DOMAIN m = 1..Len(m) /\ Len(m) \in Nat /\ \A i \in DOMAIN m : m[i] \in Shown
      /\ \A i \in DOMAIN m :
           r[i] = IF m[i].s = e.s THEN [m[i] EXCEPT !.status = StatusAfter(e, m[i].status)] ELSE m[i]
      /\ r = [i \in 1..Len(m) |-> r[i]]
  BY DEF Heard
<1> HIDE DEF r
<1>2. ASSUME NEW i \in DOMAIN m
      PROVE  /\ r[i] \in Shown /\ r[i].s = m[i].s
             /\ m[i].s # e.s => r[i] = m[i]
             /\ m[i].s = e.s => (r[i].status \in Active <=> Lively(e))
  <2>1. StatusAfter(e, m[i].status) \in Statuses
    BY DEF StatusAfter, Statuses
  <2>2. StatusAfter(e, m[i].status) \in Active <=> Lively(e)
    BY DEF StatusAfter, Active, Lively, TurnEvents
  <2> QED
    BY <1>1, <2>1, <2>2 DEF Shown
<1>3. r \in Seq(Shown) /\ DOMAIN r = DOMAIN m
  BY <1>1, <1>2
<1> QED
  BY <1>2, <1>3 DEF Once, r

\* The loop takes an event.
LEMMA TakeEventShown == SInv /\ TakeEvent => ShownPart'
<1> SUFFICES ASSUME SInv, TakeEvent PROVE ShownPart'
  OBVIOUS
<1> DEFINE e == Head(events)
<1>1. /\ loop.at = "idle" /\ events # <<>> /\ e.is = "event" /\ events' = Tail(events)
      /\ UNCHANGED <<codex, pending, loop, allowed, lastId>>
      /\ IF e.s \in allowed THEN shown' = Heard(shown, e) /\ blurred' = blurred \ {e.s}
                            ELSE UNCHANGED <<shown, blurred>>
  BY DEF TakeEvent, BetweenCommands
<1>2. events \in Seq(TurnEvents \cup {Gone}) /\ e \in TurnEvents
  <2>1. events \in Seq(TurnEvents \cup {Gone})
    BY DEF SInv, IInv, ChannelPart, ChannelOf
  <2> QED
    BY <1>1, <2>1, TailFacts DEF Gone
<1> HIDE DEF e
<1>3. \A s, b : /\ Of(events, s) <=> About(e, s) \/ Of(Tail(events), s)
                /\ Ends(events, s, b) => Ends(Tail(events), s, b)
                /\ Ends(events, s, b) /\ About(e, s) /\ ~Of(Tail(events), s) => (Lively(e) <=> b)
                /\ ~Of(events, s) => Ends(events, s, b)
  BY <1>1, <1>2, HeadTaken, Zenon DEF e
<1>4. \A s : About(e, s) <=> s = e.s
  BY <1>1 DEF About
<1>5. shown \in Seq(Shown) /\ Once(shown) /\ AllowedPart /\ LastPart /\ RightPart
  BY DEF SInv, ShownPart, ListPart
<1>6. e.s \in Sessions
  BY <1>2 DEF TurnEvents
<1>7. codex.alive => e.s \in allowed
  BY <1>3, <1>4, <1>5, <1>6 DEF AllowedPart
<1>8. AllowedPart' /\ LastPart'
  <2>1. AllowedPart'
    BY <1>1, <1>3, <1>5 DEF AllowedPart, TurnRuns
  <2>2. LastPart'
    BY <1>1, <1>3, <1>5 DEF LastPart, TurnRuns
  <2> QED
    BY <2>1, <2>2
<1>9. /\ Heard(shown, e) \in Seq(Shown) /\ Once(Heard(shown, e)) /\ DOMAIN Heard(shown, e) = DOMAIN shown
      /\ \A i \in DOMAIN shown :
           /\ Heard(shown, e)[i].s = shown[i].s
           /\ shown[i].s # e.s => Heard(shown, e)[i] = shown[i]
           /\ shown[i].s = e.s => (Heard(shown, e)[i].status \in Active <=> Lively(e))
  BY <1>2, <1>5, HeardFacts
<1>10. ListPart' /\ IdPart' /\ UnwrittenPart' /\ InputPart' /\ BetweenPart'
  BY <1>1, <1>5, <1>9 DEF SInv, ShownPart, ListPart, IdPart, Waits, UnwrittenPart, Writing,
                          InputPart, BetweenPart, Working, InputStage
<1>11. ASSUME codex.alive, NEW i \in DOMAIN shown, shown[i].s \notin blurred',
              ~Of(codex.out, shown[i].s), ~Of(Tail(events), shown[i].s)
       PROVE  Heard(shown, e)[i].status \in Active <=> TurnRuns(shown[i].s)
  <2>0. shown[i].s \in Sessions
    BY <1>5, ListedIn
  <2>1. CASE shown[i].s = e.s
    <3>1. Ends(events, e.s, TurnRuns(e.s))
      BY <1>5, <1>6, <1>11, <2>1 DEF LastPart
    <3>2. Lively(e) <=> TurnRuns(e.s)
      BY <1>3, <1>4, <1>11, <2>1, <3>1
    <3> QED
      BY <1>9, <2>1, <3>2
  <2>2. CASE shown[i].s # e.s
    <3>1. shown[i].s \notin blurred /\ ~Of(events, shown[i].s)
      BY <1>1, <1>3, <1>4, <1>11, <2>2
    <3>2. ~Unserved(shown[i].s)
      BY <1>1 DEF Unserved, InputStage
    <3> QED
      BY <1>5, <1>9, <1>11, <2>2, <3>1, <3>2 DEF RightPart
  <2> QED
    BY <2>1, <2>2
<1>12. RightPart'
  BY <1>1, <1>7, <1>9, <1>11 DEF RightPart, TurnRuns
<1> QED
  BY <1>8, <1>10, <1>12 DEF ShownPart

\* A run ends: no process, and the sessions it leaves active are blurred.
LEMMA OverShown ==
  ASSUME SInv, NEW m \in Seq(Shown), Once(m), NEW b, Over(m, b),
         \A i \in DOMAIN m : m[i].s \notin b => m[i].status \notin Active
  PROVE  ShownPart'
<1>1. /\ loop' = [at |-> "over"] /\ shown' = m /\ blurred' = b
      /\ codex' = [Died(codex) EXCEPT !.out = <<>>] /\ pending' = {} /\ lastId' = lastId
  BY DEF Over
<1>2. codex' = [alive |-> FALSE, threads |-> codex.threads, turn |-> [s \in Sessions |-> 0],
                in |-> <<>>, out |-> <<>>]
  BY <1>1 DEF Died, CodexType, SInv, IInv, CodexPart, CodexOf
<1>3. ListPart' /\ UnwrittenPart' /\ InputPart' /\ BetweenPart'
  BY <1>1, <1>2 DEF ListPart, UnwrittenPart, Writing, Working, InputPart, BetweenPart, InputStage
<1>4. IdPart'
  BY <1>1, <1>2 DEF IdPart, HasAnswer
<1>5. AllowedPart' /\ LastPart' /\ RightPart'
  BY <1>2 DEF AllowedPart, LastPart, RightPart
<1> QED
  BY <1>3, <1>4, <1>5 DEF ShownPart

\* With or without the clean-up.
LEMMA LeftShown == SInv /\ (CodexLeft \/ Closed \/ SendFails) => ShownPart'
<1> SUFFICES ASSUME SInv, CodexLeft \/ Closed \/ SendFails PROVE ShownPart'
  OBVIOUS
<1> DEFINE m == Disconnected(shown)
<1>1. shown \in Seq(Shown) /\ Once(shown)
  BY DEF SInv, ShownPart, ListPart
<1>2. /\ m \in Seq(Shown) /\ Once(m) /\ \A i \in DOMAIN m : m[i].status \notin Active
  <2>1. /\ DOMAIN shown = 1..Len(shown) /\ Len(shown) \in Nat /\ \A i \in DOMAIN shown : shown[i] \in Shown
        /\ DOMAIN m = DOMAIN shown /\ m = [i \in 1..Len(shown) |-> m[i]]
        /\ \A i \in DOMAIN shown :
             m[i] = IF shown[i].status \in Active THEN [shown[i] EXCEPT !.status = "disconnected"] ELSE shown[i]
    BY <1>1 DEF Disconnected
  <2> HIDE DEF m
  <2>2. \A i \in DOMAIN shown : m[i] \in Shown /\ m[i].s = shown[i].s /\ m[i].status \notin Active
    BY <2>1 DEF Shown, Statuses, Active
  <2> QED
    BY <1>1, <2>1, <2>2 DEF Once
<1>3. \A i \in DOMAIN shown : shown[i].s \notin ActiveIn(shown) => shown[i].status \notin Active
  <2>1. \A i \in DOMAIN shown : shown[i].s \in Sessions
    BY <1>1, ListedIn
  <2> QED
    BY <2>1 DEF ActiveIn
<1> HIDE DEF m
<1>4. Over(m, {}) \/ Over(shown, ActiveIn(shown))
  BY DEF CodexLeft, Closed, SendFails, m
<1> QED
  BY <1>1, <1>2, <1>3, <1>4, OverShown

\* The next run has a process without turns.
LEMMA ReconnectShown == SInv /\ Reconnect => ShownPart'
<1> SUFFICES ASSUME SInv, Reconnect PROVE ShownPart'
  OBVIOUS
<1>1. /\ loop.at = "over" /\ loop' = [at |-> "starting"] /\ allowed' = {}
      /\ codex' = [Started EXCEPT !.threads = codex.threads]
      /\ UNCHANGED <<pending, events, shown, lastId, blurred>>
  BY DEF Reconnect
<1>2. codex' = [alive |-> TRUE, threads |-> codex.threads, turn |-> [s \in Sessions |-> 0],
                in |-> <<>>, out |-> <<>>]
  BY <1>1 DEF Started
<1>3. events = <<>>
  BY <1>1 DEF SInv, IInv, QuietPart, Listening
<1>4. pending = {}
  BY <1>1, NothingWaits DEF Working
<1>5. shown \in Seq(Shown) /\ Once(shown)
      /\ \A i \in DOMAIN shown : shown[i].s \notin blurred => shown[i].status \notin Active
  BY <1>1 DEF SInv, ShownPart, ListPart, BetweenPart
<1>6. \A s \in Sessions : codex'.turn[s] = 0
  BY <1>2
<1>7. \A s \in Sessions : ~Of(<<>>, s) /\ \A b : Ends(<<>>, s, b)
  BY DEF Of, Ends
<1>8. ListPart' /\ UnwrittenPart' /\ InputPart' /\ BetweenPart'
  BY <1>1, <1>2, <1>5, <1>6 DEF ListPart, UnwrittenPart, Writing, Working, InputPart, BetweenPart,
                                InputStage, TurnRuns
<1>9. IdPart'
  BY <1>1, <1>2, <1>4 DEF IdPart, HasAnswer
<1>10. AllowedPart' /\ LastPart'
  BY <1>1, <1>2, <1>3, <1>6, <1>7 DEF AllowedPart, LastPart, TurnRuns
<1>11. RightPart'
  <2>1. \A i \in DOMAIN shown : shown[i].s \in Sessions
    BY <1>5, ListedIn
  <2> QED
    BY <1>1, <1>5, <1>6, <2>1 DEF RightPart, TurnRuns
<1> QED
  BY <1>8, <1>9, <1>10, <1>11 DEF ShownPart

(* The steps of the reader, of Codex and of the channel, for what is shown. *)

\* An answer is given to the command that waits, which stays where it is.
LEMMA ResolvedCommand ==
  ASSUME SInv, NEW ok
  PROVE  /\ Resolved(ok).at = loop.at
         /\ Working => /\ Resolved(ok).kind = loop.kind /\ Resolved(ok).s = loop.s
                    /\ Resolved(ok).id = loop.id /\ Resolved(ok).what = loop.what
                    /\ Resolved(ok).result = IF loop.result = "none" /\ loop.id \in pending
                                             THEN IF ok THEN "ok" ELSE "failed"
                                             ELSE loop.result
BY BusyFacts DEF SInv, Resolved, Working, AtWork

\* An item of the output, read: what was said of each session is still to be heard.
LEMMA ReadEventShown ==
  ASSUME SInv, reading, codex.out # <<>>, codex' = [codex EXCEPT !.out = Tail(@)],
         Head(codex.out).is = "event", Send(Head(codex.out)),
         UNCHANGED <<loop, pending, allowed, shown, lastId>>
  PROVE  ShownPart'
<1> DEFINE e == Head(codex.out)
<1>1. /\ codex.out \in Seq(Answers \cup TurnEvents) /\ codex \in CodexType
      /\ codex'.out = Tail(codex.out) /\ codex'.in = codex.in
      /\ codex'.turn = codex.turn /\ codex'.alive = codex.alive
  BY DEF SInv, IInv, CodexPart, CodexOf, OutputOf, CodexType
<1>2. e \in TurnEvents
  BY <1>1, TailFacts DEF Answers
<1>3. events \in Seq(TurnEvents) /\ e.is = "event" /\ Send(e)
  BY DEF SInv, IInv, ChannelPart
<1>4. \A s, b : /\ Of(codex.out, s) <=> About(e, s) \/ Of(codex'.out, s)
                /\ Ends(codex.out, s, b) => Ends(codex'.out, s, b)
                /\ Ends(codex.out, s, b) /\ About(e, s) /\ ~Of(codex'.out, s) => (Lively(e) <=> b)
  <2>1. \A s, b : /\ Of(codex.out, s) <=> About(e, s) \/ Of(Tail(codex.out), s)
                  /\ Ends(codex.out, s, b) => Ends(Tail(codex.out), s, b)
                  /\ Ends(codex.out, s, b) /\ About(e, s) /\ ~Of(Tail(codex.out), s) => (Lively(e) <=> b)
                  /\ ~Of(codex.out, s) => Ends(codex.out, s, b)
    BY <1>1, HeadTaken, Zenon
  <2> HIDE DEF e
  <2> QED
    BY <1>1, <2>1
<1> HIDE DEF e
<1>5. \A s : About(e, s) <=> s = e.s
  BY <1>3 DEF About
<1>6. AllowedPart /\ LastPart /\ RightPart /\ IdPart /\ UnwrittenPart /\ InputPart /\ BetweenPart
  BY DEF SInv, ShownPart
<1>7. e.s \in Sessions /\ Of(codex.out, e.s)
  <2>1. e.s \in Sessions
    BY <1>2 DEF TurnEvents
  <2> QED
    BY <1>4, <1>5, <2>1
<1>8. \A id \in Nat : HasAnswer(codex'.out, id) => HasAnswer(codex.out, id)
  BY <1>1, AnswersLeft
<1>9. \A id : HasYes(codex'.out, id) => HasYes(codex.out, id)
  BY <1>1, AnswersLeft
<1>10. \A id : HasYes(codex.out, id) => HasYes(codex'.out, id)
  <2> SUFFICES ASSUME NEW id, HasYes(codex.out, id) PROVE HasYes(codex'.out, id)
    OBVIOUS
  <2>1. PICK i \in DOMAIN codex.out : codex.out[i].is = "answer" /\ codex.out[i].id = id /\ codex.out[i].ok
    BY DEF HasYes
  <2>2. codex.out[1] = e
    BY <1>1, TailFacts DEF e
  <2>3. i # 1
    BY <1>3, <2>1, <2>2
  <2>4. i - 1 \in DOMAIN codex'.out /\ codex'.out[i - 1] = codex.out[i]
    BY <1>1, <2>1, <2>3
  <2> QED
    BY <2>1, <2>4 DEF HasYes
<1>11. ListPart' /\ IdPart' /\ UnwrittenPart' /\ InputPart'
  <2>1. ListPart' /\ IdPart' /\ InputPart'
    BY <1>1, <1>6, <1>8 DEF SInv, ShownPart, ListPart, IdPart, Waits, InputPart, Working, InputStage
  <2>2. UnwrittenPart'
    <3>1. Writing => loop.id \in Nat
      BY BusyFacts DEF SInv, Writing, AtWork
    <3> QED
      BY <1>1, <1>6, <1>8, <3>1 DEF UnwrittenPart, Writing, Working, InputStage
  <2> QED
    BY <2>1, <2>2
<1>12. loop.at # "starting"
  <2>1. loop.at = "starting" => codex.out = <<>>
    BY <1>6 DEF BetweenPart
  <2> QED
    BY <2>1
<1>13. BetweenPart'
  BY <1>1, <1>3, <1>6, <1>12 DEF BetweenPart, Send, Listening
<1>14. \A s : Unserved(s)' <=> Unserved(s)
  BY <1>9, <1>10 DEF Unserved, InputStage
<1>15. CASE ~Listening
  <2>1. ~codex.alive
    BY <1>6, <1>12, <1>15 DEF Listening, BetweenPart
  <2> QED
    BY <1>1, <1>11, <1>13, <2>1 DEF ShownPart, AllowedPart, LastPart, RightPart
<1>16. CASE Listening
  <2> DEFINE full == ~(Len(events) < Capacity)
             q == IF full THEN Tail(events) ELSE events
  <2>1. events' = Append(q, e) /\ blurred' = IF full THEN blurred \cup {Head(events).s} ELSE blurred
    BY <1>3, <1>16 DEF Send
  <2>2. full => events # <<>>
    BY SizeAssumption
  <2>3. q \in Seq(TurnEvents)
    BY <1>3, <2>2, TailFacts
  <2>4. \A s, b : /\ Of(q, s) => Of(events, s)
                  /\ Of(events, s) => Of(q, s) \/ (full /\ s = Head(events).s)
                  /\ Ends(events, s, b) => Ends(q, s, b)
    <3>1. CASE full
      <4>1. \A s, b : /\ Of(events, s) <=> About(Head(events), s) \/ Of(Tail(events), s)
                      /\ Ends(events, s, b) => Ends(Tail(events), s, b)
        BY <1>3, <2>2, <3>1, HeadTaken, Zenon
      <4>2. \A s : About(Head(events), s) => s = Head(events).s
        BY DEF About
      <4> HIDE DEF full
      <4> QED
        BY <3>1, <4>1, <4>2
    <3>2. CASE ~full
      BY <3>2
    <3> QED
      BY <3>1, <3>2
  <2> HIDE DEF q, full
  <2>5. /\ Of(events', e.s)
        /\ \A s : s # e.s => (Of(events', s) <=> Of(q, s))
        /\ \A b : (Lively(e) <=> b) => Ends(events', e.s, b)
        /\ \A s, b : s # e.s => (Ends(events', s, b) <=> Ends(q, s, b))
    BY <1>3, <2>1, <2>3, EventLast
  <2>6. LastPart'
    <3> SUFFICES ASSUME codex.alive, NEW s \in Sessions
                 PROVE  /\ Ends(codex'.out, s, TurnRuns(s))
                        /\ ~Of(codex'.out, s) => Ends(events', s, TurnRuns(s))
      BY <1>1 DEF LastPart, TurnRuns
    <3>1. /\ Ends(codex.out, s, TurnRuns(s))
          /\ ~Of(codex.out, s) => Ends(events, s, TurnRuns(s))
      BY <1>6 DEF LastPart
    <3>2. CASE s = e.s
      BY <1>4, <1>5, <2>5, <3>1, <3>2
    <3>3. CASE s # e.s
      BY <1>4, <1>5, <2>4, <2>5, <3>1, <3>3
    <3> QED
      BY <3>2, <3>3
  <2>7. AllowedPart'
    <3>1. codex.alive => e.s \in allowed
      BY <1>6, <1>7 DEF AllowedPart
    <3>2. \A s \in Sessions : s # e.s /\ ~Of(codex.out, s) /\ ~Of(events, s) =>
                                ~Of(codex'.out, s) /\ ~Of(events', s)
      BY <1>4, <1>5, <2>4, <2>5
    <3> QED
      BY <1>1, <1>6, <3>1, <3>2 DEF AllowedPart, TurnRuns
  <2>8. RightPart'
    <3>1. \A s : s \notin blurred' /\ ~Of(codex'.out, s) /\ ~Of(events', s) =>
                   s \notin blurred /\ ~Of(codex.out, s) /\ ~Of(events, s)
      BY <1>4, <1>5, <2>1, <2>4, <2>5
    <3> QED
      BY <1>1, <1>6, <1>14, <3>1 DEF RightPart, TurnRuns
  <2> QED
    BY <1>11, <1>13, <2>6, <2>7, <2>8 DEF ShownPart
<1> QED
  BY <1>15, <1>16

\* An answer, read: it goes to the command that waits for it, which is the one in hand.
LEMMA ReadAnswerShown ==
  ASSUME SInv, codex.out # <<>>, codex' = [codex EXCEPT !.out = Tail(@)],
         Head(codex.out).is # "event", pending' = pending \ {Head(codex.out).id},
         loop' = IF Head(codex.out).id \in pending THEN Resolved(Head(codex.out).ok) ELSE loop,
         UNCHANGED <<events, blurred, allowed, shown, lastId>>
  PROVE  ShownPart'
<1> DEFINE a == Head(codex.out)
<1>1. /\ codex.out \in Seq(Answers \cup TurnEvents) /\ codex \in CodexType
      /\ codex'.out = Tail(codex.out) /\ codex'.in = codex.in
      /\ codex'.turn = codex.turn /\ codex'.alive = codex.alive
  BY DEF SInv, IInv, CodexPart, CodexOf, OutputOf, CodexType
<1>2. a \in Answers
  BY <1>1, TailFacts DEF TurnEvents
<1>3. a.is = "answer" /\ a.ok \in BOOLEAN
  BY <1>2 DEF Answers
<1>4. \A s, b : /\ Of(codex.out, s) <=> Of(codex'.out, s)
                /\ Ends(codex.out, s, b) => Ends(codex'.out, s, b)
  <2>1. \A s, b : /\ Of(codex.out, s) <=> About(a, s) \/ Of(Tail(codex.out), s)
                  /\ Ends(codex.out, s, b) => Ends(Tail(codex.out), s, b)
    BY <1>1, HeadTaken, Zenon
  <2>2. \A s : ~About(a, s)
    BY <1>3 DEF About
  <2> QED
    BY <1>1, <2>1, <2>2, Zenon
<1>5. /\ \A id : HasAnswer(codex'.out, id) => HasAnswer(codex.out, id)
      /\ \A id : HasYes(codex'.out, id) => HasYes(codex.out, id)
      /\ a.ok => HasYes(codex.out, a.id)
  <2>1. /\ \A id : HasAnswer(Tail(codex.out), id) => HasAnswer(codex.out, id)
        /\ \A id : HasYes(Tail(codex.out), id) => HasYes(codex.out, id)
    BY <1>1, AnswersLeft
  <2>2. a.ok => HasYes(codex.out, a.id)
    BY <1>1, <1>3, AnswersLeft
  <2> QED
    BY <1>1, <2>1, <2>2
<1> HIDE DEF a
<1>6. AllowedPart /\ LastPart /\ RightPart /\ IdPart /\ UnwrittenPart /\ InputPart /\ BetweenPart
  BY DEF SInv, ShownPart
<1>7. /\ pending' = pending \ {a.id}
      /\ loop' = IF a.id \in pending THEN Resolved(a.ok) ELSE loop
  BY DEF a
<1>8. /\ loop'.at = loop.at
      /\ Working => /\ loop'.kind = loop.kind /\ loop'.s = loop.s /\ loop'.id = loop.id
                    /\ loop'.what = loop.what
                    /\ \/ loop'.result = loop.result
                       \/ /\ loop.result = "none" /\ loop.id \in pending
                          /\ loop'.result = IF a.ok THEN "ok" ELSE "failed"
  BY <1>7, ResolvedCommand
<1>9. a.id \in pending => Waits /\ a.id = loop.id
  BY <1>6 DEF IdPart
<1>10. pending' \subseteq (IF Waits' THEN {loop'.id} ELSE {})
  BY <1>6, <1>7, <1>8, <1>9 DEF IdPart, Waits, Working
<1>11. ListPart' /\ IdPart' /\ UnwrittenPart' /\ InputPart' /\ BetweenPart'
  <2>1. IdPart'
    BY <1>1, <1>5, <1>6, <1>10 DEF IdPart
  <2>2. InputPart'
    BY <1>1, <1>6, <1>8 DEF InputPart, InputStage, Working
  <2>3. BetweenPart'
    <3>1. loop.at = "starting" => codex.out = <<>>
      BY <1>6 DEF BetweenPart
    <3> QED
      BY <1>1, <1>6, <1>8, <3>1 DEF BetweenPart
  <2>4. UnwrittenPart'
    <3>1. Writing' => Writing
      BY <1>3, <1>8 DEF Writing, Working
    <3> QED
      BY <1>1, <1>5, <1>6, <1>8, <3>1 DEF UnwrittenPart, Writing, InputStage
  <2> QED
    BY <2>1, <2>2, <2>3, <2>4 DEF SInv, ShownPart, ListPart
<1>12. AllowedPart'
  <2>1. \A s : Of(codex'.out, s) <=> Of(codex.out, s)
    BY <1>4
  <2> QED
    BY <1>1, <1>6, <2>1 DEF AllowedPart, TurnRuns
<1>13. LastPart'
  BY <1>1, <1>4, <1>6 DEF LastPart, TurnRuns
<1>14. \A s : Unserved(s) => Unserved(s)'
  <2> SUFFICES ASSUME NEW s, Unserved(s)
               PROVE  /\ InputStage' /\ loop'.s = s /\ loop'.result # "ok"
                      /\ ~HasYes(codex'.out, loop'.id)
    BY DEF Unserved
  <2>1. Working /\ InputStage /\ loop.s = s /\ loop.result # "ok" /\ ~HasYes(codex.out, loop.id)
    BY DEF Unserved, InputStage, Working
  <2>2. a.id \in pending => ~a.ok
    BY <1>5, <1>9, <2>1
  <2>3. loop'.result # "ok"
    <3>1. CASE a.id \in pending
      BY <1>8, <2>1, <2>2, <3>1
    <3>2. CASE a.id \notin pending
      BY <1>7, <2>1, <3>2
    <3> QED
      BY <3>1, <3>2
  <2> QED
    BY <1>5, <1>8, <2>1, <2>3 DEF InputStage
<1>15. RightPart'
  BY <1>1, <1>4, <1>6, <1>14 DEF RightPart, TurnRuns
<1> QED
  BY <1>11, <1>12, <1>13, <1>15 DEF ShownPart

\* The reader takes an item of the output.
LEMMA ReadShown == SInv /\ Read => ShownPart'
<1> SUFFICES ASSUME SInv, Read PROVE ShownPart'
  OBVIOUS
<1>1. CASE Head(codex.out).is = "event"
  BY <1>1, ReadEventShown DEF Read
<1>2. CASE Head(codex.out).is # "event"
  BY <1>2, ReadAnswerShown DEF Read
<1> QED
  BY <1>1, <1>2

\* The reader sees the end of the output.
LEMMA ReadEndShown == SInv /\ ReadEnd => ShownPart'
<1> SUFFICES ASSUME SInv, ReadEnd PROVE ShownPart'
  OBVIOUS
<1>1. /\ ~codex.alive /\ loop' = Resolved(FALSE) /\ pending' = {} /\ Send(Gone)
      /\ UNCHANGED <<codex, allowed, shown, lastId>>
  BY DEF ReadEnd
<1>2. /\ loop'.at = loop.at
      /\ Working => /\ loop'.kind = loop.kind /\ loop'.s = loop.s /\ loop'.id = loop.id
                    /\ loop'.what = loop.what
                    /\ loop'.result \in {loop.result, "failed"}
  BY <1>1, ResolvedCommand
<1>3. ListPart' /\ IdPart' /\ UnwrittenPart' /\ InputPart'
  BY <1>1, <1>2 DEF SInv, ShownPart, ListPart, IdPart, UnwrittenPart, Writing, InputPart, InputStage,
                    Working
<1>4. loop.at = "over" => blurred' = blurred
  BY <1>1 DEF Send, Listening
<1>5. BetweenPart'
  BY <1>1, <1>2, <1>4 DEF SInv, ShownPart, BetweenPart, TurnRuns
<1> QED
  BY <1>1, <1>3, <1>5 DEF ShownPart, AllowedPart, LastPart, RightPart

\* A step of Codex leaves what is said of a session as it was, or is the last word about it.
SameWord(c, s) ==
  /\ Of(c.out, s) <=> Of(codex.out, s)
  /\ \A b : Ends(codex.out, s, b) => Ends(c.out, s, b)
  /\ c.turn[s] # 0 <=> TurnRuns(s)

\* A request that Codex has still to take.
Requested(id) == \E k \in DOMAIN codex.in : codex.in[k].id = id

LastWord(c, s) == s \in allowed /\ Of(c.out, s) /\ Ends(c.out, s, c.turn[s] # 0)

\* No input is accepted unnoticed: the session whose input is answered has a turn.
LEMMA DoesShown ==
  ASSUME SInv, loop.at # "starting", NEW c, Does(c), c.alive = codex.alive,
         \A i \in DOMAIN c.in : \E k \in DOMAIN codex.in : c.in[i] = codex.in[k],
         \A id \in Nat : HasAnswer(c.out, id) => HasAnswer(codex.out, id) \/ Requested(id),
         codex.alive => \A s \in Sessions : SameWord(c, s) \/ LastWord(c, s),
         codex.alive => \A s \in Sessions :
           Unserved(s) /\ ~LastWord(c, s) => ~HasYes(c.out, loop.id) \/ TurnRuns(s)
  PROVE  ShownPart'
<1>1. codex' = c /\ UNCHANGED <<pending, events, loop, allowed, shown, lastId, blurred>>
  BY DEF Does
<1>2. /\ ListPart /\ AllowedPart /\ LastPart /\ RightPart /\ IdPart /\ UnwrittenPart
      /\ InputPart /\ BetweenPart
  BY DEF SInv, ShownPart
<1>3. \A i \in DOMAIN shown : shown[i].s \in Sessions
  BY <1>2, ListedIn DEF ListPart
<1>4. ListPart' /\ IdPart' /\ UnwrittenPart' /\ BetweenPart'
  <2>1. ListPart' /\ BetweenPart'
    BY <1>1, <1>2 DEF ListPart, BetweenPart
  <2>2. \A id \in Nat : HasAnswer(c.out, id) => id <= lastId
    BY <1>2 DEF IdPart, Requested
  <2>3. IdPart'
    BY <1>1, <1>2, <2>2 DEF IdPart, Waits, Working
  <2>4. Writing => loop.id \in Nat /\ ~Requested(loop.id)
    <3>1. Writing => loop \in AtWork
      BY BusyFacts DEF SInv, Writing
    <3> QED
      BY <1>2, <3>1 DEF AtWork, UnwrittenPart, Requested
  <2>5. UnwrittenPart'
    BY <1>1, <1>2, <2>4 DEF UnwrittenPart, Writing, Working, InputStage
  <2> QED
    BY <2>1, <2>3, <2>5
<1>5. InputPart'
  BY <1>1, <1>2 DEF InputPart, InputStage
<1>6. AllowedPart'
  BY <1>1, <1>2 DEF AllowedPart, TurnRuns, SameWord, LastWord
<1>7. LastPart'
  <2> SUFFICES ASSUME codex.alive, NEW s \in Sessions
               PROVE  /\ Ends(c.out, s, c.turn[s] # 0)
                      /\ ~Of(c.out, s) => Ends(events, s, c.turn[s] # 0)
    BY <1>1 DEF LastPart, TurnRuns
  <2>1. /\ Ends(codex.out, s, TurnRuns(s))
        /\ ~Of(codex.out, s) => Ends(events, s, TurnRuns(s))
    BY <1>2 DEF LastPart
  <2>2. CASE SameWord(c, s)
    <3>1. (c.turn[s] # 0) = TurnRuns(s)
      BY <2>2 DEF SameWord, TurnRuns
    <3> QED
      BY <2>1, <2>2, <3>1 DEF SameWord
  <2>3. CASE LastWord(c, s)
    BY <2>3 DEF LastWord
  <2> QED
    BY <2>2, <2>3
<1>8. RightPart'
  <2> SUFFICES ASSUME codex.alive, NEW i \in DOMAIN shown,
                      shown[i].s \notin blurred, ~Of(c.out, shown[i].s), ~Of(events, shown[i].s)
               PROVE  \/ shown[i].status \in Active <=> c.turn[shown[i].s] # 0
                      \/ /\ InputStage /\ loop.s = shown[i].s /\ loop.result # "ok"
                         /\ ~HasYes(c.out, loop.id)
    BY <1>1 DEF RightPart, TurnRuns, Unserved, InputStage
  <2> DEFINE s == shown[i].s
  <2>1. s \in Sessions /\ ~LastWord(c, s)
    BY <1>3 DEF LastWord
  <2>2. SameWord(c, s)
    BY <2>1
  <2>3. (shown[i].status \in Active <=> TurnRuns(s)) \/ Unserved(s)
    BY <1>2, <2>2 DEF RightPart, SameWord
  <2>4. CASE shown[i].status \in Active <=> TurnRuns(s)
    BY <2>2, <2>4 DEF SameWord
  <2>5. CASE Unserved(s)
    <3>1. CASE ~HasYes(c.out, loop.id)
      BY <2>5, <3>1 DEF Unserved
    <3>2. CASE TurnRuns(s)
      <4>1. shown[i].status \in Active
        BY <1>2, <2>5 DEF InputPart, Unserved, Active
      <4> QED
        BY <2>2, <3>2, <4>1 DEF SameWord
    <3> QED
      BY <2>1, <2>5, <3>1, <3>2
  <2> QED
    BY <2>3, <2>4, <2>5
<1> QED
  BY <1>4, <1>5, <1>6, <1>7, <1>8 DEF ShownPart

\* Codex as it writes.
LEMMA SaysParts ==
  ASSUME NEW c \in CodexType, NEW items, c.out \o items \in Seq(Answers \cup TurnEvents)
  PROVE  /\ Says(c, items).out = c.out \o items /\ Says(c, items).in = c.in
         /\ Says(c, items).turn = c.turn /\ Says(c, items).alive = c.alive
BY DEF Says, CodexType

\* One thing is written, or two.
LEMMA WrittenParts ==
  ASSUME NEW S, NEW q \in Seq(S)
  PROVE  /\ \A x : q \o <<x>> = Append(q, x)
         /\ \A x, y : q \o <<x, y>> = Append(Append(q, x), y)
<1>1. Len(q) \in Nat /\ DOMAIN q = 1..Len(q)
  OBVIOUS
<1>2. ASSUME NEW x PROVE q \o <<x>> = Append(q, x)
  BY <1>1
<1>3. ASSUME NEW x, NEW y PROVE q \o <<x, y>> = Append(Append(q, x), y)
  BY <1>1
<1> QED
  BY <1>2, <1>3

\* An answer and an event are written, in one order or the other.
LEMMA BothWritten ==
  ASSUME NEW S, NEW q \in Seq(S), NEW a, a.is = "answer", NEW e, e.is = "event",
         NEW t, t = Append(Append(q, a), e) \/ t = Append(Append(q, e), a)
  PROVE  /\ Of(t, e.s)
         /\ \A b : (Lively(e) <=> b) => Ends(t, e.s, b)
         /\ \A s : s # e.s => (Of(t, s) <=> Of(q, s)) /\ \A b : Ends(q, s, b) => Ends(t, s, b)
         /\ \A id : HasAnswer(t, id) <=> HasAnswer(q, id) \/ a.id = id
         /\ \A id : HasYes(t, id) <=> HasYes(q, id) \/ (a.id = id /\ a.ok)
<1>1. Append(q, a) \in Seq(S \cup {a}) /\ Append(q, e) \in Seq(S \cup {e}) /\ a.is # "event"
      /\ e.is # "answer"
  BY AppendIs
<1>2. CASE t = Append(Append(q, a), e)
  <2>1. \A s : (Of(Append(q, a), s) <=> Of(q, s)) /\ \A b : Ends(Append(q, a), s, b) <=> Ends(q, s, b)
    BY <1>1, AnswerLast
  <2>2. /\ Of(t, e.s)
        /\ \A s : s # e.s => (Of(t, s) <=> Of(Append(q, a), s))
        /\ \A b : (Lively(e) <=> b) => Ends(t, e.s, b)
        /\ \A s, b : s # e.s => (Ends(t, s, b) <=> Ends(Append(q, a), s, b))
    BY <1>1, <1>2, EventLast
  <2>3. \A id : /\ HasAnswer(t, id) <=> HasAnswer(Append(q, a), id)
                /\ HasYes(t, id) <=> HasYes(Append(q, a), id)
                /\ HasAnswer(Append(q, a), id) <=> HasAnswer(q, id) \/ a.id = id
                /\ HasYes(Append(q, a), id) <=> HasYes(q, id) \/ (a.id = id /\ a.ok)
    BY <1>1, <1>2, AnswersIn
  <2> QED
    BY <2>1, <2>2, <2>3
<1>3. CASE t = Append(Append(q, e), a)
  <2>1. \A s : (Of(t, s) <=> Of(Append(q, e), s)) /\ \A b : Ends(t, s, b) <=> Ends(Append(q, e), s, b)
    BY <1>1, <1>3, AnswerLast
  <2>2. /\ Of(Append(q, e), e.s)
        /\ \A s : s # e.s => (Of(Append(q, e), s) <=> Of(q, s))
        /\ \A b : (Lively(e) <=> b) => Ends(Append(q, e), e.s, b)
        /\ \A s, b : s # e.s => (Ends(Append(q, e), s, b) <=> Ends(q, s, b))
    BY EventLast
  <2>3. \A id : /\ HasAnswer(t, id) <=> HasAnswer(Append(q, e), id) \/ a.id = id
                /\ HasYes(t, id) <=> HasYes(Append(q, e), id) \/ (a.id = id /\ a.ok)
                /\ HasAnswer(Append(q, e), id) <=> HasAnswer(q, id)
                /\ HasYes(Append(q, e), id) <=> HasYes(q, id)
    BY <1>1, <1>3, AnswersIn
  <2> QED
    BY <2>1, <2>2, <2>3
<1> QED
  BY <1>2, <1>3

\* The request Codex takes: its session and its id, and those that stay behind it.
LEMMA RequestTaken ==
  ASSUME SInv, codex.in # <<>>
  PROVE  /\ codex \in CodexType /\ codex.out \in Seq(Answers \cup TurnEvents) /\ Served \in CodexType
         /\ Served.in = Tail(codex.in) /\ Served.out = codex.out
         /\ Served.turn = codex.turn /\ Served.alive = codex.alive
         /\ Head(codex.in) \in Asked /\ Head(codex.in).id \in Nat /\ Head(codex.in).id <= lastId
         /\ Head(codex.in).s \in Sessions /\ Head(codex.in).by # 0
         /\ Requested(Head(codex.in).id)
         /\ \A i \in DOMAIN Tail(codex.in) : \E k \in DOMAIN codex.in : Tail(codex.in)[i] = codex.in[k]
         /\ Head(codex.in).what = "turn" /\ codex.alive => Head(codex.in).s \in allowed
         /\ \A s : Unserved(s) /\ Head(codex.in).id = loop.id =>
                     Head(codex.in).what = "turn" /\ Head(codex.in).s = s
         /\ loop.at # "starting"
<1>1. /\ codex \in CodexType /\ codex.in \in Seq(Asked) /\ codex.out \in Seq(Answers \cup TurnEvents)
      /\ AllowedPart /\ IdPart /\ InputPart /\ BetweenPart
  BY DEF SInv, ShownPart, IInv, CodexPart, CodexOf, CodexType
<1>2. /\ Tail(codex.in) \in Seq(Asked) /\ Head(codex.in) \in Asked /\ Head(codex.in) = codex.in[1]
      /\ 1 \in DOMAIN codex.in
      /\ \A i \in DOMAIN Tail(codex.in) : i + 1 \in DOMAIN codex.in /\ Tail(codex.in)[i] = codex.in[i + 1]
  BY <1>1, TailFacts
<1>3. /\ Served \in CodexType /\ Served.in = Tail(codex.in) /\ Served.out = codex.out
      /\ Served.turn = codex.turn /\ Served.alive = codex.alive
  BY <1>1, <1>2 DEF Served, CodexType
<1>4. /\ Head(codex.in).id \in Nat /\ Head(codex.in).s \in Sessions /\ Head(codex.in).by # 0
  BY <1>2 DEF Asked
<1>5. Head(codex.in).id <= lastId
  BY <1>1, <1>2 DEF IdPart
<1>6. Head(codex.in).what = "turn" /\ codex.alive => Head(codex.in).s \in allowed
  BY <1>1, <1>2, <1>4 DEF AllowedPart
<1>7. \A s : Unserved(s) /\ Head(codex.in).id = loop.id =>
               Head(codex.in).what = "turn" /\ Head(codex.in).s = s
  BY <1>1, <1>2 DEF InputPart, Unserved
<1>8. loop.at # "starting"
  BY <1>1 DEF BetweenPart
<1>9. Requested(Head(codex.in).id)
  BY <1>2 DEF Requested
<1> QED
  BY <1>1, <1>2, <1>3, <1>4, <1>5, <1>6, <1>7, <1>8, <1>9

\* Codex answers a request; the answer to an input says yes only when the session has a turn.
LEMMA AnsweredShown ==
  ASSUME SInv, codex.in # <<>>, NEW c, Does(c), NEW ok \in BOOLEAN,
         c.alive = codex.alive, c.in = Tail(codex.in), c.turn = codex.turn,
         c.out = Append(codex.out, Answer(Head(codex.in).id, ok)),
         ok /\ Head(codex.in).what = "turn" => TurnRuns(Head(codex.in).s)
  PROVE  ShownPart'
<1> DEFINE r == Head(codex.in)
           a == Answer(r.id, ok)
<1>1. /\ codex.out \in Seq(Answers \cup TurnEvents) /\ r.id \in Nat /\ Requested(r.id)
      /\ \A i \in DOMAIN Tail(codex.in) : \E k \in DOMAIN codex.in : Tail(codex.in)[i] = codex.in[k]
      /\ \A s : Unserved(s) /\ r.id = loop.id => r.what = "turn" /\ r.s = s
      /\ loop.at # "starting"
  BY RequestTaken
<1>2. a.is = "answer" /\ a.is # "event" /\ a.id = r.id /\ a.ok = ok
  BY DEF Answer
<1>3. c.out = Append(codex.out, a) /\ (ok /\ r.what = "turn" => TurnRuns(r.s))
  OBVIOUS
<1> HIDE DEF a, r
<1>4. /\ \A s : (Of(c.out, s) <=> Of(codex.out, s)) /\ \A b : Ends(c.out, s, b) <=> Ends(codex.out, s, b)
      /\ \A id : HasAnswer(c.out, id) <=> HasAnswer(codex.out, id) \/ a.id = id
      /\ \A id : HasYes(c.out, id) <=> HasYes(codex.out, id) \/ (a.id = id /\ a.ok)
  <2>1. \A s : (Of(c.out, s) <=> Of(codex.out, s)) /\ \A b : Ends(c.out, s, b) <=> Ends(codex.out, s, b)
    <3>1. \A s, b : /\ Of(Append(codex.out, a), s) <=> Of(codex.out, s)
                    /\ Ends(Append(codex.out, a), s, b) <=> Ends(codex.out, s, b)
      BY <1>1, <1>2, AnswerLast, Zenon
    <3> QED
      BY <1>3, <3>1, Zenon
  <2>2. /\ \A id : HasAnswer(c.out, id) <=> HasAnswer(codex.out, id) \/ a.id = id
        /\ \A id : HasYes(c.out, id) <=> HasYes(codex.out, id) \/ (a.id = id /\ a.ok)
    BY <1>1, <1>2, <1>3, AnswersIn
  <2> QED
    BY <2>1, <2>2
<1>5. \A id \in Nat : HasAnswer(c.out, id) => HasAnswer(codex.out, id) \/ Requested(id)
  BY <1>1, <1>2, <1>4
<1>6. \A s \in Sessions : SameWord(c, s)
  BY <1>4 DEF SameWord, TurnRuns
<1>7. \A s \in Sessions : Unserved(s) => ~HasYes(c.out, loop.id) \/ TurnRuns(s)
  BY <1>1, <1>2, <1>3, <1>4 DEF Unserved
<1> QED
  BY <1>1, <1>5, <1>6, <1>7, DoesShown

\* What is under way when Codex has answered a request and spoken of a session.
Spoken(c, s, id) ==
  /\ Of(c.out, s) /\ Ends(c.out, s, c.turn[s] # 0)
  /\ \A x : x # s => (Of(c.out, x) <=> Of(codex.out, x)) /\ \A b : Ends(codex.out, x, b) => Ends(c.out, x, b)
  /\ \A i : HasAnswer(c.out, i) => HasAnswer(codex.out, i) \/ i = id
  /\ \A i : HasYes(c.out, i) => HasYes(codex.out, i) \/ i = id

\* It writes both, in one order or the other.
LEMMA BothSaid ==
  ASSUME codex.out \in Seq(Answers \cup TurnEvents), NEW c, NEW s, NEW id, NEW what, NEW turn,
         \/ c.out = Append(Append(codex.out, Answer(id, TRUE)), Event(what, s, turn))
         \/ c.out = Append(Append(codex.out, Event(what, s, turn)), Answer(id, TRUE)),
         what \in {"started", "reasoning"} <=> c.turn[s] # 0
  PROVE  Spoken(c, s, id)
<1> DEFINE a == Answer(id, TRUE)
           e == Event(what, s, turn)
           t == c.out
<1>1. a.is = "answer" /\ e.is = "event"
  BY DEF Answer, Event
<1>2. a.id = id /\ e.s = s /\ (Lively(e) <=> c.turn[s] # 0)
  BY DEF Answer, Event, Lively
<1>3. t = Append(Append(codex.out, a), e) \/ t = Append(Append(codex.out, e), a)
  OBVIOUS
<1> HIDE DEF a, e, t
<1>4. /\ Of(t, e.s)
      /\ \A b : (Lively(e) <=> b) => Ends(t, e.s, b)
      /\ \A x : x # e.s => (Of(t, x) <=> Of(codex.out, x)) /\ \A b : Ends(codex.out, x, b) => Ends(t, x, b)
      /\ \A i : HasAnswer(t, i) <=> HasAnswer(codex.out, i) \/ a.id = i
      /\ \A i : HasYes(t, i) <=> HasYes(codex.out, i) \/ (a.id = i /\ a.ok)
  BY <1>1, <1>3, BothWritten, Zenon
<1> QED
  BY <1>2, <1>4 DEF Spoken, t

\* Codex answers a request and speaks of its session.
LEMMA SpokenShown ==
  ASSUME SInv, codex.alive, codex.in # <<>>, NEW c, Does(c),
         Head(codex.in).s \in allowed, Spoken(c, Head(codex.in).s, Head(codex.in).id),
         c.alive = codex.alive, c.in = Tail(codex.in),
         \A s \in Sessions : s # Head(codex.in).s => c.turn[s] = codex.turn[s]
  PROVE  ShownPart'
<1> DEFINE r == Head(codex.in)
<1>1. /\ Requested(r.id)
      /\ \A i \in DOMAIN Tail(codex.in) : \E k \in DOMAIN codex.in : Tail(codex.in)[i] = codex.in[k]
      /\ \A s : Unserved(s) /\ r.id = loop.id => r.what = "turn" /\ r.s = s
      /\ loop.at # "starting"
  BY RequestTaken
<1>2. /\ r.s \in allowed /\ Spoken(c, r.s, r.id)
      /\ \A s \in Sessions : s # r.s => c.turn[s] = codex.turn[s]
  OBVIOUS
<1> HIDE DEF r
<1>3. \A id \in Nat : HasAnswer(c.out, id) => HasAnswer(codex.out, id) \/ Requested(id)
  BY <1>1, <1>2 DEF Spoken
<1>4. LastWord(c, r.s)
  BY <1>2 DEF LastWord, Spoken
<1>5. \A s \in Sessions : s # r.s => SameWord(c, s)
  BY <1>2 DEF SameWord, TurnRuns, Spoken
<1>6. \A s \in Sessions : Unserved(s) /\ ~LastWord(c, s) => ~HasYes(c.out, loop.id)
  <2> SUFFICES ASSUME NEW s \in Sessions, Unserved(s), ~LastWord(c, s), HasYes(c.out, loop.id)
               PROVE  FALSE
    OBVIOUS
  <2>1. r.id = loop.id
    BY <1>2 DEF Unserved, Spoken
  <2>2. s = r.s
    BY <1>1, <2>1
  <2> QED
    BY <1>4, <2>2
<1>7. /\ \A i \in DOMAIN c.in : \E k \in DOMAIN codex.in : c.in[i] = codex.in[k]
      /\ \A s \in Sessions : SameWord(c, s) \/ LastWord(c, s)
      /\ \A s \in Sessions : Unserved(s) /\ ~LastWord(c, s) => ~HasYes(c.out, loop.id) \/ TurnRuns(s)
      /\ c.alive = codex.alive
  BY <1>1, <1>4, <1>5, <1>6
<1> QED
  BY <1>1, <1>3, <1>7, DoesShown, Zenon

\* A turn begun or ended in Codex, and nothing else of it.
WithTurn(c, s, turn) == [c EXCEPT !.turn[s] = turn]

Turned(c, s, turn, d) ==
  /\ d \in CodexType /\ d.in = c.in /\ d.out = c.out /\ d.alive = c.alive
  /\ d.turn[s] = turn /\ \A x \in Sessions : x # s => d.turn[x] = c.turn[x]
  /\ c.turn[s] = turn => d.turn = c.turn

LEMMA TurnSet ==
  ASSUME NEW c \in CodexType, NEW s \in Sessions, NEW turn \in Nat
  PROVE  Turned(c, s, turn, WithTurn(c, s, turn))
<1> DEFINE d == WithTurn(c, s, turn)
<1>1. c.turn \in [Sessions -> Nat] /\ d = [c EXCEPT !.turn = [c.turn EXCEPT ![s] = turn]]
  BY DEF CodexType, WithTurn
<1>2. [c.turn EXCEPT ![s] = turn] \in [Sessions -> Nat]
  BY <1>1
<1> HIDE DEF d
<1>3. d \in CodexType /\ d.in = c.in /\ d.out = c.out /\ d.alive = c.alive
      /\ d.turn = [c.turn EXCEPT ![s] = turn]
  BY <1>1, <1>2 DEF CodexType
<1>4. c.turn[s] = turn => [c.turn EXCEPT ![s] = turn] = c.turn
  BY <1>1
<1>5. d.turn[s] = turn /\ \A x \in Sessions : x # s => d.turn[x] = c.turn[x]
  BY <1>1, <1>3
<1>6. Turned(c, s, turn, d)
  BY <1>3, <1>4, <1>5 DEF Turned
<1> QED
  BY <1>6 DEF d

\* What Codex writes keeps to its types.
LEMMA WritesIn ==
  ASSUME NEW q \in Seq(Answers \cup TurnEvents), NEW id \in Nat, NEW s \in Sessions
  PROVE  /\ \A ok \in BOOLEAN : q \o <<Answer(id, ok)>> \in Seq(Answers \cup TurnEvents)
         /\ \A what \in {"started", "reasoning", "completed", "interrupted"}, turn \in Nat \ {0} :
              /\ q \o <<Event(what, s, turn)>> \in Seq(Answers \cup TurnEvents)
              /\ q \o <<Answer(id, TRUE), Event(what, s, turn)>> \in Seq(Answers \cup TurnEvents)
              /\ q \o <<Event(what, s, turn), Answer(id, TRUE)>> \in Seq(Answers \cup TurnEvents)
<1>1. \A ok \in BOOLEAN : Answer(id, ok) \in Answers
  BY DEF Answer, Answers
<1>2. \A what \in {"started", "reasoning", "completed", "interrupted"}, turn \in Nat \ {0} :
        Event(what, s, turn) \in TurnEvents
  BY DEF Event, TurnEvents
<1>3. \A x, y \in Answers \cup TurnEvents : <<x>> \in Seq(Answers \cup TurnEvents)
                                            /\ <<x, y>> \in Seq(Answers \cup TurnEvents)
  OBVIOUS
<1> QED
  BY <1>1, <1>2, <1>3, ConcatFacts

\* Codex takes a request.
LEMMA ServeShown == SInv /\ Serve => ShownPart'
<1> SUFFICES ASSUME SInv, Serve PROVE ShownPart'
  OBVIOUS
<1> DEFINE r == Head(codex.in)
           yes == Answer(r.id, TRUE)
           no == Answer(r.id, FALSE)
           begun == Event("started", r.s, r.by)
           ended == Event("interrupted", r.s, codex.turn[r.s])
           T == Answers \cup TurnEvents
<1>1. /\ codex.alive /\ codex.in # <<>>
      /\ \/ Does(Says(Served, <<no>>))
         \/ r.what \in {"read", "resume"} /\ Does(Says(Served, <<yes>>))
         \/ r.what = "start" /\ Does(Says([Served EXCEPT !.threads = @ \cup {r.s}], <<yes>>))
         \/ /\ r.what = "turn"
            /\ \E items \in {<<yes, begun>>, <<begun, yes>>} :
                 Does(Says([Served EXCEPT !.turn[r.s] = r.by], items))
         \/ r.what = "turn" /\ codex.turn[r.s] # 0 /\ Does(Says(Served, <<yes>>))
         \/ /\ r.what = "interrupt"
            /\ Does(Says([Served EXCEPT !.turn[r.s] = 0],
                         IF codex.turn[r.s] = 0 THEN <<yes>> ELSE <<yes, ended>>))
  BY DEF Serve
<1>2. /\ codex \in CodexType /\ codex.out \in Seq(T) /\ Served \in CodexType
      /\ Served.in = Tail(codex.in) /\ Served.out = codex.out
      /\ Served.turn = codex.turn /\ Served.alive = codex.alive
      /\ r \in Asked /\ r.id \in Nat /\ r.s \in Sessions
      /\ r.what = "turn" => r.s \in allowed
  BY <1>1, RequestTaken
<1>3. r.by \in Nat \ {0} /\ codex.turn[r.s] \in Nat
  BY <1>2 DEF Asked, CodexType
<1> HIDE DEF r
<1>4. /\ \A ok \in BOOLEAN : codex.out \o <<Answer(r.id, ok)>> \in Seq(T)
      /\ codex.out \o <<yes, begun>> \in Seq(T) /\ codex.out \o <<begun, yes>> \in Seq(T)
      /\ codex.turn[r.s] # 0 => codex.out \o <<yes, ended>> \in Seq(T)
  BY <1>2, <1>3, WritesIn
<1>5. /\ \A x : codex.out \o <<x>> = Append(codex.out, x)
      /\ \A x, y : codex.out \o <<x, y>> = Append(Append(codex.out, x), y)
  BY <1>2, WrittenParts
<1> HIDE DEF T
<1>6. ASSUME NEW c \in CodexType, c.in = Served.in, c.out = Served.out, c.turn = Served.turn,
             c.alive = Served.alive, NEW ok \in BOOLEAN, Does(Says(c, <<Answer(r.id, ok)>>)),
             ok /\ r.what = "turn" => TurnRuns(r.s)
      PROVE  ShownPart'
  <2> DEFINE d == Says(c, <<Answer(r.id, ok)>>)
  <2>1. c.out \o <<Answer(r.id, ok)>> \in Seq(Answers \cup TurnEvents)
    BY <1>2, <1>4, <1>6 DEF T
  <2>2. /\ d.out = c.out \o <<Answer(r.id, ok)>> /\ d.in = c.in /\ d.turn = c.turn /\ d.alive = c.alive
    BY <1>6, <2>1, SaysParts
  <2>3. Does(d)
    BY <1>6
  <2> HIDE DEF d
  <2>4. /\ d.out = Append(codex.out, Answer(r.id, ok)) /\ d.in = Tail(codex.in)
        /\ d.turn = codex.turn /\ d.alive = codex.alive
    BY <1>2, <1>5, <1>6, <2>2
  <2> QED
    BY <1>1, <1>6, <2>3, <2>4, AnsweredShown DEF r
<1>7. CASE \/ Does(Says(Served, <<no>>))
           \/ r.what \in {"read", "resume"} /\ Does(Says(Served, <<yes>>))
           \/ r.what = "turn" /\ codex.turn[r.s] # 0 /\ Does(Says(Served, <<yes>>))
  BY <1>2, <1>6, <1>7 DEF TurnRuns
<1>8. CASE r.what = "start" /\ Does(Says([Served EXCEPT !.threads = @ \cup {r.s}], <<yes>>))
  <2> DEFINE c == [Served EXCEPT !.threads = @ \cup {r.s}]
  <2>1. /\ c \in CodexType /\ c.in = Served.in /\ c.out = Served.out /\ c.turn = Served.turn
        /\ c.alive = Served.alive
    BY <1>2 DEF CodexType
  <2>2. Does(Says(c, <<yes>>)) /\ r.what # "turn"
    BY <1>8
  <2> HIDE DEF c
  <2> QED
    BY <1>6, <2>1, <2>2
<1>9. CASE /\ r.what = "turn"
           /\ \E items \in {<<yes, begun>>, <<begun, yes>>} :
                Does(Says([Served EXCEPT !.turn[r.s] = r.by], items))
  <2> DEFINE c == WithTurn(Served, r.s, r.by)
  <2>1. /\ c \in CodexType /\ c.in = Served.in /\ c.out = Served.out /\ c.alive = Served.alive
        /\ c.turn[r.s] = r.by /\ \A x \in Sessions : x # r.s => c.turn[x] = Served.turn[x]
    <3>1. r.by \in Nat
      BY <1>3
    <3>2. Turned(Served, r.s, r.by, c)
      BY <1>2, <3>1, TurnSet, Zenon
    <3> HIDE DEF c
    <3> QED
      BY <3>2 DEF Turned
  <2>2. PICK items \in {<<yes, begun>>, <<begun, yes>>} : Does(Says(c, items))
    BY <1>9 DEF WithTurn
  <2> HIDE DEF c, yes, begun
  <2> DEFINE d == Says(c, items)
  <2>3. c.out \o items \in Seq(Answers \cup TurnEvents)
    BY <1>2, <1>4, <2>1, <2>2 DEF T
  <2>4. d.out = c.out \o items /\ d.in = c.in /\ d.turn = c.turn /\ d.alive = c.alive
    BY <2>1, <2>3, SaysParts
  <2> HIDE DEF d
  <2>5. /\ d.out = Append(Append(codex.out, yes), begun) \/ d.out = Append(Append(codex.out, begun), yes)
        /\ d.in = Tail(codex.in) /\ d.alive = codex.alive /\ d.turn[r.s] = r.by
        /\ \A s \in Sessions : s # r.s => d.turn[s] = codex.turn[s]
    <3>1. d.out = codex.out \o items /\ (items = <<yes, begun>> \/ items = <<begun, yes>>)
      BY <1>2, <2>1, <2>2, <2>4
    <3>2. d.out = Append(Append(codex.out, yes), begun) \/ d.out = Append(Append(codex.out, begun), yes)
      BY <1>5, <3>1, Zenon
    <3> QED
      BY <1>2, <2>1, <2>4, <3>2
  <2>6. "started" \in {"started", "reasoning"} <=> d.turn[r.s] # 0
    BY <1>3, <2>5
  <2>7. Spoken(d, r.s, r.id)
    BY <1>2, <2>5, <2>6, BothSaid, Zenon DEF yes, begun, T
  <2>8. Does(d) /\ r.s \in allowed
    BY <1>2, <1>9, <2>2 DEF d
  <2> QED
    BY <1>1, <2>5, <2>7, <2>8, SpokenShown DEF r
<1>10. CASE /\ r.what = "interrupt"
            /\ Does(Says([Served EXCEPT !.turn[r.s] = 0],
                         IF codex.turn[r.s] = 0 THEN <<yes>> ELSE <<yes, ended>>))
  <2> DEFINE c == WithTurn(Served, r.s, 0)
  <2>1. /\ c \in CodexType /\ c.in = Served.in /\ c.out = Served.out /\ c.alive = Served.alive
        /\ c.turn[r.s] = 0 /\ \A x \in Sessions : x # r.s => c.turn[x] = Served.turn[x]
        /\ Served.turn[r.s] = 0 => c.turn = Served.turn
    <3>1. 0 \in Nat
      OBVIOUS
    <3>2. Turned(Served, r.s, 0, c)
      BY <1>2, <3>1, TurnSet, Zenon
    <3> HIDE DEF c
    <3> QED
      BY <3>2 DEF Turned
  <2>2. Does(Says(c, IF codex.turn[r.s] = 0 THEN <<yes>> ELSE <<yes, ended>>))
    BY <1>10 DEF WithTurn
  <2> HIDE DEF c
  <2>3. CASE codex.turn[r.s] = 0
    BY <1>2, <1>6, <1>10, <2>1, <2>2, <2>3
  <2>4. CASE codex.turn[r.s] # 0
    <3> HIDE DEF yes, ended
    <3> DEFINE d == Says(c, <<yes, ended>>)
    <3>1. c.out \o <<yes, ended>> \in Seq(Answers \cup TurnEvents)
      BY <1>2, <1>4, <2>1, <2>4 DEF T
    <3>2. d.out = c.out \o <<yes, ended>> /\ d.in = c.in /\ d.turn = c.turn /\ d.alive = c.alive
      BY <2>1, <3>1, SaysParts
    <3>3. Does(d)
      BY <2>2, <2>4
    <3> HIDE DEF d
    <3>4. /\ d.out = Append(Append(codex.out, yes), ended)
          /\ d.in = Tail(codex.in) /\ d.alive = codex.alive /\ d.turn[r.s] = 0
          /\ \A s \in Sessions : s # r.s => d.turn[s] = codex.turn[s]
      BY <1>2, <1>5, <2>1, <3>2
    <3>5. "interrupted" \in {"started", "reasoning"} <=> d.turn[r.s] # 0
      BY <3>4
    <3>6. Spoken(d, r.s, r.id)
      BY <1>2, <3>4, <3>5, BothSaid, Zenon DEF yes, ended, T
    <3>7. r.s \in allowed
      BY <1>1, <1>2, <2>4 DEF SInv, ShownPart, AllowedPart, TurnRuns
    <3> QED
      BY <1>1, <3>3, <3>4, <3>6, <3>7, SpokenShown DEF r
  <2> QED
    BY <2>3, <2>4
<1> QED
  BY <1>1, <1>7, <1>8, <1>9, <1>10

\* Codex speaks in a turn, or ends it.
LEMMA TurnShown ==
  ASSUME SInv, NEW s \in Sessions, Completes(s) \/ Reasons(s)
  PROVE  ShownPart'
<1>1. /\ codex \in CodexType /\ codex.out \in Seq(Answers \cup TurnEvents)
      /\ codex.turn[s] \in Nat \ {0} /\ TurnRuns(s)
      /\ AllowedPart /\ IdPart /\ BetweenPart
  <2>1. codex \in CodexType /\ codex.out \in Seq(Answers \cup TurnEvents) /\ codex.turn[s] # 0
    BY DEF SInv, IInv, CodexPart, CodexOf, OutputOf, Completes, Reasons
  <2> QED
    BY <2>1 DEF SInv, ShownPart, CodexType, TurnRuns
<1>2. codex.alive => s \in allowed
  BY <1>1 DEF AllowedPart
<1>3. loop.at # "starting"
  BY <1>1 DEF BetweenPart
<1>4. PICK what \in {"completed", "reasoning"}, turn \in Nat :
        /\ Does(Says(WithTurn(codex, s, turn), <<Event(what, s, codex.turn[s])>>))
        /\ what = "reasoning" <=> turn # 0
  <2>1. CASE Completes(s)
    BY <2>1 DEF Completes, WithTurn
  <2>2. CASE Reasons(s)
    <3>1. WithTurn(codex, s, codex.turn[s]) = codex
      BY <1>1 DEF CodexType, WithTurn
    <3>2. Does(Says(codex, <<Event("reasoning", s, codex.turn[s])>>))
      BY <2>2 DEF Reasons
    <3> QED
      BY <1>1, <3>1, <3>2
  <2> QED
    BY <2>1, <2>2
<1> DEFINE c == WithTurn(codex, s, turn)
           e == Event(what, s, codex.turn[s])
           d == Says(c, <<e>>)
<1>5. /\ c \in CodexType /\ c.in = codex.in /\ c.out = codex.out /\ c.alive = codex.alive
      /\ c.turn[s] = turn /\ \A x \in Sessions : x # s => c.turn[x] = codex.turn[x]
  <2>1. Turned(codex, s, turn, c)
    BY <1>1, TurnSet, Zenon
  <2> HIDE DEF c
  <2> QED
    BY <2>1 DEF Turned
<1>6. codex.out \o <<e>> \in Seq(Answers \cup TurnEvents)
  BY <1>1, WritesIn
<1>7. Does(d)
  BY <1>4
<1>8. e.is = "event" /\ e.is # "answer" /\ e.s = s /\ (Lively(e) <=> turn # 0)
  BY <1>4 DEF Event, Lively
<1> HIDE DEF c, e
<1>9. d.out = Append(codex.out, e) /\ d.in = codex.in /\ d.turn = c.turn /\ d.alive = codex.alive
  <2>1. c.out \o <<e>> \in Seq(Answers \cup TurnEvents)
    BY <1>5, <1>6
  <2>2. d.out = c.out \o <<e>> /\ d.in = c.in /\ d.turn = c.turn /\ d.alive = c.alive
    BY <1>5, <2>1, SaysParts
  <2>3. codex.out \o <<e>> = Append(codex.out, e)
    BY <1>1, WrittenParts
  <2> HIDE DEF d
  <2> QED
    BY <1>5, <2>2, <2>3
<1> HIDE DEF d
<1>10. /\ Of(d.out, s) /\ Ends(d.out, s, d.turn[s] # 0)
       /\ \A x : x # s => (Of(d.out, x) <=> Of(codex.out, x)) /\ \A b : Ends(codex.out, x, b) => Ends(d.out, x, b)
  <2>1. /\ Of(Append(codex.out, e), e.s)
        /\ \A x : x # e.s => (Of(Append(codex.out, e), x) <=> Of(codex.out, x))
        /\ \A b : (Lively(e) <=> b) => Ends(Append(codex.out, e), e.s, b)
        /\ \A x, b : x # e.s => (Ends(Append(codex.out, e), x, b) <=> Ends(codex.out, x, b))
    BY <1>1, <1>8, EventLast, Zenon
  <2> QED
    BY <1>5, <1>8, <1>9, <2>1
<1>11. \A id : /\ HasAnswer(d.out, id) <=> HasAnswer(codex.out, id)
               /\ HasYes(d.out, id) <=> HasYes(codex.out, id)
  <2>1. \A id :
          /\ HasAnswer(Append(codex.out, e), id) <=>
               HasAnswer(codex.out, id) \/ (e.is = "answer" /\ e.id = id)
          /\ HasYes(Append(codex.out, e), id) <=>
               HasYes(codex.out, id) \/ (e.is = "answer" /\ e.id = id /\ e.ok)
    BY <1>1, AnswersIn, Zenon
  <2> QED
    BY <1>8, <1>9, <2>1
<1>12. codex.alive => LastWord(d, s)
  BY <1>2, <1>10 DEF LastWord
<1>13. \A x \in Sessions : x # s => SameWord(d, x)
  BY <1>5, <1>9, <1>10 DEF SameWord, TurnRuns
<1>14. \A x : Unserved(x) => ~HasYes(d.out, loop.id)
  BY <1>11 DEF Unserved
<1>15. /\ \A i \in DOMAIN d.in : \E k \in DOMAIN codex.in : d.in[i] = codex.in[k]
       /\ \A id \in Nat : HasAnswer(d.out, id) => HasAnswer(codex.out, id) \/ Requested(id)
       /\ codex.alive => \A x \in Sessions : SameWord(d, x) \/ LastWord(d, x)
       /\ codex.alive => \A x \in Sessions :
            Unserved(x) /\ ~LastWord(d, x) => ~HasYes(d.out, loop.id) \/ TurnRuns(x)
       /\ d.alive = codex.alive
  BY <1>1, <1>9, <1>11, <1>12, <1>13, <1>14 DEF IdPart
<1> QED
  BY <1>3, <1>7, <1>15, DoesShown, Zenon

\* The process ends: it says no more, and runs nothing.
LEMMA DiesShown == SInv /\ Dies => ShownPart'
<1> SUFFICES ASSUME SInv, Dies PROVE ShownPart'
  OBVIOUS
<1>1. codex' = Died(codex) /\ UNCHANGED <<pending, events, loop, allowed, shown, lastId, blurred>>
  BY DEF Dies, Does
<1>2. ~codex'.alive /\ codex'.in = <<>> /\ codex'.out = codex.out /\ codex'.turn = [s \in Sessions |-> 0]
  BY <1>1 DEF Died, CodexType, SInv, IInv, CodexPart, CodexOf
<1>3. \A s \in Sessions : codex'.turn[s] = 0
  BY <1>2
<1>4. ListPart' /\ IdPart' /\ UnwrittenPart' /\ InputPart' /\ BetweenPart'
  BY <1>1, <1>2, <1>3 DEF SInv, ShownPart, ListPart, IdPart, Waits, UnwrittenPart, Writing, InputPart,
                          BetweenPart, Working, InputStage, TurnRuns
<1> QED
  BY <1>2, <1>4 DEF ShownPart, AllowedPart, LastPart, RightPart

\* The first run begins with an empty list and a process without turns.
LEMMA ShownInit == Init => SInv
<1> SUFFICES ASSUME Init PROVE SInv
  OBVIOUS
<1>1. /\ codex = Started /\ events = <<>> /\ loop = [at |-> "starting"] /\ shown = <<>>
      /\ pending = {} /\ lastId = 0
  BY DEF Init
<1>2. /\ codex.in = <<>> /\ codex.out = <<>> /\ \A s \in Sessions : codex.turn[s] = 0
  BY <1>1 DEF Started
<1>3. \A s \in Sessions : ~Of(<<>>, s) /\ \A b : Ends(<<>>, s, b)
  BY DEF Of, Ends
<1>4. ListPart /\ RightPart
  BY <1>1 DEF ListPart, RightPart, Once
<1>5. IdPart /\ UnwrittenPart /\ InputPart /\ BetweenPart
  BY <1>1, <1>2 DEF IdPart, HasAnswer, UnwrittenPart, Writing, Working, InputPart, InputStage,
                    BetweenPart, TurnRuns
<1>6. AllowedPart /\ LastPart
  BY <1>1, <1>2, <1>3 DEF AllowedPart, LastPart, TurnRuns
<1> QED
  BY <1>4, <1>5, <1>6, SessionsInit DEF SInv, ShownPart

\* Every step keeps what is shown right.
LEMMA ShownStep == SInv /\ [Next]_vars => SInv'
<1> SUFFICES ASSUME SInv, [Next]_vars PROVE SInv'
  OBVIOUS
<1>1. CASE Subscribe \/ Write \/ WriteFails \/ Refuse \/ GoOn \/ Finish \/ TimeOut \/ TakeEvent
  BY <1>1, SubscribeShown, WriteShown, WriteFailsShown, RefuseShown, GoOnShown, FinishShown,
     TimeOutShown, TakeEventShown, SessionsStep DEF SInv
<1>2. ASSUME NEW kind \in Kinds, NEW s \in Sessions, TakeCommand(kind, s) PROVE ShownPart'
  BY <1>2, TakeCommandShown
<1>3. CASE CodexLeft \/ Closed \/ SendFails \/ Reconnect \/ Read \/ ReadEnd \/ Serve \/ Dies
  BY <1>3, LeftShown, ReconnectShown, ReadShown, ReadEndShown, ServeShown, DiesShown,
     SessionsStep DEF SInv
<1>4. ASSUME NEW s \in Sessions, Completes(s) \/ Reasons(s) PROVE ShownPart'
  BY <1>4, TurnShown
<1>5. CASE UNCHANGED vars
  <2>1. UNCHANGED <<codex, pending, events, loop, allowed, shown, lastId, blurred>>
    BY <1>5 DEF vars
  <2>2. AllowedPart' /\ LastPart'
    BY <2>1, SameWords DEF SInv, ShownPart
  <2>3. RightPart'
    BY <2>1, SameList DEF SInv, ShownPart, Unserved, InputStage
  <2>4. ListPart' /\ IdPart' /\ UnwrittenPart' /\ InputPart' /\ BetweenPart'
    BY <2>1 DEF SInv, ShownPart, ListPart, IdPart, Waits, UnwrittenPart, Writing, InputPart,
                BetweenPart, Working, InputStage, TurnRuns
  <2> QED
    BY <2>2, <2>3, <2>4, SessionsStep DEF SInv, ShownPart
<1> QED
  BY <1>1, <1>2, <1>3, <1>4, <1>5, SessionsStep DEF Next, SInv

\* Whenever everything that was said has been heard, the monitor calls a session active just
\* when Codex works in it, except for the sessions it lost sight of in one of the known ways.
THEOREM ShownTurnsAlways == Spec => []ShownTurns
<1>1. SInv => ShownTurns
  <2> SUFFICES ASSUME SInv, loop.at = "idle", codex.alive, codex.out = <<>>, events = <<>>,
                      NEW i \in DOMAIN shown, shown[i].s \notin blurred
               PROVE  shown[i].status \in Active <=> codex.turn[shown[i].s] # 0
    BY DEF ShownTurns
  <2>1. ~Of(codex.out, shown[i].s) /\ ~Of(events, shown[i].s)
    BY DEF Of
  <2>2. ~Unserved(shown[i].s)
    BY DEF Unserved, InputStage
  <2> QED
    BY <2>1, <2>2 DEF SInv, ShownPart, RightPart, TurnRuns
<1> QED
  BY <1>1, ShownInit, ShownStep, PTL DEF Spec

-----------------------------------------------------------------------------
\* A file that is there has a provider and at least one line.
Texts == {Missing} \union [prov : Providers, lines : Nat \ {0}]
Repair == [phase : {"idle", "read", "writing", "tables", "state", "restoring", "leaving"},
           target : Providers \union {None}, text : [Threads -> Texts],
           todo : SUBSET Threads, done : SUBSET Threads, dbs : SUBSET Dbs,
           end : {"none", "synced", "failed"}]

\* Types of the data, the repairs, the cleanup and the deletion.
DataTypes ==
  /\ file \in [Threads -> Texts]
  /\ row \in [Dbs -> [Threads -> Providers \union {None}]]
  /\ index \subseteq Threads /\ serial \in Nat
  /\ \A k \in tokens : k.t \in Threads /\ k.prov \in Providers /\ k.text \in Texts
  /\ run \in [Runs -> Repair]
  /\ clean \in [phase : {"idle", "looking", "comparing", "writing"}, seen : SUBSET Threads,
                chosen : SUBSET Threads, late : SUBSET Threads, fresh : SUBSET Threads]
  /\ del \in [t : Threads \union {None}, left : SUBSET Dbs, remove : BOOLEAN]
  /\ del.left # {} \/ del.remove => del.t \in Threads
  /\ said \in [Threads -> Nat] /\ exposed \subseteq Threads /\ touched \subseteq Threads
  /\ last \in [Threads -> [n : Nat, prov : Providers \union {None}]]

\* Repairs and the cleanup work one at a time, each under the lock.
Locked ==
  /\ \A r \in Runs : Repairing(r) => lock /\ clean.phase = "idle" /\ run[r].target \in Providers
  /\ \A r, s \in Runs : Repairing(r) /\ Repairing(s) => r = s
  /\ \A r \in Runs : ~Repairing(r) => run[r] = NoRun
  /\ clean.phase # "idle" => lock

\* Nothing is known of a session that is still to come.
Unborn ==
  /\ \A t \in Threads : said[t] = 0 =>
       /\ file[t] = Missing /\ t \notin index \union clean.seen
       /\ \A d \in Dbs : row[d][t] = None
       /\ \A r \in Runs : run[r].text[t] = Missing
  /\ \A k \in tokens : said[k.t] # 0

\* The files a repair has read.
Taken(s) == {t \in Threads : s.text[t] # Missing}

\* How far a repair is.
Planned(s) ==
  /\ s.todo \subseteq Taken(s) /\ s.done \subseteq Taken(s) /\ s.todo \cap s.done = {}
  /\ s.phase \in {"read", "writing", "tables", "state"} =>
       \A t \in Taken(s) \ (s.todo \union s.done) : s.text[t].prov = s.target
  /\ s.phase = "read" => s.done = {}
  /\ s.phase \in {"tables", "state"} => s.todo = {}
  /\ s.phase = "leaving" => s.end \in {"synced", "failed"}

\* What it has made of the files and rows nobody else has touched.
Filed(s) ==
  \A t \in Taken(s) \ touched :
    /\ s.phase \in {"read", "writing", "tables", "state"} =>
         file[t].prov = IF t \in s.done THEN s.target ELSE s.text[t].prov
    /\ s.phase = "restoring" /\ t \notin s.done => file[t].prov = s.text[t].prov
    /\ s.phase = "leaving" /\ s.end = "synced" => file[t].prov = s.target
    /\ s.phase = "leaving" /\ s.end = "failed" => file[t].prov = s.text[t].prov

Rowed(s) ==
  \A t \in Threads \ touched, d \in Dbs :
    \/ s.phase = "tables" /\ d \notin s.dbs
    \/ s.phase = "state"
    \/ s.phase = "leaving" /\ s.end = "synced"
    => row[d][t] \in {None, s.target}

Repaired == \A r \in Runs : Planned(run[r]) /\ Filed(run[r]) /\ Rowed(run[r])

\* The directories of originals have numbers of their own.
Numbered ==
  /\ \A b \in saved : b.n \in 1..serial
  /\ \A b, c \in saved : b.n = c.n => b = c

\* A repair that overwrites files has the provider of each in the last backup.
Backed ==
  /\ \A r \in Runs : run[r].phase = "writing" =>
       \E b \in saved : /\ b.n = serial
                        /\ \A t \in run[r].todo : t \in DOMAIN b.prov /\ b.prov[t] = run[r].text[t].prov
  /\ OriginalsBackedUp

\* A backup of a deletion has all lines of the session.
Covered(t) == \E k \in tokens : k.t = t /\ k.text.lines >= said[t]
\* Of a session that is not exposed, the file, every text a repair holds of it, and the backup of
\* a file about to be removed have all lines.
Kept ==
  /\ \A t \in Threads \ exposed :
       /\ Present(t) => file[t].lines >= said[t]
       /\ \A r \in Runs : run[r].text[t] # Missing => run[r].text[t].lines >= said[t]
       /\ del.t = t /\ del.remove => Covered(t)
  /\ NothingLost

\* What the cleanup has chosen has no owner, but for sessions brought back since; what Codex added
\* to the index after the comparison is on record.
Cleaned ==
  /\ clean.phase \in {"comparing", "writing"} =>
       \A t \in clean.chosen : said[t] # 0 /\ (Live(t) => t \in clean.late)
  /\ clean.phase = "writing" => index \ clean.fresh \subseteq clean.seen

DInv == DataTypes /\ Locked /\ Unborn /\ Repaired /\ Numbered /\ Backed /\ Kept /\ Cleaned

\* What a text can be.
LEMMA TextFacts ==
  ASSUME NEW x \in Texts
  PROVE  /\ x # Missing => x.prov \in Providers /\ x.lines \in Nat /\ x.lines > 0
         /\ x = Missing => x.prov = None /\ x.lines = 0
         /\ x.prov \in Providers \union {None} /\ x.lines \in Nat
  BY DEF Texts, Missing, None

\* Codex has no session, and only the backup of an earlier repair is there.
LEMMA DataStarts == DataInit => DInv
<1> SUFFICES ASSUME DataInit PROVE DInv
  OBVIOUS
<1> USE DEF DataInit
<1>1. DataTypes
  BY DEF DataTypes, Texts, Repair, Missing, None, NoRun, NoCleanup, NoDeletion
<1>2. Locked /\ Unborn
  BY DEF Locked, Unborn, Repairing, NoRun, NoCleanup, Missing, None
<1>3. Repaired
  BY DEF Repaired, Planned, Filed, Rowed, Taken, NoRun, Missing
<1>4. Numbered
  BY DEF Numbered
<1>5. Backed
  BY DEF Backed, OriginalsBackedUp, NoRun
<1>6. Kept
  BY DEF Kept, NothingLost, Present, NoRun, NoDeletion, Missing
<1>7. Cleaned
  BY DEF Cleaned, NoCleanup
<1> QED
  BY <1>1, <1>2, <1>3, <1>4, <1>5, <1>6, <1>7 DEF DInv

\* Every step keeps the types.
LEMMA TypesStep == DInv /\ [DataNext]_codexVars => DataTypes'
<1> SUFFICES ASSUME DInv, [DataNext]_codexVars
             PROVE  DataTypes'
  OBVIOUS
<1> USE DEF DInv, DataTypes
<1>0. Missing \in Texts /\ NoRun \in Repair
  BY DEF Texts, Repair, NoRun, Missing, None
<1>1. ASSUME NEW t \in Threads, NewThread(t)
      PROVE  DataTypes'
  <2>1. PICK p \in Providers, ds \in Homes[t] :
           /\ file' = [file EXCEPT ![t] = [prov |-> p, lines |-> 1]]
           /\ row' = [d \in Dbs |-> IF d \in ds THEN [row[d] EXCEPT ![t] = p] ELSE row[d]]
    BY <1>1 DEF NewThread
  <2>2. [prov |-> p, lines |-> 1] \in Texts
    BY DEF Texts
  <2>3. file' \in [Threads -> Texts]
    BY <2>1, <2>2
  <2>4. row' \in [Dbs -> [Threads -> Providers \union {None}]]
    BY <2>1
  <2>5. touched' \subseteq Threads
    BY <1>1 DEF NewThread, Touch
  <2> QED
    BY <1>1, <2>3, <2>4, <2>5 DEF NewThread, counters
<1>2. ASSUME NEW t \in Threads, AppendLine(t)
      PROVE  DataTypes'
  <2>1. file[t] # Missing /\ file' = [file EXCEPT ![t].lines = @ + 1] /\ said' = [said EXCEPT ![t] = @ + 1]
    BY <1>2 DEF AppendLine, Present
  <2>2. [file[t] EXCEPT !.lines = @ + 1] \in Texts
    BY <2>1 DEF Texts
  <2>3. file' \in [Threads -> Texts]
    BY <2>1, <2>2
  <2>4. exposed' \subseteq Threads
    BY <1>2 DEF AppendLine, Exposed
  <2>5. said' \in [Threads -> Nat]
    BY <2>1
  <2> QED
    BY <1>2, <2>3, <2>4, <2>5 DEF AppendLine, counters
<1>3. ASSUME NEW t \in Threads, Name(t) \/ Delete(t)
      PROVE  DataTypes'
  <2>1. CASE Name(t)
    <3>1. clean' = clean \/ clean' = [clean EXCEPT !.fresh = @ \union {t}]
      BY <2>1 DEF Name
    <3>2. clean' \in [phase : {"idle", "looking", "comparing", "writing"}, seen : SUBSET Threads,
                      chosen : SUBSET Threads, late : SUBSET Threads, fresh : SUBSET Threads]
      <4>1. clean.fresh \union {t} \in SUBSET Threads
        OBVIOUS
      <4> QED
        BY <3>1, <4>1
    <3> QED
      BY <2>1, <3>2 DEF Name, counters, ghosts
  <2>2. CASE Delete(t)
    BY <2>2 DEF Delete, dataVars, ghosts
  <2> QED
    BY <1>3, <2>1, <2>2
<1>4. ASSUME NEW r \in Runs, RepairStep(r)
      PROVE  DataTypes'
  <2> DEFINE s == run[r]
  <2>0. s \in Repair
    OBVIOUS
  <2>1. CASE Begin(r)
    <3>1. PICK p \in Providers, busy \in SUBSET {t \in Threads : Present(t)} : Go(r, ReadText(p, busy))
      BY <2>1 DEF Begin
    <3>2. ReadText(p, busy) \in Repair
      BY <1>0 DEF ReadText, Repair, NoRun
    <3> QED
      BY <2>1, <3>1, <3>2 DEF Begin, Go, dataVars, counters
  <2>2. CASE BeginFails(r)
    BY <2>2 DEF BeginFails, dataVars, counters, ghosts
  <2>3. CASE UpToDate(r)
    <3>1. [s EXCEPT !.phase = "leaving", !.end = "synced"] \in Repair
      BY <2>0 DEF Repair
    <3> QED
      BY <2>3, <3>1 DEF UpToDate, Leave, Go, dataVars, counters, ghosts
  <2>4. CASE SaveOriginals(r)
    <3>1. Written(s) \in Repair
      BY <2>0 DEF Written, Repair
    <3>2. run' \in [Runs -> Repair] /\ touched' \subseteq Threads
      BY <1>0, <2>4, <3>1 DEF SaveOriginals, Goes, GiveUp, Freed, Go
    <3> QED
      BY <2>4, <3>2 DEF SaveOriginals, dataVars
  <2>5. CASE WriteFile(r)
    <3>1. PICK t \in s.todo :
       \/ /\ file' = [file EXCEPT ![t] = Overwritten(r, t)]
          /\ last' = [last EXCEPT ![t] =
                        IF Present(t) /\ t \notin touched THEN [n |-> serial, prov |-> file[t].prov]
                        ELSE [n |-> 0, prov |-> None]]
          /\ Goes(r, Written([run[r] EXCEPT !.todo = @ \ {t}, !.done = @ \union {t}]))
       \/ /\ Goes(r, Written([run[r] EXCEPT !.todo = @ \ {t}, !.text[t] = Missing]))
          /\ UNCHANGED <<file, last>>
       \/ GiveUp(r) /\ UNCHANGED <<file, last>>
      BY <2>5 DEF WriteFile
    <3>2. t \in Threads /\ s.text[t] # Missing /\ s.target \in Providers
      <4>1. Repairing(r) /\ Planned(s)
        BY <2>5 DEF WriteFile, At, Repairing, Repaired
      <4> QED
        BY <2>0, <3>1, <4>1 DEF Planned, Taken, Locked
    <3>3. Overwritten(r, t) \in Texts
      BY <2>0, <3>2 DEF Overwritten, Texts, Repair
    <3>4. \A x \in Repair : Written(x) \in Repair
      BY DEF Written, Repair
    <3>5. /\ [s EXCEPT !.todo = @ \ {t}, !.done = @ \union {t}] \in Repair
          /\ [s EXCEPT !.todo = @ \ {t}, !.text[t] = Missing] \in Repair
      BY <1>0, <2>0, <3>2 DEF Repair
    <3>6. /\ Written([s EXCEPT !.todo = @ \ {t}, !.done = @ \union {t}]) \in Repair
          /\ Written([s EXCEPT !.todo = @ \ {t}, !.text[t] = Missing]) \in Repair
      BY <3>4, <3>5
    <3>7. run' \in [Runs -> Repair] /\ touched' \subseteq Threads
      BY <1>0, <3>1, <3>6 DEF Goes, GiveUp, Freed, Go
    <3>8. file' \in [Threads -> Texts]
      BY <3>1, <3>3
    <3>9. file[t].prov \in Providers \union {None}
      BY <3>2, TextFacts
    <3>10. last' \in [Threads -> [n : Nat, prov : Providers \union {None}]]
      BY <3>1, <3>9
    <3> QED
      BY <2>5, <3>7, <3>8, <3>10 DEF WriteFile, counters
  <2>6. CASE UpdateRows(r)
    <3>1. s.target \in Providers
      BY <2>6 DEF UpdateRows, At, Locked, Repairing
    <3>2. PICK d \in s.dbs :
       \/ /\ row' = [row EXCEPT ![d] = [t \in Threads |->
                       IF row[d][t] = None THEN None ELSE run[r].target]]
          /\ Go(r, [run[r] EXCEPT !.dbs = @ \ {d},
                                  !.phase = IF run[r].dbs = {d} THEN "state" ELSE "tables"])
       \/ StartRestore(r) /\ UNCHANGED row
      BY <2>6 DEF UpdateRows
    <3>3. d \in Dbs
      BY <2>0, <3>2 DEF Repair
    <3>4. row' \in [Dbs -> [Threads -> Providers \union {None}]]
      BY <3>1, <3>2, <3>3
    <3>5. /\ [s EXCEPT !.dbs = @ \ {d}, !.phase = IF s.dbs = {d} THEN "state" ELSE "tables"] \in Repair
          /\ [s EXCEPT !.phase = "leaving", !.end = "failed"] \in Repair
          /\ [s EXCEPT !.phase = "restoring"] \in Repair
      BY <2>0 DEF Repair
    <3>6. run' \in [Runs -> Repair]
      BY <3>2, <3>5 DEF StartRestore, Leave, Go
    <3> QED
      BY <2>6, <3>4, <3>6 DEF UpdateRows, counters, ghosts
  <2>7. CASE FinishRepair(r)
    <3>1. /\ [s EXCEPT !.phase = "leaving", !.end = "failed"] \in Repair
          /\ [s EXCEPT !.phase = "leaving", !.end = "synced"] \in Repair
          /\ [s EXCEPT !.phase = "restoring"] \in Repair
      BY <2>0 DEF Repair
    <3>2. run' \in [Runs -> Repair]
      BY <2>7, <3>1 DEF FinishRepair, StartRestore, Leave, Go
    <3> QED
      BY <2>7, <3>2 DEF FinishRepair, dataVars, counters, ghosts
  <2>8. CASE RestoreFile(r)
    <3>1. PICK t \in s.done :
       \/ /\ file' = [file EXCEPT ![t] = run[r].text[t]]
          /\ IF run[r].done = {t} THEN Goes(r, [run[r] EXCEPT !.phase = "leaving", !.end = "failed"])
             ELSE Goes(r, [run[r] EXCEPT !.done = @ \ {t}])
       \/ GiveUp(r) /\ UNCHANGED file
      BY <2>8 DEF RestoreFile
    <3>2. /\ [s EXCEPT !.phase = "leaving", !.end = "failed"] \in Repair
          /\ [s EXCEPT !.done = @ \ {t}] \in Repair
      BY <2>0 DEF Repair
    <3>3. run' \in [Runs -> Repair] /\ touched' \subseteq Threads
      <4>1. CASE GiveUp(r)
        BY <1>0, <4>1 DEF GiveUp, Freed, Go
      <4>2. CASE Goes(r, [s EXCEPT !.phase = "leaving", !.end = "failed"])
        BY <3>2, <4>2 DEF Goes, Go
      <4>3. CASE Goes(r, [s EXCEPT !.done = @ \ {t}])
        BY <3>2, <4>3 DEF Goes, Go
      <4> QED
        BY <3>1, <4>1, <4>2, <4>3
    <3>4. s.text \in [Threads -> Texts] /\ t \in Threads
      BY <2>0, <3>1 DEF Repair
    <3>5. file' \in [Threads -> Texts]
      BY <3>1, <3>4
    <3> QED
      BY <2>8, <3>3, <3>5 DEF RestoreFile, counters
  <2>9. CASE Release(r)
    BY <1>0, <2>9 DEF Release, Freed, Go, dataVars, counters
  <2> QED
    BY <1>4, <2>1, <2>2, <2>3, <2>4, <2>5, <2>6, <2>7, <2>8, <2>9 DEF RepairStep
<1>5. CASE CleanupStep
  <2> USE DEF ToClean, EndCleanup, NoCleanup, dataVars, counters, ghosts
  <2>1. CASE Apply
    BY <2>1 DEF Apply
  <2>2. CASE Look
    <3>1. Dead \subseteq Threads
      BY DEF Dead
    <3>2. \/ \E chosen \in SUBSET Dead :
               clean' = [NoCleanup EXCEPT !.phase = "comparing", !.seen = index, !.chosen = chosen]
          \/ clean' = NoCleanup
      BY <2>2 DEF Look
    <3>3. clean' \in [phase : {"idle", "looking", "comparing", "writing"}, seen : SUBSET Threads,
                      chosen : SUBSET Threads, late : SUBSET Threads, fresh : SUBSET Threads]
      <4>1. ASSUME NEW chosen \in SUBSET Dead,
                   clean' = [NoCleanup EXCEPT !.phase = "comparing", !.seen = index, !.chosen = chosen]
            PROVE  clean' = [phase |-> "comparing", seen |-> index, chosen |-> chosen, late |-> {}, fresh |-> {}]
        BY <4>1
      <4>2. \A chosen \in SUBSET Dead : chosen \in SUBSET Threads
        BY <3>1
      <4>3. index \in SUBSET Threads /\ {} \in SUBSET Threads
        OBVIOUS
      <4>4. CASE clean' = NoCleanup
        BY <4>3, <4>4
      <4>5. CASE \E chosen \in SUBSET Dead :
               clean' = [NoCleanup EXCEPT !.phase = "comparing", !.seen = index, !.chosen = chosen]
        <5>1. PICK chosen \in SUBSET Dead :
               clean' = [phase |-> "comparing", seen |-> index, chosen |-> chosen, late |-> {}, fresh |-> {}]
          BY <4>1, <4>5
        <5> QED
          BY <4>2, <4>3, <5>1
      <4> QED
        BY <3>2, <4>4, <4>5
    <3> QED
      BY <2>2, <3>3 DEF Look
  <2>3. CASE Compare
    BY <2>3 DEF Compare
  <2>4. CASE WriteIndex
    BY <2>4 DEF WriteIndex
  <2> QED
    BY <1>5, <2>1, <2>2, <2>3, <2>4 DEF CleanupStep
<1>6. CASE DeletionStep
  <2>1. ASSUME NEW d \in Dbs, DeleteRow(d)
        PROVE  DataTypes'
    <3>1. d \in del.left /\ del.t \in Threads /\ ~del.remove
      BY <2>1 DEF DeleteRow
    <3>2. row' \in [Dbs -> [Threads -> Providers \union {None}]]
      <4>1. row' = row \/ row' = [row EXCEPT ![d][del.t] = None]
        BY <2>1 DEF DeleteRow, SkipDb
      <4>2. [row EXCEPT ![d][del.t] = None] \in [Dbs -> [Threads -> Providers \union {None}]]
        BY <3>1
      <4> QED
        BY <4>1, <4>2
    <3>3. touched' \subseteq Threads
      BY <2>1, <3>1 DEF DeleteRow, SkipDb, Touch
    <3>4. \A k \in tokens' : k.t \in Threads /\ k.prov \in Providers /\ k.text \in Texts
      <4>1. UNCHANGED tokens \/
            (/\ row[d][del.t] # None
             /\ \E text \in Found(del.t) :
                  tokens' = tokens \union {[t |-> del.t, prov |-> row[d][del.t], text |-> text]})
        BY <2>1 DEF DeleteRow, SkipDb
      <4>2. row[d][del.t] # None => row[d][del.t] \in Providers
        BY <3>1
      <4>3. \A text \in Found(del.t) : text \in Texts
        BY <1>0, <3>1 DEF Found
      <4> QED
        BY <3>1, <4>1, <4>2, <4>3
    <3>5. PICK rm \in BOOLEAN : del' = Rest([del EXCEPT !.left = @ \ {d}, !.remove = rm])
      <4>1. \E text : \/ del' = Rest([del EXCEPT !.left = @ \ {d}])
                     \/ del' = Rest([del EXCEPT !.left = @ \ {d}, !.remove = text # Missing])
        BY <2>1 DEF DeleteRow, SkipDb
      <4>2. [del EXCEPT !.left = @ \ {d}] = [del EXCEPT !.left = @ \ {d}, !.remove = FALSE]
        BY <3>1
      <4> QED
        BY <4>1, <4>2
    <3>6. /\ del' \in [t : Threads \union {None}, left : SUBSET Dbs, remove : BOOLEAN]
          /\ del'.left # {} \/ del'.remove => del'.t \in Threads
      BY <3>1, <3>5 DEF Rest, NoDeletion
    <3> QED
      BY <2>1, <3>2, <3>3, <3>4, <3>6 DEF DeleteRow, counters
  <2>2. CASE RemoveFile
    <3>1. file' \in [Threads -> Texts]
      BY <1>0, <2>2 DEF RemoveFile
    <3>2. del.t \in Threads /\ del' = Rest([del EXCEPT !.remove = FALSE])
      BY <2>2 DEF RemoveFile
    <3>3. /\ del' \in [t : Threads \union {None}, left : SUBSET Dbs, remove : BOOLEAN]
          /\ del'.left # {} \/ del'.remove => del'.t \in Threads
      BY <3>2 DEF Rest, NoDeletion
    <3>4. touched' \subseteq Threads
      BY <2>2, <3>2 DEF RemoveFile, Touch
    <3> QED
      BY <2>2, <3>1, <3>3, <3>4 DEF RemoveFile, counters
  <2>3. CASE Undo
    <3>1. PICK k \in tokens :
       /\ row' = [row EXCEPT ![FirstDb][k.t] = k.prov]
       /\ \/ /\ k.text # Missing
             /\ file' = [file EXCEPT ![k.t] = k.text]
             /\ said' = [said EXCEPT ![k.t] = k.text.lines]
             /\ Exposed(k.t)
          \/ UNCHANGED <<file, said, exposed>>
       /\ touched' = Touch(k.t)
       /\ clean' = IF clean.phase \in {"comparing", "writing"}
                   THEN [clean EXCEPT !.late = @ \union {k.t}] ELSE clean
      BY <2>3 DEF Undo
    <3>2. k.t \in Threads /\ k.prov \in Providers /\ k.text \in Texts /\ k.text.lines \in Nat
      BY TextFacts
    <3>3. row' \in [Dbs -> [Threads -> Providers \union {None}]]
      BY <3>1, <3>2, DbAssumption
    <3>4. file' \in [Threads -> Texts] /\ said' \in [Threads -> Nat]
      BY <3>1, <3>2
    <3>5. touched' \subseteq Threads /\ exposed' \subseteq Threads
      BY <3>1, <3>2 DEF Touch, Exposed
    <3>6. clean' \in [phase : {"idle", "looking", "comparing", "writing"}, seen : SUBSET Threads,
                      chosen : SUBSET Threads, late : SUBSET Threads, fresh : SUBSET Threads]
      BY <3>1, <3>2
    <3> QED
      BY <2>3, <3>3, <3>4, <3>5, <3>6 DEF Undo, counters
  <2> QED
    BY <1>6, <2>1, <2>2, <2>3 DEF DeletionStep
<1>7. CASE Crash
  <2>1. run' \in [Runs -> Repair]
    BY <1>0, <1>7 DEF Crash, Go
  <2>2. clean' = clean \/ clean' = NoCleanup
    BY <1>7 DEF Crash, ToClean
  <2>3. clean' \in [phase : {"idle", "looking", "comparing", "writing"}, seen : SUBSET Threads,
                    chosen : SUBSET Threads, late : SUBSET Threads, fresh : SUBSET Threads]
    BY <2>2 DEF NoCleanup
  <2>4. del' = del \/ del' = NoDeletion
    BY <1>7 DEF Crash
  <2>5. /\ del' \in [t : Threads \union {None}, left : SUBSET Dbs, remove : BOOLEAN]
        /\ del'.left # {} \/ del'.remove => del'.t \in Threads
    <3>1. CASE del' = del
      BY <3>1
    <3>2. CASE del' = NoDeletion
      BY <3>2 DEF NoDeletion
    <3> QED
      BY <2>4, <3>1, <3>2
  <2>6. touched' \subseteq Threads
    BY <1>7 DEF Crash
  <2> QED
    BY <1>7, <2>1, <2>3, <2>5, <2>6 DEF Crash, dataVars, counters
<1>8. CASE UNCHANGED codexVars
  BY <1>8 DEF codexVars, dataVars, counters, ghosts
<1> QED
  BY <1>1, <1>2, <1>3, <1>4, <1>5, <1>6, <1>7, <1>8 DEF DataNext

\* What every step of a repair leaves alone and what it may change.
\* What the steps of a repair have in common: they leave the cleanup, the deletion and the
\* history of lines alone, write a file only with the text they hold of it, make no row come or go,
\* and either begin, free the lock or keep the lock and the provider they aim at.
LEMMA RepairShape ==
  ASSUME DInv, NEW r \in Runs, RepairStep(r)
  PROVE  /\ clean' = clean /\ said' = said /\ exposed' = exposed /\ tokens' = tokens
         /\ del' = del /\ index' = index
         /\ \A t \in Threads :
              \/ file'[t] = file[t]
              \/ /\ run[r].text[t] # Missing /\ file'[t] # Missing
                 /\ file'[t].lines = run[r].text[t].lines
         /\ \A d \in Dbs, t \in Threads : row'[d][t] = None <=> row[d][t] = None
         /\ \/ Begin(r) \/ BeginFails(r)
            \/ Repairing(r) /\ Freed(r)
            \/ /\ Repairing(r) /\ lock' = lock /\ touched' = touched
               /\ \E x \in Repair :
                    /\ Go(r, x) /\ x.phase # "idle" /\ x.target = run[r].target
                    /\ \A t \in Threads : x.text[t] \in {run[r].text[t], Missing}
<1> DEFINE s == run[r]
<1> USE DEF DInv, DataTypes
<1>0. s \in Repair /\ Missing \in Texts
  BY DEF Missing, Texts, None
<1> DEFINE Goal == /\ clean' = clean /\ said' = said /\ exposed' = exposed /\ tokens' = tokens
                   /\ del' = del /\ index' = index
           Files == \A t \in Threads :
              \/ file'[t] = file[t]
              \/ /\ run[r].text[t] # Missing /\ file'[t] # Missing
                 /\ file'[t].lines = run[r].text[t].lines
           Rows == \A d \in Dbs, t \in Threads : row'[d][t] = None <=> row[d][t] = None
           Moves(x) == /\ Go(r, x) /\ x.phase # "idle" /\ x.target = run[r].target
                       /\ \A t \in Threads : x.text[t] \in {run[r].text[t], Missing}
           On == Repairing(r) /\ lock' = lock /\ touched' = touched /\ \E x \in Repair : Moves(x)
           Off == Repairing(r) /\ Freed(r)
<1> SUFFICES Goal /\ Files /\ Rows /\ (Begin(r) \/ BeginFails(r) \/ Off \/ On)
  OBVIOUS
<1> USE DEF At, Repairing, dataVars, counters, ghosts
<1>1. CASE Begin(r)
  BY <1>1 DEF Begin
<1>2. CASE BeginFails(r)
  BY <1>2 DEF BeginFails
<1>3. CASE UpToDate(r)
  <2>1. Moves([s EXCEPT !.phase = "leaving", !.end = "synced"]) /\ [s EXCEPT !.phase = "leaving", !.end = "synced"] \in Repair
    BY <1>0, <1>3 DEF UpToDate, Leave, Repair
  <2>2. On
    BY <1>3, <2>1 DEF UpToDate
  <2> QED
    BY <1>3, <2>2 DEF UpToDate
<1>4. CASE SaveOriginals(r)
  <2>1. Goal /\ Files /\ Rows /\ Repairing(r)
    BY <1>4 DEF SaveOriginals
  <2>2. CASE GiveUp(r)
    BY <2>1, <2>2 DEF GiveUp
  <2>3. CASE Goes(r, Written(s))
    <3>1. Written(s) \in Repair /\ Moves(Written(s))
      BY <1>0, <2>3 DEF Written, Repair, Goes
    <3> QED
      BY <2>1, <2>3, <3>1 DEF Goes
  <2> QED
    BY <1>4, <2>2, <2>3 DEF SaveOriginals
<1>5. CASE WriteFile(r)
  <2>1. PICK t \in s.todo :
       \/ /\ file' = [file EXCEPT ![t] = Overwritten(r, t)]
          /\ Goes(r, Written([run[r] EXCEPT !.todo = @ \ {t}, !.done = @ \union {t}]))
       \/ /\ Goes(r, Written([run[r] EXCEPT !.todo = @ \ {t}, !.text[t] = Missing]))
          /\ UNCHANGED <<file, last>>
       \/ GiveUp(r) /\ UNCHANGED <<file, last>>
    BY <1>5 DEF WriteFile
  <2>2. Goal /\ Rows /\ Repairing(r)
    BY <1>5 DEF WriteFile
  <2>3. t \in Threads /\ s.text[t] # Missing /\ s.target \in Providers /\ s.text[t] \in Texts
    BY <1>0, <2>2 DEF Planned, Taken, Repaired, Locked, Repair
  <2>4. Overwritten(r, t) # Missing /\ Overwritten(r, t).lines = s.text[t].lines
    BY <2>3, TextFacts DEF Overwritten, Missing, Texts
  <2>5. Files
    BY <2>1, <2>3, <2>4
  <2>6. CASE GiveUp(r)
    BY <2>2, <2>5, <2>6 DEF GiveUp
  <2>7. CASE Goes(r, Written([s EXCEPT !.todo = @ \ {t}, !.done = @ \union {t}]))
    <3> DEFINE x == [s EXCEPT !.todo = @ \ {t}, !.done = @ \union {t}]
    <3>1. x \in Repair /\ x.phase = s.phase /\ x.target = s.target /\ x.text = s.text
      BY <1>0, <2>3 DEF Repair
    <3>2. Goes(r, Written(x))
      BY <2>7
    <3> HIDE DEF x
    <3>3. Written(x) \in Repair /\ Moves(Written(x))
      BY <3>1, <3>2 DEF Written, Repair, Goes
    <3> QED
      BY <2>2, <2>5, <3>2, <3>3 DEF Goes
  <2>8. CASE Goes(r, Written([s EXCEPT !.todo = @ \ {t}, !.text[t] = Missing]))
    <3> DEFINE x == [s EXCEPT !.todo = @ \ {t}, !.text[t] = Missing]
    <3>1. /\ x \in Repair /\ x.phase = s.phase /\ x.target = s.target
          /\ \A u \in Threads : x.text[u] \in {s.text[u], Missing}
      BY <1>0, <2>3 DEF Repair
    <3>2. Goes(r, Written(x))
      BY <2>8
    <3> HIDE DEF x
    <3>3. Written(x) \in Repair /\ Moves(Written(x))
      BY <3>1, <3>2 DEF Written, Repair, Goes
    <3> QED
      BY <2>2, <2>5, <3>2, <3>3 DEF Goes
  <2> QED
    BY <2>1, <2>6, <2>7, <2>8
<1> DEFINE Restored == [s EXCEPT !.phase = "restoring"]
           Failed == [s EXCEPT !.phase = "leaving", !.end = "failed"]
           Synced == [s EXCEPT !.phase = "leaving", !.end = "synced"]
<1>10. Restored \in Repair /\ Failed \in Repair /\ Synced \in Repair
  BY <1>0 DEF Repair
<1>11. /\ StartRestore(r) => Moves(Restored) \/ Moves(Failed)
       /\ Leave(r, "synced") => Moves(Synced)
  BY <1>0 DEF StartRestore, Leave, Repair
<1>6. CASE UpdateRows(r)
  <2>1. PICK d \in s.dbs :
       \/ /\ row' = [row EXCEPT ![d] = [t \in Threads |->
                       IF row[d][t] = None THEN None ELSE run[r].target]]
          /\ Go(r, [run[r] EXCEPT !.dbs = @ \ {d},
                                  !.phase = IF run[r].dbs = {d} THEN "state" ELSE "tables"])
       \/ StartRestore(r) /\ UNCHANGED row
    BY <1>6 DEF UpdateRows
  <2>2. Goal /\ Files /\ Repairing(r) /\ lock' = lock /\ touched' = touched
    BY <1>6 DEF UpdateRows
  <2>3. s.target \in Providers /\ s.target # None
    BY <2>2, ProviderAssumption DEF Locked, None
  <2>d. d \in Dbs
    BY <1>0, <2>1 DEF Repair
  <2>4. Rows
    <3>1. CASE row' = [row EXCEPT ![d] = [t \in Threads |->
                       IF row[d][t] = None THEN None ELSE run[r].target]]
      <4>1. /\ row'[d] = [t \in Threads |-> IF row[d][t] = None THEN None ELSE s.target]
            /\ \A e \in Dbs \ {d} : row'[e] = row[e]
        BY <2>d, <3>1
      <4>2. \A t \in Threads : row'[d][t] = None <=> row[d][t] = None
        BY <2>3, <4>1
      <4> QED
        BY <4>1, <4>2
    <3>2. CASE row' = row
      BY <3>2
    <3> QED
      BY <2>1, <3>1, <3>2
  <2>5. CASE StartRestore(r)
    BY <1>10, <1>11, <2>2, <2>4, <2>5
  <2>6. CASE Go(r, [s EXCEPT !.dbs = @ \ {d}, !.phase = IF s.dbs = {d} THEN "state" ELSE "tables"])
    <3> DEFINE x == [s EXCEPT !.dbs = @ \ {d}, !.phase = IF s.dbs = {d} THEN "state" ELSE "tables"]
    <3>1. x \in Repair /\ Moves(x)
      BY <1>0, <2>6 DEF Repair
    <3> HIDE DEF x
    <3> QED
      BY <2>2, <2>4, <3>1
  <2> QED
    BY <2>1, <2>5, <2>6
<1>7. CASE FinishRepair(r)
  <2>1. Goal /\ Files /\ Rows /\ Repairing(r) /\ lock' = lock /\ touched' = touched
    BY <1>7 DEF FinishRepair
  <2> HIDE DEF Restored, Failed, Synced, Moves
  <2> QED
    BY <1>7, <1>10, <1>11, <2>1 DEF FinishRepair
<1>8. CASE RestoreFile(r)
  <2>1. PICK t \in s.done :
       \/ /\ file' = [file EXCEPT ![t] = run[r].text[t]]
          /\ IF run[r].done = {t} THEN Goes(r, Failed)
             ELSE Goes(r, [run[r] EXCEPT !.done = @ \ {t}])
       \/ GiveUp(r) /\ UNCHANGED file
    BY <1>8 DEF RestoreFile
  <2>2. Goal /\ Rows /\ Repairing(r)
    BY <1>8 DEF RestoreFile
  <2>3. t \in Threads /\ s.text[t] # Missing
    BY <1>0 DEF Planned, Taken, Repaired, Repair
  <2>4. Files
    BY <2>1, <2>3
  <2>5. CASE GiveUp(r)
    BY <2>2, <2>4, <2>5 DEF GiveUp
  <2>6. CASE Goes(r, Failed)
    <3>1. Moves(Failed)
      BY <1>0, <2>6 DEF Goes, Repair
    <3> QED
      BY <1>10, <2>2, <2>4, <2>6, <3>1 DEF Goes
  <2>7. CASE Goes(r, [s EXCEPT !.done = @ \ {t}])
    <3>0. s.phase # "idle"
      BY <1>8 DEF RestoreFile
    <3> DEFINE x == [s EXCEPT !.done = @ \ {t}]
    <3>1. x \in Repair /\ Moves(x)
      BY <1>0, <2>7, <3>0 DEF Repair, Goes
    <3>2. Goes(r, x)
      BY <2>7
    <3> HIDE DEF x
    <3> QED
      BY <2>2, <2>4, <3>1, <3>2 DEF Goes
  <2> QED
    BY <2>1, <2>5, <2>6, <2>7
<1>9. CASE Release(r)
  BY <1>9 DEF Release
<1> QED
  BY <1>1, <1>2, <1>3, <1>4, <1>5, <1>6, <1>7, <1>8, <1>9 DEF RepairStep

\* The lock keeps repairs and cleanups apart, whoever crashes.
LEMMA LockedStep == DInv /\ [DataNext]_codexVars => Locked'
<1> SUFFICES ASSUME DInv, [DataNext]_codexVars
             PROVE  Locked'
  OBVIOUS
<1> USE DEF DInv, DataTypes, Repairing
<1>1. ASSUME run' = run, lock' = lock, clean'.phase = clean.phase
      PROVE  Locked'
  BY <1>1 DEF Locked
<1>2. ASSUME NEW r \in Runs, RepairStep(r)
      PROVE  Locked'
  <2>1. clean' = clean
    BY <1>2, RepairShape
  <2>2. CASE Begin(r)
    <3>1. PICK p \in Providers, busy \in SUBSET {t \in Threads : Present(t)} : Go(r, ReadText(p, busy))
      BY <2>2 DEF Begin
    <3>2. ReadText(p, busy).phase = "read" /\ ReadText(p, busy).target = p
      BY DEF ReadText, NoRun
    <3>3. run' = [run EXCEPT ![r] = ReadText(p, busy)] /\ ~lock /\ lock' = TRUE
      BY <2>2, <3>1 DEF Go, Begin
    <3> HIDE DEF DInv
    <3> QED
      BY <2>1, <3>2, <3>3, DInv DEF Locked, DInv
  <2>3. CASE BeginFails(r)
    BY <2>3 DEF BeginFails, Locked
  <2>4. CASE Repairing(r) /\ Freed(r)
    <3>1. NoRun.phase = "idle"
      BY DEF NoRun
    <3> QED
      BY <2>1, <2>4, <3>1 DEF Freed, Go, Locked
  <2>5. CASE /\ Repairing(r) /\ lock' = lock /\ touched' = touched
             /\ \E x \in Repair : Go(r, x) /\ x.phase # "idle" /\ x.target = run[r].target
    BY <2>1, <2>5 DEF Go, Locked
  <2>6. Begin(r) \/ BeginFails(r) \/ (Repairing(r) /\ Freed(r)) \/
        (/\ Repairing(r) /\ lock' = lock /\ touched' = touched
         /\ \E x \in Repair : Go(r, x) /\ x.phase # "idle" /\ x.target = run[r].target)
    BY <1>2, RepairShape
  <2> QED
    BY <2>2, <2>3, <2>4, <2>5, <2>6
<1>3. CASE CleanupStep
  <2> USE DEF ToClean, EndCleanup, NoCleanup, dataVars, Locked
  <2>1. CASE Apply
    BY <2>1 DEF Apply
  <2>5. ASSUME run' = run, clean.phase # "idle",
               lock' = lock \/ clean'.phase = "idle"
        PROVE  Locked'
    <3>1. lock /\ \A r \in Runs : ~Repairing(r) /\ run[r] = NoRun
      BY <2>5
    <3>2. clean'.phase # "idle" => lock'
      BY <2>5, <3>1
    <3> QED
      BY <2>5, <3>1, <3>2
  <2>2. CASE Look
    <3>0. clean' = NoCleanup \/ lock' = lock
      BY <2>2, Zenon DEF Look
    <3>1. lock' = lock \/ clean'.phase = "idle"
      BY <3>0
    <3> QED
      BY <2>2, <2>5, <3>1 DEF Look
  <2>3. CASE Compare
    <3>0. clean' = NoCleanup \/ lock' = lock
      BY <2>3, Zenon DEF Compare
    <3>1. lock' = lock \/ clean'.phase = "idle"
      BY <3>0
    <3> QED
      BY <2>3, <2>5, <3>1 DEF Compare
  <2>4. CASE WriteIndex
    BY <2>4 DEF WriteIndex
  <2> QED
    BY <1>3, <2>1, <2>2, <2>3, <2>4 DEF CleanupStep
<1>4. CASE DeletionStep
  <2>1. run' = run /\ lock' = lock
    BY <1>4 DEF DeletionStep, DeleteRow, RemoveFile, Undo
  <2>2. clean'.phase = clean.phase
    BY <1>4 DEF DeletionStep, DeleteRow, RemoveFile, Undo
  <2> QED
    BY <1>1, <2>1, <2>2
<1>5. CASE Crash
  <2>1. NoRun.phase = "idle" /\ NoCleanup.phase = "idle" /\ lock' = lock
    BY <1>5 DEF Crash, NoRun, NoCleanup
  <2>2. CASE run' = run /\ clean' = clean
    BY <1>1, <2>1, <2>2
  <2>3. CASE run' = run /\ clean' = NoCleanup
    BY <2>1, <2>3 DEF Locked
  <2>4. CASE clean' = clean /\ \E r \in Runs : Go(r, NoRun)
    BY <2>1, <2>4 DEF Go, Locked
  <2> QED
    BY <1>5, <2>2, <2>3, <2>4 DEF Crash, ToClean
<1>6. ASSUME NEW t \in Threads, NewThread(t) \/ AppendLine(t) \/ Name(t) \/ Delete(t)
      PROVE  Locked'
  BY <1>1, <1>6 DEF NewThread, AppendLine, Name, Delete
<1>7. CASE UNCHANGED codexVars
  BY <1>1, <1>7 DEF codexVars
<1> QED
  BY <1>2, <1>3, <1>4, <1>5, <1>6, <1>7 DEF DataNext

\* A session gets its first line before anybody can know of it.
LEMMA UnbornStep == DInv /\ [DataNext]_codexVars => Unborn'
<1> SUFFICES ASSUME DInv, [DataNext]_codexVars
             PROVE  Unborn'
  OBVIOUS
<1> USE DEF DInv, DataTypes, Unborn
<1>0. NoRun.text = [t \in Threads |-> Missing] /\ NoCleanup.seen = {}
  BY DEF NoRun, NoCleanup
<1>1. ASSUME NEW t \in Threads, NewThread(t)
      PROVE  Unborn'
  <2>1. /\ said' = [said EXCEPT ![t] = 1]
        /\ \A u \in Threads \ {t} : file'[u] = file[u] /\ \A d \in Dbs : row'[d][u] = row[d][u]
        /\ index' = index /\ run' = run /\ tokens' = tokens /\ clean' = clean
    BY <1>1 DEF NewThread
  <2> QED
    BY <2>1
<1>2. ASSUME NEW t \in Threads, AppendLine(t)
      PROVE  Unborn'
  <2>1. /\ said' = [said EXCEPT ![t] = @ + 1] /\ said[t] \in Nat
        /\ \A u \in Threads \ {t} : file'[u] = file[u]
        /\ row' = row /\ index' = index /\ run' = run /\ tokens' = tokens /\ clean' = clean
    BY <1>2 DEF AppendLine
  <2> QED
    BY <2>1
<1>3. ASSUME NEW t \in Threads, Name(t) \/ Delete(t)
      PROVE  Unborn'
  <2>1. CASE Name(t)
    <3>1. said[t] # 0
      BY <2>1 DEF Name, Live, Present
    <3>2. clean'.seen = clean.seen
      BY <2>1 DEF Name
    <3> QED
      BY <2>1, <3>1, <3>2 DEF Name, ghosts
  <2>2. CASE Delete(t)
    BY <2>2 DEF Delete, dataVars, ghosts
  <2> QED
    BY <1>3, <2>1, <2>2
<1>4. ASSUME NEW r \in Runs, RepairStep(r)
      PROVE  Unborn'
  <2>1. /\ clean' = clean /\ said' = said /\ tokens' = tokens /\ index' = index
        /\ \A t \in Threads : said[t] = 0 => file'[t] = file[t]
        /\ \A d \in Dbs, t \in Threads : row'[d][t] = None <=> row[d][t] = None
    BY <1>4, RepairShape
  <2>2. \A t \in Threads : said[t] = 0 => run'[r].text[t] = Missing
    <3>1. CASE Begin(r)
      <4>1. PICK p \in Providers, busy \in SUBSET {t \in Threads : Present(t)} : Go(r, ReadText(p, busy))
        BY <3>1 DEF Begin
      <4>2. \A t \in Threads : ReadText(p, busy).text[t] \in {file[t], Missing}
        BY DEF ReadText, NoRun
      <4> QED
        BY <4>1, <4>2 DEF Go
    <3>2. CASE BeginFails(r)
      BY <3>2 DEF BeginFails
    <3>3. CASE Freed(r)
      BY <1>0, <3>3 DEF Freed, Go
    <3>4. CASE \E x \in Repair : Go(r, x) /\ \A t \in Threads : x.text[t] \in {run[r].text[t], Missing}
      BY <3>4 DEF Go
    <3>5. Begin(r) \/ BeginFails(r) \/ Freed(r) \/
          \E x \in Repair : Go(r, x) /\ \A t \in Threads : x.text[t] \in {run[r].text[t], Missing}
      BY <1>4, RepairShape
    <3> QED
      BY <3>1, <3>2, <3>3, <3>4, <3>5
  <2>3. \A q \in Runs \ {r} : run'[q] = run[q]
    <3>1. BeginFails(r) => run' = run
      BY DEF BeginFails
    <3>2. Begin(r) \/ BeginFails(r) \/ Freed(r) \/ \E x \in Repair : Go(r, x)
      BY <1>4, RepairShape
    <3> QED
      BY <3>1, <3>2 DEF Begin, Freed, Go
  <2> QED
    BY <2>1, <2>2, <2>3
<1>5. CASE CleanupStep
  <2>1. /\ said' = said /\ tokens' = tokens /\ file' = file /\ row' = row /\ run' = run
    BY <1>5 DEF CleanupStep, Apply, Look, Compare, WriteIndex, dataVars, ghosts
  <2>2. index' \subseteq index \union clean.seen
    BY <1>5 DEF CleanupStep, Apply, Look, Compare, WriteIndex, dataVars, ghosts
  <2>3. clean'.seen \subseteq index \union clean.seen
    <3>1. CASE Apply
      BY <3>1 DEF Apply, ToClean, NoCleanup
    <3>2. CASE Look
      <4>1. clean' = NoCleanup \/ \E chosen : clean' = [NoCleanup EXCEPT !.phase = "comparing", !.seen = index, !.chosen = chosen]
        BY <3>2 DEF Look, ToClean, EndCleanup
      <4>2. \A chosen : [NoCleanup EXCEPT !.phase = "comparing", !.seen = index, !.chosen = chosen].seen = index
        BY DEF NoCleanup
      <4>3. clean'.seen = {} \/ clean'.seen = index
        BY <1>0, <4>1, <4>2
      <4> QED
        BY <4>3
    <3>3. CASE Compare
      <4>1. clean' = NoCleanup \/ clean' = [clean EXCEPT !.phase = "writing"]
        BY <3>3 DEF Compare, ToClean, EndCleanup
      <4> QED
        BY <1>0, <4>1
    <3>4. CASE WriteIndex
      BY <3>4 DEF WriteIndex, EndCleanup, ToClean, NoCleanup
    <3> QED
      BY <1>5, <3>1, <3>2, <3>3, <3>4 DEF CleanupStep
  <2> QED
    BY <2>1, <2>2, <2>3
<1>6. CASE DeletionStep
  <2>1. ASSUME NEW d \in Dbs, DeleteRow(d)
        PROVE  Unborn'
    <3>1. d \in del.left /\ del.t \in Threads
      BY <2>1 DEF DeleteRow
    <3>2. /\ said' = said /\ index' = index /\ file' = file /\ run' = run /\ clean' = clean
      BY <2>1 DEF DeleteRow
    <3>3. row' = row \/ row' = [row EXCEPT ![d][del.t] = None]
      BY <2>1 DEF DeleteRow, SkipDb
    <3>4. \A e \in Dbs, t \in Threads : row[e][t] = None => row'[e][t] = None
      BY <3>1, <3>3
    <3>5. \A k \in tokens' : k \in tokens \/ (k.t = del.t /\ row[d][del.t] # None)
      <4>1. tokens' = tokens \/
            (/\ row[d][del.t] # None
             /\ \E text : tokens' = tokens \union {[t |-> del.t, prov |-> row[d][del.t], text |-> text]})
        BY <2>1 DEF DeleteRow, SkipDb
      <4> QED
        BY <4>1
    <3> QED
      BY <3>1, <3>2, <3>4, <3>5
  <2>2. CASE RemoveFile
    <3>1. \A t \in Threads : file'[t] \in {file[t], Missing}
      BY <2>2 DEF RemoveFile
    <3> QED
      BY <2>2, <3>1 DEF RemoveFile
  <2>3. CASE Undo
    <3>1. PICK k \in tokens :
       /\ row' = [row EXCEPT ![FirstDb][k.t] = k.prov]
       /\ \/ /\ k.text # Missing
             /\ file' = [file EXCEPT ![k.t] = k.text]
             /\ said' = [said EXCEPT ![k.t] = k.text.lines]
          \/ UNCHANGED <<file, said>>
       /\ clean' = IF clean.phase \in {"comparing", "writing"}
                   THEN [clean EXCEPT !.late = @ \union {k.t}] ELSE clean
      BY <2>3 DEF Undo
    <3>2. k.t \in Threads /\ k.text # Missing => k.text.lines \in Nat /\ k.text.lines > 0
      BY TextFacts
    <3>3. /\ said'[k.t] # 0
          /\ \A t \in Threads \ {k.t} : /\ said'[t] = said[t] /\ file'[t] = file[t]
                                         /\ \A d \in Dbs : row'[d][t] = row[d][t]
      BY <3>1, <3>2
    <3>4. clean'.seen = clean.seen
      BY <3>1
    <3>5. index' = index /\ run' = run /\ tokens' = tokens
      BY <2>3 DEF Undo
    <3> QED
      BY <3>3, <3>4, <3>5
  <2> QED
    BY <1>6, <2>1, <2>2, <2>3 DEF DeletionStep
<1>7. CASE Crash
  <2>1. /\ said' = said /\ tokens' = tokens /\ file' = file /\ row' = row /\ index' = index
        /\ clean'.seen \subseteq clean.seen
    BY <1>0, <1>7 DEF Crash, dataVars, ToClean
  <2>2. \A r \in Runs : run'[r] = run[r] \/ run'[r] = NoRun
    BY <1>7 DEF Crash, Go
  <2> QED
    BY <1>0, <2>1, <2>2
<1>8. CASE UNCHANGED codexVars
  BY <1>8 DEF codexVars, dataVars, ghosts
<1> QED
  BY <1>1, <1>2, <1>3, <1>4, <1>5, <1>6, <1>7, <1>8 DEF DataNext

\* Whoever holds a text of a session that is not exposed holds all its lines.
LEMMA KeptStep == DInv /\ [DataNext]_codexVars => Kept'
<1> SUFFICES ASSUME DInv, [DataNext]_codexVars
             PROVE  Kept'
  OBVIOUS
<1> USE DEF DInv, DataTypes, Present
<1>0. /\ NoRun.text = [t \in Threads |-> Missing] /\ NoDeletion.remove = FALSE
      /\ Missing.lines = 0
  BY DEF NoRun, NoDeletion, Missing
\* What the four parts ask of one session.
<1> DEFINE Has(t) == /\ file[t] # Missing => file[t].lines >= said[t]
                     /\ \A r \in Runs : run[r].text[t] # Missing => run[r].text[t].lines >= said[t]
                     /\ del.t = t /\ del.remove => Covered(t)
                     /\ file[t].lines >= said[t] \/ Covered(t)
<1>a. \A t \in Threads \ exposed : Has(t)
  BY DEF Kept, NothingLost, Covered
<1>b. ASSUME \A t \in Threads \ exposed' : Has(t)'
      PROVE  Kept'
  BY <1>b DEF Kept, NothingLost, Covered
<1>1. ASSUME NEW t \in Threads, NewThread(t)
      PROVE  Kept'
  <2>1. /\ said' = [said EXCEPT ![t] = 1] /\ said[t] = 0 /\ file'[t].lines = 1
        /\ \A u \in Threads \ {t} : file'[u] = file[u]
        /\ run' = run /\ tokens' = tokens /\ del' = del /\ exposed' = exposed
    BY <1>1 DEF NewThread
  <2>2. ASSUME NEW u \in Threads \ exposed, u # t
        PROVE  Has(u)'
    BY <1>a, <2>1, <2>2 DEF Covered
  <2>3. ASSUME t \notin exposed
        PROVE  Has(t)'
    <3>1. ~Covered(t) /\ \A r \in Runs : run[r].text[t] = Missing
      BY <2>1 DEF Unborn, Covered
    <3>2. ~(del.t = t /\ del.remove)
      BY <1>a, <2>3, <3>1
    <3> QED
      BY <2>1, <3>1, <3>2
  <2> HIDE DEF Has
  <2> QED
    BY <1>b, <2>1, <2>2, <2>3
<1>2. ASSUME NEW t \in Threads, AppendLine(t)
      PROVE  Kept'
  <2>1. /\ said' = [said EXCEPT ![t] = @ + 1] /\ file[t] # Missing
        /\ file' = [file EXCEPT ![t].lines = @ + 1]
        /\ run' = run /\ tokens' = tokens /\ del' = del
        /\ exposed' = IF Doomed(t) THEN exposed \union {t} ELSE exposed
    BY <1>2 DEF AppendLine, Exposed
  <2>2. ASSUME NEW u \in Threads \ exposed, u # t
        PROVE  Has(u)'
    BY <1>a, <2>1, <2>2 DEF Covered
  <2>3. ASSUME ~Doomed(t), t \notin exposed
        PROVE  Has(t)'
    <3>1. \A r \in Runs : run[r].text[t] = Missing
      BY <1>0, <2>3 DEF Doomed, Locked
    <3>2. ~(del.t = t /\ del.remove)
      BY <2>3 DEF Doomed
    <3>3. file'[t].lines = file[t].lines + 1 /\ file[t].lines \in Nat /\ said'[t] = said[t] + 1
      BY <2>1, TextFacts
    <3>4. file[t].lines >= said[t] /\ said[t] \in Nat
      BY <1>a, <2>1, <2>3
    <3> QED
      BY <2>1, <3>1, <3>2, <3>3, <3>4
  <2>4. exposed \subseteq exposed' /\ (t \notin exposed' => ~Doomed(t))
    BY <2>1
  <2> HIDE DEF Has
  <2> QED
    BY <1>b, <2>2, <2>3, <2>4
<1>3. ASSUME UNCHANGED <<file, said, run, tokens, exposed>>, del' = del \/ ~del'.remove
      PROVE  Kept'
  <2>1. ASSUME NEW t \in Threads \ exposed'
        PROVE  Has(t)'
    BY <1>a, <1>3 DEF Covered
  <2> HIDE DEF Has
  <2> QED
    BY <1>b, <2>1
<1>4. ASSUME NEW r \in Runs, RepairStep(r)
      PROVE  Kept'
  <2>1. /\ said' = said /\ exposed' = exposed /\ tokens' = tokens /\ del' = del
        /\ \A t \in Threads :
             \/ file'[t] = file[t]
             \/ /\ run[r].text[t] # Missing /\ file'[t] # Missing
                /\ file'[t].lines = run[r].text[t].lines
    BY <1>4, RepairShape
  <2>2. ASSUME NEW q \in Runs, NEW t \in Threads, run'[q].text[t] # Missing
        PROVE  run'[q].text[t] \in {run[q].text[t], file[t]}
    <3>1. CASE Begin(r)
      <4>1. PICK p \in Providers, busy \in SUBSET {u \in Threads : Present(u)} : Go(r, ReadText(p, busy))
        BY <3>1 DEF Begin
      <4>2. ReadText(p, busy).text[t] \in {file[t], Missing}
        BY DEF ReadText, NoRun
      <4> QED
        BY <2>2, <4>1, <4>2 DEF Go
    <3>2. CASE BeginFails(r)
      BY <3>2 DEF BeginFails
    <3>3. CASE Freed(r)
      BY <1>0, <2>2, <3>3 DEF Freed, Go
    <3>4. CASE \E x \in Repair : Go(r, x) /\ \A u \in Threads : x.text[u] \in {run[r].text[u], Missing}
      BY <2>2, <3>4 DEF Go
    <3>5. Begin(r) \/ BeginFails(r) \/ Freed(r) \/
          \E x \in Repair : Go(r, x) /\ \A u \in Threads : x.text[u] \in {run[r].text[u], Missing}
      BY <1>4, RepairShape
    <3> QED
      BY <3>1, <3>2, <3>3, <3>4, <3>5
  <2>3. ASSUME NEW t \in Threads \ exposed'
        PROVE  Has(t)'
    <3>0. Has(t)
      BY <1>a, <2>1
    <3>1. \A q \in Runs : run'[q].text[t] # Missing => run'[q].text[t].lines >= said'[t]
      BY <2>1, <2>2, <3>0
    <3>2. file'[t] # Missing => file'[t].lines >= said'[t]
      BY <2>1, <3>0
    <3>3. file'[t].lines >= said'[t] \/ Covered(t)'
      BY <2>1, <3>0, <3>2 DEF Covered
    <3>4. del'.t = t /\ del'.remove => Covered(t)'
      BY <2>1, <3>0 DEF Covered
    <3> QED
      BY <3>1, <3>2, <3>3, <3>4
  <2> HIDE DEF Has
  <2> QED
    BY <1>b, <2>3
<1>5. CASE DeletionStep
  <2>1. ASSUME NEW d \in Dbs, DeleteRow(d)
        PROVE  Kept'
    <3>1. d \in del.left /\ del.t \in Threads /\ ~del.remove
      BY <2>1 DEF DeleteRow
    <3>2. UNCHANGED <<file, said, run, exposed>> /\ tokens \subseteq tokens'
      BY <2>1 DEF DeleteRow, SkipDb
    <3>3. del'.remove => /\ del'.t = del.t
                         /\ \E k \in tokens' : k.t = del.t /\ k.text = file[del.t] /\ file[del.t] # Missing
      <4>1. CASE SkipDb(d)
        BY <1>0, <3>1, <4>1 DEF SkipDb, Rest
      <4>2. CASE \E text \in Found(del.t) :
             /\ tokens' = tokens \union {[t |-> del.t, prov |-> row[d][del.t], text |-> text]}
             /\ \/ del' = Rest([del EXCEPT !.left = @ \ {d}, !.remove = text # Missing])
                \/ del' = Rest([del EXCEPT !.left = @ \ {d}])
        <5>1. PICK text \in Found(del.t) :
             /\ tokens' = tokens \union {[t |-> del.t, prov |-> row[d][del.t], text |-> text]}
             /\ \/ del' = Rest([del EXCEPT !.left = @ \ {d}, !.remove = text # Missing])
                \/ del' = Rest([del EXCEPT !.left = @ \ {d}])
          BY <4>2
        <5>2. CASE del' = Rest([del EXCEPT !.left = @ \ {d}])
          BY <1>0, <3>1, <5>2 DEF Rest
        <5>3. CASE del' = Rest([del EXCEPT !.left = @ \ {d}, !.remove = text # Missing])
          <6>1. del'.remove => text # Missing /\ del'.t = del.t
            BY <1>0, <3>1, <5>3 DEF Rest
          <6>2. text # Missing => text = file[del.t]
            BY <5>1 DEF Found
          <6> DEFINE k == [t |-> del.t, prov |-> row[d][del.t], text |-> text]
          <6>3. k \in tokens' /\ k.t = del.t /\ k.text = text
            BY <5>1
          <6> HIDE DEF k
          <6> QED
            BY <6>1, <6>2, <6>3
        <5> QED
          BY <5>1, <5>2, <5>3
      <4> QED
        BY <2>1, <4>1, <4>2 DEF DeleteRow
    <3>4. ASSUME NEW t \in Threads \ exposed'
          PROVE  Has(t)'
      <4>1. Has(t)
        BY <1>a, <3>2
      <4>2. Covered(t) => Covered(t)'
        BY <3>2 DEF Covered
      <4>3. del'.t = t /\ del'.remove => Covered(t)'
        BY <3>2, <3>3, <4>1 DEF Covered
      <4> QED
        BY <3>2, <4>1, <4>2, <4>3
    <3> HIDE DEF Has
    <3> QED
      BY <1>b, <3>4
  <2>2. CASE RemoveFile
    <3>1. /\ UNCHANGED <<said, run, exposed, tokens>> /\ del.remove /\ del.t \in Threads
          /\ file' = [file EXCEPT ![del.t] = Missing] \/ file' = file
      BY <2>2 DEF RemoveFile
    <3>2. ~del'.remove
      BY <1>0, <2>2 DEF RemoveFile, Rest
    <3>3. ASSUME NEW t \in Threads \ exposed'
          PROVE  Has(t)'
      <4>1. Has(t) /\ (Covered(t) <=> Covered(t)')
        BY <1>a, <3>1 DEF Covered
      <4>2. file'[t] = file[t] \/ (file'[t] = Missing /\ t = del.t)
        BY <3>1
      <4> QED
        BY <1>0, <3>1, <3>2, <4>1, <4>2
    <3> HIDE DEF Has
    <3> QED
      BY <1>b, <3>3
  <2>3. CASE Undo
    <3>1. PICK k \in tokens :
          \/ /\ k.text # Missing
             /\ file' = [file EXCEPT ![k.t] = k.text]
             /\ said' = [said EXCEPT ![k.t] = k.text.lines]
             /\ Exposed(k.t)
          \/ UNCHANGED <<file, said, exposed>>
      BY <2>3 DEF Undo
    <3>2. run' = run /\ tokens' = tokens /\ del' = del
      BY <2>3 DEF Undo
    <3>3. CASE UNCHANGED <<file, said, exposed>>
      BY <1>3, <3>2, <3>3
    <3>4. CASE /\ k.text # Missing
               /\ file' = [file EXCEPT ![k.t] = k.text]
               /\ said' = [said EXCEPT ![k.t] = k.text.lines]
               /\ Exposed(k.t)
      <4>1. k.t \in Threads /\ k.text.lines \in Nat
        BY TextFacts
      <4>2. exposed \subseteq exposed' /\ (k.t \notin exposed' => ~Doomed(k.t))
        BY <3>4 DEF Exposed
      <4>3. ASSUME NEW t \in Threads \ exposed, t # k.t
            PROVE  Has(t)'
        BY <1>a, <3>2, <3>4, <4>3 DEF Covered
      <4>4. ASSUME ~Doomed(k.t)
            PROVE  Has(k.t)'
        <5>1. \A r \in Runs : run[r].text[k.t] = Missing
          BY <1>0, <4>1, <4>4 DEF Doomed, Locked
        <5>2. ~(del.t = k.t /\ del.remove)
          BY <4>4 DEF Doomed
        <5>3. file'[k.t] = k.text /\ said'[k.t] = k.text.lines
          BY <3>4, <4>1
        <5> QED
          BY <3>2, <4>1, <5>1, <5>2, <5>3
      <4>5. \A t \in Threads \ exposed' : Has(t)'
        <5> HIDE DEF Has
        <5> TAKE t \in Threads \ exposed'
        <5>1. CASE t # k.t
          BY <4>2, <4>3, <5>1
        <5>2. CASE t = k.t
          BY <4>2, <4>4, <5>2
        <5> QED
          BY <5>1, <5>2
      <4> QED
        BY <1>b, <4>5
    <3> QED
      BY <3>1, <3>3, <3>4
  <2> QED
    BY <1>5, <2>1, <2>2, <2>3 DEF DeletionStep
<1>6. CASE Crash
  <2>1. UNCHANGED <<file, said, tokens, exposed>> /\ (del' = del \/ ~del'.remove)
    BY <1>0, <1>6 DEF Crash, dataVars
  <2>2. \A r \in Runs : run'[r] = run[r] \/ run'[r] = NoRun
    BY <1>6 DEF Crash, Go
  <2>3. ASSUME NEW t \in Threads \ exposed'
        PROVE  Has(t)'
    <3>1. Has(t) /\ (Covered(t) <=> Covered(t)')
      BY <1>a, <2>1 DEF Covered
    <3>2. \A r \in Runs : run'[r].text[t] # Missing => run'[r].text[t] = run[r].text[t]
      BY <1>0, <2>2
    <3> QED
      BY <2>1, <3>1, <3>2
  <2> HIDE DEF Has
  <2> QED
    BY <1>b, <2>3
<1>7. CASE CleanupStep
  <2>1. UNCHANGED <<file, said, run, tokens, exposed, del>>
    BY <1>7 DEF CleanupStep, Apply, Look, Compare, WriteIndex, dataVars, ghosts
  <2> QED
    BY <1>3, <2>1
<1>8. ASSUME NEW t \in Threads, Name(t) \/ Delete(t)
      PROVE  Kept'
  <2>1. UNCHANGED <<file, said, run, tokens, exposed>> /\ (del' = del \/ ~del'.remove)
    BY <1>8 DEF Name, Delete, dataVars, ghosts
  <2> QED
    BY <1>3, <2>1
<1>9. CASE UNCHANGED codexVars
  BY <1>3, <1>9 DEF codexVars, dataVars, ghosts
<1> QED
  BY <1>1, <1>2, <1>4, <1>5, <1>6, <1>7, <1>8, <1>9 DEF DataNext

\* No two backups have the same number, and none a later one than the last.
LEMMA NumberedStep == DInv /\ [DataNext]_codexVars => Numbered'
<1> SUFFICES ASSUME DInv, [DataNext]_codexVars
             PROVE  Numbered'
  OBVIOUS
<1> USE DEF DInv, DataTypes, Numbered
<1>1. ASSUME serial' = serial, saved' \subseteq saved
      PROVE  Numbered'
  BY <1>1
<1>2. Pruned \subseteq saved
  BY DEF Pruned
<1>3. ASSUME NEW r \in Runs, RepairStep(r)
      PROVE  Numbered'
  <2>1. CASE SaveOriginals(r)
    <3>1. CASE /\ saved' = saved \union
                       {[n |-> serial + 1, prov |-> [t \in run[r].todo |-> run[r].text[t].prov]]}
               /\ serial' = serial + 1
      <4> DEFINE new == [n |-> serial + 1, prov |-> [t \in run[r].todo |-> run[r].text[t].prov]]
      <4>1. new.n = serial + 1 /\ saved' = saved \union {new}
        BY <3>1
      <4> HIDE DEF new
      <4>2. \A b \in saved' : b.n \in 1..serial'
        BY <3>1, <4>1
      <4>3. \A b \in saved : b.n # new.n
        BY <4>1
      <4> QED
        BY <4>1, <4>2, <4>3
    <3>2. CASE UNCHANGED <<saved, serial>>
      BY <1>1, <3>2
    <3> QED
      BY <2>1, <3>1, <3>2 DEF SaveOriginals
  <2>2. CASE FinishRepair(r)
    BY <1>1, <1>2, <2>2 DEF FinishRepair, counters
  <2>3. CASE Begin(r) \/ BeginFails(r) \/ UpToDate(r) \/ WriteFile(r) \/ UpdateRows(r)
             \/ RestoreFile(r) \/ Release(r)
    BY <1>1, <2>3 DEF Begin, BeginFails, UpToDate, WriteFile, UpdateRows, RestoreFile, Release, counters
  <2> QED
    BY <1>3, <2>1, <2>2, <2>3 DEF RepairStep
<1>4. CASE CleanupStep
  <2>1. serial' = serial /\ saved' \in {saved, Pruned}
    BY <1>4 DEF CleanupStep, Apply, Look, Compare, WriteIndex, counters
  <2> QED
    BY <1>1, <1>2, <2>1
<1>5. CASE DeletionStep \/ Crash
  BY <1>1, <1>5 DEF DeletionStep, DeleteRow, RemoveFile, Undo, Crash, counters
<1>6. ASSUME NEW t \in Threads, NewThread(t) \/ AppendLine(t) \/ Name(t) \/ Delete(t)
      PROVE  Numbered'
  BY <1>1, <1>6 DEF NewThread, AppendLine, Name, Delete, counters
<1>7. CASE UNCHANGED codexVars
  BY <1>1, <1>7 DEF codexVars, counters
<1> QED
  BY <1>3, <1>4, <1>5, <1>6, <1>7 DEF DataNext

\* A backup among the last Keep ones survives prune_backups.
LEMMA PrunedKeeps ==
  ASSUME DataTypes, Numbered, NEW b \in saved, b.n + Keep > serial
  PROVE  b \in Pruned
<1> DEFINE S == {c \in saved : c.n > b.n}
           f == [c \in S |-> c.n]
<1>1. serial \in Nat /\ b.n \in 1..serial /\ Keep \in Nat
  BY KeepAssumption DEF DataTypes, Numbered
<1>2. f \in Injection(S, b.n + 1 .. serial)
  <2>1. \A c \in S : c.n \in b.n + 1 .. serial
    BY <1>1 DEF Numbered
  <2>2. \A c, d \in S : c.n = d.n => c = d
    BY DEF Numbered
  <2>3. f \in [S -> b.n + 1 .. serial]
    BY <2>1
  <2>4. IsInjective(f)
    BY <2>2 DEF IsInjective
  <2> HIDE DEF f, S
  <2> QED
    BY <2>3, <2>4 DEF Injection
<1>3. IsFiniteSet(b.n + 1 .. serial) /\ Cardinality(b.n + 1 .. serial) <= serial - b.n
  <2>1. b.n + 1 \in Int /\ serial \in Int
    BY <1>1
  <2>2. /\ IsFiniteSet(b.n + 1 .. serial)
        /\ Cardinality(b.n + 1 .. serial) = IF b.n + 1 > serial THEN 0 ELSE serial - (b.n + 1) + 1
    BY <2>1, FS_Interval
  <2> QED
    BY <1>1, <2>2
<1>4. IsFiniteSet(S) /\ Cardinality(S) <= Cardinality(b.n + 1 .. serial)
  BY <1>2, <1>3, FS_Injection
<1>5. Cardinality(S) \in Nat /\ Cardinality(b.n + 1 .. serial) \in Nat
  BY <1>3, <1>4, FS_CardinalityType
<1>6. Cardinality(S) < Keep
  BY <1>1, <1>3, <1>4, <1>5
<1> QED
  BY <1>6 DEF Pruned

\* The originals are in the last backup before a file is overwritten, and stay there.
LEMMA BackedStep == DInv /\ [DataNext]_codexVars => Backed'
<1> SUFFICES ASSUME DInv, [DataNext]_codexVars
             PROVE  Backed'
  OBVIOUS
<1> USE DEF DInv, DataTypes
<1> DEFINE Held(s) == \E b \in saved : /\ b.n = serial
                                       /\ \A t \in s.todo : t \in DOMAIN b.prov /\ b.prov[t] = s.text[t].prov
<1>a. /\ \A r \in Runs : run[r].phase = "writing" => Held(run[r])
      /\ OriginalsBackedUp
  BY DEF Backed
<1>b. ASSUME OriginalsBackedUp', \A r \in Runs : run'[r].phase = "writing" => Held(run[r])'
      PROVE  Backed'
  BY <1>b DEF Backed
<1>0. NoRun.phase = "idle"
  BY DEF NoRun
<1>1. ASSUME last' = last, serial' = serial, saved' \in {saved, Pruned}
      PROVE  OriginalsBackedUp'
  <2>1. \A b \in saved : b.n + Keep > serial => b \in saved'
    BY <1>1, PrunedKeeps
  <2> SUFFICES ASSUME NEW t \in Threads, last[t].n # 0, last[t].n + Keep > serial
               PROVE  \E b \in saved' : b.n = last[t].n /\ t \in DOMAIN b.prov /\ b.prov[t] = last[t].prov
    BY <1>1 DEF OriginalsBackedUp
  <2>2. PICK b \in saved : b.n = last[t].n /\ t \in DOMAIN b.prov /\ b.prov[t] = last[t].prov
    BY <1>a DEF OriginalsBackedUp
  <2> QED
    BY <2>1, <2>2
<1>2. ASSUME saved' = saved, serial' = serial, last' = last,
             \A r \in Runs : run'[r].phase = "writing" => run'[r] = run[r]
      PROVE  Backed'
  <2>1. OriginalsBackedUp'
    BY <1>1, <1>2
  <2>2. ASSUME NEW r \in Runs, run'[r].phase = "writing"
        PROVE  Held(run[r])'
    <3>1. run'[r] = run[r] /\ Held(run[r])
      BY <1>2, <1>a, <2>2
    <3> QED
      BY <1>2, <3>1
  <2> HIDE DEF Held
  <2> QED
    BY <1>b, <2>1, <2>2
<1>3. ASSUME NEW r \in Runs, RepairStep(r)
      PROVE  Backed'
  <2> DEFINE s == run[r]
  <2>0. s \in Repair
    OBVIOUS
  <2>1. CASE Begin(r) \/ BeginFails(r) \/ UpToDate(r) \/ UpdateRows(r) \/ RestoreFile(r) \/ Release(r)
    <3>1. saved' = saved /\ serial' = serial /\ last' = last
      BY <2>1 DEF Begin, BeginFails, UpToDate, UpdateRows, RestoreFile, Release, counters, ghosts
    <3>2. (\E x : run' = [run EXCEPT ![r] = x] /\ x.phase # "writing") \/ run' = run
      <4>1. CASE Begin(r)
        <5>1. PICK p \in Providers, busy \in SUBSET {t \in Threads : Present(t)} : Go(r, ReadText(p, busy))
          BY <4>1 DEF Begin
        <5>2. ReadText(p, busy).phase = "read"
          BY DEF ReadText, NoRun
        <5> QED
          BY <5>1, <5>2 DEF Go
      <4>2. CASE BeginFails(r)
        BY <4>2 DEF BeginFails
      <4>3. CASE UpToDate(r)
        <5>1. [s EXCEPT !.phase = "leaving", !.end = "synced"].phase = "leaving"
          BY <2>0 DEF Repair
        <5> QED
          BY <4>3, <5>1 DEF UpToDate, Leave, Go
      <4> DEFINE Failed == [s EXCEPT !.phase = "leaving", !.end = "failed"]
      <4>a. Failed.phase = "leaving" /\ [s EXCEPT !.phase = "restoring"].phase = "restoring"
        BY <2>0 DEF Repair
      <4>4. CASE UpdateRows(r)
        <5>1. PICK d \in s.dbs :
           \/ Go(r, [s EXCEPT !.dbs = @ \ {d}, !.phase = IF run[r].dbs = {d} THEN "state" ELSE "tables"])
           \/ Go(r, Failed) \/ Go(r, [s EXCEPT !.phase = "restoring"])
          BY <4>4 DEF UpdateRows, StartRestore, Leave
        <5>2. [s EXCEPT !.dbs = @ \ {d}, !.phase = IF run[r].dbs = {d} THEN "state" ELSE "tables"].phase # "writing"
          BY <2>0 DEF Repair
        <5> HIDE DEF Failed
        <5> QED
          BY <4>a, <5>1, <5>2 DEF Go
      <4>5. CASE RestoreFile(r)
        <5>1. PICK t \in s.done : Go(r, Failed) \/ Go(r, [s EXCEPT !.done = @ \ {t}]) \/ Go(r, NoRun)
          BY <4>5 DEF RestoreFile, Goes, GiveUp, Freed
        <5>2. [s EXCEPT !.done = @ \ {t}].phase = "restoring"
          BY <2>0, <4>5 DEF RestoreFile, At, Repair
        <5> HIDE DEF Failed
        <5> QED
          BY <1>0, <4>a, <5>1, <5>2 DEF Go
      <4>6. CASE Release(r)
        BY <1>0, <4>6 DEF Release, Freed, Go
      <4> QED
        BY <2>1, <4>1, <4>2, <4>3, <4>4, <4>5, <4>6
    <3>3. \A q \in Runs : run'[q].phase = "writing" => run'[q] = run[q]
      BY <3>2
    <3> QED
      BY <1>2, <3>1, <3>3
  <2>2. ASSUME Repairing(r)
        PROVE  \A q \in Runs \ {r} : run[q] = NoRun
    BY <2>2 DEF Locked
  <2>3. CASE SaveOriginals(r)
    <3>0. Repairing(r) /\ last' = last
      BY <2>3 DEF SaveOriginals, At, Repairing
    <3>1. CASE GiveUp(r) /\ UNCHANGED <<saved, serial>>
      <4>1. \A q \in Runs : run'[q].phase = "writing" => run'[q] = run[q]
        BY <1>0, <3>1 DEF GiveUp, Freed, Go
      <4> QED
        BY <1>2, <3>0, <3>1, <4>1
    <3> DEFINE new == [n |-> serial + 1, prov |-> [t \in run[r].todo |-> run[r].text[t].prov]]
    <3>2. CASE saved' = saved \union {new} /\ serial' = serial + 1 /\ Goes(r, Written(s))
      <4>1. OriginalsBackedUp'
        BY <1>a, <3>0, <3>2, KeepAssumption DEF OriginalsBackedUp
      <4>2. run'[r] = Written(s) /\ \A q \in Runs \ {r} : run'[q] = NoRun
        BY <2>2, <3>0, <3>2 DEF Goes, Go
      <4>3. Written(s).todo = s.todo /\ Written(s).text = s.text
        BY <2>0 DEF Written, Repair
      <4>4. new \in saved' /\ new.n = serial' /\ \A t \in s.todo : t \in DOMAIN new.prov /\ new.prov[t] = s.text[t].prov
        BY <3>2
      <4> HIDE DEF new
      <4>5. Held(run[r])'
        BY <4>2, <4>3, <4>4
      <4> HIDE DEF Held
      <4> QED
        BY <1>0, <1>b, <4>1, <4>2, <4>5
    <3> QED
      BY <2>3, <3>1, <3>2 DEF SaveOriginals
  <2>4. CASE FinishRepair(r)
    <3>1. Repairing(r) /\ last' = last /\ serial' = serial /\ saved' \in {saved, Pruned}
      BY <2>4 DEF FinishRepair, At, Repairing, counters, ghosts
    <3>2. run'[r].phase # "writing" /\ \A q \in Runs \ {r} : run'[q] = run[q]
      <4> DEFINE Failed == [s EXCEPT !.phase = "leaving", !.end = "failed"]
                 Synced == [s EXCEPT !.phase = "leaving", !.end = "synced"]
                 Restored == [s EXCEPT !.phase = "restoring"]
      <4>1. Failed.phase = "leaving" /\ Synced.phase = "leaving" /\ Restored.phase = "restoring"
        BY <2>0 DEF Repair
      <4>2. Go(r, Failed) \/ Go(r, Synced) \/ Go(r, Restored)
        BY <2>4 DEF FinishRepair, Leave, StartRestore
      <4> HIDE DEF Failed, Synced, Restored
      <4> QED
        BY <4>1, <4>2 DEF Go
    <3>3. \A q \in Runs : run'[q].phase # "writing"
      BY <1>0, <2>2, <3>1, <3>2
    <3> QED
      BY <1>1, <1>b, <3>1, <3>3
  <2>5. CASE WriteFile(r)
    <3>0. Repairing(r) /\ s.phase = "writing" /\ saved' = saved /\ serial' = serial
      BY <2>5 DEF WriteFile, At, Repairing, counters
    <3>1. PICK t \in s.todo :
       \/ /\ last' = [last EXCEPT ![t] =
                        IF Present(t) /\ t \notin touched THEN [n |-> serial, prov |-> file[t].prov]
                        ELSE [n |-> 0, prov |-> None]]
          /\ Goes(r, Written([run[r] EXCEPT !.todo = @ \ {t}, !.done = @ \union {t}]))
       \/ /\ Goes(r, Written([run[r] EXCEPT !.todo = @ \ {t}, !.text[t] = Missing]))
          /\ UNCHANGED last
       \/ GiveUp(r) /\ UNCHANGED last
      BY <2>5 DEF WriteFile
    <3>2. PICK b \in saved : /\ b.n = serial
                            /\ \A u \in s.todo : u \in DOMAIN b.prov /\ b.prov[u] = s.text[u].prov
      BY <1>a, <3>0
    <3>3. t \in Threads /\ t \in Taken(s) /\ t \notin s.done
      BY <2>0, <3>0 DEF Repaired, Planned, Repair
    <3>4. t \notin touched => file[t].prov = s.text[t].prov
      BY <3>0, <3>3 DEF Repaired, Filed
    <3>5. OriginalsBackedUp'
      <4>1. ASSUME NEW u \in Threads, last'[u].n # 0, last'[u].n + Keep > serial
            PROVE  \E c \in saved : c.n = last'[u].n /\ u \in DOMAIN c.prov /\ c.prov[u] = last'[u].prov
        <5>1. CASE last'[u] = last[u]
          BY <1>a, <4>1, <5>1 DEF OriginalsBackedUp
        <5>2. CASE u = t /\ t \notin touched /\ last'[t] = [n |-> serial, prov |-> file[t].prov]
          BY <3>2, <3>4, <5>2
        <5>3. CASE last'[u] = [n |-> 0, prov |-> None]
          BY <4>1, <5>3
        <5> QED
          BY <3>1, <3>3, <5>1, <5>2, <5>3
      <4> QED
        BY <3>0, <4>1 DEF OriginalsBackedUp
    <3>6. run'[r].phase = "writing" => run'[r].todo \subseteq s.todo /\ \A u \in run'[r].todo : run'[r].text[u] = s.text[u]
      <4>1. CASE GiveUp(r)
        BY <1>0, <4>1 DEF GiveUp, Freed, Go
      <4>2. CASE Goes(r, Written([s EXCEPT !.todo = @ \ {t}, !.done = @ \union {t}]))
        BY <2>0, <4>2 DEF Goes, Go, Written, Repair
      <4>3. CASE Goes(r, Written([s EXCEPT !.todo = @ \ {t}, !.text[t] = Missing]))
        BY <2>0, <4>3 DEF Goes, Go, Written, Repair
      <4> QED
        BY <3>1, <4>1, <4>2, <4>3
    <3>7. \A q \in Runs \ {r} : run'[q] = NoRun
      BY <2>2, <3>0, <3>1 DEF Goes, GiveUp, Freed, Go
    <3>8. run'[r].phase = "writing" => Held(run[r])'
      <4> SUFFICES ASSUME run'[r].phase = "writing"
                   PROVE  Held(run[r])'
        OBVIOUS
      <4>1. \A u \in run'[r].todo : u \in DOMAIN b.prov /\ b.prov[u] = run'[r].text[u].prov
        BY <3>2, <3>6
      <4>2. b \in saved' /\ b.n = serial'
        BY <3>0, <3>2
      <4> QED
        BY <4>1, <4>2
    <3> HIDE DEF Held
    <3> QED
      BY <1>0, <1>b, <3>5, <3>7, <3>8
  <2> QED
    BY <1>3, <2>1, <2>3, <2>4, <2>5 DEF RepairStep
<1>4. CASE CleanupStep
  <2>1. serial' = serial /\ saved' \in {saved, Pruned} /\ last' = last /\ run' = run
    BY <1>4 DEF CleanupStep, Apply, Look, Compare, WriteIndex, counters, ghosts
  <2>2. saved' = saved \/ clean.phase # "idle"
    BY <1>4 DEF CleanupStep, Apply, Look, Compare, WriteIndex, counters, ghosts
  <2>3. saved' = saved \/ \A r \in Runs : run[r].phase # "writing"
    BY <2>2 DEF Locked, Repairing
  <2> HIDE DEF Held
  <2> QED
    BY <1>1, <1>2, <1>b, <2>1, <2>3
<1>5. CASE DeletionStep
  BY <1>2, <1>5 DEF DeletionStep, DeleteRow, RemoveFile, Undo, counters
<1>6. CASE Crash
  <2>1. saved' = saved /\ serial' = serial /\ last' = last /\ \A r \in Runs : run'[r] \in {run[r], NoRun}
    BY <1>6 DEF Crash, Go, counters
  <2> QED
    BY <1>0, <1>2, <2>1
<1>7. ASSUME NEW t \in Threads, NewThread(t) \/ AppendLine(t) \/ Name(t) \/ Delete(t)
      PROVE  Backed'
  BY <1>2, <1>7 DEF NewThread, AppendLine, Name, Delete, counters, ghosts
<1>8. CASE UNCHANGED codexVars
  BY <1>2, <1>8 DEF codexVars, counters, ghosts
<1> QED
  BY <1>3, <1>4, <1>5, <1>6, <1>7, <1>8 DEF DataNext

\* The same of a repair as it will be, when its record is known.
FiledNext(s) ==
  \A t \in Taken(s) \ touched' :
    /\ s.phase \in {"read", "writing", "tables", "state"} =>
         file'[t].prov = IF t \in s.done THEN s.target ELSE s.text[t].prov
    /\ s.phase = "restoring" /\ t \notin s.done => file'[t].prov = s.text[t].prov
    /\ s.phase = "leaving" /\ s.end = "synced" => file'[t].prov = s.target
    /\ s.phase = "leaving" /\ s.end = "failed" => file'[t].prov = s.text[t].prov

RowedNext(s) ==
  \A t \in Threads \ touched', d \in Dbs :
    \/ s.phase = "tables" /\ d \notin s.dbs
    \/ s.phase = "state"
    \/ s.phase = "leaving" /\ s.end = "synced"
    => row'[d][t] \in {None, s.target}

\* A repair stays on its plan, and nobody else changes what it has made of untouched sessions.
LEMMA RepairedStep == DInv /\ [DataNext]_codexVars => Repaired'
<1> SUFFICES ASSUME DInv, [DataNext]_codexVars
             PROVE  Repaired'
  OBVIOUS
<1> USE DEF DInv, DataTypes
<1> DEFINE Fine(s) == Planned(s) /\ Filed(s) /\ Rowed(s)
<1>a. \A r \in Runs : Fine(run[r])
  BY DEF Repaired
<1>b. ASSUME \A r \in Runs : Fine(run[r])'
      PROVE  Repaired'
  BY <1>b DEF Repaired
\* A repair that does not run.
<1>0. ASSUME NEW r \in Runs, run'[r] = NoRun
      PROVE  Fine(run[r])'
  <2>1. Taken(NoRun) = {} /\ NoRun.phase = "idle" /\ NoRun.todo = {} /\ NoRun.done = {}
    BY DEF Taken, NoRun
  <2>2. Taken(run[r])' = {}
    BY <1>0, <2>1 DEF Taken
  <2> QED
    BY <1>0, <2>1, <2>2 DEF Planned, Filed, FiledNext, Rowed, RowedNext
\* A repair that stays where it is.
<1>1. ASSUME NEW r \in Runs, run'[r] = run[r], touched \subseteq touched',
             \A t \in Threads \ touched' :
               /\ file'[t].prov = file[t].prov
               /\ \A d \in Dbs : row'[d][t] \in {row[d][t], None}
      PROVE  Fine(run[r])'
  <2>1. Taken(run[r])' = Taken(run[r])
    BY <1>1 DEF Taken
  <2>2. Planned(run[r])'
    BY <1>a, <1>1, <2>1 DEF Planned
  <2>3. Filed(run[r])'
    BY <1>a, <1>1, <2>1 DEF Filed, FiledNext, Taken
  <2>4. Rowed(run[r])'
    BY <1>a, <1>1 DEF Rowed, RowedNext
  <2> QED
    BY <2>2, <2>3, <2>4
\* What else happens leaves the files and rows of a repair alone, or touches them.
<1>2. ASSUME run' = run,
             \A r \in Runs : Repairing(r) =>
               /\ touched \subseteq touched'
               /\ \A t \in Threads \ touched' :
                    /\ file'[t].prov = file[t].prov
                    /\ \A d \in Dbs : row'[d][t] \in {row[d][t], None}
      PROVE  Repaired'
  <2>1. ASSUME NEW r \in Runs
        PROVE  Fine(run[r])'
    <3>1. CASE Repairing(r)
      BY <1>1, <1>2, <3>1
    <3>2. CASE ~Repairing(r)
      BY <1>0, <1>2, <3>2 DEF Locked
    <3> QED
      BY <3>1, <3>2
  <2> HIDE DEF Fine
  <2> QED
    BY <1>b, <2>1
<1>3. ASSUME NEW t \in Threads, touched' = Touch(t), run' = run,
             \A u \in Threads \ {t} :
               /\ file'[u].prov = file[u].prov
               /\ \A d \in Dbs : row'[d][u] \in {row[d][u], None}
      PROVE  Repaired'
  <2>1. \A r \in Runs : Repairing(r) => touched' = touched \union {t}
    BY <1>3 DEF Touch
  <2> QED
    BY <1>2, <1>3, <2>1
\* A step of the only repair.
<1>4. ASSUME NEW r \in Runs, RepairStep(r)
      PROVE  Repaired'
  <2> DEFINE s == run[r]
  <2>0. s \in Repair /\ Planned(s) /\ Filed(s) /\ Rowed(s)
    BY <1>a
  <2>1. CASE BeginFails(r)
    BY <1>2, <2>1 DEF BeginFails, dataVars, ghosts
  <2>2. ASSUME ~BeginFails(r)
        PROVE  \A q \in Runs \ {r} : run'[q] = NoRun
    <3>1. Begin(r) => ~lock
      BY DEF Begin
    <3>2. \A q \in Runs \ {r} : run[q] = NoRun
      <4>1. Begin(r) \/ Repairing(r)
        BY <1>4, <2>2, RepairShape
      <4> QED
        BY <3>1, <4>1 DEF Locked
    <3>3. Begin(r) \/ Freed(r) \/ \E x : Go(r, x)
      BY <1>4, <2>2, RepairShape
    <3> QED
      BY <3>2, <3>3 DEF Begin, Freed, Go
  <2>3. ASSUME ~BeginFails(r), Fine(run[r])'
        PROVE  Repaired'
    <3>1. \A q \in Runs \ {r} : Fine(run[q])'
      BY <1>0, <2>2, <2>3
    <3> HIDE DEF Fine
    <3> QED
      BY <1>b, <2>3, <3>1
  <2>4. CASE run'[r] = NoRun
    <3>1. Fine(run[r])'
      BY <1>0, <2>4
    <3> HIDE DEF Fine
    <3> QED
      BY <2>1, <2>3, <3>1
  <2>5. ASSUME ~BeginFails(r), NEW x \in Repair, run'[r] = x,
               Planned(x), FiledNext(x), RowedNext(x)
        PROVE  Repaired'
    <3>1. Taken(run[r])' = Taken(x)
      BY <2>5 DEF Taken
    <3>2. Planned(run[r])'
      BY <2>5, <3>1 DEF Planned
    <3>3. Filed(run[r])' /\ Rowed(run[r])'
      BY <2>5, <3>1 DEF Filed, FiledNext, Rowed, RowedNext
    <3> QED
      BY <2>3, <2>5, <3>2, <3>3
  <2> USE DEF At
  <2>6. CASE Begin(r)
    <3>1. PICK p \in Providers, busy \in SUBSET {t \in Threads : Present(t)} : Go(r, ReadText(p, busy))
      BY <2>6 DEF Begin
    <3> DEFINE x == ReadText(p, busy)
               text == [t \in Threads |-> IF t \in busy THEN Missing ELSE file[t]]
    <3>2. /\ x.phase = "read" /\ x.target = p /\ x.text = text /\ x.done = {}
          /\ x.todo = {t \in Threads : text[t] # Missing /\ text[t].prov # p}
      BY DEF ReadText, NoRun
    <3>3. x \in Repair
      BY DEF ReadText, Repair, NoRun, None, Missing, Texts
    <3>4. run'[r] = x /\ UNCHANGED <<file, row>> /\ ~lock
      BY <2>6, <3>1 DEF Begin, Go, dataVars
    <3> HIDE DEF x
    <3>5. Planned(x)
      BY <3>2 DEF Planned, Taken
    <3>6. FiledNext(x)
      BY <3>2, <3>4 DEF Filed, FiledNext, Taken
    <3>7. RowedNext(x)
      BY <3>2 DEF Rowed, RowedNext
    <3>8. ~BeginFails(r)
      <4>1. run' # run
        BY <3>2, <3>4, <2>6 DEF Begin
      <4> QED
        BY <4>1 DEF BeginFails
    <3> QED
      BY <2>5, <3>3, <3>4, <3>5, <3>6, <3>7, <3>8
  <2> DEFINE Failed == [s EXCEPT !.phase = "leaving", !.end = "failed"]
             Synced == [s EXCEPT !.phase = "leaving", !.end = "synced"]
             Restored == [s EXCEPT !.phase = "restoring"]
  <2>a. /\ Failed \in Repair /\ Synced \in Repair /\ Restored \in Repair
        /\ Taken(Failed) = Taken(s) /\ Taken(Synced) = Taken(s) /\ Taken(Restored) = Taken(s)
        /\ \A x \in {Failed, Synced, Restored} :
             x.todo = s.todo /\ x.done = s.done /\ x.text = s.text /\ x.target = s.target
        /\ Failed.phase = "leaving" /\ Failed.end = "failed"
        /\ Synced.phase = "leaving" /\ Synced.end = "synced" /\ Restored.phase = "restoring"
    BY <2>0 DEF Repair, Taken
  <2> HIDE DEF Failed, Synced, Restored
  <2>b. ASSUME s.phase # "idle"
        PROVE  ~BeginFails(r)
    BY <2>b DEF BeginFails
  \* An error in the last steps.
  <2>c. ASSUME StartRestore(r), s.phase \in {"tables", "state"}, UNCHANGED <<file, touched>>
        PROVE  Repaired'
    <3>1. CASE s.done = {} /\ run'[r] = Failed
      <4>1. Planned(Failed)
        BY <2>0, <2>a DEF Planned
      <4>2. FiledNext(Failed)
        BY <2>0, <2>a, <2>c, <3>1 DEF Filed, FiledNext, Taken
      <4>3. RowedNext(Failed)
        BY <2>a DEF Rowed, RowedNext
      <4> QED
        BY <2>5, <2>a, <2>b, <2>c, <3>1, <4>1, <4>2, <4>3
    <3>2. CASE run'[r] = Restored
      <4>1. Planned(Restored)
        BY <2>0, <2>a DEF Planned
      <4>2. FiledNext(Restored)
        BY <2>0, <2>a, <2>c, <3>2 DEF Filed, FiledNext, Taken
      <4>3. RowedNext(Restored)
        BY <2>a DEF Rowed, RowedNext
      <4> QED
        BY <2>5, <2>a, <2>b, <2>c, <3>2, <4>1, <4>2, <4>3
    <3> QED
      BY <2>c, <3>1, <3>2 DEF StartRestore, Leave, Go, Failed, Restored
  <2>7. CASE UpToDate(r)
    <3>1. run'[r] = Synced /\ UNCHANGED <<file, row, touched>> /\ s.phase = "read" /\ s.todo = {}
          /\ \A d \in Dbs, t \in Threads : row[d][t] \in {None, s.target}
      BY <2>7 DEF UpToDate, Leave, Go, dataVars, ghosts, Synced
    <3>2. Planned(Synced)
      BY <2>0, <2>a DEF Planned
    <3>3. FiledNext(Synced)
      <4>1. \A t \in Taken(s) \ touched : file[t].prov = s.target
        BY <2>0, <3>1 DEF Filed, FiledNext, Planned
      <4>2. Taken(Synced) = Taken(s)
        BY <2>a DEF Taken
      <4> QED
        BY <2>a, <3>1, <4>1, <4>2 DEF Filed, FiledNext
    <3>4. RowedNext(Synced)
      BY <2>a, <3>1 DEF Rowed, RowedNext
    <3> QED
      BY <2>5, <2>a, <2>b, <3>1, <3>2, <3>3, <3>4
  <2>8. CASE SaveOriginals(r)
    <3>0. s.phase = "read" /\ UNCHANGED <<file, row>>
      BY <2>8 DEF SaveOriginals, dataVars
    <3>1. CASE GiveUp(r)
      BY <2>4, <3>1 DEF GiveUp, Freed, Go
    <3>2. CASE Goes(r, Written(s))
      <4>1. /\ Written(s) \in Repair /\ Written(s).text = s.text /\ Written(s).todo = s.todo
            /\ Written(s).done = s.done /\ Written(s).target = s.target
            /\ \/ Written(s).phase = "writing"
               \/ Written(s).phase = "tables" /\ Written(s).dbs = Dbs /\ s.todo = {}
        BY <2>0 DEF Written, Repair
      <4>2. Taken(Written(s)) = Taken(s)
        BY <4>1 DEF Taken
      <4>3. Planned(Written(s))
        BY <2>0, <3>0, <4>1, <4>2 DEF Planned
      <4>4. FiledNext(Written(s))
        BY <2>0, <3>0, <3>2, <4>1, <4>2 DEF Filed, FiledNext, Goes
      <4>5. RowedNext(Written(s))
        BY <4>1 DEF Rowed, RowedNext
      <4> QED
        BY <2>5, <2>b, <3>0, <3>2, <4>1, <4>3, <4>4, <4>5 DEF Goes, Go
    <3> QED
      BY <2>8, <3>1, <3>2 DEF SaveOriginals
  <2>9. CASE WriteFile(r)
    <3>0. s.phase = "writing" /\ UNCHANGED row
      BY <2>9 DEF WriteFile
    <3>1. PICK t \in s.todo :
       \/ /\ file' = [file EXCEPT ![t] = Overwritten(r, t)]
          /\ Goes(r, Written([run[r] EXCEPT !.todo = @ \ {t}, !.done = @ \union {t}]))
       \/ /\ Goes(r, Written([run[r] EXCEPT !.todo = @ \ {t}, !.text[t] = Missing]))
          /\ UNCHANGED <<file, last>>
       \/ GiveUp(r) /\ UNCHANGED <<file, last>>
      BY <2>9 DEF WriteFile
    <3>2. t \in Threads /\ t \in Taken(s) /\ t \notin s.done
      BY <2>0 DEF Planned, Repair
    <3>3. \A y \in Repair : y.phase = "writing" =>
            /\ Written(y) \in Repair /\ Written(y).text = y.text /\ Written(y).todo = y.todo
            /\ Written(y).done = y.done /\ Written(y).target = y.target
            /\ \/ Written(y).phase = "writing"
               \/ Written(y).phase = "tables" /\ Written(y).dbs = Dbs /\ y.todo = {}
      BY DEF Written, Repair
    <3>4. CASE GiveUp(r)
      BY <2>4, <3>4 DEF GiveUp, Freed, Go
    <3>5. CASE /\ file' = [file EXCEPT ![t] = Overwritten(r, t)]
               /\ Goes(r, Written([s EXCEPT !.todo = @ \ {t}, !.done = @ \union {t}]))
      <4> DEFINE y == [s EXCEPT !.todo = @ \ {t}, !.done = @ \union {t}]
                 x == Written(y)
      <4>1. /\ y \in Repair /\ y.phase = "writing" /\ y.text = s.text /\ y.target = s.target
            /\ y.todo = s.todo \ {t} /\ y.done = s.done \union {t}
        BY <2>0, <3>0, <3>2 DEF Repair
      <4>2. run'[r] = x /\ touched' = touched
        BY <3>5 DEF Goes, Go
      <4> HIDE DEF y
      <4>3. /\ x \in Repair /\ x.text = s.text /\ x.todo = s.todo \ {t}
            /\ x.done = s.done \union {t} /\ x.target = s.target
            /\ \/ x.phase = "writing"
               \/ x.phase = "tables" /\ x.dbs = Dbs /\ s.todo \ {t} = {}
        BY <3>3, <4>1
      <4> HIDE DEF x
      <4>4. Taken(x) = Taken(s)
        BY <4>3 DEF Taken
      <4>5. Planned(x)
        BY <2>0, <3>0, <3>2, <4>3, <4>4 DEF Planned
      <4>6. file'[t].prov = s.target /\ \A u \in Threads \ {t} : file'[u] = file[u]
        <5>1. s.text[t] \in Texts /\ s.text[t] # Missing
          BY <2>0, <3>2 DEF Repair, Taken
        <5>2. Overwritten(r, t).prov = s.target
          BY <5>1 DEF Overwritten, Texts
        <5> QED
          BY <3>2, <3>5, <5>2
      <4>7. FiledNext(x)
        BY <2>0, <3>0, <4>2, <4>3, <4>4, <4>6 DEF Filed, FiledNext, Taken
      <4>8. RowedNext(x)
        BY <4>3 DEF Rowed, RowedNext
      <4> QED
        BY <2>5, <2>b, <3>0, <4>2, <4>3, <4>5, <4>7, <4>8
    <3>6. CASE Goes(r, Written([s EXCEPT !.todo = @ \ {t}, !.text[t] = Missing])) /\ UNCHANGED file
      <4> DEFINE y == [s EXCEPT !.todo = @ \ {t}, !.text[t] = Missing]
                 x == Written(y)
      <4>0. Missing \in Texts
        BY DEF Texts
      <4>1. /\ y \in Repair /\ y.phase = "writing" /\ y.target = s.target
            /\ y.text = [s.text EXCEPT ![t] = Missing]
            /\ y.todo = s.todo \ {t} /\ y.done = s.done
        BY <2>0, <3>0, <3>2, <4>0 DEF Repair
      <4>2. run'[r] = x /\ touched' = touched
        BY <3>6 DEF Goes, Go
      <4> HIDE DEF y
      <4>3. /\ x \in Repair /\ x.text = [s.text EXCEPT ![t] = Missing] /\ x.todo = s.todo \ {t}
            /\ x.done = s.done /\ x.target = s.target
            /\ \/ x.phase = "writing"
               \/ x.phase = "tables" /\ x.dbs = Dbs /\ s.todo \ {t} = {}
        BY <3>3, <4>1
      <4> HIDE DEF x
      <4>4. Taken(x) = Taken(s) \ {t}
        BY <2>0, <3>2, <4>3 DEF Taken, Repair
      <4>5. Planned(x)
        <5>1. \A u \in Taken(s) \ {t} : x.text[u] = s.text[u]
          BY <2>0, <4>3 DEF Taken, Repair
        <5> QED
          BY <2>0, <3>0, <3>2, <4>3, <4>4, <5>1 DEF Planned
      <4>6. \A u \in Taken(s) \ {t} : x.text[u] = s.text[u]
        BY <2>0, <4>3 DEF Taken, Repair
      <4>7. FiledNext(x)
        BY <2>0, <3>0, <3>6, <4>2, <4>3, <4>4, <4>6 DEF Filed, FiledNext
      <4>8. RowedNext(x)
        BY <4>3 DEF Rowed, RowedNext
      <4> QED
        BY <2>5, <2>b, <3>0, <4>2, <4>3, <4>5, <4>7, <4>8
    <3> QED
      BY <3>1, <3>4, <3>5, <3>6
  <2>10. CASE UpdateRows(r)
    <3>0. s.phase = "tables" /\ UNCHANGED <<file, touched>> /\ s.target \in Providers
      BY <2>10 DEF UpdateRows, ghosts, Locked, Repairing
    <3>1. PICK d \in s.dbs :
       \/ /\ row' = [row EXCEPT ![d] = [t \in Threads |->
                       IF row[d][t] = None THEN None ELSE run[r].target]]
          /\ Go(r, [run[r] EXCEPT !.dbs = @ \ {d},
                                  !.phase = IF run[r].dbs = {d} THEN "state" ELSE "tables"])
       \/ StartRestore(r) /\ UNCHANGED row
      BY <2>10 DEF UpdateRows
    <3>2. CASE StartRestore(r)
      BY <2>c, <3>0, <3>2
    <3>3. CASE /\ row' = [row EXCEPT ![d] = [t \in Threads |->
                       IF row[d][t] = None THEN None ELSE run[r].target]]
               /\ Go(r, [run[r] EXCEPT !.dbs = @ \ {d},
                                       !.phase = IF run[r].dbs = {d} THEN "state" ELSE "tables"])
      <4> DEFINE x == [run[r] EXCEPT !.dbs = @ \ {d}, !.phase = IF run[r].dbs = {d} THEN "state" ELSE "tables"]
      <4>1. /\ x \in Repair /\ x.text = s.text /\ x.todo = s.todo /\ x.done = s.done
            /\ x.target = s.target /\ x.dbs = s.dbs \ {d}
            /\ \/ x.phase = "state" /\ s.dbs = {d}
               \/ x.phase = "tables"
        BY <2>0 DEF Repair
      <4>2. run'[r] = x
        BY <3>3 DEF Go
      <4> HIDE DEF x
      <4>3. Taken(x) = Taken(s)
        BY <4>1 DEF Taken
      <4>4. Planned(x)
        BY <2>0, <3>0, <4>1, <4>3 DEF Planned
      <4>5. FiledNext(x)
        BY <2>0, <3>0, <4>1, <4>3 DEF Filed, FiledNext
      <4>6. /\ \A t \in Threads : row'[d][t] \in {None, s.target}
            /\ \A e \in Dbs \ {d} : row'[e] = row[e]
        BY <2>0, <3>1, <3>3 DEF Repair
      <4>7. RowedNext(x)
        <5>1. ASSUME NEW t \in Threads \ touched, NEW e \in Dbs, e \notin s.dbs \ {d}
              PROVE  row'[e][t] \in {None, s.target}
          <6>1. CASE e = d
            BY <4>6, <6>1
          <6>2. CASE e # d
            BY <2>0, <3>0, <4>6, <5>1, <6>2 DEF Rowed, RowedNext
          <6> QED
            BY <6>1, <6>2
        <5>2. x.phase \notin {"leaving"} /\ (x.phase = "state" => s.dbs \ {d} = {})
          BY <4>1
        <5> QED
          BY <3>0, <4>1, <5>1, <5>2 DEF Rowed, RowedNext
      <4> QED
        BY <2>5, <2>b, <3>0, <4>1, <4>2, <4>4, <4>5, <4>7
    <3> QED
      BY <3>1, <3>2, <3>3
  <2>11. CASE FinishRepair(r)
    <3>0. s.phase = "state" /\ UNCHANGED <<file, row, touched>>
      BY <2>11 DEF FinishRepair, dataVars, ghosts
    <3>1. CASE StartRestore(r)
      BY <2>c, <3>0, <3>1
    <3>2. CASE Leave(r, "synced")
      <4>1. run'[r] = Synced
        BY <3>2 DEF Leave, Go, Synced
      <4>2. Planned(Synced)
        BY <2>0, <2>a DEF Planned
      <4>3. FiledNext(Synced)
        <5>1. \A t \in Taken(s) \ touched : file[t].prov = s.target
          BY <2>0, <3>0 DEF Filed, FiledNext, Planned
        <5>2. Taken(Synced) = Taken(s)
          BY <2>a DEF Taken
        <5> QED
          BY <2>a, <3>0, <5>1, <5>2 DEF Filed, FiledNext
      <4>4. RowedNext(Synced)
        BY <2>0, <2>a, <3>0 DEF Rowed, RowedNext
      <4> QED
        BY <2>5, <2>a, <2>b, <3>0, <4>1, <4>2, <4>3, <4>4
    <3> QED
      BY <2>11, <3>1, <3>2 DEF FinishRepair
  <2>12. CASE RestoreFile(r)
    <3>0. s.phase = "restoring"
      BY <2>12 DEF RestoreFile
    <3>1. PICK t \in s.done :
       \/ /\ file' = [file EXCEPT ![t] = run[r].text[t]]
          /\ IF run[r].done = {t} THEN Goes(r, Failed)
             ELSE Goes(r, [run[r] EXCEPT !.done = @ \ {t}])
       \/ GiveUp(r) /\ UNCHANGED file
      BY <2>12 DEF RestoreFile, Failed
    <3>2. t \in Threads /\ t \in Taken(s)
      BY <2>0 DEF Planned, Repair
    <3>3. CASE GiveUp(r)
      BY <2>4, <3>3 DEF GiveUp, Freed, Go
    <3>4. ASSUME file' = [file EXCEPT ![t] = s.text[t]]
          PROVE  file'[t].prov = s.text[t].prov /\ \A u \in Threads \ {t} : file'[u] = file[u]
      BY <3>2, <3>4
    <3>5. CASE file' = [file EXCEPT ![t] = s.text[t]] /\ s.done = {t} /\ Goes(r, Failed)
      <4>1. run'[r] = Failed /\ touched' = touched
        BY <3>5 DEF Goes, Go
      <4>2. Planned(Failed)
        BY <2>0, <2>a DEF Planned
      <4>3. Taken(Failed) = Taken(s)
        BY <2>a DEF Taken
      <4>4. FiledNext(Failed)
        BY <2>0, <2>a, <3>0, <3>4, <3>5, <4>1, <4>3 DEF Filed, FiledNext, Taken
      <4>5. RowedNext(Failed)
        BY <2>a DEF Rowed, RowedNext
      <4> QED
        BY <2>5, <2>a, <2>b, <3>0, <4>1, <4>2, <4>4, <4>5
    <3>6. CASE file' = [file EXCEPT ![t] = s.text[t]] /\ Goes(r, [s EXCEPT !.done = @ \ {t}])
      <4> DEFINE x == [s EXCEPT !.done = @ \ {t}]
      <4>1. /\ x \in Repair /\ x.text = s.text /\ x.todo = s.todo /\ x.done = s.done \ {t}
            /\ x.target = s.target /\ x.phase = "restoring"
        BY <2>0, <3>0 DEF Repair
      <4>2. run'[r] = x /\ touched' = touched
        BY <3>6 DEF Goes, Go
      <4> HIDE DEF x
      <4>3. Taken(x) = Taken(s)
        BY <4>1 DEF Taken
      <4>4. Planned(x)
        BY <2>0, <4>1, <4>3 DEF Planned
      <4>5. FiledNext(x)
        BY <2>0, <3>0, <3>4, <3>6, <4>1, <4>2, <4>3 DEF Filed, FiledNext, Taken
      <4>6. RowedNext(x)
        BY <4>1 DEF Rowed, RowedNext
      <4> QED
        BY <2>5, <2>b, <3>0, <4>1, <4>2, <4>4, <4>5, <4>6
    <3> QED
      BY <3>1, <3>3, <3>5, <3>6
  <2>13. CASE Release(r)
    BY <2>4, <2>13 DEF Release, Freed, Go
  <2> QED
    BY <1>4, <2>1, <2>6, <2>7, <2>8, <2>9, <2>10, <2>11, <2>12, <2>13 DEF RepairStep
<1>5. CASE CleanupStep
  <2>1. UNCHANGED <<file, row, run, touched>>
    BY <1>5 DEF CleanupStep, Apply, Look, Compare, WriteIndex, dataVars, ghosts
  <2> QED
    BY <1>2, <2>1
<1>6. CASE DeletionStep
  <2>1. ASSUME NEW d \in Dbs, DeleteRow(d)
        PROVE  Repaired'
    <3>1. file' = file /\ run' = run /\ d \in del.left /\ del.t \in Threads
      BY <2>1 DEF DeleteRow
    <3>2. \/ row' = row /\ touched' = touched
          \/ row' = [row EXCEPT ![d][del.t] = None] /\ touched' = Touch(del.t)
      BY <2>1 DEF DeleteRow, SkipDb
    <3>3. \A e \in Dbs, t \in Threads : row'[e][t] \in {row[e][t], None}
      BY <3>1, <3>2
    <3> QED
      BY <1>2, <1>3, <3>1, <3>2, <3>3
  <2>2. CASE RemoveFile
    <3>1. del.t \in Threads /\ run' = run /\ row' = row /\ touched' = Touch(del.t)
          /\ \A u \in Threads \ {del.t} : file'[u] = file[u]
      BY <2>2 DEF RemoveFile
    <3> QED
      BY <1>3, <3>1
  <2>3. CASE Undo
    <3>1. PICK k \in tokens :
       /\ row' = [row EXCEPT ![FirstDb][k.t] = k.prov]
       /\ file' = [file EXCEPT ![k.t] = k.text] \/ file' = file
       /\ touched' = Touch(k.t)
      BY <2>3 DEF Undo
    <3>2. k.t \in Threads /\ run' = run
      BY <2>3 DEF Undo
    <3>3. \A u \in Threads \ {k.t} : file'[u] = file[u] /\ \A d \in Dbs : row'[d][u] = row[d][u]
      BY <3>1
    <3> QED
      BY <1>3, <3>1, <3>2, <3>3
  <2> QED
    BY <1>6, <2>1, <2>2, <2>3 DEF DeletionStep
<1>7. CASE Crash
  <2>1. CASE run' = run /\ touched' = touched
    BY <1>2, <1>7, <2>1 DEF Crash, dataVars
  <2>2. CASE \E r \in Runs : Repairing(r) /\ Go(r, NoRun)
    <3>1. \A q \in Runs : run'[q] = NoRun
      BY <2>2 DEF Go, Locked
    <3>2. \A q \in Runs : Fine(run[q])'
      BY <1>0, <3>1
    <3> HIDE DEF Fine
    <3> QED
      BY <1>b, <3>2
  <2> QED
    BY <1>7, <2>1, <2>2 DEF Crash
<1>8. ASSUME NEW t \in Threads, NewThread(t)
      PROVE  Repaired'
  <2>1. /\ run' = run /\ touched' = Touch(t)
        /\ \A u \in Threads \ {t} : file'[u] = file[u] /\ \A d \in Dbs : row'[d][u] = row[d][u]
    BY <1>8 DEF NewThread
  <2> QED
    BY <1>3, <2>1
<1>9. ASSUME NEW t \in Threads, AppendLine(t)
      PROVE  Repaired'
  <2>1. /\ run' = run /\ touched' = touched /\ row' = row
        /\ file' = [file EXCEPT ![t].lines = @ + 1] /\ file[t] # Missing
    BY <1>9 DEF AppendLine, Present
  <2>2. \A u \in Threads : file'[u].prov = file[u].prov
    BY <2>1 DEF Texts
  <2> QED
    BY <1>2, <2>1, <2>2
<1>10. ASSUME NEW t \in Threads, Name(t) \/ Delete(t)
      PROVE  Repaired'
  BY <1>2, <1>10 DEF Name, Delete, dataVars, ghosts
<1>11. CASE UNCHANGED codexVars
  BY <1>2, <1>11 DEF codexVars, dataVars, ghosts
<1> QED
  BY <1>4, <1>5, <1>6, <1>7, <1>8, <1>9, <1>10, <1>11 DEF DataNext

\* What the cleanup has chosen stays without an owner, but for sessions brought back.
LEMMA CleanedStep == DInv /\ [DataNext]_codexVars => Cleaned'
<1> SUFFICES ASSUME DInv, [DataNext]_codexVars
             PROVE  Cleaned'
  OBVIOUS
<1> USE DEF DInv, DataTypes
\* Steps that leave the cleanup and the index alone and bring no session back.
<1>1. ASSUME clean' = clean, index' = index,
             \A t \in clean.chosen : said[t] # 0 => said'[t] # 0 /\ (Live(t)' => Live(t))
      PROVE  Cleaned'
  BY <1>1 DEF Cleaned
<1>2. ASSUME clean'.phase \notin {"comparing", "writing"}
      PROVE  Cleaned'
  BY <1>2 DEF Cleaned
<1>3. ASSUME NEW t \in Threads, NewThread(t)
      PROVE  Cleaned'
  <2>1. /\ said[t] = 0 /\ clean' = clean /\ index' = index /\ said' = [said EXCEPT ![t] = 1]
        /\ \A u \in Threads \ {t} : file'[u] = file[u] /\ \A d \in Dbs : row'[d][u] = row[d][u]
    BY <1>3 DEF NewThread
  <2>2. \A u \in Threads \ {t} : said'[u] = said[u] /\ (Live(u)' => Live(u))
    BY <2>1 DEF Live, Present
  <2>3. clean.phase \in {"comparing", "writing"} => t \notin clean.chosen
    BY <2>1 DEF Cleaned
  <2>4. CASE clean.phase \in {"comparing", "writing"}
    BY <1>1, <2>1, <2>2, <2>3, <2>4
  <2> QED
    BY <1>2, <2>1, <2>4
<1>4. ASSUME NEW t \in Threads, AppendLine(t)
      PROVE  Cleaned'
  <2>1. /\ clean' = clean /\ index' = index /\ row' = row /\ said' = [said EXCEPT ![t] = @ + 1]
        /\ file' = [file EXCEPT ![t].lines = @ + 1] /\ Present(t)
    BY <1>4 DEF AppendLine
  <2>2. \A u \in Threads : said[u] # 0 => said'[u] # 0
    BY <2>1
  <2>3. \A u \in Threads : Live(u)' => Live(u)
    <3>1. \A u \in Threads \ {t} : file'[u] = file[u]
      BY <2>1
    <3> QED
      BY <2>1, <3>1 DEF Live, Present
  <2> QED
    BY <1>1, <2>1, <2>2, <2>3
<1>5. ASSUME NEW t \in Threads, Name(t)
      PROVE  Cleaned'
  <2>1. /\ UNCHANGED <<file, row, said>> /\ index' = index \union {t}
        /\ clean' = IF clean.phase = "writing" THEN [clean EXCEPT !.fresh = @ \union {t}] ELSE clean
    BY <1>5 DEF Name, ghosts
  <2>2. /\ clean'.phase = clean.phase /\ clean'.chosen = clean.chosen /\ clean'.late = clean.late
        /\ clean'.seen = clean.seen
        /\ clean.phase = "writing" => clean'.fresh = clean.fresh \union {t}
    BY <2>1
  <2>3. \A u : Live(u)' <=> Live(u)
    BY <2>1 DEF Live, Present
  <2> QED
    BY <2>1, <2>2, <2>3 DEF Cleaned
<1>6. ASSUME NEW t \in Threads, Delete(t)
      PROVE  Cleaned'
  <2>1. UNCHANGED <<file, row, index, clean, said>>
    BY <1>6 DEF Delete, dataVars, ghosts
  <2>2. \A u : Live(u)' => Live(u)
    BY <2>1 DEF Live, Present
  <2> QED
    BY <1>1, <2>1, <2>2
<1>7. ASSUME NEW r \in Runs, RepairStep(r)
      PROVE  Cleaned'
  <2>1. clean' = clean
    BY <1>7, RepairShape
  <2>2. ~lock \/ Repairing(r)
    BY <1>7, RepairShape DEF Begin, BeginFails
  <2>3. clean.phase = "idle"
    BY <2>2 DEF Locked
  <2> QED
    BY <1>2, <2>1, <2>3
<1>8. CASE CleanupStep
  <2> USE DEF ToClean, EndCleanup
  <2>0. clean' = NoCleanup => Cleaned'
    BY <1>2 DEF NoCleanup
  <2>1. CASE Apply
    BY <1>2, <2>1 DEF Apply, NoCleanup
  <2>2. CASE Look
    <3>1. CASE \E chosen \in SUBSET Dead :
             clean' = [NoCleanup EXCEPT !.phase = "comparing", !.seen = index, !.chosen = chosen]
      <4>1. PICK chosen \in SUBSET Dead :
             clean' = [NoCleanup EXCEPT !.phase = "comparing", !.seen = index, !.chosen = chosen]
        BY <3>1
      <4>2. clean'.phase = "comparing" /\ clean'.chosen = chosen
        BY <4>1 DEF NoCleanup
      <4>3. UNCHANGED <<file, row, said>>
        BY <2>2 DEF Look, dataVars, ghosts
      <4>4. \A t \in Dead : said'[t] # 0 /\ ~Live(t)'
        BY <4>3 DEF Dead, Live, Present, Unborn
      <4> QED
        BY <4>2, <4>4 DEF Cleaned
    <3> QED
      BY <2>0, <2>2, <3>1 DEF Look
  <2>3. CASE Compare
    <3>1. CASE index = clean.seen /\ clean' = [clean EXCEPT !.phase = "writing"]
      <4>1. /\ clean'.phase = "writing" /\ clean'.chosen = clean.chosen /\ clean'.late = clean.late
            /\ clean'.seen = clean.seen /\ clean.phase = "comparing"
        BY <2>3, <3>1 DEF Compare
      <4>2. UNCHANGED <<file, row, index, said>>
        BY <2>3 DEF Compare, dataVars, ghosts
      <4>3. \A u : Live(u)' <=> Live(u)
        BY <4>2 DEF Live, Present
      <4> QED
        BY <3>1, <4>1, <4>2, <4>3 DEF Cleaned
    <3> QED
      BY <2>0, <2>3, <3>1 DEF Compare
  <2>4. CASE WriteIndex
    BY <2>0, <2>4 DEF WriteIndex
  <2> QED
    BY <1>8, <2>1, <2>2, <2>3, <2>4 DEF CleanupStep
<1>9. CASE DeletionStep
  <2>1. ASSUME NEW d \in Dbs, DeleteRow(d)
        PROVE  Cleaned'
    <3>1. /\ UNCHANGED <<file, index, clean, said>> /\ d \in del.left /\ del.t \in Threads
          /\ row' = row \/ row' = [row EXCEPT ![d][del.t] = None]
      BY <2>1 DEF DeleteRow, SkipDb
    <3>2. \A e \in Dbs, t \in Threads : row'[e][t] \in {row[e][t], None}
      BY <3>1
    <3>3. \A t \in Threads : Live(t)' => Live(t)
      BY <3>1, <3>2 DEF Live, Present
    <3> QED
      BY <1>1, <3>1, <3>3
  <2>2. CASE RemoveFile
    <3>1. /\ UNCHANGED <<row, index, clean, said>> /\ del.t \in Threads
          /\ file' = [file EXCEPT ![del.t] = Missing] \/ file' = file
      BY <2>2 DEF RemoveFile
    <3>2. \A t \in Threads : file'[t] \in {file[t], Missing}
      BY <3>1
    <3>3. \A t \in Threads : Live(t)' => Live(t)
      BY <3>1, <3>2 DEF Live, Present
    <3> QED
      BY <1>1, <3>1, <3>3
  <2>3. CASE Undo
    <3>1. PICK k \in tokens :
       /\ row' = [row EXCEPT ![FirstDb][k.t] = k.prov]
       /\ \/ /\ k.text # Missing
             /\ file' = [file EXCEPT ![k.t] = k.text]
             /\ said' = [said EXCEPT ![k.t] = k.text.lines]
          \/ UNCHANGED <<file, said>>
       /\ clean' = IF clean.phase \in {"comparing", "writing"}
                   THEN [clean EXCEPT !.late = @ \union {k.t}] ELSE clean
      BY <2>3 DEF Undo
    <3>2. k.t \in Threads /\ index' = index
      BY <2>3 DEF Undo
    <3>3. CASE clean.phase \in {"comparing", "writing"}
      <4>1. /\ clean'.phase = clean.phase /\ clean'.chosen = clean.chosen
            /\ clean'.late = clean.late \union {k.t} /\ clean'.seen = clean.seen
            /\ clean'.fresh = clean.fresh
        BY <3>1, <3>3
      <4>2. \A t \in Threads : said[t] # 0 => said'[t] # 0
        <5>1. k.text # Missing => k.text.lines # 0
          BY TextFacts
        <5> QED
          BY <3>1, <3>2, <5>1
      <4>3. \A t \in Threads \ {k.t} : Live(t)' => Live(t)
        <5>1. \A t \in Threads \ {k.t} : file'[t] = file[t] /\ \A d \in Dbs : row'[d][t] = row[d][t]
          BY <3>1
        <5> QED
          BY <5>1 DEF Live, Present
      <4> QED
        BY <3>2, <3>3, <4>1, <4>2, <4>3 DEF Cleaned
    <3> QED
      BY <1>2, <3>1, <3>3
  <2> QED
    BY <1>9, <2>1, <2>2, <2>3 DEF DeletionStep
<1>10. CASE Crash
  <2>1. CASE clean' = clean
    <3>1. UNCHANGED <<file, row, index, said>>
      BY <1>10 DEF Crash, dataVars
    <3>2. \A u : Live(u)' => Live(u)
      BY <3>1 DEF Live, Present
    <3> QED
      BY <1>1, <2>1, <3>1, <3>2
  <2>2. CASE clean' = NoCleanup
    BY <1>2, <2>2 DEF NoCleanup
  <2> QED
    BY <1>10, <2>1, <2>2 DEF Crash, ToClean
<1>11. CASE UNCHANGED codexVars
  <2>1. UNCHANGED <<file, row, index, clean, said>>
    BY <1>11 DEF codexVars, dataVars, ghosts
  <2>2. \A u : Live(u)' => Live(u)
    BY <2>1 DEF Live, Present
  <2> QED
    BY <1>1, <2>1, <2>2
<1> QED
  BY <1>3, <1>4, <1>5, <1>6, <1>7, <1>8, <1>9, <1>10, <1>11 DEF DataNext

\* All of it at all times.
LEMMA DataInvariant == DataSpec => []DInv
<1>1. DInv /\ [DataNext]_codexVars => DInv'
  BY TypesStep, LockedStep, UnbornStep, KeptStep, NumberedStep, BackedStep, RepairedStep, CleanedStep
     DEF DInv
<1> QED
  BY <1>1, DataStarts, PTL DEF DataSpec

\* A repair that is done has changed every session it read and all rows, and one that failed in a
\* later step has put every file back, except for sessions that came, went or came back meanwhile.
THEOREM AlwaysAllOrNothing == DataSpec => []AllOrNothing
<1>1. DInv => AllOrNothing
  <2> SUFFICES ASSUME DInv, NEW r \in Runs, At(r, "leaving"),
                      NEW t \in {u \in Threads : run[r].text[u] # Missing} \ touched
               PROVE  /\ run[r].end = "synced" =>
                           /\ file[t].prov = run[r].target
                           /\ \A d \in Dbs : row[d][t] \in {None, run[r].target}
                      /\ run[r].end = "failed" => file[t].prov = run[r].text[t].prov
    BY DEF AllOrNothing
  <2>1. Filed(run[r]) /\ Rowed(run[r])
    BY DEF DInv, Repaired
  <2> QED
    BY <2>1 DEF Filed, Rowed, Taken, At
<1> QED
  BY <1>1, DataInvariant, PTL

\* The provider a repair found in a file it has overwritten is in its backup, as long as that is
\* among the last ones made.
THEOREM AlwaysOriginalsBackedUp == DataSpec => []OriginalsBackedUp
<1>1. DInv => OriginalsBackedUp
  BY DEF DInv, Backed
<1> QED
  BY <1>1, DataInvariant, PTL

\* No line of a session disappears, except in the windows that `exposed' records.
THEOREM AlwaysNothingLost == DataSpec => []NothingLost
<1>1. DInv => NothingLost
  BY DEF DInv, Kept
<1> QED
  BY <1>1, DataInvariant, PTL

\* Only the cleanup takes sessions from the index: those chosen, which belong to no session again
\* unless it was brought back after the last look, and those Codex added after the comparison.
THEOREM AlwaysIndexSpares == DataSpec => IndexSpares
<1> DEFINE Spares == \A t \in index \ index' :
                       \/ t \in clean.chosen /\ (Live(t) => t \in clean.late)
                       \/ t \in clean.fresh
<1>1. DInv /\ [DataNext]_codexVars => [Spares]_codexVars
  <2> SUFFICES ASSUME DInv, DataNext PROVE Spares
    BY DEF codexVars
  <2>1. CASE WriteIndex
    <3>1. \/ index' = clean.seen \ clean.chosen
          \/ index' = index
      BY <2>1 DEF WriteIndex
    <3>2. \A t \in index \ index' : t \in clean.chosen \/ t \in clean.fresh
      BY <2>1, <3>1 DEF WriteIndex, DInv, Cleaned
    <3> QED
      BY <2>1, <3>2 DEF WriteIndex, DInv, Cleaned
  <2>2. ASSUME ~WriteIndex
        PROVE  index \subseteq index'
    <3>1. ASSUME NEW t \in Threads, NewThread(t) \/ AppendLine(t) \/ Name(t) \/ Delete(t)
          PROVE  index \subseteq index'
      BY <3>1 DEF NewThread, AppendLine, Name, Delete, dataVars
    <3>2. ASSUME NEW r \in Runs, RepairStep(r)
          PROVE  index \subseteq index'
      BY <3>2, RepairShape
    <3>3. CASE Apply \/ Look \/ Compare
      BY <3>3 DEF Apply, Look, Compare, dataVars
    <3>4. CASE DeletionStep
      BY <3>4 DEF DeletionStep, DeleteRow, RemoveFile, Undo
    <3>5. CASE Crash
      BY <3>5 DEF Crash, dataVars
    <3> QED
      BY <2>2, <3>1, <3>2, <3>3, <3>4, <3>5 DEF DataNext, CleanupStep
  <2> QED
    BY <2>1, <2>2
<1> QED
  BY <1>1, DataInvariant, PTL DEF DataSpec, IndexSpares
=============================================================================
