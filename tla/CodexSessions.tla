--------------------------- MODULE CodexSessions ----------------------------
(***************************************************************************)
(* The loop of relay_client::run between the phone and Codex's app-server.  *)
(* It is one task: while it works on a command of the phone - one or two    *)
(* requests to the app-server, each of which has first to be written to a   *)
(* pipe that may be full and then has a time-out - it takes no events,      *)
(* which wait in a bounded broadcast channel.  Beside it run the reader of  *)
(* the app-server's output and Codex itself.  The monitor shows the desktop *)
(* what the loop makes of both; it outlives a run of the loop.              *)
(*                                                                         *)
(* Codex is external: it answers requests in order or not at all, starts a  *)
(* turn for an accepted input, and may end it or die at any time.  Left     *)
(* out: texts, models, capabilities, attachments, and the questions Codex   *)
(* asks (the reader declines them, writing to the same pipe).               *)
(***************************************************************************)
EXTENDS Naturals, Sequences, FiniteSets, SequencesExt

CONSTANTS
  Sessions,      \* threads of Codex
  Known,         \* those it has from the start
  Capacity,      \* events the channel holds (1024)
  MaxSessions,   \* sessions the monitor keeps (24)
  PipeSize,      \* requests the pipe to Codex takes even if Codex reads none of them
  MaxCommands, MaxRuns   \* bounds

ASSUME KnownAssumption == Known \subseteq Sessions
ASSUME SizeAssumption ==
  Capacity \in Nat \ {0} /\ MaxSessions \in Nat \ {0} /\ PipeSize \in Nat
ASSUME BoundAssumption == MaxCommands \in Nat /\ MaxRuns \in Nat \ {0}

VARIABLES
  codex,    \* the process: alive, its threads, the turn each runs (0: none), its input and output
  reading,  \* the reader has not seen the end of the output
  pending,  \* ids of requests that wait for an answer
  events,   \* the broadcast channel
  loop,     \* where the loop is, and its command
  allowed,  \* sessions whose events go to the phone
  shown,    \* the monitor's sessions with their status, the one used last first
  commands, runs, lastId,
  answered, \* history: commands the loop has answered
  told,     \* history: turns of which the phone heard
  blurred,  \* history: sessions whose status was set without regard to Codex, or missed an event
  deaf      \* history: the loop subscribed after the reader had ended

vars == <<codex, reading, pending, events, loop, allowed, shown, commands, runs, lastId,
          answered, told, blurred, deaf>>

Idle == [at |-> "idle"]
Started == [alive |-> TRUE, threads |-> Known, turn |-> [s \in Sessions |-> 0],
            in |-> <<>>, out |-> <<>>]
Died(c) == [c EXCEPT !.alive = FALSE, !.turn = [s \in Sessions |-> 0], !.in = <<>>]

Answer(id, ok) == [is |-> "answer", id |-> id, ok |-> ok]
Event(what, s, turn) == [is |-> "event", what |-> what, s |-> s, turn |-> turn]
Gone == [is |-> "gone"]

-----------------------------------------------------------------------------
(* The monitor.                                                              *)

Active == {"waiting", "running"}

\* `order' without a session, which it has once at most.
Without(m, s) ==
  LET at == {i \in DOMAIN m : m[i].s = s}
  IN  IF at = {} THEN m ELSE RemoveAt(m, CHOOSE i \in at : TRUE)

\* ensure_session and trim_sessions: the session comes first, the last one is dropped.
Used(m, s, status) ==
  LET moved == <<[s |-> s, status |-> status]>> \o Without(m, s)
  IN  IF Len(moved) > MaxSessions THEN Front(moved) ELSE moved

\* normalized_event: a session the monitor does not know is left out.
StatusAfterUnstopped(e, old) ==   \* wrong: an interrupted turn keeps its status
  IF e.what = "completed" THEN "completed"
  ELSE IF e.what = "interrupted" THEN old ELSE "running"

StatusAfter(e, old) ==
  IF e.what = "completed" THEN "completed"
  ELSE IF e.what = "interrupted" THEN "stopped" ELSE "running"

Heard(m, e) ==
  [i \in DOMAIN m |-> IF m[i].s = e.s THEN [m[i] EXCEPT !.status = StatusAfter(e, @)] ELSE m[i]]

Disconnected(m) ==
  [i \in DOMAIN m |-> IF m[i].status \in Active THEN [m[i] EXCEPT !.status = "disconnected"] ELSE m[i]]

ActiveIn(m) == {s \in Sessions : \E i \in DOMAIN m : m[i].s = s /\ m[i].status \in Active}

-----------------------------------------------------------------------------
Init ==
  /\ codex = Started /\ reading = TRUE /\ pending = {} /\ events = <<>>
  /\ loop = [at |-> "starting"] /\ allowed = {} /\ shown = <<>>
  /\ commands = 0 /\ runs = 1 /\ lastId = 0
  /\ answered = {} /\ told = {} /\ blurred = {} /\ deaf = FALSE

\* The account was read and the phone was told of the desktop.
Subscribe ==
  /\ loop.at = "starting"
  /\ loop' = Idle /\ deaf' = ~reading
  /\ UNCHANGED <<codex, reading, pending, events, allowed, shown, commands, runs, lastId,
                 answered, told, blurred>>

\* AppServerClient::request: the request is noted before it is written.
Ask(command, stage, what) ==
  LET id == lastId + 1
  IN  /\ pending' = pending \cup {id} /\ lastId' = id
      /\ loop' = [command EXCEPT !.at = stage, !.id = id, !.what = what, !.result = "writing"]
      /\ UNCHANGED codex

Command(kind, s) ==
  [at |-> "idle", kind |-> kind, s |-> s, by |-> commands + 1, id |-> 0, what |-> "read",
   result |-> "none"]

Working == loop.at \in {"first", "second"}
Writing == Working /\ loop.result = "writing"
Ended   == loop.result \in {"ok", "failed"}

\* write_all and flush, which wait, without a time-out, while the pipe is full.
Write ==
  /\ Writing /\ codex.alive
  /\ codex' = [codex EXCEPT !.in =
                  Append(@, [id |-> loop.id, what |-> loop.what, s |-> loop.s, by |-> loop.by])]
  /\ loop' = [loop EXCEPT !.result = "none"]
  /\ UNCHANGED <<reading, pending, events, allowed, shown, commands, runs, lastId, answered,
                 told, blurred, deaf>>

\* A write to a process that is gone fails, also one that was waiting.
WriteFails ==
  /\ Writing /\ ~codex.alive
  /\ pending' = pending \ {loop.id}
  /\ loop' = [loop EXCEPT !.result = "failed"]
  /\ UNCHANGED <<codex, reading, events, allowed, shown, commands, runs, lastId, answered,
                 told, blurred, deaf>>

\* The pipe has room for one more request.
Room == Len(codex.in) < PipeSize

\* A command of the phone that is neither a replay nor cached (see CommandPath).
TakeCommand(kind, s) ==
  /\ loop.at = "idle" /\ commands < MaxCommands
  /\ commands' = commands + 1
  /\ CASE kind = "create" -> s \notin codex.threads /\ Ask(Command(kind, s), "second", "start")
       [] kind = "interrupt" -> s \in allowed /\ Ask(Command(kind, s), "second", "interrupt")
       [] OTHER -> Ask(Command(kind, s), "first", "read")
  /\ UNCHANGED <<reading, events, allowed, shown, runs, answered, told, blurred, deaf>>

Respond ==
  /\ answered' = answered \cup {loop.by}
  /\ loop' = Idle
  /\ UNCHANGED <<reading, events, commands, runs, told, deaf>>

\* The first answer says whose session it is; the session or the command may be refused.
Refuse ==
  /\ loop.at = "first" /\ Ended
  /\ Respond
  /\ allowed' \in {allowed} \cup
       (IF loop.kind = "input" /\ loop.result = "ok" THEN {allowed \cup {loop.s}} ELSE {})
  /\ UNCHANGED <<codex, pending, shown, lastId, blurred>>

GoOn ==
  /\ loop.at = "first" /\ loop.result = "ok"
  /\ allowed' = IF loop.kind = "history" THEN allowed ELSE allowed \cup {loop.s}
  /\ shown' = IF loop.kind = "input" THEN Used(shown, loop.s, "waiting") ELSE shown
  /\ Ask(loop, "second", CASE loop.kind = "input" -> "turn"
                           [] loop.kind = "resume" -> "resume"
                           [] OTHER -> "read")
  /\ UNCHANGED <<reading, events, commands, runs, answered, told, blurred, deaf>>

\* The second answer: a session that was created, resumed or read is `ready', whatever Codex
\* does in it; one whose input failed stays `waiting'.
Finish ==
  LET ready == loop.result = "ok" /\ loop.kind \in {"create", "resume", "history"}
      lost  == loop.result = "failed" /\ loop.kind = "input"
  IN
  /\ loop.at = "second" /\ Ended
  /\ Respond
  /\ allowed' = IF loop.kind = "create" /\ loop.result = "ok" THEN allowed \cup {loop.s} ELSE allowed
  /\ shown' = IF ready THEN Used(shown, loop.s, "ready") ELSE shown
  /\ blurred' = IF lost \/ (ready /\ codex.turn[loop.s] # 0) THEN blurred \cup {loop.s} ELSE blurred
  /\ UNCHANGED <<codex, pending, lastId>>

\* Sixty seconds without an answer to a request that is written.
TimeOutOfFirst ==   \* wrong: the second request may wait for ever
  /\ loop.at = "first" /\ loop.result = "none"
  /\ pending' = pending \ {loop.id}
  /\ loop' = [loop EXCEPT !.result = "failed"]
  /\ UNCHANGED <<codex, reading, events, allowed, shown, commands, runs, lastId, answered,
                 told, blurred, deaf>>

TimeOut ==
  /\ Working /\ loop.result = "none"
  /\ pending' = pending \ {loop.id}
  /\ loop' = [loop EXCEPT !.result = "failed"]
  /\ UNCHANGED <<codex, reading, events, allowed, shown, commands, runs, lastId, answered,
                 told, blurred, deaf>>

\* Events are taken between commands only.
BetweenCommandsOrNot == loop.at \in {"idle", "first", "second"}   \* wrong: at any time
BetweenCommands == loop.at = "idle"

TakeEvent ==
  /\ BetweenCommands /\ events # <<>> /\ Head(events).is = "event"
  /\ events' = Tail(events)
  /\ LET e == Head(events)
     IN  IF e.s \in allowed
         THEN /\ shown' = Heard(shown, e)
              /\ told' = told \cup {e.turn} /\ blurred' = blurred \ {e.s}
         ELSE UNCHANGED <<shown, told, blurred>>
  /\ UNCHANGED <<codex, reading, pending, loop, allowed, commands, runs, lastId, answered, deaf>>

\* The end of a run with its clean-up: the app-server left, the connection closed, or stop.
Over(m, b) ==
  /\ loop' = [at |-> "over"] /\ shown' = m /\ blurred' = b
  /\ codex' = [Died(codex) EXCEPT !.out = <<>>] /\ reading' = FALSE /\ pending' = {} /\ events' = <<>>
  /\ UNCHANGED <<allowed, commands, runs, lastId, answered, told, deaf>>

CodexLeft == loop.at = "idle" /\ events # <<>> /\ Head(events) = Gone /\ Over(Disconnected(shown), {})
Closed == loop.at = "idle" /\ Over(Disconnected(shown), {})

\* A message that cannot be sent ends the run through `?', past the clean-up.
SendFails == loop.at = "idle" /\ Over(shown, ActiveIn(shown))

Reconnect ==
  /\ loop.at = "over" /\ runs < MaxRuns
  /\ runs' = runs + 1 /\ loop' = [at |-> "starting"] /\ allowed' = {}
  /\ codex' = [Started EXCEPT !.threads = codex.threads] /\ reading' = TRUE /\ deaf' = FALSE
  /\ UNCHANGED <<pending, events, shown, commands, lastId, answered, told, blurred>>

-----------------------------------------------------------------------------
(* The reader of the app-server's output.                                    *)

Listening == loop.at \notin {"starting", "over"}

\* A full channel drops its oldest event for the receiver.
SendIfRoom(e) ==   \* wrong: a full channel refuses the new event
  IF ~Listening \/ Len(events) >= Capacity THEN UNCHANGED <<events, blurred>>
  ELSE events' = Append(events, e) /\ UNCHANGED blurred

Send(e) ==
  IF ~Listening THEN UNCHANGED <<events, blurred>>
  ELSE IF Len(events) < Capacity THEN events' = Append(events, e) /\ UNCHANGED blurred
  ELSE events' = Append(Tail(events), e) /\ blurred' = blurred \cup {Head(events).s}

Resolved(ok) ==
  IF Working /\ loop.result = "none" /\ loop.id \in pending
  THEN [loop EXCEPT !.result = IF ok THEN "ok" ELSE "failed"] ELSE loop

Read ==
  /\ reading /\ codex.out # <<>>
  /\ codex' = [codex EXCEPT !.out = Tail(@)]
  /\ LET item == Head(codex.out)
     IN  IF item.is = "event" THEN Send(item) /\ UNCHANGED <<loop, pending>>
         ELSE /\ pending' = pending \ {item.id}
              /\ loop' = IF item.id \in pending THEN Resolved(item.ok) ELSE loop
              /\ UNCHANGED <<events, blurred>>
  /\ UNCHANGED <<reading, allowed, shown, commands, runs, lastId, answered, told, deaf>>

\* The end of the output: everything that waits fails, and the loop is told.
ReadEnd ==
  /\ reading /\ ~codex.alive /\ codex.out = <<>>
  /\ reading' = FALSE
  /\ loop' = Resolved(FALSE) /\ pending' = {}
  /\ Send(Gone)
  /\ UNCHANGED <<codex, allowed, shown, commands, runs, lastId, answered, told, deaf>>

-----------------------------------------------------------------------------
(* Codex.                                                                    *)

Does(c) ==
  /\ codex' = c
  /\ UNCHANGED <<reading, pending, events, loop, allowed, shown, commands, runs, lastId,
                 answered, told, blurred, deaf>>

Served == [codex EXCEPT !.in = Tail(@)]
Says(c, items) == [c EXCEPT !.out = @ \o items]

\* A request is refused, or done; the event of a new turn may come before the answer.
Serve ==
  /\ codex.alive /\ codex.in # <<>>
  /\ LET r == Head(codex.in)
         yes == Answer(r.id, TRUE)
         begun == Event("started", r.s, r.by)
         ended == Event("interrupted", r.s, codex.turn[r.s])
     IN  \/ Does(Says(Served, <<Answer(r.id, FALSE)>>))
         \/ r.what \in {"read", "resume"} /\ r.s \in codex.threads /\ Does(Says(Served, <<yes>>))
         \/ r.what = "start" /\ Does(Says([Served EXCEPT !.threads = @ \cup {r.s}], <<yes>>))
         \/ /\ r.what = "turn" /\ codex.turn[r.s] = 0
            /\ \E items \in {<<yes, begun>>, <<begun, yes>>} :
                 Does(Says([Served EXCEPT !.turn[r.s] = r.by], items))
         \/ r.what = "turn" /\ codex.turn[r.s] # 0 /\ Does(Says(Served, <<yes>>))
         \/ /\ r.what = "interrupt"
            /\ Does(Says([Served EXCEPT !.turn[r.s] = 0],
                         IF codex.turn[r.s] = 0 THEN <<yes>> ELSE <<yes, ended>>))

Completes(s) ==
  /\ codex.turn[s] # 0
  /\ Does(Says([codex EXCEPT !.turn[s] = 0], <<Event("completed", s, codex.turn[s])>>))

\* A running turn is heard of again (reasoning); at most one such event is under way.
Reasons(s) ==
  /\ codex.turn[s] # 0
  /\ LET e == Event("reasoning", s, codex.turn[s])
     IN  e \notin Range(codex.out) \cup Range(events) /\ Does(Says(codex, <<e>>))

Dies == codex.alive /\ Does(Died(codex))

-----------------------------------------------------------------------------
Kinds == {"create", "resume", "input", "history", "interrupt"}

Next ==
  \/ Subscribe \/ Write \/ WriteFails \/ Refuse \/ GoOn \/ Finish \/ TimeOut \/ TakeEvent
  \/ \E kind \in Kinds, s \in Sessions : TakeCommand(kind, s)
  \/ CodexLeft \/ Closed \/ SendFails \/ Reconnect
  \/ Read \/ ReadEnd
  \/ Serve \/ Dies
  \/ \E s \in Sessions : Completes(s) \/ Reasons(s)

\* The loop goes on with what it has, the clock runs and the reader reads; nothing is
\* assumed of Codex, the phone and the connection.  A write ends when the pipe has room or
\* Codex is gone.  The select takes an event some time.
Fairness ==
  /\ WF_vars(Room /\ Write) /\ WF_vars(WriteFails)
  /\ WF_vars(Subscribe) /\ WF_vars(Refuse \/ GoOn) /\ WF_vars(Finish) /\ WF_vars(TimeOut)
  /\ SF_vars(TakeEvent) /\ SF_vars(CodexLeft)
  /\ WF_vars(Read) /\ WF_vars(ReadEnd)

Spec == Init /\ [][Next]_vars /\ Fairness

-----------------------------------------------------------------------------
Asked == [id : Nat, what : {"read", "start", "turn", "resume", "interrupt"},
          s : Sessions, by : Nat \ {0}]
TurnEvents == [is : {"event"}, what : {"started", "reasoning", "completed", "interrupted"},
               s : Sessions, turn : Nat \ {0}]
Answers == [is : {"answer"}, id : Nat, ok : BOOLEAN]
AtWork == [at : {"first", "second"}, kind : Kinds, s : Sessions, by : Nat \ {0}, id : Nat,
           what : {"read", "start", "turn", "resume", "interrupt"},
           result : {"writing", "none", "ok", "failed"}]

\* What the variables hold: the channel keeps its capacity, and nothing follows the message
\* that Codex is gone.
TypeOK ==
  /\ codex \in [alive : BOOLEAN, threads : SUBSET Sessions, turn : [Sessions -> Nat],
                in : Seq(Asked), out : Seq(Answers \cup TurnEvents)]
  /\ reading \in BOOLEAN /\ pending \subseteq Nat
  /\ events \in Seq(TurnEvents \cup {Gone}) /\ Len(events) <= Capacity
  /\ reading => events \in Seq(TurnEvents)
  /\ loop \in [at : {"starting", "idle", "over"}] \cup AtWork
  /\ allowed \subseteq Sessions /\ blurred \subseteq Sessions
  /\ commands \in 0..MaxCommands /\ runs \in 1..MaxRuns /\ lastId \in Nat
  /\ answered \subseteq 1..commands /\ told \subseteq 1..commands
  /\ deaf \in BOOLEAN

\* The phone hears of a turn only after the input that began it was answered, also when
\* Codex announced the turn before it answered, or answered too late.
EventsAfterAnswer == told \subseteq answered

\* Whenever everything that was said has been heard, the monitor calls a session active just
\* when Codex works in it - through interrupted turns, inputs into a running turn, evictions
\* and reconnections -, except for the sessions it lost sight of in one of the known ways: an
\* input that failed, a history or a resumption during a turn, a dropped event, a run that
\* ended without its clean-up.
ShownTurns ==
  loop.at = "idle" /\ codex.alive /\ codex.in = <<>> /\ codex.out = <<>> /\ events = <<>> =>
    \A i \in DOMAIN shown :
      shown[i].s \notin blurred => (shown[i].status \in Active <=> codex.turn[shown[i].s] # 0)

\* The loop waits in a write that a living Codex has no room for.
Stuck == Writing /\ codex.alive /\ ~Room

\* Every command is answered or the run ends, also when Codex hangs or dies - with one
\* exception: the time-out covers the answer to a request and not its writing, so that a
\* Codex that lives and reads nothing more holds the loop for ever once its pipe is full
\* (AppServerClient::request and write).
Answered == Working ~> (loop.at \in {"idle", "over"} \/ []Stuck)

\* A run does not outlive its app-server: it ends even when events were dropped, unless the
\* app-server had left before the loop listened.
LossNoticed == (Listening /\ ~codex.alive /\ ~deaf) ~> loop.at = "over"
=============================================================================
