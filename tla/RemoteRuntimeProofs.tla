------------------------ MODULE RemoteRuntimeProofs ------------------------
(***************************************************************************)
(* Proofs about RemoteRuntime for every number of concurrent requests and  *)
(* tasks.  The inductive invariant says who may be where: the restart lock *)
(* names the one caller inside restart(), at most one actor waits for a    *)
(* task, and behind stop() there is no task at all until the next Spawn.   *)
(***************************************************************************)
EXTENDS RemoteRuntime, TLAPS

USE DEF Alive, Waiting

LEMMA InitType == Init => TypeOK
<1> SUFFICES ASSUME Init PROVE TypeOK
  OBVIOUS
<1>1. Blank \in Settings
  BY DEF Blank, Settings
<1>2. ActorType
  <2>1. pc \in [Actors -> ActorPhases] /\ victim \in [Actors -> Tasks \union {NoTask}]
    BY DEF Init, ActorPhases
  <2>2. memo \in [Actors -> Settings] /\ lock \in Actors
    BY <1>1 DEF Init, Actors
  <2> QED
    BY <2>1, <2>2 DEF ActorType
<1>3. TaskType
  <2>1. [set |-> Blank, ws |-> 0] \in Stored
    BY <1>1, LimitAssumption DEF Stored
  <2>2. snap \in [Tasks -> Stored]
    BY <2>1 DEF Init
  <2>3. run \in [Tasks -> TaskPhases] /\ told \in [Tasks -> BOOLEAN] /\ server \in [Tasks -> BOOLEAN]
    BY DEF Init, TaskPhases
  <2>4. handle = NoTask
    BY DEF Init
  <2> QED
    BY <2>2, <2>3, <2>4 DEF TaskType
<1>4. SideType
  <2>1. orphans = 0 /\ pairing = NoTask /\ status = "disabled"
    BY DEF Init
  <2>2. lan \in BOOLEAN
    BY Zenon DEF Init
  <2> QED
    BY <2>1, <2>2, LimitAssumption DEF SideType
<1>5. disk \in Stored
  <2>1. disk \in [set : Forms, ws : {0}]
    BY DEF Init
  <2> QED
    BY <2>1, FormAssumption, LimitAssumption DEF Stored
<1>6. \A a \in Actors : Waiting(a) <=> victim[a] # NoTask
  BY DEF Init
<1>7. ops = 0 /\ exits = 0 /\ disk.ws = 0
  BY DEF Init
<1>8. up \in BOOLEAN
  BY Zenon DEF Init
<1> QED
  BY <1>2, <1>3, <1>4, <1>5, <1>6, <1>7, <1>8, LimitAssumption DEF TypeOK

(* A step of the runtime task changes nothing else. *)

LEMMA MoveType ==
  ASSUME TypeOK, NEW t \in Tasks, NEW from, NEW to \in TaskPhases, Move(t, from, to)
  PROVE  /\ run' \in [Tasks -> TaskPhases]
         /\ run[t] \in from
         /\ \A u \in Tasks : run'[u] = IF u = t THEN to ELSE run[u]
         /\ UNCHANGED <<disk, up, actorVars, handle, told, snap, lan, ops, exits>>
  BY DEF Move, TypeOK, TaskType

LEMMA AbandonType ==
  ASSUME TypeOK, NEW t \in Tasks, Abandon(t)
  PROVE  server' \in [Tasks -> BOOLEAN] /\ orphans' \in 0..MaxOrphans
  BY LimitAssumption DEF Abandon, Abandoned, TypeOK, TaskType, SideType

\* What the steps of a task have in common.
TaskFrame(t) ==
  /\ UNCHANGED <<disk, up, actorVars, handle, told, snap, lan, ops, exits>>
  /\ run' \in [Tasks -> TaskPhases] /\ server' \in [Tasks -> BOOLEAN] /\ SideType'
  /\ \A u \in Tasks : u # t => run'[u] = run[u]
  /\ run' = run \/ Alive(t)

LEMMA TaskFacts == ASSUME TypeOK, NEW t \in Tasks, Task(t) PROVE TaskFrame(t)
<1> USE LimitAssumption
<1> DEFINE F == TaskFrame(t)
<1>0. server \in [Tasks -> BOOLEAN] /\ SideType /\ AfterError(t) \in TaskPhases
  BY DEF TypeOK, TaskType, AfterError, TaskPhases
<1> HIDE DEF F
<1>1. CASE Authenticated(t)
  <2>1. Move(t, {"connecting"}, "starting")
    BY <1>1 DEF Authenticated
  <2> QED
    BY <1>0, <1>1, <2>1, MoveType DEF Authenticated, SideType, TaskFrame, F, TaskPhases
<1>2. CASE ConnectFails(t)
  <2>1. Move(t, {"connecting"}, AfterError(t))
    BY <1>2 DEF ConnectFails
  <2> QED
    BY <1>0, <1>2, <2>1, MoveType DEF ConnectFails, SideType, TaskFrame, F, TaskPhases
<1>3. CASE AppServerSpawned(t)
  <2>1. Move(t, {"starting"}, "login")
    BY <1>3 DEF AppServerSpawned
  <2> QED
    BY <1>0, <1>3, <2>1, MoveType DEF AppServerSpawned, SideType, TaskFrame, F, TaskPhases
<1>4. CASE StartFails(t)
  <2>1. Move(t, {"starting", "login"}, AfterError(t)) /\ Abandon(t)
    BY <1>4 DEF StartFails
  <2> QED
    BY <1>0, <1>4, <2>1, MoveType, AbandonType DEF StartFails, SideType, TaskFrame, F, TaskPhases
<1>5. CASE LoggedIn(t)
  <2>1. Move(t, {"login"}, "loop")
    BY <1>5 DEF LoggedIn
  <2> QED
    BY <1>0, <1>5, <2>1, MoveType DEF LoggedIn, SideType, TaskFrame, F, TaskPhases
<1>6. CASE Serve(t) \/ Served(t) \/ Break(t) \/ StopSeen(t) \/ StopInBackoff(t)
  <2>1. PICK from \in {{"loop"}, {"busy"}, {"backoff"}}, to \in TaskPhases : Move(t, from, to)
    BY <1>6 DEF Serve, Served, Break, StopSeen, StopInBackoff, TaskPhases
  <2>2. UNCHANGED <<server, orphans, pairing, status>>
    BY <1>6 DEF Serve, Served, Break, StopSeen, StopInBackoff
  <2> QED
    BY <1>0, <2>1, <2>2, MoveType DEF SideType, TaskFrame, F
<1>7. CASE ReturnsEarly(t)
  <2>1. Move(t, {"login", "busy"}, AfterError(t)) /\ Abandon(t)
    BY <1>7 DEF ReturnsEarly
  <2> QED
    BY <1>0, <1>7, <2>1, MoveType, AbandonType DEF ReturnsEarly, SideType, TaskFrame, F
<1>8. CASE CleanedUp(t)
  <2>1. /\ pairing' = NoTask /\ UNCHANGED orphans /\ status' \in {"disconnected", status}
        /\ server' = [server EXCEPT ![t] = FALSE]
    BY <1>8 DEF CleanedUp
  <2>2. PICK from \in {{"closing"}, {"leaving"}}, to \in TaskPhases : Move(t, from, to)
    BY <1>0, <1>8 DEF CleanedUp, TaskPhases
  <2> QED
    BY <1>0, <2>1, <2>2, MoveType DEF SideType, TaskFrame, F
<1>9. CASE Wake(t)
  <2>1. Move(t, {"backoff"}, "connecting")
    BY <1>9 DEF Wake
  <2> QED
    BY <1>0, <1>9, <2>1, MoveType DEF Wake, SideType, TaskFrame, F, TaskPhases
<1>10. CASE ServerExits(t)
  BY <1>0, <1>10 DEF ServerExits, TypeOK, TaskType, SideType, sideVars, TaskFrame, F
<1> QED
  BY <1>1, <1>2, <1>3, <1>4, <1>5, <1>6, <1>7, <1>8, <1>9, <1>10 DEF Task, F

(* Steps of the actors *)

LEMMA RequestFacts ==
  ASSUME TypeOK, NEW c \in Callers, NEW next \in {"queued", "pausing"}, Request(c, next)
  PROVE  /\ ops' \in 0..MaxOps /\ ops < MaxOps /\ ops' = ops + 1
         /\ pc' \in [Actors -> ActorPhases]
         /\ pc[c] = "idle" /\ \A a \in Actors : pc'[a] = IF a = c THEN next ELSE pc[a]
         /\ UNCHANGED <<up, victim, lock, handle, run, told, snap, server, sideVars, exits>>
  BY LimitAssumption DEF TypeOK, ActorType, Request, Actors, ActorPhases, taskVars

LEMMA DiskWrites ==
  ASSUME disk \in Stored, NEW s \in Settings
  PROVE  /\ [disk EXCEPT !.set = s] \in Stored
         /\ [disk EXCEPT !.set = s].set = s /\ [disk EXCEPT !.set = s].ws = disk.ws
         /\ disk.set \in Settings /\ disk.ws \in 0..MaxOps
         /\ \A p \in BOOLEAN : [disk.set EXCEPT !.paused = p] \in Settings
         /\ \A n \in 0..MaxOps : [disk EXCEPT !.ws = n] \in Stored
  BY DEF Stored, Settings

LEMMA AskedType == ASSUME TypeOK, NEW c \in Callers, Asked(c) PROVE TypeOK'
<1>0. disk \in Stored /\ memo \in [Actors -> Settings] /\ c \in Actors
  BY DEF TypeOK, ActorType, Actors
<1>1. CASE SaveSettings(c)
  <2>1. Request(c, "queued") /\ memo' = memo /\ disk' \in Stored /\ disk'.ws = disk.ws
    BY <1>0, <1>1, FormAssumption, DiskWrites DEF SaveSettings
  <2>2. disk'.ws <= ops'
    BY <1>0, <2>1, RequestFacts, LimitAssumption DEF TypeOK, Stored
  <2> QED
    BY <2>1, <2>2, RequestFacts DEF TypeOK, ActorType, TaskType, SideType, sideVars
<1>9. \A n : n = ops + 1 => disk.ws <= n
  BY <1>0, LimitAssumption DEF TypeOK, Stored
<1>2. CASE ReadToPause(c)
  <2>1. Request(c, "pausing") /\ disk' = disk
    BY <1>2 DEF ReadToPause
  <2>2. PICK p \in BOOLEAN : memo' = [memo EXCEPT ![c] = [disk.set EXCEPT !.paused = p]]
    BY <1>2 DEF ReadToPause
  <2>3. memo' \in [Actors -> Settings]
    BY <1>0, <2>2, DiskWrites
  <2> QED
    BY <1>9, <2>1, <2>3, RequestFacts DEF TypeOK, ActorType, TaskType, SideType, sideVars
<1>3. CASE EditWorkspaces(c)
  <2>1. Request(c, "queued") /\ memo' = memo /\ disk' = [disk EXCEPT !.ws = disk.ws + 1]
    BY <1>3 DEF EditWorkspaces
  <2>2. disk.ws + 1 \in 0..MaxOps /\ ops' = ops + 1
    BY <1>0, <2>1, RequestFacts, LimitAssumption DEF TypeOK, Stored
  <2>3. disk' \in Stored /\ disk'.ws = disk.ws + 1
    BY <1>0, <2>1, <2>2 DEF Stored
  <2>4. disk'.ws <= ops'
    BY <1>0, <2>2, <2>3, LimitAssumption DEF TypeOK, Stored
  <2> QED
    BY <2>1, <2>3, <2>4, RequestFacts DEF TypeOK, ActorType, TaskType, SideType, sideVars
<1>4. CASE Reconnect(c)
  BY <1>4, <1>9, RequestFacts DEF Reconnect, TypeOK, ActorType, TaskType, SideType, sideVars
<1>5. CASE Launch(c)
  <2>1. pc' \in [Actors -> ActorPhases]
    BY <1>5 DEF Launch, ActorPhases, TypeOK, ActorType
  <2>2. \A a \in Actors : Waiting(a)' <=> Waiting(a)
    BY <1>5 DEF Launch, TypeOK, ActorType
  <2>3. up' \in BOOLEAN
    BY <1>5, Zenon DEF Launch
  <2>4. UNCHANGED <<disk, memo, victim, lock, taskVars, sideVars, ops, exits>>
    BY <1>5 DEF Launch
  <2> QED
    BY <2>1, <2>2, <2>3, <2>4 DEF taskVars, TypeOK, ActorType, TaskType, SideType, sideVars
<1> QED
  BY <1>1, <1>2, <1>3, <1>4, <1>5 DEF Asked

\* What stop(), restart() and the exit handler do to an actor: it moves on, its
\* victim is set when it starts to wait and cleared when it stops waiting.
LEMMA PhaseType ==
  ASSUME TypeOK, NEW a \in Actors, NEW to \in ActorPhases, pc' = [pc EXCEPT ![a] = to]
  PROVE  /\ pc' \in [Actors -> ActorPhases]
         /\ \A b \in Actors : pc'[b] = IF b = a THEN to ELSE pc[b]
  BY DEF TypeOK, ActorType

LEMMA StopType == ASSUME TypeOK, NEW a \in Actors, Stop(a) PROVE TypeOK'
<1> USE DEF TypeOK, ActorType, TaskType, SideType, sideVars
<1>1. CASE TakeTask(a)
  <2>1. CASE handle = NoTask
    <3>1. pc' = [pc EXCEPT ![a] = "resting"] /\ ~Waiting(a)
      BY <1>1, <2>1 DEF TakeTask
    <3> QED
      BY <1>1, <2>1, <3>1, PhaseType DEF TakeTask, ActorPhases
  <2>2. CASE handle # NoTask
    <3>1. pc' = [pc EXCEPT ![a] = "waiting"]
      BY <1>1, <2>2 DEF TakeTask
    <3>2. /\ victim' \in [Actors -> Tasks \union {NoTask}]
          /\ \A b \in Actors : victim'[b] = IF b = a THEN handle ELSE victim[b]
          /\ told' \in [Tasks -> BOOLEAN] /\ handle' = NoTask
      BY <1>1, <2>2 DEF TakeTask
    <3> QED
      BY <1>1, <2>2, <3>1, <3>2, PhaseType DEF TakeTask, ActorPhases
  <2> QED
    BY <2>1, <2>2
<1>2. CASE TaskEnded(a) \/ Abort(a)
  <2>1. pc' = [pc EXCEPT ![a] = "resting"] /\ victim' = [victim EXCEPT ![a] = NoTask] /\ Waiting(a)
    BY <1>2 DEF TaskEnded, Abort
  <2>2. victim' \in [Actors -> Tasks \union {NoTask}] /\ victim[a] \in Tasks
    BY <2>1
  <2>3. \A b \in Actors : Waiting(b)' <=> victim'[b] # NoTask
    BY <2>1, PhaseType DEF ActorPhases
  <2>4. CASE TaskEnded(a)
    BY <2>1, <2>2, <2>3, <2>4, PhaseType DEF TaskEnded, taskVars, ActorPhases
  <2>5. CASE Abort(a)
    <3>1. run' \in [Tasks -> TaskPhases]
      BY <2>5 DEF Abort, TaskPhases
    <3>2. server' \in [Tasks -> BOOLEAN] /\ orphans' \in 0..MaxOrphans
      BY <2>2, <2>5, AbandonType DEF Abort
    <3> QED
      BY <2>1, <2>2, <2>3, <2>5, <3>1, <3>2, PhaseType DEF Abort, ActorPhases
  <2> QED
    BY <1>2, <2>4, <2>5
<1>3. CASE StopServices(a)
  <2>1. pc' = [pc EXCEPT ![a] = "loading"] /\ ~Waiting(a)
    BY <1>3 DEF StopServices
  <2>2. lan' \in BOOLEAN
    BY <1>3, Zenon DEF StopServices
  <2>3. pairing' = NoTask /\ status' = "disabled" /\ UNCHANGED <<disk, up, memo, victim, lock, taskVars, orphans, ops, exits>>
    BY <1>3 DEF StopServices
  <2> QED
    BY <2>1, <2>2, <2>3, PhaseType DEF taskVars, ActorPhases
<1> QED
  BY <1>1, <1>2, <1>3 DEF Stop

LEMMA RestartType ==
  ASSUME TypeOK, NEW c \in Callers, WritePause(c) \/ Restart(c) PROVE TypeOK'
<1> USE DEF TypeOK, ActorType, TaskType, SideType, sideVars
<1>0. c \in Actors /\ Exiter \in Actors
  BY DEF Actors
<1>1. CASE WritePause(c)
  <2>1. disk' \in Stored /\ disk'.ws = disk.ws /\ pc' = [pc EXCEPT ![c] = "queued"] /\ ~Waiting(c)
    BY <1>0, <1>1, DiskWrites DEF WritePause
  <2> QED
    BY <1>0, <1>1, <2>1, PhaseType DEF WritePause, taskVars, ActorPhases
<1>2. CASE Begin(c)
  <2>1. pc' = [pc EXCEPT ![c] = "stopping"] /\ ~Waiting(c)
    BY <1>2 DEF Begin
  <2> QED
    BY <1>0, <1>2, <2>1, PhaseType DEF Begin, taskVars, ActorPhases
<1>3. CASE Stop(c)
  BY <1>0, <1>3, StopType
<1>4. CASE Load(c)
  <2>1. PICK to \in {"spawning", "idle"} : pc' = [pc EXCEPT ![c] = to]
    BY <1>4 DEF Load, Release
  <2>2. lock' \in Actors /\ memo' \in [Actors -> Settings] /\ ~Waiting(c)
    BY <1>0, <1>4, DiskWrites DEF Load, Release, Stored
  <2> QED
    BY <1>0, <1>4, <2>1, <2>2, PhaseType DEF Load, taskVars, ActorPhases
<1>5. CASE LoadFails(c)
  BY <1>0, <1>5, PhaseType DEF LoadFails, Release, taskVars, ActorPhases
<1>6. CASE SpawnFails(c)
  <2>1. lan' \in BOOLEAN
    BY <1>6, Zenon DEF SpawnFails, StartLan
  <2> QED
    BY <1>0, <1>6, <2>1, PhaseType DEF SpawnFails, Release, taskVars, ActorPhases
<1>7. ASSUME NEW t \in Tasks, Spawn(c, t) PROVE TypeOK'
  <2>1. lan' \in BOOLEAN
    BY <1>7, Zenon DEF Spawn, StartLan
  <2>2. snap' \in [Tasks -> Stored]
    BY <1>0, <1>7 DEF Spawn, Stored
  <2>3. run' \in [Tasks -> TaskPhases] /\ told' \in [Tasks -> BOOLEAN] /\ status' = "connecting"
    BY <1>7 DEF Spawn, TaskPhases
  <2>4. pc' = [pc EXCEPT ![c] = "idle"] /\ lock' = Exiter /\ ~Waiting(c) /\ handle' = t
        /\ UNCHANGED <<disk, up, memo, victim, server, orphans, pairing, ops, exits>>
    BY <1>7 DEF Spawn, Release
  <2> QED
    BY <1>0, <2>1, <2>2, <2>3, <2>4, PhaseType DEF ActorPhases
<1> QED
  BY <1>1, <1>2, <1>3, <1>4, <1>5, <1>6, <1>7 DEF Restart

LEMMA ExitType == ASSUME TypeOK, Exiting \/ Quit PROVE TypeOK'
<1> USE DEF TypeOK, ActorType, TaskType, SideType, sideVars
<1>0. Exiter \in Actors
  BY DEF Actors
<1>1. CASE ExitRequested
  BY <1>0, <1>1, PhaseType DEF ExitRequested, taskVars, ActorPhases
<1>2. CASE Stop(Exiter)
  BY <1>0, <1>2, StopType
<1>3. CASE ReadToDisable
  <2>1. memo' \in [Actors -> Settings]
    BY <1>3, DiskWrites DEF ReadToDisable, Stored
  <2> QED
    BY <1>0, <1>3, <2>1, PhaseType DEF ReadToDisable, taskVars, ActorPhases
<1>4. CASE WriteDisabled
  <2>1. [memo[Exiter] EXCEPT !.enabled = FALSE] \in Settings
    BY <1>0 DEF Settings
  <2>2. disk' \in Stored /\ disk'.ws = disk.ws
    BY <1>4, <2>1, DiskWrites DEF WriteDisabled, Stored
  <2> QED
    BY <1>0, <1>4, <2>2, PhaseType DEF WriteDisabled, taskVars, ActorPhases
<1>5. CASE Quit
  <2>1. /\ pc' \in [Actors -> ActorPhases] /\ victim' \in [Actors -> Tasks \union {NoTask}]
        /\ \A a \in Actors : pc'[a] = "idle" /\ victim'[a] = NoTask
    BY <1>5 DEF Quit, ActorPhases
  <2>2. run' \in [Tasks -> TaskPhases] /\ told' \in [Tasks -> BOOLEAN] /\ server' \in [Tasks -> BOOLEAN]
    BY <1>5 DEF Quit, TaskPhases
  <2>3. up' \in BOOLEAN /\ lan' \in BOOLEAN
    BY <1>5, Zenon DEF Quit
  <2>4. /\ lock' = Exiter /\ handle' = NoTask /\ orphans' = 0 /\ pairing' = NoTask
        /\ status' = "disabled" /\ exits' \in 0..MaxExits
        /\ UNCHANGED <<disk, memo, snap, ops>>
    BY <1>5, LimitAssumption DEF Quit
  <2> QED
    BY <1>0, <2>1, <2>2, <2>3, <2>4, LimitAssumption
<1> QED
  BY <1>1, <1>2, <1>3, <1>4, <1>5 DEF Exiting

LEMMA TypeStep == TypeOK /\ [Next]_vars => TypeOK'
<1> SUFFICES ASSUME TypeOK, [Next]_vars PROVE TypeOK'
  OBVIOUS
<1>1. ASSUME NEW c \in Callers, Asked(c) PROVE TypeOK'
  BY <1>1, AskedType
<1>2. ASSUME NEW c \in Callers, WritePause(c) \/ Restart(c) PROVE TypeOK'
  BY <1>2, RestartType
<1>3. CASE Exiting \/ Quit
  BY <1>3, ExitType
<1>4. ASSUME NEW t \in Tasks, Task(t) PROVE TypeOK'
  BY <1>4, TaskFacts DEF TaskFrame, TypeOK, ActorType, TaskType, actorVars
<1>5. CASE UNCHANGED vars
  BY <1>5 DEF vars, actorVars, taskVars, sideVars, TypeOK, ActorType, TaskType, SideType
<1> QED
  BY <1>1, <1>2, <1>3, <1>4, <1>5 DEF Next

\* The types of the supervision, and that only an actor with a victim waits.
THEOREM RuntimeTypeCorrect == Spec => []TypeOK
  BY InitType, TypeStep, PTL DEF Spec

-----------------------------------------------------------------------------
(* Who may be where *)

\* The restart lock names the caller inside restart().
LockInv ==
  \A c \in Callers :
    pc[c] \in {"stopping", "waiting", "resting", "loading", "spawning"} => lock = c

\* One actor waits at a time, and meanwhile no task is registered.
WaitInv ==
  /\ \A a, b \in Actors : Waiting(a) /\ Waiting(b) => a = b
  /\ \A a \in Actors : Waiting(a) => handle = NoTask

\* Every live task is registered or waited for.
HeldInv == \A t \in Tasks : Alive(t) => handle = t \/ \E a \in Actors : victim[a] = t

\* Behind its stop() a caller is alone: there is no task and none can appear.
QuietInv ==
  \A c \in Callers : pc[c] \in {"resting", "loading", "spawning"} =>
    /\ handle = NoTask
    /\ \A t \in Tasks : ~Alive(t)
    /\ \A a \in Actors : ~Waiting(a)

RunInv == LockInv /\ WaitInv /\ HeldInv /\ QuietInv

\* What a caller is about to spawn with is what is stored, or about to be replaced.
SpawnInv ==
  pc[Exiter] = "idle" =>
    \A c \in Callers : pc[c] = "spawning" =>
      (memo[c] = disk.set /\ disk.set.enabled) \/ \E b \in Callers : ToReload(b)

LanInv == \A c \in Callers : pc[c] \in {"loading", "spawning"} => ~lan

\* A live task that was told to stop is being waited for.
ToldInv ==
  /\ \A t \in Tasks : told[t] /\ Alive(t) => \E a \in Actors : victim[a] = t
  /\ \A t \in Tasks : run[t] = "leaving" => told[t]

LEMMA RunInit == Init => RunInv
  BY TaskAssumption DEF Init, RunInv, LockInv, WaitInv, HeldInv, QuietInv, Actors

\* Steps that only move an actor between phases outside stop() and restart().
LEMMA RunOutside ==
  ASSUME TypeOK, RunInv, NEW a \in Actors, NEW to \in {"idle", "pausing", "queued"},
         pc' = [pc EXCEPT ![a] = to] \/ pc' = pc, ~Waiting(a),
         UNCHANGED <<victim, lock, handle, run>>
  PROVE  RunInv'
<1>1. \A b \in Actors : pc'[b] = pc[b] \/ (b = a /\ pc'[b] \in {"idle", "pausing", "queued"})
  BY DEF TypeOK, ActorType
<1>2. \A b \in Actors : Waiting(b)' => Waiting(b)
  BY <1>1
<1> QED
  BY <1>1, <1>2 DEF RunInv, LockInv, WaitInv, HeldInv, QuietInv, Actors

LEMMA RunStop == ASSUME TypeOK, RunInv, NEW a \in Actors, Stop(a) PROVE RunInv'
<1> USE ActorAssumption, TaskAssumption DEF TypeOK, ActorType, TaskType
<1>1. CASE TakeTask(a)
  <2>1. \A b \in Actors : ~Waiting(b)
    BY <1>1 DEF TakeTask
  <2>2. CASE handle = NoTask
    <3>1. \A b \in Actors : pc'[b] = IF b = a THEN "resting" ELSE pc[b]
      BY <1>1, <2>2 DEF TakeTask
    <3>2. UNCHANGED <<lock, run, victim, handle>>
      BY <1>1, <2>2 DEF TakeTask
    <3>3. \A t \in Tasks : ~Alive(t)
      BY <2>1, <2>2 DEF RunInv, HeldInv
    <3>4. \A b \in Actors : ~Waiting(b)'
      BY <2>1, <3>1
    <3>5. pc[a] = "stopping"
      BY <1>1 DEF TakeTask
    <3> QED
      BY <2>2, <3>1, <3>2, <3>3, <3>4, <3>5
         DEF RunInv, LockInv, WaitInv, HeldInv, QuietInv, Actors
  <2>3. CASE handle # NoTask
    <3>1. /\ \A b \in Actors : pc'[b] = IF b = a THEN "waiting" ELSE pc[b]
          /\ \A b \in Actors : victim'[b] = IF b = a THEN handle ELSE victim[b]
      BY <1>1, <2>3 DEF TakeTask
    <3>2. handle' = NoTask /\ UNCHANGED <<lock, run>> /\ pc[a] = "stopping"
      BY <1>1, <2>3 DEF TakeTask
    <3>3. LockInv' /\ WaitInv'
      BY <2>1, <3>1, <3>2 DEF RunInv, LockInv, WaitInv, Actors
    <3>4. HeldInv'
      <4>1. \A b \in Actors : victim[b] = NoTask
        BY <2>1
      <4> QED
        BY <3>1, <3>2, <4>1 DEF RunInv, HeldInv
    <3>5. QuietInv'
      BY <2>3, <3>1, <3>2 DEF RunInv, QuietInv, Actors
    <3> QED
      BY <3>3, <3>4, <3>5 DEF RunInv
  <2> QED
    BY <2>2, <2>3
<1>2. CASE TaskEnded(a) \/ Abort(a)
  <2>1. /\ pc[a] = "waiting"
        /\ \A b \in Actors : pc'[b] = IF b = a THEN "resting" ELSE pc[b]
        /\ \A b \in Actors : victim'[b] = IF b = a THEN NoTask ELSE victim[b]
        /\ UNCHANGED <<lock, handle>>
    BY <1>2 DEF TaskEnded, Abort, taskVars
  <2>2. \A t \in Tasks : run'[t] = IF t = victim[a] THEN "ended" ELSE run[t]
    BY <1>2, <2>1 DEF TaskEnded, Abort, taskVars
  <2>3. \A b \in Actors : b # a => ~Waiting(b)
    BY <2>1 DEF RunInv, WaitInv
  <2>4. \A t \in Tasks : ~Alive(t)'
    BY <2>1, <2>2, <2>3 DEF RunInv, HeldInv, WaitInv
  <2>5. \A b \in Actors : ~Waiting(b)'
    BY <2>1, <2>3
  <2>6. handle' = NoTask
    BY <2>1 DEF RunInv, WaitInv
  <2> QED
    BY <2>1, <2>4, <2>5, <2>6 DEF RunInv, LockInv, WaitInv, HeldInv, QuietInv, Actors
<1>3. CASE StopServices(a)
  <2>1. /\ pc[a] = "resting" /\ UNCHANGED <<lock, victim, handle, run>>
        /\ \A b \in Actors : pc'[b] = IF b = a THEN "loading" ELSE pc[b]
    BY <1>3 DEF StopServices, taskVars
  <2>2. \A b \in Actors : Waiting(b)' <=> Waiting(b)
    BY <2>1
  <2> QED
    BY <2>1, <2>2 DEF RunInv, LockInv, WaitInv, HeldInv, QuietInv, Actors
<1> QED
  BY <1>1, <1>2, <1>3 DEF Stop

LEMMA RunRestart ==
  ASSUME TypeOK, RunInv, NEW c \in Callers, Restart(c) \/ WritePause(c) PROVE RunInv'
<1> USE ActorAssumption, TaskAssumption DEF TypeOK, ActorType, TaskType
<1>0. c \in Actors /\ Exiter \in Actors /\ c # Exiter
  BY DEF Actors
<1>1. CASE WritePause(c)
  BY <1>0, <1>1, RunOutside DEF WritePause, taskVars
<1>2. CASE Begin(c)
  <2>1. /\ \A b \in Actors : pc'[b] = IF b = c THEN "stopping" ELSE pc[b]
        /\ lock' = c /\ lock = Exiter /\ pc[c] = "queued"
        /\ UNCHANGED <<victim, handle, run>>
    BY <1>0, <1>2 DEF Begin, taskVars
  <2>2. \A b \in Callers : pc[b] \notin {"stopping", "waiting", "resting", "loading", "spawning"}
    BY <1>0, <2>1 DEF RunInv, LockInv
  <2>3. \A b \in Actors : Waiting(b)' <=> Waiting(b)
    BY <2>1
  <2> QED
    BY <2>1, <2>2, <2>3 DEF RunInv, LockInv, WaitInv, HeldInv, QuietInv, Actors
<1>3. CASE Stop(c)
  BY <1>0, <1>3, RunStop
<1>4. ASSUME NEW to \in {"idle", "spawning"}, pc[c] \in {"loading", "spawning"},
             pc' = [pc EXCEPT ![c] = to], lock' = lock \/ to = "idle",
             UNCHANGED <<victim, handle, run>>
      PROVE  RunInv'
  <2>1. \A b \in Actors : pc'[b] = IF b = c THEN to ELSE pc[b]
    BY <1>0, <1>4
  <2>2. \A b \in Callers : b # c =>
          pc[b] \notin {"stopping", "waiting", "resting", "loading", "spawning"}
    BY <1>4 DEF RunInv, LockInv
  <2>3. \A b \in Actors : Waiting(b)' <=> Waiting(b)
    BY <1>4, <2>1
  <2> QED
    BY <1>4, <2>1, <2>2, <2>3 DEF RunInv, LockInv, WaitInv, HeldInv, QuietInv, Actors
<1>5. CASE Load(c)
  BY <1>4, <1>5 DEF Load, Release, taskVars
<1>6. CASE LoadFails(c) \/ SpawnFails(c)
  BY <1>4, <1>6 DEF LoadFails, SpawnFails, Release, taskVars
<1>7. ASSUME NEW t \in Tasks, Spawn(c, t) PROVE RunInv'
  <2>1. /\ \A b \in Actors : pc'[b] = IF b = c THEN "idle" ELSE pc[b]
        /\ \A u \in Tasks : run'[u] = IF u = t THEN "connecting" ELSE run[u]
        /\ handle' = t /\ pc[c] = "spawning" /\ UNCHANGED victim
        /\ \A b \in Actors : ~Waiting(b)
    BY <1>0, <1>7 DEF Spawn, Release
  <2>2. \A b \in Callers : b # c =>
          pc[b] \notin {"stopping", "waiting", "resting", "loading", "spawning"}
    BY <2>1 DEF RunInv, LockInv
  <2>3. \A u \in Tasks : ~Alive(u)
    BY <2>1 DEF RunInv, QuietInv
  <2>4. \A b \in Actors : ~Waiting(b)'
    BY <2>1
  <2> QED
    BY <2>1, <2>2, <2>3, <2>4 DEF RunInv, LockInv, WaitInv, HeldInv, QuietInv, Actors
<1> QED
  BY <1>1, <1>2, <1>3, <1>5, <1>6, <1>7 DEF Restart

LEMMA RunStep == TypeOK /\ RunInv /\ [Next]_vars => RunInv'
<1> SUFFICES ASSUME TypeOK, RunInv, [Next]_vars PROVE RunInv'
  OBVIOUS
<1>0. Exiter \in Actors /\ Callers \subseteq Actors
  BY DEF Actors
<1>1. ASSUME NEW c \in Callers, Asked(c) PROVE RunInv'
  <2>1. pc[c] = "idle" /\ UNCHANGED <<victim, lock, handle, run>>
    BY <1>1 DEF Asked, SaveSettings, ReadToPause, EditWorkspaces, Reconnect, Launch, Request, taskVars
  <2>2. PICK to \in {"idle", "pausing", "queued"} : pc' = [pc EXCEPT ![c] = to] \/ pc' = pc
    BY <1>1 DEF Asked, SaveSettings, ReadToPause, EditWorkspaces, Reconnect, Launch, Request
  <2> QED
    BY <1>0, <2>1, <2>2, RunOutside
<1>2. ASSUME NEW c \in Callers, Restart(c) \/ WritePause(c) PROVE RunInv'
  BY <1>2, RunRestart
<1>3. CASE Exiting
  <2>1. CASE Stop(Exiter)
    BY <1>0, <2>1, RunStop
  <2>2. CASE ExitRequested \/ ReadToDisable \/ WriteDisabled
    <3>1. /\ UNCHANGED <<victim, lock, handle, run>> /\ ~Waiting(Exiter)
          /\ \A b \in Actors : b # Exiter => pc'[b] = pc[b]
          /\ pc'[Exiter] # "waiting"
      BY <1>0, <2>2 DEF ExitRequested, ReadToDisable, WriteDisabled, taskVars, TypeOK, ActorType
    <3>2. \A b \in Actors : Waiting(b)' <=> Waiting(b)
      BY <3>1
    <3> QED
      BY <3>1, <3>2, ActorAssumption DEF RunInv, LockInv, WaitInv, HeldInv, QuietInv, Actors
  <2> QED
    BY <1>3, <2>1, <2>2 DEF Exiting
<1>4. CASE Quit
  <2>1. /\ \A a \in Actors : pc'[a] = "idle"
        /\ \A t \in Tasks : run'[t] = "ended"
        /\ handle' = NoTask
    BY <1>4 DEF Quit
  <2> QED
    BY <2>1 DEF RunInv, LockInv, WaitInv, HeldInv, QuietInv, Actors
<1>5. ASSUME NEW t \in Tasks, Task(t) PROVE RunInv'
  <2>1. /\ UNCHANGED <<pc, victim, lock, handle>>
        /\ \A u \in Tasks : Alive(u)' => Alive(u)
    BY <1>5, TaskFacts DEF TaskFrame, actorVars
  <2> QED
    BY <2>1 DEF RunInv, LockInv, WaitInv, HeldInv, QuietInv
<1>6. CASE UNCHANGED vars
  BY <1>6 DEF vars, actorVars, taskVars, RunInv, LockInv, WaitInv, HeldInv, QuietInv
<1> QED
  BY <1>1, <1>2, <1>3, <1>4, <1>5, <1>6 DEF Next

THEOREM SupervisionInvariant == Spec => [](TypeOK /\ RunInv)
  BY InitType, TypeStep, RunInit, RunStep, PTL DEF Spec

LEMMA RunInvOneRun == TypeOK /\ RunInv => OneRun
<1> SUFFICES ASSUME TypeOK, RunInv PROVE OneRun
  OBVIOUS
<1> USE TaskAssumption
<1>1. HeldInv
  BY DEF RunInv
<1>2. \A a \in Actors : victim[a] \in Tasks => Waiting(a) /\ handle = NoTask
  BY DEF RunInv, WaitInv, TypeOK
<1>3. ASSUME NEW t \in Tasks, NEW u \in Tasks, Alive(t), Alive(u) PROVE t = u
  <2>1. CASE handle = t \/ handle = u
    BY <1>1, <1>2, <1>3, <2>1 DEF HeldInv
  <2>2. CASE handle # t /\ handle # u
    <3>1. PICK a \in Actors : victim[a] = t
      BY <1>1, <1>3, <2>2 DEF HeldInv
    <3>2. PICK b \in Actors : victim[b] = u
      BY <1>1, <1>3, <2>2 DEF HeldInv
    <3>3. Waiting(a) /\ Waiting(b)
      BY <1>2, <3>1, <3>2
    <3>4. a = b
      BY <3>3 DEF RunInv, WaitInv
    <3> QED
      BY <3>1, <3>2, <3>4
  <2> QED
    BY <2>1, <2>2
<1> QED
  BY <1>1, <1>3 DEF OneRun, HeldInv

\* Whatever overlaps, restarts of several callers and the exit handler's stop(),
\* there is at most one runtime task and the manager can stop it.
THEOREM OneRunAlways == Spec => []OneRun
  BY SupervisionInvariant, RunInvOneRun, PTL

-----------------------------------------------------------------------------
(* What is stored and what is in force *)

ForceInv == InForce /\ SpawnInv /\ LanInv /\ LanAllowed

LEMMA ForceInit == Init => ForceInv
<1> SUFFICES ASSUME Init PROVE ForceInv
  OBVIOUS
<1>1. /\ \A t \in Tasks : run[t] = "ended"
      /\ \A c \in Callers : pc[c] = "idle"
  BY DEF Init, Actors
<1>2. lan = FALSE
  BY DEF Init
<1> QED
  BY <1>1, <1>2 DEF ForceInv, InForce, SpawnInv, LanInv, LanAllowed

\* A step after which a restart is still to come, whatever it stores.
LEMMA ForceQueued ==
  ASSUME ForceInv, NEW c \in Callers, pc'[c] = "queued",
         \A b \in Actors : b # c => pc'[b] = pc[b], UNCHANGED lan
  PROVE  ForceInv'
<1>1. ToReload(c)'
  BY DEF ToReload
<1>2. LanInv'
  BY DEF ForceInv, LanInv, Actors
<1> QED
  BY <1>1, <1>2 DEF ForceInv, InForce, SpawnInv, LanAllowed

\* A step that stores nothing, starts nothing, and keeps the restarts to come.
LEMMA ForceKept ==
  ASSUME ForceInv,
         pc'[Exiter] = "idle" => pc[Exiter] = "idle" /\ UNCHANGED <<disk, snap>>,
         \A t \in Tasks : Alive(t)' => Alive(t),
         \A c \in Callers : ToReload(c) => ToReload(c)',
         \A c \in Callers : pc'[c] = "spawning" => pc[c] = "spawning" /\ memo'[c] = memo[c],
         \/ UNCHANGED lan /\ \A c \in Callers : pc'[c] = "loading" => pc[c] = "loading"
         \/ ~lan'
  PROVE  ForceInv'
<1>1. InForce'
  BY DEF ForceInv, InForce
<1>2. SpawnInv'
  BY DEF ForceInv, SpawnInv
<1>3. LanInv'
  BY DEF ForceInv, LanInv
<1>4. LanAllowed'
  BY DEF ForceInv, LanAllowed
<1> QED
  BY <1>1, <1>2, <1>3, <1>4 DEF ForceInv

LEMMA ForceAsked ==
  ASSUME TypeOK, ForceInv, NEW c \in Callers, Asked(c) \/ WritePause(c)
  PROVE  ForceInv'
<1> USE ActorAssumption DEF TypeOK, ActorType
<1>0. c \in Actors /\ c # Exiter
  BY DEF Actors
<1>1. ASSUME pc' = [pc EXCEPT ![c] = "queued"], UNCHANGED lan PROVE ForceInv'
  BY <1>0, <1>1, ForceQueued
<1>2. CASE SaveSettings(c) \/ EditWorkspaces(c) \/ Reconnect(c) \/ WritePause(c)
  BY <1>1, <1>2 DEF SaveSettings, EditWorkspaces, Reconnect, WritePause, Request, sideVars
<1>3. CASE ReadToPause(c)
  <2>1. /\ \A b \in Actors : pc'[b] = IF b = c THEN "pausing" ELSE pc[b]
        /\ \A b \in Actors : b # c => memo'[b] = memo[b]
        /\ pc[c] = "idle" /\ UNCHANGED <<disk, snap, run, lan>>
    BY <1>0, <1>3 DEF ReadToPause, Request, taskVars, sideVars
  <2> QED
    BY <1>0, <2>1, ForceKept DEF ToReload, Actors
<1>4. CASE Launch(c)
  <2>1. CASE disk.set.enabled
    BY <1>1, <1>4, <2>1 DEF Launch, sideVars
  <2>2. CASE ~disk.set.enabled
    BY <1>4, <2>2, ForceKept DEF Launch, taskVars, sideVars, ToReload
  <2> QED
    BY <2>1, <2>2
<1> QED
  BY <1>2, <1>3, <1>4 DEF Asked

LEMMA ForceStop ==
  ASSUME TypeOK, ForceInv, NEW a \in Actors, Stop(a) PROVE ForceInv'
<1> USE ActorAssumption DEF TypeOK, ActorType, TaskType
<1>1. /\ pc[a] \in {"stopping", "waiting", "resting"}
      /\ pc'[a] \in {"waiting", "resting", "loading"}
      /\ \A b \in Actors : b # a => pc'[b] = pc[b]
      /\ UNCHANGED <<disk, snap, memo>>
  BY DEF Stop, TakeTask, TaskEnded, Abort, StopServices, taskVars
<1>2. \A t \in Tasks : Alive(t)' => Alive(t)
  BY DEF Stop, TakeTask, TaskEnded, Abort, StopServices, taskVars
<1>3. \/ UNCHANGED lan /\ pc'[a] # "loading"
      \/ ~lan'
  BY DEF Stop, TakeTask, TaskEnded, Abort, StopServices, sideVars
<1>4. \A c \in Callers : ToReload(c) => ToReload(c)'
  BY <1>1 DEF ToReload, Actors
<1>5. Exiter \in Actors /\ Callers \subseteq Actors
  BY DEF Actors
<1> QED
  BY <1>1, <1>2, <1>3, <1>4, <1>5, ForceKept

LEMMA ForceRestart ==
  ASSUME TypeOK, RunInv, ForceInv, NEW c \in Callers, Restart(c) PROVE ForceInv'
<1> USE ActorAssumption DEF TypeOK, ActorType, TaskType
<1>0. c \in Actors /\ c # Exiter /\ Callers \subseteq Actors /\ Exiter \in Actors
  BY DEF Actors
<1>1. CASE Begin(c)
  <2>1. /\ \A b \in Actors : pc'[b] = IF b = c THEN "stopping" ELSE pc[b]
        /\ UNCHANGED <<disk, snap, memo, run, lan>>
    BY <1>0, <1>1 DEF Begin, taskVars, sideVars
  <2> QED
    BY <1>0, <2>1, ForceKept DEF ToReload
<1>2. CASE Stop(c)
  BY <1>0, <1>2, ForceStop
<1>3. pc[c] \in {"loading", "spawning"} =>
        \A b \in Callers : b # c => pc[b] \notin {"loading", "spawning"}
  BY DEF RunInv, LockInv
<1>4. pc[c] \in {"loading", "spawning"} => \A t \in Tasks : ~Alive(t)
  BY DEF RunInv, QuietInv
<1>5. CASE Load(c)
  <2>1. /\ pc[c] = "loading" /\ UNCHANGED <<disk, run, lan>>
        /\ \A b \in Actors : b # c => pc'[b] = pc[b]
        /\ pc'[c] = IF disk.set.enabled THEN "spawning" ELSE "idle"
        /\ memo'[c] = disk.set
    BY <1>0, <1>5 DEF Load, Release, taskVars, sideVars
  <2>2. ~lan'
    BY <2>1 DEF ForceInv, LanInv
  <2>3. InForce' /\ LanInv' /\ LanAllowed'
    BY <1>4, <2>1, <2>2 DEF InForce, LanInv, LanAllowed
  <2>4. SpawnInv'
    <3>1. \A b \in Callers : pc'[b] = "spawning" => b = c /\ disk.set.enabled
      BY <1>0, <1>3, <2>1
    <3> QED
      BY <2>1, <3>1 DEF SpawnInv
  <2> QED
    BY <2>3, <2>4 DEF ForceInv
<1>6. CASE LoadFails(c)
  <2>1. /\ pc[c] = "loading" /\ UNCHANGED <<disk, run, lan>>
        /\ \A b \in Actors : pc'[b] = IF b = c THEN "idle" ELSE pc[b]
    BY <1>0, <1>6 DEF LoadFails, Release, taskVars, sideVars
  <2>2. ~lan'
    BY <2>1 DEF ForceInv, LanInv
  <2> QED
    BY <1>0, <1>3, <1>4, <2>1, <2>2 DEF ForceInv, InForce, SpawnInv, LanInv, LanAllowed
<1>7. ASSUME pc[c] = "spawning", pc' = [pc EXCEPT ![c] = "idle"], StartLan(c), UNCHANGED disk
      PROVE  LanInv' /\ LanAllowed' /\ SpawnInv'
  <2>1. \A b \in Actors : pc'[b] = IF b = c THEN "idle" ELSE pc[b]
    BY <1>0, <1>7
  <2>2. lan' => memo[c].lan /\ ~memo[c].paused
    BY <1>7 DEF StartLan
  <2>3. \A b \in Callers : ToReload(b) => ToReload(b)'
    BY <1>0, <1>7, <2>1 DEF ToReload
  <2>4. LanAllowed'
    <3> SUFFICES ASSUME pc'[Exiter] = "idle", lan', ~ \E b \in Callers : ToReload(b)'
                 PROVE  disk'.set.enabled /\ disk'.set.lan /\ ~disk'.set.paused
      BY DEF LanAllowed
    <3>1. memo[c] = disk.set /\ disk.set.enabled
      BY <1>0, <1>7, <2>1, <2>3 DEF ForceInv, SpawnInv
    <3> QED
      BY <1>7, <2>2, <3>1
  <2> QED
    BY <1>0, <1>3, <1>7, <2>1, <2>4 DEF LanInv, SpawnInv
<1>8. CASE SpawnFails(c)
  <2>1. LanInv' /\ LanAllowed' /\ SpawnInv' /\ UNCHANGED run /\ pc[c] = "spawning"
    BY <1>7, <1>8 DEF SpawnFails, Release, taskVars
  <2> QED
    BY <1>4, <2>1 DEF ForceInv, InForce
<1>9. ASSUME NEW t \in Tasks, Spawn(c, t) PROVE ForceInv'
  <2>1. LanInv' /\ LanAllowed' /\ SpawnInv'
    BY <1>7, <1>9 DEF Spawn, Release
  <2>2. /\ \A b \in Actors : pc'[b] = IF b = c THEN "idle" ELSE pc[b]
        /\ \A u \in Tasks : Alive(u)' => u = t
        /\ pc[c] = "spawning" /\ disk' = disk
        /\ snap'[t] = [set |-> memo[c], ws |-> disk.ws]
    BY <1>0, <1>4, <1>9 DEF Spawn, Release
  <2>3. InForce'
    <3> SUFFICES ASSUME pc'[Exiter] = "idle", ~ \E b \in Callers : ToReload(b)'
                 PROVE  snap'[t] = disk /\ disk.set.enabled
      BY <2>2 DEF InForce
    <3>1. \A b \in Callers : ~ToReload(b)
      BY <1>0, <2>2 DEF ToReload
    <3>2. memo[c] = disk.set /\ disk.set.enabled
      BY <1>0, <2>2, <3>1 DEF ForceInv, SpawnInv
    <3>3. disk = [set |-> disk.set, ws |-> disk.ws]
      BY DEF Stored
    <3> QED
      BY <2>2, <3>2, <3>3
  <2> QED
    BY <2>1, <2>3 DEF ForceInv
<1> QED
  BY <1>1, <1>2, <1>5, <1>6, <1>8, <1>9 DEF Restart

LEMMA ForceStep == TypeOK /\ RunInv /\ ForceInv /\ [Next]_vars => ForceInv'
<1> SUFFICES ASSUME TypeOK, RunInv, ForceInv, [Next]_vars PROVE ForceInv'
  OBVIOUS
<1>0. Exiter \in Actors /\ Callers \subseteq Actors /\ Exiter \notin Callers
  BY ActorAssumption DEF Actors
<1>1. ASSUME NEW c \in Callers, Asked(c) \/ WritePause(c) PROVE ForceInv'
  BY <1>1, ForceAsked
<1>2. ASSUME NEW c \in Callers, Restart(c) PROVE ForceInv'
  BY <1>2, ForceRestart
<1>3. CASE Exiting
  <2>1. CASE Stop(Exiter)
    BY <1>0, <2>1, ForceStop
  <2>2. CASE ExitRequested \/ ReadToDisable \/ WriteDisabled
    <3>1. /\ pc'[Exiter] # "idle" /\ UNCHANGED <<run, lan>>
          /\ \A c \in Callers : pc'[c] = pc[c] /\ memo'[c] = memo[c]
      BY <1>0, <2>2 DEF ExitRequested, ReadToDisable, WriteDisabled, taskVars, sideVars,
                        TypeOK, ActorType
    <3> QED
      BY <3>1, ForceKept DEF ToReload
  <2> QED
    BY <1>3, <2>1, <2>2 DEF Exiting
<1>4. CASE Quit
  <2>1. /\ \A a \in Actors : pc'[a] = "idle"
        /\ \A t \in Tasks : run'[t] = "ended"
    BY <1>4 DEF Quit
  <2>2. ~lan'
    BY <1>4 DEF Quit
  <2> QED
    BY <1>0, <2>1, <2>2 DEF ForceInv, InForce, SpawnInv, LanInv, LanAllowed
<1>5. ASSUME NEW t \in Tasks, Task(t) PROVE ForceInv'
  <2>1. /\ UNCHANGED <<disk, snap, lan, pc, memo>>
        /\ \A u \in Tasks : Alive(u)' => Alive(u)
    BY <1>5, TaskFacts DEF TaskFrame, actorVars
  <2> QED
    BY <2>1, ForceKept DEF ToReload
<1>6. CASE UNCHANGED vars
  BY <1>6, ForceKept DEF vars, actorVars, taskVars, sideVars, ToReload
<1> QED
  BY <1>1, <1>2, <1>3, <1>4, <1>5, <1>6 DEF Next

THEOREM ForceInvariant == Spec => [](TypeOK /\ RunInv /\ ForceInv)
  BY InitType, TypeStep, RunInit, RunStep, ForceInit, ForceStep, PTL DEF Spec

\* A saved setting, a pause above all, is what the running task works with, or a
\* restart that will read it is on its way.
THEOREM InForceAlways == Spec => []InForce
  BY ForceInvariant, PTL DEF ForceInv

\* The LAN server runs with the consent of what is stored, or a restart that will
\* stop it is on its way.
THEOREM LanAllowedAlways == Spec => []LanAllowed
  BY ForceInvariant, PTL DEF ForceInv

\* The two together: what was saved last is in force.
THEOREM SavedIsInForceAlways == Spec => []SavedIsInForce
  BY InForceAlways, LanAllowedAlways, PTL DEF SavedIsInForce

-----------------------------------------------------------------------------
(* The pairing runtime and the connection that is shown *)

ShownInv == ToldInv /\ PairingBelongsToRun /\ StatusTruthful

LEMMA ShownInit == Init => ShownInv
<1> SUFFICES ASSUME Init PROVE ShownInv
  OBVIOUS
<1>1. status = "disabled" /\ \A t \in Tasks : run[t] = "ended"
  BY DEF Init
<1> QED
  BY <1>1 DEF ShownInv, ToldInv, PairingBelongsToRun, StatusTruthful

\* Steps of an actor that leave the tasks and what is shown alone.
LEMMA ShownKept ==
  ASSUME ShownInv, UNCHANGED <<run, told, victim, pairing, status>>,
         pc'[Exiter] = "idle" => pc[Exiter] = "idle",
         \A c \in Callers : pc[c] \in {"waiting", "resting"} => pc'[c] = pc[c]
  PROVE  ShownInv'
  BY DEF ShownInv, ToldInv, PairingBelongsToRun, StatusTruthful

LEMMA ShownStop ==
  ASSUME TypeOK, RunInv, ShownInv, NEW a \in Actors, Stop(a) PROVE ShownInv'
<1> USE ActorAssumption, TaskAssumption DEF TypeOK, ActorType, TaskType
<1>0. Exiter \in Actors /\ Callers \subseteq Actors /\ Actors = Callers \union {Exiter}
  BY DEF Actors
<1>1. CASE TakeTask(a)
  <2>1. /\ \A b \in Actors : ~Waiting(b) /\ victim[b] = NoTask
        /\ pc[a] = "stopping" /\ pc'[a] \in {"waiting", "resting"}
        /\ \A b \in Actors : b # a => pc'[b] = pc[b]
        /\ UNCHANGED <<run, pairing, status>>
    BY <1>1 DEF TakeTask, sideVars
  <2>2. \A t \in Tasks : Alive(t) => ~told[t]
    BY <2>1 DEF ShownInv, ToldInv
  <2>3. \A t \in Tasks : (told'[t] <=> told[t]) \/ (t = handle /\ told'[t] /\ victim'[a] = t)
    BY <1>1 DEF TakeTask
  <2>4. ToldInv'
    BY <2>1, <2>2, <2>3 DEF ShownInv, ToldInv
  <2> QED
    BY <1>0, <2>1, <2>4 DEF ShownInv, PairingBelongsToRun, StatusTruthful
<1>2. CASE TaskEnded(a) \/ Abort(a)
  <2>1. /\ pc[a] = "waiting" /\ pc'[a] = "resting"
        /\ \A b \in Actors : b # a => pc'[b] = pc[b] /\ victim'[b] = victim[b]
        /\ UNCHANGED <<pairing, status, told>>
        /\ \A t \in Tasks : run'[t] = IF t = victim[a] THEN "ended" ELSE run[t]
    BY <1>2 DEF TaskEnded, Abort, taskVars, sideVars
  <2>2. ToldInv'
    BY <2>1 DEF ShownInv, ToldInv
  <2> QED
    BY <1>0, <2>1, <2>2 DEF ShownInv, PairingBelongsToRun, StatusTruthful
<1>3. CASE StopServices(a)
  <2>1. /\ pc[a] = "resting" /\ pc'[a] = "loading" /\ status' = "disabled"
        /\ \A b \in Actors : b # a => pc'[b] = pc[b]
        /\ UNCHANGED <<run, told, victim>>
    BY <1>3 DEF StopServices, taskVars
  <2>2. CASE a = Exiter
    BY <2>1, <2>2 DEF ShownInv, ToldInv, PairingBelongsToRun, StatusTruthful
  <2>3. CASE a \in Callers
    <3>1. \A t \in Tasks : ~Alive(t)
      BY <2>1, <2>3 DEF RunInv, QuietInv
    <3> QED
      BY <2>1, <3>1 DEF ShownInv, ToldInv, PairingBelongsToRun, StatusTruthful
  <2> QED
    BY <1>0, <2>2, <2>3
<1> QED
  BY <1>1, <1>2, <1>3 DEF Stop

LEMMA ShownRestart ==
  ASSUME TypeOK, RunInv, ShownInv, NEW c \in Callers, Restart(c) PROVE ShownInv'
<1> USE ActorAssumption DEF TypeOK, ActorType, TaskType
<1>0. c \in Actors /\ c # Exiter /\ Callers \subseteq Actors /\ Exiter \in Actors
  BY DEF Actors
<1>1. CASE Stop(c)
  BY <1>0, <1>1, ShownStop
<1>2. CASE Begin(c) \/ Load(c) \/ LoadFails(c) \/ SpawnFails(c)
  <2>1. /\ UNCHANGED <<run, told, victim, pairing, status>>
        /\ \A b \in Actors : b # c => pc'[b] = pc[b]
        /\ pc[c] \in {"queued", "loading", "spawning"}
    BY <1>2 DEF Begin, Load, LoadFails, SpawnFails, Release, taskVars, sideVars
  <2> QED
    BY <1>0, <2>1, ShownKept
<1>3. ASSUME NEW t \in Tasks, Spawn(c, t) PROVE ShownInv'
  <2>1. /\ \A b \in Actors : pc'[b] = IF b = c THEN "idle" ELSE pc[b]
        /\ \A u \in Tasks : run'[u] = IF u = t THEN "connecting" ELSE run[u]
        /\ \A u \in Tasks : told'[u] <=> (u # t /\ told[u])
        /\ pc[c] = "spawning" /\ status' = "connecting"
    BY <1>0, <1>3 DEF Spawn, Release
  <2>2. \A u \in Tasks : ~Alive(u)
    BY <2>1 DEF RunInv, QuietInv
  <2> QED
    BY <2>1, <2>2 DEF ShownInv, ToldInv, PairingBelongsToRun, StatusTruthful
<1> QED
  BY <1>1, <1>2, <1>3 DEF Restart

\* The steps of the task that has the runtime to itself.
LEMMA ShownTask ==
  ASSUME TypeOK, OneRun, ShownInv, NEW t \in Tasks, Task(t) PROVE ShownInv'
<1> USE DEF TypeOK, TaskType
<1>1. /\ UNCHANGED <<pc, victim, told>>
      /\ \A u \in Tasks : u # t => run'[u] = run[u]
      /\ \A u \in Tasks : Alive(u)' => Alive(u)
  BY TaskFacts DEF TaskFrame, actorVars
<1>2. ASSUME NEW from, NEW to \in TaskPhases, Move(t, from, to)
      PROVE  run[t] \in from /\ run'[t] = to
  BY <1>2, MoveType
<1>3. AfterError(t) \in {"ended", "backoff"} /\ AfterError(t) \in TaskPhases
  BY DEF AfterError, TaskPhases
<1>4. \/ ServerExits(t)
      \/ Alive(t)
  BY <1>2, <1>3 DEF Task, Authenticated, ConnectFails, AppServerSpawned, StartFails, LoggedIn,
       Serve, Served, ReturnsEarly, Break, StopSeen, CleanedUp, Wake, StopInBackoff, Move
<1>5. CASE ServerExits(t)
  BY <1>1, <1>5, ShownKept DEF ServerExits, sideVars, actorVars
<1>6. CASE Alive(t) /\ ~ServerExits(t)
  <2>1. \A u \in Tasks : u # t => run[u] = "ended" /\ run'[u] = "ended"
    BY <1>1, <1>6 DEF OneRun
  <2>2. /\ run'[t] = "leaving" => told[t] \/ run[t] = "leaving"
        /\ run'[t] \in {"starting", "login", "loop", "busy"} =>
             \/ pairing' = t
             \/ pairing' = pairing /\ run[t] \in {"starting", "login", "loop", "busy"}
        /\ run'[t] \in {"loop", "busy"} =>
             \/ status' = "connected"
             \/ status' = status /\ run[t] \in {"loop", "busy"}
        /\ \/ status' \in {"connecting", "disconnected"}
           \/ run'[t] \in {"loop", "busy", "closing", "leaving"}
           \/ status' = status /\ run[t] \notin {"loop", "busy", "closing", "leaving"}
           \/ status' = status /\ told[t]
    BY <1>2, <1>3, <1>6
       DEF Task, Authenticated, ConnectFails, AppServerSpawned, StartFails, LoggedIn,
           Serve, Served, ReturnsEarly, Break, StopSeen, CleanedUp, Wake, StopInBackoff,
           TaskPhases, ShownInv, ToldInv
  <2>3. ToldInv'
    BY <1>1, <2>2 DEF ShownInv, ToldInv
  <2>4. PairingBelongsToRun'
    BY <1>1, <2>1, <2>2 DEF ShownInv, PairingBelongsToRun
  <2>5. told[t] /\ pc[Exiter] = "idle" => \E c \in Callers : pc[c] = "waiting"
    <3> SUFFICES ASSUME told[t], pc[Exiter] = "idle" PROVE \E c \in Callers : pc[c] = "waiting"
      OBVIOUS
    <3>1. PICK a \in Actors : victim[a] = t
      BY <1>6 DEF ShownInv, ToldInv
    <3>2. pc[a] = "waiting"
      BY <3>1, TaskAssumption
    <3> QED
      BY <3>2 DEF Actors
  <2>6. StatusTruthful'
    BY <1>1, <2>1, <2>2, <2>5 DEF ShownInv, StatusTruthful
  <2> QED
    BY <2>3, <2>4, <2>6 DEF ShownInv
<1> QED
  BY <1>4, <1>5, <1>6

LEMMA ShownStep == TypeOK /\ RunInv /\ ShownInv /\ [Next]_vars => ShownInv'
<1> SUFFICES ASSUME TypeOK, RunInv, ShownInv, [Next]_vars PROVE ShownInv'
  OBVIOUS
<1> USE DEF TypeOK, ActorType
<1>0. Exiter \in Actors /\ Callers \subseteq Actors /\ Exiter \notin Callers
  BY ActorAssumption DEF Actors
<1>1. ASSUME NEW c \in Callers, Asked(c) \/ WritePause(c) PROVE ShownInv'
  <2>1. /\ UNCHANGED <<run, told, victim, pairing, status>>
        /\ pc[c] \in {"idle", "pausing"}
        /\ \A b \in Actors : b # c => pc'[b] = pc[b]
    BY <1>1 DEF Asked, SaveSettings, ReadToPause, EditWorkspaces, Reconnect, Launch, WritePause,
                Request, taskVars, sideVars
  <2> QED
    BY <1>0, <2>1, ShownKept
<1>2. ASSUME NEW c \in Callers, Restart(c) PROVE ShownInv'
  BY <1>2, ShownRestart
<1>3. CASE Exiting
  <2>1. CASE Stop(Exiter)
    BY <1>0, <2>1, ShownStop
  <2>2. CASE ExitRequested \/ ReadToDisable \/ WriteDisabled
    <3>1. /\ pc'[Exiter] # "idle"
          /\ UNCHANGED <<run, told, victim, pairing, status>>
          /\ \A c \in Callers : pc'[c] = pc[c]
      BY <1>0, <2>2 DEF ExitRequested, ReadToDisable, WriteDisabled, taskVars, sideVars
    <3> QED
      BY <3>1, ShownKept
  <2> QED
    BY <1>3, <2>1, <2>2 DEF Exiting
<1>4. CASE Quit
  <2>1. status' = "disabled" /\ \A t \in Tasks : run'[t] = "ended"
    BY <1>4 DEF Quit
  <2> QED
    BY <2>1 DEF ShownInv, ToldInv, PairingBelongsToRun, StatusTruthful
<1>5. ASSUME NEW t \in Tasks, Task(t) PROVE ShownInv'
  BY <1>5, RunInvOneRun, ShownTask
<1>6. CASE UNCHANGED vars
  BY <1>6, ShownKept DEF vars, actorVars, taskVars, sideVars
<1> QED
  BY <1>1, <1>2, <1>3, <1>4, <1>5, <1>6 DEF Next

THEOREM ShownInvariant == Spec => [](TypeOK /\ RunInv /\ ShownInv)
  BY InitType, TypeStep, RunInit, RunStep, ShownInit, ShownStep, PTL DEF Spec

\* No clean-up of an earlier run ends the pairing runtime of the run that serves.
THEOREM PairingBelongsToRunAlways == Spec => []PairingBelongsToRun
  BY ShownInvariant, PTL DEF ShownInv

\* The connection that is shown is that of the run.
THEOREM StatusTruthfulAlways == Spec => []StatusTruthful
  BY ShownInvariant, PTL DEF ShownInv

\* Both: pairing runtime and shown connection are those of the run that serves.
THEOREM RunShownAlways == Spec => []RunShown
  BY PairingBelongsToRunAlways, StatusTruthfulAlways, PTL DEF RunShown
=============================================================================
