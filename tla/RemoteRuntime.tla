--------------------------- MODULE RemoteRuntime ---------------------------
(***************************************************************************)
(* The life of the remote-control runtime on the desktop (manager.rs, and  *)
(* the phases of relay_client::run): requests of the user change what is   *)
(* stored and then restart the runtime; the exit handler stops it without  *)
(* taking the restart lock; the runtime task connects, runs its loop,      *)
(* fails and reconnects on its own; every run starts an app-server         *)
(* process.  Requests run on several threads of one tokio runtime.         *)
(***************************************************************************)
EXTENDS Naturals

CONSTANTS
  Callers,     \* requests of the user interface that may run at the same time
  Exiter,      \* the exit handler (shutdown_and_disable)
  Tasks,       \* names for spawned runtime tasks, used again once a task ended
  NoTask,
  Forms,       \* settings the user may save
  AutoReconnect,
  MaxOps,      \* bound: requests
  MaxExits,    \* bound: times the application ends
  MaxOrphans   \* bound: app-server processes left behind

Settings == [enabled : BOOLEAN, paused : BOOLEAN, lan : BOOLEAN]
Stored   == [set : Settings, ws : 0..MaxOps]
Actors   == Callers \union {Exiter}

ASSUME ActorAssumption == Exiter \notin Callers
ASSUME TaskAssumption  == NoTask \notin Tasks
ASSUME FormAssumption  == Forms \subseteq Settings
ASSUME SwitchAssumption == AutoReconnect \in BOOLEAN
ASSUME LimitAssumption == MaxOps \in Nat /\ MaxExits \in Nat /\ MaxOrphans \in Nat

VARIABLES
  disk,     \* settings.json and workspaces.json: [set, ws], ws a version number
  up,       \* the application runs
  pc,       \* per actor: where it is
  memo,     \* per actor: settings it has read
  victim,   \* per actor: the task it waits for in stop()
  lock,     \* the caller that holds restart_lock, or Exiter for nobody
  handle,   \* self.task
  run,      \* per task: where it is
  told,     \* per task: the stop signal was sent
  snap,     \* per task: the [set, ws] it was spawned with
  server,   \* per task: its app-server process is alive
  orphans,  \* app-server processes alive that no run owns any more
  pairing,  \* the task that last started the relay pairing runtime, or NoTask
  lan,      \* the LAN pairing server runs
  status,   \* status.connection
  ops, exits

actorVars == <<pc, memo, victim, lock>>
taskVars  == <<handle, run, told, snap, server>>
sideVars  == <<orphans, pairing, lan, status>>
vars      == <<disk, up, actorVars, taskVars, sideVars, ops, exits>>

Alive(t)   == run[t] # "ended"
Waiting(a) == pc[a] = "waiting"

-----------------------------------------------------------------------------
Blank == [enabled |-> FALSE, paused |-> FALSE, lan |-> FALSE]

Init ==
  /\ disk \in [set : Forms, ws : {0}]
  /\ up = FALSE
  /\ pc = [a \in Actors |-> "idle"]
  /\ memo = [a \in Actors |-> Blank]
  /\ victim = [a \in Actors |-> NoTask]
  /\ lock = Exiter
  /\ handle = NoTask
  /\ run = [t \in Tasks |-> "ended"]
  /\ told = [t \in Tasks |-> FALSE]
  /\ snap = [t \in Tasks |-> [set |-> Blank, ws |-> 0]]
  /\ server = [t \in Tasks |-> FALSE]
  /\ orphans = 0
  /\ pairing = NoTask
  /\ lan = FALSE
  /\ status = "disabled"
  /\ ops = 0 /\ exits = 0

(* Requests: each changes what is stored, or nothing, and then restarts. *)

Request(c, next) ==
  /\ up /\ pc[c] = "idle" /\ ops < MaxOps
  /\ ops' = ops + 1
  /\ pc' = [pc EXCEPT ![c] = next]
  /\ UNCHANGED <<up, victim, lock, taskVars, sideVars, exits>>

\* save_settings: the form replaces everything but the secrets.
SaveSettings(c) ==
  /\ Request(c, "queued")
  /\ \E s \in Forms : disk' = [disk EXCEPT !.set = s]
  /\ UNCHANGED memo

\* set_paused reads the settings and writes them back with another flag.
ReadToPause(c) ==
  /\ Request(c, "pausing")
  /\ \E p \in BOOLEAN : memo' = [memo EXCEPT ![c] = [disk.set EXCEPT !.paused = p]]
  /\ UNCHANGED disk

WritePause(c) ==
  /\ pc[c] = "pausing"
  /\ disk' = [disk EXCEPT !.set = memo[c]]
  /\ pc' = [pc EXCEPT ![c] = "queued"]
  /\ UNCHANGED <<up, memo, victim, lock, taskVars, sideVars, ops, exits>>

EditWorkspaces(c) ==
  /\ Request(c, "queued")
  /\ disk' = [disk EXCEPT !.ws = @ + 1]
  /\ UNCHANGED memo

Reconnect(c) == Request(c, "queued") /\ UNCHANGED <<disk, memo>>

\* The application starts: start_if_enabled.
Launch(c) ==
  /\ ~up /\ up' = TRUE /\ pc[c] = "idle"
  /\ IF disk.set.enabled THEN pc' = [pc EXCEPT ![c] = "queued"] ELSE UNCHANGED pc
  /\ UNCHANGED <<disk, memo, victim, lock, taskVars, sideVars, ops, exits>>

(* restart() and stop() *)

BeginUnlocked(c) ==   \* wrong: restart without restart_lock
  /\ pc[c] = "queued"
  /\ lock' = c
  /\ pc' = [pc EXCEPT ![c] = "stopping"]
  /\ UNCHANGED <<disk, up, memo, victim, taskVars, sideVars, ops, exits>>

Begin(c) ==
  /\ pc[c] = "queued" /\ lock = Exiter
  /\ lock' = c
  /\ pc' = [pc EXCEPT ![c] = "stopping"]
  /\ UNCHANGED <<disk, up, memo, victim, taskVars, sideVars, ops, exits>>

\* The exit handler calls stop() at once.
ExitRequested ==
  /\ up /\ pc[Exiter] = "idle" /\ exits < MaxExits
  /\ pc' = [pc EXCEPT ![Exiter] = "stopping"]
  /\ UNCHANGED <<disk, up, memo, victim, lock, taskVars, sideVars, ops, exits>>

\* The mutex around self.task stays locked while its task is awaited.
TakeTask(a) ==
  /\ pc[a] = "stopping"
  /\ \A b \in Actors : ~Waiting(b)
  /\ IF handle = NoTask
       THEN pc' = [pc EXCEPT ![a] = "resting"] /\ UNCHANGED <<victim, handle, told>>
       ELSE /\ pc' = [pc EXCEPT ![a] = "waiting"]
            /\ victim' = [victim EXCEPT ![a] = handle]
            /\ told' = [told EXCEPT ![handle] = TRUE]
            /\ handle' = NoTask
  /\ UNCHANGED <<disk, up, memo, lock, run, snap, server, sideVars, ops, exits>>

TaskEnded(a) ==
  /\ Waiting(a) /\ ~Alive(victim[a])
  /\ pc' = [pc EXCEPT ![a] = "resting"]
  /\ victim' = [victim EXCEPT ![a] = NoTask]
  /\ UNCHANGED <<disk, up, memo, lock, taskVars, sideVars, ops, exits>>

\* A run that goes away without its clean-up leaves its app-server behind: the
\* task that reads the output holds the process, its input and its handle.
Abandoned == IF orphans < MaxOrphans THEN orphans + 1 ELSE orphans

Abandon(t) ==
  /\ server' = [server EXCEPT ![t] = FALSE]
  /\ orphans' = IF server[t] THEN Abandoned ELSE orphans

GiveUp(a) ==   \* wrong: the wait is given up, the task goes on
  /\ Waiting(a) /\ Alive(victim[a])
  /\ pc' = [pc EXCEPT ![a] = "resting"]
  /\ victim' = [victim EXCEPT ![a] = NoTask]
  /\ UNCHANGED <<disk, up, memo, lock, taskVars, sideVars, ops, exits>>

NoAbort(a) == FALSE   \* wrong: stop() awaits the task for as long as it takes

\* Five seconds went by: handle.abort().  A process that is just being stopped
\* dies with the task, any other stays.
Abort(a) ==
  LET t == victim[a] IN
  /\ Waiting(a) /\ Alive(t)
  /\ run' = [run EXCEPT ![t] = "ended"]
  /\ IF run[t] \in {"closing", "leaving"}
       THEN server' = [server EXCEPT ![t] = FALSE] /\ UNCHANGED orphans
       ELSE Abandon(t)
  /\ pc' = [pc EXCEPT ![a] = "resting"]
  /\ victim' = [victim EXCEPT ![a] = NoTask]
  /\ UNCHANGED <<disk, up, memo, lock, handle, told, snap, pairing, lan, status, ops, exits>>

\* The rest of stop(): both pairing services, the status, the monitor.
StopServices(a) ==
  /\ pc[a] = "resting"
  /\ lan' = FALSE
  /\ pairing' = NoTask
  /\ status' = "disabled"
  /\ pc' = [pc EXCEPT ![a] = "loading"]
  /\ UNCHANGED <<disk, up, memo, victim, lock, taskVars, orphans, ops, exits>>

Release(c) ==
  /\ lock' = Exiter
  /\ pc' = [pc EXCEPT ![c] = "idle"]

Load(c) ==
  /\ c # Exiter /\ pc[c] = "loading"
  /\ memo' = [memo EXCEPT ![c] = disk.set]
  /\ IF disk.set.enabled
       THEN pc' = [pc EXCEPT ![c] = "spawning"] /\ UNCHANGED lock
       ELSE Release(c)
  /\ UNCHANGED <<disk, up, victim, taskVars, sideVars, ops, exits>>

\* The settings cannot be read: everything stays stopped.
LoadFails(c) ==
  /\ c # Exiter /\ pc[c] = "loading"
  /\ Release(c)
  /\ UNCHANGED <<disk, up, memo, victim, taskVars, sideVars, ops, exits>>

StartLanAnyway(c) ==   \* wrong: also while paused
  \E bound \in BOOLEAN : lan' = (memo[c].lan /\ bound)

\* The LAN server is started while the caller awaits it, and may fail to bind.
StartLan(c) ==
  \E bound \in BOOLEAN : lan' = (memo[c].lan /\ ~memo[c].paused /\ bound)

\* Then the workspaces are read and the task is spawned with copies of both.
Spawn(c, t) ==
  /\ pc[c] = "spawning"
  /\ ~Alive(t)
  /\ \A b \in Actors : ~Waiting(b)
  /\ StartLan(c)
  /\ handle' = t
  /\ run' = [run EXCEPT ![t] = "connecting"]
  /\ told' = [told EXCEPT ![t] = FALSE]
  /\ snap' = [snap EXCEPT ![t] = [set |-> memo[c], ws |-> disk.ws]]
  /\ status' = "connecting"
  /\ Release(c)
  /\ UNCHANGED <<disk, up, memo, victim, server, orphans, pairing, ops, exits>>

\* The workspaces cannot be read: the LAN server runs without a task.
SpawnFails(c) ==
  /\ pc[c] = "spawning"
  /\ StartLan(c)
  /\ Release(c)
  /\ UNCHANGED <<disk, up, memo, victim, taskVars, orphans, pairing, status, ops, exits>>

\* shutdown_and_disable after stop(): read the settings, write them back switched off.
ReadToDisable ==
  /\ pc[Exiter] = "loading"
  /\ memo' = [memo EXCEPT ![Exiter] = disk.set]
  /\ pc' = [pc EXCEPT ![Exiter] = "disabling"]
  /\ UNCHANGED <<disk, up, victim, lock, taskVars, sideVars, ops, exits>>

WriteDisabled ==
  /\ pc[Exiter] = "disabling"
  /\ disk' = [disk EXCEPT !.set = IF memo[Exiter].enabled
                                    THEN [memo[Exiter] EXCEPT !.enabled = FALSE] ELSE @]
  /\ pc' = [pc EXCEPT ![Exiter] = "gone"]
  /\ UNCHANGED <<up, memo, victim, lock, taskVars, sideVars, ops, exits>>

\* The process ends, orderly or not; app-servers see the end of their input.
Quit ==
  /\ up /\ up' = FALSE
  /\ exits < MaxExits /\ exits' = exits + 1
  /\ pc' = [a \in Actors |-> "idle"]
  /\ victim' = [a \in Actors |-> NoTask]
  /\ lock' = Exiter
  /\ handle' = NoTask
  /\ run' = [t \in Tasks |-> "ended"]
  /\ told' = [t \in Tasks |-> FALSE]
  /\ server' = [t \in Tasks |-> FALSE]
  /\ orphans' = 0
  /\ pairing' = NoTask
  /\ lan' = FALSE
  /\ status' = "disabled"
  /\ UNCHANGED <<disk, memo, snap, ops>>

(* The runtime task and the runs it makes *)

Move(t, from, to) ==
  /\ run[t] \in from
  /\ run' = [run EXCEPT ![t] = to]
  /\ UNCHANGED <<disk, up, actorVars, handle, told, snap, lan, ops, exits>>

\* run() returned an error: the task notes it, and ends or waits to try again.
AfterError(t) == IF ~AutoReconnect \/ told[t] THEN "ended" ELSE "backoff"

\* relay_pairing.start_runtime as soon as the relay has accepted the desktop.
Authenticated(t) ==
  /\ Move(t, {"connecting"}, "starting")
  /\ pairing' = t
  /\ UNCHANGED <<server, orphans, status>>

ConnectFails(t) ==
  /\ Move(t, {"connecting"}, AfterError(t))
  /\ status' = "disconnected"
  /\ UNCHANGED <<server, orphans, pairing>>

AppServerSpawned(t) ==
  /\ Move(t, {"starting"}, "login")
  /\ server' = [server EXCEPT ![t] = TRUE]
  /\ UNCHANGED <<orphans, pairing, status>>

\* AppServerClient::start fails before the process exists, or in `initialize'.
StartFails(t) ==
  /\ Move(t, {"starting", "login"}, AfterError(t))
  /\ Abandon(t)
  /\ pairing' = NoTask
  /\ status' = "disconnected"

LoggedIn(t) ==
  /\ Move(t, {"login"}, "loop")
  /\ server[t]
  /\ status' = "connected"
  /\ UNCHANGED <<server, orphans, pairing>>

\* A branch of the select loop is being served: the stop signal is not looked at.
Serve(t) ==
  /\ Move(t, {"loop"}, "busy")
  /\ UNCHANGED <<server, orphans, pairing, status>>

Served(t) ==
  /\ Move(t, {"busy"}, "loop")
  /\ UNCHANGED <<server, orphans, pairing, status>>

\* A `?' after the app-server was started, in the log-in or in the loop: run()
\* returns at once, past the clean-up behind the loop.
ReturnsEarly(t) ==
  /\ Move(t, {"login", "busy"}, AfterError(t))
  /\ Abandon(t)
  /\ status' = "disconnected"
  /\ UNCHANGED pairing

\* The loop breaks with an error: the connection or the app-server went away.
Break(t) ==
  /\ Move(t, {"loop"}, "closing")
  /\ UNCHANGED <<server, orphans, pairing, status>>

StopSeen(t) ==
  /\ told[t]
  /\ Move(t, {"loop"}, "leaving")
  /\ UNCHANGED <<server, orphans, pairing, status>>

CleanedUpQuietly(t) ==   \* wrong: the error is not noted
  /\ \/ Move(t, {"closing"}, AfterError(t))
     \/ Move(t, {"leaving"}, "ended")
  /\ server' = [server EXCEPT ![t] = FALSE]
  /\ pairing' = NoTask
  /\ UNCHANGED <<orphans, status>>

\* The clean-up: app_server.stop, relay_pairing.stop_runtime, monitor.disconnected.
CleanedUp(t) ==
  /\ \/ Move(t, {"closing"}, AfterError(t)) /\ status' = "disconnected"
     \/ Move(t, {"leaving"}, "ended") /\ UNCHANGED status
  /\ server' = [server EXCEPT ![t] = FALSE]
  /\ pairing' = NoTask
  /\ UNCHANGED orphans

\* The delay is over; a stop signal that came at the same moment may be missed.
Wake(t) ==
  /\ Move(t, {"backoff"}, "connecting")
  /\ status' = "connecting"
  /\ UNCHANGED <<server, orphans, pairing>>

StopInBackoff(t) ==
  /\ told[t]
  /\ Move(t, {"backoff"}, "ended")
  /\ UNCHANGED <<server, orphans, pairing, status>>

ServerExits(t) ==
  /\ server[t]
  /\ server' = [server EXCEPT ![t] = FALSE]
  /\ UNCHANGED <<disk, up, actorVars, handle, run, told, snap, sideVars, ops, exits>>

-----------------------------------------------------------------------------
Stop(a) == TakeTask(a) \/ TaskEnded(a) \/ Abort(a) \/ StopServices(a)

Restart(c) ==
  Begin(c) \/ Stop(c) \/ Load(c) \/ LoadFails(c) \/ SpawnFails(c) \/ \E t \in Tasks : Spawn(c, t)

Asked(c) ==
  SaveSettings(c) \/ ReadToPause(c) \/ EditWorkspaces(c) \/ Reconnect(c) \/ Launch(c)

Exiting == ExitRequested \/ Stop(Exiter) \/ ReadToDisable \/ WriteDisabled

Task(t) ==
  \/ Authenticated(t) \/ ConnectFails(t) \/ AppServerSpawned(t) \/ StartFails(t)
  \/ LoggedIn(t) \/ Serve(t) \/ Served(t) \/ ReturnsEarly(t) \/ Break(t) \/ StopSeen(t)
  \/ CleanedUp(t) \/ Wake(t) \/ StopInBackoff(t) \/ ServerExits(t)

Next ==
  \/ \E c \in Callers : Asked(c) \/ WritePause(c) \/ Restart(c)
  \/ Exiting \/ Quit
  \/ \E t \in Tasks : Task(t)

Spec == Init /\ [][Next]_vars

\* The executor runs every task that can run, and the five-second timer fires.
\* Nothing is asked of the runtime task itself: it may hang anywhere.
FairSpec ==
  /\ Spec
  /\ \A c \in Callers : WF_vars(WritePause(c)) /\ WF_vars(Restart(c))
  /\ WF_vars(Stop(Exiter))

-----------------------------------------------------------------------------
ActorPhases == {"idle", "pausing", "queued", "stopping", "waiting", "resting", "loading",
                "spawning", "disabling", "gone"}
TaskPhases  == {"ended", "connecting", "starting", "login", "loop", "busy", "closing",
                "leaving", "backoff"}

ActorType ==
  /\ pc \in [Actors -> ActorPhases]
  /\ memo \in [Actors -> Settings]
  /\ victim \in [Actors -> Tasks \union {NoTask}]
  /\ lock \in Actors
TaskType ==
  /\ handle \in Tasks \union {NoTask}
  /\ run \in [Tasks -> TaskPhases]
  /\ told \in [Tasks -> BOOLEAN]
  /\ snap \in [Tasks -> Stored]
  /\ server \in [Tasks -> BOOLEAN]
SideType ==
  /\ orphans \in 0..MaxOrphans
  /\ pairing \in Tasks \union {NoTask}
  /\ lan \in BOOLEAN
  /\ status \in {"disabled", "connecting", "connected", "disconnected"}

\* Types, and an actor in stop() waits if and only if it has taken a task.
TypeOK ==
  /\ disk \in Stored /\ disk.ws <= ops
  /\ up \in BOOLEAN
  /\ ops \in 0..MaxOps /\ exits \in 0..MaxExits
  /\ ActorType /\ TaskType /\ SideType
  /\ \A a \in Actors : Waiting(a) <=> victim[a] # NoTask

\* There is never more than one runtime task, and the one there is can be
\* stopped: the manager holds its handle or is waiting for its end.
OneRun ==
  /\ \A t, u \in Tasks : Alive(t) /\ Alive(u) => t = u
  /\ \A t \in Tasks : Alive(t) => handle = t \/ \E a \in Actors : victim[a] = t

\* A restart that has yet to read the settings.
ToReload(c) == pc[c] \in {"queued", "stopping", "waiting", "resting", "loading"}

\* Settings and workspaces that were saved, a pause above all, are in force: the
\* running task has copies of what is stored unless a restart is still to come.
InForce ==
  pc[Exiter] = "idle" =>
    \A t \in Tasks : Alive(t) =>
      (snap[t] = disk /\ disk.set.enabled) \/ \E c \in Callers : ToReload(c)

\* The LAN server only runs while the stored settings want it.
LanAllowed ==
  (pc[Exiter] = "idle" /\ lan) =>
    \/ disk.set.enabled /\ disk.set.lan /\ ~disk.set.paused
    \/ \E c \in Callers : ToReload(c)

\* What was saved last is in force, in the task and on the local network.
SavedIsInForce == InForce /\ LanAllowed

\* The pairing runtime a run has started is its own until it ends: no earlier
\* run's clean-up takes it away.
PairingBelongsToRun ==
  pc[Exiter] = "idle" =>
    \A t \in Tasks : run[t] \in {"starting", "login", "loop", "busy"} => pairing = t

\* "connected" is shown for every run in its loop, and for no other unless it is
\* being stopped.
StatusTruthful ==
  pc[Exiter] = "idle" =>
    /\ \A t \in Tasks : run[t] \in {"loop", "busy"} => status = "connected"
    /\ status = "connected" =>
         \/ \E t \in Tasks : run[t] \in {"loop", "busy", "closing", "leaving"}
         \/ \E c \in Callers : pc[c] \in {"waiting", "resting"}

\* What the phones use and the user sees is that of the run that serves, although an
\* earlier run may still be cleaning up when it starts.
RunShown == PairingBelongsToRun /\ StatusTruthful

\* Every restart comes to an end, whatever the task it has to stop is doing.
RestartReturns == \A c \in Callers : pc[c] = "queued" ~> pc[c] = "idle"
=============================================================================
