--------------------------- MODULE ProviderConfig ---------------------------
(***************************************************************************)
(* What Codex talks to is said in four places, written one after the other: *)
(* the settings of the program, the gateway on 8787, and Codex's own        *)
(* auth.json and config.toml.  This module models every operation that      *)
(* writes them, each as the series of single writes it is in the code, with *)
(* what it undoes when one of them fails.                                   *)
(*                                                                         *)
(* Three actors run operations: the asynchronous commands hold the          *)
(* operation mutex of HotSwitchRuntime, the other commands take turns on    *)
(* the main thread, and the bridge of Codex's page (logout) has no lock.    *)
(* Each works with the settings it loaded when it began.  The window sends  *)
(* the settings it last read, which may be old by then.                     *)
(*                                                                         *)
(* Left out: what a profile says, the model catalogue, aggregates (their    *)
(* configuration is a relay's), settings that cannot be read.               *)
(***************************************************************************)
EXTENDS Naturals, Sequences, FiniteSets

CONSTANTS
  Apis,       \* API suppliers of the settings
  MaxJobs, MaxFailures, MaxCrashes   \* bounds: operations, failures of one of them, crashes

ASSUME NameAssumption == {"official", "gateway", "tokens", "none"} \cap Apis = {}
ASSUME JobBounds == MaxJobs \in Nat /\ MaxFailures \in Nat /\ MaxCrashes \in Nat

VARIABLES
  stored,   \* settings.json, as far as it says what Codex should use
  auth,       \* auth.json: the sign-in at ChatGPT, nothing, or a key
  config,     \* config.toml: whose provider it names
  backedUp,   \* the directory of backups holds a sign-in
  server,     \* the gateway of this process runs
  form,       \* the settings the window shows
  jobs,       \* the operation each actor is in
  begun, crashes,
  signedIn,   \* history: there was a sign-in
  interfered, \* history: two operations overlapped, or one changed `hot' without the gateway
  damaged     \* history: a failure or a crash that the code does not undo

configVars == <<stored, auth, config, backedUp, server, form, jobs, begun, crashes,
          signedIn, interfered, damaged>>
configHistory == <<signedIn, interfered, damaged>>

Actors == {"async", "sync", "bridge"}
Suppliers == Apis \cup {"official"}
Default == [hot |-> FALSE, on |-> TRUE, active |-> "official", kept |-> FALSE]
NoJob == [op |-> "idle"]
Busy == {a \in Actors : jobs[a] # NoJob}

-----------------------------------------------------------------------------
(* The writes an operation consists of.                                      *)

StartIt == [do |-> "start"]
StopIt == [do |-> "stop"]
Capture == [do |-> "capture"]   \* relay_switch: load the settings again, read both files
SaveAs(s) == [do |-> "save", to |-> s]
PutAuth(v) == [do |-> "putAuth", to |-> v]
PutConfig(v) == [do |-> "putConfig", to |-> v]
ToAuth(target, s) == [do |-> "auth", to |-> target, s |-> s]
ToConfig(target) == [do |-> "config", to |-> target]

\* write_codex_live_atomic: auth.json first.
Live(target, s) == <<ToAuth(target, s), ToConfig(target)>>

\* The official supplier has its own copy of the sign-in or leaves auth.json, less the key.
AuthOf(target, s, now) ==
  IF target # "official" THEN target
  ELSE IF s.kept \/ now = "tokens" THEN "tokens" ELSE "none"

\* restore_direct_supplier_config
Direct(s) == Live(IF s.on THEN s.active ELSE "official", s)

EnableWrongOrder(cur) ==   \* wrong: Codex is sent to the gateway before the settings say so
  <<StartIt>> \o Live("gateway", cur) \o <<SaveAs([cur EXCEPT !.hot = TRUE])>>

Enable(cur) ==
  <<StartIt, SaveAs([cur EXCEPT !.hot = TRUE])>> \o Live("gateway", cur)

Disable(cur) ==
  (IF cur.hot THEN Direct(cur) ELSE <<>>) \o <<SaveAs([cur EXCEPT !.hot = FALSE]), StopIt>>

\* `hot' of a form that is saved counts for nothing.
SaveForm(cur, sent) ==
  <<SaveAs([sent EXCEPT !.hot = cur.hot])>>
  \o (IF cur.hot THEN <<StartIt>> \o Live("gateway", cur) ELSE <<>>)

SaveMappings(cur) == <<SaveAs(cur)>> \o (IF cur.hot THEN Live("gateway", cur) ELSE <<>>)

\* switch_relay_profile saves the form as it was sent, `hot' included.
Switch(cur, sent) ==
  IF cur.hot \/ ~sent.on THEN <<>> ELSE <<Capture, SaveAs(sent)>> \o Direct(sent)

Apply(cur) == IF cur.hot \/ ~cur.on \/ cur.active = "official" THEN <<>> ELSE Direct(cur)
Clear(cur) == IF cur.hot THEN <<>> ELSE Live("official", cur)
Import(cur) == IF cur.hot THEN <<>> ELSE <<SaveAs(cur)>>

\* core_logout_api_mode: the sign-in in auth.json, the official supplier's, or a backup's.
LogoutForgetful(cur) ==   \* wrong: the backups are not searched
  IF config = "official" /\ ~cur.hot /\ cur.active = "official" THEN <<>>
  ELSE <<SaveAs([cur EXCEPT !.hot = FALSE, !.on = FALSE])>> \o Live("official", cur)

Logout(cur) ==
  IF config = "official" /\ ~cur.hot /\ cur.active = "official" THEN <<>>
  ELSE <<SaveAs([cur EXCEPT !.hot = FALSE, !.on = FALSE])>>
       \o Live("official", [cur EXCEPT !.kept = @ \/ backedUp])

-----------------------------------------------------------------------------
(* What is undone when a write fails.                                        *)

UndoKeepsGateway(job, failed) ==   \* wrong: a gateway started for nothing goes on
  IF job.op = "enable" /\ failed \in {"auth", "config"} THEN <<SaveAs(job.cur)>> ELSE <<>>

UndoKeepsSettings(job, failed) ==   \* wrong: the saved settings stay
  IF job.op = "enable" /\ ~job.cur.hot THEN <<StopIt>> ELSE <<>>

Undoing(job, failed) ==
  CASE job.op = "enable" /\ failed = "save" -> <<StopIt>>
    [] job.op = "enable" /\ failed \in {"auth", "config"} ->
         <<SaveAs(job.cur)>> \o (IF job.cur.hot THEN Live("gateway", job.cur) ELSE <<StopIt>>)
    [] job.op \in {"save", "mappings"} /\ failed = "start" -> <<SaveAs(job.cur)>>
    [] job.op \in {"save", "mappings"} /\ failed \in {"auth", "config"} ->
         <<SaveAs(job.cur)>> \o Live("gateway", job.cur)
    [] job.op = "switch" /\ failed \in {"auth", "config"} ->
         <<SaveAs(job.was.settings), PutConfig(job.was.config), PutAuth(job.was.auth)>>
    [] job.op = "logout" /\ failed \in {"auth", "config"} -> <<SaveAs(job.cur)>>
    [] OTHER -> <<>>

\* A write of both files that failed is left at once; auth.json is put back with it.
WhatIsLeft(job, failed) ==
  LET linked == failed \in {"auth", "putConfig"}
      after  == IF ~job.undoing THEN Undoing(job, failed)
                ELSE IF linked THEN Tail(Tail(job.todo)) ELSE Tail(job.todo)
  IN  (IF failed = "config" THEN <<PutAuth(job.old)>> ELSE <<>>) \o after

\* Two failures that the code reports and leaves: it gives up the gateway of a supplier
\* change, and it has already sent Codex elsewhere when hot switching cannot be put off.
LeftAsItIs(job, failed) ==
  failed = "save" /\ ~job.undoing /\ (job.op = "disable" \/ (job.op = "enable" /\ job.cur.hot))

-----------------------------------------------------------------------------
ConfigInit ==
  /\ stored = Default
  /\ auth \in {"tokens", "none"} /\ config = "official"
  /\ backedUp = FALSE /\ server = FALSE /\ form = stored
  /\ jobs = [a \in Actors |-> NoJob]
  /\ begun = 0 /\ crashes = 0
  /\ signedIn = (auth = "tokens") /\ interfered = FALSE /\ damaged = FALSE

NoSnapshot == [settings |-> Default, auth |-> "none", config |-> "official", server |-> FALSE]
Snapshot == [settings |-> stored, auth |-> auth, config |-> config, server |-> server]

Job(op, todo) ==
  [op |-> op, cur |-> stored, was |-> IF Busy = {} THEN Snapshot ELSE NoSnapshot, todo |-> todo, undoing |-> FALSE,
   failures |-> 0, old |-> "none", alone |-> Busy = {}, clean |-> ~interfered /\ ~damaged]

\* What it was like before matters to an operation that is alone, and to a switch.
Disturbed(job) ==
  [job EXCEPT !.alone = FALSE, !.was = IF job.op = "switch" THEN @ ELSE NoSnapshot]

\* An operation begins: it takes its lock and loads the settings.  One that is refused at
\* once writes nothing and is left out.
Begin(a, op, todo) ==
  /\ jobs[a] = NoJob /\ Cardinality(Busy) < 2 /\ begun < MaxJobs /\ todo # <<>>
  /\ begun' = begun + 1
  /\ jobs' = [b \in Actors |-> IF b = a THEN Job(op, todo)
                               ELSE IF b \in Busy THEN Disturbed(jobs[b])
                               ELSE jobs[b]]
  /\ interfered' = (interfered \/ Busy # {})
  /\ UNCHANGED <<stored, auth, config, backedUp, server, form, crashes, signedIn, damaged>>

\* What the window may send: its form with another supplier, or with the main switch turned.
Edited == {[form EXCEPT !.active = s] : s \in Suppliers} \cup {[form EXCEPT !.on = ~@]}

\* switch_relay_profile keeps what auth.json says in the official profile it leaves.
Backfilled(sent) ==
  IF form.active = "official" /\ sent.active # "official"
  THEN [sent EXCEPT !.kept = auth = "tokens"] ELSE sent

BeginEnable == Begin("async", "enable", Enable(stored))
BeginDisable == Begin("async", "disable", Disable(stored))
BeginSave == \E sent \in Edited : Begin("async", "save", SaveForm(stored, sent))
BeginMappings == Begin("async", "mappings", SaveMappings(stored))
BeginSwitch == \E sent \in Edited : Begin("sync", "switch", Switch(stored, Backfilled(sent)))
BeginApply == Begin("sync", "apply", Apply(stored))
BeginClear == Begin("sync", "clear", Clear(stored))
BeginImport == Begin("sync", "import", Import(stored))
BeginReset == Begin("sync", "reset", <<SaveAs(Default)>>)
BeginLogout == Begin("bridge", "logout", Logout(stored))

Keep(a) == jobs' = [jobs EXCEPT ![a].todo = Tail(@)]
Next1(a, do) == jobs[a] # NoJob /\ jobs[a].todo # <<>> /\ Head(jobs[a].todo).do = do
To(a) == Head(jobs[a].todo).to

StartServer(a) ==
  /\ Next1(a, "start") /\ server' = TRUE /\ Keep(a)
  /\ UNCHANGED <<stored, auth, config, backedUp, form, begun, crashes, configHistory>>

StopServer(a) ==
  /\ Next1(a, "stop") /\ server' = FALSE /\ Keep(a)
  /\ UNCHANGED <<stored, auth, config, backedUp, form, begun, crashes, configHistory>>

CaptureFiles(a) ==
  /\ Next1(a, "capture")
  /\ jobs' = [jobs EXCEPT ![a].todo = Tail(@), ![a].was = [Snapshot EXCEPT !.server = @]]
  /\ UNCHANGED <<stored, auth, config, backedUp, server, form, begun, crashes, configHistory>>

SaveSettings(a) ==
  /\ Next1(a, "save") /\ stored' = To(a) /\ Keep(a)
  /\ interfered' = (interfered \/
       (stored'.hot # stored.hot /\ jobs[a].op \in {"switch", "reset", "logout"}))
  /\ UNCHANGED <<auth, config, backedUp, server, form, begun, crashes, signedIn, damaged>>

\* Both files are copied to the backups before the first is written.
WriteAuth(a) ==
  /\ Next1(a, "auth")
  /\ auth' = AuthOf(To(a), Head(jobs[a].todo).s, auth)
  /\ backedUp' = (backedUp \/ auth = "tokens")
  /\ jobs' = [jobs EXCEPT ![a].todo = Tail(@), ![a].old = auth]
  /\ UNCHANGED <<stored, config, server, form, begun, crashes, configHistory>>

WriteConfig(a) ==
  /\ Next1(a, "config") \/ Next1(a, "putConfig")
  /\ config' = To(a)
  /\ jobs' = [jobs EXCEPT ![a].todo = Tail(@), ![a].old = "none"]
  /\ UNCHANGED <<stored, auth, backedUp, server, form, begun, crashes, configHistory>>

RestoreAuth(a) ==
  /\ Next1(a, "putAuth") /\ auth' = To(a) /\ Keep(a)
  /\ UNCHANGED <<stored, config, backedUp, server, form, begun, crashes, configHistory>>

MayFail(a) ==
  \/ Next1(a, "start") /\ ~server
  \/ \E do \in {"save", "auth", "config", "putConfig", "putAuth"} : Next1(a, do)

\* One write fails: the operation turns back, or goes on turning back.  A switch to a profile
\* without a config.toml of its own fails where it would write auth.json.
Fails(a) ==
  /\ MayFail(a) /\ jobs[a].failures < MaxFailures
  /\ LET job == jobs[a]
         failed == Head(job.todo).do
     IN  /\ jobs' = [jobs EXCEPT ![a] = [job EXCEPT !.todo = WhatIsLeft(job, failed), !.old = "none",
                                           !.undoing = TRUE, !.failures = @ + 1]]
         /\ damaged' = (damaged \/ job.undoing \/ LeftAsItIs(job, failed))
  /\ UNCHANGED <<stored, auth, config, backedUp, server, form, begun, crashes,
                 signedIn, interfered>>

Finished(a) == jobs[a] # NoJob /\ jobs[a].todo = <<>>

\* The command answers.  A change of hot switching that went through alone settles everything.
Answers(a) ==
  /\ Finished(a)
  /\ jobs' = [jobs EXCEPT ![a] = NoJob]
  /\ LET job == jobs[a]
         settled == job.op = "enable" /\ ~job.undoing /\ job.alone
     IN  /\ interfered' = (interfered /\ ~settled)
         /\ damaged' = (damaged /\ ~settled)
  /\ UNCHANGED <<stored, auth, config, backedUp, server, form, begun, crashes, signedIn>>

\* The window reads the settings again.
LoadForm ==
  /\ form # stored /\ form' = stored
  /\ UNCHANGED <<stored, auth, config, backedUp, server, jobs, begun, crashes, configHistory>>

\* The user signs in to ChatGPT in Codex.
SignIn ==
  /\ config = "official" /\ auth = "none" /\ Busy = {}
  /\ auth' = "tokens" /\ signedIn' = TRUE
  /\ UNCHANGED <<stored, config, backedUp, server, form, jobs, begun, crashes,
                 interfered, damaged>>

\* The program ends anywhere and is started again; the gateway may fail to start.
Restart(started) ==
  /\ crashes < MaxCrashes /\ crashes' = crashes + 1
  /\ jobs' = [a \in Actors |-> NoJob]
  /\ server' = (stored.hot /\ started)
  /\ form' = stored
  /\ damaged' = (damaged \/ Busy # {} \/ (stored.hot /\ ~started))
  /\ UNCHANGED <<stored, auth, config, backedUp, begun, signedIn, interfered>>

ConfigNext ==
  \/ BeginEnable \/ BeginDisable \/ BeginSave \/ BeginMappings \/ BeginSwitch
  \/ BeginApply \/ BeginClear \/ BeginImport \/ BeginReset \/ BeginLogout
  \/ \E a \in Actors :
       \/ StartServer(a) \/ StopServer(a) \/ CaptureFiles(a) \/ SaveSettings(a)
       \/ WriteAuth(a) \/ WriteConfig(a) \/ RestoreAuth(a) \/ Fails(a) \/ Answers(a)
  \/ LoadForm \/ SignIn
  \/ \E started \in BOOLEAN : Restart(started)

ConfigSpec == ConfigInit /\ [][ConfigNext]_configVars

-----------------------------------------------------------------------------
\* Codex is never left with the gateway's address while the settings say that hot switching
\* is off - after which no start of the program would run a gateway -, wherever a write
\* fails and wherever the program ends: set_hot_switch saves before it writes the
\* gateway's address, and writes the supplier's address before it saves.
NoDeadGateway == config = "gateway" /\ ~interfered => stored.hot

\* Between operations the four places agree: all say gateway or none does, and the key in
\* auth.json is the one for the provider that config.toml names.
Agreement ==
  Busy = {} /\ ~interfered /\ ~damaged =>
    /\ stored.hot <=> server
    /\ stored.hot <=> config = "gateway"
    /\ IF config = "official" THEN auth \in {"tokens", "none"} ELSE auth = config

\* An operation one of whose writes failed and that no other overlapped leaves the
\* settings, both files and the gateway as it found them.
RolledBack ==
  \A a \in Actors :
    LET job == jobs[a]
    IN  Finished(a) /\ job.undoing /\ job.failures = 1 /\ job.alone /\ job.clean /\ ~damaged
          => Snapshot = job.was

\* A sign-in at ChatGPT is never lost, whatever overlaps, fails or ends: it is in auth.json,
\* in the official supplier's profile or in a backup, and a logout from the API that goes
\* through alone puts it back into auth.json.
SignInSurvives ==
  signedIn =>
    /\ auth = "tokens" \/ backedUp \/ stored.kept
    /\ Finished("bridge") /\ ~jobs["bridge"].undoing /\ jobs["bridge"].alone => auth = "tokens"
=============================================================================
