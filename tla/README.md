# Codex Compass: specifications

Codex Compass is a Windows desktop application (Rust/Tauri, React) around Codex:
it switches providers and stands between Codex and them with a gateway, repairs
Codex's local data, injects page scripts, and lets a phone drive Codex through an
encrypted relay. This directory holds TLA+ models of the parts whose behaviour is
concurrent, distributed or several writes long - the **remote control**, the
**gateway**, the **provider configuration** and the **repair of Codex's data** -
with TLC configurations and TLAPS proofs. Paths below are relative to `src/`;
`rc/` abbreviates `src-tauri/src/remote_control/`, `core/` and `data/` the `src`
directories of the crates `codex-plus-core` and `codex-plus-data`.

1. Inventory — 2. Plan — 3. Modules and code — 4. Runs — 5. Fairness —
6. Proofs — 7. Where code and documents disagree — 8. What is not modelled

## 1. Inventory

### The remote control and how its parts talk

    phone page (server/web/app.js)                 Codex app-server process
        |  presence socket, room socket                  | stdio, JSON lines
    relay server (server/index.mjs, relay-core.mjs)  desktop (rc/*.rs)
        |________________ web socket ____________________|
    phone page (server/web/lan-pairing.js) --- HTTP on the LAN --- rc/lan_pairing.rs

A phone and a desktop share a room key. The relay authenticates sockets, keeps who
is present and forwards encrypted frames it cannot read. A phone becomes paired
either through the relay or over the local network.

| Component | State it keeps | Operations | What is hard | What makes it correct |
|---|---|---|---|---|
| Command path: replay guard, command cache, select loop (`rc/relay_client.rs`, `rc/crypto.rs`) | per phone the window of accepted frames and its highest number; per phone the answers of handled commands; the frame in hand | accept a frame, look up a command, hand it to Codex, cache, reply; connection loss, restart, abort, exit | frames late, twice or out of order; retries under a new frame; abort between handing over and caching; two bounded stores, each a set beside a queue | one hand-over and one answer per recorded command, no frame twice, phones not mixed |
| Runtime supervision (`rc/manager.rs`, `rc/mod.rs`, `lib.rs`, phases of `relay_client::run`) | settings and workspaces on disk, `restart_lock`, task handle, status, pairing runtime, LAN server, app-server process | save settings, pause, edit workspaces, reconnect, restart, stop with time-out and abort, exit, reconnection with back-off | requests on several threads, an exit handler without the lock, copies of settings in the task, a task that may hang anywhere, early returns past the clean-up | one task at most; what is saved is in force; no request waits for ever |
| Relay registries (`server/relay-core.mjs`, `server/index.mjs`) | rooms, phones, desktops, pairings; per socket its role | authenticate, register phone or desktop, list, route a pairing message, close event, purge | `close()` is not the end of a socket: replaced sockets are still heard and their close event comes after the device is back | registries name live sockets of the right device, views of the clients stay right |
| Pairing through the relay (`server/web/app.js`, relay table, `rc/relay_pairing.rs`) | the page's dialog, the relay's table, the desktop's requests with their failed attempts | request, invite, submit a code, verify, complete, reject, cancel, expire | crossing decisions of two users, lost and refused messages, overlapping pairings | credentials only by consent, codes bounded in guesses, decisions final |
| Channel of the page (`server/web/app.js`, `ReplayGuard` of `rc/crypto.rs`) | next number, highest number seen, copies in localStorage; the desktop's highest number | number, encrypt, send; receive, check, decrypt, handle; reload | encryption and decryption end in any order; the page reloads anywhere; clocks | only overtaken frames of the phone are refused, never all that follow a reload; the page refuses nothing honest |
| Pairing over the LAN (`rc/lan_pairing.rs`, `server/web/lan-pairing.js`) | invitation, requests, attempts, the run's credentials; per page view, key, timers | invite, cancel, submit, approve, reject, poll, purge, start, stop, fail | several phones with one code, overlapping chains of polls, answers lost after they were served, restarts with other credentials | one approval per invitation, credentials of this run only, a page leaves only with its own, waiting ends |
| Codex app-server client, session monitor, sessions (`rc/codex_adapter/`, `rc/monitor.rs`, `rc/sessions.rs`) | process, pending requests by id, bounded event channel; status per session, sessions a connection may hear | start, request with its write and its time-out, reader, stop; commands of a session, events, eviction, disconnection | the loop takes no events while it works on a command; a pipe that is full, late answers, a lagging receiver, the process ending before or after the subscription | the phone hears of a turn after its answer, a shown status follows its turn, every command ends unless a living Codex stops reading |
| Input and attachments (forms of `server/web/app.js`, `server/upload-store.mjs`, `rc/attachments.rs`) | the session shown, the workspace chosen, files picked, `queuedPrompt`; uploads with expiry; the input in hand | pick, submit, upload, `session.create`, `session.created`, `conversation.input`; put, consume once, purge; download, write | the user, sessions and lists change the form while files are uploaded; one slot for a prompt; one of several files failing or expiring | an input reaches its session, whole or not at all; uploads are handed out once |
| Settings on disk (`rc/settings.rs`, `rc/workspace.rs`) | `settings.json`, `workspaces.json` | load or create, write by replacement | a crash or a load between remove and rename | credentials survive |
| Sockets and session lists of the page (`server/web/app.js`) | sockets, timers, pages of the lists | connect, disconnect, load | handlers of sockets that were replaced | one socket, which lasts |

### The rest of the application

| Component | State, operations | Why it matters here |
|---|---|---|
| Gateway: rotation and failover (`core/relay_rotation.rs`, `core/protocol_proxy.rs`) | one selector behind a mutex: index, conversation bindings; per request the settings it loaded | concurrent requests with settings of different age move, replace and forget the shared selector: modelled |
| Gateway: stream conversion (`core/protocol_proxy.rs`) | one converter per response: items, think buffer, events written | the upstream cuts everything anywhere and ends in any way: modelled |
| Provider switch, hot switch, logout, reset (`relay_switch.rs`, `relay_config.rs`, `hot_switch.rs`, `codex_commands.rs`) | `settings.json`, `auth.json`, `config.toml`, the server on 8787 | series of writes with partial undo, three actors, crashes: modelled |
| Repair of sessions, index cleanup, deletion and undo (`data/provider_sync.rs`, `data/storage.rs`) | rollout files, SQLite rows, `session_index.jsonl`, lock directory, backups | files that Codex writes at the same time, errors and crashes at each step: modelled |
| Model mapping, launcher and watcher, page injection, themes and markets, worktrees and other helpers, shell and UI, latency tests, deployment | see section 8 | not planned: data, I/O or one step at a time |

Every place where this code is hard to test is listed in `PROJECT.json` under
`hazards`, with the line where it bites and the properties that cover it, or the
reason why none does yet.

## 2. Plan

The order follows what a user loses when it goes wrong: a command done twice, a
pause that is not in force, a phone that is paired without consent.

| # | Module | Composes / refines | State |
|---|---|---|---|
| 1 | `CommandPath` | implements `CommandLedger` | checked; invariants and the refinement proved |
| 2 | `RemoteRuntime` | (abstracts 1 to one "busy" phase) | checked with liveness; invariants proved |
| 3 | `PairingTable`, `RelayPresence` | `RelayPresence` EXTENDS the table | checked; all proved |
| 4 | `RelayPairing` | EXTENDS the same table, with both ends | checked; all proved |
| 5 | `MobileChannel` | the other end of 1 | checked, proved |
| 6 | `LanPairing` | desktop table and pages together | checked with liveness; invariants proved |
| 7 | `RelayRotation` | requests of the gateway beside changes of the settings | checked; all proved |
| 8 | `StreamConverter` | a stream against the conversion of the same answer in one piece | checked; all three invariants proved |
| 9 | `ProviderConfig` | the operations of three actors over four places | checked; all four invariants proved |
| 10 | `CodexSessions` | opens the "busy" phase of 2: loop, reader, Codex, monitor | checked with liveness; both safety properties proved |
| 11 | `CodexData` | repair, cleanup and deletion beside Codex | checked; all four properties proved |
| 12 | `PhoneInput` | page, upload store and desktop together; takes the frames of 1 as reliable until a connection breaks | checked; all three invariants proved |
| 13 | `MobileLink` (sockets and timers of the page), `SettingsStore` | crash between the file steps | not begun |

All invariants and action properties that the runs check are proved; the four liveness
properties are model-checked. The runs below are one for each module; their configurations use the same sizes: two or three actors, one of each limited
resource, and one more event than the limit allows.

## 3. Modules and code

`PROJECT.json` "map" gives the lines behind every definition. Comments beginning
with `wrong:` mark variants of a definition with a plausible bug; they are in no
next-state relation and serve to show that the properties can fail.

### CommandPath, CommandLedger

`sent` is every frame ever given to the relay; a frame is never removed, so
delivery late, twice, in another order or not at all needs no action of its own.
`guard[d]` is `ReplayGuard` (ids, order, highest), `cache[d]` is `CommandCache`
(responses, order). `loop` is where the `select!` loop of `run` stands.

| Action | Code |
|---|---|
| `Send` | `encryptMessage` and `send` of the page; a retry is a new frame with the same inner id |
| `Connect` | `run` from the connection to the loop; guards and caches are those of the process |
| `Receive` | the frame arm: guard, then cache look-up, then `handle_command` or the cached reply |
| `GiveToCodex`, `Outcome`, `Settle` | `handle_command`: the hand-over, its result or refusal, `insert` with eviction |
| `Reply`, `Rest` | sending the answer, back to the loop |
| `ConnectionLost`, `Restart`, `Exit` | socket end; `restart`/`stop` with its abort, which drops the command in hand, and the new copy of the settings; end of the process |

The guards and caches live in the manager and outlast the task, not the process.
`taken`, `given`, `runs` and `replied` are history: what this process accepted and
handed over, and what was done and answered since the record of a command was
last lost. Encryption, signatures and the kinds of Codex requests are abstracted:
a frame that does not decrypt is one that is not delivered.

`CommandLedger` is the promise without frames, guards and caches: a command is
unknown, being worked on or settled; only an unknown one is begun; what is replied
is what it was settled with; the desktop may forget. `CommandPath` instantiates it
with a pair (phone, command) per ledger command.

### RemoteRuntime

Actors are requests of the user interface (`Callers`) and the exit handler; `pc`
says where each is: saving, queued for `restart_lock`, in `stop()`, waiting for
the old task, in the services' clean-up, loading, spawning. Tasks are names of
spawned tasks; `run[t]` is the phase of the task: connecting, starting the
app-server, logging in, in the loop, busy with a command, closing after an error,
leaving after the stop signal, in back-off. `snap[t]` is the copy of settings and
workspaces the task was spawned with.

`SaveSettings`, `ReadToPause`/`WritePause`, `EditWorkspaces`, `Reconnect`,
`Launch` are the commands of `rc/mod.rs`; the pause is two steps because
`set_paused` reads and writes without a lock. `Begin` .. `Spawn` are `restart()`
between its awaits; `TakeTask`, `TaskEnded`, `Abort`, `StopServices` are `stop()`.
`ExitRequested` .. `Quit` are `shutdown_and_disable`, which calls `stop()` without
the restart lock. The other actions are the task's own. `orphans` counts
app-server processes that no run owns any more.

### PairingTable, RelayPresence, RelayPairing

`PairingTable` is the relay's table of pairings and its rules of who may send
which message in which state; both other modules extend it. `RelayPresence` has
the registries and the life of sockets: `phase` is `readyState`, `Closed` the
close event, and every handler, including those of a socket on which `close()`
was called, is one step of the event loop. `told[s]` is what the client behind a
socket has been told about who is online. Rate limits, pings and protocol errors
are `Close` at any time.

`RelayPairing` has one phone and one desktop with queues per hop (`p2r`, `r2p`,
`d2r`, `r2d`). `dialog` is the page's `state.pairing`, `records` the desktop's
requests with their failed attempts, `table` the relay's. `Submit` draws an
exchange (the page's key pair); credentials are readable with the exchange they
answer and no other. `PhoneLost`/`DeskLost` drop what waits on that connection;
`LateClose` is the relay hearing of it only after the device is back;
`RelayRefuses` is its rate limit. `disturbed` marks the pairings that met a loss,
refusal or expiry: two properties say what holds without them.

### MobileChannel

A frame is its number. `Send` numbers and writes to localStorage, `Encrypted`
sends any of the frames in the browser's hands, `PageReceives` checks against
`highest`, `Decrypted` notes and handles any of those being decrypted. `PageLoads`
starts the page at any point with any clock, `late` are frames of an earlier
connection still on their way. `Accept` is `ReplayGuard::accept`: a number that is not
above all others is refused (`refused`). `RunBegins` numbers from the desktop's clock; the
guard outlasts the run but not the process. `overtaken` is history: the frames behind
which one numbered later was sent, because it was encrypted sooner, and those of an older
connection when a newer one is heard.

### LanPairing

`table` (invitation, requests, attempts) is behind one mutex in
`rc/lan_pairing.rs`, so each handler and each of the manager's and user's
operations, with its purge, is one step. The answer to a poll is two steps,
`PollServed` and the page's `TakeCredentials`/`ShowVerdict`/`PollAgain`, with
`PollLost` in between. `poll[p]` holds one chain of polls per request that was
accepted: the page cancels a timer, never a fetch, so chains overlap. `key` is
the request whose key pair the page holds; what was encrypted for another request
does not open (`Opens`). Credentials are the number of the run that was started
with them.

### RelayRotation

`selector` is `GLOBAL_SELECTOR`: its aggregate, one index (the code has three, of
which a strategy uses one) and the conversations' members. A request is `Load`
(settings and conversation), one of `Route`, `SelectPlain`, `SelectInvalid`,
`SelectMember` (under the mutex, where a selector for other settings is replaced),
then `Answer` once per candidate, each of which reports to the selector
(`Recorded`) without asking whose it is by then. `Probe` is the health check of
the window. `Save` changes what is loaded next. `picks` and `seen` are history:
how often the index chose whom, and whether the selector a request chose with is
still there, undisturbed or replaced.

### StreamConverter

`c` is the `ChatSseToResponsesConverter`, a record with an operator for each of its
methods; `out` is all events it has written. `Arrive` is a block of the upstream,
which in the same packet may follow a failed one (`buffer`), `End` and `Break` are
the two ends of the connection, `AnswerWhole` is the other path: an answer in one
piece, converted as a whole (`WholeItems`) and replayed. That path puts the arguments of
every call in a normal form (`WholeArguments`, `responses_arguments_to_chat`): trimmed when
they are an object, `{}` when there are none, wrapped as the `input` of one when they are
anything else, which a custom tool gets back unwrapped. A stream leaves them as they came.
`AnswerBreaks` is an answer in one piece that cannot be read or parsed: the handler returns
through `?` and drops the client's connection. A character is only what
the tags and the braces need; `heard` is what the upstream has said in all, which is what
`ChunksDoNotMatter` compares with, and whether it named every call with its first
delta and only there, as those upstreams do that send ids and names at all
(`heard.proper`), and which tools are custom ones (`heard.custom`). An answer in one piece lists whole calls, each under a slot of
its own.

### ProviderConfig

An operation is the list of its writes (`todo`), which an actor works off one by
one, each of which may fail; `Undo` is what the code then takes back, `Rest` what
it still does. The asynchronous commands share a mutex, the other commands take
turns on the main thread, and the logout of the page bridge takes part in neither.
The operations are `BeginEnable`, `BeginDisable`, `BeginSave`, `BeginMappings`,
`BeginSwitch`, `BeginApply`, `BeginClear`, `BeginImport`, `BeginReset` and
`BeginLogout`; `Restart` ends the process anywhere and starts the gateway again as
the settings say; `SignIn` is Codex's own. `form` is what the window shows and
sends back, which may be old.

### CodexSessions

The loop (`loop`) is idle or waits for the first or second request of a command
(`create`, `resume`, `input`, `history`, `interrupt`). `Ask` notes the request as pending
and `Write` puts it into Codex's pipe, which is a step of its own because `write_all` and
`flush` wait while the pipe is full; `WriteFails` is the write to a process that is gone.
`TimeOut` covers the answer only, as the code's sixty seconds do; `Respond`, `Refuse`, `GoOn`,
`Finish` end or continue the command. `TakeEvent` and `CodexLeft` are the event
arm of the `select!`. `Read` and `ReadEnd` are the reader, which resolves pending
requests and fills the channel, dropping the oldest event. Codex is external:
`Serve`, `Reasons`, `Completes`, `Dies`. `Closed`, `SendFails` and `Reconnect` end
a run with and without its clean-up and begin the next. `shown` is the monitor,
the session used last first, cut to its limit. `blurred` marks the sessions whose
status was set by a history read or a resumption, or that missed an event.

### CodexData

A repair (`run[r]`) is `Begin` (lock and read), `UpToDate` or `SaveOriginals`, then
`WriteFile` for each file, `UpdateRows` for each database, `Finish` (global state
and pruning of backups), or `RestoreFile` for each file written when one of these
fails, and `Release`. A file is its provider and the number of its lines, a row its
provider. `Apply`, `Look`, `Compare`, `WriteIndex` are the cleanup of
`session_index.jsonl` under the same lock. `Delete`, `DeleteRow` for each database,
`RemoveFile` and `Undo` take none. Codex creates sessions, writes and names them
(`NewThread`, `Append`, `Name`) at any time, because only the cleanup looks whether
it runs, and that not at the moment it writes. `Crash` ends any of them and leaves
the lock directory, which nothing removes. `exposed`, `touched` and `last` are
history: sessions written while a repair or a deletion had their text in hand,
sessions that came or went during the repair, what the last overwriting found.

### PhoneInput

The page has two forms, one for a new session (about the workspace chosen) and the
composer (about the session shown, `view`). `Submit` begins the uploads of a form
(`upload`), `UploadFile`/`UploadFails` are the awaits of `uploadSelectedAttachments`,
whose loop runs over the live list: a file picked meanwhile joins it (`shared`)
unless the list has been replaced. `FinishInput`, `FinishNew`, `FinishFails` are what
follows the uploads, with what is shown and chosen then. `Created` is
`session.created`, which opens the session, empties `queuedPrompt` and sends the session
what was in it, if there is a connection: it is decrypted in the background, any of several
first (`answers` is a set), and is handled also when the connection is lost meanwhile.
`ConnectionLost` keeps any part of the answers, `Reload` none.
Meanwhile the user does `Pick`, `Unpick`, `Open`, `Back`, `ChooseWorkspace`; `Listed`
is the list of workspaces that comes with every connection and resets the choice.
`store` and `bytes` are the relay's `EncryptedUploadStore`; `Put` and `Consume` purge
first, as the code does, `Expire` is time. On the desktop `Create` is
`session.create`, `TakeInput`, `Fetch`/`FetchFails` and `Give`/`Decline` are
`conversation.input` with `prepare_attachments`, `Refuse` is every error answer.
`ConnectionLost`, `Reload` and `DesktopRestarts` lose what the code loses. `aim`,
`made`, `heard`, `sent` and `given` are history; `crossed` marks the submissions whose
form was changed while it was being sent, or that overlapped another session still
being created. What happens to those is in section 7.

## 4. Runs

| Run | Question | Answer |
|---|---|---|
| `commands` | Is a command of a phone given to Codex and answered once, whatever the relay does and whenever the desktop restarts? | `RetriesHarmless`, `InOrderOnce`, `LedgerSpec` hold |
| `runtime` | Is there one task, does it work with what was saved, can a hanging task block the user? | `OneRun`, `SavedIsInForce`, `RunShown`, `RestartReturns` hold |
| `presence` | Are registries and views coherent with replaced and late sockets? | `RegistriesSound`, `PhoneViewExact`, `DesktopViewKept` hold |
| `pairing` | Can a phone be paired against a decision, or a code be guessed longer? | `PairedByConsent`, `GuessesBounded`, `AnswerUnderWay`, `VerdictFinal` hold |
| `mobile` | Can page and desktop lock each other out, and which frames are dropped for their number? | `OnlyOvertakenRefused` holds |
| `lan` | Can one code admit two phones, a page leave with what was not for it, or wait for ever? | `OneApprovalPerInvitation`, `PairedByConsent`, `CredentialsCurrent`, `WaitingEnds` hold |
| `gateway` | Do overlapping requests with settings of different age still try everyone, share fairly and remember? | `TriedAll`, `Fair`, `SelectorRemembers` hold |
| `stream` | Does what is streamed agree with what is reported at the end, however it is cut and ended? | `CompletedIsStreamed`, `OneVerdict`, `ChunksDoNotMatter` hold |
| `provider` | Can an overlap, a failure or a crash leave Codex pointing at nothing? | `NoDeadGateway`, `Agreement`, `RolledBack`, `SignInSurvives` hold |
| `sessions` | Does the phone hear in order, does the monitor converge, does everything end? | `EventsAfterAnswer`, `ShownTurns`, `Answered`, `LossNoticed` hold |
| `data` | Can repair, cleanup and deletion beside Codex lose what is not theirs? | `AllOrNothing`, `OriginalsBackedUp`, `NothingLost`, `IndexSpares` hold |
| `uploads` | Does what the user writes and picks reach its session, whole, whatever happens meanwhile? | `InputsWhole`, `SubmissionsKeptApart`, `UploadsOneShot` hold |

Type correctness is proved where there is a proof module, and no run repeats it.
The longest runs, `provider` (6.5 million states), `data` (4.3), `uploads` (4.0), `runtime` and `lan`
(1.5 each, with liveness), take two to four minutes with two workers. In short,
what the properties mean:

- `RetriesHarmless` (`AtMostOnce`, `OneAnswer`): while the desktop has its record of a command (in hand
  or cached) Codex was given it at most once and all replies are the same answer.
  The record is lost with the process, with an abort of the task and by eviction.
- `InOrderOnce`: one process begins the commands of a phone in the order of their
  frames and no frame twice, although the window forgets identifiers.
- `SavedIsInForce`: a running task has copies of exactly what is stored, and the LAN
  server runs only while that wants it, unless a restart that will read it is still
  to come. A pause or a revoked permission that was saved cannot be bypassed by an
  overlapping request.
- `RunShown` (`PairingBelongsToRun`, `StatusTruthful`): the run that serves keeps the
  pairing runtime and the shown status, although an earlier one may be cleaning up.
- `RegistriesSound` (`RegistriesExact`, `NoOrphanPairing`): the registries list no
  connection that has ended, and every open one under its device: a late close event
  neither leaves nor removes anybody. No pairing outlives the connections of its parties.
- `PhoneViewExact`: what a phone has been told equals the relay's list, at every
  moment. `DesktopViewKept`: the desktop's view, once right, stays right while its
  listed connection lasts; it need not be right at first (hazard `index.mjs:227`).
- `AnswerUnderWay`: a page that waits for a verdict, with its controls disabled and
  no time-out, has its proof or an answer under way.
- `GuessesBounded`: five wrong proofs end a pairing, whatever is lost or repeated.
- `OnlyOvertakenRefused`: the next number of the phone is above all it has given and all
  the desktop has seen (`NeverLockedOut`); the desktop drops for its number only a frame that
  was `overtaken` (`RefusesOvertaken`), so neither a reload nor a clock nor a loss costs a
  frame sent later; the page refuses no frame of the desktop (`NoneRejected`). That frames
  are overtaken, and then lost, is in section 7.
- `OneApprovalPerInvitation`: requests pending with the same code are closed by the
  first approval, whichever were purged, cancelled or made in between.
- `TriedAll`: a request that gives up has tried each member of its own aggregate
  once. `Fair`: each member has its share of every round of the schedule.
  `SelectorRemembers`: failover stays with the member that answered, a conversation
  with its member, unless the selector itself was changed or replaced.
- `CompletedIsStreamed`: the items of `response.completed` are those announced, in
  order, with the text of their deltas. `OneVerdict`: it completes or fails, and does
  not complete after failing. `ChunksDoNotMatter`: the result is that of the answer
  in one piece; where the arguments of a call differ between the two is said exactly, in
  pieces as they came and in one piece in normal form, and it is in section 7.
- `NoDeadGateway`: Codex's configuration names the gateway only while the settings have
  hot switching on, so that the next start runs it. `Agreement`: between undisturbed
  operations settings, gateway and both files say the same. `RolledBack`: a failed operation leaves what
  it found, where the code undoes at all. `SignInSurvives`: the sign-in at ChatGPT is
  in `auth.json`, in a profile or in a backup.
- `EventsAfterAnswer`: the phone hears of a turn after the answer to its command.
  `ShownTurns`: once all is heard, a session is shown as active just when Codex works
  in it, but for the sessions the monitor lost sight of in one of four known ways.
  `Answered`: a command ends, whether Codex answers, hangs or dies, unless it lives, reads
  nothing more and its pipe stays full (`Stuck`). `LossNoticed`: the loop ends after Codex has.
- `AllOrNothing`: a repair that reports success has changed all it read, one that
  failed late has changed no file. `OriginalsBackedUp`: the provider it found is in a
  kept backup, whatever stops it. `NothingLost`: all lines of a session are in its file
  or in the backup of its deletion, except lines written while somebody held an older
  copy. `IndexSpares`: the cleanup takes no entry of a session that has come back, but
  for the window between its last look and its write.
- `InputsWhole`: what Codex is given is what the page sent, with all its files, and with
  files only in a workspace that takes them. `SubmissionsKeptApart`: a submission goes,
  with the files picked for it, to the session on the screen or to the one created for
  it in the workspace chosen (`ReachesItsSession`), and a session that was created for a
  prompt gets it if there is a connection when `session.created` is handled
  (`PromptFollows`), unless the submission was `crossed`; crossed or not, no prompt is sent
  twice and no session gets two (`OnePromptEach`). `UploadsOneShot`: nothing is handed out twice or after
  its time, and the count of bytes that decides whether the store is full is right.

### Bounds

| Module | Bounds | Why they are enough |
|---|---|---|
| CommandPath | 2 phones, 2 commands, 2 frames a phone, window and cache of 1, 1 exit | window and cache overflow with the second entry; two phones use the same ids; a command can be retried, evicted and retried again. The proofs have no bound |
| RemoteRuntime | 2 callers, the exit handler, 2 tasks, 2 settings (on, off), 2 requests, 1 exit, orphans not counted | any two operations overlap at every await; task names are used again once a task has ended, and at most one is alive, so two are enough for old beside new |
| RelayPresence | 2 desktops, 3 phones, 4 sockets used again, 1 pairing, a limit of 2 listed phones | each device can have an old socket beside a new one, the limit is exceeded by one, sockets are unlimited in time |
| RelayPairing | 2 pairings, 3 codes, 2 wrong ones allowed, 1 disturbance | two pairings overlap from either side; a code more than the limit |
| MobileChannel | clock to 3, 2 numbers a tick, 3 frames, 2 in the browser's hands | two suffice to overtake; the clock of a reload may lie before or after |
| LanPairing | 1 phone whose clock is a tick behind, 1 invitation, 2 runs, 2 requests, clock to 4 | two requests are the least for a second approval, and one phone's count like two phones' in the table; direct requests share the table with invited ones; the clock passes every expiry |
| RelayRotation | 2 requests, 3 suppliers, 1 conversation beside none, 7 settings: each strategy, one with a member without key, one without aggregate, one with hot switching; 2 saves, 3 picks | a round of three members and of a weighted schedule is completed; an old request meets a new selector twice |
| StreamConverter | 2 tools, 4 blocks from 20 kinds of chunk | tags are cut in every place, two calls interleave with text, and a block follows each ending |
| ProviderConfig | 1 API supplier and the official one, 3 operations, 2 failures of each, 1 crash | two operations overlap and a third finds what they left; the undo may fail, too |
| CodexSessions | 2 sessions (one to be created), channel of 2, monitor of 1, a pipe sure to take 1 request, 3 commands, 2 runs | a request that timed out unread fills the pipe for the next one; channel and monitor overflow with the next entry; a late answer meets the second command; the second run inherits the monitor |
| CodexData | 2 sessions, one of them in both databases, 2 providers, 2 who may repair, an older backup and 1 new, 1 kept, 1 deletion, lines to 2 | one file is written and another fails; one database is updated and another not; pruning has something to remove; the lock has two claimants; undo has two backups to choose from |
| PhoneInput | 2 submissions, 2 files of one size and room for 2, 1 session and names for 2, 2 workspaces of which one takes files, 2 picks or choices, 2 losses | two submissions of either form follow or overlap each other; one file fails and another not; the store is full while an old upload waits to be purged; a loss can follow the recovery from another |

`MaxSeq`, `MaxExits`, `MaxOps`, `MaxOrphans`, `MaxExchanges`, `MaxLosses`,
`MaxClock`, `MaxSent`, `MaxBusy`, `MaxRuns`, `MaxInvitations`, `MaxRequests`,
`MaxSaves`, `MaxPicks`, `MaxBlocks`, `MaxJobs`, `MaxFailures`, `MaxCrashes`,
`MaxCommands`, `MaxBackups`, `MaxDeletes`, `MaxLines` and `MaxSubmissions` bound counters for TLC.
`Window`, `CacheSize`, `MaxFailed`, `MaxMobiles`, `PairingTtl`, `RateWindow`,
`RateLimit`, `MaxFailedCodes`, `Capacity`, `MaxSessions`, `Keep`, `StoreLimit` and `MaxFiles` are constants of
the code with small values, and `PipeSize` is what the operating system's pipe takes at least. Symmetry is used for sockets and devices, for pairing
ids, for requests of the gateway, for providers and repairs, and for new sessions and
files of the same size, and in no run with a liveness property.

Deadlock is checked for `RelayPresence` and `MobileChannel` and in the run `lan`. The
other behaviours may end: when the frames are used up and the desktop has exited,
when the application has quit, when both users have nothing left to do, when the
stream has ended, or when the bounded operations are done.

## 5. Fairness

- `RemoteRuntime!FairSpec`: weak fairness on the steps of each request
  (`WritePause`, `Restart`) and on the exit handler's `Stop`. These are futures the
  executor polls whenever they can go on, and the five-second timer of `stop()`
  fires. Nothing is asked of the runtime task: it may hang in a connection attempt,
  a request to the app-server or a write to a full pipe. Weak fairness also
  suffices for `restart_lock`, because the requests are finitely many.
- `LanPairing!FairSpec`: weak fairness on `Tick` and on each chain of polls, since
  a fetch ends with an answer or an error and a timer fires. Nothing is asked of
  the desktop, the user or the submission.

- `CodexSessions!Fairness`: weak fairness on the loop's own steps, the reader and the
  time-out of a request that is written; on a write only while the pipe has room
  (`Room /\ Write`) or Codex is gone (`WriteFails`), because the operating system promises
  no more; strong fairness on taking an event and on noticing that
  Codex has left, because `select!` chooses among ready branches at random, so a
  branch that is ready again and again is not passed over for ever. Nothing is asked
  of Codex, the phone or the connection.

The other specifications are safety only; their properties need no fairness.

## 6. Proofs

A proof module extends the modules it is about. Components that share one share its
name space, which is why their specifications have names of their own there:
`RelayProofs` is about `RelayPresence` (`PresenceSpec`) and `RelayPairing` (`Spec`),
`PhoneProofs` about `MobileChannel` (`ChannelSpec`) and `PhoneInput` (`Spec`),
`GatewayProofs` about `RelayRotation` (`Spec`) and `ProviderConfig` (`ConfigSpec`),
`CodexProofs` about `CodexSessions` (`Spec`) and `CodexData` (`DataSpec`).
`StreamProofs` is about `StreamConverter` (`StreamSpec`); `GatewayProofs` extends it for
what it says of folds.

Every theorem holds for all values of the constants that satisfy the named ASSUMEs of
the module: the parameters of the code are positive numbers (`Window`, `CacheSize`,
`PerTick`, `Keep`, the limits of the pairings), bounds are numbers, special names are
different from ordinary ones (`Exiter`, `NoTask`, the places of `ProviderConfig`),
forms are settings, a chunk is reasoning, content and a list of deltas of calls, each of one
of the tools, whose slots are not those of reasoning and text (`ChunkAssumption`,
`ToolsAssumption`), there are finitely many suppliers (`Relays`).

**CommandPathProofs.** `TypeCorrect` first. `IInv` adds to it `Recorded` (a command
that was given has a record: it is cached, or in hand), `RepliesFromCache` (only
the cached answer was ever replied), `LoopAgreesWithCache` (what is about to be
replied is the cached answer, what is being handled is not cached) and
`OkCachedMeansGiven`. `AtMostOnce` alone is not inductive: a state with a given
command and no record satisfies it, and the next retry breaks it. From `IInv` follow
`CommandAtMostOnce` and `CommandOneAnswer`, together `RetriesHarmlessAlways`, and
`CommandOkMeansGiven`. `TakenBounded` (no
accepted number above the guard's highest) gives `CommandInOrderOnce`: it is the
highest number, not the window, that refuses old frames. `CommandStoresCoherent`
rests on lemmas about appending to and shortening a queue of distinct entries.
`CommandPathImplementsLedger` maps every action to a ledger step or a stutter.

**RemoteRuntimeProofs.** `RunInv`: the lock names the caller inside `restart()`
(`LockInv`), one actor waits at a time and meanwhile no task is registered
(`WaitInv`), every live task is registered or waited for (`HeldInv`), and a caller
past its `stop()` is alone (`QuietInv`). `OneRunAlways` follows; the exit handler,
which takes no lock, is why `WaitInv` speaks of all actors. `ForceInv` adds what a
caller about to spawn has in hand (`SpawnInv`) and that the LAN server is down
behind a `stop()` (`LanInv`); the two halves of `SavedIsInForceAlways` follow.
`ShownInv` adds that a task that was told to stop is waited for (`ToldInv`):
`PairingBelongsToRunAlways`, `StatusTruthfulAlways`, together `RunShownAlways`.

**RelayProofs, the registries.** `PresenceInv` is the conjunction of the types, `NoGhosts`,
`OpenIsReachable`, `OwnRoom` (a desktop is in its own room), `PhoneViewExact` and
`NoOrphanPairing`. The parts need each other: whom a message reaches is read from
the registries, so the views rest on the registries being exact, and these rest on
a connection being a stranger before its first frame and after its close.
`RegistriesSoundAlways` and `PhoneViewExactAlways` follow.
`DesktopViewAlwaysKept` is an action property under the same invariant.

**RelayProofs, a pairing.** Beside the types: `RequestedOnce` and `InvitedOnce` (the opening
message of a pairing is at one place of its way at most, and not for an id that is
unused), `Judged` (before its request arrives a pairing has no record and no verdict;
the guesses made are counted in its record and bounded), `Held` (a page that shows or
holds a pairing received its invitation, and the user did not withdraw it) and `Told`
(a completion under way or received is the desktop's verdict). Without the first two a
late copy would open a record or a dialog again.
`PairedByConsentAlways`, `GuessesAlwaysBounded` and `VerdictAlwaysFinal` follow.
`AnswerAlwaysUnderWay` needs what both sides know of a pairing that is open and was
not disturbed: until its verdict the page, the relay and the desktop have it or its
message is on the next hop; the verdict is the last message of its pairing in the
desktop's queue, so nothing overtakes it; a proof counts only before the verdict.

**PhoneProofs, the channel.** `UpInv`: all numbers given, wherever their frames are, are
at most the stored one, and that is below the next (`Given`); a frame that was not overtaken is
above the desktop's highest number and above all that left before it, those of older
connections included (`InOrder`), so what is refused was overtaken. `DownInv`: frames under way
ascend, lie above all that was noted or is being decrypted and below the desktop's
next number. The two directions of `OnlyOvertakenRefusedAlways` follow.

**PhoneProofs, the forms.** The invariant has the types (`PageTypes`, `QueueTypes`),
`Homes` (sessions that are talked about exist) and six parts: `Whole` (an input under way,
in the desktop's hands or given was sent, with all its files), `Fresh` (the submission being
uploaded has left no trace yet), `UnderWay` (unless something got in its way it is still what
the user saw), `OnceEach` (a session is requested once and reported once, as its request
said), and `Slot`: `queuedPrompt` holds the prompt of the only session that is still to be
reported, unless that submission is `crossed`. The last one is why the exception for
overlapping creations is needed and why it suffices. `SentOnce` says the rest: a prompt leaves
the slot when it is sent, and the session it went to is not reported again. `InputsAlwaysWhole` and
`SubmissionsAlwaysKeptApart` follow. `UploadsAlwaysOneShot` adds `StoreInv`:
`StoreCounted`, `StoredOnce` (a file of a submission is stored once), `NotYetStored` (what is
still to be uploaded is not stored, which holds although files join the list during the
upload, because a list that is still shared is what is picked) and `GoneOnceGot`. The count
is a sum over a set (`Weight`), whose lemmas (`WeightSums`, `WeightStep`, `WeightSplits`) are
derived from the library's fact that strict inclusion of finite sets is well-founded: the
sum does not depend on the order in which the elements are taken.

**LanPairingProofs.** `LanInv` is `Types`, `Spent` (no code that can be redeemed and
no request that can be approved belongs to an invitation with an approval),
`OwnRequests` (answers on their way, keys and submissions are the phone's own),
`CredentialsCurrent` and `PairedByConsent`. `OneApprovalAlways` needs `Spent`
because an approval clears the invitation and rejects the waiting requests, while
requests made before remain in the table until they are purged.

**GatewayProofs, the rotation.** `TriedAllAlways` needs `AllComplete`: the list of a request
is all members, in the circle that begins with the one picked, and it gives up at the
last of them.
`SelectorRemembersAlways` needs `KnowsAll`: what a request knows of the selector while
nobody has replaced it, namely where the selector points when nobody else moved it,
and which member its conversation is assigned to.
`FairAlways` needs `Even`: a selector is `Rotated`, that is after k full rounds each
supplier was picked k times as often as it occurs in the cycle (`Times`) and as often more as
it occurs before the index, and all picks together are k cycles and the places before the
index. A selector that is replaced starts to count again, which is why the picks of no selector
are none. That a cycle is as long as a round and holds each member as often as its weight says
(`RoundIs`, `RoundShares`) is an induction over the members: the weighted schedule is a
concatenation (`Flattens`, `ScheduleGrows`), the round a fold (`RoundFolds`), and the sum of
the picks a fold over the finite set of suppliers (`Total`).

**StreamProofs.** Every method of the converter appends to its output
events that are no verdict (`Adds`), which the methods that write one do once and
guard with `completed` and `failed`; hence `VInv`: what was written is no verdict, or
the one the flags tell, or an answer that was replayed as a whole (`Verdict`,
`Replayed`). Folds over the tools and the characters of a chunk keep what each of
their steps keeps: lemma `Induction`, derived for a set of numbers from the library's
well-foundedness of `<` (the library's own induction theorems take an operator and are
of no use here), then `Iterated`, `FoldSteps`, `Folds`. `AlwaysOneVerdict` follows.
`CompletedIsStreamedAlways` needs `SInv`: until it completes, the converter is `InStep`, that
is its items are numbered without a gap and each was told under its number (`Numbered`), the
list of closed items has each of them once, with the text streamed before it was closed
(`Listed`, `Shut`), and what was streamed for an open item is what it holds (`Streaming`),
which is so for all slots between two methods (`Holds`) and for all but one within a method.
What the deltas of a slot add up to is a fold, of which one more event is one more step
(`TextStep`). As far as the upstream is proper, a call has its id and name before it is told
(`ProperDelta`), so that what is told of it once is never changed (`PushToolHolds`); a chunk
is the fold of its calls (`ChunkHolds`), the end the fold of all tools (`EndHolds`). At the
end the number of an item is one more than the number of closed ones before it, which is
what sorting by number comes to (`SortedItems`). An answer in one piece is replayed item by
item (`ShownOneMore`), and its items have a slot each (`WholeReplays`).

`ChunksDoNotMatterAlways` is about the same texts twice: what the converter makes of content
cut anywhere, and a function of the whole content, which `heard` holds. The step from a
content to one that goes on is the heart, and is about sequences only: white space is taken off
the start in one way (`TrimsTo`, `TrimJoin`), a think block that is closed stays where it is
when more content follows (`ThinkOn`), so that thought and answer never change once they are
`Decided` (`AnswerOn`). `AnswerInv` adds to `SInv` that the converter `Reads` what it was given
until it completes: either it does not know yet what the content is, has all of it in its buffer
and no text in an item (`Waiting`), or it is `Settled`, its text the answer in the content before
the first call and all that came after it, its reasoning the thought, unless reasoning comes in
its own field too. No item of text or of a call is closed before the end, and a closed one has
the text of its item (`Tidy`, `Kept`): were the text closed by a call, later content would be in
its deltas and not in the completed response. A chunk keeps all this (`ChunkReads`), with each
call holding the fold of its arguments (`CallsRead`, `ArgsOf`); the end flushes the buffer
(`FlushReads`) and closes every item that has a text (`CallsEnd`, `Full`). `WholeAgrees` says the
same of the answer in one piece, with the normal form of the arguments (`ArgsIn`, `Argued`).

**GatewayProofs, the configuration.** `CInv` is `ConfigTypes`, `Overlaps` (who may be
under way beside whom), `OnItsWay`, `SignInSafe`, with `Agreement` and `NoDeadGateway`. The
heart is `OnItsWay`: an operation that nothing disturbed is `Going` to the state its plan
`Aims` at, and each of the four places is old or new by whether its write is `Left`; after
a failure it is `Back`, and each place is as it was found or its write still to be taken
back. What the code takes back never turns hot switching off under a configuration that
names the gateway (`Quiet`, `StaysHot`), which is why `NoDeadGateway` survives the
failures that `Agreement` does not speak of. For `SignInSurvives`: as long as no backup
has the sign-in nobody has written `auth.json`, because its write backs up first.

**CodexProofs, the sessions.** `IInv`: the turns the desktop knows of are at most the
commands it has taken, between two commands all are answered, and the event channel is
empty while nobody is subscribed, so an event the loop takes is of a turn whose answer is
out: `EventsAfterAnswerAlways`. `ShownTurnsAlways` needs `ShownPart`: turns run only in
sessions the phone is allowed, an id is used once and one request waits at most, and one that
is still to be written is known to the loop alone (`UnwrittenPart`); the last
message under way about a session (in Codex's pipe, the reader's hand or the channel) says
whether a turn runs in it; and when none is under way what is shown is right, or the session
is `blurred`, or its input is in hand, shown as active and not yet taken by Codex. A session
is listed once, so that taking the first entry out (`Without`) is the code's `retain`.

**CodexProofs, the data.** `DInv`: one repair or cleanup works at a time (`Locked`), what
does not exist has no lines, rows or backups (`Unborn`), what a repair has made of the files
and rows that nobody else touched in each of its phases (`Repaired`), backups are numbered in
the order they were made and the one of a repair at work has what it overwrites (`Numbered`,
`Backed`), every text somebody will write a file with has all lines of an unexposed session
(`Kept`), and what the cleanup's preview still says when it is carried out (`Cleaned`). The
proof corrected the model: with a third deletion, which the run does not have, `NothingLost`
was false, because a session deleted and undone from a longer backup, while a repair holds an
older text of it, was not counted as `exposed`. `AlwaysAllOrNothing`,
`AlwaysOriginalsBackedUp`, `AlwaysNothingLost` and `AlwaysIndexSpares` follow.

Only model-checked: `RestartReturns`, `WaitingEnds`, `Answered` and `LossNoticed`
(liveness under fairness is out of the prover's reach, as is ENABLED). The other 36 of the
40 properties of the runs are theorems. Induction over numbers and finite sets is within
reach, as the folds of the stream, the sum of `UploadsOneShot` and the schedule of `Fair` show,
for one set at a time; an induction that is parameterised by an operator is not. No module has a RECURSIVE operator.

## 7. Where code and documents disagree

These were met while the modules were written. Each is possible in the model
named, no property denies it, and no run is spent on it:

- `CommandPath`: `docs/REMOTE_CONTROL_PROTOCOL.md:161` says that a retry with the same
  inner `messageId` never calls Codex again. `stop()` aborts the task after five
  seconds, also while it waits for Codex and before the answer is cached
  (`rc/manager.rs:203`); the retry is handed over again, within one process and
  without eviction. `RetriesHarmless` states what does hold.
- `RemoteRuntime`: `docs/CODEX_APP_SERVER_COMPATIBILITY.md:36` says a reconnection
  stops the process it has started. Returns through `?` (`rc/relay_client.rs:162` and
  in the loop) skip `app_server.stop()`, and the reader keeps the process alive.
- `MobileChannel`: `docs/REMOTE_CONTROL_PROTOCOL.md:167` says messages out of order are
  refused. The page checks before the decryption and notes after it
  (`server/web/app.js:199`, `212`), so two decryptions that end in the other order
  are both handled, the older one last.
- `LanPairing`: `docs/REMOTE_CONTROL_PROTOCOL.md:214` says an address submits at most
  twelve times in two minutes. A restart of the runtime clears the attempts
  (`rc/lan_pairing.rs:167`), and saving a setting restarts it.
- `ProviderConfig`: `CHANGELOG.md:156` says that an ordinary save no longer goes round
  the commands of the hot mode, so that the flag never stands beside a server that
  does not run; a supplier switch that saves the settings it loaded before still
  brings an old flag back. `README.md:60` and `CHANGELOG.md:198` say that a logout stops hot
  switching; the server on 8787 runs on. `README.md:58` contradicts `CHANGELOG.md:151`.
- `CodexData`: `docs/USER_MANUAL.md:579` says files in use are skipped. A line that
  Codex appends between the read and the write of a rollout file is overwritten
  with the text read before (`provider_sync.rs:1142`).

More weak spots of modelled code that no document speaks of:

- `MobileChannel`: frames are numbered before they are encrypted, several at a time
  (`server/web/app.js:179`, `719`): one numbered later can be sent first, and the desktop then
  drops the earlier one without a word (`rc/crypto.rs:127`). The same happens to a frame of
  an older connection that arrives behind one of a newer one. The request has no answer; only
  the session list notices, after thirty seconds (`app.js:1541`).
- `CodexSessions`: the sixty seconds of a request begin after its writing
  (`codex_adapter/app_server.rs:107`, `114`). A Codex that lives and reads nothing more lets
  the loop wait in `write_all` for ever once the pipe is full, and with it every command of
  the phone, until somebody restarts the runtime.
- `StreamConverter`: the arguments of a call depend on how the upstream answers: empty ones
  become `{}` and a text that is no object becomes `{"input": ...}` in an answer in one piece
  (`core/protocol_proxy.rs:3887`, `4678`), and stay as they are in a stream (`:2482`, `:4006`).
  An answer in one piece that cannot be read or parsed ends the client's connection
  without a response (`core/launcher.rs:1481`, `:1504`), where a stream that breaks ends in
  `response.failed`.

And in other modules: a failure to save
the settings when hot switching is retargeted stops the running gateway, and one
when it is turned off leaves the flag set beside a direct configuration
(`codex_commands.rs`, `set_hot_switch`); an error while the rollout files are written
returns before the rollback (`provider_sync.rs:252`), and a crash leaves the lock
directory, which blocks every later repair (`:517`); and in `PhoneInput`:

- the composer reads the session after the uploads (`server/web/app.js:1903`): an input
  written for one session goes to the one the user, or a `session.created`, has opened
  meanwhile, and the files picked for that one are cleared; after the back button the
  input fails with the error of reading a property of null;
- a second `session.create` before the answer to the first overwrites `queuedPrompt`
  (`:779`): the first session gets the second prompt, the second session none;
- `session.created` is handled once it is decrypted (`:734`), also when the connection is
  lost in between: `queuedPrompt` is emptied (`:782`), `send()` throws (`:233`), and the
  prompt is gone though the user did nothing. `PromptFollows` is claimed of a page with a
  connection only;
- the list of workspaces that comes with a reconnection selects the first one without a
  `change` event (`:874`): a form filled in for another workspace, with its files, then
  creates its session in the first;
- when a later attachment of an input fails, the earlier ones are gone from the relay
  and stay in the workspace (`rc/attachments.rs:70`), so the page's user must pick all
  again, and nothing removes the copies.

## 8. What is not modelled

Inside the modelled components:

- remote control: encryption, key exchange and proofs (a frame or an answer opens
  with its own key and no other; what does not open is not delivered); access
  tokens, address filters, static files, the forwarding of encrypted frames by the
  relay (it changes no state), rate limits other than the LAN one (a close or a
  refusal at any time instead); the life of the page's sockets and its session
  lists;
- `CodexSessions`: the commands that only read (models, capabilities, lists), the
  requests of Codex that the reader declines (`app_server.rs:393`, `:397`: it writes to the
  same pipe, under the same lock, and waits as the loop does while that is full), runs that
  end through `?`;
- `StreamConverter`: bytes (UTF-8, line ends), ids that arrive late, a last block
  without its blank line, and what follows `[DONE]`: a connection that breaks there
  adds a failure to a response that was completed. A think block that is never
  closed is reasoning in the stream and text in the answer in one piece; the
  comparison leaves it out. Of arguments, those that are no string (`null`, objects), texts
  that are JSON but no object, objects with an `input` for a custom tool, and the rebuilding
  of a patch from the arguments of its proxy (`reconstruct_apply_patch_input`);
- `ProviderConfig`: settings that cannot be read (they become the defaults), the
  catalogue of models and aggregates, the sign-in that enabling the hot mode writes
  over;
- `PhoneInput`: texts, skills, the chosen model, sizes, names and order of files, the
  upload permission as the page believes it (it may be old, so any file may be picked
  and the desktop decides), other phones and rooms with uploads in the same store; the
  encryption between numbering and sending is one step with the send (`MobileChannel`
  opens it);
- `CodexData`: a write that is cut in the middle (`fs::write` truncates first), columns
  other than the provider, the databases of automations, moves of a workspace, the
  contents of the global state file;
- file writes of the desktop are one step where no module opens them.

Whole components:

- `settings.json` of the remote control between remove and rename, and the page's
  sockets have real hazards, are within TLC's reach and are listed in `PROJECT.json`
  without a property; they are row 13 of the plan;
- the model mapping of the hot switch is data translation without state of its own;
  launcher, watcher and ports are operating-system calls whose state is the process
  table; the injected page scripts and the debugging bridge are one request and
  answer over a socket;
- themes, markets, updates, worktrees and the other helpers run one at a time and are
  I/O; the export of sessions reads; the desktop shell and its pages are forms;
  latency tests measure; deployment is shell scripts. These are most of the lines
  that no definition maps.
