---------------------------- MODULE CommandPath ----------------------------
(***************************************************************************)
(* The way a command takes from a phone to Codex: encrypted frames that a  *)
(* relay carries without being trusted, the replay guard of the desktop,   *)
(* its cache of answered commands and the select loop that handles one     *)
(* command at a time (relay_client.rs, crypto.rs, manager.rs).             *)
(*                                                                         *)
(* A frame is never removed from `sent': the relay may deliver it late,    *)
(* twice, out of order or not at all.  A phone encrypts a retry of a       *)
(* command as a new frame, with the next sequence number and the same      *)
(* inner messageId.  The outer messageId is a fresh UUID per frame, so     *)
(* (device, sequence) names it.                                            *)
(***************************************************************************)
EXTENDS Naturals, Sequences

CONSTANTS
  Devices,         \* the phones that share the room
  Commands,        \* inner messageIds a phone may use
  StatusCommands,  \* those whose type is allowed while remote control is paused
  Window,          \* REPLAY_WINDOW_SIZE (2048 in the code)
  CacheSize,       \* MAX_CACHED_COMMANDS (2048 in the code)
  MaxSeq,          \* bound: frames a phone sends
  MaxExits         \* bound: times the desktop application is restarted

ASSUME StatusAssumption == StatusCommands \subseteq Commands
ASSUME WindowAssumption == Window \in Nat \ {0}
ASSUME CacheAssumption  == CacheSize \in Nat \ {0}
ASSUME BoundAssumption  == MaxSeq \in Nat /\ MaxExits \in Nat

Frame   == [dev : Devices, seq : 1..MaxSeq, cmd : Commands]
Answers == {"ok", "error", "paused"}

NoAnswer == "none"
NoFrame  == [dev |-> "none", seq |-> 0, cmd |-> "none"]

VARIABLES
  nextSeq,   \* phone: the sequence number its next frame takes
  sent,      \* every frame handed to the relay
  guard,     \* per device: ReplayGuard {ids, order, highest_sequence}
  cache,     \* per device: CommandCache {responses, order}
  loop,      \* where the select loop is
  cur,       \* the frame in hand
  inCodex,   \* the command in hand was written to the app-server
  answer,    \* the response about to be sent
  paused,    \* settings.paused as the running task copied it
  exits,     \* counter for MaxExits
  taken,     \* history: per device, the sequence numbers accepted by this process
  given,     \* history: the <<device, command>> this process gave to Codex
  runs,      \* history: times Codex got a command since its record was last lost
  replied    \* history: answers sent for a command since its record was last lost

phoneVars   == <<nextSeq, sent>>
desktopVars == <<guard, cache, loop, cur, inCodex, answer, paused, exits>>
historyVars == <<taken, given, runs, replied>>
vars        == <<phoneVars, desktopVars, historyVars>>

-----------------------------------------------------------------------------
(* ReplayGuard *)

FreshGuard == [ids |-> {}, order |-> <<>>, highest |-> 0]

AcceptsUnordered(g, s) == s \notin g.ids   \* wrong: no sequence check

Accepts(g, s) == s \notin g.ids /\ ~(g.highest > 0 /\ s <= g.highest)

\* The window drops its oldest id once it holds more than Window of them.
Remember(g, s) ==
  LET full == Append(g.order, s)
      late == Len(full) > Window
  IN  [ids     |-> (g.ids \union {s}) \ (IF late THEN {Head(full)} ELSE {}),
       order   |-> IF late THEN Tail(full) ELSE full,
       highest |-> IF s > g.highest THEN s ELSE g.highest]

(* CommandCache *)

FreshCache == [responses |-> [c \in Commands |-> NoAnswer], order |-> <<>>]

Cached(k, c) == k.responses[c] # NoAnswer

Overflow(k, c) == ~Cached(k, c) /\ Len(k.order) >= CacheSize

\* The command whose answer has to go to make room for c.
Evicted(k, c) == IF Overflow(k, c) THEN {Head(k.order)} ELSE {}

Store(k, c, a) ==
  [responses |-> [x \in Commands |->
                    IF x = c THEN a
                    ELSE IF x \in Evicted(k, c) THEN NoAnswer
                    ELSE k.responses[x]],
   order     |-> IF Cached(k, c) THEN k.order
                 ELSE Append(IF Overflow(k, c) THEN Tail(k.order) ELSE k.order, c)]

-----------------------------------------------------------------------------
Init ==
  /\ nextSeq = [d \in Devices |-> 1]
  /\ sent = {}
  /\ guard = [d \in Devices |-> FreshGuard]
  /\ cache = [d \in Devices |-> FreshCache]
  /\ loop = "down"
  /\ cur = NoFrame
  /\ inCodex = FALSE
  /\ answer = NoAnswer
  /\ paused \in BOOLEAN
  /\ exits = 0
  /\ taken = [d \in Devices |-> {}]
  /\ given = {}
  /\ runs = [d \in Devices |-> [c \in Commands |-> 0]]
  /\ replied = [d \in Devices |-> [c \in Commands |-> {}]]

LookupIfOk(d, c) ==   \* wrong: failures are tried again
  IF cache[d].responses[c] = "ok" THEN "ok" ELSE NoAnswer

LookupUnlessPaused(d, c) ==   \* wrong: "paused" does not count as an answer
  IF cache[d].responses[c] = "paused" THEN NoAnswer ELSE cache[d].responses[c]

\* commands.get(device).and_then(|cache| cache.get(id)): by phone, then by id.
Lookup(d, c) == cache[d].responses[c]

(* The phone *)

\* A new command or a retry of one: always a new frame.
Send(d, c) ==
  /\ nextSeq[d] <= MaxSeq
  /\ sent' = sent \union {[dev |-> d, seq |-> nextSeq[d], cmd |-> c]}
  /\ nextSeq' = [nextSeq EXCEPT ![d] = @ + 1]
  /\ UNCHANGED <<desktopVars, historyVars>>

(* The desktop *)

Connect ==
  /\ loop = "down"
  /\ loop' = "select"
  /\ UNCHANGED <<phoneVars, guard, cache, cur, inCodex, answer, paused, exits, historyVars>>

\* A frame comes in.  One the guard refuses is skipped; a command that was
\* answered before goes straight to its cached response.
Receive(f) ==
  LET d == f.dev IN
  /\ loop = "select"
  /\ Accepts(guard[d], f.seq)
  /\ guard' = [guard EXCEPT ![d] = Remember(@, f.seq)]
  /\ taken' = [taken EXCEPT ![d] = @ \union {f.seq}]
  /\ cur' = f
  /\ IF Lookup(d, f.cmd) # NoAnswer
       THEN loop' = "replying" /\ answer' = Lookup(d, f.cmd)
       ELSE loop' = "handling" /\ answer' = NoAnswer
  /\ inCodex' = FALSE
  /\ UNCHANGED <<phoneVars, cache, paused, exits, given, runs, replied>>

\* handle_command hands the command to Codex (thread/start, turn/start, ...).
GiveToCodex ==
  /\ loop = "handling" /\ ~inCodex
  /\ ~paused /\ cur.cmd \notin StatusCommands
  /\ inCodex' = TRUE
  /\ given' = given \union {<<cur.dev, cur.cmd>>}
  /\ runs' = [runs EXCEPT ![cur.dev][cur.cmd] = @ + 1]
  /\ UNCHANGED <<phoneVars, guard, cache, loop, cur, answer, paused, exits, taken, replied>>

\* The answers handle_command may come to, given how far it got.
Outcome ==
  IF cur.cmd \in StatusCommands THEN {"ok"}
  ELSE IF paused THEN {"paused"}
  ELSE IF inCodex THEN {"ok", "error"}   \* error: Codex refused, or 60 s went by
  ELSE {"error"}                         \* rejected before Codex was asked

\* handle_command returns and its response is cached before it is sent.
Settle(a) ==
  LET d == cur.dev
      lost == Evicted(cache[d], cur.cmd)
  IN
  /\ loop = "handling"
  /\ a \in Outcome
  /\ cache' = [cache EXCEPT ![d] = Store(@, cur.cmd, a)]
  /\ answer' = a
  /\ loop' = "replying"
  /\ runs' = [runs EXCEPT ![d] = [c \in Commands |-> IF c \in lost THEN 0 ELSE @[c]]]
  /\ replied' = [replied EXCEPT ![d] = [c \in Commands |-> IF c \in lost THEN {} ELSE @[c]]]
  /\ UNCHANGED <<phoneVars, guard, cur, inCodex, paused, exits, taken, given>>

Rest ==
  /\ cur' = NoFrame
  /\ inCodex' = FALSE
  /\ answer' = NoAnswer

Reply ==
  /\ loop = "replying"
  /\ loop' = "select"
  /\ Rest
  /\ replied' = [replied EXCEPT ![cur.dev][cur.cmd] = @ \union {answer}]
  /\ UNCHANGED <<phoneVars, guard, cache, paused, exits, taken, given, runs>>

\* send_remote(..).await? fails, or the socket ends while the loop waits.
ConnectionLost ==
  /\ loop \in {"select", "replying"}
  /\ loop' = "down"
  /\ Rest
  /\ UNCHANGED <<phoneVars, guard, cache, paused, exits, historyVars>>

\* restart() after a settings change: the loop saw the stop signal between two
\* commands, or the task was aborted after five seconds in the middle of one.
\* Then a command Codex already has loses its only record.
Restart(p) ==
  /\ loop' = "down"
  /\ paused' = p
  /\ Rest
  /\ IF loop = "handling" /\ inCodex
       THEN runs' = [runs EXCEPT ![cur.dev][cur.cmd] = 0]
       ELSE UNCHANGED runs
  /\ UNCHANGED <<phoneVars, guard, cache, exits, taken, given, replied>>

\* The application ends and starts again: guard and cache live in memory only.
Exit ==
  /\ exits < MaxExits
  /\ exits' = exits + 1
  /\ loop' = "down"
  /\ Rest
  /\ guard' = [d \in Devices |-> FreshGuard]
  /\ cache' = [d \in Devices |-> FreshCache]
  /\ taken' = [d \in Devices |-> {}]
  /\ given' = {}
  /\ runs' = [d \in Devices |-> [c \in Commands |-> 0]]
  /\ replied' = [d \in Devices |-> [c \in Commands |-> {}]]
  /\ UNCHANGED <<phoneVars, paused>>

Desktop ==
  \/ Connect \/ GiveToCodex \/ Reply \/ ConnectionLost \/ Exit
  \/ \E f \in sent : Receive(f)
  \/ \E a \in Answers : Settle(a)
  \/ \E p \in BOOLEAN : Restart(p)

Next == Desktop \/ \E d \in Devices, c \in Commands : Send(d, c)

Spec == Init /\ [][Next]_vars

-----------------------------------------------------------------------------
GuardType == [ids : SUBSET (1..MaxSeq), order : Seq(1..MaxSeq), highest : 0..MaxSeq]
CacheType == [responses : [Commands -> Answers \union {NoAnswer}], order : Seq(Commands)]

\* Types, and which of the loop's variables are in use in which phase.
TypeOK ==
  /\ nextSeq \in [Devices -> 1..(MaxSeq + 1)]
  /\ sent \subseteq Frame
  /\ guard \in [Devices -> GuardType]
  /\ cache \in [Devices -> CacheType]
  /\ loop \in {"down", "select", "handling", "replying"}
  /\ cur \in Frame \union {NoFrame}
  /\ inCodex \in BOOLEAN
  /\ answer \in Answers \union {NoAnswer}
  /\ (cur = NoFrame) <=> (loop \in {"down", "select"})
  /\ (answer = NoAnswer) <=> (loop # "replying")
  /\ paused \in BOOLEAN
  /\ exits \in 0..MaxExits
  /\ taken \in [Devices -> SUBSET (1..MaxSeq)]
  /\ given \subseteq Devices \X Commands
  /\ runs \in [Devices -> [Commands -> Nat]]
  /\ replied \in [Devices -> [Commands -> SUBSET Answers]]

\* As long as the desktop has its record of a command (it is in hand or cached),
\* Codex was given the command at most once, however often the phone retries it
\* and whatever the relay does with the frames.
AtMostOnce == \A d \in Devices, c \in Commands : runs[d][c] <= 1

\* Every reply to a command is the same one: a retry learns what happened to the
\* first attempt, an error or a pause included.
OneAnswer ==
  \A d \in Devices, c \in Commands : \A a, b \in replied[d][c] : a = b

\* A retry does no harm: it is not given to Codex again and learns what the first
\* attempt came to.
RetriesHarmless == AtMostOnce /\ OneAnswer

\* "ok" for a command that needs Codex is only sent when Codex was given that
\* command, from that device: one phone never gets the answer to another's.
OkMeansGiven ==
  \A d \in Devices, c \in Commands \ StatusCommands :
    "ok" \in replied[d][c] => <<d, c>> \in given

\* Commands of one phone are begun in the order it sent them, and no frame is
\* begun twice by one process, although the window of ids forgets the older ones.
InOrderOnce ==
  [][\A f \in Frame : cur = NoFrame /\ cur' = f =>
       \A s \in taken[f.dev] : s < f.seq]_vars

\* The set and the queue of either bounded store describe the same entries, no
\* entry twice, and neither outgrows its bound: nothing leaks and nothing is
\* evicted that was not the oldest.
Entries(q)  == {q[i] : i \in 1..Len(q)}
Distinct(q) == \A i, j \in 1..Len(q) : q[i] = q[j] => i = j

GuardCoherent(g) ==
  g.ids = Entries(g.order) /\ Distinct(g.order) /\ Len(g.order) <= Window
CacheCoherent(k) ==
  /\ {c \in Commands : Cached(k, c)} = Entries(k.order)
  /\ Distinct(k.order) /\ Len(k.order) <= CacheSize

StoresCoherent ==
  \A d \in Devices : GuardCoherent(guard[d]) /\ CacheCoherent(cache[d])

-----------------------------------------------------------------------------
\* The desktop as its phones see it: a command is settled while its answer is
\* cached, worked on while it is in hand, and otherwise unknown.
LedgerState(d, c) ==
  IF Cached(cache[d], c) THEN "settled"
  ELSE IF loop = "handling" /\ cur.dev = d /\ cur.cmd = c THEN "working"
  ELSE "unknown"

Pairs == Devices \X Commands

Ledger == INSTANCE CommandLedger WITH
  Commands <- Pairs,
  state    <- [p \in Pairs |-> LedgerState(p[1], p[2])],
  given    <- [p \in Pairs |-> runs[p[1]][p[2]]],
  settled  <- [p \in Pairs |-> cache[p[1]].responses[p[2]]],
  replies  <- [p \in Pairs |-> replied[p[1]][p[2]]]

\* The desktop keeps the promises of the ledger.
LedgerSpec == Ledger!Spec
=============================================================================
