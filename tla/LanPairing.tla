----------------------------- MODULE LanPairing -----------------------------
(***************************************************************************)
(* Pairing over the local network: the desktop's table of invitations and  *)
(* requests behind one mutex (lan_pairing.rs), the manager that starts and *)
(* stops it, the user who approves or rejects, and the page on each phone  *)
(* (lan-pairing.js) that submits a request and polls for the verdict.      *)
(*                                                                         *)
(* Requests and invitations are numbered as they are made.  Credentials    *)
(* are the number of the run that was started with them.  A code is the    *)
(* number of the invitation it came with, 0 a code of none; code, QR       *)
(* secret and proof of one invitation are not told apart.  What is         *)
(* encrypted for a request opens with the key of that request only.        *)
(***************************************************************************)
EXTENDS Integers, Sequences, FiniteSets, Functions

CONSTANTS
  Phones,
  Lag,              \* how far each phone's clock is behind the desktop's
  PairingTtl,       \* PAIRING_TTL_MS
  RateWindow,       \* PAIRING_RATE_WINDOW_MS
  RateLimit,        \* PAIRING_RATE_LIMIT
  MaxFailedCodes,   \* MAX_FAILED_CODES
  MaxClock,         \* bound
  MaxRuns,          \* bound
  MaxInvitations,   \* bound
  MaxRequests       \* bound: requests accepted

ASSUME LanAssumption ==
  /\ {PairingTtl, RateWindow, RateLimit, MaxFailedCodes} \subseteq Nat \ {0}
  /\ {MaxClock, MaxRuns, MaxInvitations, MaxRequests} \subseteq Nat
  /\ Lag \in [Phones -> Int]

VARIABLES
  now,
  credentials,   \* state.settings: the run that serves, 0 when none listens
  runs,          \* runs started so far
  invitation,    \* state.invitation
  invitations,   \* invitations made so far
  requests,      \* state.requests: number -> status, expiry, payload
  attempts,      \* state.attempts: when each phone submitted, oldest first
  page,          \* the variables of each page
  post,          \* the submission each page waits for
  poll,          \* the polls and poll timers of each page, by the request
                 \* whose acceptance started them
  log,           \* history: phone and invitation of every accepted request
  approved       \* history: requests the user has approved

table       == <<invitation, requests, attempts>>
desktopVars == <<credentials, runs, invitations, table>>
phoneVars   == <<page, post, poll>>
history     == <<log, approved>>
vars        == <<now, desktopVars, phoneVars, history>>

Ids          == 1..MaxRequests
NoInvitation == [id |-> 0, expires |-> 0, failed |-> 0]
PostAt(at, id) == [at |-> at, code |-> 0, direct |-> FALSE, id |-> id]
NoPost         == PostAt("none", 0)

PollAt(at, id, first) == [at |-> at, id |-> id, answer |-> "none", first |-> first]
NoPoll                == PollAt("none", 0, FALSE)

PageAt(view, key) == [view |-> view, disabled |-> FALSE, cancelled |-> FALSE,
                      requestId |-> 0, key |-> key, timer |-> 0]
NewPage           == PageAt("request", 0)

Init ==
  /\ now = 1
  /\ credentials = 0 /\ runs = 0
  /\ invitation = NoInvitation /\ invitations = 0
  /\ requests = <<>>
  /\ attempts = [p \in Phones |-> <<>>]
  /\ page = [p \in Phones |-> NewPage]
  /\ post = [p \in Phones |-> NoPost]
  /\ poll = [p \in Phones |-> [i \in Ids |-> NoPoll]]
  /\ log = <<>> /\ approved = {}

Tick ==
  /\ now < MaxClock
  /\ now' = now + 1
  /\ UNCHANGED <<desktopVars, phoneVars, history>>

-----------------------------------------------------------------------------
(* The desktop: every operation holds the mutex from beginning to end, and *)
(* most begin with purge_expired.                                          *)

Direct(i) == log[i].invitation = 0

LiveInvitation == IF invitation.expires <= now THEN NoInvitation ELSE invitation
LiveRequests   == Restrict(requests, {i \in DOMAIN requests : requests[i].expires > now})
LiveAttempts   == [p \in Phones |-> SelectSeq(attempts[p], LAMBDA t : t > now - RateWindow)]

Listening == credentials # 0

Rejected(reqs, ids) == [i \in DOMAIN reqs |->
  IF i \in ids /\ reqs[i].status = "pending" THEN [reqs[i] EXCEPT !.status = "rejected"]
                                             ELSE reqs[i]]

\* wrong: the requests stay in the table
TableKept == invitation' = NoInvitation /\ UNCHANGED requests

\* What start_runtime, stop_runtime and set_runtime_error have in common.
TableCleared == invitation' = NoInvitation /\ requests' = <<>>

StartRuntime ==
  /\ ~Listening /\ runs < MaxRuns
  /\ runs' = runs + 1 /\ credentials' = runs + 1
  /\ TableCleared
  /\ attempts' = [p \in Phones |-> <<>>]
  /\ UNCHANGED <<now, invitations, phoneVars, history>>

StopRuntime ==
  /\ Listening /\ credentials' = 0
  /\ TableCleared
  /\ attempts' = [p \in Phones |-> <<>>]
  /\ UNCHANGED <<now, runs, invitations, phoneVars, history>>

\* The server has ended by itself; the attempts stay.
RuntimeError ==
  /\ Listening /\ credentials' = 0
  /\ TableCleared
  /\ UNCHANGED <<now, runs, invitations, attempts, phoneVars, history>>

\* A new invitation takes the requests of earlier ones with it.
KeptByNewInvitation ==
  Restrict(LiveRequests, {i \in DOMAIN LiveRequests : Direct(i)})

CreateInvitation ==
  /\ Listening /\ invitations < MaxInvitations
  /\ invitations' = invitations + 1
  /\ invitation' = [id |-> invitations + 1, expires |-> now + PairingTtl, failed |-> 0]
  /\ requests' = KeptByNewInvitation
  /\ attempts' = LiveAttempts
  /\ UNCHANGED <<now, credentials, runs, phoneVars, history>>

CancelInvitation ==
  /\ invitation' = NoInvitation
  /\ requests' = Rejected(requests, {i \in DOMAIN requests : ~Direct(i)})
  /\ UNCHANGED <<now, credentials, runs, invitations, attempts, phoneVars, history>>

OthersKept(i) == {}   \* wrong: the other requests of the invitation stay pending

\* With a request of an invitation, the others are settled as well.
OthersRejected(i) == IF Direct(i) THEN {} ELSE {j \in DOMAIN requests : j # i /\ ~Direct(j)}

MayApprove(i) ==
  /\ Listening
  /\ i \in DOMAIN LiveRequests
  /\ requests[i].status = "pending"

\* The credentials are those of this run, encrypted for the request.
Approve(i) ==
  /\ MayApprove(i)
  /\ requests' = [Rejected(LiveRequests, OthersRejected(i)) EXCEPT
                    ![i].status = "approved", ![i].payload = credentials]
  /\ invitation' = IF Direct(i) THEN LiveInvitation ELSE NoInvitation
  /\ attempts' = LiveAttempts
  /\ approved' = approved \union {i}
  /\ UNCHANGED <<now, credentials, runs, invitations, phoneVars, log>>

\* Whatever its status; an earlier approval's payload stays in the record.
Reject(i) ==
  /\ i \in DOMAIN LiveRequests
  /\ requests' = [LiveRequests EXCEPT ![i].status = "rejected"]
  /\ invitation' = LiveInvitation /\ attempts' = LiveAttempts
  /\ UNCHANGED <<now, credentials, runs, invitations, phoneVars, history>>

\* snapshot, and every operation that is refused: what has expired goes.
Snapshot ==
  /\ requests' = LiveRequests /\ invitation' = LiveInvitation /\ attempts' = LiveAttempts
  /\ UNCHANGED <<now, credentials, runs, invitations, phoneVars, history>>

-----------------------------------------------------------------------------
(* create_pairing_request *)

WithinRate(p) == Len(LiveAttempts[p]) < RateLimit

CountAttempt(p) == attempts' = [LiveAttempts EXCEPT ![p] = Append(@, now)]

Redeems(code) == LiveInvitation # NoInvitation /\ code = LiveInvitation.id

Refused(p) == post' = [post EXCEPT ![p] = PostAt("refused", 0)]

\* Nobody listens, or too many submissions of this address.
TurnAway(p) ==
  /\ post[p].at = "sent"
  /\ ~Listening \/ ~WithinRate(p)
  /\ Refused(p)
  /\ invitation' = LiveInvitation /\ requests' = LiveRequests /\ attempts' = LiveAttempts
  /\ UNCHANGED <<now, credentials, runs, invitations, page, poll, history>>

\* A wrong code counts against the invitation there is.
CountFailure ==
  LET inv == LiveInvitation
  IN  invitation' = IF inv = NoInvitation \/ inv.failed + 1 >= MaxFailedCodes THEN NoInvitation
                    ELSE [inv EXCEPT !.failed = @ + 1]

RefuseCode(p) ==
  /\ post[p].at = "sent" /\ ~post[p].direct
  /\ Listening /\ WithinRate(p) /\ ~Redeems(post[p].code)
  /\ CountAttempt(p)
  /\ CountFailure
  /\ Refused(p)
  /\ requests' = LiveRequests
  /\ UNCHANGED <<now, credentials, runs, invitations, page, poll, log, approved>>

\* A bound: the clock still reaches the end of the request on this phone.
RoomToExpire(p) == now + PairingTtl + Lag[p] <= MaxClock

AcceptRequest(p) ==
  /\ post[p].at = "sent" /\ Listening /\ WithinRate(p)
  /\ post[p].direct \/ Redeems(post[p].code)
  /\ Len(log) < MaxRequests /\ RoomToExpire(p)
  /\ CountAttempt(p)
  /\ LET i == Len(log) + 1
         r == [status |-> "pending", expires |-> now + PairingTtl, payload |-> 0]
     IN  /\ requests' = [j \in DOMAIN LiveRequests \union {i} |->
                           IF j = i THEN r ELSE LiveRequests[j]]
         /\ post' = [post EXCEPT ![p] = PostAt("accepted", i)]
         /\ log' = Append(log, [phone |-> p, expires |-> now + PairingTtl,
                                invitation |-> IF post[p].direct THEN 0 ELSE post[p].code])
  /\ invitation' = LiveInvitation
  /\ UNCHANGED <<now, credentials, runs, invitations, page, poll, approved>>

-----------------------------------------------------------------------------
(* The page on the phone *)

PhoneNow(p) == now - Lag[p]

\* A page stops the one timer it remembers.
TimerStopped(p) == IF page[p].timer = 0 THEN poll[p] ELSE [poll[p] EXCEPT ![page[p].timer] = NoPoll]

\* beginPairing up to the answer of the desktop, by code or directly.
BeginPairing(p) ==
  /\ page[p].view = "request" /\ ~page[p].disabled
  /\ Len(log) < MaxRequests /\ RoomToExpire(p)
  /\ page' = [page EXCEPT ![p].cancelled = FALSE, ![p].disabled = TRUE]
  /\ \E code \in 0..invitations, direct \in BOOLEAN :
       /\ direct => code = 0
       /\ post' = [post EXCEPT ![p] = [at |-> "sent", code |-> code, direct |-> direct, id |-> 0]]
  /\ UNCHANGED <<now, desktopVars, poll, history>>

\* A code that has not six digits is not submitted.
BadCode(p) ==
  /\ page[p].view = "request" /\ ~page[p].disabled
  /\ page' = [page EXCEPT ![p].view = "result", ![p].timer = 0]
  /\ poll' = [poll EXCEPT ![p] = TimerStopped(p)]
  /\ UNCHANGED <<now, desktopVars, post, history>>

\* The submission or the answer to it is lost: fetch fails.
PostLost(p) ==
  /\ post[p].at \in {"sent", "accepted"}
  /\ Refused(p)
  /\ UNCHANGED <<now, desktopVars, page, poll, history>>

PostRefused(p) ==
  /\ post[p].at = "refused"
  /\ post' = [post EXCEPT ![p] = NoPost]
  /\ page' = [page EXCEPT ![p].view = "result", ![p].disabled = FALSE, ![p].timer = 0]
  /\ poll' = [poll EXCEPT ![p] = TimerStopped(p)]
  /\ UNCHANGED <<now, desktopVars, history>>

\* The page shows the code to compare and polls for the first time.
PostAccepted(p) ==
  /\ post[p].at = "accepted"
  /\ LET i == post[p].id
     IN  /\ page' = [page EXCEPT ![p].view = "waiting", ![p].requestId = i, ![p].key = i]
         /\ poll' = [poll EXCEPT ![p][i] = PollAt("asked", i, TRUE)]
  /\ post' = [post EXCEPT ![p] = NoPost]
  /\ UNCHANGED <<now, desktopVars, history>>

\* pairing_status: the record's status; a request that is gone is an error.
PollServed(p, i) ==
  /\ poll[p][i].at = "asked" /\ poll[p][i].answer = "none"
  /\ LET id == poll[p][i].id
     IN  poll' = [poll EXCEPT ![p][i].answer =
                   IF id \in DOMAIN LiveRequests THEN requests[id].status ELSE "failed"]
  /\ invitation' = LiveInvitation /\ requests' = LiveRequests /\ attempts' = LiveAttempts
  /\ UNCHANGED <<now, credentials, runs, invitations, page, post, history>>

PollLost(p, i) ==
  /\ poll[p][i].at = "asked" /\ poll[p][i].answer # "failed"
  /\ poll' = [poll EXCEPT ![p][i].answer = "failed"]
  /\ UNCHANGED <<now, desktopVars, page, post, history>>

Answered(p, i) == poll[p][i].at = "asked" /\ poll[p][i].answer # "none"

\* beginPairing enables its buttons after its own first poll.
Disabled(p, i) == IF poll[p][i].first THEN FALSE ELSE page[p].disabled

OpensAny(p, id) == TRUE   \* wrong: any payload taken for one's own

\* Only the request's own key decrypts its payload.
Opens(p, id) == page[p].key = id

\* The page leaves for the remote web site with the credentials.
TakeCredentials(p, i) ==
  /\ Answered(p, i) /\ poll[p][i].answer = "approved" /\ Opens(p, poll[p][i].id)
  /\ page' = [page EXCEPT ![p] = PageAt("paired", page[p].key)]
  /\ poll' = [poll EXCEPT ![p] = [j \in Ids |-> NoPoll]]
  /\ post' = [post EXCEPT ![p] = NoPost]
  /\ UNCHANGED <<now, desktopVars, history>>

\* wrong: an error is always tried again
PastExpiryUnlessFailed(p, i) ==
  poll[p][i].answer # "failed" /\ PhoneNow(p) >= log[poll[p][i].id].expires

\* The expiry of the answer, or after an error that of the newest request.
PastExpiry(p, i) ==
  PhoneNow(p) >= log[IF poll[p][i].answer = "pending" THEN poll[p][i].id ELSE page[p].key].expires

\* Rejected or expired: the page shows it, whatever it was waiting for.
ShowVerdict(p, i) ==
  /\ Answered(p, i)
  /\ \/ poll[p][i].answer = "rejected"
     \/ poll[p][i].answer \in {"pending", "failed"} /\ PastExpiry(p, i)
     \/ poll[p][i].answer = "approved" /\ ~Opens(p, poll[p][i].id) /\ PastExpiry(p, i)
  /\ page' = [page EXCEPT ![p].view = "result", ![p].disabled = Disabled(p, i), ![p].timer = 0]
  /\ poll' = [poll EXCEPT ![p] = [TimerStopped(p) EXCEPT ![i] = NoPoll]]
  /\ UNCHANGED <<now, desktopVars, post, history>>

\* Pending, or an error: the next poll is timed, also by a page that has
\* cancelled, and the timer it remembers is this one.
PollAgain(p, i) ==
  /\ Answered(p, i)
  /\ \/ poll[p][i].answer \in {"pending", "failed"}
     \/ poll[p][i].answer = "approved" /\ ~Opens(p, poll[p][i].id)
  /\ ~PastExpiry(p, i)
  /\ page' = [page EXCEPT ![p].disabled = Disabled(p, i), ![p].timer = i]
  /\ poll' = [poll EXCEPT ![p][i] = PollAt("timer", 0, FALSE)]
  /\ UNCHANGED <<now, desktopVars, post, history>>

\* pollStatus by the timer: nothing for a page that has cancelled.
TimerFires(p, i) ==
  /\ poll[p][i].at = "timer"
  /\ poll' = [poll EXCEPT ![p][i] =
       IF page[p].cancelled \/ page[p].requestId = 0 THEN NoPoll
       ELSE PollAt("asked", page[p].requestId, FALSE)]
  /\ page' = [page EXCEPT ![p].timer = IF @ = i THEN 0 ELSE @]
  /\ UNCHANGED <<now, desktopVars, post, history>>

\* The desktop is not told, and an answer under way still comes.
Cancel(p) ==
  /\ page[p].view = "waiting"
  /\ page' = [page EXCEPT ![p].view = "request", ![p].cancelled = TRUE,
                          ![p].requestId = 0, ![p].timer = 0]
  /\ poll' = [poll EXCEPT ![p] = TimerStopped(p)]
  /\ UNCHANGED <<now, desktopVars, post, history>>

Retry(p) ==
  /\ page[p].view = "result"
  /\ page' = [page EXCEPT ![p].view = "request"]
  /\ UNCHANGED <<now, desktopVars, post, poll, history>>

-----------------------------------------------------------------------------
Manager == StartRuntime \/ StopRuntime \/ RuntimeError

User ==
  \/ CreateInvitation \/ CancelInvitation \/ Snapshot
  \/ \E i \in DOMAIN requests : Approve(i) \/ Reject(i)

Submission(p) == TurnAway(p) \/ RefuseCode(p) \/ AcceptRequest(p)

Answer(p) == PostLost(p) \/ PostRefused(p) \/ PostAccepted(p)

Polling(p, i) ==
  \/ PollServed(p, i) \/ PollLost(p, i)
  \/ TakeCredentials(p, i) \/ ShowVerdict(p, i) \/ PollAgain(p, i) \/ TimerFires(p, i)

Next ==
  \/ Tick \/ Manager \/ User
  \/ \E p \in Phones :
       \/ BeginPairing(p) \/ Submission(p) \/ Answer(p)
       \/ BadCode(p) \/ Cancel(p) \/ Retry(p)
       \/ \E i \in Ids : Polling(p, i)

Spec == Init /\ [][Next]_vars

\* Time goes on, timers fire, and a poll ends with an answer or an error.
FairSpec ==
  /\ Spec
  /\ WF_vars(Tick)
  /\ \A p \in Phones, i \in Ids : WF_vars(Polling(p, i))

-----------------------------------------------------------------------------
Invitation == [id : Nat, expires : Int, failed : Nat]
Request    == [status : {"pending", "approved", "rejected"}, expires : Int, payload : Nat]
Entry      == [phone : Phones, expires : Int, invitation : Nat]
Post       == [at : {"none", "sent", "refused", "accepted"}, code : Nat, direct : BOOLEAN, id : Nat]
Page       == [view : {"request", "waiting", "result", "paired"}, disabled : BOOLEAN, cancelled : BOOLEAN,
               requestId : Nat, key : Nat, timer : Nat]
Poll       == [at : {"none", "timer", "asked"}, id : Nat, first : BOOLEAN,
               answer : {"none", "pending", "approved", "rejected", "failed"}]

TypeOK ==
  /\ now \in Int /\ credentials \in Nat /\ runs \in Nat /\ invitations \in Nat
  /\ invitation \in Invitation
  /\ log \in Seq(Entry)
  /\ DOMAIN requests \subseteq 1..Len(log)
  /\ requests \in [DOMAIN requests -> Request]
  /\ approved \subseteq 1..Len(log)
  /\ post \in [Phones -> Post]
  /\ page \in [Phones -> Page]
  /\ poll \in [Phones -> [Ids -> Poll]]

\* Of all the requests that were made with the code of one invitation, the
\* user's approval reaches one: the code is spent with it, whatever requests
\* were waiting, expired or cancelled in between (approve, create_invitation).
OneApprovalPerInvitation ==
  \A i, j \in approved : ~Direct(i) /\ log[i].invitation = log[j].invitation => i = j

\* The table never holds credentials of an earlier run: a phone that polls
\* after a restart with other credentials cannot be sent into the old room
\* (start_runtime, stop_runtime, set_runtime_error).
CredentialsCurrent ==
  \A i \in DOMAIN requests : requests[i].payload \in {0, credentials}

\* A page leaves with the credentials only for the request whose code it
\* showed last, made by this phone and approved by the desktop's user, however
\* polls of earlier requests overlap with it (pollStatus, approve).
PairedByConsent ==
  \A p \in Phones : page[p].view = "paired" =>
    page[p].key \in approved /\ log[page[p].key].phone = p

\* No page waits for ever: a verdict, the expiry or the user ends it, also
\* when the desktop has forgotten the request or is gone (pollStatus).
WaitingEnds == \A p \in Phones : page[p].view = "waiting" ~> page[p].view # "waiting"
=============================================================================
