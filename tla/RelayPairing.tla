---------------------------- MODULE RelayPairing ----------------------------
(***************************************************************************)
(* Pairing a phone with a desktop through the relay, from end to end: the  *)
(* web page of the phone (app.js), the table of the relay (PairingTable)   *)
(* and the desktop (relay_pairing.rs).  The phone asks, or the desktop     *)
(* invites; the user reads a code on the desktop and types it on the       *)
(* phone; the desktop checks the proof and sends the credentials.          *)
(*                                                                         *)
(* Messages wait in a queue per hop; a connection that is lost takes the   *)
(* waiting messages with it, and the relay may hear of its end only after  *)
(* the device is back.  The proof and the credentials are abstract: the    *)
(* phone can read the credentials that answer the exchange it holds.       *)
(***************************************************************************)
EXTENDS PairingTable, Naturals, Sequences

CONSTANTS
  Phone, Desk,     \* the device ids
  NoPid,
  MaxFailed,       \* MAX_FAILED_PROOFS
  MaxExchanges,    \* bound: codes typed
  MaxLosses        \* bound: connections lost, messages refused, early expiries

ASSUME PidAssumption == NoPid \notin Pids
ASSUME PartiesAssumption == Phone # Desk /\ NoPairing \notin Pairings({Phone}, {Desk})
ASSUME BoundAssumption == MaxFailed \in Nat \ {0} /\ MaxExchanges \in Nat /\ MaxLosses \in Nat

VARIABLES
  dialog,      \* state.pairing of the page: [pid, stage, key, x], x its exchange or 0
  online,      \* state.presenceConnected
  paired,      \* the pairing whose credentials the page has stored, or NoPid
  records,     \* requests of the desktop: failed_attempts, or NoRecord
  running,     \* the desktop's pairing runtime has an outbound channel
  table,       \* the relay's pairings
  late,        \* devices whose earlier connection the relay has yet to close
  p2r, r2p, d2r, r2d,   \* messages under way
  used,        \* pairing ids that were drawn
  typed,       \* codes typed so far
  losses,
  verdict,     \* per pairing: what the desktop has decided
  guesses,     \* per pairing: wrong proofs the desktop has looked at
  withdrawn,   \* pairings the user of the phone has cancelled
  disturbed    \* pairings that met a loss, a refusal or an expiry

phoneVars == <<dialog, online, paired>>
deskVars  == <<records, running>>
pastVars  == <<used, typed, losses, verdict, guesses, withdrawn, disturbed>>
vars == <<phoneVars, deskVars, table, late, p2r, r2p, d2r, r2d, pastVars>>

NoRecord == MaxFailed
NoDialog == [pid |-> NoPid, stage |-> "closed", key |-> FALSE, x |-> 0]

FromPhone(kind, i) == [kind |-> kind, pid |-> i, phone |-> Phone, desk |-> Desk, by |-> "phone"]
FromDesk(kind, i)  == [kind |-> kind, pid |-> i, phone |-> Phone, desk |-> Desk, by |-> "desk"]

\* Under way a message has the exchange it belongs to, and whether its code is right.
With(m, x, right) == [m |-> m, x |-> x, right |-> right]
Plain(m)          == With(m, 0, FALSE)
Notice(kind, i)   == Plain([kind |-> kind, pid |-> i, phone |-> Phone, desk |-> Desk, by |-> "relay"])

-----------------------------------------------------------------------------
Init ==
  /\ dialog = NoDialog /\ online = TRUE /\ paired = NoPid
  /\ records = [i \in Pids |-> NoRecord] /\ running = TRUE
  /\ table = EmptyTable /\ late = {}
  /\ p2r = <<>> /\ r2p = <<>> /\ d2r = <<>> /\ r2d = <<>>
  /\ used = {} /\ typed = 0 /\ losses = 0
  /\ verdict = [i \in Pids |-> "open"]
  /\ guesses = [i \in Pids |-> 0]
  /\ withdrawn = {} /\ disturbed = {}

(* The user *)

\* requestDesktopPairing
Request(i) ==
  /\ online /\ dialog = NoDialog /\ i \notin used
  /\ used' = used \union {i}
  /\ dialog' = [pid |-> i, stage |-> "waiting", key |-> FALSE, x |-> 0]
  /\ p2r' = Append(p2r, Plain(FromPhone("request", i)))
  /\ UNCHANGED <<online, paired, deskVars, table, late, r2p, d2r, r2d,
                 typed, losses, verdict, guesses, withdrawn, disturbed>>

\* create_invitation
Invite(i) ==
  /\ running /\ i \notin used
  /\ used' = used \union {i}
  /\ records' = [records EXCEPT ![i] = 0]
  /\ d2r' = Append(d2r, Plain(FromDesk("invite", i)))
  /\ UNCHANGED <<phoneVars, running, table, late, p2r, r2p, r2d,
                 typed, losses, verdict, guesses, withdrawn, disturbed>>

\* submitRelayPairingCode; without a connection the page is back at once.
Submit(right) ==
  /\ dialog.key /\ dialog.stage # "verifying" /\ typed < MaxExchanges
  /\ typed' = typed + 1
  /\ IF online
       THEN /\ dialog' = [dialog EXCEPT !.stage = "verifying", !.x = typed + 1]
            /\ p2r' = Append(p2r, With(FromPhone("proof", dialog.pid), typed + 1, right))
       ELSE /\ dialog' = [dialog EXCEPT !.stage = "ready", !.x = typed + 1]
            /\ UNCHANGED p2r
  /\ UNCHANGED <<online, paired, deskVars, table, late, r2p, d2r, r2d,
                 used, losses, verdict, guesses, withdrawn, disturbed>>

\* The user closes the dialog: closePairingDialog({ notifyDesktop: true }).
Cancel ==
  /\ dialog # NoDialog
  /\ dialog' = NoDialog
  /\ withdrawn' = withdrawn \union {dialog.pid}
  /\ p2r' = IF online THEN Append(p2r, Plain(FromPhone("cancelled", dialog.pid))) ELSE p2r
  /\ UNCHANGED <<online, paired, deskVars, table, late, r2p, d2r, r2d,
                 used, typed, losses, verdict, guesses, disturbed>>

\* reject
Reject(i) ==
  /\ running /\ records[i] # NoRecord
  /\ records' = [records EXCEPT ![i] = NoRecord]
  /\ verdict' = [verdict EXCEPT ![i] = "rejected"]
  /\ d2r' = Append(d2r, Plain(FromDesk("rejected", i)))
  /\ UNCHANGED <<phoneVars, running, table, late, p2r, r2p, r2d,
                 used, typed, losses, guesses, withdrawn, disturbed>>

(* The relay *)

\* A party is listed as long as the relay holds a connection of it; what is sent
\* to one that is closing is lost.
PhoneListed == online \/ Phone \in late
DeskListed  == running \/ Desk \in late

\* The next message from the phone is forwarded, or answered with an error.
RelayFromPhone ==
  /\ p2r # <<>> /\ p2r' = Tail(p2r)
  /\ LET w == Head(p2r) IN
     IF DeskListed /\ Allowed(table, w.m)
       THEN /\ table' = Forwarded(table, w.m)
            /\ r2d' = IF running THEN Append(r2d, w) ELSE r2d
            /\ UNCHANGED r2p
       ELSE /\ r2p' = Append(r2p, Notice("refused", w.m.pid))
            /\ UNCHANGED <<table, r2d>>
  /\ disturbed' = IF running THEN disturbed ELSE disturbed \union {Head(p2r).m.pid}
  /\ UNCHANGED <<phoneVars, deskVars, late, d2r,
                 used, typed, losses, verdict, guesses, withdrawn>>

\* Errors that answer the desktop are only shown there.
RelayFromDesk ==
  /\ d2r # <<>> /\ d2r' = Tail(d2r)
  /\ LET w == Head(d2r) IN
     IF PhoneListed /\ Allowed(table, w.m)
       THEN /\ table' = Forwarded(table, w.m)
            /\ r2p' = IF online THEN Append(r2p, w) ELSE r2p
       ELSE UNCHANGED <<table, r2p>>
  /\ disturbed' = IF online THEN disturbed ELSE disturbed \union {Head(d2r).m.pid}
  /\ UNCHANGED <<phoneVars, deskVars, late, p2r, r2d,
                 used, typed, losses, verdict, guesses, withdrawn>>

Lose(pids) ==
  /\ losses < MaxLosses /\ losses' = losses + 1
  /\ disturbed' = disturbed \union pids

\* The rate limit for pairing messages.
RelayRefuses ==
  /\ \/ /\ p2r # <<>> /\ p2r' = Tail(p2r) /\ Lose({Head(p2r).m.pid})
        /\ r2p' = Append(r2p, Notice("refused", Head(p2r).m.pid))
        /\ UNCHANGED d2r
     \/ /\ d2r # <<>> /\ d2r' = Tail(d2r) /\ Lose({Head(d2r).m.pid})
        /\ UNCHANGED <<p2r, r2p>>
  /\ UNCHANGED <<phoneVars, deskVars, table, late, r2d,
                 used, typed, verdict, guesses, withdrawn>>

\* Two minutes after the first message, at the relay and at the desktop.
RelayExpires(i) ==
  /\ table[i] # NoPairing /\ Lose({i})
  /\ table' = [table EXCEPT ![i] = NoPairing]
  /\ UNCHANGED <<phoneVars, deskVars, late, p2r, r2p, d2r, r2d,
                 used, typed, verdict, guesses, withdrawn>>

DeskExpires(i) ==
  /\ records[i] # NoRecord /\ Lose({i})
  /\ records' = [records EXCEPT ![i] = NoRecord]
  /\ UNCHANGED <<phoneVars, running, table, late, p2r, r2p, d2r, r2d,
                 used, typed, verdict, guesses, withdrawn>>

(* Connections.  The close event removes every pairing of the device. *)

\* The phone's connection goes; the relay notices now, or when the phone is back.
PhoneLost ==
  /\ online /\ online' = FALSE /\ Lose(Pids)
  /\ p2r' = <<>> /\ r2p' = <<>>
  /\ \/ table' = Without(table, Phone) /\ UNCHANGED late
        /\ r2d' = IF running THEN Append(r2d, Notice("offline", NoPid)) ELSE r2d
     \/ late' = late \union {Phone} /\ UNCHANGED <<table, r2d>>
  /\ UNCHANGED <<dialog, paired, deskVars, d2r, used, typed, verdict, guesses, withdrawn>>

PhoneBack ==
  /\ ~online /\ online' = TRUE
  /\ UNCHANGED <<dialog, paired, deskVars, table, late, p2r, r2p, d2r, r2d, pastVars>>

\* The desktop's run ends: stop_runtime.
DeskLost ==
  /\ running /\ running' = FALSE /\ Lose(Pids)
  /\ records' = [i \in Pids |-> NoRecord]
  /\ d2r' = <<>> /\ r2d' = <<>>
  /\ \/ table' = Without(table, Desk) /\ UNCHANGED late
     \/ late' = late \union {Desk} /\ UNCHANGED table
  /\ UNCHANGED <<phoneVars, p2r, r2p, used, typed, verdict, guesses, withdrawn>>

DeskBack ==
  /\ ~running /\ running' = TRUE
  /\ UNCHANGED <<phoneVars, records, table, late, p2r, r2p, d2r, r2d, pastVars>>

\* The late close event.  It is only announced while the device has no other connection.
LateClose(x) ==
  /\ x \in late /\ late' = late \ {x}
  /\ table' = Without(table, x)
  /\ r2d' = IF x = Phone /\ ~online /\ running
              THEN Append(r2d, Notice("offline", NoPid)) ELSE r2d
  /\ disturbed' = Pids
  /\ UNCHANGED <<phoneVars, deskVars, p2r, r2p, d2r,
                 used, typed, losses, verdict, guesses, withdrawn>>

-----------------------------------------------------------------------------
(* The desktop: handle_server_message, under one lock *)

DeskTakes(kind) ==
  /\ running /\ r2d # <<>> /\ Head(r2d).m.kind = kind
  /\ r2d' = Tail(r2d)
  /\ UNCHANGED <<phoneVars, running, table, late, p2r, r2p,
                 used, typed, losses, withdrawn, disturbed>>

\* accept_mobile_request
AcceptRequest ==
  /\ DeskTakes("request")
  /\ LET i == Head(r2d).m.pid IN
     IF records[i] = NoRecord
       THEN /\ records' = [records EXCEPT ![i] = 0]
            /\ d2r' = Append(d2r, Plain(FromDesk("challenge", i)))
       ELSE UNCHANGED <<records, d2r>>
  /\ UNCHANGED <<verdict, guesses>>

\* complete_proof: the record is gone
ProofUnknown ==
  /\ DeskTakes("proof") /\ records[Head(r2d).m.pid] = NoRecord
  /\ UNCHANGED <<records, d2r, verdict, guesses>>

\* complete_proof: the code is wrong, for the last time or not.
JudgeWrong(i, kept, reply) ==
  /\ records' = [records EXCEPT ![i] = kept]
  /\ guesses' = [guesses EXCEPT ![i] = @ + 1]
  /\ verdict' = IF reply = "rejected" THEN [verdict EXCEPT ![i] = "rejected"] ELSE verdict
  /\ d2r' = Append(d2r, Plain(FromDesk(reply, i)))

ProofWrongUnlimited ==   \* wrong: attempts are not counted
  /\ DeskTakes("proof") /\ ~Head(r2d).right
  /\ LET i == Head(r2d).m.pid IN records[i] # NoRecord /\ JudgeWrong(i, records[i], "error")

ProofWrongSilently ==   \* wrong: a wrong code is not answered
  /\ DeskTakes("proof") /\ ~Head(r2d).right
  /\ LET i == Head(r2d).m.pid IN
     /\ records[i] # NoRecord
     /\ records' = [records EXCEPT ![i] = @ + 1]
     /\ UNCHANGED <<guesses, verdict, d2r>>

ProofWrong ==
  /\ DeskTakes("proof") /\ ~Head(r2d).right
  /\ LET i == Head(r2d).m.pid IN
     /\ records[i] # NoRecord
     /\ IF records[i] + 1 >= MaxFailed
          THEN JudgeWrong(i, NoRecord, "rejected")
          ELSE JudgeWrong(i, records[i] + 1, "error")

ProofRightKept ==   \* wrong: the record stays
  /\ DeskTakes("proof") /\ Head(r2d).right
  /\ LET i == Head(r2d).m.pid IN
     /\ records[i] # NoRecord
     /\ verdict' = [verdict EXCEPT ![i] = "completed"]
     /\ d2r' = Append(d2r, With(FromDesk("completed", i), Head(r2d).x, TRUE))
  /\ UNCHANGED <<records, guesses>>

\* complete_proof: the credentials are sent, the record is gone.
ProofRight ==
  /\ DeskTakes("proof") /\ Head(r2d).right
  /\ LET i == Head(r2d).m.pid IN
     /\ records[i] # NoRecord
     /\ records' = [records EXCEPT ![i] = NoRecord]
     /\ verdict' = [verdict EXCEPT ![i] = "completed"]
     /\ d2r' = Append(d2r, With(FromDesk("completed", i), Head(r2d).x, TRUE))
  /\ UNCHANGED guesses

DeskCancelled ==
  /\ DeskTakes("cancelled")
  /\ records' = [records EXCEPT ![Head(r2d).m.pid] = NoRecord]
  /\ UNCHANGED <<d2r, verdict, guesses>>

\* presence.mobile.offline
DeskOffline ==
  /\ DeskTakes("offline")
  /\ records' = [i \in Pids |-> NoRecord]
  /\ UNCHANGED <<d2r, verdict, guesses>>

(* The page: handlePresenceMessage *)

PageTakes(kind) ==
  /\ r2p # <<>> /\ Head(r2p).m.kind = kind
  /\ r2p' = Tail(r2p)
  /\ UNCHANGED <<deskVars, table, late, d2r, r2d,
                 used, typed, losses, verdict, guesses, withdrawn, disturbed>>

Current == Head(r2p).m.pid = dialog.pid

\* An invitation takes the place of whatever dialog there is.
PageInvited ==
  /\ PageTakes("invite")
  /\ dialog' = [pid |-> Head(r2p).m.pid, stage |-> "ready", key |-> TRUE, x |-> 0]
  /\ UNCHANGED <<online, paired, p2r>>

PageChallenged ==
  /\ PageTakes("challenge")
  /\ dialog' = IF Current THEN [dialog EXCEPT !.stage = "ready", !.key = TRUE] ELSE dialog
  /\ UNCHANGED <<online, paired, p2r>>

\* wrong: whatever dialog is open, or was
PageCompletedUnasked ==
  /\ PageTakes("completed")
  /\ paired' = Head(r2p).m.pid /\ dialog' = NoDialog
  /\ UNCHANGED <<online, p2r>>

\* completeRelayPairing: the page stores the credentials it can read.  (The
\* page is loaded again; its connection is covered by PhoneLost.)
PageCompleted ==
  /\ PageTakes("completed")
  /\ IF Current /\ dialog.x # 0
       THEN IF dialog.x = Head(r2p).x
              THEN paired' = dialog.pid /\ dialog' = NoDialog
              ELSE dialog' = [dialog EXCEPT !.stage = "ready"] /\ UNCHANGED paired
       ELSE UNCHANGED <<dialog, paired>>
  /\ UNCHANGED <<online, p2r>>

\* pairing.error: the code was wrong.
PageError ==
  /\ PageTakes("error")
  /\ dialog' = IF Current THEN [dialog EXCEPT !.stage = "ready", !.x = 0] ELSE dialog
  /\ UNCHANGED <<online, paired, p2r>>

PageRejected ==
  /\ PageTakes("rejected")
  /\ dialog' = IF Current THEN NoDialog ELSE dialog
  /\ UNCHANGED <<online, paired, p2r>>

\* An error of the relay.
PageRefused ==
  /\ PageTakes("refused")
  /\ dialog' = IF Current /\ dialog # NoDialog
                 THEN [dialog EXCEPT !.stage = IF dialog.key THEN "ready" ELSE "waiting"]
                 ELSE dialog
  /\ UNCHANGED <<online, paired, p2r>>

-----------------------------------------------------------------------------
User  == Cancel \/ (\E right \in BOOLEAN : Submit(right))
           \/ \E i \in Pids : Request(i) \/ Invite(i) \/ Reject(i)
Relay == RelayFromPhone \/ RelayFromDesk \/ RelayRefuses
           \/ \E i \in Pids : RelayExpires(i) \/ DeskExpires(i)
Links == PhoneLost \/ PhoneBack \/ DeskLost \/ DeskBack \/ \E x \in {Phone, Desk} : LateClose(x)
Desktop == AcceptRequest \/ ProofUnknown \/ ProofWrong \/ ProofRight \/ DeskCancelled \/ DeskOffline
Page  == PageInvited \/ PageChallenged \/ PageCompleted \/ PageError \/ PageRejected \/ PageRefused

Next == User \/ Relay \/ Links \/ Desktop \/ Page

Spec == Init /\ [][Next]_vars

-----------------------------------------------------------------------------
Sent(senders, kinds, pids) ==
  [m : [kind : kinds, pid : pids, phone : {Phone}, desk : {Desk}, by : {senders}],
   x : 0..MaxExchanges, right : BOOLEAN]

\* The mail of each hop comes from its sender, or is a notice of the relay.
TypeOK ==
  /\ dialog \in [pid : Pids \union {NoPid}, stage : {"closed", "waiting", "ready", "verifying"},
                 key : BOOLEAN, x : 0..MaxExchanges]
  /\ dialog.pid = NoPid => dialog = NoDialog
  /\ online \in BOOLEAN /\ running \in BOOLEAN
  /\ paired \in Pids \union {NoPid}
  /\ records \in [Pids -> 0..MaxFailed]
  /\ table \in [Pids -> Pairings({Phone}, {Desk}) \union {NoPairing}]
  /\ late \subseteq {Phone, Desk}
  /\ p2r \in Seq(Sent("phone", PhoneKinds, Pids))
  /\ d2r \in Seq(Sent("desk", DeskKinds, Pids))
  /\ r2p \in Seq(Sent("desk", DeskKinds, Pids) \union Sent("relay", {"refused"}, Pids))
  /\ r2d \in Seq(Sent("phone", PhoneKinds, Pids) \union Sent("relay", {"offline"}, {NoPid}))
  /\ used \subseteq Pids /\ withdrawn \subseteq Pids /\ disturbed \subseteq Pids
  /\ typed \in 0..MaxExchanges /\ losses \in 0..MaxLosses
  /\ verdict \in [Pids -> {"open", "rejected", "completed"}]
  /\ guesses \in [Pids -> Nat]

\* The phone only has credentials of a pairing that the desktop has completed, has
\* not rejected, and that the user has not called off on the phone.
PairedByConsent ==
  paired # NoPid => verdict[paired] = "completed" /\ paired \notin withdrawn

\* A code survives no more than MAX_FAILED_PROOFS wrong guesses, whatever is lost,
\* refused or repeated on the way.
GuessesBounded == \A i \in Pids : guesses[i] <= MaxFailed

\* What the desktop has decided about a pairing stands.
VerdictFinal == [][\A i \in Pids : verdict[i] # "open" => verdict'[i] = verdict[i]]_vars

Pending(q, kinds, i) == \E n \in 1..Len(q) : q[n].m.pid = i /\ q[n].m.kind \in kinds

\* While the phone waits for a verdict and nothing was lost, refused or expired, its
\* proof is under way to the desktop or an answer is under way to the phone.
AnswerUnderWay ==
  LET i == dialog.pid IN
  (dialog.stage = "verifying" /\ i \notin disturbed) =>
    \/ Pending(p2r, {"proof"}, i) \/ Pending(r2d, {"proof"}, i)
    \/ Pending(d2r, {"completed", "rejected", "error"}, i)
    \/ Pending(r2p, {"completed", "rejected", "error", "refused"}, i)
=============================================================================
