-------------------------- MODULE LanPairingProofs --------------------------
(***************************************************************************)
(* What pairing over the local network keeps for any number of phones,     *)
(* requests, invitations and restarts, and whatever the clocks show.       *)
(***************************************************************************)
EXTENDS LanPairing, SequenceTheorems, TLAPS

\* No code that can still be redeemed, and no request that can still be
\* approved, belongs to an invitation with an approval.
Spent ==
  /\ invitation = NoInvitation \/ invitation.id \in 1..invitations
  /\ \A i \in 1..Len(log) : log[i].invitation <= invitations
  /\ invitation # NoInvitation => \A j \in approved : log[j].invitation # invitation.id
  /\ \A i \in DOMAIN requests : requests[i].status = "pending" /\ ~Direct(i) =>
       \A j \in approved : log[j].invitation # log[i].invitation
  /\ OneApprovalPerInvitation

\* Answers on their way, keys and submissions are those of the phone's own
\* requests.
OwnPhones ==
  /\ \A p \in Phones, i \in Ids :
       poll[p][i].answer = "approved" => poll[p][i].id \in approved
  /\ \A p \in Phones : page[p].key # 0 =>
       page[p].key \in 1..Len(log) /\ log[page[p].key].phone = p
  /\ \A p \in Phones : post[p].at = "accepted" =>
       post[p].id \in 1..Len(log) /\ log[post[p].id].phone = p

OwnRequests ==
  /\ \A i \in DOMAIN requests : requests[i].status = "approved" => i \in approved
  /\ OwnPhones

LanInv == TypeOK /\ Spent /\ OwnRequests /\ CredentialsCurrent /\ PairedByConsent

-----------------------------------------------------------------------------
LEMMA LogEntries == LanInv => \A i \in 1..Len(log) : log[i] \in Entry
  BY ElementOfSeq DEF LanInv, TypeOK

\* purge_expired only takes away.
LEMMA Purged ==
  ASSUME TypeOK
  PROVE  /\ LiveInvitation \in {invitation, NoInvitation}
         /\ LiveInvitation \in Invitation
         /\ DOMAIN LiveRequests \subseteq DOMAIN requests
         /\ LiveRequests \in [DOMAIN LiveRequests -> Request]
         /\ \A i \in DOMAIN LiveRequests : LiveRequests[i] = requests[i]
<1>1. LiveInvitation \in {invitation, NoInvitation} /\ LiveInvitation \in Invitation
  BY DEF LiveInvitation, TypeOK, NoInvitation, Invitation
<1> DEFINE D == {i \in DOMAIN requests : requests[i].expires > now}
<1>2. LiveRequests = [i \in D |-> requests[i]]
  BY DEF LiveRequests, Restrict
<1> QED
  BY <1>1, <1>2 DEF TypeOK

\* What a settled set of requests leaves behind.
LEMMA RejectedOnly ==
  ASSUME NEW reqs, NEW ids, reqs \in [DOMAIN reqs -> Request]
  PROVE  /\ DOMAIN Rejected(reqs, ids) = DOMAIN reqs
         /\ Rejected(reqs, ids) \in [DOMAIN reqs -> Request]
         /\ \A i \in DOMAIN reqs :
              /\ Rejected(reqs, ids)[i].payload = reqs[i].payload
              /\ Rejected(reqs, ids)[i].status = "pending" => reqs[i].status = "pending" /\ i \notin ids
              /\ Rejected(reqs, ids)[i].status = "approved" => reqs[i].status = "approved"
  BY DEF Rejected, Request

\* The steps that leave requests where they are or take them away, and make
\* no entry in the log.
Purge ==
  /\ invitation' \in Invitation
  /\ invitation' = NoInvitation \/ (invitation # NoInvitation /\ invitation'.id = invitation.id)
  /\ DOMAIN requests' \subseteq DOMAIN requests
  /\ requests' \in [DOMAIN requests' -> Request]
  /\ \A i \in DOMAIN requests' :
       /\ requests'[i].payload = requests[i].payload
       /\ requests'[i].status = "pending" => requests[i].status = "pending"
       /\ requests'[i].status = "approved" => requests[i].status = "approved"
  /\ UNCHANGED <<credentials, runs, invitations, log, approved>>

\* A step that only purges keeps everything about the table.
LEMMA PurgeKeeps ==
  ASSUME LanInv, Purge
  PROVE  /\ invitation' \in Invitation
         /\ DOMAIN requests' \subseteq 1..Len(log)
         /\ Spent' /\ CredentialsCurrent'
         /\ \A i \in DOMAIN requests' : requests'[i].status = "approved" => i \in approved
<1>1. invitation' \in Invitation /\ DOMAIN requests' \subseteq 1..Len(log)
  BY DEF LanInv, TypeOK, Purge
<1>2. Spent'
  BY DEF LanInv, Spent, Purge, Direct, OneApprovalPerInvitation
<1>3. CredentialsCurrent'
  BY DEF LanInv, CredentialsCurrent, Purge
<1>4. \A i \in DOMAIN requests' : requests'[i].status = "approved" => i \in approved
  BY DEF LanInv, OwnRequests, OwnPhones, Purge
<1> QED
  BY <1>1, <1>2, <1>3, <1>4

\* The steps of a page leave the desktop and the history alone.
LEMMA UntouchedTable ==
  ASSUME LanInv, UNCHANGED <<desktopVars, log, approved>>
  PROVE  Purge
  BY DEF LanInv, TypeOK, Purge, desktopVars, table

\* purge_expired alone.
LEMMA LivePurges ==
  ASSUME LanInv, requests' = LiveRequests, invitation' = LiveInvitation,
         UNCHANGED <<credentials, runs, invitations, log, approved>>
  PROVE  Purge
  BY Purged DEF LanInv, Purge

-----------------------------------------------------------------------------
LEMMA InitLan == Init => LanInv
<1> SUFFICES ASSUME Init PROVE LanInv
  OBVIOUS
<1>1. TypeOK
  <2>1. DOMAIN requests = {} /\ log \in Seq(Entry) /\ requests \in [{} -> Request]
    BY DEF Init
  <2>2. invitation \in Invitation
    BY DEF Init, NoInvitation, Invitation
  <2>3. post \in [Phones -> Post] /\ page \in [Phones -> Page] /\ poll \in [Phones -> [Ids -> Poll]]
    BY DEF Init, NewPage, PageAt, Page, NoPost, PostAt, Post, NoPoll, PollAt, Poll
  <2> QED
    BY <2>1, <2>2, <2>3 DEF Init, TypeOK
<1>2. Spent /\ CredentialsCurrent
  BY DEF Init, Spent, OneApprovalPerInvitation, CredentialsCurrent, NoInvitation
<1>3. OwnRequests /\ PairedByConsent
  BY DEF Init, OwnRequests, OwnPhones, PairedByConsent, NewPage, PageAt, NoPost, PostAt, NoPoll, PollAt
<1> QED
  BY <1>1, <1>2, <1>3 DEF LanInv

-----------------------------------------------------------------------------
(* The desktop's own steps: nothing happens to the pages. *)

LEMMA ManagerKeeps == LanInv /\ Manager => LanInv'
<1> SUFFICES ASSUME LanInv, Manager PROVE LanInv'
  OBVIOUS
<1>1. /\ invitation' = NoInvitation /\ requests' = <<>>
      /\ credentials' \in Nat /\ runs' \in Nat
      /\ UNCHANGED <<now, invitations, phoneVars, history>>
  BY DEF LanInv, TypeOK, Manager, StartRuntime, StopRuntime, RuntimeError, TableCleared
<1>2. TypeOK'
  BY <1>1 DEF LanInv, TypeOK, phoneVars, history, NoInvitation, Invitation
<1>3. Spent' /\ CredentialsCurrent'
  BY <1>1 DEF LanInv, Spent, CredentialsCurrent, OneApprovalPerInvitation, history, Direct
<1>4. OwnRequests' /\ PairedByConsent'
  BY <1>1 DEF LanInv, OwnRequests, OwnPhones, PairedByConsent, phoneVars, history
<1> QED
  BY <1>2, <1>3, <1>4 DEF LanInv

LEMMA PurgingKeeps ==
  LanInv /\ Purge /\ now' \in Int /\ UNCHANGED phoneVars => LanInv'
<1> SUFFICES ASSUME LanInv, Purge, now' \in Int, UNCHANGED phoneVars PROVE LanInv'
  OBVIOUS
<1>1. TypeOK'
  BY PurgeKeeps DEF LanInv, TypeOK, Purge, phoneVars
<1>2. OwnRequests' /\ PairedByConsent'
  BY PurgeKeeps DEF LanInv, OwnRequests, OwnPhones, PairedByConsent, Purge, phoneVars
<1> QED
  BY <1>1, <1>2, PurgeKeeps DEF LanInv

LEMMA CreateKeeps == LanInv /\ CreateInvitation => LanInv'
<1> SUFFICES ASSUME LanInv, CreateInvitation PROVE LanInv'
  OBVIOUS
<1> USE DEF CreateInvitation
<1> DEFINE D == {i \in DOMAIN LiveRequests : Direct(i)}
<1>1. requests' = [i \in D |-> LiveRequests[i]]
  BY DEF KeptByNewInvitation, Restrict
<1>2. /\ DOMAIN requests' \subseteq DOMAIN requests
      /\ requests' \in [DOMAIN requests' -> Request]
      /\ \A i \in DOMAIN requests' : requests'[i] = requests[i] /\ Direct(i)
  BY <1>1, Purged DEF LanInv
<1>3. /\ PairingTtl \in Nat
      /\ invitation' = [id |-> invitations + 1, expires |-> now + PairingTtl, failed |-> 0]
  BY LanAssumption
<1>4. TypeOK'
  BY <1>2, <1>3 DEF LanInv, TypeOK, Invitation, phoneVars, history
<1>5. Spent'
  <2>1. invitation'.id = invitations + 1 /\ invitations' = invitations + 1
    BY <1>3
  <2>6. invitation'.id \in 1..invitations'
    BY <2>1 DEF LanInv, TypeOK
  <2>2. \A i \in 1..Len(log) : log[i].invitation \in Nat /\ log[i].invitation <= invitations
    BY LogEntries DEF LanInv, Spent, Entry
  <2>3. \A j \in approved : log[j].invitation # invitations + 1
    BY <2>2 DEF LanInv, TypeOK
  <2>4. \A i \in 1..Len(log) : log[i].invitation <= invitations + 1
    BY <2>2 DEF LanInv, TypeOK
  <2>7. OneApprovalPerInvitation'
    BY DEF LanInv, Spent, OneApprovalPerInvitation, history, Direct
  <2>9. log' = log /\ approved' = approved
    BY DEF history
  <2>10. \A i \in DOMAIN requests' : log'[i].invitation = 0
    BY <1>2, <2>9 DEF Direct
  <2>11. \A i \in 1..Len(log') : log'[i].invitation <= invitations'
    BY <2>1, <2>4, <2>9
  <2>12. \A j \in approved' : log'[j].invitation # invitation'.id
    BY <2>1, <2>3, <2>9
  <2> HIDE DEF CreateInvitation
  <2> QED
    BY <2>6, <2>7, <2>10, <2>11, <2>12 DEF Spent, Direct
<1>6. CredentialsCurrent'
  BY <1>2 DEF LanInv, CredentialsCurrent
<1>7. OwnRequests' /\ PairedByConsent'
  BY <1>2 DEF LanInv, OwnRequests, OwnPhones, PairedByConsent, phoneVars, history
<1> QED
  BY <1>4, <1>5, <1>6, <1>7 DEF LanInv

LEMMA CancelInvitationKeeps == LanInv /\ CancelInvitation => LanInv'
<1> SUFFICES ASSUME LanInv, CancelInvitation PROVE LanInv'
  OBVIOUS
<1> DEFINE ids == {i \in DOMAIN requests : ~Direct(i)}
<1>1. requests' = Rejected(requests, ids) /\ requests \in [DOMAIN requests -> Request]
  BY DEF CancelInvitation, LanInv, TypeOK
<1>2. Purge
  <2> HIDE DEF ids
  <2> QED
    BY <1>1, RejectedOnly DEF CancelInvitation, Purge, history, NoInvitation, Invitation
<1> QED
  BY <1>2, PurgingKeeps DEF CancelInvitation, LanInv, TypeOK

LEMMA RejectKeeps ==
  ASSUME NEW i, LanInv, Reject(i)
  PROVE  LanInv'
<1>1. Purge
  BY Purged DEF Reject, Purge, LanInv, Request, history
<1> QED
  BY <1>1, PurgingKeeps DEF Reject, LanInv, TypeOK

LEMMA ApproveKeeps ==
  ASSUME NEW i, LanInv, Approve(i)
  PROVE  LanInv'
<1> DEFINE rest == Rejected(LiveRequests, OthersRejected(i))
<1>1. /\ i \in DOMAIN LiveRequests /\ i \in DOMAIN requests /\ i \in 1..Len(log)
      /\ LiveRequests[i] = requests[i] /\ requests[i].status = "pending"
  BY Purged DEF Approve, MayApprove, LanInv, TypeOK
<1>2. /\ DOMAIN rest = DOMAIN LiveRequests
      /\ rest \in [DOMAIN LiveRequests -> Request]
      /\ \A j \in DOMAIN LiveRequests :
           /\ rest[j].payload = LiveRequests[j].payload
           /\ rest[j].status = "pending" => LiveRequests[j].status = "pending" /\ j \notin OthersRejected(i)
           /\ rest[j].status = "approved" => LiveRequests[j].status = "approved"
  BY Purged, RejectedOnly DEF LanInv
<1>3. requests' = [rest EXCEPT ![i].status = "approved", ![i].payload = credentials]
  BY DEF Approve
<1> HIDE DEF rest
<1>4. /\ DOMAIN requests' = DOMAIN LiveRequests
      /\ requests' \in [DOMAIN requests' -> Request]
      /\ requests'[i].status = "approved" /\ requests'[i].payload = credentials
      /\ \A j \in DOMAIN requests' \ {i} : requests'[j] = rest[j]
  <2> DEFINE r == [[rest[i] EXCEPT !.status = "approved"] EXCEPT !.payload = credentials]
  <2>1. requests' = [rest EXCEPT ![i] = r]
    BY <1>1, <1>2, <1>3
  <2>2. rest[i] \in Request /\ credentials \in Nat
    BY <1>1, <1>2 DEF LanInv, TypeOK
  <2>3. r \in Request /\ r.status = "approved" /\ r.payload = credentials
    BY <2>2 DEF Request
  <2> HIDE DEF r
  <2> QED
    BY <1>1, <1>2, <2>1, <2>3
<1>5. \A j \in DOMAIN requests' \ {i} :
        /\ j \in DOMAIN requests
        /\ requests'[j].payload = requests[j].payload
        /\ requests'[j].status = "pending" => requests[j].status = "pending" /\ (Direct(i) \/ Direct(j))
        /\ requests'[j].status = "approved" => requests[j].status = "approved"
  BY <1>2, <1>4, Purged DEF LanInv, OthersRejected
<1>6. invitation' = IF Direct(i) THEN LiveInvitation ELSE NoInvitation
  BY DEF Approve
<1>7. /\ approved' = approved \union {i}
      /\ UNCHANGED <<now, credentials, runs, invitations, phoneVars, log>>
  BY DEF Approve
<1>8. TypeOK'
  BY <1>1, <1>4, <1>6, <1>7, Purged DEF LanInv, TypeOK, phoneVars, NoInvitation, Invitation
<1>9. Spent'
  <2>1. ~Direct(i) => \A j \in approved : log[j].invitation # log[i].invitation
    BY <1>1 DEF LanInv, Spent
  <2>2. OneApprovalPerInvitation'
    BY <2>1, <1>7 DEF LanInv, Spent, OneApprovalPerInvitation, Direct
  <2>3. invitation' = NoInvitation \/ (invitation' = invitation /\ invitation # NoInvitation /\ Direct(i))
    BY <1>6, Purged DEF LanInv
  <2>4. invitation' # NoInvitation => \A j \in approved' : log[j].invitation # invitation'.id
    BY <2>3, <1>7 DEF LanInv, Spent, Direct
  <2>5. \A j \in DOMAIN requests' : requests'[j].status = "pending" /\ ~Direct(j) =>
          \A k \in approved' : log[k].invitation # log[j].invitation
    BY <1>4, <1>5, <1>7 DEF LanInv, Spent, Direct
  <2> QED
    BY <2>2, <2>3, <2>4, <2>5, <1>7 DEF LanInv, Spent, Direct
<1>10. CredentialsCurrent'
  BY <1>4, <1>5, <1>7 DEF LanInv, CredentialsCurrent
<1>11. OwnRequests' /\ PairedByConsent'
  BY <1>4, <1>5, <1>7 DEF LanInv, OwnRequests, OwnPhones, PairedByConsent, phoneVars
<1> QED
  BY <1>8, <1>9, <1>10, <1>11 DEF LanInv

-----------------------------------------------------------------------------
(* Submissions *)

LEMMA AcceptKeeps ==
  ASSUME NEW p \in Phones, LanInv, AcceptRequest(p)
  PROVE  LanInv'
<1> DEFINE i == Len(log) + 1
           r == [status |-> "pending", expires |-> now + PairingTtl, payload |-> 0]
           e == [phone |-> p, expires |-> now + PairingTtl,
                 invitation |-> IF post[p].direct THEN 0 ELSE post[p].code]
<1>1. /\ requests' = [j \in DOMAIN LiveRequests \union {i} |-> IF j = i THEN r ELSE LiveRequests[j]]
      /\ post' = [post EXCEPT ![p] = PostAt("accepted", i)]
      /\ log' = Append(log, e)
      /\ invitation' = LiveInvitation
      /\ UNCHANGED <<now, credentials, runs, invitations, page, poll, approved>>
      /\ post[p].direct \/ Redeems(post[p].code)
  BY DEF AcceptRequest
<1>2. Len(log) \in Nat /\ log \in Seq(Entry) /\ post[p] \in Post /\ PairingTtl \in Nat /\ now \in Int
  BY LanAssumption, LenProperties DEF LanInv, TypeOK
<1>3. e \in Entry /\ r \in Request
  BY <1>2 DEF Entry, Post, Request
<1> HIDE DEF r
<1>4. /\ log' \in Seq(Entry) /\ Len(log') = i /\ log'[i] = e
      /\ \A j \in 1..Len(log) : log'[j] = log[j]
  <2> HIDE DEF e
  <2> QED
    BY <1>1, <1>2, <1>3, AppendProperties
<1>5. /\ DOMAIN requests' = DOMAIN LiveRequests \union {i}
      /\ requests' \in [DOMAIN requests' -> Request]
      /\ requests'[i] = r
      /\ \A j \in DOMAIN requests' \ {i} : j \in DOMAIN requests /\ requests'[j] = requests[j]
  BY <1>1, <1>3, Purged DEF LanInv
<1>6. DOMAIN requests \subseteq 1..Len(log) /\ approved \subseteq 1..Len(log) /\ 1..Len(log) \subseteq 1..i
  BY <1>2 DEF LanInv, TypeOK
<1>7. r.status = "pending" /\ r.payload = 0
  BY DEF r
<1>8. TypeOK'
  <2>1. post' \in [Phones -> Post]
    <3>1. PostAt("accepted", i) \in Post
      BY <1>2 DEF PostAt, Post
    <3> QED
      BY <1>1, <3>1 DEF LanInv, TypeOK
  <2>2. DOMAIN requests' \subseteq 1..Len(log') /\ approved' \subseteq 1..Len(log')
    BY <1>1, <1>2, <1>4, <1>5, <1>6, Purged DEF LanInv
  <2>3. invitation' \in Invitation
    BY <1>1, Purged DEF LanInv
  <2> QED
    BY <1>1, <1>4, <1>5, <2>1, <2>2, <2>3 DEF LanInv, TypeOK
<1> USE DEF LanInv
<1>9. Spent'
  <2>1. invitation' \in {invitation, NoInvitation}
    BY <1>1, Purged
  <2>2. e.invitation = 0 \/ (invitation # NoInvitation /\ e.invitation = invitation.id)
    BY <1>1, Purged DEF Redeems
  <2>3. e.invitation \in 0..invitations
    BY <1>2, <1>3, <2>2 DEF Spent, TypeOK
  <2>4. e.invitation # 0 => \A j \in approved : log[j].invitation # e.invitation
    BY <2>2 DEF Spent
  <2> HIDE DEF e
  <2>5. \A j \in approved' : j \in approved /\ j \in 1..Len(log) /\ log'[j] = log[j]
    BY <1>1, <1>4, <1>6
  <2>6. \A j \in 1..Len(log') : log'[j].invitation <= invitations'
    <3> SUFFICES ASSUME NEW j \in 1..Len(log') PROVE log'[j].invitation <= invitations'
      OBVIOUS
    <3>1. CASE j = i
      BY <1>1, <1>4, <2>3, <3>1 DEF TypeOK
    <3>2. CASE j \in 1..Len(log)
      BY <1>1, <1>4, <3>2 DEF Spent
    <3> QED
      BY <1>2, <1>4, <3>1, <3>2
  <2>7. \A j \in DOMAIN requests' : requests'[j].status = "pending" /\ log'[j].invitation # 0 =>
          \A k \in approved' : log'[k].invitation # log'[j].invitation
    <3> SUFFICES ASSUME NEW j \in DOMAIN requests', NEW k \in approved',
                        requests'[j].status = "pending", log'[j].invitation # 0
                 PROVE  log'[k].invitation # log'[j].invitation
      OBVIOUS
    <3>1. CASE j = i
      BY <1>4, <2>4, <2>5, <3>1
    <3>2. CASE j # i
      BY <1>4, <1>5, <1>6, <2>5, <3>2 DEF Spent, Direct
    <3> QED
      BY <3>1, <3>2
  <2>8. OneApprovalPerInvitation'
    BY <1>1, <2>5 DEF Spent, OneApprovalPerInvitation, Direct
  <2>9. invitation' = NoInvitation \/ invitation'.id \in 1..invitations'
    BY <1>1, <2>1 DEF Spent
  <2>10. invitation' # NoInvitation => \A j \in approved' : log'[j].invitation # invitation'.id
    BY <2>1, <2>5 DEF Spent
  <2> QED
    BY <2>6, <2>7, <2>8, <2>9, <2>10 DEF Spent, Direct
<1>10. CredentialsCurrent'
  BY <1>1, <1>5, <1>7 DEF CredentialsCurrent
<1>11. OwnRequests'
  <2>1. \A j \in DOMAIN requests' : requests'[j].status = "approved" => j \in approved'
    BY <1>1, <1>5, <1>7 DEF OwnRequests
  <2>2. \A q \in Phones : page'[q].key # 0 =>
          page'[q].key \in 1..Len(log') /\ log'[page'[q].key].phone = q
    BY <1>1, <1>2, <1>4, <1>6 DEF OwnRequests, OwnPhones
  <2>3. \A q \in Phones : post'[q].at = "accepted" =>
          post'[q].id \in 1..Len(log') /\ log'[post'[q].id].phone = q
    <3> SUFFICES ASSUME NEW q \in Phones, post'[q].at = "accepted"
                 PROVE  post'[q].id \in 1..Len(log') /\ log'[post'[q].id].phone = q
      OBVIOUS
    <3>1. CASE q = p
      BY <1>1, <1>2, <1>4, <3>1 DEF TypeOK, PostAt
    <3>2. CASE q # p
      BY <1>1, <1>2, <1>4, <1>6, <3>2 DEF TypeOK, OwnRequests, OwnPhones
    <3> QED
      BY <3>1, <3>2
  <2> QED
    BY <1>1, <2>1, <2>2, <2>3 DEF OwnRequests, OwnPhones
<1>12. PairedByConsent'
  <2>1. \A j \in approved : log'[j] = log[j]
    BY <1>4, <1>6
  <2>2. page' = page /\ approved' = approved
    BY <1>1
  <2> QED
    BY <2>1, <2>2 DEF PairedByConsent
<1> QED
  BY <1>8, <1>9, <1>10, <1>11, <1>12

-----------------------------------------------------------------------------
(* The pages *)

LEMMA PhoneStep ==
  ASSUME LanInv, Purge, now' = now,
         post' \in [Phones -> Post], page' \in [Phones -> Page],
         poll' \in [Phones -> [Ids -> Poll]],
         OwnPhones', PairedByConsent'
  PROVE  LanInv'
<1>1. TypeOK'
  BY PurgeKeeps DEF LanInv, TypeOK, Purge
<1>2. approved' = approved
  BY DEF Purge
<1>3. \A i \in DOMAIN requests' : requests'[i].status = "approved" => i \in approved
  BY PurgeKeeps
<1>4. OwnRequests'
  BY <1>2, <1>3 DEF OwnRequests
<1> QED
  BY <1>1, <1>4, PurgeKeeps DEF LanInv

\* A submission or a poll that touches no key and no view.
LEMMA SubmissionKeeps ==
  ASSUME NEW p \in Phones, LanInv, TurnAway(p) \/ RefuseCode(p)
  PROVE  LanInv'
<1>1. /\ Refused(p) /\ requests' = LiveRequests
      /\ UNCHANGED <<now, credentials, runs, invitations, page, poll, log, approved>>
  BY DEF TurnAway, RefuseCode, history
<1>2. invitation' = LiveInvitation \/ CountFailure
  BY DEF TurnAway, RefuseCode
<1>3. Purge
  <2>1. CASE invitation' = LiveInvitation
    BY <1>1, <2>1, LivePurges
  <2>2. CASE CountFailure
    <3>1. /\ invitation' \in Invitation
          /\ invitation' = NoInvitation \/ (invitation # NoInvitation /\ invitation'.id = invitation.id)
      BY <2>2, Purged DEF CountFailure, LanInv, Invitation, NoInvitation
    <3> QED
      BY <1>1, <3>1, Purged DEF Purge, LanInv
  <2> QED
    BY <1>2, <2>1, <2>2
<1>4. OwnPhones' /\ PairedByConsent' /\ post' \in [Phones -> Post]
  BY <1>1 DEF LanInv, TypeOK, OwnRequests, OwnPhones, PairedByConsent, Refused, PostAt, Post
<1> QED
  BY <1>1, <1>3, <1>4, PhoneStep DEF LanInv, TypeOK

\* The clock of this model is an integer; time alone changes nothing else.
LEMMA TickKeeps == LanInv /\ Tick => LanInv'
<1> SUFFICES ASSUME LanInv, Tick PROVE LanInv'
  OBVIOUS
<1>1. UNCHANGED <<desktopVars, phoneVars, log, approved>> /\ now' \in Int
  BY DEF Tick, LanInv, TypeOK, history
<1> QED
  BY <1>1, UntouchedTable, PurgingKeeps

\* Stopping a timer leaves no answer behind.
LEMMA TimerStops ==
  ASSUME LanInv, NEW p \in Phones
  PROVE  /\ TimerStopped(p) \in [Ids -> Poll]
         /\ \A i \in Ids : TimerStopped(p)[i] \in {poll[p][i], NoPoll}
<1>1. poll[p] \in [Ids -> Poll] /\ NoPoll \in Poll
  BY DEF LanInv, TypeOK, NoPoll, PollAt, Poll
<1> QED
  BY <1>1 DEF TimerStopped

LEMMA BeginKeeps ==
  ASSUME NEW p \in Phones, LanInv, BeginPairing(p)
  PROVE  LanInv'
<1>1. Purge /\ UNCHANGED <<now, poll, log, approved>>
  BY UntouchedTable DEF BeginPairing, history
<1> DEFINE pg == [page[p] EXCEPT !.cancelled = FALSE, !.disabled = TRUE]
<1>7. page' = [page EXCEPT ![p] = pg] /\ page \in [Phones -> Page]
  BY DEF BeginPairing, LanInv, TypeOK
<1>9. page[p] \in Page
  BY <1>7
<1>8. pg \in Page /\ pg.key = page[p].key /\ pg.view = page[p].view
  BY <1>9 DEF Page
<1> HIDE DEF pg
<1>2. page' \in [Phones -> Page]
  BY <1>7, <1>8
<1>3. PICK code \in 0..invitations, direct \in BOOLEAN :
        post' = [post EXCEPT ![p] = [at |-> "sent", code |-> code, direct |-> direct, id |-> 0]]
  BY DEF BeginPairing
<1>4. post' \in [Phones -> Post]
  BY <1>3 DEF LanInv, TypeOK, Post
<1>5. \A q \in Phones : page'[q].key = page[q].key /\ page'[q].view = page[q].view
  BY <1>7, <1>8
<1>6. OwnPhones' /\ PairedByConsent'
  BY <1>1, <1>3, <1>5 DEF LanInv, TypeOK, OwnRequests, OwnPhones, PairedByConsent
<1> QED
  BY <1>1, <1>2, <1>4, <1>6, PhoneStep DEF LanInv, TypeOK

\* Keys change only to requests of the phone, and no answer or acceptance is
\* made up.
PhonesHonest ==
  /\ log' = log /\ approved' = approved
  /\ \A q \in Phones, j \in Ids :
       poll'[q][j].answer = "approved" => poll'[q][j] = poll[q][j] \/ poll'[q][j].id \in approved
  /\ \A q \in Phones : page'[q].key = page[q].key
       \/ (page'[q].key \in 1..Len(log) /\ log[page'[q].key].phone = q)
  /\ \A q \in Phones : post'[q].at = "accepted" => post'[q] = post[q]

\* What the pages know of requests then stays right.
LEMMA PhonesKeep == LanInv /\ PhonesHonest => OwnPhones'
  BY DEF LanInv, OwnRequests, OwnPhones, PhonesHonest

LEMMA AnswerKeeps ==
  ASSUME NEW p \in Phones, LanInv, Answer(p)
  PROVE  LanInv'
<1>1. Purge /\ now' = now /\ log' = log /\ approved' = approved
  BY UntouchedTable DEF Answer, PostLost, PostRefused, PostAccepted, history
<1> DEFINE Kept == /\ post' \in [Phones -> Post] /\ page' \in [Phones -> Page]
                   /\ poll' \in [Phones -> [Ids -> Poll]]
                   /\ OwnPhones' /\ PairedByConsent'
<1> USE DEF LanInv, TypeOK
<1>2. CASE PostLost(p)
  <2>1. Kept
    BY <1>1, <1>2 DEF PostLost, Refused, PostAt, Post, OwnRequests, OwnPhones, PairedByConsent
  <2> QED
    BY <1>1, <2>1, PhoneStep
<1>3. CASE PostRefused(p)
  <2> DEFINE pg == [page[p] EXCEPT !.view = "result", !.disabled = FALSE, !.timer = 0]
  <2>1. /\ post' = [post EXCEPT ![p] = NoPost]
        /\ page' = [page EXCEPT ![p] = pg]
        /\ poll' = [poll EXCEPT ![p] = TimerStopped(p)]
    BY <1>3 DEF PostRefused
  <2>10. page[p] \in Page
    OBVIOUS
  <2>8. pg \in Page /\ pg.key = page[p].key /\ pg.view = "result"
    BY <2>10 DEF Page
  <2> HIDE DEF pg
  <2>9. NoPost \in Post
    BY DEF NoPost, PostAt, Post
  <2>2. post' \in [Phones -> Post] /\ page' \in [Phones -> Page] /\ poll' \in [Phones -> [Ids -> Poll]]
    BY <2>1, <2>8, <2>9, TimerStops
  <2>3. \A q \in Phones, i \in Ids : poll'[q][i] = poll[q][i] \/ poll'[q][i].answer # "approved"
    BY <2>1, TimerStops DEF NoPoll, PollAt
  <2>4. \A q \in Phones : page'[q].key = page[q].key /\ page'[q].view \in {page[q].view, "result"}
    BY <2>1, <2>8
  <2>5. \A q \in Phones : post'[q] = post[q] \/ post'[q].at # "accepted"
    BY <2>1 DEF NoPost, PostAt
  <2>6. OwnPhones'
    <3>1. PhonesHonest
      BY <1>1, <2>3, <2>4, <2>5 DEF PhonesHonest
    <3> QED
      BY <3>1, PhonesKeep
  <2>7. PairedByConsent'
    BY <1>1, <2>4 DEF PairedByConsent
  <2> QED
    BY <1>1, <2>2, <2>6, <2>7, PhoneStep
<1>4. CASE PostAccepted(p)
  <2> DEFINE i == post[p].id
             pg == [page[p] EXCEPT !.view = "waiting", !.requestId = i, !.key = i]
  <2>1. /\ post[p].at = "accepted"
        /\ page' = [page EXCEPT ![p] = pg]
        /\ poll' = [poll EXCEPT ![p][i] = PollAt("asked", i, TRUE)]
        /\ post' = [post EXCEPT ![p] = NoPost]
    BY <1>4 DEF PostAccepted
  <2>2. i \in Nat /\ i \in 1..Len(log) /\ log[i].phone = p
    BY <2>1 DEF OwnRequests, OwnPhones, Post
  <2>3. PollAt("asked", i, TRUE) \in Poll /\ NoPost \in Post
    BY <2>2 DEF PollAt, Poll, NoPost, PostAt, Post
  <2>11. page[p] \in Page
    OBVIOUS
  <2>10. pg \in Page /\ pg.key = i /\ pg.view = "waiting"
    BY <2>2, <2>11 DEF Page
  <2> HIDE DEF i, pg
  <2>4. post' \in [Phones -> Post] /\ poll' \in [Phones -> [Ids -> Poll]]
    BY <2>1, <2>3
  <2>5. page' \in [Phones -> Page]
    BY <2>1, <2>10
  <2>6. \A q \in Phones, j \in Ids : poll'[q][j] \in {poll[q][j], PollAt("asked", i, TRUE)}
    BY <2>1
  <2>7. /\ page'[p].key = i /\ page'[p].view = "waiting"
        /\ \A q \in Phones \ {p} : page'[q] = page[q]
        /\ \A q \in Phones : post'[q] = post[q] \/ post'[q].at # "accepted"
    BY <2>1, <2>10 DEF NoPost, PostAt
  <2>8. OwnPhones'
    <3>1. \A q \in Phones, j \in Ids : poll'[q][j] = poll[q][j] \/ poll'[q][j].answer # "approved"
      BY <2>6 DEF PollAt
    <3>2. \A q \in Phones : page'[q].key = page[q].key \/
            (page'[q].key \in 1..Len(log) /\ log[page'[q].key].phone = q)
      BY <2>2, <2>7
    <3>3. PhonesHonest
      BY <1>1, <2>7, <3>1, <3>2 DEF PhonesHonest
    <3> QED
      BY <3>3, PhonesKeep
  <2>9. PairedByConsent'
    BY <1>1, <2>7 DEF PairedByConsent
  <2> QED
    BY <1>1, <2>4, <2>5, <2>8, <2>9, PhoneStep
<1> QED
  BY <1>2, <1>3, <1>4 DEF Answer

\* A poll is answered or lost; the pages do not see it yet.
LEMMA ServedKeeps ==
  ASSUME NEW p \in Phones, NEW i \in Ids, LanInv, PollServed(p, i) \/ PollLost(p, i)
  PROVE  LanInv'
<1>1. Purge
  <2>1. CASE PollServed(p, i)
    BY <2>1, LivePurges DEF PollServed, history
  <2>2. CASE PollLost(p, i)
    BY <2>2, UntouchedTable DEF PollLost, history
  <2> QED
    BY <2>1, <2>2
<1> DEFINE id == poll[p][i].id
           answer == poll'[p][i].answer
<1>2. /\ log' = log /\ approved' = approved /\ now' = now /\ page' = page /\ post' = post
      /\ \E a \in {"pending", "approved", "rejected", "failed"} :
           /\ poll' = [poll EXCEPT ![p][i].answer = a]
           /\ a = "approved" => id \in DOMAIN LiveRequests /\ requests[id].status = "approved"
  <2>1. CASE PollServed(p, i)
    <3>1. id \in DOMAIN LiveRequests => requests[id].status \in {"pending", "approved", "rejected"}
      BY Purged DEF LanInv, TypeOK, Request
    <3> QED
      BY <2>1, <3>1 DEF PollServed, history
  <2>2. CASE PollLost(p, i)
    BY <2>2 DEF PollLost, desktopVars, table, history
  <2> QED
    BY <2>1, <2>2
<1>3. PICK a \in {"pending", "approved", "rejected", "failed"} :
        /\ poll' = [poll EXCEPT ![p][i].answer = a]
        /\ a = "approved" => id \in DOMAIN LiveRequests /\ requests[id].status = "approved"
  BY <1>2
<1>4. a = "approved" => id \in approved
  BY <1>3, Purged DEF LanInv, OwnRequests
<1> DEFINE c == [poll[p][i] EXCEPT !.answer = a]
<1>5. poll' = [poll EXCEPT ![p][i] = c] /\ poll \in [Phones -> [Ids -> Poll]] /\ poll[p][i] \in Poll
  BY <1>3 DEF LanInv, TypeOK
<1>6. c \in Poll /\ c.answer = a /\ c.id = id
  BY <1>3, <1>5 DEF Poll
<1> HIDE DEF c, id
<1>7. poll' \in [Phones -> [Ids -> Poll]]
  BY <1>5, <1>6
<1>8. \A q \in Phones, j \in Ids : poll'[q][j] = poll[q][j] \/ poll'[q][j] = c
  BY <1>5
<1>9. PhonesHonest
  BY <1>2, <1>4, <1>6, <1>8 DEF PhonesHonest
<1>10. PairedByConsent'
  BY <1>2 DEF LanInv, PairedByConsent
<1> QED
  BY <1>1, <1>2, <1>7, <1>9, <1>10, PhonesKeep, PhoneStep DEF LanInv, TypeOK

\* A step of one page that keeps its key and never becomes "paired".
PageOnly(p, pg) ==
  /\ UNCHANGED <<now, desktopVars, history>>
  /\ post' = post
  /\ page' = [page EXCEPT ![p] = pg]
  /\ pg \in Page /\ pg.key = page[p].key /\ (pg.view = page[p].view \/ pg.view # "paired")
  /\ poll' \in [Phones -> [Ids -> Poll]]
  /\ \A q \in Phones, j \in Ids : poll'[q][j] = poll[q][j] \/ poll'[q][j].answer # "approved"

LEMMA PageOnlyKeeps ==
  ASSUME NEW p \in Phones, NEW pg, LanInv, PageOnly(p, pg)
  PROVE  LanInv'
<1>1. Purge /\ now' = now /\ log' = log /\ approved' = approved
  BY UntouchedTable DEF PageOnly, history
<1>2. page \in [Phones -> Page] /\ post' \in [Phones -> Post]
  BY DEF PageOnly, LanInv, TypeOK
<1>3. page' \in [Phones -> Page]
  BY <1>2 DEF PageOnly
<1>4. \A q \in Phones : /\ page'[q].key = page[q].key
                        /\ page'[q].view = page[q].view \/ page'[q].view # "paired"
  BY <1>2 DEF PageOnly
<1>5. PhonesHonest
  BY <1>1, <1>4 DEF PhonesHonest, PageOnly
<1>6. PairedByConsent'
  BY <1>1, <1>4 DEF LanInv, PairedByConsent
<1>7. poll' \in [Phones -> [Ids -> Poll]]
  BY DEF PageOnly
<1> QED
  BY <1>1, <1>2, <1>3, <1>5, <1>6, <1>7, PhonesKeep, PhoneStep

LEMMA VerdictKeeps ==
  ASSUME NEW p \in Phones, NEW i \in Ids, LanInv, ShowVerdict(p, i)
  PROVE  LanInv'
<1> DEFINE pg == [page[p] EXCEPT !.view = "result", !.disabled = Disabled(p, i), !.timer = 0]
<1>1. page[p] \in Page /\ Disabled(p, i) \in BOOLEAN /\ poll \in [Phones -> [Ids -> Poll]]
  <2>1. page[p] \in Page /\ poll \in [Phones -> [Ids -> Poll]]
    BY DEF LanInv, TypeOK
  <2> QED
    BY <2>1 DEF Disabled, Page
<1>2. pg \in Page /\ pg.key = page[p].key /\ pg.view = "result"
  BY <1>1 DEF Page
<1>3. page' = [page EXCEPT ![p] = pg]
  BY DEF ShowVerdict
<1> HIDE DEF pg
<1>4. poll' = [poll EXCEPT ![p] = [TimerStopped(p) EXCEPT ![i] = NoPoll]]
  BY DEF ShowVerdict
<1>5. NoPoll \in Poll /\ NoPoll.answer # "approved"
  BY DEF NoPoll, PollAt, Poll
<1>7. poll' \in [Phones -> [Ids -> Poll]]
  BY <1>1, <1>4, <1>5, TimerStops
<1>8. \A q \in Phones, j \in Ids : poll'[q][j] = poll[q][j] \/ poll'[q][j].answer # "approved"
  BY <1>1, <1>4, <1>5, TimerStops
<1>9. UNCHANGED <<now, desktopVars, history>> /\ post' = post
  BY DEF ShowVerdict
<1>6. PageOnly(p, pg)
  BY <1>2, <1>3, <1>7, <1>8, <1>9 DEF PageOnly
<1> QED
  BY <1>6, PageOnlyKeeps

LEMMA AgainKeeps ==
  ASSUME NEW p \in Phones, NEW i \in Ids, LanInv, PollAgain(p, i)
  PROVE  LanInv'
<1> DEFINE pg == [page[p] EXCEPT !.disabled = Disabled(p, i), !.timer = i]
<1>1. page[p] \in Page /\ Disabled(p, i) \in BOOLEAN /\ poll \in [Phones -> [Ids -> Poll]]
  <2>1. page[p] \in Page /\ poll \in [Phones -> [Ids -> Poll]]
    BY DEF LanInv, TypeOK
  <2> QED
    BY <2>1 DEF Disabled, Page
<1>2. pg \in Page /\ pg.key = page[p].key /\ pg.view = page[p].view
  <2>1. i \in Nat
    BY DEF Ids
  <2> QED
    BY <1>1, <2>1 DEF Page
<1>3. page' = [page EXCEPT ![p] = pg]
  BY DEF PollAgain
<1> HIDE DEF pg
<1>4. poll' = [poll EXCEPT ![p][i] = PollAt("timer", 0, FALSE)]
  BY DEF PollAgain
<1>5. PollAt("timer", 0, FALSE) \in Poll /\ PollAt("timer", 0, FALSE).answer # "approved"
  BY DEF PollAt, Poll
<1>7. poll' \in [Phones -> [Ids -> Poll]]
  BY <1>1, <1>4, <1>5
<1>8. \A q \in Phones, j \in Ids : poll'[q][j] = poll[q][j] \/ poll'[q][j].answer # "approved"
  BY <1>1, <1>4, <1>5
<1>9. UNCHANGED <<now, desktopVars, history>> /\ post' = post
  BY DEF PollAgain
<1>6. PageOnly(p, pg)
  BY <1>2, <1>3, <1>7, <1>8, <1>9 DEF PageOnly
<1> QED
  BY <1>6, PageOnlyKeeps

LEMMA FiresKeeps ==
  ASSUME NEW p \in Phones, NEW i \in Ids, LanInv, TimerFires(p, i)
  PROVE  LanInv'
<1> DEFINE pg == [page[p] EXCEPT !.timer = IF page[p].timer = i THEN 0 ELSE page[p].timer]
           c == IF page[p].cancelled \/ page[p].requestId = 0 THEN NoPoll
                ELSE PollAt("asked", page[p].requestId, FALSE)
<1>1. page[p] \in Page /\ page \in [Phones -> Page] /\ poll \in [Phones -> [Ids -> Poll]]
  BY DEF LanInv, TypeOK
<1>2. pg \in Page /\ pg.key = page[p].key /\ pg.view = page[p].view
  BY <1>1 DEF Page
<1>3. page' = [page EXCEPT ![p] = pg]
  BY <1>1 DEF TimerFires
<1>4. poll' = [poll EXCEPT ![p][i] = c]
  BY DEF TimerFires
<1>5. c \in Poll /\ c.answer # "approved"
  BY <1>1 DEF NoPoll, PollAt, Poll, Page
<1> HIDE DEF pg, c
<1>7. poll' \in [Phones -> [Ids -> Poll]]
  BY <1>1, <1>4, <1>5
<1>8. \A q \in Phones, j \in Ids : poll'[q][j] = poll[q][j] \/ poll'[q][j].answer # "approved"
  BY <1>1, <1>4, <1>5
<1>9. UNCHANGED <<now, desktopVars, history>> /\ post' = post
  BY DEF TimerFires
<1>6. PageOnly(p, pg)
  BY <1>2, <1>3, <1>7, <1>8, <1>9 DEF PageOnly
<1> QED
  BY <1>6, PageOnlyKeeps

LEMMA ButtonsKeep ==
  ASSUME NEW p \in Phones, LanInv, BadCode(p) \/ Cancel(p) \/ Retry(p)
  PROVE  LanInv'
<1>1. page[p] \in Page /\ page \in [Phones -> Page] /\ poll \in [Phones -> [Ids -> Poll]]
  BY DEF LanInv, TypeOK
<1>2. CASE Cancel(p)
  <2> DEFINE pg == [page[p] EXCEPT !.view = "request", !.cancelled = TRUE, !.requestId = 0, !.timer = 0]
  <2>1. pg \in Page /\ pg.key = page[p].key /\ pg.view = "request"
    BY <1>1 DEF Page
  <2>2. page' = [page EXCEPT ![p] = pg]
    BY <1>1, <1>2 DEF Cancel
  <2> HIDE DEF pg
  <2>3. NoPoll.answer # "approved"
    BY DEF NoPoll, PollAt
  <2>5. poll' = [poll EXCEPT ![p] = TimerStopped(p)]
    BY <1>2 DEF Cancel
  <2>7. poll' \in [Phones -> [Ids -> Poll]]
    BY <1>1, <1>2, <2>3, <2>5, TimerStops
  <2>8. \A q \in Phones, j \in Ids : poll'[q][j] = poll[q][j] \/ poll'[q][j].answer # "approved"
    BY <1>1, <1>2, <2>3, <2>5, TimerStops
  <2>9. UNCHANGED <<now, desktopVars, history>> /\ post' = post
    BY <1>2 DEF Cancel
  <2>4. PageOnly(p, pg)
    BY <2>1, <2>2, <2>7, <2>8, <2>9 DEF PageOnly
  <2> QED
    BY <2>4, PageOnlyKeeps
<1>3. CASE Retry(p)
  <2> DEFINE pg == [page[p] EXCEPT !.view = "request"]
  <2>1. pg \in Page /\ pg.key = page[p].key /\ pg.view = "request"
    BY <1>1 DEF Page
  <2>2. page' = [page EXCEPT ![p] = pg]
    BY <1>1, <1>3 DEF Retry
  <2> HIDE DEF pg
  <2>4. PageOnly(p, pg)
    BY <1>1, <1>3, <2>1, <2>2 DEF PageOnly, Retry
  <2> QED
    BY <2>4, PageOnlyKeeps
<1>4. CASE BadCode(p)
  <2> DEFINE pg == [page[p] EXCEPT !.view = "result", !.timer = 0]
  <2>1. pg \in Page /\ pg.key = page[p].key /\ pg.view = "result"
    BY <1>1 DEF Page
  <2>2. page' = [page EXCEPT ![p] = pg]
    BY <1>1, <1>4 DEF BadCode
  <2> HIDE DEF pg
  <2>3. NoPoll.answer # "approved"
    BY DEF NoPoll, PollAt
  <2>4. poll' = [poll EXCEPT ![p] = TimerStopped(p)]
    BY <1>4 DEF BadCode
  <2>5. poll' \in [Phones -> [Ids -> Poll]]
    BY <1>1, <2>4, TimerStops
  <2>6. \A q \in Phones, j \in Ids : poll'[q][j] = poll[q][j] \/ poll'[q][j].answer # "approved"
    BY <1>1, <2>3, <2>4, TimerStops
  <2>7. UNCHANGED <<now, desktopVars, history>> /\ post' = post
    BY <1>4 DEF BadCode
  <2>8. PageOnly(p, pg)
    BY <2>1, <2>2, <2>5, <2>6, <2>7 DEF PageOnly
  <2> QED
    BY <2>8, PageOnlyKeeps
<1> QED
  BY <1>2, <1>3, <1>4

\* The page leaves: the answer it opened is the one for its own request.
LEMMA TakeKeeps ==
  ASSUME NEW p \in Phones, NEW i \in Ids, LanInv, TakeCredentials(p, i)
  PROVE  LanInv'
<1> DEFINE key == page[p].key
<1>1. Purge /\ now' = now /\ log' = log /\ approved' = approved
  BY UntouchedTable DEF TakeCredentials, history
<1>2. /\ page' = [page EXCEPT ![p] = PageAt("paired", key)]
      /\ poll' = [poll EXCEPT ![p] = [j \in Ids |-> NoPoll]]
      /\ post' = [post EXCEPT ![p] = NoPost]
      /\ poll[p][i].answer = "approved" /\ key = poll[p][i].id
  BY DEF TakeCredentials, Opens
<1>3. key \in approved /\ key \in Nat /\ approved \subseteq 1..Len(log) /\ key # 0
  BY <1>2 DEF LanInv, TypeOK, OwnRequests, OwnPhones, Page
<1>4. log[key].phone = p /\ key \in 1..Len(log)
  BY <1>3 DEF LanInv, OwnRequests, OwnPhones
<1> HIDE DEF key
<1>5. PageAt("paired", key) \in Page /\ PageAt("paired", key).key = key
  BY <1>3 DEF PageAt, Page
<1>6. NoPost \in Post /\ NoPoll \in Poll /\ NoPost.at # "accepted" /\ NoPoll.answer # "approved"
  BY DEF NoPost, PostAt, Post, NoPoll, PollAt, Poll
<1>7. /\ post' \in [Phones -> Post] /\ page' \in [Phones -> Page]
      /\ poll' \in [Phones -> [Ids -> Poll]]
  BY <1>2, <1>5, <1>6 DEF LanInv, TypeOK
<1>8. \A q \in Phones : page'[q] = page[q] \/ (q = p /\ page'[q].key = key)
  BY <1>2, <1>5 DEF LanInv, TypeOK
<1>9. PhonesHonest
  <2>1. \A q \in Phones, j \in Ids : poll'[q][j] = poll[q][j] \/ poll'[q][j] = NoPoll
    BY <1>2 DEF LanInv, TypeOK
  <2>2. \A q \in Phones : post'[q] = post[q] \/ post'[q] = NoPost
    BY <1>2 DEF LanInv, TypeOK
  <2> QED
    BY <1>1, <1>4, <1>6, <1>8, <2>1, <2>2 DEF PhonesHonest
<1>10. PairedByConsent'
  BY <1>1, <1>3, <1>4, <1>8 DEF LanInv, PairedByConsent
<1> QED
  BY <1>1, <1>7, <1>9, <1>10, PhonesKeep, PhoneStep

-----------------------------------------------------------------------------
LEMMA StepKeeps == LanInv /\ [Next]_vars => LanInv'
<1> SUFFICES ASSUME LanInv, [Next]_vars PROVE LanInv'
  OBVIOUS
<1>1. CASE Tick
  BY <1>1, TickKeeps
<1>2. CASE Manager
  BY <1>2, ManagerKeeps
<1>3. CASE User
  <2>1. CASE Snapshot
    <3>1. Purge
      BY <2>1, LivePurges DEF Snapshot, history
    <3> QED
      BY <2>1, <3>1, PurgingKeeps DEF Snapshot, LanInv, TypeOK
  <2> QED
    BY <1>3, <2>1, CreateKeeps, CancelInvitationKeeps, ApproveKeeps, RejectKeeps DEF User
<1>4. ASSUME NEW p \in Phones,
             BeginPairing(p) \/ Submission(p) \/ Answer(p) \/ BadCode(p) \/ Cancel(p) \/ Retry(p)
      PROVE  LanInv'
  BY <1>4, BeginKeeps, SubmissionKeeps, AcceptKeeps, AnswerKeeps, ButtonsKeep DEF Submission
<1>5. ASSUME NEW p \in Phones, NEW i \in Ids, Polling(p, i)
      PROVE  LanInv'
  BY <1>5, ServedKeeps, TakeKeeps, VerdictKeeps, AgainKeeps, FiresKeeps DEF Polling
<1>6. CASE UNCHANGED vars
  <2>1. UNCHANGED <<desktopVars, phoneVars, log, approved>> /\ now' = now
    BY <1>6 DEF vars, desktopVars, phoneVars, table, history
  <2> QED
    BY <2>1, UntouchedTable, PurgingKeeps DEF LanInv, TypeOK
<1> QED
  BY <1>1, <1>2, <1>3, <1>4, <1>5, <1>6 DEF Next

\* The invariant the theorems below rest on: types, what an approval spends,
\* and what each page knows of its own requests.
THEOREM LanInvariant == Spec => []LanInv
<1> QED
  BY InitLan, StepKeeps, PTL DEF Spec

\* The types of the table and of the pages.
THEOREM LanTypeCorrect == Spec => []TypeOK
<1>1. LanInv => TypeOK
  BY DEF LanInv
<1> QED
  BY <1>1, LanInvariant, PTL

\* Whatever the number of phones, requests and invitations, one invitation
\* admits one phone (approve, create_invitation, create_pairing_request).
THEOREM OneApprovalAlways == Spec => []OneApprovalPerInvitation
<1>1. LanInv => OneApprovalPerInvitation
  BY DEF LanInv, Spent
<1> QED
  BY <1>1, LanInvariant, PTL

\* Through any number of restarts the desktop hands out the credentials of the
\* run that serves (start_runtime, stop_runtime, set_runtime_error).
THEOREM CredentialsCurrentAlways == Spec => []CredentialsCurrent
<1>1. LanInv => CredentialsCurrent
  BY DEF LanInv
<1> QED
  BY <1>1, LanInvariant, PTL

\* Whatever polls, cancellations and new attempts of a page overlap, it leaves
\* only with the credentials of its own approved request (pollStatus).
THEOREM PairedByConsentAlways == Spec => []PairedByConsent
<1>1. LanInv => PairedByConsent
  BY DEF LanInv
<1> QED
  BY <1>1, LanInvariant, PTL
=============================================================================
