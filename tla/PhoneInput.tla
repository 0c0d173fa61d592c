----------------------------- MODULE PhoneInput -----------------------------
(***************************************************************************)
(* How what the user writes on the phone, with the files picked for it,    *)
(* reaches Codex: the two forms of the page (web/app.js), the relay's      *)
(* store of encrypted uploads (upload-store.mjs) and the desktop, which    *)
(* fetches the files before it hands the input over (attachments.rs,       *)
(* relay_client.rs).  Files travel by HTTP before the command that names   *)
(* them; meanwhile the user goes on using the page.                        *)
(*                                                                         *)
(* Submissions are numbered; an upload is a file of a submission.  Answers *)
(* that report an error change nothing here and are not sent.              *)
(***************************************************************************)
EXTENDS Naturals, Sequences, FiniteSets, FiniteSetsExt

CONSTANTS
  Sessions,       \* sessions there are, and names for those Codex will create
  Workspaces,
  First,          \* the workspace that is listed first
  Known,          \* the workspace of each session there is
  Allows,         \* workspaces that take files, as the desktop knows
  Files,          \* files the user may pick
  Size,           \* of their ciphertexts
  StoreLimit,     \* MAX_UPLOAD_STORE_BYTES
  MaxFiles,       \* MAX_ATTACHMENTS
  Nothing,        \* no session, workspace, submission or job
  MaxSubmissions, \* bound
  MaxPicks,       \* bound: files picked and workspaces chosen
  MaxLosses       \* bound: connections lost, reloads, restarts of the desktop

ASSUME KnownAssumption == Known \in UNION {[S -> Workspaces] : S \in SUBSET Sessions}
ASSUME SizeAssumption  == Size \in [Files -> Nat \ {0}]
ASSUME WorkspaceAssumption == First \in Workspaces /\ Allows \subseteq Workspaces
ASSUME LimitAssumption ==
  /\ {StoreLimit, MaxFiles, MaxSubmissions, MaxPicks, MaxLosses} \subseteq Nat
  /\ Nothing \notin Sessions \union Workspaces /\ Nothing \notin [n : Nat, files : SUBSET Files]

VARIABLES
  link,     \* the page's connection: none, open, or open and the workspaces listed
  view,     \* state.currentSession
  choice,   \* workspaceSelect; empty until the workspaces are listed
  picked,   \* state.attachments, per form; their order is not kept
  upload,   \* the submission whose files are being uploaded (state.uploading)
  queued,   \* state.queuedPrompt
  store,    \* uploads at the relay: submission, file, past its time or not
  bytes,    \* EncryptedUploadStore.bytes
  frames,   \* commands on their way to the desktop
  answers,  \* session.created on its way to the page, or being decrypted there
  home,     \* the workspace of each session
  job,      \* the input whose files the desktop fetches
  given,    \* history: the input handed to Codex last
  sent,     \* history: inputs the page has sent
  made,     \* history: sessions created, by submission
  heard,    \* history: submissions whose session.created was handled while connected
  aim,      \* history: what the user saw when submitting
  crossed,  \* history: submissions that something got in the way of
  picks, losses

pageVars  == <<link, view, choice, picked, upload, queued>>
storeVars == <<store, bytes>>
deskVars  == <<home, job, given, made>>
pageLog   == <<sent, heard, aim, crossed>>
vars      == <<pageVars, storeVars, frames, answers, deskVars, pageLog, picks, losses>>

Forms == {"new", "composer"}

-----------------------------------------------------------------------------
Init ==
  /\ link = "none" /\ view = Nothing /\ choice = Nothing
  /\ picked = [form \in Forms |-> {}] /\ upload = Nothing /\ queued = Nothing
  /\ store = {} /\ bytes = 0
  /\ frames = <<>> /\ answers = {}
  /\ home = Known /\ job = Nothing /\ given = Nothing /\ made = <<>>
  /\ sent = {} /\ heard = {} /\ aim = <<>> /\ crossed = {}
  /\ picks = 0 /\ losses = 0

Linked == link # "none"

(* What gets in the way of a submission. *)

Uploading(form) == upload # Nothing /\ upload.form = form

\* Requests to create a session that may still be answered.
Creations ==
  {frames[i].n : i \in {j \in DOMAIN frames : frames[j].kind = "create"}}
  \union {a.n : a \in answers}

\* The user, a new session or a new list changes what a form being sent is about.
Cross(form) == crossed' = IF Uploading(form) THEN crossed \union {upload.n} ELSE crossed

-----------------------------------------------------------------------------
(* The page: what the user does *)

\* What a form is about: workspaceForTarget.
Target(form) == IF form = "new" THEN choice ELSE view

\* The page takes files for a workspace it believes to allow them; what it believes
\* may be old, so any.  A file picked during an upload joins the list being uploaded.
Pick(form, f) ==
  /\ Target(form) # Nothing
  /\ Cardinality(picked[form]) < MaxFiles /\ f \notin picked[form]
  /\ picked' = [picked EXCEPT ![form] = @ \union {f}]
  /\ upload' = IF Uploading(form) /\ upload.shared
                 THEN [upload EXCEPT !.left = @ \union {f}] ELSE upload
  /\ Cross(form)
  /\ picks < MaxPicks /\ picks' = picks + 1
  /\ UNCHANGED <<link, view, choice, queued, storeVars, frames, answers, deskVars,
                 sent, heard, aim, losses>>

\* The list is replaced by a shorter one; an upload goes on with the old one.
Detached(form) ==
  IF Uploading(form) THEN [upload EXCEPT !.shared = FALSE] ELSE upload

Unpick(form, f) ==
  /\ f \in picked[form]
  /\ picked' = [picked EXCEPT ![form] = @ \ {f}]
  /\ upload' = Detached(form)
  /\ Cross(form)
  /\ UNCHANGED <<link, view, choice, queued, storeVars, frames, answers, deskVars,
                 sent, heard, aim, picks, losses>>

\* openSession; nothing keeps the user from it while files are uploaded.
Shows(s) ==
  /\ view' = s
  /\ picked' = [picked EXCEPT !["composer"] = {}]
  /\ upload' = Detached("composer")
  /\ Cross("composer")

Open(s) ==
  /\ s \in DOMAIN home /\ s # view /\ choice # Nothing
  /\ Shows(s)
  /\ UNCHANGED <<link, choice, queued, storeVars, frames, answers, deskVars,
                 sent, heard, aim, picks, losses>>

Back ==
  /\ view # Nothing /\ view' = Nothing
  /\ Cross("composer")
  /\ UNCHANGED <<link, choice, picked, upload, queued, storeVars, frames, answers, deskVars,
                 sent, heard, aim, picks, losses>>

ChooseWorkspace(w) ==
  /\ w # choice /\ choice # Nothing /\ choice' = w
  /\ picked' = [picked EXCEPT !["new"] = {}]
  /\ upload' = Detached("new")
  /\ Cross("new")
  /\ picks < MaxPicks /\ picks' = picks + 1
  /\ UNCHANGED <<link, view, queued, storeVars, frames, answers, deskVars,
                 sent, heard, aim, losses>>

\* Either form is submitted, with a text or with files.  Sessions that are still being
\* created get in the way of another one.
Submit(form) ==
  /\ upload = Nothing /\ Len(aim) < MaxSubmissions
  /\ Target(form) # Nothing
  /\ LET n == Len(aim) + 1 IN
     /\ upload' = [n |-> n, form |-> form, left |-> picked[form], done |-> {}, shared |-> TRUE]
     /\ aim' = Append(aim, [form |-> form, at |-> Target(form),
                            files |-> picked[form]])
     /\ crossed' = IF form = "new" /\ Creations # {}
                     THEN crossed \union Creations \union {n} ELSE crossed
  /\ UNCHANGED <<link, view, choice, picked, queued, storeVars, frames, answers, deskVars,
                 sent, heard, picks, losses>>

-----------------------------------------------------------------------------
(* The relay's store *)

Weight(uploads) == MapThenSumSet(LAMBDA u : Size[u.f], uploads)

Old == {u \in store : u.old}

PurgedUncounted == [uploads |-> store \ Old, bytes |-> bytes]   \* wrong: their bytes stay

\* Without its expired uploads.
Purged == [uploads |-> store \ Old, bytes |-> bytes - Weight(Old)]

\* Fifteen minutes after it was stored.
Expire(u) ==
  /\ u \in store /\ ~u.old
  /\ store' = (store \ {u}) \union {[u EXCEPT !.old = TRUE]}
  /\ UNCHANGED <<pageVars, bytes, frames, answers, deskVars, pageLog, picks, losses>>

Purge ==
  /\ Old # {}
  /\ store' = Purged.uploads /\ bytes' = Purged.bytes
  /\ UNCHANGED <<pageVars, frames, answers, deskVars, pageLog, picks, losses>>

Fits(f) == Purged.bytes + Size[f] <= StoreLimit

\* put() on behalf of the submission in hand.
Put(f) ==
  /\ Fits(f)
  /\ store' = Purged.uploads \union {[n |-> upload.n, f |-> f, old |-> FALSE]}
  /\ bytes' = Purged.bytes + Size[f]

(* The page: uploads, and the command that follows them *)

FailsForgetting ==   \* wrong: either form forgets what is queued
  /\ upload' = Nothing
  /\ queued' = Nothing

\* catch: the form stays as it is; that of a new session also forgets what is queued.
Fails ==
  /\ upload' = Nothing
  /\ queued' = IF upload.form = "new" THEN Nothing ELSE queued

UploadFile(f) ==
  /\ upload # Nothing /\ f \in upload.left
  /\ Put(f)
  /\ upload' = [upload EXCEPT !.left = @ \ {f}, !.done = @ \union {f}]
  /\ UNCHANGED <<link, view, choice, picked, queued, frames, answers, deskVars,
                 pageLog, picks, losses>>

\* The relay refuses, or the answer is lost after the file was stored.
UploadFails(f) ==
  /\ upload # Nothing /\ f \in upload.left
  /\ Fails
  /\ Put(f) \/ UNCHANGED <<store, bytes>>
  /\ UNCHANGED <<link, view, choice, picked, frames, answers, deskVars, pageLog, picks, losses>>

Ready(form) == Uploading(form) /\ upload.left = {}

\* send() puts an input on its way.
SendInput(n, s, files) ==
  /\ frames' = Append(frames, [kind |-> "input", n |-> n, to |-> s, files |-> files])
  /\ sent' = sent \union {[n |-> n, to |-> s, files |-> files]}

\* The session is the one shown now; the form is emptied.
FinishInput ==
  /\ Ready("composer") /\ Linked /\ view # Nothing
  /\ SendInput(upload.n, view, upload.done)
  /\ picked' = [picked EXCEPT !["composer"] = {}]
  /\ upload' = Nothing
  /\ UNCHANGED <<link, view, choice, queued, storeVars, answers, deskVars,
                 heard, aim, crossed, picks, losses>>

\* The prompt waits for the session; the workspace is the one chosen now.
FinishNew ==
  /\ Ready("new") /\ Linked
  /\ queued' = [n |-> upload.n, files |-> upload.done]
  /\ frames' = Append(frames, [kind |-> "create", n |-> upload.n, at |-> choice])
  /\ picked' = [picked EXCEPT !["new"] = {}]
  /\ upload' = Nothing
  /\ UNCHANGED <<link, view, choice, storeVars, answers, deskVars, pageLog, picks, losses>>

\* send() throws without a connection, and so does reading the id of no session.
FinishFails ==
  /\ \/ (Ready("new") \/ Ready("composer")) /\ ~Linked
     \/ Ready("composer") /\ view = Nothing
  /\ Fails
  /\ UNCHANGED <<link, view, choice, picked, storeVars, frames, answers, deskVars,
                 pageLog, picks, losses>>

CreatedForTheShown(a) ==   \* wrong: the prompt goes to the session shown until then
  /\ Shows(a.s)
  /\ queued' = Nothing
  /\ IF queued # Nothing /\ Linked THEN SendInput(queued.n, view, queued.files)
                                   ELSE UNCHANGED <<frames, sent>>
  /\ heard' = IF Linked THEN heard \union {a.n} ELSE heard
  /\ answers' = answers \ {a}
  /\ UNCHANGED <<link, choice, storeVars, deskVars, aim, picks, losses>>

\* session.created, once it is decrypted, which may end in any order and after the
\* connection: the session is shown and gets whatever prompt is queued.  The prompt leaves
\* the queue before send() is called, which throws without a connection: then it is lost.
Created(a) ==
  /\ Shows(a.s)
  /\ queued' = Nothing
  /\ IF queued # Nothing /\ Linked THEN SendInput(queued.n, a.s, queued.files)
                                   ELSE UNCHANGED <<frames, sent>>
  /\ heard' = IF Linked THEN heard \union {a.n} ELSE heard
  /\ answers' = answers \ {a}
  /\ UNCHANGED <<link, choice, storeVars, deskVars, aim, picks, losses>>

-----------------------------------------------------------------------------
(* Connections *)

Connect ==
  /\ ~Linked /\ link' = "open"
  /\ UNCHANGED <<view, choice, picked, upload, queued, storeVars, frames, answers, deskVars,
                 pageLog, picks, losses>>

\* workspace.list.result, asked for with each connection: renderWorkspaces fills the
\* select anew, which chooses the first and tells nobody; files picked for another stay.
Listed ==
  /\ link = "open" /\ link' = "listed"
  /\ choice' = First
  /\ Cross("new")
  /\ UNCHANGED <<view, picked, upload, queued, storeVars, frames, answers, deskVars,
                 sent, heard, aim, picks, losses>>

\* The relay may have passed on some of what was sent.
Cut ==
  /\ losses < MaxLosses /\ losses' = losses + 1
  /\ \E k \in 0..Len(frames) : frames' = SubSeq(frames, 1, k)
  /\ link' = "none"

\* Answers find nobody, except those the page is decrypting: it handles them all the same.
ConnectionLost ==
  /\ Linked /\ Cut
  /\ answers' \in SUBSET answers
  /\ UNCHANGED <<view, choice, picked, upload, queued, storeVars, deskVars, pageLog, picks>>

\* All that the page had in hand is gone; requests under way are still answered.
Reload ==
  /\ Cut
  /\ answers' = {}
  /\ view' = Nothing /\ picked' = [form \in Forms |-> {}]
  /\ upload' = Nothing /\ queued' = Nothing /\ choice' = Nothing
  /\ crossed' = crossed \union Creations
  /\ UNCHANGED <<storeVars, deskVars, sent, heard, aim, picks>>

\* The runtime is stopped, with what it had in hand; the phone stays connected.
DesktopRestarts ==
  /\ losses < MaxLosses /\ losses' = losses + 1
  /\ job' = Nothing /\ frames' = <<>>
  /\ UNCHANGED <<pageVars, storeVars, answers, home, given, made, pageLog, picks>>

-----------------------------------------------------------------------------
(* The desktop works on one command at a time. *)

Takes(kind) ==
  /\ job = Nothing /\ frames # <<>> /\ Head(frames).kind = kind
  /\ frames' = Tail(frames)

\* session.create; a phone that is not connected is not told.
Create(s) ==
  /\ Takes("create") /\ s \notin DOMAIN home
  /\ home' = [x \in DOMAIN home \union {s} |-> IF x = s THEN Head(frames).at ELSE home[x]]
  /\ made' = [n \in DOMAIN made \union {Head(frames).n} |->
                IF n = Head(frames).n THEN s ELSE made[n]]
  /\ answers' = IF Linked THEN answers \union {[n |-> Head(frames).n, s |-> s]} ELSE answers
  /\ UNCHANGED <<pageVars, storeVars, job, given, pageLog, picks, losses>>

\* prepare_attachments, once the session is found to be of a known workspace.
TakeInput ==
  /\ Takes("input")
  /\ LET c == Head(frames) IN
     /\ c.files # {} => home[c.to] \in Allows
     /\ job' = [n |-> c.n, to |-> c.to, left |-> c.files, got |-> {}]
  /\ UNCHANGED <<pageVars, storeVars, answers, home, given, made, pageLog, picks, losses>>

\* Any command may be refused: by its checks, by Codex, or, when the page has sent a later
\* one before it, by the desktop's replay guard.
Refuse ==
  /\ job = Nothing /\ frames # <<>> /\ frames' = Tail(frames)
  /\ UNCHANGED <<pageVars, storeVars, answers, deskVars, pageLog, picks, losses>>

ConsumeUnpurged(u) ==   \* wrong: what has expired is handed out until it is purged
  /\ store' = store \ {u}
  /\ bytes' = bytes - Size[u.f]

\* consume(): purge, then hand out and forget.
Consume(u) ==
  /\ u \in Purged.uploads
  /\ store' = Purged.uploads \ {u}
  /\ bytes' = Purged.bytes - Size[u.f]

Named(u, f) == u.n = job.n /\ u.f = f

\* The next file is fetched, decrypted, compared with its digest and written.
Fetch(f) ==
  /\ job # Nothing /\ f \in job.left
  /\ \E u \in store :
       /\ Named(u, f) /\ Consume(u)
       /\ job' = [job EXCEPT !.left = @ \ {f}, !.got = @ \union {u}]
  /\ UNCHANGED <<pageVars, frames, answers, home, given, made, pageLog, picks, losses>>

SkipsFile(f) ==   \* wrong: the command goes on without the file
  /\ job # Nothing /\ f \in job.left
  /\ job' = [job EXCEPT !.left = @ \ {f}]
  /\ UNCHANGED <<pageVars, storeVars, frames, answers, home, given, made, pageLog, picks, losses>>

\* It is not there, or breaks on the way, or cannot be written.  The command is over;
\* files that were fetched before it stay where they are.
FetchFails(f) ==
  /\ job # Nothing /\ f \in job.left
  /\ job' = Nothing
  /\ \/ \E u \in store : Named(u, f) /\ Consume(u)
     \/ UNCHANGED storeVars
  /\ UNCHANGED <<pageVars, frames, answers, home, given, made, pageLog, picks, losses>>

\* turn/start, with the paths of all files.
Give ==
  /\ job # Nothing /\ job.left = {}
  /\ given' = [n |-> job.n, to |-> job.to, files |-> {u.f : u \in job.got}]
  /\ job' = Nothing
  /\ UNCHANGED <<pageVars, storeVars, frames, answers, home, made, pageLog, picks, losses>>

\* A skill is gone, or Codex takes too long.
Decline ==
  /\ job # Nothing /\ job.left = {} /\ job' = Nothing
  /\ UNCHANGED <<pageVars, storeVars, frames, answers, home, given, made, pageLog, picks, losses>>

-----------------------------------------------------------------------------
User ==
  \/ \E form \in Forms, f \in Files : Pick(form, f) \/ Unpick(form, f)
  \/ \E s \in Sessions : Open(s)
  \/ Back
  \/ \E w \in Workspaces : ChooseWorkspace(w)
  \/ \E form \in Forms : Submit(form)

Page ==
  \/ \E f \in Files : UploadFile(f) \/ UploadFails(f)
  \/ FinishInput \/ FinishNew \/ FinishFails
  \/ \E a \in answers : Created(a)

Relay == Purge \/ (\E u \in store : Expire(u)) \/ Connect \/ Listed \/ ConnectionLost \/ Reload

Desktop ==
  \/ DesktopRestarts \/ TakeInput \/ Refuse \/ Give \/ Decline
  \/ \E s \in Sessions : Create(s)
  \/ \E f \in Files : Fetch(f) \/ FetchFails(f)

Next == User \/ Page \/ Relay \/ Desktop

Spec == Init /\ [][Next]_vars

-----------------------------------------------------------------------------
Inputs == [n : 1..MaxSubmissions, to : Sessions, files : SUBSET Files]
Uploads == [n : 1..MaxSubmissions, f : Files, old : BOOLEAN]

TypeOK ==
  /\ link \in {"none", "open", "listed"}
  /\ view \in DOMAIN home \union {Nothing} /\ choice \in Workspaces \union {Nothing}
  /\ \A form \in Forms : picked[form] \subseteq Files /\ Cardinality(picked[form]) <= MaxFiles
  /\ upload # Nothing => upload.n = Len(aim) /\ upload.form \in Forms
  /\ store \subseteq Uploads /\ bytes \in Nat
  /\ given \in Inputs \union {Nothing} /\ sent \subseteq Inputs
  /\ heard \subseteq 1..Len(aim) /\ crossed \subseteq 1..Len(aim)

\* Codex gets all files of an input or not the input, and files only in a workspace that
\* takes them, although uploads expire, are handed out once, and fail one by one
\* (prepare_attachments).
InputsWhole ==
  given # Nothing => given \in sent /\ (given.files # {} => home[given.to] \in Allows)

\* What the user submitted goes, with the files picked for it, to the session on the
\* screen or to the one created for it in the workspace chosen.
ReachesItsSession ==
  \A x \in sent : x.n \notin crossed =>
    LET seen == aim[x.n] IN
    /\ x.files = seen.files
    /\ IF seen.form = "composer" THEN x.to = seen.at
       ELSE x.n \in DOMAIN made /\ made[x.n] = x.to /\ home[x.to] = seen.at

\* A session that was created for a prompt gets it, if the page has a connection when it
\* handles session.created; without one the prompt is lost.
PromptFollows == \A n \in heard \ crossed : \E x \in sent : x.n = n

\* Whatever crosses what, a prompt is sent to one session, that session gets no other, and
\* it is one that was created for a prompt.
OnePromptEach ==
  LET prompts == {x \in sent : aim[x.n].form = "new"} IN
  /\ \A x, y \in prompts : x.n = y.n <=> x.to = y.to
  /\ \A x \in prompts : \E n \in DOMAIN made : made[n] = x.to

\* Submissions are not mixed up, in the one slot for a queued prompt above all, over
\* refused requests, failed uploads, lost connections and sessions that are opened: only
\* what changes the form under way - the user, a session or a list that arrives - or another
\* session still being created can make a prompt go elsewhere, and not even that sends one
\* twice or two to one session
\* (queuedPrompt, state.currentSession and workspaceSelect are read after the uploads).
SubmissionsKeptApart == ReachesItsSession /\ PromptFollows /\ OnePromptEach

\* The relay hands an upload out once and not after its time, and its count of bytes is
\* what it holds, so that it never refuses for files that are gone (EncryptedUploadStore).
UploadsOneShot ==
  /\ bytes = Weight(store) /\ bytes <= StoreLimit
  /\ job # Nothing => \A u \in job.got : ~u.old /\ ~\E v \in store : Named(v, u.f)
=============================================================================
