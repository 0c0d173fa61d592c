------------------------------ MODULE CodexData ------------------------------
(***************************************************************************)
(* Repair, cleanup and deletion of the data Codex keeps on disk, while      *)
(* Codex writes it: rollout files, the rows of its SQLite databases and     *)
(* session_index.jsonl.                                                     *)
(*                                                                         *)
(* A repair (run_provider_sync_with_target) makes all sessions belong to    *)
(* one provider: it reads all files, saves what it will change, overwrites  *)
(* the files with the text it has read, changes the rows database by        *)
(* database and puts the files back when one of the later steps fails.      *)
(* Launcher and window may both begin one; a directory is the lock.  The    *)
(* cleanup of the index takes the same lock.  Deleting a session and        *)
(* undoing that take none.                                                  *)
(*                                                                         *)
(* A file is the provider in its session_meta lines and the number of its   *)
(* lines, a row is its provider.  Left out: working directories and the     *)
(* other columns, which change with the provider in one transaction, times  *)
(* of files, tables other than threads, the contents of the global state.   *)
(***************************************************************************)
EXTENDS Naturals, FiniteSets, Functions

CONSTANTS
  Threads,     \* sessions of Codex
  Dbs,         \* its databases
  FirstDb,     \* the one an undo writes to
  Providers,
  Runs,        \* who may begin a repair
  Homes,       \* for each session, the sets of databases Codex may have its row in
  Keep,        \* BACKUP_KEEP_COUNT
  MaxBackups, MaxDeletes, MaxLines   \* bounds

ASSUME DbAssumption == FirstDb \in Dbs
ASSUME HomesAssumption == Homes \in [Threads -> SUBSET SUBSET Dbs]
ASSUME KeepAssumption == Keep \in Nat \ {0}
ASSUME ProviderAssumption == "none" \notin Providers

VARIABLES
  file,      \* the rollout of each session
  row,       \* its row in each database
  index,     \* the sessions session_index.jsonl names
  lock,      \* the lock directory is there
  saved,     \* directories with the originals of a repair
  tokens,    \* backups of deleted sessions
  run,       \* the repairs
  clean,     \* the cleanup
  del,       \* the deletion
  serial,    \* the directories of originals made
  deletes,
  said,      \* history: lines Codex has written of a session
  exposed,   \* history: sessions that were written while an overwriting was under way
  touched,   \* history: sessions that came, went or came back during the repair
  last       \* history: the repair that last overwrote a file, and the provider it found

dataVars == <<file, row, index>>
ghosts   == <<said, exposed, touched, last>>
counters == <<serial, deletes>>
codexVars     == <<dataVars, lock, saved, tokens, run, clean, del, counters, ghosts>>

None == "none"
Missing == [prov |-> None, lines |-> 0]
NoRun == [phase |-> "idle", target |-> None, text |-> [t \in Threads |-> Missing],
          todo |-> {}, done |-> {}, dbs |-> {}, end |-> "none"]
NoCleanup == [phase |-> "idle", seen |-> {}, chosen |-> {}, late |-> {}, fresh |-> {}]
NoDeletion == [t |-> None, left |-> {}, remove |-> FALSE]
\* A deletion is over after the last database and the file.
Rest(d) == IF d.left = {} /\ ~d.remove THEN NoDeletion ELSE d

Repairing(r) == run[r].phase # "idle"
Present(t) == file[t] # Missing
\* collect_live_thread_ids
Live(t) == Present(t) \/ \E d \in Dbs : row[d][t] # None

DataInit ==
  /\ file = [t \in Threads |-> Missing]
  /\ row = [d \in Dbs |-> [t \in Threads |-> None]]
  /\ index = {} /\ lock = FALSE /\ tokens = {}
  /\ saved = {[n |-> 1, prov |-> [t \in {} |-> None]]}   \* an earlier repair's
  /\ run = [r \in Runs |-> NoRun] /\ clean = NoCleanup /\ del = NoDeletion
  /\ serial = 1 /\ deletes = 0
  /\ said = [t \in Threads |-> 0] /\ exposed = {} /\ touched = {}
  /\ last = [t \in Threads |-> [n |-> 0, prov |-> None]]

Touch(t) == IF \E r \in Runs : Repairing(r) THEN touched \union {t} ELSE {}

-----------------------------------------------------------------------------
(* Codex.  It is not asked whether it runs, except by the cleanup.           *)

NewThread(t) ==
  /\ said[t] = 0
  /\ \E p \in Providers, ds \in Homes[t] :
       /\ file' = [file EXCEPT ![t] = [prov |-> p, lines |-> 1]]
       /\ row' = [d \in Dbs |-> IF d \in ds THEN [row[d] EXCEPT ![t] = p] ELSE row[d]]
  /\ said' = [said EXCEPT ![t] = 1]
  /\ touched' = Touch(t)
  /\ UNCHANGED <<index, lock, saved, tokens, run, clean, del, counters, exposed, last>>

\* Somebody will overwrite or remove the file with no regard to what is added now.
Doomed(t) ==
  \/ \E r \in Runs : Repairing(r) /\ run[r].text[t] # Missing
  \/ del.t = t /\ del.remove

Exposed(t) == exposed' = IF Doomed(t) THEN exposed \union {t} ELSE exposed

AppendLine(t) ==
  /\ Present(t) /\ FoldFunction(+, 0, said) < MaxLines
  /\ file' = [file EXCEPT ![t].lines = @ + 1]
  /\ said' = [said EXCEPT ![t] = @ + 1]
  /\ Exposed(t)
  /\ UNCHANGED <<row, index, lock, saved, tokens, run, clean, del, counters, touched, last>>

Name(t) ==
  /\ Live(t) /\ t \notin index
  /\ index' = index \union {t}
  /\ clean' = IF clean.phase = "writing" THEN [clean EXCEPT !.fresh = @ \union {t}] ELSE clean
  /\ UNCHANGED <<file, row, lock, saved, tokens, run, del, counters, ghosts>>

-----------------------------------------------------------------------------
(* The repair                                                                *)

At(r, phase) == run[r].phase = phase
Go(r, s) == run' = [run EXCEPT ![r] = s]
Leave(r, end) == Go(r, [run[r] EXCEPT !.phase = "leaving", !.end = end])
\* It goes on and keeps the lock.
Goes(r, s) == Go(r, s) /\ UNCHANGED <<lock, touched>>
\* release_lock, whatever the outcome.
Freed(r) == Go(r, NoRun) /\ lock' = FALSE /\ touched' = {}
\* An error outside the last steps is reported as skipped; nothing is put back.
GiveUp(r) == Freed(r)
\* The files of a repair come first, then the databases.
Written(s) == IF s.todo = {} THEN [s EXCEPT !.phase = "tables", !.dbs = Dbs]
              ELSE [s EXCEPT !.phase = "writing"]

\* collect_session_changes leaves out the files that are in use.
ReadText(p, busy) ==
  LET text == [t \in Threads |-> IF t \in busy THEN Missing ELSE file[t]]
  IN  [NoRun EXCEPT !.phase = "read", !.target = p, !.text = text,
                    !.todo = {t \in Threads : text[t] # Missing /\ text[t].prov # p}]

\* acquire_lock; while the directory is there a repair is skipped and changes nothing.
\* Then the files are read; one that fails otherwise than by being in use ends it here.
Begin(r) ==
  /\ At(r, "idle") /\ ~lock /\ serial < MaxBackups
  /\ lock' = TRUE /\ touched' = {}
  /\ \E p \in Providers, busy \in SUBSET {t \in Threads : Present(t)} : Go(r, ReadText(p, busy))
  /\ UNCHANGED <<dataVars, saved, tokens, clean, del, counters, said, exposed, last>>

\* The directory is made and owner.json cannot be written: nobody removes it.
BeginFails(r) ==
  /\ At(r, "idle") /\ ~lock
  /\ lock' = TRUE
  /\ UNCHANGED <<dataVars, saved, tokens, run, clean, del, counters, ghosts>>

\* count_sqlite_updates: a repair with nothing to do ends here.
UpToDate(r) ==
  /\ At(r, "read")
  /\ run[r].todo = {}
  /\ \A d \in Dbs, t \in Threads : row[d][t] \in {None, run[r].target}
  /\ Leave(r, "synced")
  /\ UNCHANGED <<dataVars, lock, saved, tokens, clean, del, counters, ghosts>>

\* create_backup; the global state alone may be reason enough for it.
SaveOriginals(r) ==
  /\ At(r, "read")
  /\ \/ /\ saved' = saved \union
             {[n |-> serial + 1, prov |-> [t \in run[r].todo |-> run[r].text[t].prov]]}
        /\ serial' = serial + 1
        /\ Goes(r, Written(run[r]))
     \/ GiveUp(r) /\ UNCHANGED <<saved, serial>>
  /\ UNCHANGED <<dataVars, tokens, clean, del, deletes, said, exposed, last>>

\* The text that was read is written with another provider, whatever the file has become.
Overwritten(r, t) == [run[r].text[t] EXCEPT !.prov = run[r].target]

\* apply_session_changes, file by file.  A file in use is skipped; another error ends
\* the repair and leaves the files written so far as they are.
WriteFile(r) ==
  /\ At(r, "writing")
  /\ \E t \in run[r].todo :
       \/ /\ file' = [file EXCEPT ![t] = Overwritten(r, t)]
          /\ last' = [last EXCEPT ![t] =
                        IF Present(t) /\ t \notin touched THEN [n |-> serial, prov |-> file[t].prov]
                        ELSE [n |-> 0, prov |-> None]]
          /\ Goes(r, Written([run[r] EXCEPT !.todo = @ \ {t}, !.done = @ \union {t}]))
       \/ /\ Goes(r, Written([run[r] EXCEPT !.todo = @ \ {t}, !.text[t] = Missing]))
          /\ UNCHANGED <<file, last>>
       \/ GiveUp(r) /\ UNCHANGED <<file, last>>
  /\ UNCHANGED <<row, index, saved, tokens, clean, del, counters, said, exposed>>

ForgetRestore(r) ==   \* wrong: an error of the databases goes the way of the earlier ones
  Leave(r, "failed")
\* restore_session_changes, unless no file was changed.
StartRestore(r) ==
  IF run[r].done = {} THEN Leave(r, "failed") ELSE Go(r, [run[r] EXCEPT !.phase = "restoring"])

\* apply_sqlite_update: a transaction for each database, all rows of it.
UpdateRows(r) ==
  /\ At(r, "tables")
  /\ \E d \in run[r].dbs :
       \/ /\ row' = [row EXCEPT ![d] = [t \in Threads |->
                       IF row[d][t] = None THEN None ELSE run[r].target]]
          /\ Go(r, [run[r] EXCEPT !.dbs = @ \ {d},
                                  !.phase = IF run[r].dbs = {d} THEN "state" ELSE "tables"])
       \/ StartRestore(r) /\ UNCHANGED row
  /\ UNCHANGED <<file, index, lock, saved, tokens, clean, del, counters, ghosts>>

PrunedFromTheEnd == {b \in saved : Cardinality({c \in saved : c.n < b.n}) < Keep}   \* wrong: the oldest stay
\* prune_backups: the directories with the latest names stay.
Pruned == {b \in saved : Cardinality({c \in saved : c.n > b.n}) < Keep}

\* apply_global_state_update, and then the backups.
FinishRepair(r) ==
  /\ At(r, "state")
  /\ \/ saved' = Pruned /\ Leave(r, "synced")
     \/ StartRestore(r) /\ UNCHANGED saved
  /\ UNCHANGED <<dataVars, lock, tokens, clean, del, counters, ghosts>>

\* restore_session_changes stops at the first error.
RestoreFile(r) ==
  /\ At(r, "restoring")
  /\ \E t \in run[r].done :
       \/ /\ file' = [file EXCEPT ![t] = run[r].text[t]]
          /\ IF run[r].done = {t} THEN Goes(r, [run[r] EXCEPT !.phase = "leaving", !.end = "failed"])
             ELSE Goes(r, [run[r] EXCEPT !.done = @ \ {t}])
       \/ GiveUp(r) /\ UNCHANGED file
  /\ UNCHANGED <<row, index, saved, tokens, clean, del, counters, said, exposed, last>>

Release(r) ==
  /\ At(r, "leaving") /\ Freed(r)
  /\ UNCHANGED <<dataVars, saved, tokens, clean, del, counters, said, exposed, last>>

-----------------------------------------------------------------------------
(* The cleanup of session_index.jsonl                                        *)

ToClean(c) == clean' = c
Dead == {t \in index : ~Live(t)}

\* The application has to be closed and the lock free.
Apply ==
  /\ clean.phase = "idle" /\ index # {}
  /\ ~lock /\ lock' = TRUE /\ ToClean([NoCleanup EXCEPT !.phase = "looking"])
  /\ UNCHANGED <<dataVars, saved, tokens, run, del, counters, ghosts>>

\* A refusal and an error end in release_lock, too.
EndCleanup == ToClean(NoCleanup) /\ lock' = FALSE

LookAtIndexOnly ==   \* wrong: that nothing refers to them is taken from the preview
  /\ clean.phase = "looking"
  /\ \/ /\ \E chosen \in SUBSET index \ {{}} :
             ToClean([NoCleanup EXCEPT !.phase = "comparing", !.seen = index, !.chosen = chosen])
        /\ UNCHANGED lock
     \/ EndCleanup
  /\ UNCHANGED <<dataVars, saved, tokens, run, del, counters, ghosts>>

\* The index must be the one of the preview, however old that is, and what the user has
\* ticked in it must have no owner now.  The preview itself changes nothing.
Look ==
  /\ clean.phase = "looking"
  /\ \/ /\ \E chosen \in SUBSET Dead \ {{}} :
             ToClean([NoCleanup EXCEPT !.phase = "comparing", !.seen = index, !.chosen = chosen])
        /\ UNCHANGED lock
     \/ EndCleanup
  /\ UNCHANGED <<dataVars, saved, tokens, run, del, counters, ghosts>>

\* create_session_index_cleanup_backup, whose directories are not among those pruned;
\* then the index is read again, and the application looked for again.
Compare ==
  /\ clean.phase = "comparing"
  /\ \/ index = clean.seen /\ ToClean([clean EXCEPT !.phase = "writing"]) /\ UNCHANGED lock
     \/ EndCleanup
  /\ UNCHANGED <<dataVars, saved, tokens, run, del, counters, ghosts>>

\* atomic_write of what was read, less what was chosen.
WriteIndex ==
  /\ clean.phase = "writing"
  /\ \/ index' = clean.seen \ clean.chosen /\ saved' \in {Pruned, saved}
     \/ UNCHANGED <<index, saved>>
  /\ EndCleanup
  /\ UNCHANGED <<file, row, tokens, run, del, counters, ghosts>>

-----------------------------------------------------------------------------
(* Deleting a session and undoing it                                         *)

Delete(t) ==
  /\ del = NoDeletion /\ deletes < MaxDeletes
  /\ \E d \in Dbs : row[d][t] # None
  /\ del' = [t |-> t, left |-> Dbs, remove |-> FALSE]
  /\ deletes' = deletes + 1
  /\ UNCHANGED <<dataVars, lock, saved, tokens, run, clean, serial, ghosts>>

\* What a deletion finds of the file: nothing when it cannot be read.
Found(t) == {file[t], Missing}
\* No row there, or an error before the backup is written.
SkipDb(d) == del' = Rest([del EXCEPT !.left = @ \ {d}]) /\ UNCHANGED <<row, tokens, touched>>

DeleteRowUnsaved(d) ==   \* wrong: the file goes whether it could be read or not
  /\ d \in del.left /\ ~del.remove
  /\ \/ SkipDb(d)
     \/ /\ row[d][del.t] # None
        /\ \E text \in Found(del.t) :
             tokens' = tokens \union {[t |-> del.t, prov |-> row[d][del.t], text |-> text]}
        /\ row' = [row EXCEPT ![d][del.t] = None]
        /\ del' = Rest([del EXCEPT !.left = @ \ {d}, !.remove = Present(del.t)])
        /\ touched' = Touch(del.t)
  /\ UNCHANGED <<file, index, lock, saved, run, clean, counters, said, exposed, last>>

\* delete_codex_thread in one database: rows and file are saved, the rows deleted in a
\* transaction.  Only a file that was saved is removed.
DeleteRow(d) ==
  /\ d \in del.left /\ ~del.remove
  /\ \/ SkipDb(d)
     \/ /\ row[d][del.t] # None
        /\ \E text \in Found(del.t) :
             /\ tokens' = tokens \union {[t |-> del.t, prov |-> row[d][del.t], text |-> text]}
             /\ \/ /\ row' = [row EXCEPT ![d][del.t] = None]
                   /\ del' = Rest([del EXCEPT !.left = @ \ {d}, !.remove = text # Missing])
                   /\ touched' = Touch(del.t)
                \/ del' = Rest([del EXCEPT !.left = @ \ {d}]) /\ UNCHANGED <<row, touched>>
  /\ UNCHANGED <<file, index, lock, saved, run, clean, counters, said, exposed, last>>

RemoveFile ==
  /\ del.remove
  /\ file' = [file EXCEPT ![del.t] = Missing] \/ UNCHANGED file
  /\ del' = Rest([del EXCEPT !.remove = FALSE])
  /\ touched' = Touch(del.t)
  /\ UNCHANGED <<row, index, lock, saved, tokens, run, clean, counters, said, exposed, last>>

\* detect_restore_conflicts, detect_file_restore_conflicts
NoConflict(k) ==
  row[FirstDb][k.t] = None /\ (k.text = Missing \/ ~Present(k.t))

\* undo: the row, in the first database whichever it was in, and then the file.  From
\* there on Codex continues with the lines of this backup.
Undo ==
  /\ \E k \in tokens :
       /\ NoConflict(k)
       /\ row' = [row EXCEPT ![FirstDb][k.t] = k.prov]
       /\ \/ /\ k.text # Missing
             /\ file' = [file EXCEPT ![k.t] = k.text]
             /\ said' = [said EXCEPT ![k.t] = k.text.lines]
             /\ Exposed(k.t)
          \/ UNCHANGED <<file, said, exposed>>
       /\ touched' = Touch(k.t)
       /\ clean' = IF clean.phase \in {"comparing", "writing"}
                   THEN [clean EXCEPT !.late = @ \union {k.t}] ELSE clean
  /\ UNCHANGED <<index, lock, saved, tokens, run, del, counters, last>>

-----------------------------------------------------------------------------
(* A process ends.  Nothing in the code removes the lock it leaves behind.   *)

Crash ==
  /\ \/ \E r \in Runs : Repairing(r) /\ Go(r, NoRun) /\ touched' = {} /\ UNCHANGED <<clean, del>>
     \/ clean # NoCleanup /\ ToClean(NoCleanup) /\ UNCHANGED <<run, del, touched>>
     \/ del # NoDeletion /\ del' = NoDeletion /\ UNCHANGED <<run, clean, touched>>
  /\ UNCHANGED <<dataVars, lock, saved, tokens, counters, said, exposed, last>>

-----------------------------------------------------------------------------
RepairStep(r) ==
  \/ Begin(r) \/ BeginFails(r) \/ UpToDate(r) \/ SaveOriginals(r) \/ WriteFile(r)
  \/ UpdateRows(r) \/ FinishRepair(r) \/ RestoreFile(r) \/ Release(r)

CleanupStep == Apply \/ Look \/ Compare \/ WriteIndex
DeletionStep == (\E d \in Dbs : DeleteRow(d)) \/ RemoveFile \/ Undo

DataNext ==
  \/ \E t \in Threads : NewThread(t) \/ AppendLine(t) \/ Name(t) \/ Delete(t)
  \/ \E r \in Runs : RepairStep(r)
  \/ CleanupStep \/ DeletionStep
  \/ Crash

DataSpec == DataInit /\ [][DataNext]_codexVars

-----------------------------------------------------------------------------
(* Properties                                                                *)

\* A repair that says it is done has left every session it read, and all rows, with its
\* provider; one that failed in a later step has put every file back, although Codex
\* adds lines meanwhile.  Not meant: sessions created, deleted or brought back during it,
\* the rows of a failed repair (those of the first databases stay changed), and a repair
\* that stopped at a file it could neither write nor put back.
AllOrNothing ==
  \A r \in Runs : At(r, "leaving") =>
    \A t \in {u \in Threads : run[r].text[u] # Missing} \ touched :
      /\ run[r].end = "synced" =>
           /\ file[t].prov = run[r].target
           /\ \A d \in Dbs : row[d][t] \in {None, run[r].target}
      /\ run[r].end = "failed" => file[t].prov = run[r].text[t].prov

\* Whatever stops a repair, the provider it found in a file it has overwritten can be
\* read in its backup, as long as it is among the last ones made.
OriginalsBackedUp ==
  \A t \in Threads :
    (last[t].n # 0 /\ last[t].n + Keep > serial) =>
      \E b \in saved : b.n = last[t].n /\ t \in DOMAIN b.prov /\ b.prov[t] = last[t].prov

\* No line of a session disappears: the file has all Codex has written, or a backup of a
\* deletion has.  Only what is written while a repair has its text of the file in hand,
\* or a deletion its copy, may be overwritten or removed, and a session that is brought
\* back in that time.
NothingLost ==
  \A t \in Threads \ exposed :
    \/ file[t].lines >= said[t]
    \/ \E k \in tokens : k.t = t /\ k.text.lines >= said[t]

\* The cleanup takes out what the user has ticked and nothing that belongs to a session
\* again; Codex may lose an entry made after the last comparison, and a session its
\* entry when it is brought back after the last look.
IndexSpares ==
  [][\A t \in index \ index' :
       \/ t \in clean.chosen /\ (Live(t) => t \in clean.late)
       \/ t \in clean.fresh]_codexVars
=============================================================================
