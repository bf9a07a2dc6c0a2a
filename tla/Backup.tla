------------------------------- MODULE Backup -------------------------------
(***************************************************************************)
(* Snapshots of the database in a folder (backup/snapshot.py,              *)
(* scripts/backup_db.py) and the restore of an advisor's Renova cases and  *)
(* their follow-ups (backup/restore.py, scripts/restore_renova.py), run as *)
(* processes of their own while the application goes on, and killed at any *)
(* point.                                                                  *)
(*                                                                         *)
(* A row is an abstract value with the owner columns of its case.  A file  *)
(* is its name, its body and what the .sha256 beside it was computed from  *)
(* (nothing, if there is none).  The name is the second of created_at and  *)
(* a label, so two restores may share one, and the files of a name with    *)
(* it: .partial, target and .sha256.                                       *)
(***************************************************************************)
EXTENDS RenovaAccess, Naturals, FiniteSets, FiniteSetsExt

CONSTANTS
    Cases,          \* ids of renova_cases
    FollowUps,      \* ids of renova_follow_up_activities
    CaseOf,         \* CaseOf[f]: the renova_case_id of f
    Contents,       \* what the remaining columns of a row may hold
    BackupRuns,     \* runs of backup_db.py
    RestoreRuns,    \* runs of restore_renova.py --apply
    Targets,        \* what --advisor and --case name: see Target
    Start,          \* what the database may hold at first
    Keep            \* --keep

Ids == Cases \cup FollowUps
Runs == BackupRuns \cup RestoreRuns

\* A follow-up has the owner columns too, always Null.
Row == [assignee : Users \cup {Null}, creator : Users \cup {Null}, content : Contents]

Target == [advisor : Users \cup {Null}, ids : SUBSET Cases]

ASSUME BackupAssumption ==
    /\ CaseOf \in [FollowUps -> Cases]
    /\ Cases \cap FollowUps = {} /\ BackupRuns \cap RestoreRuns = {}
    /\ Targets \subseteq Target
    /\ Start \subseteq [Ids -> Row \cup {Null}]
    /\ IsFiniteSet(Runs) /\ Keep \in Nat
    /\ Null \notin Cases \cup FollowUps

VARIABLES
    db,         \* db[id]: the row, or Null
    files,      \* the files of the backup folder
    job,        \* job[p]: where a run is and what it holds
    second,     \* what the clock says
    audited     \* RENOVA_CASE_RESTORED_FROM_BACKUP entries, <<run, case>>

vars == <<db, files, job, second, audited>>

NoJob == [pc |-> "idle", rows |-> Null, stamp |-> 0, seen |-> Null, plan |-> Null,
          overwrite |-> FALSE, doomed |-> {}]

-----------------------------------------------------------------------------
(* The folder.                                                             *)

\* list_backups: a .partial file is not one of them
Listed == {f \in files : f.real}

Names == {f.stamp : f \in Listed}

\* In the order of names: -antes-de-restaurar.json.gz comes before .json.gz.
NameAt(p, s) == 2 * s + (IF p \in BackupRuns THEN 1 ELSE 0)

\* The bytes of a file: whose snapshot of what, to its last byte, as written
Body(p) == [by |-> p, rows |-> job[p].rows, whole |-> FALSE, damaged |-> FALSE]

\* Another process is writing the .partial file of the same name.
Shared(p) == \E q \in Runs \ {p} : job[q].pc = "replace" /\ job[q].stamp = job[p].stamp

\* Mutant: the snapshot is written under its real name.
NewFileInPlace(p) ==
    [stamp |-> job[p].stamp, real |-> TRUE, mixed |-> Shared(p), body |-> Body(p), sum |-> {}]

\* The .partial file
NewFile(p) ==
    [stamp |-> job[p].stamp, real |-> FALSE, mixed |-> Shared(p), body |-> Body(p), sum |-> {}]

\* load_snapshot: half a file does not unpack, and its bytes are those hashed;
\* without a .sha256 it is believed.
Loads(f) == f.body.whole /\ f.sum \subseteq {f.body}

\* The files by the names a run uses
Partial(p) == {f \in files : ~f.real /\ f.stamp = job[p].stamp}
Own(p) == {f \in files : f.real /\ f.stamp = job[p].stamp}

\* What lies beside the target
Beside(p) == IF Own(p) = {} THEN {} ELSE (CHOOSE f \in Own(p) : TRUE).sum

\* What a file may hold after the last bytes of a run: its snapshot, or what
\* two that write at once leave of theirs.
Written(p, f) ==
    IF f.mixed THEN {[b EXCEPT !.whole = w] : b \in {f.body, Body(p)}, w \in BOOLEAN}
    ELSE {[f.body EXCEPT !.whole = TRUE]}

\* Mutant: the list is read newest first.
ExcessNewest == {s \in Names : Cardinality({t \in Names : t < s}) >= Keep}

\* prune_backups: all but the newest
Excess == {s \in Names : Cardinality({t \in Names : t > s}) >= Keep}

-----------------------------------------------------------------------------
(* The plan.                                                               *)

\* plan_renova_restore: the cases chosen, and their follow-ups
Chosen(rows, target) ==
    LET chosen == {c \in Cases : /\ rows[c] # Null
                                 /\ \/ c \in target.ids
                                    \/ /\ target.advisor # Null
                                       /\ target.advisor \in {rows[c].assignee, rows[c].creator}}
    IN  chosen \cup {f \in FollowUps : rows[f] # Null /\ CaseOf[f] \in chosen}

\* _compare with the rows as they are now
Compared(rows, target) ==
    [id \in Chosen(rows, target) |->
        CASE db[id] = Null -> "missing"
          [] db[id] = rows[id] -> "same"
          [] OTHER -> "changed"]

Planned(p, status) == {id \in DOMAIN job[p].plan : job[p].plan[id] = status}

\* What apply_renova_restore overwrites: an UPDATE finds what is there.
Overwritten(p) ==
    IF job[p].overwrite THEN {id \in Planned(p, "changed") : db[id] # Null} ELSE {}

Restored(p) == Planned(p, "missing") \cup
               (IF job[p].overwrite THEN Planned(p, "changed") ELSE {})

\* Mutant: INSERT ... ON CONFLICT DO UPDATE
InsertableOver(p) ==
    \A f \in Planned(p, "missing") \cap FollowUps :
        db[CaseOf[f]] # Null \/ CaseOf[f] \in Planned(p, "missing")

\* The primary keys, and the foreign key of a follow-up
Insertable(p) ==
    /\ \A id \in Planned(p, "missing") : db[id] = Null
    /\ \A f \in Planned(p, "missing") \cap FollowUps :
          db[CaseOf[f]] # Null \/ CaseOf[f] \in Planned(p, "missing")

-----------------------------------------------------------------------------
(* Actions.                                                                *)

\* With yesterday's backup in the folder
Init ==
    /\ db \in Start
    /\ files = LET body == [by |-> Null, rows |-> db, whole |-> TRUE, damaged |-> FALSE]
               IN  {[stamp |-> 1, real |-> TRUE, mixed |-> FALSE, body |-> body, sum |-> {body}]}
    /\ job = [p \in Runs |-> NoJob]
    /\ second = 1
    /\ audited = {}

Goto(p, pc) == job' = [job EXCEPT ![p].pc = pc]

Exit(p) == job' = [job EXCEPT ![p] = [NoJob EXCEPT !.pc = "done", !.stamp = job[p].stamp]]

\* plan_renova_restore of a backup given or the newest; --apply goes on if
\* there is something to restore
Plan(p, f, target, overwrite) ==
    /\ job[p].pc = "idle" /\ p \in RestoreRuns
    /\ f \in Listed /\ Loads(f)
    /\ LET plan == Compared(f.body.rows, target)
           todo == {"missing"} \cup (IF overwrite THEN {"changed"} ELSE {})
       IN  IF \E id \in DOMAIN plan : plan[id] \in todo
           THEN job' = [job EXCEPT ![p] = [NoJob EXCEPT !.pc = "take", !.seen = f, !.plan = plan,
                                                        !.overwrite = overwrite]]
           ELSE Exit(p)
    /\ UNCHANGED <<db, files, second, audited>>

\* take_snapshot: one repeatable-read transaction, then created_at
Take(p) ==
    /\ \/ job[p].pc = "idle" /\ p \in BackupRuns
       \/ job[p].pc = "take"
    /\ second' \in {second, second + 1}
    /\ job' = [job EXCEPT ![p].pc = "open", ![p].rows = db, ![p].stamp = NameAt(p, second')]
    /\ UNCHANGED <<db, files, audited>>

\* write_snapshot: gzip.open, the first bytes, over those of another
Open(p) ==
    /\ job[p].pc = "open"
    /\ files' = (files \ Partial(p)) \cup {NewFile(p)}
    /\ Goto(p, "replace")
    /\ UNCHANGED <<db, second, audited>>

\* The last bytes, and os.replace.  It fails if another run has renamed the
\* .partial file already: the last bytes went into the one under the real name.
Replace(p) ==
    /\ job[p].pc = "replace"
    /\ IF Partial(p) # {}
       THEN /\ \E f \in Partial(p) : \E body \in Written(p, f) :
                   files' = (files \ (Partial(p) \cup Own(p))) \cup
                            {[f EXCEPT !.real = TRUE, !.body = body, !.sum = Beside(p)]}
            /\ Goto(p, "sum")
       ELSE /\ IF Own(p) = {} THEN UNCHANGED files
               ELSE \E f \in Own(p) : \E body \in Written(p, f) :
                       files' = (files \ {f}) \cup {[f EXCEPT !.body = body]}
            /\ Exit(p)
    /\ UNCHANGED <<db, second, audited>>

\* The .sha256 beside it, of what is under the name by then
WriteSum(p) ==
    /\ job[p].pc = "sum"
    /\ files' = (files \ Own(p)) \cup {[f EXCEPT !.sum = {f.body}] : f \in Own(p)}
    /\ IF Own(p) = {} THEN Exit(p)
       ELSE Goto(p, IF p \in BackupRuns THEN "verify" ELSE "apply")
    /\ UNCHANGED <<db, second, audited>>

\* backup_db.py reads its file back before it deletes old ones
Verify(p) ==
    /\ job[p].pc = "verify"
    /\ IF \E f \in Own(p) : Loads(f)
       THEN job' = [job EXCEPT ![p].pc = "prune", ![p].doomed = Excess]
       ELSE Exit(p)
    /\ UNCHANGED <<db, files, second, audited>>

\* The next of the list, if another run has not deleted it
Prune(p) ==
    /\ job[p].pc = "prune"
    /\ IF job[p].doomed = {} THEN Exit(p) /\ UNCHANGED files
       ELSE \E s \in job[p].doomed :
               /\ \A t \in job[p].doomed : s <= t
               /\ IF s \in Names
                  THEN /\ files' = {f \in files : f.real => f.stamp # s}
                       /\ job' = [job EXCEPT ![p].doomed = @ \ {s}]
                  ELSE Exit(p) /\ UNCHANGED files
    /\ UNCHANGED <<db, second, audited>>

\* apply_renova_restore: one transaction, with an audit entry for each case
Apply(p) ==
    /\ job[p].pc = "apply"
    /\ IF Insertable(p)
       THEN /\ db' = [id \in Ids |->
                         IF id \in Planned(p, "missing") \cup Overwritten(p)
                         THEN job[p].seen.body.rows[id] ELSE db[id]]
            /\ audited' = audited \cup
                  {<<p, IF id \in Cases THEN id ELSE CaseOf[id]>> : id \in Restored(p)}
       ELSE UNCHANGED <<db, audited>>
    /\ Exit(p)
    /\ UNCHANGED <<files, second>>

\* The run is killed.
Kill(p) ==
    /\ job[p].pc \notin {"idle", "done"}
    /\ Exit(p)
    /\ UNCHANGED <<db, files, second, audited>>

\* A file is edited, and still unpacks.
Damage(f) ==
    /\ f \in Listed /\ ~f.body.damaged
    /\ files' = (files \ {f}) \cup {[f EXCEPT !.body.damaged = TRUE]}
    /\ UNCHANGED <<db, job, second, audited>>

\* The application edits or reassigns a row.
Edit(id, row) ==
    /\ db[id] # Null /\ db[id] # row
    /\ row.creator = db[id].creator /\ (id \in FollowUps => row.assignee = Null)
    /\ db' = [db EXCEPT ![id] = row]
    /\ UNCHANGED <<files, job, second, audited>>

\* Somebody deletes a case in the database, and its follow-ups with it.
Delete(c) ==
    /\ db[c] # Null
    /\ db' = [id \in Ids |-> IF id = c \/ (id \in FollowUps /\ CaseOf[id] = c) THEN Null ELSE db[id]]
    /\ UNCHANGED <<files, job, second, audited>>

Next ==
    \/ \E p \in Runs :
          \/ \E f \in Listed, t \in Targets, o \in BOOLEAN : Plan(p, f, t, o)
          \/ Take(p) \/ Open(p) \/ Replace(p) \/ WriteSum(p) \/ Verify(p) \/ Prune(p)
          \/ Apply(p) \/ Kill(p)
    \/ \E f \in Listed : Damage(f)
    \/ \E id \in Ids, row \in Row : Edit(id, row)
    \/ \E c \in Cases : Delete(c)

Spec == Init /\ [][Next]_vars

-----------------------------------------------------------------------------
(* Properties.                                                             *)

\* Two runs have taken their snapshots in one second under one label.
Contested(s) == \E p, q \in Runs : p # q /\ job[p].stamp = s /\ job[q].stamp = s

\* "A crash mid-write never leaves a half file under the real name", unless two
\* runs share the name.  What a restore works from is whole, and damaged only if
\* that was before the checksum was taken, which is after the rename.
PlansFromWhole ==
    /\ \A f \in Listed : f.body.whole \/ Contested(f.stamp)
    /\ \A p \in RestoreRuns : job[p].seen # Null =>
          LET f == job[p].seen
          IN  f.body.whole /\ (f.body.damaged => \A hashed \in f.sum : hashed.damaged)

Applies(p) == job[p].pc = "apply" /\ job'[p].pc = "done" /\ db' # db

\* "Without overwrite a restore can never undo newer edits - it only fills
\* holes", although it was planned on what another run may have restored and
\* others edited since; and every case it changed has its audit entry.
OnlyFillsHoles ==
    [][\A p \in RestoreRuns : Applies(p) =>
          /\ ~job[p].overwrite => \A id \in Ids : db[id] # Null => db'[id] = db[id]
          /\ \A id \in Ids : db'[id] # db[id] =>
                <<p, IF id \in Cases THEN id ELSE CaseOf[id]>> \in audited']_vars

\* The names taken after one
Later(s) == {job[q].stamp : q \in {p \in Runs : job[p].stamp > s}}

\* "So a restore itself can be undone": a row overwritten as it was when the
\* safety copy was taken is in a whole file of the folder, with a checksum,
\* whatever a pruning deletes meanwhile, unless another run took the same name or
\* --keep or more took later ones.
OverwrittenIsSaved ==
    [][\A p \in RestoreRuns, id \in Ids :
          /\ Applies(p) /\ db[id] # Null /\ db'[id] # db[id] /\ job[p].rows[id] = db[id]
          /\ ~Contested(job[p].stamp) /\ Cardinality(Later(job[p].stamp)) < Keep
          => \E f \in Listed : f.body.rows[id] = db[id] /\ f.body.whole /\ f.sum # {}]_vars

=============================================================================
