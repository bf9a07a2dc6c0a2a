------------------------------ MODULE MCBackup ------------------------------
(* One case and its follow-up, a daily backup and two restores, beside      *)
(* yesterday's backup; an advisor who created the case and one it may go to. *)
EXTENDS Backup, TLC

CONSTANTS ana, luis, k, call, v, b1, s1, s2

MCUsers == {ana, luis}
MCCases == {k}
MCFollowUps == {call}
MCCaseOf == (call :> k)
MCContents == {v}
MCBackupRuns == {b1}
MCRestoreRuns == {s1, s2}
MCTargets == {[advisor |-> ana, ids |-> {}], [advisor |-> Null, ids |-> {k}]}
MCStart == {k :> [assignee |-> ana, creator |-> ana, content |-> v]
            @@ call :> [assignee |-> Null, creator |-> Null, content |-> v]}

Symmetry == Permutations(MCRestoreRuns)

\* The case is reassigned to luis and only a restore gives it back.  One file at
\* most is damaged, yesterday's before the runs or one without its checksum yet.
\* The snapshots are of two seconds.  A run killed where nobody can tell stays
\* where it is.
MCNext ==
    /\ Next /\ second' <= 2
    /\ audited' = audited => ~\E id \in Ids : db[id] # Null /\ db'[id] # Null /\ db'[id] # db[id]
                                            /\ db'[id].assignee # luis
    /\ \A g, h \in files' : g.body.damaged /\ h.body.damaged => g = h
    /\ \A g \in files : Damage(g) => g.sum = {} \/ \A p \in Runs : job[p] = NoJob
    /\ \A p \in Runs : job'[p].pc = "done" =>
          CASE job[p].pc \in {"take", "open"} -> FALSE
            [] job[p].pc \in {"sum", "verify"} -> Own(p) = {} \/ \E g \in Own(p) : ~Loads(g)
            [] job[p].pc = "apply" -> Insertable(p) => audited' # audited
            [] job[p].pc = "prune" -> job[p].doomed = {}
            [] OTHER -> TRUE

MCSpec == Init /\ [][MCNext]_vars
=============================================================================
