---------------------------- MODULE BackupProofs ----------------------------
(***************************************************************************)
(* Proofs about Backup, for any number of backups and restores that        *)
(* overlap, in whatever seconds they take their snapshots, any --keep, any *)
(* rows and any time at which they are killed.                             *)
(*                                                                         *)
(* A name that two runs have taken is promised nothing; what is proved of  *)
(* the others rests on one fact, that names are only ever added, so that a *)
(* name is contested, or old enough to be pruned, for good.                *)
(***************************************************************************)
EXTENDS Backup, FiniteSetTheorems, TLAPS

-----------------------------------------------------------------------------
(* The invariant.                                                          *)

\* A run that holds a snapshot and has not ended.
Busy == {"open", "replace", "sum", "verify", "prune", "apply"}

Bytes(b) == b = [by |-> b.by, rows |-> b.rows, whole |-> b.whole, damaged |-> b.damaged]

File(f) ==
    /\ f = [stamp |-> f.stamp, real |-> f.real, mixed |-> f.mixed, body |-> f.body,
            sum |-> f.sum]
    /\ Bytes(f.body)
    /\ f.stamp \in Nat /\ f.stamp >= 1

Job(q) ==
    /\ q = [pc |-> q.pc, rows |-> q.rows, stamp |-> q.stamp, seen |-> q.seen, plan |-> q.plan,
            overwrite |-> q.overwrite, doomed |-> q.doomed]
    /\ q.pc \in Busy \cup {"idle", "take", "done"}
    /\ q.stamp \in Nat
    /\ q.pc \in Busy => q.stamp >= 1
    /\ q.pc \in {"idle", "take"} => q.stamp = 0

Typed ==
    /\ second \in Nat /\ second >= 1
    /\ \A f \in files : File(f)
    /\ job = [p \in Runs |-> job[p]]
    /\ \A p \in Runs : Job(job[p])

\* A file has the name of a snapshot that was taken, and is half written under
\* its real name, or written by two, only if two took that name.
Placed(f) ==
    /\ f.stamp = 1 \/ \E q \in Runs : job[q].stamp = f.stamp
    /\ f.mixed => Contested(f.stamp)
    /\ f.real => f.body.whole \/ Contested(f.stamp)

\* A snapshot is worked from only if it is whole and its checksum does not speak
\* against it.
Sound(q) ==
    q.seen # Null => /\ q.seen.body.whole
                     /\ q.seen.body.damaged => \A hashed \in q.seen.sum : hashed.damaged

\* --keep later snapshots have been taken.
Ample(s) == Cardinality(Later(s)) >= Keep

\* Only such files are deleted.
Spared(q) == \A s \in q.doomed : s \in Nat /\ s >= 1 /\ Ample(s)

\* The file of a run whose name nobody else took is there, as far along as the
\* run, until so many are newer.
Saved(p) ==
    ~Contested(job[p].stamp) =>
        /\ job[p].pc = "replace" =>
              /\ Partial(p) # {}
              /\ \A f \in Partial(p) : f.body.rows = job[p].rows
        /\ job[p].pc \in {"sum", "verify", "prune", "apply"} =>
              \/ Ample(job[p].stamp)
              \/ \E f \in Own(p) : /\ f.body.rows = job[p].rows /\ f.body.whole
                                   /\ job[p].pc # "sum" => f.sum # {}

IInv ==
    /\ Typed
    /\ \A f \in files : Placed(f)
    /\ \A p \in Runs : Sound(job[p]) /\ Spared(job[p]) /\ Saved(p)

-----------------------------------------------------------------------------
(* Names.                                                                  *)

\* A step that takes no snapshot changes nothing about names.
LEMMA SameNames ==
    ASSUME \A r \in Runs : job'[r].stamp = job[r].stamp, NEW s
    PROVE  /\ Contested(s)' <=> Contested(s)
           /\ Ample(s)' <=> Ample(s)
           /\ (\E q \in Runs : job'[q].stamp = s) <=> (\E q \in Runs : job[q].stamp = s)
  <1>1. Later(s)' = Later(s)
    <2>1. {p \in Runs : job'[p].stamp > s} = {p \in Runs : job[p].stamp > s}
      OBVIOUS
    <2>2. QED
      BY <2>1 DEF Later
  <1>2. QED
    BY <1>1 DEF Contested, Ample

\* There are as many names at most as runs.
LEMMA FinitelyMany ==
    ASSUME NEW s, NEW j
    PROVE  IsFiniteSet({j[q].stamp : q \in {p \in Runs : j[p].stamp > s}})
  <1>1. PICK R : R = {p \in Runs : j[p].stamp > s}
    OBVIOUS
  <1>2. IsFiniteSet(R)
    BY <1>1, BackupAssumption, FS_Subset
  <1>3. PICK m, T : m = [q \in R |-> j[q].stamp] /\ T = {j[q].stamp : q \in R}
    OBVIOUS
  <1>4. m \in Surjection(R, T)
    BY <1>3 DEF Surjection
  <1>5. IsFiniteSet(T)
    BY <1>2, <1>4, FS_Surjection
  <1>6. QED
    BY <1>1, <1>3, <1>5

\* A snapshot adds a name and takes none back.
LEMMA MoreNames ==
    ASSUME IInv, NEW p \in Runs, job[p].stamp = 0, job'[p].stamp \in Nat,
           \A r \in Runs : r # p => job'[r] = job[r],
           NEW s \in Nat, s >= 1
    PROVE  /\ Contested(s) => Contested(s)'
           /\ Ample(s) => Ample(s)'
           /\ (\E q \in Runs : job[q].stamp = s) => (\E q \in Runs : job'[q].stamp = s)
  <1>1. Later(s) \subseteq Later(s)'
    <2>1. ASSUME NEW t \in Later(s) PROVE t \in Later(s)'
      <3>1. PICK q \in Runs : job[q].stamp > s /\ t = job[q].stamp
        BY DEF Later
      <3>2. q # p /\ job'[q] = job[q]
        BY <3>1
      <3>3. QED
        BY <3>1, <3>2 DEF Later
    <2>2. QED
      BY <2>1
  <1>2. IsFiniteSet(Later(s)')
    BY FinitelyMany DEF Later
  <1>3. Ample(s) => Ample(s)'
    <2>1. /\ Cardinality(Later(s)) \in Nat /\ Cardinality(Later(s)') \in Nat
          /\ Cardinality(Later(s)) <= Cardinality(Later(s)')
      BY <1>1, <1>2, FS_Subset, FS_CardinalityType
    <2>2. QED
      BY <2>1, BackupAssumption DEF Ample
  <1>4. QED
    BY <1>3 DEF Contested

\* prune_backups takes only what is older than --keep snapshots that were taken.
LEMMA Pruned ==
    ASSUME IInv, NEW s \in Excess
    PROVE  s \in Nat /\ s >= 1 /\ Ample(s)
  <1>1. s \in Nat /\ s >= 1
    BY DEF Excess, Names, Listed, IInv, Typed, File
  <1>2. PICK N : N = {t \in Names : t > s}
    OBVIOUS
  <1>3. N \subseteq Later(s)
    <2>1. ASSUME NEW t \in N PROVE t \in Later(s)
      <3>1. PICK f \in files : f.stamp = t
        BY <1>2, <2>1 DEF Names, Listed
      <3>2. t > s /\ t # 1
        BY <1>1, <1>2, <3>1 DEF IInv, Typed, File
      <3>3. PICK q \in Runs : job[q].stamp = t
        BY <3>1, <3>2 DEF IInv, Placed
      <3>4. QED
        BY <3>2, <3>3 DEF Later
    <2>2. QED
      BY <2>1
  <1>4. IsFiniteSet(Later(s))
    BY FinitelyMany DEF Later
  <1>5. /\ Cardinality(N) \in Nat /\ Cardinality(Later(s)) \in Nat
        /\ Cardinality(N) <= Cardinality(Later(s))
    BY <1>3, <1>4, FS_Subset, FS_CardinalityType
  <1>6. Cardinality(N) >= Keep
    BY <1>2 DEF Excess
  <1>7. QED
    BY <1>1, <1>5, <1>6, BackupAssumption DEF Ample

-----------------------------------------------------------------------------
(* Runs and files.                                                         *)

\* A run moves on, and the others stay.
LEMMA Moved ==
    ASSUME Typed, NEW p \in Runs, NEW q, job' = [job EXCEPT ![p] = q]
    PROVE  /\ job' = [r \in Runs |-> job'[r]]
           /\ job'[p] = q
           /\ \A r \in Runs : r # p => job'[r] = job[r]
  <1>1. job = [r \in Runs |-> job[r]]
    BY DEF Typed
  <1>2. QED
    BY <1>1

\* A run that exits keeps no plan and no doomed file, but its name is taken.
LEMMA Ended ==
    ASSUME Typed, NEW p \in Runs, Exit(p)
    PROVE  /\ job' = [r \in Runs |-> job'[r]]
           /\ \A r \in Runs : r # p => job'[r] = job[r]
           /\ Job(job'[p])
           /\ job'[p].pc = "done" /\ job'[p].seen = Null /\ job'[p].doomed = {}
           /\ job'[p].stamp = job[p].stamp
  <1>1. PICK q : q = [NoJob EXCEPT !.pc = "done", !.stamp = job[p].stamp]
    OBVIOUS
  <1>2. q.pc = "done" /\ q.seen = Null /\ q.doomed = {} /\ q.stamp = job[p].stamp
    BY <1>1 DEF NoJob
  <1>3. q = [pc |-> q.pc, rows |-> q.rows, stamp |-> q.stamp, seen |-> q.seen, plan |-> q.plan,
             overwrite |-> q.overwrite, doomed |-> q.doomed]
    BY <1>1 DEF NoJob
  <1>4. job' = [job EXCEPT ![p] = q]
    BY <1>1 DEF Exit
  <1>5. /\ job' = [r \in Runs |-> job'[r]] /\ job'[p] = q
        /\ \A r \in Runs : r # p => job'[r] = job[r]
    BY <1>4, Moved
  <1>6. job[p].stamp \in Nat
    BY DEF Typed, Job
  <1>7. QED
    BY <1>2, <1>3, <1>5, <1>6 DEF Job, Busy

\* A run that goes on keeps its snapshot, plan and name.
LEMMA Gone ==
    ASSUME Typed, NEW p \in Runs, NEW pc, Goto(p, pc)
    PROVE  /\ job' = [r \in Runs |-> job'[r]]
           /\ \A r \in Runs : r # p => job'[r] = job[r]
           /\ job'[p].pc = pc /\ job'[p].rows = job[p].rows /\ job'[p].stamp = job[p].stamp
           /\ job'[p].seen = job[p].seen /\ job'[p].doomed = job[p].doomed
           /\ job[p].pc \in Busy /\ pc \in Busy => Job(job'[p])
  <1>1. Job(job[p]) /\ job = [r \in Runs |-> job[r]]
    BY DEF Typed
  <1>2. PICK q : q = [job[p] EXCEPT !.pc = pc]
    OBVIOUS
  <1>3. /\ q.pc = pc /\ q.rows = job[p].rows /\ q.stamp = job[p].stamp
        /\ q.seen = job[p].seen /\ q.doomed = job[p].doomed
    BY <1>1, <1>2 DEF Job
  <1>4. q = [pc |-> q.pc, rows |-> q.rows, stamp |-> q.stamp, seen |-> q.seen, plan |-> q.plan,
             overwrite |-> q.overwrite, doomed |-> q.doomed]
    BY <1>1, <1>2 DEF Job
  <1>5. job' = [job EXCEPT ![p] = q]
    BY <1>1, <1>2 DEF Goto
  <1>6. /\ job' = [r \in Runs |-> job'[r]] /\ job'[p] = q
        /\ \A r \in Runs : r # p => job'[r] = job[r]
    BY <1>5, Moved
  <1>7. QED
    BY <1>1, <1>3, <1>4, <1>6 DEF Job, Busy

\* A run that touches only files of its own name disturbs no other: those it
\* could disturb have the same name, and are promised nothing.
LEMMA Steps ==
    ASSUME IInv, NEW p \in Runs, second' = second, job' = [r \in Runs |-> job'[r]],
           \A r \in Runs : r # p => job'[r] = job[r],
           Job(job'[p]), job'[p].stamp = job[p].stamp, Sound(job'[p]), Spared(job'[p]),
           \A f \in files' : File(f) /\ Placed(f),
           \A f \in files : f.stamp # job[p].stamp => f \in files',
           \A f \in files' : f.stamp # job[p].stamp => f \in files,
           Saved(p)'
    PROVE  IInv'
  <1>1. \A r \in Runs : job'[r].stamp = job[r].stamp
    OBVIOUS
  <1>2. Typed'
    BY DEF IInv, Typed
  <1>3. \A f \in files' : Placed(f)'
    <2>1. ASSUME NEW f \in files' PROVE Placed(f)'
      <3>1. Placed(f)
        OBVIOUS
      <3>2. /\ Contested(f.stamp)' <=> Contested(f.stamp)
            /\ (\E q \in Runs : job'[q].stamp = f.stamp) <=> (\E q \in Runs : job[q].stamp = f.stamp)
        BY <1>1, SameNames
      <3>3. QED
        BY <3>1, <3>2 DEF Placed
    <2>2. QED
      BY <2>1
  <1>4. ASSUME NEW r \in Runs PROVE Sound(job[r])'
    BY DEF IInv, Sound
  <1>5. ASSUME NEW r \in Runs PROVE Spared(job[r])'
    <2>1. Spared(job'[r])
      BY DEF IInv
    <2>2. \A s \in job'[r].doomed : Ample(s)' <=> Ample(s)
      BY <1>1, SameNames
    <2>3. QED
      BY <2>1, <2>2 DEF Spared
  <1>6. ASSUME NEW r \in Runs, r # p PROVE Saved(r)'
    <2>1. job'[r] = job[r] /\ Saved(r)
      BY <1>6 DEF IInv
    <2>2. /\ Contested(job[r].stamp)' <=> Contested(job[r].stamp)
          /\ Ample(job[r].stamp)' <=> Ample(job[r].stamp)
      BY <1>1, <2>1, SameNames
    <2>3. CASE job[r].stamp = job[p].stamp
      <3>1. Contested(job[r].stamp)'
        BY <1>1, <1>6, <2>3 DEF Contested
      <3>2. QED
        BY <3>1 DEF Saved
    <2>4. CASE job[r].stamp # job[p].stamp
      <3>1. Partial(r)' = Partial(r)
        BY <2>1, <2>4 DEF Partial
      <3>2. Own(r)' = Own(r)
        BY <2>1, <2>4 DEF Own
      <3>3. QED
        BY <2>1, <2>2, <3>1, <3>2 DEF Saved
    <2>5. QED
      BY <2>3, <2>4
  <1>7. QED
    BY <1>2, <1>3, <1>4, <1>5, <1>6 DEF IInv

\* A run that ends leaves everything to the others.
LEMMA Ends ==
    ASSUME IInv, NEW p \in Runs, Exit(p), second' = second,
           \A f \in files' : File(f) /\ Placed(f),
           \A f \in files : f.stamp # job[p].stamp => f \in files',
           \A f \in files' : f.stamp # job[p].stamp => f \in files
    PROVE  IInv'
  <1>1. /\ job' = [r \in Runs |-> job'[r]]
        /\ \A r \in Runs : r # p => job'[r] = job[r]
        /\ Job(job'[p])
        /\ job'[p].pc = "done" /\ job'[p].seen = Null /\ job'[p].doomed = {}
        /\ job'[p].stamp = job[p].stamp
    BY Ended DEF IInv
  <1>2. Sound(job'[p]) /\ Spared(job'[p]) /\ Saved(p)'
    BY <1>1 DEF Sound, Spared, Saved
  <1>3. QED
    BY <1>1, <1>2, Steps

\* A run that ends without touching a file.
LEMMA Leaves ==
    ASSUME IInv, NEW p \in Runs, Exit(p), second' = second, files' = files
    PROVE  IInv'
  <1>1. \A f \in files' : File(f) /\ Placed(f)
    BY DEF IInv, Typed
  <1>2. QED
    BY <1>1, Ends

-----------------------------------------------------------------------------
(* The steps.                                                              *)

\* A restore plans on a file it could load.
LEMMA PlanKeeps ==
    ASSUME IInv, NEW p \in Runs, NEW f \in Listed, NEW t, NEW o, Plan(p, f, t, o)
    PROVE  IInv'
  <1>1. CASE Exit(p)
    BY <1>1, Leaves DEF Plan
  <1>2. CASE ~Exit(p)
    <2>1. PICK plan, q : /\ q = [NoJob EXCEPT !.pc = "take", !.seen = f, !.plan = plan,
                                              !.overwrite = o]
                         /\ job' = [job EXCEPT ![p] = q]
      BY <1>2 DEF Plan
    <2>2. q.pc = "take" /\ q.seen = f /\ q.doomed = {} /\ q.stamp = 0
      BY <2>1 DEF NoJob
    <2>3. q = [pc |-> q.pc, rows |-> q.rows, stamp |-> q.stamp, seen |-> q.seen, plan |-> q.plan,
               overwrite |-> q.overwrite, doomed |-> q.doomed]
      BY <2>1 DEF NoJob
    <2>4. Typed
      BY DEF IInv
    <2>5. /\ job' = [r \in Runs |-> job'[r]] /\ job'[p] = q
          /\ \A r \in Runs : r # p => job'[r] = job[r]
      BY <2>1, <2>4, Moved
    <2>6. Job(job'[p])
      BY <2>2, <2>3, <2>5 DEF Job, Busy
    <2>7. Sound(job'[p])
      <3>1. f.body.whole /\ f.sum \subseteq {f.body}
        BY DEF Plan, Loads
      <3>2. QED
        BY <2>2, <2>5, <3>1 DEF Sound
    <2>8. files' = files /\ second' = second /\ job[p].stamp = 0
      BY DEF Plan, IInv, Typed, Job
    <2>9. Spared(job'[p]) /\ Saved(p)'
      BY <2>2, <2>5 DEF Spared, Saved
    <2>10. \A g \in files' : File(g) /\ Placed(g)
      BY <2>8 DEF IInv, Typed
    <2>11. job'[p].stamp = job[p].stamp
      BY <2>2, <2>5, <2>8
    <2>12. QED
      BY <2>5, <2>6, <2>7, <2>8, <2>9, <2>10, <2>11, Steps
  <1>3. QED
    BY <1>1, <1>2

\* The snapshot is taken, and the run has its name.
LEMMA TakeKeeps ==
    ASSUME IInv, NEW p \in Runs, Take(p)
    PROVE  IInv'
  <1>1. /\ Typed /\ job[p].pc \in {"idle", "take"} /\ job[p].stamp = 0
        /\ files' = files /\ second \in Nat /\ second >= 1 /\ second' \in {second, second + 1}
        /\ job' = [job EXCEPT ![p].pc = "open", ![p].rows = db, ![p].stamp = NameAt(p, second')]
        /\ Job(job[p]) /\ job = [r \in Runs |-> job[r]]
    BY DEF IInv, Typed, Job, Take
  <1>2. PICK n : n = NameAt(p, second')
    OBVIOUS
  <1>3. n \in Nat /\ n >= 1 /\ second' \in Nat /\ second' >= 1
    BY <1>1, <1>2 DEF NameAt
  <1>4. PICK q : q = [job[p] EXCEPT !.pc = "open", !.rows = db, !.stamp = n]
    OBVIOUS
  <1>5. job' = [job EXCEPT ![p] = q]
    BY <1>1, <1>2, <1>4
  <1>6. /\ q.pc = "open" /\ q.stamp = n /\ q.seen = job[p].seen /\ q.doomed = job[p].doomed
    BY <1>1, <1>4 DEF Job
  <1>7. q = [pc |-> q.pc, rows |-> q.rows, stamp |-> q.stamp, seen |-> q.seen, plan |-> q.plan,
             overwrite |-> q.overwrite, doomed |-> q.doomed]
    BY <1>1, <1>4 DEF Job
  <1>8. /\ job' = [r \in Runs |-> job'[r]] /\ job'[p] = q
        /\ \A r \in Runs : r # p => job'[r] = job[r]
    BY <1>1, <1>5, Moved
  <1>9. Typed'
    <2>1. Job(job'[p])
      BY <1>3, <1>6, <1>7, <1>8 DEF Job, Busy
    <2>2. QED
      BY <1>1, <1>3, <1>8, <2>1 DEF IInv, Typed
  <1>10. job'[p].stamp \in Nat
    BY <1>3, <1>6, <1>8
  <1>11. ASSUME NEW s \in Nat, s >= 1
         PROVE  /\ Contested(s) => Contested(s)'
                /\ Ample(s) => Ample(s)'
                /\ (\E r \in Runs : job[r].stamp = s) => (\E r \in Runs : job'[r].stamp = s)
    BY <1>1, <1>8, <1>10, <1>11, MoreNames
  <1>12. ASSUME NEW f \in files' PROVE Placed(f)'
    <2>1. Placed(f) /\ f.stamp \in Nat /\ f.stamp >= 1
      BY <1>1, <1>12 DEF IInv, Typed, File
    <2>2. QED
      BY <1>11, <2>1 DEF Placed
  <1>13. ASSUME NEW r \in Runs PROVE Sound(job[r])' /\ Spared(job[r])'
    <2>1. job'[r].seen = job[r].seen /\ job'[r].doomed = job[r].doomed
      BY <1>6, <1>8
    <2>2. Sound(job[r])'
      BY <2>1 DEF IInv, Sound
    <2>3. Spared(job[r])'
      BY <1>11, <2>1 DEF IInv, Spared
    <2>4. QED
      BY <2>2, <2>3
  <1>14. ASSUME NEW r \in Runs PROVE Saved(r)'
    <2>1. CASE r = p
      BY <1>6, <1>8, <2>1 DEF Saved
    <2>2. CASE r # p /\ job[r].pc \in Busy
      <3>1. job'[r] = job[r] /\ Saved(r) /\ job[r].stamp \in Nat /\ job[r].stamp >= 1
        BY <1>8, <2>2 DEF IInv, Typed, Job
      <3>2. PICK s \in Nat : s = job[r].stamp /\ s = job'[r].stamp /\ s >= 1
        BY <3>1
      <3>3. Partial(r)' = Partial(r) /\ Own(r)' = Own(r)
        BY <1>1, <3>1 DEF Partial, Own
      <3>4. (Contested(s) => Contested(s)') /\ (Ample(s) => Ample(s)')
        BY <1>11, <3>2
      <3>5. QED
        BY <3>1, <3>2, <3>3, <3>4 DEF Saved
    <2>3. CASE r # p /\ job[r].pc \notin Busy
      BY <1>8, <2>3 DEF Saved, Busy
    <2>4. QED
      BY <2>1, <2>2, <2>3
  <1>15. QED
    BY <1>9, <1>12, <1>13, <1>14 DEF IInv

\* The file a run opens is its own, unless its name is not.
LEMMA OpenKeeps ==
    ASSUME IInv, NEW p \in Runs, Open(p)
    PROVE  IInv'
  <1>1. /\ Typed /\ job[p].pc = "open" /\ Goto(p, "replace") /\ Job(job[p])
        /\ second' = second
    BY DEF IInv, Typed, Open
  <1>2. PICK n : n = NewFile(p)
    OBVIOUS
  <1>3. /\ files' = (files \ Partial(p)) \cup {n} /\ n.stamp = job[p].stamp
        /\ n.body = Body(p) /\ n.real = FALSE /\ n.mixed = Shared(p)
        /\ n = [stamp |-> n.stamp, real |-> n.real, mixed |-> n.mixed, body |-> n.body,
                sum |-> n.sum]
    BY <1>2 DEF Open, NewFile
  <1>4. Bytes(Body(p)) /\ Body(p).rows = job[p].rows
    BY DEF Bytes, Body
  <1>5. /\ job' = [r \in Runs |-> job'[r]]
        /\ \A r \in Runs : r # p => job'[r] = job[r]
        /\ job'[p].pc = "replace" /\ job'[p].rows = job[p].rows /\ job'[p].stamp = job[p].stamp
        /\ job'[p].seen = job[p].seen /\ job'[p].doomed = job[p].doomed
        /\ Job(job'[p])
    BY <1>1, Gone DEF Busy
  <1>6. File(n)
    BY <1>1, <1>3, <1>4 DEF File, Job, Busy
  <1>7. Placed(n)
    <2>1. n.mixed => Contested(n.stamp)
      BY <1>3 DEF Shared, Contested
    <2>2. QED
      BY <1>3, <2>1 DEF Placed
  <1>8. \A f \in files' : File(f) /\ Placed(f)
    BY <1>3, <1>6, <1>7 DEF IInv, Typed
  <1>9. Sound(job'[p]) /\ Spared(job'[p])
    BY <1>5 DEF IInv, Sound, Spared
  <1>10. Saved(p)'
    <2>1. Partial(p)' = {n}
      BY <1>3, <1>5 DEF Partial
    <2>2. QED
      BY <1>3, <1>4, <1>5, <2>1 DEF Saved
  <1>11. /\ \A f \in files : f.stamp # job[p].stamp => f \in files'
         /\ \A f \in files' : f.stamp # job[p].stamp => f \in files
    BY <1>3 DEF Partial
  <1>12. QED
    BY <1>1, <1>5, <1>8, <1>9, <1>10, <1>11, Steps

\* The last bytes make a file whole, or it is one that two have written.
LEMMA WrittenWhole ==
    ASSUME NEW p \in Runs, NEW f, File(f), Placed(f), NEW b \in Written(p, f)
    PROVE  /\ Bytes(b)
           /\ b.whole \/ Contested(f.stamp)
           /\ ~f.mixed => b.whole /\ b.rows = f.body.rows
  <1>1. CASE f.mixed
    <2>1. Contested(f.stamp) /\ Bytes(f.body) /\ Bytes(Body(p))
      BY <1>1 DEF File, Placed, Bytes, Body
    <2>2. PICK c \in {f.body, Body(p)}, w \in BOOLEAN : b = [c EXCEPT !.whole = w]
      BY <1>1 DEF Written
    <2>3. Bytes(b)
      BY <2>1, <2>2 DEF Bytes
    <2>4. QED
      BY <1>1, <2>1, <2>3
  <1>2. CASE ~f.mixed
    <2>1. b = [f.body EXCEPT !.whole = TRUE] /\ Bytes(f.body)
      BY <1>2 DEF Written, File
    <2>2. QED
      BY <2>1 DEF Bytes
  <1>3. QED
    BY <1>1, <1>2

\* Renaming puts the run's whole snapshot under its real name; where that fails,
\* the name is another run's too.
LEMMA ReplaceKeeps ==
    ASSUME IInv, NEW p \in Runs, Replace(p)
    PROVE  IInv'
  <1>1. /\ job[p].pc = "replace" /\ second' = second /\ Typed
        /\ \A f \in files : File(f) /\ Placed(f)
    BY DEF IInv, Typed, Replace
  <1>2. CASE Partial(p) # {}
    <2>1. Goto(p, "sum")
      BY <1>2 DEF Replace
    <2>0. PICK f \in Partial(p) : \E body \in Written(p, f) :
              files' = (files \ (Partial(p) \cup Own(p))) \cup
                       {[f EXCEPT !.real = TRUE, !.body = body, !.sum = Beside(p)]}
      BY <1>2 DEF Replace
    <2>2. PICK b \in Written(p, f) :
              files' = (files \ (Partial(p) \cup Own(p))) \cup
                       {[f EXCEPT !.real = TRUE, !.body = b, !.sum = Beside(p)]}
      BY <2>0
    <2>3. f \in files /\ f.stamp = job[p].stamp /\ File(f) /\ Placed(f)
      BY <1>1, <2>2 DEF Partial
    <2>4. /\ Bytes(b) /\ (b.whole \/ Contested(f.stamp))
          /\ ~f.mixed => b.whole /\ b.rows = f.body.rows
      BY <2>3, WrittenWhole
    <2>5. PICK g : g = [f EXCEPT !.real = TRUE, !.body = b, !.sum = Beside(p)]
      OBVIOUS
    <2>6. /\ g.stamp = f.stamp /\ g.real = TRUE /\ g.mixed = f.mixed /\ g.body = b
          /\ g = [stamp |-> g.stamp, real |-> g.real, mixed |-> g.mixed, body |-> g.body,
                  sum |-> g.sum]
      BY <2>3, <2>5 DEF File
    <2>7. File(g) /\ Placed(g)
      BY <2>3, <2>4, <2>6 DEF File, Placed
    <2>8. files' = (files \ (Partial(p) \cup Own(p))) \cup {g}
      BY <2>2, <2>5
    <2>9. /\ job' = [r \in Runs |-> job'[r]]
          /\ \A r \in Runs : r # p => job'[r] = job[r]
          /\ job'[p].pc = "sum" /\ job'[p].rows = job[p].rows /\ job'[p].stamp = job[p].stamp
          /\ job'[p].seen = job[p].seen /\ job'[p].doomed = job[p].doomed
          /\ Job(job'[p])
      BY <1>1, <2>1, Gone DEF Busy
    <2>10. \A h \in files' : File(h) /\ Placed(h)
      BY <1>1, <2>7, <2>8
    <2>11. Sound(job'[p]) /\ Spared(job'[p])
      BY <2>9 DEF IInv, Sound, Spared
    <2>12. Saved(p)'
      <3>1. Contested(job[p].stamp)' <=> Contested(job[p].stamp)
        BY <2>9 DEF Contested
      <3>2. CASE Contested(job[p].stamp)
        BY <2>9, <3>1, <3>2 DEF Saved
      <3>3. CASE ~Contested(job[p].stamp)
        <4>1. ~f.mixed /\ f.body.rows = job[p].rows
          BY <1>1, <2>2, <2>3, <3>3 DEF IInv, Saved, Placed
        <4>2. g \in Own(p)'
          BY <2>3, <2>6, <2>8, <2>9 DEF Own
        <4>3. g.body.rows = job'[p].rows /\ g.body.whole
          BY <2>4, <2>6, <2>9, <4>1
        <4>4. QED
          BY <2>9, <4>2, <4>3 DEF Saved
      <3>4. QED
        BY <3>2, <3>3
    <2>13. /\ \A h \in files : h.stamp # job[p].stamp => h \in files'
           /\ \A h \in files' : h.stamp # job[p].stamp => h \in files
      BY <2>3, <2>6, <2>8 DEF Partial, Own
    <2>14. QED
      BY <1>1, <2>9, <2>10, <2>11, <2>12, <2>13, Steps
  <1>3. CASE Partial(p) = {}
    <2>1. Exit(p)
      BY <1>3 DEF Replace
    <2>2. CASE Own(p) = {}
      BY <1>1, <1>3, <2>1, <2>2, Leaves DEF Replace
    <2>3. CASE Own(p) # {}
      <3>0. PICK f \in Own(p) : \E body \in Written(p, f) :
                files' = (files \ {f}) \cup {[f EXCEPT !.body = body]}
        BY <1>3, <2>3 DEF Replace
      <3>1. PICK b \in Written(p, f) : files' = (files \ {f}) \cup {[f EXCEPT !.body = b]}
        BY <3>0
      <3>2. f \in files /\ f.stamp = job[p].stamp /\ File(f) /\ Placed(f)
        BY <1>1, <3>1 DEF Own
      <3>3. Bytes(b) /\ (b.whole \/ Contested(f.stamp))
        BY <3>2, WrittenWhole
      <3>4. PICK g : g = [f EXCEPT !.body = b]
        OBVIOUS
      <3>5. /\ g.stamp = f.stamp /\ g.real = f.real /\ g.mixed = f.mixed /\ g.body = b
            /\ g = [stamp |-> g.stamp, real |-> g.real, mixed |-> g.mixed, body |-> g.body,
                    sum |-> g.sum]
        BY <3>2, <3>4 DEF File
      <3>6. File(g) /\ Placed(g)
        BY <3>2, <3>3, <3>5 DEF File, Placed
      <3>7. files' = (files \ {f}) \cup {g}
        BY <3>1, <3>4
      <3>8. /\ \A h \in files' : File(h) /\ Placed(h)
            /\ \A h \in files : h.stamp # job[p].stamp => h \in files'
            /\ \A h \in files' : h.stamp # job[p].stamp => h \in files
        BY <1>1, <3>2, <3>5, <3>6, <3>7
      <3>9. QED
        BY <1>1, <2>1, <3>8, Ends
    <2>4. QED
      BY <2>2, <2>3
  <1>4. QED
    BY <1>2, <1>3

\* The checksum goes beside the file of that name, if it is still there.
LEMMA WriteSumKeeps ==
    ASSUME IInv, NEW p \in Runs, WriteSum(p)
    PROVE  IInv'
  <1>1. /\ job[p].pc = "sum" /\ second' = second /\ Typed
        /\ \A f \in files : File(f) /\ Placed(f)
        /\ files' = (files \ Own(p)) \cup {[f EXCEPT !.sum = {f.body}] : f \in Own(p)}
    BY DEF IInv, Typed, WriteSum
  <1>2. ASSUME NEW f \in Own(p), NEW g, g = [f EXCEPT !.sum = {f.body}]
        PROVE  /\ File(g) /\ Placed(g) /\ g.stamp = f.stamp /\ g.real = f.real
               /\ g.body = f.body /\ g.sum # {}
    <2>1. f \in files /\ File(f) /\ Placed(f)
      BY <1>1 DEF Own
    <2>2. /\ g.stamp = f.stamp /\ g.real = f.real /\ g.mixed = f.mixed /\ g.body = f.body
          /\ g.sum = {f.body}
          /\ g = [stamp |-> g.stamp, real |-> g.real, mixed |-> g.mixed, body |-> g.body,
                  sum |-> g.sum]
      BY <1>2, <2>1 DEF File
    <2>3. QED
      BY <2>1, <2>2 DEF File, Placed
  <1>3. /\ \A f \in files' : File(f) /\ Placed(f)
        /\ \A f \in files : f.stamp # job[p].stamp => f \in files'
        /\ \A f \in files' : f.stamp # job[p].stamp => f \in files
    BY <1>1, <1>2 DEF Own
  <1>4. CASE Exit(p)
    BY <1>1, <1>3, <1>4, Ends
  <1>5. CASE ~Exit(p)
    <2>1. PICK pc \in {"verify", "apply"} : Goto(p, pc)
      BY <1>5 DEF WriteSum
    <2>2. /\ job' = [r \in Runs |-> job'[r]]
          /\ \A r \in Runs : r # p => job'[r] = job[r]
          /\ job'[p].pc = pc /\ job'[p].rows = job[p].rows /\ job'[p].stamp = job[p].stamp
          /\ job'[p].seen = job[p].seen /\ job'[p].doomed = job[p].doomed
          /\ Job(job'[p])
      BY <1>1, <2>1, Gone DEF Busy
    <2>3. Sound(job'[p]) /\ Spared(job'[p])
      BY <2>2 DEF IInv, Sound, Spared
    <2>4. Saved(p)'
      <3>1. /\ Contested(job[p].stamp)' <=> Contested(job[p].stamp)
            /\ Ample(job[p].stamp)' <=> Ample(job[p].stamp)
        <4>1. \A r \in Runs : job'[r].stamp = job[r].stamp
          BY <2>2
        <4>2. QED
          BY <4>1, SameNames
      <3>2. CASE Contested(job[p].stamp) \/ Ample(job[p].stamp)
        BY <2>2, <3>1, <3>2 DEF Saved
      <3>3. CASE ~Contested(job[p].stamp) /\ ~Ample(job[p].stamp)
        <4>1. PICK f \in Own(p) : f.body.rows = job[p].rows /\ f.body.whole
          BY <1>1, <3>3 DEF IInv, Saved
        <4>2. PICK g : g = [f EXCEPT !.sum = {f.body}]
          OBVIOUS
        <4>3. g \in files' /\ g.stamp = job[p].stamp /\ g.real /\ g.body = f.body /\ g.sum # {}
          <5>1. g.stamp = f.stamp /\ g.real = f.real /\ g.body = f.body /\ g.sum # {}
            BY <1>2, <4>1, <4>2
          <5>2. g \in files'
            BY <1>1, <4>1, <4>2
          <5>3. QED
            BY <4>1, <5>1, <5>2 DEF Own
        <4>4. g \in Own(p)'
          BY <2>2, <4>3 DEF Own
        <4>5. QED
          BY <2>1, <2>2, <4>1, <4>3, <4>4 DEF Saved
      <3>4. QED
        BY <3>2, <3>3
    <2>5. QED
      BY <1>1, <1>3, <2>2, <2>3, <2>4, Steps
  <1>6. QED
    BY <1>4, <1>5

\* A run that has a list of files to delete has touched none yet.
LEMMA Onward ==
    ASSUME IInv, NEW p \in Runs, NEW q, job' = [job EXCEPT ![p] = q],
           second' = second, files' = files,
           job[p].pc = "verify", q.pc = "prune", q.stamp = job[p].stamp, q.rows = job[p].rows,
           q.seen = job[p].seen, \A s \in q.doomed : s \in Nat /\ s >= 1 /\ Ample(s),
           q = [pc |-> q.pc, rows |-> q.rows, stamp |-> q.stamp, seen |-> q.seen,
                plan |-> q.plan, overwrite |-> q.overwrite, doomed |-> q.doomed]
    PROVE  IInv'
  <1>1. Typed /\ Job(job[p]) /\ \A f \in files' : File(f) /\ Placed(f)
    BY DEF IInv, Typed
  <1>2. /\ job' = [r \in Runs |-> job'[r]] /\ job'[p] = q
        /\ \A r \in Runs : r # p => job'[r] = job[r]
    BY <1>1, Moved
  <1>3. Job(job'[p])
    BY <1>1, <1>2 DEF Job, Busy
  <1>4. Sound(job'[p]) /\ Spared(job'[p])
    BY <1>2 DEF IInv, Sound, Spared
  <1>5. Saved(p)'
    <2>1. /\ Contested(job[p].stamp)' <=> Contested(job[p].stamp)
          /\ Ample(job[p].stamp)' <=> Ample(job[p].stamp)
      <3>1. \A r \in Runs : job'[r].stamp = job[r].stamp
        BY <1>2
      <3>2. QED
        BY <3>1, SameNames
    <2>2. Own(p)' = Own(p)
      BY <1>2 DEF Own
    <2>3. QED
      BY <1>2, <2>1, <2>2 DEF IInv, Saved
  <1>6. QED
    BY <1>1, <1>2, <1>3, <1>4, <1>5, Steps

\* A run dooms only what is older than the files it keeps.
LEMMA VerifyKeeps ==
    ASSUME IInv, NEW p \in Runs, Verify(p)
    PROVE  IInv'
  <1>1. job[p].pc = "verify" /\ files' = files /\ second' = second /\ Typed /\ Job(job[p])
        /\ job = [r \in Runs |-> job[r]]
    BY DEF IInv, Typed, Verify
  <1>2. CASE Exit(p)
    BY <1>1, <1>2, Leaves
  <1>3. CASE ~Exit(p)
    <2>1. PICK q : q = [job[p] EXCEPT !.pc = "prune", !.doomed = Excess]
      OBVIOUS
    <2>2. job' = [job EXCEPT ![p] = q]
      BY <1>1, <1>3, <2>1 DEF Verify
    <2>3. /\ q.pc = "prune" /\ q.stamp = job[p].stamp /\ q.rows = job[p].rows
          /\ q.seen = job[p].seen /\ q.doomed = Excess
      BY <1>1, <2>1 DEF Job
    <2>4. q = [pc |-> q.pc, rows |-> q.rows, stamp |-> q.stamp, seen |-> q.seen, plan |-> q.plan,
               overwrite |-> q.overwrite, doomed |-> q.doomed]
      BY <1>1, <2>1 DEF Job
    <2>5. \A s \in Excess : s \in Nat /\ s >= 1 /\ Ample(s)
      BY Pruned
    <2>6. QED
      BY <1>1, <2>2, <2>3, <2>4, <2>5, Onward
  <1>4. QED
    BY <1>2, <1>3

\* Only a file with --keep newer ones goes.
LEMMA PruneKeeps ==
    ASSUME IInv, NEW p \in Runs, Prune(p)
    PROVE  IInv'
  <1>1. job[p].pc = "prune" /\ second' = second /\ Typed /\ Job(job[p])
        /\ job = [r \in Runs |-> job[r]]
    BY DEF IInv, Typed, Prune
  <1>2. CASE Exit(p) /\ files' = files
    BY <1>1, <1>2, Leaves
  <1>3. CASE ~(Exit(p) /\ files' = files)
    <2>1. PICK s \in job[p].doomed :
              /\ files' = {f \in files : f.real => f.stamp # s}
              /\ job' = [job EXCEPT ![p].doomed = job[p].doomed \ {s}]
      BY <1>1, <1>3 DEF Prune
    <2>2. s \in Nat /\ s >= 1 /\ Ample(s)
      BY DEF IInv, Spared
    <2>3. PICK q : q = [job[p] EXCEPT !.doomed = job[p].doomed \ {s}]
      OBVIOUS
    <2>4. job' = [job EXCEPT ![p] = q]
      BY <1>1, <2>1, <2>3
    <2>5. /\ q.pc = job[p].pc /\ q.stamp = job[p].stamp /\ q.rows = job[p].rows
          /\ q.seen = job[p].seen /\ q.doomed \subseteq job[p].doomed
      BY <1>1, <2>3 DEF Job
    <2>6. q = [pc |-> q.pc, rows |-> q.rows, stamp |-> q.stamp, seen |-> q.seen, plan |-> q.plan,
               overwrite |-> q.overwrite, doomed |-> q.doomed]
      BY <1>1, <2>3 DEF Job
    <2>7. /\ job' = [r \in Runs |-> job'[r]] /\ job'[p] = q
          /\ \A r \in Runs : r # p => job'[r] = job[r]
      BY <1>1, <2>4, Moved
    <2>8. Job(job'[p])
      BY <1>1, <2>5, <2>6, <2>7 DEF Job
    <2>9. Typed'
      BY <1>1, <2>1, <2>7, <2>8 DEF IInv, Typed
    <2>10. ASSUME NEW r \in Runs
           PROVE  /\ job'[r].stamp = job[r].stamp /\ job'[r].seen = job[r].seen
                  /\ job'[r].pc = job[r].pc /\ job'[r].rows = job[r].rows
                  /\ job'[r].doomed \subseteq job[r].doomed
      BY <2>5, <2>7
    <2>11. \A f \in files' : Placed(f)'
      <3>1. ASSUME NEW f \in files' PROVE Placed(f)'
        <4>1. Placed(f)
          BY <2>1 DEF IInv
        <4>2. /\ Contested(f.stamp)' <=> Contested(f.stamp)
              /\ (\E t \in Runs : job'[t].stamp = f.stamp) <=> (\E t \in Runs : job[t].stamp = f.stamp)
          BY <2>10, SameNames
        <4>3. QED
          BY <4>1, <4>2 DEF Placed
      <3>2. QED
        BY <3>1
    <2>12. ASSUME NEW r \in Runs PROVE Sound(job[r])' /\ Spared(job[r])'
      <3>1. \A t \in job[r].doomed : Ample(t)' <=> Ample(t)
        BY <2>10, SameNames
      <3>2. Spared(job[r])'
        BY <2>10, <3>1 DEF IInv, Spared
      <3>3. Sound(job[r])'
        BY <2>10 DEF IInv, Sound
      <3>4. QED
        BY <3>2, <3>3
    <2>13. ASSUME NEW r \in Runs PROVE Saved(r)'
      <3>1. PICK n : n = job[r].stamp /\ n = job'[r].stamp
        BY <2>10
      <3>2. (Contested(n)' <=> Contested(n)) /\ (Ample(n)' <=> Ample(n))
        BY <2>10, SameNames
      <3>3. Partial(r)' = Partial(r)
        BY <2>1, <2>10 DEF Partial
      <3>4. n # s => Own(r)' = Own(r)
        BY <2>1, <2>10, <3>1 DEF Own
      <3>5. QED
        BY <2>2, <2>10, <3>1, <3>2, <3>3, <3>4 DEF IInv, Saved
    <2>14. QED
      BY <2>9, <2>11, <2>12, <2>13 DEF IInv
  <1>4. QED
    BY <1>2, <1>3

\* A damaged file keeps its name, its rows and its checksum.
LEMMA DamageKeeps ==
    ASSUME IInv, NEW o \in Listed, Damage(o)
    PROVE  IInv'
  <1>1. o \in files /\ File(o) /\ Placed(o) /\ o.real
    BY DEF IInv, Typed, Listed
  <1>2. PICK b, g : b = [o.body EXCEPT !.damaged = TRUE] /\ g = [o EXCEPT !.body = b]
    OBVIOUS
  <1>3. files' = (files \ {o}) \cup {g} /\ job' = job /\ second' = second
    BY <1>1, <1>2 DEF Damage, File
  <1>4. Bytes(b) /\ b.rows = o.body.rows /\ b.whole = o.body.whole
    BY <1>1, <1>2 DEF File, Bytes
  <1>5. /\ g.stamp = o.stamp /\ g.real = o.real /\ g.mixed = o.mixed /\ g.sum = o.sum
        /\ g.body = b
        /\ g = [stamp |-> g.stamp, real |-> g.real, mixed |-> g.mixed, body |-> g.body,
                sum |-> g.sum]
    BY <1>1, <1>2 DEF File
  <1>6. File(g) /\ Placed(g)
    BY <1>1, <1>4, <1>5 DEF File, Placed
  <1>7. Typed' /\ \A f \in files' : Placed(f)'
    BY <1>3, <1>6 DEF IInv, Typed, Placed, Contested
  <1>8. \A s : (Contested(s)' <=> Contested(s)) /\ (Ample(s)' <=> Ample(s))
    BY <1>3 DEF Contested, Ample, Later
  <1>9. ASSUME NEW r \in Runs PROVE Saved(r)'
    <2>1. Partial(r)' = Partial(r)
      BY <1>1, <1>3, <1>5 DEF Partial
    <2>2. \A f \in Own(r) : \E h \in Own(r)' :
              /\ h.body.rows = f.body.rows /\ h.body.whole = f.body.whole /\ h.sum = f.sum
      BY <1>1, <1>3, <1>4, <1>5 DEF Own
    <2>3. Saved(r)
      BY DEF IInv
    <2>4. QED
      BY <1>3, <1>8, <2>1, <2>2, <2>3 DEF Saved
  <1>10. \A r \in Runs : Sound(job[r])' /\ Spared(job[r])'
    BY <1>3, <1>8 DEF IInv, Sound, Spared
  <1>11. QED
    BY <1>7, <1>9, <1>10 DEF IInv

-----------------------------------------------------------------------------
(* The theorems.                                                           *)

\* A folder starts with one whole file.
LEMMA Starts == Init => IInv
  <1> SUFFICES ASSUME Init PROVE IInv
    OBVIOUS
  <1>1. PICK b, f :
            /\ b = [by |-> Null, rows |-> db, whole |-> TRUE, damaged |-> FALSE]
            /\ f = [stamp |-> 1, real |-> TRUE, mixed |-> FALSE, body |-> b, sum |-> {b}]
            /\ files = {f}
    BY DEF Init
  <1>2. job = [p \in Runs |-> NoJob] /\ second = 1
    BY DEF Init
  <1>3. NoJob.pc = "idle" /\ NoJob.seen = Null /\ NoJob.doomed = {} /\ NoJob.stamp = 0
    BY DEF NoJob
  <1>4. File(f) /\ Placed(f)
    BY <1>1 DEF File, Placed, Bytes
  <1>5. Job(NoJob)
    BY DEF Job, NoJob, Busy
  <1>6. Typed
    BY <1>1, <1>2, <1>4, <1>5 DEF Typed
  <1>7. \A p \in Runs : Sound(job[p]) /\ Spared(job[p]) /\ Saved(p)
    BY <1>2, <1>3 DEF Spared, Sound, Saved
  <1>8. QED
    BY <1>1, <1>4, <1>6, <1>7 DEF IInv

\* Every step keeps the invariant.
LEMMA Inductive == IInv /\ [Next]_vars => IInv'
  <1> SUFFICES ASSUME IInv, [Next]_vars PROVE IInv'
    OBVIOUS
  <1>1. ASSUME files' = files, job' = job, second' = second PROVE IInv'
    <2>1. \A s : (Contested(s)' <=> Contested(s)) /\ (Ample(s)' <=> Ample(s))
      BY <1>1 DEF Contested, Ample, Later
    <2>2. Typed' /\ \A f \in files' : Placed(f)'
      BY <1>1, <2>1 DEF IInv, Typed, Placed
    <2>3. \A r \in Runs : Sound(job[r])' /\ Spared(job[r])'
      BY <1>1, <2>1 DEF IInv, Sound, Spared
    <2>4. \A r \in Runs : Partial(r)' = Partial(r) /\ Own(r)' = Own(r)
      BY <1>1 DEF Partial, Own
    <2>5. \A r \in Runs : Saved(r)'
      BY <1>1, <2>1, <2>4 DEF IInv, Saved
    <2>6. QED
      BY <2>2, <2>3, <2>5 DEF IInv
  <1>2. ASSUME NEW p \in Runs, NEW f \in Listed, NEW t \in Targets, NEW o \in BOOLEAN, Plan(p, f, t, o)
        PROVE  IInv'
    BY <1>2, PlanKeeps
  <1>3. ASSUME NEW p \in Runs, Take(p) PROVE IInv'
    BY <1>3, TakeKeeps
  <1>4. ASSUME NEW p \in Runs, Open(p) PROVE IInv'
    BY <1>4, OpenKeeps
  <1>5. ASSUME NEW p \in Runs, Replace(p) PROVE IInv'
    BY <1>5, ReplaceKeeps
  <1>6. ASSUME NEW p \in Runs, WriteSum(p) PROVE IInv'
    BY <1>6, WriteSumKeeps
  <1>7. ASSUME NEW p \in Runs, Verify(p) PROVE IInv'
    BY <1>7, VerifyKeeps
  <1>8. ASSUME NEW p \in Runs, Prune(p) PROVE IInv'
    BY <1>8, PruneKeeps
  <1>9. ASSUME NEW p \in Runs, Apply(p) PROVE IInv'
    BY <1>9, Leaves DEF Apply
  <1>10. ASSUME NEW p \in Runs, Kill(p) PROVE IInv'
    BY <1>10, Leaves DEF Kill
  <1>11. ASSUME NEW f \in Listed, Damage(f) PROVE IInv'
    BY <1>11, DamageKeeps
  <1>12. ASSUME NEW id \in Ids, NEW row \in Row, Edit(id, row) PROVE IInv'
    BY <1>1, <1>12 DEF Edit
  <1>13. ASSUME NEW c \in Cases, Delete(c) PROVE IInv'
    BY <1>1, <1>13 DEF Delete
  <1>14. CASE UNCHANGED vars
    BY <1>1, <1>14 DEF vars
  <1>15. QED
    BY <1>2, <1>3, <1>4, <1>5, <1>6, <1>7, <1>8, <1>9, <1>10, <1>11, <1>12, <1>13, <1>14
    DEF Next

\* The inductive invariant of backups and restores.
LEMMA Invariant == Spec => []IInv
  BY Starts, Inductive, PTL DEF Spec

\* A name that one run has taken never stands for half a file, and what a restore
\* was planned on is a whole snapshot, damaged only if that is what was hashed or
\* nothing was, whatever else writes, damages or deletes files.
THEOREM WholePlans == Spec => []PlansFromWhole
  <1>1. IInv => PlansFromWhole
    BY DEF IInv, Placed, Sound, PlansFromWhole, Runs, Listed
  <1>2. QED
    BY <1>1, Invariant, PTL

\* Only the restore itself is a step at which it applies its plan.
LEMMA Applying ==
    ASSUME NEW p \in RestoreRuns, [Next]_vars, Applies(p), IInv
    PROVE  Apply(p) /\ Insertable(p)
  <1>1. p \in Runs /\ job[p].pc = "apply" /\ job'[p].pc = "done" /\ db' # db
    BY DEF Applies, Runs
  <1>2. job' # job
    BY <1>1
  <1>3. PICK q \in Runs : Apply(q)
    BY <1>1, <1>2 DEF Next, vars, Plan, Take, Open, Replace, WriteSum, Verify, Prune, Kill,
                      Damage, Edit, Delete
  <1>4. q = p
    <2>1. SUFFICES ASSUME q # p PROVE job'[p] = job[p]
      BY <1>1
    <2>2. QED
      BY <1>1, <1>3, <2>1, Ended DEF Apply, IInv
  <1>5. QED
    BY <1>1, <1>3, <1>4 DEF Apply

\* A restore without --overwrite changes no row that is there, however stale its
\* plan; and what it changed is in the audit log.
THEOREM HolesOnly == Spec => OnlyFillsHoles
  <1>1. ASSUME IInv, [Next]_vars, NEW p \in RestoreRuns, Applies(p)
        PROVE  /\ ~job[p].overwrite => \A id \in Ids : db[id] # Null => db'[id] = db[id]
               /\ \A id \in Ids : db'[id] # db[id] =>
                     <<p, IF id \in Cases THEN id ELSE CaseOf[id]>> \in audited'
    <2>1. Apply(p) /\ Insertable(p)
      BY <1>1, Applying
    <2>2. /\ db' = [id \in Ids |->
                       IF id \in Planned(p, "missing") \cup Overwritten(p)
                       THEN job[p].seen.body.rows[id] ELSE db[id]]
          /\ audited' = audited \cup
                {<<p, IF id \in Cases THEN id ELSE CaseOf[id]>> : id \in Restored(p)}
          /\ \A id \in Planned(p, "missing") : db[id] = Null
      BY <2>1 DEF Apply, Insertable
    <2>3. \A id \in Ids : db'[id] # db[id] => id \in Planned(p, "missing") \cup Overwritten(p)
      BY <2>2
    <2>4. ~job[p].overwrite => Overwritten(p) = {}
      BY DEF Overwritten
    <2>5. Overwritten(p) \cup Planned(p, "missing") \subseteq Restored(p)
      BY DEF Overwritten, Restored
    <2>6. QED
      BY <2>2, <2>3, <2>4, <2>5
  <1>2. IInv /\ [Next]_vars =>
          [\A p \in RestoreRuns : Applies(p) =>
              /\ ~job[p].overwrite => \A id \in Ids : db[id] # Null => db'[id] = db[id]
              /\ \A id \in Ids : db'[id] # db[id] =>
                    <<p, IF id \in Cases THEN id ELSE CaseOf[id]>> \in audited']_vars
    BY <1>1
  <1>3. QED
    BY <1>2, Invariant, PTL DEF Spec, OnlyFillsHoles

\* A row overwritten as the safety copy saw it is in that copy, which is still in
\* the folder, whole and with a checksum, unless another run took the same name
\* or --keep later ones were taken.
THEOREM SavedFirst == Spec => OverwrittenIsSaved
  <1>1. ASSUME IInv, NEW p \in RestoreRuns, NEW id \in Ids, Applies(p),
               job[p].rows[id] = db[id], ~Contested(job[p].stamp),
               Cardinality(Later(job[p].stamp)) < Keep
        PROVE  \E f \in Listed : f.body.rows[id] = db[id] /\ f.body.whole /\ f.sum # {}
    <2>1. p \in Runs /\ job[p].pc = "apply"
      BY <1>1 DEF Applies, Runs
    <2>2. ~Ample(job[p].stamp)
      <3>1. IsFiniteSet(Later(job[p].stamp))
        BY FinitelyMany DEF Later
      <3>2. Cardinality(Later(job[p].stamp)) \in Nat
        BY <3>1, FS_CardinalityType
      <3>3. QED
        BY <1>1, <3>2, BackupAssumption DEF Ample
    <2>3. PICK f \in Own(p) : f.body.rows = job[p].rows /\ f.body.whole /\ f.sum # {}
      BY <1>1, <2>1, <2>2 DEF IInv, Saved
    <2>4. QED
      BY <1>1, <2>3 DEF Own, Listed
  <1>2. IInv /\ [Next]_vars =>
          [\A p \in RestoreRuns, id \in Ids :
              /\ Applies(p) /\ db[id] # Null /\ db'[id] # db[id] /\ job[p].rows[id] = db[id]
              /\ ~Contested(job[p].stamp) /\ Cardinality(Later(job[p].stamp)) < Keep
              => \E f \in Listed : f.body.rows[id] = db[id] /\ f.body.whole /\ f.sum # {}]_vars
    BY <1>1
  <1>3. QED
    BY <1>2, Invariant, PTL DEF Spec, OverwrittenIsSaved

=============================================================================
