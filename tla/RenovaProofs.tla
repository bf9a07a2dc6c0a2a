---------------------------- MODULE RenovaProofs ----------------------------
(***************************************************************************)
(* Proofs about a Renova case beside its follow-up history, for any number *)
(* of overlapping requests, any payloads and any status a case may have    *)
(* had before the operation columns existed.                               *)
(*                                                                         *)
(* The inductive invariant is about the row and about what every pending   *)
(* request loaded: both are in the operation if their status is accepted,  *)
(* and the operation of the row is never behind what a request saw of it.  *)
(***************************************************************************)
EXTENDS RenovaFollowUp, FiniteSetTheorems, TLAPS

Columns == {"status", "archived", "assignee", "stage"}

\* An accepted case is in the operation.
Sound(c) ==
    /\ Columns \subseteq DOMAIN c
    /\ c.stage \in OperationStages \cup {Null}
    /\ c.status \in Accepted => c.stage # Null

\* What holds of a request between its checks and its write.
Checked(r) ==
    /\ exists
    /\ Sound(req[r].seen)
    /\ req[r].seen.stage # Null => row.stage # Null
    /\ Sees(req[r].by, req[r].seen)
    /\ req[r].kind = "patch" =>
          /\ req[r].sent \in Payloads
          /\ req[r].by \in Advisors /\ "assignee" \in DOMAIN req[r].sent
                => req[r].sent.assignee = req[r].by
    /\ req[r].kind = "move" =>
          /\ req[r].sent \in Moves /\ Movable(req[r].seen)
          /\ "stage" \in DOMAIN req[r].sent => req[r].sent.stage # Null

\* The audit log tells the row.
Told ==
    /\ Columns \subseteq DOMAIN told
    /\ told.status = row.status /\ told.archived = row.archived

IInv ==
    /\ Sound(row)
    /\ Told
    /\ DOMAIN req = Requests
    /\ \A r \in Requests : Pending(r) => Checked(r)

-----------------------------------------------------------------------------
(* What requests make of a row.                                            *)

\* The operation starts where the status says, and is never undone.
LEMMA Entering ==
    ASSUME NEW c, c.stage \in OperationStages \cup {Null}
    PROVE  /\ EntryStage(c) \in OperationStages \cup {Null}
           /\ c.status \in Accepted => EntryStage(c) # Null
           /\ c.stage # Null => EntryStage(c) = c.stage
  <1>1. {"proposal_accepted", "renovation"} \subseteq OperationStages \ {Null}
    BY AccessAssumption DEF OperationStages, Acquiring, Owned
  <1>2. CASE c.stage # Null
    BY <1>2 DEF EntryStage
  <1>3. CASE c.stage = Null /\ c.status = "accepted"
    BY <1>1, <1>3 DEF EntryStage
  <1>4. CASE c.stage = Null /\ c.status = "purchased"
    BY <1>1, <1>4 DEF EntryStage
  <1>5. CASE c.stage = Null /\ c.status \notin Accepted
    BY <1>5 DEF EntryStage, Accepted
  <1>6. QED
    BY <1>2, <1>3, <1>4, <1>5 DEF Accepted

\* A synchronized case is sound.
LEMMA Syncing ==
    ASSUME NEW c, Columns \subseteq DOMAIN c, c.stage \in OperationStages \cup {Null}
    PROVE  /\ Sound(Synced(c)) /\ DOMAIN Synced(c) = DOMAIN c
           /\ Synced(c).status = c.status /\ Synced(c).archived = c.archived
           /\ Synced(c).assignee = c.assignee
           /\ c.stage # Null => Synced(c).stage = c.stage
  <1>1. /\ DOMAIN Synced(c) = DOMAIN c /\ Synced(c).stage = EntryStage(c)
        /\ Synced(c).status = c.status /\ Synced(c).archived = c.archived
        /\ Synced(c).assignee = c.assignee
    BY DEF Synced, Columns
  <1>2. QED
    BY <1>1, Entering DEF Sound

\* A payload replaces the columns it names.
LEMMA Merging ==
    ASSUME NEW c, NEW p, Columns \subseteq DOMAIN c
    PROVE  /\ DOMAIN Merged(c, p) = DOMAIN c
           /\ \A f \in Columns : Merged(c, p)[f] = IF f \in DOMAIN p THEN p[f] ELSE c[f]
  BY DEF Merged

\* A PATCH leaves a sound case sound, in the operation stage it has.
LEMMA Patching ==
    ASSUME NEW c, NEW p \in Payloads, Sound(c)
    PROVE  /\ Sound(Patched(c, p)) /\ DOMAIN Patched(c, p) = DOMAIN c
           /\ c.stage # Null => Patched(c, p).stage = c.stage
           /\ "status" \notin DOMAIN p => Patched(c, p).status = c.status
           /\ Patched(c, p).assignee = IF "assignee" \in DOMAIN p THEN p.assignee ELSE c.assignee
  <1> DEFINE m == Merged(c, p)
             a == [m EXCEPT !.archived = m.archived /\ m.status \in Closed]
  <1>1. "stage" \notin DOMAIN p
    BY CaseAssumption DEF Sendable
  <1>2. /\ DOMAIN m = DOMAIN c /\ m.stage = c.stage
        /\ "status" \notin DOMAIN p => m.status = c.status
        /\ m.assignee = IF "assignee" \in DOMAIN p THEN p.assignee ELSE c.assignee
    BY <1>1, Merging DEF Sound, Columns
  <1> HIDE DEF m
  <1>3. DOMAIN a = DOMAIN m /\ a.stage = m.stage /\ a.status = m.status /\ a.assignee = m.assignee
    BY <1>2 DEF Sound, Columns
  <1>4. Patched(c, p) = Synced(a)
    BY DEF Patched, m
  <1> HIDE DEF a
  <1>5. QED
    BY <1>2, <1>3, <1>4, Syncing DEF Sound

\* A move leaves a case that is in the operation in the operation.
LEMMA Moving ==
    ASSUME NEW c, NEW p \in Moves, Sound(c), Movable(c),
           "stage" \in DOMAIN p => p.stage # Null
    PROVE  /\ Sound(Moved(c, p)) /\ DOMAIN Moved(c, p) = DOMAIN c
           /\ Moved(c, p).stage # Null
           /\ Moved(c, p).archived = c.archived /\ Moved(c, p).assignee = c.assignee
  <1> DEFINE m == Merged(c, p)
             s == IF m.stage \in Owned THEN "purchased" ELSE "accepted"
             a == [m EXCEPT !.status = s]
  <1>1. c.stage # Null
    BY DEF Movable, Sound
  <1>2. /\ DOMAIN m = DOMAIN c /\ m.archived = c.archived /\ m.assignee = c.assignee
        /\ m.stage # Null /\ m.stage \in OperationStages \cup {Null}
    BY <1>1, CaseAssumption, Merging DEF Sound, Columns
  <1> HIDE DEF m, s
  <1>3. DOMAIN a = DOMAIN m /\ a.stage = m.stage /\ a.archived = m.archived /\ a.assignee = m.assignee
    BY <1>2 DEF Sound, Columns
  <1>4. Moved(c, p) = m \/ Moved(c, p) = a
    BY DEF Moved, m, s
  <1> HIDE DEF a
  <1>5. QED
    BY <1>2, <1>3, <1>4 DEF Sound

\* What a request is about to write: sound, and never behind what it loaded.
LEMMA Writing ==
    ASSUME NEW r \in Requests, Pending(r), Checked(r)
    PROVE  /\ Sound(After(r)) /\ DOMAIN After(r) = DOMAIN req[r].seen
           /\ req[r].seen.stage # Null => After(r).stage # Null
           /\ req[r].kind = "move" => /\ After(r).stage # Null
                                      /\ After(r).archived = req[r].seen.archived
           /\ req[r].kind = "patch" /\ "status" \notin DOMAIN req[r].sent
                => After(r).status = req[r].seen.status
           /\ req[r].by \in Advisors =>
                \/ After(r).assignee = req[r].seen.assignee
                \/ After(r).assignee = req[r].by /\ req[r].seen.assignee = Null
  <1>1. CASE req[r].kind = "patch"
    <2>1. After(r) = Patched(req[r].seen, req[r].sent) /\ req[r].sent \in Payloads
      BY <1>1 DEF After, Checked
    <2>2. QED
      BY <1>1, <2>1, Patching DEF Checked, Sees
  <1>2. CASE req[r].kind = "move"
    <2>1. After(r) = Moved(req[r].seen, req[r].sent) /\ req[r].sent \in Moves
      BY <1>2 DEF After, Checked
    <2>2. QED
      BY <1>2, <2>1, Moving DEF Checked
  <1>3. QED
    BY <1>1, <1>2 DEF Pending

\* The row an UPDATE leaves, whatever happened to it since it was loaded.
LEMMA Flushing ==
    ASSUME NEW r \in Requests, Pending(r), Checked(r), Sound(row)
    PROVE  /\ Sound(Flushed(r)) /\ DOMAIN Flushed(r) = DOMAIN row
           /\ row.stage # Null => Flushed(r).stage # Null
           /\ \A f \in Columns : Flushed(r)[f] = IF After(r)[f] # req[r].seen[f]
                                                 THEN After(r)[f] ELSE row[f]
  <1>1. /\ DOMAIN Flushed(r) = DOMAIN row
        /\ \A f \in Columns : Flushed(r)[f] = IF After(r)[f] # req[r].seen[f]
                                              THEN After(r)[f] ELSE row[f]
    BY DEF Flushed, Sound
  <1>2. /\ Flushed(r).stage = (IF After(r).stage # req[r].seen.stage
                               THEN After(r).stage ELSE row.stage)
        /\ Flushed(r).status = (IF After(r).status # req[r].seen.status
                                THEN After(r).status ELSE row.status)
    BY <1>1 DEF Columns
  <1>3. row.stage # Null => Flushed(r).stage # Null
    BY <1>2, Writing
  <1>4. ASSUME Flushed(r).status \in Accepted PROVE Flushed(r).stage # Null
    BY <1>2, <1>3, <1>4, Writing DEF Checked, Sound
  <1>5. QED
    BY <1>1, <1>2, <1>3, <1>4, Writing DEF Sound

-----------------------------------------------------------------------------
(* The invariant.                                                          *)

\* Initially, also for the cases the migration found.
LEMMA InitIInv == Init => IInv
  <1> SUFFICES ASSUME Init PROVE IInv
    OBVIOUS
  <1>1. Sound(Blank) /\ DOMAIN Blank = DOMAIN [Blank EXCEPT !.status = "new"]
    BY DEF Blank, Sound, Columns, Accepted
  <1>2. ASSUME NEW s \in Legacy, NEW u \in Users
        PROVE  Sound(Migrated([Blank EXCEPT !.status = s, !.assignee = u, !.creator = u]))
    <2> DEFINE c == [Blank EXCEPT !.status = s, !.assignee = u, !.creator = u]
    <2>1. Columns \subseteq DOMAIN c /\ c.stage = Null /\ c.status = s
      BY DEF Blank, Columns
    <2> HIDE DEF c
    <2>2. DOMAIN Migrated(c) = DOMAIN c /\ Migrated(c).stage = EntryStage(c)
          /\ Migrated(c).status = c.status
      BY <2>1 DEF Migrated, Columns
    <2>3. Sound(Migrated(c))
      BY <2>1, <2>2, Entering DEF Sound
    <2>4. QED
      BY <2>3 DEF c
  <1>3. Sound(row)
    BY <1>1, <1>2 DEF Init, CaseInit
  <1>4. Told
    BY <1>3 DEF Init, CaseInit, Told, Sound
  <1>5. DOMAIN req = Requests /\ \A r \in Requests : ~Pending(r)
    BY DEF Init, CaseInit, NoRequest, Pending
  <1>6. QED
    BY <1>3, <1>4, <1>5 DEF IInv

\* A request that loads the row disturbs no other.
LEMMA LoadIInv ==
    ASSUME IInv, NEW r \in Requests, NEW kind, NEW u, NEW p, Begin(r, kind, u, p),
           exists, UNCHANGED <<exists, row, told>>, Sees(u, row),
           kind = "patch" => /\ p \in Payloads
                             /\ u \in Advisors /\ "assignee" \in DOMAIN p => p.assignee = u,
           kind = "move" => /\ p \in Moves /\ Movable(row)
                            /\ "stage" \in DOMAIN p => p.stage # Null
    PROVE  IInv'
  <1> DEFINE new == [kind |-> kind, by |-> u, sent |-> p, seen |-> row]
  <1>1. new.kind = kind /\ new.by = u /\ new.sent = p /\ new.seen = row
    OBVIOUS
  <1>2. req' = [req EXCEPT ![r] = new]
    BY DEF Begin
  <1> HIDE DEF new
  <1>3. DOMAIN req' = Requests /\ req'[r] = new /\ \A q \in Requests : q # r => req'[q] = req[q]
    BY <1>2 DEF IInv
  <1>4. Checked(r)'
    BY <1>1, <1>3 DEF IInv, Checked, Sees
  <1>5. \A q \in Requests : q # r /\ Pending(q)' => Checked(q)'
    BY <1>3 DEF IInv, Pending, Checked
  <1>6. QED
    BY <1>3, <1>4, <1>5 DEF IInv, Told

\* An answered request leaves the others with what they checked, if the
\* operation of the row is not undone.
LEMMA AnsweredIInv ==
    ASSUME IInv, NEW r \in Requests, req' = [req EXCEPT ![r] = Answered],
           UNCHANGED exists, Sound(row'), Told', row.stage # Null => row'.stage # Null
    PROVE  IInv'
  <1>1. /\ DOMAIN req' = Requests /\ req'[r].kind = "done"
        /\ \A q \in Requests : q # r => req'[q] = req[q]
    BY DEF IInv, Answered, NoRequest
  <1>2. ASSUME NEW q \in Requests, Pending(q)' PROVE Checked(q)'
    <2>1. q # r /\ Pending(q) /\ req'[q] = req[q]
      BY <1>1, <1>2 DEF Pending
    <2>2. QED
      BY <2>1 DEF IInv, Checked
  <1>3. QED
    BY <1>1, <1>2 DEF IInv

\* What the audit log says after a write: status and archived as written.
LEMMA Telling ==
    ASSUME IInv, NEW r \in Requests, Write(r)
    PROVE  Told'
  <1>1. Pending(r) /\ Checked(r) /\ Sound(row) /\ Told /\ row' = Flushed(r)
    BY DEF IInv, Write
  <1>2. /\ DOMAIN row' = DOMAIN row
        /\ \A f \in Columns : row'[f] = IF After(r)[f] # req[r].seen[f]
                                        THEN After(r)[f] ELSE row[f]
    BY <1>1, Flushing
  <1>3. CASE ~Records(r, row')
    <2>1. told' = told
      BY <1>3 DEF Write
    <2>2. row'.status = row.status /\ row'.archived = row.archived
      <3>1. CASE req[r].kind = "patch"
        <4>1. row'.archived = req[r].seen.archived
          BY <1>3, <3>1 DEF Records, Watched
        <4>2. "status" \in DOMAIN req[r].sent => row'.status = req[r].seen.status
          BY <1>3, <3>1 DEF Records, Watched
        <4>3. QED
          BY <1>1, <1>2, <3>1, <4>1, <4>2, Writing DEF Columns
      <3>2. CASE req[r].kind = "move"
        <4>1. row'.status = req[r].seen.status
          BY <1>3, <3>2 DEF Records, Shown
        <4>2. QED
          BY <1>1, <1>2, <3>2, <4>1, Writing DEF Columns
      <3>3. QED
        BY <1>1, <3>1, <3>2 DEF Pending
    <2>3. QED
      BY <1>1, <2>1, <2>2 DEF Told
  <1>4. CASE Records(r, row')
    <2>1. told' = [f \in DOMAIN row |-> IF f \in Shown(r) THEN row'[f] ELSE told[f]]
      BY <1>4 DEF Write
    <2>2. Columns \subseteq DOMAIN told' /\ told'.status = row'.status
      BY <1>1, <2>1 DEF Sound, Columns, Pending, Shown, Blank
    <2>3. told'.archived = row'.archived
      <3>1. CASE req[r].kind = "patch"
        BY <1>1, <2>1, <3>1 DEF Sound, Columns, Shown, Blank
      <3>2. CASE req[r].kind = "move"
        <4>1. row'.archived = row.archived
          BY <1>1, <1>2, <3>2, Writing DEF Columns
        <4>2. told'.archived = told.archived
          BY <1>1, <2>1, <3>2 DEF Sound, Columns, Shown
        <4>3. QED
          BY <1>1, <4>1, <4>2 DEF Told
      <3>3. QED
        BY <1>1, <3>1, <3>2 DEF Pending
    <2>4. QED
      BY <2>2, <2>3 DEF Told
  <1>5. QED
    BY <1>3, <1>4

\* Every step keeps the invariant.
LEMMA NextIInv == IInv /\ [Next]_vars => IInv'
  <1> SUFFICES ASSUME IInv, [Next]_vars PROVE IInv'
    OBVIOUS
  <1>1. ASSUME NEW u \in Users, NEW p \in Payloads, Create(u, p) PROVE IInv'
    <2> DEFINE m == Merged(Blank, p)
               c == [m EXCEPT !.creator = u]
    <2>1. "stage" \notin DOMAIN p /\ Columns \subseteq DOMAIN Blank /\ Blank.stage = Null
      BY CaseAssumption DEF Sendable, Blank, Columns
    <2>2. DOMAIN m = DOMAIN Blank /\ m.stage = Null
      BY <2>1, Merging DEF Columns
    <2> HIDE DEF m
    <2>3. DOMAIN c = DOMAIN m /\ c.stage = m.stage
      BY <2>1, <2>2 DEF Columns
    <2>4. row' = Synced(c)
      BY <1>1 DEF Create, m
    <2> HIDE DEF c
    <2>5. Sound(row')
      BY <2>1, <2>2, <2>3, <2>4, Syncing
    <2>6. Told'
      BY <1>1, <2>5 DEF IInv, Create, Told, Sound, Columns
    <2>7. UNCHANGED req
      BY <1>1 DEF Create
    <2>8. ~exists
      BY <1>1 DEF Create
    <2>9. QED
      BY <2>5, <2>6, <2>7, <2>8 DEF IInv, Checked, Pending
  <1>2. ASSUME NEW r \in Requests, NEW u \in Users, NEW p \in Payloads, LoadPatch(r, u, p)
        PROVE  IInv'
    BY <1>2, LoadIInv DEF LoadPatch, MayAssign
  <1>3. ASSUME NEW r \in Requests, NEW u \in Users, NEW m \in Moves, LoadMove(r, u, m)
        PROVE  IInv'
    BY <1>3, LoadIInv DEF LoadMove
  <1>4. ASSUME NEW r \in Requests, Write(r) PROVE IInv'
    <2>1. Sound(row') /\ (row.stage # Null => row'.stage # Null)
      BY <1>4, Flushing DEF IInv, Write
    <2>2. Told'
      BY <1>4, Telling
    <2>3. QED
      BY <1>4, <2>1, <2>2, AnsweredIInv DEF Write
  <1>5. ASSUME NEW r \in Requests, Fail(r) PROVE IInv'
    BY <1>5, AnsweredIInv DEF IInv, Fail, Told
  <1>6. ASSUME NEW u \in Users, DeleteAccount(u) PROVE IInv'
    <2>1. /\ DOMAIN row' = DOMAIN row /\ row'.stage = row.stage
          /\ row'.status = row.status /\ row'.archived = row.archived
      BY <1>6 DEF DeleteAccount, IInv, Sound, Columns
    <2>2. UNCHANGED <<exists, told, req>>
      BY <1>6 DEF DeleteAccount
    <2>3. QED
      BY <2>1, <2>2 DEF IInv, Sound, Told, Pending, Checked
  <1>7. CASE UNCHANGED caseVars
    BY <1>7 DEF caseVars, IInv, Told, Pending, Checked
  <1>8. QED
    BY <1>1, <1>2, <1>3, <1>4, <1>5, <1>6, <1>7 DEF Next, CaseNext, vars

-----------------------------------------------------------------------------
(* Theorems.                                                               *)

\* No order of requests, and no case older than the operation, loses an
\* accepted or purchased property from the operations map.
THEOREM OnTheMap == Spec => []AcceptedOnTheMap
  <1>1. IInv => AcceptedOnTheMap
    BY DEF IInv, Sound, AcceptedOnTheMap, OnMap
  <1>2. QED
    BY <1>1, InitIInv, NextIInv, PTL DEF Spec

\* The last word of the audit log on status and archiving is the row's.
THEOREM HistoryTold == Spec => []HistoryTellsStatus
  <1>1. IInv => HistoryTellsStatus
    BY DEF IInv, Told, HistoryTellsStatus
  <1>2. QED
    BY <1>1, InitIInv, NextIInv, PTL DEF Spec

\* No advisor's request takes a case from its assignee or gives it away.
THEOREM CaseKept == Spec => AdvisorKeepsCase
  <1> DEFINE Kept == \A r \in Requests :
          Pending(r) /\ req'[r].kind = "done" /\ req[r].by \in Advisors
          => \/ row'.assignee = row.assignee
             \/ row'.assignee = req[r].by /\ req[r].seen.assignee = Null
  <1>1. IInv /\ [Next]_vars => [Kept]_caseVars
    <2> SUFFICES ASSUME IInv, [Next]_vars, NEW r \in Requests,
                        Pending(r), req'[r].kind = "done", req[r].by \in Advisors
                 PROVE  \/ row'.assignee = row.assignee
                        \/ row'.assignee = req[r].by /\ req[r].seen.assignee = Null
      OBVIOUS
    <2>1. CASE UNCHANGED row
      BY <2>1
    <2>2. ASSUME NEW q \in Requests, Write(q)
          PROVE  \/ row'.assignee = row.assignee
                 \/ row'.assignee = req[r].by /\ req[r].seen.assignee = Null
      <3>1. q = r
        BY <2>2 DEF IInv, Write, Pending
      <3>2. row' = Flushed(r) /\ Pending(r) /\ Checked(r) /\ Sound(row)
        BY <2>2, <3>1 DEF IInv, Write
      <3>3. row'.assignee = IF After(r).assignee # req[r].seen.assignee
                            THEN After(r).assignee ELSE row.assignee
        BY <3>2, Flushing DEF Columns
      <3>4. QED
        BY <3>2, <3>3, Writing
    <2>3. ASSUME NEW u \in Users, DeleteAccount(u) \/ \E p \in Payloads : Create(u, p)
          PROVE  FALSE
      BY <2>3 DEF DeleteAccount, Create, Pending
    <2>4. QED
      BY <2>1, <2>2, <2>3 DEF Next, CaseNext, vars, caseVars, LoadPatch, LoadMove, Fail
  <1>2. QED
    BY <1>1, InitIInv, NextIInv, PTL DEF Spec, AdvisorKeepsCase

-----------------------------------------------------------------------------
(* Types.                                                                  *)

Fields == {"status", "archived", "assignee", "creator", "type", "coverage", "cash", "offer",
           "secret", "stage", "plan"}

Type == [status |-> Statuses, archived |-> BOOLEAN, assignee |-> Users \cup {Null},
         creator |-> Users \cup {Null}, type |-> ProposalTypes \cup {Null},
         coverage |-> Money, cash |-> Money, offer |-> Money, secret |-> BOOLEAN,
         stage |-> OperationStages \cup {Null}, plan |-> BOOLEAN]

\* A row, column by column.
LEMMA ByField ==
    ASSUME NEW c
    PROVE  c \in Row <=> c = [f \in Fields |-> c[f]] /\ \A f \in Fields : c[f] \in Type[f]
  <1>1. ASSUME c \in Row PROVE c = [f \in Fields |-> c[f]] /\ \A f \in Fields : c[f] \in Type[f]
    BY <1>1 DEF Row, Fields, Type
  <1>2. ASSUME c = [f \in Fields |-> c[f]], \A f \in Fields : c[f] \in Type[f] PROVE c \in Row
    BY <1>2 DEF Row, Fields, Type
  <1>3. QED
    BY <1>1, <1>2

\* A payload that is accepted leaves a row.
LEMMA MergedRow ==
    ASSUME NEW c \in Row, NEW p, DOMAIN p \subseteq Fields,
           \A f \in DOMAIN p : p[f] \in Type[f]
    PROVE  Merged(c, p) \in Row
  <1>1. c = [f \in Fields |-> c[f]] /\ \A f \in Fields : c[f] \in Type[f]
    BY ByField
  <1>2. PICK m : m = Merged(c, p)
    OBVIOUS
  <1>3. m = [f \in Fields |-> m[f]] /\ \A f \in Fields : m[f] = IF f \in DOMAIN p THEN p[f] ELSE c[f]
    BY <1>1, <1>2 DEF Merged
  <1>4. m \in Row
    BY <1>1, <1>3, ByField
  <1>5. QED
    BY <1>2, <1>4

\* A body the schema lets through fits the columns it names.
LEMMA PayloadTyped ==
    ASSUME NEW p \in Payloads, WellFormed(p)
    PROVE  DOMAIN p \subseteq Fields /\ \A f \in DOMAIN p : p[f] \in Type[f]
  <1>1. DOMAIN p \subseteq DOMAIN Sendable /\ \A f \in DOMAIN p : p[f] \in Sendable[f]
    BY CaseAssumption
  <1>2. \A f \in Required \cap DOMAIN p : p[f] # Null
    BY DEF WellFormed
  <1>3. ASSUME NEW f \in DOMAIN p PROVE p[f] \in Type[f]
    BY <1>1, <1>2 DEF Sendable, Type, Required
  <1>4. QED
    BY <1>1, <1>3 DEF Sendable, Fields

\* The offer derived from a row is money, so the row stays one.
LEMMA SyncedRow ==
    ASSUME NEW c \in Row
    PROVE  Synced(c) \in Row
  <1>1. OfferOf(c) \in Money
    <2>1. c.coverage \in Money /\ c.cash \in Money /\ c.offer \in Money
      BY DEF Row
    <2>2. OrZero(c.coverage) \in Nat /\ OrZero(c.cash) \in Nat
      BY <2>1 DEF Money, OrZero
    <2>3. PICK a \in Nat, b \in Nat : a = OrZero(c.coverage) /\ b = OrZero(c.cash)
      BY <2>2
    <2>4. a + b \in Money
      BY DEF Money
    <2>5. QED
      BY <2>1, <2>3, <2>4 DEF OfferOf
  <1>2. EntryStage(c) \in OperationStages \cup {Null}
    <2>1. c.stage \in OperationStages \cup {Null}
      BY DEF Row
    <2>2. QED
      BY <2>1, Entering
  <1>3. PICK o \in Money, e \in OperationStages \cup {Null} : o = OfferOf(c) /\ e = EntryStage(c)
    BY <1>1, <1>2
  <1>4. [c EXCEPT !.offer = o, !.stage = e] \in Row
    BY DEF Row
  <1>5. QED
    BY <1>3, <1>4 DEF Synced

\* What a request under way makes of the row it loaded is a row.
Typed(r) ==
    /\ req[r].seen \in Row
    /\ req[r].kind = "patch" => req[r].sent \in Payloads /\ WellFormed(req[r].sent)
    /\ req[r].kind = "move" => req[r].sent \in Moves

\* What a request makes of the row it read is a row.
LEMMA AfterRow ==
    ASSUME NEW r \in Requests, Pending(r), Typed(r)
    PROVE  After(r) \in Row
  <1>1. PICK c, p, m :
           c \in Row /\ c = req[r].seen /\ p = req[r].sent /\ m = Merged(c, p)
    BY DEF Typed
  <1>2. CASE req[r].kind = "patch"
    <2>1. m \in Row
      BY <1>1, <1>2, MergedRow, PayloadTyped DEF Typed
    <2>2. PICK b \in BOOLEAN : b = (m.archived /\ m.status \in Closed)
      BY <2>1 DEF Row
    <2>3. [m EXCEPT !.archived = b] \in Row
      BY <2>1 DEF Row
    <2>4. Synced([m EXCEPT !.archived = b]) \in Row
      BY <2>3, SyncedRow
    <2>5. QED
      BY <1>1, <1>2, <2>2, <2>4 DEF After, Patched
  <1>3. CASE req[r].kind = "move"
    <2>1. DOMAIN p \subseteq Fields /\ \A f \in DOMAIN p : p[f] \in Type[f]
      BY <1>1, <1>3, CaseAssumption DEF Typed, Fields, Type
    <2>2. m \in Row
      BY <1>1, <2>1, MergedRow
    <2>3. {"purchased", "accepted"} \subseteq Statuses
      BY DEF Statuses, Board
    <2>4. PICK s \in Statuses : s = IF m.stage \in Owned THEN "purchased" ELSE "accepted"
      BY <2>3
    <2>5. [m EXCEPT !.status = s] \in Row
      BY <2>2 DEF Row
    <2>6. After(r) = m \/ After(r) = [m EXCEPT !.status = s]
      BY <1>1, <1>3, <2>4 DEF After, Moved
    <2>7. QED
      BY <2>2, <2>5, <2>6
  <1>4. QED
    BY <1>2, <1>3 DEF Pending

\* An UPDATE that mixes the columns of two rows leaves a row.
LEMMA FlushedRow ==
    ASSUME NEW r \in Requests, Pending(r), Typed(r), row \in Row
    PROVE  Flushed(r) \in Row
  <1>1. PICK c : c = Flushed(r)
    OBVIOUS
  <1>2. row = [f \in Fields |-> row[f]] /\ \A f \in Fields : row[f] \in Type[f]
    BY ByField
  <1>3. \A f \in Fields : After(r)[f] \in Type[f]
    BY AfterRow, ByField
  <1>4. /\ c = [f \in Fields |-> c[f]]
        /\ \A f \in Fields : c[f] = After(r)[f] \/ c[f] = row[f]
    BY <1>1, <1>2 DEF Flushed
  <1>5. c \in Row
    BY <1>2, <1>3, <1>4, ByField
  <1>6. QED
    BY <1>1, <1>5

CaseTyped ==
    /\ TypeOK
    /\ DOMAIN req = Requests
    /\ \A r \in Requests : Pending(r) => Typed(r)

\* A case nobody has described is a row.
LEMMA BlankRow == Blank \in Row
  <1>1. "new" \in Statuses
    BY DEF Statuses, Board
  <1>2. QED
    BY <1>1 DEF Blank, Row, Money

\* Cases start as rows, the migrated ones too.
LEMMA InitCaseTyped == CaseInit => CaseTyped
  <1> SUFFICES ASSUME CaseInit PROVE CaseTyped
    OBVIOUS
  <1>1. ASSUME NEW s \in Legacy, NEW u \in Users
        PROVE  Migrated([Blank EXCEPT !.status = s, !.assignee = u, !.creator = u]) \in Row
    <2>1. PICK c : c = [Blank EXCEPT !.status = s, !.assignee = u, !.creator = u]
      OBVIOUS
    <2>2. c \in Row
      BY <2>1, BlankRow, CaseAssumption DEF Row
    <2>3. EntryStage(c) \in OperationStages \cup {Null}
      <3>1. c.stage \in OperationStages \cup {Null}
        BY <2>2 DEF Row
      <3>2. QED
        BY <3>1, Entering
    <2>4. PICK e \in OperationStages \cup {Null} : e = EntryStage(c)
      BY <2>3
    <2>5. [c EXCEPT !.stage = e] \in Row
      BY <2>2 DEF Row
    <2>6. QED
      BY <2>1, <2>4, <2>5 DEF Migrated
  <1>2. row \in Row /\ exists \in BOOLEAN
    BY <1>1, BlankRow DEF CaseInit
  <1>3. \A r \in Requests : /\ req[r].kind = "idle" /\ req[r].by = Null /\ req[r].seen = Blank
    BY DEF CaseInit, NoRequest
  <1>4. TypeOK
    BY <1>2, <1>3, BlankRow DEF CaseInit, TypeOK
  <1>5. QED
    BY <1>3, <1>4 DEF CaseInit, CaseTyped, Pending

\* A request that begins disturbs no other; nor does one that is answered.
LEMMA BegunTyped ==
    ASSUME CaseTyped, NEW r \in Requests, NEW kind \in {"patch", "move"}, NEW u \in Users, NEW p,
           Begin(r, kind, u, p), UNCHANGED <<exists, row, told, accounts>>,
           kind = "patch" => p \in Payloads /\ WellFormed(p),
           kind = "move" => p \in Moves
    PROVE  CaseTyped'
  <1>1. PICK new : new = [kind |-> kind, by |-> u, sent |-> p, seen |-> row]
    OBVIOUS
  <1>2. new.kind = kind /\ new.by = u /\ new.sent = p /\ new.seen = row
    BY <1>1
  <1>3. /\ DOMAIN req' = Requests /\ req'[r] = new
        /\ \A q \in Requests : q # r => req'[q] = req[q]
    BY <1>1 DEF Begin, CaseTyped
  <1>4. TypeOK'
    BY <1>2, <1>3 DEF CaseTyped, TypeOK
  <1>5. \A q \in Requests : Pending(q)' => Typed(q)'
    BY <1>2, <1>3 DEF CaseTyped, TypeOK, Pending, Typed
  <1>6. QED
    BY <1>3, <1>4, <1>5 DEF CaseTyped

\* A request that is over left a row behind.
LEMMA AnsweredTyped ==
    ASSUME CaseTyped, NEW r \in Requests, req' = [req EXCEPT ![r] = Answered],
           exists' = exists, accounts' = accounts, row' \in Row, told' \in Row
    PROVE  CaseTyped'
  <1>1. Answered.kind = "done" /\ Answered.by = Null /\ Answered.seen = Blank
    BY DEF Answered, NoRequest
  <1>2. /\ DOMAIN req' = Requests /\ req'[r] = Answered
        /\ \A q \in Requests : q # r => req'[q] = req[q]
    BY DEF CaseTyped
  <1>3. TypeOK'
    BY <1>1, <1>2, BlankRow DEF CaseTyped, TypeOK
  <1>4. \A q \in Requests : Pending(q)' => Typed(q)'
    BY <1>1, <1>2 DEF CaseTyped, Pending, Typed
  <1>5. QED
    BY <1>2, <1>3, <1>4 DEF CaseTyped

\* The audit log's columns are of the row as it was or as it is.
LEMMA ToldRow ==
    ASSUME row \in Row, row' \in Row, told \in Row, NEW S, NEW t,
           t = [f \in DOMAIN row |-> IF f \in S THEN row'[f] ELSE told[f]]
    PROVE  t \in Row
  <1>1. \A f \in Fields : row'[f] \in Type[f] /\ told[f] \in Type[f]
    BY ByField
  <1>2. DOMAIN row = Fields
    BY ByField
  <1>3. t = [f \in Fields |-> t[f]] /\ \A f \in Fields : t[f] = row'[f] \/ t[f] = told[f]
    BY <1>2
  <1>4. QED
    BY <1>1, <1>3, ByField

\* No step of a request takes the case out of its type.
LEMMA NextCaseTyped == CaseTyped /\ [CaseNext]_caseVars => CaseTyped'
  <1> SUFFICES ASSUME CaseTyped, [CaseNext]_caseVars PROVE CaseTyped'
    OBVIOUS
  <1>1. ASSUME NEW u \in Users, NEW p \in Payloads, Create(u, p) PROVE CaseTyped'
    <2>1. DOMAIN p \subseteq Fields /\ \A f \in DOMAIN p : p[f] \in Type[f]
      BY <1>1, PayloadTyped DEF Create
    <2>2. Merged(Blank, p) \in Row
      BY <2>1, BlankRow, MergedRow
    <2>3. [Merged(Blank, p) EXCEPT !.creator = u] \in Row
      BY <2>2 DEF Row
    <2>4. row' \in Row
      BY <1>1, <2>3, SyncedRow DEF Create
    <2>5. told' \in Row
      <3>1. PICK S : S = {f \in DOMAIN row : f \notin {"stage", "plan"}}
        OBVIOUS
      <3>2. told' = [f \in DOMAIN row |-> IF f \in S THEN row'[f] ELSE told[f]]
        BY <1>1, <3>1 DEF Create
      <3>3. row \in Row /\ told \in Row
        BY DEF CaseTyped, TypeOK
      <3>4. QED
        BY <2>4, <3>2, <3>3, ToldRow
    <2>6. exists' = TRUE /\ req' = req /\ accounts' = accounts
      BY <1>1 DEF Create
    <2>7. QED
      BY <2>4, <2>5, <2>6 DEF CaseTyped, TypeOK, Pending, Typed
  <1>2. ASSUME NEW r \in Requests, NEW u \in Users, NEW p \in Payloads, LoadPatch(r, u, p)
        PROVE  CaseTyped'
    BY <1>2, BegunTyped DEF LoadPatch
  <1>3. ASSUME NEW r \in Requests, NEW u \in Users, NEW m \in Moves, LoadMove(r, u, m)
        PROVE  CaseTyped'
    BY <1>3, BegunTyped DEF LoadMove
  <1>4. ASSUME NEW r \in Requests, Write(r) PROVE CaseTyped'
    <2>1. row \in Row /\ told \in Row /\ Pending(r) /\ Typed(r)
      BY <1>4 DEF CaseTyped, TypeOK, Write
    <2>2. row' \in Row
      BY <1>4, <2>1, FlushedRow DEF Write
    <2>3. told' \in Row
      BY <1>4, <2>1, <2>2, ToldRow DEF Write
    <2>4. QED
      BY <1>4, <2>2, <2>3, AnsweredTyped DEF Write
  <1>5. ASSUME NEW r \in Requests, Fail(r) PROVE CaseTyped'
    BY <1>5, AnsweredTyped DEF Fail, CaseTyped, TypeOK
  <1>6. ASSUME NEW u \in Users, DeleteAccount(u) PROVE CaseTyped'
    <2>1. row \in Row
      BY DEF CaseTyped, TypeOK
    <2>2. PICK a \in Users \cup {Null}, c \in Users \cup {Null} :
              row' = [row EXCEPT !.assignee = a, !.creator = c]
      <3>1. /\ (IF row.assignee = u THEN Null ELSE row.assignee) \in Users \cup {Null}
            /\ (IF row.creator = u THEN Null ELSE row.creator) \in Users \cup {Null}
        BY <2>1 DEF Row
      <3>2. QED
        BY <1>6, <3>1 DEF DeleteAccount
    <2>3. row' \in Row
      BY <2>1, <2>2 DEF Row
    <2>4. exists' = exists /\ req' = req /\ told' = told /\ accounts' \subseteq accounts
      BY <1>6 DEF DeleteAccount
    <2>5. QED
      BY <2>3, <2>4 DEF CaseTyped, TypeOK, Pending, Typed
  <1>7. CASE UNCHANGED caseVars
    BY <1>7 DEF caseVars, CaseTyped, TypeOK, Pending, Typed
  <1>8. QED
    BY <1>1, <1>2, <1>3, <1>4, <1>5, <1>6, <1>7 DEF CaseNext

-----------------------------------------------------------------------------
(* The follow-up history.                                                  *)

\* A finite nonempty set of naturals has its greatest.
LEMMA Greatest ==
    ASSUME NEW S \in SUBSET Nat, S # {}, IsFiniteSet(S)
    PROVE  Max(S) \in S /\ \A x \in S : x <= Max(S)
  <1> DEFINE Above(x) == {y \in S : y > x}
             F == {Above(x) : x \in S}
  <1>1. F \subseteq SUBSET S /\ F # {}
    OBVIOUS
  <1>2. \E A \in F : \A C \in F : ~(<<C, A>> \in StrictSubsetOrdering(S))
    <2>1. FiniteSubsetsOf(S) = SUBSET S
      BY FS_FiniteSubsetsOfFinite
    <2>2. IsWellFoundedOn(StrictSubsetOrdering(S), FiniteSubsetsOf(S))
      BY FS_StrictSubsetOrderingWellFounded
    <2>3. IsWellFoundedOn(StrictSubsetOrdering(S), SUBSET S)
      BY <2>1, <2>2
    <2> HIDE DEF F
    <2>4. QED
      BY <1>1, <2>3, WFMin, Zenon
  <1>3. PICK x \in S : \A y \in S : ~(<<Above(y), Above(x)>> \in StrictSubsetOrdering(S))
    BY <1>2
  <1>4. \A y \in S : x >= y
    <2> SUFFICES ASSUME NEW y \in S, y > x PROVE FALSE
      OBVIOUS
    <2>1. \A z \in S : z \in Nat
      OBVIOUS
    <2>2. ASSUME NEW z \in Above(y) PROVE z \in Above(x)
      <3>1. z \in S /\ z > y
        OBVIOUS
      <3>2. z > x
        BY <2>1, <3>1
      <3>3. QED
        BY <3>1, <3>2
    <2>3. y \in Above(x) /\ y \notin Above(y)
      BY <2>1
    <2>4. <<Above(y), Above(x)>> \in StrictSubsetOrdering(S)
      BY <2>2, <2>3 DEF StrictSubsetOrdering
    <2>5. QED
      BY <1>3, <2>4
  <1>5. Max(S) \in S /\ \A y \in S : Max(S) >= y
    BY <1>4, Zenon DEF Max
  <1>6. QED
    BY <1>5

\* The attempts numbered so far.
Numbers(s) == {0} \cup {OrZero(s[i].number) : i \in Calls(s)}

\* The attempts of a history are the largest number any call in it has.
LEMMA Attempts ==
    ASSUME NEW s \in Seq(Activity)
    PROVE  /\ Numbers(s) \in SUBSET Nat /\ IsFiniteSet(Numbers(s))
           /\ AttemptCount(s) = Max(Numbers(s))
           /\ AttemptCount(s) \in Numbers(s) /\ \A n \in Numbers(s) : n <= AttemptCount(s)
  <1>1. \A i \in DOMAIN s : s[i] \in Activity
    OBVIOUS
  <1>2. \A i \in Calls(s) : OrZero(s[i].number) \in Nat
    BY <1>1 DEF Calls, OrZero, Activity
  <1>3. Numbers(s) \in SUBSET Nat
    BY <1>2 DEF Numbers
  <1>4. IsFiniteSet(Numbers(s))
    <2>1. Calls(s) \in SUBSET (1..Len(s)) /\ Len(s) \in Nat
      BY DEF Calls
    <2>2. IsFiniteSet(1..Len(s))
      BY <2>1, FS_Interval
    <2>3. IsFiniteSet(Calls(s))
      BY <2>1, <2>2, FS_Subset
    <2>4. PICK numbers : numbers = {OrZero(s[i].number) : i \in Calls(s)}
      OBVIOUS
    <2>5. IsFiniteSet(numbers)
      <3>1. PICK h : h = [i \in Calls(s) |-> OrZero(s[i].number)]
        OBVIOUS
      <3>2. h \in Surjection(Calls(s), numbers)
        <4>1. h \in [Calls(s) -> numbers]
          BY <2>4, <3>1
        <4>2. \A n \in numbers : \E i \in Calls(s) : h[i] = n
          BY <2>4, <3>1
        <4>3. QED
          BY <4>1, <4>2 DEF Surjection
      <3>3. QED
        BY <2>3, <3>2, FS_Surjection
    <2>6. IsFiniteSet(numbers \cup {0})
      BY <2>5, FS_AddElement
    <2>7. Numbers(s) = numbers \cup {0}
      BY <2>4 DEF Numbers
    <2>8. QED
      BY <2>6, <2>7
  <1>5. AttemptCount(s) = Max(Numbers(s))
    BY DEF AttemptCount, Numbers
  <1>6. Numbers(s) # {}
    BY DEF Numbers
  <1>7. QED
    BY <1>3, <1>4, <1>5, <1>6, Greatest

\* What a request on the history is about to write keeps the shape of its row.
Shaping(c) ==
    /\ "kind" \in DOMAIN call[c]
    /\ call[c].kind = "create" => call[c].entry \in Activity /\ Shaped(call[c].entry)
    /\ call[c].kind = "edit" =>
          /\ call[c].entry \in Edits
          /\ call[c].index \in DOMAIN activities
          /\ call[c].read[call[c].index] \in Activity
          /\ call[c].read[call[c].index].type = activities[call[c].index].type
          /\ Editable(call[c].read[call[c].index], call[c].entry)

HistoryInv ==
    /\ activities \in Seq(Activity) /\ ShapeHeld
    /\ DOMAIN call = Callers
    /\ \A c \in Callers : Shaping(c)

\* The others are where they were, if no row leaves or changes its type.
LEMMA OthersShaping ==
    ASSUME HistoryInv, NEW c \in Callers, NEW new, call' = [call EXCEPT ![c] = new],
           activities' \in Seq(Activity), ShapeHeld', Shaping(c)',
           DOMAIN activities \subseteq DOMAIN activities',
           \A i \in DOMAIN activities : activities'[i].type = activities[i].type
    PROVE  HistoryInv'
  <1>1. DOMAIN call' = Callers /\ \A d \in Callers : d # c => call'[d] = call[d]
    BY DEF HistoryInv
  <1>2. ASSUME NEW d \in Callers PROVE Shaping(d)'
    <2>1. CASE d # c
      <3>1. call'[d] = call[d] /\ Shaping(d)
        BY <1>1, <2>1 DEF HistoryInv
      <3>2. QED
        BY <3>1 DEF Shaping
    <2>2. CASE d = c
      BY <2>2
    <2>3. QED
      BY <2>1, <2>2
  <1>3. QED
    BY <1>1, <1>2 DEF HistoryInv

\* A request enters only a body the schema lets through.
LEMMA CreatingShaped ==
    ASSUME HistoryInv, NEW c \in Callers, NEW u, NEW e \in Entries, BeginCreate(c, u, e)
    PROVE  HistoryInv'
  <1>1. e \in Entry /\ Shaped(e) /\ activities' = activities
    BY FollowUpAssumption DEF BeginCreate
  <1>2. Begun \in Nat
    <2>1. IsFiniteSet({d \in Callers : call[d].kind # "idle"})
      BY FollowUpAssumption, FS_Subset
    <2>2. QED
      BY <2>1, FS_CardinalityType DEF Begun
  <1>3. NextAttempt(activities) \in Nat
    <2>1. AttemptCount(activities) \in Nat
      BY Attempts DEF HistoryInv
    <2>2. QED
      BY <2>1 DEF NextAttempt
  <1>4. PICK n \in Nat \cup {Null} : n = IF e.type = "call" /\ e.number = Null
                                       THEN NextAttempt(activities) ELSE e.number
    BY <1>1, <1>3 DEF Entry
  <1>5. PICK b \in Nat : b = Begun
    BY <1>2
  <1>6. PICK a : a = [type |-> e.type, result |-> e.result, at |-> e.at, next |-> e.next,
                      begun |-> b, number |-> n]
    OBVIOUS
  <1>7. a \in Activity /\ Shaped(a)
    BY <1>1, <1>4, <1>6 DEF Entry, Activity, Shaped
  <1>8. PICK new : /\ call' = [call EXCEPT ![c] = new]
                   /\ new = [kind |-> "create", by |-> u, index |-> 0, read |-> activities,
                             entry |-> a]
    BY <1>4, <1>5, <1>6 DEF BeginCreate
  <1>9. Shaping(c)'
    BY <1>7, <1>8 DEF HistoryInv, Shaping
  <1>10. QED
    BY <1>1, <1>8, <1>9, OthersShaping DEF HistoryInv, ShapeHeld

\* What is inserted has the shape that was checked.
LEMMA InsertedShaped ==
    ASSUME HistoryInv, NEW c \in Callers, Insert(c)
    PROVE  HistoryInv'
  <1>1. PICK a : a = call[c].entry
    OBVIOUS
  <1>2. a \in Activity /\ Shaped(a) /\ activities' = Append(activities, a)
    BY <1>1 DEF HistoryInv, Shaping, Insert
  <1>3. activities \in Seq(Activity)
    BY DEF HistoryInv
  <1>4. /\ activities' \in Seq(Activity)
        /\ DOMAIN activities \subseteq DOMAIN activities'
        /\ \A i \in DOMAIN activities : activities'[i] = activities[i]
        /\ \A i \in DOMAIN activities' : i \notin DOMAIN activities => activities'[i] = a
    BY <1>2, <1>3
  <1>5. ShapeHeld'
    BY <1>2, <1>4 DEF HistoryInv, ShapeHeld
  <1>6. PICK new : call' = [call EXCEPT ![c] = new] /\ new = [call[c] EXCEPT !.kind = "done"]
    BY DEF Insert
  <1>7. Shaping(c)'
    <2>1. "kind" \in DOMAIN new /\ new.kind = "done"
      BY <1>6 DEF HistoryInv, Shaping
    <2>2. QED
      BY <1>6, <2>1 DEF HistoryInv, Shaping
  <1>8. QED
    BY <1>4, <1>5, <1>6, <1>7, OthersShaping

\* An edit is checked against the row it found.
LEMMA EditingShaped ==
    ASSUME HistoryInv, NEW c \in Callers, NEW u, NEW i \in DOMAIN activities, NEW p \in Edits,
           BeginEdit(c, u, i, p)
    PROVE  HistoryInv'
  <1>1. Editable(activities[i], p) /\ activities' = activities /\ activities[i] \in Activity
    BY DEF BeginEdit, HistoryInv, ShapeHeld
  <1>2. PICK new : /\ call' = [call EXCEPT ![c] = new]
                   /\ new = [kind |-> "edit", by |-> u, entry |-> p, index |-> i,
                             read |-> activities]
    BY DEF BeginEdit
  <1>3. Shaping(c)'
    BY <1>1, <1>2 DEF HistoryInv, Shaping
  <1>4. QED
    BY <1>1, <1>2, <1>3, OthersShaping DEF HistoryInv, ShapeHeld

\* The row of an UPDATE has the columns that changed since it was read, and
\* the shape they have together with those another edit may have changed.
LEMMA EditedRow ==
    ASSUME NEW seen \in Activity, NEW now \in Activity, now.type = seen.type, Shaped(now),
           NEW p \in Edits, Editable(seen, p), Merged(seen, p).at # Null,
           NEW a, a = [f \in DOMAIN seen |-> IF Merged(seen, p)[f] # seen[f]
                                            THEN Merged(seen, p)[f] ELSE now[f]]
    PROVE  a \in Activity /\ Shaped(a) /\ a.type = now.type
  <1>1. PICK m : m = Merged(seen, p)
    OBVIOUS
  <1>2. DOMAIN seen = {"type", "result", "at", "next", "number", "begun"}
    BY DEF Activity
  <1>3. /\ DOMAIN p \subseteq {"result", "at", "next", "number"}
        /\ "result" \in DOMAIN p => p.result \in Results \cup {Null}
        /\ "at" \in DOMAIN p => p.at \in Nat \cup {Null}
        /\ "next" \in DOMAIN p => p.next \in Nat \cup {Null}
        /\ "number" \in DOMAIN p => p.number \in Nat \cup {Null}
    BY FollowUpAssumption DEF Changeable
  <1>4. /\ m.type = seen.type /\ m.begun = seen.begun
        /\ m.result = IF "result" \in DOMAIN p THEN p.result ELSE seen.result
        /\ m.at = IF "at" \in DOMAIN p THEN p.at ELSE seen.at
        /\ m.next = IF "next" \in DOMAIN p THEN p.next ELSE seen.next
        /\ m.number = IF "number" \in DOMAIN p THEN p.number ELSE seen.number
    BY <1>1, <1>2, <1>3 DEF Merged
  <1>5. /\ m.result \in Results \cup {Null} /\ m.at \in Nat
        /\ m.next \in Nat \cup {Null} /\ m.number \in Nat \cup {Null}
    BY <1>1, <1>3, <1>4 DEF Activity
  <1>6. /\ a = [type |-> a.type, result |-> a.result, at |-> a.at, next |-> a.next,
                number |-> a.number, begun |-> a.begun]
        /\ a.type = now.type /\ a.begun = now.begun
        /\ a.result = IF m.result # seen.result THEN m.result ELSE now.result
        /\ a.at = IF m.at # seen.at THEN m.at ELSE now.at
        /\ a.next = IF m.next # seen.next THEN m.next ELSE now.next
        /\ a.number = IF m.number # seen.number THEN m.number ELSE now.number
    BY <1>1, <1>2, <1>4
  <1>7. a \in Activity
    <2>1. /\ now.type \in {"call", "follow_up"} /\ now.begun \in Nat
          /\ now.result \in Results \cup {Null} /\ now.at \in Nat
          /\ now.next \in Nat \cup {Null} /\ now.number \in Nat \cup {Null}
      BY DEF Activity
    <2>2. /\ a.type \in {"call", "follow_up"} /\ a.begun \in Nat
          /\ a.result \in Results \cup {Null} /\ a.at \in Nat
          /\ a.next \in Nat \cup {Null} /\ a.number \in Nat \cup {Null}
      BY <1>5, <1>6, <2>1
    <2>3. QED
      BY <1>6, <2>2 DEF Activity
  <1>8. CASE seen.type = "call"
    <2>1. m.result # Null /\ now.result # Null
      BY <1>1, <1>8 DEF Editable, Shaped
    <2>2. QED
      BY <1>6, <1>7, <1>8, <2>1 DEF Shaped
  <1>9. CASE seen.type # "call"
    <2>1. /\ m.result = seen.result /\ m.number = seen.number /\ m.next # Null
          /\ now.result = Null /\ now.number = Null /\ now.next # Null
      BY <1>1, <1>4, <1>9 DEF Editable, Shaped
    <2>2. QED
      BY <1>6, <1>7, <1>9, <2>1 DEF Shaped
  <1>10. QED
    BY <1>8, <1>9

\* Two edits of one row, each checked against another version of it, leave its shape.
LEMMA EditedShaped ==
    ASSUME HistoryInv, NEW c \in Callers, Edit(c)
    PROVE  HistoryInv'
  <1>1. PICK i, seen, p : i = call[c].index /\ seen = call[c].read[i] /\ p = call[c].entry
    OBVIOUS
  <1>2. /\ p \in Edits /\ i \in DOMAIN activities /\ seen \in Activity
        /\ seen.type = activities[i].type /\ Editable(seen, p)
        /\ activities[i] \in Activity /\ Shaped(activities[i])
    BY <1>1 DEF HistoryInv, Shaping, ShapeHeld, Edit
  <1>3. PICK new : call' = [call EXCEPT ![c] = new] /\ new = [call[c] EXCEPT !.kind = "done"]
    BY DEF Edit
  <1>4. Shaping(c)'
    <2>1. "kind" \in DOMAIN new /\ new.kind = "done"
      BY <1>3 DEF HistoryInv, Shaping
    <2>2. QED
      BY <1>3, <2>1 DEF HistoryInv, Shaping
  <1>5. CASE Merged(seen, p).at = Null
    <2>1. activities' = activities
      BY <1>1, <1>5 DEF Edit
    <2>2. QED
      BY <1>3, <1>4, <2>1, OthersShaping DEF HistoryInv, ShapeHeld
  <1>6. CASE Merged(seen, p).at # Null
    <2>1. PICK a : a = [f \in DOMAIN seen |-> IF Merged(seen, p)[f] # seen[f]
                                             THEN Merged(seen, p)[f] ELSE activities[i][f]]
      OBVIOUS
    <2>2. activities' = [activities EXCEPT ![i] = a]
      BY <1>1, <1>6, <2>1 DEF Edit
    <2>3. a \in Activity /\ Shaped(a) /\ a.type = activities[i].type
      BY <1>2, <1>6, <2>1, EditedRow
    <2>4. activities \in Seq(Activity)
      BY DEF HistoryInv
    <2>5. /\ activities' \in Seq(Activity) /\ DOMAIN activities' = DOMAIN activities
          /\ activities'[i] = a
          /\ \A j \in DOMAIN activities : j # i => activities'[j] = activities[j]
      BY <1>2, <2>2, <2>3, <2>4
    <2>6. ShapeHeld'
      BY <2>3, <2>5 DEF HistoryInv, ShapeHeld
    <2>7. \A j \in DOMAIN activities : activities'[j].type = activities[j].type
      BY <2>3, <2>5
    <2>8. QED
      BY <1>3, <1>4, <2>5, <2>6, <2>7, OthersShaping
  <1>7. QED
    BY <1>5, <1>6

\* No step of a history loses the shape of its rows.
LEMMA NextHistory == HistoryInv /\ [Next]_vars => HistoryInv'
  <1> SUFFICES ASSUME HistoryInv, [Next]_vars PROVE HistoryInv'
    OBVIOUS
  <1>1. CASE UNCHANGED followUpVars
    BY <1>1 DEF followUpVars, HistoryInv, ShapeHeld, Shaping
  <1>2. CASE FollowUpNext
    BY <1>2, CreatingShaped, InsertedShaped, EditingShaped, EditedShaped DEF FollowUpNext
  <1>3. QED
    BY <1>1, <1>2 DEF Next, vars

\* The three invariants together.
LEMMA TypingInv == Spec => [](IInv /\ CaseTyped /\ HistoryInv)
  <1>1. Init => CaseTyped /\ HistoryInv
    <2> SUFFICES ASSUME Init PROVE CaseTyped /\ HistoryInv
      OBVIOUS
    <2>1. activities = <<>> /\ call = [c \in Callers |-> NoCall]
      BY DEF Init, FollowUpInit
    <2>2. HistoryInv
      BY <2>1 DEF HistoryInv, ShapeHeld, Shaping, NoCall
    <2>3. QED
      BY <2>2, InitCaseTyped DEF Init
  <1>2. [Next]_vars => [CaseNext]_caseVars
    BY DEF Next, vars
  <1>3. QED
    BY <1>1, <1>2, InitIInv, NextIInv, NextCaseTyped, NextHistory, PTL DEF Spec

\* The columns of a case and the rows of its history keep their types and shape,
\* whatever payloads and edits overlap.
THEOREM Typing == Spec => []WellTyped
  <1>1. CaseTyped /\ HistoryInv => WellTyped
    BY DEF CaseTyped, HistoryInv, WellTyped
  <1>2. QED
    BY <1>1, TypingInv, PTL

\* One more call has one more number.
LEMMA OneMore ==
    ASSUME NEW s \in Seq(Activity), NEW a \in Activity, a.type = "call", NEW k \in Nat,
           k = AttemptCount(s), a.number = k + 1
    PROVE  AttemptCount(Append(s, a)) = k + 1
  <1>1. PICK t : t = Append(s, a)
    OBVIOUS
  <1>2. /\ t \in Seq(Activity) /\ DOMAIN t = DOMAIN s \cup {Len(s) + 1}
        /\ t[Len(s) + 1] = a /\ \A i \in DOMAIN s : t[i] = s[i]
        /\ Len(s) + 1 \notin DOMAIN s
    BY <1>1
  <1>3. Calls(t) = Calls(s) \cup {Len(s) + 1}
    BY <1>2 DEF Calls
  <1>4. Calls(s) \subseteq DOMAIN s
    BY DEF Calls
  <1>5. OrZero(a.number) = k + 1
    BY CaseAssumption DEF OrZero
  <1>6. Numbers(t) = Numbers(s) \cup {k + 1}
    BY <1>2, <1>3, <1>4, <1>5 DEF Numbers
  <1>7. /\ \A n \in Numbers(s) : n \in Nat /\ n <= k
        /\ AttemptCount(t) \in Numbers(t) /\ \A n \in Numbers(t) : n <= AttemptCount(t)
    BY <1>2, Attempts
  <1>8. PICK m : m = AttemptCount(t)
    OBVIOUS
  <1>9. m \in Nat /\ k + 1 <= m /\ (m = k + 1 \/ m <= k)
    BY <1>6, <1>7, <1>8
  <1>10. QED
    BY <1>1, <1>8, <1>9

\* A call the server numbers, with no other entry in between, is one more
\* attempt, however the history was edited before.
THEOREM Counted == Spec => AttemptCounted
  <1>1. ASSUME HistoryInv, [Next]_vars, NEW c \in Callers, call[c].kind = "create",
               call'[c].kind = "done", call[c].entry.type = "call", call[c].read = activities,
               call[c].entry.number = NextAttempt(activities)
        PROVE  AttemptCount(activities') = AttemptCount(activities) + 1
    <2>1. PICK d \in Callers :
             \/ \E u \in Users :
                   \/ \E e \in Entries : BeginCreate(d, u, e)
                   \/ \E i \in DOMAIN activities, p \in Edits : BeginEdit(d, u, i, p)
             \/ Insert(d) \/ Edit(d)
      BY <1>1 DEF Next, vars, followUpVars, FollowUpNext
    <2>2. \A b \in Callers : b # d => call'[b] = call[b]
      BY <1>1, <2>1 DEF HistoryInv, BeginCreate, BeginEdit, Insert, Edit
    <2>3. d = c
      BY <1>1, <2>2
    <2>4. Insert(c)
      BY <1>1, <2>1, <2>3 DEF BeginCreate, BeginEdit, Edit
    <2>5. PICK a : a = call[c].entry
      OBVIOUS
    <2>6. a \in Activity /\ a.type = "call" /\ activities' = Append(activities, a)
      BY <1>1, <2>4, <2>5 DEF HistoryInv, Shaping, Insert
    <2>7. activities \in Seq(Activity)
      BY <1>1 DEF HistoryInv
    <2>8. PICK k \in Nat : k = AttemptCount(activities)
      BY <2>7, Attempts
    <2>9. a.number = k + 1
      BY <1>1, <2>5, <2>8 DEF NextAttempt
    <2>10. QED
      BY <2>6, <2>7, <2>8, <2>9, OneMore
  <1>2. HistoryInv /\ [Next]_vars =>
          [\A c \in Callers :
              /\ call[c].kind = "create" /\ call'[c].kind = "done"
              /\ call[c].entry.type = "call" /\ call[c].read = activities
              /\ call[c].entry.number = NextAttempt(activities)
              => AttemptCount(activities') = AttemptCount(activities) + 1]_vars
    BY <1>1
  <1>3. QED
    BY <1>2, TypingInv, PTL DEF Spec, AttemptCounted

-----------------------------------------------------------------------------
(* The rules of a case.                                                    *)

\* What a PATCH makes of a row.
LEMMA PatchRules ==
    ASSUME NEW c \in Row, NEW p \in Payloads, WellFormed(p), NEW n, n = Patched(c, p)
    PROVE  /\ n.type # Null => n.offer = OrZero(n.coverage) + OrZero(n.cash)
           /\ n.archived => n.status \in Closed
           /\ n.stage # c.stage => c.stage = Null /\ n.status \in Accepted
  <1>1. PICK m \in Row : m = Merged(c, p)
    BY MergedRow, PayloadTyped
  <1>2. m.stage = c.stage
    <2>1. "stage" \notin DOMAIN p
      BY CaseAssumption DEF Sendable
    <2>2. QED
      BY <1>1, <2>1 DEF Merged, Row
  <1>3. PICK a : a = [m EXCEPT !.archived = m.archived /\ m.status \in Closed]
    OBVIOUS
  <1>4. /\ a.archived = (m.archived /\ m.status \in Closed) /\ a.status = m.status
        /\ a.stage = c.stage
        /\ DOMAIN a = Fields
    BY <1>2, <1>3 DEF Row, Fields
  <1>5. n = [a EXCEPT !.offer = OfferOf(a), !.stage = EntryStage(a)]
    BY <1>1, <1>3 DEF Patched, Synced
  <1>6. /\ n.offer = OfferOf(a) /\ n.stage = EntryStage(a) /\ n.archived = a.archived
        /\ n.status = a.status /\ n.type = a.type /\ n.coverage = a.coverage /\ n.cash = a.cash
    BY <1>4, <1>5 DEF Fields
  <1>7. n.type # Null => n.offer = OrZero(n.coverage) + OrZero(n.cash)
    BY <1>6 DEF OfferOf
  <1>8. n.archived => n.status \in Closed
    BY <1>4, <1>6
  <1>9. n.stage # c.stage => c.stage = Null /\ n.status \in Accepted
    BY <1>4, <1>6 DEF EntryStage, Accepted
  <1>10. QED
    BY <1>7, <1>8, <1>9

\* What a move makes of a row.
LEMMA MoveRules ==
    ASSUME NEW c \in Row, NEW p \in Moves, Movable(c), NEW n, n = Moved(c, p)
    PROVE  ~n.archived /\ n.status \in Accepted
  <1>1. PICK m : m = Merged(c, p)
    OBVIOUS
  <1>2. m.archived = c.archived /\ m.status = c.status /\ DOMAIN m = Fields
    BY <1>1, CaseAssumption DEF Merged, Row, Fields
  <1>3. PICK s \in Accepted : s = IF m.stage \in Owned THEN "purchased" ELSE "accepted"
    BY DEF Accepted
  <1>4. n = m \/ n = [m EXCEPT !.status = s]
    BY <1>1, <1>3 DEF Moved
  <1>5. QED
    BY <1>2, <1>3, <1>4 DEF Movable, Fields

\* Each write of a request that found the row as it had loaded it restores the
\* rules of a case, whatever the requests before it left.
THEOREM RulesKept == Spec => CaseRules
  <1>1. ASSUME IInv, CaseTyped, [Next]_vars, NEW r \in Requests, Pending(r), req'[r].kind = "done",
               req[r].seen = row, row' # row
        PROVE  OfferInSync(r) /\ ArchiveRule /\ ClosedDoesNotMove
    <2>1. Write(r)
      <3>1. ASSUME NEW q \in Requests, q # r, Write(q) PROVE FALSE
        BY <1>1, <3>1 DEF CaseTyped, Write, Pending
      <3>2. ASSUME NEW u \in Users, DeleteAccount(u) \/ \E p \in Payloads : Create(u, p)
            PROVE  FALSE
        BY <1>1, <3>2 DEF DeleteAccount, Create, Pending
      <3>3. QED
        BY <1>1, <3>1, <3>2 DEF Next, CaseNext, vars, caseVars, LoadPatch, LoadMove, Fail
    <2>2. row \in Row /\ Typed(r) /\ Checked(r)
      BY <1>1 DEF CaseTyped, TypeOK, IInv
    <2>3. PICK n : n = After(r)
      OBVIOUS
    <2>4. n \in Row
      BY <1>1, <2>2, <2>3, AfterRow
    <2>5. row' = n
      <3>1. row = [f \in Fields |-> row[f]] /\ n = [f \in Fields |-> n[f]]
        BY <2>2, <2>4, ByField
      <3>2. row' = [f \in Fields |-> IF n[f] # row[f] THEN n[f] ELSE row[f]]
        BY <1>1, <2>1, <2>3, <3>1 DEF Write, Flushed
      <3>3. \A f \in Fields : (IF n[f] # row[f] THEN n[f] ELSE row[f]) = n[f]
        OBVIOUS
      <3>4. QED
        BY <3>1, <3>2, <3>3
    <2>6. CASE req[r].kind = "patch"
      <3>1. /\ n.type # Null => n.offer = OrZero(n.coverage) + OrZero(n.cash)
            /\ n.archived => n.status \in Closed
            /\ n.stage # row.stage => row.stage = Null /\ n.status \in Accepted
        BY <1>1, <2>2, <2>3, <2>6, PatchRules DEF Typed, After
      <3>2. OfferInSync(r)
        BY <2>5, <3>1 DEF OfferInSync
      <3>3. ArchiveRule
        BY <2>5, <3>1 DEF ArchiveRule, OnBoard, Bucket, Board, Closed
      <3>4. ClosedDoesNotMove
        BY <2>5, <3>1 DEF ClosedDoesNotMove, Accepted, Closed
      <3>5. QED
        BY <3>2, <3>3, <3>4
    <2>7. CASE req[r].kind = "move"
      <3>1. Movable(row) /\ ~n.archived /\ n.status \in Accepted
        BY <1>1, <2>2, <2>3, <2>7, MoveRules DEF Typed, After, Checked
      <3>2. OfferInSync(r)
        BY <2>7 DEF OfferInSync
      <3>3. ArchiveRule
        BY <2>5, <3>1 DEF ArchiveRule, Bucket, Accepted, Closed
      <3>4. ClosedDoesNotMove
        BY <2>5, <3>1 DEF ClosedDoesNotMove, Movable
      <3>5. QED
        BY <3>2, <3>3, <3>4
    <2>8. QED
      BY <1>1, <2>6, <2>7 DEF Pending
  <1>2. IInv /\ CaseTyped /\ [Next]_vars =>
          [\A r \in Requests :
              Pending(r) /\ req'[r].kind = "done" /\ req[r].seen = row /\ row' # row
              => OfferInSync(r) /\ ArchiveRule /\ ClosedDoesNotMove]_caseVars
    BY <1>1
  <1>3. QED
    BY <1>2, TypingInv, PTL DEF Spec, CaseRules

-----------------------------------------------------------------------------
(* The summary of the history.                                             *)

\* i is among those no other comes after.
Last(s, among, i) ==
    \A j \in among : \/ s[j].at < s[i].at
                     \/ s[j].at = s[i].at /\ s[j].begun <= s[i].begun

\* The latest of some rows is one of them, and none comes after it.
LEMMA LatestLast ==
    ASSUME NEW s \in Seq(Activity), NEW A \in SUBSET DOMAIN s, A # {}
    PROVE  Latest(s, A) \in A /\ Last(s, A, Latest(s, A))
  <1> DEFINE Before(i, j) == \/ s[i].at < s[j].at
                             \/ s[i].at = s[j].at /\ s[i].begun < s[j].begun
             After1(i) == {j \in A : Before(i, j)}
             F == {After1(i) : i \in A}
  <1>1. \A i \in A : s[i].at \in Nat /\ s[i].begun \in Nat
    <2>1. \A i \in DOMAIN s : s[i] \in Activity
      OBVIOUS
    <2>2. QED
      BY <2>1 DEF Activity
  <1>2. IsFiniteSet(A)
    <2>1. A \in SUBSET (1..Len(s)) /\ Len(s) \in Nat
      OBVIOUS
    <2>2. QED
      BY <2>1, FS_Interval, FS_Subset
  <1>3. F \subseteq SUBSET A /\ F # {}
    <2>1. \A i : After1(i) \in SUBSET A
      OBVIOUS
    <2> HIDE DEF After1
    <2>2. QED
      BY <2>1
  <1>4. \E B \in F : \A C \in F : ~(<<C, B>> \in StrictSubsetOrdering(A))
    <2>1. FiniteSubsetsOf(A) = SUBSET A
      BY <1>2, FS_FiniteSubsetsOfFinite
    <2>2. IsWellFoundedOn(StrictSubsetOrdering(A), FiniteSubsetsOf(A))
      BY FS_StrictSubsetOrderingWellFounded
    <2>3. IsWellFoundedOn(StrictSubsetOrdering(A), SUBSET A)
      BY <2>1, <2>2
    <2> HIDE DEF F
    <2>4. QED
      BY <1>3, <2>3, WFMin, Zenon
  <1>5. PICK i \in A : \A k \in A : ~(<<After1(k), After1(i)>> \in StrictSubsetOrdering(A))
    BY <1>4
  <1>6. ASSUME NEW k \in A, Before(i, k) PROVE FALSE
    <2>1. ASSUME NEW j \in After1(k) PROVE j \in After1(i)
      BY <1>1, <1>6, <2>1
    <2>2. k \in After1(i) /\ k \notin After1(k)
      BY <1>1, <1>6
    <2>3. <<After1(k), After1(i)>> \in StrictSubsetOrdering(A)
      BY <2>1, <2>2 DEF StrictSubsetOrdering
    <2>4. QED
      BY <1>5, <2>3
  <1>7. Last(s, A, i)
    <2>1. ASSUME NEW j \in A PROVE \/ s[j].at < s[i].at
                                   \/ s[j].at = s[i].at /\ s[j].begun <= s[i].begun
      BY <1>1, <1>6
    <2>2. QED
      BY <2>1, Zenon DEF Last
  <1>8. Latest(s, A) = CHOOSE k \in A : Last(s, A, k)
    BY Zenon DEF Latest, Last
  <1>9. QED
    BY <1>7, <1>8

\* t is s and a row that comes before the latest of the rows A, among the rows B.
Backfills(s, a, t, A, B) ==
    /\ s \in Seq(Activity) /\ a \in Activity /\ t = Append(s, a)
    /\ A \in SUBSET DOMAIN s /\ A # {} /\ a.at < s[Latest(s, A)].at
    /\ B \in {A, A \cup {Len(s) + 1}}

\* That leaves the latest.
LEMMA Backfilled ==
    ASSUME NEW s, NEW a, NEW t, NEW A, NEW B, Backfills(s, a, t, A, B)
    PROVE  Latest(t, B) = Latest(s, A) /\ Latest(s, A) \in DOMAIN s
  <1> USE DEF Backfills
  <1>1. PICK l \in A : l = Latest(s, A) /\ Last(s, A, l)
    BY LatestLast
  <1>2. /\ t[Len(s) + 1] = a /\ \A i \in DOMAIN s : t[i] = s[i]
        /\ Len(s) + 1 \notin DOMAIN s /\ Len(s) \in Nat
    OBVIOUS
  <1>3. \A i \in DOMAIN s : s[i].at \in Nat /\ s[i].begun \in Nat
    <2>1. \A i \in DOMAIN s : s[i] \in Activity
      OBVIOUS
    <2>2. QED
      BY <2>1 DEF Activity
  <1>4. a.at \in Nat /\ a.at < s[l].at
    BY <1>1 DEF Activity
  <1>5. ASSUME NEW i, i \in A /\ Last(s, A, i) PROVE i \in B /\ Last(t, B, i)
    <2>1. s[l].at <= s[i].at
      <3>1. s[l].at < s[i].at \/ s[l].at = s[i].at
        BY <1>5, Zenon DEF Last
      <3>2. QED
        BY <1>3, <1>5, <3>1
    <2>2. a.at < t[i].at
      BY <1>2, <1>3, <1>4, <1>5, <2>1
    <2>3. ASSUME NEW j \in B PROVE \/ t[j].at < t[i].at
                                   \/ t[j].at = t[i].at /\ t[j].begun <= t[i].begun
      <3>1. CASE j \in A
        BY <1>2, <1>5, <3>1 DEF Last
      <3>2. CASE j = Len(s) + 1
        BY <1>2, <2>2, <3>2
      <3>3. QED
        BY <3>1, <3>2
    <2>4. Last(t, B, i)
      BY <2>3, Zenon DEF Last
    <2>5. QED
      BY <1>5, <2>4
  <1>6. ASSUME NEW i, i \in B /\ Last(t, B, i) PROVE i \in A /\ Last(s, A, i)
    <2>1. i # Len(s) + 1
      <3>1. SUFFICES ASSUME i = Len(s) + 1 PROVE FALSE
        OBVIOUS
      <3>2. t[i] = a /\ t[l] = s[l] /\ l \in B
        BY <1>2, <3>1
      <3>3. t[l].at < t[i].at \/ t[l].at = t[i].at
        BY <1>6, <3>2, Zenon DEF Last
      <3>4. QED
        BY <1>3, <1>4, <3>2, <3>3
    <2>2. i \in A
      BY <1>6, <2>1
    <2>3. QED
      BY <1>2, <1>6, <2>2 DEF Last
  <1>7. \A i : i \in A /\ Last(s, A, i) <=> i \in B /\ Last(t, B, i)
    BY <1>5, <1>6
  <1>8. (CHOOSE i \in A : Last(s, A, i)) = (CHOOSE i \in B : Last(t, B, i))
    BY <1>7, Zenon
  <1>9. /\ Latest(s, A) = CHOOSE i \in A : Last(s, A, i)
        /\ Latest(t, B) = CHOOSE i \in B : Last(t, B, i)
    BY Zenon DEF Latest, Last
  <1>10. QED
    BY <1>1, <1>8, <1>9

\* Only an insert makes the history longer, by one row at its end.
LEMMA Longer ==
    ASSUME HistoryInv, [Next]_vars, Len(activities') > Len(activities)
    PROVE  \E a \in Activity : activities' = Append(activities, a)
  <1>1. activities \in Seq(Activity)
    BY DEF HistoryInv
  <1>2. PICK c \in Callers : Insert(c) \/ Edit(c)
    BY <1>1 DEF Next, vars, followUpVars, FollowUpNext, BeginCreate, BeginEdit
  <1>3. CASE Insert(c)
    BY <1>3 DEF HistoryInv, Shaping, Insert
  <1>4. CASE Edit(c)
    <2>1. Len(activities') = Len(activities)
      BY <1>1, <1>4 DEF Edit
    <2>2. QED
      BY <1>1, <2>1
  <1>5. QED
    BY <1>2, <1>3, <1>4

\* An event of the past leaves the reminder, which belongs to the latest event,
\* and a call of the past the state of the contact.
THEOREM PastBackfilled == Spec => BackfillKeepsSummary
  <1>1. ASSUME HistoryInv, [Next]_vars, Len(activities') > Len(activities), activities # <<>>,
               NEW new, new = activities'[Len(activities')]
        PROVE  /\ new.at < activities[Latest(activities, DOMAIN activities)].at
                  => Reminder(activities') = Reminder(activities)
               /\ LastCall(activities) # Null /\ new.at < activities[LastCall(activities)].at
                  => ContactState(activities') = ContactState(activities)
    <2>1. PICK s, a, t :
             /\ s \in Seq(Activity) /\ a \in Activity
             /\ s = activities /\ t = activities' /\ t = Append(s, a)
      BY <1>1, Longer DEF HistoryInv
    <2>2. /\ new = a /\ s # <<>> /\ t # <<>>
          /\ DOMAIN t = DOMAIN s \cup {Len(s) + 1} /\ DOMAIN s # {}
          /\ t[Len(s) + 1] = a /\ \A i \in DOMAIN s : t[i] = s[i]
          /\ Len(s) + 1 \notin DOMAIN s
      BY <1>1, <2>1
    <2>3. ASSUME a.at < s[Latest(s, DOMAIN s)].at PROVE Reminder(t) = Reminder(s)
      <3>1. PICK A, B : A = DOMAIN s /\ B = DOMAIN t
        OBVIOUS
      <3>2. A \in SUBSET DOMAIN s /\ A # {} /\ B \in {A, A \cup {Len(s) + 1}}
        BY <2>2, <3>1
      <3>3. a.at < s[Latest(s, A)].at /\ t = Append(s, a) /\ s \in Seq(Activity) /\ a \in Activity
        BY <2>1, <2>3, <3>1
      <3>4. Latest(t, B) = Latest(s, A) /\ Latest(s, A) \in DOMAIN s
        <4>1. Backfills(s, a, t, A, B)
          BY <3>2, <3>3 DEF Backfills
        <4>2. QED
          BY <4>1, Backfilled
      <3>5. Latest(t, DOMAIN t) = Latest(s, DOMAIN s) /\ Latest(s, DOMAIN s) \in DOMAIN s
        BY <3>1, <3>4
      <3>6. QED
        BY <2>2, <3>5 DEF Reminder
    <2>4. ASSUME LastCall(s) # Null, a.at < s[LastCall(s)].at
          PROVE  ContactState(t) = ContactState(s)
      <3>1. Calls(s) # {} /\ LastCall(s) = Latest(s, Calls(s)) /\ Calls(s) \subseteq DOMAIN s
        BY <2>4 DEF LastCall, Calls
      <3>2. Calls(t) \in {Calls(s), Calls(s) \cup {Len(s) + 1}}
        <4>1. CASE a.type = "call"
          BY <2>2, <4>1 DEF Calls
        <4>2. CASE a.type # "call"
          BY <2>2, <4>2 DEF Calls
        <4>3. QED
          BY <4>1, <4>2
      <3>3. PICK A, B : A = Calls(s) /\ B = Calls(t)
        OBVIOUS
      <3>4. Latest(t, B) = Latest(s, A) /\ Latest(s, A) \in DOMAIN s
        <4>1. A \in SUBSET DOMAIN s /\ A # {} /\ B \in {A, A \cup {Len(s) + 1}}
          BY <3>1, <3>2, <3>3
        <4>2. a.at < s[Latest(s, A)].at /\ t = Append(s, a) /\ s \in Seq(Activity) /\ a \in Activity
          BY <2>1, <2>4, <3>1, <3>3
        <4>3. QED
          <5>1. Backfills(s, a, t, A, B)
            BY <4>1, <4>2 DEF Backfills
          <5>2. QED
            BY <5>1, Backfilled
      <3>5. Calls(t) # {}
        BY <3>1, <3>2
      <3>6. LastCall(t) = LastCall(s) /\ LastCall(s) \in DOMAIN s
        BY <3>1, <3>3, <3>4, <3>5 DEF LastCall
      <3>7. QED
        BY <2>2, <2>4, <3>6 DEF ContactState
    <2>5. QED
      BY <2>1, <2>2, <2>3, <2>4
  <1>2. HistoryInv /\ [Next]_vars =>
          [Len(activities') > Len(activities) /\ activities # <<>> =>
             LET new == activities'[Len(activities')]
             IN  /\ new.at < activities[Latest(activities, DOMAIN activities)].at
                    => Reminder(activities') = Reminder(activities)
                 /\ LastCall(activities) # Null /\ new.at < activities[LastCall(activities)].at
                    => ContactState(activities') = ContactState(activities)]_vars
    BY <1>1
  <1>3. QED
    BY <1>2, TypingInv, PTL DEF Spec, BackfillKeepsSummary
=============================================================================
