-------------------------- MODULE AutomationProofs --------------------------
(***************************************************************************)
(* Proofs about Automation: for any entities, users, edits and deletions,  *)
(* and for any number of runs unless a theorem says otherwise.             *)
(***************************************************************************)
EXTENDS Automation, FiniteSetTheorems, TLAPS

-----------------------------------------------------------------------------
(* Types, of the local variables too.                                      *)

\* The rows an entity may have, and what a query of all entities returns.
Rowed(e) == RowsOf(e) \cup {GoneRow(e)}

Table == {f \in [Entities -> UNION {Rowed(x) : x \in Entities}] :
             \A e \in Entities : f[e] \in Rowed(e)}

Accounts == [Users -> {"active", "off", "gone"}]

Somebody == Users \cup {Nobody}

Local == [phase : DOMAIN Detectors, todo : SUBSET Entities, rows : Table \cup {Expired},
          entity : Entities \cup {Expired}, type : {"incomplete", "ready", "plain"},
          users : SUBSET Somebody, accounts : Accounts \cup {Expired}, to : Somebody]

Typed == row \in Table /\ local \in [Runs -> Local] /\ TypeOK

\* What a run works on at each step.
At(l, step) ==
    /\ step \in {"user", "create"} =>
          l.entity \in Entities \ Showings /\ l.type \in TypesOf(l.entity)
    /\ step \in {"followup", "tell"} => l.entity \in Showings /\ l.to \in Users

Positioned == \A r \in Runs : At(local[r], pc[r])

\* A run sees rows an entity may have.
LEMMA SeenTyped ==
    ASSUME Typed, NEW r \in Runs, NEW e \in Entities
    PROVE  /\ Seen(r, e) \in Rowed(e)
           /\ Seen(r, e).type \in {"incomplete", "ready", "plain"}
           /\ Seen(r, e).assignee \in Somebody
           /\ Seen(r, e).status # "gone" => Seen(r, e).type \in TypesOf(e)
  <1>1. Seen(r, e) \in Rowed(e)
    BY DEF Seen, Typed, Table, Local
  <1>2. CASE Seen(r, e) \in RowsOf(e)
    <2>1. /\ Seen(r, e).type \in TypesOf(e)
          /\ Seen(r, e).assignee \in IF e \in OrgWide THEN {Nobody} ELSE Users \cup {Nobody}
      BY <1>2 DEF RowsOf
    <2>2. TypesOf(e) \subseteq {"incomplete", "ready", "plain"}
      BY DEF TypesOf
    <2>3. QED
      BY <1>1, <2>1, <2>2 DEF Somebody
  <1>3. CASE Seen(r, e) = GoneRow(e)
    BY <1>1, <1>3 DEF GoneRow, Somebody
  <1>4. QED
    BY <1>1, <1>2, <1>3 DEF Rowed

\* The fields a step changes.
LEMMA LocalFields ==
    /\ Idle \in Local
    /\ \A l \in Local, phase \in DOMAIN Detectors : [l EXCEPT !.phase = phase] \in Local
    /\ \A l \in Local, todo \in SUBSET Entities : [l EXCEPT !.todo = todo] \in Local
    /\ \A l \in Local, rows \in Table \cup {Expired} : [l EXCEPT !.rows = rows] \in Local
    /\ \A l \in Local, e \in Entities : [l EXCEPT !.entity = e] \in Local
    /\ \A l \in Local, t \in {"incomplete", "ready", "plain"} : [l EXCEPT !.type = t] \in Local
    /\ \A l \in Local, users \in SUBSET Somebody : [l EXCEPT !.users = users] \in Local
    /\ \A l \in Local, accounts \in Accounts \cup {Expired} : [l EXCEPT !.accounts = accounts] \in Local
    /\ \A l \in Local, u \in Somebody : [l EXCEPT !.to = u] \in Local
    /\ \A l \in Local : Forgetting(l) \in Local
  <1>1. Idle \in Local
    BY DEF Idle, Local, Detectors, Somebody
  <1>2. QED
    BY <1>1 DEF Local, Forgetting

\* What another person does to the rows leaves rows.
LEMMA WorldTyped ==
    ASSUME Typed
    PROVE  /\ \A e \in Entities : \A v \in Rowed(e) : [row EXCEPT ![e] = v] \in Table
           /\ \A u \in Users : [e \in Entities |-> IF row[e].assignee = u
                                 THEN [row[e] EXCEPT !.assignee = Nobody]
                                 ELSE row[e]] \in Table
  <1>1. ASSUME NEW e \in Entities, NEW v \in Rowed(e) PROVE [row EXCEPT ![e] = v] \in Table
    BY <1>1 DEF Typed, Table
  <1>2. ASSUME NEW u \in Users
        PROVE  [e \in Entities |-> IF row[e].assignee = u
                                    THEN [row[e] EXCEPT !.assignee = Nobody]
                                    ELSE row[e]] \in Table
    <2>1. ASSUME NEW e \in Entities, row[e].assignee = u
          PROVE  [row[e] EXCEPT !.assignee = Nobody] \in Rowed(e)
      <3>1. row[e] \in Rowed(e)
        BY DEF Typed, Table
      <3>2. u # Nobody
        BY AutomationAssumption
      <3>3. row[e] \in RowsOf(e)
        BY <2>1, <3>1, <3>2 DEF Rowed, GoneRow
      <3>4. QED
        BY <3>3 DEF Rowed, RowsOf
    <2>2. \A e \in Entities : row[e] \in Rowed(e)
      BY DEF Typed, Table
    <2>3. QED
      BY <2>1, <2>2 DEF Table
  <1>3. QED
    BY <1>1, <1>2

-----------------------------------------------------------------------------
(* Steps.                                                                  *)

Labels == {"idle", "list", "next", "user", "create", "followup", "tell"}

\* A step of run r: the world stands still, and so do the other runs.
Steps(r) ==
    /\ UNCHANGED world
    /\ \E label \in Labels, l \in Local :
          /\ At(l, label)
          /\ pc' = [pc EXCEPT ![r] = label] /\ local' = [local EXCEPT ![r] = l]

\* What a run does to the records of the organization.
Tells(r) ==
    /\ pc[r] = "create" /\ local[r].to \in Users
    /\ notes' = [notes EXCEPT ![<<local[r].to, local[r].entity, local[r].type>>] = @ + 1]
    /\ unread' = unread \cup {<<local[r].to, local[r].entity, local[r].type>>}
    /\ pc'[r] = "user"
    /\ UNCHANGED <<followUps, markers, announced>>

Follows(r) ==
    /\ pc[r] = "followup"
    /\ followUps' = [followUps EXCEPT ![local[r].entity] = @ + 1]
    /\ markers' = [markers EXCEPT ![local[r].entity] = @ + 1]
    /\ pc'[r] = "tell" /\ local'[r].entity = local[r].entity
    /\ UNCHANGED <<notes, unread, announced>>

Announces(r) ==
    /\ pc[r] = "tell"
    /\ announced' = [announced EXCEPT ![local[r].entity] = @ + 1]
    /\ pc'[r] = "next"
    /\ UNCHANGED <<notes, unread, followUps, markers>>

\* A run that records nothing comes to an insert only by finding nothing, and
\* away from a task it owes a notification of only when the world ends it.
Goes(r) ==
    /\ UNCHANGED record
    /\ pc'[r] = "create" /\ local'[r].to \in Users =>
          notes[<<local'[r].to, local'[r].entity, local'[r].type>>] = 0
    /\ pc'[r] = "followup" => markers[local'[r].entity] = 0
    /\ pc'[r] # "tell"
    /\ pc[r] = "tell" =>
          \/ row[local[r].entity].status = "gone"
          \/ account[local[r].to] = "gone"
          \/ deaths' > deaths

\* Every step of a run is one of these.
LEMMA RunSteps ==
    ASSUME Typed, Positioned, NEW r \in Runs, RunStep(r)
    PROVE  /\ deaths' = deaths /\ Steps(r)
           /\ Tells(r) \/ Follows(r) \/ Announces(r) \/ Goes(r)
  <1>1. /\ local \in [Runs -> Local] /\ local[r] \in Local /\ pc \in [Runs -> Labels]
        /\ row \in Table /\ account \in Accounts /\ At(local[r], pc[r])
        /\ notes \in [Keys -> Nat]
        /\ markers \in [Showings -> Nat]
    BY DEF Typed, TypeOK, Labels, Accounts, Positioned
  <1>2. Idle \in Local /\ \A label \in {"idle", "list", "next"} : \A l : At(l, label)
    BY LocalFields DEF At
  <1>3. ASSUME Abort(r), UNCHANGED world, deaths' = deaths,
               pc[r] = "tell" => row[local[r].entity].status = "gone" \/ account[local[r].to] = "gone"
        PROVE  Steps(r) /\ Goes(r)
    <2>1. pc' = [pc EXCEPT ![r] = "idle"] /\ local' = [local EXCEPT ![r] = Idle] /\ UNCHANGED record
      BY <1>3 DEF Abort, GoTo
    <2>2. Steps(r)
      BY <1>2, <1>3, <2>1 DEF Steps, Labels
    <2>3. Goes(r)
      BY <1>1, <1>3, <2>1 DEF Goes, Labels
    <2>4. QED
      BY <2>2, <2>3
  <1>4. CASE Start(r)
    <2>1. Steps(r)
      BY <1>1, <1>2, <1>4 DEF Start, Steps, GoTo, Labels
    <2>2. Goes(r)
      BY <1>1, <1>4 DEF Start, Goes, GoTo
    <2>3. QED
      BY <1>4, <2>1, <2>2 DEF Start
  <1>5. CASE List(r)
    <2> DEFINE due == {e \in Detectors[local[r].phase] : row[e].status = "due"}
               l == [[local[r] EXCEPT !.todo = due] EXCEPT !.rows = row]
    <2>1. local' = [local EXCEPT ![r] = l] /\ pc' = [pc EXCEPT ![r] = "next"]
      BY <1>1, <1>5 DEF List, GoTo, Local
    <2>2. due \subseteq Entities
      BY <1>1 DEF Local, Entities
    <2>3. l \in Local
      BY <1>1, <2>2, LocalFields
    <2>4. Steps(r)
      BY <1>2, <1>5, <2>1, <2>3 DEF List, Steps, Labels
    <2>5. Goes(r)
      BY <1>1, <1>5, <2>1 DEF List, Goes
    <2>6. QED
      BY <1>5, <2>4, <2>5 DEF List
  <1>6. CASE NextDetector(r)
    <2>1. \/ pc' = [pc EXCEPT ![r] = "idle"] /\ local' = [local EXCEPT ![r] = Idle]
          \/ /\ pc' = [pc EXCEPT ![r] = "list"]
             /\ local[r].phase < Len(Detectors)
             /\ local' = [local EXCEPT ![r] = [local[r] EXCEPT !.phase = local[r].phase + 1]]
      BY <1>6 DEF NextDetector, GoTo
    <2>2. local[r].phase < Len(Detectors) => local[r].phase + 1 \in DOMAIN Detectors
      BY <1>1 DEF Local, Detectors
    <2>3. Steps(r)
      BY <1>1, <1>2, <1>6, <2>1, <2>2, LocalFields DEF NextDetector, Steps, Labels
    <2>4. Goes(r)
      BY <1>1, <1>6, <2>1 DEF NextDetector, Goes
    <2>5. QED
      BY <1>6, <2>3, <2>4 DEF NextDetector
  <1>7. CASE NoMoreUsers(r)
    <2>1. local' = [local EXCEPT ![r] = local[r]] /\ pc' = [pc EXCEPT ![r] = "next"]
      BY <1>1, <1>7 DEF NoMoreUsers, GoTo
    <2>2. Steps(r)
      BY <1>1, <1>2, <1>7, <2>1 DEF NoMoreUsers, Steps, Labels
    <2>3. Goes(r)
      BY <1>1, <1>7, <2>1 DEF NoMoreUsers, Goes
    <2>4. QED
      BY <1>7, <2>2, <2>3 DEF NoMoreUsers
  <1>8. ASSUME NEW e \in Entities, TakeUp(r, e) PROVE Steps(r) /\ Goes(r) /\ deaths' = deaths
    <2>1. CASE Seen(r, e).status = "gone"
      BY <1>3, <1>8, <2>1 DEF TakeUp
    <2>2. CASE Seen(r, e).status # "gone"
      <3> DEFINE taken == [local[r] EXCEPT !.todo = @ \ {e}, !.entity = e, !.type = Seen(r, e).type]
      <3>1. Seen(r, e).type \in TypesOf(e) /\ Seen(r, e).type \in {"incomplete", "ready", "plain"}
            /\ Seen(r, e).assignee \in Somebody
        BY <2>2, SeenTyped
      <3>2. taken \in Local /\ taken.entity = e /\ taken.type = Seen(r, e).type
        BY <1>1, <3>1 DEF Local
      <3>3. /\ pc[r] = "next" /\ UNCHANGED <<world, record, deaths>>
            /\ \/ /\ e \notin Showings /\ pc' = [pc EXCEPT ![r] = "user"]
                  /\ local' = [local EXCEPT ![r] = [taken EXCEPT !.users = Recipients(r, e),
                                                                 !.accounts = account]]
               \/ /\ e \in Showings /\ pc' = [pc EXCEPT ![r] = "followup"]
                  /\ markers[e] = 0 /\ Seen(r, e).assignee # Nobody
                  /\ local' = [local EXCEPT ![r] = [taken EXCEPT !.to = Seen(r, e).assignee]]
               \/ pc' = pc /\ local' = [local EXCEPT ![r] = taken]
        BY <1>8, <2>2 DEF TakeUp, GoTo
      <3>4. CASE /\ e \notin Showings /\ pc' = [pc EXCEPT ![r] = "user"]
                 /\ local' = [local EXCEPT ![r] = [taken EXCEPT !.users = Recipients(r, e),
                                                                !.accounts = account]]
        <4> DEFINE l == [taken EXCEPT !.users = Recipients(r, e), !.accounts = account]
        <4>1. Recipients(r, e) \subseteq Somebody
          BY <3>1 DEF Recipients, Somebody
        <4>2. l \in Local /\ l.entity = e /\ l.type = Seen(r, e).type
          BY <1>1, <3>2, <4>1 DEF Local
        <4>3. At(l, "user")
          BY <3>1, <3>4, <4>2 DEF At
        <4>4. Steps(r)
          BY <3>3, <3>4, <4>2, <4>3 DEF Steps, Labels
        <4>5. Goes(r)
          BY <1>1, <3>3, <3>4 DEF Goes
        <4>6. QED
          BY <3>3, <4>4, <4>5
      <3>5. CASE /\ e \in Showings /\ pc' = [pc EXCEPT ![r] = "followup"]
                 /\ markers[e] = 0 /\ Seen(r, e).assignee # Nobody
                 /\ local' = [local EXCEPT ![r] = [taken EXCEPT !.to = Seen(r, e).assignee]]
        <4> DEFINE l == [taken EXCEPT !.to = Seen(r, e).assignee]
        <4>1. l \in Local /\ l.entity = e /\ l.to = Seen(r, e).assignee
          BY <3>1, <3>2 DEF Local
        <4>2. At(l, "followup")
          BY <3>1, <3>5, <4>1 DEF At, Somebody
        <4>3. Steps(r)
          BY <3>3, <3>5, <4>1, <4>2 DEF Steps, Labels
        <4>4. Goes(r)
          BY <1>1, <3>3, <3>5, <4>1 DEF Goes
        <4>5. QED
          BY <3>3, <4>3, <4>4
      <3>6. CASE pc' = pc /\ local' = [local EXCEPT ![r] = taken]
        <4>1. pc' = [pc EXCEPT ![r] = "next"]
          BY <1>1, <3>3, <3>6
        <4>2. Steps(r)
          BY <1>2, <3>2, <3>3, <3>6, <4>1 DEF Steps, Labels
        <4>3. Goes(r)
          BY <1>1, <3>3, <3>6 DEF Goes
        <4>4. QED
          BY <3>3, <4>2, <4>3
      <3>7. QED
        BY <3>3, <3>4, <3>5, <3>6
    <2>3. QED
      BY <2>1, <2>2
  <1>9. ASSUME NEW u \in Somebody, CheckUser(r, u) PROVE Steps(r) /\ Goes(r) /\ deaths' = deaths
    <2> DEFINE l == [[local[r] EXCEPT !.users = local[r].users \ {u}] EXCEPT !.to = u]
               key == <<u, local[r].entity, local[r].type>>
    <2>1. /\ pc[r] = "user" /\ UNCHANGED <<world, deaths>>
          /\ \/ Abort(r)
             \/ /\ UNCHANGED record
                /\ \/ pc' = [pc EXCEPT ![r] = "user"]
                   \/ /\ pc' = [pc EXCEPT ![r] = "create"]
                      /\ ~ExistsForRelatedEntity(u, local[r].entity, local[r].type)
                /\ local' = [local EXCEPT ![r] = l]
      BY <1>1, <1>9 DEF CheckUser, GoTo, Local
    <2>2. CASE Abort(r)
      BY <1>3, <2>1, <2>2
    <2>3. CASE /\ UNCHANGED record
               /\ \/ pc' = [pc EXCEPT ![r] = "user"]
                  \/ /\ pc' = [pc EXCEPT ![r] = "create"]
                     /\ ~ExistsForRelatedEntity(u, local[r].entity, local[r].type)
               /\ local' = [local EXCEPT ![r] = l]
      <3>1. l \in Local
        BY <1>1, LocalFields DEF Local
      <3>2. l.entity = local[r].entity /\ l.type = local[r].type /\ l.to = u
        BY <1>1 DEF Local
      <3>3. At(l, "user") /\ At(l, "create")
        BY <1>1, <2>1, <3>2 DEF At
      <3>4. Steps(r)
        BY <2>1, <2>3, <3>1, <3>3 DEF Steps, Labels
      <3>5. u \in Users => key \in Keys
        BY <1>1, <2>1 DEF At, Keys, TypesOf
      <3>6. u \in Users /\ ~ExistsForRelatedEntity(u, local[r].entity, local[r].type) =>
              notes[key] = 0
        BY <1>1, <3>5 DEF ExistsForRelatedEntity
      <3>7. Goes(r)
        BY <1>1, <2>1, <2>3, <3>2, <3>6 DEF Goes
      <3>8. QED
        BY <2>1, <3>4, <3>7
    <2>4. QED
      BY <2>1, <2>2, <2>3
  <1>10. Forgetting(local[r]) \in Local /\ Forgetting(local[r]).entity = local[r].entity
         /\ Forgetting(local[r]).type = local[r].type /\ Forgetting(local[r]).to = local[r].to
    BY <1>1 DEF Forgetting, Local
  <1>11. CASE CreateNotification(r)
    <2>1. /\ pc[r] = "create" /\ UNCHANGED <<world, deaths>>
          /\ \/ Abort(r)
             \/ /\ local[r].to \in Users
                /\ notes' = [notes EXCEPT ![<<local[r].to, local[r].entity, local[r].type>>] = @ + 1]
                /\ unread' = unread \cup {<<local[r].to, local[r].entity, local[r].type>>}
                /\ local' = [local EXCEPT ![r] = Forgetting(local[r])]
                /\ pc' = [pc EXCEPT ![r] = "user"]
                /\ UNCHANGED <<followUps, markers, announced>>
      BY <1>11 DEF CreateNotification, GoTo
    <2>2. CASE Abort(r)
      BY <1>3, <2>1, <2>2
    <2>3. CASE ~Abort(r)
      <3>1. At(Forgetting(local[r]), "user")
        BY <1>1, <1>10, <2>1 DEF At
      <3>2. Steps(r)
        BY <1>10, <2>1, <2>3, <3>1 DEF Steps, Labels
      <3>3. Tells(r)
        BY <1>1, <2>1, <2>3 DEF Tells
      <3>4. QED
        BY <2>1, <3>2, <3>3
    <2>4. QED
      BY <2>2, <2>3
  <1>12. CASE CreateFollowUp(r)
    <2>1. /\ pc[r] = "followup" /\ UNCHANGED <<world, deaths>>
          /\ \/ Abort(r)
             \/ /\ followUps' = [followUps EXCEPT ![local[r].entity] = @ + 1]
                /\ markers' = [markers EXCEPT ![local[r].entity] = @ + 1]
                /\ local' = [local EXCEPT ![r] = Forgetting(local[r])]
                /\ pc' = [pc EXCEPT ![r] = "tell"]
                /\ UNCHANGED <<notes, unread, announced>>
      BY <1>12 DEF CreateFollowUp, GoTo
    <2>2. CASE Abort(r)
      BY <1>3, <2>1, <2>2
    <2>3. CASE ~Abort(r)
      <3>1. At(Forgetting(local[r]), "tell")
        BY <1>1, <1>10, <2>1 DEF At
      <3>2. Steps(r)
        BY <1>10, <2>1, <2>3, <3>1 DEF Steps, Labels
      <3>3. Follows(r)
        BY <1>1, <1>10, <2>1, <2>3 DEF Follows
      <3>4. QED
        BY <2>1, <3>2, <3>3
    <2>4. QED
      BY <2>2, <2>3
  <1>13. CASE Announce(r)
    <2>1. /\ pc[r] = "tell" /\ UNCHANGED <<world, deaths>>
          /\ \/ /\ Abort(r)
                /\ row[local[r].entity].status = "gone" \/ account[local[r].to] = "gone"
             \/ /\ announced' = [announced EXCEPT ![local[r].entity] = @ + 1]
                /\ local' = [local EXCEPT ![r] = Forgetting(local[r])]
                /\ pc' = [pc EXCEPT ![r] = "next"]
                /\ UNCHANGED <<notes, unread, followUps, markers>>
      BY <1>13 DEF Announce, GoTo
    <2>2. CASE Abort(r) /\ (row[local[r].entity].status = "gone" \/ account[local[r].to] = "gone")
      BY <1>3, <2>1, <2>2
    <2>3. CASE /\ announced' = [announced EXCEPT ![local[r].entity] = @ + 1]
               /\ local' = [local EXCEPT ![r] = Forgetting(local[r])]
               /\ pc' = [pc EXCEPT ![r] = "next"]
               /\ UNCHANGED <<notes, unread, followUps, markers>>
      <3>1. Steps(r)
        BY <1>2, <1>10, <2>1, <2>3 DEF Steps, Labels
      <3>2. Announces(r)
        BY <1>1, <2>1, <2>3 DEF Announces
      <3>3. QED
        BY <2>1, <3>1, <3>2
    <2>4. QED
      BY <2>1, <2>2, <2>3
  <1>14. QED
    BY <1>4, <1>5, <1>6, <1>7, <1>8, <1>9, <1>11, <1>12, <1>13
       DEF RunStep, Start, List, NextDetector, NoMoreUsers, CreateNotification,
           CreateFollowUp, Announce, Somebody

\* A run cut off by its process.
LEMMA DieSteps ==
    ASSUME Typed, NEW r \in Runs, Die(r)
    PROVE  deaths' = deaths + 1 /\ deaths' \in 0..MaxDeaths /\ Steps(r) /\ Goes(r)
  <1>1. /\ pc' = [pc EXCEPT ![r] = "idle"] /\ local' = [local EXCEPT ![r] = Idle]
        /\ UNCHANGED record /\ UNCHANGED world /\ deaths' = deaths + 1 /\ deaths < MaxDeaths
    BY DEF Die, Abort, GoTo
  <1>2. Idle \in Local /\ At(Idle, "idle") /\ pc \in [Runs -> Labels]
        /\ deaths \in 0..MaxDeaths /\ MaxDeaths \in Nat
    BY LocalFields, AutomationAssumption DEF At, Typed, TypeOK, Labels
  <1>3. Steps(r)
    BY <1>1, <1>2 DEF Steps, Labels
  <1>4. Goes(r)
    BY <1>1, <1>2 DEF Goes, Labels
  <1>5. QED
    BY <1>1, <1>2, <1>3, <1>4

\* What people do: nothing comes back from the dead, and no notification is made.
People ==
    /\ UNCHANGED <<pc, local, deaths, followUps, markers, announced>>
    /\ row' \in Table /\ account' \in Accounts
    /\ notes' \in [Keys -> Nat] /\ unread' \subseteq Keys
    /\ \A k \in Keys : notes'[k] \in {0, notes[k]}
    /\ \A e \in Entities : row[e].status = "gone" => row'[e].status = "gone"
    /\ \A u \in Users : account[u] = "gone" => account'[u] = "gone"

\* Edits, deletions and notifications read are such steps.
LEMMA PeopleStep ==
    ASSUME Typed,
           \/ \E e \in Entities : Delete(e) \/ \E v \in RowsOf(e) : Edit(e, v)
           \/ \E u \in Users : SwitchAccount(u) \/ DeleteAccount(u)
           \/ \E k \in Keys : MarkRead(k)
    PROVE  People
  <1>1. /\ row \in Table /\ account \in Accounts /\ notes \in [Keys -> Nat] /\ unread \subseteq Keys
        /\ \A e \in Entities : row[e] \in Rowed(e)
    BY DEF Typed, TypeOK, Accounts, Table
  <1>2. \A f \in Table : f = [e \in Entities |-> f[e]]
    BY DEF Table
  <1>3. ASSUME NEW e \in Entities, Delete(e) PROVE People
    <2>1. row' = [row EXCEPT ![e] = GoneRow(e)] /\ GoneRow(e) \in Rowed(e)
          /\ UNCHANGED <<account, record, pc, local, deaths>> /\ row[e].status # "gone"
      BY <1>3 DEF Delete, Rowed
    <2>2. row' \in Table
      BY <2>1, WorldTyped
    <2>3. \A x \in Entities : row[x].status = "gone" => row'[x] = row[x]
      BY <1>1, <1>2, <2>1
    <2>4. QED
      BY <1>1, <2>1, <2>2, <2>3 DEF People, record
  <1>4. ASSUME NEW e \in Entities, NEW v \in RowsOf(e), Edit(e, v) PROVE People
    <2>1. row' = [row EXCEPT ![e] = v] /\ v \in Rowed(e)
          /\ UNCHANGED <<account, record, pc, local, deaths>> /\ row[e].status # "gone"
      BY <1>4 DEF Edit, Rowed
    <2>2. row' \in Table
      BY <2>1, WorldTyped
    <2>3. \A x \in Entities : row[x].status = "gone" => row'[x] = row[x]
      BY <1>1, <1>2, <2>1
    <2>4. QED
      BY <1>1, <2>1, <2>2, <2>3 DEF People, record
  <1>5. ASSUME NEW u \in Users, SwitchAccount(u) PROVE People
    BY <1>1, <1>5 DEF SwitchAccount, People, record, Accounts
  <1>6. ASSUME NEW u \in Users, DeleteAccount(u) PROVE People
    <2>1. row' \in Table
      BY <1>6, WorldTyped DEF DeleteAccount
    <2>2. \A e \in Entities : row'[e].status = row[e].status
      <3>1. ASSUME NEW e \in Entities PROVE row'[e].status = row[e].status
        <4>1. row[e] \in Rowed(e) /\ row'[e] = IF row[e].assignee = u
                                                THEN [row[e] EXCEPT !.assignee = Nobody] ELSE row[e]
          BY <1>1, <1>6 DEF DeleteAccount
        <4>2. [row[e] EXCEPT !.assignee = Nobody].status = row[e].status
          <5>1. CASE row[e] \in RowsOf(e)
            BY <5>1 DEF RowsOf
          <5>2. CASE row[e] = GoneRow(e)
            BY <5>2 DEF GoneRow
          <5>3. QED
            BY <4>1, <5>1, <5>2 DEF Rowed
        <4>3. QED
          BY <4>1, <4>2
      <3>2. QED
        BY <3>1
    <2>3. /\ account' \in Accounts /\ \A v \in Users : account[v] = "gone" => account'[v] = "gone"
          /\ UNCHANGED <<pc, local, deaths, followUps, markers, announced>>
      BY <1>1, <1>6 DEF DeleteAccount, Accounts
    <2>4. /\ notes' \in [Keys -> Nat] /\ unread' \subseteq Keys
          /\ \A k \in Keys : notes'[k] \in {0, notes[k]}
      BY <1>1, <1>6 DEF DeleteAccount
    <2>5. QED
      BY <2>1, <2>2, <2>3, <2>4 DEF People
  <1>7. ASSUME NEW k \in Keys, MarkRead(k) PROVE People
    BY <1>1, <1>7 DEF MarkRead, People, world
  <1>8. QED
    BY <1>3, <1>4, <1>5, <1>6, <1>7

-----------------------------------------------------------------------------
(* The invariants.                                                         *)

\* Runs that owe a notification of the task they made for a.
Telling(a) == {r \in Runs : pc[r] = "tell" /\ local[r].entity = a}

\* What may keep a run from telling of a.
Ended(a) == deaths > 0 \/ row[a].status = "gone" \/ \E u \in Users : account[u] = "gone"

Owed == \A a \in Showings : Ended(a) \/ followUps[a] <= announced[a] + Cardinality(Telling(a))

IInv == Typed /\ Positioned /\ Owed

\* Types and positions, after a step of a run.
LEMMA StepsTyped ==
    ASSUME Typed, Positioned, NEW r \in Runs, Steps(r), deaths' \in 0..MaxDeaths,
           Tells(r) \/ Follows(r) \/ Announces(r) \/ Goes(r)
    PROVE  Typed' /\ Positioned'
  <1>1. PICK label \in Labels, l \in Local :
          /\ At(l, label)
          /\ pc' = [pc EXCEPT ![r] = label] /\ local' = [local EXCEPT ![r] = l]
    BY DEF Steps
  <1>2. /\ local \in [Runs -> Local] /\ pc \in [Runs -> Labels] /\ row' = row /\ account' = account
        /\ notes \in [Keys -> Nat] /\ unread \subseteq Keys
        /\ followUps \in [Showings -> Nat] /\ markers \in [Showings -> Nat]
        /\ announced \in [Showings -> Nat] /\ At(local[r], pc[r])
    BY DEF Typed, TypeOK, Labels, Steps, world, Positioned
  <1>3. Positioned'
    BY <1>1, <1>2 DEF Positioned
  <1>4. local' \in [Runs -> Local] /\ pc' \in [Runs -> Labels]
    BY <1>1, <1>2
  <1>5. /\ notes' \in [Keys -> Nat] /\ unread' \subseteq Keys
        /\ {followUps, markers, announced}' \subseteq [Showings -> Nat]
    <2>1. CASE Goes(r)
      BY <1>2, <2>1 DEF Goes, record
    <2>2. CASE Tells(r)
      <3>1. <<local[r].to, local[r].entity, local[r].type>> \in Keys
        BY <1>2, <2>2 DEF Tells, At, Keys, TypesOf
      <3>2. QED
        BY <1>2, <2>2, <3>1 DEF Tells
    <2>3. CASE Follows(r)
      BY <1>2, <2>3 DEF Follows, At
    <2>4. CASE Announces(r)
      BY <1>2, <2>4 DEF Announces, At
    <2>5. QED
      BY <2>1, <2>2, <2>3, <2>4
  <1>6. TypeOK'
    BY <1>2, <1>4, <1>5 DEF Typed, TypeOK, Labels
  <1>7. QED
    BY <1>2, <1>3, <1>4, <1>6 DEF Typed

\* What a run owes is owed by it alone.
LEMMA StepsOwed ==
    ASSUME Typed, Positioned, Owed, NEW r \in Runs, Steps(r), deaths' >= deaths, deaths' \in Nat,
           Tells(r) \/ Follows(r) \/ Announces(r) \/ Goes(r)
    PROVE  Owed'
  <1> SUFFICES ASSUME NEW a \in Showings, ~Ended(a)'
               PROVE  followUps'[a] <= announced'[a] + Cardinality(Telling(a)')
    BY DEF Owed
  <1>1. PICK label \in Labels, l \in Local :
          pc' = [pc EXCEPT ![r] = label] /\ local' = [local EXCEPT ![r] = l]
    BY DEF Steps
  <1>2. /\ local \in [Runs -> Local] /\ pc \in [Runs -> Labels] /\ deaths \in Nat
        /\ followUps \in [Showings -> Nat] /\ announced \in [Showings -> Nat]
        /\ At(local[r], pc[r])
    BY AutomationAssumption DEF Typed, TypeOK, Labels, Positioned
  <1>3. ~Ended(a) /\ followUps[a] <= announced[a] + Cardinality(Telling(a))
    BY <1>2 DEF Ended, Owed, Steps, world
  <1>4. IsFiniteSet(Telling(a)) /\ Cardinality(Telling(a)) \in Nat
    BY AutomationAssumption, FS_Subset, FS_CardinalityType DEF Telling
  <1>5. \A q \in Runs : q # r => (q \in Telling(a)' <=> q \in Telling(a))
    BY <1>1, <1>2 DEF Telling
  <1>6. CASE Goes(r) \/ Tells(r)
    <2>1. followUps' = followUps /\ announced' = announced
      BY <1>6 DEF Goes, Tells, record
    <2>2. r \notin Telling(a)'
      BY <1>6 DEF Telling, Goes, Tells
    <2>3. r \notin Telling(a)
      BY <1>2, <1>3, <1>6 DEF Telling, Goes, Tells, Ended, At
    <2>4. Telling(a)' = Telling(a)
      BY <1>5, <2>2, <2>3 DEF Telling
    <2>5. QED
      BY <1>3, <2>1, <2>4
  <1>7. CASE Follows(r)
    <2>1. CASE local[r].entity = a
      <3>1. followUps'[a] = followUps[a] + 1 /\ announced' = announced
        BY <1>2, <1>7, <2>1 DEF Follows, At
      <3>2. r \notin Telling(a) /\ r \in Telling(a)'
        BY <1>7, <2>1 DEF Telling, Follows
      <3>3. Telling(a)' = Telling(a) \cup {r}
        BY <1>5, <3>2 DEF Telling
      <3>4. Cardinality(Telling(a)') = Cardinality(Telling(a)) + 1
        BY <1>4, <3>2, <3>3, FS_AddElement
      <3>5. QED
        BY <1>2, <1>3, <1>4, <3>1, <3>4
    <2>2. CASE local[r].entity # a
      <3>1. followUps'[a] = followUps[a] /\ announced' = announced
        BY <1>2, <1>7, <2>2 DEF Follows, At
      <3>2. Telling(a)' = Telling(a)
        BY <1>5, <1>7, <2>2 DEF Telling, Follows
      <3>3. QED
        BY <1>3, <3>1, <3>2
    <2>3. QED
      BY <2>1, <2>2
  <1>8. CASE Announces(r)
    <2>1. r \notin Telling(a)'
      BY <1>8 DEF Telling, Announces
    <2>2. CASE local[r].entity = a
      <3>1. announced'[a] = announced[a] + 1 /\ followUps' = followUps
        BY <1>2, <1>8, <2>2 DEF Announces, At
      <3>2. r \in Telling(a) /\ Telling(a)' = Telling(a) \ {r}
        BY <1>5, <1>8, <2>1, <2>2 DEF Telling, Announces
      <3>3. Cardinality(Telling(a)') = Cardinality(Telling(a)) - 1
        BY <1>4, <3>2, FS_RemoveElement
      <3>4. QED
        BY <1>2, <1>3, <1>4, <3>1, <3>3
    <2>3. CASE local[r].entity # a
      <3>1. announced'[a] = announced[a] /\ followUps' = followUps
        BY <1>2, <1>8, <2>3 DEF Announces, At
      <3>2. Telling(a)' = Telling(a)
        BY <1>5, <1>8, <2>1, <2>3 DEF Telling
      <3>3. QED
        BY <1>3, <3>1, <3>2
    <2>4. QED
      BY <2>2, <2>3
  <1>9. QED
    BY <1>6, <1>7, <1>8

\* Initially nothing is made and nothing owed.
LEMMA InitIInv == Init => IInv
  <1> SUFFICES ASSUME Init PROVE IInv
    OBVIOUS
  <1>1. row \in Table
    <2>1. /\ row \in [Entities -> UNION {RowsOf(e) : e \in Entities}]
          /\ \A e \in Entities : row[e] \in RowsOf(e)
      BY DEF Init
    <2>2. \A e \in Entities : row[e] \in Rowed(e)
      BY <2>1 DEF Rowed
    <2>3. row \in [Entities -> UNION {Rowed(e) : e \in Entities}]
      BY <2>1, <2>2
    <2>4. QED
      BY <2>2, <2>3 DEF Table
  <1>2. local \in [Runs -> Local] /\ pc = [r \in Runs |-> "idle"]
    BY LocalFields DEF Init
  <1>3. TypeOK
    <2>1. 0 \in 0..MaxDeaths
      BY AutomationAssumption
    <2>2. \A e \in Entities : row[e] \in RowsOf(e) \cup {GoneRow(e)}
      BY <1>1 DEF Table, Rowed
    <2>3. QED
      BY <2>1, <2>2 DEF Init, TypeOK
  <1>4. Positioned
    BY <1>2 DEF Positioned, At
  <1>5. Owed
    <2>1. \A a \in Showings : Telling(a) = {} /\ followUps[a] = 0 /\ announced[a] = 0
      BY DEF Telling, Init
    <2>2. QED
      BY <2>1, FS_EmptySet DEF Owed
  <1>6. QED
    BY <1>1, <1>2, <1>3, <1>4, <1>5 DEF IInv, Typed

\* Every step is a run's or other people's.
LEMMA NextSteps ==
    ASSUME Typed, Positioned, Next
    PROVE  \/ People
           \/ \E r \in Runs : /\ Steps(r) /\ deaths' \in 0..MaxDeaths /\ deaths' >= deaths
                              /\ Tells(r) \/ Follows(r) \/ Announces(r) \/ Goes(r)
  <1>1. deaths \in 0..MaxDeaths /\ MaxDeaths \in Nat
    BY AutomationAssumption DEF Typed, TypeOK
  <1>2. ASSUME NEW r \in Runs, RunStep(r)
        PROVE  /\ Steps(r) /\ deaths' \in 0..MaxDeaths /\ deaths' >= deaths
               /\ Tells(r) \/ Follows(r) \/ Announces(r) \/ Goes(r)
    BY <1>1, <1>2, RunSteps
  <1>3. ASSUME NEW r \in Runs, Die(r)
        PROVE  Steps(r) /\ deaths' \in 0..MaxDeaths /\ deaths' >= deaths /\ Goes(r)
    BY <1>1, <1>3, DieSteps
  <1>4. QED
    BY <1>2, <1>3, PeopleStep DEF Next

\* Every step keeps types, positions and debts.
LEMMA NextIInv == IInv /\ [Next]_vars => IInv'
  <1> SUFFICES ASSUME IInv, [Next]_vars PROVE IInv'
    OBVIOUS
  <1>1. Typed /\ Positioned /\ Owed
    BY DEF IInv
  <1>2. ASSUME NEW r \in Runs, Steps(r), deaths' \in 0..MaxDeaths, deaths' >= deaths,
               Tells(r) \/ Follows(r) \/ Announces(r) \/ Goes(r)
        PROVE  IInv'
    <2>1. deaths' \in Nat
      BY <1>2, AutomationAssumption
    <2>2. QED
      BY <1>1, <1>2, <2>1, StepsTyped, StepsOwed DEF IInv
  <1>3. ASSUME People PROVE IInv'
    <2>1. Typed'
      <3>1. \A e \in Entities : row'[e] \in RowsOf(e) \cup {GoneRow(e)}
        BY <1>3 DEF People, Table, Rowed
      <3>2. TypeOK'
        BY <1>1, <1>3, <3>1 DEF Typed, TypeOK, People, Accounts
      <3>3. QED
        BY <1>1, <1>3, <3>2 DEF Typed, People
    <2>2. Positioned'
      BY <1>1, <1>3 DEF Positioned, People
    <2>3. Owed'
      <3>1. \A a \in Showings : Ended(a) => Ended(a)'
        BY <1>3 DEF Ended, People, Entities, Detectors
      <3>2. \A a \in Showings : Telling(a)' = Telling(a)
        BY <1>3 DEF Telling, People
      <3>3. QED
        BY <1>1, <1>3, <3>1, <3>2 DEF Owed, People
    <2>4. QED
      BY <2>1, <2>2, <2>3 DEF IInv
  <1>4. CASE UNCHANGED vars
    <2>1. \A a : Telling(a)' = Telling(a) /\ Ended(a)' = Ended(a)
      BY <1>4 DEF vars, world, Telling, Ended
    <2>2. QED
      BY <1>4, <2>1 DEF vars, world, record, IInv, Typed, TypeOK, Positioned, Owed
  <1>5. QED
    BY <1>1, <1>2, <1>3, <1>4, NextSteps

\* The inductive invariant of the runs.
LEMMA Invariant == Spec => []IInv
  BY InitIInv, NextIInv, PTL DEF Spec

-----------------------------------------------------------------------------
(* Theorems.                                                               *)

\* Every variable keeps its type.
THEOREM Typing == Spec => []TypeOK
  <1>1. IInv => TypeOK
    BY DEF IInv, Typed
  <1>2. QED
    BY <1>1, Invariant, PTL

\* A follow-up task that was not announced is one a run is about to announce,
\* or the world ended its run: with any number of runs at once.
THEOREM Announced == Spec => []FollowUpAnnounced
  <1>1. ASSUME IInv PROVE FollowUpAnnounced
    <2> SUFFICES ASSUME NEW a \in Showings, announced[a] < followUps[a], ~Ended(a)
                 PROVE  \E r \in Runs : pc[r] = "tell" /\ local[r].entity = a
      BY DEF FollowUpAnnounced, Ended
    <2>1. followUps[a] \in Nat /\ announced[a] \in Nat
      BY <1>1 DEF IInv, Typed, TypeOK
    <2>2. followUps[a] <= announced[a] + Cardinality(Telling(a))
      BY <1>1 DEF IInv, Owed
    <2>3. Telling(a) # {}
      BY <2>1, <2>2, FS_EmptySet
    <2>4. QED
      BY <2>3 DEF Telling
  <1>2. QED
    BY <1>1, Invariant, PTL

-----------------------------------------------------------------------------
(* Deduplication, for runs that do not overlap.                            *)

\* At most one run is under way, as when one process runs the scheduler.
Alone == \A q, r \in Runs : pc[q] # "idle" /\ pc[r] # "idle" => q = r

\* What was looked for and not found is still not there.
Once ==
    /\ \A k \in Keys : notes[k] <= 1
    /\ \A a \in Showings : followUps[a] = markers[a] /\ markers[a] <= 1
    /\ \A r \in Runs :
          /\ pc[r] = "create" /\ local[r].to \in Users =>
                notes[<<local[r].to, local[r].entity, local[r].type>>] = 0
          /\ pc[r] = "followup" => markers[local[r].entity] = 0

\* Only the run that found nothing inserts, and nobody in between.
LEMMA NextOnce == IInv /\ Alone /\ Once /\ [Next]_vars => Once'
  <1> SUFFICES ASSUME IInv, Alone, Once, [Next]_vars PROVE Once'
    OBVIOUS
  <1>1. /\ Typed /\ Positioned
        /\ local \in [Runs -> Local] /\ pc \in [Runs -> Labels]
        /\ notes \in [Keys -> Nat] /\ followUps \in [Showings -> Nat] /\ markers \in [Showings -> Nat]
    BY DEF IInv, Typed, TypeOK, Labels
  <1>2. ASSUME NEW r \in Runs, Steps(r), Tells(r) \/ Follows(r) \/ Announces(r) \/ Goes(r)
        PROVE  Once'
    <2>1. At(local[r], pc[r]) /\ \A q \in Runs : q # r => pc'[q] = pc[q] /\ local'[q] = local[q]
      BY <1>1, <1>2 DEF Positioned, Steps
    <2>2. CASE Goes(r)
      <3>1. UNCHANGED <<notes, followUps, markers>>
        BY <2>2 DEF Goes, record
      <3>2. \A q \in Runs :
              /\ pc'[q] = "create" /\ local'[q].to \in Users =>
                    notes[<<local'[q].to, local'[q].entity, local'[q].type>>] = 0
              /\ pc'[q] = "followup" => markers[local'[q].entity] = 0
        BY <2>1, <2>2 DEF Goes, Once
      <3>3. QED
        BY <3>1, <3>2 DEF Once
    <2>3. ASSUME pc[r] \in {"create", "followup", "tell"}, pc'[r] \in {"user", "tell", "next"}
          PROVE  \A q \in Runs : pc'[q] \notin {"create", "followup"}
      BY <2>1, <2>3 DEF Alone
    <2>4. CASE Tells(r)
      <3> DEFINE key == <<local[r].to, local[r].entity, local[r].type>>
      <3>1. key \in Keys
        BY <2>1, <2>4 DEF Tells, At, Keys, TypesOf
      <3>2. notes[key] = 0 /\ notes' = [notes EXCEPT ![key] = @ + 1]
            /\ UNCHANGED <<followUps, markers>>
        BY <2>4 DEF Tells, Once
      <3>3. \A k \in Keys : notes'[k] <= 1
        BY <1>1, <3>1, <3>2 DEF Once
      <3>4. QED
        BY <2>3, <2>4, <3>2, <3>3 DEF Tells, Once
    <2>5. CASE Follows(r)
      <3> DEFINE a == local[r].entity
      <3>1. a \in Showings /\ markers[a] = 0 /\ UNCHANGED notes
            /\ followUps' = [followUps EXCEPT ![a] = @ + 1]
            /\ markers' = [markers EXCEPT ![a] = @ + 1]
        BY <2>1, <2>5 DEF Follows, At, Once
      <3>2. \A b \in Showings : followUps'[b] = markers'[b] /\ markers'[b] <= 1
        BY <1>1, <3>1 DEF Once
      <3>3. QED
        BY <2>3, <2>5, <3>1, <3>2 DEF Follows, Once
    <2>6. CASE Announces(r)
      BY <2>3, <2>6 DEF Announces, Once
    <2>7. QED
      BY <1>2, <2>2, <2>4, <2>5, <2>6
  <1>3. CASE People
    <2>1. \A r \in Runs : pc[r] = "create" /\ local[r].to \in Users =>
              <<local[r].to, local[r].entity, local[r].type>> \in Keys
      BY <1>1 DEF Positioned, At, Keys, TypesOf
    <2>2. \A k \in Keys : notes'[k] <= 1 /\ (notes[k] = 0 => notes'[k] = 0)
      BY <1>1, <1>3 DEF People, Once
    <2>3. QED
      BY <1>3, <2>1, <2>2 DEF People, Once
  <1>4. CASE UNCHANGED vars
    BY <1>4 DEF vars, record, Once
  <1>5. QED
    BY <1>1, <1>2, <1>3, <1>4, NextSteps

\* "The single most important property": nobody is told twice of an event and no
\* showing is followed up twice, across restarts, edits and notifications read,
\* as long as runs do not overlap.
THEOREM Deduplicated == Spec /\ []Alone => []NeverTwice
  <1>1. Init => Once
    BY DEF Init, Once
  <1>2. Once => NeverTwice
    BY DEF Once, NeverTwice
  <1>3. QED
    BY <1>1, <1>2, Invariant, NextOnce, PTL DEF Spec

=============================================================================
