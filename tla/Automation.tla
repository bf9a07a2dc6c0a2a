----------------------------- MODULE Automation -----------------------------
(***************************************************************************)
(* The automation of one organization: the scheduler's job, the six        *)
(* detectors it runs in turn, create_notification and the follow-up task   *)
(* of a completed appointment (app/automation/), while people edit and     *)
(* delete what the detectors look at.                                      *)
(*                                                                         *)
(* A run lists a detector's entities, then takes them up one by one: it    *)
(* looks for the notification (or the marker) and, in a later transaction  *)
(* step, inserts it.  No constraint of the database backs that check.      *)
(* Every commit expires the objects the session holds, so what a run sees  *)
(* of an entity is as old as its last commit, and a row deleted meanwhile  *)
(* raises and ends the run for this organization.                          *)
(*                                                                         *)
(* An appointment is one entity for the reminder and another for the       *)
(* follow-up: no detector looks at both statuses.  Every run of the        *)
(* scheduler opens a session per organization, so one organization is all  *)
(* there is to model.                                                      *)
(***************************************************************************)
EXTENDS Integers, Sequences, FiniteSets

CONSTANTS
    Runs,            \* runs that may be under way at once
    Tasks, Reminders, Leads, Requirements, Opportunities, Showings,
                     \* the entities of the six detectors
    Users, Nobody,   \* Nobody: no assignee (NULL)
    Deletable,       \* users whose account is deleted upstream
    Expired,         \* no cached value
    MaxDeaths        \* bound: runs cut off by a dying process

\* In the order run_detectors_for_organization calls them.
Detectors == <<Tasks, Reminders, Leads, Requirements, Opportunities, Showings>>

Entities == UNION {Detectors[i] : i \in DOMAIN Detectors}

\* Notified to every user of the organization: they have no assignee.
OrgWide == Leads \cup Requirements

ASSUME AutomationAssumption ==
    /\ \A i, j \in DOMAIN Detectors : i # j => Detectors[i] \cap Detectors[j] = {}
    /\ Nobody \notin Users /\ Deletable \subseteq Users /\ MaxDeaths \in Nat
    /\ IsFiniteSet(Runs)

VARIABLES
    row,         \* row[e]: what the CRM says of entity e
    account,     \* account[u]: "off" is deactivated, or a Renova-only role
    notes,       \* notes[k]: notifications with key k, the dedup triple
    unread,      \* the keys whose notifications are unread
    followUps,   \* followUps[a]: follow-up tasks made for showing a
    markers,     \* markers[a]: APPOINTMENT_FOLLOWUP_TASK_CREATED entries
    announced,   \* announced[a]: notifications of those tasks
    pc, local,   \* where each run is, and its local variables
    deaths

world == <<row, account>>
record == <<notes, unread, followUps, markers, announced>>
vars == <<world, record, pc, local, deaths>>

\* An active requirement is incomplete or ready; the others have one type.
TypesOf(e) == IF e \in Requirements THEN {"incomplete", "ready"} ELSE {"plain"}

\* "due": in the result of its detector's query.  assignee: of an opportunity, its
\* owner or creator; of a showing, its own or the owner of its opportunity.
RowsOf(e) == [status : {"due", "quiet"}, type : TypesOf(e),
              assignee : IF e \in OrgWide THEN {Nobody} ELSE Users \cup {Nobody},
              contact : IF e \in Showings THEN BOOLEAN ELSE {TRUE}]

GoneRow(e) == [status |-> "gone", type |-> "plain", assignee |-> Nobody,
               contact |-> TRUE]

Keys == {k \in Users \X Entities \X {"incomplete", "ready", "plain"} : k[3] \in TypesOf(k[2])}

Idle == [phase |-> 1, todo |-> {}, rows |-> Expired, entity |-> Expired,
         type |-> "plain", users |-> {}, accounts |-> Expired, to |-> Nobody]

Init ==
    /\ row \in {f \in [Entities -> UNION {RowsOf(e) : e \in Entities}] :
                   \A e \in Entities : /\ f[e] \in RowsOf(e)
                                       /\ f[e].status = "quiet"
                                       /\ e \in Tasks => f[e].assignee # Nobody}
    /\ account = [u \in Users |-> "active"]
    /\ notes = [k \in Keys |-> 0] /\ unread = {}
    /\ followUps = [a \in Showings |-> 0]
    /\ markers = [a \in Showings |-> 0] /\ announced = [a \in Showings |-> 0]
    /\ pc = [r \in Runs |-> "idle"]
    /\ local = [r \in Runs |-> Idle]
    /\ deaths = 0

-----------------------------------------------------------------------------
(* What a run sees.                                                        *)

\* The entity as the run's session has it: as listed, or as it is now when a
\* commit has expired it.
Seen(r, e) == IF local[r].rows = Expired THEN row[e] ELSE local[r].rows[e]

SeenAccount(r, u) ==
    IF local[r].accounts = Expired THEN account[u] ELSE local[r].accounts[u]

\* Mutant: a notification that was read is taken for one to renew.
ExistsUnread(u, e, t) == <<u, e, t>> \in unread

\* Mutant: the recipient is left out of the triple.
ExistsForAnyone(u, e, t) == \E v \in Users : notes[<<v, e, t>>] > 0

\* exists_for_related_entity; nothing is ever found for Nobody.
ExistsForRelatedEntity(u, e, t) == u \in Users /\ notes[<<u, e, t>>] > 0

\* Who is told of e, as far as its row says.
Recipients(r, e) ==
    IF e \in OrgWide THEN {u \in Users : account[u] # "gone"}
    ELSE IF e \in Tasks THEN {Seen(r, e).assignee}
    ELSE {Seen(r, e).assignee} \ {Nobody}

-----------------------------------------------------------------------------
(* Steps of a run.                                                         *)

GoTo(r, label) == pc' = [pc EXCEPT ![r] = label]

\* An exception: run_all_organizations_once rolls back, logs and gives up on
\* the organization until the next run.
Abort(r) ==
    /\ GoTo(r, "idle") /\ local' = [local EXCEPT ![r] = Idle]
    /\ UNCHANGED record

\* The objects of the session are expired by its commit.
Forgetting(l) == [l EXCEPT !.rows = Expired, !.accounts = Expired]

\* The interval trigger fires; this run is not under way.
Start(r) ==
    /\ pc[r] = "idle"
    /\ GoTo(r, "list") /\ local' = [local EXCEPT ![r] = Idle]
    /\ UNCHANGED <<world, record, deaths>>

\* The detector's query.
List(r) ==
    /\ pc[r] = "list"
    /\ local' = [local EXCEPT
           ![r].todo = {e \in Detectors[local[r].phase] : row[e].status = "due"},
           ![r].rows = row]
    /\ GoTo(r, "next")
    /\ UNCHANGED <<world, record, deaths>>

\* The list is exhausted: the next detector, or the end of the run.
NextDetector(r) ==
    /\ pc[r] = "next" /\ local[r].todo = {}
    /\ IF local[r].phase < Len(Detectors)
         THEN /\ GoTo(r, "list")
              /\ local' = [local EXCEPT ![r].phase = @ + 1]
         ELSE /\ GoTo(r, "idle")
              /\ local' = [local EXCEPT ![r] = Idle]
    /\ UNCHANGED <<world, record, deaths>>

\* The loop reaches e: the five notification detectors, then the followup.
TakeUp(r, e) ==
    /\ pc[r] = "next" /\ e \in local[r].todo
    /\ IF Seen(r, e).status = "gone" THEN Abort(r)
       ELSE /\ LET taken == [local[r] EXCEPT !.todo = @ \ {e}, !.entity = e,
                                             !.type = Seen(r, e).type]
               IN  \/ /\ e \notin Showings
                      /\ local' = [local EXCEPT ![r] =
                             [taken EXCEPT !.users = Recipients(r, e),
                                           !.accounts = account]]
                      /\ GoTo(r, "user")
                   \/ /\ e \in Showings
                      /\ Seen(r, e).contact /\ markers[e] = 0
                      /\ Seen(r, e).assignee # Nobody
                      /\ local' = [local EXCEPT ![r] =
                             [taken EXCEPT !.to = Seen(r, e).assignee]]
                      /\ GoTo(r, "followup")
                   \/ /\ e \in Showings
                      /\ ~Seen(r, e).contact \/ markers[e] > 0
                         \/ Seen(r, e).assignee = Nobody
                      /\ local' = [local EXCEPT ![r] = taken]
                      /\ UNCHANGED pc
            /\ UNCHANGED record
    /\ UNCHANGED <<world, deaths>>

\* One recipient: skipped when not eligible or told already.
CheckUser(r, u) ==
    LET e == local[r].entity
        orgWide == e \in OrgWide
    IN  /\ pc[r] = "user" /\ u \in local[r].users
        /\ \/ orgWide /\ SeenAccount(r, u) = "gone" /\ Abort(r)
           \/ /\ orgWide => SeenAccount(r, u) # "gone"
              /\ LET skip == \/ orgWide /\ SeenAccount(r, u) = "off"
                             \/ ExistsForRelatedEntity(u, e, local[r].type)
                 IN  GoTo(r, IF skip THEN "user" ELSE "create")
              /\ local' = [local EXCEPT ![r].users = @ \ {u}, ![r].to = u]
              /\ UNCHANGED record
        /\ UNCHANGED <<world, deaths>>

NoMoreUsers(r) ==
    /\ pc[r] = "user" /\ local[r].users = {}
    /\ GoTo(r, "next")
    /\ UNCHANGED <<world, record, local, deaths>>

\* create_notification: the row and its audit entry, one commit.  A recipient
\* that is NULL or deleted violates a constraint.
CreateNotification(r) ==
    LET u == local[r].to
        k == <<u, local[r].entity, local[r].type>>
    IN  /\ pc[r] = "create"
        /\ \/ /\ u \in Users /\ account[u] # "gone"
              /\ notes' = [notes EXCEPT ![k] = @ + 1]
              /\ unread' = unread \cup {k}
              /\ local' = [local EXCEPT ![r] = Forgetting(@)]
              /\ GoTo(r, "user")
              /\ UNCHANGED <<followUps, markers, announced>>
           \/ /\ u \in Users => account[u] = "gone"
              /\ Abort(r)
        /\ UNCHANGED <<world, deaths>>

\* Mutant: the task is all there is to it.
CreateFollowUpSilent(r) ==
    LET a == local[r].entity
    IN  /\ pc[r] = "followup" /\ account[local[r].to] # "gone"
        /\ followUps' = [followUps EXCEPT ![a] = @ + 1]
        /\ markers' = [markers EXCEPT ![a] = @ + 1]
        /\ local' = [local EXCEPT ![r] = Forgetting(@)]
        /\ GoTo(r, "next")
        /\ UNCHANGED <<world, notes, unread, announced, deaths>>

\* create_completed_appointment_followup_task: marker and task, one commit.
\* It raises when the assignee or, with the showing, its contact is gone.
CreateFollowUp(r) ==
    LET a == local[r].entity
    IN  /\ pc[r] = "followup"
        /\ \/ /\ account[local[r].to] # "gone"
              /\ followUps' = [followUps EXCEPT ![a] = @ + 1]
              /\ markers' = [markers EXCEPT ![a] = @ + 1]
              /\ local' = [local EXCEPT ![r] = Forgetting(@)]
              /\ GoTo(r, "tell")
              /\ UNCHANGED <<notes, unread, announced>>
           \/ /\ row[a].status = "gone" \/ account[local[r].to] = "gone"
              /\ Abort(r)
        /\ UNCHANGED <<world, deaths>>

\* The notification of the new task, in a commit of its own.
Announce(r) ==
    LET a == local[r].entity
    IN  /\ pc[r] = "tell"
        /\ \/ /\ row[a].status # "gone" /\ account[local[r].to] # "gone"
              /\ announced' = [announced EXCEPT ![a] = @ + 1]
              /\ local' = [local EXCEPT ![r] = Forgetting(@)]
              /\ GoTo(r, "next")
              /\ UNCHANGED <<notes, unread, followUps, markers>>
           \/ /\ row[a].status = "gone" \/ account[local[r].to] = "gone"
              /\ Abort(r)
        /\ UNCHANGED <<world, deaths>>

RunStep(r) ==
    \/ Start(r) \/ List(r) \/ NextDetector(r)
    \/ \E e \in Entities : TakeUp(r, e)
    \/ \E u \in Users \cup {Nobody} : CheckUser(r, u)
    \/ NoMoreUsers(r) \/ CreateNotification(r)
    \/ CreateFollowUp(r) \/ Announce(r)

-----------------------------------------------------------------------------
(* The rest of the world.                                                  *)

\* The process dies in the middle of a run; the scheduler starts over.
Die(r) ==
    /\ pc[r] # "idle" /\ deaths < MaxDeaths
    /\ deaths' = deaths + 1
    /\ Abort(r)
    /\ UNCHANGED world

\* Somebody edits the entity, or time passes.  A PATCH cannot take an assignee
\* or a contact away: OrgScopedRepository.update skips None.
Edit(e, v) ==
    /\ row[e].status # "gone" /\ v # row[e]
    /\ v.assignee = Nobody => row[e].assignee = Nobody
    /\ v.assignee # Nobody => account[v.assignee] # "gone"
    /\ row[e].contact => v.contact
    /\ row' = [row EXCEPT ![e] = v]
    /\ UNCHANGED <<account, record, pc, local, deaths>>

\* The entity is deleted, or the contact it hangs from.
Delete(e) ==
    /\ row[e].status # "gone"
    /\ row' = [row EXCEPT ![e] = GoneRow(e)]
    /\ UNCHANGED <<account, record, pc, local, deaths>>

\* PATCH on a member: deactivation, a new role, reactivation.
SwitchAccount(u) ==
    /\ account[u] # "gone"
    /\ account' = [account EXCEPT ![u] = IF @ = "active" THEN "off" ELSE "active"]
    /\ UNCHANGED <<row, record, pc, local, deaths>>

\* The account is deleted in Supabase: users.id cascades, the references to it
\* become NULL, its notifications are deleted.
DeleteAccount(u) ==
    /\ u \in Deletable /\ account[u] # "gone"
    /\ account' = [account EXCEPT ![u] = "gone"]
    /\ row' = [e \in Entities |-> IF row[e].assignee = u
                                    THEN [row[e] EXCEPT !.assignee = Nobody]
                                    ELSE row[e]]
    /\ notes' = [k \in Keys |-> IF k[1] = u THEN 0 ELSE notes[k]]
    /\ unread' = {k \in unread : k[1] # u}
    /\ UNCHANGED <<followUps, markers, announced, pc, local, deaths>>

\* PATCH /notifications/{id}: read, or unread again.
MarkRead(k) ==
    /\ notes[k] > 0
    /\ unread' = IF k \in unread THEN unread \ {k} ELSE unread \cup {k}
    /\ UNCHANGED <<world, notes, followUps, markers, announced, pc, local, deaths>>

Next ==
    \/ \E r \in Runs : RunStep(r) \/ Die(r)
    \/ \E e \in Entities : Delete(e) \/ \E v \in RowsOf(e) : Edit(e, v)
    \/ \E u \in Users : SwitchAccount(u) \/ DeleteAccount(u)
    \/ \E k \in Keys : MarkRead(k)

Spec == Init /\ [][Next]_vars

\* The interval trigger keeps firing and a run that is under way goes on.
Fairness == \A r \in Runs : WF_vars(RunStep(r))

FairSpec == Spec /\ Fairness

-----------------------------------------------------------------------------
(* Properties.                                                             *)

\* Every variable keeps its type.
TypeOK ==
    /\ \A e \in Entities : row[e] \in RowsOf(e) \cup {GoneRow(e)}
    /\ account \in [Users -> {"active", "off", "gone"}]
    /\ notes \in [Keys -> Nat] /\ unread \subseteq Keys
    /\ {followUps, markers, announced} \subseteq [Showings -> Nat]
    /\ pc \in [Runs -> {"idle", "list", "next", "user", "create", "followup", "tell"}]
    /\ deaths \in 0..MaxDeaths

\* Deduplication, "the single most important property": a user is told of an
\* event once, and a showing is followed up once, ever: across runs, restarts,
\* notifications read, entities edited back and forth.
NeverTwice ==
    /\ \A k \in Keys : notes[k] <= 1
    /\ \A a \in Showings : followUps[a] <= 1

\* A follow-up task nobody was told of is one whose run is about to tell, or was
\* cut off between its two commits: by a dying process, or by the deletion of
\* the showing or the assignee.
FollowUpAnnounced ==
    \A a \in Showings :
        announced[a] < followUps[a] =>
            \/ \E r \in Runs : pc[r] = "tell" /\ local[r].entity = a
            \/ deaths > 0
            \/ row[a].status = "gone"
            \/ \E u \in Users : account[u] = "gone"

\* Whom the row of e says to tell.
Wants(e, u) ==
    /\ row[e].status = "due" /\ account[u] = "active"
    /\ e \in OrgWide \/ row[e].assignee = u

\* An event that lasts reaches everybody it concerns, whatever else happens to
\* the organization meanwhile: rows deleted under a run (which ends it), processes that die.
EventTold ==
    \A e \in Entities \ Showings, u \in Users :
        <>[]Wants(e, u) => <>(\E t \in TypesOf(e) : notes[<<u, e, t>>] > 0)

\* A showing that stays completed gets its follow-up task.
ShowingFollowedUp ==
    \A a \in Showings :
        <>[](row[a].status = "due" /\ row[a].contact
             /\ row[a].assignee # Nobody) => <>(followUps[a] > 0)

\* What lasts is acted on: nothing is forgotten for good, whatever ends a run.
NothingForgotten == EventTold /\ ShowingFollowedUp

=============================================================================
