------------------------------- MODULE Agenda -------------------------------
(***************************************************************************)
(* Appointments, tasks and the activities that record what came of them    *)
(* (services/appointment_service.py, task_service.py, activity_service.py  *)
(* over repositories/base.py), in requests that interleave, and the        *)
(* fingerprint by which a stored AI run is told from a stale one           *)
(* (lead_context_service.py).                                              *)
(*                                                                         *)
(* A request reads in one step and writes in a later one: the database     *)
(* runs READ COMMITTED and the UPDATE names the columns whose value        *)
(* differs from the one read.  now() is the start of a transaction, so a   *)
(* row may be stamped earlier than one committed before it.                *)
(*                                                                         *)
(* Of the references of a row only the contact is kept, and of the columns *)
(* of a contact one value.  The other references (a property, an           *)
(* opportunity) become NULL when what they name is deleted, and no stamp   *)
(* moves: with the roles of a contact and the features and locations of    *)
(* its requirements they are the rest of what an agent is given.           *)
(***************************************************************************)
EXTENDS Naturals, FiniteSets, FiniteSetsExt

CONSTANTS
    Contacts, Appointments, Tasks,
    Requests,
    AppointmentPatches, TaskPatches,    \* the bodies of PATCH, without outcome_notes
    NewAppointments, NewTasks,          \* the bodies of POST
    Contents,                           \* what the columns of a contact may hold
    MaxClock,                           \* bound: transactions begun
    Null                                \* NULL, and an explicit null of a PATCH

AppointmentStatuses == {"scheduled", "confirmed", "completed", "cancelled", "no_show"}
TaskStatuses == {"pending", "in_progress", "completed", "cancelled"}

\* What the columns that a body may name hold
AppointmentColumns == [contact |-> Contacts \cup {Null}, status |-> AppointmentStatuses,
                       start |-> Nat, end |-> Nat]
TaskColumns == [contact |-> Contacts \cup {Null}, status |-> TaskStatuses,
                completed |-> Nat \cup {Null}]

\* The schemas: POST names every column, PATCH some, and there a null is allowed
\* (but for the times, which are compared).
Complete(new, columns) == DOMAIN new = DOMAIN columns /\ \A f \in DOMAIN new : new[f] \in columns[f]
Partial(body, columns) ==
    /\ DOMAIN body \subseteq DOMAIN columns
    /\ \A f \in DOMAIN body : body[f] \in columns[f] \cup {Null}

ASSUME AgendaAssumption ==
    /\ Null \notin Contacts \cup Appointments \cup Tasks
    /\ Null \notin Nat \cup AppointmentStatuses \cup TaskStatuses
    /\ Appointments \cap Tasks = {} /\ IsFiniteSet(Appointments \cup Tasks)
    /\ \A new \in NewAppointments : Complete(new, AppointmentColumns) /\ new.start <= new.end
    /\ \A new \in NewTasks : Complete(new, TaskColumns)
    /\ \A p \in AppointmentPatches :
          /\ Partial(p, AppointmentColumns)
          /\ \A f \in DOMAIN p \cap {"start", "end"} : p[f] # Null
    /\ \A p \in TaskPatches : Partial(p, TaskColumns)

VARIABLES
    contact,    \* contacts that exist
    profile,    \* profile[c]: the contact's own row, and what else it has, unstamped
    row,        \* row[id] of an appointment or a task, or Null
    activities, \* append-only but for the deletion of their contact
    audit,      \* audit entries, [entity, action]
    req,        \* req[r]: where a request is, what it read and its answer
    clock,      \* the time: it passes with every transaction begun
    stored      \* an AI run, what it was given and the fingerprint, or Null

vars == <<contact, profile, row, activities, audit, req, clock, stored>>

Ids == Appointments \cup Tasks

Idle == [pc |-> "idle", op |-> Null, id |-> Null, body |-> Null, notes |-> FALSE,
         read |-> Null, tx |-> 0, answer |-> Null]

\* A row as POST leaves it
Made(new, tx) == [f \in DOMAIN new \cup {"updated"} |-> IF f = "updated" THEN tx ELSE new[f]]

\* Some rows are there already.
Init ==
    /\ contact = Contacts
    /\ \E v \in Contents :
          profile = [c \in Contacts |-> [own |-> [updated |-> 0, columns |-> v], rest |-> v]]
    /\ \E there \in SUBSET Ids, a \in NewAppointments, t \in NewTasks :
          row = [id \in Ids |-> IF id \notin there THEN Null
                                ELSE Made(IF id \in Tasks THEN t ELSE a, 0)]
    /\ activities = {} /\ audit = {}
    /\ req = [r \in Requests |-> Idle]
    /\ clock = 0
    /\ stored = Null

-----------------------------------------------------------------------------
(* Rows.                                                                   *)

Merged(read, body) == [f \in DOMAIN read |-> IF f \in DOMAIN body THEN body[f] ELSE read[f]]

\* Mutant: a null of the body is written like any value.
ChangedByNull(read, body) == {f \in DOMAIN body : body[f] # read[f]}

\* OrgScopedRepository.update: None is skipped, and so is what does not differ
Changed(read, body) == {f \in DOMAIN body : body[f] \notin {Null, read[f]}}

\* The UPDATE, over the row as it is by then; updated_at goes with it.
Updated(now, read, body, tx) ==
    [f \in DOMAIN now |-> IF f \in Changed(read, body) THEN body[f]
                          ELSE IF f = "updated" THEN tx ELSE now[f]]

\* ck_appointments_start_before_end
Accepted(new) == "start" \in DOMAIN new => new.start <= new.end

\* A contact that is named must exist.
Resolves(body) == "contact" \in DOMAIN body => body.contact \in contact \cup {Null}

\* TaskService.update: completed_at is stamped unless given or there
Stamped(read, body, now) ==
    IF /\ "status" \in DOMAIN body /\ body.status = "completed"
       /\ "completed" \notin DOMAIN body /\ read.completed = Null
    THEN [f \in DOMAIN body \cup {"completed"} |-> IF f = "completed" THEN now ELSE body[f]]
    ELSE body

\* Mutant: the status is the one the request found.
OutcomeOfRead(body, read, now) == read.status = "completed" /\ now.contact # Null

\* merged_status, read after the refresh, and a contact to attach the notes to
Outcome(body, read, now) ==
    /\ (IF "status" \in DOMAIN body THEN body.status ELSE now.status) = "completed"
    /\ now.contact # Null

-----------------------------------------------------------------------------
(* The fingerprint.                                                        *)

TasksOf(c) == {t \in Tasks : row[t] # Null /\ row[t].contact = c}
AppointmentsOf(c) == {a \in Appointments : row[a] # Null /\ row[a].contact = c}
ActivitiesOf(c) == {a \in activities : a.contact = c}

\* What carries a stamp; requirements, interests, opportunities and properties
\* are lists of rows like the tasks.
Dated(c) == [contact |-> profile[c].own,
             tasks |-> [t \in TasksOf(c) |-> row[t]],
             appointments |-> [a \in AppointmentsOf(c) |-> row[a]],
             activities |-> ActivitiesOf(c)]

\* What build() puts before an agent
Context(c) == [dated |-> Dated(c), rest |-> profile[c].rest]

\* Mutant: the latest change alone.
BucketLatest(times, count) == [count |-> 0, latest |-> Max(times \cup {0})]

\* _bucket
Bucket(times, count) == [count |-> count, latest |-> Max(times \cup {0})]

\* compute_context_fingerprint
Fingerprint(c) ==
    [contact |-> profile[c].own.updated,
     tasks |-> Bucket({row[t].updated : t \in TasksOf(c)}, Cardinality(TasksOf(c))),
     appointments |-> Bucket({row[a].updated : a \in AppointmentsOf(c)},
                             Cardinality(AppointmentsOf(c))),
     activities |-> Bucket({a.created : a \in ActivitiesOf(c)}, Cardinality(ActivitiesOf(c)))]

-----------------------------------------------------------------------------
(* Requests.                                                               *)

Begin(r) ==
    /\ req[r].pc = "idle" /\ clock < MaxClock
    /\ clock' = clock + 1
    /\ UNCHANGED <<contact, profile, row, activities, audit, stored>>

Answer(r, code) == req' = [req EXCEPT ![r] = [Idle EXCEPT !.pc = "done", !.answer = code]]

Fails(r, code) == Answer(r, code) /\ UNCHANGED <<contact, row, activities, audit>>

Read(r, op, id, body, notes) ==
    req' = [req EXCEPT ![r] = [Idle EXCEPT !.pc = "write", !.op = op, !.id = id, !.body = body,
                                           !.notes = notes, !.read = row[id], !.tx = clock + 1]]

\* POST; the id is a uuid4 of its own, so no request has met it.
Create(r, id, new) ==
    /\ row[id] = Null /\ \A q \in Requests : req[q].id # id
    /\ Begin(r)
    /\ IF Resolves(new) THEN Read(r, "create", id, new, FALSE) ELSE Answer(r, 404)

\* PATCH /appointments/{id}
Patch(r, a, body, notes) ==
    /\ row[a] # Null
    /\ Begin(r)
    /\ LET merged == Merged(row[a], body)
       IN  IF ~Resolves(body) THEN Answer(r, 404)
           ELSE IF merged.start > merged.end THEN Answer(r, 422)
           ELSE Read(r, "update", a, body, notes)

\* PATCH /tasks/{id}
PatchTask(r, t, body) ==
    /\ row[t] # Null
    /\ Begin(r)
    /\ IF Resolves(body) THEN Read(r, "update", t, Stamped(row[t], body, clock + 1), FALSE)
       ELSE Answer(r, 404)

\* DELETE
Delete(r, id) ==
    /\ row[id] # Null
    /\ Begin(r)
    /\ Read(r, "delete", id, <<>>, FALSE)

Audited(r) == audit' = audit \cup {[entity |-> req[r].id, action |-> req[r].op]}

Insert(r) ==
    /\ req[r].pc = "write" /\ req[r].op = "create"
    /\ LET q == req[r]
       IN  IF ~Resolves(q.body) THEN Fails(r, 409)
           ELSE /\ row' = [row EXCEPT ![q.id] = Made(q.body, q.tx)]
                /\ Audited(r)
                /\ Answer(r, 200)
                /\ UNCHANGED <<contact, activities>>
    /\ UNCHANGED <<profile, clock, stored>>

\* The flush, the audit entry and the commit.  With nothing changed there is no
\* UPDATE, and nothing to tell that the row is gone.
Write(r) ==
    /\ req[r].pc = "write" /\ req[r].op = "update"
    /\ LET q == req[r]
           writes == Changed(q.read, q.body) # {}
           new == Updated(row[q.id], q.read, q.body, q.tx)
       IN  IF writes /\ row[q.id] = Null THEN Fails(r, 500)
           ELSE IF writes /\ ~(Accepted(new) /\ Resolves(q.body)) THEN Fails(r, 409)
           ELSE /\ row' = IF writes THEN [row EXCEPT ![q.id] = new] ELSE row
                /\ Audited(r)
                /\ req' = [req EXCEPT ![r].pc = "refresh"]
                /\ UNCHANGED <<contact, activities>>
    /\ UNCHANGED <<profile, clock, stored>>

\* Deleting what is gone by then is as good as deleting it.
Remove(r) ==
    /\ req[r].pc = "write" /\ req[r].op = "delete"
    /\ row' = [row EXCEPT ![req[r].id] = Null]
    /\ Audited(r)
    /\ Answer(r, 204)
    /\ UNCHANGED <<contact, profile, activities, clock, stored>>

\* refresh(updated), in a transaction of its own that the notes are part of
Refresh(r) ==
    /\ req[r].pc = "refresh" /\ clock < MaxClock
    /\ clock' = clock + 1
    /\ LET q == req[r]
           now == row[q.id]
       IN  IF now = Null THEN Answer(r, 500)
           ELSE req' = [req EXCEPT ![r].pc = IF q.notes /\ Outcome(q.body, q.read, now)
                                             THEN "record" ELSE "done",
                                   ![r].answer = 200, ![r].read = now, ![r].tx = clock + 1]
    /\ UNCHANGED <<contact, profile, row, activities, audit, stored>>

\* ActivityService.create: the activity and its audit entry
Record(r) ==
    /\ req[r].pc = "record"
    /\ LET c == req[r].read.contact
       IN  IF c \notin contact THEN Fails(r, 404)
           ELSE /\ activities' = activities \cup {[contact |-> c, created |-> req[r].tx, by |-> r]}
                /\ audit' = audit \cup {[entity |-> r, action |-> "log"]}
                /\ req' = [req EXCEPT ![r].pc = "done"]
                /\ UNCHANGED <<contact, row>>
    /\ UNCHANGED <<profile, clock, stored>>

\* POST /contacts/{id}/activities
LogActivity(r, c) ==
    /\ Begin(r)
    /\ IF c \in contact
       THEN req' = [req EXCEPT ![r] = [Idle EXCEPT !.pc = "record", !.op = "log", !.tx = clock + 1,
                                                   !.read = [contact |-> c], !.answer = 200]]
       ELSE Answer(r, 404)

\* PATCH /contacts/{id}; one refused for want of an email or a phone leaves
\* nothing behind, as a request that dies.
PatchContact(r, c, columns) ==
    /\ Begin(r)
    /\ IF c \in contact
       THEN req' = [req EXCEPT ![r] = [Idle EXCEPT !.pc = "edit", !.op = "edit", !.body = columns,
                                                   !.read = [contact |-> c,
                                                             columns |-> profile[c].own.columns],
                                                   !.tx = clock + 1]]
       ELSE Answer(r, 404)

\* Its flush, audit entry and commit
EditContact(r) ==
    /\ req[r].pc = "edit"
    /\ LET q == req[r]
           c == q.read.contact
           writes == q.body # q.read.columns
       IN  IF writes /\ c \notin contact THEN Fails(r, 500) /\ UNCHANGED profile
           ELSE /\ profile' = IF writes
                              THEN [profile EXCEPT ![c].own = [updated |-> q.tx, columns |-> q.body]]
                              ELSE profile
                /\ audit' = audit \cup {[entity |-> c, action |-> "edit"]}
                /\ Answer(r, 200)
                /\ UNCHANGED <<contact, row, activities>>
    /\ UNCHANGED <<clock, stored>>

\* A role, a feature or a location comes or goes, or a property or an opportunity
\* that rows refer to is deleted.
ChangeRest(c, v) ==
    /\ c \in contact /\ v # profile[c].rest
    /\ profile' = [profile EXCEPT ![c].rest = v]
    /\ UNCHANGED <<contact, row, activities, audit, req, clock, stored>>

\* The process dies, and the transaction that is open with it.
Die(r) ==
    /\ req[r].pc \notin {"idle", "done"}
    /\ Answer(r, Null)
    /\ UNCHANGED <<contact, profile, row, activities, audit, clock, stored>>

\* DELETE /contacts/{id}, which cascades
DeleteContact(c) ==
    /\ c \in contact
    /\ contact' = contact \ {c}
    /\ row' = [id \in Ids |-> IF row[id] # Null /\ row[id].contact = c THEN Null ELSE row[id]]
    /\ activities' = {a \in activities : a.contact # c}
    /\ UNCHANGED <<profile, audit, req, clock, stored>>

\* An agent is given the context, and goes to its provider with it.
Build(c) ==
    /\ stored = Null /\ c \in contact
    /\ stored' = [contact |-> c, context |-> Context(c), fingerprint |-> Null, quiet |-> FALSE]
    /\ UNCHANGED <<contact, profile, row, activities, audit, req, clock>>

\* With its answer the run is stored, with the fingerprint of what there is by
\* then: in quiet, if nobody had changed it or was about to.
Store ==
    /\ stored # Null /\ stored.fingerprint = Null /\ stored.contact \in contact
    /\ LET c == stored.contact
       IN  stored' = [stored EXCEPT
               !.fingerprint = Fingerprint(c),
               !.quiet = /\ Dated(c) = stored.context.dated
                         /\ \A r \in Requests : req[r].pc \in {"idle", "done", "refresh"}]
    /\ UNCHANGED <<contact, profile, row, activities, audit, req, clock>>

Next ==
    \/ \E r \in Requests :
          \/ \E a \in Appointments :
                \/ \E new \in NewAppointments : Create(r, a, new)
                \/ \E body \in AppointmentPatches, notes \in BOOLEAN : Patch(r, a, body, notes)
          \/ \E t \in Tasks :
                \/ \E new \in NewTasks : Create(r, t, new)
                \/ \E body \in TaskPatches : PatchTask(r, t, body)
          \/ \E id \in Ids : Delete(r, id)
          \/ \E c \in Contacts : LogActivity(r, c) \/ \E v \in Contents : PatchContact(r, c, v)
          \/ Insert(r) \/ Write(r) \/ Remove(r) \/ Refresh(r) \/ Record(r) \/ EditContact(r) \/ Die(r)
    \/ \E c \in Contacts : DeleteContact(c) \/ Build(c) \/ \E v \in Contents : ChangeRest(c, v)
    \/ Store

Spec == Init /\ [][Next]_vars

-----------------------------------------------------------------------------
(* Properties.                                                             *)

\* No appointment ends before it starts, although a request that moves the
\* start and one that moves the end each checked what it had read.
StartBeforeEnd ==
    \A a \in Appointments : row[a] # Null => row[a].start <= row[a].end

\* Notes sent for an appointment that the answer shows completed, with a
\* contact, have become an activity of that contact: whoever changed status or
\* contact between the two commits.
NotesBecomeHistory ==
    \A r \in Requests :
        /\ req[r].pc = "done" /\ req[r].answer = 200 /\ req[r].op = "update" /\ req[r].notes
        /\ req[r].read.status = "completed" /\ req[r].read.contact \in contact
        /\ "status" \in DOMAIN req[r].body => req[r].body.status = "completed"
        => \E a \in activities : a.by = r /\ a.contact = req[r].read.contact

\* "Setting status="completed" ... auto-stamps completed_at": a request that
\* completed a task found it dated, whatever other requests wrote meanwhile.
DoneIsDated ==
    \A r \in Requests :
        /\ req[r].pc = "done" /\ req[r].answer = 200 /\ req[r].op = "update" /\ req[r].id \in Tasks
        /\ "status" \in DOMAIN req[r].body /\ req[r].body.status = "completed"
        /\ "completed" \in DOMAIN req[r].body => req[r].body.completed # Null
        => req[r].read.completed # Null

\* The dates of a row agree with one another and with its status.
DatesAgree == StartBeforeEnd /\ DoneIsDated

\* "Did anything change": a run whose fingerprint still holds was given the
\* contact, tasks, appointments and activities there are now, if it was stored in
\* quiet.  Counts and latest changes leave no room for a deletion made good by an
\* insertion; what carries no stamp may have changed.
FingerprintTells ==
    stored # Null /\ stored.quiet /\ stored.contact \in contact
    /\ Fingerprint(stored.contact) = stored.fingerprint
    => Dated(stored.contact) = stored.context.dated
=============================================================================
