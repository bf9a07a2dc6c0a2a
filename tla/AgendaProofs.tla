---------------------------- MODULE AgendaProofs ----------------------------
(***************************************************************************)
(* Proofs about Agenda, for any number of requests that interleave, any    *)
(* bodies the schemas let through, and a time without bound.               *)
(***************************************************************************)
EXTENDS Agenda, FiniteSetTheorems, TLAPS

-----------------------------------------------------------------------------
(* Types.                                                                  *)

AppointmentRow == [contact : Contacts \cup {Null}, status : AppointmentStatuses,
                   start : Nat, end : Nat, updated : Nat]

TaskRow == [contact : Contacts \cup {Null}, status : TaskStatuses,
            completed : Nat \cup {Null}, updated : Nat]

ActivityRow == [contact : Contacts, created : Nat, by : Requests]

ContactRow == [updated : Nat, columns : Contents]

ProfileRow == [own : ContactRow, rest : Contents]

\* The body of a request fits the row it names.
Patching(q) ==
    /\ q.id \in Appointments => Partial(q.body, AppointmentColumns)
    /\ q.id \in Tasks => Partial(q.body, TaskColumns)

Request(q) ==
    /\ q = [pc |-> q.pc, op |-> q.op, id |-> q.id, body |-> q.body, notes |-> q.notes,
            read |-> q.read, tx |-> q.tx, answer |-> q.answer]
    /\ q.pc \in {"idle", "write", "refresh", "record", "edit", "done"}
    /\ q.tx \in Nat
    /\ q.pc = "write" => q.op \in {"create", "update", "delete"} /\ q.id \in Ids
    /\ q.pc = "write" /\ q.op = "create" =>
          /\ q.id \in Appointments => q.body \in NewAppointments
          /\ q.id \in Tasks => q.body \in NewTasks
    /\ q.pc \in {"write", "refresh"} /\ q.op = "update" => Patching(q)
    /\ q.pc = "refresh" => q.op = "update" /\ q.id \in Ids
    /\ q.pc \in {"record", "edit"} => q.read.contact \in Contacts
    /\ q.pc = "edit" => q.body \in Contents

\* A run is of a contact, with what it was given.
Run(s) ==
    /\ s = [contact |-> s.contact, context |-> s.context, fingerprint |-> s.fingerprint,
            quiet |-> s.quiet]
    /\ s.contact \in Contacts

Typed ==
    /\ contact \subseteq Contacts
    /\ row = [id \in Ids |-> row[id]]
    /\ \A a \in Appointments : row[a] # Null => row[a] \in AppointmentRow
    /\ \A t \in Tasks : row[t] # Null => row[t] \in TaskRow
    /\ activities \subseteq ActivityRow /\ IsFiniteSet(activities)
    /\ req = [r \in Requests |-> req[r]]
    /\ \A r \in Requests : Request(req[r])
    /\ profile \in [Contacts -> ProfileRow]
    /\ stored # Null => Run(stored)
    /\ clock \in Nat

-----------------------------------------------------------------------------
(* Bodies and rows.                                                        *)

\* The fields of a PATCH of an appointment, one by one.
LEMMA AppointmentBody ==
    ASSUME NEW body, Partial(body, AppointmentColumns)
    PROVE  /\ "updated" \notin DOMAIN body
           /\ "contact" \in DOMAIN body => body.contact \in Contacts \cup {Null}
           /\ "status" \in DOMAIN body => body.status \in AppointmentStatuses \cup {Null}
           /\ "start" \in DOMAIN body => body.start \in Nat \cup {Null}
           /\ "end" \in DOMAIN body => body.end \in Nat \cup {Null}
  <1>1. DOMAIN AppointmentColumns = {"contact", "status", "start", "end"}
    BY DEF AppointmentColumns
  <1>2. \A f \in DOMAIN body : body[f] \in AppointmentColumns[f] \cup {Null}
    BY DEF Partial
  <1>3. QED
    BY <1>1, <1>2 DEF Partial, AppointmentColumns

\* The same for a task.
LEMMA TaskBody ==
    ASSUME NEW body, Partial(body, TaskColumns)
    PROVE  /\ "updated" \notin DOMAIN body
           /\ "contact" \in DOMAIN body => body.contact \in Contacts \cup {Null}
           /\ "status" \in DOMAIN body => body.status \in TaskStatuses \cup {Null}
           /\ "completed" \in DOMAIN body => body.completed \in Nat \cup {Null}
  <1>1. DOMAIN TaskColumns = {"contact", "status", "completed"}
    BY DEF TaskColumns
  <1>2. \A f \in DOMAIN body : body[f] \in TaskColumns[f] \cup {Null}
    BY DEF Partial
  <1>3. QED
    BY <1>1, <1>2 DEF Partial, TaskColumns

\* POST leaves a whole row, stamped with its transaction.
LEMMA MadeAppointment ==
    ASSUME NEW new \in NewAppointments, NEW tx \in Nat
    PROVE  /\ Made(new, tx) \in AppointmentRow
           /\ Made(new, tx).updated = tx
           /\ Made(new, tx).start <= Made(new, tx).end
  <1>1. /\ DOMAIN new = {"contact", "status", "start", "end"}
        /\ new.contact \in Contacts \cup {Null} /\ new.status \in AppointmentStatuses
        /\ new.start \in Nat /\ new.end \in Nat /\ new.start <= new.end
    BY AgendaAssumption DEF Complete, AppointmentColumns
  <1>2. DOMAIN new \cup {"updated"} = {"contact", "status", "start", "end", "updated"}
    BY <1>1
  <1>3. Made(new, tx) = [f \in {"contact", "status", "start", "end", "updated"} |->
                            IF f = "updated" THEN tx ELSE new[f]]
    BY <1>2 DEF Made
  <1>4. QED
    BY <1>1, <1>3 DEF AppointmentRow

\* The same for a task.
LEMMA MadeTask ==
    ASSUME NEW new \in NewTasks, NEW tx \in Nat
    PROVE  Made(new, tx) \in TaskRow /\ Made(new, tx).updated = tx
  <1>1. /\ DOMAIN new = {"contact", "status", "completed"}
        /\ new.contact \in Contacts \cup {Null} /\ new.status \in TaskStatuses
        /\ new.completed \in Nat \cup {Null}
    BY AgendaAssumption DEF Complete, TaskColumns
  <1>2. DOMAIN new \cup {"updated"} = {"contact", "status", "completed", "updated"}
    BY <1>1
  <1>3. Made(new, tx) = [f \in {"contact", "status", "completed", "updated"} |->
                            IF f = "updated" THEN tx ELSE new[f]]
    BY <1>2 DEF Made
  <1>4. QED
    BY <1>1, <1>3 DEF TaskRow

\* PATCH leaves a whole row, stamped with its transaction.
LEMMA UpdatedAppointment ==
    ASSUME NEW now \in AppointmentRow, NEW read, NEW body, Partial(body, AppointmentColumns),
           NEW tx \in Nat
    PROVE  /\ Updated(now, read, body, tx) \in AppointmentRow
           /\ Updated(now, read, body, tx).updated = tx
  <1>1. DOMAIN now = {"contact", "status", "start", "end", "updated"}
    BY DEF AppointmentRow
  <1>2. /\ "updated" \notin Changed(read, body)
        /\ "contact" \in Changed(read, body) => body.contact \in Contacts \cup {Null}
        /\ "status" \in Changed(read, body) => body.status \in AppointmentStatuses
        /\ "start" \in Changed(read, body) => body.start \in Nat
        /\ "end" \in Changed(read, body) => body.end \in Nat
    BY AppointmentBody DEF Changed
  <1>3. Updated(now, read, body, tx) =
            [f \in {"contact", "status", "start", "end", "updated"} |->
                IF f \in Changed(read, body) THEN body[f] ELSE IF f = "updated" THEN tx ELSE now[f]]
    BY <1>1 DEF Updated
  <1>4. QED
    BY <1>2, <1>3 DEF AppointmentRow

\* The same for a task.
LEMMA UpdatedTask ==
    ASSUME NEW now \in TaskRow, NEW read, NEW body, Partial(body, TaskColumns), NEW tx \in Nat
    PROVE  /\ Updated(now, read, body, tx) \in TaskRow
           /\ Updated(now, read, body, tx).updated = tx
  <1>1. DOMAIN now = {"contact", "status", "completed", "updated"}
    BY DEF TaskRow
  <1>2. /\ "updated" \notin Changed(read, body)
        /\ "contact" \in Changed(read, body) => body.contact \in Contacts \cup {Null}
        /\ "status" \in Changed(read, body) => body.status \in TaskStatuses
        /\ "completed" \in Changed(read, body) => body.completed \in Nat /\ body.completed # Null
    BY TaskBody DEF Changed
  <1>3. Updated(now, read, body, tx) =
            [f \in {"contact", "status", "completed", "updated"} |->
                IF f \in Changed(read, body) THEN body[f] ELSE IF f = "updated" THEN tx ELSE now[f]]
    BY <1>1 DEF Updated
  <1>4. QED
    BY <1>2, <1>3 DEF TaskRow

\* A date that is there stays: no request writes a null.
LEMMA UpdatedDate ==
    ASSUME NEW now \in TaskRow, NEW read, NEW body, Partial(body, TaskColumns), NEW tx \in Nat,
           now.completed # Null \/ "completed" \in Changed(read, body)
    PROVE  Updated(now, read, body, tx).completed # Null
  <1>1. "completed" \in DOMAIN now
    BY DEF TaskRow
  <1>2. "completed" \in Changed(read, body) => body.completed # Null
    BY DEF Changed
  <1>3. QED
    BY <1>1, <1>2 DEF Updated

\* TaskService.update adds a date to the body at most.
LEMMA StampedBody ==
    ASSUME NEW read, NEW body \in TaskPatches, NEW now \in Nat
    PROVE  /\ Partial(Stamped(read, body, now), TaskColumns)
           /\ LET b == Stamped(read, body, now)
              IN  "status" \in DOMAIN b /\ b.status = "completed" =>
                     "completed" \in DOMAIN b \/ read.completed # Null
  <1>1. Partial(body, TaskColumns)
    BY AgendaAssumption
  <1>2. CASE /\ "status" \in DOMAIN body /\ body.status = "completed"
             /\ "completed" \notin DOMAIN body /\ read.completed = Null
    <2>1. Stamped(read, body, now) =
             [f \in DOMAIN body \cup {"completed"} |-> IF f = "completed" THEN now ELSE body[f]]
      BY <1>2 DEF Stamped
    <2>2. "completed" \in DOMAIN TaskColumns /\ TaskColumns["completed"] = Nat \cup {Null}
      BY DEF TaskColumns
    <2>3. QED
      BY <1>1, <2>1, <2>2 DEF Partial
  <1>3. CASE ~(/\ "status" \in DOMAIN body /\ body.status = "completed"
               /\ "completed" \notin DOMAIN body /\ read.completed = Null)
    BY <1>1, <1>3 DEF Stamped
  <1>4. QED
    BY <1>2, <1>3

-----------------------------------------------------------------------------
(* Types hold.                                                             *)

\* A row of the requests that one request changed.
LEMMA Requested ==
    ASSUME Typed, NEW r \in Requests, NEW q, req' = [req EXCEPT ![r] = q]
    PROVE  /\ req' = [b \in Requests |-> req'[b]]
           /\ req'[r] = q
           /\ \A b \in Requests : b # r => req'[b] = req[b]
           /\ Request(q) => \A b \in Requests : Request(req'[b])
  <1>1. req = [b \in Requests |-> req[b]]
    BY DEF Typed
  <1>2. \A b \in Requests : req'[b] = IF b = r THEN q ELSE req[b]
    BY <1>1
  <1>3. req' = [b \in Requests |-> req'[b]]
    BY <1>1
  <1>4. QED
    BY <1>2, <1>3 DEF Typed

\* An answer ends a request.
LEMMA Answering ==
    ASSUME Typed, NEW r \in Requests, NEW code, Answer(r, code)
    PROVE  /\ req' = [b \in Requests |-> req'[b]]
           /\ \A b \in Requests : b # r => req'[b] = req[b]
           /\ \A b \in Requests : Request(req'[b])
           /\ req'[r].pc = "done" /\ req'[r].op = Null /\ req'[r].id = Null
           /\ req'[r].answer = code /\ req'[r].tx = 0 /\ ~req'[r].notes
  <1>1. PICK q : q = [Idle EXCEPT !.pc = "done", !.answer = code]
    OBVIOUS
  <1>2. /\ q.pc = "done" /\ q.op = Null /\ q.id = Null
        /\ q.tx = 0 /\ q.answer = code /\ ~q.notes
    BY <1>1 DEF Idle
  <1>3. Request(q)
    BY <1>1, <1>2 DEF Idle, Request
  <1>4. req' = [req EXCEPT ![r] = q]
    BY <1>1 DEF Answer
  <1>5. QED
    BY <1>2, <1>3, <1>4, Requested

\* What a request read and when is what it goes on with.
LEMMA Reading ==
    ASSUME Typed, NEW r \in Requests, NEW op \in {"create", "update", "delete"}, NEW id \in Ids,
           NEW body, NEW notes, Read(r, op, id, body, notes),
           op = "create" => /\ id \in Appointments => body \in NewAppointments
                            /\ id \in Tasks => body \in NewTasks,
           op = "update" => /\ id \in Appointments => Partial(body, AppointmentColumns)
                            /\ id \in Tasks => Partial(body, TaskColumns)
    PROVE  /\ req' = [b \in Requests |-> req'[b]]
           /\ \A b \in Requests : b # r => req'[b] = req[b]
           /\ \A b \in Requests : Request(req'[b])
           /\ req'[r].pc = "write" /\ req'[r].op = op /\ req'[r].id = id /\ req'[r].body = body
           /\ req'[r].read = row[id] /\ req'[r].tx = clock + 1
  <1>1. PICK q : q = [Idle EXCEPT !.pc = "write", !.op = op, !.id = id, !.body = body,
                                  !.notes = notes, !.read = row[id], !.tx = clock + 1]
    OBVIOUS
  <1>2. /\ q.pc = "write" /\ q.op = op /\ q.id = id /\ q.body = body
        /\ q.read = row[id] /\ q.tx = clock + 1
    BY <1>1 DEF Idle
  <1>3. Request(q)
    <2>1. q = [pc |-> q.pc, op |-> q.op, id |-> q.id, body |-> q.body, notes |-> q.notes,
               read |-> q.read, tx |-> q.tx, answer |-> q.answer]
      BY <1>1 DEF Idle
    <2>2. QED
      BY <1>2, <2>1 DEF Request, Patching, Typed
  <1>4. req' = [req EXCEPT ![r] = q]
    BY <1>1 DEF Read
  <1>5. QED
    BY <1>2, <1>3, <1>4, Requested

\* The steps of a request before its transaction writes.
Starts(r) ==
    \/ \E a \in Appointments :
          \/ \E new \in NewAppointments : Create(r, a, new)
          \/ \E body \in AppointmentPatches, notes \in BOOLEAN : Patch(r, a, body, notes)
    \/ \E t \in Tasks :
          \/ \E new \in NewTasks : Create(r, t, new)
          \/ \E body \in TaskPatches : PatchTask(r, t, body)
    \/ \E id \in Ids : Delete(r, id)
    \/ \E c \in Contacts : LogActivity(r, c) \/ \E v \in Contents : PatchContact(r, c, v)

\* What a request that starts leaves behind: an answer, or what it will write.
Started(r, q) ==
    /\ Request(q)
    /\ \/ q.pc = "done" /\ q.answer # 200 /\ q.id = Null /\ q.tx = 0
       \/ q.pc = "record" /\ q.op = "log" /\ q.id = Null /\ q.tx = clock + 1
       \/ q.pc = "edit" /\ q.op = "edit" /\ q.id = Null /\ q.tx = clock + 1
       \/ /\ q.pc = "write" /\ q.tx = clock + 1 /\ q.read = row[q.id]
          /\ \/ /\ q.op = "create" /\ row[q.id] = Null
                /\ \A b \in Requests : req[b].id # q.id
             \/ q.op = "delete" /\ row[q.id] # Null
             \/ /\ q.op = "update" /\ row[q.id] # Null
                /\ q.id \in Tasks /\ "status" \in DOMAIN q.body /\ q.body.status = "completed" =>
                      "completed" \in DOMAIN q.body \/ q.read.completed # Null

\* A refusal at the start leaves a request that is over.
LEMMA Refusing ==
    ASSUME Typed, NEW r \in Requests, NEW code \in {404, 422}, Answer(r, code)
    PROVE  /\ req' = [b \in Requests |-> req'[b]]
           /\ \A b \in Requests : b # r => req'[b] = req[b]
           /\ Started(r, req'[r])
  <1>1. /\ req' = [b \in Requests |-> req'[b]]
        /\ \A b \in Requests : b # r => req'[b] = req[b]
        /\ Request(req'[r]) /\ req'[r].pc = "done" /\ req'[r].answer = code
        /\ req'[r].id = Null /\ req'[r].tx = 0
    BY Answering
  <1>2. QED
    BY <1>1 DEF Started

\* Whatever a request starts with, it takes a time of its own or is refused.
LEMMA Starting ==
    ASSUME Typed, NEW r \in Requests, Starts(r)
    PROVE  /\ req[r].pc = "idle" /\ clock' = clock + 1
           /\ UNCHANGED <<contact, profile, row, activities, audit, stored>>
           /\ req' = [b \in Requests |-> req'[b]]
           /\ \A b \in Requests : b # r => req'[b] = req[b]
           /\ Started(r, req'[r])
  <1>1. CASE \E id \in Ids, new \in NewAppointments \cup NewTasks :
                /\ Create(r, id, new)
                /\ id \in Appointments => new \in NewAppointments
                /\ id \in Tasks => new \in NewTasks
    <2>1. PICK id \in Ids, new \in NewAppointments \cup NewTasks :
             /\ Create(r, id, new)
             /\ id \in Appointments => new \in NewAppointments
             /\ id \in Tasks => new \in NewTasks
      BY <1>1
    <2>2. CASE Resolves(new)
      <3>1. /\ req[r].pc = "idle" /\ clock' = clock + 1
            /\ UNCHANGED <<contact, profile, row, activities, audit, stored>>
            /\ Read(r, "create", id, new, FALSE) /\ row[id] = Null
            /\ \A b \in Requests : req[b].id # id
        BY <2>1, <2>2 DEF Create, Begin
      <3>2. /\ req' = [b \in Requests |-> req'[b]]
            /\ \A b \in Requests : b # r => req'[b] = req[b]
            /\ Request(req'[r])
            /\ req'[r].pc = "write" /\ req'[r].op = "create" /\ req'[r].id = id
            /\ req'[r].read = row[id] /\ req'[r].tx = clock + 1
        BY <2>1, <3>1, Reading
      <3>3. QED
        BY <3>1, <3>2 DEF Started
    <2>3. CASE ~Resolves(new)
      BY <2>1, <2>3, Refusing DEF Create, Begin
    <2>4. QED
      BY <2>2, <2>3
  <1>2. CASE \E a \in Appointments, body \in AppointmentPatches, notes \in BOOLEAN :
                Patch(r, a, body, notes)
    <2>1. PICK a \in Appointments, body \in AppointmentPatches, notes \in BOOLEAN :
             Patch(r, a, body, notes)
      BY <1>2
    <2>2. /\ a \in Ids /\ a \notin Tasks /\ Partial(body, AppointmentColumns)
      BY AgendaAssumption DEF Ids
    <2>3. CASE Answer(r, 404) \/ Answer(r, 422)
      BY <2>1, <2>3, Refusing DEF Patch, Begin
    <2>4. CASE Read(r, "update", a, body, notes)
      BY <2>1, <2>2, <2>4, Reading DEF Patch, Begin, Started
    <2>5. QED
      BY <2>1, <2>3, <2>4 DEF Patch
  <1>3. CASE \E t \in Tasks, body \in TaskPatches : PatchTask(r, t, body)
    <2>1. PICK t \in Tasks, body \in TaskPatches : PatchTask(r, t, body)
      BY <1>3
    <2>b. PICK b : b = Stamped(row[t], body, clock + 1)
      OBVIOUS
    <2>2. /\ t \in Ids /\ t \notin Appointments /\ Partial(b, TaskColumns)
          /\ "status" \in DOMAIN b /\ b.status = "completed" =>
                "completed" \in DOMAIN b \/ row[t].completed # Null
      <3>1. clock + 1 \in Nat
        BY DEF Typed
      <3>2. QED
        BY <2>b, <3>1, AgendaAssumption, StampedBody DEF Ids
    <2>3. CASE Answer(r, 404)
      BY <2>1, <2>3, Refusing DEF PatchTask, Begin
    <2>4. CASE Read(r, "update", t, b, FALSE)
      <3>1. /\ req[r].pc = "idle" /\ clock' = clock + 1
            /\ UNCHANGED <<contact, profile, row, activities, audit, stored>> /\ row[t] # Null
        BY <2>1 DEF PatchTask, Begin
      <3>2. /\ req' = [x \in Requests |-> req'[x]]
            /\ \A x \in Requests : x # r => req'[x] = req[x]
            /\ Request(req'[r])
            /\ req'[r].pc = "write" /\ req'[r].op = "update" /\ req'[r].id = t
            /\ req'[r].body = b /\ req'[r].read = row[t] /\ req'[r].tx = clock + 1
        <4>1. /\ t \in Ids /\ (t \in Appointments => Partial(b, AppointmentColumns))
              /\ (t \in Tasks => Partial(b, TaskColumns))
          BY <2>2
        <4>2. /\ req' = [x \in Requests |-> req'[x]]
              /\ \A x \in Requests : x # r => req'[x] = req[x]
              /\ Request(req'[r])
          BY <2>4, <4>1, Reading
        <4>3. req'[r].pc = "write" /\ req'[r].op = "update" /\ req'[r].id = t
          BY <2>4, <4>1, Reading
        <4>4. req'[r].body = b
          BY <2>4 DEF Read, Idle, Typed
        <4>5. req'[r].read = row[t] /\ req'[r].tx = clock + 1
          BY <2>4, <4>1, Reading
        <4>6. QED
          BY <4>2, <4>3, <4>4, <4>5
      <3>3. QED
        BY <2>2, <3>1, <3>2 DEF Started
    <2>5. QED
      BY <2>1, <2>3, <2>4, <2>b DEF PatchTask
  <1>4. CASE \E id \in Ids : Delete(r, id)
    <2>1. PICK id \in Ids : Delete(r, id)
      BY <1>4
    <2>2. /\ req[r].pc = "idle" /\ clock' = clock + 1
          /\ UNCHANGED <<contact, profile, row, activities, audit, stored>> /\ row[id] # Null
          /\ Read(r, "delete", id, <<>>, FALSE)
      BY <2>1 DEF Delete, Begin
    <2>3. /\ req' = [b \in Requests |-> req'[b]]
          /\ \A b \in Requests : b # r => req'[b] = req[b]
          /\ Request(req'[r])
          /\ req'[r].pc = "write" /\ req'[r].op = "delete" /\ req'[r].id = id
          /\ req'[r].read = row[id] /\ req'[r].tx = clock + 1
      BY <2>2, Reading
    <2>4. QED
      BY <2>2, <2>3 DEF Started
  <1>5. CASE \E c \in Contacts : LogActivity(r, c)
    <2>1. PICK c \in Contacts : LogActivity(r, c)
      BY <1>5
    <2>2. CASE c \in contact
      <3>1. PICK q : q = [Idle EXCEPT !.pc = "record", !.op = "log", !.tx = clock + 1,
                                      !.read = [contact |-> c], !.answer = 200]
        OBVIOUS
      <3>2. /\ q.pc = "record" /\ q.op = "log" /\ q.id = Null /\ q.tx = clock + 1
            /\ q.read = [contact |-> c]
        BY <3>1 DEF Idle
      <3>3. Request(q)
        <4>1. q = [pc |-> q.pc, op |-> q.op, id |-> q.id, body |-> q.body, notes |-> q.notes,
                   read |-> q.read, tx |-> q.tx, answer |-> q.answer]
          BY <3>1 DEF Idle
        <4>2. QED
          BY <3>2, <4>1 DEF Request, Typed
      <3>4. req' = [req EXCEPT ![r] = q] /\ req[r].pc = "idle" /\ clock' = clock + 1
            /\ UNCHANGED <<contact, profile, row, activities, audit, stored>>
        BY <2>1, <2>2, <3>1 DEF LogActivity, Begin
      <3>5. QED
        BY <3>2, <3>3, <3>4, Requested DEF Started
    <2>3. CASE c \notin contact
      BY <2>1, <2>3, Refusing DEF LogActivity, Begin
    <2>4. QED
      BY <2>2, <2>3
  <1>6. CASE \E c \in Contacts, v \in Contents : PatchContact(r, c, v)
    <2>1. PICK c \in Contacts, v \in Contents : PatchContact(r, c, v)
      BY <1>6
    <2>2. CASE c \in contact
      <3>1. PICK q : q = [Idle EXCEPT !.pc = "edit", !.op = "edit", !.body = v,
                                      !.read = [contact |-> c, columns |-> profile[c].own.columns],
                                      !.tx = clock + 1]
        OBVIOUS
      <3>2. /\ q.pc = "edit" /\ q.op = "edit" /\ q.id = Null /\ q.tx = clock + 1
            /\ q.read.contact = c /\ q.body = v
        BY <3>1 DEF Idle
      <3>3. Request(q)
        <4>1. q = [pc |-> q.pc, op |-> q.op, id |-> q.id, body |-> q.body, notes |-> q.notes,
                   read |-> q.read, tx |-> q.tx, answer |-> q.answer]
          BY <3>1 DEF Idle
        <4>2. QED
          BY <3>2, <4>1 DEF Request, Typed
      <3>4. req' = [req EXCEPT ![r] = q] /\ req[r].pc = "idle" /\ clock' = clock + 1
            /\ UNCHANGED <<contact, profile, row, activities, audit, stored>>
        BY <2>1, <2>2, <3>1 DEF PatchContact, Begin
      <3>5. QED
        BY <3>2, <3>3, <3>4, Requested DEF Started
    <2>3. CASE c \notin contact
      BY <2>1, <2>3, Refusing DEF PatchContact, Begin
    <2>4. QED
      BY <2>2, <2>3
  <1>7. QED
    BY <1>1, <1>2, <1>3, <1>4, <1>5, <1>6, AgendaAssumption DEF Starts, Ids

\* A row that changes.
LEMMA Rows ==
    ASSUME Typed, NEW id \in Ids, NEW v, row' = [row EXCEPT ![id] = v]
    PROVE  /\ row' = [x \in Ids |-> row'[x]]
           /\ row'[id] = v
           /\ \A x \in Ids : x # id => row'[x] = row[x]
           /\ /\ id \in Appointments => v = Null \/ v \in AppointmentRow
              /\ id \in Tasks => v = Null \/ v \in TaskRow
              => /\ \A a \in Appointments : row'[a] # Null => row'[a] \in AppointmentRow
                 /\ \A t \in Tasks : row'[t] # Null => row'[t] \in TaskRow
  <1>1. row = [x \in Ids |-> row[x]]
    BY DEF Typed
  <1>2. \A x \in Ids : row'[x] = IF x = id THEN v ELSE row[x]
    BY <1>1
  <1>3. row' = [x \in Ids |-> row'[x]]
    BY <1>1
  <1>4. QED
    BY <1>2, <1>3 DEF Typed, Ids

\* An INSERT is of the row the body describes, or fails.
LEMMA Inserting ==
    ASSUME Typed, NEW r \in Requests, Insert(r)
    PROVE  /\ req[r].pc = "write" /\ req[r].op = "create" /\ req[r].id \in Ids
           /\ \E code : Answer(r, code)
           /\ UNCHANGED <<contact, profile, activities, clock, stored>>
           /\ \/ UNCHANGED row
              \/ /\ row' = [row EXCEPT ![req[r].id] = Made(req[r].body, req[r].tx)]
                 /\ req[r].id \in Appointments => req[r].body \in NewAppointments
                 /\ req[r].id \in Tasks => req[r].body \in NewTasks
  <1>1. Request(req[r])
    BY DEF Typed
  <1>2. QED
    BY <1>1 DEF Insert, Fails, Request

\* What a request that wrote leaves behind.
LEMMA Writing ==
    ASSUME Typed, NEW r \in Requests, Write(r)
    PROVE  /\ req[r].pc = "write" /\ req[r].op = "update" /\ req[r].id \in Ids
           /\ Patching(req[r])
           /\ UNCHANGED <<contact, profile, activities, clock, stored>>
           /\ \/ UNCHANGED row /\ \E code \in {409, 500} : Answer(r, code)
              \/ /\ req' = [req EXCEPT ![r].pc = "refresh"]
                 /\ UNCHANGED row /\ Changed(req[r].read, req[r].body) = {}
              \/ LET new == Updated(row[req[r].id], req[r].read, req[r].body, req[r].tx)
                 IN  /\ req' = [req EXCEPT ![r].pc = "refresh"]
                     /\ row[req[r].id] # Null /\ Accepted(new)
                     /\ row' = [row EXCEPT ![req[r].id] = new]
  <1>1. Request(req[r])
    BY DEF Typed
  <1>2. QED
    BY <1>1 DEF Write, Fails, Request

\* A request that only moves on keeps what it read.
LEMMA Goes ==
    ASSUME Typed, NEW r \in Requests, NEW pc \in {"refresh", "done"},
           req' = [req EXCEPT ![r].pc = pc],
           pc = "refresh" => req[r].op = "update" /\ req[r].pc = "write"
    PROVE  /\ req' = [b \in Requests |-> req'[b]]
           /\ \A b \in Requests : b # r => req'[b] = req[b]
           /\ \A b \in Requests : Request(req'[b])
           /\ req'[r].pc = pc /\ req'[r].op = req[r].op /\ req'[r].id = req[r].id
           /\ req'[r].body = req[r].body /\ req'[r].read = req[r].read
           /\ req'[r].tx = req[r].tx /\ req'[r].answer = req[r].answer
           /\ req'[r].notes = req[r].notes
  <1>1. Request(req[r]) /\ req = [b \in Requests |-> req[b]]
    BY DEF Typed
  <1>2. PICK q : q = [req[r] EXCEPT !.pc = pc]
    OBVIOUS
  <1>3. /\ q.pc = pc /\ q.op = req[r].op /\ q.id = req[r].id
        /\ q.body = req[r].body /\ q.read = req[r].read
        /\ q.tx = req[r].tx /\ q.answer = req[r].answer /\ q.notes = req[r].notes
    BY <1>1, <1>2 DEF Request
  <1>4. q = [pc |-> q.pc, op |-> q.op, id |-> q.id, body |-> q.body, notes |-> q.notes,
             read |-> q.read, tx |-> q.tx, answer |-> q.answer]
    BY <1>1, <1>2 DEF Request
  <1>5. Request(q)
    BY <1>1, <1>3, <1>4 DEF Request, Patching
  <1>6. req' = [req EXCEPT ![r] = q]
    BY <1>1, <1>2
  <1>7. QED
    BY <1>3, <1>5, <1>6, Requested

\* What the answer is made from is what is there then.
LEMMA Refreshing ==
    ASSUME Typed, NEW r \in Requests, Refresh(r)
    PROVE  /\ req[r].pc = "refresh" /\ clock' = clock + 1
           /\ UNCHANGED <<contact, profile, row, activities, stored>>
           /\ req' = [b \in Requests |-> req'[b]]
           /\ \A b \in Requests : b # r => req'[b] = req[b]
           /\ \A b \in Requests : Request(req'[b])
           /\ \/ Answer(r, 500)
              \/ /\ row[req[r].id] # Null
                 /\ req'[r].op = req[r].op /\ req'[r].id = req[r].id
                 /\ req'[r].body = req[r].body /\ req'[r].notes = req[r].notes
                 /\ req'[r].read = row[req[r].id] /\ req'[r].tx = clock + 1
                 /\ req'[r].pc \in {"record", "done"} /\ req'[r].answer = 200
                 /\ req'[r].pc = "done" =>
                       ~(req[r].notes /\ Outcome(req[r].body, req[r].read, row[req[r].id]))
  <1>1. Request(req[r]) /\ req = [b \in Requests |-> req[b]]
    BY DEF Typed
  <1>2. /\ req[r].pc = "refresh" /\ clock' = clock + 1
        /\ UNCHANGED <<contact, profile, row, activities, stored>>
    BY DEF Refresh
  <1>3. CASE Answer(r, 500)
    BY <1>2, <1>3, Answering
  <1>4. CASE ~Answer(r, 500)
    <2> DEFINE now == row[req[r].id]
               to == IF req[r].notes /\ Outcome(req[r].body, req[r].read, now)
                     THEN "record" ELSE "done"
    <2>1. now # Null /\ req' = [req EXCEPT ![r].pc = to, ![r].answer = 200, ![r].read = now,
                                           ![r].tx = clock + 1]
      BY <1>4 DEF Refresh
    <2>2. to = "record" => now.contact \in Contacts
      <3>1. req[r].id \in Appointments \cup Tasks
        BY <1>1, <1>2 DEF Request, Ids
      <3>2. now.contact \in Contacts \cup {Null}
        BY <2>1, <3>1 DEF Typed, AppointmentRow, TaskRow
      <3>3. QED
        BY <3>2 DEF Outcome
    <2>3. to = "done" => ~(req[r].notes /\ Outcome(req[r].body, req[r].read, now))
      OBVIOUS
    <2>4. to \in {"record", "done"}
      OBVIOUS
    <2> HIDE DEF to, now
    <2>5. PICK q : q = [req[r] EXCEPT !.pc = to, !.answer = 200, !.read = now, !.tx = clock + 1]
      OBVIOUS
    <2>6. /\ q.pc = to /\ q.op = req[r].op /\ q.id = req[r].id /\ q.body = req[r].body
          /\ q.notes = req[r].notes /\ q.read = now /\ q.tx = clock + 1 /\ q.answer = 200
      BY <1>1, <2>5 DEF Request
    <2>7. Request(q)
      <3>1. q = [pc |-> q.pc, op |-> q.op, id |-> q.id, body |-> q.body, notes |-> q.notes,
                 read |-> q.read, tx |-> q.tx, answer |-> q.answer]
        BY <1>1, <2>5 DEF Request
      <3>2. QED
        BY <1>1, <2>2, <2>4, <2>6, <3>1 DEF Request, Typed
    <2>8. req' = [req EXCEPT ![r] = q]
      <3>1. req' = [b \in Requests |-> req'[b]]
        BY <1>1, <2>1
      <3>2. \A b \in Requests : b # r => req'[b] = req[b]
        BY <1>1, <2>1
      <3>3. req'[r] = q
        BY <1>1, <2>1, <2>5
      <3>4. QED
        BY <1>1, <3>1, <3>2, <3>3
    <2>9. /\ req' = [b \in Requests |-> req'[b]]
          /\ req'[r] = q
          /\ \A b \in Requests : b # r => req'[b] = req[b]
          /\ \A b \in Requests : Request(req'[b])
      BY <2>7, <2>8, Requested
    <2>10. QED
      BY <1>2, <2>1, <2>3, <2>4, <2>6, <2>9 DEF now
  <1>5. QED
    BY <1>3, <1>4

\* The second commit of an update adds one activity, or fails.
LEMMA Recording ==
    ASSUME Typed, NEW r \in Requests, Record(r)
    PROVE  /\ req[r].pc = "record" /\ UNCHANGED <<contact, profile, row, clock, stored>>
           /\ \/ Answer(r, 404) /\ UNCHANGED activities
              \/ /\ req' = [req EXCEPT ![r].pc = "done"]
                 /\ req[r].read.contact \in contact
                 /\ activities' = activities \cup
                       {[contact |-> req[r].read.contact, created |-> req[r].tx, by |-> r]}
  BY DEF Record, Fails

\* An edit of a contact stamps its row with the transaction it is part of.
LEMMA Editing ==
    ASSUME Typed, NEW r \in Requests, EditContact(r)
    PROVE  /\ req[r].pc = "edit" /\ UNCHANGED <<contact, row, activities, clock, stored>>
           /\ \E code : Answer(r, code)
           /\ profile' \in [Contacts -> ProfileRow]
           /\ \A c \in Contacts : profile'[c].own # profile[c].own =>
                 profile'[c].own.updated = req[r].tx
  <1>1. /\ req[r].pc = "edit" /\ UNCHANGED <<contact, row, activities, clock, stored>>
        /\ \E code : Answer(r, code)
    BY DEF EditContact, Fails
  <1>2. CASE profile' = profile
    BY <1>1, <1>2 DEF Typed
  <1>3. CASE profile' # profile
    <2> DEFINE c == req[r].read.contact
               own == [updated |-> req[r].tx, columns |-> req[r].body]
    <2>1. profile' = [profile EXCEPT ![c].own = own]
      BY <1>3 DEF EditContact
    <2>2. c \in Contacts /\ own \in ContactRow /\ own.updated = req[r].tx
      BY <1>1 DEF Typed, Request, ContactRow
    <2> HIDE DEF c, own
    <2>3. QED
      BY <1>1, <2>1, <2>2 DEF Typed, ProfileRow
  <1>4. QED
    BY <1>2, <1>3

\* What has to do with a run, or with what carries no stamp.
Aside == Store \/ \E c \in Contacts : Build(c) \/ \E v \in Contents : ChangeRest(c, v)

\* It leaves the rows, the requests and the time alone.
LEMMA Besides ==
    ASSUME Typed, Aside
    PROVE  /\ UNCHANGED <<contact, row, activities, req, clock>>
           /\ profile' \in [Contacts -> ProfileRow]
           /\ \A c \in Contacts : profile'[c].own = profile[c].own
           /\ stored' # Null => Run(stored')
           /\ Store \/ stored' = stored \/ ~stored'.quiet
  <1>1. CASE Store
    BY <1>1 DEF Store, Typed, Run
  <1>2. ASSUME NEW c \in Contacts, Build(c)
        PROVE  UNCHANGED <<contact, profile, row, activities, req, clock>> /\ Run(stored') /\ ~stored'.quiet
    BY <1>2 DEF Build, Run
  <1>3. ASSUME NEW c \in Contacts, NEW v \in Contents, ChangeRest(c, v)
        PROVE  /\ UNCHANGED <<contact, row, activities, req, clock, stored>>
               /\ profile' \in [Contacts -> ProfileRow]
               /\ \A x \in Contacts : profile'[x].own = profile[x].own
    BY <1>3 DEF ChangeRest, Typed, ProfileRow
  <1>4. QED
    BY <1>1, <1>2, <1>3 DEF Aside, Typed

\* A fresh request.
LEMMA IdleRequest == Request(Idle) /\ Idle.pc = "idle" /\ Idle.tx = 0
  BY DEF Idle, Request

\* Types hold at first, and each step keeps them.
LEMMA TypedInit == Init => Typed
  <1> SUFFICES ASSUME Init PROVE Typed
    OBVIOUS
  <1>1. PICK there \in SUBSET Ids, a \in NewAppointments, t \in NewTasks :
           row = [id \in Ids |-> IF id \notin there THEN Null
                                 ELSE Made(IF id \in Tasks THEN t ELSE a, 0)]
    BY DEF Init
  <1>2. Made(a, 0) \in AppointmentRow /\ Made(t, 0) \in TaskRow
    BY MadeAppointment, MadeTask
  <1>3. \A x \in Appointments : row[x] # Null => row[x] \in AppointmentRow
    BY <1>1, <1>2, AgendaAssumption DEF Ids
  <1>4. \A x \in Tasks : row[x] # Null => row[x] \in TaskRow
    BY <1>1, <1>2 DEF Ids
  <1>5. req = [r \in Requests |-> req[r]] /\ \A r \in Requests : Request(req[r])
    BY IdleRequest DEF Init
  <1>6. IsFiniteSet(activities) /\ activities \subseteq ActivityRow
    BY FS_EmptySet DEF Init
  <1>7. row = [id \in Ids |-> row[id]]
    BY <1>1
  <1>8. profile \in [Contacts -> ProfileRow] /\ stored = Null
    BY DEF Init, ProfileRow, ContactRow
  <1>9. QED
    BY <1>3, <1>4, <1>5, <1>6, <1>7, <1>8 DEF Init, Typed

\* The deletion of a contact leaves every other row.
LEMMA Deleting ==
    ASSUME Typed, NEW c \in Contacts, DeleteContact(c)
    PROVE  /\ row' = [id \in Ids |-> row'[id]]
           /\ \A id \in Ids : row'[id] \in {Null, row[id]}
           /\ \A id \in Ids : row'[id] # Null => row[id].contact # c
           /\ \A id \in Ids : row[id] # Null /\ row[id].contact # c => row'[id] = row[id]
           /\ c \in contact /\ contact' = contact \ {c}
           /\ activities' = {a \in activities : a.contact # c}
           /\ UNCHANGED <<profile, req, clock, stored>>
  BY DEF DeleteContact

\* Every step keeps the types: there are requests at each stage, and the world.
LEMMA TypedNext == ASSUME Typed, [Next]_vars PROVE Typed'
  <1>1. CASE UNCHANGED vars
    BY <1>1 DEF Typed, vars
  <1>2. ASSUME NEW r \in Requests, Starts(r) PROVE Typed'
    <2>1. /\ clock' = clock + 1 /\ UNCHANGED <<contact, profile, row, activities, stored>>
          /\ req' = [b \in Requests |-> req'[b]]
          /\ \A b \in Requests : b # r => req'[b] = req[b]
          /\ Request(req'[r])
      BY <1>2, Starting DEF Started
    <2>2. \A b \in Requests : Request(req'[b])
      BY <2>1 DEF Typed
    <2>3. QED
      BY <2>1, <2>2 DEF Typed
  <1>3. ASSUME NEW r \in Requests, Insert(r) PROVE Typed'
    <2>1. req' = [b \in Requests |-> req'[b]] /\ \A b \in Requests : Request(req'[b])
      BY <1>3, Inserting, Answering
    <2>2. /\ row' = [id \in Ids |-> row'[id]]
          /\ \A a \in Appointments : row'[a] # Null => row'[a] \in AppointmentRow
          /\ \A t \in Tasks : row'[t] # Null => row'[t] \in TaskRow
      <3>1. CASE UNCHANGED row
        BY <3>1 DEF Typed
      <3>2. CASE ~UNCHANGED row
        <4>1. req[r].tx \in Nat
          BY DEF Typed, Request
        <4>2. /\ req[r].id \in Ids
              /\ row' = [row EXCEPT ![req[r].id] = Made(req[r].body, req[r].tx)]
              /\ req[r].id \in Appointments => Made(req[r].body, req[r].tx) \in AppointmentRow
              /\ req[r].id \in Tasks => Made(req[r].body, req[r].tx) \in TaskRow
          BY <1>3, <3>2, <4>1, Inserting, MadeAppointment, MadeTask
        <4>3. QED
          BY <4>2, Rows
      <3>3. QED
        BY <3>1, <3>2
    <2>3. QED
      BY <1>3, <2>1, <2>2, Inserting DEF Typed
  <1>4. ASSUME NEW r \in Requests, Write(r) PROVE Typed'
    <2>1. req' = [b \in Requests |-> req'[b]] /\ \A b \in Requests : Request(req'[b])
      BY <1>4, Writing, Answering, Goes
    <2>2. /\ row' = [id \in Ids |-> row'[id]]
          /\ \A a \in Appointments : row'[a] # Null => row'[a] \in AppointmentRow
          /\ \A t \in Tasks : row'[t] # Null => row'[t] \in TaskRow
      <3>1. CASE UNCHANGED row
        BY <3>1 DEF Typed
      <3>2. CASE ~UNCHANGED row
        <4> DEFINE new == Updated(row[req[r].id], req[r].read, req[r].body, req[r].tx)
        <4>1. req[r].tx \in Nat
          BY DEF Typed, Request
        <4>2. /\ req[r].id \in Ids /\ Patching(req[r]) /\ row[req[r].id] # Null
              /\ row' = [row EXCEPT ![req[r].id] = new]
          BY <1>4, <3>2, Writing
        <4>3. req[r].id \in Appointments => new \in AppointmentRow
          BY <4>1, <4>2, UpdatedAppointment DEF Typed, Patching
        <4>4. req[r].id \in Tasks => new \in TaskRow
          BY <4>1, <4>2, UpdatedTask DEF Typed, Patching
        <4> HIDE DEF new
        <4>5. QED
          BY <4>2, <4>3, <4>4, Rows
      <3>3. QED
        BY <3>1, <3>2
    <2>3. QED
      BY <1>4, <2>1, <2>2, Writing DEF Typed
  <1>5. ASSUME NEW r \in Requests, Remove(r) PROVE Typed'
    <2>1. req[r].id \in Ids /\ row' = [row EXCEPT ![req[r].id] = Null]
      BY <1>5 DEF Remove, Typed, Request
    <2>2. /\ row' = [id \in Ids |-> row'[id]]
          /\ \A a \in Appointments : row'[a] # Null => row'[a] \in AppointmentRow
          /\ \A t \in Tasks : row'[t] # Null => row'[t] \in TaskRow
      BY <2>1, Rows
    <2>3. /\ req' = [b \in Requests |-> req'[b]] /\ \A b \in Requests : Request(req'[b])
          /\ UNCHANGED <<contact, profile, activities, clock, stored>>
      BY <1>5, Answering DEF Remove
    <2>4. QED
      BY <2>2, <2>3 DEF Typed
  <1>6. ASSUME NEW r \in Requests, Refresh(r) PROVE Typed'
    BY <1>6, Refreshing DEF Typed
  <1>7. ASSUME NEW r \in Requests, Record(r) PROVE Typed'
    <2>1. req' = [b \in Requests |-> req'[b]] /\ \A b \in Requests : Request(req'[b])
      BY <1>7, Recording, Answering, Goes
    <2>2. activities' \subseteq ActivityRow /\ IsFiniteSet(activities')
      <3>1. req[r].read.contact \in Contacts /\ req[r].tx \in Nat
        BY <1>7 DEF Record, Typed, Request
      <3>2. [contact |-> req[r].read.contact, created |-> req[r].tx, by |-> r] \in ActivityRow
        BY <3>1 DEF ActivityRow
      <3>3. PICK x \in ActivityRow : activities' = activities \/ activities' = activities \cup {x}
        BY <1>7, <3>2, Recording
      <3>4. IsFiniteSet(activities \cup {x})
        BY FS_AddElement DEF Typed
      <3>5. QED
        BY <3>3, <3>4 DEF Typed
    <2>3. QED
      BY <1>7, <2>1, <2>2, Recording DEF Typed
  <1>8. ASSUME NEW r \in Requests, Die(r) PROVE Typed'
    BY <1>8, Answering DEF Die, Typed
  <1>9. ASSUME NEW c \in Contacts, DeleteContact(c) PROVE Typed'
    <2>1. activities' \subseteq activities
      BY <1>9, Deleting
    <2>2. IsFiniteSet(activities')
      BY <2>1, FS_Subset DEF Typed
    <2>3. QED
      BY <1>9, <2>1, <2>2, Deleting DEF Typed, Ids
  <1>10. CASE Aside
    BY <1>10, Besides DEF Typed
  <1>11. ASSUME NEW r \in Requests, EditContact(r) PROVE Typed'
    BY <1>11, Editing, Answering DEF Typed
  <1>12. QED
    BY <1>1, <1>2, <1>3, <1>4, <1>5, <1>6, <1>7, <1>8, <1>9, <1>10, <1>11 DEF Next, Starts, Aside

-----------------------------------------------------------------------------
(* The dates of a row.                                                     *)

\* The CHECK constraint holds after every INSERT and every UPDATE.
LEMMA StartBeforeEndNext ==
    ASSUME Typed, StartBeforeEnd, [Next]_vars
    PROVE  StartBeforeEnd'
  <1>1. CASE UNCHANGED row
    BY <1>1 DEF StartBeforeEnd
  <1>2. ASSUME NEW r \in Requests, Insert(r), ~UNCHANGED row PROVE StartBeforeEnd'
    <2>1. /\ req[r].id \in Ids /\ req[r].tx \in Nat
          /\ row' = [row EXCEPT ![req[r].id] = Made(req[r].body, req[r].tx)]
          /\ req[r].id \in Appointments => req[r].body \in NewAppointments
      BY <1>2, Inserting DEF Typed, Request
    <2> DEFINE new == Made(req[r].body, req[r].tx)
    <2>2. req[r].id \in Appointments => new.start <= new.end
      BY <2>1, MadeAppointment
    <2> HIDE DEF new
    <2>3. row'[req[r].id] = new /\ \A x \in Ids : x # req[r].id => row'[x] = row[x]
      BY <2>1, Rows DEF new
    <2>4. QED
      BY <2>2, <2>3 DEF StartBeforeEnd, Ids
  <1>3. ASSUME NEW r \in Requests, Write(r), ~UNCHANGED row PROVE StartBeforeEnd'
    <2> DEFINE new == Updated(row[req[r].id], req[r].read, req[r].body, req[r].tx)
    <2>1. /\ req[r].id \in Ids /\ req[r].tx \in Nat /\ Patching(req[r])
          /\ row[req[r].id] # Null /\ Accepted(new)
          /\ row' = [row EXCEPT ![req[r].id] = new]
      BY <1>3, Writing DEF Typed, Request
    <2>2. req[r].id \in Appointments => new \in AppointmentRow
      BY <2>1, UpdatedAppointment DEF Typed, Patching
    <2> HIDE DEF new
    <2>3. req[r].id \in Appointments => new.start <= new.end
      BY <2>1, <2>2 DEF Accepted, AppointmentRow
    <2>4. row'[req[r].id] = new /\ \A x \in Ids : x # req[r].id => row'[x] = row[x]
      BY <2>1, Rows
    <2>5. QED
      BY <2>3, <2>4 DEF StartBeforeEnd, Ids
  <1>4. ASSUME NEW r \in Requests, Remove(r) PROVE StartBeforeEnd'
    <2>1. req[r].id \in Ids /\ row' = [row EXCEPT ![req[r].id] = Null]
      BY <1>4 DEF Remove, Typed, Request
    <2>2. row'[req[r].id] = Null /\ \A x \in Ids : x # req[r].id => row'[x] = row[x]
      BY <2>1, Rows
    <2>3. QED
      BY <2>2 DEF StartBeforeEnd, Ids
  <1>5. ASSUME NEW c \in Contacts, DeleteContact(c) PROVE StartBeforeEnd'
    BY <1>5, Deleting DEF StartBeforeEnd, Ids
  <1>6. ASSUME NEW r \in Requests,
               Starts(r) \/ Refresh(r) \/ Record(r) \/ EditContact(r) \/ Die(r)
        PROVE  UNCHANGED row
    BY <1>6, Starting, Refreshing, Recording, Editing DEF Die
  <1>7. ASSUME Aside PROVE UNCHANGED row
    BY <1>7, Besides
  <1>8. QED
    BY <1>1, <1>2, <1>3, <1>4, <1>5, <1>6, <1>7 DEF Next, Starts, Aside, vars

\* An id of a row that is yet to come is nobody else's.
Fresh ==
    \A r \in Requests : req[r].pc = "write" /\ req[r].op = "create" =>
        /\ row[req[r].id] = Null
        /\ \A b \in Requests : b # r => req[b].id # req[r].id

\* A request that completes a task, unless its body says null.
Completes(q) ==
    /\ q.op = "update" /\ q.id \in Tasks
    /\ "status" \in DOMAIN q.body /\ q.body.status = "completed"
    /\ "completed" \in DOMAIN q.body => q.body.completed # Null

\* It dates the task or has seen a date, and a date that was seen stays as long
\* as the row does.
Dates(q) ==
    /\ q.pc = "write" /\ Completes(q) => "completed" \in DOMAIN q.body \/ q.read.completed # Null
    /\ q.pc = "write" /\ q.op = "update" /\ q.id \in Tasks /\ row[q.id] # Null =>
          (q.read.completed # Null => row[q.id].completed # Null)
    /\ q.pc = "refresh" /\ Completes(q) /\ row[q.id] # Null => row[q.id].completed # Null
    /\ q.pc \in {"record", "done"} /\ q.answer = 200 /\ Completes(q) => q.read.completed # Null

Dating == \A r \in Requests : Dates(req[r])

\* What a step may do to a row: a row does not come back, nor a date go.
Kept(id) ==
    /\ row'[id] # Null => row[id] # Null
    /\ id \in Tasks /\ row'[id] # Null /\ row[id].completed # Null => row'[id].completed # Null

\* A step that keeps the rows that others know of keeps what they know.
LEMMA DatesKept ==
    ASSUME Typed, Dating, NEW b \in Requests, req'[b] = req[b],
           req[b].op = "update" /\ req[b].pc \in {"write", "refresh"} => Kept(req[b].id)
    PROVE  Dates(req[b])'
  BY DEF Dating, Dates, Completes, Kept

\* The changes of the rows, of any kind.
LEMMA RowKept ==
    ASSUME Typed, Fresh, Next, NEW id \in Ids
    PROVE  \/ Kept(id)
           \/ /\ row[id] = Null
              /\ \E r \in Requests : Insert(r) /\ req[r].id = id
  <1>1. CASE row'[id] = row[id]
    BY <1>1 DEF Kept
  <1>2. ASSUME NEW r \in Requests, Insert(r), row'[id] # row[id]
        PROVE  row[id] = Null /\ req[r].id = id
    <2>1. /\ req[r].pc = "write" /\ req[r].op = "create" /\ req[r].id \in Ids
          /\ row' = [row EXCEPT ![req[r].id] = Made(req[r].body, req[r].tx)]
      BY <1>2, Inserting
    <2>2. req[r].id = id
      BY <1>2, <2>1, Rows
    <2>3. QED
      BY <2>1, <2>2 DEF Fresh
  <1>3. ASSUME NEW r \in Requests, Write(r), row'[id] # row[id] PROVE Kept(id)
    <2> DEFINE new == Updated(row[req[r].id], req[r].read, req[r].body, req[r].tx)
    <2>1. /\ req[r].id \in Ids /\ req[r].tx \in Nat /\ Patching(req[r])
          /\ row[req[r].id] # Null /\ row' = [row EXCEPT ![req[r].id] = new]
      BY <1>3, Writing DEF Typed, Request
    <2>2. req[r].id \in Tasks => (row[req[r].id].completed # Null => new.completed # Null)
      <3>1. CASE req[r].id \in Tasks
        <4>1. row[req[r].id] \in TaskRow /\ Partial(req[r].body, TaskColumns)
          BY <2>1, <3>1 DEF Typed, Patching
        <4>2. QED
          BY <2>1, <4>1, UpdatedDate
      <3>2. QED
        BY <3>1
    <2> HIDE DEF new
    <2>3. req[r].id = id /\ row'[id] = new
      BY <1>3, <2>1, Rows
    <2>4. QED
      BY <2>1, <2>2, <2>3 DEF Kept
  <1>4. ASSUME NEW r \in Requests, Remove(r), row'[id] # row[id] PROVE Kept(id)
    <2>1. req[r].id \in Ids /\ row' = [row EXCEPT ![req[r].id] = Null]
      BY <1>4 DEF Remove, Typed, Request
    <2>2. row'[id] = Null
      BY <1>4, <2>1, Rows
    <2>3. QED
      BY <2>2 DEF Kept
  <1>5. ASSUME NEW c \in Contacts, DeleteContact(c), row'[id] # row[id] PROVE Kept(id)
    BY <1>5, Deleting DEF Kept
  <1>6. ASSUME NEW r \in Requests,
               Starts(r) \/ Refresh(r) \/ Record(r) \/ EditContact(r) \/ Die(r)
        PROVE  UNCHANGED row
    BY <1>6, Starting, Refreshing, Recording, Editing DEF Die
  <1>7. ASSUME Aside PROVE UNCHANGED row
    BY <1>7, Besides
  <1>8. QED
    BY <1>1, <1>2, <1>3, <1>4, <1>5, <1>6, <1>7 DEF Next, Starts, Aside

\* No step but its own gives a request another id, and then one that nobody is
\* about to create.
LEMMA FreshNext ==
    ASSUME Typed, Fresh, [Next]_vars
    PROVE  Fresh'
  <1>1. CASE UNCHANGED vars
    BY <1>1 DEF Fresh, vars
  <1> SUFFICES ASSUME Next PROVE Fresh'
    BY <1>1
  <1> USE DEF Ids
  <1>2. \A r \in Requests : req[r].pc = "write" => req[r].id \in Ids
    BY DEF Typed, Request
  <1>3. ASSUME NEW r \in Requests, Starts(r) PROVE Fresh'
    <2>1. /\ UNCHANGED row /\ \A b \in Requests : b # r => req'[b] = req[b]
          /\ Started(r, req'[r])
      BY <1>3, Starting
    <2>2. QED
      BY <1>2, <2>1, AgendaAssumption DEF Fresh, Started
  <1>4. ASSUME NEW r \in Requests, Insert(r) PROVE Fresh'
    <2>1. req'[r].pc = "done" /\ req'[r].id = Null /\ \A b \in Requests : b # r => req'[b] = req[b]
      BY <1>4, Inserting, Answering
    <2>2. /\ req[r].pc = "write" /\ req[r].op = "create" /\ req[r].id \in Ids
          /\ \A x \in Ids : x # req[r].id => row'[x] = row[x]
      BY <1>4, Inserting, Rows
    <2>3. QED
      BY <1>2, <2>1, <2>2, AgendaAssumption DEF Fresh
  <1>5. ASSUME NEW r \in Requests, Write(r) PROVE Fresh'
    <2>1. /\ req'[r].pc # "write" /\ req'[r].id \in {req[r].id, Null}
          /\ \A b \in Requests : b # r => req'[b] = req[b]
      BY <1>5, Writing, Answering, Goes
    <2>2. /\ req[r].pc = "write" /\ req[r].op = "update" /\ req[r].id \in Ids
          /\ \A x \in Ids : x # req[r].id => row'[x] = row[x]
      BY <1>5, Writing, Rows
    <2>3. QED
      BY <1>2, <2>1, <2>2, AgendaAssumption DEF Fresh
  <1>6. ASSUME NEW r \in Requests, Remove(r) \/ EditContact(r) \/ Die(r) PROVE Fresh'
    <2>1. /\ req'[r].pc = "done" /\ req'[r].id = Null
          /\ \A b \in Requests : b # r => req'[b] = req[b]
      BY <1>6, Editing, Answering DEF Remove, Die
    <2>2. \A x \in Ids : row'[x] \in {row[x], Null}
      BY <1>6, Editing DEF Remove, Die, Typed
    <2>3. QED
      BY <1>2, <2>1, <2>2, AgendaAssumption DEF Fresh
  <1>7. ASSUME NEW r \in Requests, Refresh(r) \/ Record(r) PROVE Fresh'
    <2>1. /\ req'[r].pc # "write" /\ req'[r].id \in {req[r].id, Null} /\ UNCHANGED row
          /\ \A b \in Requests : b # r => req'[b] = req[b]
      BY <1>7, Refreshing, Recording, Answering, Goes
    <2>2. QED
      BY <1>2, <2>1, AgendaAssumption DEF Fresh
  <1>8. ASSUME NEW c \in Contacts, DeleteContact(c) PROVE Fresh'
    BY <1>2, <1>8, Deleting DEF Fresh
  <1>9. CASE Aside
    BY <1>9, Besides DEF Fresh
  <1>10. QED
    BY <1>3, <1>4, <1>5, <1>6, <1>7, <1>8, <1>9 DEF Next, Starts, Aside

\* Who completed a task answers with its date.
LEMMA DatingNext ==
    ASSUME Typed, Fresh, Dating, [Next]_vars
    PROVE  Dating'
  <1>1. CASE UNCHANGED vars
    BY <1>1 DEF Dating, Dates, Completes, vars
  <1> SUFFICES ASSUME Next PROVE Dating'
    BY <1>1
  <1>2. ASSUME NEW b \in Requests, req[b].op = "update", req[b].pc \in {"write", "refresh"}
        PROVE  /\ req[b].id \in Ids
               /\ Kept(req[b].id)
    <2>1. req[b].id \in Ids
      BY <1>2 DEF Typed, Request
    <2>2. ~\E r \in Requests : Insert(r) /\ req[r].id = req[b].id
      <3>1. ASSUME NEW r \in Requests, Insert(r), req[r].id = req[b].id PROVE FALSE
        BY <1>2, <3>1 DEF Insert, Fresh
      <3>2. QED
        BY <3>1
    <2>3. QED
      BY <2>1, <2>2, RowKept
  <1>3. ASSUME NEW b \in Requests, req'[b] = req[b] PROVE Dates(req[b])'
    BY <1>2, <1>3, DatesKept
  <1>4. ASSUME NEW r \in Requests, Starts(r) PROVE Dates(req[r])'
    <2>1. UNCHANGED row /\ Started(r, req'[r])
      BY <1>4, Starting
    <2>2. QED
      BY <2>1 DEF Started, Dates, Completes
  <1>5. ASSUME NEW r \in Requests, Insert(r) \/ Remove(r) \/ EditContact(r) \/ Die(r)
        PROVE  Dates(req[r])'
    <2>1. PICK code : Answer(r, code)
      BY <1>5, Inserting, Editing DEF Remove, Die
    <2>2. req'[r].pc = "done" /\ req'[r].id = Null
      BY <2>1, Answering
    <2>3. QED
      BY <2>2, AgendaAssumption DEF Dates, Completes
  <1>6. ASSUME NEW r \in Requests, Write(r) PROVE Dates(req[r])'
    <2>1. CASE \E code : Answer(r, code)
      <3>1. req'[r].pc = "done" /\ req'[r].id = Null
        BY <2>1, Answering
      <3>2. QED
        BY <3>1, AgendaAssumption DEF Dates, Completes
    <2>2. CASE ~\E code : Answer(r, code)
      <3> DEFINE id == req[r].id
                 q == req[r]
      <3>1. /\ q.pc = "write" /\ q.op = "update" /\ id \in Ids /\ Patching(q) /\ q.tx \in Nat
            /\ req' = [req EXCEPT ![r].pc = "refresh"]
        BY <1>6, <2>2, Writing DEF Typed, Request
      <3>2. req'[r].pc = "refresh" /\ req'[r].op = q.op /\ req'[r].id = id /\ req'[r].body = q.body
        BY <3>1, Goes
      <3>3. ASSUME Completes(q), row'[id] # Null PROVE row'[id].completed # Null
        <4>1. id \in Tasks /\ row[id] # Null /\ Kept(id)
          BY <1>2, <3>1, <3>3 DEF Completes, Kept
        <4>2. CASE row[id].completed # Null
          BY <3>3, <4>1, <4>2 DEF Kept
        <4>3. CASE row[id].completed = Null
          <5>1. q.read.completed = Null /\ "completed" \in DOMAIN q.body /\ q.body.completed # Null
            BY <3>1, <3>3, <4>1, <4>3 DEF Dating, Dates, Completes
          <5>2. "completed" \in Changed(q.read, q.body)
            BY <5>1 DEF Changed
          <5>3. row' = [row EXCEPT ![id] = Updated(row[id], q.read, q.body, q.tx)]
            BY <1>6, <2>2, <5>2, Writing
          <5>4. row'[id] = Updated(row[id], q.read, q.body, q.tx)
            BY <3>1, <5>3, Rows
          <5>5. row[id] \in TaskRow /\ Partial(q.body, TaskColumns)
            BY <3>1, <4>1 DEF Typed, Patching
          <5>6. QED
            BY <3>1, <5>2, <5>4, <5>5, UpdatedDate
        <4>4. QED
          BY <4>2, <4>3
      <3>4. QED
        BY <3>2, <3>3 DEF Dates, Completes
    <2>3. QED
      BY <2>1, <2>2
  <1>7. ASSUME NEW r \in Requests, Refresh(r) PROVE Dates(req[r])'
    <2>1. CASE Answer(r, 500)
      <3>1. req'[r].pc = "done" /\ req'[r].id = Null
        BY <2>1, Answering
      <3>2. QED
        BY <3>1, AgendaAssumption DEF Dates, Completes
    <2>2. CASE ~Answer(r, 500)
      <3>1. /\ req[r].pc = "refresh" /\ row[req[r].id] # Null
            /\ req'[r].op = req[r].op /\ req'[r].id = req[r].id /\ req'[r].body = req[r].body
            /\ req'[r].read = row[req[r].id] /\ req'[r].pc \in {"record", "done"}
        BY <1>7, <2>2, Refreshing
      <3>2. Completes(req[r]) => row[req[r].id].completed # Null
        BY <3>1 DEF Dating, Dates
      <3>3. QED
        BY <3>1, <3>2 DEF Dates, Completes
    <2>3. QED
      BY <2>1, <2>2
  <1>8. ASSUME NEW r \in Requests, Record(r) PROVE Dates(req[r])'
    <2>1. CASE Answer(r, 404)
      <3>1. req'[r].pc = "done" /\ req'[r].id = Null
        BY <2>1, Answering
      <3>2. QED
        BY <3>1, AgendaAssumption DEF Dates, Completes
    <2>2. CASE ~Answer(r, 404)
      <3>1. req[r].pc = "record" /\ req' = [req EXCEPT ![r].pc = "done"]
        BY <1>8, <2>2, Recording
      <3>2. /\ req'[r].pc = "done" /\ req'[r].op = req[r].op /\ req'[r].id = req[r].id
            /\ req'[r].body = req[r].body /\ req'[r].read = req[r].read
            /\ req'[r].answer = req[r].answer
        BY <3>1, Goes
      <3>3. QED
        BY <3>1, <3>2 DEF Dating, Dates, Completes
    <2>3. QED
      BY <2>1, <2>2
  <1>9. ASSUME Aside \/ \E c \in Contacts : DeleteContact(c) PROVE UNCHANGED req
    BY <1>9, Besides DEF DeleteContact
  <1>10. ASSUME NEW r \in Requests,
                \/ Starts(r) \/ Insert(r) \/ Write(r) \/ Remove(r) \/ Refresh(r) \/ Record(r)
                \/ EditContact(r) \/ Die(r)
         PROVE  \A b \in Requests : b # r => req'[b] = req[b]
    <2>1. CASE \E code : Answer(r, code)
      BY <2>1, Answering
    <2>2. CASE req' = [req EXCEPT ![r].pc = "done"] \/ req' = [req EXCEPT ![r].pc = "refresh"]
      BY <2>2 DEF Typed
    <2>3. QED
      BY <1>10, <2>1, <2>2, Starting, Inserting, Writing, Refreshing, Recording, Editing
         DEF Remove, Die
  <1>11. QED
    BY <1>3, <1>4, <1>5, <1>6, <1>7, <1>8, <1>9, <1>10
       DEF Next, Starts, Aside, Dating

-----------------------------------------------------------------------------
(* The notes of an appointment.                                            *)

\* Notes that are recorded are those of a contact that was there.
LEMMA NotesNext ==
    ASSUME Typed, NotesBecomeHistory, [Next]_vars
    PROVE  NotesBecomeHistory'
  <1> DEFINE Due(q, there) ==
                /\ q.pc = "done" /\ q.answer = 200 /\ q.op = "update" /\ q.notes
                /\ q.read.status = "completed" /\ q.read.contact \in there
                /\ "status" \in DOMAIN q.body => q.body.status = "completed"
             Told(b, q, had) == \E a \in had : a.by = b /\ a.contact = q.read.contact
  <1>1. \A b \in Requests : Due(req[b], contact) => Told(b, req[b], activities)
    BY DEF NotesBecomeHistory
  <1>2. (\A b \in Requests : Due(req'[b], contact') => Told(b, req'[b], activities'))
           => NotesBecomeHistory'
    BY DEF NotesBecomeHistory
  <1>3. CASE UNCHANGED vars
    BY <1>3 DEF NotesBecomeHistory, vars
  <1>4. ASSUME NEW b \in Requests, req'[b] = req[b], contact' = contact, activities \subseteq activities'
        PROVE  Due(req'[b], contact') => Told(b, req'[b], activities')
    BY <1>1, <1>4
  <1>5. ASSUME NEW r \in Requests, NEW code, Answer(r, code)
        PROVE  /\ ~Due(req'[r], contact')
               /\ \A b \in Requests : b # r => req'[b] = req[b]
    BY <1>5, Answering
  <1>6. ASSUME NEW r \in Requests, Starts(r)
        PROVE  \A b \in Requests : Due(req'[b], contact') => Told(b, req'[b], activities')
    <2>1. /\ \A b \in Requests : b # r => req'[b] = req[b]
          /\ UNCHANGED <<contact, activities>> /\ Started(r, req'[r])
      BY <1>6, Starting
    <2>2. ~Due(req'[r], contact')
      BY <2>1 DEF Started
    <2>3. QED
      BY <1>4, <2>1, <2>2
  <1>7. ASSUME NEW r \in Requests, Insert(r) \/ Remove(r) \/ EditContact(r) \/ Die(r)
        PROVE  \A b \in Requests : Due(req'[b], contact') => Told(b, req'[b], activities')
    <2>1. (\E code : Answer(r, code)) /\ UNCHANGED <<contact, activities>>
      BY <1>7, Inserting, Editing DEF Remove, Die
    <2>2. QED
      BY <1>4, <1>5, <2>1
  <1>8. ASSUME NEW r \in Requests, Write(r)
        PROVE  \A b \in Requests : Due(req'[b], contact') => Told(b, req'[b], activities')
    <2>1. UNCHANGED <<contact, activities>>
      BY <1>8, Writing
    <2>2. ~Due(req'[r], contact') /\ \A b \in Requests : b # r => req'[b] = req[b]
      <3>1. CASE \E code : Answer(r, code)
        BY <1>5, <3>1
      <3>2. CASE ~\E code : Answer(r, code)
        <4>1. /\ req' = [req EXCEPT ![r].pc = "refresh"]
              /\ req[r].op = "update" /\ req[r].pc = "write"
          BY <1>8, <3>2, Writing
        <4>2. QED
          BY <4>1, Goes
      <3>3. QED
        BY <3>1, <3>2
    <2>3. QED
      BY <1>4, <2>1, <2>2
  <1>9. ASSUME NEW r \in Requests, Refresh(r)
        PROVE  \A b \in Requests : Due(req'[b], contact') => Told(b, req'[b], activities')
    <2>1. /\ UNCHANGED <<contact, activities>>
          /\ \A b \in Requests : b # r => req'[b] = req[b]
      BY <1>9, Refreshing
    <2>2. ~Due(req'[r], contact')
      <3>1. CASE Answer(r, 500)
        BY <1>5, <3>1
      <3>2. CASE ~Answer(r, 500)
        <4>1. /\ req'[r].body = req[r].body /\ req'[r].notes = req[r].notes
              /\ req'[r].read = row[req[r].id]
              /\ req'[r].pc = "done" =>
                    ~(req[r].notes /\ Outcome(req[r].body, req[r].read, row[req[r].id]))
          BY <1>9, <3>2, Refreshing
        <4>2. ASSUME Due(req'[r], contact') PROVE FALSE
          <5>1. /\ row[req[r].id].status = "completed" /\ row[req[r].id].contact \in contact
                /\ "status" \in DOMAIN req[r].body => req[r].body.status = "completed"
                /\ req[r].notes
            BY <2>1, <4>1, <4>2
          <5>2. row[req[r].id].contact # Null
            BY <5>1, AgendaAssumption DEF Typed
          <5>3. Outcome(req[r].body, req[r].read, row[req[r].id])
            BY <5>1, <5>2 DEF Outcome
          <5>4. QED
            BY <4>1, <4>2, <5>1, <5>3
        <4>3. QED
          BY <4>2
      <3>3. QED
        BY <3>1, <3>2
    <2>3. QED
      BY <1>4, <2>1, <2>2
  <1>10. ASSUME NEW r \in Requests, Record(r)
         PROVE  \A b \in Requests : Due(req'[b], contact') => Told(b, req'[b], activities')
    <2>1. CASE Answer(r, 404)
      <3>1. contact' = contact /\ activities \subseteq activities'
        BY <1>10, Recording
      <3>2. QED
        BY <1>4, <1>5, <2>1, <3>1
    <2>2. CASE ~Answer(r, 404)
      <3>1. /\ contact' = contact /\ req[r].pc = "record" /\ req' = [req EXCEPT ![r].pc = "done"]
            /\ activities' = activities \cup
                  {[contact |-> req[r].read.contact, created |-> req[r].tx, by |-> r]}
        BY <1>10, <2>2, Recording
      <3>2. /\ \A b \in Requests : b # r => req'[b] = req[b]
            /\ req'[r].read = req[r].read
        BY <3>1, Goes
      <3>3. Told(r, req'[r], activities')
        <4>1. PICK a : a = [contact |-> req[r].read.contact, created |-> req[r].tx, by |-> r]
          OBVIOUS
        <4>2. a \in activities' /\ a.by = r /\ a.contact = req'[r].read.contact
          BY <3>1, <3>2, <4>1
        <4>3. QED
          BY <4>2
      <3>4. QED
        BY <1>4, <3>1, <3>2, <3>3
    <2>3. QED
      BY <2>1, <2>2
  <1>11. ASSUME NEW c \in Contacts, DeleteContact(c)
         PROVE  \A b \in Requests : Due(req'[b], contact') => Told(b, req'[b], activities')
    <2>1. /\ contact' = contact \ {c} /\ req' = req
          /\ activities' = {a \in activities : a.contact # c}
      BY <1>11, Deleting
    <2>2. QED
      BY <1>1, <2>1
  <1>12. ASSUME Aside
         PROVE  \A b \in Requests : Due(req'[b], contact') => Told(b, req'[b], activities')
    BY <1>1, <1>12, Besides
  <1>13. CASE Next
    <2>1. \A b \in Requests : Due(req'[b], contact') => Told(b, req'[b], activities')
      BY <1>6, <1>7, <1>8, <1>9, <1>10, <1>11, <1>12, <1>13
         DEF Next, Starts, Aside
    <2>2. QED
      BY <1>2, <2>1
  <1>14. QED
    BY <1>3, <1>13

-----------------------------------------------------------------------------
(* The fingerprint.                                                        *)

\* A nonempty set of naturals with a bound has its greatest.
LEMMA Greatest ==
    ASSUME NEW S \in SUBSET Nat, S # {}, NEW bound \in Nat, \A x \in S : x <= bound
    PROVE  Max(S) \in S /\ \A x \in S : x <= Max(S)
  <1> DEFINE Above(x) == {y \in S : y > x}
             F == {Above(x) : x \in S}
  <1>1. IsFiniteSet(S)
    BY FS_BoundedSetOfNaturals
  <1>2. F \subseteq SUBSET S /\ F # {}
    OBVIOUS
  <1>3. \E A \in F : \A C \in F : ~(<<C, A>> \in StrictSubsetOrdering(S))
    <2>1. FiniteSubsetsOf(S) = SUBSET S
      BY <1>1, FS_FiniteSubsetsOfFinite
    <2>2. IsWellFoundedOn(StrictSubsetOrdering(S), FiniteSubsetsOf(S))
      BY FS_StrictSubsetOrderingWellFounded
    <2>3. IsWellFoundedOn(StrictSubsetOrdering(S), SUBSET S)
      BY <2>1, <2>2
    <2> HIDE DEF F
    <2>4. QED
      BY <1>2, <2>3, WFMin, Zenon
  <1>4. PICK x \in S : \A y \in S : ~(<<Above(y), Above(x)>> \in StrictSubsetOrdering(S))
    BY <1>3
  <1>5. \A y \in S : x >= y
    <2>1. ASSUME NEW y \in S, y > x PROVE FALSE
      <3>1. x \in Nat /\ y \in Nat /\ \A z \in S : z \in Nat
        OBVIOUS
      <3>2. Above(y) \subseteq Above(x)
        <4>1. ASSUME NEW z \in Above(y) PROVE z \in Above(x)
          <5>1. z \in S /\ z > y /\ z \in Nat
            BY <3>1
          <5>2. z > x
            BY <2>1, <3>1, <5>1
          <5>3. QED
            BY <5>1, <5>2
        <4>2. QED
          BY <4>1
      <3>3. y \in Above(x) /\ y \notin Above(y)
        BY <2>1, <3>1
      <3>4. <<Above(y), Above(x)>> \in StrictSubsetOrdering(S)
        BY <3>2, <3>3 DEF StrictSubsetOrdering
      <3>5. QED
        BY <1>4, <3>4
    <2>2. QED
      BY <2>1
  <1>6. Max(S) \in S /\ \A y \in S : Max(S) >= y
    BY <1>5, Zenon DEF Max
  <1>7. QED
    BY <1>6

\* Two buckets that are equal when one is of times up to t: no time of the
\* other is later, and there are as many.
LEMMA SameBucket ==
    ASSUME NEW then \in SUBSET Nat, NEW now \in SUBSET Nat, NEW t \in Nat, NEW bound \in Nat,
           \A x \in then : x <= t, \A x \in now : x <= bound,
           NEW m, NEW n, Bucket(now, n) = Bucket(then, m)
    PROVE  n = m /\ \A x \in now : x <= t
  <1>1. n = m /\ Max(now \cup {0}) = Max(then \cup {0})
    BY DEF Bucket
  <1>2. Max(then \cup {0}) \in then \cup {0}
    BY Greatest
  <1>3. \A x \in now \cup {0} : x <= Max(now \cup {0})
    BY Greatest
  <1>4. ASSUME NEW x \in now PROVE x <= t
    <2>1. PICK k : k = Max(then \cup {0})
      OBVIOUS
    <2>2. k \in Nat /\ k <= t
      <3>1. k \in then \/ k = 0
        BY <1>2, <2>1
      <3>2. CASE k \in then
        BY <3>2
      <3>3. CASE k = 0
        BY <3>3
      <3>4. QED
        BY <3>1, <3>2, <3>3
    <2>3. x <= k
      BY <1>1, <1>3, <2>1
    <2>4. x \in Nat
      OBVIOUS
    <2>5. QED
      BY <2>2, <2>3, <2>4
  <1>5. QED
    BY <1>1, <1>4

\* Nothing is stamped later than now.
Past ==
    /\ \A id \in Ids : row[id] # Null => row[id].updated <= clock
    /\ \A c \in Contacts : profile[c].own.updated <= clock
    /\ \A a \in activities : a.created <= clock
    /\ \A r \in Requests : req[r].tx <= clock

\* What a run was given and its fingerprint are of rows up to time t.
TakenBy(s, t) ==
    LET own == s.context.dated.contact
        tasks == s.context.dated.tasks
        appointments == s.context.dated.appointments
        logged == s.context.dated.activities
    IN  /\ s.context.dated = [contact |-> own, tasks |-> tasks, appointments |-> appointments,
                                   activities |-> logged]
        /\ own.updated \in 0..t
        /\ DOMAIN tasks \subseteq Tasks /\ tasks = [x \in DOMAIN tasks |-> tasks[x]]
        /\ \A x \in DOMAIN tasks : tasks[x].updated \in 0..t
        /\ DOMAIN appointments \subseteq Appointments
        /\ appointments = [x \in DOMAIN appointments |-> appointments[x]]
        /\ \A x \in DOMAIN appointments : appointments[x].updated \in 0..t
        /\ IsFiniteSet(logged) /\ \A a \in logged : a.created \in 0..t
        /\ s.fingerprint =
              [contact |-> own.updated,
               tasks |-> Bucket({tasks[x].updated : x \in DOMAIN tasks}, Cardinality(DOMAIN tasks)),
               appointments |-> Bucket({appointments[x].updated : x \in DOMAIN appointments},
                                       Cardinality(DOMAIN appointments)),
               activities |-> Bucket({a.created : a \in logged}, Cardinality(logged))]

Taken(t) == TakenBy(stored, t)

\* Since time t every change is stamped later: what is not is as it was.
Since(t) ==
    LET tasks == stored.context.dated.tasks
        appointments == stored.context.dated.appointments
    IN  /\ \A r \in Requests : req[r].pc \in {"write", "record", "edit"} => req[r].tx > t
        /\ \/ profile[stored.contact].own.updated > t
           \/ profile[stored.contact].own = stored.context.dated.contact
        /\ \A x \in TasksOf(stored.contact) :
              row[x].updated > t \/ (x \in DOMAIN tasks /\ tasks[x] = row[x])
        /\ \A x \in AppointmentsOf(stored.contact) :
              row[x].updated > t \/ (x \in DOMAIN appointments /\ appointments[x] = row[x])
        /\ \A a \in ActivitiesOf(stored.contact) :
              a.created > t \/ a \in stored.context.dated.activities

Telling == stored # Null /\ stored.quiet => \E t \in 0..clock : Taken(t) /\ Since(t)

\* What a step stamps, it stamps with the transaction of a request that was
\* about to write; a transaction begun is later than any before.
Stamps ==
    /\ \A id \in Ids : row'[id] # Null /\ row'[id] # row[id] =>
          \E r \in Requests : req[r].pc = "write" /\ row'[id].updated = req[r].tx
    /\ \A c \in Contacts : profile'[c].own # profile[c].own =>
          \E r \in Requests : req[r].pc = "edit" /\ profile'[c].own.updated = req[r].tx
    /\ \A a \in activities' \ activities :
          \E r \in Requests : req[r].pc = "record" /\ a.created = req[r].tx
    /\ \A r \in Requests : \/ req'[r] = req[r]
                           \/ req'[r].tx = clock + 1 /\ clock' = clock + 1
                           \/ req'[r].pc \in {"refresh", "done"} /\ req'[r].tx \in {0, req[r].tx}
    /\ clock' \in {clock, clock + 1}

\* No step stamps a row but with the time of a request, or turns the clock back.
LEMMA Stamping == ASSUME Typed, Next PROVE Stamps
  <1>1. ASSUME NEW r \in Requests, NEW code, Answer(r, code)
        PROVE  \A b \in Requests : \/ req'[b] = req[b]
                                   \/ req'[b].pc \in {"refresh", "done"} /\ req'[b].tx \in {0, req[b].tx}
    BY <1>1, Answering
  <1>2. ASSUME NEW r \in Requests, Starts(r) PROVE Stamps
    <2>1. /\ clock' = clock + 1 /\ UNCHANGED <<profile, row, activities>>
          /\ \A b \in Requests : b # r => req'[b] = req[b]
          /\ Started(r, req'[r])
      BY <1>2, Starting
    <2>2. \/ req'[r].pc = "done" /\ req'[r].tx = 0
          \/ req'[r].tx = clock + 1
      BY <2>1 DEF Started
    <2>3. QED
      BY <2>1, <2>2 DEF Stamps
  <1>3. ASSUME NEW r \in Requests, Insert(r) PROVE Stamps
    <2>1. /\ req[r].pc = "write" /\ req[r].id \in Ids /\ req[r].tx \in Nat
          /\ UNCHANGED <<profile, activities, clock>> /\ \E code : Answer(r, code)
      BY <1>3, Inserting DEF Typed, Request
    <2>2. ASSUME NEW id \in Ids, row'[id] # row[id] PROVE row'[id].updated = req[r].tx
      <3>1. /\ row' = [row EXCEPT ![req[r].id] = Made(req[r].body, req[r].tx)]
            /\ req[r].id \in Appointments => req[r].body \in NewAppointments
            /\ req[r].id \in Tasks => req[r].body \in NewTasks
        BY <1>3, <2>2, Inserting
      <3>2. row'[id] = Made(req[r].body, req[r].tx)
        BY <2>1, <2>2, <3>1, Rows
      <3>3. QED
        BY <2>1, <3>1, <3>2, MadeAppointment, MadeTask DEF Ids
    <2>3. QED
      BY <1>1, <2>1, <2>2 DEF Stamps
  <1>4. ASSUME NEW r \in Requests, Write(r) PROVE Stamps
    <2>1. /\ req[r].pc = "write" /\ req[r].op = "update" /\ req[r].id \in Ids
          /\ Patching(req[r]) /\ req[r].tx \in Nat /\ UNCHANGED <<profile, activities, clock>>
      BY <1>4, Writing DEF Typed, Request
    <2>2. ASSUME NEW id \in Ids, row'[id] # row[id] PROVE row'[id].updated = req[r].tx
      <3> DEFINE new == Updated(row[req[r].id], req[r].read, req[r].body, req[r].tx)
      <3>1. row[req[r].id] # Null /\ row' = [row EXCEPT ![req[r].id] = new]
        BY <1>4, <2>2, Writing
      <3>2. CASE req[r].id \in Appointments
        <4>1. row[req[r].id] \in AppointmentRow /\ Partial(req[r].body, AppointmentColumns)
          BY <2>1, <3>1, <3>2 DEF Typed, Patching
        <4>2. new.updated = req[r].tx
          BY <2>1, <4>1, UpdatedAppointment
        <4> HIDE DEF new
        <4>3. QED
          BY <2>1, <2>2, <3>1, <4>2, Rows
      <3>3. CASE req[r].id \in Tasks
        <4>1. row[req[r].id] \in TaskRow /\ Partial(req[r].body, TaskColumns)
          BY <2>1, <3>1, <3>3 DEF Typed, Patching
        <4>2. req[r].tx \in Nat
          BY <2>1
        <4>3. new.updated = req[r].tx
          BY <4>1, <4>2, UpdatedTask
        <4> HIDE DEF new
        <4>4. QED
          BY <2>1, <2>2, <3>1, <4>3, Rows
      <3>4. QED
        BY <2>1, <3>2, <3>3 DEF Ids
    <2>3. \A b \in Requests : \/ req'[b] = req[b]
                              \/ req'[b].pc \in {"refresh", "done"} /\ req'[b].tx \in {0, req[b].tx}
      <3>1. CASE \E code : Answer(r, code)
        BY <1>1, <3>1
      <3>2. CASE ~\E code : Answer(r, code)
        <4>1. req' = [req EXCEPT ![r].pc = "refresh"]
          BY <1>4, <3>2, Writing
        <4>2. QED
          BY <2>1, <4>1, Goes
      <3>3. QED
        BY <3>1, <3>2
    <2>4. QED
      BY <2>1, <2>2, <2>3 DEF Stamps
  <1>5. ASSUME NEW r \in Requests, Remove(r) \/ Die(r) PROVE Stamps
    <2>1. /\ UNCHANGED <<profile, activities, clock>> /\ \E code : Answer(r, code)
          /\ \A id \in Ids : row'[id] \in {Null, row[id]}
      BY <1>5 DEF Remove, Die, Typed
    <2>2. QED
      BY <1>1, <2>1 DEF Stamps
  <1>6. ASSUME NEW r \in Requests, Refresh(r) PROVE Stamps
    <2>1. /\ clock' = clock + 1 /\ UNCHANGED <<profile, row, activities>>
          /\ \A b \in Requests : b # r => req'[b] = req[b]
      BY <1>6, Refreshing
    <2>2. \/ req'[r].pc = "done" /\ req'[r].tx = 0
          \/ req'[r].tx = clock + 1
      BY <1>6, Refreshing, Answering
    <2>3. QED
      BY <2>1, <2>2 DEF Stamps
  <1>7. ASSUME NEW r \in Requests, Record(r) PROVE Stamps
    <2>1. /\ req[r].pc = "record" /\ UNCHANGED <<profile, row, clock>>
          /\ activities' \subseteq activities \cup
                {[contact |-> req[r].read.contact, created |-> req[r].tx, by |-> r]}
      BY <1>7, Recording
    <2>2. \A b \in Requests : \/ req'[b] = req[b]
                              \/ req'[b].pc \in {"refresh", "done"} /\ req'[b].tx \in {0, req[b].tx}
      <3>1. CASE Answer(r, 404)
        BY <1>1, <3>1
      <3>2. CASE ~Answer(r, 404)
        <4>1. req' = [req EXCEPT ![r].pc = "done"]
          BY <1>7, <3>2, Recording
        <4>2. QED
          BY <4>1, Goes
      <3>3. QED
        BY <3>1, <3>2
    <2>3. \A a \in activities' \ activities : a.created = req[r].tx
      BY <2>1
    <2>4. QED
      BY <2>1, <2>2, <2>3 DEF Stamps
  <1>8. ASSUME NEW c \in Contacts, DeleteContact(c) PROVE Stamps
    BY <1>8, Deleting DEF Stamps
  <1>9. CASE Aside
    BY <1>9, Besides DEF Stamps
  <1>10. ASSUME NEW r \in Requests, EditContact(r) PROVE Stamps
    BY <1>1, <1>10, Editing DEF Stamps
  <1>11. QED
    BY <1>2, <1>3, <1>4, <1>5, <1>6, <1>7, <1>8, <1>9, <1>10 DEF Next, Starts, Aside

\* What is stamped stays in the past.
LEMMA PastNext ==
    ASSUME Typed, Past, [Next]_vars
    PROVE  Past'
  <1>1. CASE UNCHANGED vars
    BY <1>1 DEF Past, vars
  <1>2. CASE Next
    <2>1. Stamps /\ Typed'
      BY <1>2, Stamping, TypedNext
    <2>2. clock \in Nat /\ clock' \in Nat /\ clock <= clock'
      BY <2>1 DEF Typed, Stamps
    <2>3. ASSUME NEW r \in Requests PROVE req[r].tx \in Nat /\ req[r].tx <= clock'
      BY <2>2 DEF Past, Typed, Request
    <2>4. ASSUME NEW r \in Requests PROVE req'[r].tx <= clock'
      BY <2>1, <2>2, <2>3 DEF Stamps
    <2>5. ASSUME NEW id \in Ids, row'[id] # Null PROVE row'[id].updated <= clock'
      <3>1. CASE row'[id] = row[id]
        <4>1. row[id].updated \in Nat /\ row[id].updated <= clock
          BY <2>5, <3>1 DEF Past, Typed, AppointmentRow, TaskRow, Ids
        <4>2. QED
          BY <2>2, <3>1, <4>1
      <3>2. CASE row'[id] # row[id]
        BY <2>1, <2>3, <2>5, <3>2 DEF Stamps
      <3>3. QED
        BY <3>1, <3>2
    <2>6. ASSUME NEW a \in activities' PROVE a.created <= clock'
      <3>1. CASE a \in activities
        <4>1. a.created \in Nat /\ a.created <= clock
          BY <3>1 DEF Past, Typed, ActivityRow
        <4>2. QED
          BY <2>2, <4>1
      <3>2. CASE a \notin activities
        BY <2>1, <2>3, <3>2 DEF Stamps
      <3>3. QED
        BY <3>1, <3>2
    <2>7. ASSUME NEW c \in Contacts PROVE profile'[c].own.updated <= clock'
      <3>1. CASE profile'[c].own = profile[c].own
        <4>1. profile[c].own.updated \in Nat /\ profile[c].own.updated <= clock
          BY DEF Past, Typed, ProfileRow, ContactRow
        <4>2. QED
          BY <2>2, <3>1, <4>1
      <3>2. CASE profile'[c].own # profile[c].own
        BY <2>1, <2>3, <3>2 DEF Stamps
      <3>3. QED
        BY <3>1, <3>2
    <2>8. QED
      BY <2>4, <2>5, <2>6, <2>7 DEF Past
  <1>3. QED
    BY <1>1, <1>2

\* What is stored is what there is.
LEMMA Storing ==
    ASSUME Typed, Past, Store, stored'.quiet
    PROVE  Taken(clock)' /\ Since(clock)'
  <1>0. PICK c : c = stored.contact
    OBVIOUS
  <1>1. /\ UNCHANGED <<contact, profile, row, activities, audit, req, clock>> /\ clock \in Nat
        /\ c \in Contacts
    BY <1>0 DEF Store, Typed, Run
  <1>2. /\ stored'.context = stored.context /\ stored'.fingerprint = Fingerprint(c)
        /\ stored'.contact = c /\ stored.context.dated = Dated(c)
        /\ \A r \in Requests : req[r].pc \in {"idle", "done", "refresh"}
    BY <1>0 DEF Store, Typed, Run
  <1> DEFINE D == TasksOf(c)
             E == AppointmentsOf(c)
             tasks == [t \in D |-> row[t]]
             appointments == [a \in E |-> row[a]]
             logged == ActivitiesOf(c)
             own == profile[c].own
  <1>3. Dated(c) = [contact |-> own, tasks |-> tasks, appointments |-> appointments,
                    activities |-> logged]
    BY DEF Dated
  <1>4. /\ D \subseteq Tasks /\ \A t \in D : row[t].updated \in 0..clock
        /\ E \subseteq Appointments /\ \A a \in E : row[a].updated \in 0..clock
        /\ IsFiniteSet(logged) /\ \A a \in logged : a.created \in 0..clock
        /\ own.updated \in 0..clock
    <2>1. logged \in SUBSET activities
      BY DEF ActivitiesOf
    <2>2. IsFiniteSet(logged)
      BY <2>1, FS_Subset DEF Typed
    <2>3. \A a \in logged : a.created \in Nat /\ a.created <= clock
      BY <2>1 DEF Typed, ActivityRow, Past
    <2>4. D \subseteq Tasks /\ \A t \in D : row[t].updated \in Nat /\ row[t].updated <= clock
      BY DEF TasksOf, Typed, TaskRow, Past, Ids
    <2>5. E \subseteq Appointments /\ \A a \in E : row[a].updated \in Nat /\ row[a].updated <= clock
      BY DEF AppointmentsOf, Typed, AppointmentRow, Past, Ids
    <2>6. own.updated \in Nat /\ own.updated <= clock
      BY <1>1 DEF Typed, ProfileRow, ContactRow, Past
    <2>7. QED
      BY <1>1, <2>2, <2>3, <2>4, <2>5, <2>6
  <1>5. /\ DOMAIN tasks = D /\ DOMAIN appointments = E
        /\ {tasks[x].updated : x \in D} = {row[x].updated : x \in D}
        /\ {appointments[x].updated : x \in E} = {row[x].updated : x \in E}
    OBVIOUS
  <1>6. Fingerprint(c) =
           [contact |-> own.updated,
            tasks |-> Bucket({tasks[x].updated : x \in DOMAIN tasks}, Cardinality(DOMAIN tasks)),
            appointments |-> Bucket({appointments[x].updated : x \in DOMAIN appointments},
                                    Cardinality(DOMAIN appointments)),
            activities |-> Bucket({a.created : a \in logged}, Cardinality(logged))]
    BY <1>5 DEF Fingerprint
  <1>7. Taken(clock)'
    <2>1. /\ stored'.context.dated.tasks = tasks /\ stored'.context.dated.appointments = appointments
          /\ stored'.context.dated.activities = logged
          /\ stored'.context.dated.contact = own
      BY <1>2, <1>3
    <2>2. /\ tasks = [x \in DOMAIN tasks |-> tasks[x]]
          /\ appointments = [x \in DOMAIN appointments |-> appointments[x]]
          /\ \A x \in DOMAIN tasks : tasks[x].updated \in 0..clock
          /\ \A x \in DOMAIN appointments : appointments[x].updated \in 0..clock
      BY <1>4
    <2>3. clock' = clock
      BY <1>1
    <2> HIDE DEF D, E, tasks, appointments, logged, own
    <2>4. QED
      BY <1>2, <1>3, <1>4, <1>5, <1>6, <2>1, <2>2, <2>3 DEF Taken, TakenBy
  <1>8. Since(clock)'
    <2>1. /\ stored'.context.dated.tasks = tasks /\ stored'.context.dated.appointments = appointments
          /\ stored'.context.dated.activities = logged
          /\ stored'.context.dated.contact = own
      BY <1>2, <1>3
    <2>2. TasksOf(c)' = D /\ AppointmentsOf(c)' = E /\ ActivitiesOf(c)' = logged
      BY <1>1 DEF TasksOf, AppointmentsOf, ActivitiesOf
    <2>3. /\ \A x \in D : tasks[x] = row[x] /\ row'[x] = row[x]
          /\ \A x \in E : appointments[x] = row[x] /\ row'[x] = row[x]
      BY <1>1
    <2>4. /\ \A r \in Requests : req'[r].pc \notin {"write", "record", "edit"}
          /\ profile'[c].own = own
      BY <1>1, <1>2
    <2> HIDE DEF D, E, tasks, appointments, logged, own
    <2>5. QED
      BY <1>2, <1>5, <2>1, <2>2, <2>3, <2>4 DEF Since
  <1>9. QED
    BY <1>7, <1>8

\* A stored fingerprint goes on telling what changed since its time.
LEMMA TellingNext ==
    ASSUME Typed, Past, Telling, [Next]_vars
    PROVE  Telling'
  <1>1. CASE UNCHANGED vars
    <2>1. UNCHANGED <<contact, profile, row, activities, req, clock, stored>>
      BY <1>1 DEF vars
    <2>2. ASSUME NEW t \in 0..clock, Taken(t), Since(t) PROVE Taken(t)' /\ Since(t)'
      <3>1. Taken(t)'
        BY <2>1, <2>2 DEF Taken
      <3>2. /\ TasksOf(stored.contact)' = TasksOf(stored.contact)
            /\ AppointmentsOf(stored.contact)' = AppointmentsOf(stored.contact)
            /\ ActivitiesOf(stored.contact)' = ActivitiesOf(stored.contact)
        BY <2>1 DEF TasksOf, AppointmentsOf, ActivitiesOf
      <3>3. Since(t)'
        BY <2>1, <2>2, <3>2 DEF Since
      <3>4. QED
        BY <3>1, <3>3
    <2>3. QED
      BY <2>1, <2>2 DEF Telling
  <1>2. CASE Store
    <2>1. clock \in Nat /\ clock' = clock
      BY <1>2 DEF Store, Typed
    <2>2. clock \in 0..clock
      BY <2>1
    <2>3. ASSUME stored'.quiet PROVE \E t \in 0..clock' : Taken(t)' /\ Since(t)'
      <3>1. Taken(clock)' /\ Since(clock)'
        BY <1>2, <2>3, Storing
      <3>2. PICK t : t = clock
        OBVIOUS
      <3>3. Taken(t)' /\ Since(t)'
        BY <2>1, <3>1, <3>2 DEF Taken, Since
      <3>4. QED
        BY <2>1, <2>2, <3>2, <3>3
    <2>4. QED
      BY <2>3 DEF Telling
  <1>3. CASE Next /\ stored' = stored
    <2>1. SUFFICES ASSUME stored # Null, stored.quiet
                   PROVE  \E t \in 0..clock' : Taken(t)' /\ Since(t)'
      BY <1>3 DEF Telling
    <2>2. PICK t \in 0..clock : Taken(t) /\ Since(t)
      BY <2>1 DEF Telling
    <2>3. Stamps /\ clock \in Nat /\ t \in Nat /\ t <= clock /\ t \in 0..clock'
      <3>1. Stamps /\ clock \in Nat
        BY <1>3, Stamping DEF Typed
      <3>2. QED
        BY <2>2, <3>1 DEF Stamps
    <2>4. Taken(t)'
      BY <1>3, <2>2 DEF Taken
    <2>5. \A r \in Requests : req'[r].pc \in {"write", "record", "edit"} => req'[r].tx > t
      <3>1. \A r \in Requests : req[r].pc \in {"write", "record", "edit"} => req[r].tx > t
        BY <2>2 DEF Since
      <3>2. clock + 1 > t
        BY <2>3
      <3>3. QED
        BY <2>3, <3>1, <3>2 DEF Stamps
    <2>6. ASSUME NEW id \in Ids, row'[id] # Null
          PROVE  row'[id] = row[id] \/ row'[id].updated > t
      BY <2>2, <2>3, <2>6 DEF Stamps, Since
    <2>7. ASSUME NEW x \in TasksOf(stored.contact)'
          PROVE  row'[x].updated > t \/ (x \in DOMAIN stored.context.dated.tasks
                                          /\ stored.context.dated.tasks[x] = row'[x])
      <3>1. x \in Tasks /\ x \in Ids /\ row'[x] # Null /\ row'[x].contact = stored.contact
        BY <1>3, <2>7 DEF TasksOf, Ids
      <3>2. CASE row'[x] = row[x]
        BY <2>2, <3>1, <3>2 DEF Since, TasksOf
      <3>3. QED
        BY <2>6, <3>1, <3>2
    <2>8. ASSUME NEW x \in AppointmentsOf(stored.contact)'
          PROVE  row'[x].updated > t \/ (x \in DOMAIN stored.context.dated.appointments
                                          /\ stored.context.dated.appointments[x] = row'[x])
      <3>1. x \in Appointments /\ x \in Ids /\ row'[x] # Null /\ row'[x].contact = stored.contact
        BY <1>3, <2>8 DEF AppointmentsOf, Ids
      <3>2. CASE row'[x] = row[x]
        BY <2>2, <3>1, <3>2 DEF Since, AppointmentsOf
      <3>3. QED
        BY <2>6, <3>1, <3>2
    <2>9. ASSUME NEW a \in ActivitiesOf(stored.contact)'
          PROVE  a.created > t \/ a \in stored.context.dated.activities
      <3>1. a \in activities' /\ a.contact = stored.contact
        BY <1>3, <2>9 DEF ActivitiesOf
      <3>2. CASE a \in activities
        BY <2>2, <3>1, <3>2 DEF Since, ActivitiesOf
      <3>3. CASE a \notin activities
        BY <2>2, <2>3, <3>1, <3>3 DEF Stamps, Since
      <3>4. QED
        BY <3>2, <3>3
    <2>10. \/ profile'[stored.contact].own.updated > t
           \/ profile'[stored.contact].own = stored.context.dated.contact
      <3>1. stored.contact \in Contacts
        BY <2>1 DEF Typed, Run
      <3>2. QED
        BY <2>2, <2>3, <3>1 DEF Stamps, Since
    <2>11. Since(t)'
      BY <1>3, <2>5, <2>7, <2>8, <2>9, <2>10 DEF Since
    <2>12. QED
      BY <2>3, <2>4, <2>11
  <1>4. ASSUME NEW r \in Requests,
               \/ Starts(r) \/ Insert(r) \/ Write(r) \/ Remove(r) \/ Refresh(r) \/ Record(r)
               \/ EditContact(r) \/ Die(r)
        PROVE  stored' = stored
    BY <1>4, Starting, Inserting, Writing, Refreshing, Recording, Editing DEF Remove, Die
  <1>5. ASSUME NEW c \in Contacts, DeleteContact(c) PROVE stored' = stored
    BY <1>5, Deleting
  <1>6. ASSUME Aside, ~Store PROVE stored' = stored \/ Telling'
    BY <1>6, Besides DEF Telling
  <1>7. QED
    BY <1>1, <1>2, <1>3, <1>4, <1>5, <1>6 DEF Next, Starts, Aside

\* Rows whose bucket is that of what was stored are what was stored.
AsBefore(Id, D, f, k, t, now, later, before) ==
    /\ IsFiniteSet(Id) /\ D \in SUBSET Id /\ t \in Nat /\ now \in Nat
    /\ DOMAIN k \subseteq Id /\ k = [x \in DOMAIN k |-> k[x]]
    /\ \A x \in DOMAIN k : k[x].updated \in 0..t
    /\ \A x \in D : /\ f[x].updated \in Nat /\ f[x].updated <= now
                    /\ f[x].updated > t \/ (x \in DOMAIN k /\ k[x] = f[x])
    /\ later = {f[x].updated : x \in D}
    /\ before = {k[x].updated : x \in DOMAIN k}
    /\ Bucket(later, Cardinality(D)) = Bucket(before, Cardinality(DOMAIN k))

\* Equal counts and latest stamps mean equal rows, if all changes since are later.
LEMMA SameRows ==
    ASSUME NEW Id, NEW D, NEW f, NEW k, NEW t, NEW now, NEW later, NEW before,
           AsBefore(Id, D, f, k, t, now, later, before)
    PROVE  [x \in D |-> f[x]] = k
  <1> USE DEF AsBefore
  <1>1. /\ later \in SUBSET Nat /\ \A y \in later : y <= now
        /\ before \in SUBSET Nat /\ \A y \in before : y <= t
    OBVIOUS
  <1>2. \A x \in D : f[x].updated \in later
    OBVIOUS
  <1>4. Cardinality(D) = Cardinality(DOMAIN k) /\ \A y \in later : y <= t
    BY <1>1, SameBucket
  <1>5. ASSUME NEW x \in D PROVE x \in DOMAIN k /\ k[x] = f[x]
    <2>1. f[x].updated <= t /\ f[x].updated \in Nat
      BY <1>2, <1>4
    <2>2. QED
      BY <2>1
  <1>6. D = DOMAIN k
    <2>1. D \in SUBSET DOMAIN k /\ IsFiniteSet(DOMAIN k)
      BY <1>5, FS_Subset
    <2>2. QED
      BY <1>4, <2>1, FS_Subset
  <1>7. QED
    BY <1>5, <1>6

\* The fingerprint holds only if nothing changed.
LEMMA Tells == ASSUME Typed, Past, Telling PROVE FingerprintTells
  <1> SUFFICES ASSUME stored # Null, stored.quiet,
                      Fingerprint(stored.contact) = stored.fingerprint
               PROVE  Dated(stored.contact) = stored.context.dated
    BY DEF FingerprintTells
  <1>1. PICK t \in 0..clock : Taken(t) /\ Since(t)
    BY DEF Telling
  <1>2. t \in Nat /\ clock \in Nat
    BY DEF Typed
  <1> DEFINE c == stored.contact
             tasks == stored.context.dated.tasks
             appointments == stored.context.dated.appointments
             logged == stored.context.dated.activities
  <1>3. /\ Bucket({row[x].updated : x \in TasksOf(c)}, Cardinality(TasksOf(c))) =
              Bucket({tasks[x].updated : x \in DOMAIN tasks}, Cardinality(DOMAIN tasks))
        /\ Bucket({row[x].updated : x \in AppointmentsOf(c)}, Cardinality(AppointmentsOf(c))) =
              Bucket({appointments[x].updated : x \in DOMAIN appointments},
                     Cardinality(DOMAIN appointments))
        /\ Bucket({a.created : a \in ActivitiesOf(c)}, Cardinality(ActivitiesOf(c))) =
              Bucket({a.created : a \in logged}, Cardinality(logged))
        /\ profile[c].own.updated = stored.context.dated.contact.updated
    <2>1. Fingerprint(c) = [contact |-> Fingerprint(c).contact,
                            tasks |-> Fingerprint(c).tasks,
                            appointments |-> Fingerprint(c).appointments,
                            activities |-> Fingerprint(c).activities]
      BY DEF Fingerprint
    <2>2. stored.fingerprint =
              [contact |-> stored.context.dated.contact.updated,
               tasks |-> Bucket({tasks[x].updated : x \in DOMAIN tasks}, Cardinality(DOMAIN tasks)),
               appointments |-> Bucket({appointments[x].updated : x \in DOMAIN appointments},
                                       Cardinality(DOMAIN appointments)),
               activities |-> Bucket({a.created : a \in logged}, Cardinality(logged))]
      BY <1>1 DEF Taken, TakenBy
    <2>3. /\ Fingerprint(c).tasks = stored.fingerprint.tasks
          /\ Fingerprint(c).appointments = stored.fingerprint.appointments
          /\ Fingerprint(c).activities = stored.fingerprint.activities
          /\ Fingerprint(c).contact = stored.fingerprint.contact
      OBVIOUS
    <2>4. QED
      BY <2>2, <2>3 DEF Fingerprint
  <1>4. IsFiniteSet(Tasks) /\ IsFiniteSet(Appointments)
    <2>1. Tasks \in SUBSET (Appointments \cup Tasks) /\ Appointments \in SUBSET (Appointments \cup Tasks)
      OBVIOUS
    <2>2. QED
      BY <2>1, AgendaAssumption, FS_Subset
  <1>5. PICK f : f = row
    OBVIOUS
  <1>6. [x \in TasksOf(c) |-> row[x]] = tasks
    <2>1. /\ TasksOf(c) \in SUBSET Tasks
          /\ \A x \in TasksOf(c) : row[x].updated \in Nat /\ row[x].updated <= clock
      BY DEF TasksOf, Typed, TaskRow, Past, Ids
    <2>2. /\ \A x \in TasksOf(c) : row[x].updated > t \/ (x \in DOMAIN tasks /\ tasks[x] = row[x])
          /\ DOMAIN tasks \subseteq Tasks /\ tasks = [x \in DOMAIN tasks |-> tasks[x]]
          /\ \A x \in DOMAIN tasks : tasks[x].updated \in 0..t
      BY <1>1 DEF Taken, TakenBy, Since
    <2>3. PICK D, k, now : D = TasksOf(c) /\ k = tasks /\ now = clock
      OBVIOUS
    <2>4. [x \in D |-> f[x]] = k
      <3>1. /\ D \in SUBSET Tasks /\ now \in Nat
            /\ DOMAIN k \subseteq Tasks /\ k = [x \in DOMAIN k |-> k[x]]
            /\ \A x \in DOMAIN k : k[x].updated \in 0..t
            /\ \A x \in D : /\ f[x].updated \in Nat /\ f[x].updated <= now
                            /\ f[x].updated > t \/ (x \in DOMAIN k /\ k[x] = f[x])
        BY <1>2, <1>5, <2>1, <2>2, <2>3
      <3>2. PICK later, before : later = {f[x].updated : x \in D}
                                 /\ before = {k[x].updated : x \in DOMAIN k}
        OBVIOUS
      <3>3. Bucket(later, Cardinality(D)) = Bucket(before, Cardinality(DOMAIN k))
        BY <1>3, <1>5, <2>3, <3>2
      <3>4. AsBefore(Tasks, D, f, k, t, now, later, before)
        BY <1>2, <1>4, <3>1, <3>2, <3>3 DEF AsBefore
      <3>5. QED
        BY <3>4, SameRows
    <2>5. QED
      BY <1>5, <2>3, <2>4
  <1>7. [x \in AppointmentsOf(c) |-> row[x]] = appointments
    <2>1. /\ AppointmentsOf(c) \in SUBSET Appointments
          /\ \A x \in AppointmentsOf(c) : row[x].updated \in Nat /\ row[x].updated <= clock
      BY DEF AppointmentsOf, Typed, AppointmentRow, Past, Ids
    <2>2. /\ \A x \in AppointmentsOf(c) :
                row[x].updated > t \/ (x \in DOMAIN appointments /\ appointments[x] = row[x])
          /\ DOMAIN appointments \subseteq Appointments
          /\ appointments = [x \in DOMAIN appointments |-> appointments[x]]
          /\ \A x \in DOMAIN appointments : appointments[x].updated \in 0..t
      BY <1>1 DEF Taken, TakenBy, Since
    <2>3. PICK D, k, now : D = AppointmentsOf(c) /\ k = appointments /\ now = clock
      OBVIOUS
    <2>4. [x \in D |-> f[x]] = k
      <3>1. /\ D \in SUBSET Appointments /\ now \in Nat
            /\ DOMAIN k \subseteq Appointments /\ k = [x \in DOMAIN k |-> k[x]]
            /\ \A x \in DOMAIN k : k[x].updated \in 0..t
            /\ \A x \in D : /\ f[x].updated \in Nat /\ f[x].updated <= now
                            /\ f[x].updated > t \/ (x \in DOMAIN k /\ k[x] = f[x])
        BY <1>2, <1>5, <2>1, <2>2, <2>3
      <3>2. PICK later, before : later = {f[x].updated : x \in D}
                                 /\ before = {k[x].updated : x \in DOMAIN k}
        OBVIOUS
      <3>3. Bucket(later, Cardinality(D)) = Bucket(before, Cardinality(DOMAIN k))
        BY <1>3, <1>5, <2>3, <3>2
      <3>4. AsBefore(Appointments, D, f, k, t, now, later, before)
        BY <1>2, <1>4, <3>1, <3>2, <3>3 DEF AsBefore
      <3>5. QED
        BY <3>4, SameRows
    <2>5. QED
      BY <1>5, <2>3, <2>4
  <1>8. ActivitiesOf(c) = logged
    <2>1. PICK A, B, now : A = ActivitiesOf(c) /\ B = logged /\ now = clock
      OBVIOUS
    <2> DEFINE later == {a.created : a \in A}
               before == {a.created : a \in B}
    <2>2. /\ IsFiniteSet(B) /\ \A a \in B : a.created \in 0..t
          /\ \A a \in A : a.created > t \/ a \in B
      BY <1>1, <2>1 DEF Taken, TakenBy, Since
    <2>3. \A a \in A : a.created \in Nat /\ a.created <= now
      BY <2>1 DEF ActivitiesOf, Typed, ActivityRow, Past
    <2>4. /\ later \in SUBSET Nat /\ \A y \in later : y <= now
          /\ before \in SUBSET Nat /\ \A y \in before : y <= t
      BY <2>2, <2>3
    <2>5. \A a \in A : a.created \in later
      OBVIOUS
    <2>6. Bucket(later, Cardinality(A)) = Bucket(before, Cardinality(B))
      BY <1>3, <2>1
    <2> HIDE DEF later, before
    <2>7. Cardinality(A) = Cardinality(B) /\ \A y \in later : y <= t
      BY <1>2, <2>1, <2>4, <2>6, SameBucket
    <2>8. ASSUME NEW a \in A PROVE a \in B
      <3>1. a.created <= t /\ a.created \in Nat
        BY <2>3, <2>5, <2>7
      <3>2. QED
        BY <1>2, <2>2, <3>1
    <2>9. A = B
      BY <2>2, <2>7, <2>8, FS_Subset
    <2>10. QED
      BY <2>1, <2>9
  <1>9. stored.context.dated = [contact |-> stored.context.dated.contact, tasks |-> tasks,
                                appointments |-> appointments, activities |-> logged]
    BY <1>1 DEF Taken, TakenBy
  <1>10. profile[c].own = stored.context.dated.contact
    <2>1. stored.context.dated.contact.updated \in 0..t
      BY <1>1 DEF Taken, TakenBy
    <2>2. \/ profile[c].own.updated > t
          \/ profile[c].own = stored.context.dated.contact
      BY <1>1 DEF Since
    <2>3. QED
      BY <1>2, <1>3, <2>1, <2>2
  <1>11. QED
    BY <1>6, <1>7, <1>8, <1>9, <1>10 DEF Dated

-----------------------------------------------------------------------------
(* Theorems.                                                               *)

IInv ==
    /\ Typed /\ Fresh /\ Past
    /\ StartBeforeEnd /\ Dating
    /\ NotesBecomeHistory
    /\ Telling

\* The rows an agenda starts with are dated and nothing has been asked.
LEMMA Initially == Init => IInv
  <1> SUFFICES ASSUME Init PROVE IInv
    OBVIOUS
  <1>1. Typed
    BY TypedInit
  <1>2. /\ req = [r \in Requests |-> Idle] /\ clock = 0 /\ stored = Null /\ activities = {}
    BY DEF Init
  <1>3. \A r \in Requests : req[r].pc = "idle" /\ req[r].tx = 0
    BY <1>2, IdleRequest
  <1>4. PICK there \in SUBSET Ids, a \in NewAppointments, t \in NewTasks :
           row = [id \in Ids |-> IF id \notin there THEN Null
                                 ELSE Made(IF id \in Tasks THEN t ELSE a, 0)]
    BY DEF Init
  <1>5. /\ Made(a, 0).updated = 0 /\ Made(t, 0).updated = 0
        /\ Made(a, 0).start <= Made(a, 0).end
    BY MadeAppointment, MadeTask
  <1>6. /\ \A id \in Ids : row[id] # Null => row[id].updated = 0
        /\ \A x \in Appointments : row[x] # Null => row[x].start <= row[x].end
    BY <1>4, <1>5, AgendaAssumption DEF Ids
  <1>7. \A c \in Contacts : profile[c].own.updated = 0
    BY DEF Init
  <1>8. QED
    BY <1>1, <1>2, <1>3, <1>6, <1>7
       DEF IInv, Fresh, Past, StartBeforeEnd, Dating, Dates, NotesBecomeHistory, Telling

\* Each conjunct was shown with the types beside it.
LEMMA Inductive == IInv /\ [Next]_vars => IInv'
  BY TypedNext, FreshNext, PastNext, StartBeforeEndNext, DatingNext, NotesNext, TellingNext DEF IInv

\* The inductive invariant of the agenda.
LEMMA Invariant == Spec => []IInv
  BY Initially, Inductive, PTL DEF Spec

\* The dates of a row agree with one another and with its status, for any
\* requests that check what they read and write it later.
THEOREM DatesHold == Spec => []DatesAgree
  <1>1. IInv => DatesAgree
    BY DEF IInv, Dating, Dates, Completes, DatesAgree, DoneIsDated
  <1>2. QED
    BY <1>1, Invariant, PTL

\* Notes sent for an appointment that the answer shows completed have become an
\* activity of the contact that the answer shows.
THEOREM NotesKept == Spec => []NotesBecomeHistory
  <1>1. IInv => NotesBecomeHistory
    BY DEF IInv
  <1>2. QED
    BY <1>1, Invariant, PTL

\* A run stored in quiet whose fingerprint still holds was given the stamped rows
\* there are now.
THEOREM FreshRun == Spec => []FingerprintTells
  <1>1. IInv => FingerprintTells
    BY Tells DEF IInv
  <1>2. QED
    BY <1>1, Invariant, PTL
=============================================================================
