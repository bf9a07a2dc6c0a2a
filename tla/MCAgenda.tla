------------------------------ MODULE MCAgenda ------------------------------
(* An instance of Agenda for TLC: an appointment and two tasks of two contacts. *)
EXTENDS Agenda, TLC

CONSTANTS ana, luis, meeting, call, visit, old, edited

MCContacts == {ana, luis}
MCAppointments == {meeting}
MCTasks == {call, visit}
MCContents == {old, edited}
MCNewAppointments == {[contact |-> ana, status |-> "scheduled", start |-> 1, end |-> 2]}
MCNewTasks == {[contact |-> ana, status |-> "pending", completed |-> Null]}
MCAppointmentPatches ==
    {[status |-> "completed"], [status |-> "scheduled"], [start |-> 2], [end |-> 1],
     [contact |-> luis]}
MCTaskPatches ==
    {[status |-> "completed"], [status |-> "pending"], [completed |-> Null]}

Symmetry == Permutations(Requests)

\* At first there are the appointment and a task.
MCInit ==
    /\ Init /\ {id \in Ids : row[id] # Null} = {meeting, call}
    /\ \A c \in Contacts : profile[c].rest = old

\* The contact is edited, or has been.
Edited == profile[ana].own.updated > 0 \/ \E r \in Requests : req[r].pc = "edit"

\* One task is edited, and the other comes and goes, notes are of a completed
\* appointment and the run is about ana, who alone is edited, once; it is given
\* its context in quiet, is not stored if that changes, and the rest of it changes
\* last; either the meeting is edited or the contact, and a refused request does
\* nothing more.
MCNext ==
    /\ Next
    /\ Edited' => /\ row'[meeting] \in {row[meeting], Null}
                  /\ \A r \in Requests : req'[r].id = meeting => req'[r].op = "delete"
    /\ \A r \in Requests : req[r].pc = "idle" /\ req'[r].pc = "write" =>
          /\ req'[r].op = "update" => req'[r].id # visit
          /\ req'[r].op = "create" => req'[r].id = visit
          /\ req'[r].op = "delete" => req'[r].id # call
          /\ req'[r].notes => req'[r].body = [status |-> "completed"]
    /\ \A r \in Requests : req'[r].pc = "record" /\ req'[r].op = "log" => req'[r].read.contact = ana
    /\ \A r \in Requests : req[r].pc = "idle" /\ req'[r].pc = "done" => FALSE
    /\ \A r \in Requests : req'[r].pc = "edit" =>
          req'[r].read.contact = ana /\ req'[r].body = edited /\ req'[r].read.columns = old
    /\ stored' # Null => /\ stored'.contact = ana
                         /\ stored'.fingerprint = Null => stored'.context.dated = Dated(ana)'
                         /\ stored'.fingerprint # Null => stored'.quiet
    /\ \A c \in Contacts : profile'[c].rest # profile[c].rest =>
          c = ana /\ stored # Null /\ \A r \in Requests : req[r].pc = "done"
    /\ stored # stored' => \A r \in Requests : req[r].pc \in {"idle", "done", "refresh"}
    /\ luis \in contact'

MCSpec == MCInit /\ [][MCNext]_vars
=============================================================================
