--------------------------- MODULE RenovaFollowUp ---------------------------
(***************************************************************************)
(* The follow-up history of a Renova case: RenovaFollowUpService's create, *)
(* update and summarize, beside the requests that change the case.         *)
(*                                                                         *)
(* A request checks that its caller sees the case, reads what it needs and *)
(* writes later.  created_at is the start of the transaction, so it is     *)
(* modelled by the order in which requests began (begun), not by the order *)
(* in which they inserted.  Notes are left out.                            *)
(***************************************************************************)
EXTENDS RenovaCase, FiniteSetsExt

CONSTANTS
    Callers,    \* follow-up requests
    Entries,    \* bodies clients send to POST .../follow-up
    Edits,      \* bodies clients send to PATCH .../follow-up/{activity_id}
    Results     \* RenovaCallResult

VARIABLES
    activities, \* the rows of renova_follow_up_activities, as inserted
    call        \* call[c]: what request c does and what it read

followUpVars == <<activities, call>>

vars == <<caseVars, followUpVars>>

Activity == [type : {"call", "follow_up"}, result : Results \cup {Null}, at : Nat,
             next : Nat \cup {Null}, number : Nat \cup {Null}, begun : Nat]

\* The bodies of POST and of PATCH
Entry == [type : {"call", "follow_up"}, result : Results \cup {Null}, at : Nat,
          next : Nat \cup {Null}, number : Nat \cup {Null}]

Changeable == [result |-> Results, at |-> Nat, next |-> Nat, number |-> Nat]

ASSUME FollowUpAssumption ==
    /\ Null \notin Results \cup {"call", "follow_up"}
    /\ IsFiniteSet(Callers)
    /\ Entries \subseteq Entry
    /\ \A p \in Edits : /\ DOMAIN p \subseteq DOMAIN Changeable
                        /\ \A f \in DOMAIN p : p[f] \in Changeable[f] \cup {Null}

NoCall == [kind |-> "idle", by |-> Null, entry |-> <<>>, index |-> 0, read |-> <<>>]

-----------------------------------------------------------------------------
(* summarize().                                                            *)

Calls(s) == {i \in DOMAIN s : s[i].type = "call"}

\* Mutant: the latest is the one entered last.
LatestEntered(s, among) == CHOOSE i \in among : \A j \in among : s[j].begun <= s[i].begun

\* max by (occurred_at, created_at)
Latest(s, among) ==
    CHOOSE i \in among : \A j \in among :
        \/ s[j].at < s[i].at
        \/ s[j].at = s[i].at /\ s[j].begun <= s[i].begun

\* next_follow_up_at belongs to the latest event, of either type.
Reminder(s) == IF s = <<>> THEN Null ELSE s[Latest(s, DOMAIN s)].next

LastCall(s) == IF Calls(s) = {} THEN Null ELSE Latest(s, Calls(s))

AttemptCount(s) == Max({0} \cup {OrZero(s[i].number) : i \in Calls(s)})

ContactState(s) ==
    IF LastCall(s) = Null THEN "never_contacted"
    ELSE LET result == s[LastCall(s)].result
         IN  CASE result = "no_answer" -> "attempted_no_answer"
               [] result = "interested" -> "contacted_interested"
               [] result = "other" -> "contacted"
               [] OTHER -> result

IsOverdue(s, now) == Reminder(s) # Null /\ Reminder(s) < now

-----------------------------------------------------------------------------
(* What is accepted.                                                       *)

\* The two CHECK constraints on the shape of a row; the schema of POST asks
\* the same of a new entry.
Shaped(e) ==
    IF e.type = "call" THEN e.result # Null
    ELSE e.result = Null /\ e.number = Null /\ e.next # Null

\* The three checks of update(), on the row as it was loaded.
Editable(a, p) ==
    IF a.type = "call" THEN Merged(a, p).result # Null
    ELSE /\ DOMAIN p \cap {"result", "number"} = {}
         /\ Merged(a, p).next # Null

\* Mutant: attempts are counted instead.
NextAttemptCounted(s) == Cardinality(Calls(s)) + 1

\* next_attempt_number
NextAttempt(s) == AttemptCount(s) + 1

-----------------------------------------------------------------------------
(* Actions.                                                                *)

FollowUpInit == activities = <<>> /\ call = [c \in Callers |-> NoCall]

Begun == Cardinality({c \in Callers : call[c].kind # "idle"})

\* create(), up to its insert
BeginCreate(c, u, e) ==
    /\ call[c].kind = "idle" /\ Shaped(e)
    /\ exists /\ u \in accounts /\ Sees(u, row)
    /\ call' = [call EXCEPT ![c] =
           [kind |-> "create", by |-> u, index |-> 0, read |-> activities,
            entry |-> [type |-> e.type, result |-> e.result, at |-> e.at, next |-> e.next,
                       begun |-> Begun,
                       number |-> IF e.type = "call" /\ e.number = Null
                                  THEN NextAttempt(activities) ELSE e.number]]]
    /\ UNCHANGED activities

Insert(c) ==
    /\ call[c].kind = "create"
    /\ activities' = Append(activities, call[c].entry)
    /\ call' = [call EXCEPT ![c].kind = "done"]

\* update(), up to its UPDATE
BeginEdit(c, u, i, p) ==
    /\ call[c].kind = "idle"
    /\ exists /\ u \in accounts /\ Sees(u, row)
    /\ Editable(activities[i], p)
    /\ call' = [call EXCEPT ![c] = [kind |-> "edit", by |-> u, entry |-> p, index |-> i,
                                    read |-> activities]]
    /\ UNCHANGED activities

\* The columns whose value c changes; a null occurred_at is refused by the
\* NOT NULL constraint, and nothing is written.
Edit(c) ==
    LET i == call[c].index
        seen == call[c].read[i]
        after == Merged(seen, call[c].entry)
    IN  /\ call[c].kind = "edit"
        /\ activities' = IF after.at = Null THEN activities
                         ELSE [activities EXCEPT ![i] =
                                 [f \in DOMAIN seen |-> IF after[f] # seen[f]
                                                        THEN after[f] ELSE @[f]]]
        /\ call' = [call EXCEPT ![c].kind = "done"]

FollowUpNext ==
    \E c \in Callers :
        \/ \E u \in Users : \/ \E e \in Entries : BeginCreate(c, u, e)
                            \/ \E i \in DOMAIN activities, p \in Edits : BeginEdit(c, u, i, p)
        \/ Insert(c) \/ Edit(c)

\* An account is not deleted under a follow-up request either.
CallersRemain == \A c \in Callers : call[c].kind \in {"create", "edit"} => call[c].by \in accounts'

Init == CaseInit /\ FollowUpInit

Next ==
    \/ CaseNext /\ CallersRemain /\ UNCHANGED followUpVars
    \/ FollowUpNext /\ UNCHANGED caseVars

Spec == Init /\ [][Next]_vars

-----------------------------------------------------------------------------
(* Properties.                                                             *)

\* The shape the CHECK constraints ask of a row is kept by the service's own
\* checks, however edits of one activity overlap.
ShapeHeld == \A i \in DOMAIN activities : activities[i] \in Activity /\ Shaped(activities[i])

\* Every column of the case and of its history keeps its type and shape,
\* whatever payloads are merged into a row.
WellTyped == TypeOK /\ ShapeHeld

\* Entering an event of the past changes neither the reminder nor the state of
\* the contact, which belong to what happened last.
BackfillKeepsSummary ==
    [][Len(activities') > Len(activities) /\ activities # <<>> =>
       LET new == activities'[Len(activities')]
       IN  /\ new.at < activities[Latest(activities, DOMAIN activities)].at
              => Reminder(activities') = Reminder(activities)
           /\ LastCall(activities) # Null /\ new.at < activities[LastCall(activities)].at
              => ContactState(activities') = ContactState(activities)]_vars

\* A call the server numbers is one more attempt, unless another entry was
\* written between its count and its insert.
AttemptCounted ==
    [][\A c \in Callers :
          /\ call[c].kind = "create" /\ call'[c].kind = "done"
          /\ call[c].entry.type = "call" /\ call[c].read = activities
          /\ call[c].entry.number = NextAttempt(activities)
          => AttemptCount(activities') = AttemptCount(activities) + 1]_vars
=============================================================================
