-------------------------- MODULE ExecutionLedger --------------------------
(***************************************************************************)
(* What the AI run reservation promises its clients, without the queries,  *)
(* indexes and retries that implement it: requests start executions, at    *)
(* most one at a time for a contact and agent and at most one ever for an  *)
(* idempotency key, and a client that does not start one may be shown      *)
(* another client's execution of the same analysis.                        *)
(***************************************************************************)
CONSTANTS Requests, Contacts, NoKey

VARIABLES
    request,   \* request[r]: contact, agent, user and key
    contacts,  \* the contacts that exist
    outcome,   \* outcome[r]: the execution request r started
    shown      \* shown[r]: whose execution the client was shown

vars == <<request, contacts, outcome, shown>>

Init ==
    /\ contacts = Contacts
    /\ outcome = [r \in Requests |-> "none"]
    /\ shown = [r \in Requests |-> r]

SameAnalysis(r, q) == /\ request[r].contact = request[q].contact
                      /\ request[r].agent = request[q].agent

\* r starts its execution: its contact exists, nobody is running the same
\* analysis and nobody ever started one under its key.
Start(r) ==
    /\ outcome[r] = "none" /\ shown[r] = r
    /\ request[r].contact \in contacts
    /\ \A q \in Requests :
           /\ SameAnalysis(q, r) => outcome[q] # "running"
           /\ request[r].key # NoKey /\ request[q].key = request[r].key
                  => outcome[q] = "none"
    /\ outcome' = [outcome EXCEPT ![r] = "running"]
    /\ UNCHANGED <<request, contacts, shown>>

\* An execution ends once.
Finish(r) ==
    /\ outcome[r] = "running"
    /\ \E o \in {"succeeded", "failed"} : outcome' = [outcome EXCEPT ![r] = o]
    /\ UNCHANGED <<request, contacts, shown>>

\* The client of r, which started nothing, is shown an execution of the same
\* analysis that somebody else started and that is running or has succeeded.
Show(r, e) ==
    /\ outcome[r] = "none" /\ e # r
    /\ outcome[e] \in {"running", "succeeded"} /\ SameAnalysis(e, r)
    /\ shown' = [shown EXCEPT ![r] = e]
    /\ UNCHANGED <<request, contacts, outcome>>

Forget(c) ==
    /\ c \in contacts /\ contacts' = contacts \ {c}
    /\ UNCHANGED <<request, outcome, shown>>

Next ==
    \/ \E r \in Requests : Start(r) \/ Finish(r)
    \/ \E r, e \in Requests : Show(r, e)
    \/ \E c \in Contacts : Forget(c)

Spec == Init /\ [][Next]_vars

=============================================================================
