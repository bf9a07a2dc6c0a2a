----------------------------- MODULE RenovaCase -----------------------------
(***************************************************************************)
(* One row of renova_cases under POST and PATCH /renova/cases and PATCH    *)
(* /renova/cases/{id}/operation: its commercial status, the operation the  *)
(* accepted property goes through, archiving, the proposal's amounts, who  *)
(* works it and what the audit log says of it (RenovaCaseService).         *)
(*                                                                         *)
(* A payload is a function from the fields the client sent                 *)
(* (model_dump(exclude_unset=True)) to their values; Null is JSON null and *)
(* SQL NULL.  A request loads the row, checks its payload against what it  *)
(* loaded, and writes the columns whose value it changed in its session;   *)
(* nothing locks or compares the row in between.  From its first UPDATE to *)
(* its commit it holds the row's lock, so that part is one step.           *)
(*                                                                         *)
(* Abstracted: the descriptive columns are one more payload that changes   *)
(* nothing here; secret stands for the protected columns being set or not; *)
(* plan for operation_next_action and operation_due_at.                    *)
(***************************************************************************)
EXTENDS RenovaAccess, Integers, Sequences, FiniteSets

CONSTANTS
    Requests,   \* PATCH requests
    Deletable,  \* accounts that may be deleted
    Payloads,   \* payloads clients send to POST and PATCH /renova/cases
    Moves,      \* payloads clients send to PATCH .../operation
    Legacy      \* statuses of cases older than the operation columns

Money == Nat \cup {Null}

\* The columns of the row; what a payload may carry for each; those that may not
\* be null.
Row == [status : Statuses, archived : BOOLEAN, assignee : Users \cup {Null},
        creator : Users \cup {Null}, type : ProposalTypes \cup {Null},
        coverage : Money, cash : Money, offer : Money, secret : BOOLEAN,
        stage : OperationStages \cup {Null}, plan : BOOLEAN]

Sendable == [status |-> Statuses \cup {Null}, archived |-> BOOLEAN \cup {Null},
             assignee |-> Users \cup {Null}, type |-> ProposalTypes \cup {Null},
             coverage |-> Money, cash |-> Money, offer |-> Money, secret |-> BOOLEAN]

Required == {"status", "archived", "assignee"}

ASSUME CaseAssumption ==
    /\ Deletable \subseteq Users
    /\ Null \notin Nat
    /\ Legacy \subseteq Statuses
    /\ \A p \in Payloads : /\ DOMAIN p \subseteq DOMAIN Sendable
                           /\ \A f \in DOMAIN p : p[f] \in Sendable[f]
    /\ \A m \in Moves : /\ DOMAIN m \subseteq {"stage", "plan"}
                        /\ "stage" \in DOMAIN m => m.stage \in OperationStages \cup {Null}
                        /\ "plan" \in DOMAIN m => m.plan \in BOOLEAN

VARIABLES
    exists,     \* the case was created
    row,
    told,       \* what the audit log last said of each column
    req,        \* req[r]: what request r sent and the row as it loaded it
    accounts    \* users whose account exists

caseVars == <<exists, row, told, req, accounts>>

Blank == [status |-> "new", archived |-> FALSE, assignee |-> Null, creator |-> Null,
          type |-> Null, coverage |-> Null, cash |-> Null, offer |-> Null,
          secret |-> FALSE, stage |-> Null, plan |-> FALSE]

NoRequest == [kind |-> "idle", by |-> Null, sent |-> <<>>, seen |-> Blank]

Answered == [NoRequest EXCEPT !.kind = "done"]

-----------------------------------------------------------------------------
(* The payload, as the request's schema accepts it.                        *)

Sent(p, field) == IF field \in DOMAIN p THEN p[field] ELSE Null

Positive(amount) == amount # Null /\ amount > 0

\* Mutant: an explicit null is accepted for any column.
WellFormedNullable(p) == DOMAIN p # {}

\* _no_null_for_required_columns, _valid_proposal_for_its_type
WellFormed(p) ==
    /\ \A f \in Required \cap DOMAIN p : p[f] # Null
    /\ LET owesDebt == Positive(Sent(p, "coverage"))
           paysCash == Positive(Sent(p, "cash"))
       IN  CASE Sent(p, "type") = "debt_only" -> owesDebt /\ ~paysCash
             [] Sent(p, "type") = "debt_plus_cash" -> owesDebt /\ paysCash
             [] Sent(p, "type") = "cash_only" -> paysCash /\ ~owesDebt
             [] OTHER -> TRUE

-----------------------------------------------------------------------------
(* What a request makes of the row it loaded.                              *)

Merged(c, p) == [f \in DOMAIN c |-> IF f \in DOMAIN p THEN p[f] ELSE c[f]]

OrZero(amount) == IF amount = Null THEN 0 ELSE amount

\* Mutant: an amount somebody typed into final_offer is left alone.
OfferOfTyped(c) ==
    IF c.type = Null \/ c.offer # Null THEN c.offer
    ELSE OrZero(c.coverage) + OrZero(c.cash)

\* _sync_legacy_final_offer
OfferOf(c) ==
    IF c.type = Null THEN c.offer ELSE OrZero(c.coverage) + OrZero(c.cash)

\* Mutant: only acceptance starts the operation.
EntryStageAccepted(c) ==
    IF c.stage = Null /\ c.status = "accepted" THEN "proposal_accepted" ELSE c.stage

\* _sync_operation_entry
EntryStage(c) ==
    IF c.stage # Null THEN c.stage
    ELSE CASE c.status = "accepted" -> "proposal_accepted"
           [] c.status = "purchased" -> "renovation"
           [] OTHER -> Null

Synced(c) == [c EXCEPT !.offer = OfferOf(c), !.stage = EntryStage(c)]

\* update(): a case that is not closed is not archived
Patched(c, p) ==
    LET m == Merged(c, p)
    IN  Synced([m EXCEPT !.archived = m.archived /\ m.status \in Closed])

\* update_operation()
Moved(c, p) ==
    LET m == Merged(c, p)
    IN  IF m.stage = c.stage THEN m
        ELSE [m EXCEPT !.status = IF m.stage \in Owned THEN "purchased" ELSE "accepted"]

After(r) == IF req[r].kind = "patch" THEN Patched(req[r].seen, req[r].sent)
                                     ELSE Moved(req[r].seen, req[r].sent)

\* The row after r's UPDATE, which names the columns r changed in its session.
Flushed(r) ==
    [f \in DOMAIN row |-> IF After(r)[f] # req[r].seen[f] THEN After(r)[f] ELSE row[f]]

-----------------------------------------------------------------------------
(* What a request is checked against.                                      *)

\* Mutant: an advisor may name any colleague.
MayAssignAnyone(u, p) == "assignee" \in DOMAIN p => p.assignee \in accounts

\* _validate_assignee, _check_own_assignment
MayAssign(u, p) ==
    "assignee" \in DOMAIN p => /\ p.assignee \in accounts
                               /\ u \in Advisors => p.assignee = u

MayArchive(c, p) == Sent(p, "archived") = TRUE => Merged(c, p).status \in Closed

Movable(c) == ~c.archived /\ c.status \in Accepted

-----------------------------------------------------------------------------
(* The audit log.  RenovaCaseRead, the snapshot of update(), has every      *)
(* column but those of the operation; an operation's has those and status. *)

\* Mutant: archived is compared only when the client sent it.
WatchedSent(p) == DOMAIN p \ {"secret"}

\* before_values
Watched(p) == (DOMAIN p \ {"secret"}) \cup {"archived"}

Shown(r) == IF req[r].kind = "patch" THEN DOMAIN Blank \ {"stage", "plan"}
                                     ELSE {"stage", "plan", "status"}

\* Whether r records an entry, given the row as it refreshed it.
Records(r, now) ==
    IF req[r].kind = "patch"
    THEN \/ \E f \in Watched(req[r].sent) : now[f] # req[r].seen[f]
         \/ "secret" \in DOMAIN req[r].sent
    ELSE \E f \in Shown(r) : now[f] # req[r].seen[f]

-----------------------------------------------------------------------------
(* Actions.                                                                *)

\* The migration that added the operation columns backfills them.
Migrated(c) == [c EXCEPT !.stage = EntryStage(c)]

CaseInit ==
    /\ \/ exists = FALSE /\ row = Blank
       \/ /\ exists = TRUE
          /\ \E u \in Users, s \in Legacy :
                row = Migrated([Blank EXCEPT !.status = s, !.assignee = u, !.creator = u])
    /\ told = row
    /\ req = [r \in Requests |-> NoRequest]
    /\ accounts = Users

\* create(): archived is stored as sent
Create(u, p) ==
    /\ ~exists /\ u \in accounts
    /\ WellFormed(p) /\ "assignee" \in DOMAIN p /\ MayAssign(u, p)
    /\ exists' = TRUE
    /\ row' = Synced([Merged(Blank, p) EXCEPT !.creator = u])
    /\ told' = [f \in DOMAIN row |-> IF f \in {"stage", "plan"} THEN told[f] ELSE row'[f]]
    /\ UNCHANGED <<req, accounts>>

Begin(r, kind, u, p) ==
    req' = [req EXCEPT ![r] = [kind |-> kind, by |-> u, sent |-> p, seen |-> row]]

\* update(), up to its first UPDATE; a request that is refused changes nothing
LoadPatch(r, u, p) ==
    /\ req[r].kind = "idle" /\ exists /\ u \in accounts
    /\ WellFormed(p) /\ Sees(u, row)
    /\ MayAssign(u, p) /\ MayArchive(row, p)
    /\ Begin(r, "patch", u, p)
    /\ UNCHANGED <<exists, row, told, accounts>>

\* update_operation(), up to its flush
LoadMove(r, u, m) ==
    /\ req[r].kind = "idle" /\ exists /\ u \in accounts
    /\ DOMAIN m # {} /\ ("stage" \in DOMAIN m => m.stage # Null)
    /\ Sees(u, row) /\ Movable(row)
    /\ Begin(r, "move", u, m)
    /\ UNCHANGED <<exists, row, told, accounts>>

Pending(r) == req[r].kind \in {"patch", "move"}

\* The assignee r writes was deleted since r checked it: the foreign key refuses.
Orphaned(r) == Flushed(r).assignee \notin accounts \cup {Null}

\* UPDATE, refresh, audit entry, commit
Write(r) ==
    /\ Pending(r) /\ ~Orphaned(r)
    /\ row' = Flushed(r)
    /\ told' = IF Records(r, row')
               THEN [f \in DOMAIN row |-> IF f \in Shown(r) THEN row'[f] ELSE told[f]]
               ELSE told
    /\ req' = [req EXCEPT ![r] = Answered]
    /\ UNCHANGED <<exists, accounts>>

\* Rolled back: by the constraint, or because the process dies.
Fail(r) ==
    /\ Pending(r)
    /\ req' = [req EXCEPT ![r] = Answered]
    /\ UNCHANGED <<exists, row, told, accounts>>

\* An account is deleted with none of its requests under way (ON DELETE SET NULL).
DeleteAccount(u) ==
    /\ u \in accounts \cap Deletable
    /\ \A r \in Requests : req[r].by # u
    /\ accounts' = accounts \ {u}
    /\ row' = [row EXCEPT !.assignee = IF @ = u THEN Null ELSE @,
                          !.creator = IF @ = u THEN Null ELSE @]
    /\ UNCHANGED <<exists, told, req>>

CaseNext ==
    \/ \E u \in Users, p \in Payloads : Create(u, p)
    \/ \E r \in Requests, u \in Users : \/ \E p \in Payloads : LoadPatch(r, u, p)
                                        \/ \E m \in Moves : LoadMove(r, u, m)
    \/ \E r \in Requests : Write(r) \/ Fail(r)
    \/ \E u \in Users : DeleteAccount(u)

-----------------------------------------------------------------------------
(* What the boards and lists show.                                         *)

\* list_for_pipeline
OnBoard(c) == c.status \in Board

\* list_for_operations
OnMap(c) == ~c.archived /\ c.status \in Accepted /\ c.stage \in OperationStages

-----------------------------------------------------------------------------
(* Properties of every interleaving.                                       *)

\* Every column keeps its type, whatever payloads are merged into the row.
TypeOK ==
    /\ exists \in BOOLEAN
    /\ row \in Row
    /\ told \in Row
    /\ \A r \in Requests : /\ req[r].kind \in {"idle", "done", "patch", "move"}
                           /\ req[r].by \in Users \cup {Null}
                           /\ req[r].seen \in Row
    /\ accounts \subseteq Users

\* A live accepted or purchased case is on the operations map: no order of
\* PATCHes, and no case older than the map, gets a property lost from it.
AcceptedOnTheMap ==
    exists /\ row.status \in Accepted /\ ~row.archived => OnMap(row)

\* "Any transition is allowed and every change is audited": the log's last word
\* on status and archived is what the row says, however requests overlap.
HistoryTellsStatus ==
    exists => told.status = row.status /\ told.archived = row.archived

\* An advisor's request never takes a case from its assignee or gives it away,
\* unless another request got between its read and its write.
AdvisorKeepsCase ==
    [][\A r \in Requests :
          Pending(r) /\ req'[r].kind = "done" /\ req[r].by \in Advisors
          => \/ row'.assignee = row.assignee
             \/ row'.assignee = req[r].by /\ req[r].seen.assignee = Null]_caseVars

(* What a request that found the row as it had loaded it makes of it.      *)

\* final_offer is the proposal's total whenever a classified case was written.
OfferInSync(r) ==
    req[r].kind = "patch" /\ row'.type # Null
        => row'.offer = OrZero(row'.coverage) + OrZero(row'.cash)

\* No request leaves a case archived that it leaves open, also one that found
\* it so: what the pipeline board shows is in the active bucket.
ArchiveRule == OnBoard(row') \/ row'.status \notin Closed => Bucket(row') = "active"

\* Rejected, cancelled and archived cases stay where they are in the operation.
ClosedDoesNotMove ==
    row'.stage # row.stage => /\ ~row'.archived /\ row'.status \in Accepted
                              /\ row.stage # Null => row.status \in Accepted

\* The documented rules of a case hold for the row and not only for the
\* payload: whatever earlier requests left, each write restores them.
CaseRules ==
    [][\A r \in Requests :
          Pending(r) /\ req'[r].kind = "done" /\ req[r].seen = row /\ row' # row
          => OfferInSync(r) /\ ArchiveRule /\ ClosedDoesNotMove]_caseVars
=============================================================================
