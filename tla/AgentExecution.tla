--------------------------- MODULE AgentExecution ---------------------------
(***************************************************************************)
(* The AI run reservation: POST /ai/{agent}/{contact_id} of               *)
(* app/api/routes/ai.py over AgentExecutionService, the agent_executions   *)
(* table with its two partial unique indexes, the CRM data an agent reads, *)
(* and the read side GET /ai/agent-executions/latest.                      *)
(*                                                                         *)
(* Every HTTP request is a process.  FastAPI runs these synchronous        *)
(* handlers in a thread pool and the service may have several processes,   *)
(* so a step of one request interleaves with steps of the others between   *)
(* any two SQL statements; PostgreSQL runs at READ COMMITTED.  pc[r] names *)
(* the step request r takes next.  A request inserts at most one row, so   *)
(* the row of agent_executions that request r inserted is row[r].          *)
(* Everything is scoped to one organization.                               *)
(***************************************************************************)
EXTENDS Integers, FiniteSets

CONSTANTS
    Requests,        \* the HTTP requests clients send (retries included)
    Contacts, Agents, Users,
    Keys,            \* values of the Idempotency-Key header
    NoKey,           \* the header is absent
    NoContact,       \* contact_id after ON DELETE SET NULL
    NoFingerprint,   \* input_snapshot IS NULL
    HumanActions,    \* acted_on, dismissed
    Cooldown,        \* ai_agent_cooldown_seconds
    UserLimit,       \* ai_user_rate_limit_per_minute
    OrgLimit,        \* ai_organization_rate_limit_per_minute
    ContactLimit,    \* ai_contact_agent_rate_limit_per_hour
    Minute, Hour,    \* the windows those limits count over
    MaxTime,         \* bound: the clock stops here
    MaxVersion,      \* bound: CRM edits per contact
    MaxLost          \* bound: requests whose thread is lost

ASSUME ConfigAssumption ==
    /\ {Cooldown, UserLimit, OrgLimit, ContactLimit, Minute, Hour} \subseteq Nat
    /\ {MaxTime, MaxVersion, MaxLost} \subseteq Nat

ASSUME SentinelAssumption ==
    /\ NoKey \notin Keys
    /\ NoContact \notin Contacts
    /\ NoFingerprint \notin Nat

ASSUME RequestsFinite == IsFiniteSet(Requests)

VARIABLES
    now,        \* the clock, in seconds
    contacts,   \* the contacts that exist
    data,       \* data[c]: version of everything the CRM knows about c
    request,    \* request[r]: what the client sent; never changes
    pc,
    local,      \* local[r]: the local variables of r's handler
    row,        \* row[r]: the agent_executions row r inserted
    answer      \* answer[r]: the HTTP answer; .of names the row it shows

vars == <<now, contacts, data, request, pc, local, row, answer>>

RequestInput == [contact : Contacts, agent : Agents, user : Users,
                 key : Keys \cup {NoKey}]

\* Where a request is: in begin(), past its reservation, or over.
Reserving == {"contact", "key", "active", "cooldown", "limits", "insert",
              "rekey", "reactive"}
InFlight == {"context", "llm", "print", "succeed", "fail"}
Labels == Reserving \cup InFlight \cup {"done", "lost"}

Fingerprints == 0..MaxVersion \cup {NoFingerprint}

\* begunAt: when the transaction started; checkedAt: begin()'s local "now";
\* seen: the version the agent read; cause: why the run failed.
Locals == [begunAt : 0..MaxTime, checkedAt : 0..MaxTime, seen : 0..MaxVersion,
           print : Fingerprints, cause : {"none", "not_found", "llm_error"}]

Terminal == {"succeeded", "failed"}

Rows == [status : {"absent", "running"} \cup Terminal,
         contact : Contacts \cup {NoContact},
         createdAt : 0..MaxTime, completedAt : 0..MaxTime,
         fingerprint : Fingerprints,
         output : {"none", "running", "result", "not_found", "llm_error"},
         human : HumanActions \cup {"none"}]

Refusals == {"not_found", "cooldown", "rate_limited", "key_reused",
             "key_failed", "conflict"}

Kinds == Refusals \cup {"none", "in_progress", "replayed", "result", "failure"}

Answers == [kind : Kinds, of : Requests]

NoRow == [status |-> "absent", contact |-> NoContact, createdAt |-> 0,
          completedAt |-> 0, fingerprint |-> NoFingerprint,
          output |-> "none", human |-> "none"]

Init ==
    /\ now = 0
    /\ contacts = Contacts
    /\ data = [c \in Contacts |-> 0]
    /\ request \in [Requests -> RequestInput]
    /\ pc = [r \in Requests |-> "contact"]
    /\ local = [r \in Requests |-> [begunAt |-> 0, checkedAt |-> 0, seen |-> 0,
                                    print |-> NoFingerprint, cause |-> "none"]]
    /\ row = [r \in Requests |-> NoRow]
    /\ answer = [r \in Requests |-> [kind |-> "none", of |-> r]]

-----------------------------------------------------------------------------
(* What the queries of AgentExecutionRepository return.                    *)

Exists(e) == row[e].status # "absent"

\* get_by_idempotency_key for the key r sent.
Keyed(r) == {e \in Requests : Exists(e) /\ request[e].key = request[r].key}

\* get_active for the contact and agent of r.  "queued" is in the code's
\* list of active statuses, but nothing writes it.
ActiveFor(r) == {e \in Requests : /\ row[e].status = "running"
                                  /\ row[e].contact = request[r].contact
                                  /\ request[e].agent = request[r].agent}

Succeeded(c, a) == {e \in Requests : /\ row[e].status = "succeeded"
                                     /\ row[e].contact = c
                                     /\ request[e].agent = a}

\* Mutant: the order reversed, the oldest run taken for the latest.
LatestSucceededAscending(c, a) ==
    {e \in Succeeded(c, a) :
        \A f \in Succeeded(c, a) : row[f].createdAt >= row[e].createdAt}

\* get_latest_succeeded: ORDER BY created_at DESC LIMIT 1; any of a tie.
LatestSucceeded(c, a) ==
    {e \in Succeeded(c, a) :
        \A f \in Succeeded(c, a) : row[f].createdAt <= row[e].createdAt}

\* count_since: rows created at or after t, out of the rows of S.
CountSince(t, S) == Cardinality({e \in S : Exists(e) /\ row[e].createdAt >= t})

ByUser(u) == {e \in Requests : request[e].user = u}

ByContactAgent(c, a) == {e \in Requests : row[e].contact = c /\ request[e].agent = a}

\* Mutant: the remaining time is rounded down.
RetryAfterTruncated(e, t) ==
    LET left == row[e].createdAt + Cooldown - t
    IN  IF left > 0 THEN left ELSE 0

\* Whole seconds a client must still wait at time t (0: go ahead).
RetryAfter(e, t) ==
    LET left == row[e].createdAt + Cooldown - t + 1
    IN  IF left > 0 THEN left ELSE 0

CoolingDown(r, t) ==
    /\ Cooldown > 0
    /\ \E e \in LatestSucceeded(request[r].contact, request[r].agent) :
           RetryAfter(e, t) > 0

\* Mutant: one more than the limit.
ExceedsStrictly(limit, current) == limit > 0 /\ current > limit

Exceeds(limit, current) == limit > 0 /\ current >= limit

RateLimited(r, t) ==
    \/ Exceeds(UserLimit, CountSince(t - Minute, ByUser(request[r].user)))
    \/ Exceeds(OrgLimit, CountSince(t - Minute, Requests))
    \/ Exceeds(ContactLimit,
               CountSince(t - Hour, ByContactAgent(request[r].contact, request[r].agent)))

\* Mutants: an index is missing, and only the reads made before guard it.
InsertableWithoutSlotIndex(r) ==
    /\ request[r].contact \in contacts
    /\ request[r].key = NoKey \/ Keyed(r) = {}

InsertableWithoutKeyIndex(r) ==
    /\ request[r].contact \in contacts
    /\ ActiveFor(r) = {}

\* The two partial unique indexes and the foreign key on contact_id accept
\* r's row.
Insertable(r) ==
    /\ request[r].contact \in contacts
    /\ ActiveFor(r) = {}
    /\ request[r].key = NoKey \/ Keyed(r) = {}

-----------------------------------------------------------------------------
(* Steps of one request.                                                   *)

GoTo(r, label) == pc' = [pc EXCEPT ![r] = label] /\ UNCHANGED answer

Reply(r, kind, e) ==
    /\ pc' = [pc EXCEPT ![r] = "done"]
    /\ answer' = [answer EXCEPT ![r] = [kind |-> kind, of |-> e]]

crm == <<now, contacts, data, request>>

\* Mutant: the key alone is taken to identify the request.
SameAnalysisByAgent(r, e) == request[e].agent = request[r].agent

SameAnalysis(r, e) ==
    /\ row[e].contact = request[r].contact
    /\ request[e].agent = request[r].agent
    /\ request[e].user = request[r].user

\* _resolve_idempotent_execution
Resolve(r, e) ==
    \/ ~SameAnalysis(r, e) /\ Reply(r, "key_reused", r)
    \/ /\ SameAnalysis(r, e)
       /\ \/ row[e].status = "succeeded" /\ Reply(r, "replayed", e)
          \/ row[e].status = "running" /\ Reply(r, "in_progress", e)
          \/ row[e].status = "failed" /\ Reply(r, "key_failed", r)

\* The request's transaction starts (created_at will be its start: the column
\* default is the database's now()), then begin() looks the contact up.
CheckContact(r) ==
    /\ pc[r] = "contact"
    /\ local' = [local EXCEPT ![r].begunAt = now]
    /\ \/ /\ request[r].contact \in contacts
          /\ GoTo(r, IF request[r].key = NoKey THEN "active" ELSE "key")
       \/ /\ request[r].contact \notin contacts
          /\ Reply(r, "not_found", r)
    /\ UNCHANGED <<crm, row>>

LookupKey(r) ==
    /\ pc[r] = "key"
    /\ \/ \E e \in Keyed(r) : Resolve(r, e)
       \/ Keyed(r) = {} /\ GoTo(r, "active")
    /\ UNCHANGED <<crm, local, row>>

LookupActive(r) ==
    /\ pc[r] = "active"
    /\ \/ \E e \in ActiveFor(r) : Reply(r, "in_progress", e)
       \/ ActiveFor(r) = {} /\ GoTo(r, "cooldown")
    /\ UNCHANGED <<crm, local, row>>

CheckCooldown(r) ==
    /\ pc[r] = "cooldown"
    /\ local' = [local EXCEPT ![r].checkedAt = now]
    /\ \/ CoolingDown(r, now) /\ Reply(r, "cooldown", r)
       \/ ~CoolingDown(r, now) /\ GoTo(r, "limits")
    /\ UNCHANGED <<crm, row>>

CheckRateLimits(r) ==
    /\ pc[r] = "limits"
    /\ \/ RateLimited(r, local[r].checkedAt) /\ Reply(r, "rate_limited", r)
       \/ ~RateLimited(r, local[r].checkedAt) /\ GoTo(r, "insert")
    /\ UNCHANGED <<crm, local, row>>

NewRow(r) == [NoRow EXCEPT !.status = "running",
                           !.contact = request[r].contact,
                           !.createdAt = local[r].begunAt,
                           !.output = "running"]

\* INSERT and COMMIT.  On IntegrityError the transaction is rolled back and
\* the key and the active row are looked up again.
Reserve(r) ==
    /\ pc[r] = "insert"
    /\ \/ /\ Insertable(r)
          /\ row' = [row EXCEPT ![r] = NewRow(r)]
          /\ GoTo(r, "context")
       \/ /\ ~Insertable(r)
          /\ GoTo(r, IF request[r].key = NoKey THEN "reactive" ELSE "rekey")
          /\ UNCHANGED row
    /\ UNCHANGED <<crm, local>>

RecheckKey(r) ==
    /\ pc[r] = "rekey"
    /\ \/ \E e \in Keyed(r) : Resolve(r, e)
       \/ Keyed(r) = {} /\ GoTo(r, "reactive")
    /\ UNCHANGED <<crm, local, row>>

\* Mutant: the insert is tried again instead of giving up.
RecheckActiveRetrying(r) ==
    /\ pc[r] = "reactive"
    /\ \/ \E e \in ActiveFor(r) : Reply(r, "in_progress", e)
       \/ ActiveFor(r) = {} /\ GoTo(r, "insert")
    /\ UNCHANGED <<crm, local, row>>

\* When the row that won the slot is gone from it already, the
\* IntegrityError is raised again and becomes a 409.
RecheckActive(r) ==
    /\ pc[r] = "reactive"
    /\ \/ \E e \in ActiveFor(r) : Reply(r, "in_progress", e)
       \/ ActiveFor(r) = {} /\ Reply(r, "conflict", r)
    /\ UNCHANGED <<crm, local, row>>

\* Mutant: the 404 is not caught and the reservation is left behind.
ReadContextUncaught(r) ==
    /\ pc[r] = "context"
    /\ \/ /\ request[r].contact \in contacts
          /\ local' = [local EXCEPT ![r].seen = data[request[r].contact]]
          /\ GoTo(r, "llm")
       \/ /\ request[r].contact \notin contacts
          /\ Reply(r, "not_found", r)
          /\ UNCHANGED local
    /\ UNCHANGED <<crm, row>>

\* AIGateway.run: the agent reads the LeadContext.  A contact that was
\* deleted since begin() raises the 404, which the handler's second except
\* clause catches.
ReadContext(r) ==
    /\ pc[r] = "context"
    /\ \/ /\ request[r].contact \in contacts
          /\ local' = [local EXCEPT ![r].seen = data[request[r].contact]]
          /\ GoTo(r, "llm")
       \/ /\ request[r].contact \notin contacts
          /\ local' = [local EXCEPT ![r].cause = "not_found"]
          /\ GoTo(r, "fail")
    /\ UNCHANGED <<crm, row>>

\* The provider answers, or times out, is unavailable or returns output that
\* does not validate.
CallProvider(r) ==
    /\ pc[r] = "llm"
    /\ \/ GoTo(r, "print") /\ UNCHANGED local
       \/ GoTo(r, "fail") /\ local' = [local EXCEPT ![r].cause = "llm_error"]
    /\ UNCHANGED <<crm, row>>

\* compute_context_fingerprint; whatever it raises is swallowed.
ComputeFingerprint(r) ==
    /\ pc[r] = "print"
    /\ \/ /\ request[r].contact \in contacts
          /\ local' = [local EXCEPT ![r].print = data[request[r].contact]]
       \/ local' = [local EXCEPT ![r].print = NoFingerprint]
    /\ GoTo(r, "succeed")
    /\ UNCHANGED <<crm, row>>

CompleteSuccess(r) ==
    /\ pc[r] = "succeed"
    /\ row' = [row EXCEPT ![r] = [@ EXCEPT !.status = "succeeded",
                                           !.output = "result",
                                           !.fingerprint = local[r].print,
                                           !.completedAt = now]]
    /\ Reply(r, "result", r)
    /\ UNCHANGED <<crm, local>>

CompleteFailure(r) ==
    /\ pc[r] = "fail"
    /\ row' = [row EXCEPT ![r] = [@ EXCEPT !.status = "failed",
                                           !.output = local[r].cause,
                                           !.fingerprint = NoFingerprint,
                                           !.completedAt = now]]
    /\ Reply(r, "failure", r)
    /\ UNCHANGED <<crm, local>>

Step(r) ==
    \/ CheckContact(r) \/ LookupKey(r) \/ LookupActive(r) \/ CheckCooldown(r)
    \/ CheckRateLimits(r) \/ Reserve(r) \/ RecheckKey(r) \/ RecheckActive(r)
    \/ ReadContext(r) \/ CallProvider(r) \/ ComputeFingerprint(r)
    \/ CompleteSuccess(r) \/ CompleteFailure(r)

-----------------------------------------------------------------------------
(* The rest of the world.                                                  *)

\* The process running r dies, or the commit of complete_success or
\* complete_failure raises: r's thread ends and nothing repairs its row.
Lose(r) ==
    /\ pc[r] \notin {"done", "lost"}
    /\ Cardinality({q \in Requests : pc[q] = "lost"}) < MaxLost
    /\ GoTo(r, "lost")
    /\ UNCHANGED <<crm, local, row>>

\* Somebody edits what the CRM knows about c.
EditContact(c) ==
    /\ c \in contacts /\ data[c] < MaxVersion
    /\ data' = [data EXCEPT ![c] = @ + 1]
    /\ UNCHANGED <<now, contacts, request, pc, local, row, answer>>

\* DELETE /contacts/{c}: the foreign key of its executions becomes NULL.
DeleteContact(c) ==
    /\ c \in contacts
    /\ contacts' = contacts \ {c}
    /\ row' = [e \in Requests |-> IF row[e].contact = c
                                    THEN [row[e] EXCEPT !.contact = NoContact]
                                    ELSE row[e]]
    /\ UNCHANGED <<now, data, request, pc, local, answer>>

\* PATCH /ai/agent-executions/{e}; any status will do.
SetHumanAction(e, action) ==
    /\ Exists(e)
    /\ row' = [row EXCEPT ![e].human = action]
    /\ UNCHANGED <<now, contacts, data, request, pc, local, answer>>

Tick ==
    /\ now < MaxTime
    /\ now' = now + 1
    /\ UNCHANGED <<contacts, data, request, pc, local, row, answer>>

\* Every client has its answer (or never will): nothing has to happen.
Quiet == (\A r \in Requests : pc[r] \in {"done", "lost"}) /\ UNCHANGED vars

Next ==
    \/ \E r \in Requests : Step(r) \/ Lose(r)
    \/ \E c \in Contacts : EditContact(c) \/ DeleteContact(c)
    \/ \E e \in Requests, h \in HumanActions : SetHumanAction(e, h)
    \/ Tick
    \/ Quiet

Spec == Init /\ [][Next]_vars

\* The server keeps running the threads it does not lose; both providers put
\* a timeout on the call.
FairSpec == Spec /\ \A r \in Requests : WF_vars(Step(r))

-----------------------------------------------------------------------------
(* What GET /ai/agent-executions/latest shows.                             *)

IsStale(e) ==
    /\ row[e].fingerprint # NoFingerprint
    /\ row[e].fingerprint # data[row[e].contact]

ShownAsLatest ==
    UNION {LatestSucceeded(c, a) : c \in contacts, a \in Agents}

-----------------------------------------------------------------------------
(* Properties.                                                             *)

\* Every variable keeps the type its comment gives it.
TypeOK ==
    /\ now \in 0..MaxTime
    /\ contacts \subseteq Contacts
    /\ data \in [Contacts -> 0..MaxVersion]
    /\ request \in [Requests -> RequestInput]
    /\ pc \in [Requests -> Labels]
    /\ local \in [Requests -> Locals]
    /\ row \in [Requests -> Rows]
    /\ answer \in [Requests -> Answers]

\* Single flight: two requests are never past their reservation for the same
\* contact and agent, so at most one of them can be talking to the provider.
\* Not the unique index alone: deleting the contact takes its rows out of it.
OneCallPerSlot ==
    \A r, q \in Requests :
        /\ r # q
        /\ pc[r] \in InFlight /\ pc[q] \in InFlight
        => \/ request[r].contact # request[q].contact
           \/ request[r].agent # request[q].agent

\* An idempotency key pays for at most one execution, however its requests
\* interleave, fail or are retried.
OneRunPerKey ==
    \A r, q \in Requests :
        r # q /\ Exists(r) /\ Exists(q) /\ request[r].key # NoKey
        => request[r].key # request[q].key

\* A client sent to somebody else's execution (202, or a replayed result) is
\* sent to an execution of the contact and agent it asked for; a replay is a
\* finished run of the same user under the same key.
AnswersMatch ==
    \A r \in Requests :
        LET e == answer[r].of
        IN  /\ answer[r].kind \in {"in_progress", "replayed"} =>
                   /\ e # r /\ Exists(e)
                   /\ request[e].contact = request[r].contact
                   /\ request[e].agent = request[r].agent
            /\ answer[r].kind = "replayed" =>
                   /\ row[e].status = "succeeded"
                   /\ request[e].user = request[r].user
                   /\ request[e].key = request[r].key

\* The table tells what happened: a result or a failure the client got is in
\* its row, a refused or redirected request left none, and a row still says
\* "running" only while its request is under way - or was lost.
OutcomeRecorded ==
    \A r \in Requests :
        /\ answer[r].kind = "result" => row[r].status = "succeeded"
        /\ answer[r].kind = "failure" => row[r].status = "failed"
        /\ answer[r].kind \in Refusals \cup {"in_progress", "replayed"} => ~Exists(r)
        /\ row[r].status = "running" => pc[r] \in InFlight \cup {"lost"}

\* The row of a request against the steps of its handler: none before the
\* INSERT, running until the run completes; and no answer before the end.
RowFollowsStep ==
    \A r \in Requests :
        /\ pc[r] \in Reserving => row[r].status = "absent"
        /\ pc[r] \in InFlight => row[r].status = "running"
        /\ pc[r] # "done" => answer[r] = [kind |-> "none", of |-> r]

\* A row names the contact asked for, until that contact is deleted.
RowNamesContact ==
    \A r \in Requests : Exists(r) =>
        \/ row[r].contact = request[r].contact
        \/ row[r].contact = NoContact /\ request[r].contact \notin contacts

\* What the unique index on running rows comes to once contacts are deleted:
\* a running row keeps its contact and agent to itself even without its contact.
OneRunningRow ==
    \A r, q \in Requests :
        /\ r # q
        /\ row[r].status = "running" /\ row[q].status = "running"
        => \/ request[r].contact # request[q].contact
           \/ request[r].agent # request[q].agent

\* The inductive invariant behind the theorems of AgentExecutionProofs: why
\* the indexes and the order of begin()'s reads give single flight and
\* answers that match, contacts deleted at any moment.
ReservationInv ==
    /\ TypeOK
    /\ RowFollowsStep
    /\ RowNamesContact
    /\ OneRunningRow
    /\ OneRunPerKey
    /\ OutcomeRecorded
    /\ AnswersMatch

\* What an execution said is history: once it ended, no later step (another
\* request, a reaction, a deleted contact) rewrites or erases it.
History ==
    [][\A e \in Requests :
          row[e].status \in Terminal =>
              /\ row'[e].status = row[e].status
              /\ row'[e].output = row[e].output
              /\ row'[e].fingerprint = row[e].fingerprint
              /\ row'[e].createdAt = row[e].createdAt]_row

\* Clients that do not overlap: a request reaches begin() only when no other is
\* in it, and the clock stands still meanwhile (begin() is a few queries).  Runs
\* that are past begin() go on.
InBegin == {r \in Requests : pc[r] \in Reserving \ {"contact"}}

Serial == InBegin # {} => UNCHANGED now /\ InBegin' \subseteq InBegin

SerialSpec == Init /\ [][Next /\ Serial]_vars

\* Rows that count against the limits when row r is created.
Recent(r, window, S) ==
    {e \in S : Exists(e) /\ row[e].createdAt \in (row[r].createdAt - window)..row[r].createdAt}

Within(limit, S) == limit > 0 => Cardinality(S) <= limit

\* The cost boundary: no window ever holds more executions of a user, of the
\* organization, or of a contact and agent than the configured limit.
RateLimitsHeld ==
    \A r \in Requests : Exists(r) =>
        /\ Within(UserLimit, Recent(r, Minute, ByUser(request[r].user)))
        /\ Within(OrgLimit, Recent(r, Minute, Requests))
        /\ row[r].contact # NoContact =>
               Within(ContactLimit,
                      Recent(r, Hour, ByContactAgent(row[r].contact, request[r].agent)))

SameSlot(e, f) == row[e].contact = row[f].contact /\ row[e].contact # NoContact
                  /\ request[e].agent = request[f].agent

\* A run that starts after a successful one of its contact and agent ended
\* starts more than Cooldown after that one was reserved.
CooldownHeld ==
    \A e, f \in Requests :
        /\ e # f /\ Cooldown > 0
        /\ Exists(e) /\ row[f].status = "succeeded" /\ SameSlot(e, f)
        /\ local[e].begunAt > row[f].completedAt
        => row[e].createdAt > row[f].createdAt + Cooldown

\* Spending is bounded: by the limits of every window, and by the cooldown.
LimitsHeld == RateLimitsHeld /\ CooldownHeld

\* The run shown as the latest finished no earlier than the others.
LatestIsLastCompleted ==
    \A c \in contacts, a \in Agents :
        \A e \in LatestSucceeded(c, a), f \in Succeeded(c, a) :
            row[f].createdAt # row[e].createdAt
            => row[f].completedAt <= row[e].completedAt

\* Every request is answered unless its thread is lost.
EveryRequestAnswered ==
    \A r \in Requests : <>(pc[r] \in {"done", "lost"})

\* Every reservation is given back unless its thread is lost.
SlotReleased ==
    \A r \in Requests :
        row[r].status = "running" ~> (row[r].status \in Terminal \/ pc[r] = "lost")

\* The ledger this module implements.
Ledger == INSTANCE ExecutionLedger WITH
    outcome <- [r \in Requests |->
                   IF row[r].status = "absent" THEN "none" ELSE row[r].status],
    shown <- [r \in Requests |-> answer[r].of]

\* Every behaviour of the reservation is one the ledger allows.
ImplementsLedger == Ledger!Spec

=============================================================================
