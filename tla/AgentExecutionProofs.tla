------------------------ MODULE AgentExecutionProofs ------------------------
(***************************************************************************)
(* Proofs about AgentExecution, for any number of requests, contacts and   *)
(* keys and any values of the limits.                                      *)
(***************************************************************************)
EXTENDS AgentExecution, FiniteSetTheorems, TLAPS

-----------------------------------------------------------------------------
(* What the helpers of the steps do to pc and answer.                      *)

\* Going to a step of the handler keeps the types.
LEMMA GoToTyped ==
    ASSUME TypeOK, NEW r \in Requests, NEW l \in Labels, GoTo(r, l)
    PROVE  pc' \in [Requests -> Labels] /\ answer' \in [Requests -> Answers]
  BY DEF TypeOK, GoTo

\* So does answering.
LEMMA ReplyTyped ==
    ASSUME TypeOK, NEW r \in Requests, NEW k \in Kinds, NEW e \in Requests,
           Reply(r, k, e)
    PROVE  pc' \in [Requests -> Labels] /\ answer' \in [Requests -> Answers]
  <1>1. "done" \in Labels
    BY DEF Labels
  <1>2. [kind |-> k, of |-> e] \in Answers
    BY DEF Answers
  <1>3. QED
    BY <1>1, <1>2 DEF TypeOK, Reply

\* And resolving an idempotency key.
LEMMA ResolveTyped ==
    ASSUME TypeOK, NEW r \in Requests, NEW e \in Requests, Resolve(r, e)
    PROVE  pc' \in [Requests -> Labels] /\ answer' \in [Requests -> Answers]
  BY ReplyTyped DEF Resolve, Kinds, Refusals

\* The row an INSERT writes has the type of a row.
LEMMA NewRowTyped ==
    ASSUME TypeOK, NEW r \in Requests
    PROVE  NewRow(r) \in Rows
  <1>1. request[r].contact \in Contacts
    BY DEF TypeOK, RequestInput
  <1>2. local[r].begunAt \in 0..MaxTime
    BY DEF TypeOK, Locals
  <1>3. 0 \in 0..MaxTime
    BY ConfigAssumption
  <1>4. QED
    BY <1>1, <1>2, <1>3 DEF NewRow, NoRow, Rows, Fingerprints

-----------------------------------------------------------------------------
(* Types.                                                                  *)

\* The initial state is well typed.
LEMMA InitTyped == Init => TypeOK
  <1> SUFFICES ASSUME Init PROVE TypeOK
    OBVIOUS
  <1>1. 0 \in 0..MaxTime /\ 0 \in 0..MaxVersion
    BY ConfigAssumption
  <1>2. "contact" \in Labels
    BY DEF Labels, Reserving
  <1>3. [begunAt |-> 0, checkedAt |-> 0, seen |-> 0,
         print |-> NoFingerprint, cause |-> "none"] \in Locals
    BY <1>1 DEF Locals, Fingerprints
  <1>4. NoRow \in Rows
    BY <1>1 DEF NoRow, Rows, Fingerprints
  <1>5. \A r \in Requests : [kind |-> "none", of |-> r] \in Answers
    BY DEF Answers, Kinds
  <1>6. QED
    BY <1>1, <1>2, <1>3, <1>4, <1>5 DEF Init, TypeOK

\* Every step keeps the types.
LEMMA NextTyped == TypeOK /\ [Next]_vars => TypeOK'
  <1> SUFFICES ASSUME TypeOK, [Next]_vars PROVE TypeOK'
    OBVIOUS
  <1>1. ASSUME NEW r \in Requests, CheckContact(r) PROVE TypeOK'
    <2>1. local' \in [Requests -> Locals]
      BY <1>1 DEF CheckContact, TypeOK, Locals
    <2>2. pc' \in [Requests -> Labels] /\ answer' \in [Requests -> Answers]
      <3>1. {"active", "key"} \subseteq Labels /\ "not_found" \in Kinds
        BY DEF Labels, Reserving, Kinds, Refusals
      <3>2. QED
        BY <1>1, <3>1, GoToTyped, ReplyTyped DEF CheckContact
    <2>3. QED
      BY <1>1, <2>1, <2>2 DEF CheckContact, TypeOK, crm
  <1>2. ASSUME NEW r \in Requests, LookupKey(r) PROVE TypeOK'
    <2>1. pc' \in [Requests -> Labels] /\ answer' \in [Requests -> Answers]
      BY <1>2, GoToTyped, ResolveTyped DEF LookupKey, Keyed, Labels, Reserving
    <2>2. QED
      BY <1>2, <2>1 DEF LookupKey, TypeOK, crm
  <1>3. ASSUME NEW r \in Requests, LookupActive(r) PROVE TypeOK'
    <2>1. pc' \in [Requests -> Labels] /\ answer' \in [Requests -> Answers]
      BY <1>3, GoToTyped, ReplyTyped
         DEF LookupActive, ActiveFor, Labels, Reserving, Kinds
    <2>2. QED
      BY <1>3, <2>1 DEF LookupActive, TypeOK, crm
  <1>4. ASSUME NEW r \in Requests, CheckCooldown(r) PROVE TypeOK'
    <2>1. local' \in [Requests -> Locals]
      BY <1>4 DEF CheckCooldown, TypeOK, Locals
    <2>2. pc' \in [Requests -> Labels] /\ answer' \in [Requests -> Answers]
      BY <1>4, GoToTyped, ReplyTyped
         DEF CheckCooldown, Labels, Reserving, Kinds, Refusals
    <2>3. QED
      BY <1>4, <2>1, <2>2 DEF CheckCooldown, TypeOK, crm
  <1>5. ASSUME NEW r \in Requests, CheckRateLimits(r) PROVE TypeOK'
    <2>1. pc' \in [Requests -> Labels] /\ answer' \in [Requests -> Answers]
      BY <1>5, GoToTyped, ReplyTyped
         DEF CheckRateLimits, Labels, Reserving, Kinds, Refusals
    <2>2. QED
      BY <1>5, <2>1 DEF CheckRateLimits, TypeOK, crm
  <1>6. ASSUME NEW r \in Requests, Reserve(r) PROVE TypeOK'
    <2>1. row' \in [Requests -> Rows]
      BY <1>6, NewRowTyped DEF Reserve, TypeOK
    <2>2. pc' \in [Requests -> Labels] /\ answer' \in [Requests -> Answers]
      <3>1. {"context", "reactive", "rekey"} \subseteq Labels
        BY DEF Labels, Reserving, InFlight
      <3>2. QED
        BY <1>6, <3>1, GoToTyped DEF Reserve
    <2>3. QED
      BY <1>6, <2>1, <2>2 DEF Reserve, TypeOK, crm
  <1>7. ASSUME NEW r \in Requests, RecheckKey(r) PROVE TypeOK'
    <2>1. pc' \in [Requests -> Labels] /\ answer' \in [Requests -> Answers]
      BY <1>7, GoToTyped, ResolveTyped DEF RecheckKey, Keyed, Labels, Reserving
    <2>2. QED
      BY <1>7, <2>1 DEF RecheckKey, TypeOK, crm
  <1>8. ASSUME NEW r \in Requests, RecheckActive(r) PROVE TypeOK'
    <2>1. pc' \in [Requests -> Labels] /\ answer' \in [Requests -> Answers]
      BY <1>8, ReplyTyped DEF RecheckActive, ActiveFor, Kinds, Refusals
    <2>2. QED
      BY <1>8, <2>1 DEF RecheckActive, TypeOK, crm
  <1>9. ASSUME NEW r \in Requests, ReadContext(r) PROVE TypeOK'
    <2>1. data[request[r].contact] \in 0..MaxVersion
      BY DEF TypeOK, RequestInput
    <2>2. local' \in [Requests -> Locals]
      <3>1. local[r] \in Locals
        BY DEF TypeOK
      <3>2. /\ [local[r] EXCEPT !.seen = data[request[r].contact]] \in Locals
            /\ [local[r] EXCEPT !.cause = "not_found"] \in Locals
        BY <2>1, <3>1 DEF Locals
      <3>3. QED
        BY <1>9, <3>2 DEF ReadContext, TypeOK
    <2>3. pc' \in [Requests -> Labels] /\ answer' \in [Requests -> Answers]
      BY <1>9, GoToTyped DEF ReadContext, Labels, InFlight
    <2>4. QED
      BY <1>9, <2>2, <2>3 DEF ReadContext, TypeOK, crm
  <1>10. ASSUME NEW r \in Requests, CallProvider(r) PROVE TypeOK'
    <2>1. local' \in [Requests -> Locals]
      BY <1>10 DEF CallProvider, TypeOK, Locals
    <2>2. pc' \in [Requests -> Labels] /\ answer' \in [Requests -> Answers]
      BY <1>10, GoToTyped DEF CallProvider, Labels, InFlight
    <2>3. QED
      BY <1>10, <2>1, <2>2 DEF CallProvider, TypeOK, crm
  <1>11. ASSUME NEW r \in Requests, ComputeFingerprint(r) PROVE TypeOK'
    <2>1. {data[request[r].contact], NoFingerprint} \subseteq Fingerprints
      BY DEF TypeOK, RequestInput, Fingerprints
    <2>2. local' \in [Requests -> Locals]
      <3>1. local[r] \in Locals
        BY DEF TypeOK
      <3>2. /\ [local[r] EXCEPT !.print = data[request[r].contact]] \in Locals
            /\ [local[r] EXCEPT !.print = NoFingerprint] \in Locals
        BY <2>1, <3>1 DEF Locals
      <3>3. QED
        BY <1>11, <3>2 DEF ComputeFingerprint, TypeOK
    <2>3. pc' \in [Requests -> Labels] /\ answer' \in [Requests -> Answers]
      BY <1>11, GoToTyped DEF ComputeFingerprint, Labels, InFlight
    <2>4. QED
      BY <1>11, <2>2, <2>3 DEF ComputeFingerprint, TypeOK, crm
  <1>12. ASSUME NEW r \in Requests, CompleteSuccess(r) PROVE TypeOK'
    <2>1. row' \in [Requests -> Rows]
      <3>1. row[r] \in Rows /\ local[r].print \in Fingerprints /\ now \in 0..MaxTime
        BY DEF TypeOK, Locals
      <3>2. [row[r] EXCEPT !.status = "succeeded", !.output = "result",
                           !.fingerprint = local[r].print,
                           !.completedAt = now] \in Rows
        BY <3>1 DEF Rows, Terminal
      <3>3. QED
        BY <1>12, <3>2 DEF CompleteSuccess, TypeOK
    <2>2. pc' \in [Requests -> Labels] /\ answer' \in [Requests -> Answers]
      BY <1>12, ReplyTyped DEF CompleteSuccess, Kinds
    <2>3. QED
      BY <1>12, <2>1, <2>2 DEF CompleteSuccess, TypeOK, crm
  <1>13. ASSUME NEW r \in Requests, CompleteFailure(r) PROVE TypeOK'
    <2>1. row' \in [Requests -> Rows]
      <3>1. row[r] \in Rows /\ now \in 0..MaxTime
        BY DEF TypeOK
      <3>2. local[r].cause \in {"none", "not_found", "llm_error"}
        BY DEF TypeOK, Locals
      <3>3. [row[r] EXCEPT !.status = "failed", !.output = local[r].cause,
                           !.fingerprint = NoFingerprint,
                           !.completedAt = now] \in Rows
        BY <3>1, <3>2 DEF Rows, Terminal, Fingerprints
      <3>4. QED
        BY <1>13, <3>3 DEF CompleteFailure, TypeOK
    <2>2. pc' \in [Requests -> Labels] /\ answer' \in [Requests -> Answers]
      BY <1>13, ReplyTyped DEF CompleteFailure, Kinds
    <2>3. QED
      BY <1>13, <2>1, <2>2 DEF CompleteFailure, TypeOK, crm
  <1>14. ASSUME NEW r \in Requests, Lose(r) PROVE TypeOK'
    <2>1. pc' \in [Requests -> Labels] /\ answer' \in [Requests -> Answers]
      BY <1>14, GoToTyped DEF Lose, Labels
    <2>2. QED
      BY <1>14, <2>1 DEF Lose, TypeOK, crm
  <1>15. ASSUME NEW c \in Contacts, EditContact(c) PROVE TypeOK'
    BY <1>15, ConfigAssumption DEF EditContact, TypeOK
  <1>16. ASSUME NEW c \in Contacts, DeleteContact(c) PROVE TypeOK'
    <2>1. row' \in [Requests -> Rows]
      BY <1>16 DEF DeleteContact, TypeOK, Rows
    <2>2. QED
      BY <1>16, <2>1 DEF DeleteContact, TypeOK
  <1>17. ASSUME NEW e \in Requests, NEW h \in HumanActions, SetHumanAction(e, h)
         PROVE  TypeOK'
    <2>1. row' \in [Requests -> Rows]
      BY <1>17 DEF SetHumanAction, TypeOK, Rows
    <2>2. QED
      BY <1>17, <2>1 DEF SetHumanAction, TypeOK
  <1>18. CASE Tick
    BY <1>18, ConfigAssumption DEF Tick, TypeOK
  <1>19. CASE UNCHANGED vars
    BY <1>19 DEF vars, TypeOK
  <1>20. QED
    BY <1>1, <1>2, <1>3, <1>4, <1>5, <1>6, <1>7, <1>8, <1>9, <1>10, <1>11, <1>12,
       <1>13, <1>14, <1>15, <1>16, <1>17, <1>18, <1>19 DEF Next, Step, Quiet

\* Every reachable state is well typed.
THEOREM Typing == Spec => []TypeOK
  BY InitTyped, NextTyped, PTL DEF Spec

-----------------------------------------------------------------------------
(* The kinds of steps.  Most steps of a handler only read: what the          *)
(* invariants are about changes in five of these eight kinds.                *)

Kept == row' = row /\ contacts' = contacts /\ request' = request

\* r goes on to another step of the same phase, or is lost.
Moves(r) ==
    /\ Kept /\ answer' = answer
    /\ \E l \in Labels :
           /\ pc' = [pc EXCEPT ![r] = l]
           /\ \/ pc[r] \in Reserving /\ l \in Reserving
              \/ pc[r] \in InFlight /\ l \in InFlight
              \/ pc[r] # "done" /\ l = "lost"

\* r is refused before it has a row.
Refuses(r) ==
    /\ Kept /\ pc[r] \in Reserving
    /\ \E k \in Refusals : Reply(r, k, r)

\* r is sent to the execution of e.
Redirects(r, e) ==
    /\ Kept /\ pc[r] \in Reserving
    /\ row[e].contact = request[r].contact
    /\ request[e].agent = request[r].agent
    /\ \/ row[e].status = "running" /\ Reply(r, "in_progress", e)
       \/ /\ row[e].status = "succeeded" /\ Reply(r, "replayed", e)
          /\ request[e].user = request[r].user
          /\ request[e].key = request[r].key

\* r inserts its row.
Inserts(r) ==
    /\ pc[r] \in Reserving /\ Insertable(r)
    /\ row' = [row EXCEPT ![r] = NewRow(r)]
    /\ GoTo(r, "context")
    /\ contacts' = contacts /\ request' = request

\* r ends its execution.
Completes(r) ==
    /\ pc[r] \in InFlight
    /\ \E new \in Rows, o \in Terminal :
           /\ new.status = o /\ new.contact = row[r].contact
           /\ row' = [row EXCEPT ![r] = new]
           /\ Reply(r, IF o = "succeeded" THEN "result" ELSE "failure", r)
    /\ contacts' = contacts /\ request' = request

\* Somebody reacts to the execution of e.
Reacts(e) ==
    /\ Exists(e)
    /\ \E h \in HumanActions : row' = [row EXCEPT ![e].human = h]
    /\ contacts' = contacts /\ request' = request /\ pc' = pc /\ answer' = answer

\* Nothing the invariants are about changes.
Idles == Kept /\ pc' = pc /\ answer' = answer

StepKind ==
    \/ \E r \in Requests : Moves(r) \/ Refuses(r) \/ Inserts(r) \/ Completes(r)
                          \/ Reacts(r)
    \/ \E r, e \in Requests : Redirects(r, e)
    \/ \E c \in Contacts : DeleteContact(c)
    \/ Idles

\* Resolving a key before the INSERT refuses the request or redirects it.
LEMMA ResolveKind ==
    ASSUME TypeOK, NEW r \in Requests, NEW e \in Keyed(r), Resolve(r, e),
           Kept, pc[r] \in Reserving
    PROVE  Refuses(r) \/ Redirects(r, e)
  BY DEF Resolve, Keyed, SameAnalysis, Refuses, Redirects, Refusals

\* Every step is of one of these kinds.
LEMMA StepKinds == TypeOK /\ [Next]_vars => StepKind
  <1> SUFFICES ASSUME TypeOK, [Next]_vars PROVE StepKind
    OBVIOUS
  <1>1. ASSUME NEW r \in Requests, CheckContact(r) PROVE StepKind
    BY <1>1 DEF CheckContact, crm, GoTo, Kept, Moves, Refuses, StepKind,
                Labels, Reserving, Refusals
  <1>2. ASSUME NEW r \in Requests, LookupKey(r) PROVE StepKind
    <2>1. Kept /\ pc[r] \in Reserving
      BY <1>2 DEF LookupKey, crm, Kept, Reserving
    <2>2. CASE \E e \in Keyed(r) : Resolve(r, e)
      BY <2>1, <2>2, ResolveKind DEF StepKind, Keyed
    <2>3. CASE GoTo(r, "active")
      BY <2>1, <2>3 DEF GoTo, Moves, StepKind, Labels, Reserving
    <2>4. QED
      BY <1>2, <2>2, <2>3 DEF LookupKey
  <1>3. ASSUME NEW r \in Requests, LookupActive(r) PROVE StepKind
    BY <1>3 DEF LookupActive, ActiveFor, crm, GoTo, Kept, Moves, Redirects,
                StepKind, Labels, Reserving
  <1>4. ASSUME NEW r \in Requests, CheckCooldown(r) PROVE StepKind
    BY <1>4 DEF CheckCooldown, crm, GoTo, Kept, Moves, Refuses, StepKind,
                Labels, Reserving, Refusals
  <1>5. ASSUME NEW r \in Requests, CheckRateLimits(r) PROVE StepKind
    BY <1>5 DEF CheckRateLimits, crm, GoTo, Kept, Moves, Refuses, StepKind,
                Labels, Reserving, Refusals
  <1>6. ASSUME NEW r \in Requests, Reserve(r) PROVE StepKind
    BY <1>6 DEF Reserve, crm, GoTo, Kept, Moves, Inserts, StepKind,
                Labels, Reserving
  <1>7. ASSUME NEW r \in Requests, RecheckKey(r) PROVE StepKind
    <2>1. Kept /\ pc[r] \in Reserving
      BY <1>7 DEF RecheckKey, crm, Kept, Reserving
    <2>2. CASE \E e \in Keyed(r) : Resolve(r, e)
      BY <2>1, <2>2, ResolveKind DEF StepKind, Keyed
    <2>3. CASE GoTo(r, "reactive")
      BY <2>1, <2>3 DEF GoTo, Moves, StepKind, Labels, Reserving
    <2>4. QED
      BY <1>7, <2>2, <2>3 DEF RecheckKey
  <1>8. ASSUME NEW r \in Requests, RecheckActive(r) PROVE StepKind
    BY <1>8 DEF RecheckActive, ActiveFor, crm, Kept, Refuses, Redirects,
                StepKind, Reserving, Refusals
  <1>9. ASSUME NEW r \in Requests, ReadContext(r) PROVE StepKind
    BY <1>9 DEF ReadContext, crm, GoTo, Kept, Moves, StepKind, Labels, InFlight
  <1>10. ASSUME NEW r \in Requests, CallProvider(r) PROVE StepKind
    BY <1>10 DEF CallProvider, crm, GoTo, Kept, Moves, StepKind, Labels, InFlight
  <1>11. ASSUME NEW r \in Requests, ComputeFingerprint(r) PROVE StepKind
    BY <1>11 DEF ComputeFingerprint, crm, GoTo, Kept, Moves, StepKind, Labels,
                 InFlight
  <1>12. ASSUME NEW r \in Requests, CompleteSuccess(r) PROVE StepKind
    <2> DEFINE new == [row[r] EXCEPT !.status = "succeeded", !.output = "result",
                                     !.fingerprint = local[r].print,
                                     !.completedAt = now]
    <2>1. row[r] \in Rows /\ local[r].print \in Fingerprints /\ now \in 0..MaxTime
      BY DEF TypeOK, Locals
    <2>2. new \in Rows /\ new.status = "succeeded" /\ new.contact = row[r].contact
      BY <2>1 DEF Rows, Terminal
    <2>3. pc[r] \in InFlight /\ "succeeded" \in Terminal
      BY <1>12 DEF CompleteSuccess, InFlight, Terminal
    <2>4. row' = [row EXCEPT ![r] = new] /\ Reply(r, "result", r)
      BY <1>12 DEF CompleteSuccess
    <2>5. Completes(r)
      BY <1>12, <2>2, <2>3, <2>4 DEF CompleteSuccess, Completes, crm
    <2>6. QED
      BY <2>5 DEF StepKind
  <1>13. ASSUME NEW r \in Requests, CompleteFailure(r) PROVE StepKind
    <2> DEFINE new == [row[r] EXCEPT !.status = "failed", !.output = local[r].cause,
                                     !.fingerprint = NoFingerprint,
                                     !.completedAt = now]
    <2>1. /\ row[r] \in Rows /\ now \in 0..MaxTime
          /\ local[r].cause \in {"none", "not_found", "llm_error"}
      BY DEF TypeOK, Locals
    <2>2. new \in Rows /\ new.status = "failed" /\ new.contact = row[r].contact
      BY <2>1 DEF Rows, Terminal, Fingerprints
    <2>3. pc[r] \in InFlight /\ "failed" \in Terminal /\ "failed" # "succeeded"
      BY <1>13 DEF CompleteFailure, InFlight, Terminal
    <2>4. row' = [row EXCEPT ![r] = new] /\ Reply(r, "failure", r)
      BY <1>13 DEF CompleteFailure
    <2>5. Completes(r)
      BY <1>13, <2>2, <2>3, <2>4 DEF CompleteFailure, Completes, crm
    <2>6. QED
      BY <2>5 DEF StepKind
  <1>14. ASSUME NEW r \in Requests, Lose(r) PROVE StepKind
    BY <1>14 DEF Lose, crm, GoTo, Kept, Moves, StepKind, Labels
  <1>15. ASSUME NEW c \in Contacts, EditContact(c) PROVE StepKind
    BY <1>15 DEF EditContact, Kept, Idles, StepKind
  <1>16. ASSUME NEW c \in Contacts, DeleteContact(c) PROVE StepKind
    BY <1>16 DEF StepKind
  <1>17. ASSUME NEW e \in Requests, NEW h \in HumanActions, SetHumanAction(e, h)
         PROVE  StepKind
    BY <1>17 DEF SetHumanAction, Reacts, StepKind
  <1>18. CASE Tick \/ UNCHANGED vars
    BY <1>18 DEF Tick, vars, Kept, Idles, StepKind
  <1>19. QED
    BY <1>1, <1>2, <1>3, <1>4, <1>5, <1>6, <1>7, <1>8, <1>9, <1>10, <1>11, <1>12,
       <1>13, <1>14, <1>15, <1>16, <1>17, <1>18 DEF Next, Step, Quiet

-----------------------------------------------------------------------------
(* Each kind of step keeps the inductive invariant.                        *)

\* Initially nothing is reserved.
LEMMA InitReservation == Init => ReservationInv
  <1> SUFFICES ASSUME Init PROVE ReservationInv
    OBVIOUS
  <1>1. TypeOK
    BY InitTyped
  <1>2. \A r \in Requests : row[r].status = "absent" /\ pc[r] = "contact"
                            /\ answer[r] = [kind |-> "none", of |-> r]
                            /\ answer[r].kind = "none"
    BY DEF Init, NoRow
  <1>3. RowFollowsStep
    BY <1>2 DEF RowFollowsStep, InFlight
  <1>4. RowNamesContact /\ OneRunningRow /\ OneRunPerKey
    BY <1>2 DEF RowNamesContact, OneRunningRow, OneRunPerKey, Exists
  <1>5. OutcomeRecorded
    BY <1>2 DEF OutcomeRecorded, Refusals
  <1>6. AnswersMatch
    BY <1>2 DEF AnswersMatch
  <1>7. QED
    BY <1>1, <1>3, <1>4, <1>5, <1>6 DEF ReservationInv

\* A move changes no row and no answer.
LEMMA MovesReservation ==
    ASSUME ReservationInv, TypeOK', NEW r \in Requests, Moves(r)
    PROVE  ReservationInv'
  <1>1. pc \in [Requests -> Labels]
    BY DEF ReservationInv, TypeOK
  <1>2. RowFollowsStep'
    BY <1>1 DEF ReservationInv, RowFollowsStep, Moves, Kept, Reserving, InFlight
  <1>3. RowNamesContact' /\ OneRunningRow' /\ OneRunPerKey' /\ AnswersMatch'
    BY DEF ReservationInv, RowNamesContact, OneRunningRow, OneRunPerKey,
           AnswersMatch, Exists, Moves, Kept
  <1>4. OutcomeRecorded'
    BY <1>1 DEF ReservationInv, OutcomeRecorded, RowFollowsStep, Exists, Moves,
                Kept, Reserving, InFlight
  <1>5. QED
    BY <1>2, <1>3, <1>4 DEF ReservationInv

\* A refused request has no row, and its answer says so.
LEMMA RefusesReservation ==
    ASSUME ReservationInv, TypeOK', NEW r \in Requests, Refuses(r)
    PROVE  ReservationInv'
  <1>1. pc \in [Requests -> Labels] /\ answer \in [Requests -> Answers]
    BY DEF ReservationInv, TypeOK
  <1>2. row[r].status = "absent"
    BY DEF ReservationInv, RowFollowsStep, Refuses
  <1>3. PICK k \in Refusals : Reply(r, k, r)
    BY DEF Refuses
  <1>4. RowFollowsStep'
    BY <1>1, <1>2, <1>3 DEF ReservationInv, RowFollowsStep, Refuses, Reply, Kept,
                            Reserving, InFlight
  <1>5. RowNamesContact' /\ OneRunningRow' /\ OneRunPerKey'
    BY DEF ReservationInv, RowNamesContact, OneRunningRow, OneRunPerKey, Exists,
           Refuses, Kept
  <1>6. OutcomeRecorded'
    BY <1>1, <1>2, <1>3 DEF ReservationInv, OutcomeRecorded, Exists, Refuses,
                            Reply, Kept, Refusals
  <1>7. AnswersMatch'
    BY <1>1, <1>3 DEF ReservationInv, AnswersMatch, Exists, Refuses, Reply, Kept,
                      Refusals
  <1>8. QED
    BY <1>4, <1>5, <1>6, <1>7 DEF ReservationInv

\* The execution r is sent to is somebody else's, of the contact r asked for.
LEMMA RedirectsReservation ==
    ASSUME ReservationInv, TypeOK', NEW r \in Requests, NEW e \in Requests,
           Redirects(r, e)
    PROVE  ReservationInv'
  <1>1. pc \in [Requests -> Labels] /\ answer \in [Requests -> Answers]
    BY DEF ReservationInv, TypeOK
  <1>2. row[r].status = "absent" /\ Exists(e) /\ e # r
    BY DEF ReservationInv, RowFollowsStep, Redirects, Exists
  <1>3. request[e].contact = request[r].contact
    <2>1. request[r].contact # NoContact
      BY SentinelAssumption DEF ReservationInv, TypeOK, RequestInput
    <2>2. QED
      BY <1>2, <2>1 DEF ReservationInv, RowNamesContact, Redirects
  <1>4. RowFollowsStep'
    BY <1>1, <1>2 DEF ReservationInv, RowFollowsStep, Redirects, Reply, Kept,
                      Reserving, InFlight
  <1>5. RowNamesContact' /\ OneRunningRow' /\ OneRunPerKey'
    BY DEF ReservationInv, RowNamesContact, OneRunningRow, OneRunPerKey, Exists,
           Redirects, Kept
  <1>6. OutcomeRecorded'
    BY <1>1, <1>2 DEF ReservationInv, OutcomeRecorded, Exists, Redirects, Reply,
                      Kept, Refusals
  <1>7. AnswersMatch'
    BY <1>1, <1>2, <1>3 DEF ReservationInv, AnswersMatch, Exists, Redirects,
                            Reply, Kept
  <1>8. QED
    BY <1>4, <1>5, <1>6, <1>7 DEF ReservationInv

\* The indexes see every row that a new one could collide with: the rows of a
\* deleted contact are out of the index, but then the foreign key refuses.
LEMMA InsertsReservation ==
    ASSUME ReservationInv, TypeOK', NEW r \in Requests, Inserts(r)
    PROVE  ReservationInv'
  <1>1. /\ pc \in [Requests -> Labels] /\ row \in [Requests -> Rows]
        /\ request[r].contact \in contacts
    BY DEF ReservationInv, TypeOK, Inserts, Insertable
  <1>2. /\ row[r].status = "absent"
        /\ answer[r] = [kind |-> "none", of |-> r]
    BY DEF ReservationInv, RowFollowsStep, Inserts, Reserving
  <1>3. /\ NewRow(r).status = "running"
        /\ NewRow(r).contact = request[r].contact
    BY DEF NewRow, NoRow
  <1>4. /\ row' = [row EXCEPT ![r] = NewRow(r)]
        /\ pc' = [pc EXCEPT ![r] = "context"]
        /\ answer' = answer /\ request' = request /\ contacts' = contacts
    BY DEF Inserts, GoTo
  <1>5. RowFollowsStep'
    BY <1>1, <1>2, <1>3, <1>4 DEF ReservationInv, RowFollowsStep, Reserving,
                                  InFlight
  <1>6. RowNamesContact'
    BY <1>1, <1>3, <1>4 DEF ReservationInv, RowNamesContact, Exists
  <1>7. OneRunningRow'
    <2>1. ASSUME NEW q \in Requests, q # r, row[q].status = "running"
          PROVE  \/ request[q].contact # request[r].contact
                 \/ request[q].agent # request[r].agent
      <3>1. q \notin ActiveFor(r)
        BY DEF Inserts, Insertable
      <3>2. row[q].contact = request[q].contact \/ request[q].contact \notin contacts
        BY <2>1 DEF ReservationInv, RowNamesContact, Exists
      <3>3. QED
        BY <1>1, <2>1, <3>1, <3>2 DEF ActiveFor
    <2>2. QED
      BY <1>1, <1>4, <2>1 DEF ReservationInv, OneRunningRow
  <1>8. OneRunPerKey'
    <2>1. ASSUME NEW q \in Requests, Exists(q), request[r].key # NoKey
          PROVE  request[q].key # request[r].key
      BY <2>1 DEF Inserts, Insertable, Keyed
    <2>2. QED
      BY <1>1, <1>4, <2>1 DEF ReservationInv, OneRunPerKey, Exists
  <1>9. OutcomeRecorded'
    BY <1>1, <1>2, <1>3, <1>4 DEF ReservationInv, OutcomeRecorded, Exists,
                                  Refusals, InFlight
  <1>10. AnswersMatch'
    BY <1>1, <1>2, <1>3, <1>4 DEF ReservationInv, AnswersMatch, Exists
  <1>11. QED
    BY <1>5, <1>6, <1>7, <1>8, <1>9, <1>10 DEF ReservationInv

\* Only the request that inserted a row ends it, and only once.
LEMMA CompletesReservation ==
    ASSUME ReservationInv, TypeOK', NEW r \in Requests, Completes(r)
    PROVE  ReservationInv'
  <1>1. /\ pc \in [Requests -> Labels] /\ row \in [Requests -> Rows]
        /\ answer \in [Requests -> Answers]
    BY DEF ReservationInv, TypeOK
  <1>2. row[r].status = "running" /\ Exists(r)
    BY DEF ReservationInv, RowFollowsStep, Completes, Exists
  <1>3. PICK new \in Rows, o \in Terminal :
           /\ new.status = o /\ new.contact = row[r].contact
           /\ row' = [row EXCEPT ![r] = new]
           /\ Reply(r, IF o = "succeeded" THEN "result" ELSE "failure", r)
    BY DEF Completes
  <1>4. /\ new.status \in {"succeeded", "failed"} /\ contacts' = contacts
        /\ request' = request
    BY <1>3 DEF Completes, Terminal
  <1>5. RowFollowsStep'
    BY <1>1, <1>3 DEF ReservationInv, RowFollowsStep, Reply, Reserving, InFlight
  <1>6. RowNamesContact'
    BY <1>1, <1>2, <1>3, <1>4 DEF ReservationInv, RowNamesContact, Exists
  <1>7. OneRunningRow'
    BY <1>1, <1>3, <1>4 DEF ReservationInv, OneRunningRow
  <1>8. OneRunPerKey'
    BY <1>1, <1>2, <1>3, <1>4 DEF ReservationInv, OneRunPerKey, Exists
  <1>9. OutcomeRecorded'
    BY <1>1, <1>3, <1>4 DEF ReservationInv, OutcomeRecorded, Exists, Reply,
                            Refusals, Terminal
  <1>10. AnswersMatch'
    BY <1>1, <1>2, <1>3, <1>4 DEF ReservationInv, AnswersMatch, Exists, Reply,
                                  Terminal
  <1>11. QED
    BY <1>5, <1>6, <1>7, <1>8, <1>9, <1>10 DEF ReservationInv

\* A reaction changes no status and no contact.
LEMMA ReactsReservation ==
    ASSUME ReservationInv, TypeOK', NEW e \in Requests, Reacts(e)
    PROVE  ReservationInv'
  <1>1. row \in [Requests -> Rows]
    BY DEF ReservationInv, TypeOK
  <1>2. \A q \in Requests : /\ row'[q].status = row[q].status
                            /\ row'[q].contact = row[q].contact
    BY <1>1 DEF Reacts, Rows
  <1>3. QED
    BY <1>2 DEF ReservationInv, RowFollowsStep, RowNamesContact, OneRunningRow,
                OneRunPerKey, OutcomeRecorded, AnswersMatch, Exists, Reacts

\* Deleting a contact takes its rows out of the index, not out of the table.
LEMMA DeletesReservation ==
    ASSUME ReservationInv, TypeOK', NEW c \in Contacts, DeleteContact(c)
    PROVE  ReservationInv'
  <1>1. row \in [Requests -> Rows]
    BY DEF ReservationInv, TypeOK
  <1>2. \A q \in Requests :
           /\ row'[q].status = row[q].status
           /\ row'[q].contact = IF row[q].contact = c THEN NoContact
                                                      ELSE row[q].contact
    BY <1>1 DEF DeleteContact, Rows
  <1>3. RowFollowsStep' /\ OneRunningRow' /\ OneRunPerKey'
    BY <1>2 DEF ReservationInv, RowFollowsStep, OneRunningRow, OneRunPerKey,
                Exists, DeleteContact
  <1>4. RowNamesContact'
    BY <1>2 DEF ReservationInv, RowNamesContact, Exists, DeleteContact
  <1>5. OutcomeRecorded'
    BY <1>2 DEF ReservationInv, OutcomeRecorded, Exists, DeleteContact
  <1>6. AnswersMatch'
    <2>1. \A r \in Requests : answer[r].of \in Requests
      BY DEF ReservationInv, TypeOK, Answers
    <2>2. QED
      BY <1>2, <2>1 DEF ReservationInv, AnswersMatch, Exists, DeleteContact
  <1>7. QED
    BY <1>3, <1>4, <1>5, <1>6 DEF ReservationInv

\* Every step keeps the inductive invariant.
LEMMA NextReservation == ReservationInv /\ [Next]_vars => ReservationInv'
  <1> SUFFICES ASSUME ReservationInv, [Next]_vars PROVE ReservationInv'
    OBVIOUS
  <1>1. TypeOK /\ TypeOK' /\ StepKind
    BY NextTyped, StepKinds DEF ReservationInv
  <1>2. CASE Idles
    BY <1>1, <1>2 DEF ReservationInv, RowFollowsStep, RowNamesContact, OneRunningRow,
                      OneRunPerKey, OutcomeRecorded, AnswersMatch, Exists, Idles, Kept
  <1>3. QED
    BY <1>1, <1>2, MovesReservation, RefusesReservation, RedirectsReservation,
       InsertsReservation, CompletesReservation, ReactsReservation,
       DeletesReservation DEF StepKind

-----------------------------------------------------------------------------
(* Theorems.                                                               *)

\* The inductive invariant holds in every reachable state.
THEOREM Reservation == Spec => []ReservationInv
  BY InitReservation, NextReservation, PTL DEF Spec

\* Two requests never call the provider for the same contact and agent.
THEOREM SingleFlight == Spec => []OneCallPerSlot
  <1>1. ReservationInv => OneCallPerSlot
    BY DEF ReservationInv, RowFollowsStep, OneRunningRow, OneCallPerSlot
  <1>2. QED
    BY <1>1, Reservation, PTL

\* An idempotency key pays for at most one execution.
THEOREM Idempotency == Spec => []OneRunPerKey
  <1>1. ReservationInv => OneRunPerKey
    BY DEF ReservationInv
  <1>2. QED
    BY <1>1, Reservation, PTL

\* A redirected client is shown an execution of the analysis it asked for.
THEOREM Answers_Match == Spec => []AnswersMatch
  <1>1. ReservationInv => AnswersMatch
    BY DEF ReservationInv
  <1>2. QED
    BY <1>1, Reservation, PTL

\* The table agrees with the answers clients got.
THEOREM Outcomes == Spec => []OutcomeRecorded
  <1>1. ReservationInv => OutcomeRecorded
    BY DEF ReservationInv
  <1>2. QED
    BY <1>1, Reservation, PTL

\* No step rewrites what an ended execution said.
LEMMA EndedRowsKept ==
    ASSUME ReservationInv, [Next]_vars, NEW e \in Requests,
           row[e].status \in Terminal
    PROVE  /\ row'[e].status = row[e].status
           /\ row'[e].output = row[e].output
           /\ row'[e].fingerprint = row[e].fingerprint
           /\ row'[e].createdAt = row[e].createdAt
  <1>1. row \in [Requests -> Rows] /\ StepKind
    BY StepKinds DEF ReservationInv, TypeOK
  <1>2. row[e].status # "absent" /\ row[e].status # "running"
    BY DEF Terminal
  <1>3. CASE row' = row
    BY <1>3
  <1>4. ASSUME NEW r \in Requests, Inserts(r) PROVE row'[e] = row[e]
    BY <1>1, <1>2, <1>4 DEF ReservationInv, RowFollowsStep, Inserts
  <1>5. ASSUME NEW r \in Requests, Completes(r) PROVE row'[e] = row[e]
    BY <1>1, <1>2, <1>5 DEF ReservationInv, RowFollowsStep, Completes
  <1>6. ASSUME NEW r \in Requests, Reacts(r)
        PROVE  /\ row'[e].status = row[e].status
               /\ row'[e].output = row[e].output
               /\ row'[e].fingerprint = row[e].fingerprint
               /\ row'[e].createdAt = row[e].createdAt
    BY <1>1, <1>6 DEF Reacts, Rows
  <1>7. ASSUME NEW c \in Contacts, DeleteContact(c)
        PROVE  /\ row'[e].status = row[e].status
               /\ row'[e].output = row[e].output
               /\ row'[e].fingerprint = row[e].fingerprint
               /\ row'[e].createdAt = row[e].createdAt
    BY <1>1, <1>7 DEF DeleteContact, Rows
  <1>8. QED
    BY <1>1, <1>3, <1>4, <1>5, <1>6, <1>7
       DEF StepKind, Moves, Refuses, Redirects, Idles, Kept

\* An ended execution is history, whatever happens next.
THEOREM EndedIsHistory == Spec => History
  <1>1. ReservationInv /\ [Next]_vars =>
            [\A e \in Requests :
                row[e].status \in Terminal =>
                    /\ row'[e].status = row[e].status
                    /\ row'[e].output = row[e].output
                    /\ row'[e].fingerprint = row[e].fingerprint
                    /\ row'[e].createdAt = row[e].createdAt]_row
    BY EndedRowsKept
  <1>2. QED
    BY <1>1, Reservation, PTL DEF Spec, History

-----------------------------------------------------------------------------
(* The reservation implements the ledger.                                  *)

Outcome(r) == IF row[r].status = "absent" THEN "none" ELSE row[r].status

\* A step that changes neither an outcome nor what is shown is a stutter.
LEMMA LedgerStutter ==
    ASSUME request' = request, contacts' = contacts,
           \A q \in Requests : row'[q].status = row[q].status,
           \A q \in Requests : answer'[q].of = answer[q].of
    PROVE  UNCHANGED Ledger!vars
  BY DEF Ledger!vars

\* A request that is not over shows its own execution.
LEMMA NotYetShown ==
    ASSUME ReservationInv, NEW r \in Requests, pc[r] # "done"
    PROVE  answer[r].of = r
  <1>1. answer[r] = [kind |-> "none", of |-> r]
    BY DEF ReservationInv, RowFollowsStep
  <1>2. QED
    BY <1>1

\* Answering r changes what r is shown and nothing else.
LEMMA ReplyShows ==
    ASSUME answer \in [Requests -> Answers], NEW r \in Requests, NEW k,
           NEW e \in Requests, Reply(r, k, e)
    PROVE  [q \in Requests |-> answer'[q].of]
               = [[q \in Requests |-> answer[q].of] EXCEPT ![r] = e]
  <1>1. answer' = [answer EXCEPT ![r] = [kind |-> k, of |-> e]]
    BY DEF Reply
  <1>2. answer'[r].of = e /\ \A q \in Requests \ {r} : answer'[q] = answer[q]
    BY <1>1
  <1>3. QED
    BY <1>2

\* Initially the ledger is empty.
LEMMA LedgerInit == Init => Ledger!Init
  <1> SUFFICES ASSUME Init PROVE Ledger!Init
    OBVIOUS
  <1>1. \A r \in Requests : row[r].status = "absent" /\ answer[r].of = r
    BY DEF Init, NoRow
  <1>2. QED
    BY <1>1 DEF Init, Ledger!Init

\* Every step of the reservation is a step of the ledger, or a stutter.
LEMMA LedgerStep == ReservationInv /\ [Next]_vars => [Ledger!Next]_(Ledger!vars)
  <1> SUFFICES ASSUME ReservationInv, [Next]_vars
               PROVE  [Ledger!Next]_(Ledger!vars)
    OBVIOUS
  <1>1. /\ StepKind
        /\ row \in [Requests -> Rows] /\ answer \in [Requests -> Answers]
        /\ TypeOK
    BY StepKinds DEF ReservationInv, TypeOK
  <1>2. ASSUME NEW r \in Requests, Moves(r) PROVE UNCHANGED Ledger!vars
    BY <1>2, LedgerStutter DEF Moves, Kept
  <1>3. ASSUME NEW r \in Requests, Refuses(r) PROVE UNCHANGED Ledger!vars
    <2>1. answer[r].of = r
      BY <1>3, NotYetShown DEF Refuses, Reserving
    <2>2. \A q \in Requests : answer'[q].of = answer[q].of
      BY <1>1, <1>3, <2>1 DEF Refuses, Reply
    <2>3. QED
      BY <1>3, <2>2, LedgerStutter DEF Refuses, Kept
  <1>4. ASSUME NEW r \in Requests, NEW e \in Requests, Redirects(r, e)
        PROVE  Ledger!Show(r, e)
    <2>1. row[r].status = "absent" /\ row[e].status \in {"running", "succeeded"}
      BY <1>4 DEF ReservationInv, RowFollowsStep, Redirects
    <2>2. e # r /\ request[e].contact = request[r].contact
      <3>1. request[r].contact # NoContact
        BY <1>1, SentinelAssumption DEF TypeOK, RequestInput
      <3>2. QED
        BY <1>4, <2>1, <3>1 DEF ReservationInv, RowNamesContact, Redirects, Exists
    <2>3. [q \in Requests |-> answer'[q].of]
              = [[q \in Requests |-> answer[q].of] EXCEPT ![r] = e]
      BY <1>1, <1>4, ReplyShows DEF Redirects
    <2>4. row' = row /\ contacts' = contacts /\ request' = request
          /\ request[e].agent = request[r].agent
      BY <1>4 DEF Redirects, Kept
    <2>5. QED
      BY <2>1, <2>2, <2>3, <2>4 DEF Ledger!Show, Ledger!SameAnalysis
  <1>5. ASSUME NEW r \in Requests, Inserts(r) PROVE Ledger!Start(r)
    <2>1. row[r].status = "absent" /\ answer[r].of = r
      BY <1>5, NotYetShown DEF ReservationInv, RowFollowsStep, Inserts, Reserving
    <2>2. request[r].contact \in contacts
      BY <1>5 DEF Inserts, Insertable
    <2>3. ASSUME NEW q \in Requests, row[q].status = "running",
                 request[q].contact = request[r].contact,
                 request[q].agent = request[r].agent
          PROVE  FALSE
      BY <1>5, <2>2, <2>3 DEF ReservationInv, RowNamesContact, Exists, Inserts,
                              Insertable, ActiveFor
    <2>4. ASSUME NEW q \in Requests, request[r].key # NoKey,
                 request[q].key = request[r].key
          PROVE  row[q].status = "absent"
      BY <1>5, <2>4 DEF Inserts, Insertable, Keyed, Exists
    <2>5. NewRow(r).status = "running"
      BY DEF NewRow, NoRow
    <2>6. [q \in Requests |-> Outcome(q)']
              = [[q \in Requests |-> Outcome(q)] EXCEPT ![r] = "running"]
      BY <1>1, <1>5, <2>5 DEF Inserts, Outcome
    <2>7. answer' = answer /\ contacts' = contacts /\ request' = request
      BY <1>5 DEF Inserts, GoTo
    <2>8. QED
      BY <2>1, <2>2, <2>3, <2>4, <2>6, <2>7
         DEF Ledger!Start, Ledger!SameAnalysis, Outcome
  <1>6. ASSUME NEW r \in Requests, Completes(r) PROVE Ledger!Finish(r)
    <2>1. row[r].status = "running" /\ answer[r].of = r
      BY <1>6, NotYetShown DEF ReservationInv, RowFollowsStep, Completes, InFlight
    <2>2. PICK new \in Rows, o \in Terminal :
             /\ new.status = o
             /\ row' = [row EXCEPT ![r] = new]
             /\ Reply(r, IF o = "succeeded" THEN "result" ELSE "failure", r)
      BY <1>6 DEF Completes
    <2>3. [q \in Requests |-> Outcome(q)']
              = [[q \in Requests |-> Outcome(q)] EXCEPT ![r] = o]
      BY <1>1, <2>2 DEF Outcome, Terminal
    <2>4. [q \in Requests |-> answer'[q].of] = [q \in Requests |-> answer[q].of]
      BY <1>1, <2>1, <2>2 DEF Reply
    <2>5. contacts' = contacts /\ request' = request
      BY <1>6 DEF Completes
    <2>6. QED
      BY <2>1, <2>2, <2>3, <2>4, <2>5 DEF Ledger!Finish, Outcome, Terminal
  <1>7. ASSUME NEW e \in Requests, Reacts(e) PROVE UNCHANGED Ledger!vars
    <2>1. \A q \in Requests : row'[q].status = row[q].status
      BY <1>1, <1>7 DEF Reacts, Rows
    <2>2. QED
      BY <1>7, <2>1, LedgerStutter DEF Reacts
  <1>8. ASSUME NEW c \in Contacts, DeleteContact(c) PROVE Ledger!Forget(c)
    <2>1. \A q \in Requests : row'[q].status = row[q].status
      BY <1>1, <1>8 DEF DeleteContact, Rows
    <2>2. QED
      BY <1>8, <2>1 DEF DeleteContact, Ledger!Forget
  <1>9. CASE Idles
    BY <1>9, LedgerStutter DEF Idles, Kept
  <1>10. QED
    BY <1>1, <1>2, <1>3, <1>4, <1>5, <1>6, <1>7, <1>8, <1>9
       DEF StepKind, Ledger!Next

\* The reservation implements the ledger.
THEOREM LedgerImplemented == Spec => ImplementsLedger
  BY LedgerInit, LedgerStep, Reservation, PTL DEF Spec, Ledger!Spec, ImplementsLedger

-----------------------------------------------------------------------------
(* No request goes back: the safety half of EveryRequestAnswered.          *)

\* How far a request is: begin() rechecks, it does not retry.
Rank == [contact |-> 0, key |-> 1, active |-> 2, cooldown |-> 3, limits |-> 4, insert |-> 5,
         rekey |-> 6, reactive |-> 7, context |-> 8, llm |-> 9, print |-> 10,
         succeed |-> 11, fail |-> 11, done |-> 12, lost |-> 12]

\* Whatever a step does, the request it moves gets further, and no other moves.
Onwards ==
    \/ pc' = pc
    \/ \E r \in Requests, l \in Labels :
          pc' = [pc EXCEPT ![r] = l] /\ Rank[pc[r]] < Rank[l]

\* A step of a handler goes on to a later one.
LEMMA GoesOnwards ==
    ASSUME NEW r \in Requests, NEW l \in Labels, GoTo(r, l), Rank[pc[r]] < Rank[l]
    PROVE  Onwards
  BY DEF GoTo, Onwards

\* An answer is the end.
LEMMA RepliesOnwards ==
    ASSUME NEW r \in Requests, NEW k, NEW e, Reply(r, k, e), Rank[pc[r]] < 12
    PROVE  Onwards
  <1>1. "done" \in Labels /\ Rank["done"] = 12
    BY DEF Labels, Rank
  <1>2. QED
    BY <1>1 DEF Reply, Onwards

\* Every step of a handler gets it further.
LEMMA StepOnwards ==
    ASSUME NEW r \in Requests, Step(r)
    PROVE  Onwards
  <1>1. {"active", "key", "cooldown", "limits", "insert", "context", "reactive", "rekey",
         "llm", "fail", "print", "succeed"} \subseteq Labels
    BY DEF Labels, Reserving, InFlight
  <1>2. CASE CheckContact(r)
    BY <1>1, <1>2, GoesOnwards, RepliesOnwards DEF CheckContact, Rank
  <1>3. CASE LookupKey(r)
    BY <1>1, <1>3, GoesOnwards, RepliesOnwards DEF LookupKey, Resolve, Rank
  <1>4. CASE LookupActive(r)
    BY <1>1, <1>4, GoesOnwards, RepliesOnwards DEF LookupActive, Rank
  <1>5. CASE CheckCooldown(r)
    BY <1>1, <1>5, GoesOnwards, RepliesOnwards DEF CheckCooldown, Rank
  <1>6. CASE CheckRateLimits(r)
    BY <1>1, <1>6, GoesOnwards, RepliesOnwards DEF CheckRateLimits, Rank
  <1>7. CASE Reserve(r)
    BY <1>1, <1>7, GoesOnwards DEF Reserve, Rank
  <1>8. CASE RecheckKey(r)
    BY <1>1, <1>8, GoesOnwards, RepliesOnwards DEF RecheckKey, Resolve, Rank
  <1>9. CASE RecheckActive(r)
    BY <1>9, RepliesOnwards DEF RecheckActive, Rank
  <1>10. CASE ReadContext(r)
    BY <1>1, <1>10, GoesOnwards DEF ReadContext, Rank
  <1>11. CASE CallProvider(r)
    BY <1>1, <1>11, GoesOnwards DEF CallProvider, Rank
  <1>12. CASE ComputeFingerprint(r)
    BY <1>1, <1>12, GoesOnwards DEF ComputeFingerprint, Rank
  <1>13. CASE CompleteSuccess(r)
    BY <1>13, RepliesOnwards DEF CompleteSuccess, Rank
  <1>14. CASE CompleteFailure(r)
    BY <1>14, RepliesOnwards DEF CompleteFailure, Rank
  <1>15. QED
    BY <1>2, <1>3, <1>4, <1>5, <1>6, <1>7, <1>8, <1>9, <1>10, <1>11, <1>12, <1>13, <1>14
    DEF Step

\* No request ever goes back or moves another: each takes twelve steps at most,
\* whatever races it loses, which leaves EveryRequestAnswered to the scheduler.
THEOREM NobodyGoesBack == Spec => [][Onwards]_pc
  <1>1. TypeOK /\ [Next]_vars => [Onwards]_pc
    <2> SUFFICES ASSUME TypeOK, [Next]_vars PROVE Onwards
      OBVIOUS
    <2>1. ASSUME NEW r \in Requests, Step(r) PROVE Onwards
      BY <2>1, StepOnwards
    <2>2. ASSUME NEW r \in Requests, Lose(r) PROVE Onwards
      <3>1. pc[r] \in Labels \ {"done", "lost"} /\ "lost" \in Labels
        BY <2>2 DEF Lose, TypeOK, Labels
      <3>2. Rank[pc[r]] < Rank["lost"]
        BY <3>1 DEF Rank, Labels, Reserving, InFlight
      <3>3. QED
        BY <2>2, <3>1, <3>2, GoesOnwards DEF Lose
    <2>3. CASE pc' = pc
      BY <2>3 DEF Onwards
    <2>4. QED
      BY <2>1, <2>2, <2>3
      DEF Next, vars, EditContact, DeleteContact, SetHumanAction, Tick, Quiet
  <1>2. QED
    BY <1>1, Typing, PTL DEF Spec

-----------------------------------------------------------------------------
(* What "stale" says of an execution.                                      *)

\* The fingerprint is taken after the agent has read, of data that only go on:
\* what the agent read is at most what the fingerprint says, and that at most
\* what the contact has become.
ReadBefore(r) == local[r].seen <= data[request[r].contact]

Printed(r, print) ==
    print # NoFingerprint => /\ print \in 0..MaxVersion
                             /\ local[r].seen <= print /\ print <= data[request[r].contact]

ReadingSteps == {"llm", "print", "succeed"}

PrintBounds(r) ==
    /\ pc[r] \in ReadingSteps => ReadBefore(r)
    /\ pc[r] = "succeed" => Printed(r, local[r].print)
    /\ row[r].status = "succeeded" => Printed(r, row[r].fingerprint)

PrintInv == \A r \in Requests : PrintBounds(r)

\* Who is told that a result is stale is told the truth: the contact is not
\* what the agent read any more.
StaleIsOlder ==
    \A e \in Requests :
        row[e].status = "succeeded" /\ row[e].contact # NoContact /\ IsStale(e)
        => local[e].seen < data[row[e].contact]

\* A step that is none of r's reading, printing and succeeding.
PrintSame(r) ==
    /\ local'[r].seen = local[r].seen /\ local'[r].print = local[r].print
    /\ pc'[r] \in ReadingSteps => pc'[r] = pc[r]
    /\ row'[r].status = "succeeded" => /\ row[r].status = "succeeded"
                                       /\ row'[r].fingerprint = row[r].fingerprint

\* Data only go on.
DataGrow == request' = request /\ \A c \in Contacts : data[c] <= data'[c]

\* The bounds of a request outlive the steps of others.
LEMMA PrintKept ==
    ASSUME TypeOK, TypeOK', NEW r \in Requests, PrintBounds(r), DataGrow, PrintSame(r)
    PROVE  PrintBounds(r)'
  <1>1. request[r].contact \in Contacts
    BY DEF TypeOK, RequestInput
  <1>2. /\ local[r].seen \in Int
        /\ data[request[r].contact] \in Int /\ data'[request[r].contact] \in Int
    BY <1>1, ConfigAssumption DEF TypeOK, Locals
  <1>3. data[request[r].contact] <= data'[request[r].contact]
    BY <1>1 DEF DataGrow
  <1>4. request'[r] = request[r]
    BY DEF DataGrow
  <1>5. ReadBefore(r) => ReadBefore(r)'
    BY <1>2, <1>3, <1>4 DEF ReadBefore, PrintSame
  <1>6. ASSUME NEW print, Printed(r, print)
        PROVE  print # NoFingerprint =>
                   /\ print \in 0..MaxVersion
                   /\ local'[r].seen <= print /\ print <= data'[request'[r].contact]
    BY <1>2, <1>3, <1>4, <1>6, ConfigAssumption DEF Printed, PrintSame
  <1>7. Printed(r, local[r].print) => Printed(r, local[r].print)'
    BY <1>6 DEF Printed, PrintSame
  <1>8. ASSUME row'[r].status = "succeeded" PROVE Printed(r, row[r].fingerprint)'
    <2>1. Printed(r, row[r].fingerprint) /\ row'[r].fingerprint = row[r].fingerprint
      BY <1>8 DEF PrintBounds, PrintSame
    <2>2. QED
      BY <1>6, <2>1 DEF Printed
  <1>9. ASSUME pc'[r] \in ReadingSteps PROVE ReadBefore(r)'
    BY <1>5, <1>9 DEF PrintBounds, PrintSame
  <1>10. ASSUME pc'[r] = "succeed" PROVE Printed(r, local[r].print)'
    <2>1. pc[r] = "succeed"
      BY <1>10 DEF PrintSame, ReadingSteps
    <2>2. QED
      BY <1>7, <2>1 DEF PrintBounds
  <1>11. QED
    BY <1>8, <1>9, <1>10 DEF PrintBounds

\* Nobody's step touches another's.
LEMMA StepOfOne ==
    ASSUME TypeOK, NEW r \in Requests, Step(r), NEW q \in Requests, q # r
    PROVE  PrintSame(q) /\ DataGrow
  <1>1. \A c \in Contacts : data[c] \in Int /\ data[c] <= data[c]
    BY ConfigAssumption DEF TypeOK
  <1>2. ASSUME NEW l, GoTo(r, l) PROVE pc'[q] = pc[q]
    BY <1>2 DEF GoTo, TypeOK
  <1>3. ASSUME NEW k, NEW e, Reply(r, k, e) PROVE pc'[q] = pc[q]
    BY <1>3 DEF Reply, TypeOK
  <1>4. pc'[q] = pc[q]
    BY <1>2, <1>3
    DEF Step, CheckContact, LookupKey, LookupActive, CheckCooldown, CheckRateLimits, Reserve,
        RecheckKey, RecheckActive, ReadContext, CallProvider, ComputeFingerprint,
        CompleteSuccess, CompleteFailure, Resolve
  <1>5. local'[q] = local[q]
    BY DEF TypeOK, Step, CheckContact, LookupKey, LookupActive, CheckCooldown,
           CheckRateLimits, Reserve, RecheckKey, RecheckActive, ReadContext, CallProvider,
           ComputeFingerprint, CompleteSuccess, CompleteFailure
  <1>6. row'[q] = row[q]
    BY DEF TypeOK, Step, CheckContact, LookupKey, LookupActive, CheckCooldown, crm,
           CheckRateLimits, Reserve, RecheckKey, RecheckActive, ReadContext, CallProvider,
           ComputeFingerprint, CompleteSuccess, CompleteFailure
  <1>7. data' = data /\ request' = request
    BY DEF Step, CheckContact, LookupKey, LookupActive, CheckCooldown, crm,
           CheckRateLimits, Reserve, RecheckKey, RecheckActive, ReadContext, CallProvider,
           ComputeFingerprint, CompleteSuccess, CompleteFailure
  <1>8. QED
    BY <1>1, <1>4, <1>5, <1>6, <1>7 DEF PrintSame, DataGrow

\* A step that only moves r elsewhere than to reading keeps its bounds.
LEMMA ElsewhereSame ==
    ASSUME TypeOK, NEW r \in Requests,
           local'[r].seen = local[r].seen /\ local'[r].print = local[r].print,
           \/ \E l \in Labels \ ReadingSteps : GoTo(r, l)
           \/ \E k, e : Reply(r, k, e),
           row'[r] = row[r] \/ row'[r].status # "succeeded"
    PROVE  PrintSame(r)
  <1>1. pc'[r] \notin ReadingSteps
    BY DEF TypeOK, GoTo, Reply, ReadingSteps
  <1>2. QED
    BY <1>1 DEF PrintSame

\* The steps of r itself.
LEMMA OwnStep ==
    ASSUME ReservationInv, TypeOK', NEW r \in Requests, PrintBounds(r), Step(r)
    PROVE  PrintBounds(r)'
  <1>1. TypeOK /\ local[r] \in Locals /\ request[r].contact \in Contacts
    BY DEF ReservationInv, TypeOK, RequestInput
  <1>2. {"active", "key", "cooldown", "limits", "insert", "context", "reactive", "rekey", "fail"}
        \subseteq Labels \ ReadingSteps
    BY DEF Labels, Reserving, InFlight, ReadingSteps
  <1>3. data' = data /\ request' = request
    BY DEF Step, CheckContact, LookupKey, LookupActive, CheckCooldown, crm,
           CheckRateLimits, Reserve, RecheckKey, RecheckActive, ReadContext, CallProvider,
           ComputeFingerprint, CompleteSuccess, CompleteFailure
  <1>4. data[request[r].contact] \in 0..MaxVersion /\ local[r].seen \in 0..MaxVersion
    BY <1>1 DEF TypeOK, Locals
  <1>5. DataGrow
    <2>1. \A c \in Contacts : data[c] \in Int /\ data[c] <= data[c]
      BY <1>1, ConfigAssumption DEF TypeOK
    <2>2. QED
      BY <1>3, <2>1 DEF DataGrow
  <1>6. ASSUME PrintSame(r) PROVE PrintBounds(r)'
    BY <1>1, <1>5, <1>6, PrintKept
  <1>7. CASE CheckContact(r)
    <2>1. local'[r].seen = local[r].seen /\ local'[r].print = local[r].print
      BY <1>1, <1>7 DEF CheckContact, TypeOK, Locals
    <2>2. QED
      BY <1>1, <1>2, <1>6, <1>7, <2>1, ElsewhereSame DEF CheckContact, crm
  <1>8. CASE LookupKey(r)
    BY <1>1, <1>2, <1>6, <1>8, ElsewhereSame DEF LookupKey, Resolve, crm
  <1>9. CASE LookupActive(r)
    BY <1>1, <1>2, <1>6, <1>9, ElsewhereSame DEF LookupActive, crm
  <1>10. CASE CheckCooldown(r)
    <2>1. local'[r].seen = local[r].seen /\ local'[r].print = local[r].print
      BY <1>1, <1>10 DEF CheckCooldown, TypeOK, Locals
    <2>2. QED
      BY <1>1, <1>2, <1>6, <1>10, <2>1, ElsewhereSame DEF CheckCooldown, crm
  <1>11. CASE CheckRateLimits(r)
    BY <1>1, <1>2, <1>6, <1>11, ElsewhereSame DEF CheckRateLimits, crm
  <1>12. CASE Reserve(r)
    <2>1. row'[r] = row[r] \/ row'[r].status # "succeeded"
      <3>1. NewRow(r).status = "running"
        BY DEF NewRow, NoRow
      <3>2. QED
        BY <1>1, <1>12, <3>1 DEF Reserve, TypeOK
    <2>2. QED
      BY <1>1, <1>2, <1>6, <1>12, <2>1, ElsewhereSame DEF Reserve, crm
  <1>13. CASE RecheckKey(r)
    BY <1>1, <1>2, <1>6, <1>13, ElsewhereSame DEF RecheckKey, Resolve, crm
  <1>14. CASE RecheckActive(r)
    BY <1>1, <1>2, <1>6, <1>14, ElsewhereSame DEF RecheckActive, crm
  <1>15. CASE ReadContext(r)
    <2>1. CASE request[r].contact \in contacts /\ GoTo(r, "llm")
                 /\ local' = [local EXCEPT ![r].seen = data[request[r].contact]]
      <3>1. local'[r].seen = data[request[r].contact]
        BY <1>1, <2>1 DEF TypeOK, Locals
      <3>2. pc'[r] = "llm" /\ row'[r].status # "succeeded"
        <4>1. row[r].status = "running" /\ row' = row
          BY <1>15 DEF ReservationInv, RowFollowsStep, ReadContext, crm, InFlight
        <4>2. QED
          BY <1>1, <2>1, <4>1 DEF GoTo, TypeOK
      <3>3. ReadBefore(r)'
        BY <1>3, <1>4, <3>1, ConfigAssumption DEF ReadBefore
      <3>4. QED
        BY <3>2, <3>3 DEF PrintBounds
    <2>2. CASE local' = [local EXCEPT ![r].cause = "not_found"] /\ GoTo(r, "fail")
      <3>1. local'[r].seen = local[r].seen /\ local'[r].print = local[r].print /\ row' = row
        BY <1>1, <1>15, <2>2 DEF ReadContext, TypeOK, Locals
      <3>2. QED
        BY <1>1, <1>2, <1>6, <2>2, <3>1, ElsewhereSame
    <2>3. QED
      BY <1>15, <2>1, <2>2 DEF ReadContext
  <1>16. CASE CallProvider(r)
    <2>1. pc[r] = "llm" /\ ReadBefore(r) /\ row' = row
      BY <1>16 DEF CallProvider, PrintBounds, ReadingSteps
    <2>2. row[r].status # "succeeded"
      BY <2>1 DEF ReservationInv, RowFollowsStep, InFlight
    <2>3. CASE GoTo(r, "print") /\ local' = local
      BY <1>1, <1>3, <2>1, <2>2, <2>3 DEF GoTo, TypeOK, PrintBounds, ReadBefore
    <2>4. CASE GoTo(r, "fail") /\ local' = [local EXCEPT ![r].cause = "llm_error"]
      <3>1. local'[r].seen = local[r].seen /\ local'[r].print = local[r].print
        BY <1>1, <2>4 DEF TypeOK, Locals
      <3>2. QED
        BY <1>1, <1>2, <1>6, <2>1, <2>4, <3>1, ElsewhereSame
    <2>5. QED
      BY <1>16, <2>3, <2>4 DEF CallProvider
  <1>17. CASE ComputeFingerprint(r)
    <2>1. pc[r] = "print" /\ ReadBefore(r) /\ row' = row
      BY <1>17 DEF ComputeFingerprint, PrintBounds, ReadingSteps
    <2>2. row[r].status # "succeeded" /\ pc'[r] = "succeed"
      BY <1>1, <1>17, <2>1 DEF ReservationInv, RowFollowsStep, InFlight, TypeOK, GoTo,
                               ComputeFingerprint
    <2>3. /\ local'[r].seen = local[r].seen
          /\ local'[r].print \in {data[request[r].contact], NoFingerprint}
      BY <1>1, <1>17 DEF ComputeFingerprint, TypeOK, Locals
    <2>4. ReadBefore(r)'
      BY <1>3, <2>1, <2>3 DEF ReadBefore
    <2>5. Printed(r, local[r].print)'
      BY <1>3, <1>4, <2>1, <2>3, ConfigAssumption DEF ReadBefore, Printed
    <2>6. QED
      BY <2>1, <2>2, <2>4, <2>5 DEF PrintBounds
  <1>18. CASE CompleteSuccess(r)
    <2>1. pc[r] = "succeed" /\ Printed(r, local[r].print) /\ local' = local
      BY <1>18 DEF CompleteSuccess, PrintBounds
    <2>2. row'[r].fingerprint = local[r].print /\ pc'[r] = "done"
      BY <1>1, <1>18 DEF CompleteSuccess, Reply, TypeOK, Rows
    <2>3. Printed(r, row[r].fingerprint)'
      BY <1>3, <2>1, <2>2 DEF Printed
    <2>4. QED
      BY <2>2, <2>3 DEF PrintBounds, ReadingSteps
  <1>19. CASE CompleteFailure(r)
    <2>1. row'[r].status = "failed" /\ local' = local
      BY <1>1, <1>19 DEF CompleteFailure, TypeOK, Rows
    <2>2. QED
      BY <1>1, <1>6, <1>19, <2>1, ElsewhereSame DEF CompleteFailure
  <1>20. QED
    BY <1>7, <1>8, <1>9, <1>10, <1>11, <1>12, <1>13, <1>14, <1>15, <1>16, <1>17, <1>18, <1>19
    DEF Step

\* Every step keeps the bounds of everybody.
LEMMA NextPrint == ReservationInv /\ TypeOK' /\ PrintInv /\ [Next]_vars => PrintInv'
  <1> SUFFICES ASSUME ReservationInv, TypeOK', PrintInv, [Next]_vars,
                      NEW q \in Requests
               PROVE  PrintBounds(q)'
    BY DEF PrintInv
  <1>1. TypeOK /\ PrintBounds(q)
    BY DEF ReservationInv, PrintInv
  <1>2. \A c \in Contacts : data[c] \in Int /\ data[c] <= data[c]
    BY <1>1, ConfigAssumption DEF TypeOK
  <1>3. ASSUME PrintSame(q), DataGrow PROVE PrintBounds(q)'
    BY <1>1, <1>3, PrintKept
  <1>4. ASSUME NEW r \in Requests, Step(r) PROVE PrintBounds(q)'
    BY <1>1, <1>3, <1>4, StepOfOne, OwnStep
  <1>5. ASSUME NEW r \in Requests, Lose(r) PROVE PrintBounds(q)'
    <2>1. PrintSame(q)
      BY <1>1, <1>5 DEF Lose, GoTo, TypeOK, PrintSame, ReadingSteps
    <2>2. QED
      BY <1>2, <1>3, <1>5, <2>1 DEF Lose, crm, DataGrow
  <1>6. ASSUME NEW c \in Contacts, EditContact(c) PROVE PrintBounds(q)'
    <2>1. DataGrow
      BY <1>1, <1>2, <1>6 DEF EditContact, DataGrow, TypeOK
    <2>2. QED
      BY <1>3, <1>6, <2>1 DEF EditContact, PrintSame
  <1>7. ASSUME NEW c \in Contacts, DeleteContact(c) PROVE PrintBounds(q)'
    <2>1. row'[q].status = row[q].status /\ row'[q].fingerprint = row[q].fingerprint
      BY <1>1, <1>7 DEF DeleteContact, TypeOK, Rows
    <2>2. QED
      BY <1>2, <1>3, <1>7, <2>1 DEF DeleteContact, PrintSame, DataGrow
  <1>8. ASSUME NEW e \in Requests, NEW h \in HumanActions, SetHumanAction(e, h)
        PROVE  PrintBounds(q)'
    <2>1. row'[q].status = row[q].status /\ row'[q].fingerprint = row[q].fingerprint
      BY <1>1, <1>8 DEF SetHumanAction, TypeOK, Rows
    <2>2. QED
      BY <1>2, <1>3, <1>8, <2>1 DEF SetHumanAction, PrintSame, DataGrow
  <1>9. CASE UNCHANGED <<data, request, pc, local, row>>
    BY <1>2, <1>3, <1>9 DEF PrintSame, DataGrow
  <1>10. QED
    BY <1>4, <1>5, <1>6, <1>7, <1>8, <1>9 DEF Next, vars, Tick, Quiet

\* Whoever is told that an execution is stale has been told the truth: its
\* contact has changed since the agent read it, though the fingerprint is taken
\* later, while others edit.
THEOREM StaleTruly == Spec => []StaleIsOlder
  <1>1. Init => PrintInv
    BY DEF Init, PrintInv, PrintBounds, NoRow, ReadingSteps
  <1>2. ReservationInv /\ PrintInv => StaleIsOlder
    <2> SUFFICES ASSUME ReservationInv, PrintInv, NEW e \in Requests,
                        row[e].status = "succeeded", row[e].contact # NoContact, IsStale(e)
                 PROVE  local[e].seen < data[row[e].contact]
      BY DEF StaleIsOlder
    <2>1. row[e].contact = request[e].contact
      BY DEF ReservationInv, RowNamesContact, Exists
    <2>2. request[e].contact \in Contacts
      BY DEF ReservationInv, TypeOK, RequestInput
    <2>3. data[request[e].contact] \in Int /\ local[e].seen \in Int
      BY <2>2, ConfigAssumption DEF ReservationInv, TypeOK, Locals
    <2>4. /\ row[e].fingerprint # NoFingerprint
          /\ row[e].fingerprint # data[request[e].contact]
      BY <2>1 DEF IsStale
    <2>5. Printed(e, row[e].fingerprint)
      BY DEF PrintInv, PrintBounds
    <2>6. QED
      BY <2>1, <2>3, <2>4, <2>5, ConfigAssumption DEF Printed
  <1>3. QED
    BY <1>1, <1>2, NextPrint, Reservation, PTL DEF Spec, ReservationInv

-----------------------------------------------------------------------------
(* Spending and the latest run, for clients that do not overlap in begin().  *)

\* What the cooldown check of r found and nobody can change: a run of the same
\* contact and agent was reserved long ago, or it ended only now.
Cooled(r) ==
    Cooldown > 0 =>
        \A f \in Succeeded(request[r].contact, request[r].agent) :
            row[f].createdAt + Cooldown < now \/ row[f].completedAt >= now

\* One request at a time is in begin(), and no time passes for it.
Turns ==
    /\ \A q, r \in InBegin : q = r
    /\ \A r \in InBegin : local[r].begunAt = now
    /\ \A r \in Requests : pc[r] \in {"limits", "insert"} =>
           local[r].checkedAt = now /\ Cooled(r)
    /\ \A r \in Requests : pc[r] = "insert" => ~RateLimited(r, now)

\* A row is dated by its request, and in the past.
Dated ==
    \A e \in Requests : Exists(e) =>
        /\ local[e].begunAt = row[e].createdAt /\ row[e].createdAt <= now
        /\ row[e].status \in Terminal =>
               row[e].createdAt <= row[e].completedAt /\ row[e].completedAt <= now

\* A run that was reserved before another of its contact and agent ended before it.
Ordered ==
    \A e, f \in Requests :
        /\ Exists(e) /\ Exists(f) /\ SameSlot(e, f)
        /\ row[f].createdAt < row[e].createdAt
        => row[f].status \in Terminal /\ row[f].completedAt <= row[e].createdAt

SerialInv == Turns /\ Dated /\ Ordered /\ LimitsHeld

\* What a step other than an INSERT does to the row of e.
Settled(e) ==
    /\ row'[e].status = "absent" <=> row[e].status = "absent"
    /\ row'[e].createdAt = row[e].createdAt
    /\ row'[e].contact \in {row[e].contact, NoContact}
    /\ \/ row'[e].status = row[e].status /\ row'[e].completedAt = row[e].completedAt
       \/ row[e].status = "running" /\ row'[e].status \in Terminal /\ row'[e].completedAt = now

\* And to the request r.
Advanced(r) ==
    /\ Exists(r) => local'[r].begunAt = local[r].begunAt
    /\ r \in InBegin' => IF r \in InBegin THEN local'[r].begunAt = local[r].begunAt
                                          ELSE local'[r].begunAt = now
    /\ pc'[r] \in {"limits", "insert"} =>
          \/ pc'[r] = pc[r] /\ local'[r].checkedAt = local[r].checkedAt
          \/ pc[r] = "cooldown" /\ pc'[r] = "limits"
             /\ local'[r].checkedAt = now /\ ~CoolingDown(r, now)
          \/ pc[r] = "limits" /\ pc'[r] = "insert"
             /\ local'[r].checkedAt = local[r].checkedAt /\ ~RateLimited(r, local[r].checkedAt)

Advances ==
    /\ now' = now /\ request' = request /\ contacts' \subseteq contacts
    /\ \A e \in Requests : Settled(e) /\ Advanced(e)
    /\ \A q, r \in Requests : pc'[q] # pc[q] /\ pc'[r] # pc[r] => q = r

Books(r) ==
    /\ pc[r] = "insert" /\ Insertable(r)
    /\ row' = [row EXCEPT ![r] = NewRow(r)] /\ pc' = [pc EXCEPT ![r] = "context"]
    /\ now' = now /\ request' = request /\ local' = local /\ contacts' = contacts

Ticks ==
    /\ InBegin = {} /\ now' = now + 1
    /\ request' = request /\ local' = local /\ contacts' = contacts /\ pc' = pc /\ row' = row

\* Only the request that takes the step moves.
LEMMA OneMoves ==
    ASSUME TypeOK, NEW r \in Requests, NEW l, pc' = [pc EXCEPT ![r] = l]
    PROVE  /\ pc'[r] = l
           /\ \A q \in Requests : q # r => pc'[q] = pc[q]
           /\ \A p, q \in Requests : pc'[p] # pc[p] /\ pc'[q] # pc[q] => p = q
  BY DEF TypeOK

\* A request that stays where it is and keeps its times has advanced.
LEMMA Staying ==
    ASSUME NEW r \in Requests, pc'[r] = pc[r], local'[r].begunAt = local[r].begunAt,
           local'[r].checkedAt = local[r].checkedAt
    PROVE  Advanced(r)
  BY DEF Advanced, InBegin

\* A step of r that keeps the rows.
LEMMA Reading ==
    ASSUME TypeOK, NEW r \in Requests, NEW l, pc' = [pc EXCEPT ![r] = l],
           UNCHANGED <<crm, row>>, Advanced(r),
           \A q \in Requests : q # r => local'[q] = local[q]
    PROVE  Advances
  <1>1. \A q \in Requests : Advanced(q)
    BY OneMoves, Staying
  <1>2. \A e \in Requests : Settled(e)
    BY DEF Settled
  <1>3. QED
    BY <1>1, <1>2, OneMoves DEF Advances, crm

\* Resolving a key ends the request.
LEMMA Resolving ==
    ASSUME TypeOK, NEW r \in Requests, NEW e, Resolve(r, e)
    PROVE  pc' = [pc EXCEPT ![r] = "done"]
  BY DEF Resolve, Reply

\* A request that is over, or in one of the steps that check nothing, and whose
\* handler keeps its times.
LEMMA Passing ==
    ASSUME TypeOK, NEW r \in Requests, NEW l, pc' = [pc EXCEPT ![r] = l],
           l \notin {"limits", "insert"}, l \in Reserving \ {"contact"} => r \in InBegin,
           local'[r].begunAt = local[r].begunAt
    PROVE  Advanced(r)
  <1>1. pc'[r] = l
    BY OneMoves
  <1>2. QED
    BY <1>1 DEF Advanced, InBegin

\* In particular one that is answered or lost.
LEMMA Leaving ==
    ASSUME TypeOK, NEW r \in Requests, NEW l \in {"done", "lost"},
           pc' = [pc EXCEPT ![r] = l], local'[r].begunAt = local[r].begunAt
    PROVE  Advanced(r)
  <1>1. l \notin Reserving /\ l \notin {"limits", "insert"}
    BY DEF Reserving
  <1>2. QED
    BY <1>1, Passing

\* Every step of a request inserts its row or advances.
LEMMA StepAdvances ==
    ASSUME ReservationInv, NEW r \in Requests, Step(r)
    PROVE  Advances \/ Books(r)
  <1>1. TypeOK /\ row \in [Requests -> Rows] /\ local \in [Requests -> Locals]
        /\ pc \in [Requests -> Labels]
    BY DEF ReservationInv, TypeOK
  <1>2. CASE CheckContact(r)
    <2>1. PICK l \in {"active", "key", "done"} : pc' = [pc EXCEPT ![r] = l]
      BY <1>2 DEF CheckContact, GoTo, Reply
    <2>2. /\ local'[r].begunAt = now /\ \A q \in Requests : q # r => local'[q] = local[q]
          /\ pc[r] = "contact" /\ UNCHANGED <<crm, row>>
      BY <1>1, <1>2 DEF CheckContact, Locals
    <2>3. ~Exists(r) /\ r \notin InBegin
      BY <2>2 DEF ReservationInv, RowFollowsStep, Exists, Reserving, InBegin
    <2>4. Advanced(r)
      BY <1>1, <2>1, <2>2, <2>3, OneMoves DEF Advanced
    <2>5. QED
      BY <1>1, <2>1, <2>2, <2>4, Reading
  <1>3. CASE LookupKey(r) \/ LookupActive(r) \/ RecheckKey(r) \/ RecheckActive(r)
    <2>1. \E l \in {"active", "cooldown", "reactive", "done"} : pc' = [pc EXCEPT ![r] = l]
      <3>1. \A e : Resolve(r, e) => pc' = [pc EXCEPT ![r] = "done"]
        BY <1>1, Resolving
      <3>2. QED
        BY <1>3, <3>1 DEF LookupKey, LookupActive, RecheckKey, RecheckActive, GoTo, Reply
    <2>2. PICK l \in {"active", "cooldown", "reactive", "done"} : pc' = [pc EXCEPT ![r] = l]
      BY <2>1
    <2>3. /\ local' = local /\ UNCHANGED <<crm, row>>
          /\ pc[r] \in {"key", "active", "rekey", "reactive"}
      BY <1>3 DEF LookupKey, LookupActive, RecheckKey, RecheckActive
    <2>4. r \in InBegin
      BY <2>3 DEF InBegin, Reserving
    <2>5. Advanced(r)
      BY <1>1, <2>2, <2>3, <2>4, Passing
    <2>6. QED
      BY <1>1, <2>2, <2>3, <2>5, Reading
  <1>4. CASE CheckCooldown(r)
    <2>1. /\ \A q \in Requests : q # r => local'[q] = local[q]
          /\ local'[r].begunAt = local[r].begunAt /\ local'[r].checkedAt = now
          /\ pc[r] = "cooldown" /\ UNCHANGED <<crm, row>>
      BY <1>1, <1>4 DEF CheckCooldown, Locals
    <2>2. r \in InBegin
      BY <2>1 DEF InBegin, Reserving
    <2>3. \/ pc' = [pc EXCEPT ![r] = "done"]
          \/ pc' = [pc EXCEPT ![r] = "limits"] /\ ~CoolingDown(r, now)
      BY <1>4 DEF CheckCooldown, GoTo, Reply
    <2>4. CASE pc' = [pc EXCEPT ![r] = "done"]
      <3>1. Advanced(r)
        BY <1>1, <2>1, <2>4, Leaving
      <3>2. QED
        BY <1>1, <2>1, <2>4, <3>1, Reading
    <2>5. CASE pc' = [pc EXCEPT ![r] = "limits"] /\ ~CoolingDown(r, now)
      <3>1. Advanced(r)
        BY <1>1, <2>1, <2>2, <2>5, OneMoves DEF Advanced
      <3>2. QED
        BY <1>1, <2>1, <2>5, <3>1, Reading
    <2>6. QED
      BY <2>3, <2>4, <2>5
  <1>5. CASE CheckRateLimits(r)
    <2>1. local' = local /\ pc[r] = "limits" /\ UNCHANGED <<crm, row>>
      BY <1>5 DEF CheckRateLimits
    <2>2. r \in InBegin
      BY <2>1 DEF InBegin, Reserving
    <2>3. \/ pc' = [pc EXCEPT ![r] = "done"]
          \/ pc' = [pc EXCEPT ![r] = "insert"] /\ ~RateLimited(r, local[r].checkedAt)
      BY <1>5 DEF CheckRateLimits, GoTo, Reply
    <2>4. CASE pc' = [pc EXCEPT ![r] = "done"]
      <3>1. Advanced(r)
        BY <1>1, <2>1, <2>4, Leaving
      <3>2. QED
        BY <1>1, <2>1, <2>4, <3>1, Reading
    <2>5. CASE pc' = [pc EXCEPT ![r] = "insert"] /\ ~RateLimited(r, local[r].checkedAt)
      <3>1. Advanced(r)
        BY <1>1, <2>1, <2>2, <2>5, OneMoves DEF Advanced
      <3>2. QED
        BY <1>1, <2>1, <2>5, <3>1, Reading
    <2>6. QED
      BY <2>3, <2>4, <2>5
  <1>6. CASE Reserve(r)
    <2>1. CASE Insertable(r)
      BY <1>6, <2>1 DEF Reserve, Books, GoTo, crm
    <2>2. CASE ~Insertable(r)
      <3>1. PICK l \in {"rekey", "reactive"} : pc' = [pc EXCEPT ![r] = l]
        BY <1>6, <2>2 DEF Reserve, GoTo
      <3>2. local' = local /\ UNCHANGED <<crm, row>> /\ r \in InBegin
        BY <1>6, <2>2 DEF Reserve, InBegin, Reserving
      <3>3. Advanced(r)
        BY <1>1, <3>1, <3>2, Passing
      <3>4. QED
        BY <1>1, <3>1, <3>2, <3>3, Reading
    <2>3. QED
      BY <2>1, <2>2
  <1>7. CASE ReadContext(r) \/ CallProvider(r) \/ ComputeFingerprint(r)
    <2>1. PICK l \in InFlight : pc' = [pc EXCEPT ![r] = l]
      BY <1>7 DEF ReadContext, CallProvider, ComputeFingerprint, GoTo, InFlight
    <2>2. /\ local'[r].begunAt = local[r].begunAt
          /\ \A q \in Requests : q # r => local'[q] = local[q]
          /\ UNCHANGED <<crm, row>>
      BY <1>1, <1>7 DEF ReadContext, CallProvider, ComputeFingerprint, Locals
    <2>3. l \notin {"limits", "insert"} /\ l \notin Reserving
      BY DEF InFlight, Reserving
    <2>4. Advanced(r)
      BY <1>1, <2>1, <2>2, <2>3, Passing
    <2>5. QED
      BY <1>1, <2>1, <2>2, <2>4, Reading
  <1>8. CASE CompleteSuccess(r) \/ CompleteFailure(r)
    <2>1. /\ pc' = [pc EXCEPT ![r] = "done"] /\ local' = local /\ UNCHANGED crm
          /\ pc[r] \in InFlight
      BY <1>8 DEF CompleteSuccess, CompleteFailure, Reply, InFlight
    <2>2. row[r].status = "running"
      BY <2>1 DEF ReservationInv, RowFollowsStep
    <2>3. /\ \A q \in Requests : q # r => row'[q] = row[q]
          /\ row'[r].status \in Terminal /\ row'[r].completedAt = now
          /\ row'[r].createdAt = row[r].createdAt /\ row'[r].contact = row[r].contact
      <3>1. row[r] \in Rows
        BY <1>1
      <3>2. CASE CompleteSuccess(r)
        BY <1>1, <3>1, <3>2 DEF CompleteSuccess, Rows, Terminal
      <3>3. CASE CompleteFailure(r)
        BY <1>1, <3>1, <3>3 DEF CompleteFailure, Rows, Terminal
      <3>4. QED
        BY <1>8, <3>2, <3>3
    <2>4. \A e \in Requests : Settled(e)
      BY <2>2, <2>3 DEF Settled, Terminal
    <2>5. Advanced(r)
      BY <1>1, <2>1, Leaving
    <2>6. \A q \in Requests : Advanced(q)
      BY <1>1, <2>1, <2>5, OneMoves, Staying
    <2>7. QED
      BY <1>1, <2>1, <2>4, <2>6, OneMoves DEF Advances, crm
  <1>9. QED
    BY <1>2, <1>3, <1>4, <1>5, <1>6, <1>7, <1>8 DEF Step

\* So does every other step, but for the clock.
LEMMA NextAdvances ==
    ASSUME ReservationInv, [Next /\ Serial]_vars
    PROVE  Advances \/ Ticks \/ \E r \in Requests : Books(r)
  <1>1. TypeOK /\ row \in [Requests -> Rows] /\ pc \in [Requests -> Labels]
    BY DEF ReservationInv, TypeOK
  <1>2. ASSUME UNCHANGED <<now, request, pc, local>>, contacts' \subseteq contacts,
               \A e \in Requests : Settled(e)
        PROVE  Advances
    BY <1>2, Staying DEF Advances
  <1>3. CASE UNCHANGED vars
    <2>1. UNCHANGED <<now, request, pc, local, contacts, row>>
      BY <1>3 DEF vars
    <2>2. QED
      BY <1>2, <2>1 DEF Settled
  <1>4. ASSUME NEW r \in Requests, Lose(r) PROVE Advances
    <2>1. pc' = [pc EXCEPT ![r] = "lost"] /\ local' = local /\ UNCHANGED <<crm, row>>
      BY <1>4 DEF Lose, GoTo
    <2>2. Advanced(r)
      BY <1>1, <2>1, Leaving
    <2>3. QED
      BY <1>1, <2>1, <2>2, Reading
  <1>5. ASSUME NEW c \in Contacts, EditContact(c) PROVE Advances
    BY <1>2, <1>5 DEF EditContact, Settled
  <1>6. ASSUME NEW c \in Contacts, DeleteContact(c) PROVE Advances
    <2>1. \A e \in Requests :
             /\ row'[e].status = row[e].status /\ row'[e].createdAt = row[e].createdAt
             /\ row'[e].completedAt = row[e].completedAt
             /\ row'[e].contact \in {row[e].contact, NoContact}
      BY <1>1, <1>6 DEF DeleteContact, Rows
    <2>2. QED
      BY <1>2, <1>6, <2>1 DEF DeleteContact, Settled
  <1>7. ASSUME NEW e \in Requests, NEW h \in HumanActions, SetHumanAction(e, h)
        PROVE  Advances
    <2>1. \A f \in Requests :
             /\ row'[f].status = row[f].status /\ row'[f].createdAt = row[f].createdAt
             /\ row'[f].completedAt = row[f].completedAt
             /\ row'[f].contact = row[f].contact
      BY <1>1, <1>7 DEF SetHumanAction, Rows
    <2>2. QED
      BY <1>2, <1>7, <2>1 DEF SetHumanAction, Settled
  <1>8. ASSUME Tick, Serial PROVE Ticks
    <2>1. now' # now
      BY <1>1, <1>8 DEF Tick, TypeOK
    <2>2. QED
      BY <1>8, <2>1 DEF Tick, Serial, Ticks
  <1>9. QED
    BY <1>3, <1>4, <1>5, <1>6, <1>7, <1>8, StepAdvances DEF Next, Quiet

\* Times and settings are numbers, and a row in a slot has its contact.
LEMMA Numbers ==
    ASSUME ReservationInv
    PROVE  /\ now \in Nat
           /\ \A e \in Requests : /\ row[e].createdAt \in Nat /\ row[e].completedAt \in Nat
                                  /\ local[e].begunAt \in Nat /\ local[e].checkedAt \in Nat
                                  /\ row[e].status \in {"absent", "running"} \cup Terminal
                                  /\ request[e].contact # NoContact
           /\ {Cooldown, UserLimit, OrgLimit, ContactLimit, Minute, Hour} \subseteq Nat
  <1>1. TypeOK /\ MaxTime \in Nat
    BY ConfigAssumption DEF ReservationInv
  <1>2. ASSUME NEW e \in Requests
        PROVE  row[e] \in Rows /\ local[e] \in Locals /\ request[e] \in RequestInput
    BY <1>1 DEF TypeOK
  <1>3. now \in Nat
    BY <1>1 DEF TypeOK
  <1>4. QED
    BY <1>1, <1>2, <1>3, ConfigAssumption, SentinelAssumption DEF Rows, Locals, RequestInput

\* Among finitely many dated things one is the latest.
LEMMA LatestThere ==
    ASSUME NEW S, IsFiniteSet(S), S # {}, NEW at, \A e \in S : at[e] \in Nat
    PROVE  \E e \in S : \A f \in S : at[f] <= at[e]
  <1> DEFINE After(e) == {g \in S : at[g] > at[e]}
             F == {After(e) : e \in S}
  <1>1. F \subseteq SUBSET S /\ F # {}
    OBVIOUS
  <1>2. \E A \in F : \A C \in F : ~(<<C, A>> \in StrictSubsetOrdering(S))
    <2>1. FiniteSubsetsOf(S) = SUBSET S
      BY FS_FiniteSubsetsOfFinite
    <2>2. IsWellFoundedOn(StrictSubsetOrdering(S), FiniteSubsetsOf(S))
      BY FS_StrictSubsetOrderingWellFounded
    <2>3. IsWellFoundedOn(StrictSubsetOrdering(S), SUBSET S)
      BY <2>1, <2>2
    <2> HIDE DEF F
    <2>4. QED
      BY <1>1, <2>3, WFMin, Zenon
  <1>3. PICK e \in S : \A f \in S : ~(<<After(f), After(e)>> \in StrictSubsetOrdering(S))
    BY <1>2
  <1>4. ASSUME NEW f \in S, at[f] > at[e] PROVE FALSE
    <2>1. ASSUME NEW g \in After(f) PROVE g \in After(e)
      <3>1. g \in S /\ at[g] > at[f] /\ at[g] \in Nat /\ at[f] \in Nat /\ at[e] \in Nat
        OBVIOUS
      <3>2. QED
        BY <1>4, <3>1
    <2>2. f \in After(e) /\ f \notin After(f)
      BY <1>4
    <2>3. <<After(f), After(e)>> \in StrictSubsetOrdering(S)
      BY <2>1, <2>2 DEF StrictSubsetOrdering
    <2>4. QED
      BY <1>3, <2>3
  <1>5. QED
    BY <1>4

\* If the latest run does not hold r back, none does.
LEMMA NotCooling ==
    ASSUME ReservationInv, NEW r \in Requests, ~CoolingDown(r, now)
    PROVE  Cooled(r)
  <1> SUFFICES ASSUME Cooldown > 0, NEW f \in Succeeded(request[r].contact, request[r].agent)
               PROVE  row[f].createdAt + Cooldown < now
    BY DEF Cooled
  <1>1. PICK S : S = Succeeded(request[r].contact, request[r].agent)
    OBVIOUS
  <1>2. S \in SUBSET Requests /\ f \in S
    BY <1>1 DEF Succeeded
  <1>3. IsFiniteSet(S)
    BY <1>2, RequestsFinite, FS_Subset
  <1>4. PICK at : at = [e \in Requests |-> row[e].createdAt]
    OBVIOUS
  <1>5. \A e \in S : at[e] \in Nat
    BY <1>2, <1>4, Numbers
  <1>6. PICK e \in S : \A g \in S : at[g] <= at[e]
    BY <1>2, <1>3, <1>5, LatestThere
  <1>7. e \in LatestSucceeded(request[r].contact, request[r].agent)
    BY <1>1, <1>2, <1>4, <1>6 DEF LatestSucceeded
  <1>8. ~(RetryAfter(e, now) > 0)
    BY <1>7 DEF CoolingDown
  <1>9. /\ row[f].createdAt <= row[e].createdAt /\ row[f].createdAt \in Nat
        /\ row[e].createdAt \in Nat /\ now \in Nat /\ Cooldown \in Nat
    BY <1>2, <1>4, <1>6, Numbers
  <1>10. QED
    BY <1>8, <1>9 DEF RetryAfter

\* A run that counts as cooled off stays so.
LEMMA StaysCooled ==
    ASSUME ReservationInv, Advances, NEW r \in Requests, Cooled(r)
    PROVE  Cooled(r)'
  <1> SUFFICES ASSUME Cooldown > 0, NEW f \in Succeeded(request[r].contact, request[r].agent)'
               PROVE  row'[f].createdAt + Cooldown < now' \/ row'[f].completedAt >= now'
    BY DEF Cooled
  <1>1. /\ now' = now /\ request' = request /\ Settled(f) /\ f \in Requests
        /\ row'[f].status = "succeeded" /\ row'[f].contact = request[r].contact
        /\ request[f].agent = request[r].agent
    BY DEF Advances, Succeeded
  <1>2. row[f].contact = request[r].contact /\ row'[f].createdAt = row[f].createdAt
    BY <1>1, Numbers DEF Settled
  <1>3. CASE row'[f].status = row[f].status /\ row'[f].completedAt = row[f].completedAt
    <2>1. f \in Succeeded(request[r].contact, request[r].agent)
      BY <1>1, <1>2, <1>3 DEF Succeeded
    <2>2. QED
      BY <1>1, <1>2, <1>3, <2>1 DEF Cooled
  <1>4. CASE row'[f].completedAt = now
    BY <1>1, <1>4, Numbers
  <1>5. QED
    BY <1>1, <1>3, <1>4 DEF Settled

\* Fewer rows exceed no limit that more did not.
LEMMA Fewer ==
    ASSUME NEW limit \in Nat, NEW S \in SUBSET Requests, NEW T \in SUBSET S,
           ~Exceeds(limit, Cardinality(S))
    PROVE  ~Exceeds(limit, Cardinality(T))
  <1>1. IsFiniteSet(S)
    BY RequestsFinite, FS_Subset
  <1>2. IsFiniteSet(T) /\ Cardinality(T) <= Cardinality(S)
    BY <1>1, FS_Subset
  <1>3. Cardinality(S) \in Nat /\ Cardinality(T) \in Nat
    BY <1>1, <1>2, FS_CardinalityType
  <1>4. QED
    BY <1>2, <1>3 DEF Exceeds

\* Where the limit is not reached there is room for one more row.
LEMMA OneMore ==
    ASSUME NEW limit \in Nat, NEW S \in SUBSET Requests, NEW r \in Requests,
           NEW T \in SUBSET (S \cup {r}), ~Exceeds(limit, Cardinality(S))
    PROVE  Within(limit, T)
  <1>1. IsFiniteSet(S)
    BY RequestsFinite, FS_Subset
  <1>2. IsFiniteSet(S \cup {r}) /\ Cardinality(S \cup {r}) <= Cardinality(S) + 1
    <2>1. Cardinality(S) \in Nat
      BY <1>1, FS_CardinalityType
    <2>2. QED
      BY <1>1, <2>1, FS_AddElement
  <1>3. IsFiniteSet(T) /\ Cardinality(T) <= Cardinality(S \cup {r})
    BY <1>2, FS_Subset
  <1>4. Cardinality(S) \in Nat /\ Cardinality(S \cup {r}) \in Nat /\ Cardinality(T) \in Nat
    BY <1>1, <1>2, <1>3, FS_CardinalityType
  <1>5. QED
    BY <1>2, <1>3, <1>4 DEF Exceeds, Within

\* And what fits keeps fitting with fewer rows.
LEMMA FewerWithin ==
    ASSUME NEW limit \in Nat, NEW S \in SUBSET Requests, NEW T \in SUBSET S, Within(limit, S)
    PROVE  Within(limit, T)
  <1>1. IsFiniteSet(S)
    BY RequestsFinite, FS_Subset
  <1>2. IsFiniteSet(T) /\ Cardinality(T) <= Cardinality(S)
    BY <1>1, FS_Subset
  <1>3. Cardinality(S) \in Nat /\ Cardinality(T) \in Nat
    BY <1>1, <1>2, FS_CardinalityType
  <1>4. QED
    BY <1>2, <1>3 DEF Within

\* No step but an INSERT takes a request over a limit.
LEMMA StaysAllowed ==
    ASSUME ReservationInv, Advances, NEW r \in Requests, ~RateLimited(r, now)
    PROVE  ~RateLimited(r, now)'
  <1> DEFINE since(t, S) == {e \in S : Exists(e) /\ row[e].createdAt >= t}
             slot == ByContactAgent(request[r].contact, request[r].agent)
  <1>1. /\ now' = now /\ request' = request
        /\ \A e \in Requests : /\ Exists(e)' <=> Exists(e)
                               /\ row'[e].createdAt = row[e].createdAt
                               /\ row'[e].contact \in {row[e].contact, NoContact}
    BY DEF Advances, Settled, Exists
  <1>2. ~Exceeds(UserLimit, CountSince(now - Minute, ByUser(request[r].user)))'
    <2>1. since(now - Minute, ByUser(request[r].user))'
             = since(now - Minute, ByUser(request[r].user))
      BY <1>1 DEF ByUser
    <2>2. QED
      BY <1>1, <2>1 DEF RateLimited, CountSince
  <1>3. ~Exceeds(OrgLimit, CountSince(now - Minute, Requests))'
    <2>1. since(now - Minute, Requests)' = since(now - Minute, Requests)
      BY <1>1
    <2>2. QED
      BY <1>1, <2>1 DEF RateLimited, CountSince
  <1>4. ~Exceeds(ContactLimit, CountSince(now - Hour, slot))'
    <2>1. request[r].contact # NoContact /\ ContactLimit \in Nat
      BY Numbers
    <2>2. since(now - Hour, slot)' \subseteq since(now - Hour, slot)
      BY <1>1, <2>1 DEF ByContactAgent
    <2>3. since(now - Hour, slot) \in SUBSET Requests
      BY DEF ByContactAgent
    <2>4. ~Exceeds(ContactLimit, Cardinality(since(now - Hour, slot)))
      BY DEF RateLimited, CountSince
    <2>5. ~Exceeds(ContactLimit, Cardinality(since(now - Hour, slot)'))
      BY <2>1, <2>2, <2>3, <2>4, Fewer
    <2>6. QED
      BY <2>5 DEF CountSince
  <1>5. QED
    BY <1>2, <1>3, <1>4 DEF RateLimited

\* A request that checks its limits, or is about to insert, is in begin().
LEMMA ChecksInBegin ==
    ASSUME NEW r \in Requests, pc[r] \in {"limits", "insert"}
    PROVE  r \in InBegin
  BY DEF InBegin, Reserving

\* Turns outlives every step but an INSERT and the clock's.
LEMMA TurnsAdvance ==
    ASSUME ReservationInv, Turns, Advances, InBegin # {} => InBegin' \subseteq InBegin
    PROVE  Turns'
  <1>1. /\ now' = now /\ \A r \in Requests : Advanced(r)
        /\ \A q, r \in Requests : pc'[q] # pc[q] /\ pc'[r] # pc[r] => q = r
    BY DEF Advances
  <1>2. \A q, r \in InBegin' : q = r
    <2>1. CASE InBegin = {}
      BY <1>1, <2>1 DEF InBegin
    <2>2. CASE InBegin # {}
      BY <2>2 DEF Turns
    <2>3. QED
      BY <2>1, <2>2
  <1>3. \A r \in InBegin' : local'[r].begunAt = now'
    <2>1. ASSUME NEW r \in InBegin' PROVE local'[r].begunAt = now
      <3>1. r \in Requests /\ Advanced(r)
        BY <1>1 DEF InBegin
      <3>2. QED
        BY <3>1 DEF Advanced, Turns
    <2>2. QED
      BY <1>1, <2>1
  <1>4. ASSUME NEW r \in Requests, pc'[r] \in {"limits", "insert"}
        PROVE  local'[r].checkedAt = now' /\ Cooled(r)'
    <2>1. local'[r].checkedAt = now /\ Cooled(r)
      <3>1. CASE pc[r] \in {"limits", "insert"} /\ local'[r].checkedAt = local[r].checkedAt
        BY <3>1 DEF Turns
      <3>2. CASE local'[r].checkedAt = now /\ ~CoolingDown(r, now)
        BY <3>2, NotCooling
      <3>3. QED
        BY <1>1, <1>4, <3>1, <3>2 DEF Advanced
    <2>2. QED
      BY <1>1, <2>1, StaysCooled
  <1>5. ASSUME NEW r \in Requests, pc'[r] = "insert"
        PROVE  ~RateLimited(r, now)'
    <2>1. ~RateLimited(r, now)
      <3>1. CASE pc[r] = "insert"
        BY <3>1 DEF Turns
      <3>2. CASE pc[r] = "limits" /\ ~RateLimited(r, local[r].checkedAt)
        BY <3>2 DEF Turns
      <3>3. QED
        BY <1>1, <1>5, <3>1, <3>2 DEF Advanced
    <2>2. QED
      BY <2>1, StaysAllowed
  <1>6. QED
    BY <1>2, <1>3, <1>4, <1>5 DEF Turns

\* So do the dates of the rows.
LEMMA DatedAdvances ==
    ASSUME ReservationInv, Dated, Advances
    PROVE  Dated'
  <1> SUFFICES ASSUME NEW e \in Requests, Exists(e)'
               PROVE  /\ local'[e].begunAt = row'[e].createdAt /\ row'[e].createdAt <= now'
                      /\ row'[e].status \in Terminal =>
                             /\ row'[e].createdAt <= row'[e].completedAt
                             /\ row'[e].completedAt <= now'
    BY DEF Dated
  <1>1. now' = now /\ Settled(e) /\ Advanced(e)
    BY DEF Advances
  <1>2. Exists(e) /\ row'[e].createdAt = row[e].createdAt
        /\ local'[e].begunAt = local[e].begunAt
    BY <1>1 DEF Settled, Advanced, Exists
  <1>3. local[e].begunAt = row[e].createdAt /\ row[e].createdAt <= now
    BY <1>2 DEF Dated
  <1>4. CASE row'[e].status = row[e].status /\ row'[e].completedAt = row[e].completedAt
    BY <1>1, <1>2, <1>3, <1>4 DEF Dated
  <1>5. CASE row'[e].completedAt = now
    BY <1>1, <1>2, <1>3, <1>5, Numbers
  <1>6. QED
    BY <1>1, <1>4, <1>5 DEF Settled

\* Rows in one slot were in it before, and the one that ended stays as it is.
LEMMA OrderedAdvances ==
    ASSUME ReservationInv, Ordered, Advances
    PROVE  Ordered'
  <1> SUFFICES ASSUME NEW e \in Requests, NEW f \in Requests, Exists(e)', Exists(f)',
                      SameSlot(e, f)', row'[f].createdAt < row'[e].createdAt
               PROVE  row'[f].status \in Terminal /\ row'[f].completedAt <= row'[e].createdAt
    BY DEF Ordered
  <1>1. request' = request /\ Settled(e) /\ Settled(f)
    BY DEF Advances
  <1>2. Exists(e) /\ Exists(f) /\ row[f].createdAt < row[e].createdAt
        /\ row'[e].createdAt = row[e].createdAt
    BY <1>1 DEF Settled, Exists
  <1>3. SameSlot(e, f)
    BY <1>1 DEF Settled, SameSlot
  <1>4. row[f].status \in Terminal /\ row[f].completedAt <= row[e].createdAt
    BY <1>2, <1>3 DEF Ordered
  <1>5. row'[f].status = row[f].status /\ row'[f].completedAt = row[f].completedAt
    BY <1>1, <1>4 DEF Settled, Terminal
  <1>6. QED
    BY <1>2, <1>4, <1>5

\* A run that ends now is no reason for another to have waited.
LEMMA CooldownAdvances ==
    ASSUME ReservationInv, Dated, CooldownHeld, Advances
    PROVE  CooldownHeld'
  <1> SUFFICES ASSUME NEW e \in Requests, NEW f \in Requests, e # f, Cooldown > 0,
                      Exists(e)', row'[f].status = "succeeded", SameSlot(e, f)',
                      local'[e].begunAt > row'[f].completedAt
               PROVE  row'[e].createdAt > row'[f].createdAt + Cooldown
    BY DEF CooldownHeld
  <1>1. request' = request /\ Settled(e) /\ Settled(f) /\ Advanced(e)
    BY DEF Advances
  <1>2. /\ Exists(e) /\ row'[e].createdAt = row[e].createdAt
        /\ row'[f].createdAt = row[f].createdAt /\ local'[e].begunAt = local[e].begunAt
    BY <1>1 DEF Settled, Advanced, Exists
  <1>3. SameSlot(e, f)
    BY <1>1 DEF Settled, SameSlot
  <1>4. CASE row'[f].status = row[f].status /\ row'[f].completedAt = row[f].completedAt
    <2>1. row[f].status = "succeeded" /\ local[e].begunAt > row[f].completedAt
      BY <1>2, <1>4
    <2>2. QED
      BY <1>2, <1>3, <2>1 DEF CooldownHeld
  <1>5. CASE row'[f].completedAt = now
    <2>1. local[e].begunAt <= now
      BY <1>2 DEF Dated
    <2>2. QED
      BY <1>2, <1>5, <2>1, Numbers
  <1>6. QED
    BY <1>1, <1>4, <1>5 DEF Settled

\* Without an INSERT no window gains a row.
LEMMA RatesAdvance ==
    ASSUME ReservationInv, RateLimitsHeld, Advances
    PROVE  RateLimitsHeld'
  <1> SUFFICES ASSUME NEW r \in Requests, Exists(r)'
               PROVE  /\ Within(UserLimit, Recent(r, Minute, ByUser(request[r].user)))'
                      /\ Within(OrgLimit, Recent(r, Minute, Requests))'
                      /\ row'[r].contact # NoContact =>
                             Within(ContactLimit, Recent(r, Hour,
                                        ByContactAgent(row[r].contact, request[r].agent)))'
    BY DEF RateLimitsHeld
  <1>1. /\ request' = request
        /\ \A e \in Requests : /\ Exists(e)' <=> Exists(e)
                               /\ row'[e].createdAt = row[e].createdAt
                               /\ row'[e].contact \in {row[e].contact, NoContact}
    BY DEF Advances, Settled, Exists
  <1>2. Exists(r)
    BY <1>1
  <1>3. Recent(r, Minute, ByUser(request[r].user))' = Recent(r, Minute, ByUser(request[r].user))
    BY <1>1 DEF Recent, ByUser
  <1>4. Recent(r, Minute, Requests)' = Recent(r, Minute, Requests)
    BY <1>1 DEF Recent
  <1>5. ASSUME row'[r].contact # NoContact
        PROVE  Within(ContactLimit,
                      Recent(r, Hour, ByContactAgent(row[r].contact, request[r].agent)))'
    <2>1. PICK S : S = Recent(r, Hour, ByContactAgent(row[r].contact, request[r].agent))
      OBVIOUS
    <2>2. PICK T : T = Recent(r, Hour, ByContactAgent(row[r].contact, request[r].agent))'
      OBVIOUS
    <2>3. row'[r].contact = row[r].contact
      BY <1>1, <1>5
    <2>4. T \subseteq S /\ S \in SUBSET Requests
      BY <1>1, <1>5, <2>1, <2>2, <2>3 DEF Recent, ByContactAgent
    <2>5. Within(ContactLimit, S) /\ ContactLimit \in Nat
      BY <1>2, <1>5, <2>1, <2>3, Numbers DEF RateLimitsHeld
    <2>6. Within(ContactLimit, T)
      BY <2>4, <2>5, FewerWithin
    <2>7. QED
      BY <2>2, <2>6 DEF Within
  <1>6. Within(UserLimit, Recent(r, Minute, ByUser(request[r].user)))'
    BY <1>2, <1>3 DEF RateLimitsHeld, Within
  <1>7. Within(OrgLimit, Recent(r, Minute, Requests))'
    BY <1>2, <1>4 DEF RateLimitsHeld, Within
  <1>8. QED
    BY <1>5, <1>6, <1>7

\* What an INSERT finds and writes: r alone is in begin(), and its row is new,
\* running, and dated now.
LEMMA Booking ==
    ASSUME ReservationInv, Turns, NEW r \in Requests, Books(r)
    PROVE  /\ now' = now /\ request' = request /\ local' = local
           /\ InBegin = {r} /\ InBegin' = {} /\ local[r].begunAt = now /\ ~Exists(r)
           /\ Cooled(r) /\ ~RateLimited(r, now) /\ ActiveFor(r) = {}
           /\ Exists(r)' /\ row'[r].status = "running" /\ row'[r].createdAt = now
           /\ row'[r].contact = request[r].contact
           /\ \A q \in Requests : q # r => row'[q] = row[q] /\ pc'[q] = pc[q]
           /\ pc'[r] = "context"
  <1>1. pc[r] = "insert" /\ r \in InBegin /\ local[r].begunAt = now
    BY ChecksInBegin DEF Books, Turns
  <1>2. InBegin = {r}
    BY <1>1 DEF Turns
  <1>3. pc'[r] = "context" /\ \A q \in Requests : q # r => pc'[q] = pc[q]
    BY OneMoves DEF Books, ReservationInv
  <1>4. InBegin' = {}
    BY <1>2, <1>3 DEF InBegin, Reserving
  <1>5. row \in [Requests -> Rows]
    BY DEF ReservationInv, TypeOK
  <1>6. row'[r] = NewRow(r) /\ \A q \in Requests : q # r => row'[q] = row[q]
    BY <1>5 DEF Books
  <1>7. ~Exists(r)
    BY <1>1 DEF ReservationInv, RowFollowsStep, Reserving, Exists
  <1>8. Cooled(r) /\ ~RateLimited(r, now) /\ ActiveFor(r) = {}
    BY <1>1 DEF Turns, Books, Insertable
  <1>9. /\ NewRow(r).status = "running" /\ NewRow(r).createdAt = local[r].begunAt
        /\ NewRow(r).contact = request[r].contact
    BY DEF NewRow, NoRow
  <1>10. Exists(r)'
    BY <1>6, <1>9 DEF Exists
  <1>11. QED
    BY <1>1, <1>2, <1>3, <1>4, <1>6, <1>7, <1>8, <1>9, <1>10 DEF Books

\* After an INSERT nobody is in begin().
LEMMA TurnsBook ==
    ASSUME ReservationInv, Turns, NEW r \in Requests, Books(r)
    PROVE  Turns'
  <1>1. InBegin' = {}
    BY Booking
  <1>2. \A q \in Requests : pc'[q] \notin {"limits", "insert"}
    BY <1>1 DEF InBegin, Reserving
  <1>3. \A q \in Requests : pc'[q] # "insert"
    BY <1>2
  <1>4. QED
    BY <1>1, <1>2, <1>3 DEF Turns

\* The new row is dated, and has not ended.
LEMMA DatedBook ==
    ASSUME ReservationInv, Turns, Dated, NEW r \in Requests, Books(r)
    PROVE  Dated'
  <1> SUFFICES ASSUME NEW e \in Requests, Exists(e)'
               PROVE  /\ local'[e].begunAt = row'[e].createdAt /\ row'[e].createdAt <= now'
                      /\ row'[e].status \in Terminal =>
                             /\ row'[e].createdAt <= row'[e].completedAt
                             /\ row'[e].completedAt <= now'
    BY DEF Dated
  <1>1. CASE e = r
    BY <1>1, Booking, Numbers DEF Terminal
  <1>2. CASE e # r
    BY <1>2, Booking DEF Dated, Exists
  <1>3. QED
    BY <1>1, <1>2

\* The runs of its slot have all ended, or the index would have refused the row.
LEMMA OrderedBook ==
    ASSUME ReservationInv, Turns, Dated, Ordered, NEW r \in Requests, Books(r)
    PROVE  Ordered'
  <1> SUFFICES ASSUME NEW e \in Requests, NEW f \in Requests, Exists(e)', Exists(f)',
                      SameSlot(e, f)', row'[f].createdAt < row'[e].createdAt
               PROVE  row'[f].status \in Terminal /\ row'[f].completedAt <= row'[e].createdAt
    BY DEF Ordered
  <1>1. CASE e # r /\ f # r
    <2>1. row'[e] = row[e] /\ row'[f] = row[f] /\ request' = request
      BY <1>1, Booking
    <2>2. QED
      BY <2>1 DEF Ordered, SameSlot, Exists
  <1>2. CASE e = r /\ f # r
    <2>1. /\ row'[f] = row[f] /\ row'[e].contact = request[r].contact
          /\ row'[e].createdAt = now /\ request' = request /\ ActiveFor(r) = {}
      BY <1>2, Booking
    <2>2. row[f].contact = request[r].contact /\ request[f].agent = request[r].agent
      BY <1>2, <2>1 DEF SameSlot
    <2>3. Exists(f) /\ row[f].status # "running"
      BY <2>1, <2>2 DEF ActiveFor, Exists
    <2>4. row[f].status \in Terminal
      BY <2>3, Numbers DEF Exists
    <2>5. row[f].completedAt <= now
      BY <2>3, <2>4 DEF Dated
    <2>6. QED
      BY <2>1, <2>4, <2>5
  <1>3. CASE f = r
    <2>1. e # r
      BY <1>3, Booking, Numbers
    <2>2. row'[e] = row[e] /\ row'[f].createdAt = now
      BY <1>3, <2>1, Booking
    <2>3. row[e].createdAt <= now
      BY <2>2 DEF Dated, Exists
    <2>4. QED
      BY <2>2, <2>3, Numbers
  <1>4. QED
    BY <1>1, <1>2, <1>3

\* The cooldown check of r saw every run of its slot that ended before now.
LEMMA CooldownBook ==
    ASSUME ReservationInv, Turns, CooldownHeld, NEW r \in Requests, Books(r)
    PROVE  CooldownHeld'
  <1> SUFFICES ASSUME NEW e \in Requests, NEW f \in Requests, e # f, Cooldown > 0,
                      Exists(e)', row'[f].status = "succeeded", SameSlot(e, f)',
                      local'[e].begunAt > row'[f].completedAt
               PROVE  row'[e].createdAt > row'[f].createdAt + Cooldown
    BY DEF CooldownHeld
  <1>1. f # r /\ row'[f] = row[f] /\ request' = request /\ local' = local
    BY Booking
  <1>2. CASE e # r
    <2>1. row'[e] = row[e]
      BY <1>2, Booking
    <2>2. QED
      BY <1>1, <2>1 DEF CooldownHeld, SameSlot, Exists
  <1>3. CASE e = r
    <2>1. /\ Cooled(r) /\ local[r].begunAt = now /\ row'[r].createdAt = now
          /\ row'[r].contact = request[r].contact
      BY Booking
    <2>2. f \in Succeeded(request[r].contact, request[r].agent)
      BY <1>1, <1>3, <2>1 DEF SameSlot, Succeeded
    <2>3. row[f].createdAt + Cooldown < now \/ row[f].completedAt >= now
      BY <2>1, <2>2 DEF Cooled
    <2>4. /\ row[f].completedAt \in Nat /\ row[f].createdAt \in Nat
          /\ now \in Nat /\ Cooldown \in Nat
      BY Numbers
    <2>5. QED
      BY <1>1, <1>3, <2>1, <2>3, <2>4
  <1>4. QED
    BY <1>2, <1>3

\* A window over the rows T holds no more than its limit after r was added: it
\* fitted before, or it ends now and there was room for one.
LEMMA RoomForOne ==
    ASSUME ReservationInv, Turns, Dated, NEW r \in Requests, Books(r),
           NEW q \in Requests, Exists(q)', NEW limit \in Nat, NEW window \in Nat,
           NEW S \in SUBSET Requests, NEW T \in SUBSET (S \cup {r}), q = r => r \in T,
           r \in T => ~Exceeds(limit, CountSince(now - window, S)),
           q # r => Within(limit, Recent(q, window, S))
    PROVE  Within(limit, {e \in T : /\ Exists(e)'
                                    /\ row'[e].createdAt \in
                                           (row'[q].createdAt - window)..row'[q].createdAt})
  <1>1. PICK R : R = {e \in T : /\ Exists(e)'
                                /\ row'[e].createdAt \in
                                       (row'[q].createdAt - window)..row'[q].createdAt}
    OBVIOUS
  <1>2. R \in SUBSET Requests /\ R \subseteq T /\ R \subseteq S \cup {r}
    BY <1>1
  <1>3. /\ \A e \in Requests : e # r => row'[e] = row[e] /\ (Exists(e)' <=> Exists(e))
        /\ row'[r].createdAt = now
    BY Booking DEF Exists
  <1>4. CASE r \in R
    <2>1. row'[q].createdAt <= now
      BY <1>3, Numbers DEF Dated
    <2>2. now \in Nat /\ row[q].createdAt \in Nat
      BY Numbers
    <2>3. row'[q].createdAt = now
      BY <1>1, <1>3, <1>4, <2>1, <2>2
    <2>4. PICK P : P = {e \in S : Exists(e) /\ row[e].createdAt >= now - window}
      OBVIOUS
    <2>5. ~Exceeds(limit, Cardinality(P))
      BY <1>2, <1>4, <2>4 DEF CountSince
    <2>6. R \subseteq P \cup {r}
      <3>1. ASSUME NEW e \in R, e # r PROVE e \in P
        <4>1. e \in S /\ row[e] = row'[e] /\ Exists(e) /\ row[e].createdAt \in Nat
          BY <1>1, <1>2, <1>3, <3>1, Numbers
        <4>2. row'[e].createdAt \in (now - window)..now
          BY <1>1, <2>3, <3>1
        <4>3. row[e].createdAt >= now - window
          BY <2>2, <4>1, <4>2
        <4>4. QED
          BY <2>4, <4>1, <4>3
      <3>2. QED
        BY <3>1
    <2>7. P \in SUBSET Requests
      BY <2>4
    <2>8. Within(limit, R)
      BY <2>5, <2>6, <2>7, OneMore
    <2>9. QED
      BY <1>1, <2>8
  <1>5. CASE r \notin R
    <2>1. ASSUME q = r PROVE FALSE
      <3>1. r \in T /\ row'[r].createdAt = now /\ Exists(r)'
        BY <1>3, <2>1
      <3>2. now \in Nat /\ window \in Nat
        BY Numbers
      <3>3. now \in (now - window)..now
        BY <3>2
      <3>4. QED
        BY <1>1, <1>5, <2>1, <3>1, <3>3
    <2>2. R \subseteq Recent(q, window, S)
      BY <1>1, <1>2, <1>3, <1>5, <2>1 DEF Recent
    <2>3. PICK P : P = Recent(q, window, S)
      OBVIOUS
    <2>4. P \in SUBSET Requests /\ R \subseteq P /\ Within(limit, P)
      BY <2>1, <2>2, <2>3 DEF Recent
    <2>5. Within(limit, R)
      BY <2>4, FewerWithin
    <2>6. QED
      BY <1>1, <2>5
  <1>6. QED
    BY <1>4, <1>5

\* An INSERT passed the three limits, so every window it falls in has room.
LEMMA RatesBook ==
    ASSUME ReservationInv, Turns, Dated, RateLimitsHeld, NEW r \in Requests, Books(r)
    PROVE  RateLimitsHeld'
  <1> SUFFICES ASSUME NEW q \in Requests, Exists(q)'
               PROVE  /\ Within(UserLimit, Recent(q, Minute, ByUser(request[q].user)))'
                      /\ Within(OrgLimit, Recent(q, Minute, Requests))'
                      /\ row'[q].contact # NoContact =>
                             Within(ContactLimit, Recent(q, Hour,
                                        ByContactAgent(row[q].contact, request[q].agent)))'
    BY DEF RateLimitsHeld
  <1>1. /\ request' = request /\ ~RateLimited(r, now)
        /\ \A e \in Requests : e # r => row'[e] = row[e] /\ (Exists(e)' <=> Exists(e))
        /\ row'[r].contact = request[r].contact
    BY Booking DEF Exists
  <1>2. UserLimit \in Nat /\ OrgLimit \in Nat /\ ContactLimit \in Nat
        /\ Minute \in Nat /\ Hour \in Nat
    BY Numbers
  <1>3. Within(UserLimit, Recent(q, Minute, ByUser(request[q].user)))'
    <2>1. PICK S : S = ByUser(request[q].user)
      OBVIOUS
    <2>2. S \in SUBSET Requests /\ S \in SUBSET (S \cup {r})
      BY <2>1 DEF ByUser
    <2>3. q = r => r \in S
      BY <2>1 DEF ByUser
    <2>4. r \in S => ~Exceeds(UserLimit, CountSince(now - Minute, S))
      BY <1>1, <2>1 DEF ByUser, RateLimited
    <2>5. q # r => Within(UserLimit, Recent(q, Minute, S))
      BY <1>1, <2>1 DEF RateLimitsHeld
    <2>6. Within(UserLimit, {e \in S : /\ Exists(e)'
                                       /\ row'[e].createdAt \in
                                              (row'[q].createdAt - Minute)..row'[q].createdAt})
      BY <1>2, <2>2, <2>3, <2>4, <2>5, RoomForOne
    <2>7. ByUser(request[q].user)' = S
      BY <1>1, <2>1 DEF ByUser
    <2>8. QED
      BY <2>6, <2>7 DEF Recent, Within
  <1>4. Within(OrgLimit, Recent(q, Minute, Requests))'
    <2>1. Requests \in SUBSET Requests /\ Requests \in SUBSET (Requests \cup {r})
      OBVIOUS
    <2>2. ~Exceeds(OrgLimit, CountSince(now - Minute, Requests))
      BY <1>1 DEF RateLimited
    <2>3. q # r => Within(OrgLimit, Recent(q, Minute, Requests))
      BY <1>1 DEF RateLimitsHeld
    <2>4. Within(OrgLimit, {e \in Requests :
                                /\ Exists(e)'
                                /\ row'[e].createdAt \in
                                       (row'[q].createdAt - Minute)..row'[q].createdAt})
      BY <1>2, <2>1, <2>2, <2>3, RoomForOne
    <2>5. QED
      BY <2>4 DEF Recent, Within
  <1>5. ASSUME row'[q].contact # NoContact
        PROVE  Within(ContactLimit,
                      Recent(q, Hour, ByContactAgent(row[q].contact, request[q].agent)))'
    <2>1. PICK c, a : c = row'[q].contact /\ a = request[q].agent
      OBVIOUS
    <2>2. PICK S : S = ByContactAgent(c, a)
      OBVIOUS
    <2>3. PICK T : T = ByContactAgent(c, a)'
      OBVIOUS
    <2>4. S \in SUBSET Requests /\ T \in SUBSET (S \cup {r})
      BY <1>1, <2>2, <2>3 DEF ByContactAgent
    <2>5. q = r => r \in T
      BY <1>1, <2>1, <2>3 DEF ByContactAgent
    <2>6. r \in T => ~Exceeds(ContactLimit, CountSince(now - Hour, S))
      BY <1>1, <2>2, <2>3 DEF ByContactAgent, RateLimited
    <2>7. q # r => Within(ContactLimit, Recent(q, Hour, S))
      BY <1>1, <1>5, <2>1, <2>2 DEF RateLimitsHeld
    <2>8. Within(ContactLimit, {e \in T : /\ Exists(e)'
                                          /\ row'[e].createdAt \in
                                                 (row'[q].createdAt - Hour)..row'[q].createdAt})
      BY <1>2, <2>4, <2>5, <2>6, <2>7, RoomForOne
    <2>9. ByContactAgent(row[q].contact, request[q].agent)' = T
      BY <1>1, <2>1, <2>3 DEF ByContactAgent
    <2>10. QED
      BY <2>8, <2>9 DEF Recent, Within
  <1>6. QED
    BY <1>3, <1>4, <1>5

\* The clock moves only while nobody is in begin(), and dates no row.
LEMMA TicksSerial ==
    ASSUME ReservationInv, SerialInv, Ticks
    PROVE  SerialInv'
  <1>1. /\ InBegin' = {} /\ now' = now + 1 /\ now \in Nat
        /\ request' = request /\ local' = local /\ row' = row
    BY Numbers DEF Ticks, InBegin
  <1>2. \A r \in Requests : pc'[r] \notin {"limits", "insert"} /\ pc'[r] # "insert"
    BY <1>1 DEF InBegin, Reserving
  <1>3. Turns'
    BY <1>1, <1>2 DEF Turns
  <1>4. Dated'
    <2>1. \A e \in Requests : row[e].createdAt \in Nat /\ row[e].completedAt \in Nat
      BY Numbers
    <2>2. QED
      BY <1>1, <2>1 DEF SerialInv, Dated, Exists
  <1>5. Ordered'
    BY <1>1 DEF SerialInv, Ordered, SameSlot, Exists
  <1>6. LimitsHeld'
    BY <1>1 DEF SerialInv, LimitsHeld, RateLimitsHeld, CooldownHeld, Recent, Within,
                ByUser, ByContactAgent, SameSlot, Exists
  <1>7. QED
    BY <1>3, <1>4, <1>5, <1>6 DEF SerialInv

\* At first nobody is in begin() and there is no row.
LEMMA InitSerial == Init => SerialInv
  <1> SUFFICES ASSUME Init PROVE SerialInv
    OBVIOUS
  <1>1. \A r \in Requests : pc[r] = "contact" /\ ~Exists(r) /\ row[r].status = "absent"
    BY DEF Init, NoRow, Exists
  <1>2. InBegin = {} /\ \A r \in Requests : pc[r] \notin {"limits", "insert"}
    BY <1>1 DEF InBegin
  <1>3. Turns
    BY <1>1, <1>2 DEF Turns
  <1>4. Dated /\ Ordered
    BY <1>1 DEF Dated, Ordered
  <1>5. LimitsHeld
    BY <1>1 DEF LimitsHeld, RateLimitsHeld, CooldownHeld
  <1>6. QED
    BY <1>3, <1>4, <1>5 DEF SerialInv

\* Every step of clients that do not overlap keeps the invariant.
LEMMA NextSerial == ReservationInv /\ SerialInv /\ [Next /\ Serial]_vars => SerialInv'
  <1> SUFFICES ASSUME ReservationInv, SerialInv, [Next /\ Serial]_vars PROVE SerialInv'
    OBVIOUS
  <1>1. Turns /\ Dated /\ Ordered /\ RateLimitsHeld /\ CooldownHeld
    BY DEF SerialInv, LimitsHeld
  <1>2. InBegin # {} => InBegin' \subseteq InBegin
    BY DEF Serial, vars, InBegin
  <1>3. CASE Advances
    BY <1>1, <1>2, <1>3, TurnsAdvance, DatedAdvances, OrderedAdvances, CooldownAdvances,
       RatesAdvance DEF SerialInv, LimitsHeld
  <1>4. ASSUME NEW r \in Requests, Books(r) PROVE SerialInv'
    BY <1>1, <1>4, TurnsBook, DatedBook, OrderedBook, CooldownBook, RatesBook
       DEF SerialInv, LimitsHeld
  <1>5. CASE Ticks
    BY <1>5, TicksSerial
  <1>6. QED
    BY <1>3, <1>4, <1>5, NextAdvances

\* The order of a slot's runs makes the latest one the last to have completed.
LEMMA OrderShows == ReservationInv /\ SerialInv => LatestIsLastCompleted
  <1> SUFFICES ASSUME ReservationInv, SerialInv, NEW c \in contacts, NEW a \in Agents,
                      NEW e \in LatestSucceeded(c, a), NEW f \in Succeeded(c, a),
                      row[f].createdAt # row[e].createdAt
               PROVE  row[f].completedAt <= row[e].completedAt
    BY DEF LatestIsLastCompleted
  <1>1. /\ e \in Requests /\ f \in Requests /\ row[f].createdAt <= row[e].createdAt
        /\ row[e].status = "succeeded" /\ row[f].status = "succeeded"
        /\ row[e].contact = c /\ row[f].contact = c
        /\ request[e].agent = a /\ request[f].agent = a
    BY DEF LatestSucceeded, Succeeded
  <1>2. Exists(e) /\ Exists(f) /\ row[e].status \in Terminal
    BY <1>1 DEF Exists, Terminal
  <1>3. c # NoContact
    BY SentinelAssumption DEF ReservationInv, TypeOK
  <1>4. /\ row[f].createdAt \in Nat /\ row[e].createdAt \in Nat
        /\ row[f].completedAt \in Nat /\ row[e].completedAt \in Nat
    BY <1>1, Numbers
  <1>5. row[f].completedAt <= row[e].createdAt
    BY <1>1, <1>2, <1>3, <1>4 DEF SerialInv, Ordered, SameSlot
  <1>6. row[e].createdAt <= row[e].completedAt
    BY <1>1, <1>2 DEF SerialInv, Dated
  <1>7. QED
    BY <1>4, <1>5, <1>6

\* For clients that do not overlap, both invariants always hold.
LEMMA SerialInvariants == SerialSpec => [](ReservationInv /\ SerialInv)
  <1>1. Init => ReservationInv /\ SerialInv
    BY InitReservation, InitSerial
  <1>2. ReservationInv /\ SerialInv /\ [Next /\ Serial]_vars => (ReservationInv /\ SerialInv)'
    <2>1. [Next /\ Serial]_vars => [Next]_vars
      OBVIOUS
    <2>2. QED
      BY <2>1, NextReservation, NextSerial
  <1>3. QED
    BY <1>1, <1>2, PTL DEF SerialSpec

\* The cost boundary for clients that do not overlap: no window holds more runs
\* than its limit, and no run starts within the cooldown of a successful one.
THEOREM Bounded == SerialSpec => []LimitsHeld
  <1>1. SerialInv => LimitsHeld
    BY DEF SerialInv
  <1>2. QED
    BY <1>1, SerialInvariants, PTL

\* For them, GET /ai/agent-executions/latest shows the run that completed last.
THEOREM LatestShown == SerialSpec => []LatestIsLastCompleted
  BY OrderShows, SerialInvariants, PTL

=============================================================================
