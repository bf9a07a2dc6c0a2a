---------------------------- MODULE SalesProofs ----------------------------
(***************************************************************************)
(* Proofs about what a sale is made of: OpportunityPipeline, a deal, for   *)
(* any number of overlapping PATCHes and any stages and reasons; and       *)
(* Matching, the properties its buyer is offered, for any catalog, places, *)
(* bounds and number of overlapping edits.                                 *)
(***************************************************************************)
EXTENDS MCOpportunityPipeline, Matching, SequenceTheorems, FiniteSetTheorems, TLAPS

-----------------------------------------------------------------------------
(* What a PATCH writes.                                                    *)

\* A valid PATCH makes a row of a row, whatever happened to it meanwhile.
LEMMA FlushedTyped ==
    ASSUME opp \in Row, opp.stage \in Stages, NEW r \in Requests,
           sent[r] \in Payload, seen[r] \in Row, Valid(r)
    PROVE  /\ Flushed(r) \in Row /\ Flushed(r).stage \in Stages
           /\ After(r) \in Row
  <1>1. NewStage(r) \in Stages
    BY DEF Valid
  <1>2. ReasonAfter(r) \in Reasons \cup {NoReason}
    BY DEF ReasonAfter, Row
  <1>3. ClosedAfter(r, opp.closed) \in BOOLEAN /\ ClosedAfter(r, seen[r].closed) \in BOOLEAN
    BY DEF ClosedAfter
  <1>4. QED
    BY <1>1, <1>2, <1>3 DEF Flushed, After, Row

\* A PATCH that closes the deal stamps it, one that leaves the stage alone
\* leaves closed_at alone: whatever the row was, a closed deal stays stamped.
LEMMA FlushedStamped ==
    ASSUME ClosedIsStamped, NEW r \in Requests, Flushed(r).stage \in Closed
    PROVE  Flushed(r).closed
  <1>1. CASE StageChanged(r)
    <2>1. Stamps(r)
      BY <1>1 DEF Flushed, Stamps
    <2>2. QED
      BY <2>1 DEF Flushed, ClosedAfter
  <1>2. CASE ~StageChanged(r)
    <2>1. opp.closed
      BY <1>2 DEF Flushed, ClosedIsStamped
    <2>2. QED
      BY <1>2, <2>1 DEF Flushed, ClosedAfter, Reopens
  <1>3. QED
    BY <1>1, <1>2

-----------------------------------------------------------------------------
(* Types.                                                                  *)

\* An opportunity that exists is in a stage, and nobody loads one that does not.
Present ==
    /\ opp # Absent => opp.stage \in Stages
    /\ \A r \in Requests : pc[r] # "load" /\ pc[r] # "done" => opp # Absent
    /\ \A r \in Requests : pc[r] \in {"write", "audit"} => seen[r].stage \in Stages
    /\ \A r \in Requests : pc[r] = "audit" => Valid(r)

Inv == TypeOK /\ Present

\* Initially.
LEMMA InitInv == Init => Inv
  BY DEF Init, Inv, TypeOK, Present, Absent, Row, Payload, Steps, Valid

\* Every step keeps types and presence.
LEMMA NextInv == Inv /\ [Next]_vars => Inv'
  <1> SUFFICES ASSUME Inv, [Next]_vars PROVE Inv'
    OBVIOUS
  <1> USE DEF Inv
  <1>1. ASSUME NEW s \in Stages, NEW l \in Reasons \cup {NoReason}, Create(s, l)
        PROVE  Inv'
    <2>1. opp' \in Row /\ opp'.stage \in Stages
      BY <1>1 DEF Create, Row
    <2>2. Absent \in Row
      BY DEF Absent, Row
    <2>3. audit' \in Seq([by : Requests \cup {Unset}, action : Actions,
                         before : Row, after : Row])
      BY <1>1, <2>1, <2>2 DEF Create, TypeOK, Actions
    <2>4. TypeOK'
      BY <1>1, <2>1, <2>3 DEF Create, TypeOK
    <2>5. Present'
      <3>1. opp' # Absent
        BY <2>1, PipelineAssumption DEF Absent, Stages, Closed
      <3>2. QED
        BY <1>1, <2>1, <3>1 DEF Create, Present, Valid, NewStage, NewReason
    <2>6. QED
      BY <2>4, <2>5
  <1>2. ASSUME NEW r \in Requests, NEW p \in Payload, Load(r, p) PROVE Inv'
    <2>1. TypeOK'
      BY <1>2 DEF Load, TypeOK, Steps
    <2>2. Present'
      BY <1>2 DEF Load, TypeOK, Present, Valid, NewStage, NewReason
    <2>3. QED
      BY <2>1, <2>2
  <1>3. ASSUME NEW r \in Requests, Reject(r) PROVE Inv'
    <2>1. TypeOK'
      BY <1>3 DEF Reject, TypeOK, Steps
    <2>2. Present'
      BY <1>3 DEF Reject, TypeOK, Present, Valid, NewStage, NewReason
    <2>3. QED
      BY <2>1, <2>2
  <1>4. ASSUME NEW r \in Requests, Write(r) \/ WriteWon(r)
        PROVE  /\ opp' \in Row /\ opp'.stage \in Stages /\ opp' # Absent
               /\ After(r) \in Row /\ seen[r] \in Row /\ seen[r].stage \in Stages
               /\ NewStage(r) \in Stages /\ Valid(r)
               /\ Change(r) \in [by : Requests, from : Stages, to : Stages]
    <2>1. /\ opp \in Row /\ opp.stage \in Stages /\ sent[r] \in Payload
          /\ seen[r] \in Row /\ seen[r].stage \in Stages /\ Valid(r)
          /\ opp' = Flushed(r)
      BY <1>4 DEF Write, WriteWon, TypeOK, Present
    <2>2. opp' \in Row /\ opp'.stage \in Stages /\ After(r) \in Row
      BY <2>1, FlushedTyped
    <2>3. opp' # Absent
      BY <2>2, PipelineAssumption DEF Absent, Stages, Closed
    <2>4. NewStage(r) \in Stages
      BY <2>1 DEF Valid
    <2>5. Change(r) \in [by : Requests, from : Stages, to : Stages]
      BY <2>1, <2>4 DEF Change
    <2>6. QED
      BY <2>1, <2>2, <2>3, <2>4, <2>5
  <1>5. ASSUME NEW r \in Requests, Write(r) PROVE Inv'
    <2>1. timeline' \in Seq([by : Requests, from : Stages, to : Stages])
      <3>1. Change(r) \in [by : Requests, from : Stages, to : Stages]
        BY <1>4, <1>5
      <3>2. QED
        <4>1. timeline \in Seq([by : Requests, from : Stages, to : Stages])
          BY DEF TypeOK
        <4>2. timeline' = Append(timeline, Change(r)) \/ timeline' = timeline
          BY <1>5 DEF Write
        <4>3. Append(timeline, Change(r)) \in Seq([by : Requests, from : Stages, to : Stages])
          BY <3>1, <4>1, AppendProperties
        <4>4. QED
          BY <4>1, <4>2, <4>3
    <2>2. Entry(r) \in [by : Requests \cup {Unset}, action : Actions,
                       before : Row, after : Row]
      BY <1>4, <1>5 DEF Entry, AuditAction, Actions
    <2>3. TypeOK'
      <3>1. audit' \in Seq([by : Requests \cup {Unset}, action : Actions,
                           before : Row, after : Row])
        BY <1>5, <2>2 DEF Write, TypeOK
      <3>2. opp' \in Row
        BY <1>4, <1>5
      <3>3. QED
        <4>1. pc' \in [Requests -> Steps] /\ UNCHANGED <<tasks, sent, seen>>
          BY <1>5 DEF Write, TypeOK, Steps
        <4>2. QED
          BY <2>1, <3>1, <3>2, <4>1 DEF TypeOK
    <2>4. Present'
      BY <1>4, <1>5 DEF Write, TypeOK, Present, Valid, NewStage, NewReason
    <2>5. QED
      BY <2>3, <2>4
  <1>6. ASSUME NEW r \in Requests, WriteWon(r) PROVE Inv'
    <2>1. timeline' \in Seq([by : Requests, from : Stages, to : Stages])
      <3>1. Change(r) \in [by : Requests, from : Stages, to : Stages]
        BY <1>4, <1>6
      <3>2. QED
        BY <3>1, <1>6 DEF WriteWon, TypeOK
    <2>2. TypeOK'
      BY <1>4, <1>6, <2>1 DEF WriteWon, TypeOK, Steps
    <2>3. Present'
      BY <1>4, <1>6 DEF WriteWon, TypeOK, Present, Valid, NewStage, NewReason
    <2>4. QED
      BY <2>2, <2>3
  <1>7. ASSUME NEW r \in Requests, RecordWon(r) PROVE Inv'
    <2>1. /\ opp \in Row /\ opp.stage \in Stages /\ sent[r] \in Payload
          /\ seen[r] \in Row /\ Valid(r)
      BY <1>7 DEF RecordWon, TypeOK, Present
    <2>2. After(r) \in Row
      BY <2>1, FlushedTyped
    <2>3. Entry(r) \in [by : Requests \cup {Unset}, action : Actions,
                       before : Row, after : Row]
      BY <2>1, <2>2 DEF Entry, AuditAction, Actions
    <2>4. TypeOK'
      BY <1>7, <2>3 DEF RecordWon, TypeOK, Steps
    <2>5. Present'
      BY <1>7 DEF RecordWon, TypeOK, Present, Valid, NewStage, NewReason
    <2>6. QED
      BY <2>4, <2>5
  <1>8. ASSUME NEW r \in Requests, Lose(r) PROVE Inv'
    <2>1. TypeOK'
      BY <1>8 DEF Lose, TypeOK, Steps
    <2>2. Present'
      BY <1>8 DEF Lose, TypeOK, Present, Valid, NewStage, NewReason
    <2>3. QED
      BY <2>1, <2>2
  <1>9. CASE UNCHANGED vars
    BY <1>9 DEF vars, TypeOK, Present, Valid, NewStage, NewReason
  <1>10. QED
    BY <1>1, <1>2, <1>3, <1>5, <1>6, <1>7, <1>8, <1>9 DEF Next, Quiet

\* Every reachable state is well typed: no PATCH gets a deal into a stage of
\* the other pipeline.
THEOREM Typing == Spec => []TypeOK
  <1>1. Inv => TypeOK
    BY DEF Inv
  <1>2. QED
    BY <1>1, InitInv, NextInv, PTL DEF Spec

-----------------------------------------------------------------------------
(* Theorems.                                                               *)

\* A closed deal has its closing time, however PATCHes interleave.
THEOREM ClosedStamped == Spec => []ClosedIsStamped
  <1>1. Init => ClosedIsStamped
    BY DEF Init, Absent, ClosedIsStamped, Closed
  <1>2. ClosedIsStamped /\ [Next]_vars => ClosedIsStamped'
    <2> SUFFICES ASSUME ClosedIsStamped, [Next]_vars PROVE ClosedIsStamped'
      OBVIOUS
    <2>1. ASSUME NEW s \in Stages, NEW l \in Reasons \cup {NoReason}, Create(s, l)
          PROVE  ClosedIsStamped'
      BY <2>1 DEF Create, ClosedIsStamped
    <2>2. ASSUME NEW r \in Requests, Write(r) \/ WriteWon(r)
          PROVE  ClosedIsStamped'
      <3>1. opp' = Flushed(r)
        BY <2>2 DEF Write, WriteWon
      <3>2. QED
        BY <3>1, FlushedStamped DEF ClosedIsStamped
    <2>3. CASE opp' = opp
      BY <2>3 DEF ClosedIsStamped
    <2>4. QED
      BY <2>1, <2>2, <2>3
         DEF Next, Load, Reject, RecordWon, Lose, Quiet, vars
  <1>3. QED
    BY <1>1, <1>2, PTL DEF Spec

\* The last stage change of the timeline is the stage the deal is in.
THEOREM TimelineEnds == Spec => []TimelineEndsAtStage
  <1>1. Init => TimelineEndsAtStage
    BY DEF Init, TimelineEndsAtStage
  <1>2. Inv /\ TimelineEndsAtStage /\ [Next]_vars => TimelineEndsAtStage'
    <2> SUFFICES ASSUME Inv, TimelineEndsAtStage, [Next]_vars
                 PROVE  TimelineEndsAtStage'
      OBVIOUS
    <2>1. ASSUME NEW s \in Stages, NEW l \in Reasons \cup {NoReason}, Create(s, l)
          PROVE  TimelineEndsAtStage'
      <3>1. timeline \in Seq([by : Requests, from : Stages, to : Stages])
        BY DEF Inv, TypeOK
      <3>2. timeline # <<>> => Last(timeline) \in [by : Requests, from : Stages, to : Stages]
        <4>1. timeline # <<>> => Len(timeline) \in 1..Len(timeline)
          BY <3>1, EmptySeq, LenProperties
        <4>2. QED
          BY <3>1, <4>1, ElementOfSeq DEF Last
      <3>3. opp.stage \notin Stages
        BY <2>1, PipelineAssumption DEF Create, Absent, Stages, Closed
      <3>4. timeline = <<>>
        BY <3>2, <3>3 DEF TimelineEndsAtStage
      <3>5. QED
        BY <2>1, <3>4 DEF Create, TimelineEndsAtStage
    <2>2. ASSUME NEW r \in Requests, Write(r) \/ WriteWon(r), StageChanged(r)
          PROVE  TimelineEndsAtStage'
      <3>1. /\ timeline' = Append(timeline, Change(r))
            /\ opp' = Flushed(r)
        BY <2>2 DEF Write, WriteWon
      <3>2. timeline \in Seq([by : Requests, from : Stages, to : Stages])
        BY DEF Inv, TypeOK
      <3>3. Last(timeline') = Change(r)
        BY <3>1, <3>2 DEF Last
      <3>4. Change(r).to = NewStage(r) /\ opp'.stage = NewStage(r)
        BY <2>2, <3>1 DEF Change, Flushed
      <3>5. QED
        BY <3>3, <3>4 DEF TimelineEndsAtStage
    <2>3. ASSUME NEW r \in Requests, Write(r), ~StageChanged(r)
          PROVE  TimelineEndsAtStage'
      <3>1. timeline' = timeline /\ opp'.stage = opp.stage
        BY <2>3 DEF Write, Flushed
      <3>2. QED
        BY <3>1 DEF TimelineEndsAtStage, Last
    <2>4. CASE opp' = opp /\ timeline' = timeline
      BY <2>4 DEF TimelineEndsAtStage, Last
    <2>5. QED
      BY <2>1, <2>2, <2>3, <2>4
         DEF Next, Load, Reject, RecordWon, WriteWon, Lose, Quiet, vars
  <1>3. QED
    BY <1>1, <1>2, InitInv, NextInv, PTL DEF Spec

-----------------------------------------------------------------------------
(* Wins, tasks and audit entries.                                          *)

Changes == [by : Requests, from : Stages, to : Stages]

\* Who has a change in the timeline has written, and a win that still owes its
\* audit entry has its change there.
Settled ==
    /\ \A i \in DOMAIN timeline :
          LET r == timeline[i].by
          IN  /\ pc[r] \in {"audit", "done", "lost"}
              /\ pc[r] = "audit" => timeline[i] = Change(r)
    /\ \A r \in Requests : pc[r] = "audit" => NewStage(r) = "won"

WinsInv == OneTaskPerWin /\ ChangesAudited /\ Settled

\* What is appended comes last and moves nothing.
LEMMA Appending ==
    ASSUME NEW S, NEW s \in Seq(S), NEW x \in S
    PROVE  /\ DOMAIN Append(s, x) = DOMAIN s \cup {Len(s) + 1}
           /\ \A i \in DOMAIN s : Append(s, x)[i] = s[i]
           /\ Append(s, x)[Len(s) + 1] = x
           /\ Len(s) + 1 \notin DOMAIN s
  BY AppendProperties

\* A change appended for a request that had none keeps the accounts: a win has
\* its task, another stage is audited by the same commit.
LEMMA ChangeInv ==
    ASSUME Inv, Inv', WinsInv, NEW r \in Requests, pc[r] = "write", UNCHANGED <<sent, seen>>,
           timeline' = Append(timeline, Change(r)),
           NEW next \in {"audit", "done"}, pc' = [pc EXCEPT ![r] = next],
           \/ /\ NewStage(r) = "won" /\ next = "audit"
              /\ tasks' = tasks \cup {r} /\ audit' = audit
           \/ /\ NewStage(r) # "won" /\ next = "done"
              /\ tasks' = tasks /\ audit' = Append(audit, Entry(r))
    PROVE  WinsInv'
  <1>1. /\ timeline \in Seq(Changes) /\ timeline' \in Seq(Changes)
        /\ pc \in [Requests -> Steps] /\ tasks \subseteq Requests
    BY DEF Inv, TypeOK, Changes
  <1>2. Change(r) \in Changes
    <2>1. seen[r].stage \in Stages
      BY DEF Inv, Present
    <2>2. Change(r) = timeline'[Len(timeline) + 1] /\ Len(timeline) + 1 \in DOMAIN timeline'
      BY <1>1, LenProperties
    <2>3. QED
      BY <1>1, <2>2, ElementOfSeq, LenProperties
  <1>3. /\ DOMAIN timeline' = DOMAIN timeline \cup {Len(timeline) + 1}
        /\ \A i \in DOMAIN timeline : timeline'[i] = timeline[i]
        /\ timeline'[Len(timeline) + 1] = Change(r)
        /\ Len(timeline) + 1 \notin DOMAIN timeline
    BY <1>1, <1>2, Appending
  <1>4. \A i \in DOMAIN timeline : timeline[i].by # r
    BY DEF WinsInv, Settled
  <1>5. \A i \in DOMAIN timeline : timeline[i].by \in Requests /\ timeline[i] \in Changes
    <2>1. \A i \in DOMAIN timeline : timeline[i] \in Changes
      BY <1>1, ElementOfSeq, LenProperties
    <2>2. QED
      BY <2>1 DEF Changes
  <1>6. Change(r).by = r /\ Change(r).to = NewStage(r) /\ Change(r).from = seen[r].stage
    BY DEF Change
  <1>7. OneTaskPerWin'
    <2>1. \A i, j \in DOMAIN timeline' : i # j => timeline'[i].by # timeline'[j].by
      BY <1>3, <1>4, <1>6 DEF WinsInv, OneTaskPerWin
    <2>2. tasks' = {timeline'[i].by : i \in {j \in DOMAIN timeline' : timeline'[j].to = "won"}}
      BY <1>3, <1>6 DEF WinsInv, OneTaskPerWin
    <2>3. QED
      BY <2>1, <2>2 DEF OneTaskPerWin
  <1>8. Settled'
    <2>1. \A q \in Requests : Change(q)' = Change(q) /\ NewStage(q)' = NewStage(q)
      BY DEF Change, NewStage
    <2>2. ASSUME NEW i \in DOMAIN timeline', NEW q \in Requests, timeline'[i].by = q
          PROVE  /\ pc'[q] \in {"audit", "done", "lost"}
                 /\ pc'[q] = "audit" => timeline'[i] = Change(q)
      <3>1. CASE i \in DOMAIN timeline
        BY <1>1, <1>3, <1>4, <2>2, <3>1 DEF WinsInv, Settled
      <3>2. CASE i = Len(timeline) + 1
        BY <1>1, <1>3, <1>6, <2>2, <3>2
      <3>3. QED
        BY <1>3, <2>2, <3>1, <3>2
    <2>3. \A q \in Requests : pc'[q] = "audit" => NewStage(q)' = "won"
      BY <1>1, <2>1 DEF WinsInv, Settled
    <2>4. \A i \in DOMAIN timeline' : timeline'[i].by \in Requests
      BY <1>3, <1>5, <1>6
    <2>5. QED
      BY <2>1, <2>2, <2>3, <2>4 DEF Settled
  <1>9. ChangesAudited'
    <2> DEFINE entries == [by : Requests \cup {Unset}, action : Actions, before : Row, after : Row]
    <2>1. audit \in Seq(entries) /\ audit' \in Seq(entries)
      BY DEF Inv, TypeOK
    <2>2. \A j \in DOMAIN audit : j \in DOMAIN audit' /\ audit'[j] = audit[j]
      <3>1. CASE audit' = audit
        BY <3>1
      <3>2. CASE audit' = Append(audit, Entry(r))
        BY <2>1, <3>2, LenProperties
      <3>3. QED
        BY <3>1, <3>2
    <2>3. ASSUME NEW i \in DOMAIN timeline
          PROVE  \/ \E j \in DOMAIN audit' : /\ audit'[j].by = timeline'[i].by
                                             /\ audit'[j].before.stage = timeline'[i].from
                                             /\ audit'[j].after.stage = timeline'[i].to
                 \/ timeline'[i].to = "won" /\ pc'[timeline'[i].by] \in {"audit", "lost"}
      BY <1>1, <1>3, <1>4, <1>5, <2>2 DEF WinsInv, ChangesAudited
    <2>4. NewStage(r) # "won" =>
            \E j \in DOMAIN audit' : /\ audit'[j].by = r
                                     /\ audit'[j].before.stage = seen[r].stage
                                     /\ audit'[j].after.stage = NewStage(r)
      <3>1. SUFFICES ASSUME audit' = Append(audit, Entry(r))
                     PROVE  \E j \in DOMAIN audit' : /\ audit'[j].by = r
                                     /\ audit'[j].before.stage = seen[r].stage
                                     /\ audit'[j].after.stage = NewStage(r)
        OBVIOUS
      <3>2. audit'[Len(audit) + 1] = Entry(r) /\ Len(audit) + 1 \in DOMAIN audit'
        BY <2>1, <3>1, LenProperties
      <3>3. QED
        BY <3>2 DEF Entry, After
    <2>5. QED
      BY <1>1, <1>3, <1>6, <2>3, <2>4 DEF ChangesAudited
  <1>10. QED
    BY <1>7, <1>8, <1>9 DEF WinsInv

\* A step that changes no timeline and forgets no entry keeps the accounts.
LEMMA NoChangeInv ==
    ASSUME Inv, WinsInv, UNCHANGED <<timeline, tasks>>,
           \A j \in DOMAIN audit : j \in DOMAIN audit' /\ audit'[j] = audit[j],
           NEW r \in Requests, NEW next \in Steps, pc' = [pc EXCEPT ![r] = next],
           next = "audit" => pc[r] = "audit",
           pc[r] \in {"audit", "done", "lost"} =>
               /\ next \in {"done", "lost"}
               /\ UNCHANGED <<sent, seen>>
               /\ pc[r] = "audit" /\ next = "done" => audit' = Append(audit, Entry(r)),
           pc[r] = "done" => next = "done", pc[r] = "lost" => next = "lost",
           \A q \in Requests \ {r} : sent'[q] = sent[q] /\ seen'[q] = seen[q]
    PROVE  WinsInv'
  <1>1. /\ pc \in [Requests -> Steps] /\ timeline \in Seq(Changes)
    BY DEF Inv, TypeOK, Changes
  <1>2. OneTaskPerWin'
    BY DEF WinsInv, OneTaskPerWin
  <1>3. \A i \in DOMAIN timeline : timeline[i].by \in Requests
    <2>1. \A i \in DOMAIN timeline : timeline[i] \in Changes
      BY <1>1, ElementOfSeq, LenProperties
    <2>2. QED
      BY <2>1 DEF Changes
  <1>4. Settled'
    <2>1. \A q \in Requests : q # r => Change(q)' = Change(q) /\ NewStage(q)' = NewStage(q)
      BY DEF Change, NewStage
    <2>2. \A q \in Requests : pc'[q] = "audit" => q # r /\ pc[q] = "audit"
      BY <1>1
    <2>3. QED
      BY <1>1, <1>3, <2>1, <2>2 DEF WinsInv, Settled
  <1>5. ChangesAudited'
    <2> SUFFICES ASSUME NEW i \in DOMAIN timeline
                 PROVE  \/ \E j \in DOMAIN audit' : /\ audit'[j].by = timeline[i].by
                                                    /\ audit'[j].before.stage = timeline[i].from
                                                    /\ audit'[j].after.stage = timeline[i].to
                        \/ timeline[i].to = "won" /\ pc'[timeline[i].by] \in {"audit", "lost"}
      BY DEF ChangesAudited
    <2>1. CASE timeline[i].by = r /\ pc[r] = "audit" /\ next = "done"
      <3>1. timeline[i] = Change(r)
        BY <2>1 DEF WinsInv, Settled
      <3>2. audit'[Len(audit) + 1] = Entry(r) /\ Len(audit) + 1 \in DOMAIN audit'
        BY <2>1, LenProperties DEF Inv, TypeOK
      <3>3. QED
        BY <3>1, <3>2 DEF Entry, After, Change
    <2>2. CASE ~(timeline[i].by = r /\ pc[r] = "audit" /\ next = "done")
      BY <1>1, <1>3, <2>2 DEF WinsInv, ChangesAudited, Settled
    <2>3. QED
      BY <2>1, <2>2
  <1>6. QED
    BY <1>2, <1>4, <1>5 DEF WinsInv

\* Every step keeps the accounts of wins and changes.
LEMMA NextWins == Inv /\ Inv' /\ WinsInv /\ [Next]_vars => WinsInv'
  <1> SUFFICES ASSUME Inv, Inv', WinsInv, [Next]_vars PROVE WinsInv'
    OBVIOUS
  <1>1. /\ pc \in [Requests -> Steps]
        /\ sent \in [Requests -> Payload] /\ seen \in [Requests -> Row]
        /\ audit \in Seq([by : Requests \cup {Unset}, action : Actions,
                          before : Row, after : Row])
    BY DEF Inv, TypeOK
  <1>2. \A x : \A j \in DOMAIN audit : j \in DOMAIN Append(audit, x) /\ Append(audit, x)[j] = audit[j]
    BY <1>1, LenProperties
  <1>3. ASSUME NEW s \in Stages, NEW l \in Reasons \cup {NoReason}, Create(s, l)
        PROVE  WinsInv'
    <2>1. /\ UNCHANGED <<timeline, tasks, pc, sent, seen>>
          /\ \A j \in DOMAIN audit : j \in DOMAIN audit' /\ audit'[j] = audit[j]
      BY <1>2, <1>3 DEF Create
    <2>2. \A q : Change(q)' = Change(q) /\ NewStage(q)' = NewStage(q)
      BY <2>1 DEF Change, NewStage
    <2>3. OneTaskPerWin'
      BY <2>1 DEF WinsInv, OneTaskPerWin
    <2>4. Settled'
      BY <2>1, <2>2 DEF WinsInv, Settled
    <2>5. ChangesAudited'
      BY <2>1 DEF WinsInv, ChangesAudited
    <2>6. QED
      BY <2>3, <2>4, <2>5 DEF WinsInv
  <1>4. ASSUME NEW r \in Requests, NEW p \in Payload, Load(r, p) PROVE WinsInv'
    BY <1>1, <1>4, NoChangeInv DEF Load, Steps
  <1>5. ASSUME NEW r \in Requests, Reject(r) PROVE WinsInv'
    BY <1>1, <1>5, NoChangeInv DEF Reject, Steps
  <1>6. ASSUME NEW r \in Requests, Write(r), StageChanged(r) PROVE WinsInv'
    BY <1>6, ChangeInv DEF Write
  <1>7. ASSUME NEW r \in Requests, Write(r), ~StageChanged(r) PROVE WinsInv'
    BY <1>1, <1>2, <1>7, NoChangeInv DEF Write, Steps
  <1>8. ASSUME NEW r \in Requests, WriteWon(r) PROVE WinsInv'
    BY <1>8, ChangeInv DEF WriteWon
  <1>9. ASSUME NEW r \in Requests, RecordWon(r) PROVE WinsInv'
    BY <1>1, <1>2, <1>9, NoChangeInv DEF RecordWon, Steps
  <1>10. ASSUME NEW r \in Requests, Lose(r) PROVE WinsInv'
    BY <1>1, <1>10, NoChangeInv DEF Lose, Steps
  <1>11. CASE UNCHANGED vars
    <2>1. \A q : Change(q)' = Change(q) /\ NewStage(q)' = NewStage(q)
      BY <1>11 DEF vars, Change, NewStage
    <2>2. QED
      BY <1>11, <2>1 DEF vars, WinsInv, OneTaskPerWin, ChangesAudited, Settled
  <1>12. QED
    BY <1>3, <1>4, <1>5, <1>6, <1>7, <1>8, <1>9, <1>10, <1>11 DEF Next, Quiet

\* The accounts of wins and changes, for any PATCHes.
LEMMA Wins == Spec => []WinsInv
  <1>1. Init => WinsInv
    BY DEF Init, WinsInv, OneTaskPerWin, ChangesAudited, Settled
  <1>2. QED
    BY <1>1, InitInv, NextInv, NextWins, PTL DEF Spec

\* A win makes one post-sale task and nothing else does, however PATCHes
\* overlap and whichever of them die.
THEOREM TaskPerWin == Spec => []OneTaskPerWin
  <1>1. WinsInv => OneTaskPerWin
    BY DEF WinsInv
  <1>2. QED
    BY <1>1, Wins, PTL

\* Only a win that died between its two commits is missing from the audit log.
THEOREM Audited == Spec => []ChangesAudited
  <1>1. WinsInv => ChangesAudited
    BY DEF WinsInv
  <1>2. QED
    BY <1>1, Wins, PTL

-----------------------------------------------------------------------------
(* PATCHes that come one after the other.                                  *)

Entries == [by : Requests \cup {Unset}, action : Actions, before : Row, after : Row]

\* The one request under way works on the row as it is, and the log ends where
\* the row is, or at what a win has changed since.
Undisturbed ==
    /\ \A q, r \in Busy : q = r
    /\ \A r \in Requests : pc[r] # "lost"
    /\ OpenIsNotStamped /\ LostHasReason
    /\ TimelineUnbroken /\ AuditChained
    /\ opp = Absent <=> audit = <<>>
    /\ \A r \in Requests : pc[r] = "write" => seen[r] = opp
    /\ \A r \in Requests : pc[r] = "audit" => After(r) = opp /\ Last(audit).after = seen[r]
    /\ opp # Absent /\ (\A r \in Requests : pc[r] # "audit") => Last(audit).after = opp

SerialInv == ~disturbed => Undisturbed

\* An UPDATE of the row as it was loaded leaves what the session had.
LEMMA FlushedAfter ==
    ASSUME opp \in Row, NEW r \in Requests, seen[r] = opp
    PROVE  Flushed(r) = After(r)
  <1>1. (IF ReasonAfter(r) # seen[r].reason THEN ReasonAfter(r) ELSE opp.reason) = ReasonAfter(r)
    OBVIOUS
  <1>2. (IF StageChanged(r) THEN NewStage(r) ELSE opp.stage) = NewStage(r)
    BY DEF StageChanged
  <1>3. QED
    BY <1>1, <1>2 DEF Flushed, After

\* The rules, for a PATCH of the row as it is.
LEMMA AfterRuled ==
    ASSUME OpenIsNotStamped, LostHasReason, NEW r \in Requests, seen[r] = opp, Valid(r),
           sent[r] \in Payload
    PROVE  /\ After(r).stage \notin Closed => ~After(r).closed
           /\ After(r).stage = "lost" => After(r).reason # NoReason
  <1>1. ASSUME After(r).stage \notin Closed PROVE ~After(r).closed
    <2>1. NewStage(r) \notin Closed
      BY <1>1 DEF After
    <2>2. CASE Reopens(r)
      BY <2>1, <2>2 DEF After, ClosedAfter, Stamps
    <2>3. CASE ~Reopens(r)
      <3>1. opp.stage \notin Closed
        BY <2>1, <2>3 DEF Reopens, StageChanged
      <3>2. QED
        BY <2>1, <3>1 DEF After, ClosedAfter, Stamps, OpenIsNotStamped
    <2>4. QED
      BY <2>2, <2>3
  <1>2. ASSUME After(r).stage = "lost" PROVE After(r).reason # NoReason
    <2>1. NewStage(r) = "lost" /\ NewReason(r) # NoReason /\ ~Reopens(r)
      BY <1>2 DEF After, Valid, Reopens, Closed
    <2>2. CASE sent[r].reason \in Reasons
      BY <2>2, PipelineAssumption DEF After, ReasonAfter
    <2>3. CASE sent[r].reason = Unset
      <3>1. Unset \notin Reasons
        BY PipelineAssumption
      <3>2. QED
        BY <2>1, <2>3, <3>1 DEF After, ReasonAfter, NewReason
    <2>4. CASE sent[r].reason = NoReason
      BY <2>1, <2>4, PipelineAssumption DEF NewReason
    <2>5. QED
      BY <2>2, <2>3, <2>4 DEF Payload
  <1>3. QED
    BY <1>1, <1>2

\* An entry that starts where the log ends continues it.
LEMMA Chained ==
    ASSUME audit \in Seq(Entries), audit # <<>>, AuditChained, NEW e \in Entries,
           e.before = Last(audit).after, audit' = Append(audit, e)
    PROVE  AuditChained' /\ Last(audit') = e /\ audit' # <<>>
  <1>1. /\ Len(audit') = Len(audit) + 1 /\ Len(audit) \in Nat /\ Len(audit) # 0
        /\ \A i \in 1..Len(audit) : audit'[i] = audit[i]
        /\ audit'[Len(audit) + 1] = e
        /\ DOMAIN audit = 1..Len(audit) /\ DOMAIN audit' = 1..Len(audit')
    BY LenProperties
  <1>2. Last(audit') = e /\ audit' # <<>>
    BY <1>1 DEF Last
  <1>3. ASSUME NEW i \in DOMAIN audit'
        PROVE  IF i = 1 THEN audit'[i].before = Absent
               ELSE audit'[i].before = audit'[i - 1].after
    <2>1. CASE i \in 1..Len(audit)
      <3>1. i # 1 => i - 1 \in 1..Len(audit)
        BY <2>1, <1>1
      <3>2. QED
        BY <1>1, <2>1, <3>1 DEF AuditChained
    <2>2. CASE i = Len(audit) + 1
      <3>1. i # 1 /\ i - 1 = Len(audit) /\ i - 1 \in 1..Len(audit)
        BY <1>1, <2>2
      <3>2. audit'[i].before = audit[Len(audit)].after
        BY <1>1, <2>2 DEF Last
      <3>3. QED
        BY <1>1, <3>1, <3>2
    <2>3. QED
      BY <1>1, <1>3, <2>1, <2>2
  <1>4. QED
    BY <1>2, <1>3 DEF AuditChained

\* A change that starts from the stage of the row continues the timeline.
LEMMA TimelineContinued ==
    ASSUME timeline \in Seq(Changes), TimelineEndsAtStage, TimelineUnbroken,
           NEW c \in Changes, c.from = opp.stage, timeline' = Append(timeline, c)
    PROVE  TimelineUnbroken'
  <1>1. /\ Len(timeline') = Len(timeline) + 1 /\ Len(timeline) \in Nat
        /\ \A i \in 1..Len(timeline) : timeline'[i] = timeline[i]
        /\ timeline'[Len(timeline) + 1] = c
        /\ timeline # <<>> <=> Len(timeline) # 0
    BY LenProperties, EmptySeq
  <1>2. ASSUME NEW i \in 2..Len(timeline') PROVE timeline'[i].from = timeline'[i - 1].to
    <2>1. i - 1 \in 1..Len(timeline)
      BY <1>1
    <2>2. CASE i \in 2..Len(timeline)
      BY <1>1, <2>1, <2>2 DEF TimelineUnbroken
    <2>3. CASE i = Len(timeline) + 1
      BY <1>1, <2>1, <2>3 DEF TimelineEndsAtStage, Last
    <2>4. QED
      BY <1>1, <2>2, <2>3
  <1>3. QED
    BY <1>2 DEF TimelineUnbroken

\* A PATCH that is alone writes a row, and a change, that follow from the row.
LEMMA AloneWrites ==
    ASSUME Inv, TimelineEndsAtStage, Undisturbed, NEW r \in Requests, pc[r] = "write", Valid(r),
           opp' = Flushed(r),
           timeline' = IF StageChanged(r) THEN Append(timeline, Change(r)) ELSE timeline
    PROVE  /\ OpenIsNotStamped' /\ LostHasReason' /\ TimelineUnbroken'
           /\ opp' = After(r) /\ opp' # Absent /\ seen[r] = opp /\ opp # Absent
           /\ \A q \in Requests : pc[q] \in {"write", "audit"} => q = r
           /\ Entry(r) \in Entries /\ Last(audit).after = seen[r]
  <1>1. /\ seen[r] = opp /\ opp \in Row /\ opp # Absent /\ opp.stage \in Stages
        /\ sent[r] \in Payload
    BY DEF Undisturbed, Inv, TypeOK, Present
  <1>2. opp' = After(r)
    BY <1>1, FlushedAfter
  <1>3. OpenIsNotStamped' /\ LostHasReason'
    BY <1>1, <1>2, AfterRuled DEF Undisturbed, OpenIsNotStamped, LostHasReason
  <1>4. \A q \in Requests : pc[q] \in {"write", "audit"} => q = r
    BY DEF Undisturbed, Busy
  <1>5. TimelineUnbroken'
    <2>1. CASE StageChanged(r)
      <3>1. Change(r) \in Changes /\ Change(r).from = opp.stage
        BY <1>1 DEF Change, Changes, Valid
      <3>2. timeline \in Seq(Changes)
        BY DEF Inv, TypeOK, Changes
      <3>3. QED
        BY <2>1, <3>1, <3>2, TimelineContinued DEF Undisturbed
    <2>2. CASE ~StageChanged(r)
      BY <2>2 DEF Undisturbed, TimelineUnbroken
    <2>3. QED
      BY <2>1, <2>2
  <1>6. Entry(r) \in Entries
    <2>1. After(r) \in Row
      BY <1>1, FlushedTyped
    <2>2. QED
      BY <1>1, <2>1 DEF Entry, Entries, AuditAction, Actions
  <1>7. Last(audit).after = seen[r]
    <2>1. \A q \in Requests : pc[q] # "audit"
      BY <1>4
    <2>2. QED
      BY <1>1, <2>1 DEF Undisturbed
  <1>8. opp' # Absent
    <2>1. opp'.stage \in Stages
      BY <1>1, FlushedTyped
    <2>2. QED
      BY <2>1, PipelineAssumption DEF Absent, Stages, Closed
  <1>9. QED
    BY <1>1, <1>2, <1>3, <1>4, <1>5, <1>6, <1>7, <1>8

\* Every step of PATCHes that do not overlap keeps row, timeline and log together.
LEMMA NextSerial ==
    Inv /\ Inv' /\ TimelineEndsAtStage /\ SerialInv /\ [MCNext]_<<vars, disturbed>> => SerialInv'
  <1> SUFFICES ASSUME Inv, Inv', TimelineEndsAtStage, SerialInv, ~disturbed',
                      [MCNext]_<<vars, disturbed>>
               PROVE  Undisturbed'
    BY DEF SerialInv
  <1>1. CASE UNCHANGED <<vars, disturbed>>
    <2>1. Undisturbed
      BY <1>1 DEF SerialInv
    <2>2. \A r : After(r)' = After(r)
      BY <1>1 DEF vars, After, NewStage, ClosedAfter, Stamps, Reopens, StageChanged, ReasonAfter
    <2>3. QED
      BY <1>1, <2>1, <2>2
         DEF vars, Undisturbed, Busy, OpenIsNotStamped, LostHasReason, TimelineUnbroken,
             AuditChained, Last
  <1> SUFFICES ASSUME MCNext PROVE Undisturbed'
    BY <1>1
  <1>2. /\ Undisturbed /\ Next
        /\ \A q, r \in Busy' : q = r
        /\ \A r \in Requests : pc'[r] # "lost"
    BY DEF MCNext, SerialInv
  <1>3. /\ audit \in Seq(Entries) /\ pc \in [Requests -> Steps]
        /\ sent \in [Requests -> Payload] /\ seen \in [Requests -> Row]
    BY DEF Inv, TypeOK, Entries
  <1>4. ASSUME UNCHANGED <<opp, timeline, audit>>
        PROVE  /\ OpenIsNotStamped' /\ LostHasReason' /\ TimelineUnbroken' /\ AuditChained'
               /\ (opp = Absent <=> audit = <<>>)'
    BY <1>2, <1>4 DEF Undisturbed, OpenIsNotStamped, LostHasReason, TimelineUnbroken, AuditChained
  <1>5. ASSUME NEW q, UNCHANGED <<sent, seen>> PROVE After(q)' = After(q)
    BY <1>5 DEF After, NewStage, ClosedAfter, Stamps, Reopens, StageChanged, ReasonAfter
  <1>6. ASSUME NEW s \in Stages, NEW l \in Reasons \cup {NoReason}, Create(s, l)
        PROVE  Undisturbed'
    <2> DEFINE first == [by |-> Unset, action |-> "OPPORTUNITY_CREATED",
                         before |-> Absent, after |-> opp']
    <2>1. audit = <<>> /\ \A r \in Requests : pc[r] \notin {"write", "audit"}
      BY <1>2, <1>6 DEF Create, Undisturbed, Inv, Present
    <2>2. audit' = <<first>>
      BY <1>6, <2>1 DEF Create
    <2>3. AuditChained' /\ Last(audit').after = opp' /\ audit' # <<>>
      BY <2>2 DEF AuditChained, Last
    <2>4. opp' # Absent
      BY <1>6, PipelineAssumption DEF Create, Absent, Stages, Closed
    <2>5. OpenIsNotStamped' /\ LostHasReason' /\ TimelineUnbroken'
      BY <1>2, <1>6 DEF Create, Undisturbed, OpenIsNotStamped, LostHasReason, TimelineUnbroken
    <2>6. QED
      BY <1>2, <1>6, <2>1, <2>3, <2>4, <2>5 DEF Create, Undisturbed
  <1>7. ASSUME NEW r \in Requests, NEW p \in Payload, Load(r, p) PROVE Undisturbed'
    <2>1. \A q \in Requests : q # r => pc'[q] \notin {"write", "audit"}
      BY <1>2, <1>3, <1>7 DEF Load, Busy
    <2>2. pc'[r] = "write" /\ seen'[r] = opp /\ UNCHANGED <<opp, timeline, audit>>
      BY <1>3, <1>7 DEF Load
    <2>3. \A q \in Requests : pc[q] # "audit"
      BY <1>3, <1>7, <2>1 DEF Load
    <2>4. QED
      BY <1>2, <1>4, <2>1, <2>2, <2>3 DEF Undisturbed
  <1>8. ASSUME NEW r \in Requests, Reject(r) PROVE Undisturbed'
    <2>1. /\ UNCHANGED <<opp, timeline, audit, sent, seen>>
          /\ \A q \in Requests : pc'[q] # "done" => pc'[q] = pc[q]
          /\ pc[r] # "audit" /\ \A q \in Requests : q # r => pc'[q] = pc[q]
      BY <1>3, <1>8 DEF Reject
    <2>2. QED
      BY <1>2, <1>4, <1>5, <2>1 DEF Undisturbed
  <1>9. ASSUME NEW r \in Requests, Write(r) PROVE Undisturbed'
    <2>1. /\ OpenIsNotStamped' /\ LostHasReason' /\ TimelineUnbroken'
          /\ opp' = After(r) /\ seen[r] = opp /\ opp # Absent
          /\ \A q \in Requests : pc[q] \in {"write", "audit"} => q = r
          /\ Entry(r) \in Entries /\ Last(audit).after = seen[r]
      BY <1>2, <1>9, AloneWrites DEF Write
    <2>2. Entry(r).before = seen[r] /\ Entry(r).after = After(r)
      BY DEF Entry
    <2>3. audit # <<>> /\ AuditChained
      BY <1>2, <2>1 DEF Undisturbed
    <2>4. AuditChained' /\ Last(audit') = Entry(r) /\ audit' # <<>>
      BY <1>3, <1>9, <2>1, <2>2, <2>3, Chained DEF Write
    <2>5. opp' # Absent
      BY <1>2, <1>9, AloneWrites DEF Write
    <2>6. \A q \in Requests : pc'[q] \notin {"write", "audit"}
      BY <1>3, <1>9, <2>1 DEF Write
    <2>7. QED
      BY <1>2, <2>1, <2>2, <2>4, <2>5, <2>6 DEF Undisturbed
  <1>10. ASSUME NEW r \in Requests, WriteWon(r) PROVE Undisturbed'
    <2>1. /\ OpenIsNotStamped' /\ LostHasReason' /\ TimelineUnbroken'
          /\ opp' = After(r) /\ seen[r] = opp /\ opp # Absent
          /\ \A q \in Requests : pc[q] \in {"write", "audit"} => q = r
          /\ Last(audit).after = seen[r]
      BY <1>2, <1>10, AloneWrites DEF WriteWon
    <2>2. AuditChained' /\ audit' = audit /\ audit # <<>>
      BY <1>2, <1>10, <2>1 DEF WriteWon, Undisturbed, AuditChained
    <2>3. After(r)' = After(r) /\ seen' = seen
      BY <1>5, <1>10 DEF WriteWon
    <2>4. opp' # Absent
      BY <1>2, <1>10, AloneWrites DEF WriteWon
    <2>5. pc'[r] = "audit" /\ \A q \in Requests : pc'[q] \in {"write", "audit"} => q = r
      BY <1>3, <1>10, <2>1 DEF WriteWon
    <2>6. QED
      BY <1>2, <2>1, <2>2, <2>3, <2>4, <2>5 DEF Undisturbed
  <1>11. ASSUME NEW r \in Requests, RecordWon(r) PROVE Undisturbed'
    <2>1. /\ pc[r] = "audit" /\ After(r) = opp /\ Last(audit).after = seen[r] /\ opp # Absent
          /\ \A q \in Requests : pc[q] \in {"write", "audit"} => q = r
      BY <1>2, <1>11 DEF RecordWon, Undisturbed, Busy, Inv, Present
    <2>2. Entry(r).before = seen[r] /\ Entry(r).after = After(r)
      BY DEF Entry
    <2>3. Entry(r) \in Entries
      <3>1. After(r) \in Row
        BY <2>1 DEF Inv, TypeOK
      <3>2. QED
        BY <1>3, <3>1 DEF Entry, Entries, AuditAction, Actions
    <2>4. AuditChained' /\ Last(audit') = Entry(r) /\ audit' # <<>>
      BY <1>2, <1>3, <1>11, <2>1, <2>2, <2>3, Chained DEF RecordWon, Undisturbed
    <2>5. /\ OpenIsNotStamped' /\ LostHasReason' /\ TimelineUnbroken' /\ opp' = opp
      BY <1>2, <1>11 DEF RecordWon, Undisturbed, OpenIsNotStamped, LostHasReason, TimelineUnbroken
    <2>6. \A q \in Requests : pc'[q] \notin {"write", "audit"}
      BY <1>3, <1>11, <2>1 DEF RecordWon
    <2>7. QED
      BY <1>2, <2>1, <2>2, <2>4, <2>5, <2>6 DEF Undisturbed
  <1>12. ASSUME NEW r \in Requests, Lose(r) PROVE FALSE
    BY <1>2, <1>3, <1>12 DEF Lose
  <1>13. CASE Quiet
    BY <1>2, <1>4, <1>5, <1>13 DEF Quiet, vars, Undisturbed, Last
  <1>14. QED
    BY <1>2, <1>6, <1>7, <1>8, <1>9, <1>10, <1>11, <1>12, <1>13 DEF Next

\* As long as PATCHes come one after the other, row, timeline and log agree.
LEMMA Serial == MCSpec => []SerialInv
  <1>1. MCInit => Init /\ SerialInv
    BY DEF MCInit, Init, SerialInv, Undisturbed, Busy, OpenIsNotStamped, LostHasReason,
           TimelineUnbroken, AuditChained, Absent
  <1>2. [MCNext]_<<vars, disturbed>> => [Next]_vars
    BY DEF MCNext
  <1>3. MCSpec => Spec
    BY <1>1, <1>2, PTL DEF MCSpec, Spec
  <1>4. Spec => []Inv
    BY InitInv, NextInv, PTL DEF Spec
  <1>5. QED
    BY <1>1, <1>3, <1>4, TimelineEnds, NextSerial, PTL DEF MCSpec

\* The documented rules of a deal, for PATCHes that do not overlap.
THEOREM RulesHeld == MCSpec => []DealRules
  <1>1. SerialInv => DealRules
    BY DEF SerialInv, Undisturbed, DealRules
  <1>2. QED
    BY <1>1, Serial, PTL

\* Timeline and log of such a deal are its unbroken history.
THEOREM History == MCSpec => []HistoryUnbroken
  <1>1. SerialInv => HistoryUnbroken
    BY DEF SerialInv, Undisturbed, HistoryUnbroken
  <1>2. QED
    BY <1>1, Serial, PTL

-----------------------------------------------------------------------------
(* What the search and the analysis say of the same requirement.           *)

\* A requirement that names no two places names one that is all of them.
LEMMA OnePlace ==
    ASSUME NEW q, Cardinality(Named(q)) <= 1, NEW place \in Named(q)
    PROVE  \A other \in Named(q) : other = place
  <1>1. IsFiniteSet(Named(q))
    BY FS_Subset, MatchingAssumption DEF Named
  <1>2. ASSUME NEW other \in Named(q), other # place PROVE FALSE
    <2>1. /\ IsFiniteSet({place, other}) /\ Cardinality({place, other}) = 2
      <3>1. IsFiniteSet({place}) /\ Cardinality({place}) = 1
        BY FS_Singleton
      <3>2. {place, other} = {place} \cup {other} /\ other \notin {place}
        BY <1>2
      <3>3. QED
        BY <3>1, <3>2, FS_AddElement
    <2>2. {place, other} \subseteq Named(q)
      BY <1>2
    <2>3. Cardinality({place, other}) <= Cardinality(Named(q))
      BY <1>1, <2>2, FS_Subset
    <2>4. Cardinality(Named(q)) \in Nat
      BY <1>1, FS_CardinalityType
    <2>5. QED
      BY <2>1, <2>3, <2>4
  <1>3. QED
    BY <1>2

\* What each criterion the requirement specifies asks of the property.
LEMMA MetCriteria ==
    ASSUME NEW q, NEW p
    PROVE  /\ q.type # Null <=> <<"type", Null>> \in Criteria(q)
           /\ <<"type", Null>> \in Met(q, p) <=> q.type # Null /\ p.type = q.type
           /\ \A m \in Measures :
                 /\ q.min[m] # Null \/ q.max[m] # Null <=> <<"range", m>> \in Criteria(q)
                 /\ <<"range", m>> \in Met(q, p)
                    <=> <<"range", m>> \in Criteria(q) /\ Ranged(q, p, m)
           /\ \A f \in {"city", "neighborhood"} :
                 /\ (\E place \in Named(q) : place[f] # Null) <=> <<"place", f>> \in Criteria(q)
                 /\ <<"place", f>> \in Met(q, p)
                    <=> /\ <<"place", f>> \in Criteria(q)
                        /\ p[f] # Null /\ \E place \in Named(q) : place[f] = p[f]
           /\ \A f \in Features :
                 /\ q.features[f] # Null <=> <<"feature", f>> \in Criteria(q)
                 /\ <<"feature", f>> \in Met(q, p)
                    <=> /\ <<"feature", f>> \in Criteria(q)
                        /\ IF q.features[f] = "deal_breaker"
                           THEN f \notin p.features ELSE f \in p.features
  <1>1. /\ q.type # Null <=> <<"type", Null>> \in Criteria(q)
        /\ <<"type", Null>> \in Met(q, p) <=> q.type # Null /\ p.type = q.type
    <2>1. q.type # Null <=> <<"type", Null>> \in Criteria(q)
      BY DEF Criteria
    <2>2. <<"type", Null>> \in Met(q, p) <=> <<"type", Null>> \in Criteria(q) /\ p.type = q.type
      BY DEF Met
    <2>3. QED
      BY <2>1, <2>2
  <1>2. ASSUME NEW m \in Measures
        PROVE  /\ q.min[m] # Null \/ q.max[m] # Null <=> <<"range", m>> \in Criteria(q)
               /\ <<"range", m>> \in Met(q, p)
                  <=> <<"range", m>> \in Criteria(q) /\ Ranged(q, p, m)
    <2>1. q.min[m] # Null \/ q.max[m] # Null <=> <<"range", m>> \in Criteria(q)
      BY <1>2 DEF Criteria
    <2>2. <<"range", m>> \in Met(q, p) <=> <<"range", m>> \in Criteria(q) /\ Ranged(q, p, m)
      BY DEF Met
    <2>3. QED
      BY <2>1, <2>2
  <1>3. ASSUME NEW f \in {"city", "neighborhood"}
        PROVE  /\ (\E place \in Named(q) : place[f] # Null) <=> <<"place", f>> \in Criteria(q)
               /\ <<"place", f>> \in Met(q, p)
                  <=> /\ <<"place", f>> \in Criteria(q)
                      /\ p[f] # Null /\ \E place \in Named(q) : place[f] = p[f]
    <2>1. (\E place \in Named(q) : place[f] # Null) <=> <<"place", f>> \in Criteria(q)
      BY <1>3 DEF Criteria
    <2>2. <<"place", f>> \in Met(q, p)
          <=> /\ <<"place", f>> \in Criteria(q)
              /\ p[f] # Null /\ \E place \in Named(q) : place[f] = p[f]
      BY DEF Met
    <2>3. QED
      BY <2>1, <2>2
  <1>4. ASSUME NEW f \in Features
        PROVE  /\ q.features[f] # Null <=> <<"feature", f>> \in Criteria(q)
               /\ <<"feature", f>> \in Met(q, p)
                  <=> /\ <<"feature", f>> \in Criteria(q)
                      /\ IF q.features[f] = "deal_breaker"
                         THEN f \notin p.features ELSE f \in p.features
    <2>1. q.features[f] # Null <=> <<"feature", f>> \in Criteria(q)
      BY <1>4 DEF Criteria
    <2>2. <<"feature", f>> \in Met(q, p)
          <=> /\ <<"feature", f>> \in Criteria(q)
              /\ IF q.features[f] = "deal_breaker"
                 THEN f \notin p.features ELSE f \in p.features
      BY DEF Met
    <2>3. QED
      BY <2>1, <2>2
  <1>5. QED
    BY <1>1, <1>2, <1>3, <1>4

\* A criterion is of one of four kinds.
LEMMA CriterionKinds ==
    ASSUME NEW q, NEW c \in Criteria(q)
    PROVE  \/ c = <<"type", Null>> /\ q.type # Null
           \/ \E m \in Measures : c = <<"range", m>>
           \/ \E f \in {"city", "neighborhood"} : c = <<"place", f>>
           \/ \E f \in Features : c = <<"feature", f>>
  BY DEF Criteria

\* The analysis calls a match what meets every criterion and lacks nothing it
\* must have.
LEMMA MatchMeetsAll ==
    ASSUME NEW q, NEW p, Analysis(q, p) = "match"
    PROVE  Met(q, p) = Criteria(q) /\ ~Disqualified(q, p)
  BY DEF Analysis

\* What the analysis rules out has a defect that disqualifies it or meets none
\* of the criteria there are.
LEMMA NoMatchMeetsNone ==
    ASSUME NEW q, NEW p, Analysis(q, p) = "no_match"
    PROVE  Disqualified(q, p) \/ Met(q, p) = {}
  BY DEF Analysis

\* Whatever the two rows are, a match is among the properties found.
LEMMA MatchFoundAlways ==
    ASSUME NEW q, NEW p, Candidate(p), Analysis(q, p) = "match", Cardinality(Named(q)) <= 1
    PROVE  Found(q, p)
  <1>1. Met(q, p) = Criteria(q) /\ ~Disqualified(q, p)
    BY MatchMeetsAll
  <1>2. q.type \in {Null, p.type}
    BY <1>1, MetCriteria
  <1>3. \A m \in Measures : q.min[m] # Null \/ q.max[m] # Null => Ranged(q, p, m)
    BY <1>1, MetCriteria
  <1>4. Filters(q, p)
    <2>1. "price" \in Measures
      BY DEF Measures
    <2>2. \A m \in Measures : AtLeast(p.value[m], q.min[m])
      BY <1>3 DEF Ranged, AtLeast
    <2>3. AtMost(p.value["price"], q.max["price"])
      BY <1>3, <2>1 DEF Ranged, AtMost
    <2>4. QED
      BY <2>2, <2>3 DEF Filters
  <1>5. ASSUME NEW place \in Named(q), NEW f \in {"city", "neighborhood"}
        PROVE  place[f] \in {Null, p[f]}
    <2>1. \A other \in Named(q) : other = place
      BY OnePlace
    <2>2. place[f] # Null => \E other \in Named(q) : other[f] = p[f]
      BY <1>1, MetCriteria
    <2>3. QED
      BY <2>1, <2>2
  <1>6. Located(q, p)
    BY <1>5 DEF Located
  <1>7. Equipped(q, p)
    BY <1>1 DEF Disqualified, Equipped
  <1>8. QED
    BY <1>2, <1>4, <1>6, <1>7 DEF Found

\* What the analysis calls a match the search finds, whatever both are edited
\* to, as long as the requirement names no two places.
THEOREM MatchAlwaysFound == MatchingSpec => []MatchIsFound
  <1>1. MatchIsFound
    BY MatchFoundAlways DEF MatchIsFound
  <1>2. QED
    BY <1>1, PTL

\* Whatever the property is, what the search finds for a requirement of classed
\* features is ruled out for what the search leaves out only.
LEMMA RuledOutKnowingly ==
    ASSUME NEW q, NEW p, Found(q, p), Analysis(q, p) = "no_match",
           \A f \in Features : q.features[f] \in Maybe(Classes),
           Of(q, "deal_breaker") \cap p.features = {},
           NEW c \in Criteria(q)
    PROVE  \/ c = <<"range", "price">> /\ q.currency # p.currency
           \/ c = <<"range", "rooms">> /\ ~AtMost(p.value["rooms"], q.max["rooms"])
           \/ c[1] = "feature" /\ q.features[c[2]] = "preferred"
  <1>1. Met(q, p) = {}
    <2>1. ~Disqualified(q, p)
      BY DEF Found, Equipped, Disqualified
    <2>2. QED
      BY <2>1, NoMatchMeetsNone
  <1>2. CASE c = <<"type", Null>> /\ q.type # Null
    BY <1>1, <1>2, MetCriteria DEF Found
  <1>3. ASSUME NEW m \in Measures, c = <<"range", m>>
        PROVE  \/ c = <<"range", "price">> /\ q.currency # p.currency
               \/ c = <<"range", "rooms">> /\ ~AtMost(p.value["rooms"], q.max["rooms"])
    <2>1. q.min[m] # Null \/ q.max[m] # Null
      BY <1>3, MetCriteria
    <2>2. ~Ranged(q, p, m)
      BY <1>1, <1>3, MetCriteria
    <2>3. AtLeast(p.value[m], q.min[m])
      BY DEF Found, Filters
    <2>4. CASE m = "price"
      <3>1. AtMost(p.value["price"], q.max["price"])
        BY DEF Found, Filters
      <3>2. p.value["price"] # Null
        BY <2>1, <2>3, <2>4, <3>1 DEF AtLeast, AtMost
      <3>3. q.currency # p.currency
        BY <2>2, <2>3, <2>4, <3>1, <3>2 DEF Ranged
      <3>4. QED
        BY <1>3, <2>4, <3>3
    <2>5. CASE m = "rooms"
      <3>1. "rooms" # "price"
        OBVIOUS
      <3>2. ~AtMost(p.value["rooms"], q.max["rooms"])
        BY <2>1, <2>2, <2>3, <2>5, <3>1 DEF Ranged, AtLeast, AtMost
      <3>3. QED
        BY <1>3, <2>5, <3>2
    <2>6. QED
      BY <2>4, <2>5 DEF Measures
  <1>4. ASSUME NEW f \in {"city", "neighborhood"}, c = <<"place", f>>
        PROVE  FALSE
    <2>1. PICK other \in Named(q) : other[f] # Null
      BY <1>4, MetCriteria
    <2>2. PICK place \in Named(q) : /\ place.city \in {Null, p.city}
                                    /\ place.neighborhood \in {Null, p.neighborhood}
      BY <2>1 DEF Found, Located
    <2>3. place.city # Null \/ place.neighborhood # Null
      BY MatchingAssumption DEF Named
    <2>4. CASE place.city # Null
      <3>1. place["city"] = p["city"] /\ p["city"] # Null /\ "city" \in {"city", "neighborhood"}
        BY <2>2, <2>4
      <3>2. <<"place", "city">> \in Met(q, p)
        BY <3>1, MetCriteria
      <3>3. QED
        BY <1>1, <3>2
    <2>5. CASE place.neighborhood # Null
      <3>1. /\ place["neighborhood"] = p["neighborhood"] /\ p["neighborhood"] # Null
            /\ "neighborhood" \in {"city", "neighborhood"}
        BY <2>2, <2>5
      <3>2. <<"place", "neighborhood">> \in Met(q, p)
        BY <3>1, MetCriteria
      <3>3. QED
        BY <1>1, <3>2
    <2>6. QED
      BY <2>3, <2>4, <2>5
  <1>5. ASSUME NEW f \in Features, c = <<"feature", f>>
        PROVE  c[1] = "feature" /\ q.features[c[2]] = "preferred"
    <2>1. /\ q.features[f] # Null
          /\ ~(IF q.features[f] = "deal_breaker" THEN f \notin p.features ELSE f \in p.features)
      BY <1>1, <1>5, MetCriteria
    <2>2. q.features[f] # "deal_breaker"
      BY <2>1 DEF Of
    <2>3. q.features[f] # "must_have"
      BY <2>1, <2>2 DEF Found, Equipped, Of
    <2>4. q.features[f] = "preferred"
      BY <2>1, <2>2, <2>3 DEF Maybe, Classes
    <2>5. QED
      BY <1>5, <2>4
  <1>6. QED
    BY <1>2, <1>3, <1>4, <1>5, CriterionKinds

\* What a request that is about to write may write: a class to a feature, a
\* priority to a place, or nothing in place of one of them.
EditSound(e) ==
    /\ e.op = "requirement" => e.body \in RequirementPatches
    /\ e.op = "features" => e.body[1] \in Features /\ e.body[2] \in Classes
    /\ e.op = "places" => e.body[1] \in Places /\ e.body[2] \in {1, 2}
    /\ e.op = "remove" => \/ e.body[1] = "features" /\ e.body[2] \in Features
                          \/ e.body[1] = "places" /\ e.body[2] \in Places

RequirementInv ==
    /\ requirement \in Requirement
    /\ req = [r \in Edits |-> req[r]]
    /\ \A r \in Edits : req[r].pc = "write" => EditSound(req[r])

\* An answered request is about to write nothing.
LEMMA AnsweredSound ==
    ASSUME RequirementInv, NEW r \in Edits, NEW code, Answer(r, code)
    PROVE  /\ req' = [e \in Edits |-> req'[e]]
           /\ \A e \in Edits : req'[e].pc = "write" => EditSound(req'[e])
  <1>1. PICK q : q = [Idle EXCEPT !.pc = "done", !.answer = code]
    OBVIOUS
  <1>2. q.pc = "done"
    BY <1>1 DEF Idle
  <1>3. req' = [req EXCEPT ![r] = q]
    BY <1>1 DEF Answer
  <1>4. QED
    BY <1>2, <1>3 DEF RequirementInv

\* A request that has read is about to write what it was given.
LEMMA ReadSound ==
    ASSUME RequirementInv, NEW r \in Edits, NEW op, NEW body, NEW read, Read(r, op, body, read),
           EditSound([pc |-> "write", op |-> op, body |-> body, read |-> read, answer |-> Null])
    PROVE  RequirementInv'
  <1>1. PICK q : q = [pc |-> "write", op |-> op, body |-> body, read |-> read, answer |-> Null]
    OBVIOUS
  <1>2. req' = [req EXCEPT ![r] = q] /\ requirement' = requirement /\ EditSound(q)
    BY <1>1 DEF Read
  <1>3. QED
    BY <1>2 DEF RequirementInv

\* The bounds a PATCH leaves are bounds, and the rest of the row is kept.
LEMMA BoundedTyped ==
    ASSUME NEW q \in Requirement, NEW body \in RequirementPatches
    PROVE  Bounded(q, body) \in Requirement
  <1>1. PICK low, high :
            /\ low = [m \in Measures |-> IF Given(body.min, m) THEN body.min[m] ELSE q.min[m]]
            /\ high = [m \in Measures |-> IF Given(body.max, m) THEN body.max[m] ELSE q.max[m]]
    OBVIOUS
  <1>2. /\ \A m \in DOMAIN body.min : body.min[m] \in Maybe(Nat)
        /\ \A m \in DOMAIN body.max : body.max[m] \in Maybe(Nat)
    <2>1. "min" \in {"min", "max"} /\ "max" \in {"min", "max"}
      OBVIOUS
    <2>2. /\ \A m \in DOMAIN body["min"] : body["min"][m] \in Maybe(Nat)
          /\ \A m \in DOMAIN body["max"] : body["max"][m] \in Maybe(Nat)
      BY <2>1, MatchingAssumption
    <2>3. QED
      BY <2>2
  <1>3. q.min \in [Measures -> Maybe(Nat)] /\ q.max \in [Measures -> Maybe(Nat)]
    BY DEF Requirement
  <1>4. low \in [Measures -> Maybe(Nat)] /\ high \in [Measures -> Maybe(Nat)]
    BY <1>1, <1>2, <1>3 DEF Given
  <1>5. Bounded(q, body) = [q EXCEPT !.min = low, !.max = high]
    BY <1>1 DEF Bounded
  <1>6. QED
    BY <1>4, <1>5 DEF Requirement

\* A class given to a feature, or taken from it, and a priority given to a
\* place, or taken from it, leave a requirement.
LEMMA PartTyped ==
    ASSUME NEW q \in Requirement
    PROVE  /\ \A f \in Features, class \in Maybe(Classes) :
                  [q EXCEPT !["features"][f] = class] \in Requirement
           /\ \A place \in Places, n \in Maybe({1, 2}) :
                  [q EXCEPT !["places"][place] = n] \in Requirement
  <1>1. ASSUME NEW f \in Features, NEW class \in Maybe(Classes)
        PROVE  [q EXCEPT !["features"][f] = class] \in Requirement
    <2>1. [q.features EXCEPT ![f] = class] \in [Features -> Maybe(Classes)]
      BY DEF Requirement
    <2>2. [q EXCEPT !["features"][f] = class]
          = [q EXCEPT !.features = [q.features EXCEPT ![f] = class]]
      BY DEF Requirement
    <2>3. QED
      BY <2>1, <2>2 DEF Requirement
  <1>2. ASSUME NEW place \in Places, NEW n \in Maybe({1, 2})
        PROVE  [q EXCEPT !["places"][place] = n] \in Requirement
    <2>1. [q.places EXCEPT ![place] = n] \in [Places -> Maybe({1, 2})]
      BY DEF Requirement
    <2>2. [q EXCEPT !["places"][place] = n]
          = [q EXCEPT !.places = [q.places EXCEPT ![place] = n]]
      BY DEF Requirement
    <2>3. QED
      BY <2>1, <2>2 DEF Requirement
  <1>3. QED
    BY <1>1, <1>2

\* Every write leaves a requirement.
LEMMA WriteTyped ==
    ASSUME RequirementInv, NEW r \in Edits,
           PatchRequirement(r) \/ Add(r) \/ Remove(r) \/ PatchProperty(r) \/ SwitchFeature(r)
    PROVE  RequirementInv'
  <1>1. requirement' \in Requirement
    <2>1. requirement \in Requirement /\ (req[r].pc = "write" => EditSound(req[r]))
      BY DEF RequirementInv
    <2>2. CASE PatchRequirement(r)
      <3>1. req[r].body \in RequirementPatches
        BY <2>1, <2>2 DEF PatchRequirement, EditSound
      <3>2. Bounded(requirement, req[r].body) \in Requirement
        BY <2>1, <3>1, BoundedTyped
      <3>3. QED
        BY <2>1, <2>2, <3>2 DEF PatchRequirement, Answers
    <2>3. CASE Add(r)
      <3>1. \/ requirement' = requirement
            \/ requirement' = [requirement EXCEPT ![req[r].op][req[r].body[1]] = req[r].body[2]]
        BY <2>3 DEF Add, Answers
      <3>2. \/ /\ req[r].op = "features"
               /\ req[r].body[1] \in Features /\ req[r].body[2] \in Maybe(Classes)
            \/ /\ req[r].op = "places"
               /\ req[r].body[1] \in Places /\ req[r].body[2] \in Maybe({1, 2})
        BY <2>1, <2>3 DEF Add, EditSound, Maybe
      <3>3. QED
        BY <2>1, <3>1, <3>2, PartTyped
    <2>4. CASE Remove(r)
      <3>1. \/ requirement' = requirement
            \/ requirement' = [requirement EXCEPT ![req[r].body[1]][req[r].body[2]] = Null]
        BY <2>4 DEF Remove, Answers
      <3>2. \/ req[r].body[1] = "features" /\ req[r].body[2] \in Features
            \/ req[r].body[1] = "places" /\ req[r].body[2] \in Places
        BY <2>1, <2>4 DEF Remove, EditSound
      <3>3. Null \in Maybe(Classes) /\ Null \in Maybe({1, 2})
        BY DEF Maybe
      <3>4. QED
        BY <2>1, <3>1, <3>2, <3>3, PartTyped
    <2>5. CASE PatchProperty(r) \/ SwitchFeature(r)
      BY <2>1, <2>5 DEF PatchProperty, SwitchFeature, Answers
    <2>6. QED
      BY <2>2, <2>3, <2>4, <2>5
  <1>2. \E code : Answer(r, code)
    BY DEF PatchRequirement, Add, Remove, PatchProperty, SwitchFeature, Answers
  <1>3. QED
    BY <1>1, <1>2, AnsweredSound DEF RequirementInv

\* Every step keeps the requirement typed.
LEMMA NextRequirement ==
    RequirementInv /\ [MatchingNext]_matchingVars => RequirementInv'
  <1> SUFFICES ASSUME RequirementInv, [MatchingNext]_matchingVars PROVE RequirementInv'
    OBVIOUS
  <1>1. ASSUME NEW r \in Edits, NEW body \in RequirementPatches,
               Read(r, "requirement", body, requirement)
        PROVE  RequirementInv'
    BY <1>1, ReadSound DEF EditSound
  <1>2. ASSUME NEW r \in Edits, NEW f \in Features, NEW class \in Classes,
               Read(r, "features", <<f, class>>, requirement.features[f])
        PROVE  RequirementInv'
    BY <1>2, ReadSound DEF EditSound
  <1>3. ASSUME NEW r \in Edits, NEW place \in Places, NEW n \in {1, 2},
               Read(r, "places", <<place, n>>, requirement.places[place])
        PROVE  RequirementInv'
    BY <1>3, ReadSound DEF EditSound
  <1>4. ASSUME NEW r \in Edits, NEW f \in Features,
               Read(r, "remove", <<"features", f>>, requirement.features[f])
        PROVE  RequirementInv'
    BY <1>4, ReadSound DEF EditSound
  <1>5. ASSUME NEW r \in Edits, NEW place \in Places,
               Read(r, "remove", <<"places", place>>, requirement.places[place])
        PROVE  RequirementInv'
    BY <1>5, ReadSound DEF EditSound
  <1>6. ASSUME NEW r \in Edits, NEW body \in PropertyPatches,
               Read(r, "property", body, property)
        PROVE  RequirementInv'
    BY <1>6, ReadSound DEF EditSound
  <1>7. ASSUME NEW r \in Edits, NEW f \in Features, NEW on \in BOOLEAN,
               Read(r, "switch", <<f, on>>, property.features)
        PROVE  RequirementInv'
    BY <1>7, ReadSound DEF EditSound
  <1>8. CASE UNCHANGED matchingVars
    BY <1>8 DEF matchingVars, RequirementInv
  <1>9. QED
    BY <1>1, <1>2, <1>3, <1>4, <1>5, <1>6, <1>7, <1>8, WriteTyped DEF MatchingNext

\* What the search finds the analysis rules out for what the search leaves to
\* it only, however features are classed, places ranked and bounds moved by
\* edits that overlap.
THEOREM FoundRuledOutKnowingly == MatchingSpec => []FoundIsRuledOutKnowingly
  <1>1. MatchingInit => RequirementInv
    <2> SUFFICES ASSUME MatchingInit PROVE RequirementInv
      OBVIOUS
    <2>1. requirement \in Requirement
      BY MatchingAssumption DEF MatchingInit
    <2>2. \A r \in Edits : req[r].pc = "idle"
      BY DEF MatchingInit, Idle
    <2>3. QED
      BY <2>1, <2>2 DEF MatchingInit, RequirementInv
  <1>2. RequirementInv => FoundIsRuledOutKnowingly
    <2>1. RequirementInv => \A f \in Features : requirement.features[f] \in Maybe(Classes)
      BY DEF RequirementInv, Requirement
    <2>2. QED
      BY <2>1, RuledOutKnowingly DEF FoundIsRuledOutKnowingly
  <1>3. QED
    BY <1>1, <1>2, NextRequirement, PTL DEF MatchingSpec

=============================================================================
