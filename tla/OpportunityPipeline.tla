------------------------ MODULE OpportunityPipeline ------------------------
(***************************************************************************)
(* One opportunity under POST /contacts/{id}/opportunities and             *)
(* PATCH /opportunities/{id}: OpportunityService.create and update, the    *)
(* stage_change activities, the audit log and the post-sale task.          *)
(*                                                                         *)
(* Every PATCH is a process.  It loads the row, validates the payload      *)
(* against what it loaded and, at its flush, writes only the columns whose *)
(* value it changed (the session's UPDATE); nothing locks or compares the  *)
(* row in between, so another PATCH may have changed it.  A PATCH that     *)
(* wins the deal commits twice: TaskService.create commits everything      *)
(* flushed so far, the OPPORTUNITY_WON entry comes after.                  *)
(*                                                                         *)
(* closed_at only matters as set or not.  The other columns of a PATCH     *)
(* (title, value, probability, owner...) are one more request that changes *)
(* no stage.  actor_user_id is always the caller, so an assignee for the   *)
(* post-sale task is always known.                                         *)
(***************************************************************************)
EXTENDS Integers, Sequences, FiniteSets

CONSTANTS
    Requests,   \* the PATCH requests
    Working,    \* the open stages of the opportunity's type
    Foreign,    \* stages of the other type only
    Reasons,    \* OPPORTUNITY_LOST_REASONS
    NoReason,   \* lost_reason IS NULL
    Unset,      \* the field is not in the payload
    MaxLost     \* bound: requests whose process dies

Closed == {"won", "lost"}    \* OPPORTUNITY_CLOSED_STAGES
Stages == Working \cup Closed

ASSUME PipelineAssumption ==
    /\ Working \cap (Foreign \cup Closed \cup {"absent"}) = {}
    /\ Unset \notin Stages \cup Foreign \cup Reasons \cup {NoReason}
    /\ NoReason \notin Reasons
    /\ MaxLost \in Nat

VARIABLES
    opp,        \* the row of opportunities
    timeline,   \* the stage_change activities, in the order they committed
    tasks,      \* the requests that created a post-sale task
    audit,      \* the audit entries of the opportunity, in commit order
    pc,
    sent,       \* sent[r]: the payload
    seen        \* seen[r]: the row as r loaded it

vars == <<opp, timeline, tasks, audit, pc, sent, seen>>

Row == [stage : Stages \cup {"absent"}, closed : BOOLEAN,
        reason : Reasons \cup {NoReason}]

Absent == [stage |-> "absent", closed |-> FALSE, reason |-> NoReason]

Payload == [stage : Stages \cup Foreign \cup {Unset},
            reason : Reasons \cup {NoReason, Unset}]

Init ==
    /\ opp = Absent
    /\ timeline = <<>> /\ audit = <<>> /\ tasks = {}
    /\ pc = [r \in Requests |-> "load"]
    /\ sent = [r \in Requests |-> [stage |-> Unset, reason |-> Unset]]
    /\ seen = [r \in Requests |-> Absent]

-----------------------------------------------------------------------------
(* What a PATCH makes of the row it loaded.                                *)

NewStage(r) == IF sent[r].stage = Unset THEN seen[r].stage ELSE sent[r].stage

NewReason(r) == IF sent[r].reason = Unset THEN seen[r].reason ELSE sent[r].reason

StageChanged(r) == NewStage(r) # seen[r].stage

Reopens(r) == StageChanged(r) /\ NewStage(r) \notin Closed /\ seen[r].stage \in Closed

\* _validate_stage, _validate_lost_reason
Valid(r) ==
    /\ NewStage(r) \in Stages
    /\ NewStage(r) = "lost" => NewReason(r) # NoReason

\* Mutant: only winning stamps closed_at.
StampsOnlyWon(r) == StageChanged(r) /\ NewStage(r) = "won"

Stamps(r) == StageChanged(r) /\ NewStage(r) \in Closed

\* Mutant: reopening clears the reason and forgets the timestamp.
ClosedAfterKept(r, now) == Stamps(r) \/ now

\* closed_at of a row that has it set or not, after r's assignments.
ClosedAfter(r, now) == Stamps(r) \/ (now /\ ~Reopens(r))

\* The handler's lost_reason: reopening clears it, then the payload's own is
\* assigned unless it is null.
ReasonAfter(r) ==
    IF sent[r].reason \in Reasons THEN sent[r].reason
    ELSE IF Reopens(r) THEN NoReason ELSE seen[r].reason

\* The object in r's session.
After(r) == [stage |-> NewStage(r), closed |-> ClosedAfter(r, seen[r].closed),
             reason |-> ReasonAfter(r)]

\* The row after r's UPDATE: columns r did not change keep what others wrote.
Flushed(r) ==
    [stage |-> IF StageChanged(r) THEN NewStage(r) ELSE opp.stage,
     closed |-> ClosedAfter(r, opp.closed),
     reason |-> IF ReasonAfter(r) # seen[r].reason THEN ReasonAfter(r)
                                                    ELSE opp.reason]

AuditAction(r) ==
    IF ~StageChanged(r) THEN "OPPORTUNITY_UPDATED"
    ELSE IF NewStage(r) = "won" THEN "OPPORTUNITY_WON"
    ELSE IF NewStage(r) = "lost" THEN "OPPORTUNITY_LOST"
    ELSE IF Reopens(r) THEN "OPPORTUNITY_REOPENED"
    ELSE "OPPORTUNITY_STAGE_CHANGED"

Entry(r) == [by |-> r, action |-> AuditAction(r), before |-> seen[r],
             after |-> After(r)]

\* Mutant: so is before_stage.
ChangeReadLate(r) == [by |-> r, from |-> NewStage(r), to |-> NewStage(r)]

Change(r) == [by |-> r, from |-> seen[r].stage, to |-> NewStage(r)]

-----------------------------------------------------------------------------
(* Actions.                                                                *)

\* POST /contacts/{id}/opportunities: any stage of the type will do.
Create(stage, reason) ==
    /\ opp = Absent
    /\ stage = "lost" => reason # NoReason
    /\ opp' = [stage |-> stage, closed |-> stage \in Closed, reason |-> reason]
    /\ audit' = Append(audit, [by |-> Unset, action |-> "OPPORTUNITY_CREATED",
                               before |-> Absent, after |-> opp'])
    /\ UNCHANGED <<timeline, tasks, pc, sent, seen>>

\* get_or_404; the validations that follow look at nothing newer.
Load(r, payload) ==
    /\ pc[r] = "load"
    /\ opp # Absent
    /\ sent' = [sent EXCEPT ![r] = payload]
    /\ seen' = [seen EXCEPT ![r] = opp]
    /\ pc' = [pc EXCEPT ![r] = "write"]
    /\ UNCHANGED <<opp, timeline, tasks, audit>>

\* 404 and 422: no opportunity, a payload that is not valid for what was
\* loaded, or a property or buyer requirement that does not resolve.
Reject(r) ==
    /\ \/ pc[r] = "load" /\ opp = Absent
       \/ pc[r] = "write"
    /\ pc' = [pc EXCEPT ![r] = "done"]
    /\ UNCHANGED <<opp, timeline, tasks, audit, sent, seen>>

\* Every PATCH that does not win the deal: UPDATE, activity and audit entry in
\* one commit.
Write(r) ==
    /\ pc[r] = "write" /\ Valid(r)
    /\ ~(StageChanged(r) /\ NewStage(r) = "won")
    /\ opp' = Flushed(r)
    /\ timeline' = IF StageChanged(r) THEN Append(timeline, Change(r)) ELSE timeline
    /\ audit' = Append(audit, Entry(r))
    /\ pc' = [pc EXCEPT ![r] = "done"]
    /\ UNCHANGED <<tasks, sent, seen>>

\* Mutant: sending "won" to a deal that is won already counts as winning it.
WriteWonAgain(r) ==
    /\ pc[r] = "write" /\ Valid(r)
    /\ NewStage(r) = "won"
    /\ opp' = Flushed(r)
    /\ timeline' = IF StageChanged(r) THEN Append(timeline, Change(r)) ELSE timeline
    /\ tasks' = tasks \cup {r}
    /\ pc' = [pc EXCEPT ![r] = "audit"]
    /\ UNCHANGED <<audit, sent, seen>>

\* Mutant: the activity is left to the second commit, where it is forgotten.
WriteWonUnrecorded(r) ==
    /\ pc[r] = "write" /\ Valid(r)
    /\ StageChanged(r) /\ NewStage(r) = "won"
    /\ opp' = Flushed(r)
    /\ tasks' = tasks \cup {r}
    /\ pc' = [pc EXCEPT ![r] = "audit"]
    /\ UNCHANGED <<timeline, audit, sent, seen>>

\* Winning: UPDATE, activity and post-sale task are committed together by
\* TaskService.create.
WriteWon(r) ==
    /\ pc[r] = "write" /\ Valid(r)
    /\ StageChanged(r) /\ NewStage(r) = "won"
    /\ opp' = Flushed(r)
    /\ timeline' = Append(timeline, Change(r))
    /\ tasks' = tasks \cup {r}
    /\ pc' = [pc EXCEPT ![r] = "audit"]
    /\ UNCHANGED <<audit, sent, seen>>

\* Mutant: update() takes the task's commit for its own and returns.
RecordWonSkipped(r) ==
    /\ pc[r] = "audit"
    /\ pc' = [pc EXCEPT ![r] = "done"]
    /\ UNCHANGED <<opp, timeline, tasks, audit, sent, seen>>

\* The second commit, of what update() computed before the first.
RecordWon(r) ==
    /\ pc[r] = "audit"
    /\ audit' = Append(audit, Entry(r))
    /\ pc' = [pc EXCEPT ![r] = "done"]
    /\ UNCHANGED <<opp, timeline, tasks, sent, seen>>

\* The process dies: what is not committed is rolled back.
Lose(r) ==
    /\ pc[r] \in {"write", "audit"}
    /\ Cardinality({q \in Requests : pc[q] = "lost"}) < MaxLost
    /\ pc' = [pc EXCEPT ![r] = "lost"]
    /\ UNCHANGED <<opp, timeline, tasks, audit, sent, seen>>

Quiet == (\A r \in Requests : pc[r] \in {"done", "lost"}) /\ UNCHANGED vars

Next ==
    \/ \E s \in Stages, l \in Reasons \cup {NoReason} : Create(s, l)
    \/ \E r \in Requests : \/ \E p \in Payload : Load(r, p)
                           \/ Reject(r) \/ Write(r) \/ WriteWon(r)
                           \/ RecordWon(r) \/ Lose(r)
    \/ Quiet

Spec == Init /\ [][Next]_vars

-----------------------------------------------------------------------------
(* Properties that survive any interleaving.                               *)

Steps == {"load", "write", "audit", "done", "lost"}

Actions == {"OPPORTUNITY_CREATED", "OPPORTUNITY_UPDATED", "OPPORTUNITY_WON",
            "OPPORTUNITY_LOST", "OPPORTUNITY_REOPENED", "OPPORTUNITY_STAGE_CHANGED"}

\* Every variable keeps its type; no stage of the other pipeline gets in.
TypeOK ==
    /\ opp \in Row
    /\ timeline \in Seq([by : Requests, from : Stages, to : Stages])
    /\ tasks \subseteq Requests
    /\ audit \in Seq([by : Requests \cup {Unset}, action : Actions,
                      before : Row, after : Row])
    /\ pc \in [Requests -> Steps]
    /\ sent \in [Requests -> Payload]
    /\ seen \in [Requests -> Row]

\* A deal that is won or lost has its closing time, whatever was changed under
\* the requests that closed and reopened it: the stage and closed_at are
\* written by the same UPDATE.
ClosedIsStamped == opp.stage \in Closed => opp.closed

Last(s) == s[Len(s)]

\* The timeline and the row commit together: the last stage change recorded is
\* the stage the opportunity is in.
TimelineEndsAtStage == timeline # <<>> => Last(timeline).to = opp.stage

\* Every recorded win created exactly one post-sale task, and nothing else did,
\* also when the process dies between the two commits of a win.
OneTaskPerWin ==
    /\ tasks = {timeline[i].by : i \in {j \in DOMAIN timeline : timeline[j].to = "won"}}
    /\ \A i, j \in DOMAIN timeline : i # j => timeline[i].by # timeline[j].by

\* A stage change has its audit entry as soon as its request is over: only a
\* win whose process died between its two commits stays without one.
ChangesAudited ==
    \A i \in DOMAIN timeline :
        LET r == timeline[i].by
        IN  \/ \E j \in DOMAIN audit : /\ audit[j].by = r
                                        /\ audit[j].before.stage = timeline[i].from
                                        /\ audit[j].after.stage = timeline[i].to
            \/ timeline[i].to = "won" /\ pc[r] \in {"audit", "lost"}

-----------------------------------------------------------------------------
(* Properties of PATCHes that do not overlap.                              *)

\* README: reopening "clears closed_at".  An open deal has no closing time.
OpenIsNotStamped == opp.stage \notin Closed => ~opp.closed

\* README: "Setting stage to lost requires lost_reason".
LostHasReason == opp.stage = "lost" => opp.reason # NoReason

\* Each stage change starts where the one before it ended.
TimelineUnbroken ==
    \A i \in 2..Len(timeline) : timeline[i].from = timeline[i - 1].to

\* Each audit entry starts from what the one before it left, so the log can be
\* read as the history of the row, which is what its last entry left.
AuditChained ==
    \A i \in DOMAIN audit :
        IF i = 1 THEN audit[i].before = Absent
        ELSE audit[i].before = audit[i - 1].after

============================================================================
