----------------------- MODULE MCOpportunityPipeline -----------------------
(* Instances of OpportunityPipeline for TLC. *)
EXTENDS OpportunityPipeline, TLC

Symmetry == Permutations(Requests)

\* Has a PATCH been loaded while another was under way, or a process died?  The
\* rules of the documentation are about PATCHes that come one after the other.
VARIABLE disturbed

Busy == {r \in Requests : pc[r] \in {"write", "audit"}}

MCInit == Init /\ disturbed = FALSE

MCNext ==
    /\ Next
    /\ disturbed' = (disturbed \/ (\E q, r \in Busy' : q # r)
                               \/ \E r \in Requests : pc'[r] = "lost")

MCSpec == MCInit /\ [][MCNext]_<<vars, disturbed>>

\* As long as PATCHes come one after the other, an open deal has no closing time
\* and a lost one has its reason.
DealRules == ~disturbed => OpenIsNotStamped /\ LostHasReason

\* As long as PATCHes come one after the other, each stage change starts where
\* the one before it ended and each audit entry from what the one before it left.
HistoryUnbroken == ~disturbed => TimelineUnbroken /\ AuditChained

============================================================================
