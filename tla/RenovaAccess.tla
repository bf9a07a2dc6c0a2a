---------------------------- MODULE RenovaAccess ----------------------------
(***************************************************************************)
(* Who sees which Renova cases, and where a case is shown: the definitions *)
(* the cases, their follow-up, the chat and the backups have in common     *)
(* (core/renova_access.py, schemas/enums.py).                              *)
(***************************************************************************)

CONSTANTS
    Users,      \* the accounts of the organization
    Advisors,   \* those of role renova_agent
    Null

\* RENOVA_CASE_STATUSES, RENOVA_CLOSED_STATUSES, RENOVA_PIPELINE_STAGES
Board == {"new", "offer_preparation", "offer_sent", "negotiating", "accepted", "purchased"}
Closed == {"rejected", "cancelled"}
Statuses == Board \cup Closed \cup {"draft", "reviewing"}
Accepted == {"accepted", "purchased"}

\* RENOVA_OPERATION_STAGES, before and from the renovation on
Acquiring == {"proposal_accepted", "site_survey", "notary_contract"}
Owned == {"renovation", "for_sale", "buyer_closing", "owner_settlement", "closed"}
OperationStages == Acquiring \cup Owned

ProposalTypes == {"debt_only", "debt_plus_cash", "cash_only"}

ASSUME AccessAssumption ==
    /\ Advisors \subseteq Users
    /\ Null \notin Users \cup Statuses \cup ProposalTypes \cup OperationStages

\* visible_cases_clause
Sees(u, c) ==
    u \in Advisors => \/ c.assignee = u
                      \/ c.assignee = Null /\ c.creator = u

\* list(bucket), counts()
Bucket(c) == IF c.archived THEN "archived"
             ELSE IF c.status \in Closed THEN "closed" ELSE "active"
=============================================================================
