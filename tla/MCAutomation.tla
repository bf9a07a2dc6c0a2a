---------------------------- MODULE MCAutomation ----------------------------
(* Instances of Automation for TLC. *)
EXTENDS Automation, TLC

\* FairSpec with fewer edits, for the liveness run: nobody marks notifications
\* read, and only users whose account may be deleted are switched off and on.
FewEdits ==
    /\ unread' = {k \in Keys : notes'[k] > 0}
    /\ \A u \in Users \ Deletable : account'[u] = "active"

LivenessNext == Next /\ FewEdits

LivenessSpec == Init /\ [][LivenessNext]_vars /\ Fairness

=============================================================================
