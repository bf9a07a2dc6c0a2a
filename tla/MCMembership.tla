---------------------------- MODULE MCMembership ----------------------------
(* An instance of Membership for TLC. *)
EXTENDS Membership, TLC

CONSTANTS owner, other, ana

Symmetry == Permutations(Invitations) \cup Permutations(Requests)

\* Owners invite ana as agent or advisor; the first changes her access.
MCNext ==
    /\ Next
    /\ \A i \in Invitations : invitations'[i] # Null =>
          invitations'[i].email = ana /\ invitations'[i].role # "admin"
    /\ \A r \in Requests : req'[r].kind = "update" => req'[r].update.role \notin {"agent"}

MCSpec == Init /\ [][MCNext]_vars
=============================================================================
