-------------------------- MODULE MCAgentExecution --------------------------
(* Instances of AgentExecution for TLC. *)
EXTENDS AgentExecution, TLC

\* Init lets every request send anything, and no definition tells one request,
\* contact or user from another.
Symmetry == Permutations(Requests) \cup Permutations(Contacts) \cup Permutations(Users)

=============================================================================
