---------------------------- MODULE MCRenovaChat ----------------------------
(* An instance of RenovaChat for TLC: an advisor asks about two cases. *)
EXTENDS RenovaChat, TLC

CONSTANTS ana, chief, juan, maria, none

A(name, status, assignee) ==
    [name |-> name, status |-> status, archived |-> status = "rejected", assignee |-> assignee,
     creator |-> ana, entered |-> 1, type |-> none,
     debts |-> [f \in DebtFields |-> none]]

MCRows ==
    juan :> {A("juan perez", "negotiating", ana),
             A("juan perez", "negotiating", chief),
             A("juan perez", "rejected", none)}
    @@ maria :> {A("juan lopez", "purchased", ana),
                 A("juan lopez", "rejected", ana)}

Q(intent, name, filter) == [intent |-> intent, name |-> name, filter |-> filter]

MCParsed ==
    {Q("total_debt", "juan perez", none), Q("case_summary", "juan", none),
     Q("case_field", none, none), Q("pipeline_summary", none, none),
     Q("filtered_list", none, [field |-> "proposal_type", value |-> "unclassified"])}

MCNames == {"juan", "juan perez", "juan lopez"}

MCWithin == {<<n, n>> : n \in MCNames} \cup {"juan"} \X MCNames

Symmetry == Permutations(Asks)

InFlight == {a \in Asks : ask[a].pc \notin {"idle", "answered", "refused", "crashed"}}

\* After a first turn two questions overlap; the clock stands still meanwhile,
\* and cases change while one of them reads or between turns.
MCNext ==
    /\ Next
    /\ Cardinality(InFlight') <= IF messages = <<>> THEN 1 ELSE 2
    /\ minute' # minute => InFlight = {}
    /\ cases' # cases => \A a \in InFlight : ask[a].pc \in {"resolve", "list"}

MCSpec == Init /\ [][MCNext]_vars
=============================================================================
