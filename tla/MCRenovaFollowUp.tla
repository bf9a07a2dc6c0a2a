------------------------- MODULE MCRenovaFollowUp -------------------------
(* An instance of RenovaCase and RenovaFollowUp for TLC. *)
EXTENDS RenovaFollowUp, TLC

CONSTANTS chief, ana, luis, none

MCPayloads ==
    {"status" :> s : s \in {"negotiating", "accepted", "rejected", none}}
    \cup {"assignee" :> u : u \in {ana, luis}}
    \cup {"archived" :> TRUE, "secret" :> TRUE, "offer" :> 4, "coverage" :> none,
          "status" :> "rejected" @@ "archived" :> TRUE,
          "assignee" :> ana @@ "archived" :> TRUE,
          "assignee" :> ana @@ "type" :> "debt_plus_cash" @@ "coverage" :> 2 @@ "cash" :> 1,
          "type" :> "cash_only" @@ "coverage" :> 0 @@ "cash" :> 1,
          "type" :> "debt_only" @@ "coverage" :> 2}

MCMoves ==
    {"stage" :> s : s \in {"site_survey", "renovation", none}}
    \cup {"plan" :> TRUE, "plan" :> FALSE @@ "stage" :> "for_sale"}

A(type, result, at, next, number) ==
    [type |-> type, result |-> result, at |-> at, next |-> next, number |-> number]

MCEntries ==
    {A("call", "no_answer", 1, 3, none), A("call", "interested", 2, none, none),
     A("call", "other", 1, none, 3), A("follow_up", none, 2, 4, none),
     A("follow_up", none, 1, none, none)}

MCEdits ==
    {"result" :> "interested", "result" :> none, "at" :> 3, "at" :> none,
     "next" :> none, "number" :> none, "number" :> 2 @@ "next" :> 4}

Symmetry == Permutations(Requests) \cup Permutations(Callers)

\* Two requests on the case, or three of one advisor on its history, or one of
\* each.
Weight == 3 * Cardinality({r \in Requests : req[r].kind # "idle"}) + 2 * Begun

MCNext ==
    /\ Next
    /\ Weight' <= 6
    /\ \A c \in Callers : call'[c].by \in {none, ana}

MCSpec == Init /\ [][MCNext]_vars
=============================================================================
