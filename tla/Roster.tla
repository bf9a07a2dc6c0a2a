------------------------------- MODULE Roster -------------------------------
(***************************************************************************)
(* What membership promises, without requests, rows and codes: an account  *)
(* founds an organization of its own or joins one that its owner invited   *)
(* it to, once, and stays there until it goes for good.                    *)
(***************************************************************************)
CONSTANTS Accounts, Founders

VARIABLES
    accounts,  \* the accounts that exist
    founded,   \* the organizations, each named by its founder
    invited,   \* <<a, o>>: a was invited to o at some time
    members,   \* <<a, o>>: a belongs to o
    owners     \* the accounts that own an organization

vars == <<accounts, founded, invited, members, owners>>

Init ==
    /\ accounts = Accounts /\ founded = Founders /\ invited = {}
    /\ members = {<<a, a>> : a \in Founders}
    /\ owners = Founders

\* Someone who exists and belongs nowhere.
Free(a) == a \in accounts /\ \A o \in Accounts : <<a, o>> \notin members

Found(a) ==
    /\ Free(a)
    /\ founded' = founded \cup {a}
    /\ members' = members \cup {<<a, a>>}
    /\ owners' = owners \cup {a}
    /\ UNCHANGED <<accounts, invited>>

\* Only who owns an organization invites to it.
Invite(o, a) ==
    /\ o \in founded \cap owners
    /\ invited' = invited \cup {<<a, o>>}
    /\ UNCHANGED <<accounts, founded, members, owners>>

\* Joining makes nobody an owner.
Join(a, o) ==
    /\ Free(a) /\ <<a, o>> \in invited
    /\ members' = members \cup {<<a, o>>}
    /\ UNCHANGED <<accounts, founded, invited, owners>>

\* An account that goes leaves its organization and never comes back.
Leave(a) ==
    /\ a \in accounts
    /\ accounts' = accounts \ {a}
    /\ members' = members \ {<<a, o>> : o \in Accounts}
    /\ owners' = owners \ {a}
    /\ UNCHANGED <<founded, invited>>

Next ==
    \/ \E a \in Accounts : Found(a) \/ Leave(a)
    \/ \E a, o \in Accounts : Invite(o, a) \/ Join(a, o)

Spec == Init /\ [][Next]_vars

=============================================================================
