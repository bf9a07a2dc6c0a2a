----------------------------- MODULE Membership -----------------------------
(***************************************************************************)
(* Who belongs to which organization: signing up (OnboardingService),      *)
(* invitations (OrganizationInvitationService) and the owner's changes to  *)
(* members (OrganizationMemberService), for callers authenticated by       *)
(* get_current_org_user.                                                   *)
(*                                                                         *)
(* A request reads and checks, and later writes and commits; nothing is    *)
(* locked in between, and only the primary key of users stops two rows for *)
(* one account.  An organization is named by the account that founded it,  *)
(* an email by the account that has it, an invitation by its code.         *)
(***************************************************************************)
EXTENDS Naturals, FiniteSets

CONSTANTS
    Accounts,       \* Supabase accounts
    Founders,       \* those that already own an organization
    Invitations,    \* invitation codes
    Requests,       \* requests to join, sign up, revoke and change a member
    SelfService,    \* settings.allow_self_service_signup
    Null

Roles == {"owner", "admin", "agent", "renova_agent"}
Invitable == Roles \ {"owner"}

VARIABLES
    auth,           \* the accounts Supabase has
    organizations,  \* the rows of organizations
    users,          \* users[a]: the row of account a, or Null
    invitations,    \* invitations[i]: the row with code i, or Null
    expired,        \* codes past their expires_at
    told,           \* told[a]: what the audit log says of a member, or Null
    req             \* req[r]: a request and what it read

vars == <<auth, organizations, users, invitations, expired, told, req>>

User == [org : Accounts, role : Roles, active : BOOLEAN, deactivated : BOOLEAN]

Invitation == [org : Accounts, email : Accounts, role : Invitable,
               status : {"pending", "accepted", "revoked"}, by : Accounts \cup {Null}]

\* The audit log of a member: the role in its last entry of any kind and in its
\* last change of role, the access in its last entry about that, the requests
\* that had loaded the member when a change of role was committed, and whether
\* the last role in the log comes from one of those.
Log == [role : Roles, changed : Roles, active : BOOLEAN,
        overtaken : SUBSET Requests, late : BOOLEAN]

\* OrganizationMemberUpdate: at least one change
Update == {u \in [role : Roles \cup {Null}, active : BOOLEAN \cup {Null}] :
               u.role # Null \/ u.active # Null}

ASSUME MembershipAssumption ==
    /\ Founders \subseteq Accounts
    /\ SelfService \in BOOLEAN
    /\ Null \notin Accounts
    /\ Null \notin User
    /\ Null \notin Invitation

NoRequest == [kind |-> "idle", by |-> Null, invitation |-> Null, member |-> Null,
              update |-> Null, seen |-> Null]

-----------------------------------------------------------------------------
(* Callers.                                                                *)

\* get_current_org_user, require_role("owner")
IsOwner(u) == /\ users[u] # Null
              /\ users[u].active
              /\ users[u].role = "owner"

\* _valid_pending_invitation
Valid(i) == /\ invitations[i] # Null
            /\ invitations[i].status = "pending"
            /\ i \notin expired

NewMember(org, role) == [org |-> org, role |-> role, active |-> TRUE, deactivated |-> FALSE]

\* A member of whom the log has no change yet.
NewLog(role) ==
    [role |-> role, changed |-> role, active |-> TRUE, overtaken |-> {}, late |-> FALSE]

\* Mutant: the row is written over one that is already there.
InsertableTwice(a) == a \in auth

\* users: primary key, foreign key to auth.users
Insertable(a) == a \in auth /\ users[a] = Null

Begin(r, request) == req' = [req EXCEPT ![r] = request]

Finish(r) == req' = [req EXCEPT ![r] = [NoRequest EXCEPT !.kind = "done"]]

-----------------------------------------------------------------------------
(* Actions.                                                                *)

Init ==
    /\ auth = Accounts
    /\ organizations = Founders
    /\ users = [a \in Accounts |-> IF a \in Founders THEN NewMember(a, "owner") ELSE Null]
    /\ invitations = [i \in Invitations |-> Null]
    /\ expired = {}
    /\ told = [a \in Accounts |-> IF a \in Founders THEN NewLog("owner") ELSE Null]
    /\ req = [r \in Requests |-> NoRequest]

\* POST /organization/invitations
Invite(u, i, email, role) ==
    /\ IsOwner(u) /\ role \in Invitable /\ invitations[i] = Null
    /\ invitations' = [invitations EXCEPT ![i] =
           [org |-> users[u].org, email |-> email, role |-> role, status |-> "pending", by |-> Null]]
    /\ UNCHANGED <<auth, organizations, users, expired, told, req>>

Expire(i) ==
    /\ invitations[i] # Null /\ i \notin expired
    /\ expired' = expired \cup {i}
    /\ UNCHANGED <<auth, organizations, users, invitations, told, req>>

\* OnboardingService.provision of an account it finds without a row
BeginProvision(r, a) ==
    /\ req[r].kind = "idle" /\ a \in auth /\ users[a] = Null /\ SelfService
    /\ Begin(r, [NoRequest EXCEPT !.kind = "provision", !.by = a])
    /\ UNCHANGED <<auth, organizations, users, invitations, expired, told>>

\* Mutant: the organization is committed before its owner.
FoundedFirst(r) == organizations \cup {req[r].by}

\* The loser of the primary key keeps nothing of its transaction.
Founded(r) == organizations \cup (IF Insertable(req[r].by) THEN {req[r].by} ELSE {})

Provision(r) ==
    LET a == req[r].by
    IN  /\ req[r].kind = "provision"
        /\ organizations' = Founded(r)
        /\ users' = IF Insertable(a) THEN [users EXCEPT ![a] = NewMember(a, "owner")] ELSE users
        /\ told' = IF Insertable(a) THEN [told EXCEPT ![a] = NewLog("owner")] ELSE told
        /\ Finish(r)
        /\ UNCHANGED <<auth, invitations, expired>>

\* accept(), up to its inserts; who has a row is answered without a change
BeginAccept(r, a, i) ==
    /\ req[r].kind = "idle" /\ a \in auth /\ users[a] = Null
    /\ Valid(i) /\ invitations[i].email = a
    /\ Begin(r, [NoRequest EXCEPT !.kind = "accept", !.by = a, !.invitation = i,
                                  !.seen = invitations[i]])
    /\ UNCHANGED <<auth, organizations, users, invitations, expired, told>>

\* Mutant: the invitation is marked in a transaction of its own.
UsedFirst(r) == TRUE

\* The invitation is used by the transaction that inserts the member.
Used(r) == Insertable(req[r].by)

Accept(r) ==
    LET a == req[r].by
        i == req[r].invitation
    IN  /\ req[r].kind = "accept"
        /\ users' = IF Insertable(a)
                    THEN [users EXCEPT ![a] = NewMember(req[r].seen.org, req[r].seen.role)]
                    ELSE users
        /\ told' = IF Insertable(a) THEN [told EXCEPT ![a] = NewLog(req[r].seen.role)] ELSE told
        /\ invitations' = IF Used(r)
                          THEN [invitations EXCEPT ![i].status = "accepted", ![i].by = a]
                          ELSE invitations
        /\ Finish(r)
        /\ UNCHANGED <<auth, organizations, expired>>

\* revoke(), up to its UPDATE
BeginRevoke(r, u, i) ==
    /\ req[r].kind = "idle" /\ IsOwner(u)
    /\ invitations[i] # Null /\ invitations[i].org = users[u].org
    /\ invitations[i].status = "pending"
    /\ Begin(r, [NoRequest EXCEPT !.kind = "revoke", !.by = u, !.invitation = i])
    /\ UNCHANGED <<auth, organizations, users, invitations, expired, told>>

Revoke(r) ==
    /\ req[r].kind = "revoke"
    /\ invitations' = [invitations EXCEPT ![req[r].invitation].status = "revoked"]
    /\ Finish(r)
    /\ UNCHANGED <<auth, organizations, users, expired, told>>

\* The five refusals of OrganizationMemberService.update
MayChange(u, m, update) == /\ m # u
                           /\ users[m].role # "owner"
                           /\ update.role # "owner"

\* OrganizationMemberService.update, up to its first UPDATE
BeginUpdate(r, u, m, update) ==
    /\ req[r].kind = "idle" /\ IsOwner(u)
    /\ users[m] # Null /\ users[m].org = users[u].org
    /\ MayChange(u, m, update)
    /\ Begin(r, [NoRequest EXCEPT !.kind = "update", !.by = u, !.member = m,
                                  !.update = update, !.seen = users[m]])
    /\ UNCHANGED <<auth, organizations, users, invitations, expired, told>>

\* What an update changes of the member it loaded.
Changes(r) == {f \in {"role", "active"} : req[r].update[f] \notin {Null, req[r].seen[f]}}

\* Mutant: one entry for one request.
RecordedOnce(r) == IF "role" \in Changes(r) THEN {"role"} ELSE Changes(r)

\* USER_ROLE_CHANGED, USER_REACTIVATED, USER_DEACTIVATED
Recorded(r) == Changes(r)

\* The role of an entry: member.role, which is what this request has assigned or
\* else what it loaded.
Carried(r) == IF "role" \in Changes(r) THEN req[r].update.role ELSE req[r].seen.role

\* The other requests that have loaded the same member.
Loaded(r) == {q \in Requests \ {r} : req[q].kind = "update" /\ req[q].member = req[r].member}

\* The log with an update's entries; each of them carries a role.
Logged(r, log) ==
    IF Recorded(r) = {} THEN log
    ELSE [role |-> Carried(r),
          changed |-> IF "role" \in Recorded(r) THEN req[r].update.role ELSE log.changed,
          active |-> IF "active" \in Recorded(r) THEN req[r].update.active ELSE log.active,
          overtaken |-> log.overtaken \cup (IF "role" \in Recorded(r) THEN Loaded(r) ELSE {}),
          late |-> "role" \notin Recorded(r) /\ r \in log.overtaken]

Stamp(active, stamp) == ~active

\* The row an update leaves of the one it finds.
Rewritten(r, row) ==
    LET given == req[r].update
    IN  [row EXCEPT
            !.role = IF "role" \in Changes(r) THEN given.role ELSE row.role,
            !.active = IF "active" \in Changes(r) THEN given.active ELSE row.active,
            !.deactivated = IF "active" \in Changes(r)
                            THEN Stamp(given.active, row.deactivated) ELSE row.deactivated]

UpdateMember(r) ==
    LET m == req[r].member
    IN  /\ req[r].kind = "update"
        /\ users' = IF users[m] = Null THEN users
                    ELSE [users EXCEPT ![m] = Rewritten(r, users[m])]
        /\ told' = IF users[m] = Null THEN told
                   ELSE [told EXCEPT ![m] = Logged(r, told[m])]
        /\ Finish(r)
        /\ UNCHANGED <<auth, organizations, invitations, expired>>

\* The process dies, or the connection is lost, before the commit.
Lose(r) ==
    /\ req[r].kind \notin {"idle", "done"}
    /\ Finish(r)
    /\ UNCHANGED <<auth, organizations, users, invitations, expired, told>>

\* The account is deleted in Supabase: CASCADE to users, SET NULL in invitations.
DeleteAccount(a) ==
    /\ a \in auth \ Founders
    /\ auth' = auth \ {a}
    /\ users' = [users EXCEPT ![a] = Null]
    /\ told' = [told EXCEPT ![a] = Null]
    /\ invitations' = [i \in Invitations |->
           IF invitations[i] # Null /\ invitations[i].by = a
           THEN [invitations[i] EXCEPT !.by = Null] ELSE invitations[i]]
    /\ UNCHANGED <<organizations, expired, req>>

Next ==
    \/ \E u, a \in Accounts, i \in Invitations, role \in Roles : Invite(u, i, a, role)
    \/ \E i \in Invitations : Expire(i)
    \/ \E a \in Accounts : DeleteAccount(a)
    \/ \E r \in Requests :
          \/ \E a \in Accounts : \/ BeginProvision(r, a)
                                 \/ \E i \in Invitations : BeginAccept(r, a, i) \/ BeginRevoke(r, a, i)
                                 \/ \E m \in Accounts, u \in Update : BeginUpdate(r, a, m, u)
          \/ Provision(r) \/ Accept(r) \/ Revoke(r) \/ UpdateMember(r) \/ Lose(r)

Spec == Init /\ [][Next]_vars

-----------------------------------------------------------------------------
(* Properties.                                                             *)

\* Every row keeps its type.
TypeOK ==
    /\ auth \subseteq Accounts /\ organizations \subseteq Accounts
    /\ \A a \in Accounts : users[a] \in User \cup {Null} /\ told[a] \in Log \cup {Null}
    /\ \A i \in Invitations : invitations[i] \in Invitation \cup {Null}
    /\ expired \subseteq Invitations

Owners(o) == {a \in Accounts : users[a] # Null /\ users[a].org = o /\ users[a].role = "owner"}

\* However sign-ups and invitations of one account race, no organization is
\* left behind without its founder, and nobody but the founder ever owns one.
OrganizationsOwned ==
    /\ \A o \in organizations : o \in auth => Owners(o) = {o}
    /\ \A a \in Accounts : users[a] # Null => users[a].org \in organizations

\* An account that did not found its organization is there by an invitation to
\* it, and an invitation that says who used it brought that account in: an
\* account is in one organization and stays there, whatever it accepts at once.
EntryMatchesInvitation ==
    /\ \A i \in Invitations :
          invitations[i] # Null /\ invitations[i].by # Null
          => LET a == invitations[i].by
             IN  /\ invitations[i].email = a
                 /\ users[a] # Null /\ users[a].org = invitations[i].org
    /\ \A a \in Accounts :
          users[a] # Null /\ users[a].org # a
          => \E i \in Invitations : /\ invitations[i] # Null /\ invitations[i].by = a
                                    /\ invitations[i].org = users[a].org

\* However the owner's changes overlap, the last change of role and the last
\* change of access in the audit log say what the row is, and the row says since
\* when exactly of those it refuses.  The role an access entry repeats can be an
\* old one, but only when a change of role was committed after the member was
\* loaded for it.
HistoryTellsMember ==
    \A a \in Accounts : users[a] # Null =>
        /\ told[a].changed = users[a].role
        /\ told[a].active = users[a].active
        /\ users[a].deactivated = ~users[a].active
        /\ told[a].role # users[a].role => told[a].late

-----------------------------------------------------------------------------
(* The roster this code keeps.                                             *)

Rows == {a \in Accounts : users[a] # Null}

Codes == {i \in Invitations : invitations[i] # Null}

Invited == {<<invitations[i].email, invitations[i].org>> : i \in Codes}

Members == {<<a, users[a].org>> : a \in Rows}

OwnerRows == {a \in Rows : users[a].role = "owner"}

AbstractRoster == INSTANCE Roster WITH
    accounts <- auth, founded <- organizations, invited <- Invited, members <- Members,
    owners <- OwnerRows

\* Requests that overlap, are lost, or act on a row that has gone meanwhile
\* never do what the roster does not allow: nobody is moved from one
\* organization to another, made an owner by a change of role or by an
\* invitation, let in uninvited, or found again after the account is gone.
ImplementsRoster == AbstractRoster!Spec

=============================================================================
