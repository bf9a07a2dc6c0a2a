-------------------------- MODULE MembershipProofs --------------------------
(***************************************************************************)
(* Proofs about Membership, for any number of accounts, invitations and    *)
(* requests: however sign-ups, invitations, revocations and changes of     *)
(* access overlap, an organization has its founder as only owner and an    *)
(* account is where its invitation says.                                   *)
(*                                                                         *)
(* The inductive invariant adds to the two properties what a request under *)
(* way may rely on: the invitation it accepts is still addressed to it and *)
(* to the organization it read, and the member it changes is no owner.     *)
(***************************************************************************)
EXTENDS Membership, TLAPS

Kinds == {"idle", "done", "provision", "accept", "revoke", "update"}

Request == [kind : Kinds, by : Accounts \cup {Null}, invitation : Invitations \cup {Null},
            member : Accounts \cup {Null}, update : Update \cup {Null},
            seen : User \cup Invitation \cup {Null}]

Typed ==
    /\ auth \subseteq Accounts /\ organizations \subseteq Accounts
    /\ users \in [Accounts -> User \cup {Null}]
    /\ invitations \in [Invitations -> Invitation \cup {Null}]
    /\ req \in [Requests -> Request]

\* What an accepting, revoking or updating request still finds.
AcceptSound(r) ==
    /\ req[r].by \in Accounts /\ req[r].invitation \in Invitations
    /\ req[r].seen \in Invitation
    /\ invitations[req[r].invitation] # Null
    /\ invitations[req[r].invitation].email = req[r].by
    /\ invitations[req[r].invitation].org = req[r].seen.org

RevokeSound(r) ==
    /\ req[r].invitation \in Invitations
    /\ invitations[req[r].invitation] # Null

UpdateSound(r) ==
    /\ req[r].member \in Accounts /\ req[r].update \in Update
    /\ req[r].update.role # "owner"
    /\ users[req[r].member] = Null => req[r].member \notin auth
    /\ users[req[r].member] # Null => users[req[r].member].role # "owner"

RequestsSound ==
    \A r \in Requests :
        /\ req[r].kind = "provision" => req[r].by \in Accounts
        /\ req[r].kind = "accept" => AcceptSound(r)
        /\ req[r].kind = "revoke" => RevokeSound(r)
        /\ req[r].kind = "update" => UpdateSound(r)

\* Who founded an organization owns it, and nobody else owns one.
FoundersOwn ==
    /\ \A a \in Accounts : users[a] # Null =>
          /\ a \in auth /\ users[a].org \in organizations
          /\ users[a].role = "owner" <=> users[a].org = a
    /\ \A o \in organizations : o \in auth => users[o] # Null /\ users[o].org = o
    /\ \A i \in Invitations : invitations[i] # Null => invitations[i].org \in organizations

IInv == Typed /\ RequestsSound /\ FoundersOwn /\ EntryMatchesInvitation

-----------------------------------------------------------------------------
(* Requests.                                                               *)

\* A request that has not begun is a request.
LEMMA NoRequestTyped == NoRequest \in Request
  BY DEF NoRequest, Request, Kinds

\* Finishing a request touches no other.
LEMMA Finished ==
    ASSUME Typed, NEW r \in Requests, Finish(r)
    PROVE  /\ req' \in [Requests -> Request]
           /\ req'[r].kind = "done"
           /\ \A q \in Requests : q # r => req'[q] = req[q]
  <1>1. [NoRequest EXCEPT !.kind = "done"] \in Request
    BY NoRequestTyped DEF NoRequest, Request, Kinds
  <1>2. [NoRequest EXCEPT !.kind = "done"].kind = "done"
    BY DEF NoRequest
  <1>3. QED
    BY <1>1, <1>2 DEF Typed, Finish

\* Beginning a request touches no other.
LEMMA Begun ==
    ASSUME Typed, NEW r \in Requests, NEW request \in Request, Begin(r, request)
    PROVE  /\ req' \in [Requests -> Request]
           /\ req'[r] = request
           /\ \A q \in Requests : q # r => req'[q] = req[q]
  BY DEF Typed, Begin

-----------------------------------------------------------------------------
(* The beginning.                                                          *)

\* The members of a founded organization are a user's row.
LEMMA NewMemberTyped ==
    ASSUME NEW o \in Accounts, NEW role \in Roles
    PROVE  /\ NewMember(o, role) \in User /\ NewMember(o, role) # Null
           /\ NewMember(o, role).org = o /\ NewMember(o, role).role = role
  <1>1. NewMember(o, role) \in User
    BY ZenonT(20) DEF NewMember, User
  <1>2. NewMember(o, role) # Null
    BY <1>1, MembershipAssumption
  <1>3. NewMember(o, role).org = o /\ NewMember(o, role).role = role
    BY DEF NewMember
  <1>4. QED
    BY <1>1, <1>2, <1>3

\* Initially.
LEMMA InitIInv == Init => IInv
  <1> SUFFICES ASSUME Init PROVE IInv
    OBVIOUS
  <1>1. \A a \in Accounts : a \in Founders =>
            NewMember(a, "owner") \in User /\ NewMember(a, "owner") # Null
            /\ NewMember(a, "owner").org = a /\ NewMember(a, "owner").role = "owner"
    BY NewMemberTyped DEF Roles
  <1>2. Typed
    BY <1>1, NoRequestTyped, MembershipAssumption DEF Init, Typed
  <1>3. RequestsSound
    BY DEF Init, RequestsSound, NoRequest
  <1>4. FoundersOwn
    BY <1>1, MembershipAssumption DEF Init, FoundersOwn
  <1>5. EntryMatchesInvitation
    BY <1>1, MembershipAssumption DEF Init, EntryMatchesInvitation
  <1>6. QED
    BY <1>2, <1>3, <1>4, <1>5 DEF IInv

-----------------------------------------------------------------------------
(* Steps that write what others rely on.                                   *)

\* An invitation is made: its organization exists and nobody has used it.
LEMMA InviteIInv ==
    ASSUME IInv, NEW u \in Accounts, NEW i \in Invitations, NEW email \in Accounts,
           NEW role \in Roles, Invite(u, i, email, role)
    PROVE  IInv'
  <1> DEFINE row == [org |-> users[u].org, email |-> email, role |-> role,
                     status |-> "pending", by |-> Null]
  <1>1. users[u] \in User /\ users[u].org \in organizations
    BY DEF IInv, Typed, FoundersOwn, Invite, IsOwner
  <1>2. row \in Invitation /\ row # Null
    BY <1>1, MembershipAssumption DEF Invite, Invitation, User
  <1>3. /\ invitations' = [invitations EXCEPT ![i] = row] /\ invitations[i] = Null
        /\ UNCHANGED <<auth, organizations, users, req>>
    BY DEF Invite
  <1> HIDE DEF row
  <1>4. row.org = users[u].org /\ row.by = Null
    BY DEF row
  <1>5. Typed'
    BY <1>2, <1>3 DEF IInv, Typed
  <1>6. RequestsSound'
    BY <1>2, <1>3 DEF IInv, Typed, RequestsSound, AcceptSound, RevokeSound, UpdateSound
  <1>7. FoundersOwn'
    BY <1>1, <1>3, <1>4 DEF IInv, Typed, FoundersOwn
  <1>8. EntryMatchesInvitation'
    BY <1>2, <1>3, <1>4, MembershipAssumption DEF IInv, Typed, EntryMatchesInvitation
  <1>9. QED
    BY <1>5, <1>6, <1>7, <1>8 DEF IInv

\* An account goes: its row with it, its name from the invitation it used.
LEMMA DeleteAccountIInv ==
    ASSUME IInv, NEW a \in Accounts, DeleteAccount(a)
    PROVE  IInv'
  <1> DEFINE unused(i) == [invitations[i] EXCEPT !.by = Null]
  <1>1. \A i \in Invitations : invitations[i] # Null =>
            /\ unused(i) \in Invitation /\ unused(i) # Null
            /\ unused(i).org = invitations[i].org /\ unused(i).email = invitations[i].email
            /\ unused(i).by = Null
    BY MembershipAssumption DEF IInv, Typed, Invitation
  <1>2. \A i \in Invitations : invitations'[i] =
            IF invitations[i] # Null /\ invitations[i].by = a THEN unused(i) ELSE invitations[i]
    BY DEF DeleteAccount
  <1> HIDE DEF unused
  <1>3. /\ auth' = auth \ {a} /\ users' = [users EXCEPT ![a] = Null]
        /\ UNCHANGED <<organizations, req>>
    BY DEF DeleteAccount
  <1>4. invitations' \in [Invitations -> Invitation \cup {Null}]
    BY <1>1, <1>2 DEF DeleteAccount, IInv, Typed
  <1>5. Typed'
    BY <1>3, <1>4 DEF IInv, Typed
  <1>6. RequestsSound'
    BY <1>1, <1>2, <1>3 DEF IInv, Typed, RequestsSound, AcceptSound, RevokeSound, UpdateSound
  <1>7. FoundersOwn'
    BY <1>1, <1>2, <1>3 DEF IInv, Typed, FoundersOwn
  <1>8. EntryMatchesInvitation'
    BY <1>1, <1>2, <1>3 DEF IInv, Typed, EntryMatchesInvitation
  <1>9. QED
    BY <1>5, <1>6, <1>7, <1>8 DEF IInv

\* An account becomes a member where it had no row: of what it founds, or of
\* the organization of an invitation that is then its own.
LEMMA InsertedIInv ==
    ASSUME IInv, NEW a \in Accounts, Insertable(a), NEW o \in Accounts, NEW role \in Roles,
           users' = [users EXCEPT ![a] = NewMember(o, role)], Typed', RequestsSound',
           UNCHANGED auth,
           organizations \subseteq organizations' /\ organizations' \subseteq organizations \cup {a},
           o \in organizations' /\ (role = "owner" <=> o = a),
           a \in organizations' => o = a,
           \A i \in Invitations : invitations[i] = Null <=> invitations'[i] = Null,
           \A i \in Invitations : invitations[i] # Null =>
               /\ invitations'[i].org = invitations[i].org
               /\ invitations'[i].email = invitations[i].email
               /\ \/ invitations'[i].by = invitations[i].by
                  \/ /\ invitations'[i].by = a /\ invitations[i].email = a
                     /\ invitations[i].org = o,
           o # a => \E i \in Invitations : invitations[i] # Null /\ invitations'[i].by = a
                                           /\ invitations[i].org = o
    PROVE  FoundersOwn' /\ EntryMatchesInvitation'
  <1>1. NewMember(o, role) # Null /\ NewMember(o, role).org = o /\ NewMember(o, role).role = role
    BY NewMemberTyped
  <1>2. users[a] = Null /\ a \in auth
    BY DEF Insertable
  <1>3. users'[a] = NewMember(o, role) /\ \A b \in Accounts : b # a => users'[b] = users[b]
    BY DEF IInv, Typed
  <1>4. FoundersOwn'
    BY <1>1, <1>2, <1>3 DEF IInv, Typed, FoundersOwn
  <1>5. \A i \in Invitations : invitations[i] # Null => invitations[i].by # a
    BY <1>2, MembershipAssumption DEF IInv, EntryMatchesInvitation
  <1>6. \A i \in Invitations : invitations[i] # Null /\ invitations[i].by # Null
            => /\ invitations[i].email = invitations[i].by
               /\ users[invitations[i].by] # Null /\ invitations[i].by \in Accounts
               /\ users[invitations[i].by].org = invitations[i].org
    BY DEF IInv, Typed, Invitation, EntryMatchesInvitation
  <1>7. ASSUME NEW i \in Invitations, invitations'[i] # Null, invitations'[i].by # Null
        PROVE  /\ invitations'[i].email = invitations'[i].by
               /\ users'[invitations'[i].by] # Null
               /\ users'[invitations'[i].by].org = invitations'[i].org
    BY <1>1, <1>3, <1>5, <1>6, <1>7
  <1>8. ASSUME NEW b \in Accounts, users'[b] # Null, users'[b].org # b
        PROVE  \E i \in Invitations : /\ invitations'[i] # Null /\ invitations'[i].by = b
                                      /\ invitations'[i].org = users'[b].org
    <2>1. CASE b = a
      BY <1>1, <1>3, <1>8, <2>1
    <2>2. CASE b # a
      <3>1. PICK i \in Invitations : /\ invitations[i] # Null /\ invitations[i].by = b
                                     /\ invitations[i].org = users[b].org
        BY <1>3, <1>8, <2>2 DEF IInv, EntryMatchesInvitation
      <3>2. invitations[i].email # a
        BY <1>6, <2>2, <3>1, MembershipAssumption
      <3>3. QED
        BY <1>3, <2>2, <3>1, <3>2
    <2>3. QED
      BY <2>1, <2>2
  <1>9. EntryMatchesInvitation'
    BY <1>7, <1>8 DEF EntryMatchesInvitation
  <1>10. QED
    BY <1>4, <1>9

\* A sign-up writes its organization and its owner together, or neither.
LEMMA ProvisionIInv ==
    ASSUME IInv, NEW r \in Requests, Provision(r)
    PROVE  IInv'
  <1> DEFINE a == req[r].by
  <1>1. a \in Accounts
    BY DEF IInv, Provision, RequestsSound
  <1>2. /\ req' \in [Requests -> Request] /\ req'[r].kind = "done"
        /\ \A q \in Requests : q # r => req'[q] = req[q]
    BY Finished DEF IInv, Provision
  <1>3. CASE Insertable(a)
    <2>1. /\ users' = [users EXCEPT ![a] = NewMember(a, "owner")]
          /\ organizations' = organizations \cup {a}
          /\ UNCHANGED <<auth, invitations>>
      BY <1>3 DEF Provision, Founded
    <2>2. NewMember(a, "owner") \in User /\ "owner" \in Roles
          /\ NewMember(a, "owner").role = "owner"
      BY <1>1, NewMemberTyped DEF Roles
    <2>3. Typed'
      BY <1>1, <1>2, <2>1, <2>2 DEF IInv, Typed
    <2>4. a \in auth
      BY <1>3 DEF Insertable
    <2> HIDE DEF a
    <2>5. RequestsSound'
      <3>1. ASSUME NEW q \in Requests, req'[q].kind = "update"
            PROVE  UpdateSound(q)'
        <4>1. q # r /\ UpdateSound(q) /\ req'[q] = req[q]
          BY <1>2, <3>1 DEF IInv, RequestsSound
        <4>2. req[q].member # a
          BY <1>3, <2>4, <4>1 DEF UpdateSound, Insertable
        <4>3. QED
          BY <2>1, <4>1, <4>2 DEF IInv, Typed, UpdateSound
      <3>2. QED
        BY <1>2, <2>1, <3>1 DEF IInv, RequestsSound, AcceptSound, RevokeSound
    <2>6. FoundersOwn' /\ EntryMatchesInvitation'
      BY <1>1, <1>3, <2>1, <2>2, <2>3, <2>5, InsertedIInv
    <2>7. QED
      BY <2>3, <2>5, <2>6 DEF IInv
  <1>4. CASE ~Insertable(a)
    <2>1. UNCHANGED <<auth, organizations, users, invitations>>
      BY <1>4 DEF Provision, Founded
    <2>2. QED
      BY <1>2, <2>1 DEF IInv, Typed, RequestsSound, AcceptSound, RevokeSound, UpdateSound,
                        FoundersOwn, EntryMatchesInvitation
  <1>5. QED
    BY <1>3, <1>4

\* An acceptance writes the member and the invitation together, or neither.
LEMMA AcceptIInv ==
    ASSUME IInv, NEW r \in Requests, Accept(r)
    PROVE  IInv'
  <1> DEFINE a == req[r].by
             i == req[r].invitation
             o == req[r].seen.org
             role == req[r].seen.role
             used == [invitations[i] EXCEPT !.status = "accepted", !.by = a]
  <1>1. AcceptSound(r)
    BY DEF IInv, Accept, RequestsSound
  <1>2. /\ a \in Accounts /\ i \in Invitations /\ o \in Accounts
        /\ role \in Roles /\ role # "owner"
        /\ invitations[i] \in Invitation /\ invitations[i] # Null
        /\ invitations[i].email = a /\ invitations[i].org = o
    BY <1>1 DEF AcceptSound, IInv, Typed, Invitation, Invitable
  <1>3. /\ req' \in [Requests -> Request] /\ req'[r].kind = "done"
        /\ \A q \in Requests : q # r => req'[q] = req[q]
    BY Finished DEF IInv, Accept
  <1>4. CASE Insertable(a)
    <2>1. /\ users' = [users EXCEPT ![a] = NewMember(o, role)]
          /\ invitations' = [invitations EXCEPT ![i] = used]
          /\ UNCHANGED <<auth, organizations>>
      <3>1. invitations' = [invitations EXCEPT ![i].status = "accepted", ![i].by = a]
        BY <1>4 DEF Accept, Used
      <3>2. [invitations EXCEPT ![i].status = "accepted", ![i].by = a]
            = [invitations EXCEPT ![i] = used]
        BY <1>2 DEF IInv, Typed, Invitation
      <3>3. QED
        BY <1>4, <3>1, <3>2 DEF Accept
    <2>2. /\ used \in Invitation /\ used # Null /\ used.email = a /\ used.org = o
          /\ used.by = a
      BY <1>2, MembershipAssumption DEF Invitation
    <2>3. NewMember(o, role) \in User
      BY <1>2, NewMemberTyped
    <2>4. a \in auth /\ users[a] = Null
      BY <1>4 DEF Insertable
    <2> HIDE DEF a, i, o, role, used
    <2>5. Typed'
      BY <1>2, <1>3, <2>1, <2>2, <2>3 DEF IInv, Typed
    <2>6. RequestsSound'
      <3>1. ASSUME NEW q \in Requests, req'[q].kind = "update"
            PROVE  UpdateSound(q)'
        <4>1. q # r /\ UpdateSound(q) /\ req'[q] = req[q]
          BY <1>3, <3>1 DEF IInv, RequestsSound
        <4>2. req[q].member # a
          BY <2>4, <4>1 DEF UpdateSound
        <4>3. QED
          BY <2>1, <4>1, <4>2 DEF IInv, Typed, UpdateSound
      <3>2. ASSUME NEW q \in Requests, req'[q].kind = "accept"
            PROVE  AcceptSound(q)'
        <4>1. q # r /\ AcceptSound(q) /\ req'[q] = req[q]
          BY <1>3, <3>2 DEF IInv, RequestsSound
        <4>2. QED
          BY <1>2, <2>1, <2>2, <4>1 DEF IInv, Typed, AcceptSound
      <3>3. QED
        BY <1>2, <1>3, <2>1, <2>2, <3>1, <3>2 DEF IInv, Typed, RequestsSound, RevokeSound
    <2>7. a \notin organizations
      BY <2>4, <1>2 DEF IInv, Typed, FoundersOwn
    <2>8. o \in organizations /\ o # a
      BY <1>2, <2>7 DEF IInv, FoundersOwn
    <2>9. FoundersOwn' /\ EntryMatchesInvitation'
      <3>1. \A j \in Invitations : j # i => invitations'[j] = invitations[j]
        BY <2>1 DEF IInv, Typed
      <3>2. invitations'[i] = used
        BY <1>2, <2>1 DEF IInv, Typed
      <3>3. \A j \in Invitations : invitations[j] = Null <=> invitations'[j] = Null
        BY <1>2, <2>2, <3>1, <3>2
      <3>4. \A j \in Invitations : invitations[j] # Null =>
               /\ invitations'[j].org = invitations[j].org
               /\ invitations'[j].email = invitations[j].email
               /\ \/ invitations'[j].by = invitations[j].by
                  \/ /\ invitations'[j].by = a /\ invitations[j].email = a
                     /\ invitations[j].org = o
        BY <1>2, <2>2, <3>1, <3>2
      <3>5. \E j \in Invitations : invitations[j] # Null /\ invitations'[j].by = a
                                           /\ invitations[j].org = o
        BY <1>2, <2>2, <3>2
      <3>6. QED
        BY <1>2, <1>4, <2>1, <2>5, <2>6, <2>7, <2>8, <3>3, <3>4, <3>5, InsertedIInv
    <2>10. QED
      BY <2>5, <2>6, <2>9 DEF IInv
  <1>5. CASE ~Insertable(a)
    <2>1. UNCHANGED <<auth, organizations, users, invitations>>
      BY <1>5 DEF Accept, Used
    <2>2. QED
      BY <1>3, <2>1 DEF IInv, Typed, RequestsSound, AcceptSound, RevokeSound, UpdateSound,
                        FoundersOwn, EntryMatchesInvitation
  <1>6. QED
    BY <1>4, <1>5

\* A revocation changes the status of an invitation and nothing else of it.
LEMMA RevokeIInv ==
    ASSUME IInv, NEW r \in Requests, Revoke(r)
    PROVE  IInv'
  <1> DEFINE i == req[r].invitation
             revoked == [invitations[i] EXCEPT !.status = "revoked"]
  <1>1. i \in Invitations /\ invitations[i] # Null /\ invitations[i] \in Invitation
    BY DEF IInv, Typed, Revoke, RequestsSound, RevokeSound
  <1>2. /\ revoked \in Invitation /\ revoked # Null /\ revoked.email = invitations[i].email
        /\ revoked.org = invitations[i].org /\ revoked.by = invitations[i].by
    BY <1>1, MembershipAssumption DEF Invitation
  <1>3. /\ req' \in [Requests -> Request] /\ req'[r].kind = "done"
        /\ \A q \in Requests : q # r => req'[q] = req[q]
    BY Finished DEF IInv, Revoke
  <1>4. /\ invitations' = [invitations EXCEPT ![i] = revoked]
        /\ UNCHANGED <<auth, organizations, users>>
    BY DEF Revoke
  <1> HIDE DEF i, revoked
  <1>5. Typed'
    BY <1>1, <1>2, <1>3, <1>4 DEF IInv, Typed
  <1>6. RequestsSound'
    <2>1. ASSUME NEW q \in Requests, req'[q].kind = "accept"
          PROVE  AcceptSound(q)'
      <3>1. q # r /\ AcceptSound(q) /\ req'[q] = req[q]
        BY <1>3, <2>1 DEF IInv, RequestsSound
      <3>2. QED
        BY <1>1, <1>2, <1>4, <3>1 DEF IInv, Typed, AcceptSound
    <2>2. QED
      BY <1>1, <1>2, <1>3, <1>4, <2>1 DEF IInv, Typed, RequestsSound, RevokeSound, UpdateSound
  <1>7. FoundersOwn'
    BY <1>1, <1>2, <1>4 DEF IInv, Typed, FoundersOwn
  <1>8. EntryMatchesInvitation'
    BY <1>1, <1>2, <1>4 DEF IInv, Typed, EntryMatchesInvitation
  <1>9. QED
    BY <1>5, <1>6, <1>7, <1>8 DEF IInv

\* The row an update leaves is a row of the same organization, and no owner's.
LEMMA RewrittenIsRow ==
    ASSUME IInv, NEW r \in Requests, UpdateSound(r), users[req[r].member] # Null
    PROVE  /\ Rewritten(r, users[req[r].member]) \in User
           /\ Rewritten(r, users[req[r].member]).role # "owner"
           /\ Rewritten(r, users[req[r].member]).org = users[req[r].member].org
  <1> DEFINE m == req[r].member
             given == req[r].update
             role == IF "role" \in Changes(r) THEN given.role ELSE users[m].role
             active == IF "active" \in Changes(r) THEN given.active ELSE users[m].active
             since == IF "active" \in Changes(r) THEN Stamp(given.active, users[m].deactivated)
                      ELSE users[m].deactivated
             row == Rewritten(r, users[m])
  <1>1. m \in Accounts /\ given \in Update /\ given.role # "owner"
    BY DEF UpdateSound
  <1>2. users[m] \in User /\ users[m].role # "owner"
    BY <1>1 DEF IInv, Typed, UpdateSound
  <1>3. "role" \in Changes(r) => given.role \in Roles
    BY <1>1 DEF Changes, Update
  <1>4. "active" \in Changes(r) => given.active \in BOOLEAN
    BY <1>1 DEF Changes, Update
  <1>5. role \in Roles /\ role # "owner"
    BY <1>1, <1>2, <1>3 DEF User
  <1>6. active \in BOOLEAN /\ since \in BOOLEAN
    <2>1. users[m].active \in BOOLEAN /\ users[m].deactivated \in BOOLEAN
      BY <1>2 DEF User
    <2>2. CASE "active" \in Changes(r)
      BY <1>4, <2>2 DEF Stamp
    <2>3. CASE "active" \notin Changes(r)
      BY <2>1, <2>3
    <2>4. QED
      BY <2>2, <2>3
  <1>7. row = [users[m] EXCEPT !.role = role, !.active = active, !.deactivated = since]
    BY DEF Rewritten
  <1>8. row \in User /\ row.role # "owner" /\ row.org = users[m].org
    <2> HIDE DEF row, role, active, since
    <2>1. QED
      BY <1>2, <1>5, <1>6, <1>7 DEF User
  <1>9. QED
    BY <1>8

\* A change of access leaves a member in its organization, and no owner in it.
LEMMA UpdateMemberIInv ==
    ASSUME IInv, NEW r \in Requests, UpdateMember(r)
    PROVE  IInv'
  <1> DEFINE m == req[r].member
             row == Rewritten(r, users[m])
  <1>1. UpdateSound(r)
    BY DEF IInv, UpdateMember, RequestsSound
  <1>2. m \in Accounts /\ req[r].update \in Update
    BY <1>1 DEF UpdateSound
  <1>3. /\ req' \in [Requests -> Request] /\ req'[r].kind = "done"
        /\ \A q \in Requests : q # r => req'[q] = req[q]
    BY Finished DEF IInv, UpdateMember
  <1>4. CASE users[m] # Null
    <2>1. users[m] \in User /\ users[m].role # "owner"
      BY <1>1, <1>2, <1>4 DEF IInv, Typed, UpdateSound
    <2>2. /\ users' = [users EXCEPT ![m] = row]
          /\ UNCHANGED <<auth, organizations, invitations>>
      BY <1>4 DEF UpdateMember
    <2>3. row \in User /\ row.role # "owner" /\ row.org = users[m].org
      BY <1>1, <1>4, RewrittenIsRow
    <2>4. row # Null
      BY <2>3, MembershipAssumption
    <2> HIDE DEF row, m
    <2>5. Typed'
      BY <1>2, <1>3, <2>2, <2>3 DEF IInv, Typed
    <2>6. RequestsSound'
      <3>1. ASSUME NEW q \in Requests, req'[q].kind = "update"
            PROVE  UpdateSound(q)'
        <4>1. q # r /\ UpdateSound(q) /\ req'[q] = req[q]
          BY <1>3, <3>1 DEF IInv, RequestsSound
        <4>2. QED
          BY <1>2, <2>2, <2>3, <2>4, <4>1 DEF IInv, Typed, UpdateSound
      <3>2. QED
        BY <1>3, <2>2, <3>1 DEF IInv, RequestsSound, AcceptSound, RevokeSound
    <2>7. FoundersOwn'
      BY <1>2, <1>4, <2>1, <2>2, <2>3, <2>4 DEF IInv, Typed, FoundersOwn
    <2>8. EntryMatchesInvitation'
      BY <1>2, <1>4, <2>2, <2>3, <2>4 DEF IInv, Typed, Invitation, EntryMatchesInvitation
    <2>9. QED
      BY <2>5, <2>6, <2>7, <2>8 DEF IInv
  <1>5. CASE users[m] = Null
    <2>1. UNCHANGED <<auth, organizations, users, invitations>>
      BY <1>5 DEF UpdateMember
    <2>2. QED
      BY <1>3, <2>1 DEF IInv, Typed, RequestsSound, AcceptSound, RevokeSound, UpdateSound,
                        FoundersOwn, EntryMatchesInvitation
  <1>6. QED
    BY <1>4, <1>5

-----------------------------------------------------------------------------
(* Steps that only begin or lose a request.                                *)

\* A request under way changes nothing for the others; what it will rely on
\* holds when it begins.
LEMMA RequestIInv ==
    ASSUME IInv, NEW r \in Requests, req' \in [Requests -> Request],
           \A q \in Requests : q # r => req'[q] = req[q],
           UNCHANGED <<auth, organizations, users, invitations>>,
           /\ req'[r].kind = "provision" => req'[r].by \in Accounts
           /\ req'[r].kind = "accept" => AcceptSound(r)'
           /\ req'[r].kind = "revoke" => RevokeSound(r)'
           /\ req'[r].kind = "update" => UpdateSound(r)'
    PROVE  IInv'
  <1>1. Typed'
    BY DEF IInv, Typed
  <1>2. ASSUME NEW q \in Requests, q # r
        PROVE  /\ req'[q].kind = "provision" => req'[q].by \in Accounts
               /\ req'[q].kind = "accept" => AcceptSound(q)'
               /\ req'[q].kind = "revoke" => RevokeSound(q)'
               /\ req'[q].kind = "update" => UpdateSound(q)'
    BY <1>2 DEF IInv, RequestsSound, AcceptSound, RevokeSound, UpdateSound
  <1>3. RequestsSound'
    BY <1>2 DEF RequestsSound
  <1>4. FoundersOwn' /\ EntryMatchesInvitation'
    BY DEF IInv, FoundersOwn, EntryMatchesInvitation
  <1>5. QED
    BY <1>1, <1>3, <1>4 DEF IInv

\* A sign-up begins.
LEMMA BeginProvisionIInv ==
    ASSUME IInv, NEW r \in Requests, NEW a \in Accounts, BeginProvision(r, a)
    PROVE  IInv'
  <1> DEFINE new == [NoRequest EXCEPT !.kind = "provision", !.by = a]
  <1>1. new \in Request /\ new.kind = "provision" /\ new.by = a
    BY DEF NoRequest, Request, Kinds
  <1>2. Begin(r, new) /\ UNCHANGED <<auth, organizations, users, invitations>>
    BY DEF BeginProvision
  <1> HIDE DEF new
  <1>3. QED
    BY <1>1, <1>2, Begun, RequestIInv DEF IInv

\* An acceptance begins: the invitation is addressed to the account.
LEMMA BeginAcceptIInv ==
    ASSUME IInv, NEW r \in Requests, NEW a \in Accounts, NEW i \in Invitations,
           BeginAccept(r, a, i)
    PROVE  IInv'
  <1> DEFINE new == [NoRequest EXCEPT !.kind = "accept", !.by = a, !.invitation = i,
                                      !.seen = invitations[i]]
  <1>1. /\ invitations[i] # Null /\ invitations[i] \in Invitation
        /\ invitations[i].email = a
    BY DEF IInv, Typed, BeginAccept, Valid
  <1>2. new \in Request /\ new.kind = "accept" /\ new.by = a /\ new.invitation = i
        /\ new.seen = invitations[i]
    BY <1>1 DEF NoRequest, Request, Kinds
  <1>3. Begin(r, new) /\ UNCHANGED <<auth, organizations, users, invitations>>
    BY DEF BeginAccept
  <1> HIDE DEF new
  <1>4. req' \in [Requests -> Request] /\ req'[r] = new
        /\ \A q \in Requests : q # r => req'[q] = req[q]
    BY <1>2, <1>3, Begun DEF IInv
  <1>5. AcceptSound(r)'
    BY <1>1, <1>2, <1>3, <1>4 DEF AcceptSound
  <1>6. QED
    BY <1>2, <1>3, <1>4, <1>5, RequestIInv

\* A revocation begins: the invitation is there.
LEMMA BeginRevokeIInv ==
    ASSUME IInv, NEW r \in Requests, NEW u \in Accounts, NEW i \in Invitations,
           BeginRevoke(r, u, i)
    PROVE  IInv'
  <1> DEFINE new == [NoRequest EXCEPT !.kind = "revoke", !.by = u, !.invitation = i]
  <1>1. new \in Request /\ new.kind = "revoke" /\ new.invitation = i
    BY DEF NoRequest, Request, Kinds
  <1>2. /\ Begin(r, new) /\ UNCHANGED <<auth, organizations, users, invitations>>
        /\ invitations[i] # Null
    BY DEF BeginRevoke
  <1> HIDE DEF new
  <1>3. req' \in [Requests -> Request] /\ req'[r] = new
        /\ \A q \in Requests : q # r => req'[q] = req[q]
    BY <1>1, <1>2, Begun DEF IInv
  <1>4. RevokeSound(r)'
    BY <1>1, <1>2, <1>3 DEF RevokeSound
  <1>5. QED
    BY <1>1, <1>2, <1>3, <1>4, RequestIInv

\* A change of access begins: of a member who is no owner, to no owner.
LEMMA BeginUpdateIInv ==
    ASSUME IInv, NEW r \in Requests, NEW u \in Accounts, NEW m \in Accounts,
           NEW update \in Update, BeginUpdate(r, u, m, update)
    PROVE  IInv'
  <1> DEFINE new == [NoRequest EXCEPT !.kind = "update", !.by = u, !.member = m,
                                      !.update = update, !.seen = users[m]]
  <1>1. users[m] # Null /\ users[m] \in User /\ users[m].role # "owner"
        /\ update.role # "owner"
    BY DEF IInv, Typed, BeginUpdate, MayChange
  <1>2. new \in Request /\ new.kind = "update" /\ new.member = m /\ new.update = update
    BY <1>1 DEF NoRequest, Request, Kinds
  <1>3. Begin(r, new) /\ UNCHANGED <<auth, organizations, users, invitations>>
    BY DEF BeginUpdate
  <1> HIDE DEF new
  <1>4. req' \in [Requests -> Request] /\ req'[r] = new
        /\ \A q \in Requests : q # r => req'[q] = req[q]
    BY <1>2, <1>3, Begun DEF IInv
  <1>5. UpdateSound(r)'
    BY <1>1, <1>2, <1>3, <1>4 DEF UpdateSound
  <1>6. QED
    BY <1>2, <1>3, <1>4, <1>5, RequestIInv

-----------------------------------------------------------------------------
(* The invariant.                                                          *)

\* Every step keeps it.
LEMMA NextIInv == IInv /\ [Next]_vars => IInv'
  <1> SUFFICES ASSUME IInv, [Next]_vars PROVE IInv'
    OBVIOUS
  <1>1. ASSUME NEW u \in Accounts, NEW a \in Accounts, NEW i \in Invitations,
               NEW role \in Roles, Invite(u, i, a, role)
        PROVE  IInv'
    BY <1>1, InviteIInv
  <1>2. ASSUME NEW i \in Invitations, Expire(i) PROVE IInv'
    BY <1>2 DEF Expire, IInv, Typed, RequestsSound, AcceptSound, RevokeSound, UpdateSound,
                FoundersOwn, EntryMatchesInvitation
  <1>3. ASSUME NEW a \in Accounts, DeleteAccount(a) PROVE IInv'
    BY <1>3, DeleteAccountIInv
  <1>4. ASSUME NEW r \in Requests, NEW a \in Accounts, BeginProvision(r, a) PROVE IInv'
    BY <1>4, BeginProvisionIInv
  <1>5. ASSUME NEW r \in Requests, NEW a \in Accounts, NEW i \in Invitations,
               BeginAccept(r, a, i)
        PROVE  IInv'
    BY <1>5, BeginAcceptIInv
  <1>6. ASSUME NEW r \in Requests, NEW a \in Accounts, NEW i \in Invitations,
               BeginRevoke(r, a, i)
        PROVE  IInv'
    BY <1>6, BeginRevokeIInv
  <1>7. ASSUME NEW r \in Requests, NEW a \in Accounts, NEW m \in Accounts, NEW u \in Update,
               BeginUpdate(r, a, m, u)
        PROVE  IInv'
    BY <1>7, BeginUpdateIInv
  <1>8. ASSUME NEW r \in Requests, Provision(r) PROVE IInv'
    BY <1>8, ProvisionIInv
  <1>9. ASSUME NEW r \in Requests, Accept(r) PROVE IInv'
    BY <1>9, AcceptIInv
  <1>10. ASSUME NEW r \in Requests, Revoke(r) PROVE IInv'
    BY <1>10, RevokeIInv
  <1>11. ASSUME NEW r \in Requests, UpdateMember(r) PROVE IInv'
    BY <1>11, UpdateMemberIInv
  <1>12. ASSUME NEW r \in Requests, Lose(r) PROVE IInv'
    <2>1. Finish(r) /\ UNCHANGED <<auth, organizations, users, invitations>>
      BY <1>12 DEF Lose
    <2>2. QED
      BY <2>1, Finished, RequestIInv DEF IInv
  <1>13. CASE UNCHANGED vars
    BY <1>13 DEF vars, IInv, Typed, RequestsSound, AcceptSound, RevokeSound, UpdateSound,
                 FoundersOwn, EntryMatchesInvitation
  <1>14. QED
    BY <1>1, <1>2, <1>3, <1>4, <1>5, <1>6, <1>7, <1>8, <1>9, <1>10, <1>11, <1>12, <1>13
    DEF Next

\* No organization is left without its founder and nobody else ever owns one,
\* whatever signs up, accepts, is revoked or changed at once.
THEOREM Owned == Spec => []OrganizationsOwned
  <1>1. IInv => OrganizationsOwned
    <2> SUFFICES ASSUME IInv PROVE OrganizationsOwned
      OBVIOUS
    <2>1. ASSUME NEW o \in organizations, o \in auth PROVE Owners(o) = {o}
      <3>1. o \in Accounts /\ users[o] # Null /\ users[o].org = o
        BY <2>1 DEF IInv, Typed, FoundersOwn
      <3>2. \A a \in Accounts : a \in Owners(o) <=> a = o
        BY <3>1 DEF IInv, FoundersOwn, Owners
      <3>3. QED
        BY <3>1, <3>2 DEF Owners
    <2>2. QED
      BY <2>1 DEF IInv, FoundersOwn, OrganizationsOwned
  <1>2. QED
    BY <1>1, InitIInv, NextIInv, PTL DEF Spec

\* Who did not found its organization came by an invitation to it, and an
\* invitation that names an account brought it in: nobody belongs elsewhere
\* than the invitation it used says.
THEOREM Entered == Spec => []EntryMatchesInvitation
  <1>1. IInv => EntryMatchesInvitation
    BY DEF IInv
  <1>2. QED
    BY <1>1, InitIInv, NextIInv, PTL DEF Spec

-----------------------------------------------------------------------------
(* The rows implement the roster.                                          *)

\* A step that keeps who has a row, where and as what, and every invitation's
\* addressee and organization, is none of the roster's.
LEMMA RosterStutter ==
    ASSUME UNCHANGED <<auth, organizations>>,
           \A a \in Accounts : /\ users'[a] = Null <=> users[a] = Null
                               /\ users[a] # Null => users'[a].org = users[a].org
                               /\ users[a] # Null => (users'[a].role = "owner"
                                                      <=> users[a].role = "owner"),
           \A i \in Invitations : /\ invitations'[i] = Null <=> invitations[i] = Null
                                  /\ invitations[i] # Null =>
                                        /\ invitations'[i].org = invitations[i].org
                                        /\ invitations'[i].email = invitations[i].email
    PROVE  UNCHANGED AbstractRoster!vars
  <1>1. Rows' = Rows /\ Codes' = Codes
    BY DEF Rows, Codes
  <1>2. Invited' = Invited
    BY <1>1 DEF Invited, Codes
  <1>3. Members' = Members /\ OwnerRows' = OwnerRows
    BY <1>1 DEF Members, OwnerRows, Rows
  <1>4. QED
    BY <1>2, <1>3 DEF AbstractRoster!vars

\* The pairs of an invitation that is already there are kept.
LEMMA InvitedKept ==
    ASSUME \A i \in Invitations : /\ invitations'[i] = Null <=> invitations[i] = Null
                                  /\ invitations[i] # Null =>
                                        /\ invitations'[i].org = invitations[i].org
                                        /\ invitations'[i].email = invitations[i].email
    PROVE  Invited' = Invited
  <1>1. Codes' = Codes
    BY DEF Codes
  <1>2. QED
    BY <1>1 DEF Invited, Codes

\* A row inserted where there was none is one more member, and one more owner
\* exactly when it is the founder's.
LEMMA RosterInserted ==
    ASSUME Typed, NEW a \in Accounts, Insertable(a), NEW o \in Accounts, NEW role \in Roles,
           users' = [users EXCEPT ![a] = NewMember(o, role)]
    PROVE  /\ Members' = Members \cup {<<a, o>>}
           /\ role = "owner" => OwnerRows' = OwnerRows \cup {a}
           /\ role # "owner" => OwnerRows' = OwnerRows
           /\ AbstractRoster!Free(a)
  <1>1. PICK n : n = NewMember(o, role)
    OBVIOUS
  <1>2. n # Null /\ n.org = o /\ n.role = role
    BY <1>1, NewMemberTyped
  <1>3. users'[a] = n /\ \A b \in Accounts : b # a => users'[b] = users[b]
    BY <1>1 DEF Typed
  <1>4. users[a] = Null /\ a \in auth
    BY DEF Insertable
  <1>5. Rows' = Rows \cup {a} /\ a \notin Rows
    BY <1>2, <1>3, <1>4 DEF Rows
  <1>6. Members' = Members \cup {<<a, o>>}
    BY <1>2, <1>3, <1>5 DEF Members, Rows
  <1>7. /\ role = "owner" => OwnerRows' = OwnerRows \cup {a}
        /\ role # "owner" => OwnerRows' = OwnerRows
    BY <1>2, <1>3, <1>5 DEF OwnerRows, Rows
  <1>8. \A p \in Accounts : <<a, p>> \notin Members
    BY <1>5 DEF Members
  <1>9. QED
    BY <1>4, <1>6, <1>7, <1>8 DEF AbstractRoster!Free

\* Initially the roster has the founders.
LEMMA RosterInit == Init => AbstractRoster!Init
  <1> SUFFICES ASSUME Init PROVE AbstractRoster!Init
    OBVIOUS
  <1>1. \A a \in Accounts : IF a \in Founders
                            THEN users[a] # Null /\ users[a].org = a /\ users[a].role = "owner"
                            ELSE users[a] = Null
    BY NewMemberTyped DEF Init, Roles
  <1>2. Rows = Founders
    BY <1>1, MembershipAssumption DEF Rows
  <1>3. Members = {<<a, a>> : a \in Founders} /\ OwnerRows = Founders
    BY <1>1, <1>2, MembershipAssumption DEF Members, OwnerRows
  <1>4. Codes = {}
    BY DEF Init, Codes
  <1>5. Invited = {}
    BY <1>4 DEF Invited
  <1>6. QED
    BY <1>3, <1>5 DEF Init, AbstractRoster!Init

\* An owner invites to the organization it founded.
LEMMA RosterInvite ==
    ASSUME IInv, NEW u \in Accounts, NEW i \in Invitations, NEW email \in Accounts,
           NEW role \in Roles, Invite(u, i, email, role)
    PROVE  AbstractRoster!Invite(u, email)
  <1>1. PICK row : row = [org |-> users[u].org, email |-> email, role |-> role,
                          status |-> "pending", by |-> Null]
    OBVIOUS
  <1>2. users[u] \in User /\ users[u] # Null /\ users[u].role = "owner" /\ users[u].org = u
        /\ u \in organizations
    BY DEF IInv, Typed, FoundersOwn, Invite, IsOwner
  <1>3. row.org = u /\ row.email = email /\ row # Null
    <2>1. row \in Invitation
      BY <1>1, <1>2 DEF Invite, Invitation, User
    <2>2. QED
      BY <1>1, <1>2, <2>1, MembershipAssumption
  <1>4. /\ invitations'[i] = row /\ invitations[i] = Null
        /\ \A j \in Invitations : j # i => invitations'[j] = invitations[j]
        /\ UNCHANGED <<auth, organizations, users>>
    BY <1>1 DEF Invite, IInv, Typed
  <1>5. Codes' = Codes \cup {i} /\ i \notin Codes
    BY <1>3, <1>4 DEF Codes
  <1>6. Invited' = Invited \cup {<<email, u>>}
    BY <1>3, <1>4, <1>5 DEF Invited, Codes
  <1>7. Members' = Members /\ OwnerRows' = OwnerRows /\ u \in OwnerRows
    BY <1>2, <1>4 DEF Members, OwnerRows, Rows
  <1>8. QED
    BY <1>2, <1>4, <1>6, <1>7 DEF AbstractRoster!Invite

\* A sign-up founds, or comes to nothing.
LEMMA RosterProvision ==
    ASSUME IInv, NEW r \in Requests, Provision(r)
    PROVE  AbstractRoster!Found(req[r].by) \/ UNCHANGED AbstractRoster!vars
  <1>1. PICK a \in Accounts : a = req[r].by
    BY DEF IInv, RequestsSound, Provision
  <1>2. CASE Insertable(a)
    <2>1. /\ users' = [users EXCEPT ![a] = NewMember(a, "owner")]
          /\ organizations' = organizations \cup {a}
          /\ UNCHANGED <<auth, invitations>>
      BY <1>1, <1>2 DEF Provision, Founded
    <2>2. /\ Members' = Members \cup {<<a, a>>} /\ OwnerRows' = OwnerRows \cup {a}
          /\ AbstractRoster!Free(a)
      <3>1. "owner" \in Roles
        BY DEF Roles
      <3>2. QED
        BY <1>2, <2>1, <3>1, RosterInserted DEF IInv
    <2>3. Invited' = Invited
      BY <2>1, InvitedKept
    <2>4. QED
      BY <1>1, <2>1, <2>2, <2>3 DEF AbstractRoster!Found
  <1>3. CASE ~Insertable(a)
    BY <1>1, <1>3, RosterStutter DEF Provision, Founded
  <1>4. QED
    BY <1>2, <1>3

\* An acceptance joins the organization the invitation is to, or comes to
\* nothing.
LEMMA RosterAccept ==
    ASSUME IInv, NEW r \in Requests, Accept(r)
    PROVE  \/ AbstractRoster!Join(req[r].by, req[r].seen.org)
           \/ UNCHANGED AbstractRoster!vars
  <1>1. AcceptSound(r)
    BY DEF IInv, Accept, RequestsSound
  <1>2. /\ req[r].seen.org \in Accounts /\ req[r].seen.role \in Roles \ {"owner"}
        /\ req[r].by \in Accounts /\ req[r].invitation \in Invitations
    BY <1>1 DEF AcceptSound, Invitation, Invitable
  <1>3. PICK a \in Accounts, i \in Invitations, o \in Accounts, role \in Roles :
            /\ a = req[r].by /\ i = req[r].invitation
            /\ o = req[r].seen.org /\ role = req[r].seen.role /\ role # "owner"
            /\ invitations[i] \in Invitation /\ invitations[i] # Null
            /\ invitations[i].email = a /\ invitations[i].org = o
    BY <1>1, <1>2 DEF AcceptSound, IInv, Typed
  <1>4. CASE Insertable(a)
    <2>1. /\ users' = [users EXCEPT ![a] = NewMember(o, role)]
          /\ invitations' = [invitations EXCEPT ![i].status = "accepted", ![i].by = a]
          /\ UNCHANGED <<auth, organizations>>
      BY <1>3, <1>4 DEF Accept, Used
    <2>2. PICK used : used = [invitations[i] EXCEPT !.status = "accepted", !.by = a]
      OBVIOUS
    <2>3. used \in Invitation /\ used.email = a /\ used.org = o
      BY <1>3, <2>2 DEF Invitation
    <2>4. used # Null
      BY <2>3, MembershipAssumption
    <2>5. invitations'[i] = used
          /\ \A j \in Invitations : j # i => invitations'[j] = invitations[j]
      BY <1>3, <2>1, <2>2 DEF IInv, Typed, Invitation
    <2>6. Invited' = Invited
      BY <1>3, <2>3, <2>4, <2>5, InvitedKept
    <2>7. <<a, o>> \in Invited
      BY <1>3 DEF Invited, Codes
    <2>8. /\ Members' = Members \cup {<<a, o>>} /\ OwnerRows' = OwnerRows
          /\ AbstractRoster!Free(a)
      <3>1. Typed /\ role \in Roles /\ role # "owner" /\ o \in Accounts /\ a \in Accounts
        BY <1>3 DEF IInv
      <3>2. users' = [users EXCEPT ![a] = NewMember(o, role)]
        BY <2>1
      <3>3. /\ Members' = Members \cup {<<a, o>>} /\ AbstractRoster!Free(a)
            /\ role # "owner" => OwnerRows' = OwnerRows
        BY <1>4, <3>1, <3>2, RosterInserted
      <3>4. QED
        BY <3>1, <3>3
    <2>9. AbstractRoster!Join(a, o)
      BY <2>1, <2>6, <2>7, <2>8 DEF AbstractRoster!Join
    <2>10. QED
      BY <1>3, <2>9
  <1>5. CASE ~Insertable(a)
    BY <1>3, <1>5, RosterStutter DEF Accept, Used
  <1>6. QED
    BY <1>4, <1>5

\* A change of access moves nobody and makes nobody an owner.
LEMMA RosterUpdate ==
    ASSUME IInv, NEW r \in Requests, UpdateMember(r)
    PROVE  UNCHANGED AbstractRoster!vars
  <1>1. UpdateSound(r)
    BY DEF IInv, UpdateMember, RequestsSound
  <1>2. PICK m \in Accounts : m = req[r].member
    BY <1>1 DEF UpdateSound
  <1>3. CASE users[m] = Null
    BY <1>2, <1>3, RosterStutter DEF UpdateMember
  <1>4. CASE users[m] # Null
    <2>1. PICK row : row = Rewritten(r, users[m])
      OBVIOUS
    <2>2. /\ users'[m] = row /\ \A a \in Accounts : a # m => users'[a] = users[a]
          /\ UNCHANGED <<auth, organizations, invitations>>
      BY <1>2, <1>4, <2>1 DEF UpdateMember, IInv, Typed
    <2>3. users[m].role # "owner"
      BY <1>1, <1>2, <1>4 DEF UpdateSound
    <2>4. row.org = users[m].org /\ row.role # "owner"
      BY <1>1, <1>2, <1>4, <2>1, RewrittenIsRow
    <2>5. row # Null
      BY <1>1, <1>2, <1>4, <2>1, RewrittenIsRow, MembershipAssumption
    <2>6. QED
      BY <1>4, <2>2, <2>3, <2>4, <2>5, RosterStutter
  <1>5. QED
    BY <1>3, <1>4

\* An account that goes leaves, and is in no organization afterwards.
LEMMA RosterLeave ==
    ASSUME IInv, NEW a \in Accounts, DeleteAccount(a)
    PROVE  AbstractRoster!Leave(a)
  <1>1. /\ a \in auth /\ auth' = auth \ {a} /\ organizations' = organizations
        /\ users'[a] = Null /\ \A b \in Accounts : b # a => users'[b] = users[b]
    BY DEF DeleteAccount, IInv, Typed
  <1>2. \A i \in Invitations :
            /\ invitations'[i] = Null <=> invitations[i] = Null
            /\ invitations[i] # Null => /\ invitations'[i].org = invitations[i].org
                                        /\ invitations'[i].email = invitations[i].email
    <2>1. ASSUME NEW i \in Invitations, invitations[i] # Null
          PROVE  /\ [invitations[i] EXCEPT !.by = Null] \in Invitation
                 /\ [invitations[i] EXCEPT !.by = Null].org = invitations[i].org
                 /\ [invitations[i] EXCEPT !.by = Null].email = invitations[i].email
      BY <2>1 DEF IInv, Typed, Invitation
    <2>2. QED
      BY <2>1, MembershipAssumption DEF DeleteAccount
  <1>3. Invited' = Invited
    BY <1>2, InvitedKept
  <1>4. Rows' = Rows \ {a}
    BY <1>1 DEF Rows
  <1>5. OwnerRows' = OwnerRows \ {a}
    BY <1>1, <1>4 DEF OwnerRows, Rows
  <1>6. \A b \in Rows : users[b].org \in Accounts
    BY DEF IInv, Typed, Rows, User
  <1>7. Members' = Members \ {<<a, o>> : o \in Accounts}
    BY <1>1, <1>4, <1>6 DEF Members, Rows
  <1>8. QED
    BY <1>1, <1>3, <1>5, <1>7 DEF AbstractRoster!Leave

\* Every step of the code is a step of the roster, or none of it.
LEMMA RosterStep == IInv /\ [Next]_vars => [AbstractRoster!Next]_(AbstractRoster!vars)
  <1> SUFFICES ASSUME IInv, [Next]_vars
               PROVE  [AbstractRoster!Next]_(AbstractRoster!vars)
    OBVIOUS
  <1>1. ASSUME NEW u \in Accounts, NEW a \in Accounts, NEW i \in Invitations,
               NEW role \in Roles, Invite(u, i, a, role)
        PROVE  AbstractRoster!Next
    BY <1>1, RosterInvite DEF AbstractRoster!Next
  <1>2. ASSUME NEW a \in Accounts, DeleteAccount(a) PROVE AbstractRoster!Next
    BY <1>2, RosterLeave DEF AbstractRoster!Next
  <1>3. ASSUME NEW r \in Requests, Provision(r)
        PROVE  [AbstractRoster!Next]_(AbstractRoster!vars)
    <2>1. req[r].by \in Accounts
      BY <1>3 DEF IInv, RequestsSound, Provision
    <2>2. QED
      BY <1>3, <2>1, RosterProvision DEF AbstractRoster!Next
  <1>4. ASSUME NEW r \in Requests, Accept(r)
        PROVE  [AbstractRoster!Next]_(AbstractRoster!vars)
    <2>1. req[r].by \in Accounts /\ req[r].seen.org \in Accounts
      BY <1>4 DEF IInv, RequestsSound, Accept, AcceptSound, Invitation
    <2>2. QED
      BY <1>4, <2>1, RosterAccept DEF AbstractRoster!Next
  <1>5. ASSUME NEW r \in Requests, UpdateMember(r) PROVE UNCHANGED AbstractRoster!vars
    BY <1>5, RosterUpdate
  <1>6. ASSUME NEW r \in Requests, Revoke(r) PROVE UNCHANGED AbstractRoster!vars
    <2>1. PICK i \in Invitations : i = req[r].invitation /\ invitations[i] # Null
      BY <1>6 DEF IInv, Revoke, RequestsSound, RevokeSound
    <2>2. PICK revoked : revoked = [invitations[i] EXCEPT !.status = "revoked"]
      OBVIOUS
    <2>3. revoked \in Invitation /\ revoked.org = invitations[i].org
          /\ revoked.email = invitations[i].email
      BY <2>1, <2>2 DEF IInv, Typed, Invitation
    <2>4. /\ invitations'[i] = revoked
          /\ \A j \in Invitations : j # i => invitations'[j] = invitations[j]
          /\ UNCHANGED <<auth, organizations, users>>
      BY <1>6, <2>1, <2>2 DEF Revoke, IInv, Typed
    <2>5. QED
      BY <2>1, <2>3, <2>4, RosterStutter, MembershipAssumption
  <1>7. CASE UNCHANGED <<auth, organizations, users, invitations>>
    BY <1>7, RosterStutter
  <1>8. QED
    BY <1>1, <1>2, <1>3, <1>4, <1>5, <1>6, <1>7
    DEF Next, vars, Expire, BeginProvision, BeginAccept, BeginRevoke, BeginUpdate, Lose

\* However requests overlap, fail or act on rows that have gone, membership is
\* the roster: one organization an account founds or is invited to, for good.
THEOREM RosterImplemented == Spec => ImplementsRoster
  BY RosterInit, RosterStep, InitIInv, NextIInv, PTL
     DEF Spec, AbstractRoster!Spec, ImplementsRoster

-----------------------------------------------------------------------------
(* What the audit log says of members.                                     *)

\* A request that no change of role has overtaken still has the member's role.
Current(r) ==
    LET m == req[r].member
    IN  req[r].kind = "update" /\ users[m] # Null /\ r \notin told[m].overtaken
        => req[r].seen.role = users[m].role

HistoryInv ==
    /\ told = [a \in Accounts |-> told[a]]
    /\ HistoryTellsMember
    /\ \A r \in Requests : Current(r)

\* What the log tells of one member.
Tells(log, row) ==
    /\ log.changed = row.role
    /\ log.active = row.active
    /\ row.deactivated = ~row.active
    /\ log.role # row.role => log.late

\* Whom an update is about.
LEMMA RequestMember ==
    ASSUME IInv, NEW q \in Requests, req[q].kind = "update"
    PROVE  req[q].member \in Accounts
  BY DEF IInv, RequestsSound, UpdateSound

\* The history after one member's row and log have changed.
LEMMA HistoryAgain ==
    ASSUME HistoryInv, NEW m \in Accounts, Tells(told'[m], users'[m]),
           \A b \in Accounts : b # m => users'[b] = users[b] /\ told'[b] = told[b],
           told' = [b \in Accounts |-> told'[b]],
           \A q \in Requests : Current(q)'
    PROVE  HistoryInv'
  <1>1. ASSUME NEW b \in Accounts, users'[b] # Null PROVE Tells(told'[b], users'[b])
    <2>1. CASE b = m
      BY <2>1
    <2>2. CASE b # m
      BY <1>1, <2>2 DEF HistoryInv, HistoryTellsMember, Tells
    <2>3. QED
      BY <2>1, <2>2
  <1>2. QED
    BY <1>1 DEF HistoryInv, HistoryTellsMember, Tells

\* A row that comes in is told as it is, and no request has loaded it.
LEMMA InsertedHistory ==
    ASSUME IInv, HistoryInv, NEW r \in Requests, NEW a \in Accounts, NEW o, NEW role,
           Insertable(a),
           users' = [users EXCEPT ![a] = NewMember(o, role)],
           told' = [told EXCEPT ![a] = NewLog(role)],
           Finish(r)
    PROVE  HistoryInv'
  <1>1. PICK n, g : n = NewMember(o, role) /\ g = NewLog(role)
    OBVIOUS
  <1>2. Tells(g, n)
    BY <1>1 DEF NewMember, NewLog, Tells
  <1>3. /\ users'[a] = n /\ told'[a] = g
        /\ \A b \in Accounts : b # a => users'[b] = users[b] /\ told'[b] = told[b]
        /\ told' = [b \in Accounts |-> told'[b]]
    BY <1>1 DEF IInv, Typed, HistoryInv
  <1>4. ASSUME NEW b \in Accounts, users'[b] # Null
        PROVE  Tells(told'[b], users'[b])
    <2>1. CASE b = a
      BY <1>2, <1>3, <2>1
    <2>2. CASE b # a
      BY <1>3, <1>4, <2>2 DEF HistoryInv, HistoryTellsMember, Tells
    <2>3. QED
      BY <2>1, <2>2
  <1>5. ASSUME NEW q \in Requests PROVE Current(q)'
    <2>1. CASE q = r
      BY <2>1, Finished DEF IInv, Current
    <2>2. CASE q # r /\ req[q].kind = "update"
      <3>1. req'[q] = req[q] /\ UpdateSound(q)
        BY <2>2, Finished DEF IInv, RequestsSound
      <3>2. req[q].member # a /\ req[q].member \in Accounts
        BY <3>1 DEF UpdateSound, Insertable
      <3>3. QED
        BY <1>3, <3>1, <3>2 DEF HistoryInv, Current
    <2>3. CASE q # r /\ req[q].kind # "update"
      BY <2>3, Finished DEF IInv, Current
    <2>4. QED
      BY <2>1, <2>2, <2>3
  <1>6. QED
    BY <1>3, <1>4, <1>5 DEF HistoryInv, HistoryTellsMember, Tells

\* An update records each change it makes, whatever it finds of the row, and
\* leaves the others that loaded the member behind when it changes the role.
LEMMA UpdatedHistory ==
    ASSUME IInv, HistoryInv, NEW r \in Requests, UpdateMember(r)
    PROVE  HistoryInv'
  <1>1. PICK m : m = req[r].member
    OBVIOUS
  <1>2. m \in Accounts /\ req[r].update \in Update
    BY <1>1 DEF IInv, RequestsSound, UpdateSound, UpdateMember
  <1>3. /\ req'[r].kind = "done"
        /\ \A q \in Requests : q # r => req'[q] = req[q]
    BY Finished DEF IInv, UpdateMember
  <1>4. CASE users[m] = Null
    <2>1. UNCHANGED <<users, told>>
      BY <1>1, <1>4 DEF UpdateMember
    <2>2. ASSUME NEW q \in Requests PROVE Current(q)'
      BY <1>3, <2>1 DEF HistoryInv, Current
    <2>3. QED
      BY <2>1, <2>2 DEF HistoryInv, HistoryTellsMember
  <1>5. CASE users[m] # Null
    <2>1. PICK u, t : u = Rewritten(r, users[m]) /\ t = Logged(r, told[m])
      OBVIOUS
    <2>2. users' = [users EXCEPT ![m] = u] /\ told' = [told EXCEPT ![m] = t]
      BY <1>1, <1>5, <2>1 DEF UpdateMember
    <2>3. /\ users'[m] = u /\ told'[m] = t
          /\ \A b \in Accounts : b # m => users'[b] = users[b] /\ told'[b] = told[b]
          /\ told' = [b \in Accounts |-> told'[b]]
      BY <1>2, <2>2 DEF IInv, Typed, HistoryInv
    <2>4. users[m] \in User
      BY <1>2, <1>5 DEF IInv, Typed
    <2>5. Tells(told[m], users[m])
      BY <1>2, <1>5 DEF HistoryInv, HistoryTellsMember, Tells
    <2>6. DOMAIN users[m] = {"org", "role", "active", "deactivated"}
      BY <2>4 DEF User
    <2>7. /\ u.role = IF "role" \in Changes(r) THEN req[r].update.role ELSE users[m].role
          /\ u.active = IF "active" \in Changes(r) THEN req[r].update.active ELSE users[m].active
          /\ u.deactivated = IF "active" \in Changes(r) THEN ~req[r].update.active
                                                        ELSE users[m].deactivated
      BY <2>1, <2>6 DEF Rewritten, Stamp
    <2>8. r \notin told[m].overtaken => req[r].seen.role = users[m].role
      BY <1>1, <1>5 DEF HistoryInv, Current, UpdateMember
    <2>9. CASE Changes(r) = {}
      <3>1. t = told[m]
        BY <2>1, <2>9 DEF Logged, Recorded
      <3>2. Tells(t, u)
        BY <2>5, <2>7, <2>9, <3>1 DEF Tells
      <3>3. ASSUME NEW q \in Requests PROVE Current(q)'
        <4>1. CASE q = r
          BY <1>3, <4>1 DEF Current
        <4>2. CASE q # r /\ req[q].kind # "update"
          BY <1>3, <4>2 DEF Current
        <4>3. CASE q # r /\ req[q].kind = "update"
          <5>1. u.role = users[m].role
            BY <2>7, <2>9
          <5>2. req[q].member \in Accounts /\ req'[q] = req[q] /\ Current(q)
            BY <1>3, <4>3, RequestMember DEF HistoryInv
          <5>3. QED
            BY <1>5, <2>3, <3>1, <4>3, <5>1, <5>2 DEF Current
        <4>4. QED
          BY <4>1, <4>2, <4>3
      <3>4. QED
        BY <1>2, <2>3, <3>2, <3>3, HistoryAgain
    <2>10. CASE Changes(r) # {}
      <3>1. /\ t.role = Carried(r)
            /\ t.changed = IF "role" \in Changes(r) THEN req[r].update.role ELSE told[m].changed
            /\ t.active = IF "active" \in Changes(r) THEN req[r].update.active
                          ELSE told[m].active
            /\ t.overtaken = told[m].overtaken
                             \cup (IF "role" \in Changes(r) THEN Loaded(r) ELSE {})
            /\ t.late <=> "role" \notin Changes(r) /\ r \in told[m].overtaken
        BY <2>1, <2>10 DEF Logged, Recorded
      <3>2. Tells(t, u)
        <4>1. t.changed = u.role /\ t.active = u.active /\ u.deactivated = ~u.active
          BY <2>5, <2>7, <3>1 DEF Tells
        <4>2. t.role # u.role => t.late
          BY <2>7, <2>8, <3>1 DEF Carried
        <4>3. QED
          BY <4>1, <4>2 DEF Tells
      <3>3. ASSUME NEW q \in Requests PROVE Current(q)'
        <4>1. CASE q = r
          BY <1>3, <4>1 DEF Current
        <4>2. CASE q # r /\ (req[q].kind # "update" \/ req[q].member # m)
          BY <1>3, <2>3, <4>2, RequestMember DEF HistoryInv, Current
        <4>3. CASE q # r /\ req[q].kind = "update" /\ req[q].member = m
          <5>1. "role" \in Changes(r) => q \in t.overtaken
            BY <1>1, <3>1, <4>3 DEF Loaded
          <5>2. "role" \notin Changes(r) => u.role = users[m].role
            BY <2>7
          <5>3. q \notin t.overtaken => req[q].seen.role = u.role
            BY <1>5, <3>1, <4>3, <5>1, <5>2 DEF HistoryInv, Current
          <5>4. QED
            BY <1>3, <2>3, <4>3, <5>3 DEF Current
        <4>4. QED
          BY <4>1, <4>2, <4>3
      <3>4. QED
        BY <1>2, <2>3, <3>2, <3>3, HistoryAgain
    <2>11. QED
      BY <2>9, <2>10
  <1>6. QED
    BY <1>4, <1>5

\* Every step that changes a row tells the log what it is now.
LEMMA NextHistory == IInv /\ HistoryInv /\ [Next]_vars => HistoryInv'
  <1> SUFFICES ASSUME IInv, HistoryInv, [Next]_vars PROVE HistoryInv'
    OBVIOUS
  <1>1. ASSUME UNCHANGED <<users, told>>, \A r \in Requests : Current(r)' PROVE HistoryInv'
    BY <1>1 DEF HistoryInv, HistoryTellsMember
  <1>2. ASSUME UNCHANGED <<users, told>>, NEW r \in Requests, NEW request \in Request,
               Begin(r, request),
               request.kind = "update" => request.seen = users[request.member]
        PROVE  HistoryInv'
    <2>1. /\ req'[r] = request
          /\ \A q \in Requests : q # r => req'[q] = req[q]
      BY <1>2, Begun DEF IInv
    <2>2. ASSUME NEW q \in Requests PROVE Current(q)'
      BY <1>2, <2>1 DEF HistoryInv, Current
    <2>3. QED
      BY <1>1, <1>2, <2>2
  <1>3. ASSUME UNCHANGED <<users, told>>, NEW r \in Requests, Finish(r) PROVE HistoryInv'
    <2>1. ASSUME NEW q \in Requests PROVE Current(q)'
      BY <1>3, Finished DEF IInv, HistoryInv, Current
    <2>2. QED
      BY <1>1, <1>3, <2>1
  <1>4. ASSUME NEW r \in Requests, Provision(r) PROVE HistoryInv'
    <2>1. req[r].by \in Accounts
      BY <1>4 DEF IInv, RequestsSound, Provision
    <2>2. CASE Insertable(req[r].by)
      BY <1>4, <2>1, <2>2, InsertedHistory DEF Provision
    <2>3. CASE ~Insertable(req[r].by)
      BY <1>3, <1>4, <2>3 DEF Provision
    <2>4. QED
      BY <2>2, <2>3
  <1>5. ASSUME NEW r \in Requests, Accept(r) PROVE HistoryInv'
    <2>1. req[r].by \in Accounts
      BY <1>5 DEF IInv, RequestsSound, Accept, AcceptSound
    <2>2. CASE Insertable(req[r].by)
      BY <1>5, <2>1, <2>2, InsertedHistory DEF Accept
    <2>3. CASE ~Insertable(req[r].by)
      BY <1>3, <1>5, <2>3 DEF Accept
    <2>4. QED
      BY <2>2, <2>3
  <1>6. ASSUME NEW r \in Requests, UpdateMember(r) PROVE HistoryInv'
    BY <1>6, UpdatedHistory
  <1>7. ASSUME NEW a \in Accounts, DeleteAccount(a) PROVE HistoryInv'
    <2>1. /\ users'[a] = Null
          /\ \A b \in Accounts : b # a => users'[b] = users[b] /\ told'[b] = told[b]
          /\ told' = [b \in Accounts |-> told'[b]]
          /\ req' = req
      BY <1>7 DEF DeleteAccount, IInv, Typed, HistoryInv
    <2>2. ASSUME NEW q \in Requests PROVE Current(q)'
      BY <2>1, RequestMember DEF HistoryInv, Current
    <2>3. QED
      BY <2>1, <2>2 DEF HistoryInv, HistoryTellsMember
  <1>8. ASSUME NEW r \in Requests, NEW a \in Accounts, BeginProvision(r, a) PROVE HistoryInv'
    <2>1. [NoRequest EXCEPT !.kind = "provision", !.by = a] \in Request
      BY NoRequestTyped DEF NoRequest, Request, Kinds
    <2>2. QED
      BY <1>2, <1>8, <2>1 DEF BeginProvision, NoRequest
  <1>9. ASSUME NEW r \in Requests, NEW a \in Accounts, NEW i \in Invitations,
               BeginAccept(r, a, i)
        PROVE  HistoryInv'
    <2>1. [NoRequest EXCEPT !.kind = "accept", !.by = a, !.invitation = i,
                            !.seen = invitations[i]] \in Request
      <3>1. invitations[i] \in Invitation
        BY <1>9 DEF BeginAccept, Valid, IInv, Typed
      <3>2. QED
        BY <3>1 DEF NoRequest, Request, Kinds
    <2>2. QED
      BY <1>2, <1>9, <2>1 DEF BeginAccept, NoRequest
  <1>10. ASSUME NEW r \in Requests, NEW a \in Accounts, NEW i \in Invitations,
                BeginRevoke(r, a, i)
         PROVE  HistoryInv'
    <2>1. [NoRequest EXCEPT !.kind = "revoke", !.by = a, !.invitation = i] \in Request
      BY NoRequestTyped DEF NoRequest, Request, Kinds
    <2>2. QED
      BY <1>2, <1>10, <2>1 DEF BeginRevoke, NoRequest
  <1>11. ASSUME NEW r \in Requests, NEW a \in Accounts, NEW m \in Accounts, NEW u \in Update,
                BeginUpdate(r, a, m, u)
         PROVE  HistoryInv'
    <2>1. [NoRequest EXCEPT !.kind = "update", !.by = a, !.member = m,
                            !.update = u, !.seen = users[m]] \in Request
      BY <1>11, NoRequestTyped DEF NoRequest, Request, Kinds, BeginUpdate, IInv, Typed
    <2>2. QED
      BY <1>2, <1>11, <2>1 DEF BeginUpdate, NoRequest
  <1>12. ASSUME NEW r \in Requests, Revoke(r) \/ Lose(r) PROVE HistoryInv'
    BY <1>3, <1>12 DEF Revoke, Lose
  <1>13. CASE UNCHANGED <<users, told, req>>
    <2>1. ASSUME NEW q \in Requests PROVE Current(q)'
      BY <1>13 DEF HistoryInv, Current
    <2>2. QED
      BY <1>1, <1>13, <2>1
  <1>14. QED
    BY <1>4, <1>5, <1>6, <1>7, <1>8, <1>9, <1>10, <1>11, <1>12, <1>13
    DEF Next, vars, Invite, Expire

\* The audit log's last change of role and of access is the member's row, and a
\* role it repeats besides is wrong only where a change of role came in between.
THEOREM Told == Spec => []HistoryTellsMember
  <1>1. Init => HistoryInv
    <2> SUFFICES ASSUME Init PROVE HistoryInv
      OBVIOUS
    <2>1. told = [a \in Accounts |-> told[a]]
      BY DEF Init
    <2>2. \A a \in Accounts : users[a] # Null =>
              users[a] = NewMember(a, "owner") /\ told[a] = NewLog("owner")
      BY DEF Init
    <2>3. \A a \in Accounts : Tells(NewLog("owner"), NewMember(a, "owner"))
      BY DEF Tells, NewLog, NewMember
    <2>4. \A r \in Requests : Current(r)
      BY DEF Init, Current, NoRequest
    <2>5. QED
      BY <2>1, <2>2, <2>3, <2>4 DEF HistoryInv, HistoryTellsMember, Tells
  <1>2. HistoryInv => HistoryTellsMember
    BY DEF HistoryInv
  <1>3. QED
    BY <1>1, <1>2, InitIInv, NextIInv, NextHistory, PTL DEF Spec
=============================================================================
