\* Clients that do not overlap: the cooldown and the three limits, over three seconds.
CONSTANTS
    Requests = {r1, r2, r3}
    Contacts = {c1, c2}
    Agents = {lead}
    Users = {u1, u2, u3}
    Keys = {}
    NoKey = NoKey
    NoContact = NoContact
    NoFingerprint = NoFingerprint
    HumanActions = {}
    Cooldown = 1
    UserLimit = 1
    OrgLimit = 2
    ContactLimit = 2
    Minute = 1
    Hour = 2
    MaxTime = 2
    MaxVersion = 0
    MaxLost = 0
SYMMETRY Symmetry
SPECIFICATION Spec
ACTION_CONSTRAINT Serial
INVARIANTS
    LimitsHeld
    LatestIsLastCompleted
