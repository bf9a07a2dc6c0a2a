\* Two users, a key and a contact that is edited or deleted; a thread is lost.
CONSTANTS
    Requests = {r1, r2}
    Contacts = {c1}
    Agents = {lead}
    Users = {u1, u2}
    Keys = {k1}
    NoKey = NoKey
    NoContact = NoContact
    NoFingerprint = NoFingerprint
    HumanActions = {"acted_on"}
    Cooldown = 0
    UserLimit = 0
    OrgLimit = 0
    ContactLimit = 0
    Minute = 0
    Hour = 0
    MaxTime = 0
    MaxVersion = 1
    MaxLost = 1
SPECIFICATION FairSpec
INVARIANTS
    OneCallPerSlot
    OneRunPerKey
    OutcomeRecorded
    AnswersMatch
PROPERTIES
    EveryRequestAnswered
    SlotReleased
    ImplementsLedger
