\* One account that signs up and is invited by two organizations while its access is changed, with three requests at once.
CONSTANTS
    owner = owner
    other = other
    ana = ana
    Null = Null
    Accounts = {owner, other, ana}
    Founders = {owner, other}
    Invitations = {i1, i2}
    Requests = {r1, r2, r3}
    SelfService = TRUE
SYMMETRY Symmetry
CHECK_DEADLOCK FALSE
SPECIFICATION MCSpec
INVARIANTS
    OrganizationsOwned
    EntryMatchesInvitation
    HistoryTellsMember
PROPERTIES
    ImplementsRoster
