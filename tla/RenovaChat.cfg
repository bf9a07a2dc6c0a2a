\* Three questions of an advisor about two cases others change, in a conversation with a limit of two a minute.
CONSTANTS
    ana = ana
    chief = chief
    juan = juan
    maria = maria
    none = none
    Null = none
    Users = {ana, chief}
    Advisors = {ana}
    Asker = ana
    Asks = {a1, a2, a3}
    Cases = {juan, maria}
    Rows <- MCRows
    Parsed <- MCParsed
    Names <- MCNames
    Within <- MCWithin
    MatchLimit = 2
    ListLimit = 1
    RateLimit = 2
    MaxMinutes = 1
SYMMETRY Symmetry
CHECK_DEADLOCK FALSE
SPECIFICATION MCSpec
INVARIANTS
    TurnsWhole
    FollowUpUnderstood
PROPERTIES
    AnswersStayInScope
