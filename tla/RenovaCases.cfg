\* Requests on a case and on its follow-up history, of a chief and two advisors; an account is deleted.
CONSTANTS
    chief = chief
    ana = ana
    luis = luis
    none = none
    Null = none
    Requests = {r1, r2}
    Callers = {c1, c2, c3}
    Users = {chief, ana, luis}
    Advisors = {ana, luis}
    Deletable = {luis}
    Payloads <- MCPayloads
    Moves <- MCMoves
    Legacy = {"accepted", "purchased", "rejected"}
    Entries <- MCEntries
    Edits <- MCEdits
    Results = {"no_answer", "interested", "other"}
SYMMETRY Symmetry
CHECK_DEADLOCK FALSE
SPECIFICATION MCSpec
INVARIANTS
    WellTyped
    AcceptedOnTheMap
    HistoryTellsStatus
PROPERTIES
    AdvisorKeepsCase
    CaseRules
    BackfillKeepsSummary
    AttemptCounted
