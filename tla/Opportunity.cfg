\* Three PATCHes of one deal in any order, a process dying among them; stages of the other pipeline among the payloads.
CONSTANTS
    Requests = {r1, r2, r3}
    Working = {"search", "offer"}
    Foreign = {"listing"}
    Reasons = {"price"}
    NoReason = NoReason
    Unset = Unset
    MaxLost = 1
SYMMETRY Symmetry
SPECIFICATION MCSpec
INVARIANTS
    ClosedIsStamped
    TimelineEndsAtStage
    OneTaskPerWin
    ChangesAudited
    DealRules
    HistoryUnbroken
