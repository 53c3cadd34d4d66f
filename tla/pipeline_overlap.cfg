CONSTANTS
    Waiters = {w1, w2}
    Callers = {}
    Reviewers = {r1}
    NoToken = NoToken
    Attrs = {a1}
    NoAttrs = NoAttrs
    Pipeline <- Four
    Origins = {"upload", "sibling"}
    Decisions = {"APPROVE", "REJECT", "OVERRIDE"}
    Forces = {TRUE, FALSE}
    RetryStages = {1, 3}
    StepStages = {}
    MaxRequests = 1
    OneApiProcess = FALSE
    MayExpire = TRUE
    MayGiveUp = TRUE
    MayCrash = TRUE
SPECIFICATION FairSpec
INVARIANTS NoHalfwayStatus
PROPERTIES EveryJobEnds
