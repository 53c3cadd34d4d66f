CONSTANTS
    Waiters = {w1, w2}
    Callers = {}
    Reviewers = {r1}
    NoToken = NoToken
    Attrs = {a1}
    NoAttrs = NoAttrs
    Pipeline <- Nine
    Origins = {"upload"}
    Decisions = {"APPROVE", "REJECT"}
    Forces = {TRUE, FALSE}
    RetryStages = {1, 2}
    StepStages = {}
    MaxRequests = 2
    OneApiProcess = FALSE
    MayExpire = FALSE
    MayGiveUp = FALSE
    MayCrash = FALSE
SPECIFICATION Spec
INVARIANTS TypeOK CompletedHasPassed OneWithUncommittedRuns
