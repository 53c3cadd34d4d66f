CONSTANTS
    Waiters = {w1}
    Callers = {}
    Reviewers = {}
    NoToken = NoToken
    Attrs = {a1}
    NoAttrs = NoAttrs
    Pipeline <- Five
    Origins = {"upload"}
    Decisions = {}
    Forces = {FALSE}
    RetryStages = {1}
    StepStages = {}
    MaxRequests = 2
    OneApiProcess = FALSE
    MayExpire = FALSE
    MayGiveUp = FALSE
    MayCrash = FALSE
SPECIFICATION Spec
INVARIANTS CompletedNotUnderReview
