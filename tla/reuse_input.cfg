CONSTANTS
    Waiters = {w1}
    Callers = {}
    Reviewers = {}
    NoToken = NoToken
    Attrs = {a1, a2}
    NoAttrs = NoAttrs
    Pipeline <- Five
    Origins = {"upload"}
    Decisions = {}
    Forces = {TRUE, FALSE}
    RetryStages = {1}
    StepStages = {}
    MaxRequests = 2
    OneApiProcess = FALSE
    MayExpire = FALSE
    MayGiveUp = FALSE
    MayCrash = FALSE
SPECIFICATION Spec
PROPERTIES ReuseMatchesInput
