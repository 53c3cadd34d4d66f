CONSTANTS
    Waiters = {w1}
    Callers = {s1}
    Reviewers = {}
    NoToken = NoToken
    Attrs = {a1}
    NoAttrs = NoAttrs
    Pipeline <- Three
    Origins = {"upload"}
    Decisions = {}
    Forces = {FALSE}
    RetryStages = {}
    StepStages = {1, 2, 3}
    MaxRequests = 1
    OneApiProcess = FALSE
    MayExpire = FALSE
    MayGiveUp = FALSE
    MayCrash = FALSE
SPECIFICATION Spec
PROPERTIES StepNeverRegresses
