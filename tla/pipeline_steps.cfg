CONSTANTS
    Waiters = {w1}
    Callers = {s1, s2}
    Reviewers = {r1}
    NoToken = NoToken
    Attrs = {a1}
    NoAttrs = NoAttrs
    Pipeline <- Five
    Origins = {"upload"}
    Decisions = {"APPROVE"}
    Forces = {TRUE, FALSE}
    RetryStages = {}
    StepStages = {0, 3, 5}
    MaxRequests = 2
    OneApiProcess = FALSE
    MayExpire = TRUE
    MayGiveUp = FALSE
    MayCrash = TRUE
SPECIFICATION FairSpec
PROPERTIES HeldReviewStands EveryStepAnswered
