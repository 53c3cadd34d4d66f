SPECIFICATION FairWorkersSpec
CONSTANTS
    Waiters = {w1, w2}
    Callers = {s1}
    NoToken = NoToken
    Ttl = 3
    MaxWait = 1
    Labels = {"top", "coat"}
    NoLabel = NoLabel
    Detections <- SmallDetections
    RedisLoops = {w1}
    Handlers = {s1}
    Api = Api
    Worker = Worker
    MaxGarments = 3
    MaxRequests = 1
    MayStep = TRUE
    MayFail = TRUE
INVARIANTS
    WorkersTypeOK
    LeaseIntact
    JobsNameDurableRows
    OnlyFailureStrands
    SecondBatchHasACause
PROPERTIES
    LockSpec
    WaiterGetsIn
    EveryGarmentSettles
CHECK_DEADLOCK FALSE
