SPECIFICATION FairStylingSpec
CONSTANTS
    Posts = {p1, p2}
    Stages = 2
    Stale = 2
    StageLimit = 1
    RunsMayFail = TRUE
    Swaps = {s1, s2}
    Wardrobe <- SmallWardrobe
    Look <- SmallLook
    FirstOutfit <- SmallOutfit
    None = None
    Members = {m1, m2}
    Callers = {c1}
    Scheduler = Scheduler
    NoPick = NoPick
    b1 = b1
    b2 = b2
    b3 = b3
    Ballots = {b1, b2, b3}
    Thumbs = {b1, b2}
    Key <- OnePersonsKeys
    NoRow = NoRow
INVARIANTS
    StylingTypeOK
    TraceIsWhatRan TwoActiveOverlapped
    SoundWithoutOverlap PictureIsCurrent
    AllOrNothing OpinionsKept
PROPERTIES
    SweptRunsAreDead DeadRunAbandoned ClientHearsTheEnd
    ReplacedOnPurpose BatchReachesAll
    EveryBallotAnswered
CHECK_DEADLOCK FALSE
