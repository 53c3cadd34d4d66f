SPECIFICATION StudioSpec
CONSTANTS
    Closet <- SmallCloset
    Asks <- SomeAsks
    Fickle = {"shirt", "dress"}
    TopK = 2
    FallbackDepth = 1
    HopitOutfits <- SomeHopitOutfits
    MaxAnswered = 4
    MaxPerRole = 2
    MaxCombos = 4
    Eagerness = {50, 130}
    Scores = {50, 51, 52}
    Epsilon = 1
    Labels = {"top", "shoes"}
    Subcategories <- SmallSubcategories
    Aliases <- SmallAliases
    Spellings <- SmallSpellings
    Setups <- SomeSetups
    ClassOf <- SmallClassOf
    CategoryOf <- SmallCategoryOf
    Sleeveless <- SmallSleeveless
    AttributeTries = 2
    PictureTries = 3
    Painters = 2
    FirstRoles <- TwoAdmins
    Characters = {"asha", "ravi"}
    CharacterOf <- ThreeOutfits
    Slots = {1, 2}
    MaxRequests = 4
    Worn <- FourVotes
    Mortal = {"shoes"}
    Chips <- TwoChips
    Opinions <- SomeOpinions
    Readings <- OneReading
    Decay <- NineteenDays
    Photos = {"front", "back"}
    Garments = {"coat"}
    Drawers = {"run", "step"}
    Readers = {"page", "app"}
    Sizes = {12, 16}
    MinEdge = 16
    MaxEdge = 1024
    BuildConcurrency = 1
    MaxUploads = 1
    MaxAssets = 2
    MaxDrawn = 2
    MaxShown = 2
INVARIANT ThreeDislikesBlock
CHECK_DEADLOCK FALSE
