SPECIFICATION ObserverSpec
CONSTANTS
    Blocks <- DeepBlocks
    Zero = "zero"
    Parent <- DeepParent
    Num <- DeepNumber
    Path <- DeepPath
    MaxSize = 10
    Bad = {}
    LibDepth = 3
    Trunk <- DeepTrunk
    TrackAfter = 3
    StatusDepth = 2
    CanClose = FALSE
    CanCrash = FALSE
INVARIANTS ChainLinked OneHistory ExtensionAccepted HeadIsHighest ObserversOnChain
