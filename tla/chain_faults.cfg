SPECIFICATION ObserverSpec
CONSTANTS
    Blocks <- FaultBlocks
    Zero = "zero"
    Parent <- FaultParent
    Num <- FaultNumber
    Path <- FaultPath
    MaxSize = 10
    Bad = {"c3"}
    LibDepth = 1
    Trunk <- FaultTrunk
    TrackAfter = 0
    StatusDepth = 2
    CanClose = TRUE
    CanCrash = TRUE
INVARIANTS NumbersMatch ObserversComplete
PROPERTIES CommittedNeverUndone
