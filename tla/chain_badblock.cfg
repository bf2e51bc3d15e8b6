SPECIFICATION MinerSpec
CONSTANTS
    Blocks <- MineBlocks
    Zero = "zero"
    Parent <- MineParent
    Num <- MineNumber
    Path <- MinePath
    MaxSize = 10
    Bad = {"c4", "s4"}
    Mine = {"m4", "s4"}
    None = None
    LibDepth = 4
    Trunk <- DeepTrunk
    CanClose = FALSE
    CanCrash = FALSE
INVARIANTS FailedPushUnwound ExtensionAccepted StaleReadsHarmless
PROPERTIES SwitchEnds
