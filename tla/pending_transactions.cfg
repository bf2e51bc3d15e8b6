SPECIFICATION Spec
CONSTANTS
    Txs <- MCTxs
    Needs <- MCNeeds
    Uses <- MCUses
    Expires <- MCExpires
    Times = {1, 3}
    MaxAhead = 3
    Pow = {"pow"}
    PowUntil = 1
    Arriving <- MCArriving
    MaxBlocks = 3
    MaxPending = 2
    CanPostpone = TRUE
INVARIANTS AppliedOnce NothingLost GeneratedApplies RestoreApplies
CHECK_DEADLOCK FALSE
