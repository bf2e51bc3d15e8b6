SPECIFICATION LogSpec
CONSTANTS
    MaxBlocks = 5
    CanLosePower = TRUE
    CanDeleteIndex = TRUE
INVARIANTS IndexComplete FlushedSurvives
CHECK_DEADLOCK FALSE
