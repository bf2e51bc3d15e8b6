SPECIFICATION Spec
CONSTANTS
    Clients <- MCClients
    Readers <- MCReaders
    StopAt = 0
    CanSignal = TRUE
    CanTimeout = TRUE
INVARIANTS QueueSound
PROPERTIES RequestsServed ShutdownEnds
CHECK_DEADLOCK FALSE
