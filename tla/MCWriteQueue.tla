---------------------------- MODULE MCWriteQueue ----------------------------
(* Threads for WriteQueue.  Clients are interchangeable, and so are        *)
(* readers, but symmetry is not used: some runs check liveness.            *)
EXTENDS WriteQueue

MCClients == {"p2p", "api", "miner"}
MCReaders == {"r1", "r2"}
=============================================================================
