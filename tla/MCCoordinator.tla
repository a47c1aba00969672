--------------------------- MODULE MCCoordinator ---------------------------
\* Two instances of TLC run on the pool coordinator (Coordinator.tla).
EXTENDS Coordinator
============================================================================
