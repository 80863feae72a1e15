CONSTANTS
  Hosts <- FourHosts
  Devices <- DualHomedRacks
  Experiments <- Tried

SPECIFICATION Spec

INVARIANT TypeOK
INVARIANT ClosestFirst
INVARIANT NoForwardingLoop
INVARIANT NoDownInterface
INVARIANT ShortestTables
INVARIANT StrictTables
INVARIANT DownDuringFailures
INVARIANT StatsComplete
PROPERTY Settles

\* An experiment ends after its last event.
CHECK_DEADLOCK FALSE
