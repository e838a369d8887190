SPECIFICATION Spec
CONSTANTS
  Local     = {"sd", "udisk"}
  Module    = {"tf1"}
  Disks     <- MCDisks
  First     <- MCFirst
  Card      <- MCCard
  None  = None
  MaxTries  = 2
  MaxQueue  = 2
  MaxPlugs  = 2
  MaxFaults = 1
  MaxEnters = 1
\* Nothing is plugged any more and nobody switches the mode: all threads wait.
CHECK_DEADLOCK FALSE
INVARIANTS
  TypeOK
  SavePathIsBest
  Settled
PROPERTIES
  DisksServed
