SPECIFICATION Spec
CONSTANTS
  Local     = {"sd"}
  Module    = {"tf1", "tf2"}
  Disks     <- MCDisks
  First     <- MCFirst
  Card      <- MCCard
  None  = None
  MaxTries  = 2
  MaxQueue  = 4
  MaxPlugs  = 1
  MaxFaults = 0
  MaxEnters = 1
\* Nothing is plugged any more: all threads wait.
CHECK_DEADLOCK FALSE
PROPERTY
  EnteredIsMounted
