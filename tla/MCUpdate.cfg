SPECIFICATION Spec
CONSTANTS
  Image    <- MCImage
  FirstVers <- MCFirstVers
  Bill     <- MCBill
  Media    <- MCMedia
  Firmware = "firmware"
  Bin      = "bin"
  None  = None
  Empty = Empty
  Torn  = Torn
  MaxFaults = 2
  MaxCuts   = 1
  MaxSwaps  = 1
\* The applications run, or nothing more happens: the boot is over.
CHECK_DEADLOCK FALSE
INVARIANTS
  TypeOK
  UpdaterMatches
PROPERTIES
  VersionIsInstalled
  NoDowngrade
  Converges
