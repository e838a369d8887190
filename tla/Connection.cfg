\* Two clients; at most two timers at once.
SPECIFICATION Spec
CONSTANTS
  Client = {c1, c2}
  Timer = {t1, t2}
  None = None
INVARIANTS
  TypeOK
  ConnectedIsWatched
PROPERTIES
  SilentExpires
  CallsReturn
