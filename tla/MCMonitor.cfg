SPECIFICATION Spec
CONSTANTS
  web_server = web_server
  ui_service = ui_service
  time_tz = time_tz
  tz_changed = tz_changed
  boot = boot
  tz_action = tz_action
  Service = {web_server, ui_service, time_tz}
  ServiceOrder <- MCServiceOrder
  Class = {"main"}
  InClass <- MCInClass
  Oneshot = {time_tz}
  RcDisabled = {}
  Console = {}
  OnRestart <- MCOnRestart
  Action = {boot, tz_action}
  ActionOrder <- MCActionOrder
  BootOrder <- MCBootOrder
  Commands <- MCCommands
  Key <- MCKey
  Value <- MCValue
  Unset = Unset
  RoKey = {}
  Triggered <- MCTriggered
  PropMax = 8
  Pid = {p1, p2, p3}
  NoPid = NoPid
  NewPid <- MCNewPid
  NoAction = NoAction
  QHead = QHead
  NoNode = NoNode
  Scripts <- MCScripts
  MayCrash = {web_server}
  Finishes = {time_tz}
  MayBeMissing = {ui_service}
  ForkMayFail = FALSE
  ClientMessage <- MCClientMessage
  LoopMayStall = TRUE
  Backlog = 1
INVARIANTS
  TypeOK
  PidsAreTracked
  FlagsAgree
  StatusIsTrue
  NoLostSigchld
PROPERTIES
  ImplementsLifecycle
SYMMETRY PidSymmetry
