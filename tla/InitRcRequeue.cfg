SPECIFICATION Spec
CONSTANTS
  logd = logd
  bootan = bootan
  update_check = update_check
  update = update
  camerad = camerad
  web_server = web_server
  sys_logd = sys_logd
  sys_bootan = sys_bootan
  sys_update = sys_update
  sys_app = sys_app
  sys_web = sys_web
  on_init = on_init
  on_property = on_property
  on_signal = on_signal
  on_early = on_early
  on_boot = on_boot
  on_triggers = on_triggers
  prop_logd = prop_logd
  prop_bootan = prop_bootan
  prop_update = prop_update
  prop_app = prop_app
  prop_camerad = prop_camerad
  prop_web = prop_web
  Service <- RcService
  ServiceOrder <- RcServiceOrder
  Class <- RcClass
  InClass <- RcInClass
  Oneshot <- RcOneshot
  RcDisabled = {}
  Console = {}
  OnRestart <- RcOnRestart
  Action <- RcAction
  ActionOrder <- RcActionOrder
  BootOrder <- RcBootOrder
  Commands <- RcCommands
  Key <- RcKey
  Value <- RcValue
  Unset = Unset
  RoKey = {}
  Triggered <- RcTriggered
  PropMax = 247
  Pid = {p1, p2, p3, p4, p5}
  NoPid = NoPid
  NewPid <- RcNewPid
  NoAction = NoAction
  QHead = QHead
  NoNode = NoNode
  Scripts <- RcScripts
  MayCrash = {camerad, web_server}
  Finishes = {update_check}
  MayBeMissing = {}
  ForkMayFail = FALSE
  ClientMessage = {}
  LoopMayStall = FALSE
  Backlog = 2
INVARIANT QueueIntact
CHECK_DEADLOCK FALSE
