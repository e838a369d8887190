-------------------------------- MODULE InitRc --------------------------------
(***************************************************************************)
(* The start-up chain of the camera: misc/init.rc run by the monitor, with *)
(* what the processes of the services say on the property socket.          *)
(*                                                                         *)
(*   early-boot -> logd -> bootan -> update_check -> update                *)
(*                                               \-> camerad -> web_server *)
(*                                                                         *)
(* Left out: the services the chain does not go through (adbd, dnsmasq,    *)
(* crtmpserver, ...), which have the shape of logd or of camerad.          *)
(***************************************************************************)
EXTENDS Monitor

CONSTANTS
  logd, bootan, update_check, update, camerad, web_server,
  sys_logd, sys_bootan, sys_update, sys_app, sys_web,  \* sys.logd.startup, sys.bootan,
                              \* sys.uc_update_app, sys.uc_start_app, sys.web_status
  on_init, on_property, on_signal, on_early, on_boot, on_triggers,
  prop_logd, prop_bootan, prop_update, prop_app, prop_camerad, prop_web

RcServiceOrder == <<logd, bootan, update_check, update, camerad, web_server>>
RcService == {logd, bootan, update_check, update, camerad, web_server}
RcClass == {"base", "bootan", "update_check", "update", "core", "main"}
RcInClass == [c \in RcClass |->
  CASE c = "base"         -> <<logd>>
    [] c = "bootan"       -> <<bootan>>
    [] c = "update_check" -> <<update_check>>
    [] c = "update"       -> <<update>>
    [] c = "core"         -> <<camerad>>
    [] c = "main"         -> <<web_server>>]
RcOneshot == {bootan, update_check, update}

\* Nobody in the chain restarts another service (see MCMonitor for that).
RcOnRestart == [s \in Service |-> << >>]

RcAction == {on_init, on_property, on_signal, on_early, on_boot, on_triggers,
             prop_logd, prop_bootan, prop_update, prop_app, prop_camerad, prop_web}

\* The order in which main() queues them.
RcBootOrder == <<on_init, on_property, on_signal, on_early, on_boot, on_triggers>>

RcActionOrder == <<prop_logd, prop_bootan, prop_update, prop_app, prop_camerad, prop_web>>

ClassStart(c) == <<[cmd |-> "class_start", class |-> c]>>

RcCommands == [a \in Action |->
  CASE a = on_init     -> <<[cmd |-> "other"]>>
    [] a = on_property -> <<[cmd |-> "property_service_init"]>>
    [] a = on_signal   -> <<[cmd |-> "signal_init"]>>
    [] a = on_early    -> ClassStart("base")
    [] a = on_triggers -> <<[cmd |-> "queue_property_triggers"]>>
    [] a = prop_logd     -> ClassStart("bootan")
    [] a = prop_bootan   -> ClassStart("update_check")
    [] a = prop_update   -> ClassStart("update")
    [] a = prop_app      -> ClassStart("core")
    [] a = prop_camerad  -> <<[cmd |-> "start", svc |-> web_server]>>
    [] OTHER          -> << >>]

RcKey == Service \cup {sys_logd, sys_bootan, sys_update, sys_app, sys_web}

RcValue == {"running", "stopping", "stopped", "restarting", "true"}

\* Mutant: the rc file waits for a status that the monitor never reports.
RcTriggeredByStarted == [kv \in Key \X Value |->
  CASE kv = <<sys_logd, "true">>     -> <<prop_logd>>
    [] kv = <<sys_bootan, "true">>   -> <<prop_bootan>>
    [] kv = <<sys_update, "true">>   -> <<prop_update>>
    [] kv = <<sys_app, "true">>      -> <<prop_app>>
    [] kv = <<camerad, "true">>    -> <<prop_camerad>>
    [] kv = <<sys_web, "true">>      -> <<prop_web>>
    [] OTHER                       -> << >>]

RcTriggered == [kv \in Key \X Value |->
  CASE kv = <<sys_logd, "true">>     -> <<prop_logd>>
    [] kv = <<sys_bootan, "true">>   -> <<prop_bootan>>
    [] kv = <<sys_update, "true">>   -> <<prop_update>>
    [] kv = <<sys_app, "true">>      -> <<prop_app>>
    [] kv = <<camerad, "running">> -> <<prop_camerad>>
    [] kv = <<sys_web, "true">>      -> <<prop_web>>
    [] OTHER                       -> << >>]

Set(k) == [msg |-> "set", key |-> k, val |-> "true"]

LogdScript   == << Set(sys_logd) >>
BootanScript == << Set(sys_bootan) >>
WebScript    == << Set(sys_web) >>

\* Mutant: update_check goes on after it has started the update.
UpdateCheckGoesOn ==
  { << Set(sys_update), Set(sys_app) >>,
    << Set(sys_app), [msg |-> "stop", svc |-> bootan, args |-> FALSE] >> }

\* update_check: an update was found and unpacked, or the camera starts.
UpdateCheckScripts ==
  { << Set(sys_update) >>,
    << Set(sys_app), [msg |-> "stop", svc |-> bootan, args |-> FALSE] >> }

RcScripts == [s \in Service |->
  CASE s = logd         -> {LogdScript}
    [] s = bootan       -> {BootanScript}
    [] s = update_check -> UpdateCheckScripts
    [] s = web_server   -> {WebScript}
    [] OTHER            -> {<< >>}]

\* One free pid is as good as another.
RcNewPid == [free \in SUBSET Pid |-> IF free = {} THEN {} ELSE {CHOOSE p \in free : TRUE}]

\* The monitor runs this rc file, and nobody else has access to the property
\* socket; the pids, the backlog and what may fail are left open.
IsRc ==
  /\ Service = RcService /\ ServiceOrder = RcServiceOrder /\ Oneshot = RcOneshot
  /\ Class = RcClass /\ InClass = RcInClass /\ OnRestart = RcOnRestart
  /\ Action = RcAction /\ ActionOrder = RcActionOrder /\ BootOrder = RcBootOrder
  /\ Commands = RcCommands
  /\ Key = RcKey /\ Value = RcValue /\ Triggered = RcTriggered
  /\ Scripts = RcScripts /\ ClientMessage = {}
  /\ Distinct(<<logd, bootan, update_check, update, camerad, web_server,
                sys_logd, sys_bootan, sys_update, sys_app, sys_web>>)
  /\ Distinct(<<on_init, on_property, on_signal, on_early, on_boot, on_triggers,
                prop_logd, prop_bootan, prop_update, prop_app, prop_camerad, prop_web>>)

ASSUME RcAssumption == IsRc

-----------------------------------------------------------------------------
Running(s) == "RUNNING" \in flags[s]

\* The camera never starts its services and an update in the same boot, in
\* whatever order services die, come back and set their properties again.
NoUpdateWhileCameraRuns == ~(Running(update) /\ Running(camerad))

\* A oneshot service of the chain is started once per boot, although what
\* starts it may happen again when logd or camerad dies: once its process has
\* been reaped, no class_start takes it up again.
OneshotsStartOnce ==
  [][\A s \in Oneshot : pid'[s] # pid[s] /\ pid'[s] # NoPid => prop[s] = Unset]_vars

\* Every boot ends in the update or in a web server, whether the processes set
\* their properties before or after the monitor has enabled its triggers.
BootCompletes == <>(Running(update) \/ Running(web_server))

\* A camerad that came back has a web server, sooner or later.
WebFollowsCamerad == Running(camerad) ~> Running(web_server)
=============================================================================
