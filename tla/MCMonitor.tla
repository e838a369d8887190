------------------------------ MODULE MCMonitor ------------------------------
(***************************************************************************)
(* A part of misc/init.rc for TLC: web_server, whose restart restarts      *)
(* ui_service, the oneshot time_tz that sys.tz_changed=true starts, and    *)
(* clients that stop and start them.                                       *)
(***************************************************************************)
EXTENDS Monitor, TLC

CONSTANTS web_server, ui_service, time_tz, tz_changed,
          boot, tz_action

MCServiceOrder == <<web_server, ui_service, time_tz>>
MCInClass == [c \in {"main"} |-> <<web_server>>]
MCOnRestart == [s \in Service |->
  IF s = web_server THEN <<[cmd |-> "restart", svc |-> ui_service]>> ELSE << >>]
MCBootOrder == <<boot>>
MCActionOrder == <<tz_action>>
MCCommands == [a \in Action |->
  IF a = boot
  THEN <<[cmd |-> "property_service_init"], [cmd |-> "signal_init"],
         [cmd |-> "class_start", class |-> "main"], [cmd |-> "queue_property_triggers"]>>
  ELSE <<[cmd |-> "start", svc |-> time_tz]>>]
MCKey == Service \cup {tz_changed}
MCValue == {"running", "stopping", "stopped", "restarting", "true"}
MCTriggered == [kv \in Key \X Value |->
  IF kv = <<tz_changed, "true">> THEN <<tz_action>> ELSE << >>]
MCScripts == [s \in Service |-> {<< >>}]
MCClientMessage ==
  {[msg |-> "stop", svc |-> ui_service, args |-> FALSE],
   [msg |-> "set", key |-> tz_changed, val |-> "true"]}

\* What the theorems of MonitorLifecycle presume holds of this part of the rc file.
ASSUME MCAssumption == OnRestartSparesItself /\ RoomForEveryKey

MCNewPid == [free \in SUBSET Pid |-> free]

\* Nothing tells one pid from another.
PidSymmetry == Permutations(Pid)
=============================================================================
