----------------------------- MODULE Connection -----------------------------
(***************************************************************************)
(* The connection of web_server: which client has it, the fingerprint the  *)
(* client shows, and the timer that ends the connection of a client that   *)
(* falls silent (src/web_server/control_center.py, util/timer_util.py).    *)
(*                                                                         *)
(* Every request has a thread of its own, and so has every timer.  The     *)
(* flag of the connection, the fingerprint and the timer are read and      *)
(* written one at a time.  connect_sem keeps connects apart, not the       *)
(* others.  camerad may take longer to answer than the timer waits, so     *)
(* here a timer may run out whenever it is armed.                          *)
(***************************************************************************)
EXTENDS FiniteSets

CONSTANTS
  Client,  \* each sends one request at a time
  Timer,   \* bound: the timers armed or running out at once
  None

VARIABLES
  connected,     \* self.connected
  random_data,   \* whose fingerprint is valid
  finger_print,  \* the clients whose last connect was answered
  connect_sem,   \* who holds it
  armed,         \* the timers that wait
  timer,         \* RepeatedTimer: _timer ...
  is_running,    \* ... and is_running
  pc,            \* what the thread of a request or of a timer does next
  crossed        \* history: a connect met a disconnect or another connection

watch == <<armed, timer, is_running>>
vars  == <<connected, random_data, finger_print, connect_sem, watch, pc, crossed>>

Thread == Client \cup Timer

Connecting == {"connect_stop", "token", "query", "fail", "release"}
Ending     == {"power_off", "unset", "unwatch", "forget"}
Step       == {"idle", "lock", "set", "watch", "state", "state_stop", "state_start",
               "disconnect", "run"} \cup Connecting \cup Ending

ASSUME ThreadAssumption == Client \cap Timer = {} /\ None \notin Thread

-----------------------------------------------------------------------------
(***************************************************************************)
(* RepeatedTimer                                                           *)
(***************************************************************************)
\* start: a new timer, unless one is running.  The thread of a timer can always be had:
\* were it refused, start() would only log it and nobody would watch the connection.
StartTimer ==
  \/ is_running /\ UNCHANGED watch
  \/ /\ ~is_running
     /\ \E t \in Timer \ armed :
          /\ pc[t] = "idle"
          /\ timer' = t
          /\ armed' = armed \cup {t}
     /\ is_running' = TRUE

\* A mutant of StopTimer: is_running keeps its value.
StopTimerOnly ==
  /\ armed' = armed \ {timer}
  /\ timer' = None
  /\ UNCHANGED is_running

\* stop: a timer that has run out already is not stopped by cancel.
StopTimer ==
  /\ armed' = armed \ {timer}
  /\ timer' = None
  /\ is_running' = FALSE

\* The wait of a timer is over ...
Expire(t) ==
  /\ t \in armed
  /\ armed' = armed \ {t}
  /\ pc' = [pc EXCEPT ![t] = "run"]
  /\ UNCHANGED <<connected, random_data, finger_print, connect_sem, timer, is_running, crossed>>

\* ... and _run clears is_running, of whichever timer it is, without the semaphore.
Run(t) ==
  /\ pc[t] = "run"
  /\ is_running' = FALSE
  /\ pc' = [pc EXCEPT ![t] = "power_off"]
  /\ UNCHANGED <<connected, random_data, finger_print, connect_sem, armed, timer, crossed>>

-----------------------------------------------------------------------------
(***************************************************************************)
(* camera_connect                                                          *)
(***************************************************************************)
Goto(x, l) == pc' = [pc EXCEPT ![x] = l]

\* osc_cmd_execute: the request is refused while another client is connected.
AskConnect(c) ==
  /\ pc[c] = "idle" /\ ~connected
  /\ Goto(c, "lock")
  /\ UNCHANGED <<connected, random_data, finger_print, connect_sem, watch, crossed>>

\* A mutant of Lock: aquire_connect_sem does not wait.
LockAtOnce(c) ==
  /\ pc[c] = "lock"
  /\ connect_sem' = c
  /\ Goto(c, "connect_stop")
  /\ UNCHANGED <<connected, random_data, finger_print, watch, crossed>>

Lock(c) ==
  /\ pc[c] = "lock" /\ connect_sem = None
  /\ connect_sem' = c
  /\ Goto(c, "connect_stop")
  /\ UNCHANGED <<connected, random_data, finger_print, watch, crossed>>

ConnectStop(c) ==
  /\ pc[c] = "connect_stop"
  /\ StopTimer
  /\ Goto(c, "token")
  /\ UNCHANGED <<connected, random_data, finger_print, connect_sem, crossed>>

\* generate_fp: the client's former fingerprint is no longer valid.
GenerateFp(c) ==
  /\ pc[c] = "token"
  /\ random_data' = c
  /\ finger_print' = finger_print \ {c}
  /\ Goto(c, "query")
  /\ UNCHANGED <<connected, connect_sem, watch, crossed>>

\* camera_get_last_info, and the answer built from it: without last_info it fails.
Query(c) ==
  /\ pc[c] = "query"
  /\ \E l \in {"release", "fail"} : Goto(c, l)
  /\ UNCHANGED <<connected, random_data, finger_print, connect_sem, watch, crossed>>

\* A mutant of ConnectFails: the exception leaves connect_sem taken.
ConnectFailsInside(c) ==
  /\ pc[c] = "fail"
  /\ crossed' = (crossed \/ connected)
  /\ Goto(c, "idle")
  /\ UNCHANGED <<connected, random_data, finger_print, connect_sem, watch>>

ConnectFails(c) ==
  /\ pc[c] = "fail"
  /\ connect_sem' = None
  /\ crossed' = (crossed \/ connected)
  /\ Goto(c, "idle")
  /\ UNCHANGED <<connected, random_data, finger_print, watch>>

Release(c) ==
  /\ pc[c] = "release"
  /\ connect_sem' = None
  /\ Goto(c, "set")
  /\ UNCHANGED <<connected, random_data, finger_print, watch, crossed>>

SetConnected(c) ==
  /\ pc[c] = "set"
  /\ connected' = TRUE
  /\ crossed' = (crossed \/ \E x \in Thread : pc[x] = "unwatch")
  /\ Goto(c, "watch")
  /\ UNCHANGED <<random_data, finger_print, connect_sem, watch>>

\* A mutant of ConnectStart: the timer is left to the first heartbeat.
ConnectStartLater(c) ==
  /\ pc[c] = "watch"
  /\ finger_print' = finger_print \cup {c}
  /\ Goto(c, "idle")
  /\ UNCHANGED <<connected, random_data, connect_sem, watch, crossed>>

ConnectStart(c) ==
  /\ pc[c] = "watch"
  /\ StartTimer
  /\ finger_print' = finger_print \cup {c}
  /\ Goto(c, "idle")
  /\ UNCHANGED <<connected, random_data, connect_sem, crossed>>

-----------------------------------------------------------------------------
(***************************************************************************)
(* The heartbeat: osc_path_execute and get_osc_state                       *)
(***************************************************************************)
\* get_connect; a client that has no fingerprint is refused.
AskState(c) ==
  /\ pc[c] = "idle" /\ connected /\ c \in finger_print
  /\ Goto(c, "state")
  /\ UNCHANGED <<connected, random_data, finger_print, connect_sem, watch, crossed>>

\* check_fp, but for the fingerprint "test", which it takes in every connection and no
\* client of the product sends.
CheckFp(c) ==
  /\ pc[c] \in {"state", "disconnect"}
  /\ Goto(c, IF random_data # c THEN "idle"
             ELSE IF pc[c] = "state" THEN "state_stop" ELSE "power_off")
  /\ UNCHANGED <<connected, random_data, finger_print, connect_sem, watch, crossed>>

StateStop(c) ==
  /\ pc[c] = "state_stop"
  /\ StopTimer
  /\ Goto(c, "state_start")
  /\ UNCHANGED <<connected, random_data, finger_print, connect_sem, crossed>>

StateStart(c) ==
  /\ pc[c] = "state_start"
  /\ StartTimer
  /\ Goto(c, "idle")
  /\ UNCHANGED <<connected, random_data, finger_print, connect_sem, crossed>>

-----------------------------------------------------------------------------
(***************************************************************************)
(* camera_disconnect, by the client or by a timer (poll_timeout, which     *)
(* goes on even when nobody is connected)                                  *)
(***************************************************************************)
AskDisconnect(c) ==
  /\ pc[c] = "idle" /\ connected /\ c \in finger_print
  /\ Goto(c, "disconnect")
  /\ UNCHANGED <<connected, random_data, finger_print, connect_sem, watch, crossed>>

\* modulePowerOff: up to FIFO_TO seconds.
ModulePowerOff(x) ==
  /\ pc[x] = "power_off"
  /\ Goto(x, "unset")
  /\ UNCHANGED <<connected, random_data, finger_print, connect_sem, watch, crossed>>

UnsetConnected(x) ==
  /\ pc[x] = "unset"
  /\ connected' = FALSE
  /\ Goto(x, "unwatch")
  /\ UNCHANGED <<random_data, finger_print, connect_sem, watch, crossed>>

DisconnectStop(x) ==
  /\ pc[x] = "unwatch"
  /\ StopTimer
  /\ Goto(x, "forget")
  /\ UNCHANGED <<connected, random_data, finger_print, connect_sem, crossed>>

Forget(x) ==
  /\ pc[x] = "forget"
  /\ random_data' = None
  /\ Goto(x, "idle")
  /\ UNCHANGED <<connected, finger_print, connect_sem, watch, crossed>>

-----------------------------------------------------------------------------
Init ==
  /\ connected = FALSE
  /\ random_data = None
  /\ finger_print = {}
  /\ connect_sem = None
  /\ armed = {} /\ timer = None /\ is_running = FALSE
  /\ pc = [x \in Thread |-> "idle"]
  /\ crossed = FALSE

Ask(c) == AskConnect(c) \/ AskState(c) \/ AskDisconnect(c)

ConnectStep(c) ==
  \/ ConnectStop(c) \/ GenerateFp(c) \/ Query(c) \/ ConnectFails(c)
  \/ Release(c) \/ SetConnected(c) \/ ConnectStart(c)

StateStep(c) == CheckFp(c) \/ StateStop(c) \/ StateStart(c)

DisconnectStep(x) == ModulePowerOff(x) \/ UnsetConnected(x) \/ DisconnectStop(x) \/ Forget(x)

ClientStep(c) == Lock(c) \/ ConnectStep(c) \/ StateStep(c) \/ DisconnectStep(c)

TimerStep(t) == Expire(t) \/ Run(t) \/ DisconnectStep(t)

Next ==
  \/ \E c \in Client : Ask(c) \/ ClientStep(c)
  \/ \E t \in Timer : TimerStep(t)

\* Threads run and armed timers run out; whoever waits for connect_sem is not
\* overtaken for ever.  A step of a request can only be disabled again by the bound
\* on timers, which the code does not have.  No client has to send anything.
Fairness ==
  /\ \A c \in Client : SF_vars(ClientStep(c))
  /\ \A t \in Timer : WF_vars(TimerStep(t))

Spec == Init /\ [][Next]_vars /\ Fairness

-----------------------------------------------------------------------------
(***************************************************************************)
(* Properties                                                              *)
(***************************************************************************)
\* The variables keep their types, and connect_sem is held by the one client that
\* is between aquire_connect_sem and release_connect_sem.
TypeOK ==
  /\ connected \in BOOLEAN /\ is_running \in BOOLEAN /\ crossed \in BOOLEAN
  /\ random_data \in Client \cup {None}
  /\ finger_print \subseteq Client
  /\ armed \subseteq Timer /\ timer \in Timer \cup {None}
  /\ pc \in [Thread -> Step]
  /\ connect_sem \in Client \cup {None}
  /\ \A c \in Client : pc[c] \in Connecting <=> connect_sem = c

AtRest == \A x \in Thread : pc[x] = "idle"

\* When nothing is under way, a timer watches the connected client: heartbeats,
\* timers that run out and disconnects may interleave in any way, only a connect
\* that meets the end of another connection can leave it unwatched, and then no
\* client can connect any more (get_osc_state, camera_connect, camera_disconnect
\* and RepeatedTimer).
ConnectedIsWatched == AtRest /\ connected /\ ~crossed => armed # {}

\* The connection of clients that have fallen silent ends by itself (POLL_TO),
\* unless a connect met the end of another connection.
SilentExpires ==
  <>[](\A c \in Client : pc[c] = "idle") => <>[](~connected \/ crossed)

\* Every request returns: connect_sem is released on every path (camera_connect).
CallsReturn == \A c \in Client : pc[c] # "idle" ~> pc[c] = "idle"
=============================================================================
