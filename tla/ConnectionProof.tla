-------------------------- MODULE ConnectionProof --------------------------
(***************************************************************************)
(* Proofs about Connection: the types, the semaphore of the connects, and  *)
(* the timer that watches whoever is connected.                            *)
(***************************************************************************)
EXTENDS Connection, TLAPS

\* Where a thread has yet to start the timer again, to notice that it ran out, to
\* fail, or to end the connection.
Pending == {"token", "query", "fail", "release", "set", "watch", "state_start", "run",
            "power_off", "unset"}

Watched ==
  connected /\ ~crossed => armed # {} \/ \E x \in Thread : pc[x] \in Pending

\* is_running tells of a timer that waits or has just run out.
RunningIsTrue == is_running => timer \in armed \/ (timer \in Timer /\ pc[timer] = "run")

\* The timer is stopped for good only when nobody is connected.
UnwatchedIsFree == (\E x \in Thread : pc[x] = "unwatch") => ~connected \/ crossed

IInv ==
  /\ TypeOK
  /\ Watched
  /\ RunningIsTrue
  /\ UnwatchedIsFree

-----------------------------------------------------------------------------
LEMMA ThreadFacts ==
  /\ Client \subseteq Thread /\ Timer \subseteq Thread
  /\ \A x \in Thread : x \in Client <=> x \notin Timer
  /\ \A x \in Thread : x # None
  BY ThreadAssumption DEF Thread

LEMMA InitInv ==
  ASSUME Init
  PROVE  IInv
  BY ThreadFacts DEF Init, IInv, TypeOK, Step, Connecting, Watched, RunningIsTrue, UnwatchedIsFree

\* A thread that goes from l to m, neither of them between the two ends of the
\* semaphore, leaves the types alone.
LEMMA MoveType ==
  ASSUME TypeOK, NEW x \in Thread, NEW m \in Step, Goto(x, m), UNCHANGED connect_sem,
         pc[x] \in Connecting <=> m \in Connecting
  PROVE  /\ pc' \in [Thread -> Step]
         /\ \A c \in Client : pc'[c] \in Connecting <=> connect_sem' = c
  BY ThreadFacts DEF TypeOK, Goto

\* The timer is running after a start, and its fields keep their types.
LEMMA StartTimerWatches ==
  ASSUME IInv, StartTimer, NEW c \in Client, NEW m \in Step, Goto(c, m), pc[c] # "run",
         m # "run"
  PROVE  /\ armed' \subseteq Timer /\ timer' \in Timer \cup {None} /\ is_running' \in BOOLEAN
         /\ RunningIsTrue'
         /\ armed' # {} \/ \E t \in Timer : pc'[t] = "run"
<1>1. CASE is_running /\ UNCHANGED watch
  <2>1. \A t \in Timer : pc'[t] = pc[t]
    BY ThreadFacts DEF Goto, IInv, TypeOK
  <2>. QED BY <1>1, <2>1 DEF IInv, TypeOK, watch, RunningIsTrue
<1>2. CASE ~is_running
  <2>1. PICK t \in Timer : timer' = t /\ armed' = armed \cup {t}
    BY <1>2 DEF StartTimer
  <2>. QED BY <1>2, <2>1 DEF StartTimer, IInv, TypeOK, RunningIsTrue
<1>. QED BY <1>1, <1>2 DEF StartTimer

LEMMA StopTimerType ==
  ASSUME TypeOK, StopTimer
  PROVE  /\ armed' \subseteq Timer /\ timer' \in Timer \cup {None} /\ is_running' = FALSE
  BY DEF StopTimer, TypeOK

-----------------------------------------------------------------------------
LEMMA AskInv ==
  ASSUME IInv, NEW c \in Client, Ask(c)
  PROVE  IInv'
<1>1. /\ UNCHANGED <<connected, random_data, finger_print, connect_sem, watch, crossed>>
      /\ pc[c] = "idle"
      /\ \E m \in {"lock", "state", "disconnect"} : Goto(c, m)
  BY DEF Ask, AskConnect, AskState, AskDisconnect
<1>2. PICK m \in {"lock", "state", "disconnect"} : Goto(c, m)
  BY <1>1
<1>3. TypeOK'
  BY <1>1, <1>2, MoveType, ThreadFacts DEF IInv, TypeOK, watch, Step, Connecting
<1>4. \A x \in Thread : x # c => pc'[x] = pc[x]
  BY <1>2 DEF Goto, IInv, TypeOK
<1>5. pc'[c] = m /\ c \notin Timer
  BY <1>2, ThreadFacts DEF Goto, IInv, TypeOK
<1>. QED BY <1>1, <1>3, <1>4, <1>5, ThreadFacts DEF IInv, watch, Watched, RunningIsTrue,
     UnwatchedIsFree, Pending

\* What a step of the thread x changes of pc.
LEMMA Others ==
  ASSUME TypeOK, NEW x \in Thread, NEW m \in Step, Goto(x, m)
  PROVE  /\ pc'[x] = m
         /\ \A y \in Thread : y # x => pc'[y] = pc[y]
  BY DEF TypeOK, Goto

LEMMA LockInv ==
  ASSUME IInv, NEW c \in Client, Lock(c)
  PROVE  IInv'
<1>1. /\ pc[c] = "lock" /\ connect_sem = None /\ connect_sem' = c /\ Goto(c, "connect_stop")
      /\ UNCHANGED <<connected, random_data, finger_print, watch, crossed>>
  BY DEF Lock
<1>2. pc'[c] = "connect_stop" /\ \A y \in Thread : y # c => pc'[y] = pc[y]
  BY <1>1, Others, ThreadFacts DEF IInv, Step, Connecting
<1>3. \A d \in Client : pc[d] \notin Connecting
  BY <1>1, ThreadFacts DEF IInv, TypeOK
<1>4. pc' \in [Thread -> Step]
  BY <1>1, ThreadFacts DEF Goto, IInv, TypeOK, Step, Connecting
<1>5. TypeOK'
  BY <1>1, <1>2, <1>3, <1>4, ThreadFacts DEF IInv, TypeOK, watch, Connecting
<1>. QED BY <1>1, <1>2, <1>5, ThreadFacts DEF IInv, watch, Watched, RunningIsTrue,
     UnwatchedIsFree, Pending

LEMMA ConnectStopInv ==
  ASSUME IInv, NEW c \in Client, ConnectStop(c)
  PROVE  IInv'
<1>1. /\ pc[c] = "connect_stop" /\ StopTimer /\ Goto(c, "token")
      /\ UNCHANGED <<connected, random_data, finger_print, connect_sem, crossed>>
  BY DEF ConnectStop
<1>2. pc'[c] = "token" /\ \A y \in Thread : y # c => pc'[y] = pc[y]
  BY <1>1, Others, ThreadFacts DEF IInv, Step, Connecting
<1>3. TypeOK'
  BY <1>1, MoveType, StopTimerType, ThreadFacts DEF IInv, TypeOK, Step, Connecting
<1>. QED BY <1>1, <1>2, <1>3, StopTimerType, ThreadFacts DEF IInv, Watched, RunningIsTrue,
     UnwatchedIsFree, Pending

LEMMA GenerateFpInv ==
  ASSUME IInv, NEW c \in Client, GenerateFp(c) \/ Query(c)
  PROVE  IInv'
<1>1. /\ UNCHANGED <<connected, connect_sem, watch, crossed>>
      /\ random_data' \in Client \cup {None} /\ finger_print' \subseteq Client
      /\ pc[c] \in {"token", "query"}
  BY DEF GenerateFp, Query, IInv, TypeOK
<1>2. PICK m \in {"query", "release", "fail"} : Goto(c, m)
  BY DEF GenerateFp, Query
<1>3. pc'[c] = m /\ \A y \in Thread : y # c => pc'[y] = pc[y]
  BY <1>2, Others, ThreadFacts DEF IInv, Step, Connecting
<1>4. TypeOK'
  BY <1>1, <1>2, MoveType, ThreadFacts DEF IInv, TypeOK, watch, Step, Connecting
<1>. QED BY <1>1, <1>3, <1>4, ThreadFacts DEF IInv, watch, Watched, RunningIsTrue,
     UnwatchedIsFree, Pending

LEMMA ReleaseInv ==
  ASSUME IInv, NEW c \in Client, ConnectFails(c) \/ Release(c)
  PROVE  IInv'
<1>1. /\ UNCHANGED <<connected, random_data, finger_print, watch>> /\ connect_sem' = None
      /\ \/ pc[c] = "fail" /\ Goto(c, "idle") /\ crossed' = (crossed \/ connected)
         \/ pc[c] = "release" /\ Goto(c, "set") /\ crossed' = crossed
  BY DEF ConnectFails, Release
<1>2. PICK m \in {"idle", "set"} : Goto(c, m) /\ (m = "idle" => ~connected' \/ crossed')
  BY <1>1 DEF IInv, TypeOK
<1>3. pc'[c] = m /\ \A y \in Thread : y # c => pc'[y] = pc[y]
  BY <1>2, Others, ThreadFacts DEF IInv, Step
<1>4. pc' \in [Thread -> Step] /\ crossed' \in BOOLEAN
  BY <1>1, <1>2, ThreadFacts DEF Goto, IInv, TypeOK, Step
<1>5. \A d \in Client : pc'[d] \notin Connecting
  BY <1>1, <1>3, ThreadFacts DEF IInv, TypeOK, Connecting
<1>6. TypeOK'
  BY <1>1, <1>4, <1>5, ThreadFacts DEF IInv, TypeOK, watch
<1>7. crossed => crossed'
  BY <1>1
<1>. QED BY <1>1, <1>2, <1>3, <1>6, <1>7, ThreadFacts DEF IInv, watch, Watched, RunningIsTrue,
     UnwatchedIsFree, Pending

LEMMA SetConnectedInv ==
  ASSUME IInv, NEW c \in Client, SetConnected(c)
  PROVE  IInv'
<1>1. /\ pc[c] = "set" /\ connected' = TRUE /\ Goto(c, "watch")
      /\ UNCHANGED <<random_data, finger_print, connect_sem, watch>>
      /\ crossed' = (crossed \/ \E x \in Thread : pc[x] = "unwatch")
  BY DEF SetConnected
<1>2. pc'[c] = "watch" /\ \A y \in Thread : y # c => pc'[y] = pc[y]
  BY <1>1, Others, ThreadFacts DEF IInv, Step
<1>3. TypeOK'
  BY <1>1, MoveType, ThreadFacts DEF IInv, TypeOK, watch, Step, Connecting
<1>. QED BY <1>1, <1>2, <1>3, ThreadFacts DEF IInv, watch, Watched, RunningIsTrue,
     UnwatchedIsFree, Pending

LEMMA StartInv ==
  ASSUME IInv, NEW c \in Client, ConnectStart(c) \/ StateStart(c)
  PROVE  IInv'
<1>1. /\ pc[c] \in {"watch", "state_start"} /\ StartTimer /\ Goto(c, "idle")
      /\ UNCHANGED <<connected, random_data, connect_sem, crossed>>
      /\ finger_print' \subseteq Client
  BY DEF ConnectStart, StateStart, IInv, TypeOK
<1>2. pc'[c] = "idle" /\ \A y \in Thread : y # c => pc'[y] = pc[y]
  BY <1>1, Others, ThreadFacts DEF IInv, Step
<1>3. /\ armed' \subseteq Timer /\ timer' \in Timer \cup {None} /\ is_running' \in BOOLEAN
      /\ RunningIsTrue'
      /\ armed' # {} \/ \E t \in Timer : pc'[t] = "run"
  BY <1>1, StartTimerWatches DEF Step
<1>4. TypeOK'
  BY <1>1, <1>3, MoveType, ThreadFacts DEF IInv, TypeOK, Step, Connecting
<1>. QED BY <1>1, <1>2, <1>3, <1>4, ThreadFacts DEF IInv, Watched, UnwatchedIsFree, Pending

LEMMA StateInv ==
  ASSUME IInv, NEW c \in Client, CheckFp(c) \/ StateStop(c)
  PROVE  IInv'
<1>1. UNCHANGED <<connected, random_data, finger_print, connect_sem, crossed>>
  BY DEF CheckFp, StateStop
<1>2. CASE CheckFp(c)
  <2>1. UNCHANGED watch /\ pc[c] \in {"state", "disconnect"}
    BY <1>2 DEF CheckFp
  <2>2. PICK m \in {"idle", "state_stop", "power_off"} : Goto(c, m)
    BY <1>2 DEF CheckFp
  <2>3. pc'[c] = m /\ \A y \in Thread : y # c => pc'[y] = pc[y]
    BY <2>2, Others, ThreadFacts DEF IInv, Step, Ending
  <2>4. TypeOK'
    BY <1>1, <2>1, <2>2, MoveType, ThreadFacts
       DEF IInv, TypeOK, watch, Step, Connecting, Ending
  <2>. QED BY <1>1, <2>1, <2>3, <2>4, ThreadFacts DEF IInv, watch, Watched, RunningIsTrue,
       UnwatchedIsFree, Pending
<1>3. CASE StateStop(c)
  <2>1. pc[c] = "state_stop" /\ StopTimer /\ Goto(c, "state_start")
    BY <1>3 DEF StateStop
  <2>2. pc'[c] = "state_start" /\ \A y \in Thread : y # c => pc'[y] = pc[y]
    BY <2>1, Others, ThreadFacts DEF IInv, Step
  <2>3. TypeOK'
    BY <1>1, <2>1, MoveType, StopTimerType, ThreadFacts DEF IInv, TypeOK, Step, Connecting
  <2>. QED BY <1>1, <2>1, <2>2, <2>3, StopTimerType, ThreadFacts DEF IInv, Watched,
       RunningIsTrue, UnwatchedIsFree, Pending
<1>. QED BY <1>2, <1>3

-----------------------------------------------------------------------------
LEMMA DisconnectInv ==
  ASSUME IInv, NEW x \in Thread, DisconnectStep(x)
  PROVE  IInv'
<1>1. CASE ModulePowerOff(x)
  <2>1. /\ pc[x] = "power_off" /\ Goto(x, "unset")
        /\ UNCHANGED <<connected, random_data, finger_print, connect_sem, watch, crossed>>
    BY <1>1 DEF ModulePowerOff
  <2>2. pc'[x] = "unset" /\ \A y \in Thread : y # x => pc'[y] = pc[y]
    BY <2>1, Others, ThreadFacts DEF IInv, Step, Ending
  <2>3. TypeOK'
    BY <2>1, MoveType, ThreadFacts DEF IInv, TypeOK, watch, Step, Connecting, Ending
  <2>. QED BY <2>1, <2>2, <2>3, ThreadFacts DEF IInv, watch, Watched, RunningIsTrue,
       UnwatchedIsFree, Pending
<1>2. CASE UnsetConnected(x)
  <2>1. /\ pc[x] = "unset" /\ Goto(x, "unwatch") /\ connected' = FALSE
        /\ UNCHANGED <<random_data, finger_print, connect_sem, watch, crossed>>
    BY <1>2 DEF UnsetConnected
  <2>2. pc'[x] = "unwatch" /\ \A y \in Thread : y # x => pc'[y] = pc[y]
    BY <2>1, Others, ThreadFacts DEF IInv, Step, Ending
  <2>3. TypeOK'
    BY <2>1, MoveType, ThreadFacts DEF IInv, TypeOK, watch, Step, Connecting, Ending
  <2>. QED BY <2>1, <2>2, <2>3, ThreadFacts DEF IInv, watch, Watched, RunningIsTrue,
       UnwatchedIsFree
<1>3. CASE DisconnectStop(x)
  <2>1. /\ pc[x] = "unwatch" /\ StopTimer /\ Goto(x, "forget")
        /\ UNCHANGED <<connected, random_data, finger_print, connect_sem, crossed>>
    BY <1>3 DEF DisconnectStop
  <2>2. pc'[x] = "forget" /\ \A y \in Thread : y # x => pc'[y] = pc[y]
    BY <2>1, Others, ThreadFacts DEF IInv, Step, Ending
  <2>3. TypeOK'
    BY <2>1, MoveType, StopTimerType, ThreadFacts
       DEF IInv, TypeOK, Step, Connecting, Ending
  <2>4. ~connected' \/ crossed'
    BY <2>1 DEF IInv, UnwatchedIsFree
  <2>. QED BY <2>1, <2>2, <2>3, <2>4, StopTimerType DEF IInv, Watched, RunningIsTrue,
       UnwatchedIsFree
<1>4. CASE Forget(x)
  <2>1. /\ pc[x] = "forget" /\ Goto(x, "idle") /\ random_data' = None
        /\ UNCHANGED <<connected, finger_print, connect_sem, watch, crossed>>
    BY <1>4 DEF Forget
  <2>2. pc'[x] = "idle" /\ \A y \in Thread : y # x => pc'[y] = pc[y]
    BY <2>1, Others, ThreadFacts DEF IInv, Step
  <2>3. TypeOK'
    BY <2>1, MoveType, ThreadFacts DEF IInv, TypeOK, watch, Step, Connecting, Ending
  <2>. QED BY <2>1, <2>2, <2>3, ThreadFacts DEF IInv, watch, Watched, RunningIsTrue,
       UnwatchedIsFree, Pending
<1>. QED BY <1>1, <1>2, <1>3, <1>4 DEF DisconnectStep

LEMMA ExpireInv ==
  ASSUME IInv, NEW t \in Timer, Expire(t)
  PROVE  IInv'
<1>1. /\ t \in armed /\ armed' = armed \ {t} /\ Goto(t, "run")
      /\ UNCHANGED <<connected, random_data, finger_print, connect_sem, timer, is_running,
                     crossed>>
  BY DEF Expire, Goto
<1>2. pc'[t] = "run" /\ \A y \in Thread : y # t => pc'[y] = pc[y]
  BY <1>1, Others, ThreadFacts DEF IInv, Step
<1>3. pc' \in [Thread -> Step] /\ \A c \in Client : pc'[c] = pc[c]
  BY <1>1, <1>2, ThreadFacts DEF Goto, IInv, TypeOK, Step
<1>4. TypeOK'
  BY <1>1, <1>3 DEF IInv, TypeOK
<1>. QED BY <1>1, <1>2, <1>4, ThreadFacts DEF IInv, Watched, RunningIsTrue,
     UnwatchedIsFree, Pending

LEMMA RunInv ==
  ASSUME IInv, NEW t \in Timer, Run(t)
  PROVE  IInv'
<1>1. /\ pc[t] = "run" /\ Goto(t, "power_off") /\ is_running' = FALSE
      /\ UNCHANGED <<connected, random_data, finger_print, connect_sem, armed, timer, crossed>>
  BY DEF Run, Goto
<1>2. pc'[t] = "power_off" /\ \A y \in Thread : y # t => pc'[y] = pc[y]
  BY <1>1, Others, ThreadFacts DEF IInv, Step, Ending
<1>3. pc' \in [Thread -> Step] /\ \A c \in Client : pc'[c] = pc[c]
  BY <1>1, <1>2, ThreadFacts DEF Goto, IInv, TypeOK, Step, Ending
<1>4. TypeOK'
  BY <1>1, <1>3 DEF IInv, TypeOK
<1>. QED BY <1>1, <1>2, <1>4, ThreadFacts DEF IInv, Watched, RunningIsTrue,
     UnwatchedIsFree, Pending

-----------------------------------------------------------------------------
LEMMA NextInv ==
  ASSUME IInv, [Next]_vars
  PROVE  IInv'
<1>1. ASSUME NEW c \in Client, Ask(c) \/ ClientStep(c)
      PROVE  IInv'
  BY <1>1, ThreadFacts, AskInv, LockInv, ConnectStopInv, GenerateFpInv, ReleaseInv,
     SetConnectedInv, StartInv, StateInv, DisconnectInv DEF ClientStep, ConnectStep, StateStep
<1>2. ASSUME NEW t \in Timer, TimerStep(t)
      PROVE  IInv'
  BY <1>2, ThreadFacts, ExpireInv, RunInv, DisconnectInv DEF TimerStep
<1>3. CASE UNCHANGED vars
  BY <1>3 DEF vars, watch, IInv, TypeOK, Watched, RunningIsTrue, UnwatchedIsFree
<1>. QED BY <1>1, <1>2, <1>3 DEF Next

\* The inductive invariant of the connection.
THEOREM ConnectionInvariance == Spec => []IInv
<1>1. Init => IInv
  BY InitInv
<1>2. IInv /\ [Next]_vars => IInv'
  BY NextInv
<1>. QED BY <1>1, <1>2, PTL DEF Spec

\* The variables of the connection keep their types, and connect_sem is held by
\* exactly the client that is connecting (camera_connect), for any number of
\* clients and timers.
THEOREM ConnectionTypeCorrect == Spec => []TypeOK
<1>1. IInv => TypeOK
  BY DEF IInv
<1>. QED BY <1>1, ConnectionInvariance, PTL

\* Whoever is connected when nothing is under way is watched by a timer, unless a
\* connect met the end of another connection (RepeatedTimer and its callers), for
\* any number of clients and timers.
THEOREM ConnectedAlwaysWatched == Spec => []ConnectedIsWatched
<1>1. IInv => ConnectedIsWatched
  BY DEF IInv, ConnectedIsWatched, Watched, AtRest, Pending
<1>. QED BY <1>1, ConnectionInvariance, PTL
=============================================================================
