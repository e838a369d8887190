--------------------------- MODULE ServiceLifecycle ---------------------------
(***************************************************************************)
(* What the monitor promises the rest of the camera about a service, as it *)
(* can be read from the property init.svc.<name>: a service runs because   *)
(* somebody started it or because it died while it was running; the death  *)
(* of one that was stopped, or is being stopped, makes it due for no       *)
(* restart, although somebody may start it again at any time.              *)
(***************************************************************************)
CONSTANTS Service, Unset

VARIABLES status,  \* the state of a service
          held     \* whether the monitor has a process of it to reap

Status == {Unset, "running", "stopping", "stopped", "restarting"}

Init ==
  /\ status = [s \in Service |-> Unset]
  /\ held = [s \in Service |-> FALSE]

Move(s, st, h) ==
  /\ status' = [status EXCEPT ![s] = st]
  /\ held' = [held EXCEPT ![s] = h]

\* Asked for, or due again after its process died.
Start(s) == status[s] # "running" /\ Move(s, "running", TRUE)

\* No process could be had.
StartFails(s) == status[s] # "running" /\ Move(s, status[s], FALSE)

\* Asked for; its process, if any, is killed.
Stop(s) == Move(s, IF held[s] THEN "stopping" ELSE "stopped", held[s])

\* Its process is gone.  Only a service that ran comes back.
ProcessGone(s) ==
  /\ held[s]
  /\ \/ Move(s, "stopped", FALSE)
     \/ status[s] = "running" /\ Move(s, "restarting", FALSE)

Next == \E s \in Service : Start(s) \/ StartFails(s) \/ Stop(s) \/ ProcessGone(s)

Spec == Init /\ [][Next]_<<status, held>>
=============================================================================
