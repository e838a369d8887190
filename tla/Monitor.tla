------------------------------ MODULE Monitor ------------------------------
(***************************************************************************)
(* The monitor (src/init): the process that starts, watches and restarts   *)
(* every service of the camera.  One thread runs the loop of main(): it    *)
(* executes one command of the current action, restarts what is due, polls *)
(* its descriptors and serves a property message and the SIGCHLD pipe.     *)
(* Around it live the processes of the services, which exit whenever they  *)
(* like, and the clients of the property service.                          *)
(*                                                                         *)
(* A call that the C code makes on several services in a row (a class      *)
(* command, ctl.restart, an onrestart list) is a list of steps, todo: the  *)
(* loop goes on when it is empty.                                          *)
(***************************************************************************)
EXTENDS Naturals, Sequences, FiniteSets, ActionQueue

CONSTANTS
  Service,        \* the services of the rc file
  ServiceOrder,   \* the same, in the order of the file (service_list)
  Class, InClass, \* InClass[c]: the services of class c, in file order
  Oneshot,        \* services with the options oneshot,
  RcDisabled,     \* disabled
  Console,        \* and console; no console is ever opened, see CanStart
  OnRestart,      \* the onrestart commands of a service
  ActionOrder,    \* the actions with a property trigger, in file order
  BootOrder,      \* the actions main() queues before it enters the loop
  Commands,       \* the commands of an action
  Key, Value,     \* properties; a service stands for its init.svc.<name>
  Unset,          \* a property nobody has set
  RoKey,          \* the ro.* properties
  Triggered,      \* Triggered[<<k, v>>]: the actions on property:k=v, in order
  PropMax,        \* PA_COUNT_MAX
  Pid, NoPid,     \* process ids; the kernel reuses them
  NewPid,         \* NewPid[free]: the free pids fork() may return
  NoAction,
  Scripts,        \* what the process of a service may send, in order
  MayCrash,       \* services whose process may exit at any moment
  Finishes,       \* services whose process returns once its script is sent
  MayBeMissing,   \* services whose program stat() may not find
  ForkMayFail,
  ClientMessage,  \* what clients that are no service of the rc file send
  LoopMayStall,   \* 5 s may pass from a start on without the loop ever being idle
  Backlog         \* listen(fd, 8): property messages that may wait

VARIABLES
  flags,     \* svc->flags, the changing ones
  pid,       \* svc->pid
  clock,     \* svc->time_started against now: see FiveSecondsPass
  proc,      \* the processes the kernel knows
  prop,      \* the property area
  list,      \* action_queue
  cur, ip,   \* cur_action and the index of cur_command, 0 for none
  inited,    \* what the builtin actions have set up
  todo,      \* the rest of the call in progress
  stage,     \* the statement of the loop that comes next
  needs,     \* the services process_needs_restart was computed from
  ready,     \* the descriptors poll() returned
  inbox,     \* connections waiting on the property socket
  sigchld    \* the SIGCHLD pipe is readable

svcVars  == <<flags, pid, clock, proc>>
loopVars == <<cur, ip, inited, stage, needs, ready>>
vars     == <<svcVars, prop, list, loopVars, todo, inbox, sigchld>>

-----------------------------------------------------------------------------
Flag == {"RUNNING", "RESTARTING", "DISABLED", "RESET"}

\* The keywords of the rc file that change what is modelled; "other" are the
\* rest (mkdir, export, ...).  Nothing in the repository sets init.svc.* itself.
RcCommand ==
       [cmd : {"start", "stop", "restart"}, svc : Service]
  \cup [cmd : {"class_start", "class_stop", "class_reset"}, class : Class]
  \cup [cmd : {"setprop"}, key : Key \ Service, val : Value]
  \cup [cmd : {"other"}]

Command == RcCommand
  \cup [cmd : {"property_service_init", "signal_init", "queue_property_triggers"}]

Message ==
       [msg : {"set"}, key : Key \ Service, val : Value]
  \cup [msg : {"start", "stop", "restart"}, svc : Service, args : BOOLEAN]
  \cup [msg : {"denied"}]

SvcOp == {"start", "start_args", "start_enabled", "stop", "reset", "respawn", "restarting"}

Op ==  [op : SvcOp, svc : Service]
  \cup [op : {"enqueue", "enqueue_matching"}, act : Action]
  \cup [op : {"set"}, key : Key \ Service, val : Value]
  \cup [op : {"onrestart"}, cmd : RcCommand]
  \cup [op : {"reap"}]

NoProc == [st |-> "none"]

Process == [st : {"forked", "grouped", "dying", "zombie"}, svc : Service, script : Seq(Message)]

ASSUME ServiceAssumption ==
  /\ ServiceOrder \in Seq(Service)
  /\ Oneshot \cup RcDisabled \cup Console \cup MayCrash \cup Finishes \cup MayBeMissing \subseteq Service
  /\ InClass \in [Class -> Seq(Service)]
  /\ OnRestart \in [Service -> Seq(RcCommand)]
  /\ {ForkMayFail, LoopMayStall} \subseteq BOOLEAN

ASSUME ActionAssumption ==
  /\ NoAction \notin Action
  /\ ActionOrder \in Seq(Action) /\ BootOrder \in Seq(Action)
  /\ Commands \in [Action -> Seq(Command)]

ASSUME PropertyAssumption ==
  /\ Service \subseteq Key /\ RoKey \subseteq Key \ Service
  /\ {"running", "stopping", "stopped", "restarting"} \subseteq Value
  /\ Unset \notin Value
  /\ Triggered \in [Key \X Value -> Seq(Action)]
  /\ ClientMessage \subseteq Message

ASSUME ProcessAssumption ==
  /\ NoPid \notin Pid
  /\ NewPid \in [SUBSET Pid -> SUBSET Pid]
  /\ \A free \in SUBSET Pid : NewPid[free] \subseteq free
  /\ Scripts \in [Service -> SUBSET Seq(Message)]
  /\ \A s \in Service : Scripts[s] # {}
  /\ Backlog \in Nat \ {0}

TypeOK ==
  /\ flags \in [Service -> SUBSET Flag]
  /\ pid \in [Service -> Pid \cup {NoPid}]
  /\ clock \in [Service -> {"started", "rested", "over"}]
  /\ proc \in [Pid -> Process \cup {NoProc}]
  /\ prop \in [Key -> Value \cup {Unset}]
  /\ list \in List
  /\ cur \in Action \cup {NoAction} /\ ip \in Nat
  /\ inited \subseteq {"property_service", "signals", "triggers"}
  /\ todo \in Seq(Op)
  /\ stage \in {"execute", "restart", "poll", "property", "signal"}
  /\ needs \subseteq Service
  /\ ready \subseteq {"property", "signal"}
  /\ inbox \in Seq(Message) /\ sigchld \in BOOLEAN

-----------------------------------------------------------------------------
(***************************************************************************)
(* Steps of a call                                                         *)
(***************************************************************************)
SvcOps(kind, ss) == [i \in DOMAIN ss |-> [op |-> kind, svc |-> ss[i]]]

Enqueues(kind, acts) == [i \in DOMAIN acts |-> [op |-> kind, act |-> acts[i]]]

\* What a command of an action or of an onrestart list does.
Expand(c) ==
  CASE c.cmd = "start"       -> <<[op |-> "start", svc |-> c.svc]>>
    [] c.cmd = "stop"        -> <<[op |-> "stop", svc |-> c.svc]>>
    [] c.cmd = "restart"     -> <<[op |-> "stop", svc |-> c.svc], [op |-> "start", svc |-> c.svc]>>
    [] c.cmd = "class_start" -> SvcOps("start_enabled", InClass[c.class])
    [] c.cmd = "class_stop"  -> SvcOps("stop", InClass[c.class])
    [] c.cmd = "class_reset" -> SvcOps("reset", InClass[c.class])
    [] c.cmd = "setprop"     -> <<[op |-> "set", key |-> c.key, val |-> c.val]>>
    [] c.cmd = "signal_init" -> <<[op |-> "reap"]>>
    [] c.cmd = "queue_property_triggers" -> Enqueues("enqueue_matching", ActionOrder)
    [] OTHER                 -> << >>

OnRestartOps(s) == [i \in DOMAIN OnRestart[s] |-> [op |-> "onrestart", cmd |-> OnRestart[s][i]]]

\* Two conditions some theorems are about, see MonitorLifecycle: no service is
\* started or stopped by its own onrestart list, and no property is ever refused
\* because the area is full.
OnRestartSparesItself ==
  \A s \in Service : \A i \in DOMAIN OnRestart[s] :
    LET ops == Expand(OnRestart[s][i])
    IN  \A j \in DOMAIN ops : ops[j].op \in SvcOp => ops[j].svc # s

RoomForEveryKey == IsFiniteSet(Key) /\ Cardinality(Key) <= PropMax

\* What a ctl. message does.  "restart" looks the service up twice: by the
\* whole argument to stop it, without the part after ':' to start it.
ControlOps(m) ==
  LET start == [op |-> IF m.args THEN "start_args" ELSE "start", svc |-> m.svc]
      stop  == [op |-> "stop", svc |-> m.svc]
  IN  CASE m.msg = "start"   -> <<start>>
        [] m.msg = "stop"    -> IF m.args THEN << >> ELSE <<stop>>
        [] m.msg = "restart" -> IF m.args THEN <<start>> ELSE <<stop, start>>

-----------------------------------------------------------------------------
(***************************************************************************)
(* Properties                                                              *)
(***************************************************************************)
Defined == {k \in Key : prop[k] # Unset}

\* A read-only property keeps its first value, and a full area takes no new one.
Refused(k) == \/ k \in Defined \cap RoKey
              \/ k \notin Defined /\ Cardinality(Defined) = PropMax

\* _property_set and then property_changed; rest is what the caller still does.
\* Mutant: the test of property_triggers_enabled is forgotten.
SetPropAlwaysTriggers(k, v, rest) ==
  IF Refused(k)
  THEN /\ todo' = rest
       /\ UNCHANGED prop
  ELSE /\ prop' = [prop EXCEPT ![k] = v]
       /\ todo' = Enqueues("enqueue", Triggered[<<k, v>>]) \o rest

\* _property_set and then property_changed; rest is what the caller still does.
SetProp(k, v, rest) ==
  IF Refused(k)
  THEN /\ todo' = rest
       /\ UNCHANGED prop
  ELSE /\ prop' = [prop EXCEPT ![k] = v]
       /\ todo' = IF "triggers" \in inited THEN Enqueues("enqueue", Triggered[<<k, v>>]) \o rest
                  ELSE rest

\* Mutant: what was set before the triggers were enabled is not looked at.
MatchesNothing(a) == FALSE

Matches(a) ==
  \E k \in Defined : \E i \in DOMAIN Triggered[<<k, prop[k]>>] : Triggered[<<k, prop[k]>>][i] = a

-----------------------------------------------------------------------------
(***************************************************************************)
(* service_start, on the service of the step at the head of todo           *)
(***************************************************************************)
FreePid == {p \in Pid : proc[p] = NoProc}

\* Mutant: SVC_RESTARTING is not among the flags that are cleared.
ClearedButRestarting(s) == flags[s] \ {"DISABLED", "RESET"}

Cleared(s) == flags[s] \ {"DISABLED", "RESTARTING", "RESET"}

\* A running service is left alone, but for its flags and time_started.
StartRunning(s) ==
  /\ "RUNNING" \in flags[s]
  /\ flags' = [flags EXCEPT ![s] = Cleared(s)]
  /\ clock' = [clock EXCEPT ![s] = "over"]
  /\ todo' = Tail(todo)
  /\ UNCHANGED <<pid, proc, prop>>

\* No console, no program, or arguments for a service that is not oneshot.
StartRefused(s, args) ==
  /\ "RUNNING" \notin flags[s]
  /\ s \in Console \cup MayBeMissing \/ (args /\ s \notin Oneshot)
  /\ flags' = [flags EXCEPT ![s] = Cleared(s) \cup {"DISABLED"}]
  /\ clock' = [clock EXCEPT ![s] = "over"]
  /\ todo' = Tail(todo)
  /\ UNCHANGED <<pid, proc, prop>>

\* Mutant: the test of SVC_RUNNING is forgotten.
CanStartRunning(s, args) == s \notin Console /\ (args => s \in Oneshot)

CanStart(s, args) ==
  "RUNNING" \notin flags[s] /\ s \notin Console /\ (args => s \in Oneshot)

\* Mutant: SVC_RUNNING is set whatever fork() returned.
StartForkFailsRunning(s, args) ==
  /\ CanStart(s, args)
  /\ ForkMayFail \/ FreePid = {}
  /\ flags' = [flags EXCEPT ![s] = Cleared(s) \cup {"RUNNING"}]
  /\ clock' = [clock EXCEPT ![s] = "over"]
  /\ pid' = [pid EXCEPT ![s] = NoPid]
  /\ todo' = Tail(todo)
  /\ UNCHANGED <<proc, prop>>

StartForkFails(s, args) ==
  /\ CanStart(s, args)
  /\ ForkMayFail \/ FreePid = {}
  /\ flags' = [flags EXCEPT ![s] = Cleared(s)]
  /\ clock' = [clock EXCEPT ![s] = "over"]
  /\ pid' = [pid EXCEPT ![s] = NoPid]
  /\ todo' = Tail(todo)
  /\ UNCHANGED <<proc, prop>>

StartForks(s, args) ==
  /\ CanStart(s, args)
  /\ \E p \in NewPid[FreePid], script \in Scripts[s] :
       /\ pid' = [pid EXCEPT ![s] = p]
       /\ proc' = [proc EXCEPT ![p] = [st |-> "forked", svc |-> s, script |-> script]]
  /\ flags' = [flags EXCEPT ![s] = Cleared(s) \cup {"RUNNING"}]
  /\ clock' = [clock EXCEPT ![s] = "started"]
  /\ SetProp(s, "running", Tail(todo))

ServiceStart(s, args) ==
  /\ \/ StartRunning(s)
     \/ StartRefused(s, args)
     \/ StartForkFails(s, args)
     \/ StartForks(s, args)
  /\ UNCHANGED <<list, loopVars, inbox, sigchld>>

(***************************************************************************)
(* service_stop_or_reset.  kill(-pid) finds nobody before the child has    *)
(* called setpgid, and changes nothing for a process that has exited.      *)
(***************************************************************************)
Kill(p) ==
  proc' = IF proc[p].st = "grouped" THEN [proc EXCEPT ![p].st = "dying"] ELSE proc

ServiceStopOrReset(s, how) ==
  /\ flags' = [flags EXCEPT ![s] = (@ \ {"RUNNING", "RESTARTING"})
                 \cup {IF how = "RESET" /\ s \notin RcDisabled THEN "RESET" ELSE "DISABLED"}]
  /\ IF pid[s] # NoPid
     THEN Kill(pid[s]) /\ SetProp(s, "stopping", Tail(todo))
     ELSE UNCHANGED proc /\ SetProp(s, "stopped", Tail(todo))
  /\ UNCHANGED <<pid, clock, list, loopVars, inbox, sigchld>>

(***************************************************************************)
(* wait_for_one_process: one zombie is reaped, and the loop of             *)
(* handle_signal asks for the next one until there is none.                *)
(***************************************************************************)
\* Mutant: service_find_by_pid only looks at services that are running.
OwnerRunning(p) == {s \in Service : pid[s] = p /\ "RUNNING" \in flags[s]}

Owner(p) == {s \in Service : pid[s] = p}

\* Mutant: an untracked pid ends the loop of handle_signal.
ReapUntrackedEnds(p) ==
  /\ Owner(p) = {}
  /\ todo' = Tail(todo)
  /\ UNCHANGED <<flags, pid, prop>>

ReapUntracked(p) ==
  /\ Owner(p) = {}
  /\ UNCHANGED <<flags, pid, prop, todo>>

\* Mutant: a oneshot service is treated like the others.
ExitFlagsOfAny(s) == flags[s] \ {"RUNNING"}

ExitFlags(s) == (flags[s] \ {"RUNNING"}) \cup (IF s \in Oneshot THEN {"DISABLED"} ELSE {})

\* Mutant: a service that was stopped while it ran comes back.
StaysDownIfReset(s) == "RESET" \in ExitFlags(s)

StaysDown(s) == ExitFlags(s) \cap {"DISABLED", "RESET"} # {}

ReapService(p, s) ==
  /\ s \in Owner(p)
  /\ pid' = [pid EXCEPT ![s] = NoPid]
  /\ IF StaysDown(s)
     THEN /\ flags' = [flags EXCEPT ![s] = ExitFlags(s)]
          /\ SetProp(s, "stopped", todo)
     ELSE /\ flags' = [flags EXCEPT ![s] = ExitFlags(s) \cup {"RESTARTING"}]
          /\ todo' = OnRestartOps(s) \o <<[op |-> "restarting", svc |-> s]>> \o todo
          /\ UNCHANGED prop

Reap ==
  /\ \E p \in Pid :
       /\ proc[p].st = "zombie"
       /\ proc' = [proc EXCEPT ![p] = NoProc]
       /\ ReapUntracked(p) \/ \E s \in Service : ReapService(p, s)
  /\ UNCHANGED <<clock, list, loopVars, inbox, sigchld>>

ReapDone ==
  /\ \A p \in Pid : proc[p].st # "zombie"
  /\ todo' = Tail(todo)
  /\ UNCHANGED <<svcVars, prop, list, loopVars, inbox, sigchld>>

(***************************************************************************)
(* restart_service_if_needed, for a service with SVC_RESTARTING            *)
(***************************************************************************)
Skip == /\ todo' = Tail(todo)
        /\ UNCHANGED <<svcVars, prop, list, loopVars, inbox, sigchld>>

\* Mutant: the timeout of poll() is not computed from the service.
RespawnForgotten(s) ==
  /\ "RESTARTING" \in flags[s] /\ clock[s] # "over"
  /\ todo' = Tail(todo)
  /\ UNCHANGED <<svcVars, prop, list, loopVars, inbox, sigchld>>

RespawnLater(s) ==
  /\ "RESTARTING" \in flags[s] /\ clock[s] # "over"
  /\ needs' = needs \cup {s}
  /\ todo' = Tail(todo)
  /\ UNCHANGED <<svcVars, prop, list, cur, ip, inited, stage, ready, inbox, sigchld>>

Respawn(s) ==
  \/ "RESTARTING" \notin flags[s] /\ Skip
  \/ RespawnLater(s)
  \/ "RESTARTING" \in flags[s] /\ clock[s] = "over" /\ ServiceStart(s, FALSE)

StartIfNotDisabled(s) ==
  IF "DISABLED" \in flags[s] THEN Skip ELSE ServiceStart(s, FALSE)

(***************************************************************************)
(* The step at the head of todo                                            *)
(***************************************************************************)
ServiceStep(o) ==
  \/ o.op = "start" /\ ServiceStart(o.svc, FALSE)
  \/ o.op = "start_args" /\ ServiceStart(o.svc, TRUE)
  \/ o.op = "start_enabled" /\ StartIfNotDisabled(o.svc)
  \/ o.op = "stop" /\ ServiceStopOrReset(o.svc, "DISABLED")
  \/ o.op = "reset" /\ ServiceStopOrReset(o.svc, "RESET")
  \/ o.op = "respawn" /\ Respawn(o.svc)

PropertyStep(o) ==
  /\ \/ o.op = "restarting" /\ SetProp(o.svc, "restarting", Tail(todo))
     \/ o.op = "set" /\ SetProp(o.key, o.val, Tail(todo))
  /\ UNCHANGED <<svcVars, list, loopVars, inbox, sigchld>>

QueueStep(o) ==
  /\ o.op \in {"enqueue", "enqueue_matching"}
  /\ list' = IF o.op = "enqueue" \/ Matches(o.act) THEN AddTail(list, o.act) ELSE list
  /\ todo' = Tail(todo)
  /\ UNCHANGED <<svcVars, prop, loopVars, inbox, sigchld>>

\* onrestart runs the function of each of its commands.
CommandStep(o) ==
  /\ o.op = "onrestart"
  /\ todo' = Expand(o.cmd) \o Tail(todo)
  /\ UNCHANGED <<svcVars, prop, list, loopVars, inbox, sigchld>>

Step ==
  /\ todo # << >>
  /\ LET o == Head(todo)
     IN  \/ ServiceStep(o)
         \/ PropertyStep(o)
         \/ QueueStep(o)
         \/ CommandStep(o)
         \/ o.op = "reap" /\ (Reap \/ ReapDone)

-----------------------------------------------------------------------------
(***************************************************************************)
(* The loop of main()                                                      *)
(***************************************************************************)
Ready(s) == todo = << >> /\ stage = s

CommandDone == cur = NoAction \/ ip = 0 \/ ip = Len(Commands[cur])

\* Mutant: the head is taken off an empty queue.
NoCommandUnchecked ==
  /\ ListEmpty(list)
  /\ cur' = HeadOf(list) /\ ip' = 0
  /\ UNCHANGED <<todo, list, inited>>

NoCommand ==
  /\ ListEmpty(list)
  /\ cur' = NoAction /\ ip' = 0
  /\ UNCHANGED <<todo, list, inited>>

Run(c) ==
  /\ todo' = Expand(c)
  /\ inited' = CASE c.cmd = "property_service_init" -> inited \cup {"property_service"}
                 [] c.cmd = "signal_init" -> inited \cup {"signals"}
                 [] c.cmd = "queue_property_triggers" -> inited \cup {"triggers"}
                 [] OTHER -> inited

NextAction ==
  /\ ~ListEmpty(list)
  /\ cur' = HeadOf(list)
  /\ list' = RemoveHead(list)
  /\ IF Commands[HeadOf(list)] = << >>
     THEN ip' = 0 /\ UNCHANGED <<todo, inited>>
     ELSE ip' = 1 /\ Run(Commands[HeadOf(list)][1])

NextCommand ==
  /\ ip' = ip + 1
  /\ Run(Commands[cur][ip + 1])
  /\ UNCHANGED <<cur, list>>

ExecuteOneCommand ==
  /\ Ready("execute")
  /\ stage' = "restart"
  /\ IF CommandDone THEN NoCommand \/ NextAction ELSE NextCommand
  /\ UNCHANGED <<svcVars, prop, needs, ready, inbox, sigchld>>

RestartProcesses ==
  /\ Ready("restart")
  /\ stage' = "poll"
  /\ needs' = {}
  /\ todo' = SvcOps("respawn", ServiceOrder)
  /\ UNCHANGED <<svcVars, prop, list, cur, ip, inited, ready, inbox, sigchld>>

Idle ==
  /\ Ready("poll")
  /\ ListEmpty(list) /\ cur = NoAction
  /\ \A s \in needs : clock[s] # "over"
  /\ inbox = << >> /\ ~sigchld

\* poll() returns at once if an action is queued or current, when the first
\* restart is due, or when a descriptor the loop watches is readable.
Poll ==
  /\ Ready("poll")
  /\ ready' = (IF inbox # << >> THEN {"property"} ELSE {})
              \cup (IF sigchld THEN {"signal"} ELSE {})
  /\ ~Idle
  /\ stage' = "property"
  /\ UNCHANGED <<svcVars, prop, list, cur, ip, inited, needs, todo, inbox, sigchld>>

HandlePropertySetFd ==
  /\ Ready("property")
  /\ stage' = "signal"
  /\ IF "property" \in ready
     THEN LET m == Head(inbox)
          IN  /\ inbox' = Tail(inbox)
              /\ CASE m.msg = "denied" -> UNCHANGED <<prop, todo>>
                   [] m.msg = "set"    -> SetProp(m.key, m.val, << >>)
                   [] OTHER            -> todo' = ControlOps(m) /\ UNCHANGED prop
     ELSE UNCHANGED <<inbox, prop, todo>>
  /\ UNCHANGED <<svcVars, list, cur, ip, inited, needs, ready, sigchld>>

HandleSignal ==
  /\ Ready("signal")
  /\ stage' = "execute"
  /\ IF "signal" \in ready
     THEN sigchld' = FALSE /\ todo' = <<[op |-> "reap"]>>
     ELSE UNCHANGED <<sigchld, todo>>
  /\ UNCHANGED <<svcVars, prop, list, cur, ip, inited, needs, ready, inbox>>

Main == Step \/ ExecuteOneCommand \/ RestartProcesses \/ Poll \/ HandlePropertySetFd \/ HandleSignal

-----------------------------------------------------------------------------
(***************************************************************************)
(* The processes, the clients and the clock                                *)
(***************************************************************************)
Alive(p) == proc[p].st \in {"forked", "grouped", "dying"}

\* The child calls setpgid on its way to execve.
SetPgid(p) ==
  /\ proc[p].st = "forked"
  /\ proc' = [proc EXCEPT ![p].st = "grouped"]
  /\ UNCHANGED <<flags, pid, clock, prop, list, loopVars, todo, inbox, sigchld>>

\* Mutant: the handler of SIGCHLD does not write to the pipe.
BecomeZombieQuietly(p) ==
  /\ proc' = [proc EXCEPT ![p].st = "zombie"]
  /\ UNCHANGED <<flags, pid, clock, prop, list, loopVars, todo, inbox, sigchld>>

BecomeZombie(p) ==
  /\ proc' = [proc EXCEPT ![p].st = "zombie"]
  /\ sigchld' = (sigchld \/ "signals" \in inited)
  /\ UNCHANGED <<flags, pid, clock, prop, list, loopVars, todo, inbox>>

Crash(p) ==
  /\ proc[p].st \in {"forked", "grouped"} /\ proc[p].svc \in MayCrash
  /\ BecomeZombie(p)

Finish(p) ==
  /\ proc[p].st = "grouped" /\ proc[p].svc \in Finishes /\ proc[p].script = << >>
  /\ BecomeZombie(p)

\* The SIGKILL takes effect.
Die(p) ==
  /\ proc[p].st = "dying"
  /\ BecomeZombie(p)

CanConnect == "property_service" \in inited /\ Len(inbox) < Backlog

ServiceSend(p) ==
  /\ proc[p].st = "grouped" /\ proc[p].script # << >>
  /\ CanConnect
  /\ inbox' = Append(inbox, Head(proc[p].script))
  /\ proc' = [proc EXCEPT ![p].script = Tail(@)]
  /\ UNCHANGED <<flags, pid, clock, prop, list, loopVars, todo, sigchld>>

ClientSend(m) ==
  /\ CanConnect
  /\ inbox' = Append(inbox, m)
  /\ UNCHANGED <<svcVars, prop, list, loopVars, todo, sigchld>>

\* poll() does not return: whatever started before this moment has seen the loop idle.
Rest ==
  /\ Idle /\ ~LoopMayStall
  /\ \E s \in Service : clock[s] = "started"
  /\ clock' = [s \in Service |-> IF clock[s] = "started" THEN "rested" ELSE clock[s]]
  /\ UNCHANGED <<flags, pid, proc, prop, list, loopVars, todo, inbox, sigchld>>

\* Five seconds after svc->time_started are over.  They may have been for long when the
\* service dies; but its clock is read only while it waits for its restart, so that it
\* makes no difference if they end then, at once or later.  Without LoopMayStall the loop
\* has been idle at some moment since the start.
FiveSecondsPass(s) ==
  /\ "RESTARTING" \in flags[s] /\ clock[s] # "over"
  /\ LoopMayStall \/ clock[s] = "rested"
  /\ clock' = [clock EXCEPT ![s] = "over"]
  /\ UNCHANGED <<flags, pid, proc, prop, list, loopVars, todo, inbox, sigchld>>

Kernel(p) == SetPgid(p) \/ Finish(p) \/ Die(p) \/ ServiceSend(p)

Environment ==
  \/ \E p \in Pid : Kernel(p) \/ Crash(p)
  \/ \E m \in ClientMessage : ClientSend(m)
  \/ Rest \/ \E s \in Service : FiveSecondsPass(s)

-----------------------------------------------------------------------------
Init ==
  /\ flags = [s \in Service |-> IF s \in RcDisabled THEN {"DISABLED"} ELSE {}]
  /\ pid = [s \in Service |-> NoPid]
  /\ clock = [s \in Service |-> "over"]
  /\ proc = [p \in Pid |-> NoProc]
  /\ prop = [k \in Key |-> Unset]
  /\ list = ListInit
  /\ cur = NoAction /\ ip = 0
  /\ inited = {}
  /\ todo = Enqueues("enqueue", BootOrder)
  /\ stage = "execute" /\ needs = {} /\ ready = {}
  /\ inbox = << >> /\ sigchld = FALSE

Next == Main \/ Environment

Spec == Init /\ [][Next]_vars

\* The monitor runs, processes that were killed die, children reach setpgid,
\* a process that has something to send or to finish does, and time passes, in poll()
\* too.
Fairness ==
  /\ WF_vars(Main)
  /\ \A p \in Pid : WF_vars(Kernel(p))
  /\ WF_vars(Rest) /\ \A s \in Service : WF_vars(FiveSecondsPass(s))

FairSpec == Spec /\ Fairness

-----------------------------------------------------------------------------
(***************************************************************************)
(* Properties                                                              *)
(***************************************************************************)
\* The pid the monitor keeps for a service is a process it forked for that
\* service and has not reaped, so that kill() and waitpid() never meet a pid
\* the kernel has given to somebody else (init.c, signal_handler.c).
PidsAreTracked ==
  \A s \in Service : pid[s] # NoPid => proc[pid[s]] # NoProc /\ proc[pid[s]].svc = s

\* The flags agree with one another and with the pid: a running service has a
\* process and no other flag, one that waits for its restart has none.
FlagsAgree ==
  \A s \in Service :
    /\ "RUNNING" \in flags[s] => flags[s] = {"RUNNING"} /\ pid[s] # NoPid
    /\ "RESTARTING" \in flags[s] => flags[s] = {"RESTARTING"} /\ pid[s] = NoPid

\* What the property init.svc.<name> tells the rest of the camera is true
\* (notify_service_state): whenever no call is in progress it reads "running"
\* for the services with SVC_RUNNING and for no other, and "restarting" for
\* those with SVC_RESTARTING.
StatusIsTrue ==
  todo = << >> => \A s \in Service :
    /\ prop[s] = "running" <=> "RUNNING" \in flags[s]
    /\ "RESTARTING" \in flags[s] => prop[s] = "restarting"

\* No wakeup is lost: while a child waits to be reaped, either the SIGCHLD
\* pipe is readable or handle_signal has yet to ask waitpid again.
NoLostSigchld ==
  ("signals" \in inited /\ \E p \in Pid : proc[p].st = "zombie")
    => sigchld \/ \E i \in DOMAIN todo : todo[i].op = "reap"

\* The queue is a list that ends: the walk along it comes back to its head and
\* visits no action twice, as every operation of cutils/list.h presumes.  It depends on
\* the rc file and on what dies: action_add_queue_tail links an action that is still
\* queued a second time, so that nothing may set its property again too soon.
QueueIntact ==
  LET N == Cardinality(Action)
      walk[i \in 0..N] == IF i = 0 THEN QHead ELSE list.next[walk[i - 1]]
  IN  \E n \in 0..N : Represents(list, [i \in 1..n |-> walk[i]])

\* A service that died is started again, unless it is stopped or refused
\* first: no SVC_RESTARTING service is forgotten by the timeout of poll().
RestartsHappen ==
  \A s \in MayCrash : ("RESTARTING" \in flags[s]) ~> ("RESTARTING" \notin flags[s])

\* Every exited child is reaped: again and again none is left.
ZombiesReaped == []<>(\A p \in Pid : proc[p].st # "zombie")

\* The monitor implements ServiceLifecycle.  While the onrestart commands of a
\* dead service run, its property still reads "running" (signal_handler.c sets
\* the flag first and the property last), so SVC_RESTARTING decides.
Lifecycle == INSTANCE ServiceLifecycle WITH
  status <- [s \in Service |-> IF "RESTARTING" \in flags[s] THEN "restarting" ELSE prop[s]],
  held   <- [s \in Service |-> pid[s] # NoPid]

ImplementsLifecycle == Lifecycle!Spec

\* The monitor never has two processes of a service at once, as the comment in
\* service_start says: one that is still exiting is started again on its exit.  It
\* depends on the rc file: a service that is stopped, and started before its process is
\* reaped, is forked a second time.
OneProcessPerService ==
  \A p, q \in Pid : Alive(p) /\ Alive(q) /\ proc[p].svc = proc[q].svc => p = q
=============================================================================
