---------------------------- MODULE InitRcProof ----------------------------
(***************************************************************************)
(* Theorems about the start-up chain of misc/init.rc: the oneshot services *)
(* are started once per boot, of the update and the camera only one ever   *)
(* runs, and no service has two processes: for any pids, whatever dies, is *)
(* late or cannot be forked, and in whatever order properties are set.     *)
(* While logd and the web server live no action is queued twice.           *)
(***************************************************************************)
EXTENDS InitRc, MonitorLifecycle, WellFoundedInduction

-----------------------------------------------------------------------------
(***************************************************************************)
(* What may still happen: the steps todo may hold, the messages that may   *)
(* be sent, the actions that may be queued and the properties that may be  *)
(* set.  Whatever is in these four sets leads to nothing outside of them.  *)
(***************************************************************************)
Closure(O, M, A, K) ==
  /\ O \subseteq Op /\ M \subseteq Message /\ A \subseteq Action /\ Service \subseteq K
  /\ \A o \in O : /\ o.op = "set" => o.key \in K
                  /\ o.op = "enqueue" => o.act \in A
                  /\ o.op = "onrestart" => Expand(o.cmd) \in Seq(O)
  /\ [op |-> "reap"] \in O
  /\ \A a \in A : [op |-> "enqueue", act |-> a] \in O
  /\ \A s \in Service : /\ [op |-> "respawn", svc |-> s] \in O
                        /\ s \notin Oneshot => [op |-> "restarting", svc |-> s] \in O
                        /\ OnRestartOps(s) \in Seq(O)
  /\ \A a \in A : \A i \in DOMAIN Commands[a] : Expand(Commands[a][i]) \in Seq(O)
  /\ \A k \in K \cap Key, v \in Value : Triggered[<<k, v>>] \in Seq(A)
  /\ \A m \in M : /\ m.msg = "set" => m.key \in K
                  /\ m.msg \notin {"set", "denied"} => ControlOps(m) \in Seq(O)
  /\ ClientMessage \subseteq M

\* The pointers of the queue lead from the actions in A to actions in A.
Within(l, A) ==
  \A n \in A \cup {QHead} : {l.next[n], l.prev[n]} \subseteq A \cup {QHead, NoNode}

Confined(O, M, A, K) ==
  /\ todo \in Seq(O)
  /\ inbox \in Seq(M)
  /\ \A p \in Pid : proc[p] # NoProc => proc[p].script \in Seq(M)
  /\ Within(list, A) /\ cur \in A \cup {NoAction}
  /\ \A k \in Key \ K : prop[k] = Unset

-----------------------------------------------------------------------------
(***************************************************************************)
(* The oneshot services.  Only class_start starts them, and it leaves one  *)
(* alone that runs or is disabled, as it is from its exit or its stop on.  *)
(***************************************************************************)
\* A step by which such a service would be started, or set back, all the same.
ByName(o) == o.op \in {"start", "start_args", "reset", "restarting"} /\ o.svc \in Oneshot

ByClass ==
  {o \in Op : /\ ~ByName(o)
              /\ o.op = "onrestart" => \A i \in DOMAIN Expand(o.cmd) : ~ByName(Expand(o.cmd)[i])}

Polite == {m \in Message : m.msg \in {"start", "restart"} => m.svc \notin Oneshot}

OneshotInv ==
  /\ Confined(ByClass, Polite, Action, Key)
  /\ \A s \in Oneshot : /\ "RESTARTING" \notin flags[s]
                        /\ prop[s] # Unset => flags[s] \cap {"RUNNING", "DISABLED"} # {}

-----------------------------------------------------------------------------
(***************************************************************************)
(* The two sides update_check decides between: the property it sets, the   *)
(* action on it and the service this action starts.                        *)
(***************************************************************************)
UpdateSide == [key |-> sys_update, act |-> prop_update, svc |-> update]
CameraSide == [key |-> sys_app, act |-> prop_app, svc |-> camerad]
Side == {UpdateSide, CameraSide}

\* A step that leads to the service of a side.
Reaches(o, side) ==
  \/ o.op \in {"start", "start_args", "start_enabled"} /\ o.svc = side.svc
  \/ o.op = "enqueue" /\ o.act = side.act
  \/ o.op = "set" /\ o.key = side.key

Apart(side) ==
  {o \in Op : /\ ~Reaches(o, side)
              /\ o.op = "onrestart" => \A i \in DOMAIN Expand(o.cmd) : ~Reaches(Expand(o.cmd)[i], side)}

Silent(side) ==
  {m \in Message : /\ m.msg = "set" => m.key # side.key
                   /\ m.msg \in {"start", "restart"} => m.svc # side.svc}

\* Nothing has been done, and nothing is on its way, that leads to a side.
Untouched(side) ==
  /\ Confined(Apart(side), Silent(side), Action \ {side.act}, Key \ {side.key})
  /\ flags[side.svc] \cap {"RUNNING", "RESTARTING"} = {} /\ pid[side.svc] = NoPid

ChoiceInv ==
  /\ \E side \in Side : Untouched(side)
  /\ prop[update_check] = Unset => \A side \in Side : Untouched(side)

-----------------------------------------------------------------------------
(***************************************************************************)
(* The queue                                                               *)
(***************************************************************************)
LEMMA AddTailWithin ==
  ASSUME NEW l \in List, NEW A \in SUBSET Action, Within(l, A), NEW a \in A
  PROVE  Within(AddTail(l, a), A)
<1>. DEFINE m == AddTail(l, a)
            last == l.prev[QHead]
<1>1. /\ l.next \in [Node -> Node \cup {NoNode}] /\ l.prev \in [Node -> Node \cup {NoNode}]
      /\ QHead \in Node /\ A \subseteq Node /\ NoNode \notin Node /\ last \in A \cup {QHead, NoNode}
  BY QHeadAssumption DEF List, Node, Within
<1>2. /\ m.next = [[l.next EXCEPT ![a] = QHead] EXCEPT ![last] = a]
      /\ m.prev = [[l.prev EXCEPT ![a] = last] EXCEPT ![QHead] = a]
  BY DEF AddTail
<1>. HIDE DEF m, last
<1>3. \A n \in A \cup {QHead} : m.next[n] \in {a, QHead, l.next[n]} /\ m.prev[n] \in {a, last, l.prev[n]}
  BY <1>1, <1>2
<1>4. \A n \in A \cup {QHead} : l.next[n] \in A \cup {QHead, NoNode} /\ l.prev[n] \in A \cup {QHead, NoNode}
  BY DEF Within
<1>5. \A n \in A \cup {QHead} : m.next[n] \in A \cup {QHead, NoNode} /\ m.prev[n] \in A \cup {QHead, NoNode}
  BY <1>1, <1>3, <1>4
<1>. QED BY <1>5 DEF m, Within

LEMMA RemoveHeadWithin ==
  ASSUME NEW l \in List, Closed(l), ~ListEmpty(l), NEW A \in SUBSET Action, Within(l, A)
  PROVE  HeadOf(l) \in A /\ Within(RemoveHead(l), A)
<1>. DEFINE a == HeadOf(l)
            m == RemoveHead(l)
            prev1 == [l.prev EXCEPT ![l.next[a]] = l.prev[a]]
<1>1. /\ l.next \in [Node -> Node \cup {NoNode}] /\ l.prev \in [Node -> Node \cup {NoNode}]
      /\ QHead \in Node /\ A \subseteq Node /\ NoNode \notin Node
  BY QHeadAssumption DEF List, Node
<1>2. a \in A
  BY <1>1 DEF HeadOf, ListEmpty, Closed, Within
<1>3. m.next = [l.next EXCEPT ![prev1[a]] = l.next[a]] /\ m.prev = prev1
  BY DEF RemoveHead, Unlink
<1>4. \A n \in A \cup {QHead} : l.next[n] \in A \cup {QHead, NoNode} /\ l.prev[n] \in A \cup {QHead, NoNode}
  BY DEF Within
<1>. HIDE DEF a, m
<1>5. \A n \in A \cup {QHead} : prev1[n] \in {l.prev[n], l.prev[a]}
  BY <1>1
<1>. HIDE DEF prev1
<1>6. \A n \in A \cup {QHead} : m.next[n] \in {l.next[n], l.next[a]} /\ m.prev[n] \in {l.prev[n], l.prev[a]}
  BY <1>1, <1>3, <1>5
<1>7. \A n \in A \cup {QHead} : m.next[n] \in A \cup {QHead, NoNode} /\ m.prev[n] \in A \cup {QHead, NoNode}
  BY <1>2, <1>4, <1>6
<1>. QED BY <1>2, <1>7 DEF a, m, Within

-----------------------------------------------------------------------------
(***************************************************************************)
(* Nothing gets out of a closure                                           *)
(***************************************************************************)
LEMMA EnqueuesIn ==
  ASSUME NEW O, NEW A, \A a \in A : [op |-> "enqueue", act |-> a] \in O, NEW acts \in Seq(A)
  PROVE  Enqueues("enqueue", acts) \in Seq(O)
<1>1. Len(acts) \in Nat /\ DOMAIN acts = 1..Len(acts) /\ \A i \in 1..Len(acts) : acts[i] \in A
  BY LenProperties, ElementOfSeq
<1>2. Enqueues("enqueue", acts) = [i \in 1..Len(acts) |-> [op |-> "enqueue", act |-> acts[i]]]
  BY <1>1 DEF Enqueues
<1>3. Enqueues("enqueue", acts) \in [1..Len(acts) -> O]
  BY <1>1, <1>2
<1>. QED BY <1>1, <1>3, SequenceOf

LEMMA SetPropConfined ==
  ASSUME TypeOK, NEW O, NEW M, NEW A, NEW K, Closure(O, M, A, K),
         NEW k \in Key, k \in K, NEW v \in Value, NEW rest \in Seq(O), SetProp(k, v, rest)
  PROVE  /\ todo' \in Seq(O)
         /\ \A h \in Key \ K : prop'[h] = prop[h]
<1>1. Enqueues("enqueue", Triggered[<<k, v>>]) \in Seq(O)
  <2>1. /\ Triggered[<<k, v>>] \in Seq(A)
        /\ \A a \in A : [op |-> "enqueue", act |-> a] \in O
    BY DEF Closure
  <2>. QED BY <2>1, EnqueuesIn
<1>. DEFINE q == Enqueues("enqueue", Triggered[<<k, v>>])
<1>2. q \o rest \in Seq(O)
  <2>. HIDE DEF q
  <2>1. q \in Seq(O)
    BY <1>1 DEF q
  <2>. QED BY <2>1, ConcatProperties
<1>3. todo' \in {rest, q \o rest} /\ (prop' = prop \/ prop' = [prop EXCEPT ![k] = v])
  BY DEF SetProp
<1>. HIDE DEF q
<1>. QED BY <1>2, <1>3 DEF TypeOK

\* Only new processes bring new messages.
NewScripts(M) == \A p \in Pid : proc[p] = NoProc /\ proc'[p] # NoProc => proc'[p].script \in Seq(M)

\* A step that leaves the messages, the queue and the action alone.
LEMMA StepStaysConfined ==
  ASSUME NEW O, NEW M, NEW A, NEW K, Confined(O, M, A, K),
         todo' \in Seq(O), \A h \in Key \ K : prop'[h] = prop[h],
         UNCHANGED <<list, cur, inbox>>, NewScripts(M),
         \A p \in Pid : proc[p] # NoProc /\ proc'[p] # NoProc => proc'[p].script = proc[p].script
  PROVE  Confined(O, M, A, K)'
<1>1. \A p \in Pid : proc'[p] # NoProc => proc'[p].script \in Seq(M)
  BY DEF Confined, NewScripts
<1>2. (todo \in Seq(O))' /\ (inbox \in Seq(M))' /\ cur' \in A \cup {NoAction}
  BY DEF Confined
<1>3. Within(list, A)'
  BY DEF Confined, Within
<1>4. \A k \in Key \ K : prop'[k] = Unset
  BY DEF Confined
<1>. QED BY <1>1, <1>2, <1>3, <1>4 DEF Confined

LEMMA ServiceStartConfined ==
  ASSUME IInv, NEW O, NEW M, NEW A, NEW K, Closure(O, M, A, K), Confined(O, M, A, K), NewScripts(M),
         todo # << >>, NEW s \in Service, NEW args, ServiceStart(s, args)
  PROVE  Confined(O, M, A, K)'
<1>1. TypeOK /\ Tail(todo) \in Seq(O) /\ s \in Key /\ s \in K /\ "running" \in Value
  BY HeadTailProperties, PropertyAssumption DEF IInv, Confined, Closure
<1>2. /\ todo' \in Seq(O)
      /\ \A h \in Key \ K : prop'[h] = prop[h]
      /\ \A p \in Pid : proc[p] # NoProc /\ proc'[p] # NoProc => proc'[p].script = proc[p].script
  <2>1. CASE StartRunning(s) \/ StartRefused(s, args) \/ StartForkFails(s, args)
    BY <1>1, <2>1 DEF StartRunning, StartRefused, StartForkFails
  <2>2. CASE StartForks(s, args)
    <3>1. PICK p \in NewPid[FreePid], script \in Scripts[s] :
            proc' = [proc EXCEPT ![p] = [st |-> "forked", svc |-> s, script |-> script]]
      BY <2>2 DEF StartForks
    <3>2. p \in Pid /\ proc[p] = NoProc
      <4>1. FreePid \in SUBSET Pid /\ \A x \in FreePid : proc[x] = NoProc
        BY DEF FreePid
      <4>2. NewPid[FreePid] \subseteq FreePid
        BY <4>1, ProcessAssumption
      <4>. QED BY <4>1, <4>2
    <3>3. SetProp(s, "running", Tail(todo))
      BY <2>2 DEF StartForks
    <3>4. todo' \in Seq(O) /\ \A h \in Key \ K : prop'[h] = prop[h]
      BY <1>1, <3>3, SetPropConfined
    <3>5. \A x \in Pid : proc[x] # NoProc => proc'[x] = proc[x]
      BY <1>1, <3>1, <3>2 DEF TypeOK
    <3>. QED BY <3>4, <3>5
  <2>. QED BY <2>1, <2>2 DEF ServiceStart
<1>3. UNCHANGED <<list, cur, inbox>>
  BY DEF ServiceStart, loopVars
<1>. QED BY <1>2, <1>3, StepStaysConfined

LEMMA ServiceStopConfined ==
  ASSUME IInv, NEW O, NEW M, NEW A, NEW K, Closure(O, M, A, K), Confined(O, M, A, K), NewScripts(M),
         todo # << >>, NEW s \in Service, NEW how, ServiceStopOrReset(s, how)
  PROVE  Confined(O, M, A, K)'
<1>1. TypeOK /\ Tail(todo) \in Seq(O) /\ s \in Key /\ s \in K /\ {"stopping", "stopped"} \subseteq Value
  BY HeadTailProperties, PropertyAssumption DEF IInv, Confined, Closure
<1>2. \E v \in {"stopping", "stopped"} : SetProp(s, v, Tail(todo))
  BY DEF ServiceStopOrReset
<1>3. todo' \in Seq(O) /\ \A h \in Key \ K : prop'[h] = prop[h]
  BY <1>1, <1>2, SetPropConfined
<1>4. proc' = proc \/ proc' = [proc EXCEPT ![pid[s]].st = "dying"]
  BY DEF ServiceStopOrReset, Kill
<1>5. ASSUME NEW p \in Pid, proc[p] # NoProc PROVE proc'[p].script = proc[p].script
  <2>1. proc[p] \in Process /\ proc \in [Pid -> Process \cup {NoProc}]
    BY <1>1, <1>5 DEF TypeOK
  <2>2. proc'[p] \in {proc[p], [proc[p] EXCEPT !.st = "dying"]}
    BY <1>4, <2>1
  <2>. QED BY <2>1, <2>2 DEF Process
<1>6. UNCHANGED <<list, cur, inbox>>
  BY DEF ServiceStopOrReset, loopVars
<1>. QED BY <1>3, <1>5, <1>6, StepStaysConfined

LEMMA ReapConfined ==
  ASSUME IInv, NEW O, NEW M, NEW A, NEW K, Closure(O, M, A, K), Confined(O, M, A, K), NewScripts(M),
         Reap
  PROVE  Confined(O, M, A, K)'
<1>1. TypeOK /\ todo \in Seq(O) /\ Service \subseteq Key /\ Service \subseteq K /\ "stopped" \in Value
  BY PropertyAssumption DEF IInv, Confined, Closure
<1>2. PICK p \in Pid : /\ proc' = [proc EXCEPT ![p] = NoProc]
                       /\ ReapUntracked(p) \/ \E s \in Service : ReapService(p, s)
  BY DEF Reap
<1>3. todo' \in Seq(O) /\ \A h \in Key \ K : prop'[h] = prop[h]
  <2>1. CASE ReapUntracked(p)
    BY <1>1, <2>1 DEF ReapUntracked
  <2>2. ASSUME NEW s \in Service, ReapService(p, s) PROVE todo' \in Seq(O) /\ \A h \in Key \ K : prop'[h] = prop[h]
    <3>1. CASE SetProp(s, "stopped", todo)
      <4>1. s \in Key /\ s \in K
        BY <1>1
      <4>. QED BY <1>1, <3>1, <4>1, SetPropConfined
    <3>2. CASE todo' = OnRestartOps(s) \o <<[op |-> "restarting", svc |-> s]>> \o todo /\ prop' = prop
      <4>1. s \notin Oneshot \/ SetProp(s, "stopped", todo)
        BY <2>2 DEF ReapService, StaysDown, ExitFlags
      <4>2. s \notin Oneshot => OnRestartOps(s) \in Seq(O) /\ [op |-> "restarting", svc |-> s] \in O
        BY DEF Closure
      <4>3. \A q \in Seq(O), o \in O : q \o <<o>> \o todo \in Seq(O)
        BY <1>1, ConcatProperties
      <4>. QED BY <3>1, <3>2, <4>1, <4>2, <4>3
    <3>. QED BY <2>2, <3>1, <3>2 DEF ReapService
  <2>. QED BY <1>2, <2>1, <2>2
<1>4. \A x \in Pid : proc[x] # NoProc /\ proc'[x] # NoProc => proc'[x].script = proc[x].script
  BY <1>1, <1>2 DEF TypeOK
<1>5. UNCHANGED <<list, cur, inbox>>
  BY DEF Reap, loopVars
<1>. QED BY <1>3, <1>4, <1>5, StepStaysConfined

\* The steps that are not about a process.
LEMMA PlainStepConfined ==
  ASSUME NEW O, NEW M, NEW A, NEW K, Confined(O, M, A, K),
         todo' \in Seq(O), \A h \in Key \ K : prop'[h] = prop[h],
         Within(list, A)', UNCHANGED <<proc, cur, inbox>>
  PROVE  Confined(O, M, A, K)'
<1>1. \A k \in Key \ K : prop'[k] = Unset
  BY DEF Confined
<1>. QED BY <1>1 DEF Confined

LEMMA StepConfined ==
  ASSUME IInv, NEW O, NEW M, NEW A, NEW K, Closure(O, M, A, K), Confined(O, M, A, K), NewScripts(M),
         Step
  PROVE  Confined(O, M, A, K)'
<1>. DEFINE o == Head(todo)
<1>1. todo # << >> /\ o \in O /\ Tail(todo) \in Seq(O) /\ TypeOK
  BY HeadTailProperties DEF Step, Confined, IInv
<1>2. o \in Op
  BY <1>1 DEF Closure
<1>3. /\ o.op \in SvcOp => o.svc \in Service
      /\ o.op \in {"enqueue", "enqueue_matching"} => o.act \in Action
      /\ o.op = "set" => o.key \in Key /\ o.val \in Value
      /\ o.op = "onrestart" => o.cmd \in RcCommand
  BY <1>2, OpFields
<1>4. /\ o.op = "set" => o.key \in K
      /\ o.op = "enqueue" => o.act \in A
      /\ o.op = "onrestart" => Expand(o.cmd) \in Seq(O)
  BY <1>1 DEF Closure
<1>. HIDE DEF o
<1>5. ASSUME todo' = Tail(todo), UNCHANGED <<proc, prop, list, cur, inbox>> PROVE Confined(O, M, A, K)'
  <2>1. Within(list, A)'
    BY <1>5 DEF Confined, Within
  <2>. QED BY <1>1, <1>5, <2>1, PlainStepConfined
<1>6. CASE ServiceStep(o)
  <2>1. ASSUME NEW args \in BOOLEAN, o.op \in SvcOp, ServiceStart(o.svc, args) PROVE Confined(O, M, A, K)'
    BY <1>1, <1>3, <2>1, ServiceStartConfined
  <2>2. ASSUME NEW how \in {"DISABLED", "RESET"}, o.op \in SvcOp, ServiceStopOrReset(o.svc, how) PROVE Confined(O, M, A, K)'
    BY <1>1, <1>3, <2>2, ServiceStopConfined
  <2>3. ASSUME Skip \/ RespawnLater(o.svc) PROVE Confined(O, M, A, K)'
    BY <1>5, <2>3 DEF Skip, RespawnLater, svcVars, loopVars
  <2>4. CASE o.op = "respawn" /\ Respawn(o.svc)
    BY <2>1, <2>3, <2>4 DEF Respawn, SvcOp
  <2>5. CASE o.op = "start_enabled" /\ StartIfNotDisabled(o.svc)
    BY <2>1, <2>3, <2>5 DEF StartIfNotDisabled, SvcOp
  <2>. QED BY <1>6, <2>1, <2>2, <2>4, <2>5 DEF ServiceStep, SvcOp
<1>7. CASE PropertyStep(o)
  <2>1. UNCHANGED <<proc, list, cur, inbox>>
    BY <1>7 DEF PropertyStep, svcVars, loopVars
  <2>2. \E k \in Key \cap K, v \in Value : SetProp(k, v, Tail(todo))
    <3>1. Service \subseteq Key \cap K /\ "restarting" \in Value
      BY PropertyAssumption DEF Closure
    <3>. QED BY <1>3, <1>4, <1>7, <3>1 DEF PropertyStep, SvcOp
  <2>3. todo' \in Seq(O) /\ \A h \in Key \ K : prop'[h] = prop[h]
    BY <1>1, <2>2, SetPropConfined
  <2>4. Within(list, A)'
    BY <2>1 DEF Confined, Within
  <2>. QED BY <2>1, <2>3, <2>4, PlainStepConfined
<1>8. CASE QueueStep(o)
  <2>1. /\ o.op \in {"enqueue", "enqueue_matching"} /\ todo' = Tail(todo)
        /\ list' = IF o.op = "enqueue" \/ Matches(o.act) THEN AddTail(list, o.act) ELSE list
        /\ UNCHANGED <<proc, prop, cur, inbox>>
    BY <1>8 DEF QueueStep, svcVars, loopVars
  <2>2. Matches(o.act) => o.act \in A
    <3>1. SUFFICES ASSUME NEW k \in Key, prop[k] # Unset,
                          NEW i \in DOMAIN Triggered[<<k, prop[k]>>], Triggered[<<k, prop[k]>>][i] = o.act
                   PROVE  o.act \in A
      BY DEF Matches, Defined
    <3>2. k \in K /\ prop[k] \in Value
      BY <1>1, <3>1 DEF Confined, TypeOK
    <3>3. Triggered[<<k, prop[k]>>] \in Seq(A)
      BY <3>2 DEF Closure
    <3>. QED BY <3>1, <3>3, LenProperties, ElementOfSeq
  <2>3. list \in List /\ Within(list, A) /\ A \in SUBSET Action
    BY <1>1 DEF TypeOK, Confined, Closure
  <2>4. Within(list', A)
    BY <1>4, <2>1, <2>2, <2>3, AddTailWithin
  <2>5. Within(list, A)'
    BY <2>4 DEF Within
  <2>. QED BY <1>1, <2>1, <2>5, PlainStepConfined
<1>9. CASE CommandStep(o)
  <2>1. /\ todo' = Expand(o.cmd) \o Tail(todo) /\ Expand(o.cmd) \in Seq(O)
        /\ UNCHANGED <<proc, prop, list, cur, inbox>>
    BY <1>4, <1>9 DEF CommandStep, svcVars, loopVars
  <2>2. todo' \in Seq(O)
    BY <1>1, <2>1, ConcatProperties
  <2>3. Within(list, A)'
    BY <2>1 DEF Confined, Within
  <2>. QED BY <2>1, <2>2, <2>3, PlainStepConfined
<1>10. CASE Reap
  BY <1>10, ReapConfined
<1>11. CASE ReapDone
  BY <1>5, <1>11 DEF ReapDone, svcVars, loopVars
<1>. QED BY <1>6, <1>7, <1>8, <1>9, <1>10, <1>11 DEF Step, o

LEMMA ExecuteConfined ==
  ASSUME IInv, NEW O, NEW M, NEW A, NEW K, Closure(O, M, A, K), Confined(O, M, A, K), ExecuteOneCommand
  PROVE  Confined(O, M, A, K)'
<1>1. todo = << >> /\ TypeOK /\ UNCHANGED <<proc, prop, inbox>>
  BY DEF ExecuteOneCommand, Ready, IInv, svcVars
<1>2. << >> \in Seq(O)
  BY EmptySeq
<1>3. ASSUME cur' \in A \cup {NoAction}, todo' \in Seq(O), Within(list, A)' PROVE Confined(O, M, A, K)'
  BY <1>1, <1>3 DEF Confined
<1>4. UNCHANGED list => Within(list, A)'
  BY DEF Confined, Within
<1>5. CASE NoCommand
  BY <1>1, <1>2, <1>3, <1>4, <1>5 DEF NoCommand
<1>6. CASE CommandDone /\ NextAction
  <2>1. list \in List /\ Closed(list) /\ Within(list, A) /\ A \in SUBSET Action /\ ~ListEmpty(list)
    BY <1>1, <1>6 DEF IInv, TypeOK, Confined, Closure, NextAction
  <2>2. HeadOf(list) \in A /\ Within(RemoveHead(list), A)
    BY <2>1, RemoveHeadWithin
  <2>3. Within(list, A)' /\ cur' \in A
    BY <1>6, <2>2 DEF NextAction, Within
  <2>4. todo' \in Seq(O)
    <3>1. CASE Commands[HeadOf(list)] = << >>
      BY <1>1, <1>2, <1>6, <3>1 DEF NextAction
    <3>2. CASE Commands[HeadOf(list)] # << >>
      <4>1. Commands[HeadOf(list)] \in Seq(Command)
        BY <2>1, <2>2, ActionAssumption
      <4>2. 1 \in DOMAIN Commands[HeadOf(list)]
        BY <3>2, <4>1, LenProperties, EmptySeq
      <4>. QED BY <1>6, <2>2, <3>2, <4>2 DEF NextAction, Run, Closure
    <3>. QED BY <3>1, <3>2
  <2>. QED BY <1>3, <2>3, <2>4
<1>7. CASE ~CommandDone /\ NextCommand
  <2>1. cur \in A /\ ip + 1 \in DOMAIN Commands[cur]
    <3>1. cur \in A /\ cur \in Action /\ ip \in Nat /\ ip # Len(Commands[cur])
      BY <1>1, <1>7 DEF CommandDone, Confined, TypeOK
    <3>2. ip <= Len(Commands[cur]) /\ Commands[cur] \in Seq(Command)
      BY <3>1, ActionAssumption DEF IInv, CommandInRange
    <3>. QED BY <3>1, <3>2, LenProperties
  <2>2. todo' = Expand(Commands[cur][ip + 1]) /\ UNCHANGED <<cur, list>>
    BY <1>7 DEF NextCommand, Run
  <2>3. todo' \in Seq(O)
    BY <2>1, <2>2 DEF Closure
  <2>. QED BY <1>3, <1>4, <2>1, <2>2, <2>3
<1>. QED BY <1>5, <1>6, <1>7 DEF ExecuteOneCommand

LEMMA MessageConfined ==
  ASSUME IInv, NEW O, NEW M, NEW A, NEW K, Closure(O, M, A, K), Confined(O, M, A, K), HandlePropertySetFd
  PROVE  Confined(O, M, A, K)'
<1>1. /\ todo = << >> /\ << >> \in Seq(O) /\ TypeOK /\ UNCHANGED <<proc, list, cur>>
      /\ \A h \in Key \ K : prop[h] = Unset
  BY EmptySeq DEF HandlePropertySetFd, Ready, IInv, svcVars, Confined
<1>2. Within(list, A)'
  BY <1>1 DEF Confined, Within
<1>3. ASSUME inbox' \in Seq(M), todo' \in Seq(O), \A h \in Key \ K : prop'[h] = prop[h]
      PROVE  Confined(O, M, A, K)'
  BY <1>1, <1>2, <1>3 DEF Confined
<1>4. CASE "property" \notin ready
  BY <1>1, <1>3, <1>4 DEF HandlePropertySetFd, Confined
<1>5. CASE "property" \in ready
  <2>. DEFINE m == Head(inbox)
  <2>1. inbox # << >> /\ inbox \in Seq(M)
    BY <1>5 DEF IInv, PromiseKept, HandlePropertySetFd, Ready, Confined
  <2>2. m \in M /\ Tail(inbox) \in Seq(M) /\ inbox' = Tail(inbox)
    BY <1>5, <2>1, HeadTailProperties DEF HandlePropertySetFd
  <2>3. CASE m.msg = "denied"
    BY <1>1, <1>3, <1>5, <2>2, <2>3 DEF HandlePropertySetFd
  <2>4. CASE m.msg = "set"
    <3>1. m.key \in K /\ m.key \in Key /\ m.val \in Value
      BY <2>2, <2>4 DEF Closure, Message
    <3>2. SetProp(m.key, m.val, << >>)
      BY <1>5, <2>4 DEF HandlePropertySetFd
    <3>3. todo' \in Seq(O) /\ \A h \in Key \ K : prop'[h] = prop[h]
      BY <1>1, <3>1, <3>2, SetPropConfined
    <3>. QED BY <1>3, <2>2, <3>3
  <2>5. CASE m.msg \notin {"denied", "set"}
    <3>1. todo' = ControlOps(m) /\ UNCHANGED prop
      BY <1>5, <2>5 DEF HandlePropertySetFd
    <3>2. ControlOps(m) \in Seq(O)
      BY <2>2, <2>5 DEF Closure
    <3>. QED BY <1>3, <2>2, <3>1, <3>2
  <2>. QED BY <2>3, <2>4, <2>5
<1>. QED BY <1>4, <1>5

\* The steps of the loop that are left.
LEMMA LoopConfined ==
  ASSUME NEW O, NEW M, NEW A, NEW K, Closure(O, M, A, K), Confined(O, M, A, K),
         RestartProcesses \/ Poll \/ HandleSignal
  PROVE  Confined(O, M, A, K)'
<1>1. UNCHANGED <<proc, prop, list, cur, inbox>>
  BY DEF RestartProcesses, Poll, HandleSignal, svcVars
<1>2. todo' \in Seq(O)
  <2>1. SvcOps("respawn", ServiceOrder) \in Seq(O)
    <3>1. /\ Len(ServiceOrder) \in Nat /\ DOMAIN ServiceOrder = 1..Len(ServiceOrder)
          /\ \A i \in 1..Len(ServiceOrder) : ServiceOrder[i] \in Service
      BY ServiceAssumption, LenProperties, ElementOfSeq
    <3>2. \A s \in Service : [op |-> "respawn", svc |-> s] \in O
      BY DEF Closure
    <3>3. SvcOps("respawn", ServiceOrder) \in [1..Len(ServiceOrder) -> O]
      BY <3>1, <3>2 DEF SvcOps
    <3>. QED BY <3>1, <3>3, SequenceOf
  <2>2. <<[op |-> "reap"]>> \in Seq(O)
    BY DEF Closure
  <2>. QED BY <2>1, <2>2 DEF RestartProcesses, Poll, HandleSignal, Confined
<1>3. Within(list, A)'
  BY <1>1 DEF Confined, Within
<1>4. \A h \in Key \ K : prop'[h] = prop[h]
  BY <1>1
<1>. QED BY <1>1, <1>2, <1>3, <1>4, PlainStepConfined

LEMMA EnvironmentConfined ==
  ASSUME IInv, NEW O, NEW M, NEW A, NEW K, Closure(O, M, A, K), Confined(O, M, A, K),
         Environment \/ UNCHANGED vars
  PROVE  Confined(O, M, A, K)'
<1>1. proc \in [Pid -> Process \cup {NoProc}] /\ NoProc.st = "none"
  BY DEF IInv, TypeOK, NoProc
<1>2. UNCHANGED <<prop, list, cur, todo>>
  BY DEF Environment, Kernel, Crash, SetPgid, Finish, Die, ServiceSend, BecomeZombie, ClientSend,
     Rest, FiveSecondsPass, svcVars, loopVars, vars
<1>3. Within(list, A)'
  BY <1>2 DEF Confined, Within
<1>4. ASSUME inbox' \in Seq(M), \A p \in Pid : proc'[p] # NoProc => proc'[p].script \in Seq(M)
      PROVE  Confined(O, M, A, K)'
  BY <1>2, <1>3, <1>4 DEF Confined
<1>5. ASSUME NEW p \in Pid, SetPgid(p) \/ Finish(p) \/ Die(p) \/ Crash(p) PROVE Confined(O, M, A, K)'
  <2>1. \E v \in {"grouped", "zombie"} : proc' = [proc EXCEPT ![p].st = v]
    BY <1>5 DEF SetPgid, Finish, Die, Crash, BecomeZombie
  <2>2. proc[p] \in Process /\ inbox' = inbox
    BY <1>1, <1>5 DEF SetPgid, Finish, Die, Crash, BecomeZombie, loopVars
  <2>3. proc'[p].script = proc[p].script /\ \A q \in Pid \ {p} : proc'[q] = proc[q]
    BY <1>1, <2>1, <2>2 DEF Process
  <2>4. proc[p] # NoProc
    BY <1>5, <1>1 DEF SetPgid, Finish, Die, Crash
  <2>. QED BY <1>4, <2>2, <2>3, <2>4 DEF Confined
<1>6. ASSUME NEW p \in Pid, ServiceSend(p) PROVE Confined(O, M, A, K)'
  <2>1. /\ inbox' = Append(inbox, Head(proc[p].script))
        /\ proc' = [proc EXCEPT ![p].script = Tail(@)]
        /\ proc[p].st = "grouped" /\ proc[p].script # << >>
    BY <1>6 DEF ServiceSend
  <2>2. proc[p] \in Process /\ proc[p].script \in Seq(M) /\ inbox \in Seq(M)
    BY <1>1, <2>1 DEF Confined
  <2>3. Head(proc[p].script) \in M /\ Tail(proc[p].script) \in Seq(M)
    BY <2>1, <2>2, HeadTailProperties
  <2>4. inbox' \in Seq(M)
    BY <2>1, <2>2, <2>3, AppendProperties
  <2>5. proc'[p].script = Tail(proc[p].script) /\ \A q \in Pid \ {p} : proc'[q] = proc[q]
    BY <1>1, <2>1, <2>2 DEF Process
  <2>. QED BY <1>4, <2>3, <2>4, <2>5 DEF Confined
<1>7. ASSUME NEW m \in ClientMessage, ClientSend(m) PROVE Confined(O, M, A, K)'
  <2>1. inbox' = Append(inbox, m) /\ inbox \in Seq(M) /\ m \in M /\ UNCHANGED proc
    BY <1>7 DEF ClientSend, Confined, Closure, svcVars
  <2>2. inbox' \in Seq(M)
    BY <2>1, AppendProperties
  <2>. QED BY <1>4, <2>1, <2>2 DEF Confined
<1>8. CASE UNCHANGED <<inbox, proc>>
  BY <1>4, <1>8 DEF Confined
<1>. QED BY <1>5, <1>6, <1>7, <1>8 DEF Environment, Kernel, Rest, FiveSecondsPass, vars, svcVars

LEMMA NextConfined ==
  ASSUME IInv, NEW O, NEW M, NEW A, NEW K, Closure(O, M, A, K), Confined(O, M, A, K), NewScripts(M),
         [Next]_vars
  PROVE  Confined(O, M, A, K)'
BY StepConfined, ExecuteConfined, MessageConfined, LoopConfined, EnvironmentConfined DEF Next, Main

-----------------------------------------------------------------------------
(***************************************************************************)
(* What misc/init.rc says                                                  *)
(***************************************************************************)
LEMMA NamesDiffer ==
  /\ Service = {logd, bootan, update_check, update, camerad, web_server}
  /\ Oneshot = {bootan, update_check, update}
  /\ web_server \notin Oneshot /\ camerad \notin Oneshot
  /\ update \notin {logd, bootan, update_check, camerad, web_server}
  /\ camerad \notin {logd, bootan, update_check, web_server}
  /\ sys_update \notin {sys_logd, sys_bootan, sys_app, sys_web} \cup Service
  /\ sys_app \notin {sys_logd, sys_bootan, sys_web} \cup Service
  /\ prop_update \notin {prop_logd, prop_bootan, prop_app, prop_camerad, prop_web}
  /\ prop_app \notin {prop_logd, prop_bootan, prop_camerad, prop_web}
  /\ \A i \in DOMAIN BootOrder : BootOrder[i] \notin {prop_update, prop_app}
  /\ {prop_update, prop_app} \subseteq Action /\ {sys_update, sys_app} \subseteq Key
<1>. DEFINE names == <<logd, bootan, update_check, update, camerad, web_server,
                       sys_logd, sys_bootan, sys_update, sys_app, sys_web>>
            acts == <<on_init, on_property, on_signal, on_early, on_boot, on_triggers,
                      prop_logd, prop_bootan, prop_update, prop_app, prop_camerad, prop_web>>
<1>1. /\ Service = {logd, bootan, update_check, update, camerad, web_server}
      /\ Oneshot = {bootan, update_check, update} /\ BootOrder = RcBootOrder
      /\ {prop_update, prop_app} \subseteq Action /\ {sys_update, sys_app} \subseteq Key
  BY RcAssumption DEF IsRc, RcService, RcOneshot, RcAction, RcKey
<1>2. Distinct(names) /\ Distinct(acts)
  BY RcAssumption DEF IsRc
<1>3. /\ \A i, j \in 1..11 : names[i] = names[j] => i = j
      /\ \A i, j \in 1..12 : acts[i] = acts[j] => i = j
  BY <1>2 DEF Distinct
<1>4. /\ names[1] = logd /\ names[2] = bootan /\ names[3] = update_check /\ names[4] = update
      /\ names[5] = camerad /\ names[6] = web_server /\ names[7] = sys_logd /\ names[8] = sys_bootan
      /\ names[9] = sys_update /\ names[10] = sys_app /\ names[11] = sys_web
  OBVIOUS
<1>5. /\ acts[1] = on_init /\ acts[2] = on_property /\ acts[3] = on_signal /\ acts[4] = on_early
      /\ acts[5] = on_boot /\ acts[6] = on_triggers /\ acts[7] = prop_logd /\ acts[8] = prop_bootan
      /\ acts[9] = prop_update /\ acts[10] = prop_app /\ acts[11] = prop_camerad /\ acts[12] = prop_web
  OBVIOUS
<1>. HIDE DEF names, acts
<1>6. \A k \in 1..11 \ {4} : names[4] # names[k]
  BY <1>3
<1>7. \A k \in 1..11 \ {5} : names[5] # names[k]
  BY <1>3
<1>8. \A k \in 1..11 \ {6} : names[6] # names[k]
  BY <1>3
<1>9. \A k \in 1..11 \ {9} : names[9] # names[k]
  BY <1>3
<1>10. \A k \in 1..11 \ {10} : names[10] # names[k]
  BY <1>3
<1>11. \A k \in 1..12 \ {9} : acts[9] # acts[k]
  BY <1>3
<1>12. \A k \in 1..12 \ {10} : acts[10] # acts[k]
  BY <1>3
<1>13. web_server \notin Oneshot /\ camerad \notin Oneshot
  BY <1>1, <1>4, <1>7, <1>8
<1>14. /\ update \notin {logd, bootan, update_check, camerad, web_server}
       /\ camerad \notin {logd, bootan, update_check, web_server}
  BY <1>4, <1>6, <1>7
<1>15. sys_update \notin {sys_logd, sys_bootan, sys_app, sys_web} \cup Service
  BY <1>1, <1>4, <1>9
<1>16. sys_app \notin {sys_logd, sys_bootan, sys_web} \cup Service
  BY <1>1, <1>4, <1>10
<1>17. /\ prop_update \notin {prop_logd, prop_bootan, prop_app, prop_camerad, prop_web}
       /\ prop_app \notin {prop_logd, prop_bootan, prop_camerad, prop_web}
  BY <1>5, <1>11, <1>12
<1>18. \A i \in DOMAIN BootOrder : BootOrder[i] \notin {prop_update, prop_app}
  <2>1. \A i \in 1..6 : acts[i] \notin {prop_update, prop_app}
    BY <1>5, <1>11, <1>12
  <2>2. DOMAIN BootOrder = 1..6 /\ \A i \in 1..6 : BootOrder[i] = acts[i]
    BY <1>1 DEF RcBootOrder, acts
  <2>. QED BY <2>1, <2>2
<1>. QED BY <1>1, <1>13, <1>14, <1>15, <1>16, <1>17, <1>18

LEMMA SequenceIn ==
  ASSUME NEW S, NEW T, NEW q \in Seq(S), \A i \in DOMAIN q : q[i] \in T
  PROVE  q \in Seq(T)
<1>1. Len(q) \in Nat /\ DOMAIN q = 1..Len(q) /\ q \in [1..Len(q) -> T]
  BY LenProperties
<1>. QED BY <1>1, SequenceOf

\* The commands of the chain.
LEMMA RcCommandsAre ==
  ASSUME NEW a \in Action, NEW i \in DOMAIN Commands[a]
  PROVE  LET c == Commands[a][i]
         IN  \/ c = [cmd |-> "other"] \/ c = [cmd |-> "property_service_init"]
             \/ c = [cmd |-> "signal_init"] \/ c = [cmd |-> "queue_property_triggers"]
             \/ c = [cmd |-> "start", svc |-> web_server]
             \/ \E class \in {"base", "bootan", "update_check"} : c = [cmd |-> "class_start", class |-> class]
             \/ a = prop_update /\ c = [cmd |-> "class_start", class |-> "update"]
             \/ a = prop_app /\ c = [cmd |-> "class_start", class |-> "core"]
<1>1. Commands[a] =
        CASE a = on_init     -> <<[cmd |-> "other"]>>
          [] a = on_property -> <<[cmd |-> "property_service_init"]>>
          [] a = on_signal   -> <<[cmd |-> "signal_init"]>>
          [] a = on_early    -> ClassStart("base")
          [] a = on_triggers -> <<[cmd |-> "queue_property_triggers"]>>
          [] a = prop_logd     -> ClassStart("bootan")
          [] a = prop_bootan   -> ClassStart("update_check")
          [] a = prop_update   -> ClassStart("update")
          [] a = prop_app      -> ClassStart("core")
          [] a = prop_camerad  -> <<[cmd |-> "start", svc |-> web_server]>>
          [] OTHER          -> << >>
  BY RcAssumption DEF IsRc, RcCommands
<1>2. \/ Commands[a] = << >>
      \/ \E c \in {[cmd |-> "other"], [cmd |-> "property_service_init"], [cmd |-> "signal_init"],
                   [cmd |-> "queue_property_triggers"], [cmd |-> "start", svc |-> web_server]} :
           Commands[a] = <<c>>
      \/ \E class \in {"base", "bootan", "update_check"} : Commands[a] = ClassStart(class)
      \/ a = prop_update /\ Commands[a] = ClassStart("update")
      \/ a = prop_app /\ Commands[a] = ClassStart("core")
  BY <1>1
<1>. QED BY <1>2 DEF ClassStart

\* Every step such a command is made of, whatever action it belongs to.
RcStep(a, o) ==
  \/ o = [op |-> "reap"] \/ o.op = "enqueue_matching"
  \/ o = [op |-> "start", svc |-> web_server]
  \/ o.op = "start_enabled" /\ o.svc \in {logd, bootan, update_check}
  \/ o.op = "start_enabled" /\ o.svc = update /\ a = prop_update
  \/ o.op = "start_enabled" /\ o.svc = camerad /\ a = prop_app

LEMMA RcStepsAre ==
  ASSUME NEW a \in Action, NEW i \in DOMAIN Commands[a]
  PROVE  /\ Expand(Commands[a][i]) \in Seq(Op)
         /\ \A j \in DOMAIN Expand(Commands[a][i]) : RcStep(a, Expand(Commands[a][i])[j])
<1>. DEFINE c == Commands[a][i]
<1>1. c \in Command
  BY ActionAssumption, LenProperties, ElementOfSeq
<1>2. Expand(c) \in Seq(Op)
  BY <1>1, ExpandType
<1>3. \/ c = [cmd |-> "other"] \/ c = [cmd |-> "property_service_init"]
      \/ c = [cmd |-> "signal_init"] \/ c = [cmd |-> "queue_property_triggers"]
      \/ c = [cmd |-> "start", svc |-> web_server]
      \/ \E class \in {"base", "bootan", "update_check"} : c = [cmd |-> "class_start", class |-> class]
      \/ a = prop_update /\ c = [cmd |-> "class_start", class |-> "update"]
      \/ a = prop_app /\ c = [cmd |-> "class_start", class |-> "core"]
  BY RcCommandsAre
<1>. HIDE DEF c
<1>4. CASE c \in {[cmd |-> "other"], [cmd |-> "property_service_init"]}
  <2>1. Expand(c) = << >>
    BY <1>4 DEF Expand
  <2>. QED BY <1>2, <2>1 DEF c
<1>5. CASE c = [cmd |-> "signal_init"]
  <2>1. Expand(c) = <<[op |-> "reap"]>>
    BY <1>5 DEF Expand
  <2>. QED BY <1>2, <2>1 DEF c, RcStep
<1>6. CASE c = [cmd |-> "queue_property_triggers"]
  <2>1. Expand(c) = Enqueues("enqueue_matching", ActionOrder)
    BY <1>6 DEF Expand
  <2>2. \A j \in DOMAIN Expand(c) : Expand(c)[j].op = "enqueue_matching"
    BY <2>1 DEF Enqueues
  <2>. QED BY <1>2, <2>2 DEF c, RcStep
<1>7. CASE c = [cmd |-> "start", svc |-> web_server]
  <2>1. Expand(c) = <<[op |-> "start", svc |-> web_server]>>
    BY <1>7 DEF Expand
  <2>. QED BY <1>2, <2>1 DEF c, RcStep
<1>8. ASSUME NEW class, c = [cmd |-> "class_start", class |-> class] PROVE Expand(c) = SvcOps("start_enabled", InClass[class])
  BY <1>8 DEF Expand
<1>9. /\ InClass["base"] = <<logd>> /\ InClass["bootan"] = <<bootan>>
      /\ InClass["update_check"] = <<update_check>> /\ InClass["update"] = <<update>>
      /\ InClass["core"] = <<camerad>>
  BY RcAssumption DEF IsRc, RcInClass, RcClass
<1>10. ASSUME NEW s, NEW class, InClass[class] = <<s>>, c = [cmd |-> "class_start", class |-> class]
       PROVE  \A j \in DOMAIN Expand(c) : Expand(c)[j] = [op |-> "start_enabled", svc |-> s]
  <2>1. Expand(c) = SvcOps("start_enabled", <<s>>)
    BY <1>8, <1>10
  <2>. QED BY <2>1 DEF SvcOps
<1>11. CASE \E class \in {"base", "bootan", "update_check"} : c = [cmd |-> "class_start", class |-> class]
  <2>1. PICK class \in {"base", "bootan", "update_check"} : c = [cmd |-> "class_start", class |-> class]
    BY <1>11
  <2>2. PICK s \in {logd, bootan, update_check} : InClass[class] = <<s>>
    BY <1>9
  <2>3. \A j \in DOMAIN Expand(c) : Expand(c)[j] = [op |-> "start_enabled", svc |-> s]
    BY <1>10, <2>1, <2>2
  <2>. QED BY <1>2, <2>3 DEF c, RcStep
<1>12. CASE a = prop_update /\ c = [cmd |-> "class_start", class |-> "update"]
  <2>1. \A j \in DOMAIN Expand(c) : Expand(c)[j] = [op |-> "start_enabled", svc |-> update]
    BY <1>9, <1>10, <1>12
  <2>. QED BY <1>2, <1>12, <2>1 DEF c, RcStep
<1>13. CASE a = prop_app /\ c = [cmd |-> "class_start", class |-> "core"]
  <2>1. \A j \in DOMAIN Expand(c) : Expand(c)[j] = [op |-> "start_enabled", svc |-> camerad]
    BY <1>9, <1>10, <1>13
  <2>. QED BY <1>2, <1>13, <2>1 DEF c, RcStep
<1>. QED BY <1>3, <1>4, <1>5, <1>6, <1>7, <1>11, <1>12, <1>13

LEMMA RcTriggers ==
  ASSUME NEW side \in Side, NEW k \in Key \ {side.key}, NEW v \in Value
  PROVE  Triggered[<<k, v>>] \in Seq(Action \ {side.act})
<1>1. Triggered[<<k, v>>] \in Seq(Action)
  BY PropertyAssumption
<1>2. Triggered[<<k, v>>] =
        CASE <<k, v>> = <<sys_logd, "true">>     -> <<prop_logd>>
          [] <<k, v>> = <<sys_bootan, "true">>   -> <<prop_bootan>>
          [] <<k, v>> = <<sys_update, "true">>   -> <<prop_update>>
          [] <<k, v>> = <<sys_app, "true">>      -> <<prop_app>>
          [] <<k, v>> = <<camerad, "running">> -> <<prop_camerad>>
          [] <<k, v>> = <<sys_web, "true">>      -> <<prop_web>>
          [] OTHER                       -> << >>
  BY RcAssumption DEF IsRc, RcTriggered
<1>3. \/ Triggered[<<k, v>>] = << >>
      \/ \E a \in {prop_logd, prop_bootan, prop_camerad, prop_web} : Triggered[<<k, v>>] = <<a>>
      \/ k = sys_update /\ Triggered[<<k, v>>] = <<prop_update>>
      \/ k = sys_app /\ Triggered[<<k, v>>] = <<prop_app>>
  BY <1>2
<1>4. \/ side.key = sys_update /\ side.act = prop_update
      \/ side.key = sys_app /\ side.act = prop_app
  BY DEF Side, UpdateSide, CameraSide
<1>5. \A i \in DOMAIN Triggered[<<k, v>>] : Triggered[<<k, v>>][i] # side.act
  BY <1>3, <1>4, NamesDiffer
<1>6. \A i \in DOMAIN Triggered[<<k, v>>] : Triggered[<<k, v>>][i] \in Action \ {side.act}
  BY <1>1, <1>5, LenProperties, ElementOfSeq
<1>. QED BY <1>1, <1>6, SequenceIn

\* What the processes of the chain may send: nothing that starts a oneshot, and
\* only update_check decides for a side, for one.
LEMMA RcScriptsAre ==
  ASSUME NEW s \in Service, NEW script \in Scripts[s]
  PROVE  /\ script \in Seq(Polite)
         /\ s # update_check => \A side \in Side : script \in Seq(Silent(side))
         /\ s = update_check => \E side \in Side : script \in Seq(Silent(side))
<1>1. script \in Seq(Message)
  BY ProcessAssumption
<1>. DEFINE stop == [msg |-> "stop", svc |-> bootan, args |-> FALSE]
<1>2. \/ script = << >>
      \/ \E k \in {sys_logd, sys_bootan, sys_web} : script = <<Set(k)>>
      \/ s = update_check /\ script = <<Set(sys_update)>>
      \/ s = update_check /\ script = <<Set(sys_app), stop>>
  <2>1. Scripts[s] = CASE s = logd         -> {LogdScript}
                       [] s = bootan       -> {BootanScript}
                       [] s = update_check -> UpdateCheckScripts
                       [] s = web_server   -> {WebScript}
                       [] OTHER            -> {<< >>}
    BY RcAssumption DEF IsRc, RcScripts
  <2>2. \/ script \in {<< >>, LogdScript, BootanScript, WebScript}
        \/ s = update_check /\ script \in UpdateCheckScripts
    BY <2>1
  <2>. QED BY <2>2 DEF LogdScript, BootanScript, WebScript, UpdateCheckScripts
<1>3. \A k : Set(k).msg = "set" /\ Set(k).key = k
  BY DEF Set
<1>4. stop.msg = "stop"
  OBVIOUS
<1>. HIDE DEF stop
<1>5. \A i \in DOMAIN script : /\ script[i].msg \in {"set", "stop"}
                               /\ script[i].msg = "set" =>
                                    \/ script[i].key \in {sys_logd, sys_bootan, sys_web}
                                    \/ s = update_check /\ script = <<Set(sys_update)>> /\ script[i].key = sys_update
                                    \/ s = update_check /\ script = <<Set(sys_app), stop>> /\ script[i].key = sys_app
  BY <1>2, <1>3, <1>4
<1>6. \A i \in DOMAIN script : script[i] \in Message
  BY <1>1, LenProperties, ElementOfSeq
<1>7. script \in Seq(Polite)
  BY <1>1, <1>5, <1>6, SequenceIn DEF Polite
<1>8. ASSUME NEW side \in Side, \A i \in DOMAIN script : script[i].msg = "set" => script[i].key # side.key
      PROVE  script \in Seq(Silent(side))
  <2>1. \A i \in DOMAIN script : script[i] \in Silent(side)
    BY <1>5, <1>6, <1>8 DEF Silent
  <2>. QED BY <1>1, <2>1, SequenceIn
<1>9. \A side \in Side : side.key \in {sys_update, sys_app}
  BY DEF Side, UpdateSide, CameraSide
<1>10. s # update_check => \A side \in Side : script \in Seq(Silent(side))
  BY <1>5, <1>8, <1>9, NamesDiffer
<1>11. s = update_check => \E side \in Side : script \in Seq(Silent(side))
  <2>1. CASE script = <<Set(sys_update)>>
    <3>1. \A i \in DOMAIN script : script[i].msg = "set" => script[i].key = sys_update
      BY <1>3, <2>1
    <3>2. CameraSide \in Side /\ CameraSide.key = sys_app
      BY DEF Side, CameraSide
    <3>. QED BY <1>8, <3>1, <3>2, NamesDiffer
  <2>2. CASE script # <<Set(sys_update)>>
    <3>1. UpdateSide \in Side /\ UpdateSide.key = sys_update
      BY DEF Side, UpdateSide
    <3>. QED BY <1>5, <1>8, <2>2, <3>1, NamesDiffer
  <2>. QED BY <2>1, <2>2
<1>. QED BY <1>7, <1>10, <1>11

LEMMA NoOnRestart ==
  ASSUME NEW s \in Service, NEW O
  PROVE  OnRestartOps(s) \in Seq(O)
<1>1. OnRestart[s] = << >>
  BY RcAssumption DEF IsRc, RcOnRestart
<1>2. OnRestartOps(s) \in Seq(Op) /\ DOMAIN OnRestartOps(s) = {}
  BY <1>1, OnRestartOpsType DEF OnRestartOps
<1>. QED BY <1>2, SequenceIn

LEMMA NoClients == ClientMessage = {}
  BY RcAssumption DEF IsRc

\* Only commands of the rc file can be in an onrestart list, and what they expand
\* to are no onrestart steps again.
LEMMA OnRestartExpands ==
  ASSUME NEW o \in Op, o.op = "onrestart"
  PROVE  /\ Expand(o.cmd) \in Seq(Op)
         /\ \A i \in DOMAIN Expand(o.cmd) : /\ Expand(o.cmd)[i] \in Op
                                            /\ Expand(o.cmd)[i].op # "onrestart"
<1>1. o.cmd \in RcCommand /\ o.cmd \in Command
  BY OpFields DEF Command
<1>2. Expand(o.cmd) \in Seq(Op)
  BY <1>1, ExpandType
<1>. QED BY <1>1, <1>2, ExpandAnnouncesNothing, LenProperties, ElementOfSeq

\* The steps that are there whatever the rc file says.
LEMMA StandingSteps ==
  /\ [op |-> "reap"] \in Op
  /\ \A a \in Action : [op |-> "enqueue", act |-> a] \in Op
  /\ \A s \in Service : /\ [op |-> "respawn", svc |-> s] \in Op
                        /\ [op |-> "restarting", svc |-> s] \in Op
BY DEF Op, SvcOp

\* What a control message does: it starts or stops the service it names.
LEMMA ControlSteps ==
  ASSUME NEW m \in Message, m.msg \notin {"set", "denied"}
  PROVE  /\ ControlOps(m) \in Seq(Op)
         /\ \A i \in DOMAIN ControlOps(m) :
              /\ ControlOps(m)[i] \in Op /\ ControlOps(m)[i].op \in {"start", "start_args", "stop"}
              /\ ControlOps(m)[i].svc = m.svc
              /\ ControlOps(m)[i].op # "stop" => m.msg \in {"start", "restart"}
<1>1. ControlOps(m) \in Seq(Op)
  BY ControlOpsType
<1>. DEFINE start == [op |-> IF m.args THEN "start_args" ELSE "start", svc |-> m.svc]
            stop == [op |-> "stop", svc |-> m.svc]
<1>2. m.msg \in {"start", "stop", "restart"}
  BY DEF Message
<1>3. \/ m.msg \in {"start", "restart"} /\ ControlOps(m) \in {<<start>>, <<stop, start>>}
      \/ ControlOps(m) \in {<< >>, <<stop>>}
  BY <1>2 DEF ControlOps
<1>4. /\ start.op \in {"start", "start_args"} /\ start.svc = m.svc
      /\ stop.op = "stop" /\ stop.svc = m.svc
  OBVIOUS
<1>. HIDE DEF start, stop
<1>5. \A i \in DOMAIN ControlOps(m) :
        \/ ControlOps(m)[i] = stop
        \/ ControlOps(m)[i] = start /\ m.msg \in {"start", "restart"}
  BY <1>3
<1>6. \A i \in DOMAIN ControlOps(m) : ControlOps(m)[i] \in Op
  BY <1>1, LenProperties, ElementOfSeq
<1>. QED BY <1>1, <1>4, <1>5, <1>6

LEMMA OneshotClosure == Closure(ByClass, Polite, Action, Key)
<1>1. ByClass \subseteq Op /\ Polite \subseteq Message /\ Service \subseteq Key
  BY PropertyAssumption DEF ByClass, Polite
<1>2. ASSUME NEW o \in ByClass
      PROVE  /\ o.op = "set" => o.key \in Key
             /\ o.op = "enqueue" => o.act \in Action
             /\ o.op = "onrestart" => Expand(o.cmd) \in Seq(ByClass)
  <2>1. o \in Op
    BY DEF ByClass
  <2>2. ASSUME o.op = "onrestart" PROVE Expand(o.cmd) \in Seq(ByClass)
    <3>1. \A i \in DOMAIN Expand(o.cmd) : Expand(o.cmd)[i] \in ByClass
      BY <2>1, <2>2, OnRestartExpands DEF ByClass
    <3>. QED BY <2>1, <2>2, <3>1, OnRestartExpands, SequenceIn
  <2>. QED BY <2>1, <2>2, OpFields
<1>3. /\ [op |-> "reap"] \in ByClass
      /\ \A a \in Action : [op |-> "enqueue", act |-> a] \in ByClass
      /\ \A s \in Service : /\ [op |-> "respawn", svc |-> s] \in ByClass
                            /\ s \notin Oneshot => [op |-> "restarting", svc |-> s] \in ByClass
  BY StandingSteps DEF ByClass, ByName
<1>4. ASSUME NEW a \in Action, NEW i \in DOMAIN Commands[a] PROVE Expand(Commands[a][i]) \in Seq(ByClass)
  <2>. DEFINE q == Expand(Commands[a][i])
  <2>1. q \in Seq(Op) /\ \A j \in DOMAIN q : RcStep(a, q[j])
    BY RcStepsAre
  <2>. HIDE DEF q
  <2>2. ASSUME NEW j \in DOMAIN q PROVE q[j] \in ByClass
    <3>1. q[j] \in Op /\ RcStep(a, q[j])
      BY <2>1, LenProperties, ElementOfSeq
    <3>. QED BY <3>1, NamesDiffer DEF RcStep, ByClass, ByName
  <2>3. q \in Seq(ByClass)
    BY <2>1, <2>2, SequenceIn
  <2>. QED BY <2>3 DEF q
<1>5. \A k \in Key \cap Key, v \in Value : Triggered[<<k, v>>] \in Seq(Action)
  BY PropertyAssumption
<1>6. ASSUME NEW m \in Polite
      PROVE  /\ m.msg = "set" => m.key \in Key
             /\ m.msg \notin {"set", "denied"} => ControlOps(m) \in Seq(ByClass)
  <2>1. m \in Message /\ (m.msg \in {"start", "restart"} => m.svc \notin Oneshot)
    BY DEF Polite
  <2>2. ASSUME m.msg \notin {"set", "denied"} PROVE ControlOps(m) \in Seq(ByClass)
    <3>1. \A i \in DOMAIN ControlOps(m) : ControlOps(m)[i] \in ByClass
      BY <2>1, <2>2, ControlSteps DEF ByClass, ByName
    <3>. QED BY <2>1, <2>2, <3>1, ControlSteps, SequenceIn
  <2>. QED BY <2>1, <2>2 DEF Message
<1>. QED BY <1>1, <1>2, <1>3, <1>4, <1>5, <1>6, NoOnRestart, NoClients DEF Closure

LEMMA SideClosure ==
  ASSUME NEW side \in Side
  PROVE  Closure(Apart(side), Silent(side), Action \ {side.act}, Key \ {side.key})
<1>. DEFINE O == Apart(side)
            M == Silent(side)
            A == Action \ {side.act}
            K == Key \ {side.key}
<1>1. \/ side.key = sys_update /\ side.act = prop_update /\ side.svc = update
      \/ side.key = sys_app /\ side.act = prop_app /\ side.svc = camerad
  BY DEF Side, UpdateSide, CameraSide
<1>2. O \subseteq Op /\ M \subseteq Message /\ A \subseteq Action /\ Service \subseteq K
  BY <1>1, PropertyAssumption, NamesDiffer DEF Apart, Silent
<1>3. ASSUME NEW o \in O
      PROVE  /\ o.op = "set" => o.key \in K
             /\ o.op = "enqueue" => o.act \in A
             /\ o.op = "onrestart" => Expand(o.cmd) \in Seq(O)
  <2>1. o \in Op /\ ~Reaches(o, side)
    BY DEF Apart
  <2>2. ASSUME o.op = "onrestart" PROVE Expand(o.cmd) \in Seq(O)
    <3>1. \A i \in DOMAIN Expand(o.cmd) : Expand(o.cmd)[i] \in O
      BY <2>1, <2>2, OnRestartExpands DEF Apart
    <3>. QED BY <2>1, <2>2, <3>1, OnRestartExpands, SequenceIn
  <2>. QED BY <2>1, <2>2, OpFields DEF Reaches
<1>4. /\ [op |-> "reap"] \in O
      /\ \A a \in A : [op |-> "enqueue", act |-> a] \in O
      /\ \A s \in Service : /\ [op |-> "respawn", svc |-> s] \in O
                            /\ [op |-> "restarting", svc |-> s] \in O
  BY StandingSteps DEF Apart, Reaches
<1>5. ASSUME NEW a \in A, NEW i \in DOMAIN Commands[a] PROVE Expand(Commands[a][i]) \in Seq(O)
  <2>. DEFINE q == Expand(Commands[a][i])
  <2>1. q \in Seq(Op) /\ \A j \in DOMAIN q : RcStep(a, q[j])
    BY RcStepsAre
  <2>. HIDE DEF q, O
  <2>2. ASSUME NEW j \in DOMAIN q PROVE q[j] \in O
    <3>1. q[j] \in Op /\ RcStep(a, q[j]) /\ a # side.act
      BY <2>1, LenProperties, ElementOfSeq
    <3>2. ~Reaches(q[j], side) /\ q[j].op # "onrestart"
      BY <1>1, <3>1, NamesDiffer DEF RcStep, Reaches
    <3>. QED BY <3>1, <3>2 DEF O, Apart
  <2>3. q \in Seq(O)
    BY <2>1, <2>2, SequenceIn
  <2>. QED BY <2>3 DEF q
<1>6. \A k \in K \cap Key, v \in Value : Triggered[<<k, v>>] \in Seq(A)
  BY RcTriggers
<1>7. ASSUME NEW m \in M
      PROVE  /\ m.msg = "set" => m.key \in K
             /\ m.msg \notin {"set", "denied"} => ControlOps(m) \in Seq(O)
  <2>1. /\ m \in Message /\ (m.msg = "set" => m.key # side.key)
        /\ m.msg \in {"start", "restart"} => m.svc # side.svc
    BY DEF Silent
  <2>2. ASSUME m.msg \notin {"set", "denied"} PROVE ControlOps(m) \in Seq(O)
    <3>1. \A i \in DOMAIN ControlOps(m) : ControlOps(m)[i] \in O
      BY <2>1, <2>2, ControlSteps DEF Apart, Reaches
    <3>. QED BY <2>1, <2>2, <3>1, ControlSteps, SequenceIn
  <2>. QED BY <2>1, <2>2 DEF Message
<1>8. \A s \in Service : OnRestartOps(s) \in Seq(O)
  BY NoOnRestart
<1>. HIDE DEF O, M, A, K
<1>9. Closure(O, M, A, K)
  BY <1>2, <1>3, <1>4, <1>5, <1>6, <1>7, <1>8, NoClients DEF Closure
<1>. QED BY <1>9 DEF O, M, A, K

-----------------------------------------------------------------------------
(***************************************************************************)
(* What a step does to one service                                         *)
(***************************************************************************)
StartedBy(o, s) ==
  /\ o.op \in {"start", "start_args", "start_enabled", "respawn"} /\ o.svc = s
  /\ o.op = "start_enabled" => "DISABLED" \notin flags[s]
  /\ o.op = "respawn" => "RESTARTING" \in flags[s]
  /\ \E args \in BOOLEAN : ServiceStart(s, args)

StoppedBy(o, s) ==
  /\ o.op \in {"stop", "reset"} /\ o.svc = s
  /\ IF o.op = "stop" THEN ServiceStopOrReset(s, "DISABLED") ELSE ServiceStopOrReset(s, "RESET")

AnnouncedBy(o, s) ==
  /\ o.op = "restarting" /\ o.svc = s
  /\ SetProp(s, "restarting", Tail(todo))
  /\ UNCHANGED <<flags, pid>>

ActedOn(s) ==
  \/ todo # << >> /\ (StartedBy(Head(todo), s) \/ StoppedBy(Head(todo), s) \/ AnnouncedBy(Head(todo), s))
  \/ \E p \in Pid : ReapService(p, s)

LEMMA SetPropFrame ==
  ASSUME TypeOK, NEW k \in Key, NEW v, NEW rest, SetProp(k, v, rest)
  PROVE  \A s \in Service \ {k} : prop'[s] = prop[s]
BY PropertyAssumption DEF SetProp, TypeOK

LEMMA OthersStay ==
  ASSUME TypeOK, NEW t \in Service, NEW s \in Service \ {t},
         \/ \E args \in BOOLEAN : ServiceStart(t, args)
         \/ \E how \in {"DISABLED", "RESET"} : ServiceStopOrReset(t, how)
         \/ \E p \in Pid : ReapService(p, t)
  PROVE  SameService(s)
<1>1. t \in Key /\ flags \in [Service -> SUBSET Flag] /\ pid \in [Service -> Pid \cup {NoPid}]
  BY PropertyAssumption DEF TypeOK
<1>2. ASSUME NEW v, NEW rest, SetProp(t, v, rest) PROVE prop'[s] = prop[s]
  BY <1>1, <1>2, SetPropFrame
<1>3. ASSUME NEW args \in BOOLEAN, ServiceStart(t, args) PROVE SameService(s)
  <2>1. CASE StartRunning(t) \/ StartRefused(t, args) \/ StartForkFails(t, args)
    BY <1>1, <2>1 DEF StartRunning, StartRefused, StartForkFails, SameService
  <2>2. CASE StartForks(t, args)
    <3>1. SetProp(t, "running", Tail(todo))
      BY <2>2 DEF StartForks
    <3>2. prop'[s] = prop[s]
      BY <1>2, <3>1
    <3>. QED BY <1>1, <2>2, <3>2 DEF StartForks, SameService
  <2>. QED BY <1>3, <2>1, <2>2 DEF ServiceStart
<1>4. ASSUME NEW how \in {"DISABLED", "RESET"}, ServiceStopOrReset(t, how) PROVE SameService(s)
  <2>1. \E v : SetProp(t, v, Tail(todo))
    BY <1>4 DEF ServiceStopOrReset
  <2>2. prop'[s] = prop[s]
    BY <1>2, <2>1
  <2>. QED BY <1>1, <1>4, <2>2 DEF ServiceStopOrReset, SameService
<1>5. ASSUME NEW p \in Pid, ReapService(p, t) PROVE SameService(s)
  <2>1. SetProp(t, "stopped", todo) \/ prop' = prop
    BY <1>5 DEF ReapService
  <2>2. prop'[s] = prop[s]
    BY <1>2, <2>1
  <2>. QED BY <1>1, <1>5, <2>2 DEF ReapService, SameService
<1>. QED BY <1>3, <1>4, <1>5

LEMMA EffectOfStep ==
  ASSUME IInv, Step, NEW s \in Service
  PROVE  ActedOn(s) \/ SameService(s)
<1>. DEFINE o == Head(todo)
<1>1. todo # << >> /\ TypeOK /\ o \in Op
  BY HeadTailProperties DEF Step, IInv, TypeOK
<1>2. /\ o.op \in SvcOp => o.svc \in Service
      /\ o.op = "set" => o.key \in Key \ Service
  BY <1>1 DEF Op, SvcOp
<1>. HIDE DEF o
<1>3. ASSUME UNCHANGED <<flags, pid, prop>> PROVE SameService(s)
  BY <1>3 DEF SameService
<1>4. CASE ServiceStep(o)
  <2>1. CASE o.op \in {"start", "start_args", "start_enabled", "respawn"}
    <3>1. \/ Skip \/ RespawnLater(o.svc)
          \/ /\ \E args \in BOOLEAN : ServiceStart(o.svc, args)
             /\ o.op = "start_enabled" => "DISABLED" \notin flags[o.svc]
             /\ o.op = "respawn" => "RESTARTING" \in flags[o.svc]
      BY <1>4, <2>1 DEF ServiceStep, Respawn, StartIfNotDisabled
    <3>2. CASE Skip \/ RespawnLater(o.svc)
      BY <1>3, <3>2 DEF Skip, RespawnLater, svcVars
    <3>3. CASE o.svc = s /\ ~Skip /\ ~RespawnLater(o.svc)
      BY <1>1, <2>1, <3>1, <3>3 DEF ActedOn, StartedBy, o
    <3>4. CASE o.svc # s /\ ~Skip /\ ~RespawnLater(o.svc)
      BY <1>1, <1>2, <2>1, <3>1, <3>4, OthersStay DEF SvcOp
    <3>. QED BY <3>2, <3>3, <3>4
  <2>2. CASE o.op = "stop"
    <3>1. ServiceStopOrReset(o.svc, "DISABLED")
      BY <1>4, <2>2 DEF ServiceStep
    <3>2. CASE o.svc = s
      BY <1>1, <2>2, <3>1, <3>2 DEF ActedOn, StoppedBy, o
    <3>3. CASE o.svc # s
      BY <1>1, <1>2, <2>2, <3>1, <3>3, OthersStay DEF SvcOp
    <3>. QED BY <3>2, <3>3
  <2>3. CASE o.op = "reset"
    <3>1. ServiceStopOrReset(o.svc, "RESET")
      BY <1>4, <2>3 DEF ServiceStep
    <3>2. CASE o.svc = s
      BY <1>1, <2>3, <3>1, <3>2 DEF ActedOn, StoppedBy, o
    <3>3. CASE o.svc # s
      BY <1>1, <1>2, <2>3, <3>1, <3>3, OthersStay DEF SvcOp
    <3>. QED BY <3>2, <3>3
  <2>. QED BY <1>4, <2>1, <2>2, <2>3 DEF ServiceStep
<1>5. CASE PropertyStep(o)
  <2>1. UNCHANGED <<flags, pid>>
    BY <1>5 DEF PropertyStep, svcVars
  <2>2. CASE o.op = "restarting" /\ o.svc = s
    <3>1. SetProp(s, "restarting", Tail(todo))
      BY <1>5, <2>2 DEF PropertyStep
    <3>. QED BY <1>1, <2>1, <2>2, <3>1 DEF ActedOn, AnnouncedBy, o
  <2>3. CASE ~(o.op = "restarting" /\ o.svc = s)
    <3>1. \E k \in Key \ {s} : \E v : SetProp(k, v, Tail(todo))
      BY <1>2, <1>5, <2>3, PropertyAssumption DEF PropertyStep, SvcOp
    <3>2. prop'[s] = prop[s]
      BY <1>1, <3>1, SetPropFrame
    <3>. QED BY <2>1, <3>2 DEF SameService
  <2>. QED BY <2>2, <2>3
<1>6. CASE QueueStep(o) \/ CommandStep(o) \/ ReapDone
  BY <1>3, <1>6 DEF QueueStep, CommandStep, ReapDone, svcVars
<1>7. CASE Reap
  <2>1. PICK p \in Pid : ReapUntracked(p) \/ \E t \in Service : ReapService(p, t)
    BY <1>7 DEF Reap
  <2>2. CASE ReapUntracked(p)
    BY <1>3, <2>2 DEF ReapUntracked
  <2>3. ASSUME NEW t \in Service, ReapService(p, t) PROVE ActedOn(s) \/ SameService(s)
    <3>1. CASE t = s
      BY <2>3, <3>1 DEF ActedOn
    <3>2. CASE t # s
      BY <1>1, <2>3, <3>2, OthersStay
    <3>. QED BY <3>1, <3>2
  <2>. QED BY <2>1, <2>2, <2>3
<1>. QED BY <1>4, <1>5, <1>6, <1>7 DEF Step, o

LEMMA EffectOfNext ==
  ASSUME IInv, [Next]_vars, NEW s \in Service
  PROVE  ActedOn(s) \/ SameService(s)
<1>1. CASE Step
  BY <1>1, EffectOfStep
<1>2. CASE HandlePropertySetFd
  <2>1. UNCHANGED <<flags, pid>> /\ TypeOK
    BY <1>2 DEF HandlePropertySetFd, svcVars, IInv
  <2>2. prop'[s] = prop[s]
    <3>1. CASE prop' = prop
      BY <3>1
    <3>2. CASE prop' # prop
      <4>. DEFINE m == Head(inbox)
      <4>1. "property" \in ready /\ inbox # << >>
        BY <1>2, <3>2 DEF HandlePropertySetFd, IInv, PromiseKept, Ready
      <4>2. m \in Message
        BY <2>1, <4>1, HeadTailProperties DEF TypeOK
      <4>3. m.msg = "set" /\ SetProp(m.key, m.val, << >>)
        BY <1>2, <3>2, <4>1 DEF HandlePropertySetFd
      <4>4. m.key \in Key \ Service
        BY <4>2, <4>3 DEF Message
      <4>. QED BY <2>1, <4>3, <4>4, SetPropFrame
    <3>. QED BY <3>1, <3>2
  <2>. QED BY <2>1, <2>2 DEF SameService
<1>3. CASE ExecuteOneCommand \/ RestartProcesses \/ Poll \/ HandleSignal \/ Environment \/ UNCHANGED vars
  BY <1>3 DEF ExecuteOneCommand, RestartProcesses, Poll, HandleSignal, Environment, Kernel, Crash, SetPgid,
     Finish, Die, ServiceSend, BecomeZombie, ClientSend, Rest, FiveSecondsPass, svcVars, vars, SameService
<1>. QED BY <1>1, <1>2, <1>3 DEF Next, Main

-----------------------------------------------------------------------------
(***************************************************************************)
(* The oneshot services                                                    *)
(***************************************************************************)
OneshotStep ==
  \A s \in Oneshot : pid'[s] # pid[s] /\ pid'[s] # NoPid => prop[s] = Unset

OneshotFlags(s) ==
  /\ "RESTARTING" \notin flags[s]
  /\ prop[s] # Unset => flags[s] \cap {"RUNNING", "DISABLED"} # {}

\* A process that is new is one of a service that got a pid, and the only one.
LEMMA NewProcess ==
  ASSUME IInv, [Next]_vars, NEW p \in Pid, proc[p] = NoProc, proc'[p] # NoProc
  PROVE  \E s \in Service : /\ pid'[s] # pid[s] /\ pid'[s] # NoPid
                            /\ proc'[p].script \in Scripts[s]
                            /\ \A x \in Pid \ {p} : proc'[x] = proc[x]
<1>1. proc \in [Pid -> Process \cup {NoProc}] /\ NoProc = [st |-> "none"]
      /\ pid \in [Service -> Pid \cup {NoPid}]
  BY DEF IInv, TypeOK, NoProc
<1>2. ASSUME UNCHANGED proc PROVE FALSE
  BY <1>2
<1>3. ASSUME NEW s \in Service, NEW args, StartForks(s, args)
      PROVE  /\ pid'[s] # pid[s] /\ pid'[s] # NoPid /\ proc'[p].script \in Scripts[s]
             /\ \A x \in Pid \ {p} : proc'[x] = proc[x]
  <2>1. PICK q \in NewPid[FreePid], script \in Scripts[s] :
          /\ pid' = [pid EXCEPT ![s] = q]
          /\ proc' = [proc EXCEPT ![q] = [st |-> "forked", svc |-> s, script |-> script]]
    BY <1>3 DEF StartForks
  <2>2. q \in Pid /\ proc[q] = NoProc
    <3>1. FreePid \in SUBSET Pid /\ \A x \in FreePid : proc[x] = NoProc
      BY DEF FreePid
    <3>2. NewPid[FreePid] \subseteq FreePid
      BY <3>1, ProcessAssumption
    <3>. QED BY <3>1, <3>2
  <2>3. p = q
    BY <1>1, <2>1, <2>2
  <2>4. pid[s] # q /\ q # NoPid
    BY <2>2, ProcessAssumption DEF IInv, PidsAreTracked
  <2>. QED BY <1>1, <2>1, <2>2, <2>3, <2>4
<1>4. ASSUME NEW s \in Service, NEW args \in BOOLEAN, ServiceStart(s, args) PROVE StartForks(s, args)
  BY <1>2, <1>4 DEF ServiceStart, StartRunning, StartRefused, StartForkFails
<1>5. ASSUME NEW s \in Service, NEW how \in {"DISABLED", "RESET"}, ServiceStopOrReset(s, how) PROVE FALSE
  <2>1. proc' = [proc EXCEPT ![pid[s]].st = "dying"] /\ proc[pid[s]].st = "grouped"
    BY <1>2, <1>5 DEF ServiceStopOrReset, Kill
  <2>. QED BY <1>1, <2>1
<1>6. ASSUME NEW q \in Pid, proc' = [proc EXCEPT ![q] = NoProc] PROVE FALSE
  BY <1>1, <1>6
<1>7. ASSUME NEW q \in Pid, SetPgid(q) \/ Finish(q) \/ Die(q) \/ Crash(q) \/ ServiceSend(q) PROVE FALSE
  <2>1. proc[q] # NoProc /\ \A x \in Pid \ {q} : proc'[x] = proc[x]
    BY <1>1, <1>7 DEF SetPgid, Finish, Die, Crash, ServiceSend, BecomeZombie
  <2>. QED BY <2>1
<1>8. \E s \in Service, args \in BOOLEAN : ServiceStart(s, args)
  <2>1. CASE Step
    <3>. DEFINE o == Head(todo)
    <3>1. o \in Op
      BY <2>1, HeadTailProperties DEF Step, IInv, TypeOK
    <3>2. o.op \in SvcOp => o.svc \in Service
      BY <3>1, OpFields
    <3>3. ServiceStep(o) \/ PropertyStep(o) \/ QueueStep(o) \/ CommandStep(o) \/ Reap \/ ReapDone
      BY <2>1 DEF Step
    <3>. HIDE DEF o
    <3>4. CASE PropertyStep(o) \/ QueueStep(o) \/ CommandStep(o) \/ ReapDone
      BY <1>2, <3>4 DEF PropertyStep, QueueStep, CommandStep, ReapDone, svcVars
    <3>5. CASE Reap
      BY <1>6, <3>5 DEF Reap
    <3>6. CASE ServiceStep(o)
      <4>1. CASE o.op = "stop" \/ o.op = "reset"
        BY <1>5, <3>2, <3>6, <4>1 DEF ServiceStep, SvcOp
      <4>2. CASE Skip \/ RespawnLater(o.svc)
        BY <1>2, <4>2 DEF Skip, RespawnLater, svcVars
      <4>3. CASE o.op \notin {"stop", "reset"} /\ ~Skip /\ ~RespawnLater(o.svc)
        BY <3>2, <3>6, <4>3 DEF ServiceStep, SvcOp, Respawn, StartIfNotDisabled
      <4>. QED BY <4>1, <4>2, <4>3
    <3>. QED BY <3>3, <3>4, <3>5, <3>6
  <2>2. CASE ExecuteOneCommand \/ RestartProcesses \/ Poll \/ HandlePropertySetFd \/ HandleSignal \/ UNCHANGED vars
    BY <1>2, <2>2 DEF ExecuteOneCommand, RestartProcesses, Poll, HandlePropertySetFd, HandleSignal, svcVars, vars
  <2>3. CASE Environment
    BY <1>2, <1>7, <2>3 DEF Environment, Kernel, ClientSend, Rest, FiveSecondsPass, svcVars
  <2>. QED BY <2>1, <2>2, <2>3 DEF Next, Main
<1>. QED BY <1>3, <1>4, <1>8

LEMMA OneshotEffect ==
  ASSUME IInv, NEW s \in Oneshot, todo \in Seq(ByClass), OneshotFlags(s), ActedOn(s)
  PROVE  /\ OneshotFlags(s)'
         /\ pid'[s] # pid[s] /\ pid'[s] # NoPid => prop[s] = Unset
<1>1. /\ s \in Service /\ s \in Key /\ TypeOK /\ FlagsAgree
      /\ flags \in [Service -> SUBSET Flag] /\ pid \in [Service -> Pid \cup {NoPid}]
  BY ServiceAssumption, PropertyAssumption DEF IInv, TypeOK
<1>. DEFINE o == Head(todo)
<1>2. ASSUME todo # << >> PROVE o \in Op /\ ~ByName(o)
  BY <1>2, HeadTailProperties DEF ByClass
<1>. HIDE DEF o
<1>3. CASE todo # << >> /\ StartedBy(o, s)
  <2>1. o.op = "start_enabled" /\ "DISABLED" \notin flags[s]
    BY <1>2, <1>3 DEF StartedBy, ByName, OneshotFlags
  <2>2. PICK args \in BOOLEAN : ServiceStart(s, args)
    BY <1>3 DEF StartedBy
  <2>3. prop[s] # Unset => "RUNNING" \in flags[s]
    BY <2>1 DEF OneshotFlags
  <2>4. CASE StartRunning(s)
    BY <1>1, <2>4 DEF StartRunning, OneshotFlags, Cleared
  <2>5. CASE StartRefused(s, args)
    BY <1>1, <2>3, <2>5 DEF StartRefused, OneshotFlags, Cleared
  <2>6. CASE StartForkFails(s, args)
    BY <1>1, <2>3, <2>6 DEF StartForkFails, CanStart, OneshotFlags, Cleared
  <2>7. CASE StartForks(s, args)
    BY <1>1, <2>3, <2>7 DEF StartForks, CanStart, OneshotFlags, Cleared
  <2>. QED BY <2>2, <2>4, <2>5, <2>6, <2>7 DEF ServiceStart
<1>4. CASE todo # << >> /\ StoppedBy(o, s)
  <2>1. ServiceStopOrReset(s, "DISABLED")
    BY <1>2, <1>4 DEF StoppedBy, ByName
  <2>. QED BY <1>1, <2>1 DEF ServiceStopOrReset, OneshotFlags
<1>5. CASE todo # << >> /\ AnnouncedBy(o, s)
  BY <1>2, <1>5 DEF AnnouncedBy, ByName
<1>6. ASSUME NEW p \in Pid, ReapService(p, s)
      PROVE  OneshotFlags(s)' /\ pid'[s] = NoPid
  <2>1. StaysDown(s) /\ "DISABLED" \in ExitFlags(s) /\ "RESTARTING" \notin ExitFlags(s)
    BY DEF StaysDown, ExitFlags, OneshotFlags
  <2>. QED BY <1>1, <1>6, <2>1 DEF ReapService, OneshotFlags
<1>. QED BY <1>3, <1>4, <1>5, <1>6 DEF ActedOn, o

LEMMA OneshotNext ==
  ASSUME IInv, OneshotInv, [Next]_vars
  PROVE  OneshotInv' /\ OneshotStep
<1>1. \A s \in Oneshot : OneshotFlags(s)
  BY DEF OneshotInv, OneshotFlags
<1>2. todo \in Seq(ByClass)
  BY DEF OneshotInv, Confined
<1>3. ASSUME NEW s \in Oneshot
      PROVE  /\ OneshotFlags(s)'
             /\ pid'[s] # pid[s] /\ pid'[s] # NoPid => prop[s] = Unset
  <2>1. s \in Service
    BY ServiceAssumption
  <2>2. ActedOn(s) \/ SameService(s)
    BY <2>1, EffectOfNext
  <2>3. CASE ActedOn(s)
    BY <1>1, <1>2, <2>3, OneshotEffect
  <2>4. CASE SameService(s)
    BY <1>1, <2>4 DEF SameService, OneshotFlags
  <2>. QED BY <2>2, <2>3, <2>4
<1>4. NewScripts(Polite)
  <2>1. \A s \in Service : \A script \in Scripts[s] : script \in Seq(Polite)
    BY RcScriptsAre
  <2>. QED BY <2>1, NewProcess DEF NewScripts
<1>5. Confined(ByClass, Polite, Action, Key)'
  BY <1>4, OneshotClosure, NextConfined DEF OneshotInv
<1>. QED BY <1>3, <1>5 DEF OneshotInv, OneshotFlags, OneshotStep

LEMMA InitConfined ==
  ASSUME Init, NEW O, NEW M, NEW A \in SUBSET Action, NEW K,
         \A a \in A : [op |-> "enqueue", act |-> a] \in O, BootOrder \in Seq(A)
  PROVE  Confined(O, M, A, K)
<1>1. todo \in Seq(O)
  BY EnqueuesIn DEF Init
<1>2. Within(list, A)
  BY QHeadAssumption DEF Init, ListInit, Within, Node
<1>3. << >> \in Seq(M)
  BY EmptySeq
<1>. QED BY <1>1, <1>2, <1>3 DEF Init, Confined

\* The inductive invariant of OneshotsStartOnce: nothing in the camera would
\* start or set back a oneshot service but by its class, and one that has been
\* started or stopped runs or is disabled.
THEOREM OneshotInvariance == Spec => []OneshotInv
<1>1. Init => OneshotInv
  <2>1. SUFFICES ASSUME Init PROVE OneshotInv
    OBVIOUS
  <2>2. Confined(ByClass, Polite, Action, Key)
    BY <2>1, InitConfined, OneshotClosure, ActionAssumption DEF Closure
  <2>3. \A s \in Oneshot : prop[s] = Unset /\ "RESTARTING" \notin flags[s]
    BY <2>1, ServiceAssumption, PropertyAssumption DEF Init
  <2>. QED BY <2>2, <2>3 DEF OneshotInv
<1>2. IInv /\ OneshotInv /\ [Next]_vars => OneshotInv'
  BY OneshotNext
<1>. QED BY <1>1, <1>2, Invariance, PTL DEF Spec

\* OneshotsStartOnce: no rc action, exit or message starts bootan, update_check
\* or the update a second time in one boot (builtins.c, signal_handler.c), even
\* if the services that start them come back and set their properties again.
THEOREM OneshotsNeverStartTwice == Spec => OneshotsStartOnce
<1>1. IInv /\ OneshotInv /\ [Next]_vars
        => [\A s \in Oneshot : pid'[s] # pid[s] /\ pid'[s] # NoPid => prop[s] = Unset]_vars
  BY OneshotNext DEF OneshotStep
<1>. QED BY <1>1, OneshotInvariance, Invariance, PTL DEF Spec, OneshotsStartOnce

-----------------------------------------------------------------------------
(***************************************************************************)
(* The update and the camera                                               *)
(***************************************************************************)
NotUp(s) == flags[s] \cap {"RUNNING", "RESTARTING"} = {} /\ pid[s] = NoPid

\* What nothing leads to is neither started nor, as it has no process, reaped.
LEMMA SideEffect ==
  ASSUME IInv, NEW side \in Side, todo \in Seq(Apart(side)), NotUp(side.svc), ActedOn(side.svc)
  PROVE  NotUp(side.svc)'
<1>. DEFINE s == side.svc
            o == Head(todo)
<1>1. /\ s \in Service /\ TypeOK
      /\ flags \in [Service -> SUBSET Flag] /\ pid \in [Service -> Pid \cup {NoPid}]
  BY NamesDiffer DEF IInv, TypeOK, Side, UpdateSide, CameraSide
<1>2. ASSUME todo # << >> PROVE ~Reaches(o, side)
  BY <1>2, HeadTailProperties DEF Apart
<1>. HIDE DEF s, o
<1>3. NotUp(s)
  BY DEF s
<1>4. CASE todo # << >> /\ StartedBy(o, s)
  BY <1>2, <1>3, <1>4 DEF StartedBy, Reaches, NotUp, s
<1>5. CASE todo # << >> /\ StoppedBy(o, s)
  <2>1. \E how \in {"DISABLED", "RESET"} : ServiceStopOrReset(s, how)
    BY <1>5 DEF StoppedBy
  <2>. QED BY <1>1, <1>3, <2>1 DEF ServiceStopOrReset, NotUp
<1>6. CASE todo # << >> /\ AnnouncedBy(o, s)
  BY <1>3, <1>6 DEF AnnouncedBy, NotUp
<1>7. ASSUME NEW p \in Pid, ReapService(p, s) PROVE FALSE
  BY <1>1, <1>3, <1>7, ProcessAssumption DEF ReapService, Owner, NotUp
<1>8. ActedOn(s) /\ (NotUp(s)' => NotUp(side.svc)')
  BY DEF s
<1>. QED BY <1>4, <1>5, <1>6, <1>7, <1>8 DEF ActedOn, o

\* A side stays untouched, unless update_check is started with a script for it.
LEMMA UntouchedStays ==
  ASSUME IInv, [Next]_vars, NEW side \in Side, Untouched(side), NewScripts(Silent(side))
  PROVE  Untouched(side)'
<1>1. Confined(Apart(side), Silent(side), Action \ {side.act}, Key \ {side.key})'
  BY SideClosure, NextConfined DEF Untouched
<1>2. NotUp(side.svc) /\ todo \in Seq(Apart(side)) /\ side.svc \in Service
  BY NamesDiffer DEF Untouched, NotUp, Confined, Side, UpdateSide, CameraSide
<1>3. NotUp(side.svc)'
  <2>1. CASE ActedOn(side.svc)
    BY <1>2, <2>1, SideEffect
  <2>2. CASE SameService(side.svc)
    BY <1>2, <2>2 DEF SameService, NotUp
  <2>. QED BY <1>2, <2>1, <2>2, EffectOfNext
<1>. QED BY <1>1, <1>3 DEF Untouched, NotUp

\* A property that has been set is never unset.
LEMMA SetForGood ==
  ASSUME IInv, [Next]_vars, NEW s \in Service, prop[s] # Unset
  PROVE  prop'[s] # Unset
<1>1. s \in Key /\ TypeOK
  BY PropertyAssumption DEF IInv
<1>2. ASSUME NEW v \in Value, NEW rest, SetProp(s, v, rest) PROVE prop'[s] # Unset
  BY <1>1, <1>2, PropertyAssumption DEF SetProp, TypeOK
<1>3. {"running", "stopping", "stopped", "restarting"} \subseteq Value
  BY PropertyAssumption
<1>4. ASSUME NEW args \in BOOLEAN, ServiceStart(s, args) PROVE prop'[s] # Unset
  <2>1. SetProp(s, "running", Tail(todo)) \/ UNCHANGED prop
    BY <1>4 DEF ServiceStart, StartRunning, StartRefused, StartForkFails, StartForks
  <2>. QED BY <1>2, <1>3, <2>1
<1>5. ASSUME NEW how, ServiceStopOrReset(s, how) PROVE prop'[s] # Unset
  <2>1. \E v \in {"stopping", "stopped"} : SetProp(s, v, Tail(todo))
    BY <1>5 DEF ServiceStopOrReset
  <2>. QED BY <1>2, <1>3, <2>1
<1>6. ASSUME NEW p \in Pid, ReapService(p, s) PROVE prop'[s] # Unset
  <2>1. SetProp(s, "stopped", todo) \/ UNCHANGED prop
    BY <1>6 DEF ReapService
  <2>. QED BY <1>2, <1>3, <2>1
<1>7. ASSUME AnnouncedBy(Head(todo), s) PROVE prop'[s] # Unset
  BY <1>2, <1>3, <1>7 DEF AnnouncedBy
<1>. QED BY <1>4, <1>5, <1>6, <1>7, EffectOfNext, <1>1 DEF ActedOn, StartedBy, StoppedBy, SameService

\* A start that forks update_check leaves its property behind.
LEMMA ForkIsSeen ==
  ASSUME IInv, RoomForEveryKey, [Next]_vars,
         pid'[update_check] # pid[update_check], pid'[update_check] # NoPid
  PROVE  prop'[update_check] # Unset
<1>. DEFINE s == update_check
<1>1. s \in Service /\ TypeOK /\ pid \in [Service -> Pid \cup {NoPid}]
  BY NamesDiffer DEF IInv, TypeOK
<1>2. ActedOn(s)
  BY <1>1, EffectOfNext DEF SameService
<1>3. ASSUME NEW p \in Pid, ReapService(p, s) PROVE FALSE
  BY <1>1, <1>3 DEF ReapService
<1>4. ASSUME NEW how, ServiceStopOrReset(s, how) PROVE FALSE
  BY <1>4 DEF ServiceStopOrReset
<1>5. ~AnnouncedBy(Head(todo), s) /\ ~StoppedBy(Head(todo), s)
  BY <1>4 DEF AnnouncedBy, StoppedBy
<1>6. \E args \in BOOLEAN : ServiceStart(s, args)
  BY <1>2, <1>3, <1>5 DEF ActedOn, StartedBy
<1>7. \E args \in BOOLEAN : StartForks(s, args)
  BY <1>1, <1>6 DEF ServiceStart, StartRunning, StartRefused, StartForkFails
<1>8. SetProp(s, "running", Tail(todo)) /\ "running" \in Value /\ Unset \notin Value
  BY <1>7, PropertyAssumption DEF StartForks
<1>. QED BY <1>1, <1>8, SetStatus

LEMMA ChoiceNext ==
  ASSUME IInv, OneshotInv, ChoiceInv, RoomForEveryKey, [Next]_vars
  PROVE  ChoiceInv'
<1>. DEFINE New(p) == p \in Pid /\ proc[p] = NoProc /\ proc'[p] # NoProc
<1>1. update_check \in Oneshot /\ update_check \in Service
  BY NamesDiffer
<1>2. prop'[update_check] = Unset => prop[update_check] = Unset
  BY <1>1, SetForGood
<1>3. ASSUME \A side \in Side : NewScripts(Silent(side)) PROVE ChoiceInv'
  <2>1. \A side \in Side : Untouched(side) => Untouched(side)'
    BY <1>3, UntouchedStays
  <2>. QED BY <1>2, <2>1 DEF ChoiceInv
<1>4. CASE \A p \in Pid : ~New(p)
  BY <1>3, <1>4 DEF NewScripts
<1>5. ASSUME NEW p \in Pid, New(p) PROVE ChoiceInv'
  <2>1. PICK s \in Service : /\ pid'[s] # pid[s] /\ pid'[s] # NoPid
                             /\ proc'[p].script \in Scripts[s]
                             /\ \A x \in Pid \ {p} : proc'[x] = proc[x]
    BY <1>5, NewProcess
  <2>2. \A side \in Side : proc'[p].script \in Seq(Silent(side)) => NewScripts(Silent(side))
    BY <2>1 DEF NewScripts
  <2>3. CASE s # update_check
    <3>1. \A side \in Side : proc'[p].script \in Seq(Silent(side))
      BY <2>1, <2>3, RcScriptsAre
    <3>. QED BY <1>3, <2>2, <3>1
  <2>4. CASE s = update_check
    <3>1. prop[update_check] = Unset /\ prop'[update_check] # Unset
      BY <1>1, <2>1, <2>4, OneshotNext, ForkIsSeen DEF OneshotStep
    <3>2. \E side \in Side : proc'[p].script \in Seq(Silent(side))
      BY <2>1, <2>4, RcScriptsAre
    <3>3. PICK side \in Side : NewScripts(Silent(side))
      BY <2>2, <3>2
    <3>4. Untouched(side)'
      BY <3>1, <3>3, UntouchedStays DEF ChoiceInv
    <3>. QED BY <3>1, <3>4 DEF ChoiceInv
  <2>. QED BY <2>3, <2>4
<1>. QED BY <1>4, <1>5

LEMMA ChoiceInit ==
  ASSUME Init
  PROVE  ChoiceInv
<1>1. ASSUME NEW side \in Side PROVE Untouched(side)
  <2>1. /\ side.act \in {prop_update, prop_app} /\ side.svc \in Service
    BY NamesDiffer DEF Side, UpdateSide, CameraSide
  <2>2. \A a \in Action \ {side.act} : [op |-> "enqueue", act |-> a] \in Apart(side)
    BY SideClosure DEF Closure
  <2>3. BootOrder \in Seq(Action \ {side.act})
    <3>1. BootOrder \in Seq(Action)
      BY ActionAssumption
    <3>2. \A i \in DOMAIN BootOrder : BootOrder[i] \in Action \ {side.act}
      BY <2>1, <3>1, NamesDiffer, LenProperties, ElementOfSeq
    <3>. QED BY <3>1, <3>2, SequenceIn
  <2>4. Confined(Apart(side), Silent(side), Action \ {side.act}, Key \ {side.key})
    BY <2>2, <2>3, InitConfined
  <2>5. flags[side.svc] \cap {"RUNNING", "RESTARTING"} = {} /\ pid[side.svc] = NoPid
    BY <2>1 DEF Init
  <2>. QED BY <2>4, <2>5 DEF Untouched
<1>2. Side # {}
  BY DEF Side
<1>. QED BY <1>1, <1>2 DEF ChoiceInv

\* The inductive invariant of NoUpdateWhileCameraRuns: until update_check has been
\* started nothing leads to either side, and afterwards to one of them at most.
THEOREM ChoiceInvariance ==
  ASSUME RoomForEveryKey
  PROVE  Spec => []ChoiceInv
<1>1. Init => ChoiceInv
  BY ChoiceInit
<1>2. IInv /\ OneshotInv /\ ChoiceInv /\ [Next]_vars => ChoiceInv'
  BY ChoiceNext
<1>. QED BY <1>1, <1>2, Invariance, OneshotInvariance, PTL DEF Spec

\* NoUpdateWhileCameraRuns: the update and the camera never run in the same boot
\* (init.rc, update_check/main.cpp), whatever dies, comes back or sets its property
\* again, as long as the property area has room for the status of update_check.
THEOREM NeverUpdateAndCamera ==
  ASSUME RoomForEveryKey
  PROVE  Spec => []NoUpdateWhileCameraRuns
<1>1. ChoiceInv => NoUpdateWhileCameraRuns
  <2>1. UpdateSide.svc = update /\ CameraSide.svc = camerad
    BY DEF UpdateSide, CameraSide
  <2>. QED BY <2>1 DEF ChoiceInv, Side, Untouched, NoUpdateWhileCameraRuns, Running
<1>. QED BY <1>1, ChoiceInvariance, PTL

-----------------------------------------------------------------------------
(***************************************************************************)
(* One process of a service at a time                                      *)
(***************************************************************************)
\* Every step and message of the chain: class_start starts its services, all but
\* the web server, and nothing is stopped but bootan.
ChainOp ==
  {o \in Op : /\ o.op \in {"start", "start_enabled", "stop", "respawn", "restarting",
                           "enqueue", "enqueue_matching", "reap"}
              /\ o.op = "start" => o.svc = web_server
              /\ o.op = "stop" => o.svc = bootan
              /\ o.op = "restarting" => o.svc \notin Oneshot}

ChainMessage ==
  {m \in Message : /\ m.msg \in {"set", "stop"}
                   /\ m.msg = "stop" => m.svc = bootan /\ ~m.args}

\* What the process of a service may still have to send.
StopBootan == [msg |-> "stop", svc |-> bootan, args |-> FALSE]

Remains(s) == Scripts[s] \cup {<< >>, <<StopBootan>>}

\* The services that are never stopped: they have a pid as long as they run.
Lasting == {logd, camerad, web_server}

\* No process is lost sight of, so that none is started beside it.
Tracked(p) == proc[p] # NoProc => pid[proc[p].svc] = p /\ proc[p].script \in Remains(proc[p].svc)

TrackInv ==
  /\ Confined(ChainOp, ChainMessage, Action, Key)
  /\ \A p \in Pid : Tracked(p)
  /\ \A s \in Lasting : pid[s] # NoPid <=> "RUNNING" \in flags[s]
  /\ \A s \in Oneshot : prop[s] = Unset => pid[s] = NoPid

\* The names of the rc file are different from one another: they can be numbered.
LEMMA NamesNumbered ==
  \E f : /\ f[logd] = 1 /\ f[bootan] = 2 /\ f[update_check] = 3 /\ f[update] = 4
         /\ f[camerad] = 5 /\ f[web_server] = 6 /\ f[sys_logd] = 7 /\ f[sys_bootan] = 8
         /\ f[sys_update] = 9 /\ f[sys_app] = 10 /\ f[sys_web] = 11
<1>. DEFINE names == <<logd, bootan, update_check, update, camerad, web_server,
                       sys_logd, sys_bootan, sys_update, sys_app, sys_web>>
            f == [x \in {names[i] : i \in 1..11} |-> CHOOSE i \in 1..11 : names[i] = x]
<1>1. \A i, j \in 1..11 : names[i] = names[j] => i = j
  BY RcAssumption DEF IsRc, Distinct
<1>2. /\ names[1] = logd /\ names[2] = bootan /\ names[3] = update_check /\ names[4] = update
      /\ names[5] = camerad /\ names[6] = web_server /\ names[7] = sys_logd /\ names[8] = sys_bootan
      /\ names[9] = sys_update /\ names[10] = sys_app /\ names[11] = sys_web
  OBVIOUS
<1>. HIDE DEF names
<1>3. \A i \in 1..11 : f[names[i]] = i
  BY <1>1
<1>. HIDE DEF f
<1>4. /\ f[names[1]] = 1 /\ f[names[2]] = 2 /\ f[names[3]] = 3 /\ f[names[4]] = 4
      /\ f[names[5]] = 5 /\ f[names[6]] = 6 /\ f[names[7]] = 7 /\ f[names[8]] = 8
      /\ f[names[9]] = 9 /\ f[names[10]] = 10 /\ f[names[11]] = 11
  BY <1>3
<1>5. /\ f[logd] = 1 /\ f[bootan] = 2 /\ f[update_check] = 3 /\ f[update] = 4
      /\ f[camerad] = 5 /\ f[web_server] = 6 /\ f[sys_logd] = 7 /\ f[sys_bootan] = 8
      /\ f[sys_update] = 9 /\ f[sys_app] = 10 /\ f[sys_web] = 11
  BY <1>2, <1>4
<1>. QED BY <1>5

LEMMA ActionsNumbered ==
  \E f : /\ f[on_init] = 1 /\ f[on_property] = 2 /\ f[on_signal] = 3 /\ f[on_early] = 4
         /\ f[on_boot] = 5 /\ f[on_triggers] = 6 /\ f[prop_logd] = 7 /\ f[prop_bootan] = 8
         /\ f[prop_update] = 9 /\ f[prop_app] = 10 /\ f[prop_camerad] = 11 /\ f[prop_web] = 12
<1>. DEFINE acts == <<on_init, on_property, on_signal, on_early, on_boot, on_triggers,
                      prop_logd, prop_bootan, prop_update, prop_app, prop_camerad, prop_web>>
            f == [x \in {acts[i] : i \in 1..12} |-> CHOOSE i \in 1..12 : acts[i] = x]
<1>1. \A i, j \in 1..12 : acts[i] = acts[j] => i = j
  BY RcAssumption DEF IsRc, Distinct
<1>2. /\ acts[1] = on_init /\ acts[2] = on_property /\ acts[3] = on_signal /\ acts[4] = on_early
      /\ acts[5] = on_boot /\ acts[6] = on_triggers /\ acts[7] = prop_logd /\ acts[8] = prop_bootan
      /\ acts[9] = prop_update /\ acts[10] = prop_app /\ acts[11] = prop_camerad /\ acts[12] = prop_web
  OBVIOUS
<1>. HIDE DEF acts
<1>3. \A i \in 1..12 : f[acts[i]] = i
  BY <1>1
<1>. HIDE DEF f
<1>4. /\ f[acts[1]] = 1 /\ f[acts[2]] = 2 /\ f[acts[3]] = 3 /\ f[acts[4]] = 4
      /\ f[acts[5]] = 5 /\ f[acts[6]] = 6 /\ f[acts[7]] = 7 /\ f[acts[8]] = 8
      /\ f[acts[9]] = 9 /\ f[acts[10]] = 10 /\ f[acts[11]] = 11 /\ f[acts[12]] = 12
  BY <1>3
<1>5. /\ f[on_init] = 1 /\ f[on_property] = 2 /\ f[on_signal] = 3 /\ f[on_early] = 4
      /\ f[on_boot] = 5 /\ f[on_triggers] = 6 /\ f[prop_logd] = 7 /\ f[prop_bootan] = 8
      /\ f[prop_update] = 9 /\ f[prop_app] = 10 /\ f[prop_camerad] = 11 /\ f[prop_web] = 12
  BY <1>2, <1>4
<1>. QED BY <1>5

LEMMA Services ==
  /\ Service = Lasting \cup Oneshot /\ Lasting \cap Oneshot = {}
  /\ bootan \in Oneshot /\ bootan \notin Lasting /\ bootan \in Service
  /\ Service \subseteq Key
<1>1. logd \notin {bootan, update_check, update}
  BY NamesNumbered
<1>. QED BY <1>1, NamesDiffer, PropertyAssumption DEF Lasting

\* The scripts, and what is left of them.
LEMMA RestFacts ==
  ASSUME NEW s \in Service, NEW script \in Remains(s)
  PROVE  /\ script \in Seq(ChainMessage)
         /\ script # << >> => Tail(script) \in Remains(s)
<1>1. \/ script \in {<< >>, <<StopBootan>>}
      \/ \E k \in {sys_logd, sys_bootan, sys_update, sys_web} : script = <<Set(k)>>
      \/ script = <<Set(sys_app), StopBootan>>
  <2>1. Scripts[s] = CASE s = logd         -> {LogdScript}
                       [] s = bootan       -> {BootanScript}
                       [] s = update_check -> UpdateCheckScripts
                       [] s = web_server   -> {WebScript}
                       [] OTHER            -> {<< >>}
    BY RcAssumption DEF IsRc, RcScripts
  <2>. QED BY <2>1 DEF Remains, LogdScript, BootanScript, WebScript, UpdateCheckScripts, StopBootan
<1>2. \A k \in Key \ Service : Set(k) \in ChainMessage
  <2>1. "true" \in Value
    BY RcAssumption DEF IsRc, RcValue
  <2>. QED BY <2>1 DEF Set, ChainMessage, Message
<1>3. StopBootan \in ChainMessage
  BY Services DEF StopBootan, ChainMessage, Message
<1>4. {sys_logd, sys_bootan, sys_update, sys_app, sys_web} \subseteq Key \ Service
  <2>1. Key = Service \cup {sys_logd, sys_bootan, sys_update, sys_app, sys_web}
    BY RcAssumption DEF IsRc, RcKey
  <2>. QED BY <2>1, NamesNumbered, NamesDiffer
<1>5. script \in Seq(ChainMessage)
  <2>1. \A m \in ChainMessage, n \in ChainMessage : <<m>> \in Seq(ChainMessage) /\ <<m, n>> \in Seq(ChainMessage)
    OBVIOUS
  <2>2. << >> \in Seq(ChainMessage)
    OBVIOUS
  <2>. QED BY <1>1, <1>2, <1>3, <1>4, <2>1, <2>2
<1>6. \A m, n : Tail(<<m>>) = << >> /\ Tail(<<m, n>>) = <<n>>
  OBVIOUS
<1>7. script # << >> => Tail(script) \in {<< >>, <<StopBootan>>}
  BY <1>1, <1>6
<1>. QED BY <1>5, <1>7 DEF Remains

LEMMA ChainClosure == Closure(ChainOp, ChainMessage, Action, Key)
<1>1. ChainOp \subseteq Op /\ ChainMessage \subseteq Message /\ Service \subseteq Key
  BY PropertyAssumption DEF ChainOp, ChainMessage
<1>2. ASSUME NEW o \in ChainOp
      PROVE  o.op \notin {"set", "onrestart"} /\ (o.op = "enqueue" => o.act \in Action)
  <2>1. o \in Op
    BY <1>1
  <2>. QED BY <2>1, OpFields DEF ChainOp
<1>3. /\ [op |-> "reap"] \in ChainOp
      /\ \A a \in Action : [op |-> "enqueue", act |-> a] \in ChainOp
      /\ \A s \in Service : /\ [op |-> "respawn", svc |-> s] \in ChainOp
                            /\ s \notin Oneshot => [op |-> "restarting", svc |-> s] \in ChainOp
  BY StandingSteps DEF ChainOp
<1>4. ASSUME NEW a \in Action, NEW i \in DOMAIN Commands[a] PROVE Expand(Commands[a][i]) \in Seq(ChainOp)
  <2>. DEFINE q == Expand(Commands[a][i])
  <2>1. q \in Seq(Op) /\ \A j \in DOMAIN q : RcStep(a, q[j])
    BY RcStepsAre
  <2>. HIDE DEF q
  <2>2. ASSUME NEW j \in DOMAIN q PROVE q[j] \in ChainOp
    <3>1. q[j] \in Op /\ RcStep(a, q[j])
      BY <2>1, LenProperties, ElementOfSeq
    <3>. QED BY <3>1 DEF RcStep, ChainOp
  <2>3. q \in Seq(ChainOp)
    BY <2>1, <2>2, SequenceIn
  <2>. QED BY <2>3 DEF q
<1>5. \A k \in Key \cap Key, v \in Value : Triggered[<<k, v>>] \in Seq(Action)
  BY PropertyAssumption
<1>6. ASSUME NEW m \in ChainMessage
      PROVE  /\ m.msg = "set" => m.key \in Key
             /\ m.msg \notin {"set", "denied"} => ControlOps(m) \in Seq(ChainOp)
  <2>1. m \in Message /\ m.msg \in {"set", "stop"} /\ (m.msg = "stop" => m.svc = bootan)
    BY DEF ChainMessage
  <2>2. ASSUME m.msg \notin {"set", "denied"} PROVE ControlOps(m) \in Seq(ChainOp)
    <3>1. \A i \in DOMAIN ControlOps(m) : ControlOps(m)[i] \in ChainOp
      BY <2>1, <2>2, ControlSteps DEF ChainOp
    <3>. QED BY <2>1, <2>2, <3>1, ControlSteps, SequenceIn
  <2>. QED BY <2>1, <2>2 DEF Message
<1>. QED BY <1>1, <1>2, <1>3, <1>4, <1>5, <1>6, NoOnRestart, NoClients DEF Closure

\* What a step of the chain may do to a process.
ProcessMove(p) == SetPgid(p) \/ Finish(p) \/ Die(p) \/ Crash(p) \/ ServiceSend(p)

LEMMA ChainMoves ==
  ASSUME IInv, Confined(ChainOp, ChainMessage, Action, Key), [Next]_vars
  PROVE  \/ \E s \in Service : /\ todo # << >> /\ Head(todo) \in ChainOp
                               /\ StartedBy(Head(todo), s)
         \/ /\ todo # << >> /\ Head(todo) \in ChainOp
            /\ StoppedBy(Head(todo), bootan) /\ ServiceStopOrReset(bootan, "DISABLED")
         \/ Reap
         \/ \E p \in Pid : ProcessMove(p)
         \/ UNCHANGED <<flags, pid, proc>>
<1>1. CASE Step
  <2>. DEFINE o == Head(todo)
  <2>1. todo # << >> /\ o \in ChainOp
    BY <1>1, HeadTailProperties DEF Step, Confined
  <2>2. o \in Op /\ (o.op \in SvcOp => o.svc \in Service)
    BY <2>1, OpFields DEF ChainOp
  <2>3. ServiceStep(o) \/ PropertyStep(o) \/ QueueStep(o) \/ CommandStep(o) \/ Reap \/ ReapDone
    BY <1>1 DEF Step
  <2>4. o.op # "reset" /\ (o.op = "stop" => o.svc = bootan) /\ o.op # "start_args"
    BY <2>1 DEF ChainOp
  <2>. HIDE DEF o
  <2>5. CASE PropertyStep(o) \/ QueueStep(o) \/ CommandStep(o) \/ ReapDone
    BY <2>5 DEF PropertyStep, QueueStep, CommandStep, ReapDone, svcVars
  <2>6. CASE ServiceStep(o)
    <3>1. CASE o.op = "stop"
      BY <2>1, <2>4, <2>6, <3>1 DEF ServiceStep, StoppedBy, o
    <3>2. CASE Skip \/ RespawnLater(o.svc)
      BY <3>2 DEF Skip, RespawnLater, svcVars
    <3>3. CASE o.op # "stop" /\ ~Skip /\ ~RespawnLater(o.svc)
      <4>1. /\ o.op \in {"start", "start_enabled", "respawn"}
            /\ \E args \in BOOLEAN : ServiceStart(o.svc, args)
            /\ o.op = "start_enabled" => "DISABLED" \notin flags[o.svc]
            /\ o.op = "respawn" => "RESTARTING" \in flags[o.svc]
        BY <2>4, <2>6, <3>3 DEF ServiceStep, Respawn, StartIfNotDisabled
      <4>2. StartedBy(o, o.svc) /\ o.svc \in Service
        BY <2>2, <4>1 DEF StartedBy, SvcOp
      <4>. QED BY <2>1, <4>2 DEF o
    <3>. QED BY <3>1, <3>2, <3>3
  <2>. QED BY <2>3, <2>5, <2>6
<1>2. CASE Environment
  BY <1>2 DEF Environment, Kernel, ProcessMove, ClientSend, Rest, FiveSecondsPass, svcVars
<1>3. CASE ExecuteOneCommand \/ RestartProcesses \/ Poll \/ HandlePropertySetFd \/ HandleSignal \/ UNCHANGED vars
  BY <1>3 DEF ExecuteOneCommand, RestartProcesses, Poll, HandlePropertySetFd, HandleSignal, svcVars, vars
<1>. QED BY <1>1, <1>2, <1>3 DEF Next, Main

\* All of TrackInv that is not about what waits somewhere.
ServicesTracked ==
  /\ \A p \in Pid : Tracked(p)
  /\ \A s \in Lasting : pid[s] # NoPid <=> "RUNNING" \in flags[s]
  /\ \A s \in Oneshot : prop[s] = Unset => pid[s] = NoPid

\* A service that is about to get a process has none ...
LEMMA NoneBefore ==
  ASSUME OneshotInv, TrackInv, todo # << >>, Head(todo) \in ChainOp,
         NEW s \in Service, StartedBy(Head(todo), s), "RUNNING" \notin flags[s]
  PROVE  pid[s] = NoPid /\ (s \in Oneshot => prop[s] = Unset)
<1>1. CASE s \in Lasting
  BY <1>1, Services DEF TrackInv
<1>2. CASE s \in Oneshot
  <2>1. Head(todo).op # "start"
    BY <1>2, Services DEF StartedBy, ChainOp, Lasting
  <2>2. Head(todo).op = "start_enabled" /\ "DISABLED" \notin flags[s]
    BY <1>2, <2>1 DEF StartedBy, ChainOp, OneshotInv
  <2>3. prop[s] = Unset
    BY <1>2, <2>2 DEF OneshotInv
  <2>. QED BY <1>2, <2>3 DEF TrackInv
<1>. QED BY <1>1, <1>2, Services

\* ... and one that is about to run, or not, has none that goes on.
LEMMA ForkEffect ==
  ASSUME TypeOK, NEW s \in Service, NEW args, StartForks(s, args)
  PROVE  \E p \in Pid, script \in Scripts[s] :
           /\ proc[p] = NoProc /\ p # NoPid
           /\ pid' = [pid EXCEPT ![s] = p]
           /\ proc' = [proc EXCEPT ![p] = [st |-> "forked", svc |-> s, script |-> script]]
<1>1. FreePid \in SUBSET Pid /\ \A x \in FreePid : proc[x] = NoProc
  BY DEF FreePid
<1>2. NewPid[FreePid] \subseteq FreePid
  BY <1>1, ProcessAssumption
<1>. QED BY <1>1, <1>2, ProcessAssumption DEF StartForks

LEMMA StartTracked ==
  ASSUME IInv, OneshotInv, TrackInv, RoomForEveryKey, [Next]_vars, todo # << >>, Head(todo) \in ChainOp,
         NEW s \in Service, StartedBy(Head(todo), s)
  PROVE  ServicesTracked'
<1>1. /\ TypeOK /\ flags \in [Service -> SUBSET Flag] /\ pid \in [Service -> Pid \cup {NoPid}]
      /\ proc \in [Pid -> Process \cup {NoProc}]
  BY DEF IInv, TypeOK
<1>2. PICK args \in BOOLEAN : ServiceStart(s, args)
  BY DEF StartedBy
<1>3. \A t \in Service : prop'[t] = Unset => prop[t] = Unset
  BY SetForGood
<1>4. CASE StartRunning(s)
  <2>1. UNCHANGED <<pid, proc>> /\ flags'[s] = Cleared(s) /\ "RUNNING" \in flags[s]
        /\ \A t \in Service \ {s} : flags'[t] = flags[t]
    BY <1>1, <1>4 DEF StartRunning
  <2>2. \A t \in Service : "RUNNING" \in flags'[t] <=> "RUNNING" \in flags[t]
    BY <2>1 DEF Cleared
  <2>. QED BY <1>3, <2>1, <2>2, Services DEF ServicesTracked, TrackInv, Tracked
<1>5. CASE StartRefused(s, args) \/ StartForkFails(s, args)
  <2>1. "RUNNING" \notin flags[s] /\ proc' = proc /\ "RUNNING" \notin flags'[s]
        /\ \A t \in Service \ {s} : flags'[t] = flags[t]
    BY <1>1, <1>5 DEF StartRefused, StartForkFails, CanStart, Cleared
  <2>2. pid[s] = NoPid
    BY <2>1, NoneBefore
  <2>3. pid' = pid
    BY <1>1, <1>5, <2>2 DEF StartRefused, StartForkFails
  <2>4. \A t \in Service : "RUNNING" \in flags'[t] <=> "RUNNING" \in flags[t]
    BY <2>1
  <2>. QED BY <1>3, <2>1, <2>3, <2>4, Services DEF ServicesTracked, TrackInv, Tracked
<1>6. CASE StartForks(s, args)
  <2>1. PICK p \in Pid, script \in Scripts[s] :
          /\ proc[p] = NoProc /\ p # NoPid
          /\ pid' = [pid EXCEPT ![s] = p]
          /\ proc' = [proc EXCEPT ![p] = [st |-> "forked", svc |-> s, script |-> script]]
    BY <1>1, <1>6, ForkEffect
  <2>2. /\ pid'[s] = p /\ \A t \in Service \ {s} : pid'[t] = pid[t]
        /\ proc'[p].svc = s /\ proc'[p].script = script
        /\ \A x \in Pid \ {p} : proc'[x] = proc[x]
    BY <1>1, <2>1
  <2>3. flags'[s] = Cleared(s) \cup {"RUNNING"} /\ \A t \in Service \ {s} : flags'[t] = flags[t]
    BY <1>1, <1>6 DEF StartForks
  <2>4. pid[s] = NoPid
    BY <1>6, NoneBefore DEF StartForks, CanStart
  <2>5. ASSUME NEW x \in Pid PROVE Tracked(x)'
    <3>1. CASE x = p
      BY <2>1, <2>2, <3>1 DEF Tracked, Remains
    <3>2. CASE x # p /\ proc[x] # NoProc
      <4>1. pid[proc[x].svc] = x /\ proc[x].script \in Remains(proc[x].svc) /\ x # NoPid
        BY <3>2, ProcessAssumption DEF TrackInv, Tracked
      <4>2. proc[x].svc \in Service
        BY <1>1, <3>2 DEF Process
      <4>3. pid'[proc[x].svc] = x
        BY <2>2, <2>4, <4>1, <4>2
      <4>. QED BY <2>2, <3>2, <4>1, <4>3 DEF Tracked, Remains
    <3>. QED BY <2>2, <3>1, <3>2 DEF Tracked
  <2>6. \A t \in Lasting : pid'[t] # NoPid <=> "RUNNING" \in flags'[t]
    BY <2>1, <2>2, <2>3, Services DEF TrackInv
  <2>7. prop'[s] # Unset
    <3>1. SetProp(s, "running", Tail(todo)) /\ "running" \in Value /\ Unset \notin Value
      BY <1>6, PropertyAssumption DEF StartForks
    <3>. QED BY <1>1, <3>1, SetStatus
  <2>8. \A t \in Oneshot : prop'[t] = Unset => pid'[t] = NoPid
    BY <1>3, <2>2, <2>7, Services DEF TrackInv
  <2>. QED BY <2>5, <2>6, <2>8 DEF ServicesTracked
<1>. QED BY <1>2, <1>4, <1>5, <1>6 DEF ServiceStart

LEMMA StopTracked ==
  ASSUME IInv, TrackInv, [Next]_vars, ServiceStopOrReset(bootan, "DISABLED")
  PROVE  ServicesTracked'
<1>1. /\ flags \in [Service -> SUBSET Flag] /\ proc \in [Pid -> Process \cup {NoProc}]
  BY DEF IInv, TypeOK
<1>2. pid' = pid /\ \A t \in Lasting : flags'[t] = flags[t]
  BY <1>1, Services DEF ServiceStopOrReset
<1>3. proc' = proc \/ (proc[pid[bootan]].st = "grouped" /\ proc' = [proc EXCEPT ![pid[bootan]].st = "dying"])
  BY DEF ServiceStopOrReset, Kill
<1>4. ASSUME NEW x \in Pid PROVE Tracked(x)'
  <2>1. CASE proc[x] = NoProc
    BY <1>1, <1>3, <2>1 DEF Tracked, NoProc
  <2>2. CASE proc[x] # NoProc
    <3>1. proc[x] \in Process
      BY <1>1, <2>2
    <3>2. proc'[x] \in {proc[x], [proc[x] EXCEPT !.st = "dying"]}
      BY <1>1, <1>3
    <3>3. proc'[x].svc = proc[x].svc /\ proc'[x].script = proc[x].script
      BY <3>1, <3>2 DEF Process
    <3>. QED BY <1>2, <2>2, <3>3 DEF TrackInv, Tracked, Remains
  <2>. QED BY <2>1, <2>2
<1>5. \A t \in Service : prop'[t] = Unset => prop[t] = Unset
  BY SetForGood
<1>. QED BY <1>2, <1>4, <1>5, Services DEF TrackInv, ServicesTracked

LEMMA ReapTracked ==
  ASSUME IInv, TrackInv, [Next]_vars, Reap
  PROVE  ServicesTracked'
<1>1. /\ flags \in [Service -> SUBSET Flag] /\ proc \in [Pid -> Process \cup {NoProc}]
      /\ pid \in [Service -> Pid \cup {NoPid}]
  BY DEF IInv, TypeOK
<1>2. PICK p \in Pid : /\ proc[p].st = "zombie" /\ proc' = [proc EXCEPT ![p] = NoProc]
                       /\ ReapUntracked(p) \/ \E s \in Service : ReapService(p, s)
  BY DEF Reap
<1>3. proc[p] # NoProc /\ proc[p].svc \in Service /\ pid[proc[p].svc] = p
  BY <1>1, <1>2 DEF TrackInv, Tracked, NoProc, Process
<1>4. PICK s \in Service : ReapService(p, s)
  BY <1>2, <1>3 DEF ReapUntracked, Owner
<1>5. /\ pid[s] = p /\ pid'[s] = NoPid /\ \A t \in Service \ {s} : pid'[t] = pid[t]
      /\ "RUNNING" \notin flags'[s] /\ \A t \in Service \ {s} : flags'[t] = flags[t]
  BY <1>1, <1>4 DEF ReapService, Owner, ExitFlags
<1>6. ASSUME NEW x \in Pid PROVE Tracked(x)'
  <2>1. CASE x = p
    BY <1>1, <1>2, <2>1 DEF Tracked
  <2>2. CASE x # p
    <3>1. proc'[x] = proc[x]
      BY <1>1, <1>2, <2>2
    <3>2. CASE proc[x] # NoProc
      <4>1. pid[proc[x].svc] = x /\ proc[x].script \in Remains(proc[x].svc) /\ proc[x].svc \in Service
        BY <1>1, <3>2 DEF TrackInv, Tracked, Process
      <4>2. pid'[proc[x].svc] = x
        BY <1>5, <2>2, <4>1
      <4>. QED BY <3>1, <4>1, <4>2 DEF Tracked, Remains
    <3>. QED BY <3>1, <3>2 DEF Tracked
  <2>. QED BY <2>1, <2>2
<1>7. \A t \in Lasting : pid'[t] # NoPid <=> "RUNNING" \in flags'[t]
  BY <1>5, Services DEF TrackInv
<1>8. \A t \in Oneshot : prop'[t] = Unset => pid'[t] = NoPid
  BY <1>5, SetForGood, Services DEF TrackInv
<1>. QED BY <1>6, <1>7, <1>8 DEF ServicesTracked

LEMMA MoveTracked ==
  ASSUME IInv, TrackInv, NEW p \in Pid, ProcessMove(p)
  PROVE  ServicesTracked'
<1>1. proc \in [Pid -> Process \cup {NoProc}]
  BY DEF IInv, TypeOK
<1>2. UNCHANGED <<flags, pid, prop>>
  BY DEF ProcessMove, SetPgid, Finish, Die, Crash, ServiceSend, BecomeZombie
<1>3. proc[p] \in Process /\ proc[p] # NoProc
  BY <1>1 DEF ProcessMove, SetPgid, Finish, Die, Crash, ServiceSend, NoProc
<1>4. \/ \E v \in {"grouped", "zombie"} : proc' = [proc EXCEPT ![p].st = v]
      \/ proc[p].script # << >> /\ proc' = [proc EXCEPT ![p].script = Tail(@)]
  BY DEF ProcessMove, SetPgid, Finish, Die, Crash, ServiceSend, BecomeZombie
<1>5. /\ proc'[p].svc = proc[p].svc
      /\ proc'[p].script = proc[p].script \/ (proc[p].script # << >> /\ proc'[p].script = Tail(proc[p].script))
      /\ \A x \in Pid \ {p} : proc'[x] = proc[x]
  BY <1>1, <1>3, <1>4 DEF Process
<1>6. proc[p].svc \in Service /\ pid[proc[p].svc] = p /\ proc[p].script \in Remains(proc[p].svc)
  BY <1>3 DEF TrackInv, Tracked, Process
<1>7. proc'[p].script \in Remains(proc[p].svc)
  BY <1>5, <1>6, RestFacts
<1>8. \A x \in Pid : Tracked(x)'
  BY <1>2, <1>5, <1>6, <1>7 DEF TrackInv, Tracked, Remains
<1>. QED BY <1>2, <1>8 DEF TrackInv, ServicesTracked

LEMMA TrackNext ==
  ASSUME IInv, OneshotInv, TrackInv, RoomForEveryKey, [Next]_vars
  PROVE  TrackInv'
<1>1. NewScripts(ChainMessage)
  <2>1. \A s \in Service : \A script \in Scripts[s] : script \in Seq(ChainMessage)
    BY RestFacts DEF Remains
  <2>. QED BY <2>1, NewProcess DEF NewScripts
<1>2. Confined(ChainOp, ChainMessage, Action, Key)'
  BY <1>1, ChainClosure, NextConfined DEF TrackInv
<1>3. ASSUME UNCHANGED <<flags, pid, proc>> PROVE ServicesTracked'
  <2>1. ASSUME NEW p \in Pid PROVE Tracked(p)'
    BY <1>3 DEF TrackInv, Tracked, Remains
  <2>2. \A s \in Lasting : pid'[s] # NoPid <=> "RUNNING" \in flags'[s]
    BY <1>3 DEF TrackInv
  <2>3. \A s \in Oneshot : prop'[s] = Unset => pid'[s] = NoPid
    BY <1>3, SetForGood, Services DEF TrackInv
  <2>. QED BY <2>1, <2>2, <2>3 DEF ServicesTracked
<1>4. ServicesTracked'
  <2>1. Confined(ChainOp, ChainMessage, Action, Key)
    BY DEF TrackInv
  <2>2. ASSUME NEW s \in Service, todo # << >>, Head(todo) \in ChainOp, StartedBy(Head(todo), s)
        PROVE  ServicesTracked'
    BY <2>2, StartTracked
  <2>3. ASSUME NEW p \in Pid, ProcessMove(p) PROVE ServicesTracked'
    BY <2>3, MoveTracked
  <2>. QED BY <1>3, <2>1, <2>2, <2>3, ChainMoves, StopTracked, ReapTracked
<1>. QED BY <1>2, <1>4 DEF TrackInv, ServicesTracked

\* The inductive invariant of OneProcessPerService.
THEOREM TrackInvariance ==
  ASSUME RoomForEveryKey
  PROVE  Spec => []TrackInv
<1>1. Init => TrackInv
  <2>1. SUFFICES ASSUME Init PROVE TrackInv
    OBVIOUS
  <2>2. Confined(ChainOp, ChainMessage, Action, Key)
    BY <2>1, InitConfined, ChainClosure, ActionAssumption DEF Closure
  <2>3. /\ \A p \in Pid : proc[p] = NoProc
        /\ \A s \in Service : pid[s] = NoPid /\ "RUNNING" \notin flags[s]
    BY <2>1 DEF Init
  <2>. QED BY <2>2, <2>3, Services DEF TrackInv, Tracked
<1>2. IInv /\ OneshotInv /\ TrackInv /\ [Next]_vars => TrackInv'
  BY TrackNext
<1>. QED BY <1>1, <1>2, Invariance, OneshotInvariance, PTL DEF Spec

\* OneProcessPerService: in the chain of misc/init.rc service_start never meets a
\* process of the service that is still there, as its comment says (init.c), for
\* nothing but bootan is stopped, and bootan is not started again.
THEOREM NeverTwoProcesses ==
  ASSUME RoomForEveryKey
  PROVE  Spec => []OneProcessPerService
<1>1. IInv /\ TrackInv => OneProcessPerService
  <2>1. SUFFICES ASSUME IInv, TrackInv, NEW p \in Pid, NEW q \in Pid, Alive(p), Alive(q),
                        proc[p].svc = proc[q].svc
                 PROVE  p = q
    BY DEF OneProcessPerService
  <2>2. proc[p] # NoProc /\ proc[q] # NoProc
    BY <2>1 DEF Alive, NoProc
  <2>. QED BY <2>1, <2>2 DEF TrackInv, Tracked
<1>. QED BY <1>1, Invariance, TrackInvariance, PTL

-----------------------------------------------------------------------------
(***************************************************************************)
(* How often a sequence holds one of S: not at all, once, or more often.   *)
(***************************************************************************)
Weight(s, S) ==
  IF \A i \in DOMAIN s : s[i] \notin S THEN 0
  ELSE IF \A i, j \in DOMAIN s : s[i] \in S /\ s[j] \in S => i = j THEN 1 ELSE 2

LEMMA WeightRange ==
  ASSUME NEW s, NEW S
  PROVE  Weight(s, S) \in 0..2
  BY DEF Weight

LEMMA WeightNone ==
  ASSUME NEW s, NEW S, \A i \in DOMAIN s : s[i] \notin S
  PROVE  Weight(s, S) = 0
  BY DEF Weight

LEMMA WeightEmpty ==
  ASSUME NEW S
  PROVE  Weight(<< >>, S) = 0
  BY DEF Weight

LEMMA WeightOne ==
  ASSUME NEW x, NEW S
  PROVE  Weight(<<x>>, S) = IF x \in S THEN 1 ELSE 0
  BY DEF Weight

\* Fewer hits, less weight.
LEMMA WeightLess ==
  ASSUME NEW s, NEW S, NEW T, \A i \in DOMAIN s : s[i] \in S => s[i] \in T
  PROVE  Weight(s, S) <= Weight(s, T)
  BY DEF Weight

LEMMA WeightHit ==
  ASSUME NEW X, NEW s \in Seq(X), NEW S, s # << >>, Head(s) \in S
  PROVE  Weight(s, S) >= 1
<1>1. 1 \in DOMAIN s /\ s[1] = Head(s)
  BY TailIndices
<1>. QED BY <1>1 DEF Weight

LEMMA WeightTail ==
  ASSUME NEW X, NEW s \in Seq(X), NEW S, s # << >>, Weight(s, S) <= 1
  PROVE  Weight(Tail(s), S) + (IF Head(s) \in S THEN 1 ELSE 0) <= Weight(s, S)
<1>. DEFINE t == Tail(s)
            n == Len(s)
<1>1. /\ n \in Nat /\ 1 <= n /\ DOMAIN s = 1..n /\ DOMAIN t = 1..(n - 1)
      /\ \A i \in 1..(n - 1) : t[i] = s[i + 1]
      /\ Head(s) = s[1]
  BY TailIndices
<1>. HIDE DEF t, n
<1>2. \A i, j \in DOMAIN s : s[i] \in S /\ s[j] \in S => i = j
  BY DEF Weight
<1>3. CASE Head(s) \in S
  <2>1. \A i \in DOMAIN t : t[i] \notin S
    <3>1. \A i \in 1..(n - 1) : i + 1 \in 1..n /\ i + 1 # 1
      BY <1>1
    <3>. QED BY <1>1, <1>2, <1>3, <3>1
  <2>2. Weight(t, S) = 0
    BY <2>1, WeightNone
  <2>3. Weight(s, S) = 1
    BY <1>3, WeightHit, WeightRange
  <2>. QED BY <1>3, <2>2, <2>3 DEF t
<1>4. CASE Head(s) \notin S
  <2>1. \A i \in DOMAIN t : i + 1 \in DOMAIN s /\ t[i] = s[i + 1]
    BY <1>1
  <2>2. CASE \A i \in DOMAIN s : s[i] \notin S
    <3>1. Weight(t, S) = 0 /\ Weight(s, S) = 0
      BY <2>1, <2>2, WeightNone
    <3>. QED BY <1>4, <3>1 DEF t
  <2>3. CASE ~ \A i \in DOMAIN s : s[i] \notin S
    <3>1. Weight(s, S) = 1
      BY <1>2, <2>3 DEF Weight
    <3>2. \A i, j \in DOMAIN t : t[i] \in S /\ t[j] \in S => i = j
      <4>1. ASSUME NEW i \in DOMAIN t, NEW j \in DOMAIN t, t[i] \in S, t[j] \in S PROVE i = j
        <5>1. i + 1 = j + 1
          BY <1>2, <2>1, <4>1
        <5>. QED BY <1>1, <5>1
      <4>. QED BY <4>1
    <3>3. Weight(t, S) <= 1
      BY <3>2 DEF Weight
    <3>. QED BY <1>4, <3>1, <3>3, WeightRange DEF t
  <2>. QED BY <2>2, <2>3
<1>. QED BY <1>3, <1>4

LEMMA WeightConcat ==
  ASSUME NEW X, NEW s \in Seq(X), NEW t \in Seq(X), NEW S
  PROVE  Weight(s \o t, S) <= Weight(s, S) + Weight(t, S)
<1>. DEFINE c == s \o t
            m == Len(s)
            n == Len(t)
<1>1. /\ m \in Nat /\ n \in Nat /\ DOMAIN s = 1..m /\ DOMAIN t = 1..n /\ DOMAIN c = 1..(m + n)
      /\ \A i \in 1..m : c[i] = s[i]
      /\ \A i \in (m + 1)..(m + n) : i - m \in 1..n /\ c[i] = t[i - m]
  BY ConcatIndices
<1>. HIDE DEF c, m, n
<1>2. \A i \in DOMAIN c : \/ i \in DOMAIN s /\ c[i] = s[i]
                          \/ i - m \in DOMAIN t /\ c[i] = t[i - m] /\ i \notin 1..m
  BY <1>1
<1>3. Weight(c, S) \in 0..2 /\ Weight(s, S) \in 0..2 /\ Weight(t, S) \in 0..2
  BY WeightRange
<1>4. CASE \A i \in DOMAIN s : s[i] \notin S
  <2>1. \A i \in DOMAIN c : c[i] \in S => i - m \in DOMAIN t /\ c[i] = t[i - m]
    BY <1>2, <1>4
  <2>2. CASE \A i \in DOMAIN t : t[i] \notin S
    <3>1. Weight(c, S) = 0
      BY <2>1, <2>2, WeightNone
    <3>. QED BY <1>3, <3>1 DEF c
  <2>3. CASE Weight(t, S) = 1
    <3>1. \A i, j \in DOMAIN t : t[i] \in S /\ t[j] \in S => i = j
      BY <2>3 DEF Weight
    <3>2. ASSUME NEW i \in DOMAIN c, NEW j \in DOMAIN c, c[i] \in S, c[j] \in S PROVE i = j
      <4>1. i - m = j - m
        BY <2>1, <3>1, <3>2
      <4>2. i \in Nat /\ j \in Nat
        BY <1>1
      <4>. QED BY <1>1, <4>1, <4>2
    <3>3. Weight(c, S) <= 1
      BY <3>2 DEF Weight
    <3>. QED BY <1>3, <2>3, <3>3 DEF c
  <2>4. CASE Weight(t, S) = 2
    BY <1>3, <2>4 DEF c
  <2>5. Weight(t, S) = 0 => \A i \in DOMAIN t : t[i] \notin S
    BY DEF Weight
  <2>. QED BY <1>3, <2>2, <2>3, <2>4, <2>5
<1>5. CASE \A i \in DOMAIN t : t[i] \notin S
  <2>1. \A i \in DOMAIN c : c[i] \in S => i \in DOMAIN s /\ c[i] = s[i]
    BY <1>2, <1>5
  <2>2. CASE Weight(s, S) = 1
    <3>1. \A i, j \in DOMAIN s : s[i] \in S /\ s[j] \in S => i = j
      BY <2>2 DEF Weight
    <3>2. \A i, j \in DOMAIN c : c[i] \in S /\ c[j] \in S => i = j
      BY <2>1, <3>1
    <3>3. Weight(c, S) <= 1
      BY <3>2 DEF Weight
    <3>. QED BY <1>3, <2>2, <3>3 DEF c
  <2>3. CASE Weight(s, S) = 2
    BY <1>3, <2>3 DEF c
  <2>4. CASE \A i \in DOMAIN s : s[i] \notin S
    BY <1>4, <2>4
  <2>5. Weight(s, S) = 0 => \A i \in DOMAIN s : s[i] \notin S
    BY DEF Weight
  <2>. QED BY <1>3, <2>2, <2>3, <2>4, <2>5
<1>6. CASE ~(\A i \in DOMAIN s : s[i] \notin S) /\ ~(\A i \in DOMAIN t : t[i] \notin S)
  <2>1. Weight(s, S) # 0 /\ Weight(t, S) # 0
    BY <1>6 DEF Weight
  <2>. QED BY <1>3, <2>1 DEF c
<1>. QED BY <1>4, <1>5, <1>6

-----------------------------------------------------------------------------
(***************************************************************************)
(* No action is queued twice.  What may still queue an action is counted,  *)
(* wherever it is: there is never more than one of it.                     *)
(***************************************************************************)
Bit(b) == IF b THEN 1 ELSE 0

\* Setting property k to v queues action a.
Prompts(k, v, a) == \E i \in DOMAIN Triggered[<<k, v>>] : Triggered[<<k, v>>][i] = a

Bringing(a) == {m \in ChainMessage : m.msg = "set" /\ Prompts(m.key, m.val, a)}

\* The services that are started again when they die; before they have been
\* started once, only this action can start them.
Respawned == {logd, camerad}
Opener(s) == IF s = logd THEN on_early ELSE prop_app

\* The steps that queue an action, or are the last sign of it.
Leading(a) ==
  {o \in ChainOp : \/ o.op = "enqueue" /\ o.act = a
                   \/ o.op = "enqueue_matching" /\ o.act = a /\ Matches(a)
                   \/ o.op = "start_enabled" /\ o.svc \in Respawned /\ a = Opener(o.svc)}

\* Before the triggers are enabled a property that was set waits for them.
Held(a) == "triggers" \notin inited /\ Matches(a)

\* A process has yet to send what queues the action.
Said(a) == \E p \in Pid : /\ proc[p] # NoProc
                          /\ \E i \in DOMAIN proc[p].script : proc[p].script[i] \in Bringing(a)

Share(a) == Weight(todo, Leading(a)) + Bit(Held(a))

Load(q, a) == Share(a) + Weight(inbox, Bringing(a)) + Bit(Said(a)) + Bit(Linked(q, a))

\* The actions a start of the service leads to.
Makes(s) ==
  CASE s = logd         -> {prop_logd}
    [] s = bootan       -> {prop_bootan}
    [] s = update_check -> {prop_update, prop_app}
    [] s = camerad      -> {prop_camerad}
    [] s = web_server   -> {prop_web}
    [] OTHER            -> {}

Quiet(q, s) == \A a \in Makes(s) : Load(q, a) = 0

\* The triggers are enabled once, by an action that is queued once.
TriggersComing(q) ==
  IF "triggers" \in inited THEN Load(q, on_triggers) = 0
  ELSE Linked(q, on_triggers) \/ \E i \in DOMAIN todo : todo[i] = [op |-> "enqueue", act |-> on_triggers]

OneshotQuiet(q) == \A s \in Oneshot : prop[s] = Unset => Quiet(q, s)

RespawnQuiet(q) == \A s \in Respawned :
  /\ prop[s] = Unset => Quiet(q, s)
  /\ prop[s] # Unset => Load(q, Opener(s)) = 0

\* Once the loop has been idle since the last start of camerad, what this start leads to
\* has been done, and the next start may come at any time.
CameraQuiet(q) ==
  flags[camerad] \cap {"RUNNING", "RESTARTING"} # {} /\ clock[camerad] # "started"
    => Quiet(q, camerad)

RespawnFlags == \A s \in Respawned :
  prop[s] = Unset => flags[s] \cap {"RUNNING", "RESTARTING"} = {}

CameraLater == prop[update_check] = Unset => prop[camerad] = Unset

WebQuiet(q) == "RUNNING" \notin flags[web_server] => Quiet(q, web_server)

\* The services whose process lives on.
Living == {logd, web_server}

LivingStay == \A s \in Living :
  /\ "RESTARTING" \notin flags[s]
  /\ pid[s] # NoPid => proc[pid[s]].st \in {"forked", "grouped"}

\* queue_all_property_triggers is not interrupted by anything that sets a property.
Unmixed == (\E i \in DOMAIN todo : todo[i].op = "enqueue_matching")
             => \A i \in DOMAIN todo : todo[i].op = "enqueue_matching"

\* The part of the invariant that depends on what the queue holds.
Loaded(q) ==
  /\ Represents(list, q)
  /\ \A a \in Action : Load(q, a) <= 1
  /\ TriggersComing(q) /\ OneshotQuiet(q) /\ RespawnQuiet(q) /\ CameraQuiet(q) /\ WebQuiet(q)

QueueInv ==
  /\ \E q \in Seq(Action) : Loaded(q)
  /\ RespawnFlags /\ CameraLater /\ LivingStay /\ Unmixed

-----------------------------------------------------------------------------
(***************************************************************************)
(* What the triggers and the scripts of misc/init.rc bring                 *)
(***************************************************************************)
LEMMA RcTriggersAre ==
  ASSUME NEW k \in Key, NEW v \in Value
  PROVE  \/ Triggered[<<k, v>>] = << >>
         \/ k = sys_logd /\ Triggered[<<k, v>>] = <<prop_logd>>
         \/ k = sys_bootan /\ Triggered[<<k, v>>] = <<prop_bootan>>
         \/ k = sys_update /\ Triggered[<<k, v>>] = <<prop_update>>
         \/ k = sys_app /\ Triggered[<<k, v>>] = <<prop_app>>
         \/ k = camerad /\ v = "running" /\ Triggered[<<k, v>>] = <<prop_camerad>>
         \/ k = sys_web /\ Triggered[<<k, v>>] = <<prop_web>>
<1>1. Triggered[<<k, v>>] =
        CASE <<k, v>> = <<sys_logd, "true">>     -> <<prop_logd>>
          [] <<k, v>> = <<sys_bootan, "true">>   -> <<prop_bootan>>
          [] <<k, v>> = <<sys_update, "true">>   -> <<prop_update>>
          [] <<k, v>> = <<sys_app, "true">>      -> <<prop_app>>
          [] <<k, v>> = <<camerad, "running">> -> <<prop_camerad>>
          [] <<k, v>> = <<sys_web, "true">>      -> <<prop_web>>
          [] OTHER                       -> << >>
  BY RcAssumption DEF IsRc, RcTriggered
<1>. QED BY <1>1

LEMMA PromptsOne ==
  ASSUME NEW k \in Key, NEW v \in Value, NEW a, Prompts(k, v, a)
  PROVE  /\ Triggered[<<k, v>>] = <<a>>
         /\ \/ k = sys_logd /\ a = prop_logd
            \/ k = sys_bootan /\ a = prop_bootan
            \/ k = sys_update /\ a = prop_update
            \/ k = sys_app /\ a = prop_app
            \/ k = camerad /\ v = "running" /\ a = prop_camerad
            \/ k = sys_web /\ a = prop_web
<1>1. Triggered[<<k, v>>] # << >>
  BY DEF Prompts
<1>2. \A b : Triggered[<<k, v>>] = <<b>> => a = b
  BY DEF Prompts
<1>. QED BY <1>1, <1>2, RcTriggersAre

\* The status of a service starts nothing but the web server after camerad.
LEMMA StatusPrompts ==
  ASSUME NEW s \in Service, NEW v \in Value, NEW a, Prompts(s, v, a)
  PROVE  s = camerad /\ v = "running" /\ a = prop_camerad
<1>1. s \in Key /\ s \notin {sys_logd, sys_bootan, sys_update, sys_app, sys_web}
  <2>1. \A t \in {logd, bootan, update_check, update, camerad, web_server} :
          t \notin {sys_logd, sys_bootan, sys_update, sys_app, sys_web}
    BY NamesNumbered
  <2>. QED BY <2>1, NamesDiffer, PropertyAssumption
<1>. QED BY <1>1, PromptsOne

LEMMA MakesWhat ==
  /\ Makes(logd) = {prop_logd} /\ Makes(bootan) = {prop_bootan}
  /\ Makes(update_check) = {prop_update, prop_app} /\ Makes(update) = {}
  /\ Makes(camerad) = {prop_camerad} /\ Makes(web_server) = {prop_web}
  BY NamesNumbered DEF Makes

\* What a process brings is made by its service, and is the first it sends.
LEMMA ScriptBrings ==
  ASSUME NEW s \in Service, NEW script \in Remains(s), NEW a, NEW i \in DOMAIN script,
         script[i] \in Bringing(a)
  PROVE  a \in Makes(s) /\ i = 1 /\ Tail(script) \in {<< >>, <<StopBootan>>}
<1>1. Scripts[s] = CASE s = logd         -> {LogdScript}
                     [] s = bootan       -> {BootanScript}
                     [] s = update_check -> UpdateCheckScripts
                     [] s = web_server   -> {WebScript}
                     [] OTHER            -> {<< >>}
  BY RcAssumption DEF IsRc, RcScripts
<1>2. \/ script \in {<< >>, <<StopBootan>>}
      \/ s = logd /\ script = <<Set(sys_logd)>>
      \/ s = bootan /\ script = <<Set(sys_bootan)>>
      \/ s = update_check /\ script = <<Set(sys_update)>>
      \/ s = update_check /\ script = <<Set(sys_app), StopBootan>>
      \/ s = web_server /\ script = <<Set(sys_web)>>
  BY <1>1 DEF Remains, LogdScript, BootanScript, WebScript, UpdateCheckScripts, StopBootan
<1>3. script[i].msg = "set" /\ script[i].key \in Key /\ script[i].val \in Value
      /\ Prompts(script[i].key, script[i].val, a)
  BY DEF Bringing, ChainMessage, Message
<1>4. StopBootan.msg = "stop" /\ \A k : Set(k).key = k
  BY DEF StopBootan, Set
<1>5. script[i] # StopBootan
  BY <1>3, <1>4
<1>6. \/ s = logd /\ script = <<Set(sys_logd)>> /\ script[i] = Set(sys_logd)
      \/ s = bootan /\ script = <<Set(sys_bootan)>> /\ script[i] = Set(sys_bootan)
      \/ s = update_check /\ script = <<Set(sys_update)>> /\ script[i] = Set(sys_update)
      \/ s = update_check /\ script = <<Set(sys_app), StopBootan>> /\ script[i] = Set(sys_app)
      \/ s = web_server /\ script = <<Set(sys_web)>> /\ script[i] = Set(sys_web)
  <2>1. \A m : script = <<m>> => script[i] = m
    OBVIOUS
  <2>2. \A m, n : script = <<m, n>> => script[i] \in {m, n}
    OBVIOUS
  <2>3. script # << >>
    OBVIOUS
  <2>. QED BY <1>2, <1>5, <2>1, <2>2, <2>3
<1>7. i = 1 /\ Tail(script) \in {<< >>, <<StopBootan>>}
  <2>1. \A m : script = <<m>> => i = 1 /\ Tail(script) = << >>
    OBVIOUS
  <2>2. \A m, n : script = <<m, n>> => i \in {1, 2} /\ script[2] = n /\ Tail(script) = <<n>>
    OBVIOUS
  <2>. QED BY <1>5, <1>6, <2>1, <2>2
<1>8. \/ s = logd /\ script[i].key = sys_logd
      \/ s = bootan /\ script[i].key = sys_bootan
      \/ s = update_check /\ script[i].key \in {sys_update, sys_app}
      \/ s = web_server /\ script[i].key = sys_web
  BY <1>4, <1>6
<1>9. \/ script[i].key = sys_logd /\ a = prop_logd
      \/ script[i].key = sys_bootan /\ a = prop_bootan
      \/ script[i].key = sys_update /\ a = prop_update
      \/ script[i].key = sys_app /\ a = prop_app
      \/ script[i].key = camerad
      \/ script[i].key = sys_web /\ a = prop_web
  <2>. DEFINE k == script[i].key
              v == script[i].val
  <2>1. k \in Key /\ v \in Value /\ Prompts(k, v, a)
    BY <1>3
  <2>. HIDE DEF k, v
  <2>2. \/ k = sys_logd /\ a = prop_logd
        \/ k = sys_bootan /\ a = prop_bootan
        \/ k = sys_update /\ a = prop_update
        \/ k = sys_app /\ a = prop_app
        \/ k = camerad /\ v = "running" /\ a = prop_camerad
        \/ k = sys_web /\ a = prop_web
    BY <2>1, PromptsOne
  <2>. QED BY <2>2 DEF k
<1>10. a \in Makes(s)
  BY <1>8, <1>9, MakesWhat, NamesNumbered
<1>. QED BY <1>7, <1>10

\* A status and a message of the same start never bring the same action.
LEMMA CameradSaysNothing ==
  ASSUME NEW script \in Remains(camerad), NEW i \in DOMAIN script, NEW a
  PROVE  script[i] \notin Bringing(a)
<1>1. Scripts[camerad] = {<< >>}
  <2>1. Scripts[camerad] = CASE camerad = logd         -> {LogdScript}
                             [] camerad = bootan       -> {BootanScript}
                             [] camerad = update_check -> UpdateCheckScripts
                             [] camerad = web_server   -> {WebScript}
                             [] OTHER                  -> {<< >>}
    BY RcAssumption, NamesDiffer DEF IsRc, RcScripts
  <2>. QED BY <2>1, NamesDiffer
<1>2. script = <<StopBootan>>
  BY <1>1 DEF Remains
<1>3. script[i] = StopBootan
  <2>1. \A m : script = <<m>> => script[i] = m
    OBVIOUS
  <2>. QED BY <1>2, <2>1
<1>4. StopBootan.msg = "stop"
  BY DEF StopBootan
<1>. QED BY <1>3, <1>4 DEF Bringing

-----------------------------------------------------------------------------
(***************************************************************************)
(* The share of the monitor                                                *)
(***************************************************************************)
NoMatching(q) == \A i \in DOMAIN q : q[i].op # "enqueue_matching"

LEMMA LoadRange ==
  ASSUME NEW q, NEW a
  PROVE  /\ Weight(todo, Leading(a)) \in 0..2 /\ Weight(inbox, Bringing(a)) \in 0..2
         /\ Bit(Held(a)) \in 0..1 /\ Bit(Said(a)) \in 0..1 /\ Bit(Linked(q, a)) \in 0..1
         /\ Share(a) \in Nat /\ Load(q, a) \in Nat
<1>1. Weight(todo, Leading(a)) \in 0..2 /\ Weight(inbox, Bringing(a)) \in 0..2
  BY WeightRange
<1>2. \A b : Bit(b) \in 0..1
  BY DEF Bit
<1>. QED BY <1>1, <1>2 DEF Share, Load

LEMMA LoadRangeNext ==
  ASSUME NEW q, NEW a
  PROVE  /\ Weight(todo', Leading(a)') \in 0..2 /\ Weight(inbox', Bringing(a)) \in 0..2
         /\ Bit(Held(a)') \in 0..1 /\ Bit(Said(a)') \in 0..1 /\ Bit(Linked(q, a)) \in 0..1
         /\ Share(a)' \in Nat /\ Load(q, a)' \in Nat
         /\ Share(a)' = Weight(todo', Leading(a)') + Bit(Held(a)')
         /\ Load(q, a)' = Share(a)' + Weight(inbox', Bringing(a)) + Bit(Said(a)') + Bit(Linked(q, a))
<1>1. Weight(todo', Leading(a)') \in 0..2 /\ Weight(inbox', Bringing(a)) \in 0..2
  BY WeightRange
<1>2. \A b : Bit(b) \in 0..1
  BY DEF Bit
<1>3. Share(a)' = Weight(todo', Leading(a)') + Bit(Held(a)')
  BY DEF Share, Weight, Bit
<1>4. Load(q, a)' = Share(a)' + Weight(inbox', Bringing(a)) + Bit(Said(a)') + Bit(Linked(q, a))
  BY DEF Load, Weight, Bit
<1>. QED BY <1>1, <1>2, <1>3, <1>4

\* Setting a property adds what it prompts, and only that.
LEMMA MatchesNext ==
  ASSUME TypeOK, NEW k \in Key, NEW v \in Value, NEW rest, SetProp(k, v, rest), NEW a
  PROVE  Matches(a)' => Matches(a) \/ Prompts(k, v, a)
<1>1. CASE prop' = prop
  BY <1>1 DEF Matches, Defined
<1>2. CASE prop' = [prop EXCEPT ![k] = v]
  <2>1. SUFFICES ASSUME NEW h \in Key, prop'[h] # Unset,
                        NEW i \in DOMAIN Triggered[<<h, prop'[h]>>], Triggered[<<h, prop'[h]>>][i] = a
                 PROVE  Matches(a) \/ Prompts(k, v, a)
    BY DEF Matches, Defined
  <2>2. prop'[k] = v /\ \A x \in Key \ {k} : prop'[x] = prop[x]
    BY <1>2 DEF TypeOK
  <2>3. CASE h = k
    BY <2>1, <2>2, <2>3 DEF Prompts
  <2>4. CASE h # k
    BY <2>1, <2>2, <2>4 DEF Matches, Defined
  <2>. QED BY <2>3, <2>4
<1>. QED BY <1>1, <1>2 DEF SetProp

LEMMA LeadingNext ==
  ASSUME NEW rest, NoMatching(rest), NEW a
  PROVE  Weight(rest, Leading(a)') <= Weight(rest, Leading(a))
<1>1. \A i \in DOMAIN rest : rest[i] \in Leading(a)' => rest[i] \in Leading(a)
  BY DEF NoMatching, Leading
<1>. QED BY <1>1, WeightLess

LEMMA EnqueueWeight ==
  ASSUME NEW k \in Key, NEW v \in Value, NEW a
  PROVE  /\ Enqueues("enqueue", Triggered[<<k, v>>]) \in Seq(ChainOp)
         /\ Weight(Enqueues("enqueue", Triggered[<<k, v>>]), Leading(a)') <= Bit(Prompts(k, v, a))
<1>. DEFINE q == Enqueues("enqueue", Triggered[<<k, v>>])
<1>1. q \in Seq(ChainOp)
  <2>1. \A b \in Action : [op |-> "enqueue", act |-> b] \in ChainOp
    BY StandingSteps DEF ChainOp
  <2>2. Triggered[<<k, v>>] \in Seq(Action)
    BY PropertyAssumption
  <2>. QED BY <2>1, <2>2, EnqueuesIn
<1>2. DOMAIN q = DOMAIN Triggered[<<k, v>>]
      /\ \A i \in DOMAIN q : q[i].op = "enqueue" /\ q[i].act = Triggered[<<k, v>>][i]
  BY DEF Enqueues
<1>. HIDE DEF q
<1>3. \A i \in DOMAIN q : q[i] \in Leading(a)' => Triggered[<<k, v>>][i] = a
  BY <1>2 DEF Leading
<1>4. CASE ~Prompts(k, v, a)
  <2>1. Weight(q, Leading(a)') = 0
    BY <1>2, <1>3, <1>4, WeightNone DEF Prompts
  <2>. QED BY <1>1, <1>4, <2>1 DEF Bit, q
<1>5. CASE Prompts(k, v, a)
  <2>1. Triggered[<<k, v>>] = <<a>>
    BY <1>5, PromptsOne
  <2>2. \A i, j \in DOMAIN q : i = j
    BY <1>2, <2>1
  <2>3. Weight(q, Leading(a)') <= 1
    BY <2>2 DEF Weight
  <2>. QED BY <1>1, <1>5, <2>3 DEF Bit, q
<1>. QED BY <1>4, <1>5

LEMMA SetPropShare ==
  ASSUME TypeOK, NEW k \in Key, NEW v \in Value, NEW rest \in Seq(ChainOp), NoMatching(rest),
         SetProp(k, v, rest), inited' = inited, NEW a
  PROVE  Share(a)' <= Weight(rest, Leading(a)) + Bit(Held(a)) + Bit(Prompts(k, v, a))
<1>1. Weight(rest, Leading(a)') <= Weight(rest, Leading(a))
  BY LeadingNext
<1>2. Matches(a)' => Matches(a) \/ Prompts(k, v, a)
  BY MatchesNext
<1>. DEFINE q == Enqueues("enqueue", Triggered[<<k, v>>])
<1>3. q \in Seq(ChainOp) /\ Weight(q, Leading(a)') <= Bit(Prompts(k, v, a))
  BY EnqueueWeight
<1>4. \/ todo' = rest /\ (prop' = prop \/ "triggers" \notin inited)
      \/ todo' = q \o rest /\ "triggers" \in inited
  BY DEF SetProp
<1>. HIDE DEF q
<1>5. /\ Weight(rest, Leading(a)') \in 0..2 /\ Weight(rest, Leading(a)) \in 0..2
      /\ Weight(q, Leading(a)') \in 0..2 /\ Weight(todo', Leading(a)') \in 0..2
      /\ Bit(Held(a)) \in 0..1 /\ Bit(Held(a)') \in 0..1 /\ Bit(Prompts(k, v, a)) \in 0..1
      /\ Share(a)' = Weight(todo', Leading(a)') + Bit(Held(a)')
  BY WeightRange, LoadRangeNext DEF Bit
<1>6. Bit(Held(a)') <= Bit(Held(a)) + Bit(Prompts(k, v, a))
  BY <1>2 DEF Held, Bit
<1>7. CASE todo' = rest
  BY <1>1, <1>5, <1>6, <1>7
<1>8. CASE todo' = q \o rest /\ "triggers" \in inited
  <2>1. Weight(todo', Leading(a)') <= Weight(q, Leading(a)') + Weight(rest, Leading(a)')
    BY <1>3, <1>8, WeightConcat
  <2>2. Bit(Held(a)') = 0
    BY <1>8 DEF Held, Bit
  <2>. QED BY <1>1, <1>3, <1>5, <2>1, <2>2
<1>. QED BY <1>4, <1>7, <1>8

\* The head of todo is done and nothing else happens to properties.
LEMMA TailShare ==
  ASSUME NEW a, todo \in Seq(ChainOp), todo # << >>, todo' = Tail(todo), UNCHANGED <<prop, inited>>,
         Weight(todo, Leading(a)) <= 1
  PROVE  Share(a)' + Bit(Head(todo) \in Leading(a)) <= Share(a)
<1>1. Leading(a)' = Leading(a) /\ Held(a)' = Held(a)
  BY DEF Leading, Held, Matches, Defined
<1>2. Weight(Tail(todo), Leading(a)) + Bit(Head(todo) \in Leading(a)) <= Weight(todo, Leading(a))
  BY WeightTail DEF Bit
<1>3. Share(a)' = Weight(todo', Leading(a)') + Bit(Held(a)')
  BY LoadRangeNext
<1>4. Weight(Tail(todo), Leading(a)) \in 0..2
  BY WeightRange
<1>5. Bit(Head(todo) \in Leading(a)) \in 0..1
  BY DEF Bit
<1>6. Weight(todo, Leading(a)) \in 0..2 /\ Bit(Held(a)) \in 0..1
  BY LoadRange
<1>7. Share(a) = Weight(todo, Leading(a)) + Bit(Held(a))
  BY DEF Share
<1>8. Share(a)' = Weight(Tail(todo), Leading(a)) + Bit(Held(a))
  BY <1>1, <1>3
<1>. QED BY <1>2, <1>4, <1>5, <1>6, <1>7, <1>8

-----------------------------------------------------------------------------
(***************************************************************************)
(* One step of a call                                                      *)
(***************************************************************************)
\* The step at the head of todo starts s, or tries to.
StartedNow(o, s) ==
  /\ o.op \in {"start", "start_enabled", "respawn"} /\ o.svc = s
  /\ o.op = "start" => s = web_server
  /\ o.op = "start_enabled" => "DISABLED" \notin flags[s]
  /\ o.op = "respawn" => "RESTARTING" \in flags[s] /\ clock[s] = "over"
  /\ ServiceStart(s, FALSE)

Announced(o) ==
  /\ o.op = "restarting" /\ o.svc \in Service
  /\ SetProp(o.svc, "restarting", Tail(todo))
  /\ UNCHANGED <<svcVars, list, loopVars, inbox, sigchld>>

PassedOver(o) ==
  /\ o.op \in {"start_enabled", "respawn", "reap"}
  /\ todo' = Tail(todo)
  /\ UNCHANGED <<svcVars, prop, list, inited, inbox>>

LEMMA ChainSteps ==
  ASSUME TrackInv, Step
  PROVE  /\ todo # << >> /\ Head(todo) \in ChainOp /\ Tail(todo) \in Seq(ChainOp)
         /\ \/ \E s \in Service : StartedNow(Head(todo), s)
            \/ Head(todo).op = "stop" /\ ServiceStopOrReset(bootan, "DISABLED")
            \/ Announced(Head(todo))
            \/ QueueStep(Head(todo))
            \/ Head(todo).op = "reap" /\ Reap
            \/ PassedOver(Head(todo))
<1>. DEFINE o == Head(todo)
<1>1. todo # << >> /\ o \in ChainOp /\ Tail(todo) \in Seq(ChainOp)
  BY HeadTailProperties DEF Step, TrackInv, Confined
<1>2. /\ o.op \in SvcOp => o.svc \in Service
      /\ o.op \in {"start", "start_enabled", "stop", "respawn", "restarting",
                   "enqueue", "enqueue_matching", "reap"}
      /\ o.op = "start" => o.svc = web_server
      /\ o.op = "stop" => o.svc = bootan
  BY <1>1, OpFields DEF ChainOp
<1>3. \/ ServiceStep(o) \/ PropertyStep(o) \/ QueueStep(o)
      \/ o.op = "reap" /\ (Reap \/ ReapDone)
  BY <1>2 DEF Step, CommandStep
<1>. HIDE DEF o
<1>4. CASE o.op = "reap" /\ ReapDone
  BY <1>1, <1>4 DEF ReapDone, PassedOver, loopVars, o
<1>5. CASE PropertyStep(o)
  BY <1>1, <1>2, <1>5 DEF PropertyStep, Announced, SvcOp, o
<1>6. CASE ServiceStep(o)
  <2>1. CASE o.op = "start"
    BY <1>1, <1>2, <1>6, <2>1 DEF ServiceStep, StartedNow, SvcOp, o
  <2>2. CASE o.op = "start_enabled"
    BY <1>1, <1>2, <1>6, <2>2 DEF ServiceStep, StartIfNotDisabled, Skip, StartedNow, PassedOver, SvcOp, loopVars, o
  <2>3. CASE o.op = "stop"
    BY <1>1, <1>2, <1>6, <2>3 DEF ServiceStep, o
  <2>4. CASE o.op = "respawn"
    BY <1>1, <1>2, <1>6, <2>4 DEF ServiceStep, Respawn, RespawnLater, Skip, StartedNow, PassedOver, SvcOp, loopVars, o
  <2>. QED BY <1>2, <1>6, <2>1, <2>2, <2>3, <2>4 DEF ServiceStep
<1>. QED BY <1>1, <1>3, <1>4, <1>5, <1>6 DEF o

LEMMA NoneMatching ==
  ASSUME NEW S, todo \in Seq(S), todo # << >>, Unmixed, Head(todo).op # "enqueue_matching"
  PROVE  NoMatching(todo) /\ NoMatching(Tail(todo))
<1>1. /\ Len(todo) \in Nat /\ 1 <= Len(todo) /\ DOMAIN todo = 1..Len(todo)
      /\ DOMAIN Tail(todo) = 1..(Len(todo) - 1)
      /\ \A i \in 1..(Len(todo) - 1) : Tail(todo)[i] = todo[i + 1]
      /\ Head(todo) = todo[1]
  BY TailIndices
<1>2. NoMatching(todo)
  <2>1. 1 \in DOMAIN todo /\ todo[1].op # "enqueue_matching"
    BY <1>1
  <2>. QED BY <2>1 DEF Unmixed, NoMatching
<1>3. \A i \in 1..(Len(todo) - 1) : i + 1 \in DOMAIN todo
  BY <1>1
<1>. QED BY <1>1, <1>2, <1>3 DEF NoMatching

-----------------------------------------------------------------------------
(***************************************************************************)
(* The count after a step                                                  *)
(***************************************************************************)
\* The only start of a service that is started again is over.
Spent(a) == /\ todo # << >> /\ Head(todo).op = "start_enabled" /\ Head(todo) \in Leading(a)
            /\ pid' # pid

\* What may queue the actions in S may get one more, the others do not.
Grows(q, r, S) == \A a \in Action : Load(r, a)' + Bit(Spent(a)) <= Load(q, a) + Bit(a \in S)

LEMMA SaidStays ==
  ASSUME \A p \in Pid : proc'[p] # NoProc => proc[p] # NoProc /\ proc'[p].script = proc[p].script,
         NEW a
  PROVE  Bit(Said(a)') <= Bit(Said(a))
<1>1. Said(a)' => Said(a)
  BY DEF Said, Bringing
<1>. QED BY <1>1 DEF Bit

\* A step at the head of todo that sets no property.
LEMMA PassLoad ==
  ASSUME NEW q, \A a \in Action : Load(q, a) <= 1,
         todo \in Seq(ChainOp), todo # << >>, todo' = Tail(todo), UNCHANGED <<prop, inited, inbox>>,
         \A p \in Pid : proc'[p] # NoProc => proc[p] # NoProc /\ proc'[p].script = proc[p].script
  PROVE  \A a \in Action : Load(q, a)' + Bit(Head(todo) \in Leading(a)) <= Load(q, a)
<1>. SUFFICES ASSUME NEW a \in Action
              PROVE  Load(q, a)' + Bit(Head(todo) \in Leading(a)) <= Load(q, a)
  OBVIOUS
<1>1. Load(q, a) = Share(a) + Weight(inbox, Bringing(a)) + Bit(Said(a)) + Bit(Linked(q, a))
  BY DEF Load
<1>2. Weight(todo, Leading(a)) <= 1
  BY <1>1, LoadRange DEF Share
<1>3. Share(a)' + Bit(Head(todo) \in Leading(a)) <= Share(a)
  BY <1>2, TailShare
<1>4. Bit(Said(a)') <= Bit(Said(a))
  BY SaidStays
<1>5. Bit(Head(todo) \in Leading(a)) \in 0..1
  BY DEF Bit
<1>6. /\ Share(a) \in Nat /\ Weight(inbox, Bringing(a)) \in 0..2 /\ Bit(Said(a)) \in 0..1
      /\ Bit(Linked(q, a)) \in 0..1
  BY LoadRange
<1>7. /\ Share(a)' \in Nat /\ Bit(Said(a)') \in 0..1
      /\ Load(q, a)' = Share(a)' + Weight(inbox', Bringing(a)) + Bit(Said(a)') + Bit(Linked(q, a))
  BY LoadRangeNext
<1>8. Weight(inbox', Bringing(a)) = Weight(inbox, Bringing(a))
  OBVIOUS
<1>. QED BY <1>1, <1>3, <1>4, <1>5, <1>6, <1>7, <1>8

\* One that sets a property.
LEMMA SetLoad ==
  ASSUME TypeOK, Unmixed, NEW q, \A a \in Action : Load(q, a) <= 1,
         todo \in Seq(ChainOp), todo # << >>, Head(todo).op # "enqueue_matching",
         NEW k \in Key, NEW v \in Value, SetProp(k, v, Tail(todo)), UNCHANGED <<inited, inbox>>,
         NEW a \in Action
  PROVE  Load(q, a)' + Bit(Head(todo) \in Leading(a)) + Bit(Said(a))
           <= Load(q, a) + Bit(Prompts(k, v, a)) + Bit(Said(a)')
<1>1. Load(q, a) = Share(a) + Weight(inbox, Bringing(a)) + Bit(Said(a)) + Bit(Linked(q, a))
  BY DEF Load
<1>2. Weight(todo, Leading(a)) <= 1
  BY <1>1, LoadRange DEF Share
<1>3. Tail(todo) \in Seq(ChainOp) /\ NoMatching(Tail(todo))
  BY HeadTailProperties, NoneMatching
<1>4. Share(a)' <= Weight(Tail(todo), Leading(a)) + Bit(Held(a)) + Bit(Prompts(k, v, a))
  BY <1>3, SetPropShare
<1>5. Weight(Tail(todo), Leading(a)) + Bit(Head(todo) \in Leading(a)) <= Weight(todo, Leading(a))
  BY <1>2, WeightTail DEF Bit
<1>6. /\ Bit(Head(todo) \in Leading(a)) \in 0..1 /\ Bit(Prompts(k, v, a)) \in 0..1
      /\ Weight(Tail(todo), Leading(a)) \in 0..2 /\ Share(a) = Weight(todo, Leading(a)) + Bit(Held(a))
  BY WeightRange DEF Bit, Share
<1>7. /\ Share(a) \in Nat /\ Weight(inbox, Bringing(a)) \in 0..2 /\ Bit(Said(a)) \in 0..1
      /\ Bit(Linked(q, a)) \in 0..1 /\ Weight(todo, Leading(a)) \in 0..2 /\ Bit(Held(a)) \in 0..1
  BY LoadRange
<1>8. /\ Share(a)' \in Nat /\ Bit(Said(a)') \in 0..1
      /\ Load(q, a)' = Share(a)' + Weight(inbox', Bringing(a)) + Bit(Said(a)') + Bit(Linked(q, a))
  BY LoadRangeNext
<1>9. Weight(inbox', Bringing(a)) = Weight(inbox, Bringing(a))
  OBVIOUS
<1>. QED BY <1>1, <1>4, <1>5, <1>6, <1>7, <1>8, <1>9

-----------------------------------------------------------------------------
(***************************************************************************)
(* A start of a service                                                    *)
(***************************************************************************)
Forking(s) == todo # << >> /\ StartedNow(Head(todo), s) /\ StartForks(s, FALSE)

LEMMA HeadWeighs ==
  ASSUME TrackInv, todo # << >>, NEW q, NEW a, Head(todo) \in Leading(a)
  PROVE  Load(q, a) >= 1 + Bit(Linked(q, a))
<1>1. Weight(todo, Leading(a)) >= 1
  BY WeightHit DEF TrackInv, Confined
<1>2. Load(q, a) = Weight(todo, Leading(a)) + Bit(Held(a)) + Weight(inbox, Bringing(a)) + Bit(Said(a)) + Bit(Linked(q, a))
  BY DEF Load, Share
<1>. QED BY <1>1, <1>2, LoadRange

\* Two services never lead to the same action.
LEMMA MakesApart ==
  ASSUME NEW s \in Service, NEW t \in Service, NEW a, a \in Makes(s), a \in Makes(t)
  PROVE  s = t
<1>1. /\ s = logd \/ s = bootan \/ s = update_check \/ s = update \/ s = camerad \/ s = web_server
      /\ t = logd \/ t = bootan \/ t = update_check \/ t = update \/ t = camerad \/ t = web_server
  BY NamesDiffer
<1>2. PICK f : /\ f[prop_logd] = 7 /\ f[prop_bootan] = 8 /\ f[prop_update] = 9 /\ f[prop_app] = 10
               /\ f[prop_camerad] = 11 /\ f[prop_web] = 12
  BY ActionsNumbered
<1>. DEFINE n(x) == IF x = logd THEN {7} ELSE IF x = bootan THEN {8} ELSE IF x = update_check THEN {9, 10}
                    ELSE IF x = camerad THEN {11} ELSE IF x = web_server THEN {12} ELSE {}
<1>3. \A x \in {s, t} : a \in Makes(x) => f[a] \in n(x)
  BY <1>1, <1>2, MakesWhat
<1>. QED BY <1>1, <1>3

\* Before a service is started nothing is under way that its start leads to.
LEMMA QuietBeforeFork ==
  ASSUME IInv, OneshotInv, TrackInv, LivingStay, NEW q, Loaded(q), NEW s \in Service, Forking(s)
  PROVE  Quiet(q, s) /\ (s \in Oneshot => prop[s] = Unset)
<1>. DEFINE o == Head(todo)
<1>1. todo # << >> /\ o \in ChainOp /\ o \in Op
  BY HeadTailProperties DEF Forking, TrackInv, Confined, ChainOp
<1>2. /\ o.op \in {"start", "start_enabled", "respawn"} /\ o.svc = s
      /\ o.op = "start" => s = web_server
      /\ o.op = "start_enabled" => "DISABLED" \notin flags[s]
      /\ o.op = "respawn" => "RESTARTING" \in flags[s] /\ clock[s] = "over"
      /\ ServiceStart(s, FALSE) /\ "RUNNING" \notin flags[s]
  BY DEF Forking, StartedNow, StartForks, CanStart
<1>3. StartedBy(o, s)
  BY <1>2 DEF StartedBy
<1>4. s \in Oneshot => prop[s] = Unset
  BY <1>1, <1>2, <1>3, NoneBefore
<1>5. CASE s \in Oneshot
  BY <1>4, <1>5 DEF Loaded, OneshotQuiet
<1>6. CASE s = web_server
  BY <1>2, <1>4, <1>6 DEF Loaded, WebQuiet
<1>7. CASE s \in Respawned
  <2>1. CASE o.op = "respawn"
    <3>1. "RESTARTING" \in flags[s] /\ clock[s] = "over"
      BY <1>2, <2>1
    <3>2. s = camerad
      BY <1>7, <3>1 DEF Respawned, LivingStay, Living
    <3>3. Quiet(q, camerad)
      BY <3>1, <3>2 DEF Loaded, CameraQuiet
    <3>. QED BY <1>4, <3>2, <3>3
  <2>2. CASE o.op = "start_enabled"
    <3>1. o \in Leading(Opener(s))
      BY <1>1, <1>2, <1>7, <2>2 DEF Leading
    <3>2. Load(q, Opener(s)) >= 1 + Bit(Linked(q, Opener(s)))
      BY <1>1, <3>1, HeadWeighs
    <3>3. Load(q, Opener(s)) # 0
      BY <3>2 DEF Bit
    <3>4. prop[s] = Unset
      BY <1>7, <3>3 DEF Loaded, RespawnQuiet
    <3>. QED BY <1>4, <1>7, <3>4 DEF Loaded, RespawnQuiet
  <2>3. s # web_server
    BY <1>7, NamesNumbered DEF Respawned
  <2>4. o.op = "respawn" \/ o.op = "start_enabled"
    BY <1>2, <2>3
  <2>. QED BY <2>1, <2>2, <2>4
<1>8. s \in Oneshot \/ s = web_server \/ s \in Respawned
  BY Services DEF Lasting, Respawned
<1>. QED BY <1>5, <1>6, <1>7, <1>8

LEMMA ForkGrows ==
  ASSUME IInv, OneshotInv, TrackInv, Unmixed, NEW q, Loaded(q), NEW s \in Service, Forking(s)
  PROVE  Grows(q, q, Makes(s))
<1>1. PICK p \in Pid, script \in Scripts[s] :
        /\ proc[p] = NoProc /\ p # NoPid
        /\ proc' = [proc EXCEPT ![p] = [st |-> "forked", svc |-> s, script |-> script]]
  BY ForkEffect DEF Forking, IInv
<1>2. /\ proc \in [Pid -> Process \cup {NoProc}] /\ TypeOK
      /\ todo \in Seq(ChainOp) /\ todo # << >> /\ UNCHANGED <<inited, inbox>>
      /\ Head(todo).op # "enqueue_matching"
  BY DEF Forking, StartedNow, ServiceStart, loopVars, IInv, TypeOK, TrackInv, Confined
<1>3. SetProp(s, "running", Tail(todo)) /\ "running" \in Value /\ s \in Key
  BY PropertyAssumption DEF Forking, StartForks
<1>4. ASSUME NEW a \in Action PROVE Load(q, a)' + Bit(Spent(a)) <= Load(q, a) + Bit(a \in Makes(s))
  <2>1. Load(q, a)' + Bit(Head(todo) \in Leading(a)) + Bit(Said(a))
          <= Load(q, a) + Bit(Prompts(s, "running", a)) + Bit(Said(a)')
    BY <1>2, <1>3, SetLoad DEF Loaded
  <2>2. Spent(a) => Head(todo) \in Leading(a)
    BY DEF Spent
  <2>3. Prompts(s, "running", a) => s = camerad /\ a \in Makes(s)
    BY <1>3, StatusPrompts, MakesWhat
  <2>4. ASSUME Said(a)', ~Said(a) PROVE s # camerad /\ a \in Makes(s)
    <3>1. PICK x \in Pid : proc'[x] # NoProc /\ \E i \in DOMAIN proc'[x].script : proc'[x].script[i] \in Bringing(a)
      BY <2>4 DEF Said, Bringing
    <3>2. x = p
      BY <1>1, <1>2, <2>4, <3>1 DEF Said
    <3>3. proc'[x].script = script
      BY <1>1, <1>2, <3>2
    <3>4. PICK i \in DOMAIN script : script[i] \in Bringing(a)
      BY <3>1, <3>3
    <3>5. script \in Remains(s)
      BY DEF Remains
    <3>. QED BY <3>4, <3>5, ScriptBrings, CameradSaysNothing
  <2>5. /\ Bit(Spent(a)) <= Bit(Head(todo) \in Leading(a))
        /\ Bit(Prompts(s, "running", a)) + Bit(Said(a)') <= Bit(a \in Makes(s)) + Bit(Said(a))
    BY <2>2, <2>3, <2>4 DEF Bit
  <2>6. /\ Bit(Spent(a)) \in 0..1 /\ Bit(Head(todo) \in Leading(a)) \in 0..1 /\ Bit(a \in Makes(s)) \in 0..1
        /\ Bit(Prompts(s, "running", a)) \in 0..1
    BY DEF Bit
  <2>. QED BY <2>1, <2>5, <2>6, LoadRange, LoadRangeNext
<1>. QED BY <1>4 DEF Grows

-----------------------------------------------------------------------------
(***************************************************************************)
(* What a step puts on the list of steps                                   *)
(***************************************************************************)
Put(rest) == \E x \in Seq(ChainOp) : NoMatching(x) /\ todo' = x \o rest

\* queue_all_property_triggers has yet to be queued.
EnableTriggers == [op |-> "enqueue", act |-> on_triggers]
Waits(t) == \E i \in DOMAIN t : t[i] = EnableTriggers

LEMMA NothingPut ==
  ASSUME NEW rest \in Seq(ChainOp), todo' = rest
  PROVE  Put(rest)
<1>1. << >> \in Seq(ChainOp) /\ NoMatching(<< >>)
  BY EmptySeq DEF NoMatching
<1>2. << >> \o rest = rest
  OBVIOUS
<1>. QED BY <1>1, <1>2 DEF Put

LEMMA SetPropPuts ==
  ASSUME NEW k \in Key, NEW v \in Value, NEW rest \in Seq(ChainOp), SetProp(k, v, rest)
  PROVE  Put(rest)
<1>. DEFINE x == Enqueues("enqueue", Triggered[<<k, v>>])
<1>1. x \in Seq(ChainOp)
  BY EnqueueWeight
<1>2. NoMatching(x)
  BY DEF NoMatching, Enqueues
<1>3. todo' = rest \/ todo' = x \o rest
  BY DEF SetProp
<1>. QED BY <1>1, <1>2, <1>3, NothingPut DEF Put

LEMMA PutStays ==
  ASSUME NEW rest \in Seq(ChainOp), Put(rest)
  PROVE  /\ NoMatching(rest) => NoMatching(todo')
         /\ Waits(rest) => Waits(todo')
<1>1. PICK x \in Seq(ChainOp) : NoMatching(x) /\ todo' = x \o rest
  BY DEF Put
<1>2. /\ Len(x) \in Nat /\ Len(rest) \in Nat
      /\ DOMAIN x = 1..Len(x) /\ DOMAIN rest = 1..Len(rest)
      /\ DOMAIN todo' = 1..(Len(x) + Len(rest))
      /\ \A i \in 1..Len(x) : todo'[i] = x[i]
      /\ \A i \in 1..Len(rest) : todo'[Len(x) + i] = rest[i]
      /\ \A i \in (Len(x) + 1)..(Len(x) + Len(rest)) : i - Len(x) \in 1..Len(rest)
                                                      /\ todo'[i] = rest[i - Len(x)]
  BY <1>1, ConcatIndices
<1>3. ASSUME NoMatching(rest), NEW i \in DOMAIN todo' PROVE todo'[i].op # "enqueue_matching"
  <2>1. CASE i \in 1..Len(x)
    BY <1>1, <1>2, <2>1 DEF NoMatching
  <2>2. CASE i \in (Len(x) + 1)..(Len(x) + Len(rest))
    BY <1>2, <1>3, <2>2 DEF NoMatching
  <2>. QED BY <1>2, <1>3, <2>1, <2>2
<1>4. ASSUME NEW i \in DOMAIN rest PROVE Len(x) + i \in DOMAIN todo' /\ todo'[Len(x) + i] = rest[i]
  BY <1>2, <1>4
<1>. QED BY <1>3, <1>4 DEF NoMatching, Waits

LEMMA WaitsInTail ==
  ASSUME NEW t \in Seq(ChainOp), t # << >>, Waits(t)
  PROVE  Head(t) = EnableTriggers \/ Waits(Tail(t))
<1>1. /\ Len(t) \in Nat /\ 1 <= Len(t) /\ DOMAIN t = 1..Len(t)
      /\ DOMAIN Tail(t) = 1..(Len(t) - 1)
      /\ \A i \in 1..(Len(t) - 1) : Tail(t)[i] = t[i + 1]
      /\ Head(t) = t[1]
  BY TailIndices
<1>2. PICK i \in 1..Len(t) : t[i] = EnableTriggers
  BY <1>1 DEF Waits
<1>3. CASE i = 1
  BY <1>1, <1>2, <1>3
<1>4. CASE i # 1
  <2>1. i - 1 \in 1..(Len(t) - 1) /\ (i - 1) + 1 = i
    BY <1>1, <1>4
  <2>2. Tail(t)[i - 1] = t[i]
    BY <1>1, <2>1
  <2>. QED BY <1>1, <1>2, <2>1, <2>2 DEF Waits
<1>. QED BY <1>3, <1>4

-----------------------------------------------------------------------------
(***************************************************************************)
(* The steps of a call that do not touch the queue and fork nothing        *)
(***************************************************************************)
LEMMA ReapDoes ==
  ASSUME IInv, TrackInv, Reap
  PROVE  \E p \in Pid, s \in Service :
           /\ proc[p].st = "zombie" /\ proc' = [proc EXCEPT ![p] = NoProc]
           /\ ReapService(p, s)
           /\ \/ SetProp(s, "stopped", todo)
              \/ /\ s \notin Oneshot
                 /\ todo' = <<[op |-> "restarting", svc |-> s]>> \o todo
                 /\ UNCHANGED prop
           /\ UNCHANGED <<clock, list, loopVars, inbox, sigchld>>
<1>1. PICK p \in Pid : /\ proc[p].st = "zombie" /\ proc' = [proc EXCEPT ![p] = NoProc]
                       /\ ReapUntracked(p) \/ \E s \in Service : ReapService(p, s)
  BY DEF Reap
<1>2. proc[p] # NoProc /\ proc[p].svc \in Service /\ pid[proc[p].svc] = p
  <2>1. proc[p] # NoProc
    BY <1>1 DEF NoProc
  <2>. QED BY <2>1 DEF TrackInv, Tracked, IInv, TypeOK, Process
<1>3. PICK s \in Service : ReapService(p, s)
  BY <1>1, <1>2 DEF ReapUntracked, Owner
<1>4. OnRestartOps(s) = << >>
  <2>1. OnRestart[s] = << >>
    BY RcAssumption DEF IsRc, RcOnRestart
  <2>. QED BY <2>1 DEF OnRestartOps
<1>5. \/ SetProp(s, "stopped", todo)
      \/ s \notin Oneshot /\ todo' = OnRestartOps(s) \o <<[op |-> "restarting", svc |-> s]>> \o todo /\ UNCHANGED prop
  BY <1>3 DEF ReapService, StaysDown, ExitFlags
<1>6. << >> \o <<[op |-> "restarting", svc |-> s]>> = <<[op |-> "restarting", svc |-> s]>>
  OBVIOUS
<1>7. UNCHANGED <<clock, list, loopVars, inbox, sigchld>>
  BY DEF Reap
<1>. QED BY <1>1, <1>3, <1>4, <1>5, <1>6, <1>7

LEMMA RestartingOp ==
  ASSUME NEW s \in Service \ Oneshot
  PROVE  LET o == [op |-> "restarting", svc |-> s]
         IN  <<o>> \in Seq(ChainOp) /\ NoMatching(<<o>>) /\ \A a : o \notin Leading(a)
<1>. DEFINE o == [op |-> "restarting", svc |-> s]
<1>1. o \in ChainOp
  BY StandingSteps DEF ChainOp
<1>2. <<o>> \in Seq(ChainOp)
  BY <1>1
<1>. QED BY <1>2 DEF NoMatching, Leading

LEMMA ReapGrows ==
  ASSUME IInv, TrackInv, Unmixed, NEW q, Loaded(q), todo # << >>, Head(todo).op = "reap", Reap
  PROVE  Grows(q, q, {}) /\ Put(todo) /\ UNCHANGED <<list, inited>>
<1>1. PICK p \in Pid, s \in Service :
           /\ proc[p].st = "zombie" /\ proc' = [proc EXCEPT ![p] = NoProc]
           /\ \/ SetProp(s, "stopped", todo)
              \/ /\ s \notin Oneshot
                 /\ todo' = <<[op |-> "restarting", svc |-> s]>> \o todo
                 /\ UNCHANGED prop
           /\ UNCHANGED <<clock, list, loopVars, inbox, sigchld>>
  BY ReapDoes
<1>2. /\ proc \in [Pid -> Process \cup {NoProc}] /\ TypeOK /\ todo \in Seq(ChainOp)
      /\ NoMatching(todo) /\ s \in Key /\ "stopped" \in Value
      /\ UNCHANGED <<inited, inbox>>
  BY <1>1, NoneMatching, PropertyAssumption DEF IInv, TypeOK, TrackInv, Confined, loopVars
<1>3. Put(todo)
  <2>1. CASE SetProp(s, "stopped", todo)
    BY <1>2, <2>1, SetPropPuts
  <2>2. CASE s \notin Oneshot /\ todo' = <<[op |-> "restarting", svc |-> s]>> \o todo
    BY <2>2, RestartingOp DEF Put
  <2>. QED BY <1>1, <2>1, <2>2
<1>4. ASSUME NEW a PROVE Share(a)' <= Share(a)
  <2>1. CASE SetProp(s, "stopped", todo)
    <3>1. Share(a)' <= Weight(todo, Leading(a)) + Bit(Held(a)) + Bit(Prompts(s, "stopped", a))
      BY <1>2, <2>1, SetPropShare
    <3>2. Bit(Prompts(s, "stopped", a)) = 0
      BY <1>2, StatusPrompts DEF Bit
    <3>. QED BY <3>1, <3>2, LoadRange DEF Share
  <2>2. CASE s \notin Oneshot /\ todo' = <<[op |-> "restarting", svc |-> s]>> \o todo /\ UNCHANGED prop
    <3>. DEFINE o == [op |-> "restarting", svc |-> s]
    <3>1. <<o>> \in Seq(ChainOp) /\ o \notin Leading(a)
      BY <2>2, RestartingOp
    <3>2. Leading(a)' = Leading(a) /\ Held(a)' = Held(a)
      BY <1>2, <2>2 DEF Leading, Held, Matches, Defined
    <3>3. Weight(<<o>>, Leading(a)) = 0
      BY <3>1, WeightOne
    <3>4. Weight(todo', Leading(a)) <= 0 + Weight(todo, Leading(a))
      BY <1>2, <2>2, <3>1, <3>3, WeightConcat
    <3>5. Share(a)' = Weight(todo', Leading(a)) + Bit(Held(a))
      BY <3>2, LoadRangeNext
    <3>6. Share(a) = Weight(todo, Leading(a)) + Bit(Held(a))
      BY DEF Share
    <3>. QED BY <3>4, <3>5, <3>6, LoadRange, WeightRange
  <2>. QED BY <1>1, <2>1, <2>2
<1>5. \A x \in Pid : proc'[x] # NoProc => proc[x] # NoProc /\ proc'[x].script = proc[x].script
  BY <1>1, <1>2
<1>6. ASSUME NEW a \in Action PROVE Load(q, a)' + Bit(Spent(a)) <= Load(q, a) + Bit(a \in {})
  <2>1. Bit(Said(a)') <= Bit(Said(a))
    BY <1>5, SaidStays
  <2>2. Bit(Spent(a)) = 0 /\ Bit(a \in {}) = 0
    BY DEF Bit, Spent
  <2>3. Load(q, a) = Share(a) + Weight(inbox, Bringing(a)) + Bit(Said(a)) + Bit(Linked(q, a))
    BY DEF Load
  <2>4. /\ Share(a) \in Nat /\ Weight(inbox, Bringing(a)) \in 0..2 /\ Bit(Said(a)) \in 0..1
        /\ Bit(Linked(q, a)) \in 0..1
    BY LoadRange
  <2>5. /\ Share(a)' \in Nat /\ Bit(Said(a)') \in 0..1
        /\ Load(q, a)' = Share(a)' + Weight(inbox', Bringing(a)) + Bit(Said(a)') + Bit(Linked(q, a))
    BY LoadRangeNext
  <2>6. Weight(inbox', Bringing(a)) = Weight(inbox, Bringing(a)) /\ Share(a)' <= Share(a)
    BY <1>2, <1>4
  <2>. QED BY <2>1, <2>2, <2>3, <2>4, <2>5, <2>6
<1>. QED BY <1>1, <1>2, <1>3, <1>6 DEF Grows

LEMMA SpentIsLeading ==
  ASSUME NEW a
  PROVE  Bit(Spent(a)) <= Bit(Head(todo) \in Leading(a))
  BY DEF Spent, Bit

\* A step at the head of todo that sets no property.
LEMMA PassGrows ==
  ASSUME TrackInv, NEW q, Loaded(q), todo # << >>, todo' = Tail(todo), UNCHANGED <<prop, inited, inbox>>,
         \A p \in Pid : proc'[p] # NoProc => proc[p] # NoProc /\ proc'[p].script = proc[p].script
  PROVE  Grows(q, q, {}) /\ Put(Tail(todo))
<1>1. todo \in Seq(ChainOp) /\ Tail(todo) \in Seq(ChainOp)
  BY HeadTailProperties DEF TrackInv, Confined
<1>2. \A a \in Action : Load(q, a)' + Bit(Head(todo) \in Leading(a)) <= Load(q, a)
  BY <1>1, PassLoad DEF Loaded
<1>3. ASSUME NEW a \in Action PROVE Load(q, a)' + Bit(Spent(a)) <= Load(q, a) + Bit(a \in {})
  <2>1. Load(q, a)' + Bit(Head(todo) \in Leading(a)) <= Load(q, a)
    BY <1>2
  <2>2. Bit(Spent(a)) <= Bit(Head(todo) \in Leading(a)) /\ Bit(a \in {}) = 0
        /\ Bit(Spent(a)) \in 0..1 /\ Bit(Head(todo) \in Leading(a)) \in 0..1
    BY SpentIsLeading DEF Bit
  <2>. QED BY <2>1, <2>2, LoadRange, LoadRangeNext
<1>. QED BY <1>1, <1>3, NothingPut DEF Grows

\* One that sets a status other than that camerad runs.
LEMMA StatusGrows ==
  ASSUME TypeOK, TrackInv, Unmixed, NEW q, Loaded(q),
         todo # << >>, Head(todo).op # "enqueue_matching",
         NEW s \in Service, NEW v \in Value, v # "running", SetProp(s, v, Tail(todo)),
         UNCHANGED <<inited, inbox>>,
         \A p \in Pid : proc'[p] # NoProc => proc[p] # NoProc /\ proc'[p].script = proc[p].script
  PROVE  Grows(q, q, {}) /\ Put(Tail(todo))
<1>1. todo \in Seq(ChainOp) /\ Tail(todo) \in Seq(ChainOp) /\ s \in Key
  BY HeadTailProperties, PropertyAssumption DEF TrackInv, Confined
<1>2. ASSUME NEW a \in Action PROVE Load(q, a)' + Bit(Spent(a)) <= Load(q, a) + Bit(a \in {})
  <2>1. Load(q, a)' + Bit(Head(todo) \in Leading(a)) + Bit(Said(a))
          <= Load(q, a) + Bit(Prompts(s, v, a)) + Bit(Said(a)')
    BY <1>1, SetLoad DEF Loaded
  <2>2. Bit(Prompts(s, v, a)) = 0 /\ Bit(a \in {}) = 0
    BY StatusPrompts DEF Bit
  <2>3. Bit(Said(a)') <= Bit(Said(a))
    BY SaidStays
  <2>4. Bit(Spent(a)) <= Bit(Head(todo) \in Leading(a))
        /\ Bit(Spent(a)) \in 0..1 /\ Bit(Head(todo) \in Leading(a)) \in 0..1
    BY SpentIsLeading DEF Bit
  <2>. QED BY <2>1, <2>2, <2>3, <2>4, LoadRange, LoadRangeNext
<1>. QED BY <1>1, <1>2, SetPropPuts DEF Grows

\* A call goes on, and the queue is left alone.
LEMMA CallGrows ==
  ASSUME IInv, OneshotInv, TrackInv, Unmixed, NEW q, Loaded(q), Step, ~QueueStep(Head(todo))
  PROVE  /\ UNCHANGED <<list, inited>>
         /\ Put(Tail(todo)) \/ (Head(todo).op = "reap" /\ Put(todo))
         /\ Head(todo).op \notin {"enqueue", "enqueue_matching"}
         /\ Grows(q, q, {}) \/ \E s \in Service : Forking(s) /\ Grows(q, q, Makes(s))
<1>. DEFINE o == Head(todo)
<1>1. /\ todo # << >> /\ o \in ChainOp /\ Tail(todo) \in Seq(ChainOp)
      /\ TypeOK /\ proc \in [Pid -> Process \cup {NoProc}]
  BY ChainSteps DEF IInv, TypeOK
<1>2. ASSUME NEW s \in Service, StartedNow(o, s), StartForks(s, FALSE)
      PROVE  /\ UNCHANGED <<list, inited>> /\ Put(Tail(todo)) /\ o.op \notin {"enqueue", "enqueue_matching"}
             /\ Forking(s) /\ Grows(q, q, Makes(s))
  <2>1. Forking(s)
    BY <1>1, <1>2 DEF Forking
  <2>2. SetProp(s, "running", Tail(todo)) /\ "running" \in Value /\ s \in Key
    BY <1>2, PropertyAssumption DEF StartForks
  <2>3. UNCHANGED <<list, inited>> /\ o.op \notin {"enqueue", "enqueue_matching"}
    BY <1>2 DEF StartedNow, ServiceStart, loopVars
  <2>. QED BY <1>1, <2>1, <2>2, <2>3, ForkGrows, SetPropPuts
<1>3. ASSUME NEW s \in Service, StartedNow(o, s), ~StartForks(s, FALSE)
      PROVE  /\ UNCHANGED <<list, inited>> /\ Put(Tail(todo)) /\ o.op \notin {"enqueue", "enqueue_matching"}
             /\ Grows(q, q, {})
  <2>1. /\ UNCHANGED <<list, inited, inbox>> /\ o.op \notin {"enqueue", "enqueue_matching"}
        /\ StartRunning(s) \/ StartRefused(s, FALSE) \/ StartForkFails(s, FALSE)
    BY <1>3 DEF StartedNow, ServiceStart, loopVars
  <2>2. todo' = Tail(todo) /\ UNCHANGED <<proc, prop>>
    BY <2>1 DEF StartRunning, StartRefused, StartForkFails
  <2>. QED BY <1>1, <2>1, <2>2, PassGrows
<1>4. ASSUME o.op = "stop", ServiceStopOrReset(bootan, "DISABLED")
      PROVE  /\ UNCHANGED <<list, inited>> /\ Put(Tail(todo)) /\ Grows(q, q, {})
  <2>1. PICK v \in {"stopping", "stopped"} : SetProp(bootan, v, Tail(todo))
    BY <1>4 DEF ServiceStopOrReset
  <2>2. UNCHANGED <<list, inited, inbox>> /\ v \in Value /\ v # "running" /\ bootan \in Service
    BY <1>4, PropertyAssumption, Services DEF ServiceStopOrReset, loopVars
  <2>3. proc' = proc \/ (proc[pid[bootan]].st = "grouped" /\ proc' = [proc EXCEPT ![pid[bootan]].st = "dying"])
    BY <1>4 DEF ServiceStopOrReset, Kill
  <2>4. \A p \in Pid : proc'[p] # NoProc => proc[p] # NoProc /\ proc'[p].script = proc[p].script
    <3>1. SUFFICES ASSUME NEW p \in Pid, proc'[p] # NoProc
                   PROVE  proc[p] # NoProc /\ proc'[p].script = proc[p].script
      OBVIOUS
    <3>2. CASE proc'[p] = proc[p]
      BY <3>1, <3>2
    <3>3. CASE p = pid[bootan] /\ proc[p].st = "grouped" /\ proc'[p] = [proc[p] EXCEPT !.st = "dying"]
      <4>1. proc[p] # NoProc /\ proc[p] \in Process
        BY <1>1, <3>3 DEF NoProc
      <4>. QED BY <3>3, <4>1 DEF Process
    <3>. QED BY <1>1, <2>3, <3>2, <3>3
  <2>. QED BY <1>1, <1>4, <2>1, <2>2, <2>4, StatusGrows
<1>5. ASSUME Announced(o)
      PROVE  /\ UNCHANGED <<list, inited>> /\ Put(Tail(todo)) /\ o.op \notin {"enqueue", "enqueue_matching"}
             /\ Grows(q, q, {})
  <2>1. /\ o.op = "restarting" /\ o.svc \in Service
        /\ SetProp(o.svc, "restarting", Tail(todo)) /\ "restarting" \in Value
        /\ UNCHANGED <<proc, list, inited, inbox>>
    BY <1>5, PropertyAssumption DEF Announced, svcVars, loopVars
  <2>. QED BY <1>1, <2>1, StatusGrows
<1>6. ASSUME PassedOver(o)
      PROVE  /\ UNCHANGED <<list, inited>> /\ Put(Tail(todo)) /\ o.op \notin {"enqueue", "enqueue_matching"}
             /\ Grows(q, q, {})
  BY <1>1, <1>6, PassGrows DEF PassedOver, svcVars
<1>7. ASSUME o.op = "reap", Reap
      PROVE  UNCHANGED <<list, inited>> /\ Put(todo) /\ Grows(q, q, {})
  BY <1>1, <1>7, ReapGrows
<1>8. \/ \E s \in Service : StartedNow(o, s)
      \/ o.op = "stop" /\ ServiceStopOrReset(bootan, "DISABLED")
      \/ Announced(o)
      \/ o.op = "reap" /\ Reap
      \/ PassedOver(o)
  BY ChainSteps
<1>. HIDE DEF o
<1>9. CASE \E s \in Service : StartedNow(o, s)
  <2>1. PICK s \in Service : StartedNow(o, s)
    BY <1>9
  <2>2. CASE StartForks(s, FALSE)
    BY <1>2, <2>1, <2>2 DEF o
  <2>3. CASE ~StartForks(s, FALSE)
    BY <1>3, <2>1, <2>3 DEF o
  <2>. QED BY <2>2, <2>3
<1>10. CASE o.op = "stop" /\ ServiceStopOrReset(bootan, "DISABLED")
  BY <1>4, <1>10 DEF o
<1>11. CASE Announced(o)
  BY <1>5, <1>11 DEF o
<1>12. CASE o.op = "reap" /\ Reap
  BY <1>7, <1>12 DEF o
<1>13. CASE PassedOver(o)
  BY <1>6, <1>13 DEF o
<1>. QED BY <1>8, <1>9, <1>10, <1>11, <1>12, <1>13

-----------------------------------------------------------------------------
(***************************************************************************)
(* The queue after a step                                                  *)
(***************************************************************************)
Coming(r) ==
  IF "triggers" \in inited' THEN Load(r, on_triggers)' = 0
  ELSE Linked(r, on_triggers) \/ Waits(todo')

Accounted(q) == \E r \in Seq(Action) : \E S :
  /\ Represents(list', r) /\ Coming(r) /\ Grows(q, r, S)
  /\ S = {} \/ \E s \in Service : Forking(s) /\ S = Makes(s)

LEMMA OnTriggers == on_triggers \in Action /\ \A s \in Service : on_triggers \notin Makes(s)
<1>1. on_triggers \in Action
  BY RcAssumption DEF IsRc, RcAction
<1>2. \A s \in Service : s = logd \/ s = bootan \/ s = update_check \/ s = update \/ s = camerad \/ s = web_server
  BY NamesDiffer
<1>. QED BY <1>1, <1>2, MakesWhat, ActionsNumbered

LEMMA ComingStays ==
  ASSUME NEW q, Loaded(q), "triggers" \in inited' <=> "triggers" \in inited, NEW r, NEW S, Grows(q, r, S), on_triggers \notin S,
         Linked(q, on_triggers) => Linked(r, on_triggers),
         Waits(todo) => Waits(todo') \/ Linked(r, on_triggers)
  PROVE  Coming(r)
<1>1. CASE "triggers" \in inited
  <2>1. Load(q, on_triggers) = 0
    BY <1>1 DEF Loaded, TriggersComing
  <2>2. Load(r, on_triggers)' + Bit(Spent(on_triggers)) <= Load(q, on_triggers) + Bit(on_triggers \in S)
    BY OnTriggers DEF Grows
  <2>3. Bit(on_triggers \in S) = 0 /\ Bit(Spent(on_triggers)) \in 0..1
    BY DEF Bit
  <2>4. Load(r, on_triggers)' = 0
    BY <2>1, <2>2, <2>3, LoadRangeNext
  <2>. QED BY <1>1, <2>4 DEF Coming
<1>2. CASE "triggers" \notin inited
  <2>1. Linked(q, on_triggers) \/ Waits(todo)
    BY <1>2 DEF Loaded, TriggersComing, Waits, EnableTriggers
  <2>. QED BY <1>2, <2>1 DEF Coming
<1>. QED BY <1>1, <1>2

LEMMA CallAccounted ==
  ASSUME IInv, OneshotInv, TrackInv, Unmixed, NEW q, Loaded(q), Step, ~QueueStep(Head(todo))
  PROVE  Accounted(q) /\ Unmixed'
<1>1. todo # << >> /\ todo \in Seq(ChainOp) /\ Tail(todo) \in Seq(ChainOp)
  BY HeadTailProperties DEF Step, TrackInv, Confined
<1>2. /\ UNCHANGED <<list, inited>>
      /\ Put(Tail(todo)) \/ (Head(todo).op = "reap" /\ Put(todo))
      /\ Head(todo).op \notin {"enqueue", "enqueue_matching"}
      /\ Grows(q, q, {}) \/ \E s \in Service : Forking(s) /\ Grows(q, q, Makes(s))
  BY CallGrows
<1>3. NoMatching(todo) /\ NoMatching(Tail(todo))
  BY <1>1, <1>2, NoneMatching
<1>4. NoMatching(todo')
  BY <1>1, <1>2, <1>3, PutStays
<1>5. Head(todo) # EnableTriggers
  BY <1>2 DEF EnableTriggers
<1>6. Waits(todo) => Waits(todo')
  BY <1>1, <1>2, <1>5, PutStays, WaitsInTail
<1>7. Represents(list', q) /\ q \in Seq(Action)
  BY <1>2 DEF Loaded, Represents
<1>8. PICK S : Grows(q, q, S) /\ (S = {} \/ \E s \in Service : Forking(s) /\ S = Makes(s))
  BY <1>2
<1>9. Coming(q)
  BY <1>2, <1>6, <1>8, ComingStays, OnTriggers
<1>10. Unmixed'
  BY <1>4 DEF Unmixed, NoMatching
<1>. QED BY <1>7, <1>8, <1>9, <1>10 DEF Accounted

LEMMA LinkedAppend ==
  ASSUME NEW q \in Seq(Action), NEW b \in Action, NEW a
  PROVE  Append(q, b) \in Seq(Action) /\ (Linked(Append(q, b), a) <=> Linked(q, a) \/ a = b)
<1>1. /\ Append(q, b) \in Seq(Action) /\ Len(q) \in Nat /\ Len(Append(q, b)) = Len(q) + 1
      /\ \A i \in 1..Len(q) : Append(q, b)[i] = q[i]
      /\ Append(q, b)[Len(q) + 1] = b
  OBVIOUS
<1>. QED BY <1>1 DEF Linked

LEMMA QueueAccounted ==
  ASSUME IInv, TrackInv, Unmixed, NEW q, Loaded(q), Step, QueueStep(Head(todo))
  PROVE  Accounted(q) /\ Unmixed'
<1>. DEFINE o == Head(todo)
            b == o.act
<1>1. /\ todo # << >> /\ todo \in Seq(ChainOp) /\ Tail(todo) \in Seq(ChainOp) /\ o \in ChainOp
      /\ list \in List /\ q \in Seq(Action) /\ Represents(list, q)
  BY HeadTailProperties DEF Step, TrackInv, Confined, IInv, TypeOK, Loaded, Represents
<1>2. /\ o.op \in {"enqueue", "enqueue_matching"} /\ b \in Action
      /\ list' = IF o.op = "enqueue" \/ Matches(b) THEN AddTail(list, b) ELSE list
      /\ todo' = Tail(todo)
      /\ UNCHANGED <<proc, prop, inited, inbox>>
  BY <1>1, OpFields DEF QueueStep, ChainOp, svcVars, loopVars
<1>3. \A a \in Action : Load(q, a)' + Bit(o \in Leading(a)) <= Load(q, a)
  BY <1>1, <1>2, PassLoad DEF Loaded
<1>4. ASSUME NEW a PROVE Bit(Spent(a)) = 0
  BY <1>2 DEF Spent, Bit
<1>5. Unmixed'
  <2>1. /\ DOMAIN todo = 1..Len(todo) /\ DOMAIN Tail(todo) = 1..(Len(todo) - 1) /\ Len(todo) \in Nat
        /\ \A i \in 1..(Len(todo) - 1) : Tail(todo)[i] = todo[i + 1] /\ i + 1 \in 1..Len(todo)
    BY <1>1, TailIndices
  <2>. QED BY <1>2, <2>1 DEF Unmixed
<1>6. o = EnableTriggers => o.op = "enqueue" /\ b = on_triggers
  BY DEF EnableTriggers
<1>7. o = EnableTriggers \/ (Waits(todo) => Waits(todo'))
  BY <1>1, <1>2, WaitsInTail
<1>8. CASE o.op = "enqueue" \/ Matches(b)
  <2>1. o \in Leading(b)
    BY <1>1, <1>2, <1>8 DEF Leading
  <2>2. ~Linked(q, b)
    <3>1. Load(q, b) >= 1 + Bit(Linked(q, b)) /\ Load(q, b) <= 1
      BY <1>1, <1>2, <2>1, HeadWeighs DEF Loaded
    <3>2. Linked(q, b) => Bit(Linked(q, b)) = 1
      BY DEF Bit
    <3>. QED BY <3>1, <3>2, LoadRange
  <2>3. Represents(AddTail(list, b), Append(q, b)) /\ list' = AddTail(list, b)
    BY <1>1, <1>2, <1>8, <2>2, AddTailAppends
  <2>4. PICK r \in Seq(Action) : Represents(list', r) /\ \A a : Linked(r, a) <=> Linked(q, a) \/ a = b
    <3>. DEFINE c == Append(q, b)
    <3>1. c \in Seq(Action) /\ \A a : Linked(c, a) <=> Linked(q, a) \/ a = b
      BY <1>1, <1>2, LinkedAppend
    <3>2. Represents(list', c)
      BY <2>3
    <3>. HIDE DEF c
    <3>. QED BY <3>1, <3>2
  <2>5. ASSUME NEW a \in Action PROVE Load(r, a)' + Bit(Spent(a)) <= Load(q, a) + Bit(a \in {})
    <3>1. Bit(Linked(r, a)) <= Bit(Linked(q, a)) + Bit(o \in Leading(a))
      BY <2>1, <2>4 DEF Bit
    <3>2. Load(q, a)' + Bit(o \in Leading(a)) <= Load(q, a)
      BY <1>3
    <3>3. Bit(Spent(a)) = 0 /\ Bit(a \in {}) = 0 /\ Bit(o \in Leading(a)) \in 0..1
      BY <1>4 DEF Bit
    <3>4. /\ Load(r, a)' = Share(a)' + Weight(inbox', Bringing(a)) + Bit(Said(a)') + Bit(Linked(r, a))
          /\ Bit(Linked(r, a)) \in 0..1
      BY LoadRangeNext
    <3>5. /\ Load(q, a)' = Share(a)' + Weight(inbox', Bringing(a)) + Bit(Said(a)') + Bit(Linked(q, a))
          /\ Bit(Linked(q, a)) \in 0..1 /\ Share(a)' \in Nat /\ Weight(inbox', Bringing(a)) \in 0..2 /\ Bit(Said(a)') \in 0..1
      BY LoadRangeNext
    <3>6. Load(q, a) \in Nat
      BY LoadRange
    <3>. QED BY <3>1, <3>2, <3>3, <3>4, <3>5, <3>6
  <2>6. Grows(q, r, {})
    BY <2>5 DEF Grows
  <2>7. Coming(r)
    <3>1. Waits(todo) => Waits(todo') \/ Linked(r, on_triggers)
      BY <1>6, <1>7, <2>4
    <3>2. Linked(q, on_triggers) => Linked(r, on_triggers)
      BY <2>4
    <3>. QED BY <1>2, <2>6, <3>1, <3>2, ComingStays
  <2>. QED BY <1>5, <2>4, <2>6, <2>7 DEF Accounted
<1>9. CASE ~(o.op = "enqueue" \/ Matches(b))
  <2>1. list' = list /\ o # EnableTriggers
    BY <1>2, <1>6, <1>9
  <2>2. Grows(q, q, {})
    <3>1. ASSUME NEW a \in Action PROVE Load(q, a)' + Bit(Spent(a)) <= Load(q, a) + Bit(a \in {})
      <4>1. Load(q, a)' + Bit(o \in Leading(a)) <= Load(q, a)
        BY <1>3
      <4>2. Bit(Spent(a)) = 0 /\ Bit(a \in {}) = 0 /\ Bit(o \in Leading(a)) \in 0..1
        BY <1>4 DEF Bit
      <4>. QED BY <4>1, <4>2, LoadRange, LoadRangeNext
    <3>. QED BY <3>1 DEF Grows
  <2>3. Coming(q)
    BY <1>2, <1>7, <2>1, <2>2, ComingStays
  <2>. QED BY <1>1, <1>5, <2>1, <2>2, <2>3 DEF Accounted
<1>. QED BY <1>8, <1>9

-----------------------------------------------------------------------------
(***************************************************************************)
(* The next action of the queue                                            *)
(***************************************************************************)
LEMMA CommandsNumbered ==
  /\ Commands[on_triggers] = <<[cmd |-> "queue_property_triggers"]>>
  /\ \A a \in Action : Commands[a] # << >> => \E c :
       /\ Commands[a] = <<c>>
       /\ \/ a = on_triggers
          \/ c \in {[cmd |-> "other"], [cmd |-> "property_service_init"], [cmd |-> "signal_init"],
                    [cmd |-> "start", svc |-> web_server]}
          \/ a = on_early /\ c = [cmd |-> "class_start", class |-> "base"]
          \/ a = prop_app /\ c = [cmd |-> "class_start", class |-> "core"]
          \/ \E class \in {"bootan", "update_check", "update"} : c = [cmd |-> "class_start", class |-> class]
<1>. DEFINE Rc(a) ==
        CASE a = on_init     -> <<[cmd |-> "other"]>>
          [] a = on_property -> <<[cmd |-> "property_service_init"]>>
          [] a = on_signal   -> <<[cmd |-> "signal_init"]>>
          [] a = on_early    -> ClassStart("base")
          [] a = on_triggers -> <<[cmd |-> "queue_property_triggers"]>>
          [] a = prop_logd     -> ClassStart("bootan")
          [] a = prop_bootan   -> ClassStart("update_check")
          [] a = prop_update   -> ClassStart("update")
          [] a = prop_app      -> ClassStart("core")
          [] a = prop_camerad  -> <<[cmd |-> "start", svc |-> web_server]>>
          [] OTHER          -> << >>
<1>1. \A a \in Action : Commands[a] = Rc(a)
  BY RcAssumption DEF IsRc, RcCommands
<1>2. on_triggers \notin {on_init, on_property, on_signal, on_early}
  BY ActionsNumbered
<1>3. Rc(on_triggers) = <<[cmd |-> "queue_property_triggers"]>>
  <2>1. on_triggers \notin {prop_logd, prop_bootan, prop_update, prop_app, prop_camerad}
    BY ActionsNumbered
  <2>. QED BY <1>2, <2>1
<1>4. ASSUME NEW a \in Action
      PROVE  \/ Commands[a] = << >>
             \/ a = on_triggers
             \/ \E c \in {[cmd |-> "other"], [cmd |-> "property_service_init"], [cmd |-> "signal_init"],
                    [cmd |-> "start", svc |-> web_server]} : Commands[a] = <<c>>
             \/ a = on_early /\ Commands[a] = ClassStart("base")
             \/ a = prop_app /\ Commands[a] = ClassStart("core")
             \/ \E class \in {"bootan", "update_check", "update"} : Commands[a] = ClassStart(class)
  <2>1. Commands[a] = Rc(a)
    BY <1>1
  <2>. QED BY <2>1
<1>5. Commands[on_triggers] = <<[cmd |-> "queue_property_triggers"]>>
  BY <1>1, <1>3, OnTriggers
<1>. HIDE DEF Rc
<1>. QED BY <1>4, <1>5 DEF ClassStart

\* What an action starts of its own accord it was the last sign of.
LEMMA RunLeads ==
  ASSUME NEW a \in Action, a # on_triggers, Commands[a] # << >>
  PROVE  LET c == Commands[a][1]
         IN  /\ c.cmd # "queue_property_triggers"
             /\ \A i, j \in DOMAIN Expand(c) : i = j
             /\ \A i \in DOMAIN Expand(c) :
                  /\ Expand(c)[i].op \in {"reap", "start", "start_enabled"}
                  /\ \A b : Expand(c)[i] \in Leading(b)' => b = a
<1>1. PICK c : /\ Commands[a] = <<c>>
               /\ \/ c \in {[cmd |-> "other"], [cmd |-> "property_service_init"], [cmd |-> "signal_init"],
                            [cmd |-> "start", svc |-> web_server]}
                  \/ a = on_early /\ c = [cmd |-> "class_start", class |-> "base"]
                  \/ a = prop_app /\ c = [cmd |-> "class_start", class |-> "core"]
                  \/ \E class \in {"bootan", "update_check", "update"} : c = [cmd |-> "class_start", class |-> class]
  BY CommandsNumbered
<1>2. Commands[a][1] = c
  BY <1>1
<1>. DEFINE P(e) == /\ \A i, j \in DOMAIN e : i = j
                    /\ \A i \in DOMAIN e : /\ e[i].op \in {"reap", "start", "start_enabled"}
                                           /\ \A b : e[i] \in Leading(b)' => b = a
<1>3. ASSUME NEW e, e = << >> \/ \E o : e = <<o>> /\ o.op \in {"reap", "start"} PROVE P(e)
  BY <1>3 DEF Leading
<1>4. ASSUME NEW s, NEW e, e = <<[op |-> "start_enabled", svc |-> s]>>, s \in Respawned => a = Opener(s) PROVE P(e)
  BY <1>4 DEF Leading
<1>5. /\ InClass["base"] = <<logd>> /\ InClass["bootan"] = <<bootan>>
      /\ InClass["update_check"] = <<update_check>> /\ InClass["update"] = <<update>>
      /\ InClass["core"] = <<camerad>>
  BY RcAssumption DEF IsRc, RcInClass, RcClass
<1>6. ASSUME NEW s, NEW class, InClass[class] = <<s>>, c = [cmd |-> "class_start", class |-> class]
       PROVE  Expand(c) = <<[op |-> "start_enabled", svc |-> s]>>
  <2>1. Expand(c) = SvcOps("start_enabled", <<s>>)
    BY <1>6 DEF Expand
  <2>. QED BY <2>1 DEF SvcOps
<1>7. /\ camerad # logd /\ {bootan, update_check, update} \cap Respawned = {}
      /\ Opener(logd) = on_early /\ Opener(camerad) = prop_app
  BY NamesNumbered DEF Respawned, Opener
<1>. HIDE DEF P
<1>8. c.cmd # "queue_property_triggers"
  BY <1>1
<1>9. P(Expand(c))
  <2>1. CASE c \in {[cmd |-> "other"], [cmd |-> "property_service_init"]}
    <3>1. Expand(c) = << >>
      BY <2>1 DEF Expand
    <3>. QED BY <1>3, <3>1
  <2>2. CASE c = [cmd |-> "signal_init"]
    <3>1. Expand(c) = <<[op |-> "reap"]>>
      BY <2>2 DEF Expand
    <3>2. \E o : Expand(c) = <<o>> /\ o.op \in {"reap", "start"}
      BY <3>1
    <3>. QED BY <1>3, <3>2
  <2>3. CASE c = [cmd |-> "start", svc |-> web_server]
    <3>1. Expand(c) = <<[op |-> "start", svc |-> web_server]>>
      BY <2>3 DEF Expand
    <3>2. \E o : Expand(c) = <<o>> /\ o.op \in {"reap", "start"}
      BY <3>1
    <3>. QED BY <1>3, <3>2
  <2>4. CASE a = on_early /\ c = [cmd |-> "class_start", class |-> "base"]
    <3>1. Expand(c) = <<[op |-> "start_enabled", svc |-> logd]>>
      BY <1>5, <1>6, <2>4
    <3>. QED BY <1>4, <1>7, <2>4, <3>1
  <2>5. CASE a = prop_app /\ c = [cmd |-> "class_start", class |-> "core"]
    <3>1. Expand(c) = <<[op |-> "start_enabled", svc |-> camerad]>>
      BY <1>5, <1>6, <2>5
    <3>. QED BY <1>4, <1>7, <2>5, <3>1
  <2>6. CASE \E class \in {"bootan", "update_check", "update"} : c = [cmd |-> "class_start", class |-> class]
    <3>1. PICK class \in {"bootan", "update_check", "update"} : c = [cmd |-> "class_start", class |-> class]
      BY <2>6
    <3>2. PICK s \in {bootan, update_check, update} : InClass[class] = <<s>>
      BY <1>5
    <3>3. Expand(c) = <<[op |-> "start_enabled", svc |-> s]>>
      BY <1>6, <3>1, <3>2
    <3>4. s \notin Respawned
      BY <1>7
    <3>. QED BY <1>4, <3>3, <3>4
  <2>. QED BY <1>1, <2>1, <2>2, <2>3, <2>4, <2>5, <2>6
<1>. QED BY <1>2, <1>8, <1>9 DEF P

LEMMA LinkedTail ==
  ASSUME NEW q \in Seq(Action), Distinct(q), q # << >>
  PROVE  /\ Tail(q) \in Seq(Action) /\ Head(q) \in Action /\ Linked(q, Head(q))
         /\ \A a : Linked(Tail(q), a) <=> Linked(q, a) /\ a # Head(q)
<1>1. /\ Len(q) \in Nat /\ 1 <= Len(q) /\ DOMAIN q = 1..Len(q)
      /\ Len(Tail(q)) = Len(q) - 1 /\ Tail(q) \in Seq(Action)
      /\ \A i \in 1..(Len(q) - 1) : Tail(q)[i] = q[i + 1]
      /\ Head(q) = q[1] /\ Head(q) \in Action
  <2>1. Len(Tail(q)) = Len(q) - 1 /\ Tail(q) \in Seq(Action) /\ Head(q) \in Action
    BY HeadTailProperties
  <2>. QED BY <2>1, TailIndices
<1>2. Linked(q, Head(q))
  BY <1>1 DEF Linked
<1>3. ASSUME NEW a, Linked(Tail(q), a) PROVE Linked(q, a) /\ a # Head(q)
  <2>1. PICK i \in 1..(Len(q) - 1) : Tail(q)[i] = a
    BY <1>1, <1>3 DEF Linked
  <2>2. i + 1 \in 1..Len(q) /\ q[i + 1] = a /\ i + 1 # 1 /\ 1 \in 1..Len(q)
    BY <1>1, <2>1
  <2>3. q[i + 1] # q[1]
    BY <2>2 DEF Distinct
  <2>. QED BY <1>1, <2>2, <2>3 DEF Linked
<1>4. ASSUME NEW a, Linked(q, a), a # Head(q) PROVE Linked(Tail(q), a)
  <2>1. PICK i \in 1..Len(q) : q[i] = a
    BY <1>4 DEF Linked
  <2>2. i # 1
    BY <1>1, <1>4, <2>1
  <2>3. i - 1 \in 1..(Len(q) - 1) /\ (i - 1) + 1 = i
    BY <1>1, <2>2
  <2>4. Tail(q)[i - 1] = a
    BY <1>1, <2>1, <2>3
  <2>. QED BY <1>1, <2>3, <2>4 DEF Linked
<1>. QED BY <1>1, <1>2, <1>3, <1>4

LEMMA OrderDistinct ==
  /\ ActionOrder \in Seq(Action)
  /\ \A i, j \in DOMAIN ActionOrder : ActionOrder[i] = ActionOrder[j] => i = j
<1>1. ActionOrder = <<prop_logd, prop_bootan, prop_update, prop_app, prop_camerad, prop_web>>
  BY RcAssumption DEF IsRc, RcActionOrder
<1>2. PICK f : /\ f[prop_logd] = 7 /\ f[prop_bootan] = 8
               /\ f[prop_update] = 9 /\ f[prop_app] = 10 /\ f[prop_camerad] = 11 /\ f[prop_web] = 12
  BY ActionsNumbered
<1>3. \A i \in DOMAIN ActionOrder : f[ActionOrder[i]] = i + 6
  BY <1>1, <1>2
<1>4. \A i \in DOMAIN ActionOrder : i \in Nat
  BY <1>1
<1>5. ASSUME NEW i \in DOMAIN ActionOrder, NEW j \in DOMAIN ActionOrder, ActionOrder[i] = ActionOrder[j] PROVE i = j
  <2>1. i + 6 = j + 6
    BY <1>3, <1>5
  <2>. QED BY <1>4, <2>1
<1>. QED BY <1>5, ActionAssumption

\* The actions the queueing of the triggers brings.
LEMMA MatchingWeight ==
  ASSUME UNCHANGED prop, NEW a
  PROVE  Weight(Enqueues("enqueue_matching", ActionOrder), Leading(a)') <= Bit(Matches(a))
<1>. DEFINE t == Enqueues("enqueue_matching", ActionOrder)
<1>1. /\ DOMAIN t = DOMAIN ActionOrder
      /\ \A i \in DOMAIN t : t[i].op = "enqueue_matching" /\ t[i].act = ActionOrder[i]
  BY DEF Enqueues
<1>. HIDE DEF t
<1>2. Matches(a)' = Matches(a)
  BY DEF Matches, Defined
<1>3. \A i \in DOMAIN t : t[i] \in Leading(a)' => ActionOrder[i] = a /\ Matches(a)
  BY <1>1, <1>2 DEF Leading
<1>4. CASE ~Matches(a)
  BY <1>3, <1>4, WeightNone DEF Bit, t
<1>5. CASE Matches(a)
  <2>1. \A i, j \in DOMAIN t : t[i] \in Leading(a)' /\ t[j] \in Leading(a)' => i = j
    BY <1>1, <1>3, OrderDistinct
  <2>2. Weight(t, Leading(a)') <= 1
    BY <2>1 DEF Weight
  <2>. QED BY <1>5, <2>2 DEF Bit, t
<1>. QED BY <1>4, <1>5

LEMMA RestLoad ==
  ASSUME todo = << >>, NEW q, NEW a
  PROVE  /\ Load(q, a) = Bit(Held(a)) + Weight(inbox, Bringing(a)) + Bit(Said(a)) + Bit(Linked(q, a))
         /\ Bit(Spent(a)) = 0
  BY WeightEmpty, LoadRange DEF Load, Share, Spent, Bit

\* What is left to show when a call begins.
LEMMA CallBegins ==
  ASSUME todo = << >>, NEW q, NEW r,
         \A p \in Pid : proc'[p] # NoProc => proc[p] # NoProc /\ proc'[p].script = proc[p].script,
         inbox' = inbox,
         \A a \in Action : Share(a)' + Bit(Linked(r, a)) <= Bit(Held(a)) + Bit(Linked(q, a))
  PROVE  Grows(q, r, {})
<1>1. ASSUME NEW a \in Action PROVE Load(r, a)' + Bit(Spent(a)) <= Load(q, a) + Bit(a \in {})
  <2>1. Share(a)' + Bit(Linked(r, a)) <= Bit(Held(a)) + Bit(Linked(q, a))
    OBVIOUS
  <2>2. Bit(Said(a)') <= Bit(Said(a)) /\ Bit(a \in {}) = 0
    BY SaidStays DEF Bit
  <2>3. /\ Load(q, a) = Bit(Held(a)) + Weight(inbox, Bringing(a)) + Bit(Said(a)) + Bit(Linked(q, a))
        /\ Bit(Spent(a)) = 0
    BY RestLoad
  <2>4. /\ Load(r, a)' = Share(a)' + Weight(inbox, Bringing(a)) + Bit(Said(a)') + Bit(Linked(r, a))
        /\ Bit(Linked(r, a)) \in 0..1 /\ Share(a)' \in Nat /\ Bit(Said(a)') \in 0..1
        /\ Weight(inbox, Bringing(a)) \in 0..2
    BY LoadRangeNext
  <2>5. Bit(Held(a)) \in 0..1 /\ Bit(Said(a)) \in 0..1 /\ Bit(Linked(q, a)) \in 0..1
    BY LoadRange
  <2>. QED BY <2>1, <2>2, <2>3, <2>4, <2>5
<1>. QED BY <1>1 DEF Grows

LEMMA EmptyQueue ==
  ASSUME NEW q, Represents(list, q)
  PROVE  ListEmpty(list) <=> q = << >>
<1>1. q \in Seq(Action) /\ Len(q) \in Nat
  BY DEF Represents
<1>2. list.next[At(q, 0)] = At(q, 0 + 1)
  BY <1>1 DEF Represents
<1>3. At(q, 0) = QHead /\ 0 + 1 = 1
  BY <1>1 DEF At
<1>4. list.next[QHead] = At(q, 1)
  BY <1>2, <1>3
<1>5. CASE q = << >>
  BY <1>5, <1>4 DEF At, ListEmpty
<1>6. CASE q # << >>
  <2>1. 1 \in 1..Len(q) /\ q[1] \in Action
    BY <1>1, <1>6, TailIndices, ElementOfSeq
  <2>. QED BY <1>6, <1>4, <2>1, QHeadAssumption DEF At, ListEmpty
<1>. QED BY <1>5, <1>6

\* An action leaves the queue, and what it does at once counts no more than it did.
LEMMA ActionAccounted ==
  ASSUME IInv, TrackInv, NEW q, Loaded(q), todo = << >>, NextAction, UNCHANGED <<proc, prop, inbox>>
  PROVE  Accounted(q) /\ Unmixed'
<1>. DEFINE h == Head(q)
            r == Tail(q)
<1>1. /\ q \in Seq(Action) /\ Represents(list, q) /\ Distinct(q) /\ list \in List
      /\ proc \in [Pid -> Process \cup {NoProc}]
  BY DEF Loaded, Represents, IInv, TypeOK
<1>2. q # << >>
  BY <1>1, EmptyQueue DEF NextAction
<1>3. /\ r \in Seq(Action) /\ h \in Action /\ Linked(q, h)
      /\ \A a : Linked(r, a) <=> Linked(q, a) /\ a # h
  BY <1>1, <1>2, LinkedTail
<1>4. HeadOf(list) = h /\ Represents(RemoveHead(list), r)
  BY <1>1, <1>2, RemoveHeadTails
<1>5. /\ Represents(list', r)
      /\ IF Commands[h] = << >> THEN UNCHANGED <<todo, inited>> ELSE Run(Commands[h][1])
  BY <1>4 DEF NextAction
<1>. HIDE DEF h, r
<1>6. \A a : Bit(Linked(r, a)) + Bit(a = h) = Bit(Linked(q, a))
  BY <1>3 DEF Bit
<1>7. \A p \in Pid : proc'[p] # NoProc => proc[p] # NoProc /\ proc'[p].script = proc[p].script
  OBVIOUS
<1>8. ASSUME \A a \in Action : Share(a)' <= Bit(Held(a)) + Bit(a = h) PROVE Grows(q, r, {})
  <2>1. ASSUME NEW a \in Action PROVE Share(a)' + Bit(Linked(r, a)) <= Bit(Held(a)) + Bit(Linked(q, a))
    <3>1. Share(a)' <= Bit(Held(a)) + Bit(a = h) /\ Bit(Linked(r, a)) + Bit(a = h) = Bit(Linked(q, a))
      BY <1>6, <1>8
    <3>2. Share(a)' \in Nat /\ Bit(Held(a)) \in 0..1 /\ Bit(Linked(r, a)) \in 0..1 /\ Bit(Linked(q, a)) \in 0..1
          /\ Bit(a = h) \in 0..1
      BY LoadRange, LoadRangeNext DEF Bit
    <3>. QED BY <3>1, <3>2
  <2>. QED BY <1>7, <2>1, CallBegins
<1>9. CASE h # on_triggers
  <2>1. /\ "triggers" \in inited' <=> "triggers" \in inited
        /\ NoMatching(todo')
        /\ \A a : Weight(todo', Leading(a)') <= Bit(a = h)
    <3>1. CASE Commands[h] = << >>
      <4>1. todo' = << >> /\ inited' = inited
        BY <1>5, <3>1
      <4>2. \A S : Weight(todo', S) = 0
        BY <4>1, WeightEmpty
      <4>3. ASSUME NEW a PROVE Weight(todo', Leading(a)') <= Bit(a = h)
        <5>1. Weight(todo', Leading(a)') = 0
          BY <4>2
        <5>2. Bit(a = h) \in 0..1
          BY DEF Bit
        <5>. QED BY <5>1, <5>2
      <4>. QED BY <4>1, <4>3 DEF NoMatching
    <3>2. CASE Commands[h] # << >>
      <4>. DEFINE c == Commands[h][1]
                  e == Expand(c)
      <4>1. /\ c.cmd # "queue_property_triggers"
            /\ \A i, j \in DOMAIN e : i = j
            /\ \A i \in DOMAIN e : /\ e[i].op \in {"reap", "start", "start_enabled"}
                                   /\ \A b : e[i] \in Leading(b)' => b = h
        BY <1>3, <1>9, <3>2, RunLeads
      <4>2. Run(c)
        BY <1>5, <3>2
      <4>. HIDE DEF c
      <4>3. todo' = e /\ ("triggers" \in inited' <=> "triggers" \in inited)
        BY <4>1, <4>2 DEF Run
      <4>. HIDE DEF e
      <4>4. NoMatching(todo')
        BY <4>1, <4>3 DEF NoMatching
      <4>5. ASSUME NEW a PROVE Weight(todo', Leading(a)') <= Bit(a = h)
        <5>1. CASE a = h
          <6>1. Weight(todo', Leading(a)') \in {0, 1}
            BY <4>1, <4>3 DEF Weight
          <6>. QED BY <5>1, <6>1 DEF Bit
        <5>2. CASE a # h
          BY <4>1, <4>3, <5>2, WeightNone DEF Bit
        <5>. QED BY <5>1, <5>2
      <4>. QED BY <4>3, <4>4, <4>5
    <3>. QED BY <3>1, <3>2
  <2>2. ASSUME NEW a \in Action PROVE Share(a)' <= Bit(Held(a)) + Bit(a = h)
    <3>1. Held(a)' = Held(a)
      BY <2>1 DEF Held, Matches, Defined
    <3>2. Share(a)' = Weight(todo', Leading(a)') + Bit(Held(a))
      BY <3>1, LoadRangeNext
    <3>3. Weight(todo', Leading(a)') <= Bit(a = h) /\ Weight(todo', Leading(a)') \in 0..2
      BY <2>1, WeightRange
    <3>4. Bit(a = h) \in 0..1 /\ Bit(Held(a)) \in 0..1
      BY DEF Bit
    <3>. QED BY <3>2, <3>3, <3>4
  <2>3. Grows(q, r, {})
    BY <1>8, <2>2
  <2>4. Linked(q, on_triggers) => Linked(r, on_triggers)
    BY <1>3, <1>9
  <2>5. ~Waits(todo)
    BY DEF Waits
  <2>6. Coming(r)
    BY <2>1, <2>3, <2>4, <2>5, ComingStays
  <2>. QED BY <1>3, <1>5, <2>1, <2>3, <2>6 DEF Accounted, Unmixed, NoMatching
<1>10. CASE h = on_triggers
  <2>. DEFINE c == [cmd |-> "queue_property_triggers"]
  <2>1. Commands[h] = <<c>>
    BY <1>10, CommandsNumbered
  <2>2. Run(c)
    <3>1. <<c>> # << >> /\ <<c>>[1] = c
      OBVIOUS
    <3>. QED BY <1>5, <2>1, <3>1
  <2>3. todo' = Enqueues("enqueue_matching", ActionOrder) /\ "triggers" \in inited'
    BY <2>2 DEF Run, Expand
  <2>4. "triggers" \notin inited
    <3>1. Load(q, on_triggers) # 0
      <4>1. Load(q, on_triggers) = Bit(Held(on_triggers)) + Weight(inbox, Bringing(on_triggers))
                                   + Bit(Said(on_triggers)) + Bit(Linked(q, on_triggers))
        BY RestLoad
      <4>2. Bit(Linked(q, on_triggers)) = 1
        BY <1>3, <1>10 DEF Bit
      <4>. QED BY <4>1, <4>2, LoadRange
    <3>. QED BY <3>1 DEF Loaded, TriggersComing
  <2>5. ASSUME NEW a \in Action PROVE Share(a)' <= Bit(Held(a))
    <3>1. Bit(Held(a)') = 0
      BY <2>3 DEF Held, Bit
    <3>2. Weight(todo', Leading(a)') <= Bit(Matches(a))
      BY <2>3, MatchingWeight
    <3>3. Bit(Matches(a)) = Bit(Held(a))
      BY <2>4 DEF Held, Bit
    <3>4. Share(a)' = Weight(todo', Leading(a)') + Bit(Held(a)')
      BY LoadRangeNext
    <3>5. Weight(todo', Leading(a)') \in 0..2 /\ Bit(Held(a)) \in 0..1
      BY WeightRange DEF Bit
    <3>. QED BY <3>1, <3>2, <3>3, <3>4, <3>5
  <2>6. ASSUME NEW a \in Action PROVE Share(a)' <= Bit(Held(a)) + Bit(a = h)
    <3>1. Bit(a = h) \in 0..1 /\ Bit(Held(a)) \in 0..1 /\ Share(a)' \in Nat
      BY LoadRangeNext DEF Bit
    <3>. QED BY <2>5, <3>1
  <2>7. Grows(q, r, {})
    BY <1>8, <2>6
  <2>8. Coming(r)
    <3>. DEFINE t == on_triggers
    <3>1. Share(t)' <= Bit(Held(t)) /\ t \in Action
      BY <2>5, OnTriggers
    <3>2. Bit(Linked(q, t)) = 1 /\ Bit(Linked(r, t)) = 0
      BY <1>3, <1>10 DEF Bit
    <3>3. Load(q, t) = Bit(Held(t)) + Weight(inbox, Bringing(t)) + Bit(Said(t)) + Bit(Linked(q, t)) /\ Load(q, t) <= 1
      BY <3>1, RestLoad DEF Loaded
    <3>4. Load(r, t)' = Share(t)' + Weight(inbox', Bringing(t)) + Bit(Said(t)') + Bit(Linked(r, t)) /\ Share(t)' \in Nat
      BY LoadRangeNext
    <3>5. Bit(Said(t)') <= Bit(Said(t)) /\ Bit(Said(t)') \in 0..1
      BY <1>7, SaidStays DEF Bit
    <3>6. Load(r, t)' = 0
      BY <3>1, <3>2, <3>3, <3>4, <3>5, LoadRange
    <3>. QED BY <2>3, <3>6 DEF Coming
  <2>9. Unmixed'
    BY <2>3 DEF Unmixed, Enqueues
  <2>. QED BY <1>3, <1>5, <2>7, <2>8, <2>9 DEF Accounted
<1>. QED BY <1>9, <1>10

\* No action has more than one command, so that none is ever in the middle.
LEMMA NoMoreCommands ==
  ASSUME IInv
  PROVE  CommandDone
<1>1. SUFFICES ASSUME cur # NoAction, ip # 0, ip # Len(Commands[cur]) PROVE FALSE
  BY DEF CommandDone
<1>2. cur \in Action /\ ip \in Nat /\ ip <= Len(Commands[cur])
  BY <1>1 DEF IInv, TypeOK, CommandInRange
<1>3. Len(Commands[cur]) = 0 \/ Len(Commands[cur]) = 1
  <2>1. Commands[cur] = << >> \/ \E c : Commands[cur] = <<c>>
    BY <1>2, CommandsNumbered
  <2>2. Len(<< >>) = 0 /\ \A c : Len(<<c>>) = 1
    OBVIOUS
  <2>. QED BY <2>1, <2>2
<1>4. PICK n : n = Len(Commands[cur])
  OBVIOUS
<1>5. ip # 0 /\ ip # n /\ ip \in Nat /\ ip <= n /\ (n = 0 \/ n = 1)
  BY <1>1, <1>2, <1>3, <1>4
<1>. QED BY <1>5

\* What a step keeps of the processes when it touches none.
LEMMA SameProcesses ==
  ASSUME proc' = proc
  PROVE  \A p \in Pid : proc'[p] # NoProc => proc[p] # NoProc /\ proc'[p].script = proc[p].script
  OBVIOUS

LEMMA SameInbox ==
  ASSUME inbox' = inbox
  PROVE  \A a \in Action : Weight(inbox', Bringing(a)) <= Weight(inbox, Bringing(a))
<1>1. ASSUME NEW a PROVE Weight(inbox', Bringing(a)) <= Weight(inbox, Bringing(a))
  <2>1. Weight(inbox, Bringing(a)) <= Weight(inbox, Bringing(a))
    BY WeightRange
  <2>. QED BY <2>1
<1>. QED BY <1>1

\* A call begins, or not, that queues nothing at once.
LEMMA QuietCall ==
  ASSUME NEW q, Loaded(q), todo = << >>, UNCHANGED <<list, prop, inited>>,
         \A i \in DOMAIN todo' : todo'[i].op \in {"stop", "respawn", "reap"},
         \A p \in Pid : proc'[p] # NoProc => proc[p] # NoProc /\ proc'[p].script = proc[p].script,
         \A a \in Action : Weight(inbox', Bringing(a)) <= Weight(inbox, Bringing(a))
  PROVE  Accounted(q) /\ Unmixed'
<1>1. ASSUME NEW a \in Action PROVE Load(q, a)' + Bit(Spent(a)) <= Load(q, a) + Bit(a \in {})
  <2>1. Weight(todo', Leading(a)') = 0
    <3>1. \A i \in DOMAIN todo' : todo'[i] \notin Leading(a)'
      BY DEF Leading
    <3>. QED BY <3>1, WeightNone
  <2>2. Held(a)' = Held(a)
    BY DEF Held, Matches, Defined
  <2>3. Bit(Said(a)') <= Bit(Said(a)) /\ Bit(a \in {}) = 0
    BY SaidStays DEF Bit
  <2>4. /\ Load(q, a) = Bit(Held(a)) + Weight(inbox, Bringing(a)) + Bit(Said(a)) + Bit(Linked(q, a))
        /\ Bit(Spent(a)) = 0
    BY RestLoad
  <2>5. /\ Load(q, a)' = 0 + Bit(Held(a)) + Weight(inbox', Bringing(a)) + Bit(Said(a)') + Bit(Linked(q, a))
        /\ Bit(Said(a)') \in 0..1 /\ Weight(inbox', Bringing(a)) \in 0..2
    BY <2>1, <2>2, LoadRangeNext
  <2>. QED BY <2>3, <2>4, <2>5, LoadRange
<1>2. Grows(q, q, {})
  BY <1>1 DEF Grows
<1>3. ~Waits(todo)
  BY DEF Waits
<1>4. Coming(q)
  BY <1>2, <1>3, ComingStays
<1>5. q \in Seq(Action) /\ Represents(list', q)
  BY DEF Loaded, Represents
<1>. QED BY <1>2, <1>4, <1>5 DEF Accounted, Unmixed

LEMMA ExecuteAccounted ==
  ASSUME IInv, TrackInv, NEW q, Loaded(q), ExecuteOneCommand
  PROVE  Accounted(q) /\ Unmixed'
<1>1. /\ todo = << >> /\ UNCHANGED <<proc, prop, inbox>>
      /\ NoCommand \/ NextAction
  BY NoMoreCommands DEF ExecuteOneCommand, Ready, svcVars
<1>2. CASE NoCommand
  <2>1. UNCHANGED <<list, todo, inited>> /\ \A i \in DOMAIN todo' : FALSE
    BY <1>1, <1>2 DEF NoCommand
  <2>2. /\ todo = << >> /\ UNCHANGED <<list, prop, inited>> /\ proc' = proc /\ inbox' = inbox
        /\ \A i \in DOMAIN todo' : todo'[i].op \in {"stop", "respawn", "reap"}
    BY <1>1, <2>1
  <2>3. \A p \in Pid : proc'[p] # NoProc => proc[p] # NoProc /\ proc'[p].script = proc[p].script
    BY <2>2, SameProcesses
  <2>4. \A a \in Action : Weight(inbox', Bringing(a)) <= Weight(inbox, Bringing(a))
    BY <2>2, SameInbox
  <2>. QED BY <2>2, <2>3, <2>4, QuietCall
<1>3. CASE NextAction
  BY <1>1, <1>3, ActionAccounted
<1>. QED BY <1>1, <1>2, <1>3

LEMMA LoopAccounted ==
  ASSUME NEW q, Loaded(q), RestartProcesses \/ Poll \/ HandleSignal
  PROVE  Accounted(q) /\ Unmixed'
<1>1. todo = << >> /\ UNCHANGED <<list, proc, prop, inited, inbox>>
  BY DEF RestartProcesses, Poll, HandleSignal, Ready, svcVars
<1>2. \A i \in DOMAIN todo' : todo'[i].op \in {"stop", "respawn", "reap"}
  <2>1. CASE RestartProcesses
    BY <2>1 DEF RestartProcesses, SvcOps
  <2>2. CASE Poll
    BY <1>1, <2>2 DEF Poll
  <2>3. CASE HandleSignal
    BY <1>1, <2>3 DEF HandleSignal
  <2>. QED BY <2>1, <2>2, <2>3
<1>3. /\ UNCHANGED <<list, prop, inited>> /\ proc' = proc /\ inbox' = inbox
  BY <1>1
<1>4. \A p \in Pid : proc'[p] # NoProc => proc[p] # NoProc /\ proc'[p].script = proc[p].script
  BY <1>3, SameProcesses
<1>5. \A a \in Action : Weight(inbox', Bringing(a)) <= Weight(inbox, Bringing(a))
  BY <1>3, SameInbox
<1>. QED BY <1>1, <1>2, <1>3, <1>4, <1>5, QuietCall

LEMMA InboxTail ==
  ASSUME TrackInv, NEW q, Loaded(q), inbox # << >>, NEW a \in Action
  PROVE  /\ Weight(Tail(inbox), Bringing(a)) + Bit(Head(inbox) \in Bringing(a)) <= Weight(inbox, Bringing(a))
         /\ Head(inbox) \in ChainMessage
<1>1. inbox \in Seq(ChainMessage)
  BY DEF TrackInv, Confined
<1>2. Weight(inbox, Bringing(a)) <= 1
  <2>1. Load(q, a) <= 1 /\ Load(q, a) = Share(a) + Weight(inbox, Bringing(a)) + Bit(Said(a)) + Bit(Linked(q, a))
    BY DEF Loaded, Load
  <2>. QED BY <2>1, LoadRange
<1>. QED BY <1>1, <1>2, WeightTail, HeadTailProperties DEF Bit

\* A message takes along what it brings.
LEMMA MessageAccounted ==
  ASSUME IInv, TrackInv, NEW q, Loaded(q), HandlePropertySetFd
  PROVE  Accounted(q) /\ Unmixed'
<1>1. todo = << >> /\ UNCHANGED <<list, proc, inited>> /\ TypeOK
  BY DEF HandlePropertySetFd, Ready, svcVars, IInv
<1>4. \A p \in Pid : proc'[p] # NoProc => proc[p] # NoProc /\ proc'[p].script = proc[p].script
  BY <1>1, SameProcesses
<1>2. CASE "property" \notin ready
  <2>1. UNCHANGED <<inbox, prop, todo>>
    BY <1>2 DEF HandlePropertySetFd
  <2>2. \A i \in DOMAIN todo' : todo'[i].op \in {"stop", "respawn", "reap"}
    BY <1>1, <2>1
  <2>3. /\ UNCHANGED <<list, prop, inited>> /\ proc' = proc /\ inbox' = inbox
    BY <1>1, <2>1
  <2>4. \A a \in Action : Weight(inbox', Bringing(a)) <= Weight(inbox, Bringing(a))
    BY <2>3, SameInbox
  <2>. QED BY <1>1, <1>4, <2>2, <2>3, <2>4, QuietCall
<1>3. CASE "property" \in ready
  <2>. DEFINE m == Head(inbox)
  <2>1. inbox # << >>
    BY <1>3 DEF HandlePropertySetFd, Ready, IInv, PromiseKept
  <2>2. m \in ChainMessage /\ \A a \in Action :
          Weight(Tail(inbox), Bringing(a)) + Bit(m \in Bringing(a)) <= Weight(inbox, Bringing(a))
    BY <2>1, InboxTail, OnTriggers
  <2>3. /\ inbox' = Tail(inbox)
        /\ m.msg = "set" => SetProp(m.key, m.val, << >>)
        /\ m.msg \notin {"set", "denied"} => todo' = ControlOps(m) /\ UNCHANGED prop
    BY <1>3 DEF HandlePropertySetFd
  <2>4. /\ m \in Message /\ m.msg \in {"set", "stop"}
        /\ m.msg = "set" => m.key \in Key /\ m.val \in Value
        /\ m.msg = "stop" => m.svc = bootan /\ ~m.args
    BY <2>2 DEF ChainMessage, Message
  <2>. HIDE DEF m
  <2>5. CASE m.msg = "stop"
    <3>1. ControlOps(m) = <<[op |-> "stop", svc |-> m.svc]>>
      BY <2>4, <2>5 DEF ControlOps
    <3>2. \A i \in DOMAIN todo' : todo'[i].op \in {"stop", "respawn", "reap"}
      BY <2>3, <2>5, <3>1
    <3>3. \A a \in Action : Weight(inbox', Bringing(a)) <= Weight(inbox, Bringing(a))
      <4>1. ASSUME NEW a \in Action PROVE Weight(inbox', Bringing(a)) <= Weight(inbox, Bringing(a))
        <5>1. Weight(Tail(inbox), Bringing(a)) + Bit(m \in Bringing(a)) <= Weight(inbox, Bringing(a))
              /\ Bit(m \in Bringing(a)) \in 0..1
          BY <2>2 DEF Bit
        <5>. QED BY <2>3, <5>1, WeightRange
      <4>. QED BY <4>1
    <3>4. prop' = prop
      BY <2>3, <2>5
    <3>. QED BY <1>1, <1>4, <3>2, <3>3, <3>4, QuietCall
  <2>6. CASE m.msg = "set"
    <3>1. SetProp(m.key, m.val, << >>) /\ m.key \in Key /\ m.val \in Value
      BY <2>3, <2>4, <2>6
    <3>2. << >> \in Seq(ChainOp) /\ NoMatching(<< >>)
      BY EmptySeq DEF NoMatching
    <3>3. ASSUME NEW a \in Action PROVE Load(q, a)' + Bit(Spent(a)) <= Load(q, a) + Bit(a \in {})
      <4>1. Share(a)' <= Weight(<< >>, Leading(a)) + Bit(Held(a)) + Bit(Prompts(m.key, m.val, a))
        BY <1>1, <3>1, <3>2, SetPropShare
      <4>2. Weight(<< >>, Leading(a)) = 0
        BY WeightEmpty
      <4>3. Bit(Prompts(m.key, m.val, a)) = Bit(m \in Bringing(a))
        BY <2>2, <2>6 DEF Bringing, Bit
      <4>4. Weight(inbox', Bringing(a)) + Bit(m \in Bringing(a)) <= Weight(inbox, Bringing(a))
        BY <2>2, <2>3
      <4>5. Bit(Said(a)') <= Bit(Said(a)) /\ Bit(a \in {}) = 0 /\ Bit(m \in Bringing(a)) \in 0..1
        BY <1>1, SaidStays DEF Bit
      <4>6. /\ Load(q, a) = Bit(Held(a)) + Weight(inbox, Bringing(a)) + Bit(Said(a)) + Bit(Linked(q, a))
            /\ Bit(Spent(a)) = 0
        BY <1>1, RestLoad
      <4>7. /\ Load(q, a)' = Share(a)' + Weight(inbox', Bringing(a)) + Bit(Said(a)') + Bit(Linked(q, a))
            /\ Share(a)' \in Nat /\ Bit(Said(a)') \in 0..1 /\ Weight(inbox', Bringing(a)) \in 0..2
        BY LoadRangeNext
      <4>. QED BY <4>1, <4>2, <4>3, <4>4, <4>5, <4>6, <4>7, LoadRange
    <3>4. Grows(q, q, {})
      BY <3>3 DEF Grows
    <3>5. ~Waits(todo)
      BY <1>1 DEF Waits
    <3>6. Coming(q)
      BY <1>1, <3>4, <3>5, ComingStays
    <3>7. NoMatching(todo')
      BY <3>1, <3>2, SetPropPuts, PutStays
    <3>8. q \in Seq(Action) /\ Represents(list', q)
      BY <1>1 DEF Loaded, Represents
    <3>. QED BY <3>4, <3>6, <3>7, <3>8 DEF Accounted, Unmixed, NoMatching
  <2>. QED BY <2>4, <2>5, <2>6
<1>. QED BY <1>2, <1>3

-----------------------------------------------------------------------------
(***************************************************************************)
(* The processes, the clock, and all of the next-state relation            *)
(***************************************************************************)
\* A step that leaves the queue and the call in progress alone.
LEMMA KeptAccounted ==
  ASSUME Unmixed, NEW q, Loaded(q), UNCHANGED <<todo, prop, inited, list, pid>>,
         \A a \in Action : Weight(inbox', Bringing(a)) + Bit(Said(a)') <= Weight(inbox, Bringing(a)) + Bit(Said(a))
  PROVE  Accounted(q) /\ Unmixed'
<1>1. ASSUME NEW a \in Action PROVE Load(q, a)' + Bit(Spent(a)) <= Load(q, a) + Bit(a \in {})
  <2>1. Share(a)' = Share(a)
    <3>1. Leading(a)' = Leading(a) /\ Held(a)' = Held(a)
      BY DEF Leading, Held, Matches, Defined
    <3>2. todo' = todo
      OBVIOUS
    <3>. QED BY <3>1, <3>2 DEF Share
  <2>2. Load(q, a)' = Share(a)' + Weight(inbox', Bringing(a)) + Bit(Said(a)') + Bit(Linked(q, a))
        /\ Weight(inbox', Bringing(a)) \in 0..2 /\ Bit(Said(a)') \in 0..1
    BY LoadRangeNext
  <2>3. Load(q, a) = Share(a) + Weight(inbox, Bringing(a)) + Bit(Said(a)) + Bit(Linked(q, a))
    BY DEF Load
  <2>4. Bit(Spent(a)) = 0 /\ Bit(a \in {}) = 0
    <3>1. ~Spent(a)
      BY DEF Spent
    <3>. QED BY <3>1 DEF Bit
  <2>5. Weight(inbox', Bringing(a)) + Bit(Said(a)') <= Weight(inbox, Bringing(a)) + Bit(Said(a))
    OBVIOUS
  <2>. QED BY <2>1, <2>2, <2>3, <2>4, <2>5, LoadRange
<1>2. Grows(q, q, {})
  BY <1>1 DEF Grows
<1>3. Coming(q)
  BY <1>2, ComingStays DEF Waits
<1>4. q \in Seq(Action) /\ Represents(list', q)
  BY DEF Loaded, Represents
<1>5. Unmixed'
  BY DEF Unmixed
<1>. QED BY <1>2, <1>3, <1>4, <1>5 DEF Accounted

\* What a process sends it has no longer to send.
LEMMA SendBrings ==
  ASSUME IInv, TrackInv, NEW p \in Pid, ServiceSend(p), NEW a \in Action
  PROVE  Weight(inbox', Bringing(a)) + Bit(Said(a)') <= Weight(inbox, Bringing(a)) + Bit(Said(a))
<1>. DEFINE m == Head(proc[p].script)
            s == proc[p].svc
<1>1. /\ proc \in [Pid -> Process \cup {NoProc}] /\ proc[p].st = "grouped" /\ proc[p].script # << >>
      /\ inbox' = Append(inbox, m) /\ proc' = [proc EXCEPT ![p].script = Tail(@)]
  BY DEF ServiceSend, IInv, TypeOK
<1>2. proc[p] # NoProc /\ proc[p] \in Process
  BY <1>1 DEF NoProc
<1>3. /\ proc[p].script \in Remains(s) /\ s \in Service /\ inbox \in Seq(ChainMessage)
      /\ proc[p].script \in Seq(ChainMessage)
  BY <1>2 DEF TrackInv, Tracked, Confined, Process
<1>4. /\ proc'[p] # NoProc /\ proc'[p].script = Tail(proc[p].script)
      /\ \A x \in Pid \ {p} : proc'[x] = proc[x]
  BY <1>1, <1>2 DEF Process, NoProc
<1>5. m \in ChainMessage /\ 1 \in DOMAIN proc[p].script /\ proc[p].script[1] = m
  BY <1>1, <1>3, TailIndices, HeadTailProperties
<1>6. Weight(inbox', Bringing(a)) <= Weight(inbox, Bringing(a)) + Bit(m \in Bringing(a))
  <2>1. inbox' = inbox \o <<m>> /\ <<m>> \in Seq(ChainMessage)
    BY <1>1, <1>3, <1>5, AppendIsConcat
  <2>2. Weight(inbox \o <<m>>, Bringing(a)) <= Weight(inbox, Bringing(a)) + Weight(<<m>>, Bringing(a))
    BY <1>3, <2>1, WeightConcat
  <2>3. Weight(<<m>>, Bringing(a)) = Bit(m \in Bringing(a))
    BY WeightOne DEF Bit
  <2>. QED BY <2>1, <2>2, <2>3
<1>. HIDE DEF m, s
<1>7. Said(a)' => Said(a)
  <2>1. SUFFICES ASSUME Said(a)' PROVE Said(a)
    OBVIOUS
  <2>2. PICK x \in Pid : proc'[x] # NoProc /\ \E i \in DOMAIN proc'[x].script : proc'[x].script[i] \in Bringing(a)
    BY <2>1 DEF Said, Bringing
  <2>3. CASE x # p
    BY <1>4, <2>2, <2>3 DEF Said
  <2>4. CASE x = p
    <3>1. PICK i \in DOMAIN Tail(proc[p].script) : Tail(proc[p].script)[i] \in Bringing(a)
      BY <1>4, <2>2, <2>4
    <3>2. i + 1 \in DOMAIN proc[p].script /\ proc[p].script[i + 1] = Tail(proc[p].script)[i]
      BY <1>1, <1>3, TailIndices
    <3>. QED BY <1>2, <3>1, <3>2 DEF Said
  <2>. QED BY <2>3, <2>4
<1>8. m \in Bringing(a) => Said(a) /\ ~Said(a)'
  <2>1. SUFFICES ASSUME m \in Bringing(a) PROVE Said(a) /\ ~Said(a)'
    OBVIOUS
  <2>2. Said(a)
    BY <1>2, <1>5, <2>1 DEF Said
  <2>3. a \in Makes(s) /\ Tail(proc[p].script) \in {<< >>, <<StopBootan>>}
    BY <1>3, <1>5, <2>1, ScriptBrings
  <2>4. ASSUME NEW x \in Pid, proc'[x] # NoProc, NEW i \in DOMAIN proc'[x].script, proc'[x].script[i] \in Bringing(a)
        PROVE  FALSE
    <3>1. CASE x = p
      <4>1. StopBootan \notin Bringing(a)
        BY DEF StopBootan, Bringing
      <4>2. proc'[x].script \in {<< >>, <<StopBootan>>}
        BY <1>4, <2>3, <3>1
      <4>3. \A y \in {<< >>, <<StopBootan>>} : \A j \in DOMAIN y : y[j] = StopBootan
        OBVIOUS
      <4>. QED BY <2>4, <4>1, <4>2, <4>3
    <3>2. CASE x # p
      <4>1. proc[x] = proc'[x] /\ proc[x] # NoProc
        BY <1>4, <2>4, <3>2
      <4>2. proc[x].svc \in Service /\ proc[x].script \in Remains(proc[x].svc) /\ pid[proc[x].svc] = x
        BY <1>1, <4>1 DEF TrackInv, Tracked, Process
      <4>3. a \in Makes(proc[x].svc)
        BY <2>4, <4>1, <4>2, ScriptBrings
      <4>4. proc[x].svc = s
        BY <1>3, <2>3, <4>2, <4>3, MakesApart
      <4>5. pid[s] = p
        BY <1>2 DEF TrackInv, Tracked, s
      <4>. QED BY <3>2, <4>2, <4>4, <4>5
    <3>. QED BY <3>1, <3>2
  <2>5. ~Said(a)'
    BY <2>4 DEF Said, Bringing
  <2>. QED BY <2>2, <2>5
<1>9. /\ Bit(m \in Bringing(a)) + Bit(Said(a)') <= Bit(Said(a))
      /\ Bit(m \in Bringing(a)) \in 0..1 /\ Bit(Said(a)) \in 0..1 /\ Bit(Said(a)') \in 0..1
  <2>1. \A b1, b2, b3 \in BOOLEAN : (b1 => b3 /\ ~b2) /\ (b2 => b3) => Bit(b1) + Bit(b2) <= Bit(b3)
    BY DEF Bit
  <2>. QED BY <1>7, <1>8, <2>1 DEF Bit
<1>. QED BY <1>6, <1>9, WeightRange

LEMMA EnvironmentAccounted ==
  ASSUME IInv, TrackInv, Unmixed, NEW q, Loaded(q), Environment \/ UNCHANGED vars
  PROVE  Accounted(q) /\ Unmixed'
<1>1. UNCHANGED <<todo, prop, inited, list, pid>>
  BY DEF Environment, Kernel, Crash, SetPgid, Finish, Die, ServiceSend, BecomeZombie, ClientSend,
     Rest, FiveSecondsPass, svcVars, loopVars, vars
<1>2. proc \in [Pid -> Process \cup {NoProc}]
  BY DEF IInv, TypeOK
<1>3. ASSUME inbox' = inbox,
             \A p \in Pid : proc'[p] # NoProc => proc[p] # NoProc /\ proc'[p].script = proc[p].script
      PROVE  Accounted(q) /\ Unmixed'
  <2>1. ASSUME NEW a \in Action
        PROVE  Weight(inbox', Bringing(a)) + Bit(Said(a)') <= Weight(inbox, Bringing(a)) + Bit(Said(a))
    <3>1. Bit(Said(a)') <= Bit(Said(a))
      BY <1>3, SaidStays
    <3>2. Weight(inbox', Bringing(a)) = Weight(inbox, Bringing(a)) /\ Bit(Said(a)') \in 0..1
      BY <1>3 DEF Bit
    <3>. QED BY <3>1, <3>2, LoadRange
  <2>. QED BY <1>1, <2>1, KeptAccounted
<1>4. ASSUME NEW p \in Pid, ServiceSend(p) PROVE Accounted(q) /\ Unmixed'
  <2>1. \A a \in Action : Weight(inbox', Bringing(a)) + Bit(Said(a)') <= Weight(inbox, Bringing(a)) + Bit(Said(a))
    BY <1>4, SendBrings
  <2>. QED BY <1>1, <2>1, KeptAccounted
<1>5. ASSUME NEW p \in Pid, SetPgid(p) \/ Finish(p) \/ Die(p) \/ Crash(p) PROVE Accounted(q) /\ Unmixed'
  <2>1. \E v \in {"grouped", "zombie"} : proc' = [proc EXCEPT ![p].st = v]
    BY <1>5 DEF SetPgid, Finish, Die, Crash, BecomeZombie
  <2>2. inbox' = inbox /\ proc[p] # NoProc
    BY <1>5 DEF SetPgid, Finish, Die, Crash, BecomeZombie, NoProc
  <2>3. proc[p] \in Process
    BY <1>2, <2>2
  <2>4. proc'[p].script = proc[p].script /\ \A x \in Pid \ {p} : proc'[x] = proc[x]
    BY <1>2, <2>1, <2>3 DEF Process
  <2>5. \A x \in Pid : proc'[x] # NoProc => proc[x] # NoProc /\ proc'[x].script = proc[x].script
    BY <2>2, <2>4
  <2>. QED BY <1>3, <2>2, <2>5
<1>6. CASE UNCHANGED <<inbox, proc>>
  <2>1. inbox' = inbox /\ proc' = proc
    BY <1>6
  <2>2. \A p \in Pid : proc'[p] # NoProc => proc[p] # NoProc /\ proc'[p].script = proc[p].script
    BY <2>1, SameProcesses
  <2>. QED BY <1>3, <2>1, <2>2
<1>7. \/ \E p \in Pid : ServiceSend(p) \/ SetPgid(p) \/ Finish(p) \/ Die(p) \/ Crash(p)
      \/ UNCHANGED <<inbox, proc>>
  BY NoClients DEF Environment, Kernel, Rest, FiveSecondsPass, vars, svcVars
<1>. QED BY <1>4, <1>5, <1>6, <1>7

LEMMA NextAccounted ==
  ASSUME IInv, OneshotInv, TrackInv, Unmixed, NEW q, Loaded(q), [Next]_vars
  PROVE  Accounted(q) /\ Unmixed'
<1>1. CASE Step
  BY <1>1, CallAccounted, QueueAccounted
<1>2. CASE Environment \/ UNCHANGED vars
  BY <1>2, EnvironmentAccounted
<1>3. CASE ExecuteOneCommand
  BY <1>3, ExecuteAccounted
<1>4. CASE RestartProcesses \/ Poll \/ HandleSignal
  BY <1>4, LoopAccounted
<1>5. CASE HandlePropertySetFd
  BY <1>5, MessageAccounted
<1>. QED BY <1>1, <1>2, <1>3, <1>4, <1>5 DEF Next, Main

-----------------------------------------------------------------------------
(***************************************************************************)
(* What a step does to a service, its clock included                       *)
(***************************************************************************)
LeftAlone(s) == SameService(s) /\ clock'[s] = clock[s]

Exits(s) == \E p \in Pid : ReapService(p, s) /\ proc[p].st = "zombie" /\ clock' = clock

LEMMA StepEffect ==
  ASSUME IInv, TrackInv, Step, NEW s \in Service, s # bootan
  PROVE  \/ StartedNow(Head(todo), s)
         \/ Exits(s)
         \/ Announced(Head(todo)) /\ Head(todo).svc = s
         \/ LeftAlone(s)
<1>. DEFINE o == Head(todo)
<1>1. /\ TypeOK /\ clock \in [Service -> {"started", "rested", "over"}]
      /\ \/ \E t \in Service : StartedNow(o, t)
         \/ o.op = "stop" /\ ServiceStopOrReset(bootan, "DISABLED")
         \/ Announced(o)
         \/ QueueStep(o)
         \/ o.op = "reap" /\ Reap
         \/ PassedOver(o)
  BY ChainSteps DEF IInv, TypeOK
<1>. HIDE DEF o
<1>2. ASSUME NEW t \in Service, StartedNow(o, t), t # s PROVE LeftAlone(s)
  <2>1. ServiceStart(t, FALSE)
    BY <1>2 DEF StartedNow
  <2>2. clock'[s] = clock[s]
    BY <1>1, <1>2, <2>1 DEF ServiceStart, StartRunning, StartRefused, StartForkFails, StartForks
  <2>3. SameService(s)
    BY <1>1, <1>2, <2>1, OthersStay
  <2>. QED BY <2>2, <2>3 DEF LeftAlone
<1>3. CASE ServiceStopOrReset(bootan, "DISABLED")
  <2>1. SameService(s)
    BY <1>1, <1>3, OthersStay, Services
  <2>2. clock' = clock
    BY <1>3 DEF ServiceStopOrReset
  <2>. QED BY <2>1, <2>2 DEF LeftAlone
<1>4. CASE Announced(o) /\ o.svc # s
  <2>1. UNCHANGED <<flags, pid, clock>> /\ o.svc \in Key /\ SetProp(o.svc, "restarting", Tail(todo))
    BY <1>4, PropertyAssumption DEF Announced, svcVars
  <2>2. prop'[s] = prop[s]
    BY <1>1, <1>4, <2>1, SetPropFrame
  <2>. QED BY <2>1, <2>2 DEF LeftAlone, SameService
<1>5. CASE QueueStep(o) \/ PassedOver(o)
  BY <1>5 DEF QueueStep, PassedOver, svcVars, LeftAlone, SameService
<1>6. CASE Reap
  <2>1. PICK p \in Pid : proc[p].st = "zombie" /\ (ReapUntracked(p) \/ \E t \in Service : ReapService(p, t))
    BY <1>6 DEF Reap
  <2>2. clock' = clock
    BY <1>6 DEF Reap
  <2>3. CASE ReapUntracked(p)
    BY <2>2, <2>3 DEF ReapUntracked, LeftAlone, SameService
  <2>4. ASSUME NEW t \in Service, ReapService(p, t), t # s PROVE LeftAlone(s)
    <3>1. SameService(s)
      BY <1>1, <2>4, OthersStay
    <3>. QED BY <2>2, <3>1 DEF LeftAlone
  <2>. QED BY <2>1, <2>2, <2>3, <2>4 DEF Exits
<1>. QED BY <1>1, <1>2, <1>3, <1>4, <1>5, <1>6 DEF o

LEMMA ServiceEffect ==
  ASSUME IInv, TrackInv, [Next]_vars, NEW s \in Service, s # bootan
  PROVE  \/ todo # << >> /\ StartedNow(Head(todo), s)
         \/ Exits(s)
         \/ todo # << >> /\ Announced(Head(todo)) /\ Head(todo).svc = s
         \/ FiveSecondsPass(s)
         \/ Rest
         \/ LeftAlone(s)
<1>1. CASE Step
  BY <1>1, StepEffect DEF Step
<1>2. CASE ~Step
  <2>1. todo = << >> \/ Environment \/ UNCHANGED vars
    BY <1>2 DEF Next, Main, ExecuteOneCommand, RestartProcesses, Poll, HandlePropertySetFd, HandleSignal, Ready
  <2>2. SameService(s)
    <3>1. CASE Environment \/ UNCHANGED vars
      BY <3>1 DEF Environment, Kernel, Crash, SetPgid, Finish, Die, ServiceSend, BecomeZombie, ClientSend,
         Rest, FiveSecondsPass, svcVars, vars, SameService
    <3>2. CASE todo = << >> /\ ~Environment /\ ~UNCHANGED vars
      <4>1. ~\E p \in Pid : ReapService(p, s)
        <5>1. Main
          BY <3>2 DEF Next
        <5>2. UNCHANGED pid
          BY <1>2, <5>1 DEF Main, ExecuteOneCommand, RestartProcesses, Poll, HandlePropertySetFd, HandleSignal, svcVars
        <5>3. ASSUME NEW p \in Pid, ReapService(p, s) PROVE FALSE
          <6>1. pid[s] = p /\ pid' = [pid EXCEPT ![s] = NoPid] /\ pid \in [Service -> Pid \cup {NoPid}]
            BY <5>3 DEF ReapService, Owner, IInv, TypeOK
          <6>. QED BY <5>2, <6>1, ProcessAssumption
        <5>. QED BY <5>3
      <4>. QED BY <3>2, <4>1, EffectOfNext DEF ActedOn
    <3>. QED BY <2>1, <3>1, <3>2
  <2>3. clock'[s] = clock[s] \/ FiveSecondsPass(s) \/ Rest
    <3>1. CASE Main
      BY <1>2, <3>1 DEF Main, ExecuteOneCommand, RestartProcesses, Poll, HandlePropertySetFd, HandleSignal, svcVars
    <3>2. CASE \E t \in Service : FiveSecondsPass(t)
      <4>1. clock \in [Service -> {"started", "rested", "over"}]
        BY DEF IInv, TypeOK
      <4>. QED BY <3>2, <4>1 DEF FiveSecondsPass
    <3>3. CASE ~Main /\ ~Rest /\ ~\E t \in Service : FiveSecondsPass(t)
      BY <3>3 DEF Next, Environment, Kernel, Crash, SetPgid, Finish, Die, ServiceSend, BecomeZombie, ClientSend,
         svcVars, vars
    <3>. QED BY <3>1, <3>2, <3>3
  <2>. QED BY <2>2, <2>3 DEF LeftAlone
<1>. QED BY <1>1, <1>2

\* A start forks, or is in vain.
LEMMA StartEffect ==
  ASSUME IInv, NEW s \in Service, todo # << >>, StartedNow(Head(todo), s), ~Forking(s)
  PROVE  /\ prop' = prop /\ clock'[s] = "over"
         /\ "RESTARTING" \notin flags'[s]
         /\ "RUNNING" \in flags'[s] <=> "RUNNING" \in flags[s]
<1>1. flags \in [Service -> SUBSET Flag] /\ clock \in [Service -> {"started", "rested", "over"}]
  BY DEF IInv, TypeOK
<1>2. StartRunning(s) \/ StartRefused(s, FALSE) \/ StartForkFails(s, FALSE)
  BY DEF StartedNow, ServiceStart, Forking
<1>. QED BY <1>1, <1>2 DEF StartRunning, StartRefused, StartForkFails, CanStart, Cleared

LEMMA ForkFlags ==
  ASSUME IInv, RoomForEveryKey, NEW s \in Service, Forking(s)
  PROVE  /\ flags[s] \cap {"RUNNING"} = {} /\ "RUNNING" \in flags'[s] /\ "RESTARTING" \notin flags'[s]
         /\ clock'[s] = "started" /\ prop'[s] # Unset /\ pid' # pid
<1>1. flags \in [Service -> SUBSET Flag] /\ clock \in [Service -> {"started", "rested", "over"}] /\ TypeOK
      /\ pid \in [Service -> Pid \cup {NoPid}] /\ PidsAreTracked
  BY DEF IInv, TypeOK
<1>2. /\ flags' = [flags EXCEPT ![s] = Cleared(s) \cup {"RUNNING"}]
      /\ clock' = [clock EXCEPT ![s] = "started"] /\ "RUNNING" \notin flags[s]
      /\ SetProp(s, "running", Tail(todo)) /\ StartForks(s, FALSE)
  BY DEF Forking, StartForks, CanStart
<1>3. prop'[s] # Unset
  BY <1>1, <1>2, SetStatus, PropertyAssumption
<1>4. PICK p \in Pid : proc[p] = NoProc /\ p # NoPid /\ pid' = [pid EXCEPT ![s] = p]
  BY <1>1, <1>2, ForkEffect
<1>5. pid'[s] = p /\ pid[s] # p
  BY <1>1, <1>4 DEF PidsAreTracked
<1>. QED BY <1>1, <1>2, <1>3, <1>5 DEF Cleared

LEMMA ExitEffect ==
  ASSUME IInv, TrackInv, NEW s \in Lasting, Exits(s)
  PROVE  /\ flags[s] = {"RUNNING"} /\ "RUNNING" \notin flags'[s] /\ clock' = clock
         /\ proc[pid[s]].st = "zombie" /\ pid[s] # NoPid
<1>1. flags \in [Service -> SUBSET Flag] /\ pid \in [Service -> Pid \cup {NoPid}] /\ FlagsAgree /\ s \in Service
  BY Services DEF IInv, TypeOK
<1>2. PICK p \in Pid : ReapService(p, s) /\ proc[p].st = "zombie" /\ clock' = clock
  BY DEF Exits
<1>3. pid[s] = p /\ pid[s] # NoPid
  BY <1>2, ProcessAssumption DEF ReapService, Owner
<1>4. flags[s] = {"RUNNING"}
  BY <1>1, <1>3 DEF TrackInv, FlagsAgree
<1>5. flags'[s] = ExitFlags(s) \/ flags'[s] = ExitFlags(s) \cup {"RESTARTING"}
  BY <1>1, <1>2 DEF ReapService
<1>. QED BY <1>2, <1>3, <1>4, <1>5 DEF ExitFlags

-----------------------------------------------------------------------------
(***************************************************************************)
(* The services that are started again, and those that live on             *)
(***************************************************************************)
LEMMA RespawnedAre ==
  /\ Respawned \subseteq Lasting /\ Respawned \subseteq Service
  /\ bootan \notin Respawned /\ web_server \notin Respawned /\ update_check \notin Respawned
  /\ web_server \in Lasting /\ web_server \in Service /\ web_server # bootan
  /\ Opener(logd) = on_early /\ Opener(camerad) = prop_app
  BY Services, NamesNumbered DEF Respawned, Lasting, Opener

LEMMA LivingAre ==
  \A s \in Living : s \in Service /\ s \in Lasting /\ s # bootan
  BY Services, NamesNumbered DEF Living, Lasting

LEMMA OpenerMakes ==
  ASSUME NEW s \in Respawned
  PROVE  /\ Opener(s) \in Action /\ Opener(s) \notin Makes(s)
         /\ \A t \in Service : Opener(s) \in Makes(t) => t = update_check /\ s = camerad
<1>1. on_early \in Action /\ prop_app \in Action
  BY RcAssumption DEF IsRc, RcAction
<1>2. s = logd \/ s = camerad
  BY DEF Respawned
<1>3. \A t \in Service : t = logd \/ t = bootan \/ t = update_check \/ t = update \/ t = camerad \/ t = web_server
  BY NamesDiffer
<1>4. Opener(s) \notin Makes(s)
  BY <1>2, RespawnedAre, MakesWhat, ActionsNumbered
<1>5. \A t \in Service : on_early \notin Makes(t)
  BY <1>3, MakesWhat, ActionsNumbered
<1>6. \A t \in Service : prop_app \in Makes(t) => t = update_check
  BY <1>3, MakesWhat, ActionsNumbered
<1>. QED BY <1>1, <1>2, <1>4, <1>5, <1>6, RespawnedAre

\* A service that was never started is started by its action, and by nothing else.
LEMMA StartOfRespawned ==
  ASSUME IInv, TrackInv, RespawnFlags, NEW q, Loaded(q), NEW s \in Respawned,
         todo # << >>, StartedNow(Head(todo), s)
  PROVE  /\ "RUNNING" \notin flags[s]
         /\ prop[s] = Unset => /\ Head(todo).op = "start_enabled" /\ Head(todo) \in Leading(Opener(s))
                               /\ Load(q, Opener(s)) >= 1
<1>. DEFINE o == Head(todo)
<1>1. /\ o.op \in {"start", "start_enabled", "respawn"} /\ o.svc = s
      /\ o.op = "start" => s = web_server
      /\ o.op = "respawn" => "RESTARTING" \in flags[s]
  BY DEF StartedNow
<1>2. o \in ChainOp
  BY HeadTailProperties DEF TrackInv, Confined
<1>3. s # web_server /\ s \in Service
  BY RespawnedAre
<1>4. CASE o.op = "respawn"
  <2>1. "RUNNING" \notin flags[s]
    BY <1>1, <1>3, <1>4 DEF IInv, FlagsAgree
  <2>2. prop[s] # Unset
    BY <1>1, <1>4 DEF RespawnFlags
  <2>. QED BY <2>1, <2>2
<1>5. CASE o.op = "start_enabled"
  <2>1. o \in Leading(Opener(s))
    BY <1>1, <1>2, <1>5 DEF Leading
  <2>2. Load(q, Opener(s)) >= 1 + Bit(Linked(q, Opener(s)))
    BY <2>1, HeadWeighs
  <2>3. Load(q, Opener(s)) >= 1
    BY <2>2, LoadRange
  <2>4. prop[s] = Unset
    BY <2>3 DEF Loaded, RespawnQuiet
  <2>5. "RUNNING" \notin flags[s]
    BY <2>4 DEF RespawnFlags
  <2>. QED BY <1>5, <2>1, <2>3, <2>5
<1>. QED BY <1>1, <1>3, <1>4, <1>5

\* Its property is set by the fork of this start.
LEMMA FirstSet ==
  ASSUME IInv, StatusInv, TrackInv, RespawnFlags, [Next]_vars, NEW q, Loaded(q), NEW s \in Respawned,
         prop[s] = Unset, prop'[s] # Unset
  PROVE  Forking(s) /\ Head(todo).op = "start_enabled" /\ Head(todo) \in Leading(Opener(s)) /\ Load(q, Opener(s)) >= 1
<1>1. /\ s \in Service /\ s # bootan /\ s \in Lasting
      /\ flags[s] \cap {"RUNNING", "RESTARTING"} = {}
  BY RespawnedAre DEF RespawnFlags
<1>2. ~Exits(s)
  BY <1>1, ExitEffect
<1>3. ASSUME todo # << >>, Announced(Head(todo)), Head(todo).svc = s PROVE FALSE
  <2>1. 1 \in DOMAIN todo /\ todo[1] = Head(todo)
    BY <1>3, TailIndices DEF TrackInv, Confined
  <2>2. Pending(todo, s)
    BY <1>3, <2>1 DEF Pending, Announces, Announced
  <2>. QED BY <1>1, <2>2 DEF StatusInv
<1>4. ~FiveSecondsPass(s) /\ ~Rest
  BY <1>1 DEF FiveSecondsPass, Rest
<1>5. ~LeftAlone(s)
  BY DEF LeftAlone, SameService
<1>6. todo # << >> /\ StartedNow(Head(todo), s)
  BY <1>1, <1>2, <1>3, <1>4, <1>5, ServiceEffect
<1>7. Forking(s)
  <2>1. SUFFICES ASSUME ~Forking(s) PROVE FALSE
    OBVIOUS
  <2>2. prop' = prop
    BY <1>1, <1>6, <2>1, StartEffect
  <2>. QED BY <2>2
<1>. QED BY <1>6, <1>7, StartOfRespawned

LEMMA FlagsNext ==
  ASSUME IInv, StatusInv, TrackInv, RoomForEveryKey, RespawnFlags, [Next]_vars, NEW q, Loaded(q)
  PROVE  RespawnFlags'
<1>1. ASSUME NEW s \in Respawned, prop'[s] = Unset
      PROVE  flags'[s] \cap {"RUNNING", "RESTARTING"} = {}
  <2>1. /\ s \in Service /\ s # bootan /\ s \in Lasting
        /\ prop[s] = Unset => flags[s] \cap {"RUNNING", "RESTARTING"} = {}
    BY RespawnedAre DEF RespawnFlags
  <2>2. prop[s] = Unset
    BY <1>1, <2>1, SetForGood
  <2>3. ~Forking(s)
    BY <1>1, <2>1, ForkFlags
  <2>4. CASE todo # << >> /\ StartedNow(Head(todo), s)
    BY <2>1, <2>2, <2>3, <2>4, StartEffect
  <2>5. ~Exits(s)
    BY <2>1, <2>2, ExitEffect
  <2>6. CASE Announced(Head(todo)) \/ FiveSecondsPass(s) \/ Rest \/ LeftAlone(s)
    <3>1. flags'[s] = flags[s]
      BY <2>6 DEF Announced, FiveSecondsPass, Rest, LeftAlone, SameService, svcVars
    <3>. QED BY <2>1, <2>2, <3>1
  <2>. QED BY <2>1, <2>4, <2>5, <2>6, ServiceEffect
<1>. QED BY <1>1 DEF RespawnFlags

LEMMA CameraNext ==
  ASSUME IInv, StatusInv, TrackInv, RespawnFlags, CameraLater, [Next]_vars, NEW q, Loaded(q)
  PROVE  CameraLater'
<1>1. SUFFICES ASSUME prop'[update_check] = Unset, prop'[camerad] # Unset PROVE FALSE
  BY DEF CameraLater
<1>2. update_check \in Service /\ update_check \in Oneshot /\ camerad \in Respawned
  BY NamesDiffer DEF Respawned
<1>3. prop[update_check] = Unset
  BY <1>1, <1>2, SetForGood
<1>4. prop[camerad] = Unset
  BY <1>3 DEF CameraLater
<1>5. Load(q, prop_app) >= 1
  <2>1. Load(q, Opener(camerad)) >= 1
    BY <1>1, <1>2, <1>4, FirstSet
  <2>. QED BY <2>1, RespawnedAre
<1>6. Load(q, prop_app) = 0
  <2>1. Quiet(q, update_check)
    BY <1>2, <1>3 DEF Loaded, OneshotQuiet
  <2>. QED BY <2>1, MakesWhat DEF Quiet
<1>. QED BY <1>5, <1>6

\* The process of such a service lives on.
StaysUp(s) ==
  /\ "RESTARTING" \notin flags[s]
  /\ pid[s] # NoPid => proc[pid[s]].st \in {"forked", "grouped"}

LEMMA LivingNext ==
  ASSUME IInv, TrackInv, RoomForEveryKey, Living \cap (MayCrash \cup Finishes) = {}, [Next]_vars,
         NEW s \in Living, StaysUp(s)
  PROVE  /\ StaysUp(s)'
         /\ "RUNNING" \in flags[s] => "RUNNING" \in flags'[s]
<1>. DEFINE Lives(x) == proc[x].st \in {"forked", "grouped"}
<1>1. /\ s \in Service /\ s # bootan /\ s \in Lasting /\ "RESTARTING" \notin flags[s]
      /\ pid[s] # NoPid => Lives(pid[s]) /\ proc[pid[s]] # NoProc /\ proc[pid[s]].svc = s /\ pid[s] \in Pid
      /\ proc \in [Pid -> Process \cup {NoProc}] /\ pid \in [Service -> Pid \cup {NoPid}]
      /\ TypeOK /\ flags \in [Service -> SUBSET Flag]
  BY LivingAre DEF StaysUp, IInv, TypeOK, PidsAreTracked
<1>2. ~Exits(s)
  BY <1>1, ExitEffect
<1>3. /\ "RESTARTING" \notin flags'[s]
      /\ "RUNNING" \in flags[s] => "RUNNING" \in flags'[s]
  <2>1. CASE Forking(s)
    BY <1>1, <2>1, ForkFlags
  <2>2. CASE todo # << >> /\ StartedNow(Head(todo), s) /\ ~Forking(s)
    BY <1>1, <2>2, StartEffect
  <2>3. CASE Announced(Head(todo)) \/ FiveSecondsPass(s) \/ Rest \/ LeftAlone(s)
    <3>1. flags'[s] = flags[s]
      BY <2>3 DEF Announced, FiveSecondsPass, Rest, LeftAlone, SameService, svcVars
    <3>. QED BY <1>1, <3>1
  <2>. QED BY <1>1, <1>2, <2>1, <2>2, <2>3, ServiceEffect
<1>4. pid'[s] = pid[s] \/ pid'[s] = NoPid \/ Forking(s)
  <2>1. CASE todo # << >> /\ StartedNow(Head(todo), s) /\ ~Forking(s)
    <3>1. StartRunning(s) \/ StartRefused(s, FALSE) \/ StartForkFails(s, FALSE)
      BY <2>1 DEF StartedNow, ServiceStart, Forking
    <3>. QED BY <1>1, <3>1 DEF StartRunning, StartRefused, StartForkFails
  <2>2. CASE Announced(Head(todo)) \/ FiveSecondsPass(s) \/ Rest \/ LeftAlone(s)
    BY <2>2 DEF Announced, FiveSecondsPass, Rest, LeftAlone, SameService, svcVars
  <2>. QED BY <1>1, <1>2, <2>1, <2>2, ServiceEffect
<1>5. CASE Forking(s)
  <2>1. PICK p \in Pid, script \in Scripts[s] :
          /\ pid' = [pid EXCEPT ![s] = p]
          /\ proc' = [proc EXCEPT ![p] = [st |-> "forked", svc |-> s, script |-> script]]
    <3>1. StartForks(s, FALSE)
      BY <1>5 DEF Forking
    <3>2. TypeOK /\ s \in Service
      BY <1>1
    <3>3. \E p \in Pid, script \in Scripts[s] :
            /\ proc[p] = NoProc /\ p # NoPid
            /\ pid' = [pid EXCEPT ![s] = p]
            /\ proc' = [proc EXCEPT ![p] = [st |-> "forked", svc |-> s, script |-> script]]
      BY <3>1, <3>2, ForkEffect
    <3>. QED BY <3>3
  <2>2. pid'[s] = p /\ proc'[p].st = "forked"
    BY <1>1, <2>1
  <2>. QED BY <1>3, <2>2 DEF StaysUp
<1>6. ASSUME pid[s] # NoPid PROVE proc'[pid[s]].st \in {"forked", "grouped"}
  <2>0. PICK x \in Pid : x = pid[s]
    BY <1>1, <1>6
  <2>1. x \in Pid /\ Lives(x) /\ proc[x] \in Process /\ proc[x] # NoProc /\ proc[x].svc = s
    BY <1>1, <1>6, <2>0
  <2>2. ASSUME NEW t \in Service, StartedBy(Head(todo), t) PROVE proc'[x].st \in {"forked", "grouped"}
    <3>1. PICK args \in BOOLEAN : ServiceStart(t, args)
      BY <2>2 DEF StartedBy
    <3>2. proc'[x] = proc[x]
      <4>1. CASE StartForks(t, args)
        <5>1. PICK p \in Pid, script \in Scripts[t] :
                proc[p] = NoProc /\ proc' = [proc EXCEPT ![p] = [st |-> "forked", svc |-> t, script |-> script]]
          BY <1>1, <4>1, ForkEffect
        <5>. QED BY <1>1, <2>1, <5>1
      <4>2. CASE ~StartForks(t, args)
        BY <3>1, <4>2 DEF ServiceStart, StartRunning, StartRefused, StartForkFails
      <4>. QED BY <4>1, <4>2
    <3>. QED BY <2>1, <3>2
  <2>3. CASE ServiceStopOrReset(bootan, "DISABLED")
    <3>1. proc' = proc \/ (pid[bootan] # NoPid /\ proc' = [proc EXCEPT ![pid[bootan]].st = "dying"])
      BY <2>3 DEF ServiceStopOrReset, Kill
    <3>2. pid[bootan] # NoPid => pid[bootan] # x
      BY <1>1, <2>1, Services DEF IInv, PidsAreTracked
    <3>3. proc'[x] = proc[x]
      BY <1>1, <2>1, <3>1, <3>2
    <3>. QED BY <2>0, <2>1, <3>3
  <2>4. CASE Reap
    <3>1. \E p \in Pid : proc[p].st = "zombie" /\ proc' = [proc EXCEPT ![p] = NoProc]
      BY <2>4 DEF Reap
    <3>2. proc'[x] = proc[x]
      BY <1>1, <2>1, <3>1
    <3>. QED BY <2>0, <2>1, <3>2
  <2>5. ASSUME NEW p \in Pid, ProcessMove(p) PROVE proc'[x].st \in {"forked", "grouped"}
    <3>1. CASE p = x
      <4>1. ~Crash(p) /\ ~Finish(p) /\ ~Die(p)
        BY <2>1, <3>1 DEF Crash, Finish, Die
      <4>2. SetPgid(p) \/ ServiceSend(p)
        BY <2>5, <4>1 DEF ProcessMove
      <4>. QED BY <1>1, <2>1, <3>1, <4>2 DEF SetPgid, ServiceSend, Process
    <3>2. CASE p # x
      <4>1. proc'[x] = proc[x]
        BY <1>1, <2>1, <2>5, <3>2 DEF ProcessMove, SetPgid, Finish, Die, Crash, ServiceSend, BecomeZombie
      <4>. QED BY <2>1, <4>1
    <3>. QED BY <3>1, <3>2
  <2>6. CASE UNCHANGED <<flags, pid, proc>>
    BY <2>0, <2>1, <2>6
  <2>7. Confined(ChainOp, ChainMessage, Action, Key)
    BY DEF TrackInv
  <2>. QED BY <2>0, <2>2, <2>3, <2>4, <2>5, <2>6, <2>7, ChainMoves
<1>7. CASE ~Forking(s)
  <2>1. pid'[s] # NoPid => pid'[s] = pid[s]
    BY <1>4, <1>7
  <2>. QED BY <1>3, <1>6, <2>1 DEF StaysUp
<1>. QED BY <1>3, <1>5, <1>7

LEMMA LivingStayOn ==
  ASSUME IInv, TrackInv, RoomForEveryKey, Living \cap (MayCrash \cup Finishes) = {}, LivingStay, [Next]_vars
  PROVE  /\ LivingStay'
         /\ "RUNNING" \in flags[web_server] => "RUNNING" \in flags'[web_server]
<1>1. \A s \in Living : StaysUp(s)
  BY DEF LivingStay, StaysUp
<1>2. \A s \in Living : StaysUp(s)' /\ ("RUNNING" \in flags[s] => "RUNNING" \in flags'[s])
  BY <1>1, LivingNext
<1>3. web_server \in Living
  BY DEF Living
<1>. QED BY <1>2, <1>3 DEF LivingStay, StaysUp

\* While the loop is idle, nothing is under way that a start of camerad leads to.
LEMMA IdleQuiet ==
  ASSUME IInv, TrackInv, NEW q, Loaded(q), Idle
  PROVE  Quiet(q, camerad)
<1>. DEFINE a == prop_camerad
<1>1. todo = << >> /\ inbox = << >> /\ q = << >>
  BY EmptyQueue DEF Idle, Ready, Loaded
<1>2. \A x : ~Linked(q, x)
  BY <1>1 DEF Linked
<1>3. "triggers" \in inited
  BY <1>1, <1>2 DEF Loaded, TriggersComing
<1>4. ~Said(a)
  <2>1. SUFFICES ASSUME Said(a) PROVE FALSE
    OBVIOUS
  <2>2. PICK p \in Pid : proc[p] # NoProc /\ \E i \in DOMAIN proc[p].script : proc[p].script[i] \in Bringing(a)
    BY <2>1 DEF Said
  <2>3. proc[p].svc \in Service /\ proc[p].script \in Remains(proc[p].svc)
    BY <2>2 DEF TrackInv, Tracked, IInv, TypeOK, Process
  <2>4. a \in Makes(proc[p].svc)
    BY <2>2, <2>3, ScriptBrings
  <2>5. proc[p].svc = camerad
    BY <2>3, <2>4, MakesApart, MakesWhat, NamesDiffer
  <2>. QED BY <2>2, <2>3, <2>5, CameradSaysNothing
<1>5. ~Held(a) /\ ~Linked(q, a) /\ Weight(inbox, Bringing(a)) = 0
  BY <1>1, <1>2, <1>3, WeightEmpty DEF Held
<1>6. Load(q, a) = Bit(Held(a)) + Weight(inbox, Bringing(a)) + Bit(Said(a)) + Bit(Linked(q, a))
  BY <1>1, RestLoad
<1>7. Load(q, a) = 0
  BY <1>4, <1>5, <1>6 DEF Bit
<1>. QED BY <1>7, MakesWhat DEF Quiet

-----------------------------------------------------------------------------
(***************************************************************************)
(* QueueInv is inductive                                                   *)
(***************************************************************************)
LEMMA MadeActions ==
  ASSUME NEW s \in Service
  PROVE  Makes(s) \subseteq Action
<1>1. {prop_logd, prop_bootan, prop_update, prop_app, prop_camerad, prop_web} \subseteq Action
  BY RcAssumption DEF IsRc, RcAction
<1>2. s = logd \/ s = bootan \/ s = update_check \/ s = update \/ s = camerad \/ s = web_server
  BY NamesDiffer
<1>. QED BY <1>1, <1>2, MakesWhat

\* Only a start of the service brings what its start leads to.
LEMMA QuietStays ==
  ASSUME NEW q, NEW r, NEW S, Grows(q, r, S), S = {} \/ \E t \in Service : Forking(t) /\ S = Makes(t),
         NEW s \in Service, Quiet(q, s), ~Forking(s)
  PROVE  Quiet(r, s)'
<1>1. ASSUME NEW a \in Makes(s) PROVE Load(r, a)' = 0
  <2>1. a \in Action
    BY MadeActions
  <2>2. a \notin S
    BY MakesApart
  <2>3. Load(q, a) = 0
    BY DEF Quiet
  <2>4. Load(r, a)' + Bit(Spent(a)) <= Load(q, a) + Bit(a \in S)
    BY <2>1 DEF Grows
  <2>5. Bit(a \in S) = 0 /\ Bit(Spent(a)) \in 0..1 /\ Load(r, a)' \in Nat
    BY <2>2, LoadRangeNext DEF Bit
  <2>. QED BY <2>3, <2>4, <2>5
<1>. QED BY <1>1 DEF Quiet

LEMMA AtMostOnce ==
  ASSUME IInv, OneshotInv, TrackInv, LivingStay, NEW q, Loaded(q), NEW r, NEW S, Grows(q, r, S),
         S = {} \/ \E t \in Service : Forking(t) /\ S = Makes(t), NEW a \in Action
  PROVE  Load(r, a)' <= 1
<1>1. Load(r, a)' + Bit(Spent(a)) <= Load(q, a) + Bit(a \in S) /\ Load(q, a) <= 1
  BY DEF Grows, Loaded
<1>2. Bit(Spent(a)) \in 0..1 /\ Load(r, a)' \in Nat /\ Load(q, a) \in Nat
  BY LoadRange, LoadRangeNext DEF Bit
<1>3. CASE a \notin S
  <2>1. Bit(a \in S) = 0
    BY <1>3 DEF Bit
  <2>. QED BY <1>1, <1>2, <2>1
<1>4. CASE a \in S
  <2>1. PICK t \in Service : Forking(t) /\ S = Makes(t)
    BY <1>4
  <2>2. Load(q, a) = 0
    BY <1>4, <2>1, QuietBeforeFork DEF Quiet
  <2>3. Bit(a \in S) = 1
    BY <1>4 DEF Bit
  <2>. QED BY <1>1, <1>2, <2>2, <2>3
<1>. QED BY <1>3, <1>4

\* The action that starts a service does so once.
LEMMA OpenerSpent ==
  ASSUME IInv, StatusInv, OneshotInv, TrackInv, RoomForEveryKey, RespawnFlags, CameraLater, LivingStay,
         [Next]_vars, NEW q, Loaded(q), NEW r, NEW S, Grows(q, r, S),
         S = {} \/ \E t \in Service : Forking(t) /\ S = Makes(t),
         NEW s \in Respawned, prop'[s] # Unset
  PROVE  Load(r, Opener(s))' = 0
<1>. DEFINE a == Opener(s)
<1>1. Load(r, a)' + Bit(Spent(a)) <= Load(q, a) + Bit(a \in S) /\ Load(q, a) <= 1
      /\ Load(r, a)' \in Nat /\ Load(q, a) \in Nat
  BY OpenerMakes, LoadRange, LoadRangeNext DEF Grows, Loaded
<1>2. CASE prop[s] # Unset
  <2>1. Load(q, a) = 0
    BY <1>2 DEF Loaded, RespawnQuiet
  <2>2. a \notin S
    <3>1. SUFFICES ASSUME a \in S PROVE FALSE
      OBVIOUS
    <3>2. PICK t \in Service : Forking(t) /\ a \in Makes(t)
      BY <3>1
    <3>3. t = update_check /\ s = camerad
      BY <3>2, OpenerMakes
    <3>4. prop[update_check] = Unset
      BY <3>2, <3>3, QuietBeforeFork, NamesDiffer
    <3>. QED BY <1>2, <3>3, <3>4 DEF CameraLater
  <2>3. Bit(a \in S) = 0 /\ Bit(Spent(a)) \in 0..1
    BY <2>2 DEF Bit
  <2>. QED BY <1>1, <2>1, <2>3
<1>3. CASE prop[s] = Unset
  <2>1. Forking(s) /\ Head(todo).op = "start_enabled" /\ Head(todo) \in Leading(a)
    BY <1>3, FirstSet
  <2>2. Spent(a)
    <3>1. pid' # pid /\ todo # << >>
      BY <2>1, ForkFlags, RespawnedAre DEF Forking
    <3>. QED BY <2>1, <3>1 DEF Spent
  <2>3. a \notin S
    <3>1. SUFFICES ASSUME a \in S PROVE FALSE
      OBVIOUS
    <3>2. PICK t \in Service : Forking(t) /\ a \in Makes(t)
      BY <3>1
    <3>3. t = s
      BY <2>1, <3>2 DEF Forking, StartedNow
    <3>. QED BY <3>2, <3>3, OpenerMakes
  <2>4. Bit(a \in S) = 0 /\ Bit(Spent(a)) = 1
    BY <2>2, <2>3 DEF Bit
  <2>. QED BY <1>1, <2>4
<1>. QED BY <1>2, <1>3

LEMMA RestedQuiet ==
  ASSUME IInv, TrackInv, RespawnFlags, ~LoopMayStall, RoomForEveryKey, [Next]_vars, NEW q, Loaded(q),
         flags'[camerad] \cap {"RUNNING", "RESTARTING"} # {}, clock'[camerad] # "started"
  PROVE  Quiet(q, camerad) /\ ~Forking(camerad)
<1>1. camerad \in Service /\ camerad # bootan /\ camerad \in Lasting /\ camerad \in Respawned
  BY RespawnedAre DEF Respawned
<1>2. ~Forking(camerad)
  BY <1>1, ForkFlags
<1>3. ~(todo # << >> /\ StartedNow(Head(todo), camerad))
  <2>1. SUFFICES ASSUME todo # << >>, StartedNow(Head(todo), camerad) PROVE FALSE
    OBVIOUS
  <2>2. "RUNNING" \notin flags[camerad]
    BY <1>1, <2>1, StartOfRespawned
  <2>3. "RUNNING" \notin flags'[camerad] /\ "RESTARTING" \notin flags'[camerad]
    BY <1>1, <1>2, <2>1, <2>2, StartEffect
  <2>. QED BY <2>3
<1>4. CASE Exits(camerad)
  <2>1. flags[camerad] = {"RUNNING"} /\ clock' = clock
    BY <1>1, <1>4, ExitEffect
  <2>. QED BY <1>2, <2>1 DEF Loaded, CameraQuiet
<1>5. CASE FiveSecondsPass(camerad)
  <2>1. "RESTARTING" \in flags[camerad] /\ clock[camerad] = "rested"
    BY <1>5 DEF FiveSecondsPass
  <2>. QED BY <1>2, <2>1 DEF Loaded, CameraQuiet
<1>6. CASE Rest
  <2>1. Idle
    BY <1>6 DEF Rest
  <2>. QED BY <1>2, <2>1, IdleQuiet
<1>7. CASE Announced(Head(todo)) \/ LeftAlone(camerad)
  <2>1. flags'[camerad] = flags[camerad] /\ clock'[camerad] = clock[camerad]
    BY <1>7 DEF Announced, LeftAlone, SameService, svcVars
  <2>. QED BY <1>2, <2>1 DEF Loaded, CameraQuiet
<1>. QED BY <1>1, <1>3, <1>4, <1>5, <1>6, <1>7, ServiceEffect

LEMMA LoadedNext ==
  ASSUME IInv, StatusInv, OneshotInv, TrackInv, RoomForEveryKey, ~LoopMayStall,
         Living \cap (MayCrash \cup Finishes) = {},
         RespawnFlags, CameraLater, LivingStay, Unmixed, NEW q, Loaded(q), [Next]_vars
  PROVE  \E r \in Seq(Action) : Loaded(r)'
<1>. PICK r \in Seq(Action) : \E S :
       /\ Represents(list', r) /\ Coming(r) /\ Grows(q, r, S)
       /\ S = {} \/ \E s \in Service : Forking(s) /\ S = Makes(s)
  BY NextAccounted DEF Accounted
<1>1. PICK S : /\ Represents(list', r) /\ Coming(r) /\ Grows(q, r, S)
               /\ S = {} \/ \E s \in Service : Forking(s) /\ S = Makes(s)
  OBVIOUS
<1>2. \A a \in Action : Load(r, a)' <= 1
  <2>1. ASSUME NEW a \in Action PROVE Load(r, a)' <= 1
    BY <1>1, AtMostOnce
  <2>. QED BY <2>1
<1>3. TriggersComing(r)'
  BY <1>1 DEF Coming, TriggersComing, Waits, EnableTriggers
<1>4. ASSUME NEW s \in Service, Quiet(q, s), ~Forking(s) PROVE Quiet(r, s)'
  BY <1>1, <1>4, QuietStays
<1>5. OneshotQuiet(r)'
  <2>1. ASSUME NEW s \in Oneshot, prop'[s] = Unset PROVE Quiet(r, s)'
    <3>1. s \in Service /\ prop[s] = Unset
      BY <2>1, Services, SetForGood
    <3>2. ~Forking(s)
      BY <2>1, <3>1, ForkFlags
    <3>3. Quiet(q, s)
      BY <3>1 DEF Loaded, OneshotQuiet
    <3>. QED BY <1>4, <3>1, <3>2, <3>3
  <2>. QED BY <2>1 DEF OneshotQuiet
<1>6. RespawnQuiet(r)'
  <2>1. ASSUME NEW s \in Respawned
        PROVE  /\ prop'[s] = Unset => Quiet(r, s)'
               /\ prop'[s] # Unset => Load(r, Opener(s))' = 0
    <3>1. s \in Service
      BY RespawnedAre
    <3>2. ASSUME prop'[s] = Unset PROVE Quiet(r, s)'
      <4>1. prop[s] = Unset
        BY <3>1, <3>2, SetForGood
      <4>2. ~Forking(s)
        BY <3>1, <3>2, ForkFlags
      <4>3. Quiet(q, s)
        BY <4>1 DEF Loaded, RespawnQuiet
      <4>. QED BY <1>4, <3>1, <4>2, <4>3
    <3>3. ASSUME prop'[s] # Unset PROVE Load(r, Opener(s))' = 0
      BY <1>1, <3>3, OpenerSpent
    <3>. QED BY <3>2, <3>3
  <2>. QED BY <2>1 DEF RespawnQuiet, Opener
<1>7. WebQuiet(r)'
  <2>1. ASSUME "RUNNING" \notin flags'[web_server] PROVE Quiet(r, web_server)'
    <3>1. "RUNNING" \notin flags[web_server] /\ web_server \in Service
      BY <2>1, LivingStayOn, RespawnedAre
    <3>2. ~Forking(web_server)
      BY <2>1, <3>1, ForkFlags
    <3>3. Quiet(q, web_server)
      BY <3>1 DEF Loaded, WebQuiet
    <3>. QED BY <1>4, <3>1, <3>2, <3>3
  <2>. QED BY <2>1 DEF WebQuiet
<1>8. CameraQuiet(r)'
  <2>1. ASSUME flags'[camerad] \cap {"RUNNING", "RESTARTING"} # {}, clock'[camerad] # "started"
        PROVE  Quiet(r, camerad)'
    <3>1. Quiet(q, camerad) /\ ~Forking(camerad)
      BY <2>1, RestedQuiet
    <3>. QED BY <1>4, <3>1, NamesDiffer
  <2>. QED BY <2>1 DEF CameraQuiet
<1>. QED BY <1>1, <1>2, <1>3, <1>5, <1>6, <1>7, <1>8 DEF Loaded

LEMMA QueueNext ==
  ASSUME IInv, StatusInv, OneshotInv, TrackInv, RoomForEveryKey, ~LoopMayStall,
         Living \cap (MayCrash \cup Finishes) = {}, QueueInv, [Next]_vars
  PROVE  QueueInv'
<1>1. PICK q \in Seq(Action) : Loaded(q)
  BY DEF QueueInv
<1>2. RespawnFlags /\ CameraLater /\ LivingStay /\ Unmixed
  BY DEF QueueInv
<1>3. RespawnFlags' /\ CameraLater' /\ LivingStay'
  BY <1>1, <1>2, FlagsNext, CameraNext, LivingStayOn
<1>4. Unmixed'
  BY <1>1, <1>2, NextAccounted
<1>5. \E r \in Seq(Action) : Loaded(r)'
  BY <1>1, <1>2, LoadedNext
<1>. QED BY <1>3, <1>4, <1>5 DEF QueueInv

-----------------------------------------------------------------------------
(***************************************************************************)
(* The queue as main() begins                                              *)
(***************************************************************************)
LEMMA BootOrderIs ==
  /\ \A i, j \in DOMAIN BootOrder : BootOrder[i] = BootOrder[j] => i = j
  /\ \E i \in DOMAIN BootOrder : BootOrder[i] = on_triggers
  /\ \A s \in Service : \A i \in DOMAIN BootOrder : BootOrder[i] \notin Makes(s)
<1>1. BootOrder = <<on_init, on_property, on_signal, on_early, on_boot, on_triggers>>
  BY RcAssumption DEF IsRc, RcBootOrder
<1>2. PICK f : /\ f[on_init] = 1 /\ f[on_property] = 2 /\ f[on_signal] = 3 /\ f[on_early] = 4
               /\ f[on_boot] = 5 /\ f[on_triggers] = 6 /\ f[prop_logd] = 7 /\ f[prop_bootan] = 8
               /\ f[prop_update] = 9 /\ f[prop_app] = 10 /\ f[prop_camerad] = 11 /\ f[prop_web] = 12
  BY ActionsNumbered
<1>3. /\ DOMAIN BootOrder = 1..6
      /\ \A i \in DOMAIN BootOrder : f[BootOrder[i]] = i
      /\ BootOrder[6] = on_triggers
  BY <1>1, <1>2
<1>4. ASSUME NEW i \in DOMAIN BootOrder, NEW j \in DOMAIN BootOrder, BootOrder[i] = BootOrder[j] PROVE i = j
  BY <1>3, <1>4
<1>5. ASSUME NEW s \in Service, NEW a \in Makes(s) PROVE f[a] >= 7
  <2>1. s = logd \/ s = bootan \/ s = update_check \/ s = update \/ s = camerad \/ s = web_server
    BY NamesDiffer
  <2>. QED BY <1>2, <1>5, <2>1, MakesWhat
<1>6. ASSUME NEW s \in Service, NEW i \in DOMAIN BootOrder PROVE BootOrder[i] \notin Makes(s)
  BY <1>3, <1>5
<1>. QED BY <1>3, <1>4, <1>6

LEMMA InitLoad ==
  ASSUME Init, NEW a
  PROVE  /\ Load(<< >>, a) <= 1
         /\ (\A i \in DOMAIN BootOrder : BootOrder[i] # a) => Load(<< >>, a) = 0
<1>1. /\ todo = Enqueues("enqueue", BootOrder) /\ inbox = << >>
      /\ \A p \in Pid : proc[p] = NoProc
      /\ \A k \in Key : prop[k] = Unset
  BY DEF Init
<1>2. Weight(inbox, Bringing(a)) = 0
  BY <1>1, WeightEmpty
<1>3. ~Said(a) /\ ~Linked(<< >>, a)
  BY <1>1 DEF Said, Linked
<1>4. ~Held(a)
  BY <1>1 DEF Held, Matches, Defined
<1>5. /\ DOMAIN todo = DOMAIN BootOrder
      /\ \A i \in DOMAIN todo : todo[i].op = "enqueue" /\ todo[i].act = BootOrder[i]
  BY <1>1 DEF Enqueues
<1>6. \A i \in DOMAIN todo : todo[i] \in Leading(a) => BootOrder[i] = a
  BY <1>5 DEF Leading
<1>7. Load(<< >>, a) = Weight(todo, Leading(a))
  <2>1. Load(<< >>, a) = Weight(todo, Leading(a)) + Bit(Held(a)) + Weight(inbox, Bringing(a)) + Bit(Said(a)) + Bit(Linked(<< >>, a))
    BY DEF Load, Share
  <2>2. Bit(Held(a)) = 0 /\ Bit(Said(a)) = 0 /\ Bit(Linked(<< >>, a)) = 0
    BY <1>3, <1>4 DEF Bit
  <2>. QED BY <1>2, <2>1, <2>2, LoadRange
<1>8. Weight(todo, Leading(a)) <= 1
  <2>1. \A i, j \in DOMAIN todo : todo[i] \in Leading(a) /\ todo[j] \in Leading(a) => i = j
    BY <1>5, <1>6, BootOrderIs
  <2>. QED BY <2>1 DEF Weight
<1>9. (\A i \in DOMAIN BootOrder : BootOrder[i] # a) => Weight(todo, Leading(a)) = 0
  BY <1>5, <1>6, WeightNone
<1>. QED BY <1>7, <1>8, <1>9

LEMMA QueueInit ==
  ASSUME Init
  PROVE  QueueInv
<1>1. /\ todo = Enqueues("enqueue", BootOrder) /\ list = ListInit /\ inited = {}
      /\ \A s \in Service : /\ pid[s] = NoPid /\ flags[s] \in {{"DISABLED"}, {}}
                            /\ prop[s] = Unset
  BY PropertyAssumption DEF Init
<1>2. /\ DOMAIN todo = DOMAIN BootOrder
      /\ \A i \in DOMAIN todo : todo[i] = [op |-> "enqueue", act |-> BootOrder[i]]
  BY <1>1 DEF Enqueues
<1>3. ASSUME NEW s \in Service PROVE Quiet(<< >>, s)
  BY InitLoad, BootOrderIs DEF Quiet
<1>4. TriggersComing(<< >>)
  BY <1>1, <1>2, BootOrderIs DEF TriggersComing
<1>5. \A s \in Service : /\ Quiet(<< >>, s) /\ prop[s] = Unset
                         /\ flags[s] \cap {"RUNNING", "RESTARTING"} = {}
  BY <1>1, <1>3
<1>6. /\ Respawned \subseteq Service /\ Oneshot \subseteq Service /\ Living \subseteq Service
      /\ {web_server, camerad} \subseteq Service
  BY RespawnedAre, LivingAre, Services DEF Respawned
<1>7. RespawnQuiet(<< >>) /\ OneshotQuiet(<< >>) /\ CameraQuiet(<< >>) /\ WebQuiet(<< >>)
  BY <1>5, <1>6 DEF RespawnQuiet, OneshotQuiet, CameraQuiet, WebQuiet
<1>8. << >> \in Seq(Action) /\ Represents(list, << >>)
  BY <1>1, InitRepresents, EmptySeq
<1>9. Loaded(<< >>)
  BY <1>4, <1>7, <1>8, InitLoad DEF Loaded
<1>10. RespawnFlags /\ CameraLater /\ LivingStay
  BY <1>1, <1>5, <1>6 DEF RespawnFlags, CameraLater, LivingStay
<1>11. Unmixed
  <2>1. \A i \in DOMAIN todo : todo[i].op = "enqueue"
    BY <1>2
  <2>. QED BY <2>1 DEF Unmixed
<1>. QED BY <1>8, <1>9, <1>10, <1>11 DEF QueueInv

-----------------------------------------------------------------------------
(***************************************************************************)
(* The queue of misc/init.rc is intact                                     *)
(***************************************************************************)
LEMMA NothingOnRestart == OnRestartSparesItself
<1>1. \A s \in Service : OnRestart[s] = << >>
  BY RcAssumption DEF IsRc, RcOnRestart
<1>2. DOMAIN << >> = {}
  OBVIOUS
<1>. QED BY <1>1, <1>2 DEF OnRestartSparesItself

\* The counting invariant: the queue represents a sequence, and whatever may
\* still queue an action is the only thing that may, so long as it may.
THEOREM QueueInvariance ==
  ASSUME RoomForEveryKey, Living \cap (MayCrash \cup Finishes) = {}, ~LoopMayStall
  PROVE  Spec => []QueueInv
<1>1. IInv /\ StatusInv /\ OneshotInv /\ TrackInv /\ QueueInv /\ [Next]_vars => QueueInv'
  BY QueueNext
<1>2. Init => QueueInv
  <2>. SUFFICES ASSUME Init PROVE QueueInv
    OBVIOUS
  <2>. QED BY QueueInit
<1>3. Spec => []IInv
  BY Invariance
<1>4. Spec => []StatusInv
  BY NothingOnRestart, StatusInvariance
<1>5. Spec => []OneshotInv
  BY OneshotInvariance
<1>6. Spec => []TrackInv
  BY TrackInvariance
<1>. QED BY <1>1, <1>2, <1>3, <1>4, <1>5, <1>6, PTL DEF Spec

LEMMA LeastOf ==
  ASSUME NEW T \in SUBSET Nat, T # {}
  PROVE  \E x \in T : \A y \in T : x <= y
<1>1. PICK R : R = OpToRel(<, Nat)
  OBVIOUS
<1>2. IsWellFoundedOn(R, Nat)
  BY <1>1, NatLessThanWellFounded
<1>3. PICK x \in T : \A y \in T : ~ (<<y, x>> \in R)
  BY <1>2, WFMin
<1>4. \A a, b \in Nat : b < a => <<b, a>> \in R
  BY <1>1 DEF OpToRel
<1>5. \A y \in T : ~(y < x)
  BY <1>3, <1>4
<1>. QED BY <1>5

\* The rc file has finitely many actions, and a queue of distinct ones no more.
LEMMA FiniteActions == IsFiniteSet(Action)
<1>1. PICK acts : /\ acts \in [1..12 -> Action]
                  /\ \A a \in Action : \E i \in 1..12 : acts[i] = a
  <2>. DEFINE acts == <<on_init, on_property, on_signal, on_early, on_boot, on_triggers,
                        prop_logd, prop_bootan, prop_update, prop_app, prop_camerad, prop_web>>
  <2>1. Action = RcAction
    BY RcAssumption DEF IsRc
  <2>2. acts \in [1..12 -> Action]
    BY <2>1 DEF RcAction
  <2>3. /\ acts[1] = on_init /\ acts[2] = on_property /\ acts[3] = on_signal /\ acts[4] = on_early
        /\ acts[5] = on_boot /\ acts[6] = on_triggers /\ acts[7] = prop_logd /\ acts[8] = prop_bootan
        /\ acts[9] = prop_update /\ acts[10] = prop_app /\ acts[11] = prop_camerad /\ acts[12] = prop_web
    OBVIOUS
  <2>. HIDE DEF acts
  <2>4. \A a \in Action : \E i \in 1..12 : acts[i] = a
    BY <2>1, <2>3 DEF RcAction
  <2>. QED BY <2>2, <2>4
<1>2. acts \in Surjection(1..12, Action)
  BY <1>1 DEF Surjection
<1>3. IsFiniteSet(1..12)
  <2>1. 1 \in Int /\ 12 \in Int
    OBVIOUS
  <2>. QED BY <2>1, FS_Interval
<1>. QED BY <1>2, <1>3, FS_Surjection

LEMMA QueueNotLonger ==
  ASSUME NEW q \in Seq(Action), Distinct(q)
  PROVE  Cardinality(Action) \in Nat /\ Len(q) \in 0..Cardinality(Action)
<1>1. PICK n \in Nat : n = Len(q)
  OBVIOUS
<1>2. q \in [1..n -> Action] /\ \A i, j \in 1..n : q[i] = q[j] => i = j
  BY <1>1 DEF Distinct
<1>3. q \in Injection(1..n, Action)
  BY <1>2 DEF Injection, IsInjective
<1>4. Cardinality(1..n) <= Cardinality(Action)
  BY <1>3, FiniteActions, FS_Injection
<1>5. Cardinality(1..n) = n
  <2>1. 1 \in Int /\ n \in Int /\ (IF 1 > n THEN 0 ELSE n - 1 + 1) = n
    BY <1>1
  <2>. QED BY <2>1, FS_Interval
<1>6. Cardinality(Action) \in Nat
  BY FiniteActions, FS_CardinalityType
<1>. QED BY <1>1, <1>4, <1>5, <1>6

\* A walk of n steps along the queue.
IsWalk(w, n) ==
  /\ w = [i \in 0..n |-> w[i]]
  /\ \A i \in 0..n : w[i] = IF i = 0 THEN QHead ELSE list.next[w[i - 1]]

LEMMA WalkExists ==
  ASSUME NEW N \in Nat
  PROVE  \E w : IsWalk(w, N)
<1>. DEFINE T == {n \in Nat : ~ \E w : IsWalk(w, n)}
<1>1. SUFFICES ASSUME T # {} PROVE FALSE
  OBVIOUS
<1>2. PICK x \in T : \A y \in T : x <= y
  <2>1. T \in SUBSET Nat
    OBVIOUS
  <2>. HIDE DEF T
  <2>. QED BY <1>1, <2>1, LeastOf
<1>3. x \in Nat /\ ~ \E w : IsWalk(w, x)
  BY <1>2
<1>4. x # 0
  <2>1. SUFFICES ASSUME x = 0 PROVE FALSE
    OBVIOUS
  <2>2. PICK w : w = [i \in 0..0 |-> QHead]
    OBVIOUS
  <2>3. \A i \in 0..0 : i = 0 /\ w[i] = QHead
    BY <2>2
  <2>4. w = [i \in 0..0 |-> w[i]]
    BY <2>2
  <2>. QED BY <1>3, <2>1, <2>3, <2>4 DEF IsWalk
<1>5. PICK y \in Nat : x = y + 1
  <2>1. x - 1 \in Nat /\ x = (x - 1) + 1
    BY <1>3, <1>4
  <2>. QED BY <2>1
<1>6. PICK v : IsWalk(v, y)
  <2>1. y \in Nat /\ ~ (x <= y)
    BY <1>3, <1>5
  <2>2. y \notin T
    BY <1>2, <2>1
  <2>. QED BY <2>1, <2>2
<1>7. PICK w : w = [i \in 0..x |-> IF i = x THEN list.next[v[y]] ELSE v[i]]
  OBVIOUS
<1>8. w = [i \in 0..x |-> w[i]]
  BY <1>7
<1>9. ASSUME NEW i \in 0..x
      PROVE  w[i] = IF i = 0 THEN QHead ELSE list.next[w[i - 1]]
  <2>1. \A j \in 0..y : j \in 0..x /\ j # x
    BY <1>3, <1>5
  <2>2. \A j \in 0..y : w[j] = v[j]
    BY <1>7, <2>1
  <2>3. CASE i = x
    <3>1. i - 1 = y /\ y \in 0..y /\ i # 0
      BY <1>4, <1>5, <2>3
    <3>. QED BY <1>7, <2>2, <2>3, <3>1
  <2>4. CASE i # x
    <3>1. i \in 0..y /\ (i # 0 => i - 1 \in 0..y)
      BY <1>3, <1>5, <2>4
    <3>2. v[i] = IF i = 0 THEN QHead ELSE list.next[v[i - 1]]
      BY <1>6, <3>1 DEF IsWalk
    <3>. QED BY <2>2, <3>1, <3>2
  <2>. QED BY <2>3, <2>4
<1>. QED BY <1>3, <1>8, <1>9 DEF IsWalk

\* And every walk visits the actions of the queue in their order.
LEMMA WalkVisits ==
  ASSUME NEW N \in Nat, NEW q \in Seq(Action), Represents(list, q), Len(q) <= N,
         NEW w, IsWalk(w, N)
  PROVE  [i \in 1..Len(q) |-> w[i]] = q
<1>1. PICK n \in Nat : n = Len(q) /\ n <= N
  OBVIOUS
<1>2. \A i \in 0..n : w[i] = At(q, i)
  <2>. DEFINE T == {i \in 0..n : w[i] # At(q, i)}
  <2>1. SUFFICES ASSUME T # {} PROVE FALSE
    OBVIOUS
  <2>2. PICK x \in T : \A y \in T : x <= y
    <3>1. T \in SUBSET Nat
      OBVIOUS
    <3>. HIDE DEF T
    <3>. QED BY <2>1, <3>1, LeastOf
  <2>3. x \in 0..n /\ w[x] # At(q, x)
    BY <2>2
  <2>4. w[0] = QHead /\ At(q, 0) = QHead
    <3>1. 0 \in 0..N /\ 0 \notin 1..Len(q)
      BY <1>1
    <3>. QED BY <3>1 DEF At, IsWalk
  <2>5. PICK y \in 0..n : x = y + 1 /\ y = x - 1
    <3>1. x # 0
      BY <2>3, <2>4
    <3>2. x - 1 \in 0..n /\ x = (x - 1) + 1
      BY <1>1, <2>3, <3>1
    <3>. QED BY <3>2
  <2>6. w[y] = At(q, y)
    <3>1. ~ (x <= y)
      BY <2>3, <2>5
    <3>. QED BY <2>2, <2>5, <3>1
  <2>7. list.next[At(q, y)] = At(q, x)
    BY <1>1, <2>5 DEF Represents
  <2>8. w[x] = list.next[w[x - 1]]
    <3>1. x \in 0..N /\ x # 0
      BY <1>1, <2>3, <2>5
    <3>. QED BY <3>1 DEF IsWalk
  <2>. QED BY <2>3, <2>5, <2>6, <2>7, <2>8
<1>3. ASSUME NEW i \in 1..n PROVE w[i] = q[i]
  <2>1. i \in 0..n /\ i \in 1..Len(q)
    BY <1>1
  <2>. QED BY <1>2, <2>1 DEF At
<1>4. q = [i \in 1..n |-> q[i]]
  BY <1>1
<1>. QED BY <1>1, <1>3, <1>4

LEMMA QueueRepresented ==
  ASSUME NEW q \in Seq(Action), Represents(list, q)
  PROVE  QueueIntact
<1>. DEFINE N == Cardinality(Action)
            walk[i \in 0..N] == IF i = 0 THEN QHead ELSE list.next[walk[i - 1]]
<1>1. N \in Nat /\ Len(q) \in 0..N
  BY QueueNotLonger DEF Represents
<1>2. IsWalk(walk, N)
  <2>1. PICK w : IsWalk(w, N)
    BY <1>1, WalkExists
  <2>2. w = [i \in 0..N |-> IF i = 0 THEN QHead ELSE list.next[w[i - 1]]]
    BY <2>1 DEF IsWalk
  <2>3. walk = [i \in 0..N |-> IF i = 0 THEN QHead ELSE list.next[walk[i - 1]]]
    BY <2>2
  <2>. HIDE DEF walk, N
  <2>. QED BY <2>3 DEF IsWalk
<1>3. [i \in 1..Len(q) |-> walk[i]] = q
  <2>. HIDE DEF walk, N
  <2>1. Len(q) <= N
    BY <1>1
  <2>. QED BY <1>1, <1>2, <2>1, WalkVisits
<1>4. \E n \in 0..N : Represents(list, [i \in 1..n |-> walk[i]])
  <2>. HIDE DEF walk, N
  <2>. QED BY <1>1, <1>3
<1>. QED BY <1>4 DEF QueueIntact

\* The list of init is intact, whatever camerad and the oneshot services do and however
\* long they live, for as long as logd and the web server live and the loop is idle at
\* some moment in the five seconds after each start: every action is queued by one thing
\* only, which is spent when it has been.
THEOREM QueueStaysIntact ==
  ASSUME RoomForEveryKey, Living \cap (MayCrash \cup Finishes) = {}, ~LoopMayStall
  PROVE  Spec => []QueueIntact
<1>1. QueueInv => QueueIntact
  BY QueueRepresented DEF QueueInv, Loaded
<1>2. Spec => []QueueInv
  BY QueueInvariance
<1>. QED BY <1>1, <1>2, PTL
=============================================================================
