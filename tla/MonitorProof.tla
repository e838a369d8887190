---------------------------- MODULE MonitorProof ----------------------------
(***************************************************************************)
(* Theorems about the monitor and its queue of actions: the type           *)
(* invariant, and that pids, flags and the SIGCHLD pipe never deceive it,  *)
(* for any services, processes, rc file and interleaving.                  *)
(***************************************************************************)
EXTENDS Monitor, SequenceTheorems, TLAPS

-----------------------------------------------------------------------------
(***************************************************************************)
(* ActionQueue: the intrusive list is a FIFO queue as long as no node is   *)
(* added while it is linked.                                               *)
(***************************************************************************)

\* list_init: the empty list stands for the empty sequence.
LEMMA InitRepresents == Represents(ListInit, << >>) /\ ListInit \in List
<1>1. ListInit \in List
  BY DEF ListInit, List, Node
<1>2. Len(<< >>) = 0 /\ << >> \in Seq(Action) /\ Distinct(<< >>)
  BY DEF Distinct
<1>3. \A i \in 0..0 : At(<< >>, i) = QHead /\ At(<< >>, i + 1) = QHead
  BY <1>2 DEF At
<1>4. ListInit.next[QHead] = QHead /\ ListInit.prev[QHead] = QHead
  BY DEF ListInit, Node
<1> QED BY <1>1, <1>2, <1>3, <1>4 DEF Represents

\* list_add_tail of a node that is not linked appends it.
THEOREM AddTailAppends ==
  ASSUME NEW l \in List, NEW q \in Seq(Action), Represents(l, q),
         NEW a \in Action, ~Linked(q, a)
  PROVE  Represents(AddTail(l, a), Append(q, a))
<1> DEFINE p  == Append(q, a)
           m  == AddTail(l, a)
           n  == Len(q)
<1>1. /\ p \in Seq(Action) /\ Len(p) = n + 1 /\ n \in Nat
      /\ \A i \in 1..n : p[i] = q[i] /\ q[i] \in Action /\ q[i] # a
      /\ p[n + 1] = a
  BY DEF Linked
<1>2. Distinct(p)
  <2> SUFFICES ASSUME NEW i \in 1..Len(p), NEW j \in 1..Len(p), p[i] = p[j]
               PROVE  i = j
    BY DEF Distinct
  <2>1. i \in 1..n \/ i = n + 1
    BY <1>1
  <2>2. j \in 1..n \/ j = n + 1
    BY <1>1
  <2>3. CASE i \in 1..n /\ j \in 1..n
    BY <1>1, <2>3 DEF Distinct, Represents
  <2>4. CASE i = n + 1 \/ j = n + 1
    BY <1>1, <2>1, <2>2, <2>4
  <2> QED BY <2>1, <2>2, <2>3, <2>4
<1>3. /\ l.prev[QHead] = At(q, n)
      /\ At(q, n) \in Node /\ At(q, n) # a
      /\ \A i \in 0..n : At(p, i) = At(q, i) /\ At(p, i) # a /\ At(p, i) \in Node
      /\ At(p, n + 1) = a /\ At(p, n + 2) = QHead /\ At(q, n + 1) = QHead
  BY <1>1, QHeadAssumption DEF At, Represents, Node
<1>4. /\ m.next = [[l.next EXCEPT ![a] = QHead] EXCEPT ![At(q, n)] = a]
      /\ m.prev = [[l.prev EXCEPT ![a] = At(q, n)] EXCEPT ![QHead] = a]
  BY <1>3 DEF AddTail
<1>5. ASSUME NEW i \in 0..n-1
      PROVE  /\ At(q, i) # At(q, n)
             /\ At(q, i + 1) # QHead
  BY <1>1, QHeadAssumption DEF At, Represents, Distinct
<1>6. \A i \in 0..Len(p) : /\ m.next[At(p, i)] = At(p, i + 1)
                           /\ m.prev[At(p, i + 1)] = At(p, i)
  <2> SUFFICES ASSUME NEW i \in 0..n+1
               PROVE  /\ m.next[At(p, i)] = At(p, i + 1)
                      /\ m.prev[At(p, i + 1)] = At(p, i)
    BY <1>1
  <2>1. CASE i \in 0..n-1
    <3>1. i \in 0..n /\ i + 1 \in 0..n
      BY <2>1, <1>1
    <3>2. l.next[At(q, i)] = At(q, i + 1) /\ l.prev[At(q, i + 1)] = At(q, i)
      BY <3>1 DEF Represents
    <3> QED BY <2>1, <3>1, <3>2, <1>3, <1>4, <1>5 DEF List
  <2>2. CASE i = n
    BY <2>2, <1>1, <1>3, <1>4, QHeadAssumption DEF List, Node
  <2>3. CASE i = n + 1
    BY <2>3, <1>1, <1>3, <1>4, QHeadAssumption DEF List, Node
  <2> QED BY <2>1, <2>2, <2>3, <1>1
<1> QED BY <1>1, <1>2, <1>6 DEF Represents

\* list_remove of the head node of a non-empty list drops the first action.
THEOREM RemoveHeadTails ==
  ASSUME NEW l \in List, NEW q \in Seq(Action), Represents(l, q), q # << >>
  PROVE  /\ HeadOf(l) = Head(q)
         /\ Represents(RemoveHead(l), Tail(q))
<1> DEFINE p == Tail(q)
           m == RemoveHead(l)
           n == Len(q)
<1>1. /\ n \in Nat \ {0} /\ p \in Seq(Action) /\ Len(p) = n - 1
      /\ \A i \in 1..n-1 : p[i] = q[i + 1]
      /\ \A i \in 1..n : q[i] \in Action
      /\ Head(q) = q[1]
  OBVIOUS
<1>2. Distinct(p)
  <2> SUFFICES ASSUME NEW i \in 1..Len(p), NEW j \in 1..Len(p), p[i] = p[j]
               PROVE  i = j
    BY DEF Distinct
  <2>1. i + 1 \in 1..n /\ j + 1 \in 1..n /\ q[i + 1] = q[j + 1]
    BY <1>1
  <2> QED BY <2>1, <1>1 DEF Distinct, Represents
<1>3. /\ At(q, 0) = QHead /\ At(q, 1) = q[1] /\ q[1] # QHead
      /\ \A i \in 1..n : At(p, i) = At(q, i + 1)
      /\ At(p, 0) = QHead
      /\ At(q, n + 1) = QHead
      /\ At(q, 2) \in Node
  BY <1>1, QHeadAssumption DEF At, Node
<1>4. /\ l.next[QHead] = q[1] /\ l.prev[q[1]] = QHead
      /\ l.next[q[1]] = At(q, 2) /\ l.prev[At(q, 2)] = q[1]
  <2>1. 0 \in 0..n /\ 1 \in 0..n
    BY <1>1
  <2>2. l.next[At(q, 0)] = At(q, 0 + 1) /\ l.prev[At(q, 0 + 1)] = At(q, 0)
    BY <2>1 DEF Represents
  <2>3. l.next[At(q, 1)] = At(q, 1 + 1) /\ l.prev[At(q, 1 + 1)] = At(q, 1)
    BY <2>1 DEF Represents
  <2> QED BY <2>2, <2>3, <1>3
<1>5. At(q, 2) # q[1]
  BY <1>1, <1>3, QHeadAssumption DEF At, Represents, Distinct
<1>6. /\ m.next = [l.next EXCEPT ![QHead] = At(q, 2)]
      /\ m.prev = [l.prev EXCEPT ![At(q, 2)] = QHead]
  <2>1. [l.prev EXCEPT ![At(q, 2)] = QHead][q[1]] = QHead
    BY <1>4, <1>5, <1>3, <1>1 DEF List, Node
  <2> QED BY <2>1, <1>4 DEF RemoveHead, Unlink, HeadOf
<1>7. \A i \in 0..Len(p) : /\ m.next[At(p, i)] = At(p, i + 1)
                           /\ m.prev[At(p, i + 1)] = At(p, i)
  <2> SUFFICES ASSUME NEW i \in 0..n-1
               PROVE  /\ m.next[At(p, i)] = At(p, i + 1)
                      /\ m.prev[At(p, i + 1)] = At(p, i)
    BY <1>1
  <2>1. CASE i = 0
    <3>1. At(p, 1) = At(q, 2)
      BY <1>3, <1>1
    <3> QED BY <2>1, <3>1, <1>3, <1>6, <1>4 DEF List, Node
  <2>2. CASE i \in 1..n-1
    <3>1. At(p, i) = At(q, i + 1) /\ At(p, i + 1) = At(q, i + 2)
      BY <2>2, <1>3, <1>1
    <3>2. i + 1 \in 0..n
      BY <2>2, <1>1
    <3>3. /\ l.next[At(q, i + 1)] = At(q, i + 2)
          /\ l.prev[At(q, i + 2)] = At(q, i + 1)
      BY <3>2, <1>1 DEF Represents
    <3>4. At(q, i + 1) # QHead /\ At(q, i + 1) \in Node
      BY <2>2, <1>1, QHeadAssumption DEF At, Node
    <3>5. At(q, i + 2) # At(q, 2) /\ At(q, i + 2) \in Node
      BY <2>2, <1>1, QHeadAssumption DEF At, Node, Represents, Distinct
    <3> QED BY <3>1, <3>3, <3>4, <3>5, <1>6 DEF List
  <2> QED BY <2>1, <2>2, <1>1
<1> QED BY <1>1, <1>2, <1>4, <1>7 DEF Represents, HeadOf

-----------------------------------------------------------------------------
(***************************************************************************)
(* The inductive invariant: what the type invariant and the safety         *)
(* properties rest on.                                                     *)
(***************************************************************************)

\* Whatever order actions were queued in, and queued again, a walk from the
\* head only meets nodes that were linked once: no pointer of theirs is unset.
Closed(l) ==
  /\ l.next[QHead] # NoNode
  /\ \A n \in Node : l.next[n] # NoNode =>
       /\ l.prev[n] # NoNode
       /\ l.next[l.next[n]] # NoNode
       /\ l.next[l.prev[n]] # NoNode

\* The index of the current command is one of the current action.
CommandInRange == cur \in Action => ip <= Len(Commands[cur])

\* accept() finds the connection poll() promised.
PromiseKept == stage = "property" /\ "property" \in ready => inbox # << >>

IInv ==
  /\ TypeOK
  /\ Closed(list)
  /\ CommandInRange
  /\ PromiseKept
  /\ PidsAreTracked
  /\ FlagsAgree
  /\ NoLostSigchld

-----------------------------------------------------------------------------
(***************************************************************************)
(* The lists of steps that calls expand to                                 *)
(***************************************************************************)
HasReap(q) == \E i \in DOMAIN q : q[i].op = "reap"

LEMMA OpFields ==
  ASSUME NEW o \in Op
  PROVE  /\ o.op \in SvcOp => o.svc \in Service
         /\ o.op \in {"enqueue", "enqueue_matching"} => o.act \in Action
         /\ o.op = "set" => o.key \in Key /\ o.val \in Value
         /\ o.op = "onrestart" => o.cmd \in RcCommand
  BY DEF Op, SvcOp

LEMMA SequenceOf ==
  ASSUME NEW S, NEW n \in Nat, NEW f \in [1..n -> S]
  PROVE  f \in Seq(S)
  BY SeqDef

LEMMA SvcOpsType ==
  ASSUME NEW kind \in SvcOp, NEW ss \in Seq(Service)
  PROVE  SvcOps(kind, ss) \in Seq(Op)
<1>1. Len(ss) \in Nat /\ ss \in [1..Len(ss) -> Service] /\ DOMAIN ss = 1..Len(ss)
  BY LenProperties
<1>2. \A s \in Service : [op |-> kind, svc |-> s] \in Op
  BY DEF Op
<1>3. SvcOps(kind, ss) \in [1..Len(ss) -> Op]
  BY <1>1, <1>2 DEF SvcOps
<1>. QED BY <1>1, <1>3, SequenceOf

LEMMA EnqueuesType ==
  ASSUME NEW kind \in {"enqueue", "enqueue_matching"}, NEW acts \in Seq(Action)
  PROVE  Enqueues(kind, acts) \in Seq(Op)
<1>1. Len(acts) \in Nat /\ acts \in [1..Len(acts) -> Action] /\ DOMAIN acts = 1..Len(acts)
  BY LenProperties
<1>2. \A a \in Action : [op |-> kind, act |-> a] \in Op
  BY DEF Op
<1>3. Enqueues(kind, acts) \in [1..Len(acts) -> Op]
  BY <1>1, <1>2 DEF Enqueues
<1>. QED BY <1>1, <1>3, SequenceOf

LEMMA OnRestartOpsType ==
  ASSUME NEW s \in Service
  PROVE  OnRestartOps(s) \in Seq(Op)
<1>. DEFINE q == OnRestart[s]
<1>1. q \in Seq(RcCommand)
  BY ServiceAssumption
<1>2. Len(q) \in Nat /\ q \in [1..Len(q) -> RcCommand] /\ DOMAIN q = 1..Len(q)
  BY <1>1, LenProperties
<1>3. \A c \in RcCommand : [op |-> "onrestart", cmd |-> c] \in Op
  BY DEF Op
<1>4. OnRestartOps(s) \in [1..Len(q) -> Op]
  BY <1>2, <1>3 DEF OnRestartOps
<1>. QED BY <1>2, <1>4, SequenceOf

LEMMA ExpandType ==
  ASSUME NEW c \in Command
  PROVE  Expand(c) \in Seq(Op)
<1>1. CASE c \in [cmd : {"start", "stop", "restart"}, svc : Service]
  <2>1. [op |-> "start", svc |-> c.svc] \in Op /\ [op |-> "stop", svc |-> c.svc] \in Op
    BY <1>1 DEF Op, SvcOp
  <2>. QED BY <1>1, <2>1 DEF Expand
<1>2. CASE c \in [cmd : {"class_start", "class_stop", "class_reset"}, class : Class]
  <2>1. InClass[c.class] \in Seq(Service)
    BY <1>2, ServiceAssumption
  <2>2. \A k \in {"start_enabled", "stop", "reset"} : SvcOps(k, InClass[c.class]) \in Seq(Op)
    BY <2>1, SvcOpsType DEF SvcOp
  <2>. QED BY <1>2, <2>2 DEF Expand
<1>3. CASE c \in [cmd : {"setprop"}, key : Key \ Service, val : Value]
  <2>1. [op |-> "set", key |-> c.key, val |-> c.val] \in Op
    BY <1>3 DEF Op
  <2>. QED BY <1>3, <2>1 DEF Expand
<1>4. CASE c \in [cmd : {"other", "property_service_init", "signal_init", "queue_property_triggers"}]
  <2>1. [op |-> "reap"] \in Op
    BY DEF Op
  <2>2. Enqueues("enqueue_matching", ActionOrder) \in Seq(Op)
    BY EnqueuesType, ActionAssumption
  <2>. QED BY <1>4, <2>1, <2>2 DEF Expand
<1>. QED BY <1>1, <1>2, <1>3, <1>4 DEF Command, RcCommand

LEMMA ControlOpsType ==
  ASSUME NEW m \in Message, m.msg \notin {"denied", "set"}
  PROVE  ControlOps(m) \in Seq(Op)
<1>1. m \in [msg : {"start", "stop", "restart"}, svc : Service, args : BOOLEAN]
  BY DEF Message
<1>2. \A k \in {"start", "start_args", "stop"} : [op |-> k, svc |-> m.svc] \in Op
  BY <1>1 DEF Op, SvcOp
<1>. QED BY <1>1, <1>2 DEF ControlOps

\* A pending waitpid() stays pending when steps are put before it or when the
\* step taken away is another one.
LEMMA ReapInConcat ==
  ASSUME NEW q \in Seq(Op), NEW r \in Seq(Op), HasReap(r)
  PROVE  HasReap(q \o r)
<1>1. PICK i \in 1..Len(r) : r[i].op = "reap"
  BY LenProperties DEF HasReap
<1>2. /\ Len(q) \in Nat /\ Len(r) \in Nat
      /\ DOMAIN (q \o r) = 1..(Len(q) + Len(r))
      /\ (q \o r)[Len(q) + i] = r[i]
  BY ConcatProperties, LenProperties
<1>. QED BY <1>1, <1>2 DEF HasReap

LEMMA ReapInTail ==
  ASSUME NEW q \in Seq(Op), q # << >>, Head(q).op # "reap", HasReap(q)
  PROVE  HasReap(Tail(q))
<1>1. PICK i \in 1..Len(q) : q[i].op = "reap"
  BY LenProperties DEF HasReap
<1>2. q[1].op # "reap" /\ i # 1
  BY <1>1
<1>3. /\ Len(q) \in Nat /\ DOMAIN Tail(q) = 1..(Len(q) - 1)
      /\ Tail(q)[i - 1] = q[i]
  BY <1>1, <1>2, HeadTailProperties, LenProperties
<1>4. i - 1 \in DOMAIN Tail(q) /\ Tail(q)[i - 1].op = "reap"
  BY <1>1, <1>2, <1>3
<1>. QED BY <1>4 DEF HasReap

LEMMA SetPropEffect ==
  ASSUME TypeOK, NEW k \in Key, NEW v \in Value, NEW rest \in Seq(Op), SetProp(k, v, rest)
  PROVE  /\ prop' \in [Key -> Value \cup {Unset}]
         /\ todo' \in Seq(Op)
         /\ HasReap(rest) => HasReap(todo')
<1>1. Enqueues("enqueue", Triggered[<<k, v>>]) \in Seq(Op)
  BY EnqueuesType, PropertyAssumption
<1>2. prop' \in [Key -> Value \cup {Unset}]
  BY DEF SetProp, TypeOK
<1>3. todo' = rest \/ todo' = Enqueues("enqueue", Triggered[<<k, v>>]) \o rest
  BY DEF SetProp
<1>. QED BY <1>1, <1>2, <1>3, ReapInConcat, ConcatProperties

-----------------------------------------------------------------------------
(***************************************************************************)
(* The queue                                                               *)
(***************************************************************************)
LEMMA AddTailClosed ==
  ASSUME NEW l \in List, Closed(l), NEW a \in Action
  PROVE  AddTail(l, a) \in List /\ Closed(AddTail(l, a))
<1>. DEFINE m == AddTail(l, a)
            last == l.prev[QHead]
<1>1. /\ l.next \in [Node -> Node \cup {NoNode}]
      /\ l.prev \in [Node -> Node \cup {NoNode}]
      /\ QHead \in Node /\ a \in Node /\ NoNode \notin Node /\ a # QHead
  BY QHeadAssumption DEF List, Node
<1>2. last \in Node
  BY <1>1 DEF Closed
<1>3. /\ m.next = [[l.next EXCEPT ![a] = QHead] EXCEPT ![last] = a]
      /\ m.prev = [[l.prev EXCEPT ![a] = last] EXCEPT ![QHead] = a]
  BY DEF AddTail
<1>4. m \in List
  BY <1>1, <1>2 DEF AddTail, List
<1>. HIDE DEF m, last
<1>5. \A n \in Node : m.next[n] = IF n = last THEN a ELSE IF n = a THEN QHead ELSE l.next[n]
  BY <1>1, <1>2, <1>3
<1>6. \A n \in Node : m.prev[n] = IF n = QHead THEN a ELSE IF n = a THEN last ELSE l.prev[n]
  BY <1>1, <1>2, <1>3
<1>7. m.next[QHead] # NoNode /\ m.next[a] # NoNode /\ m.next[last] # NoNode
  BY <1>1, <1>2, <1>5 DEF Closed
<1>8. ASSUME NEW n \in Node, m.next[n] # NoNode
      PROVE  m.prev[n] # NoNode /\ m.next[m.next[n]] # NoNode /\ m.next[m.prev[n]] # NoNode
  <2>1. CASE n \in {a, last, QHead}
    <3>1. l.next[QHead] \in Node /\ l.next[last] \in Node /\ l.prev[last] \in Node
      BY <1>1, <1>2 DEF Closed, last
    <3>2. l.next[l.next[QHead]] # NoNode /\ l.next[l.prev[last]] # NoNode
      BY <1>1, <1>2, <3>1 DEF Closed, last
    <3>. QED BY <1>1, <1>2, <1>5, <1>6, <1>7, <2>1, <3>1, <3>2
  <2>2. CASE n \notin {a, last, QHead}
    <3>1. l.next[n] # NoNode
      BY <1>5, <1>8, <2>2
    <3>2. l.prev[n] \in Node /\ l.next[n] \in Node
          /\ l.next[l.next[n]] # NoNode /\ l.next[l.prev[n]] # NoNode
      BY <1>1, <3>1 DEF Closed
    <3>. QED BY <1>1, <1>2, <1>5, <1>6, <2>2, <3>2
  <2>. QED BY <2>1, <2>2
<1>. QED BY <1>4, <1>7, <1>8 DEF Closed, m

LEMMA RemoveHeadClosed ==
  ASSUME NEW l \in List, Closed(l), ~ListEmpty(l)
  PROVE  HeadOf(l) \in Action /\ RemoveHead(l) \in List /\ Closed(RemoveHead(l))
<1>. DEFINE a == l.next[QHead]
            m == RemoveHead(l)
            prev1 == [l.prev EXCEPT ![l.next[a]] = l.prev[a]]
<1>1. /\ l.next \in [Node -> Node \cup {NoNode}]
      /\ l.prev \in [Node -> Node \cup {NoNode}]
      /\ QHead \in Node /\ NoNode \notin Node
  BY QHeadAssumption DEF List, Node
<1>2. a \in Action /\ a \in Node
  BY <1>1 DEF Closed, ListEmpty, Node
<1>3. /\ l.next[a] \in Node /\ l.prev[a] \in Node
      /\ l.next[l.next[a]] # NoNode /\ l.next[l.prev[a]] # NoNode
  BY <1>1, <1>2 DEF Closed
<1>4. prev1[a] = l.prev[a]
  BY <1>1, <1>2
<1>5. m.next = [l.next EXCEPT ![l.prev[a]] = l.next[a]] /\ m.prev = prev1
  BY <1>4 DEF RemoveHead, Unlink, HeadOf
<1>6. m \in List
  BY <1>1, <1>2, <1>3, <1>4 DEF RemoveHead, Unlink, HeadOf, List
<1>. HIDE DEF m
<1>7. \A n \in Node : m.next[n] = IF n = l.prev[a] THEN l.next[a] ELSE l.next[n]
  BY <1>1, <1>5
<1>8. \A n \in Node : m.prev[n] = IF n = l.next[a] THEN l.prev[a] ELSE l.prev[n]
  BY <1>1, <1>5
<1>9. \A n \in Node : m.next[n] # NoNode <=> l.next[n] # NoNode
  BY <1>1, <1>3, <1>7
<1>10. \A n \in Node : l.next[n] # NoNode =>
         l.next[n] \in Node /\ l.prev[n] \in Node
         /\ l.next[l.next[n]] # NoNode /\ l.next[l.prev[n]] # NoNode
  BY <1>1 DEF Closed
<1>11. ASSUME NEW n \in Node, m.next[n] # NoNode
       PROVE  m.prev[n] # NoNode /\ m.next[m.next[n]] # NoNode /\ m.next[m.prev[n]] # NoNode
  <2>1. l.next[n] # NoNode
    BY <1>9, <1>11
  <2>2. m.next[n] \in Node /\ l.next[m.next[n]] # NoNode
    BY <1>3, <1>7, <1>10, <2>1
  <2>3. m.prev[n] \in Node /\ l.next[m.prev[n]] # NoNode
    BY <1>3, <1>8, <1>10, <2>1
  <2>. QED BY <1>1, <1>9, <2>2, <2>3
<1>12. m.next[QHead] # NoNode
  BY <1>1, <1>9 DEF Closed
<1>. QED BY <1>2, <1>6, <1>11, <1>12 DEF Closed, m, HeadOf

-----------------------------------------------------------------------------
(***************************************************************************)
(* The steps of a call                                                     *)
(***************************************************************************)
LEMMA QueueKept ==
  ASSUME IInv, UNCHANGED <<list, cur, ip, stage, ready, inbox>>
  PROVE  Closed(list)' /\ CommandInRange' /\ PromiseKept'
  BY DEF IInv, Closed, CommandInRange, PromiseKept

\* A step other than the waitpid() step is done and others are put in its place.
LEMMA WakeupKept ==
  ASSUME IInv, todo # << >>, Head(todo).op # "reap",
         HasReap(Tail(todo)) => HasReap(todo'),
         UNCHANGED <<inited, sigchld>>,
         \A p \in Pid : proc'[p].st = "zombie" => proc[p].st = "zombie"
  PROVE  NoLostSigchld'
<1>1. HasReap(todo) => HasReap(todo')
  BY ReapInTail DEF IInv, TypeOK
<1>. QED BY <1>1 DEF IInv, NoLostSigchld, HasReap

LEMMA ServiceStartInv ==
  ASSUME IInv, todo # << >>, Head(todo).op # "reap",
         NEW s \in Service, NEW args \in BOOLEAN, ServiceStart(s, args)
  PROVE  IInv'
<1>. USE DEF IInv
<1>1. /\ Tail(todo) \in Seq(Op)
      /\ UNCHANGED <<list, cur, ip, inited, stage, needs, ready, inbox, sigchld>>
  BY HeadTailProperties DEF TypeOK, ServiceStart, loopVars
<1>2. Closed(list)' /\ CommandInRange' /\ PromiseKept'
  BY <1>1, QueueKept
<1>3. Cleared(s) \in SUBSET Flag
  BY DEF TypeOK, Cleared
<1>4. CASE StartRunning(s)
  <2>1. TypeOK'
    BY <1>1, <1>3, <1>4 DEF TypeOK, StartRunning
  <2>2. PidsAreTracked'
    BY <1>4 DEF PidsAreTracked, StartRunning
  <2>3. FlagsAgree'
    BY <1>4 DEF FlagsAgree, StartRunning, Cleared, TypeOK
  <2>4. NoLostSigchld'
    BY <1>1, <1>4, WakeupKept DEF StartRunning
  <2>. QED BY <1>2, <2>1, <2>2, <2>3, <2>4
<1>5. CASE StartRefused(s, args)
  <2>1. TypeOK'
    BY <1>1, <1>3, <1>5 DEF TypeOK, StartRefused, Flag
  <2>2. PidsAreTracked'
    BY <1>5 DEF PidsAreTracked, StartRefused
  <2>3. FlagsAgree'
    BY <1>5 DEF FlagsAgree, StartRefused, Cleared, TypeOK
  <2>4. NoLostSigchld'
    BY <1>1, <1>5, WakeupKept DEF StartRefused
  <2>. QED BY <1>2, <2>1, <2>2, <2>3, <2>4
<1>6. CASE StartForkFails(s, args)
  <2>1. TypeOK'
    BY <1>1, <1>3, <1>6 DEF TypeOK, StartForkFails
  <2>2. PidsAreTracked'
    BY <1>6 DEF PidsAreTracked, StartForkFails, TypeOK
  <2>3. FlagsAgree'
    BY <1>6 DEF FlagsAgree, StartForkFails, CanStart, Cleared, TypeOK
  <2>4. NoLostSigchld'
    BY <1>1, <1>6, WakeupKept DEF StartForkFails
  <2>. QED BY <1>2, <2>1, <2>2, <2>3, <2>4
<1>7. CASE StartForks(s, args)
  <2>1. PICK p \in NewPid[FreePid], script \in Scripts[s] :
          /\ pid' = [pid EXCEPT ![s] = p]
          /\ proc' = [proc EXCEPT ![p] = [st |-> "forked", svc |-> s, script |-> script]]
    BY <1>7 DEF StartForks
  <2>2. p \in Pid /\ proc[p] = NoProc /\ p # NoPid
    BY ProcessAssumption DEF FreePid
  <2>3. [st |-> "forked", svc |-> s, script |-> script] \in Process
    BY ProcessAssumption DEF Process
  <2>4. /\ prop' \in [Key -> Value \cup {Unset}]
        /\ todo' \in Seq(Op)
        /\ HasReap(Tail(todo)) => HasReap(todo')
    BY <1>1, <1>7, SetPropEffect, PropertyAssumption DEF StartForks
  <2>5. TypeOK'
    BY <1>1, <1>3, <1>7, <2>1, <2>2, <2>3, <2>4 DEF TypeOK, StartForks, Flag
  <2>6. PidsAreTracked'
    BY <2>1, <2>2 DEF PidsAreTracked, TypeOK, NoProc
  <2>7. FlagsAgree'
    BY <1>7, <2>1, <2>2 DEF FlagsAgree, StartForks, Cleared, CanStart, TypeOK, Flag
  <2>8. \A q \in Pid : proc'[q].st = "zombie" => proc[q].st = "zombie"
    BY <2>1, <2>2 DEF TypeOK
  <2>9. NoLostSigchld'
    BY <1>1, <2>4, <2>8, WakeupKept
  <2>. QED BY <1>2, <2>5, <2>6, <2>7, <2>9
<1>. QED BY <1>4, <1>5, <1>6, <1>7 DEF ServiceStart

LEMMA ServiceStopInv ==
  ASSUME IInv, todo # << >>, Head(todo).op # "reap",
         NEW s \in Service, NEW how \in {"DISABLED", "RESET"}, ServiceStopOrReset(s, how)
  PROVE  IInv'
<1>. USE DEF IInv
<1>1. /\ Tail(todo) \in Seq(Op)
      /\ UNCHANGED <<pid, clock, list, cur, ip, inited, stage, needs, ready, inbox, sigchld>>
  BY HeadTailProperties DEF TypeOK, ServiceStopOrReset, loopVars
<1>2. Closed(list)' /\ CommandInRange' /\ PromiseKept'
  BY <1>1, QueueKept
<1>3. \E v \in {"stopping", "stopped"} : SetProp(s, v, Tail(todo))
  BY DEF ServiceStopOrReset
<1>4. /\ prop' \in [Key -> Value \cup {Unset}]
      /\ todo' \in Seq(Op)
      /\ HasReap(Tail(todo)) => HasReap(todo')
  BY <1>1, <1>3, SetPropEffect, PropertyAssumption
<1>5. /\ proc' \in [Pid -> Process \cup {NoProc}]
      /\ \A p \in Pid : /\ proc'[p].st = "zombie" => proc[p].st = "zombie"
                        /\ proc[p] # NoProc => proc'[p] # NoProc /\ proc'[p].svc = proc[p].svc
  <2>1. CASE proc' = proc
    BY <2>1 DEF TypeOK
  <2>2. CASE pid[s] # NoPid /\ proc[pid[s]].st = "grouped"
    <3>. DEFINE p == pid[s]
    <3>1. p \in Pid /\ proc[p] \in Process
      BY <2>2 DEF TypeOK, NoProc
    <3>2. proc' = [proc EXCEPT ![p].st = "dying"]
      BY <2>2 DEF ServiceStopOrReset, Kill
    <3>3. [proc[p] EXCEPT !.st = "dying"] \in Process
      BY <3>1 DEF Process
    <3>4. proc'[p] # NoProc /\ proc'[p].st = "dying" /\ proc'[p].svc = proc[p].svc
      BY <3>1, <3>2 DEF TypeOK, Process, NoProc
    <3>. QED BY <3>1, <3>2, <3>3, <3>4 DEF TypeOK
  <2>. QED BY <2>1, <2>2 DEF ServiceStopOrReset, Kill
<1>6. /\ flags' \in [Service -> SUBSET Flag]
      /\ flags'[s] \cap {"RUNNING", "RESTARTING"} = {}
      /\ \A t \in Service \ {s} : flags'[t] = flags[t]
  BY DEF TypeOK, ServiceStopOrReset, Flag
<1>7. TypeOK'
  BY <1>1, <1>4, <1>5, <1>6 DEF TypeOK
<1>8. ASSUME NEW t \in Service, pid'[t] # NoPid
      PROVE  proc'[pid'[t]] # NoProc /\ proc'[pid'[t]].svc = t
  <2>1. pid'[t] = pid[t] /\ pid[t] \in Pid
    BY <1>1, <1>8 DEF TypeOK
  <2>2. proc[pid[t]] # NoProc /\ proc[pid[t]].svc = t
    BY <1>8, <2>1 DEF PidsAreTracked
  <2>. QED BY <1>5, <2>1, <2>2
<1>9. FlagsAgree'
  BY <1>1, <1>6 DEF FlagsAgree
<1>10. NoLostSigchld'
  BY <1>1, <1>4, <1>5, WakeupKept
<1>11. PidsAreTracked'
  BY <1>8 DEF PidsAreTracked
<1>. QED BY <1>2, <1>7, <1>9, <1>10, <1>11

LEMMA ReapInv ==
  ASSUME IInv, todo # << >>, Head(todo).op = "reap", Reap
  PROVE  IInv'
<1>. USE DEF IInv
<1>1. PICK p \in Pid :
        /\ proc[p].st = "zombie"
        /\ proc' = [proc EXCEPT ![p] = NoProc]
        /\ ReapUntracked(p) \/ \E s \in Service : ReapService(p, s)
  BY DEF Reap
<1>2. /\ todo \in Seq(Op) /\ HasReap(todo) /\ p # NoPid
      /\ UNCHANGED <<clock, list, cur, ip, inited, stage, needs, ready, inbox, sigchld>>
  BY LenProperties, ProcessAssumption DEF TypeOK, Reap, loopVars, HasReap
<1>3. Closed(list)' /\ CommandInRange' /\ PromiseKept'
  BY <1>2, QueueKept
<1>4. proc' \in [Pid -> Process \cup {NoProc}]
  BY <1>1 DEF TypeOK
<1>5. CASE ReapUntracked(p)
  <2>1. UNCHANGED <<flags, pid, prop, todo>> /\ \A s \in Service : pid[s] # p
    BY <1>5 DEF ReapUntracked, Owner
  <2>2. TypeOK'
    BY <1>2, <1>4, <2>1 DEF TypeOK
  <2>3. PidsAreTracked'
    BY <1>1, <2>1 DEF PidsAreTracked, TypeOK
  <2>4. FlagsAgree'
    BY <2>1 DEF FlagsAgree
  <2>5. NoLostSigchld'
    BY <1>2, <2>1 DEF NoLostSigchld, HasReap
  <2>. QED BY <1>3, <2>2, <2>3, <2>4, <2>5
<1>6. CASE \E s \in Service : ReapService(p, s)
  <2>1. PICK s \in Service : ReapService(p, s)
    BY <1>6
  <2>2. pid[s] = p /\ pid' = [pid EXCEPT ![s] = NoPid]
    BY <2>1 DEF ReapService, Owner
  <2>3. "RESTARTING" \notin flags[s]
    BY <1>2, <2>2 DEF FlagsAgree
  <2>. DEFINE f == ExitFlags(s)
  <2>4. f \in SUBSET Flag /\ f \subseteq {"DISABLED", "RESET"}
    BY <2>3 DEF TypeOK, Flag, ExitFlags
  <2>. HIDE DEF f
  <2>5. PidsAreTracked'
    BY <1>1, <2>2 DEF PidsAreTracked, TypeOK
  <2>6. CASE f \cap {"DISABLED", "RESET"} # {}
    <3>1. flags' = [flags EXCEPT ![s] = f] /\ SetProp(s, "stopped", todo)
        BY <2>1, <2>6 DEF ReapService, StaysDown, f
    <3>2. /\ prop' \in [Key -> Value \cup {Unset}]
          /\ todo' \in Seq(Op)
          /\ HasReap(todo')
      BY <1>2, <3>1, SetPropEffect, PropertyAssumption
    <3>3. TypeOK'
      BY <1>2, <1>4, <2>2, <2>4, <3>1, <3>2 DEF TypeOK
    <3>4. FlagsAgree'
      BY <2>2, <2>4, <3>1 DEF FlagsAgree, TypeOK
    <3>5. NoLostSigchld'
      BY <3>2 DEF NoLostSigchld, HasReap
    <3>. QED BY <1>3, <2>5, <3>3, <3>4, <3>5
  <2>7. CASE f \cap {"DISABLED", "RESET"} = {}
    <3>. DEFINE first == OnRestartOps(s) \o <<[op |-> "restarting", svc |-> s]>>
    <3>1. /\ flags' = [flags EXCEPT ![s] = f \cup {"RESTARTING"}]
          /\ UNCHANGED prop
          /\ todo' = first \o todo
      BY <2>1, <2>7 DEF ReapService, StaysDown, f
    <3>2. first \in Seq(Op)
      <4>1. [op |-> "restarting", svc |-> s] \in Op
        BY DEF Op, SvcOp
      <4>2. <<[op |-> "restarting", svc |-> s]>> \in Seq(Op)
        BY <4>1
      <4>. QED BY <4>2, OnRestartOpsType, ConcatProperties
    <3>. HIDE DEF first
    <3>3. todo' \in Seq(Op) /\ HasReap(todo')
      BY <1>2, <3>1, <3>2, ReapInConcat, ConcatProperties
    <3>4. f = {}
      BY <2>4, <2>7
    <3>5. flags' = [flags EXCEPT ![s] = {"RESTARTING"}]
      BY <3>1, <3>4
    <3>6. TypeOK'
      BY <1>2, <1>4, <2>2, <3>1, <3>3, <3>5 DEF TypeOK, Flag
    <3>7. FlagsAgree'
      BY <2>2, <3>5 DEF FlagsAgree, TypeOK
    <3>8. NoLostSigchld'
      BY <3>3 DEF NoLostSigchld, HasReap
    <3>. QED BY <1>3, <2>5, <3>6, <3>7, <3>8
  <2>. QED BY <2>6, <2>7
<1>. QED BY <1>1, <1>5, <1>6

LEMMA ReapDoneInv ==
  ASSUME IInv, todo # << >>, ReapDone
  PROVE  IInv'
<1>. USE DEF IInv
<1>1. /\ todo' \in Seq(Op)
      /\ UNCHANGED <<svcVars, prop, list, cur, ip, inited, stage, needs, ready, inbox, sigchld>>
  BY HeadTailProperties DEF TypeOK, ReapDone, loopVars
<1>2. Closed(list)' /\ CommandInRange' /\ PromiseKept'
  BY <1>1, QueueKept
<1>3. TypeOK' /\ PidsAreTracked' /\ FlagsAgree'
  BY <1>1 DEF TypeOK, PidsAreTracked, FlagsAgree, svcVars
<1>4. NoLostSigchld'
  BY <1>1 DEF NoLostSigchld, ReapDone, svcVars
<1>. QED BY <1>2, <1>3, <1>4

\* A step that is just done, or replaced, without touching a service.
LEMMA PlainStepInv ==
  ASSUME IInv, todo # << >>, Head(todo).op # "reap",
         todo' \in Seq(Op), HasReap(Tail(todo)) => HasReap(todo'),
         prop' \in [Key -> Value \cup {Unset}],
         list' \in List, Closed(list)', needs' \in SUBSET Service,
         UNCHANGED <<svcVars, cur, ip, inited, stage, ready, inbox, sigchld>>
  PROVE  IInv'
<1>. USE DEF IInv
<1>1. TypeOK' /\ PidsAreTracked' /\ FlagsAgree'
  BY DEF TypeOK, PidsAreTracked, FlagsAgree, svcVars
<1>2. CommandInRange' /\ PromiseKept'
  BY DEF CommandInRange, PromiseKept
<1>3. NoLostSigchld'
  BY WakeupKept DEF svcVars
<1>. QED BY <1>1, <1>2, <1>3

LEMMA StepInv ==
  ASSUME IInv, Step
  PROVE  IInv'
<1>. DEFINE o == Head(todo)
<1>1. todo # << >> /\ o \in Op /\ Tail(todo) \in Seq(Op)
  BY HeadTailProperties DEF Step, IInv, TypeOK
<1>2. /\ o.op \in SvcOp => o.svc \in Service
      /\ o.op \in {"enqueue", "enqueue_matching"} => o.act \in Action
      /\ o.op = "set" => o.key \in Key /\ o.val \in Value
      /\ o.op = "onrestart" => o.cmd \in RcCommand
  BY <1>1, OpFields
<1>. HIDE DEF o
<1>3. ASSUME Skip, o.op # "reap" PROVE IInv'
  <2>1. /\ todo' = Tail(todo)
        /\ UNCHANGED <<svcVars, prop, list, cur, ip, inited, stage, needs, ready, inbox, sigchld>>
    BY <1>3 DEF Skip, loopVars
  <2>2. /\ todo' \in Seq(Op) /\ prop' \in [Key -> Value \cup {Unset}]
        /\ list' \in List /\ Closed(list)' /\ needs' \in SUBSET Service
    BY <1>1, <2>1 DEF IInv, TypeOK, Closed
  <2>. QED BY <1>1, <1>3, <2>1, <2>2, PlainStepInv DEF o
<1>4. CASE ServiceStep(o)
  <2>. USE DEF SvcOp
  <2>1. ASSUME NEW args \in BOOLEAN, o.op \in SvcOp, ServiceStart(o.svc, args) PROVE IInv'
    BY <1>1, <1>2, <2>1, ServiceStartInv DEF o
  <2>2. ASSUME NEW how \in {"DISABLED", "RESET"}, o.op \in SvcOp, ServiceStopOrReset(o.svc, how)
        PROVE  IInv'
    BY <1>1, <1>2, <2>2, ServiceStopInv DEF o
  <2>3. CASE o.op = "respawn" /\ Respawn(o.svc)
    <3>1. CASE RespawnLater(o.svc)
      <4>1. /\ todo' = Tail(todo) /\ needs' = needs \cup {o.svc}
            /\ UNCHANGED <<svcVars, prop, list, cur, ip, inited, stage, ready, inbox, sigchld>>
        BY <3>1 DEF RespawnLater
      <4>2. /\ todo' \in Seq(Op) /\ prop' \in [Key -> Value \cup {Unset}]
            /\ list' \in List /\ Closed(list)' /\ needs' \in SUBSET Service
        BY <1>1, <1>2, <2>3, <4>1 DEF IInv, TypeOK, Closed
      <4>. QED BY <1>1, <2>3, <4>1, <4>2, PlainStepInv DEF o
    <3>. QED BY <1>3, <2>1, <2>3, <3>1 DEF Respawn
  <2>4. CASE o.op = "start_enabled" /\ StartIfNotDisabled(o.svc)
    BY <1>3, <2>1, <2>4 DEF StartIfNotDisabled
  <2>. QED BY <1>4, <2>1, <2>2, <2>3, <2>4 DEF ServiceStep
<1>5. CASE PropertyStep(o)
  <2>1. /\ o.op # "reap"
        /\ \E k \in Key, v \in Value : SetProp(k, v, Tail(todo))
        /\ UNCHANGED <<svcVars, list, cur, ip, inited, stage, needs, ready, inbox, sigchld>>
    BY <1>2, <1>5, PropertyAssumption DEF PropertyStep, loopVars, SvcOp
  <2>2. /\ todo' \in Seq(Op) /\ (HasReap(Tail(todo)) => HasReap(todo'))
        /\ prop' \in [Key -> Value \cup {Unset}]
    BY <1>1, <2>1, SetPropEffect DEF IInv
  <2>3. list' \in List /\ Closed(list)' /\ needs' \in SUBSET Service
    BY <2>1 DEF IInv, TypeOK, Closed
  <2>. QED BY <1>1, <2>1, <2>2, <2>3, PlainStepInv DEF o
<1>6. CASE QueueStep(o)
  <2>1. /\ o.op \in {"enqueue", "enqueue_matching"}
        /\ todo' = Tail(todo)
        /\ UNCHANGED <<svcVars, prop, cur, ip, inited, stage, needs, ready, inbox, sigchld>>
        /\ list' = list \/ list' = AddTail(list, o.act)
    BY <1>6 DEF QueueStep, loopVars
  <2>2. list' \in List /\ Closed(list)'
    BY <1>2, <2>1, AddTailClosed DEF IInv, TypeOK, Closed
  <2>3. /\ todo' \in Seq(Op) /\ needs' \in SUBSET Service
        /\ prop' \in [Key -> Value \cup {Unset}]
    BY <1>1, <2>1 DEF IInv, TypeOK
  <2>. QED BY <1>1, <2>1, <2>2, <2>3, PlainStepInv DEF o
<1>7. CASE CommandStep(o)
  <2>1. /\ o.op = "onrestart"
        /\ todo' = Expand(o.cmd) \o Tail(todo)
        /\ UNCHANGED <<svcVars, prop, list, cur, ip, inited, stage, needs, ready, inbox, sigchld>>
    BY <1>7 DEF CommandStep, loopVars
  <2>2. Expand(o.cmd) \in Seq(Op)
    BY <1>2, <2>1, ExpandType DEF Command
  <2>3. todo' \in Seq(Op) /\ (HasReap(Tail(todo)) => HasReap(todo'))
    BY <1>1, <2>1, <2>2, ConcatProperties, ReapInConcat
  <2>4. /\ list' \in List /\ Closed(list)' /\ needs' \in SUBSET Service
        /\ prop' \in [Key -> Value \cup {Unset}]
    BY <2>1 DEF IInv, TypeOK, Closed
  <2>. QED BY <1>1, <2>1, <2>3, <2>4, PlainStepInv DEF o
<1>8. CASE o.op = "reap" /\ (Reap \/ ReapDone)
  BY <1>1, <1>8, ReapInv, ReapDoneInv DEF o
<1>. QED BY <1>4, <1>5, <1>6, <1>7, <1>8 DEF Step, o

-----------------------------------------------------------------------------
(***************************************************************************)
(* The statements of the loop                                              *)
(***************************************************************************)

\* Nothing waits to be reaped unseen when no call is in progress.
LEMMA WakeupAtRest ==
  ASSUME IInv, todo = << >>
  PROVE  "signals" \in inited /\ (\E p \in Pid : proc[p].st = "zombie") => sigchld
  BY DEF IInv, NoLostSigchld

LEMMA RunEffect ==
  ASSUME IInv, todo = << >>, NEW c \in Command, Run(c), UNCHANGED <<proc, sigchld>>
  PROVE  /\ todo' \in Seq(Op)
         /\ inited' \subseteq {"property_service", "signals", "triggers"}
         /\ NoLostSigchld'
<1>1. todo' \in Seq(Op)
  BY ExpandType DEF Run
<1>2. inited' \subseteq {"property_service", "signals", "triggers"}
  BY DEF Run, IInv, TypeOK
<1>3. CASE c.cmd = "signal_init"
  <2>1. todo' = <<[op |-> "reap"]>>
    BY <1>3 DEF Run, Expand
  <2>2. 1 \in DOMAIN todo' /\ todo'[1].op = "reap"
    BY <2>1
  <2>. QED BY <1>1, <1>2, <2>2 DEF NoLostSigchld
<1>4. CASE c.cmd # "signal_init"
  <2>1. "signals" \in inited' => "signals" \in inited
    BY <1>4 DEF Run
  <2>. QED BY <1>1, <1>2, <2>1, WakeupAtRest DEF NoLostSigchld
<1>. QED BY <1>3, <1>4

LEMMA ExecuteOneCommandInv ==
  ASSUME IInv, ExecuteOneCommand
  PROVE  IInv'
<1>. USE DEF IInv
<1>1. /\ todo = << >> /\ stage' = "restart"
      /\ UNCHANGED <<flags, pid, clock, proc, prop, needs, ready, inbox, sigchld>>
  BY DEF ExecuteOneCommand, Ready, svcVars
<1>2. PidsAreTracked' /\ FlagsAgree' /\ PromiseKept'
  BY <1>1 DEF PidsAreTracked, FlagsAgree, PromiseKept
<1>3. CASE CommandDone /\ NoCommand
  <2>1. TypeOK'
    BY <1>1, <1>3 DEF TypeOK, NoCommand
  <2>2. Closed(list)' /\ CommandInRange'
    BY <1>3, ActionAssumption DEF NoCommand, Closed, CommandInRange
  <2>3. NoLostSigchld'
    BY <1>1, <1>3 DEF NoCommand, NoLostSigchld
  <2>. QED BY <1>2, <2>1, <2>2, <2>3
<1>4. CASE CommandDone /\ NextAction
  <2>. DEFINE a == HeadOf(list)
  <2>1. a \in Action /\ list' \in List /\ Closed(list)'
    BY <1>4, RemoveHeadClosed DEF NextAction, TypeOK, Closed
  <2>2. cur' = a /\ Commands[a] \in Seq(Command)
    BY <1>4, <2>1, ActionAssumption DEF NextAction
  <2>. HIDE DEF a
  <2>3. CASE Commands[a] = << >>
    <3>1. ip' = 0 /\ UNCHANGED <<todo, inited>>
      BY <1>4, <2>3 DEF NextAction, a
    <3>2. TypeOK' /\ CommandInRange'
      BY <1>1, <2>1, <2>2, <2>3, <3>1 DEF TypeOK, CommandInRange
    <3>3. NoLostSigchld'
      BY <1>1, <3>1 DEF NoLostSigchld
    <3>. QED BY <1>2, <2>1, <3>2, <3>3
  <2>4. CASE Commands[a] # << >>
    <3>1. ip' = 1 /\ Run(Commands[a][1])
      BY <1>4, <2>4 DEF NextAction, a
    <3>2. Len(Commands[a]) \in Nat /\ 1 <= Len(Commands[a]) /\ Commands[a][1] \in Command
      BY <2>2, <2>4, LenProperties, EmptySeq, ElementOfSeq
    <3>3. /\ todo' \in Seq(Op)
          /\ inited' \subseteq {"property_service", "signals", "triggers"}
          /\ NoLostSigchld'
      BY <1>1, <3>1, <3>2, RunEffect
    <3>4. TypeOK' /\ CommandInRange'
      BY <1>1, <2>1, <2>2, <3>1, <3>2, <3>3 DEF TypeOK, CommandInRange
    <3>. QED BY <1>2, <2>1, <3>3, <3>4
  <2>. QED BY <2>3, <2>4
<1>5. CASE ~CommandDone /\ NextCommand
  <2>1. /\ cur \in Action /\ ip \in Nat /\ ip <= Len(Commands[cur]) /\ ip # Len(Commands[cur])
        /\ Commands[cur] \in Seq(Command) /\ Len(Commands[cur]) \in Nat
    BY <1>5, ActionAssumption, LenProperties DEF CommandDone, CommandInRange, TypeOK
  <2>2. ip + 1 \in 1..Len(Commands[cur]) /\ Commands[cur][ip + 1] \in Command
    BY <2>1, ElementOfSeq
  <2>3. /\ ip' = ip + 1 /\ Run(Commands[cur][ip + 1])
        /\ UNCHANGED <<cur, list>>
    BY <1>5 DEF NextCommand
  <2>4. /\ todo' \in Seq(Op)
        /\ inited' \subseteq {"property_service", "signals", "triggers"}
        /\ NoLostSigchld'
    BY <1>1, <2>2, <2>3, RunEffect
  <2>5. TypeOK' /\ CommandInRange'
    BY <1>1, <2>1, <2>2, <2>3, <2>4 DEF TypeOK, CommandInRange
  <2>6. Closed(list)'
    BY <2>3 DEF Closed
  <2>. QED BY <1>2, <2>4, <2>5, <2>6
<1>. QED BY <1>3, <1>4, <1>5 DEF ExecuteOneCommand

LEMMA RestartProcessesInv ==
  ASSUME IInv, RestartProcesses
  PROVE  IInv'
<1>. USE DEF IInv
<1>1. /\ todo = << >> /\ stage' = "poll" /\ needs' = {}
      /\ todo' = SvcOps("respawn", ServiceOrder)
      /\ UNCHANGED <<flags, pid, clock, proc, prop, list, cur, ip, inited, ready, inbox, sigchld>>
  BY DEF RestartProcesses, Ready, svcVars
<1>2. todo' \in Seq(Op)
  BY <1>1, SvcOpsType, ServiceAssumption DEF SvcOp
<1>3. TypeOK'
  BY <1>1, <1>2 DEF TypeOK
<1>4. Closed(list)' /\ CommandInRange' /\ PromiseKept' /\ PidsAreTracked' /\ FlagsAgree'
  BY <1>1 DEF Closed, CommandInRange, PromiseKept, PidsAreTracked, FlagsAgree
<1>5. NoLostSigchld'
  BY <1>1, WakeupAtRest DEF NoLostSigchld
<1>. QED BY <1>3, <1>4, <1>5

LEMMA PollInv ==
  ASSUME IInv, Poll
  PROVE  IInv'
<1>. USE DEF IInv
<1>1. /\ stage' = "property"
      /\ ready' = (IF inbox # << >> THEN {"property"} ELSE {})
                   \cup (IF sigchld THEN {"signal"} ELSE {})
      /\ UNCHANGED <<flags, pid, clock, proc, prop, list, cur, ip, inited, needs, todo,
                     inbox, sigchld>>
  BY DEF Poll, svcVars
<1>2. TypeOK'
  BY <1>1 DEF TypeOK
<1>3. PromiseKept'
  BY <1>1 DEF PromiseKept
<1>4. Closed(list)' /\ CommandInRange' /\ PidsAreTracked' /\ FlagsAgree' /\ NoLostSigchld'
  BY <1>1 DEF Closed, CommandInRange, PidsAreTracked, FlagsAgree, NoLostSigchld
<1>. QED BY <1>2, <1>3, <1>4

LEMMA HandlePropertySetFdInv ==
  ASSUME IInv, HandlePropertySetFd
  PROVE  IInv'
<1>. USE DEF IInv
<1>1. /\ todo = << >> /\ stage = "property" /\ stage' = "signal"
      /\ UNCHANGED <<flags, pid, clock, proc, list, cur, ip, inited, needs, ready, sigchld>>
  BY DEF HandlePropertySetFd, Ready, svcVars
<1>2. /\ inbox' \in Seq(Message) /\ todo' \in Seq(Op)
      /\ prop' \in [Key -> Value \cup {Unset}]
  <2>1. CASE "property" \in ready
    <3>. DEFINE m == Head(inbox)
    <3>1. m \in Message /\ inbox' = Tail(inbox) /\ Tail(inbox) \in Seq(Message)
      BY <1>1, <2>1, HeadTailProperties DEF HandlePropertySetFd, PromiseKept, TypeOK
    <3>. HIDE DEF m
    <3>2. CASE m.msg = "denied"
      <4>1. UNCHANGED <<prop, todo>>
        BY <2>1, <3>2 DEF HandlePropertySetFd, m
      <4>. QED BY <3>1, <4>1 DEF TypeOK
    <3>3. CASE m.msg = "set"
      <4>1. SetProp(m.key, m.val, << >>)
        BY <2>1, <3>3 DEF HandlePropertySetFd, m
      <4>2. m.key \in Key /\ m.val \in Value /\ << >> \in Seq(Op)
        BY <3>1, <3>3 DEF Message
      <4>. QED BY <3>1, <4>1, <4>2, SetPropEffect
    <3>4. CASE m.msg \notin {"denied", "set"}
      <4>1. todo' = ControlOps(m) /\ UNCHANGED prop
        BY <2>1, <3>4 DEF HandlePropertySetFd, m
      <4>. QED BY <3>1, <3>4, <4>1, ControlOpsType DEF TypeOK
    <3>. QED BY <3>2, <3>3, <3>4
  <2>2. CASE "property" \notin ready
    BY <2>2 DEF HandlePropertySetFd, TypeOK
  <2>. QED BY <2>1, <2>2
<1>3. TypeOK'
  BY <1>1, <1>2 DEF TypeOK
<1>4. Closed(list)' /\ CommandInRange' /\ PromiseKept' /\ PidsAreTracked' /\ FlagsAgree'
  BY <1>1 DEF Closed, CommandInRange, PromiseKept, PidsAreTracked, FlagsAgree
<1>5. NoLostSigchld'
  BY <1>1, WakeupAtRest DEF NoLostSigchld
<1>. QED BY <1>3, <1>4, <1>5

LEMMA HandleSignalInv ==
  ASSUME IInv, HandleSignal
  PROVE  IInv'
<1>. USE DEF IInv
<1>1. /\ todo = << >> /\ stage' = "execute"
      /\ UNCHANGED <<flags, pid, clock, proc, prop, list, cur, ip, inited, needs, ready, inbox>>
  BY DEF HandleSignal, Ready, svcVars
<1>2. Closed(list)' /\ CommandInRange' /\ PromiseKept' /\ PidsAreTracked' /\ FlagsAgree'
  BY <1>1 DEF Closed, CommandInRange, PromiseKept, PidsAreTracked, FlagsAgree
<1>3. CASE "signal" \in ready
  <2>1. sigchld' = FALSE /\ todo' = <<[op |-> "reap"]>>
    BY <1>3 DEF HandleSignal
  <2>2. todo' \in Seq(Op) /\ 1 \in DOMAIN todo' /\ todo'[1].op = "reap"
    BY <2>1 DEF Op
  <2>3. TypeOK'
    BY <1>1, <2>1, <2>2 DEF TypeOK
  <2>4. NoLostSigchld'
    BY <2>2 DEF NoLostSigchld
  <2>. QED BY <1>2, <2>3, <2>4
<1>4. CASE "signal" \notin ready
  <2>1. UNCHANGED <<sigchld, todo>>
    BY <1>4 DEF HandleSignal
  <2>2. TypeOK' /\ NoLostSigchld'
    BY <1>1, <2>1 DEF TypeOK, NoLostSigchld
  <2>. QED BY <1>2, <2>2
<1>. QED BY <1>3, <1>4

-----------------------------------------------------------------------------
(***************************************************************************)
(* The processes, the clients and the clock                                *)
(***************************************************************************)

\* A process that is neither forked nor reaped by the step stays what it was.
LEMMA ProcessStepInv ==
  ASSUME IInv, NEW p \in Pid, NEW q \in Process,
         proc[p] # NoProc, q.svc = proc[p].svc,
         proc' = [proc EXCEPT ![p] = q],
         inbox' \in Seq(Message), inbox # << >> => inbox' # << >>,
         sigchld' \in BOOLEAN, sigchld => sigchld',
         q.st = "zombie" /\ "signals" \in inited => sigchld',
         UNCHANGED <<flags, pid, clock, prop, list, cur, ip, inited, stage, needs, ready, todo>>
  PROVE  IInv'
<1>. USE DEF IInv
<1>1. TypeOK'
  BY DEF TypeOK
<1>2. Closed(list)' /\ CommandInRange' /\ PromiseKept' /\ FlagsAgree'
  BY DEF Closed, CommandInRange, PromiseKept, FlagsAgree
<1>3. q # NoProc
  BY DEF Process, NoProc
<1>4. PidsAreTracked'
  BY <1>3 DEF PidsAreTracked, TypeOK
<1>5. NoLostSigchld'
  BY DEF NoLostSigchld, TypeOK
<1>. QED BY <1>1, <1>2, <1>4, <1>5

LEMMA ProcessInv ==
  ASSUME IInv, NEW p \in Pid, Kernel(p) \/ Crash(p)
  PROVE  IInv'
<1>. USE DEF IInv
<1>1. /\ proc[p].st \in {"forked", "grouped", "dying"}
      /\ UNCHANGED <<flags, pid, clock, prop, list, cur, ip, inited, stage, needs, ready, todo>>
  BY DEF Kernel, Crash, SetPgid, Finish, Die, ServiceSend, BecomeZombie, loopVars
<1>2. proc[p] \in Process /\ proc[p] # NoProc
  BY <1>1 DEF TypeOK, NoProc
<1>3. \A st \in {"grouped", "zombie"} :
        LET q == [proc[p] EXCEPT !.st = st]
        IN  q \in Process /\ q.st = st /\ q.svc = proc[p].svc
  BY <1>2 DEF Process
<1>4. inbox \in Seq(Message) /\ sigchld \in BOOLEAN
  BY DEF TypeOK
<1>5. CASE SetPgid(p)
  <2>1. /\ proc' = [proc EXCEPT ![p] = [proc[p] EXCEPT !.st = "grouped"]]
        /\ UNCHANGED <<inbox, sigchld>>
    BY <1>5 DEF SetPgid
  <2>. QED BY <1>1, <1>2, <1>3, <1>4, <2>1, ProcessStepInv
<1>6. CASE BecomeZombie(p)
  <2>1. /\ proc' = [proc EXCEPT ![p] = [proc[p] EXCEPT !.st = "zombie"]]
        /\ sigchld' = (sigchld \/ "signals" \in inited)
        /\ UNCHANGED inbox
    BY <1>6 DEF BecomeZombie
  <2>. QED BY <1>1, <1>2, <1>3, <1>4, <2>1, ProcessStepInv
<1>7. CASE ServiceSend(p)
  <2>. DEFINE q == [proc[p] EXCEPT !.script = Tail(@)]
  <2>1. /\ proc' = [proc EXCEPT ![p] = q]
        /\ inbox' = Append(inbox, Head(proc[p].script))
        /\ UNCHANGED sigchld
        /\ proc[p].script # << >> /\ proc[p].st = "grouped"
    BY <1>7 DEF ServiceSend
  <2>2. Head(proc[p].script) \in Message /\ Tail(proc[p].script) \in Seq(Message)
    BY <1>2, <2>1, HeadTailProperties DEF Process
  <2>3. q \in Process /\ q.svc = proc[p].svc /\ q.st # "zombie"
    BY <1>2, <2>1, <2>2 DEF Process
  <2>4. inbox' \in Seq(Message) /\ inbox' # << >>
    BY <1>4, <2>1, <2>2, AppendProperties
  <2>. HIDE DEF q
  <2>. QED BY <1>1, <1>2, <1>4, <2>1, <2>3, <2>4, ProcessStepInv
<1>. QED BY <1>5, <1>6, <1>7 DEF Kernel, Crash, Finish, Die

LEMMA ClientSendInv ==
  ASSUME IInv, NEW m \in ClientMessage, ClientSend(m)
  PROVE  IInv'
<1>. USE DEF IInv
<1>1. /\ inbox' = Append(inbox, m)
      /\ UNCHANGED <<flags, pid, clock, proc, prop, list, cur, ip, inited, stage, needs, ready,
                     todo, sigchld>>
  BY DEF ClientSend, svcVars, loopVars
<1>2. inbox' \in Seq(Message) /\ inbox' # << >>
  BY <1>1, AppendProperties, PropertyAssumption DEF TypeOK
<1>3. TypeOK' /\ PromiseKept'
  BY <1>1, <1>2 DEF TypeOK, PromiseKept
<1>4. Closed(list)' /\ CommandInRange' /\ PidsAreTracked' /\ FlagsAgree' /\ NoLostSigchld'
  BY <1>1 DEF Closed, CommandInRange, PidsAreTracked, FlagsAgree, NoLostSigchld
<1>. QED BY <1>3, <1>4

LEMMA RestInv ==
  ASSUME IInv, Rest
  PROVE  IInv'
<1>. USE DEF IInv
<1>1. /\ clock' = [s \in Service |-> IF clock[s] = "started" THEN "rested" ELSE clock[s]]
      /\ UNCHANGED <<flags, pid, proc, prop, list, cur, ip, inited, stage, needs, ready, todo,
                     inbox, sigchld>>
  BY DEF Rest, loopVars
<1>2. TypeOK'
  BY <1>1 DEF TypeOK
<1>3. Closed(list)' /\ CommandInRange' /\ PromiseKept' /\ PidsAreTracked' /\ FlagsAgree'
      /\ NoLostSigchld'
  BY <1>1 DEF Closed, CommandInRange, PromiseKept, PidsAreTracked, FlagsAgree, NoLostSigchld
<1>. QED BY <1>2, <1>3

LEMMA FiveSecondsPassInv ==
  ASSUME IInv, NEW s \in Service, FiveSecondsPass(s)
  PROVE  IInv'
<1>. USE DEF IInv
<1>1. /\ clock' = [clock EXCEPT ![s] = "over"]
      /\ UNCHANGED <<flags, pid, proc, prop, list, cur, ip, inited, stage, needs, ready, todo,
                     inbox, sigchld>>
  BY DEF FiveSecondsPass, loopVars
<1>2. TypeOK'
  BY <1>1 DEF TypeOK
<1>3. Closed(list)' /\ CommandInRange' /\ PromiseKept' /\ PidsAreTracked' /\ FlagsAgree'
      /\ NoLostSigchld'
  BY <1>1 DEF Closed, CommandInRange, PromiseKept, PidsAreTracked, FlagsAgree, NoLostSigchld
<1>. QED BY <1>2, <1>3

-----------------------------------------------------------------------------
LEMMA InitInv ==
  ASSUME Init
  PROVE  IInv
<1>1. list \in List /\ Closed(list)
  BY QHeadAssumption DEF Init, ListInit, List, Node, Closed
<1>2. todo \in Seq(Op)
  BY EnqueuesType, ActionAssumption DEF Init
<1>3. TypeOK
  BY <1>1, <1>2, EmptySeq DEF Init, TypeOK, Flag
<1>4. CommandInRange /\ PromiseKept
  BY ActionAssumption DEF Init, CommandInRange, PromiseKept
<1>5. PidsAreTracked /\ FlagsAgree /\ NoLostSigchld
  BY DEF Init, PidsAreTracked, FlagsAgree, NoLostSigchld
<1>. QED BY <1>1, <1>3, <1>4, <1>5 DEF IInv

LEMMA NextInv ==
  ASSUME IInv, [Next]_vars
  PROVE  IInv'
<1>1. CASE Main
  BY <1>1, StepInv, ExecuteOneCommandInv, RestartProcessesInv, PollInv, HandlePropertySetFdInv,
     HandleSignalInv DEF Main
<1>2. CASE Environment
  BY <1>2, ProcessInv, ClientSendInv, RestInv, FiveSecondsPassInv DEF Environment
<1>3. CASE UNCHANGED vars
  BY <1>3 DEF vars, svcVars, loopVars, IInv, TypeOK, Closed, CommandInRange, PromiseKept,
     PidsAreTracked, FlagsAgree, NoLostSigchld
<1>. QED BY <1>1, <1>2, <1>3 DEF Next

\* Every reachable state of the monitor satisfies the inductive invariant.
THEOREM Invariance == Spec => []IInv
<1>1. Init => IInv
  BY InitInv
<1>2. IInv /\ [Next]_vars => IInv'
  BY NextInv
<1>. QED BY <1>1, <1>2, PTL DEF Spec

\* The variables keep their types: no handler reads a head of an empty list,
\* the command after the last one or an unset pointer of the queue.
THEOREM TypeCorrect == Spec => []TypeOK
  BY Invariance, PTL DEF IInv

\* The pid of a service is always a process forked for it and not yet reaped
\* (init.c, signal_handler.c), whatever pids the kernel hands out again.
THEOREM PidsStayTracked == Spec => []PidsAreTracked
  BY Invariance, PTL DEF IInv

\* SVC_RUNNING, SVC_RESTARTING and the others never contradict each other or
\* the pid (init.c, signal_handler.c).
THEOREM FlagsStayAgreed == Spec => []FlagsAgree
  BY Invariance, PTL DEF IInv

\* A child that exited is never left behind: the SIGCHLD pipe is readable or
\* handle_signal has not finished (signal_handler.c).
THEOREM NoSigchldLost == Spec => []NoLostSigchld
  BY Invariance, PTL DEF IInv
=============================================================================
