--------------------------- MODULE MonitorLifecycle ---------------------------
(***************************************************************************)
(* Theorems about what the monitor tells the rest of the camera: the       *)
(* property init.svc.<name> is true whenever no call is in progress, and   *)
(* the monitor implements ServiceLifecycle.  Both presume two things that  *)
(* misc/init.rc meets: no service is started or stopped by its own         *)
(* onrestart list, and the property area never gets full.                  *)
(***************************************************************************)
EXTENDS MonitorProof, FiniteSetTheorems

-----------------------------------------------------------------------------
(***************************************************************************)
(* The inductive invariant.  Between the exit of a service and the end of  *)
(* its onrestart list its property still reads "running": the step         *)
(* "restarting" is pending, and nothing before it touches the service.     *)
(***************************************************************************)

\* A step that may start, stop or announce service s, itself or in what it
\* expands to; a waitpid() may add any onrestart list.
Touches(o, s) ==
  \/ o.op \in SvcOp /\ o.svc = s
  \/ o.op = "onrestart" /\ \E i \in DOMAIN Expand(o.cmd) :
                              Expand(o.cmd)[i].op \in SvcOp /\ Expand(o.cmd)[i].svc = s
  \/ o.op = "reap"

Announces(o, s) == o.op = "restarting" /\ o.svc = s

Pending(q, s) == \E i \in DOMAIN q : Announces(q[i], s)

\* Nothing before an announcement touches the service it is about.
Orderly(q) ==
  \A s \in Service : \A i \in DOMAIN q : Announces(q[i], s) =>
    \A j \in DOMAIN q : j < i => ~Touches(q[j], s)

Truthful(s) ==
  /\ prop[s] = "running" <=> "RUNNING" \in flags[s]
  /\ "RESTARTING" \in flags[s] => prop[s] = "restarting"

\* A service whose process is still to be reaped runs or has been stopped.
ReapIsForeseen(s) == pid[s] # NoPid => flags[s] # {}

StatusInv ==
  /\ Orderly(todo)
  /\ \A s \in Service :
       /\ IF Pending(todo, s) THEN flags[s] = {"RESTARTING"} ELSE Truthful(s)
       /\ ReapIsForeseen(s)

-----------------------------------------------------------------------------
(***************************************************************************)
(* Lists of steps                                                          *)
(***************************************************************************)
LEMMA ConcatIndices ==
  ASSUME NEW S, NEW q \in Seq(S), NEW r \in Seq(S)
  PROVE  /\ Len(q) \in Nat /\ Len(r) \in Nat
         /\ DOMAIN q = 1..Len(q) /\ DOMAIN r = 1..Len(r)
         /\ DOMAIN (q \o r) = 1..(Len(q) + Len(r))
         /\ \A i \in 1..Len(q) : (q \o r)[i] = q[i]
         /\ \A i \in 1..Len(r) : (q \o r)[Len(q) + i] = r[i]
         /\ \A i \in (Len(q) + 1)..(Len(q) + Len(r)) : i - Len(q) \in 1..Len(r)
                                                      /\ (q \o r)[i] = r[i - Len(q)]
<1>1. /\ Len(q) \in Nat /\ Len(r) \in Nat
      /\ DOMAIN q = 1..Len(q) /\ DOMAIN r = 1..Len(r)
  BY LenProperties
<1>2. /\ DOMAIN (q \o r) = 1..(Len(q) + Len(r))
      /\ \A i \in 1..(Len(q) + Len(r)) :
           (q \o r)[i] = IF i <= Len(q) THEN q[i] ELSE r[i - Len(q)]
  BY <1>1, ConcatProperties, LenProperties
<1>. QED BY <1>1, <1>2

LEMMA TailIndices ==
  ASSUME NEW S, NEW q \in Seq(S), q # << >>
  PROVE  /\ Len(q) \in Nat /\ 1 <= Len(q) /\ DOMAIN q = 1..Len(q)
         /\ DOMAIN Tail(q) = 1..(Len(q) - 1)
         /\ \A i \in 1..(Len(q) - 1) : Tail(q)[i] = q[i + 1]
         /\ Head(q) = q[1]
<1>1. Len(q) \in Nat /\ DOMAIN q = 1..Len(q) /\ Len(q) # 0
  BY LenProperties, EmptySeq
<1>2. Tail(q) \in Seq(S) /\ Len(Tail(q)) = Len(q) - 1
      /\ \A i \in 1..(Len(q) - 1) : Tail(q)[i] = q[i + 1]
  BY <1>1, HeadTailProperties
<1>. QED BY <1>1, <1>2, LenProperties

\* A list with no announcement in it, put before an orderly one that it leaves alone.
LEMMA OrderlyPrefix ==
  ASSUME NEW q \in Seq(Op), NEW r \in Seq(Op), Orderly(r),
         \A s \in Service : ~Pending(q, s),
         \A s \in Service : Pending(r, s) => \A j \in DOMAIN q : ~Touches(q[j], s)
  PROVE  /\ Orderly(q \o r)
         /\ \A s \in Service : Pending(q \o r, s) <=> Pending(r, s)
<1>. DEFINE n == Len(q)
            c == q \o r
<1>1. /\ n \in Nat /\ Len(r) \in Nat /\ DOMAIN q = 1..n /\ DOMAIN r = 1..Len(r)
      /\ DOMAIN c = 1..(n + Len(r))
      /\ \A i \in 1..n : c[i] = q[i]
      /\ \A i \in 1..Len(r) : c[n + i] = r[i]
      /\ \A i \in (n + 1)..(n + Len(r)) : i - n \in 1..Len(r) /\ c[i] = r[i - n]
  BY ConcatIndices
<1>. HIDE DEF n, c
<1>2. ASSUME NEW s \in Service, NEW i \in DOMAIN c, Announces(c[i], s)
      PROVE  i - n \in DOMAIN r /\ Announces(r[i - n], s) /\ n < i
  <2>1. i \notin 1..n
    BY <1>1, <1>2 DEF Pending
  <2>. QED BY <1>1, <1>2, <2>1
<1>3. ASSUME NEW s \in Service, NEW i \in DOMAIN c, Announces(c[i], s),
             NEW j \in DOMAIN c, j < i
      PROVE  ~Touches(c[j], s)
  <2>1. i - n \in DOMAIN r /\ Announces(r[i - n], s) /\ Pending(r, s)
    BY <1>2, <1>3 DEF Pending
  <2>2. CASE j \in 1..n
    BY <1>1, <2>1, <2>2
  <2>3. CASE j \notin 1..n
    <3>1. j - n \in DOMAIN r /\ c[j] = r[j - n] /\ j - n < i - n
      BY <1>1, <1>3, <2>3
    <3>. QED BY <2>1, <3>1 DEF Orderly
  <2>. QED BY <2>2, <2>3
<1>4. ASSUME NEW s \in Service
      PROVE  Pending(c, s) <=> Pending(r, s)
  <2>1. Pending(c, s) => Pending(r, s)
    BY <1>2 DEF Pending
  <2>2. ASSUME Pending(r, s) PROVE Pending(c, s)
    <3>1. PICK i \in DOMAIN r : Announces(r[i], s)
      BY <2>2 DEF Pending
    <3>2. n + i \in DOMAIN c /\ c[n + i] = r[i]
      BY <1>1
    <3>. QED BY <3>1, <3>2 DEF Pending
  <2>. QED BY <2>1, <2>2
<1>. QED BY <1>3, <1>4 DEF Orderly, c

\* An orderly list put before one with no announcement in it.
LEMMA OrderlySuffix ==
  ASSUME NEW q \in Seq(Op), NEW r \in Seq(Op), Orderly(q),
         \A s \in Service : ~Pending(r, s)
  PROVE  /\ Orderly(q \o r)
         /\ \A s \in Service : Pending(q \o r, s) <=> Pending(q, s)
<1>. DEFINE n == Len(q)
            c == q \o r
<1>1. /\ n \in Nat /\ Len(r) \in Nat /\ DOMAIN q = 1..n /\ DOMAIN r = 1..Len(r)
      /\ DOMAIN c = 1..(n + Len(r))
      /\ \A i \in 1..n : c[i] = q[i]
      /\ \A i \in (n + 1)..(n + Len(r)) : i - n \in 1..Len(r) /\ c[i] = r[i - n]
  BY ConcatIndices
<1>. HIDE DEF n, c
<1>2. ASSUME NEW s \in Service, NEW i \in DOMAIN c, Announces(c[i], s)
      PROVE  i \in DOMAIN q /\ Announces(q[i], s)
  <2>1. i \notin (n + 1)..(n + Len(r))
    BY <1>1, <1>2 DEF Pending
  <2>. QED BY <1>1, <1>2, <2>1
<1>3. ASSUME NEW s \in Service, NEW i \in DOMAIN c, Announces(c[i], s),
             NEW j \in DOMAIN c, j < i
      PROVE  ~Touches(c[j], s)
  <2>1. i \in DOMAIN q /\ Announces(q[i], s)
    BY <1>2, <1>3
  <2>2. j \in DOMAIN q /\ c[j] = q[j]
    BY <1>1, <1>3, <2>1
  <2>. QED BY <1>3, <2>1, <2>2 DEF Orderly
<1>4. \A s \in Service : Pending(c, s) <=> Pending(q, s)
  <2>1. \A i \in DOMAIN q : i \in DOMAIN c /\ c[i] = q[i]
    BY <1>1
  <2>. QED BY <1>2, <2>1 DEF Pending
<1>. QED BY <1>3, <1>4 DEF Orderly, c

\* The step at the head is done.
LEMMA OrderlyTail ==
  ASSUME NEW q \in Seq(Op), q # << >>, Orderly(q)
  PROVE  /\ Orderly(Tail(q))
         /\ \A s \in Service : Pending(q, s) <=> Announces(Head(q), s) \/ Pending(Tail(q), s)
         /\ \A s \in Service : Pending(Tail(q), s) => ~Touches(Head(q), s)
<1>. DEFINE t == Tail(q)
<1>1. /\ Len(q) \in Nat /\ 1 <= Len(q) /\ DOMAIN q = 1..Len(q)
      /\ DOMAIN t = 1..(Len(q) - 1)
      /\ \A i \in 1..(Len(q) - 1) : t[i] = q[i + 1]
      /\ Head(q) = q[1]
  BY TailIndices
<1>. HIDE DEF t
<1>2. \A i \in DOMAIN t : i + 1 \in DOMAIN q /\ t[i] = q[i + 1] /\ 1 \in DOMAIN q /\ 1 < i + 1
  BY <1>1
<1>3. Orderly(t)
  <2>1. SUFFICES ASSUME NEW s \in Service, NEW i \in DOMAIN t, Announces(t[i], s),
                        NEW j \in DOMAIN t, j < i
                 PROVE  ~Touches(t[j], s)
    BY DEF Orderly
  <2>2. j + 1 < i + 1
    BY <1>1, <2>1
  <2>. QED BY <1>2, <2>1, <2>2 DEF Orderly
<1>4. ASSUME NEW s \in Service
      PROVE  Pending(q, s) <=> Announces(Head(q), s) \/ Pending(t, s)
  <2>1. ASSUME Pending(q, s), ~Announces(Head(q), s) PROVE Pending(t, s)
    <3>1. PICK i \in DOMAIN q : Announces(q[i], s)
      BY <2>1 DEF Pending
    <3>2. i # 1 /\ i - 1 \in DOMAIN t /\ t[i - 1] = q[i]
      BY <1>1, <2>1, <3>1
    <3>. QED BY <3>1, <3>2 DEF Pending
  <2>2. Announces(Head(q), s) => Pending(q, s)
    BY <1>1 DEF Pending
  <2>3. Pending(t, s) => Pending(q, s)
    BY <1>2 DEF Pending
  <2>. QED BY <2>1, <2>2, <2>3
<1>5. \A s \in Service : Pending(t, s) => ~Touches(Head(q), s)
  BY <1>1, <1>2 DEF Pending, Orderly
<1>. QED BY <1>3, <1>4, <1>5 DEF t

\* A list in which nothing is announced is orderly.
LEMMA NothingPending ==
  ASSUME NEW q, \A i \in DOMAIN q : q[i].op # "restarting"
  PROVE  Orderly(q) /\ \A s \in Service : ~Pending(q, s)
  BY DEF Orderly, Pending, Announces

-----------------------------------------------------------------------------
(***************************************************************************)
(* What calls put on the list of steps                                     *)
(***************************************************************************)
LEMMA OpOfConstruction ==
  /\ \A kind, ss : \A i \in DOMAIN SvcOps(kind, ss) :
       SvcOps(kind, ss)[i] = [op |-> kind, svc |-> ss[i]]
  /\ \A kind, acts : \A i \in DOMAIN Enqueues(kind, acts) :
       Enqueues(kind, acts)[i] = [op |-> kind, act |-> acts[i]]
  /\ \A s : \A i \in DOMAIN OnRestartOps(s) :
       OnRestartOps(s)[i] = [op |-> "onrestart", cmd |-> OnRestart[s][i]]
  BY DEF SvcOps, Enqueues, OnRestartOps

\* A command of the rc file announces nothing by itself.
LEMMA ExpandAnnouncesNothing ==
  ASSUME NEW c \in Command
  PROVE  /\ \A i \in DOMAIN Expand(c) : Expand(c)[i].op # "restarting"
         /\ c \in RcCommand => \A i \in DOMAIN Expand(c) : Expand(c)[i].op # "reap"
                                                        /\ Expand(c)[i].op # "onrestart"
<1>1. CASE c.cmd \in {"class_start", "class_stop", "class_reset"}
  <2>1. \E k \in {"start_enabled", "stop", "reset"} : Expand(c) = SvcOps(k, InClass[c.class])
    BY <1>1 DEF Expand
  <2>. QED BY <2>1, OpOfConstruction
<1>2. CASE c.cmd = "queue_property_triggers"
  <2>1. Expand(c) = Enqueues("enqueue_matching", ActionOrder)
    BY <1>2 DEF Expand
  <2>. QED BY <2>1, OpOfConstruction
<1>3. CASE c.cmd = "signal_init"
  <2>1. Expand(c) = <<[op |-> "reap"]>> /\ c \notin RcCommand
    BY <1>3 DEF Expand, RcCommand
  <2>. QED BY <2>1
<1>4. CASE c.cmd \in {"start", "stop", "restart", "setprop"}
  <2>1. Expand(c) \in {<<[op |-> "start", svc |-> c.svc]>>, <<[op |-> "stop", svc |-> c.svc]>>,
                       <<[op |-> "stop", svc |-> c.svc], [op |-> "start", svc |-> c.svc]>>,
                       <<[op |-> "set", key |-> c.key, val |-> c.val]>>}
    BY <1>4 DEF Expand
  <2>. QED BY <2>1
<1>5. CASE c.cmd \in {"other", "property_service_init"}
  <2>1. Expand(c) = << >>
    BY <1>5 DEF Expand
  <2>. QED BY <2>1
<1>. QED BY <1>1, <1>2, <1>3, <1>4, <1>5 DEF Command, RcCommand

LEMMA NotRefused ==
  ASSUME TypeOK, RoomForEveryKey, NEW s \in Service
  PROVE  ~Refused(s)
<1>1. s \in Key /\ s \notin RoKey
  BY PropertyAssumption
<1>2. ASSUME s \notin Defined PROVE Cardinality(Defined) # PropMax
  <2>1. IsFiniteSet(Key) /\ Cardinality(Key) \in Nat /\ Cardinality(Key) <= PropMax
    BY FS_CardinalityType DEF RoomForEveryKey
  <2>2. IsFiniteSet(Key \ {s}) /\ Cardinality(Key \ {s}) = Cardinality(Key) - 1
    BY <1>1, <2>1, FS_RemoveElement
  <2>3. Defined \subseteq Key \ {s}
    BY <1>2 DEF Defined
  <2>4. Cardinality(Defined) <= Cardinality(Key) - 1 /\ Cardinality(Defined) \in Nat
    BY <2>2, <2>3, FS_Subset, FS_CardinalityType
  <2>5. Cardinality(Defined) < Cardinality(Key)
    BY <2>1, <2>4
  <2>. QED BY <2>1, <2>4, <2>5
<1>. QED BY <1>1, <1>2 DEF Refused

\* property_changed may queue actions before what the caller still does.
LEMMA SetPropOrder ==
  ASSUME TypeOK, NEW k \in Key, NEW v \in Value, NEW rest \in Seq(Op), Orderly(rest),
         SetProp(k, v, rest)
  PROVE  /\ Orderly(todo')
         /\ \A s \in Service : Pending(todo', s) <=> Pending(rest, s)
<1>. DEFINE q == Enqueues("enqueue", Triggered[<<k, v>>])
<1>1. q \in Seq(Op)
  BY EnqueuesType, PropertyAssumption
<1>2. \A i \in DOMAIN q : q[i].op = "enqueue"
  BY OpOfConstruction
<1>3. todo' = rest \/ todo' = q \o rest
  BY DEF SetProp
<1>. HIDE DEF q
<1>4. \A s \in Service : ~Pending(q, s) /\ \A j \in DOMAIN q : ~Touches(q[j], s)
  BY <1>2 DEF Pending, Announces, Touches, SvcOp
<1>5. Orderly(q \o rest) /\ \A s \in Service : Pending(q \o rest, s) <=> Pending(rest, s)
  BY <1>1, <1>4, OrderlyPrefix
<1>. QED BY <1>3, <1>5

\* notify_service_state succeeds.
LEMMA SetStatus ==
  ASSUME TypeOK, RoomForEveryKey, NEW s \in Service, NEW v \in Value, NEW rest,
         SetProp(s, v, rest)
  PROVE  prop'[s] = v /\ \A t \in Service \ {s} : prop'[t] = prop[t]
<1>1. prop' = [prop EXCEPT ![s] = v]
  BY NotRefused DEF SetProp
<1>. QED BY <1>1, PropertyAssumption DEF TypeOK

-----------------------------------------------------------------------------
(***************************************************************************)
(* The refinement mapping, and the steps of one service                    *)
(***************************************************************************)
statusBar == [s \in Service |-> IF "RESTARTING" \in flags[s] THEN "restarting" ELSE prop[s]]
heldBar == [s \in Service |-> pid[s] # NoPid]

LifecycleStep == [Lifecycle!Next]_<<statusBar, heldBar>>

SameService(t) == flags'[t] = flags[t] /\ pid'[t] = pid[t] /\ prop'[t] = prop[t]

LEMMA MoveOfOne ==
  ASSUME NEW s \in Service, \A t \in Service \ {s} : SameService(t),
         NEW v, NEW h, statusBar'[s] = v, heldBar'[s] = h
  PROVE  Lifecycle!Move(s, v, h)
  BY DEF Lifecycle!Move, statusBar, heldBar, SameService

LEMMA NobodyMoves ==
  ASSUME \A t \in Service : SameService(t)
  PROVE  LifecycleStep
  BY DEF LifecycleStep, SameService, statusBar, heldBar

\* The service a step is about moves, the others keep what they have.
LEMMA StatusOfOne ==
  ASSUME StatusInv, NEW s \in Service, \A t \in Service \ {s} : SameService(t),
         Orderly(todo'), \A t \in Service \ {s} : Pending(todo', t) <=> Pending(todo, t),
         IF Pending(todo', s) THEN flags'[s] = {"RESTARTING"} ELSE Truthful(s)',
         ReapIsForeseen(s)'
  PROVE  StatusInv'
  BY DEF StatusInv, SameService, Truthful, ReapIsForeseen

LEMMA StatusOfNone ==
  ASSUME StatusInv, \A t \in Service : SameService(t),
         Orderly(todo'), \A t \in Service : Pending(todo', t) <=> Pending(todo, t)
  PROVE  StatusInv' /\ LifecycleStep
<1>1. StatusInv'
  BY DEF StatusInv, SameService, Truthful, ReapIsForeseen
<1>. QED BY <1>1, NobodyMoves

\* A step that announces nothing is taken off the list.
LEMMA HeadDone ==
  ASSUME IInv, StatusInv, todo # << >>, Head(todo).op # "restarting"
  PROVE  /\ Tail(todo) \in Seq(Op) /\ Orderly(Tail(todo))
         /\ \A t \in Service : Pending(Tail(todo), t) <=> Pending(todo, t)
         /\ \A t \in Service : Touches(Head(todo), t) => ~Pending(todo, t)
<1>1. todo \in Seq(Op) /\ Orderly(todo)
  BY DEF IInv, TypeOK, StatusInv
<1>2. Tail(todo) \in Seq(Op)
  BY <1>1, HeadTailProperties
<1>. QED BY <1>1, <1>2, OrderlyTail DEF Announces

-----------------------------------------------------------------------------
(***************************************************************************)
(* The steps of a call                                                     *)
(***************************************************************************)
LEMMA ServiceStartStatus ==
  ASSUME IInv, StatusInv, RoomForEveryKey, todo # << >>, NEW s \in Service, NEW args,
         Head(todo).op \in SvcOp \ {"restarting"}, Head(todo).svc = s, ServiceStart(s, args)
  PROVE  StatusInv' /\ LifecycleStep
<1>1. /\ Tail(todo) \in Seq(Op) /\ Orderly(Tail(todo))
      /\ \A t \in Service : Pending(Tail(todo), t) <=> Pending(todo, t)
      /\ ~Pending(todo, s)
  BY HeadDone DEF Touches
<1>2. Truthful(s) /\ ReapIsForeseen(s)
  BY <1>1 DEF StatusInv
<1>3. /\ flags \in [Service -> SUBSET Flag] /\ pid \in [Service -> Pid \cup {NoPid}]
      /\ prop \in [Key -> Value \cup {Unset}] /\ TypeOK
  BY DEF IInv, TypeOK
<1>4. FlagsAgree
  BY DEF IInv
<1>5. CASE StartRunning(s)
  <2>1. \A t \in Service : SameService(t)
    BY <1>3, <1>4, <1>5 DEF StartRunning, SameService, FlagsAgree, Cleared
  <2>2. todo' = Tail(todo)
    BY <1>5 DEF StartRunning
  <2>. QED BY <1>1, <2>1, <2>2, StatusOfNone
<1>6. CASE StartRefused(s, args) \/ StartForkFails(s, args)
  <2>1. /\ "RUNNING" \notin flags[s]
        /\ flags' = [flags EXCEPT ![s] = Cleared(s)]
             \/ flags' = [flags EXCEPT ![s] = Cleared(s) \cup {"DISABLED"}]
        /\ pid' = pid \/ pid' = [pid EXCEPT ![s] = NoPid]
        /\ pid'[s] # NoPid => UNCHANGED pid /\ flags'[s] # {}
        /\ UNCHANGED prop /\ todo' = Tail(todo)
    <3>1. CASE StartRefused(s, args)
      BY <1>3, <3>1 DEF StartRefused
    <3>2. CASE StartForkFails(s, args)
      <4>1. /\ "RUNNING" \notin flags[s]
            /\ flags' = [flags EXCEPT ![s] = Cleared(s)]
            /\ pid' = [pid EXCEPT ![s] = NoPid]
            /\ UNCHANGED prop /\ todo' = Tail(todo)
        BY <3>2 DEF StartForkFails, CanStart
      <4>. QED BY <1>3, <4>1
    <3>. QED BY <1>6, <3>1, <3>2
  <2>2. \A t \in Service \ {s} : SameService(t)
    BY <1>3, <2>1 DEF SameService
  <2>3. "RUNNING" \notin flags'[s] /\ "RESTARTING" \notin flags'[s] /\ prop'[s] = prop[s]
    BY <1>3, <2>1 DEF Cleared
  <2>4. Truthful(s)' /\ ReapIsForeseen(s)'
    BY <1>2, <2>1, <2>3 DEF Truthful, ReapIsForeseen
  <2>5. StatusInv'
    BY <1>1, <2>1, <2>2, <2>4, StatusOfOne
  <2>6. statusBar'[s] = statusBar[s] /\ statusBar[s] # "running"
    BY <1>2, <2>1, <2>3 DEF statusBar, Truthful
  <2>7. heldBar'[s] = heldBar[s] \/ heldBar'[s] = FALSE
    BY <1>3, <2>1 DEF heldBar
  <2>8. CASE heldBar'[s] = heldBar[s]
    <3>1. UNCHANGED <<statusBar, heldBar>>
      BY <2>2, <2>6, <2>8 DEF SameService, statusBar, heldBar
    <3>. QED BY <2>5, <3>1 DEF LifecycleStep
  <2>9. CASE heldBar'[s] = FALSE
    <3>1. Lifecycle!Move(s, statusBar[s], FALSE)
      BY <2>2, <2>6, <2>9, MoveOfOne
    <3>2. Lifecycle!StartFails(s)
      BY <2>6, <3>1 DEF Lifecycle!StartFails, statusBar
    <3>. QED BY <2>5, <3>2 DEF LifecycleStep, Lifecycle!Next
  <2>. QED BY <2>7, <2>8, <2>9
<1>7. CASE StartForks(s, args)
  <2>1. PICK p \in Pid : pid' = [pid EXCEPT ![s] = p]
    <3>1. NewPid[FreePid] \subseteq Pid
      BY ProcessAssumption DEF FreePid
    <3>2. PICK p \in NewPid[FreePid] : pid' = [pid EXCEPT ![s] = p]
      BY <1>7 DEF StartForks
    <3>. QED BY <3>1, <3>2
  <2>2. /\ "RUNNING" \notin flags[s]
        /\ flags' = [flags EXCEPT ![s] = Cleared(s) \cup {"RUNNING"}]
        /\ SetProp(s, "running", Tail(todo))
    BY <1>7 DEF StartForks, CanStart
  <2>3. prop'[s] = "running" /\ \A t \in Service \ {s} : prop'[t] = prop[t]
    BY <1>3, <2>2, SetStatus, PropertyAssumption
  <2>4. /\ Orderly(todo')
        /\ \A t \in Service : Pending(todo', t) <=> Pending(todo, t)
    BY <1>1, <1>3, <2>2, SetPropOrder, PropertyAssumption
  <2>5. \A t \in Service \ {s} : SameService(t)
    BY <1>3, <2>1, <2>2, <2>3 DEF SameService
  <2>6. /\ "RUNNING" \in flags'[s] /\ "RESTARTING" \notin flags'[s]
        /\ pid'[s] # NoPid
    BY <1>3, <2>1, <2>2, ProcessAssumption DEF Cleared
  <2>7. Truthful(s)' /\ ReapIsForeseen(s)'
    BY <2>3, <2>6 DEF Truthful, ReapIsForeseen
  <2>8. StatusInv'
    BY <1>1, <2>4, <2>5, <2>7, StatusOfOne
  <2>9. statusBar'[s] = "running" /\ heldBar'[s] = TRUE /\ statusBar[s] # "running"
    BY <1>2, <2>2, <2>3, <2>6 DEF statusBar, heldBar, Truthful
  <2>10. Lifecycle!Move(s, "running", TRUE)
    BY <2>5, <2>9, MoveOfOne
  <2>11. Lifecycle!Start(s)
    BY <2>9, <2>10 DEF Lifecycle!Start, statusBar
  <2>. QED BY <2>8, <2>11 DEF LifecycleStep, Lifecycle!Next
<1>. QED BY <1>5, <1>6, <1>7 DEF ServiceStart

LEMMA ServiceStopStatus ==
  ASSUME IInv, StatusInv, RoomForEveryKey, todo # << >>, NEW s \in Service, NEW how,
         Head(todo).op \in SvcOp \ {"restarting"}, Head(todo).svc = s, ServiceStopOrReset(s, how)
  PROVE  StatusInv' /\ LifecycleStep
<1>1. /\ Tail(todo) \in Seq(Op) /\ Orderly(Tail(todo))
      /\ \A t \in Service : Pending(Tail(todo), t) <=> Pending(todo, t)
      /\ ~Pending(todo, s)
  BY HeadDone DEF Touches
<1>2. /\ flags \in [Service -> SUBSET Flag] /\ pid \in [Service -> Pid \cup {NoPid}]
      /\ TypeOK
  BY DEF IInv, TypeOK
<1>. DEFINE v == IF pid[s] # NoPid THEN "stopping" ELSE "stopped"
<1>3. /\ SetProp(s, v, Tail(todo))
      /\ flags' = [flags EXCEPT ![s] = (@ \ {"RUNNING", "RESTARTING"})
                     \cup {IF how = "RESET" /\ s \notin RcDisabled THEN "RESET" ELSE "DISABLED"}]
      /\ UNCHANGED pid
  BY DEF ServiceStopOrReset
<1>4. v \in {"stopping", "stopped"} /\ v \in Value
  BY PropertyAssumption
<1>5. prop'[s] = v /\ \A t \in Service \ {s} : prop'[t] = prop[t]
  BY <1>2, <1>3, <1>4, SetStatus
<1>6. /\ Orderly(todo')
      /\ \A t \in Service : Pending(todo', t) <=> Pending(todo, t)
  BY <1>1, <1>2, <1>3, <1>4, SetPropOrder, PropertyAssumption
<1>7. \A t \in Service \ {s} : SameService(t)
  BY <1>2, <1>3, <1>5 DEF SameService
<1>8. "RUNNING" \notin flags'[s] /\ "RESTARTING" \notin flags'[s] /\ flags'[s] # {}
  BY <1>2, <1>3
<1>9. Truthful(s)' /\ ReapIsForeseen(s)'
  BY <1>4, <1>5, <1>8 DEF Truthful, ReapIsForeseen
<1>10. StatusInv'
  BY <1>1, <1>6, <1>7, <1>9, StatusOfOne
<1>11. statusBar'[s] = v /\ heldBar'[s] = heldBar[s]
  BY <1>3, <1>5, <1>8 DEF statusBar, heldBar
<1>12. PICK w, h : w = v /\ h = heldBar[s]
  OBVIOUS
<1>13. statusBar' = [statusBar EXCEPT ![s] = w] /\ heldBar' = [heldBar EXCEPT ![s] = h]
  <2>1. /\ \A t \in Service \ {s} : statusBar'[t] = statusBar[t] /\ heldBar'[t] = heldBar[t]
        /\ statusBar'[s] = w /\ heldBar'[s] = h
    BY <1>7, <1>11, <1>12 DEF SameService, statusBar, heldBar
  <2>2. statusBar' = [statusBar EXCEPT ![s] = w]
    BY <2>1 DEF statusBar
  <2>3. heldBar' = [heldBar EXCEPT ![s] = h]
    BY <1>3, <1>12 DEF heldBar
  <2>. QED BY <2>2, <2>3
<1>. HIDE DEF v
<1>14. h = heldBar[s] /\ w = IF heldBar[s] THEN "stopping" ELSE "stopped"
  BY <1>12 DEF heldBar, v
<1>15. Lifecycle!Stop(s)
  BY <1>13, <1>14, Zenon DEF Lifecycle!Stop, Lifecycle!Move, statusBar, heldBar
<1>. QED BY <1>10, <1>15 DEF LifecycleStep, Lifecycle!Next

\* The onrestart list of a service and its announcement, put before a waitpid().
LEMMA RestartIsOrderly ==
  ASSUME OnRestartSparesItself, NEW s \in Service, NEW r \in Seq(Op),
         \A t \in Service : ~Pending(r, t)
  PROVE  LET q == OnRestartOps(s) \o <<[op |-> "restarting", svc |-> s]>> \o r
         IN  /\ Orderly(q) /\ Pending(q, s)
             /\ \A t \in Service \ {s} : ~Pending(q, t)
<1>. DEFINE a == <<[op |-> "restarting", svc |-> s]>>
            first == OnRestartOps(s) \o a
<1>1. OnRestartOps(s) \in Seq(Op) /\ [op |-> "restarting", svc |-> s] \in Op
  BY OnRestartOpsType DEF Op, SvcOp
<1>2. a \in Seq(Op) /\ DOMAIN a = {1} /\ a[1] = [op |-> "restarting", svc |-> s]
  BY <1>1
<1>. HIDE DEF a
<1>3. Orderly(a) /\ \A t \in Service : Pending(a, t) <=> t = s
  BY <1>2 DEF Orderly, Pending, Announces
<1>4. ASSUME NEW i \in DOMAIN OnRestartOps(s)
      PROVE  OnRestartOps(s)[i].op = "onrestart" /\ ~Touches(OnRestartOps(s)[i], s)
  <2>1. OnRestartOps(s)[i] = [op |-> "onrestart", cmd |-> OnRestart[s][i]]
    BY OpOfConstruction
  <2>2. i \in DOMAIN OnRestart[s]
    BY DEF OnRestartOps
  <2>3. ~\E j \in DOMAIN Expand(OnRestart[s][i]) :
           /\ Expand(OnRestart[s][i])[j].op \in SvcOp
           /\ Expand(OnRestart[s][i])[j].svc = s
    BY <2>2 DEF OnRestartSparesItself
  <2>. QED BY <2>1, <2>3 DEF Touches, SvcOp
<1>5. \A t \in Service : ~Pending(OnRestartOps(s), t)
  BY <1>4, NothingPending
<1>6. first \in Seq(Op) /\ Orderly(first) /\ \A t \in Service : Pending(first, t) <=> t = s
  <2>1. \A t \in Service : Pending(a, t) =>
          \A j \in DOMAIN OnRestartOps(s) : ~Touches(OnRestartOps(s)[j], t)
    BY <1>3, <1>4
  <2>. QED BY <1>1, <1>2, <1>3, <1>5, <2>1, OrderlyPrefix, ConcatProperties
<1>. HIDE DEF first
<1>7. Orderly(first \o r) /\ \A t \in Service : Pending(first \o r, t) <=> t = s
  BY <1>6, OrderlySuffix
<1>. QED BY <1>7 DEF first, a

LEMMA ReapStatus ==
  ASSUME IInv, StatusInv, RoomForEveryKey, OnRestartSparesItself,
         todo # << >>, Head(todo).op = "reap", Reap
  PROVE  StatusInv' /\ LifecycleStep
<1>1. todo \in Seq(Op) /\ Orderly(todo) /\ \A t \in Service : ~Pending(todo, t)
  BY HeadDone DEF Touches, IInv, TypeOK, StatusInv
<1>2. /\ flags \in [Service -> SUBSET Flag] /\ pid \in [Service -> Pid \cup {NoPid}]
      /\ TypeOK
  BY DEF IInv, TypeOK
<1>3. PICK p \in Pid : ReapUntracked(p) \/ \E s \in Service : ReapService(p, s)
  BY DEF Reap
<1>4. CASE ReapUntracked(p)
  <2>1. UNCHANGED <<flags, pid, prop, todo>>
    BY <1>4 DEF ReapUntracked
  <2>. QED BY <1>1, <2>1, StatusOfNone DEF SameService
<1>5. CASE \E s \in Service : ReapService(p, s)
  <2>1. PICK s \in Service : ReapService(p, s)
    BY <1>5
  <2>2. pid[s] = p /\ pid[s] # NoPid /\ pid' = [pid EXCEPT ![s] = NoPid]
    BY <2>1, ProcessAssumption DEF ReapService, Owner
  <2>3. "RESTARTING" \notin flags[s] /\ flags[s] # {} /\ Truthful(s)
    BY <1>1, <2>2 DEF IInv, FlagsAgree, StatusInv, ReapIsForeseen
  <2>4. heldBar[s] = TRUE /\ heldBar'[s] = FALSE /\ ReapIsForeseen(s)'
    BY <1>2, <2>2 DEF heldBar, ReapIsForeseen
  <2>5. CASE StaysDown(s)
    <3>1. flags' = [flags EXCEPT ![s] = ExitFlags(s)] /\ SetProp(s, "stopped", todo)
      BY <2>1, <2>5 DEF ReapService
    <3>2. prop'[s] = "stopped" /\ \A t \in Service \ {s} : prop'[t] = prop[t]
      BY <1>2, <3>1, SetStatus, PropertyAssumption
    <3>3. /\ Orderly(todo')
          /\ \A t \in Service : Pending(todo', t) <=> Pending(todo, t)
      BY <1>1, <1>2, <3>1, SetPropOrder, PropertyAssumption
    <3>4. \A t \in Service \ {s} : SameService(t)
      BY <1>2, <2>2, <3>1, <3>2 DEF SameService
    <3>5. "RUNNING" \notin flags'[s] /\ "RESTARTING" \notin flags'[s]
      BY <1>2, <2>3, <3>1 DEF ExitFlags
    <3>6. Truthful(s)'
      BY <3>2, <3>5 DEF Truthful
    <3>7. StatusInv'
      BY <1>1, <2>4, <3>3, <3>4, <3>6, StatusOfOne
    <3>8. statusBar'[s] = "stopped"
      BY <3>2, <3>5 DEF statusBar
    <3>9. Lifecycle!Move(s, "stopped", FALSE)
      BY <2>4, <3>4, <3>8, MoveOfOne
    <3>10. Lifecycle!ProcessGone(s)
      BY <2>4, <3>9 DEF Lifecycle!ProcessGone, heldBar
    <3>. QED BY <3>7, <3>10 DEF LifecycleStep, Lifecycle!Next
  <2>6. CASE ~StaysDown(s)
    <3>1. /\ flags' = [flags EXCEPT ![s] = ExitFlags(s) \cup {"RESTARTING"}]
          /\ todo' = OnRestartOps(s) \o <<[op |-> "restarting", svc |-> s]>> \o todo
          /\ UNCHANGED prop
      BY <2>1, <2>6 DEF ReapService
    <3>2. flags[s] = {"RUNNING"} /\ ExitFlags(s) = {}
      BY <1>2, <2>3, <2>6 DEF StaysDown, ExitFlags, Flag
    <3>3. flags'[s] = {"RESTARTING"}
      BY <1>2, <3>1, <3>2
    <3>4. Orderly(todo') /\ Pending(todo', s) /\ \A t \in Service \ {s} : ~Pending(todo', t)
      BY <1>1, <3>1, RestartIsOrderly
    <3>5. \A t \in Service \ {s} : SameService(t)
      BY <1>2, <2>2, <3>1 DEF SameService
    <3>6. StatusInv'
      BY <1>1, <2>4, <3>3, <3>4, <3>5, StatusOfOne
    <3>7. statusBar[s] = "running" /\ statusBar'[s] = "restarting"
      BY <2>3, <3>2, <3>3 DEF statusBar, Truthful
    <3>8. Lifecycle!Move(s, "restarting", FALSE)
      BY <2>4, <3>5, <3>7, MoveOfOne
    <3>9. Lifecycle!ProcessGone(s)
      BY <2>4, <3>7, <3>8 DEF Lifecycle!ProcessGone, heldBar, statusBar
    <3>. QED BY <3>6, <3>9 DEF LifecycleStep, Lifecycle!Next
  <2>. QED BY <2>5, <2>6
<1>. QED BY <1>3, <1>4, <1>5

\* The announcement itself: what it is about has waited for it untouched.
LEMMA AnnounceStatus ==
  ASSUME IInv, StatusInv, RoomForEveryKey, todo # << >>, NEW s \in Service,
         Head(todo).op = "restarting", Head(todo).svc = s,
         SetProp(s, "restarting", Tail(todo)), UNCHANGED <<flags, pid>>
  PROVE  StatusInv' /\ LifecycleStep
<1>1. todo \in Seq(Op) /\ Tail(todo) \in Seq(Op) /\ Orderly(todo) /\ TypeOK
  BY HeadTailProperties DEF IInv, TypeOK, StatusInv
<1>2. /\ Orderly(Tail(todo)) /\ Pending(todo, s) /\ ~Pending(Tail(todo), s)
      /\ \A t \in Service \ {s} : Pending(Tail(todo), t) <=> Pending(todo, t)
  BY <1>1, OrderlyTail DEF Announces, Touches, SvcOp
<1>3. prop'[s] = "restarting" /\ \A t \in Service \ {s} : prop'[t] = prop[t]
  BY <1>1, SetStatus, PropertyAssumption
<1>4. /\ Orderly(todo')
      /\ \A t \in Service : Pending(todo', t) <=> Pending(Tail(todo), t)
  BY <1>1, <1>2, SetPropOrder, PropertyAssumption
<1>5. flags[s] = {"RESTARTING"} /\ ReapIsForeseen(s)
  BY <1>2 DEF StatusInv
<1>6. \A t \in Service \ {s} : SameService(t)
  BY <1>3 DEF SameService
<1>7. StatusInv'
  BY <1>2, <1>3, <1>4, <1>5, <1>6, StatusOfOne DEF Truthful, ReapIsForeseen
<1>8. UNCHANGED <<statusBar, heldBar>>
  BY <1>3, <1>5 DEF statusBar, heldBar
<1>. QED BY <1>7, <1>8 DEF LifecycleStep

LEMMA StepStatus ==
  ASSUME IInv, StatusInv, RoomForEveryKey, OnRestartSparesItself, Step
  PROVE  StatusInv' /\ LifecycleStep
<1>. DEFINE o == Head(todo)
<1>1. todo # << >> /\ todo \in Seq(Op) /\ o \in Op /\ TypeOK
  BY HeadTailProperties DEF Step, IInv, TypeOK
<1>2. /\ o.op \in SvcOp => o.svc \in Service
      /\ o.op = "onrestart" => o.cmd \in RcCommand
  BY <1>1, OpFields
<1>3. o.op = "set" => o.key \in Key \ Service /\ o.val \in Value
  BY <1>1 DEF Op, SvcOp
<1>. HIDE DEF o
<1>4. o.op # "restarting" =>
        /\ Tail(todo) \in Seq(Op) /\ Orderly(Tail(todo))
        /\ \A t \in Service : Pending(Tail(todo), t) <=> Pending(todo, t)
  BY <1>1, HeadDone DEF o
<1>5. ASSUME o.op # "restarting", todo' = Tail(todo), UNCHANGED <<flags, pid, prop>>
      PROVE  StatusInv' /\ LifecycleStep
  BY <1>4, <1>5, StatusOfNone DEF SameService
<1>6. ASSUME o.op \in SvcOp \ {"restarting"}, NEW args, ServiceStart(o.svc, args)
      PROVE  StatusInv' /\ LifecycleStep
  BY <1>1, <1>2, <1>6, ServiceStartStatus DEF o
<1>7. ASSUME o.op \in SvcOp \ {"restarting"}, NEW how, ServiceStopOrReset(o.svc, how)
      PROVE  StatusInv' /\ LifecycleStep
  BY <1>1, <1>2, <1>7, ServiceStopStatus DEF o
<1>8. CASE ServiceStep(o)
  <2>1. CASE o.op = "respawn" /\ Respawn(o.svc)
    <3>1. CASE ServiceStart(o.svc, FALSE)
      BY <1>6, <2>1, <3>1 DEF SvcOp
    <3>2. CASE Skip \/ RespawnLater(o.svc)
      BY <1>5, <2>1, <3>2 DEF Skip, RespawnLater, svcVars
    <3>. QED BY <2>1, <3>1, <3>2 DEF Respawn
  <2>2. CASE o.op = "start_enabled" /\ StartIfNotDisabled(o.svc)
    <3>1. CASE ServiceStart(o.svc, FALSE)
      BY <1>6, <2>2, <3>1 DEF SvcOp
    <3>2. CASE Skip
      BY <1>5, <2>2, <3>2 DEF Skip, svcVars
    <3>. QED BY <2>2, <3>1, <3>2 DEF StartIfNotDisabled
  <2>3. CASE o.op = "start" /\ ServiceStart(o.svc, FALSE)
    BY <1>6, <2>3 DEF SvcOp
  <2>4. CASE o.op = "start_args" /\ ServiceStart(o.svc, TRUE)
    BY <1>6, <2>4 DEF SvcOp
  <2>5. CASE o.op = "stop" /\ ServiceStopOrReset(o.svc, "DISABLED")
    BY <1>7, <2>5 DEF SvcOp
  <2>6. CASE o.op = "reset" /\ ServiceStopOrReset(o.svc, "RESET")
    BY <1>7, <2>6 DEF SvcOp
  <2>. QED BY <1>8, <2>1, <2>2, <2>3, <2>4, <2>5, <2>6 DEF ServiceStep
<1>9. CASE PropertyStep(o)
  <2>1. UNCHANGED <<flags, pid>>
    BY <1>9 DEF PropertyStep, svcVars
  <2>2. CASE o.op = "restarting" /\ SetProp(o.svc, "restarting", Tail(todo))
    BY <1>1, <1>2, <2>1, <2>2, AnnounceStatus DEF o, SvcOp
  <2>3. CASE o.op = "set" /\ SetProp(o.key, o.val, Tail(todo))
    <3>1. \A t \in Service : prop'[t] = prop[t]
      BY <1>1, <1>3, <2>3, PropertyAssumption DEF SetProp, TypeOK
    <3>2. /\ Orderly(todo')
          /\ \A t \in Service : Pending(todo', t) <=> Pending(Tail(todo), t)
      BY <1>1, <1>3, <1>4, <2>3, SetPropOrder
    <3>. QED BY <1>4, <2>1, <2>3, <3>1, <3>2, StatusOfNone DEF SameService
  <2>. QED BY <1>9, <2>2, <2>3 DEF PropertyStep
<1>10. CASE QueueStep(o)
  BY <1>5, <1>10 DEF QueueStep, svcVars
<1>11. CASE CommandStep(o)
  <2>. DEFINE q == Expand(o.cmd)
  <2>1. /\ o.op = "onrestart" /\ todo' = q \o Tail(todo)
        /\ UNCHANGED <<flags, pid, prop>>
    BY <1>11 DEF CommandStep, svcVars
  <2>2. q \in Seq(Op) /\ \A i \in DOMAIN q : q[i].op \notin {"restarting", "reap", "onrestart"}
    BY <1>2, <2>1, ExpandType, ExpandAnnouncesNothing DEF Command
  <2>3. \A t \in Service : Pending(Tail(todo), t) => ~Touches(o, t)
    BY <1>1, OrderlyTail DEF o, StatusInv
  <2>4. \A t \in Service : Pending(Tail(todo), t) => \A j \in DOMAIN q : ~Touches(q[j], t)
    BY <2>1, <2>2, <2>3 DEF Touches
  <2>. HIDE DEF q
  <2>5. \A t \in Service : ~Pending(q, t)
    BY <2>2, NothingPending
  <2>6. /\ Orderly(q \o Tail(todo))
        /\ \A t \in Service : Pending(q \o Tail(todo), t) <=> Pending(Tail(todo), t)
    BY <1>4, <2>1, <2>2, <2>4, <2>5, OrderlyPrefix
  <2>7. /\ Orderly(todo')
        /\ \A t \in Service : Pending(todo', t) <=> Pending(todo, t)
    BY <1>4, <2>1, <2>6
  <2>. QED BY <2>1, <2>7, StatusOfNone DEF SameService
<1>12. CASE o.op = "reap" /\ Reap
  BY <1>1, <1>12, ReapStatus DEF o
<1>13. CASE o.op = "reap" /\ ReapDone
  BY <1>5, <1>13 DEF ReapDone, svcVars
<1>. QED BY <1>8, <1>9, <1>10, <1>11, <1>12, <1>13 DEF Step, o

-----------------------------------------------------------------------------
(***************************************************************************)
(* The loop, the processes and the clients                                 *)
(***************************************************************************)

\* A statement of the loop begins a call, in which nothing is announced yet.
LEMMA CallBeginsStatus ==
  ASSUME StatusInv, todo = << >>, \A i \in DOMAIN todo' : todo'[i].op # "restarting",
         \A t \in Service : SameService(t)
  PROVE  StatusInv' /\ LifecycleStep
<1>1. \A t \in Service : ~Pending(todo, t)
  BY DEF Pending
<1>2. Orderly(todo') /\ \A t \in Service : ~Pending(todo', t)
  BY NothingPending
<1>. QED BY <1>1, <1>2, StatusOfNone

LEMMA ExecuteOneCommandStatus ==
  ASSUME IInv, StatusInv, ExecuteOneCommand
  PROVE  StatusInv' /\ LifecycleStep
<1>1. todo = << >> /\ \A t \in Service : SameService(t)
  BY DEF ExecuteOneCommand, Ready, svcVars, SameService
<1>2. ASSUME NEW c \in Command, Run(c) PROVE \A i \in DOMAIN todo' : todo'[i].op # "restarting"
  BY <1>2, ExpandAnnouncesNothing DEF Run
<1>3. CASE UNCHANGED todo
  BY <1>1, <1>3, CallBeginsStatus
<1>4. CASE CommandDone /\ NextAction /\ ~UNCHANGED todo
  <2>. DEFINE a == HeadOf(list)
  <2>1. a \in Action /\ Commands[a] # << >> /\ Run(Commands[a][1])
    BY <1>4, RemoveHeadClosed DEF NextAction, IInv, TypeOK
  <2>2. Commands[a] \in Seq(Command)
    BY <2>1, ActionAssumption
  <2>3. Commands[a][1] \in Command
    BY <2>1, <2>2, LenProperties, EmptySeq, ElementOfSeq
  <2>. QED BY <1>1, <1>2, <2>1, <2>3, CallBeginsStatus
<1>5. CASE ~CommandDone /\ NextCommand
  <2>1. /\ cur \in Action /\ ip \in Nat /\ ip <= Len(Commands[cur]) /\ ip # Len(Commands[cur])
        /\ Commands[cur] \in Seq(Command) /\ Len(Commands[cur]) \in Nat
    BY <1>5, ActionAssumption, LenProperties DEF CommandDone, CommandInRange, IInv, TypeOK
  <2>2. ip + 1 \in 1..Len(Commands[cur]) /\ Commands[cur][ip + 1] \in Command
    BY <2>1, ElementOfSeq
  <2>3. Run(Commands[cur][ip + 1])
    BY <1>5 DEF NextCommand
  <2>. QED BY <1>1, <1>2, <2>2, <2>3, CallBeginsStatus
<1>. QED BY <1>3, <1>4, <1>5 DEF ExecuteOneCommand, NoCommand

LEMMA HandlePropertySetFdStatus ==
  ASSUME IInv, StatusInv, HandlePropertySetFd
  PROVE  StatusInv' /\ LifecycleStep
<1>1. todo = << >> /\ stage = "property" /\ UNCHANGED <<flags, pid>> /\ TypeOK
  BY DEF HandlePropertySetFd, Ready, svcVars, IInv
<1>2. CASE "property" \notin ready
  BY <1>1, <1>2, CallBeginsStatus DEF HandlePropertySetFd, SameService
<1>3. CASE "property" \in ready
  <2>. DEFINE m == Head(inbox)
  <2>1. m \in Message
    BY <1>1, <1>3, HeadTailProperties DEF IInv, PromiseKept, TypeOK
  <2>. HIDE DEF m
  <2>2. CASE m.msg = "denied"
    BY <1>1, <1>3, <2>2, CallBeginsStatus DEF HandlePropertySetFd, SameService, m
  <2>3. CASE m.msg = "set"
    <3>1. SetProp(m.key, m.val, << >>)
      BY <1>3, <2>3 DEF HandlePropertySetFd, m
    <3>2. m.key \in Key \ Service /\ m.val \in Value
      BY <2>1, <2>3 DEF Message
    <3>3. \A t \in Service : prop'[t] = prop[t]
      BY <1>1, <3>1, <3>2, PropertyAssumption DEF SetProp, TypeOK
    <3>4. /\ << >> \in Seq(Op) /\ Orderly(<< >>)
          /\ \A t \in Service : ~Pending(<< >>, t)
      BY DEF Orderly, Pending
    <3>5. Orderly(todo') /\ \A t \in Service : Pending(todo', t) <=> Pending(todo, t)
      BY <1>1, <3>1, <3>2, <3>4, SetPropOrder
    <3>. QED BY <1>1, <3>3, <3>5, StatusOfNone DEF SameService
  <2>4. CASE m.msg \notin {"denied", "set"}
    <3>1. todo' = ControlOps(m) /\ UNCHANGED prop
      BY <1>3, <2>4 DEF HandlePropertySetFd, m
    <3>2. m.msg \in {"start", "stop", "restart"}
      BY <2>1, <2>4 DEF Message
    <3>3. \A i \in DOMAIN ControlOps(m) : ControlOps(m)[i].op # "restarting"
      <4>. DEFINE start == [op |-> IF m.args THEN "start_args" ELSE "start", svc |-> m.svc]
                  stop  == [op |-> "stop", svc |-> m.svc]
      <4>1. ControlOps(m) \in {<<start>>, << >>, <<stop>>, <<stop, start>>}
        BY <3>2 DEF ControlOps
      <4>2. start.op # "restarting" /\ stop.op # "restarting"
        OBVIOUS
      <4>. HIDE DEF start, stop
      <4>. QED BY <4>1, <4>2
    <3>. QED BY <1>1, <3>1, <3>3, CallBeginsStatus DEF SameService
  <2>. QED BY <2>2, <2>3, <2>4
<1>. QED BY <1>2, <1>3

LEMMA MainStatus ==
  ASSUME IInv, StatusInv, RoomForEveryKey, OnRestartSparesItself, Main
  PROVE  StatusInv' /\ LifecycleStep
<1>1. CASE RestartProcesses
  <2>1. /\ todo = << >> /\ todo' = SvcOps("respawn", ServiceOrder)
        /\ \A t \in Service : SameService(t)
    BY <1>1 DEF RestartProcesses, Ready, svcVars, SameService
  <2>2. \A i \in DOMAIN todo' : todo'[i].op # "restarting"
    BY <2>1, OpOfConstruction
  <2>. QED BY <2>1, <2>2, CallBeginsStatus
<1>2. CASE Poll
  BY <1>2, CallBeginsStatus DEF Poll, Ready, svcVars, SameService
<1>3. CASE HandleSignal
  <2>1. /\ todo = << >> /\ todo' \in {<< >>, <<[op |-> "reap"]>>}
        /\ \A t \in Service : SameService(t)
    BY <1>3 DEF HandleSignal, Ready, svcVars, SameService
  <2>. QED BY <2>1, CallBeginsStatus
<1>. QED BY <1>1, <1>2, <1>3, StepStatus, ExecuteOneCommandStatus, HandlePropertySetFdStatus DEF Main

LEMMA EnvironmentStatus ==
  ASSUME IInv, StatusInv, Environment \/ UNCHANGED vars
  PROVE  StatusInv' /\ LifecycleStep
<1>1. UNCHANGED <<flags, pid, prop, todo>>
  BY DEF Environment, Kernel, Crash, SetPgid, Finish, Die, ServiceSend, BecomeZombie, ClientSend,
     Rest, FiveSecondsPass, svcVars, loopVars, vars
<1>. QED BY <1>1, StatusOfNone DEF SameService, StatusInv

-----------------------------------------------------------------------------
LEMMA InitStatus ==
  ASSUME Init
  PROVE  StatusInv /\ Lifecycle!Init
<1>1. todo = Enqueues("enqueue", BootOrder)
  BY DEF Init
<1>2. Orderly(todo) /\ \A s \in Service : ~Pending(todo, s)
  BY <1>1, OpOfConstruction, NothingPending
<1>3. \A s \in Service : Truthful(s) /\ ReapIsForeseen(s)
  BY PropertyAssumption DEF Init, Truthful, ReapIsForeseen
<1>4. statusBar = [s \in Service |-> Unset] /\ heldBar = [s \in Service |-> FALSE]
  BY PropertyAssumption DEF Init, statusBar, heldBar
<1>. QED BY <1>2, <1>3, <1>4 DEF StatusInv, Lifecycle!Init, statusBar, heldBar

LEMMA NextStatus ==
  ASSUME IInv, StatusInv, RoomForEveryKey, OnRestartSparesItself, [Next]_vars
  PROVE  StatusInv' /\ LifecycleStep
  BY MainStatus, EnvironmentStatus DEF Next

\* The inductive invariant holds in every reachable state, whatever the services
\* do, if no onrestart list touches its own service and the area has room.
THEOREM StatusInvariance ==
  ASSUME RoomForEveryKey, OnRestartSparesItself
  PROVE  Spec => []StatusInv
<1>1. Init => StatusInv
  BY InitStatus
<1>2. IInv /\ StatusInv /\ [Next]_vars => StatusInv'
  BY NextStatus
<1>. QED BY <1>1, <1>2, Invariance, PTL DEF Spec

\* What init.svc.<name> says is true whenever no call is in progress
\* (notify_service_state and its callers), for any services, rc file, processes
\* and interleaving.
THEOREM StatusStaysTrue ==
  ASSUME RoomForEveryKey, OnRestartSparesItself
  PROVE  Spec => []StatusIsTrue
<1>1. StatusInv => StatusIsTrue
  BY DEF StatusInv, StatusIsTrue, Pending, Truthful
<1>. QED BY <1>1, StatusInvariance, PTL

\* The monitor implements ServiceLifecycle: every step of it is a start, a failed
\* start, a stop or the end of the process of one service, or none of these.
THEOREM LifecycleImplemented ==
  ASSUME RoomForEveryKey, OnRestartSparesItself
  PROVE  Spec => ImplementsLifecycle
<1>1. Init => Lifecycle!Init
  BY InitStatus
<1>2. IInv /\ StatusInv /\ [Next]_vars => LifecycleStep
  BY NextStatus
<1>. QED BY <1>1, <1>2, Invariance, StatusInvariance, PTL
     DEF Spec, ImplementsLifecycle, Lifecycle!Spec, LifecycleStep, statusBar, heldBar
=============================================================================
