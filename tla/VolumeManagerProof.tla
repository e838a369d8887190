------------------------- MODULE VolumeManagerProof -------------------------
(***************************************************************************)
(* Proofs about VolumeManager: the types, the choice of the save path, and *)
(* what the count of mounts says when the U-disk mode is entered.          *)
(***************************************************************************)
EXTENDS VolumeManager, SequenceTheorems, FiniteSetTheorems, TLAPS

\* A local volume takes part in the choice from its mount to the end of its unmount,
\* which may fail and leave it mounted.
Held == {w \in Local : vol[w].state \in {"mounted", "unmounting"}}

\* Only the worker unmounts, the volume of the event in hand.
UnmountingInHand ==
  \A w \in Local :
    vol[w].state = "unmounting" <=> work.pc = "unmount" /\ work.evt.vol = w

\* No volume in use is above the current one, and without a current one none is in use ...
CurrentIsHighest ==
  IF current = None THEN Held = {}
  ELSE \A w \in Held : vol[w].prio <= vol[current].prio

\* ... and the current one is mounted, or being handled, or did not mount again.
CurrentIsMounted ==
  current # None =>
    \/ vol[current].state \in {"mounted", "nomedia"}
    \/ work # Idle /\ work.evt.vol = current

SaveInv == UnmountingInHand /\ CurrentIsHighest /\ CurrentIsMounted

IInv == TypeOK /\ SaveInv

-----------------------------------------------------------------------------
(***************************************************************************)
(* The types                                                               *)
(***************************************************************************)
Disk == [name : Name, devs : Seq(BOOLEAN), prio : Nat]

LEMMA NameType == Name \subseteq Nat
  BY DEF Name

LEMMA KernelEvent ==
  ASSUME NEW v \in Volume, NEW disk \in Disk, NEW i \in Nat,
         NEW act \in {"add", "remove"}
  PROVE  Kernel(act, v, disk, i) \in Event
  BY DEF Kernel, Event, Disk, Dev

LEMMA DiskEvents ==
  ASSUME NEW v \in Volume, NEW disk \in Disk
  PROVE  AddEvents(v, disk) \in Seq(Event) /\ RemoveEvents(v, disk) \in Seq(Event)
<1>1. Len(disk.devs) \in Nat
  BY LenProperties DEF Disk
<1>2. \A i \in 1..Len(disk.devs) : Kernel("add", v, disk, i) \in Event
  BY <1>1, KernelEvent
<1>3. \A i \in 1..Len(disk.devs) :
        Kernel("remove", v, disk, Len(disk.devs) + 1 - i) \in Event
  <2>1. ASSUME NEW i \in 1..Len(disk.devs)
        PROVE  Kernel("remove", v, disk, Len(disk.devs) + 1 - i) \in Event
    <3>1. Len(disk.devs) + 1 - i \in Nat
      BY <1>1
    <3>. QED BY <3>1, KernelEvent
  <2>. QED BY <2>1
<1>. QED BY <1>1, <1>2, <1>3, IsASeq DEF AddEvents, RemoveEvents

LEMMA PlugInType ==
  ASSUME TypeOK, NEW v \in Volume, NEW devs \in Seq(BOOLEAN), NEW prio \in Nat,
         PlugIn(v, devs, prio)
  PROVE  slot' \in [Volume -> Disk \cup {None}] /\ sock' \in Seq(Event) /\ fs' = fs
<1>1. PICK n \in Name :
        LET disk == [name |-> n, devs |-> devs, prio |-> prio] IN
          slot' = [slot EXCEPT ![v] = disk] /\ sock' = sock \o AddEvents(v, disk)
  BY DEF PlugIn
<1>. DEFINE disk == [name |-> n, devs |-> devs, prio |-> prio]
<1>2. disk \in Disk
  BY DEF Disk
<1>3. AddEvents(v, disk) \in Seq(Event)
  BY <1>2, DiskEvents
<1>4. slot' = [slot EXCEPT ![v] = disk] /\ sock' = sock \o AddEvents(v, disk)
  BY <1>1
<1>. HIDE DEF disk
<1>5. sock' \in Seq(Event)
  BY <1>3, <1>4, ConcatProperties DEF TypeOK
<1>6. slot' \in [Volume -> Disk \cup {None}]
  BY <1>2, <1>4 DEF TypeOK, Disk
<1>. QED BY <1>5, <1>6 DEF PlugIn

LEMMA PullOutType ==
  ASSUME TypeOK, NEW v \in Volume, PullOut(v)
  PROVE  slot' \in [Volume -> Disk \cup {None}] /\ sock' \in Seq(Event) /\ fs' = fs
<1>1. slot[v] \in Disk
  BY DEF TypeOK, PullOut, Disk
<1>2. RemoveEvents(v, slot[v]) \in Seq(Event)
  BY <1>1, DiskEvents
<1>3. sock' \in Seq(Event)
  BY <1>2, ConcatProperties DEF TypeOK, PullOut
<1>. QED BY <1>3 DEF TypeOK, PullOut, Disk

\* What the kernel does leaves the manager alone.
LEMMA KernelsType ==
  ASSUME TypeOK, Kernels
  PROVE  TypeOK' /\ UNCHANGED <<vol, current, work, lost>>
<1>1. /\ slot' \in [Volume -> Disk \cup {None}] /\ sock' \in Seq(Event) /\ fs' = fs
  <2>1. CASE \E v \in Local : ChangeDisk(v)
    <3>1. PICK v \in Local : ChangeDisk(v)
      BY <2>1
    <3>2. CASE PullOut(v)
      BY <3>2, PullOutType DEF Volume
    <3>3. CASE \E d \in Disks[v] : PlugIn(v, d.devs, d.prio)
      <4>1. PICK d \in Disks[v] : PlugIn(v, d.devs, d.prio)
        BY <3>3
      <4>2. d.devs \in Seq(BOOLEAN) /\ d.prio \in Nat
        BY VolumeAssumption
      <4>. QED BY <4>1, <4>2, PlugInType DEF Volume
    <3>. QED BY <3>1, <3>2, <3>3 DEF ChangeDisk
  <2>2. CASE \E m \in Module : SwitchModule(m) \/ DropModule(m)
    <3>1. PICK m \in Module : SwitchModule(m) \/ DropModule(m)
      BY <2>2
    <3>2. CASE PullOut(m)
      BY <3>2, PullOutType DEF Volume
    <3>3. CASE \E d \in Card : PlugIn(m, d, 0)
      BY <3>3, PlugInType, VolumeAssumption DEF Volume
    <3>. QED BY <3>1, <3>2, <3>3 DEF SwitchModule, DropModule
  <2>. QED BY <2>1, <2>2 DEF Kernels
<1>2. /\ UNCHANGED <<net, manager, mode, lost, faults, enters>>
      /\ plugs' = plugs \/ plugs' = plugs + 1
      /\ clean' = clean \/ clean' = ~entering
  <2>1. CASE \E v \in Local : ChangeDisk(v)
    BY <2>1 DEF ChangeDisk, history
  <2>2. CASE \E m \in Module : SwitchModule(m) \/ DropModule(m)
    BY <2>2 DEF SwitchModule, DropModule, history, budget
  <2>. QED BY <2>1, <2>2 DEF Kernels
<1>3. plugs' \in Nat /\ clean' \in BOOLEAN
  <2>1. clean \in BOOLEAN /\ plugs \in Nat
    BY DEF TypeOK
  <2>2. (~entering) \in BOOLEAN
    OBVIOUS
  <2>3. clean' \in BOOLEAN
    BY <1>2, <2>1, <2>2, Zenon
  <2>. QED BY <1>2, <2>1, <2>3
<1>. QED BY <1>1, <1>2, <1>3 DEF TypeOK, manager, mode, Disk

LEMMA ListenerType ==
  ASSUME TypeOK, Listener
  PROVE  TypeOK' /\ UNCHANGED <<vol, current, work>> /\ lost \subseteq lost'
<1>1. CASE ReadEvent
  <2>1. Head(sock) \in Event /\ sock' \in Seq(Event)
    BY <1>1, HeadTailProperties DEF ReadEvent, TypeOK
  <2>2. Append(eventVec, Head(sock)) \in Seq(Event) /\ Head(sock).vol \in Volume
    BY <2>1, AppendProperties DEF TypeOK, Event
  <2>. QED BY <1>1, <2>1, <2>2 DEF ReadEvent, TypeOK, mode, budget
<1>2. CASE CacheEvent
  <2>1. net \in Event /\ net.vol \in Volume
    BY <1>2 DEF CacheEvent, TypeOK, Event
  <2>2. cacheVec' \in Seq(Event)
    BY <1>2, <2>1, AppendProperties DEF CacheEvent, TypeOK
  <2>. QED BY <1>2, <2>1, <2>2 DEF CacheEvent, TypeOK, kernel, manager, budget
<1>. QED BY <1>1, <1>2 DEF Listener

LEMMA QueueHead ==
  ASSUME TypeOK, eventVec # << >>
  PROVE  Head(eventVec) \in Event /\ Tail(eventVec) \in Seq(Event)
  BY HeadTailProperties DEF TypeOK

Vol == [state : State, dev : Dev \cup {None}, prio : Nat]

\* One or two fields of one volume are changed.
LEMMA Changed ==
  ASSUME vol \in [Volume -> Vol], NEW v \in Volume,
         NEW st \in State, NEW d \in Dev \cup {None}, NEW p \in Nat
  PROVE  /\ [vol EXCEPT ![v].state = st] \in [Volume -> Vol]
         /\ [vol EXCEPT ![v].dev = d] \in [Volume -> Vol]
         /\ [vol EXCEPT ![v].dev = d, ![v].state = st] \in [Volume -> Vol]
         /\ [vol EXCEPT ![v].state = st, ![v].prio = p] \in [Volume -> Vol]
<1>. DEFINE r == vol[v]
<1>1. r \in Vol
  OBVIOUS
<1>. HIDE DEF r
<1>2. /\ [r EXCEPT !.state = st] \in Vol /\ [r EXCEPT !.dev = d] \in Vol
      /\ [r EXCEPT !.dev = d, !.state = st] \in Vol
      /\ [r EXCEPT !.state = st, !.prio = p] \in Vol
  BY <1>1 DEF Vol
<1>3. ASSUME NEW q \in Vol
      PROVE  [vol EXCEPT ![v] = q] \in [Volume -> Vol]
  OBVIOUS
<1>4. /\ [vol EXCEPT ![v].state = st] = [vol EXCEPT ![v] = [r EXCEPT !.state = st]]
      /\ [vol EXCEPT ![v].dev = d] = [vol EXCEPT ![v] = [r EXCEPT !.dev = d]]
  BY DEF r
<1>5. [vol EXCEPT ![v].dev = d, ![v].state = st]
        = [vol EXCEPT ![v] = [r EXCEPT !.dev = d, !.state = st]]
  BY DEF r
<1>6. [vol EXCEPT ![v].state = st, ![v].prio = p]
        = [vol EXCEPT ![v] = [r EXCEPT !.state = st, !.prio = p]]
  BY DEF r
<1>. QED BY <1>2, <1>3, <1>4, <1>5, <1>6

LEMMA VolType ==
  ASSUME TypeOK
  PROVE  vol \in [Volume -> Vol]
  BY DEF TypeOK, Vol

LEMMA TakeAddType ==
  ASSUME TypeOK, TakeAdd
  PROVE  TypeOK'
<1>. DEFINE e == Head(eventVec)
<1>1. e \in Event /\ eventVec' \in Seq(Event)
  BY QueueHead DEF TakeAdd
<1>2. e.vol \in Volume /\ e.dev \in Dev \cup {None}
  BY <1>1 DEF Event
<1>. HIDE DEF e
<1>3. \/ vol' = [vol EXCEPT ![e.vol].dev = None] /\ work' = work
      \/ \E st \in {"unmounting", vol[e.vol].state} :
           /\ vol' = [vol EXCEPT ![e.vol].dev = e.dev, ![e.vol].state = st]
           /\ work' \in [pc : {"mount", "unmount"}, evt : {e}]
  <2>1. \/ vol' = [vol EXCEPT ![e.vol].dev = None] /\ work' = work
        \/ /\ vol' = [vol EXCEPT ![e.vol].dev = e.dev,
                                ![e.vol].state = IF vol[e.vol].state = "mounted"
                                                 THEN "unmounting" ELSE @]
           /\ work' = [pc |-> IF vol[e.vol].state = "mounted" THEN "unmount" ELSE "mount",
                       evt |-> e]
    BY DEF TakeAdd, e
  <2>2. vol \in [Volume -> Vol]
    BY VolType
  <2>3. vol[e.vol].state = "mounted" \/ vol[e.vol].state # "mounted"
    OBVIOUS
  <2>. QED BY <1>2, <2>1, <2>2, <2>3 DEF Vol
<1>4. work' = Idle \/ work' \in [pc : {"mount", "unmount"}, evt : Event]
  BY <1>1, <1>3 DEF TypeOK
<1>5. vol' \in [Volume -> Vol]
  <2>1. vol[e.vol].state \in State /\ "unmounting" \in State
    BY <1>2, VolType DEF Vol, State
  <2>2. CASE vol' = [vol EXCEPT ![e.vol].dev = None]
    <3>1. None \in Dev \cup {None} /\ 0 \in Nat
      OBVIOUS
    <3>2. [vol EXCEPT ![e.vol].dev = None] \in [Volume -> Vol]
      BY <1>2, <2>1, <3>1, VolType, Changed
    <3>. QED BY <2>2, <3>2
  <2>3. ASSUME NEW st \in {"unmounting", vol[e.vol].state},
               vol' = [vol EXCEPT ![e.vol].dev = e.dev, ![e.vol].state = st]
        PROVE  vol' \in [Volume -> Vol]
    <3>1. st \in State
      BY <2>1
    <3>. QED BY <1>2, <2>3, <3>1, VolType, Changed
  <2>. QED BY <1>3, <2>2, <2>3
<1>6. lost' \subseteq Volume
  BY <1>2 DEF TakeAdd, TypeOK, e
<1>. QED BY <1>1, <1>4, <1>5, <1>6 DEF Vol, TakeAdd, TypeOK, kernel, mode, budget, Idle

LEMMA TakeRemoveType ==
  ASSUME TypeOK, TakeRemove
  PROVE  TypeOK'
<1>. DEFINE e == Head(eventVec)
<1>1. e \in Event /\ eventVec' \in Seq(Event) /\ e.vol \in Volume
  BY QueueHead DEF TakeRemove, Event
<1>2. \/ UNCHANGED <<vol, work>>
      \/ /\ vol' = [vol EXCEPT ![e.vol].state = "unmounting"]
         /\ work' = [pc |-> "unmount", evt |-> e]
  BY DEF TakeRemove
<1>. HIDE DEF e
<1>3. vol' \in [Volume -> Vol]
  <2>1. "unmounting" \in State /\ None \in Dev \cup {None} /\ 0 \in Nat
    BY DEF State
  <2>2. [vol EXCEPT ![e.vol].state = "unmounting"] \in [Volume -> Vol]
    BY <1>1, <2>1, VolType, Changed
  <2>. QED BY <1>2, <2>2, VolType
<1>4. work' = Idle \/ work' \in [pc : {"mount", "unmount"}, evt : Event]
  BY <1>1, <1>2 DEF TypeOK, Idle
<1>. QED BY <1>1, <1>3, <1>4 DEF Vol, TakeRemove, TypeOK, kernel, mode, history, budget, Idle

\* The event in hand, and the fault budget.
LEMMA InHand ==
  ASSUME TypeOK, work.pc \in {"mount", "unmount"}
  PROVE  /\ work \in [pc : {"mount", "unmount"}, evt : Event] /\ work # Idle
         /\ work.evt.vol \in Volume /\ work.evt.prio \in Nat
  BY DEF TypeOK, Idle, Event

LEMMA FaultType ==
  ASSUME TypeOK, Fault \/ Works
  PROVE  faults' \in Nat
  BY DEF TypeOK, Fault, Works

LEMMA MountedType ==
  ASSUME NEW stack \in Seq(Dev \cup {None})
  PROVE  Unmounted(stack) \in Seq(Dev \cup {None})
  BY HeadTailProperties DEF Unmounted

LEMMA SaveOnAddType ==
  ASSUME NEW v \in Local, NEW vs, current \in Local \cup {None}
  PROVE  SaveOnAdd(v, vs) \subseteq Local
  BY DEF SaveOnAdd, Best, MountedLocals

LEMMA SaveOnRemoveType ==
  ASSUME NEW v, NEW vs, current \in Local \cup {None}
  PROVE  SaveOnRemove(v, vs) \subseteq Local \cup {None}
  BY DEF SaveOnRemove, Best, MountedLocals

LEMMA MountVolumeType ==
  ASSUME TypeOK, MountVolume
  PROVE  TypeOK'
<1>. DEFINE v == work.evt.vol
<1>1. v \in Volume /\ work.evt.prio \in Nat /\ faults' \in Nat
  BY InHand, FaultType DEF MountVolume
<1>2. vol[v].dev \in Dev \cup {None} /\ vol[v].prio \in Nat
  BY <1>1, VolType DEF Vol
<1>3. fs' \in [Volume -> Seq(Dev \cup {None})]
  <2>1. fs[v] \in Seq(Dev \cup {None})
    BY <1>1 DEF TypeOK
  <2>2. <<vol[v].dev>> \in Seq(Dev \cup {None})
    BY <1>2
  <2>3. <<vol[v].dev>> \o fs[v] \in Seq(Dev \cup {None})
    BY <2>1, <2>2, ConcatProperties
  <2>4. fs' = [fs EXCEPT ![v] = <<vol[v].dev>> \o @]
    BY DEF MountVolume
  <2>. QED BY <1>1, <2>3, <2>4 DEF TypeOK
<1>4. vol' \in [Volume -> Vol]
  <2>1. /\ (IF v \in Local THEN work.evt.prio ELSE vol[v].prio) \in Nat
        /\ "mounted" \in State
    BY <1>1, <1>2 DEF State
  <2>. QED BY <1>1, <2>1, VolType, Changed DEF MountVolume
<1>5. current' \in Local \cup {None}
  BY SaveOnAddType DEF MountVolume, TypeOK
<1>6. added' \in Nat
  BY DEF MountVolume, TypeOK
<1>7. /\ work' = Idle /\ lost' = lost /\ clean' = clean
      /\ UNCHANGED <<slot, sock, net, running, eventVec, cacheVec, entering, ui, power, tries, todo,
                     plugs, enters>>
  BY DEF MountVolume, history
<1>. QED BY <1>1, <1>3, <1>4, <1>5, <1>6, <1>7 DEF Vol, TypeOK

LEMMA MountFailsType ==
  ASSUME TypeOK, MountFails
  PROVE  TypeOK'
<1>1. work.evt.vol \in Volume /\ faults' \in Nat
  BY InHand, FaultType DEF MountFails
<1>2. vol' \in [Volume -> Vol]
  BY <1>1, VolType, Changed DEF MountFails, State
<1>3. lost' \subseteq Volume
  BY <1>1 DEF MountFails, TypeOK
<1>. QED BY <1>1, <1>2, <1>3 DEF Vol, MountFails, TypeOK, kernel, mode

LEMMA UnmountType ==
  ASSUME TypeOK, UnmountFirst \/ UnmountVolume \/ UnmountFails
  PROVE  TypeOK'
<1>. DEFINE v == work.evt.vol
<1>1. /\ v \in Volume /\ work.evt.prio \in Nat /\ faults' \in Nat
      /\ work \in [pc : {"mount", "unmount"}, evt : Event]
  BY InHand, FaultType DEF UnmountFirst, UnmountVolume, UnmountFails
<1>2. Unmounted(fs[v]) \in Seq(Dev \cup {None})
  BY <1>1, MountedType DEF TypeOK
<1>3. fs' = [fs EXCEPT ![v] = Unmounted(@)] \/ fs' = fs
  BY DEF UnmountFirst, UnmountVolume, UnmountFails, kernel
<1>4. fs' \in [Volume -> Seq(Dev \cup {None})]
  BY <1>1, <1>2, <1>3 DEF TypeOK
<1>5. CASE UnmountFirst
  <2>1. vol' \in [Volume -> Vol]
    BY <1>1, <1>5, VolType, Changed DEF UnmountFirst, State
  <2>2. work' \in [pc : {"mount", "unmount"}, evt : Event] /\ lost' \subseteq Volume
    BY <1>1, <1>5 DEF UnmountFirst, TypeOK
  <2>. QED BY <1>1, <1>4, <1>5, <2>1, <2>2 DEF Vol, UnmountFirst, TypeOK, mode
<1>6. CASE UnmountVolume
  <2>1. vol' \in [Volume -> Vol]
    <3>. DEFINE p == IF v = current THEN 0
                     ELSE IF v \in Local THEN work.evt.prio ELSE vol[v].prio
    <3>1. vol \in [Volume -> Vol] /\ "init" \in State
      BY VolType DEF State
    <3>2. p \in Nat
      BY <1>1, <3>1 DEF Vol
    <3>3. vol' = [vol EXCEPT ![v].state = "init",
                             ![v].prio = IF v = current THEN 0
                                         ELSE IF v \in Local THEN work.evt.prio ELSE @]
      BY <1>6 DEF UnmountVolume
    <3>4. vol' = [vol EXCEPT ![v].state = "init", ![v].prio = p]
      BY <1>1, <3>1, <3>3 DEF Vol
    <3>. HIDE DEF p, v
    <3>. QED BY <1>1, <3>1, <3>2, <3>4, Changed
  <2>2. current' \in Local \cup {None}
    BY <1>6, SaveOnRemoveType DEF UnmountVolume, TypeOK
  <2>. QED BY <1>1, <1>4, <1>6, <2>1, <2>2 DEF Vol, UnmountVolume, TypeOK, mode, history
<1>7. CASE UnmountFails
  <2>1. vol' \in [Volume -> Vol]
    BY <1>1, <1>7, VolType, Changed DEF UnmountFails, State
  <2>. QED BY <1>1, <1>7, <2>1 DEF Vol, UnmountFails, TypeOK, kernel, mode
<1>. QED BY <1>5, <1>6, <1>7

LEMMA WorkerType ==
  ASSUME TypeOK, Worker
  PROVE  TypeOK'
  BY TakeAddType, TakeRemoveType, MountVolumeType, MountFailsType, UnmountType DEF Worker

LEMMA CachedType ==
  ASSUME TypeOK
  PROVE  Cached \subseteq Volume
<1>1. ASSUME NEW i \in DOMAIN cacheVec
      PROVE  cacheVec[i].vol \in Volume
  <2>1. cacheVec[i] \in Event
    BY <1>1, ElementOfSeq, LenProperties DEF TypeOK
  <2>. QED BY <2>1 DEF Event
<1>. QED BY <1>1 DEF Cached

LEMMA StartType ==
  ASSUME TypeOK, Start
  PROVE  TypeOK' /\ UNCHANGED <<vol, current, work, lost>>
<1>1. CASE Listen
  BY <1>1 DEF Listen, TypeOK, UI, Volume, kernel, manager, history, budget
<1>2. CASE \E v \in Local : Coldboot(v)
  <2>1. PICK v \in Local : Coldboot(v)
    BY <1>2
  <2>2. sock' \in Seq(Event)
    <3>1. CASE slot[v] = None
      BY <2>1, <3>1 DEF Coldboot, TypeOK
    <3>2. CASE slot[v] # None
      <4>1. v \in Volume /\ slot[v] \in Disk
        BY <3>2 DEF TypeOK, Disk, Volume
      <4>2. AddEvents(v, slot[v]) \in Seq(Event)
        BY <4>1, DiskEvents
      <4>. QED BY <2>1, <3>2, <4>2, ConcatProperties DEF Coldboot, TypeOK
    <3>. QED BY <3>1, <3>2
  <2>. QED BY <2>1, <2>2 DEF Coldboot, TypeOK, UI, manager, history, budget
<1>3. CASE StartWorkThread
  BY <1>3 DEF StartWorkThread, TypeOK, UI, kernel, history, budget
<1>. QED BY <1>1, <1>2, <1>3 DEF Start

LEMMA SwitchOnType ==
  ASSUME TypeOK, SwitchOn
  PROVE  TypeOK' /\ UNCHANGED <<vol, current, work>> /\ lost \subseteq lost'
<1>1. CASE ClearAndPowerOn
  <2>1. cacheVec' \in Seq(Event)
    BY <1>1, EmptySeq DEF ClearAndPowerOn
  <2>2. clean' \in BOOLEAN
    BY <1>1, Zenon DEF ClearAndPowerOn
  <2>3. lost' \subseteq Volume
    BY <1>1, CachedType DEF ClearAndPowerOn, TypeOK
  <2>. QED BY <1>1, <2>1, <2>2, <2>3 DEF ClearAndPowerOn, TypeOK, UI, kernel, manager, budget
<1>2. CASE GiveUp
  <2>1. lost' \subseteq Volume /\ lost \subseteq lost'
    BY <1>2, CachedType DEF GiveUp, TypeOK, history
  <2>2. tries' \in Nat /\ ui' \in UI /\ power' \subseteq Module
    BY <1>2 DEF GiveUp, TypeOK, UI
  <2>3. entering' \in BOOLEAN /\ clean' \in BOOLEAN
    BY <1>2 DEF GiveUp, TypeOK, history
  <2>. QED BY <1>2, <2>1, <2>2, <2>3 DEF GiveUp, TypeOK, kernel, manager, budget
<1>3. CASE Flush
  <2>1. eventVec' \in Seq(Event)
    BY <1>3, ConcatProperties DEF Flush, TypeOK
  <2>. QED BY <1>3, <2>1 DEF Flush, TypeOK, UI, kernel, history, budget
<1>4. CASE FlushClears
  <2>1. cacheVec' \in Seq(Event)
    BY <1>4, EmptySeq DEF FlushClears
  <2>. QED BY <1>4, <2>1 DEF FlushClears, TypeOK, UI, kernel, manager, history, budget
<1>5. CASE EndEnter
  BY <1>5, CachedType DEF EndEnter, TypeOK, UI, kernel, manager, budget
<1>. QED BY <1>1, <1>2, <1>3, <1>4, <1>5 DEF SwitchOn

LEMMA SwitchOffType ==
  ASSUME TypeOK, Exit \/ SwitchOff
  PROVE  TypeOK' /\ UNCHANGED <<vol, current, work, lost>>
<1>1. CASE Exit
  BY <1>1 DEF Exit, TypeOK, UI, Volume, kernel, manager, history, budget
<1>2. CASE \E m \in Module : CacheRemoval(m)
  <2>1. PICK m \in Module : CacheRemoval(m)
    BY <1>2
  <2>2. [act |-> "remove", src |-> "app", vol |-> m, dev |-> vol[m].dev, prio |-> 0] \in Event
    BY DEF TypeOK, Event, Volume
  <2>3. cacheVec' \in Seq(Event)
    BY <2>1, <2>2, AppendProperties DEF CacheRemoval, TypeOK
  <2>. QED BY <2>1, <2>3 DEF CacheRemoval, TypeOK, UI, kernel, manager, history, budget
<1>3. CASE EndExit
  BY <1>3 DEF EndExit, TypeOK, UI, kernel, manager, history, budget
<1>. QED BY <1>1, <1>2, <1>3 DEF SwitchOff

\* Only the modules' volumes are touched beside the worker.
LEMMA EnterType ==
  ASSUME TypeOK, Enter
  PROVE  /\ TypeOK' /\ UNCHANGED <<current, work, lost>>
         /\ \A w \in Local : vol'[w] = vol[w]
<1>. DEFINE Mounted == {m \in Module : vol[m].state = "mounted"}
<1>1. vol' = [v \in Volume |->
                IF v \in Mounted THEN [vol[v] EXCEPT !.state = "idle"] ELSE vol[v]]
  BY DEF Enter
<1>2. \/ fs' = [v \in Volume |-> IF v \in Mounted THEN Unmounted(fs[v]) ELSE fs[v]]
      \/ fs' = fs
  BY DEF Enter
<1>3. \A w \in Local : w \in Volume /\ w \notin Mounted
  BY VolumeAssumption DEF Volume
<1>4. \A w \in Local : vol'[w] = vol[w]
  BY <1>1, <1>3
<1>5. faults' \in Nat /\ enters' \in Nat
  <2>1. (Fault \/ Works) /\ enters' = enters + 1
    BY Zenon DEF Enter
  <2>2. enters' \in Nat
    BY <2>1 DEF TypeOK
  <2>. QED BY <2>1, <2>2, FaultType
<1>6. clean' \in BOOLEAN
  BY Zenon DEF Enter
<1>. HIDE DEF Mounted
<1>7. vol' \in [Volume -> Vol]
  <2>1. ASSUME NEW v \in Volume
        PROVE  [vol[v] EXCEPT !.state = "idle"] \in Vol /\ vol[v] \in Vol
    BY VolType DEF Vol, State
  <2>. QED BY <1>1, <2>1
<1>8. fs' \in [Volume -> Seq(Dev \cup {None})]
  <2>1. ASSUME NEW v \in Volume
        PROVE  Unmounted(fs[v]) \in Seq(Dev \cup {None}) /\ fs[v] \in Seq(Dev \cup {None})
    BY MountedType DEF TypeOK
  <2>2. CASE fs' = fs
    BY <2>2 DEF TypeOK
  <2>. QED BY <1>2, <2>1, <2>2
<1>9. UNCHANGED <<slot, sock, net, running, current, eventVec, work, cacheVec, tries, todo,
                  lost, plugs>>
      /\ entering' = TRUE /\ added' = 0 /\ power' = {} /\ ui' \in UI
  <2>1. UNCHANGED <<slot, sock, net, running, current, eventVec, work, cacheVec, tries, todo,
                    lost, plugs>>
    BY Zenon DEF Enter
  <2>2. entering' = TRUE /\ added' = 0 /\ power' = {} /\ ui' = "clear"
    BY Zenon DEF Enter
  <2>. QED BY <2>1, <2>2 DEF UI
<1>10. /\ sock' \in Seq(Event) /\ eventVec' \in Seq(Event) /\ cacheVec' \in Seq(Event)
       /\ (net = None \/ net \in Event)'
       /\ (work = Idle \/ work \in [pc : {"mount", "unmount"}, evt : Event])'
  BY <1>9 DEF TypeOK, Idle
<1>11. slot' \in [Volume -> [name : Name, devs : Seq(BOOLEAN), prio : Nat] \cup {None}]
  BY <1>9 DEF TypeOK
<1>12. /\ current' \in Local \cup {None} /\ power' \subseteq Module
       /\ todo' \subseteq Volume /\ lost' \subseteq Volume
  BY <1>9 DEF TypeOK
<1>13. {running', entering', clean'} \subseteq BOOLEAN
  BY <1>6, <1>9 DEF TypeOK
<1>14. {added', tries', plugs', faults', enters'} \subseteq Nat
  BY <1>5, <1>9 DEF TypeOK
<1>15. TypeOK'
  BY <1>7, <1>8, <1>9, <1>10, <1>11, <1>12, <1>13, <1>14 DEF TypeOK, Vol
<1>. QED BY <1>4, <1>9, <1>15

LEMMA InitType ==
  ASSUME Init
  PROVE  IInv
<1>1. slot \in [Volume -> Disk \cup {None}]
  <2>1. PICK name \in First, disk \in [Local -> UNION {Disks[v] : v \in Local}] :
          /\ \A v \in Local : disk[v] \in Disks[v]
          /\ slot = [v \in Volume |->
               IF v \in Local /\ name[v] # 0
               THEN [name |-> name[v], devs |-> disk[v].devs, prio |-> disk[v].prio]
               ELSE None]
    BY DEF Init
  <2>2. ASSUME NEW v \in Local, name[v] # 0
        PROVE  [name |-> name[v], devs |-> disk[v].devs, prio |-> disk[v].prio] \in Disk
    <3>1. name[v] \in Name
      BY <2>2, VolumeAssumption
    <3>2. disk[v] \in [devs : Seq(BOOLEAN), prio : Nat]
      BY <2>1, VolumeAssumption
    <3>. QED BY <3>1, <3>2 DEF Disk
  <2>. QED BY <2>1, <2>2
<1>2. vol = [v \in Volume |-> [state |-> "init", dev |-> None, prio |-> 0]]
  BY DEF Init
<1>3. vol \in [Volume -> Vol]
  BY <1>2 DEF Vol, State
<1>4. fs \in [Volume -> Seq(Dev \cup {None})]
  BY EmptySeq DEF Init
<1>5. sock \in Seq(Event) /\ eventVec \in Seq(Event) /\ cacheVec \in Seq(Event)
  BY EmptySeq DEF Init
<1>6. TypeOK
  <2>1. running \in BOOLEAN /\ entering \in BOOLEAN /\ clean \in BOOLEAN
    BY Zenon DEF Init
  <2>2. /\ net = None /\ current \in Local \cup {None} /\ work = Idle
        /\ {added, tries, plugs, faults, enters} \subseteq Nat
    BY DEF Init
  <2>3. ui \in UI /\ power \subseteq Module /\ todo \subseteq Volume /\ lost \subseteq Volume
    BY DEF Init, UI
  <2>. QED BY <1>1, <1>3, <1>4, <1>5, <2>1, <2>2, <2>3 DEF TypeOK, Disk, Vol
<1>7. SaveInv
  BY <1>2 DEF Init, SaveInv, UnmountingInHand, CurrentIsHighest, CurrentIsMounted, Held, Volume,
     Idle
<1>. QED BY <1>6, <1>7 DEF IInv

-----------------------------------------------------------------------------
(***************************************************************************)
(* The save path                                                           *)
(***************************************************************************)
\* A step that leaves the local volumes, the current one and the worker alone keeps it.
LEMMA SameSave ==
  ASSUME IInv, UNCHANGED <<current, work>>,
         \A w \in Local : vol'[w] = vol[w]
  PROVE  SaveInv'
<1>1. current \in Local \cup {None}
  BY DEF IInv, TypeOK
<1>2. Held' = Held
  BY DEF Held
<1>. QED BY <1>1, <1>2 DEF IInv, SaveInv, UnmountingInHand, CurrentIsHighest, CurrentIsMounted, Held

\* Nothing is being unmounted while the worker waits for an event.
LEMMA WaitingHoldsMounted ==
  ASSUME IInv, work.pc # "unmount"
  PROVE  Held = MountedLocals(vol)
  BY DEF IInv, SaveInv, UnmountingInHand, Held, MountedLocals

LEMMA TakeAddSave ==
  ASSUME IInv, TakeAdd
  PROVE  SaveInv'
<1>. DEFINE v == Head(eventVec).vol
<1>0. vol \in [Volume -> Vol] /\ current' = current /\ lost \subseteq lost'
  BY VolType DEF IInv, TakeAdd
<1>1. v \in Volume /\ work = Idle
  BY QueueHead, InHand DEF IInv, TypeOK, TakeAdd, Event, Idle
<1>2. CASE vol' = [vol EXCEPT ![v].dev = None] /\ work' = work
  <2>0. vol' = [vol EXCEPT ![v] = [vol[v] EXCEPT !.dev = None]]
    BY <1>2
  <2>1. /\ \A w \in Volume : vol'[w].state = vol[w].state /\ vol'[w].prio = vol[w].prio
        /\ current' = current /\ lost \subseteq lost'
    <3>1. vol'[v].state = vol[v].state /\ vol'[v].prio = vol[v].prio
      BY <1>0, <1>1, <2>0 DEF Vol
    <3>2. \A w \in Volume \ {v} : vol'[w] = vol[w]
      BY <1>0, <1>1, <2>0
    <3>. QED BY <1>0, <3>1, <3>2
  <2>2. Held' = Held
    BY <2>1 DEF Held, Volume
  <2>3. current \in Local \cup {None} /\ Local \subseteq Volume /\ Held \subseteq Local
    BY DEF IInv, TypeOK, Volume, Held
  <2>4. UnmountingInHand'
    BY <1>2, <2>1, <2>3 DEF IInv, SaveInv, UnmountingInHand
  <2>5. CurrentIsHighest'
    BY <2>1, <2>2, <2>3 DEF IInv, SaveInv, CurrentIsHighest
  <2>6. CurrentIsMounted'
    BY <1>2, <2>1, <2>3 DEF IInv, SaveInv, CurrentIsMounted
  <2>. QED BY <2>4, <2>5, <2>6 DEF SaveInv
<1>3. CASE /\ vol[v].state # "mounted"
           /\ vol' = [vol EXCEPT ![v].dev = Head(eventVec).dev, ![v].state = vol[v].state]
           /\ work' = [pc |-> "mount", evt |-> Head(eventVec)]
  <2>0. vol' = [vol EXCEPT ![v] = [vol[v] EXCEPT !.dev = Head(eventVec).dev,
                                                 !.state = vol[v].state]]
    BY <1>3
  <2>1. /\ \A w \in Volume : vol'[w].state = vol[w].state /\ vol'[w].prio = vol[w].prio
        /\ current' = current /\ lost \subseteq lost'
    <3>1. vol'[v].state = vol[v].state /\ vol'[v].prio = vol[v].prio
      BY <1>0, <1>1, <2>0 DEF Vol
    <3>2. \A w \in Volume \ {v} : vol'[w] = vol[w]
      BY <1>0, <1>1, <2>0
    <3>. QED BY <1>0, <3>1, <3>2
  <2>2. Held' = Held
    BY <2>1 DEF Held, Volume
  <2>. QED BY <1>1, <1>3, <2>1, <2>2 DEF IInv, TypeOK, SaveInv, UnmountingInHand,
       CurrentIsHighest, CurrentIsMounted, Held, Volume, Idle
<1>4. CASE /\ vol[v].state = "mounted"
           /\ vol' = [vol EXCEPT ![v].dev = Head(eventVec).dev, ![v].state = "unmounting"]
           /\ work' = [pc |-> "unmount", evt |-> Head(eventVec)]
  <2>0. vol' = [vol EXCEPT ![v] = [vol[v] EXCEPT !.dev = Head(eventVec).dev,
                                                 !.state = "unmounting"]]
    BY <1>4
  <2>1. /\ \A w \in Volume : vol'[w].prio = vol[w].prio
        /\ \A w \in Volume \ {v} : vol'[w].state = vol[w].state
        /\ vol'[v].state = "unmounting"
        /\ current' = current /\ lost \subseteq lost'
    <3>1. vol'[v].state = "unmounting" /\ vol'[v].prio = vol[v].prio
      BY <1>0, <1>1, <2>0 DEF Vol
    <3>2. \A w \in Volume \ {v} : vol'[w] = vol[w]
      BY <1>0, <1>1, <2>0
    <3>. QED BY <1>0, <3>1, <3>2
  <2>2. Held' = Held
    BY <1>4, <2>1 DEF Held, Volume
  <2>. QED BY <1>1, <1>4, <2>1, <2>2 DEF IInv, TypeOK, SaveInv, UnmountingInHand,
       CurrentIsHighest, CurrentIsMounted, Held, Volume, Idle
<1>. QED BY <1>2, <1>3, <1>4 DEF TakeAdd

LEMMA TakeRemoveSave ==
  ASSUME IInv, TakeRemove
  PROVE  SaveInv'
<1>. DEFINE v == Head(eventVec).vol
<1>1. v \in Volume /\ work = Idle /\ UNCHANGED <<current, lost>>
  BY QueueHead, InHand DEF IInv, TypeOK, TakeRemove, Event, Idle, history
<1>2. CASE UNCHANGED <<vol, work>>
  BY <1>1, <1>2, SameSave
<1>3. CASE /\ vol[v].state = "mounted"
           /\ vol' = [vol EXCEPT ![v].state = "unmounting"]
           /\ work' = [pc |-> "unmount", evt |-> Head(eventVec)]
  <2>1. /\ \A w \in Volume : vol'[w].prio = vol[w].prio
        /\ \A w \in Volume \ {v} : vol'[w].state = vol[w].state
        /\ vol'[v].state = "unmounting"
    BY <1>1, <1>3, VolType DEF IInv, Vol
  <2>2. Held' = Held
    BY <1>3, <2>1 DEF Held, Volume
  <2>. QED BY <1>1, <1>3, <2>1, <2>2 DEF IInv, TypeOK, SaveInv, UnmountingInHand,
       CurrentIsHighest, CurrentIsMounted, Held, Volume, Idle
<1>. QED BY <1>2, <1>3 DEF TakeRemove

LEMMA MountVolumeSave ==
  ASSUME IInv, MountVolume
  PROVE  SaveInv'
<1>. DEFINE v == work.evt.vol
<1>1. /\ v \in Volume /\ work.pc = "mount" /\ work # Idle /\ work' = Idle /\ lost' = lost
      /\ current \in Local \cup {None}
  BY InHand DEF IInv, TypeOK, MountVolume, history
<1>2. /\ vol'[v].state = "mounted" /\ vol'[v].prio \in Nat
      /\ \A w \in Volume \ {v} : vol'[w].state = vol[w].state /\ vol'[w].prio = vol[w].prio
      /\ \A w \in Volume : vol[w].prio \in Nat
      /\ v \in Module => vol'[v].prio = vol[v].prio
  BY <1>1, VolType, InHand, VolumeAssumption DEF IInv, MountVolume, Vol
<1>3. Held = MountedLocals(vol)
  BY <1>1, WaitingHoldsMounted
<1>4. Held' = MountedLocals(vol') /\ UnmountingInHand'
  BY <1>1, <1>2 DEF IInv, SaveInv, UnmountingInHand, Held, MountedLocals, Volume, Idle
<1>5. CASE v \in Module
  <2>1. v \notin Local /\ current' = current
    BY <1>5, VolumeAssumption DEF MountVolume
  <2>2. Held' = Held
    BY <1>2, <2>1 DEF Held, Volume
  <2>. QED BY <1>1, <1>2, <1>4, <2>1, <2>2 DEF IInv, SaveInv, CurrentIsHighest,
       CurrentIsMounted, Held, Volume
<1>6. CASE v \in Local
  <2>1. current' \in SaveOnAdd(v, vol')
    BY <1>6 DEF MountVolume
  <2>2. MountedLocals(vol') = MountedLocals(vol) \cup {v}
    BY <1>2, <1>6 DEF MountedLocals, Volume
  <2>3. CASE current = None
    <3>1. current' = v /\ MountedLocals(vol') = {v}
      BY <1>3, <2>1, <2>2, <2>3 DEF SaveOnAdd, IInv, SaveInv, CurrentIsHighest
    <3>2. v # None
      BY <1>1, VolumeAssumption
    <3>. QED BY <1>1, <1>2, <1>4, <3>1, <3>2 DEF SaveInv, CurrentIsHighest, CurrentIsMounted
  <2>4. CASE current # None
    <3>. DEFINE Higher == {w \in MountedLocals(vol') : vol'[w].prio > vol'[current].prio}
    <3>1. current \in Volume /\ current # None /\ \A w \in Volume : vol'[w].prio \in Nat
      BY <1>1, <1>2, <2>4 DEF Volume
    <3>2. vol'[current].state \in {"mounted", "nomedia"}
      BY <1>1, <1>2, <2>4, <3>1 DEF IInv, SaveInv, CurrentIsMounted
    <3>3. MountedLocals(vol') \subseteq Volume
      BY DEF MountedLocals, Volume
    <3>4. CASE Higher = {}
      <4>1. current' = current
        BY <2>1, <2>4, <3>4 DEF SaveOnAdd
      <4>2. \A w \in MountedLocals(vol') : vol'[w].prio <= vol'[current].prio
        BY <3>1, <3>3, <3>4
      <4>. QED BY <1>1, <1>4, <3>1, <3>2, <4>1, <4>2 DEF SaveInv, CurrentIsHighest,
           CurrentIsMounted
    <3>5. CASE Higher # {}
      <4>1. current' \in Higher /\ \A u \in Higher : vol'[u].prio <= vol'[current'].prio
        BY <2>1, <2>4, <3>5 DEF SaveOnAdd, Best
      <4>2. \A w \in MountedLocals(vol') : vol'[w].prio <= vol'[current'].prio
        BY <3>1, <3>3, <4>1
      <4>3. current' # None /\ vol'[current'].state = "mounted"
        BY <3>3, <4>1, VolumeAssumption DEF MountedLocals
      <4>. QED BY <1>4, <4>2, <4>3 DEF SaveInv, CurrentIsHighest, CurrentIsMounted
    <3>. QED BY <3>4, <3>5
  <2>. QED BY <2>3, <2>4
<1>. QED BY <1>1, <1>5, <1>6 DEF Volume

LEMMA MountFailsSave ==
  ASSUME IInv, MountFails
  PROVE  SaveInv'
<1>. DEFINE v == work.evt.vol
<1>1. /\ v \in Volume /\ work.pc = "mount" /\ work # Idle /\ work' = Idle /\ current' = current
      /\ current \in Local \cup {None}
  BY InHand DEF IInv, TypeOK, MountFails
<1>2. /\ vol'[v].state = "nomedia"
      /\ \A w \in Volume \ {v} : vol'[w].state = vol[w].state
      /\ \A w \in Volume : vol'[w].prio = vol[w].prio
  BY <1>1, VolType DEF IInv, MountFails, Vol
<1>3. Held' \subseteq Held /\ UnmountingInHand'
  BY <1>1, <1>2 DEF IInv, SaveInv, UnmountingInHand, Held, Volume, Idle
<1>. QED BY <1>1, <1>2, <1>3 DEF IInv, SaveInv, CurrentIsHighest, CurrentIsMounted, Held, Volume

LEMMA UnmountFirstSave ==
  ASSUME IInv, UnmountFirst
  PROVE  SaveInv'
<1>. DEFINE v == work.evt.vol
<1>1. /\ v \in Volume /\ work.pc = "unmount" /\ current' = current /\ lost \subseteq lost'
      /\ current \in Local \cup {None}
      /\ work'.evt = work.evt /\ work'.pc = "mount" /\ work' # Idle
  BY InHand DEF IInv, TypeOK, UnmountFirst, Idle
<1>2. /\ vol'[v].state = "init"
      /\ \A w \in Volume \ {v} : vol'[w].state = vol[w].state
      /\ \A w \in Volume : vol'[w].prio = vol[w].prio
  BY <1>1, VolType DEF IInv, UnmountFirst, Vol
<1>3. Held' \subseteq Held /\ UnmountingInHand'
  BY <1>1, <1>2 DEF IInv, SaveInv, UnmountingInHand, Held, Volume, Idle
<1>. QED BY <1>1, <1>2, <1>3 DEF IInv, SaveInv, CurrentIsHighest, CurrentIsMounted, Held, Volume

LEMMA UnmountVolumeSave ==
  ASSUME IInv, UnmountVolume
  PROVE  SaveInv'
<1>. DEFINE v == work.evt.vol
<1>1. /\ v \in Volume /\ work.pc = "unmount" /\ work' = Idle /\ lost' = lost
      /\ current \in Local \cup {None} /\ current' \in SaveOnRemove(v, vol')
  BY InHand DEF IInv, TypeOK, UnmountVolume, history
<1>2. /\ vol'[v].state = "init" /\ vol'[v].prio \in Nat
      /\ \A w \in Volume \ {v} : vol'[w].state = vol[w].state /\ vol'[w].prio = vol[w].prio
      /\ \A w \in Volume : vol[w].prio \in Nat
  BY <1>1, VolType, InHand DEF IInv, UnmountVolume, Vol
<1>3. Held' = Held \ {v} /\ UnmountingInHand' /\ Held' = MountedLocals(vol')
  BY <1>1, <1>2 DEF IInv, SaveInv, UnmountingInHand, Held, Volume, MountedLocals,
     Idle
<1>4. CASE v # current
  <2>1. current' = current
    BY <1>1, <1>4 DEF SaveOnRemove
  <2>. QED BY <1>1, <1>2, <1>3, <1>4, <2>1 DEF IInv, SaveInv, CurrentIsHighest,
       CurrentIsMounted, Held, Volume
<1>5. CASE v = current /\ MountedLocals(vol') \ {v} = {}
  <2>1. current' = None
    BY <1>1, <1>5 DEF SaveOnRemove
  <2>. QED BY <1>3, <1>5, <2>1 DEF SaveInv, CurrentIsHighest, CurrentIsMounted
<1>6. CASE v = current /\ MountedLocals(vol') \ {v} # {}
  <2>1. /\ current' \in MountedLocals(vol')
        /\ \A u \in MountedLocals(vol') \ {v} : vol'[u].prio <= vol'[current'].prio
    BY <1>1, <1>6 DEF SaveOnRemove, Best
  <2>2. current' # None /\ vol'[current'].state = "mounted"
    BY <2>1, VolumeAssumption DEF MountedLocals, Volume
  <2>. QED BY <1>3, <2>1, <2>2 DEF SaveInv, CurrentIsHighest, CurrentIsMounted
<1>. QED BY <1>4, <1>5, <1>6

LEMMA UnmountFailsSave ==
  ASSUME IInv, UnmountFails
  PROVE  SaveInv'
<1>. DEFINE v == work.evt.vol
<1>1. /\ v \in Volume /\ work.pc = "unmount" /\ work' = Idle /\ current' = current
      /\ lost' = lost \cup {v} /\ current \in Local \cup {None}
  BY InHand DEF IInv, TypeOK, UnmountFails
<1>2. /\ vol'[v].state = "mounted"
      /\ \A w \in Volume \ {v} : vol'[w].state = vol[w].state
      /\ \A w \in Volume : vol'[w].prio = vol[w].prio
  BY <1>1, VolType DEF IInv, UnmountFails, Vol
<1>. QED BY <1>1, <1>2 DEF IInv, SaveInv, UnmountingInHand, CurrentIsHighest, CurrentIsMounted,
     Held, Volume, Idle

-----------------------------------------------------------------------------
LEMMA NextInv ==
  ASSUME IInv, [Next]_vars
  PROVE  IInv'
<1>1. CASE Kernels
  BY <1>1, KernelsType, SameSave DEF IInv
<1>2. CASE Listener
  BY <1>2, ListenerType, SameSave DEF IInv
<1>3. CASE Worker
  <2>1. SaveInv'
    BY <1>3, TakeAddSave, TakeRemoveSave, MountVolumeSave, MountFailsSave, UnmountFirstSave,
       UnmountVolumeSave, UnmountFailsSave DEF Worker
  <2>. QED BY <1>3, <2>1, WorkerType DEF IInv
<1>4. CASE Start
  BY <1>4, StartType, SameSave DEF IInv
<1>5. CASE Enter
  BY <1>5, EnterType, SameSave DEF IInv
<1>6. CASE SwitchOn
  BY <1>6, SwitchOnType, SameSave DEF IInv
<1>7. CASE Exit \/ SwitchOff
  BY <1>7, SwitchOffType, SameSave DEF IInv
<1>8. CASE UNCHANGED vars
  <2>1. TypeOK'
    BY <1>8 DEF IInv, TypeOK, vars, kernel, manager, mode, history, budget
  <2>. QED BY <1>8, <2>1, SameSave DEF IInv, vars, kernel, manager, mode, history, budget
<1>. QED BY <1>1, <1>2, <1>3, <1>4, <1>5, <1>6, <1>7, <1>8 DEF Next

\* The inductive invariant: the types, and what the worker keeps of the local volumes.
THEOREM VolumeInvariance == Spec => []IInv
<1>1. Init => IInv
  BY InitType
<1>2. IInv /\ [Next]_vars => IInv'
  BY NextInv
<1>. QED BY <1>1, <1>2, PTL DEF Spec

\* The volume manager keeps its types, for any set of volumes and disks and any bounds.
THEOREM VolumeTypeCorrect == Spec => []TypeOK
<1>1. IInv => TypeOK
  BY DEF IInv
<1>. QED BY <1>1, VolumeInvariance, PTL

\* Whenever the worker waits for an event, no mounted local volume has a higher priority
\* than the save path, which is mounted itself unless it was unmounted by force and did
\* not mount again; there is none only when no local volume is mounted
\* (setSavepathChanged).
THEOREM SavePathAlwaysBest == Spec => []SavePathIsBest
<1>1. IInv => SavePathIsBest
  <2>1. ASSUME IInv, work = Idle
        PROVE  IF current = None THEN MountedLocals(vol) = {}
               ELSE /\ vol[current].state \in {"mounted", "nomedia"}
                    /\ \A w \in MountedLocals(vol) : vol[w].prio <= vol[current].prio
    <3>1. Held = MountedLocals(vol)
      BY <2>1, WaitingHoldsMounted DEF Idle
    <3>. QED BY <2>1, <3>1 DEF IInv, SaveInv, CurrentIsHighest, CurrentIsMounted
  <2>. QED BY <2>1 DEF SavePathIsBest
<1>. QED BY <1>1, VolumeInvariance, PTL
-----------------------------------------------------------------------------
(***************************************************************************)
(* The count of mounts.  It is that of the modules mounted, since no event *)
(* of a module is older than the switch of the mode, there is one readable *)
(* device at most on each card, and its event is handled once.             *)
(***************************************************************************)
\* The places of events; the cache is about to be cleared once it has been copied.
Place == {"sock", "net", "cache", "queue", "work"}

At(p) ==
  CASE p = "sock"  -> sock
    [] p = "net"   -> IF net = None THEN << >> ELSE <<net>>
    [] p = "cache" -> IF ui = "flushed" THEN << >> ELSE cacheVec
    [] p = "queue" -> eventVec
    [] OTHER       -> IF work = Idle THEN << >> ELSE <<work.evt>>

\* An event of module m is at position i of place p.
Waits(m, p, i) == i \in DOMAIN At(p) /\ At(p)[i].vol = m

\* The event is that of a device of the card that is there, and of a readable one.
Fresh(e) ==
  /\ e.act = "add" /\ slot[e.vol] # None
  /\ e.dev[1] = slot[e.vol].name /\ e.dev[2] \in DOMAIN slot[e.vol].devs

Mountable(e) == slot[e.vol].devs[e.dev[2]]

MountedModules == {m \in Module : vol[m].state = "mounted"}

\* Before the cache is handed over the worker has no event of a module.
NotYet ==
  /\ \A i \in DOMAIN eventVec : eventVec[i].vol \notin Module
  /\ work # Idle => work.evt.vol \notin Module
  /\ MountedModules = {} /\ added = 0

Underway ==
  \A m \in Module, p \in Place, i \in Nat : Waits(m, p, i) =>
    /\ Fresh(At(p)[i])
    /\ p = "work" => work.pc = "mount" /\ Mountable(At(p)[i])

OnceOnly ==
  \A m \in Module, p, q \in Place, i, j \in Nat :
    /\ Waits(m, p, i) /\ Mountable(At(p)[i])
    /\ Waits(m, q, j) /\ Mountable(At(q)[j])
    => p = q /\ i = j

MountedOnce ==
  \A m \in MountedModules :
    /\ slot[m] # None /\ fs[m] # << >>
    /\ \A p \in Place, i \in Nat : Waits(m, p, i) => ~Mountable(At(p)[i])

\* A module's name is not that of another disk.
NamesApart ==
  \A m \in Module : \A v \in Volume \ {m} :
    slot[m] # None /\ slot[v] # None => slot[m].name # slot[v].name

During == Underway /\ OnceOnly /\ MountedOnce /\ added = Cardinality(MountedModules)

Cards == \A m \in Module : slot[m] # None => slot[m].devs \in Card

CountInv ==
  /\ NamesApart /\ Cards
  /\ ui \in {"clear", "check", "flushed", "wait"} => entering
  /\ ui \in {"check", "flushed", "wait"} => power = Module
  /\ clean /\ ui \in {"clear", "check"} => NotYet
  /\ clean /\ ui \in {"check", "flushed", "wait"} => During

-----------------------------------------------------------------------------
LEMMA AtFacts ==
  /\ At("sock") = sock /\ At("queue") = eventVec
  /\ At("net") = IF net = None THEN << >> ELSE <<net>>
  /\ At("cache") = IF ui = "flushed" THEN << >> ELSE cacheVec
  /\ At("work") = IF work = Idle THEN << >> ELSE <<work.evt>>
  BY DEF At

LEMMA AtType ==
  ASSUME TypeOK, NEW p \in Place
  PROVE  At(p) \in Seq(Event)
<1>1. << >> \in Seq(Event) /\ (net # None => <<net>> \in Seq(Event))
  BY EmptySeq DEF TypeOK
<1>2. work # Idle => <<work.evt>> \in Seq(Event)
  BY DEF TypeOK
<1>. QED BY <1>1, <1>2, AtFacts DEF TypeOK, Place

Position == Place \X Nat

\* Whatever waits after a step did so before it, f tells where, and each event at
\* another position.
Follows(f) ==
  \A m \in Module, p \in Place, i \in Nat : Waits(m, p, i)' =>
    \E q \in Place, j \in Nat :
      f[<<p, i>>] = <<q, j>> /\ Waits(m, q, j) /\ At(p)'[i] = At(q)[j]

OneToOne(f) ==
  \A m \in Module, p, q \in Place, i, j \in Nat :
    Waits(m, p, i)' /\ Waits(m, q, j)' /\ f[<<p, i>>] = f[<<q, j>>] => p = q /\ i = j

\* No card comes or goes, no module is mounted or unmounted.
SameCards ==
  \A m \in Module : /\ slot'[m] = slot[m] /\ fs'[m] = fs[m]
                    /\ vol'[m].state = "mounted" <=> vol[m].state = "mounted"

ToMount == work # Idle /\ work.evt.vol \in Module => work.pc = "mount" /\ Mountable(work.evt)

\* Events go on to the next place, or are done with; no module's mount changes.
LEMMA EventsMove ==
  ASSUME During, NEW f, SameCards, Follows(f), OneToOne(f), ToMount', added' = added
  PROVE  During'
<1>1. MountedModules' = MountedModules
  BY DEF MountedModules, SameCards
<1>2. ASSUME NEW m \in Module, NEW p \in Place, NEW i \in Nat, Waits(m, p, i)'
      PROVE  \E q \in Place, j \in Nat :
               f[<<p, i>>] = <<q, j>> /\ Waits(m, q, j) /\ At(p)'[i] = At(q)[j]
  BY <1>2 DEF Follows
<1>3. ASSUME NEW e, e.vol \in Module
      PROVE  (Fresh(e) => Fresh(e)') /\ Mountable(e)' = Mountable(e)
  BY <1>3 DEF Fresh, Mountable, SameCards
<1>4. Underway'
  <2>1. ASSUME NEW m \in Module, NEW p \in Place, NEW i \in Nat, Waits(m, p, i)'
        PROVE  Fresh(At(p)[i])'
    <3>1. PICK q \in Place, j \in Nat : Waits(m, q, j) /\ At(p)'[i] = At(q)[j]
      BY <1>2, <2>1
    <3>2. PICK e : e = At(q)[j]
      OBVIOUS
    <3>3. e.vol = m /\ Fresh(e)
      BY <3>1, <3>2 DEF Waits, During, Underway
    <3>4. Fresh(e)'
      BY <1>3, <3>3
    <3>. QED BY <3>1, <3>2, <3>4 DEF Fresh
  <2>2. ASSUME NEW m \in Module, NEW i \in Nat, Waits(m, "work", i)'
        PROVE  work'.pc = "mount" /\ Mountable(At("work")[i])'
    <3>1. work' # Idle /\ At("work")'[i] = work'.evt /\ work'.evt.vol = m
      BY <2>2 DEF Waits, At
    <3>. QED BY <3>1 DEF Mountable, ToMount
  <2>. QED BY <2>1, <2>2 DEF Underway
<1>5. ASSUME NEW m \in Module, NEW p \in Place, NEW i \in Nat, Waits(m, p, i)',
             Mountable(At(p)[i])'
      PROVE  \E q \in Place, j \in Nat :
               f[<<p, i>>] = <<q, j>> /\ Waits(m, q, j) /\ Mountable(At(q)[j])
  <2>1. PICK q \in Place, j \in Nat :
          f[<<p, i>>] = <<q, j>> /\ Waits(m, q, j) /\ At(p)'[i] = At(q)[j]
    BY <1>2, <1>5
  <2>2. PICK e : e = At(q)[j]
    OBVIOUS
  <2>3. e.vol = m
    BY <2>1, <2>2 DEF Waits
  <2>4. Mountable(e)' = Mountable(e)
    BY <1>3, <2>3
  <2>5. Mountable(e)'
    BY <1>5, <2>1, <2>2 DEF Mountable
  <2>6. Mountable(At(q)[j])
    BY <2>2, <2>4, <2>5
  <2>. QED BY <2>1, <2>6
<1>6. OnceOnly'
  <2>1. ASSUME NEW m \in Module, NEW p \in Place, NEW q \in Place, NEW i \in Nat, NEW j \in Nat,
               Waits(m, p, i)', Mountable(At(p)[i])', Waits(m, q, j)', Mountable(At(q)[j])'
        PROVE  p = q /\ i = j
    <3>1. PICK a \in Place, k \in Nat :
            f[<<p, i>>] = <<a, k>> /\ Waits(m, a, k) /\ Mountable(At(a)[k])
      BY <1>5, <2>1
    <3>2. PICK b \in Place, l \in Nat :
            f[<<q, j>>] = <<b, l>> /\ Waits(m, b, l) /\ Mountable(At(b)[l])
      BY <1>5, <2>1
    <3>3. a = b /\ k = l
      BY <3>1, <3>2 DEF During, OnceOnly
    <3>4. f[<<p, i>>] = f[<<q, j>>]
      BY <3>1, <3>2, <3>3
    <3>5. Waits(m, p, i)' /\ Waits(m, q, j)' /\ f[<<p, i>>] = f[<<q, j>>]
      BY <2>1, <3>4
    <3>. QED BY <3>5 DEF OneToOne
  <2>. QED BY <2>1 DEF OnceOnly
<1>7. MountedOnce'
  <2>1. ASSUME NEW m \in MountedModules, NEW p \in Place, NEW i \in Nat, Waits(m, p, i)',
               Mountable(At(p)[i])'
        PROVE  FALSE
    <3>1. m \in Module
      BY DEF MountedModules
    <3>2. PICK q \in Place, j \in Nat : Waits(m, q, j) /\ Mountable(At(q)[j])
      BY <1>5, <2>1, <3>1
    <3>. QED BY <3>2 DEF During, MountedOnce
  <2>2. \A m \in MountedModules : slot'[m] # None /\ fs'[m] # << >>
    BY DEF During, MountedOnce, MountedModules, SameCards
  <2>. QED BY <1>1, <2>1, <2>2 DEF MountedOnce
<1>. QED BY <1>1, <1>4, <1>6, <1>7 DEF During

LEMMA EventsStay ==
  ASSUME During, SameCards, ToMount', added' = added,
         \A m \in Module, p \in Place, i \in Nat :
           Waits(m, p, i)' => Waits(m, p, i) /\ At(p)'[i] = At(p)[i]
  PROVE  During'
<1>. DEFINE f == [x \in Position |-> x]
<1>1. \A p \in Place, i \in Nat : f[<<p, i>>] = <<p, i>>
  BY DEF Position
<1>. HIDE DEF f
<1>2. Follows(f)
  <2>1. ASSUME NEW m \in Module, NEW p \in Place, NEW i \in Nat, Waits(m, p, i)'
        PROVE  \E q \in Place, j \in Nat :
                 f[<<p, i>>] = <<q, j>> /\ Waits(m, q, j) /\ At(p)'[i] = At(q)[j]
    <3>1. Waits(m, p, i) /\ At(p)'[i] = At(p)[i] /\ f[<<p, i>>] = <<p, i>>
      BY <1>1, <2>1
    <3>. QED BY <3>1
  <2>. QED BY <2>1 DEF Follows
<1>3. OneToOne(f)
  BY <1>1 DEF OneToOne
<1>. QED BY <1>2, <1>3, EventsMove

\* The event the worker has in hand is that of a local volume, or of a module that
\* is about to be mounted.
LEMMA ModuleInHand ==
  ASSUME TypeOK, During, work # Idle, work.evt.vol \in Module
  PROVE  Fresh(work.evt) /\ Mountable(work.evt) /\ work.pc = "mount"
<1>1. Waits(work.evt.vol, "work", 1) /\ At("work")[1] = work.evt
  BY DEF Waits, At
<1>2. 1 \in Nat /\ "work" \in Place
  BY DEF Place
<1>. QED BY <1>1, <1>2 DEF During, Underway

LEMMA HeadOfQueue ==
  ASSUME TypeOK, During, eventVec # << >>, Head(eventVec).vol \in Module
  PROVE  /\ Fresh(Head(eventVec))
         /\ Mountable(Head(eventVec)) => vol[Head(eventVec).vol].state # "mounted"
<1>1. 1 \in DOMAIN eventVec /\ Head(eventVec) = eventVec[1]
  BY HeadTailProperties DEF TypeOK
<1>2. Waits(Head(eventVec).vol, "queue", 1) /\ At("queue")[1] = Head(eventVec)
  BY <1>1, AtFacts DEF Waits
<1>3. 1 \in Nat /\ "queue" \in Place
  BY DEF Place
<1>4. Fresh(Head(eventVec))
  BY <1>2, <1>3 DEF During, Underway
<1>5. ASSUME Mountable(Head(eventVec)), vol[Head(eventVec).vol].state = "mounted"
      PROVE  FALSE
  <2>1. Head(eventVec).vol \in MountedModules
    BY <1>5 DEF MountedModules
  <2>. QED BY <1>2, <1>3, <1>5, <2>1 DEF During, MountedOnce
<1>. QED BY <1>4, <1>5

\* The head of place b goes to place a, or is done with.
LEMMA HeadMoves ==
  ASSUME TypeOK, During, SameCards, ToMount', added' = added,
         NEW a \in Place, NEW b \in Place, a # b, At(b) # << >>,
         At(b)' = Tail(At(b)), At(a)' \in {<< >>, <<Head(At(b))>>},
         \A p \in Place \ {a, b} : At(p)' = At(p)
  PROVE  During'
<1>. DEFINE f == [x \in Position |-> IF x[1] = a THEN <<b, 1>>
                                     ELSE IF x[1] = b THEN <<b, x[2] + 1>>
                                     ELSE x]
<1>1. /\ \A i \in Nat : f[<<a, i>>] = <<b, 1>> /\ f[<<b, i>>] = <<b, i + 1>>
      /\ \A p \in Place \ {a, b}, i \in Nat : f[<<p, i>>] = <<p, i>>
  BY DEF Position
<1>. HIDE DEF f
<1>2. PICK s : s = At(b)
  OBVIOUS
<1>3. s \in Seq(Event) /\ Len(s) \in Nat /\ Head(s) = s[1] /\ s # << >>
  BY <1>2, AtType, HeadTailProperties, LenProperties
<1>4. /\ DOMAIN Tail(s) = 1 .. Len(s) - 1 /\ DOMAIN s = 1 .. Len(s) /\ Len(s) >= 1
      /\ \A i \in 1 .. Len(s) - 1 : Tail(s)[i] = s[i + 1]
  BY <1>3, HeadTailProperties, LenProperties, EmptySeq
<1>5. ASSUME NEW m \in Module, NEW p \in Place, NEW i \in Nat, Waits(m, p, i)'
      PROVE  \E q \in Place, j \in Nat :
               f[<<p, i>>] = <<q, j>> /\ Waits(m, q, j) /\ At(p)'[i] = At(q)[j]
  <2>1. CASE p = b
    <3>1. i \in 1 .. Len(s) - 1 /\ At(p)'[i] = s[i + 1] /\ s[i + 1].vol = m
      BY <1>2, <1>4, <1>5, <2>1 DEF Waits
    <3>2. i + 1 \in DOMAIN s /\ i + 1 \in Nat
      BY <1>3, <1>4, <3>1
    <3>3. Waits(m, b, i + 1) /\ At(b)[i + 1] = s[i + 1]
      BY <1>2, <3>1, <3>2 DEF Waits
    <3>4. f[<<p, i>>] = <<b, i + 1>>
      BY <1>1, <2>1
    <3>. QED BY <3>1, <3>2, <3>3, <3>4
  <2>2. CASE p = a
    <3>1. i = 1 /\ At(p)'[i] = s[1] /\ s[1].vol = m
      BY <1>2, <1>3, <1>5, <2>2 DEF Waits
    <3>2. 1 \in DOMAIN s /\ 1 \in Nat
      BY <1>3, <1>4
    <3>3. Waits(m, b, 1) /\ At(b)[1] = s[1]
      BY <1>2, <3>1, <3>2 DEF Waits
    <3>4. f[<<p, i>>] = <<b, 1>>
      BY <1>1, <2>2
    <3>. QED BY <3>1, <3>2, <3>3, <3>4
  <2>3. CASE p \notin {a, b}
    <3>1. At(p)' = At(p)
      BY <2>3
    <3>2. Waits(m, p, i) /\ At(p)'[i] = At(p)[i]
      BY <1>5, <3>1 DEF Waits
    <3>3. f[<<p, i>>] = <<p, i>>
      BY <1>1, <2>3
    <3>. QED BY <3>2, <3>3
  <2>. QED BY <2>1, <2>2, <2>3
<1>6. ASSUME NEW m \in Module, NEW p \in Place, NEW q \in Place, NEW i \in Nat, NEW j \in Nat,
             Waits(m, p, i)', Waits(m, q, j)', f[<<p, i>>] = f[<<q, j>>]
      PROVE  p = q /\ i = j
  <2>1. /\ p = a => i = 1
        /\ q = a => j = 1
    BY <1>6 DEF Waits
  <2>2. /\ p = b => i >= 1
        /\ q = b => j >= 1
    BY <1>2, <1>4, <1>6 DEF Waits
  <2>3. ASSUME NEW c \in Place, NEW k \in Nat
        PROVE  \E d, l : /\ f[<<c, k>>] = <<d, l>>
                         /\ c = a => d = b /\ l = 1
                         /\ c = b => d = b /\ l = k + 1
                         /\ c \notin {a, b} => d = c /\ l = k
    <3>1. CASE c = a
      BY <1>1, <3>1
    <3>2. CASE c = b
      BY <1>1, <3>2
    <3>3. CASE c \notin {a, b}
      BY <1>1, <3>3
    <3>. QED BY <3>1, <3>2, <3>3
  <2>4. PICK d, l : /\ f[<<p, i>>] = <<d, l>>
                    /\ p = a => d = b /\ l = 1
                    /\ p = b => d = b /\ l = i + 1
                    /\ p \notin {a, b} => d = p /\ l = i
    BY <2>3
  <2>5. PICK c, n : /\ f[<<q, j>>] = <<c, n>>
                    /\ q = a => c = b /\ n = 1
                    /\ q = b => c = b /\ n = j + 1
                    /\ q \notin {a, b} => c = q /\ n = j
    BY <2>3
  <2>6. d = c /\ l = n
    BY <1>6, <2>4, <2>5
  <2>. QED BY <1>6, <2>1, <2>2, <2>4, <2>5, <2>6
<1>7. Follows(f)
  BY <1>5 DEF Follows
<1>8. OneToOne(f)
  BY <1>6 DEF OneToOne
<1>. QED BY <1>7, <1>8, EventsMove

\* What waits at place b goes to the end of place a.
LEMMA TailMoves ==
  ASSUME TypeOK, During, SameCards, ToMount', added' = added,
         NEW a \in Place, NEW b \in Place, a # b,
         At(a)' = At(a) \o At(b), At(b)' = << >>,
         \A p \in Place \ {a, b} : At(p)' = At(p)
  PROVE  During'
<1>1. PICK s, t : s = At(a) /\ t = At(b)
  OBVIOUS
<1>2. s \in Seq(Event) /\ t \in Seq(Event) /\ Len(s) \in Nat /\ Len(t) \in Nat
  BY <1>1, AtType, LenProperties
<1>3. /\ DOMAIN (s \o t) = 1 .. Len(s) + Len(t) /\ DOMAIN s = 1 .. Len(s) /\ DOMAIN t = 1 .. Len(t)
      /\ \A i \in 1 .. Len(s) + Len(t) :
           (s \o t)[i] = IF i <= Len(s) THEN s[i] ELSE t[i - Len(s)]
  BY <1>2, ConcatProperties, LenProperties
<1>. DEFINE f == [x \in Position |-> IF x[1] = a /\ x[2] > Len(s) THEN <<b, x[2] - Len(s)>>
                                     ELSE x]
<1>4. /\ \A i \in Nat : i <= Len(s) => f[<<a, i>>] = <<a, i>>
      /\ \A i \in Nat : i > Len(s) => f[<<a, i>>] = <<b, i - Len(s)>>
      /\ \A p \in Place \ {a}, i \in Nat : f[<<p, i>>] = <<p, i>>
  BY <1>2 DEF Position
<1>. HIDE DEF f
<1>5. ASSUME NEW m \in Module, NEW p \in Place, NEW i \in Nat, Waits(m, p, i)'
      PROVE  \E q \in Place, j \in Nat :
               f[<<p, i>>] = <<q, j>> /\ Waits(m, q, j) /\ At(p)'[i] = At(q)[j]
  <2>1. CASE p = a /\ i <= Len(s)
    <3>1. i \in 1 .. Len(s) /\ At(p)'[i] = s[i] /\ s[i].vol = m
      BY <1>1, <1>2, <1>3, <1>5, <2>1 DEF Waits
    <3>2. Waits(m, a, i) /\ At(a)[i] = s[i]
      BY <1>1, <1>3, <3>1 DEF Waits
    <3>3. f[<<p, i>>] = <<a, i>>
      BY <1>4, <2>1
    <3>. QED BY <3>1, <3>2, <3>3
  <2>2. CASE p = a /\ i > Len(s)
    <3>0. i \in 1 .. Len(s) + Len(t) /\ At(p)'[i] = (s \o t)[i] /\ (s \o t)[i].vol = m
      BY <1>1, <1>3, <1>5, <2>2 DEF Waits
    <3>1. /\ i - Len(s) \in 1 .. Len(t) /\ i - Len(s) \in Nat
          /\ At(p)'[i] = t[i - Len(s)] /\ t[i - Len(s)].vol = m
      BY <1>2, <1>3, <2>2, <3>0
    <3>2. Waits(m, b, i - Len(s)) /\ At(b)[i - Len(s)] = t[i - Len(s)]
      BY <1>1, <1>3, <3>1 DEF Waits
    <3>3. f[<<p, i>>] = <<b, i - Len(s)>>
      BY <1>4, <2>2
    <3>. QED BY <3>1, <3>2, <3>3
  <2>3. CASE p \notin {a, b}
    <3>1. At(p)' = At(p)
      BY <2>3
    <3>2. Waits(m, p, i) /\ At(p)'[i] = At(p)[i]
      BY <1>5, <3>1 DEF Waits
    <3>3. f[<<p, i>>] = <<p, i>>
      BY <1>4, <2>3
    <3>. QED BY <3>2, <3>3
  <2>4. CASE p = b
    <3>1. At(p)' = << >>
      BY <2>4
    <3>2. i \in DOMAIN << >>
      BY <1>5, <3>1 DEF Waits
    <3>. QED BY <3>2
  <2>5. i <= Len(s) \/ i > Len(s)
    BY <1>2
  <2>. QED BY <2>1, <2>2, <2>3, <2>4, <2>5, Zenon
<1>6. ASSUME NEW m \in Module, NEW p \in Place, NEW q \in Place, NEW i \in Nat, NEW j \in Nat,
             Waits(m, p, i)', Waits(m, q, j)', f[<<p, i>>] = f[<<q, j>>]
      PROVE  p = q /\ i = j
  <2>1. p # b /\ q # b
    BY <1>6 DEF Waits
  <2>2. ASSUME NEW c \in Place, NEW k \in Nat, c # b
        PROVE  \E d, l : /\ f[<<c, k>>] = <<d, l>>
                         /\ c = a /\ k > Len(s) => d = b /\ l = k - Len(s)
                         /\ ~(c = a /\ k > Len(s)) => d = c /\ l = k
    <3>1. CASE c = a /\ k > Len(s)
      BY <1>4, <3>1
    <3>2. CASE ~(c = a /\ k > Len(s))
      <4>1. f[<<c, k>>] = <<c, k>>
        BY <1>2, <1>4, <2>2, <3>2
      <4>. QED BY <3>2, <4>1
    <3>. QED BY <3>1, <3>2
  <2>3. PICK d, l : /\ f[<<p, i>>] = <<d, l>>
                    /\ p = a /\ i > Len(s) => d = b /\ l = i - Len(s)
                    /\ ~(p = a /\ i > Len(s)) => d = p /\ l = i
    BY <2>1, <2>2
  <2>4. PICK c, n : /\ f[<<q, j>>] = <<c, n>>
                    /\ q = a /\ j > Len(s) => c = b /\ n = j - Len(s)
                    /\ ~(q = a /\ j > Len(s)) => c = q /\ n = j
    BY <2>1, <2>2
  <2>5. <<d, l>> = <<c, n>>
    BY <1>6, <2>3, <2>4
  <2>6. d = c /\ l = n
    BY <2>5
  <2>. QED BY <1>2, <1>6, <2>1, <2>3, <2>4, <2>6
<1>7. Follows(f)
  BY <1>5 DEF Follows
<1>8. OneToOne(f)
  BY <1>6 DEF OneToOne
<1>. QED BY <1>7, <1>8, EventsMove

-----------------------------------------------------------------------------
LEMMA ReadEventCounts ==
  ASSUME TypeOK, During, entering, ReadEvent
  PROVE  During'
<1>1. /\ net = None /\ sock # << >> /\ sock' = Tail(sock) /\ net' \in {None, Head(sock)}
      /\ UNCHANGED <<slot, fs, vol, work, eventVec, cacheVec, ui, added>>
  BY DEF ReadEvent, mode
<1>2. /\ At("sock") # << >> /\ At("sock")' = Tail(At("sock"))
      /\ At("net")' \in {<< >>, <<Head(At("sock"))>>}
      /\ \A p \in Place \ {"sock", "net"} : At(p)' = At(p)
  BY <1>1 DEF At, Place
<1>3. ToMount' /\ SameCards
  BY <1>1, ModuleInHand DEF Mountable, ToMount, SameCards
<1>4. "sock" \in Place /\ "net" \in Place /\ "sock" # "net"
  BY DEF Place
<1>. QED BY <1>1, <1>2, <1>3, <1>4, HeadMoves

LEMMA CacheEventCounts ==
  ASSUME TypeOK, During, CacheEvent
  PROVE  During'
<1>1. /\ net # None /\ net \in Event /\ net' = None /\ cacheVec' = Append(cacheVec, net)
      /\ UNCHANGED <<slot, fs, sock, vol, work, eventVec, ui, added>>
  BY DEF CacheEvent, kernel, manager, TypeOK
<1>2. ToMount' /\ SameCards
  BY <1>1, ModuleInHand DEF Mountable, ToMount, SameCards
<1>3. CASE ui = "flushed"
  <2>1. At("net")' = << >> /\ \A p \in Place \ {"net"} : At(p)' = At(p)
    BY <1>1, <1>3 DEF At, Place
  <2>2. \A m \in Module, p \in Place, i \in Nat :
          Waits(m, p, i)' => Waits(m, p, i) /\ At(p)'[i] = At(p)[i]
    BY <2>1 DEF Waits
  <2>. QED BY <1>1, <1>2, <2>2, EventsStay
<1>4. CASE ui # "flushed"
  <2>1. /\ At("net")' = << >> /\ At("net") = <<net>> /\ At("cache") = cacheVec
        /\ At("cache")' = Append(cacheVec, net)
        /\ \A p \in Place \ {"cache", "net"} : At(p)' = At(p)
    BY <1>1, <1>4 DEF At, Place
  <2>2. Append(cacheVec, net) = cacheVec \o <<net>>
    BY <1>1, AppendIsConcat DEF TypeOK
  <2>3. "cache" \in Place /\ "net" \in Place /\ "cache" # "net"
    BY DEF Place
  <2>. QED BY <1>1, <1>2, <2>1, <2>2, <2>3, TailMoves
<1>. QED BY <1>3, <1>4

\* flushAllUdiskEvent2Worker: the copy, and the clearing.
LEMMA FlushCounts ==
  ASSUME TypeOK, During, Flush, ui = "check"
  PROVE  During'
<1>1. /\ eventVec' = eventVec \o cacheVec /\ ui' = "flushed" /\ cacheVec' = cacheVec
      /\ UNCHANGED <<slot, fs, sock, net, vol, work, added>>
  BY DEF Flush, kernel
<1>2. ToMount' /\ SameCards
  BY <1>1, ModuleInHand DEF Mountable, ToMount, SameCards
<1>3. /\ At("queue")' = At("queue") \o At("cache") /\ At("cache")' = << >>
      /\ \A p \in Place \ {"queue", "cache"} : At(p)' = At(p)
  BY <1>1 DEF At, Place
<1>4. "queue" \in Place /\ "cache" \in Place /\ "queue" # "cache"
  BY DEF Place
<1>. QED BY <1>1, <1>2, <1>3, <1>4, TailMoves

LEMMA FlushClearsCounts ==
  ASSUME TypeOK, During, FlushClears, ui = "flushed"
  PROVE  During'
<1>1. /\ cacheVec' = << >> /\ ui' = "wait"
      /\ UNCHANGED <<slot, fs, sock, net, vol, work, eventVec, added>>
  BY DEF FlushClears, kernel, manager
<1>2. ToMount' /\ SameCards
  BY <1>1, ModuleInHand DEF Mountable, ToMount, SameCards
<1>3. \A p \in Place : At(p)' = At(p)
  BY <1>1 DEF At, Place
<1>4. \A m \in Module, p \in Place, i \in Nat :
        Waits(m, p, i)' => Waits(m, p, i) /\ At(p)'[i] = At(p)[i]
  BY <1>3 DEF Waits
<1>. QED BY <1>1, <1>2, <1>4, EventsStay

-----------------------------------------------------------------------------
(***************************************************************************)
(* The worker                                                              *)
(***************************************************************************)
LEMMA TakeAddCounts ==
  ASSUME TypeOK, During, NamesApart, TakeAdd
  PROVE  During'
<1>1. PICK e : e = Head(eventVec)
  OBVIOUS
<1>2. /\ eventVec # << >> /\ eventVec' = Tail(eventVec) /\ e.act = "add" /\ e \in Event
      /\ UNCHANGED <<slot, fs, sock, net, cacheVec, ui, added>>
  BY <1>1, QueueHead DEF TakeAdd, kernel, mode
<1>3. work = Idle /\ e.vol \in Volume /\ vol \in [Volume -> Vol]
  BY <1>2, VolType DEF TakeAdd, TypeOK, Event
<1>4. \/ /\ ~ValidFs(e.dev) /\ work' = Idle
         /\ vol' = [vol EXCEPT ![e.vol].dev = None]
      \/ /\ ValidFs(e.dev) /\ work'.evt = e
         /\ work' = [pc |-> IF vol[e.vol].state = "mounted" THEN "unmount" ELSE "mount", evt |-> e]
         /\ vol' = [vol EXCEPT ![e.vol].dev = e.dev,
                               ![e.vol].state = IF vol[e.vol].state = "mounted"
                                                THEN "unmounting" ELSE @]
  BY <1>1, <1>3 DEF TakeAdd
<1>5. ASSUME e.vol \in Module
      PROVE  Fresh(e) /\ (Mountable(e) => vol[e.vol].state # "mounted")
  BY <1>1, <1>2, <1>5, HeadOfQueue
<1>6. ASSUME e.vol \in Module, ValidFs(e.dev)
      PROVE  Mountable(e) /\ vol[e.vol].state # "mounted"
  <2>1. PICK v \in Volume : /\ slot[v] # None /\ slot[v].name = e.dev[1]
                            /\ e.dev[2] \in DOMAIN slot[v].devs /\ slot[v].devs[e.dev[2]]
    BY <1>6 DEF ValidFs
  <2>2. v = e.vol
    BY <1>5, <1>6, <2>1 DEF NamesApart, Fresh
  <2>3. Mountable(e)
    BY <2>1, <2>2 DEF Mountable
  <2>. QED BY <1>5, <1>6, <2>3
<1>7. SameCards
  <2>1. ASSUME NEW m \in Module
        PROVE  vol'[m].state = "mounted" <=> vol[m].state = "mounted"
    <3>1. m \in Volume
      BY DEF Volume
    <3>2. CASE m # e.vol
      BY <1>3, <1>4, <3>1, <3>2
    <3>3. CASE m = e.vol /\ ~ValidFs(e.dev)
      BY <1>3, <1>4, <3>1, <3>3 DEF Vol
    <3>4. CASE m = e.vol /\ ValidFs(e.dev)
      <4>1. vol[m].state # "mounted"
        BY <1>6, <3>4
      <4>2. vol'[m].state = vol[m].state
        BY <1>3, <1>4, <3>1, <3>4, <4>1 DEF Vol
      <4>. QED BY <4>2
    <3>. QED BY <3>2, <3>3, <3>4
  <2>. QED BY <1>2, <2>1 DEF SameCards
<1>8. ToMount'
  <2>1. CASE work' = Idle
    BY <2>1 DEF ToMount
  <2>2. CASE work' # Idle /\ e.vol \in Module
    <3>1. ValidFs(e.dev) /\ work'.evt = e
      BY <1>4, <2>2
    <3>2. Mountable(e) /\ work'.pc = "mount"
      BY <1>4, <1>6, <2>2, <3>1
    <3>. QED BY <1>2, <3>1, <3>2 DEF ToMount, Mountable
  <2>3. CASE work' # Idle /\ e.vol \notin Module
    BY <1>4, <2>3 DEF ToMount
  <2>. QED BY <2>1, <2>2, <2>3
<1>9. /\ At("queue") # << >> /\ At("queue")' = Tail(At("queue"))
      /\ At("work")' \in {<< >>, <<Head(At("queue"))>>}
      /\ \A p \in Place \ {"work", "queue"} : At(p)' = At(p)
  BY <1>1, <1>2, <1>4 DEF At, Place
<1>10. "work" \in Place /\ "queue" \in Place /\ "work" # "queue"
  BY DEF Place
<1>. QED BY <1>2, <1>7, <1>8, <1>9, <1>10, HeadMoves

LEMMA TakeRemoveCounts ==
  ASSUME TypeOK, During, TakeRemove
  PROVE  During'
<1>1. PICK e : e = Head(eventVec)
  OBVIOUS
<1>2. /\ eventVec # << >> /\ eventVec' = Tail(eventVec) /\ e.act = "remove" /\ e \in Event
      /\ UNCHANGED <<slot, fs, sock, net, cacheVec, ui, added>>
  BY <1>1, QueueHead DEF TakeRemove, kernel, mode
<1>3. work = Idle /\ e.vol \in Volume /\ vol \in [Volume -> Vol]
  BY <1>2, VolType DEF TakeRemove, TypeOK, Event
<1>4. e.vol \notin Module
  BY <1>1, <1>2, HeadOfQueue DEF Fresh
<1>5. \/ work' = Idle /\ vol' = vol
      \/ work' = [pc |-> "unmount", evt |-> e] /\ vol' = [vol EXCEPT ![e.vol].state = "unmounting"]
  BY <1>1, <1>3 DEF TakeRemove
<1>6. SameCards /\ ToMount'
  BY <1>2, <1>3, <1>4, <1>5 DEF SameCards, ToMount, Volume
<1>7. /\ At("queue") # << >> /\ At("queue")' = Tail(At("queue"))
      /\ At("work")' \in {<< >>, <<Head(At("queue"))>>}
      /\ \A p \in Place \ {"work", "queue"} : At(p)' = At(p)
  BY <1>1, <1>2, <1>5 DEF At, Place
<1>8. "work" \in Place /\ "queue" \in Place /\ "work" # "queue"
  BY DEF Place
<1>. QED BY <1>2, <1>6, <1>7, <1>8, HeadMoves

\* The worker is done with the event, or has done the first half.
LEMMA WorkEnds ==
  ASSUME During, SameCards, ToMount', added' = added,
         UNCHANGED <<sock, net, eventVec, cacheVec, ui>>,
         work' = Idle \/ (work # Idle /\ work'.evt = work.evt)
  PROVE  During'
<1>1. /\ At("work")' \in {<< >>, At("work")}
      /\ \A p \in Place \ {"work"} : At(p)' = At(p)
  BY DEF At, Place
<1>2. ASSUME NEW m \in Module, NEW p \in Place, NEW i \in Nat, Waits(m, p, i)'
      PROVE  Waits(m, p, i) /\ At(p)'[i] = At(p)[i]
  <2>1. At(p)' = At(p) \/ At(p)' = << >>
    BY <1>1
  <2>2. At(p)' # << >>
    BY <1>2 DEF Waits
  <2>. QED BY <1>2, <2>1, <2>2 DEF Waits
<1>. QED BY <1>2, EventsStay

LEMMA MountFailsCountsNot ==
  ASSUME TypeOK, During, MountFails
  PROVE  During'
<1>1. PICK v : v = work.evt.vol
  OBVIOUS
<1>2. /\ work.pc = "mount" /\ v \in Volume /\ work # Idle /\ work' = Idle /\ vol \in [Volume -> Vol]
      /\ vol' = [vol EXCEPT ![v].state = "nomedia"]
      /\ UNCHANGED <<slot, fs, sock, net, eventVec, cacheVec, ui, added>>
  BY <1>1, InHand, VolType DEF MountFails, kernel, mode
<1>3. v \in Module => vol[v].state # "mounted"
  <2>1. Waits(v, "work", 1) /\ At("work")[1] = work.evt
    BY <1>1, <1>2 DEF Waits, At
  <2>2. 1 \in Nat /\ "work" \in Place
    BY DEF Place
  <2>3. v \in Module => Mountable(work.evt)
    BY <1>1, <1>2, ModuleInHand
  <2>. QED BY <2>1, <2>2, <2>3 DEF During, MountedOnce, MountedModules
<1>4. SameCards /\ ToMount'
  BY <1>2, <1>3 DEF SameCards, ToMount, Volume
<1>. QED BY <1>2, <1>4, WorkEnds

LEMMA UnmountCounts ==
  ASSUME TypeOK, During, UnmountFirst \/ UnmountVolume \/ UnmountFails
  PROVE  During'
<1>1. PICK v : v = work.evt.vol
  OBVIOUS
<1>2. /\ work.pc = "unmount" /\ v \in Volume /\ work # Idle /\ vol \in [Volume -> Vol]
      /\ UNCHANGED <<slot, sock, net, eventVec, cacheVec, ui, added>>
  BY <1>1, InHand, VolType DEF UnmountFirst, UnmountVolume, UnmountFails, kernel, mode
<1>3. v \notin Module
  BY <1>1, <1>2, ModuleInHand
<1>4. \A w \in Volume \ {v} : vol'[w] = vol[w] /\ fs'[w] = fs[w]
  BY <1>1, <1>2 DEF UnmountFirst, UnmountVolume, UnmountFails, kernel, TypeOK
<1>5. /\ work' = Idle \/ work'.evt = work.evt
      /\ work' # Idle => work'.evt.vol \notin Module
  BY <1>1, <1>2, <1>3, InHand DEF UnmountFirst, UnmountVolume, UnmountFails
<1>6. SameCards /\ ToMount'
  BY <1>2, <1>3, <1>4, <1>5 DEF SameCards, ToMount, Volume
<1>. QED BY <1>2, <1>5, <1>6, WorkEnds

LEMMA ModulesAreFinite ==
  /\ IsFiniteSet(Module) /\ IsFiniteSet(MountedModules)
  /\ MountedModules \subseteq Module
<1>1. Module \subseteq Volume /\ MountedModules \subseteq Module
  BY DEF Volume, MountedModules
<1>2. IsFiniteSet(Module)
  BY <1>1, FS_Subset, VolumeAssumption
<1>. QED BY <1>1, <1>2, FS_Subset

LEMMA MountVolumeCounts ==
  ASSUME TypeOK, During, MountVolume
  PROVE  During'
<1>1. PICK v : v = work.evt.vol
  OBVIOUS
<1>2. /\ work.pc = "mount" /\ v \in Volume /\ work # Idle /\ work' = Idle
      /\ vol' = [vol EXCEPT ![v].state = "mounted",
                            ![v].prio = IF v \in Local THEN work.evt.prio ELSE @]
      /\ fs' = [fs EXCEPT ![v] = <<vol[v].dev>> \o @]
      /\ added' = IF v \in Module THEN added + 1 ELSE added
      /\ UNCHANGED <<slot, sock, net, eventVec, cacheVec, ui>>
  BY <1>1, InHand DEF MountVolume
<1>3. vol \in [Volume -> Vol] /\ fs \in [Volume -> Seq(Dev \cup {None})]
  BY VolType DEF TypeOK
<1>4. CASE v \notin Module
  <2>1. SameCards /\ ToMount' /\ added' = added
    BY <1>2, <1>3, <1>4 DEF SameCards, ToMount, Volume
  <2>. QED BY <1>2, <2>1, WorkEnds
<1>5. CASE v \in Module
  <2>1. Waits(v, "work", 1) /\ At("work")[1] = work.evt /\ 1 \in Nat /\ "work" \in Place
    BY <1>1, <1>2 DEF Waits, At, Place
  <2>2. Fresh(work.evt) /\ Mountable(work.evt) /\ v \notin MountedModules
    BY <1>1, <1>2, <1>5, <2>1, ModuleInHand DEF During, MountedOnce
  <2>3. MountedModules' = MountedModules \cup {v}
    <3>1. vol'[v].state = "mounted"
      BY <1>2, <1>3 DEF Vol
    <3>2. \A m \in Module \ {v} : vol'[m] = vol[m]
      BY <1>2, <1>3 DEF Volume
    <3>. QED BY <1>5, <3>1, <3>2 DEF MountedModules
  <2>4. added' = Cardinality(MountedModules')
    BY <1>2, <1>5, <2>2, <2>3, ModulesAreFinite, FS_AddElement DEF During
  <2>5. ASSUME NEW m \in Module, NEW p \in Place, NEW i \in Nat, Waits(m, p, i)'
        PROVE  Waits(m, p, i) /\ At(p)'[i] = At(p)[i] /\ p # "work"
    <3>1. p # "work" => At(p)' = At(p)
      BY <1>2 DEF At, Place
    <3>2. p # "work"
      BY <1>2, <2>5 DEF Waits, At
    <3>. QED BY <2>5, <3>1, <3>2 DEF Waits
  <2>6. \A e : /\ Fresh(e)' <=> Fresh(e)
               /\ Mountable(e)' = Mountable(e)
    BY <1>2 DEF Fresh, Mountable
  <2>7. ASSUME NEW m \in Module, NEW p \in Place, NEW i \in Nat, Waits(m, p, i)'
        PROVE  /\ Fresh(At(p)[i])' <=> Fresh(At(p)[i])
               /\ Mountable(At(p)[i])' = Mountable(At(p)[i])
    <3>1. PICK e : e = At(p)[i]
      OBVIOUS
    <3>2. At(p)'[i] = e
      BY <2>5, <2>7, <3>1
    <3>. QED BY <2>6, <3>1, <3>2 DEF Fresh, Mountable
  <2>8. Underway'
    BY <2>5, <2>7 DEF During, Underway
  <2>9. OnceOnly'
    <3>1. ASSUME NEW m \in Module, NEW p \in Place, NEW q \in Place, NEW i \in Nat, NEW j \in Nat,
                 Waits(m, p, i)', Mountable(At(p)[i])', Waits(m, q, j)', Mountable(At(q)[j])'
          PROVE  p = q /\ i = j
      <4>1. Waits(m, p, i) /\ Mountable(At(p)[i]) /\ Waits(m, q, j) /\ Mountable(At(q)[j])
        BY <2>5, <2>7, <3>1
      <4>. QED BY <4>1 DEF During, OnceOnly
    <3>. QED BY <3>1 DEF OnceOnly
  <2>10. MountedOnce'
    <3>1. ASSUME NEW m \in MountedModules', NEW p \in Place, NEW i \in Nat, Waits(m, p, i)',
                 Mountable(At(p)[i])'
          PROVE  FALSE
      <4>1. m \in Module
        BY DEF MountedModules
      <4>2. Waits(m, p, i) /\ Mountable(At(p)[i]) /\ p # "work"
        BY <2>5, <2>7, <3>1, <4>1
      <4>3. CASE m = v
        BY <1>5, <2>1, <2>2, <4>2, <4>3 DEF During, OnceOnly
      <4>4. CASE m # v
        BY <2>3, <4>2, <4>4 DEF During, MountedOnce
      <4>. QED BY <4>3, <4>4
    <3>2. ASSUME NEW m \in MountedModules'
          PROVE  slot'[m] # None /\ fs'[m] # << >>
      <4>1. m \in Volume
        BY DEF MountedModules, Volume
      <4>2. CASE m = v
        <5>1. slot[v] # None
          BY <1>1, <2>2 DEF Fresh
        <5>2. fs'[v] = <<vol[v].dev>> \o fs[v]
          BY <1>2, <1>3
        <5>3. <<vol[v].dev>> \o fs[v] # << >>
          BY <1>2, <1>3 DEF Vol
        <5>. QED BY <1>2, <4>2, <5>1, <5>2, <5>3
      <4>3. CASE m # v
        BY <1>2, <1>3, <2>3, <4>1, <4>3 DEF During, MountedOnce
      <4>. QED BY <4>2, <4>3
    <3>. QED BY <3>1, <3>2 DEF MountedOnce
  <2>. QED BY <2>4, <2>8, <2>9, <2>10 DEF During
<1>. QED BY <1>4, <1>5

LEMMA WorkerCounts ==
  ASSUME TypeOK, During, NamesApart, Worker
  PROVE  During'
  BY TakeAddCounts, TakeRemoveCounts, MountVolumeCounts, MountFailsCountsNot, UnmountCounts DEF Worker

-----------------------------------------------------------------------------
(***************************************************************************)
(* The kernel                                                              *)
(***************************************************************************)
LEMMA EventsOfDisk ==
  ASSUME NEW v, NEW disk \in Disk
  PROVE  /\ Len(disk.devs) \in Nat /\ DOMAIN disk.devs = 1 .. Len(disk.devs)
         /\ DOMAIN AddEvents(v, disk) = 1 .. Len(disk.devs)
         /\ DOMAIN RemoveEvents(v, disk) = 1 .. Len(disk.devs)
         /\ \A i \in 1 .. Len(disk.devs) :
              /\ AddEvents(v, disk)[i] = Kernel("add", v, disk, i)
              /\ AddEvents(v, disk)[i].vol = v /\ RemoveEvents(v, disk)[i].vol = v
<1>1. Len(disk.devs) \in Nat /\ DOMAIN disk.devs = 1 .. Len(disk.devs)
  BY LenProperties DEF Disk
<1>. QED BY <1>1 DEF AddEvents, RemoveEvents, Kernel

\* The disk that is plugged in, and what becomes of the events.
LEMMA PlugInEffect ==
  ASSUME TypeOK, NEW v \in Volume, NEW devs \in Seq(BOOLEAN), NEW prio \in Nat,
         PlugIn(v, devs, prio)
  PROVE  \E disk \in Disk :
           /\ disk.devs = devs /\ slot[v] = None /\ fs' = fs
           /\ slot' = [slot EXCEPT ![v] = disk] /\ sock' = sock \o AddEvents(v, disk)
           /\ \A w \in Volume : slot[w] # None => slot[w].name # disk.name
<1>1. PICK n \in Name :
        /\ FreeName(n)
        /\ LET disk == [name |-> n, devs |-> devs, prio |-> prio] IN
             slot' = [slot EXCEPT ![v] = disk] /\ sock' = sock \o AddEvents(v, disk)
  BY DEF PlugIn
<1>2. PICK disk : disk = [name |-> n, devs |-> devs, prio |-> prio]
  OBVIOUS
<1>3. disk \in Disk /\ disk.devs = devs /\ disk.name = n
  BY <1>2 DEF Disk
<1>4. slot' = [slot EXCEPT ![v] = disk] /\ sock' = sock \o AddEvents(v, disk)
  BY <1>1, <1>2
<1>5. \A w \in Volume : slot[w] # None => slot[w].name # n
  BY <1>1 DEF FreeName, Taken
<1>. QED BY <1>3, <1>4, <1>5 DEF PlugIn

LEMMA KernelSlots ==
  ASSUME TypeOK, NamesApart, Cards, Kernels
  PROVE  NamesApart' /\ Cards'
<1>1. PICK v \in Volume :
        /\ \A w \in Volume \ {v} : slot'[w] = slot[w]
        /\ slot'[v] # None =>
             /\ \A w \in Volume : slot[w] # None => slot[w].name # slot'[v].name
             /\ v \in Module => slot'[v].devs \in Card
  <2>1. ASSUME NEW v \in Volume, PullOut(v)
        PROVE  /\ \A w \in Volume \ {v} : slot'[w] = slot[w]
               /\ slot'[v] = None
    BY <2>1 DEF PullOut, TypeOK
  <2>2. ASSUME NEW v \in Volume, NEW devs \in Seq(BOOLEAN), NEW prio \in Nat,
               PlugIn(v, devs, prio)
        PROVE  /\ \A w \in Volume \ {v} : slot'[w] = slot[w]
               /\ \A w \in Volume : slot[w] # None => slot[w].name # slot'[v].name
               /\ slot'[v].devs = devs
    <3>1. PICK disk \in Disk :
            /\ disk.devs = devs /\ slot' = [slot EXCEPT ![v] = disk]
            /\ \A w \in Volume : slot[w] # None => slot[w].name # disk.name
      BY <2>2, PlugInEffect
    <3>2. slot'[v] = disk /\ \A w \in Volume \ {v} : slot'[w] = slot[w]
      BY <3>1 DEF TypeOK
    <3>. QED BY <3>1, <3>2
  <2>3. CASE \E v \in Local : ChangeDisk(v)
    <3>1. PICK v \in Local : ChangeDisk(v)
      BY <2>3
    <3>2. v \in Volume /\ v \notin Module
      BY VolumeAssumption DEF Volume
    <3>3. CASE PullOut(v)
      BY <2>1, <3>2, <3>3
    <3>4. CASE \E d \in Disks[v] : PlugIn(v, d.devs, d.prio)
      <4>1. PICK d \in Disks[v] : PlugIn(v, d.devs, d.prio)
        BY <3>4
      <4>2. d.devs \in Seq(BOOLEAN) /\ d.prio \in Nat
        BY VolumeAssumption
      <4>. QED BY <2>2, <3>2, <4>1, <4>2
    <3>. QED BY <3>1, <3>3, <3>4 DEF ChangeDisk
  <2>4. CASE \E m \in Module : SwitchModule(m) \/ DropModule(m)
    <3>1. PICK m \in Module : SwitchModule(m) \/ DropModule(m)
      BY <2>4
    <3>2. m \in Volume
      BY DEF Volume
    <3>3. CASE PullOut(m)
      BY <2>1, <3>2, <3>3
    <3>4. CASE \E d \in Card : PlugIn(m, d, 0)
      <4>1. PICK d \in Card : PlugIn(m, d, 0)
        BY <3>4
      <4>2. d \in Seq(BOOLEAN) /\ 0 \in Nat
        BY VolumeAssumption
      <4>. QED BY <2>2, <3>2, <4>1, <4>2
    <3>. QED BY <3>1, <3>3, <3>4 DEF SwitchModule, DropModule
  <2>. QED BY <2>3, <2>4 DEF Kernels
<1>2. NamesApart'
  BY <1>1 DEF NamesApart, Volume
<1>3. Cards'
  BY <1>1 DEF Cards, Volume
<1>. QED BY <1>2, <1>3

\* A local disk comes or goes: the modules' events are not touched.
LEMMA LocalDiskCounts ==
  ASSUME TypeOK, During, NEW v \in Local, ChangeDisk(v)
  PROVE  During'
<1>1. /\ v \in Volume /\ v \notin Module
      /\ UNCHANGED <<fs, net, vol, eventVec, work, cacheVec, ui, added>>
  BY VolumeAssumption DEF Volume, ChangeDisk, PlugIn, PullOut, manager, mode
<1>2. \E s \in Seq(Event) : /\ sock' = sock \o s
                            /\ \A i \in 1 .. Len(s) : s[i].vol = v
                            /\ \A w \in Volume \ {v} : slot'[w] = slot[w]
  <2>1. CASE PullOut(v)
    <3>1. slot[v] \in Disk
      BY <1>1, <2>1 DEF PullOut, TypeOK, Disk
    <3>2. RemoveEvents(v, slot[v]) \in Seq(Event)
      BY <1>1, <3>1, DiskEvents
    <3>3. \A i \in 1 .. Len(RemoveEvents(v, slot[v])) : RemoveEvents(v, slot[v])[i].vol = v
      BY <3>1, <3>2, EventsOfDisk, LenProperties
    <3>. QED BY <1>1, <2>1, <3>2, <3>3 DEF PullOut, TypeOK
  <2>2. CASE \E d \in Disks[v] : PlugIn(v, d.devs, d.prio)
    <3>1. PICK d \in Disks[v] : PlugIn(v, d.devs, d.prio)
      BY <2>2
    <3>2. d.devs \in Seq(BOOLEAN) /\ d.prio \in Nat
      BY VolumeAssumption
    <3>3. PICK disk \in Disk :
            slot' = [slot EXCEPT ![v] = disk] /\ sock' = sock \o AddEvents(v, disk)
      BY <1>1, <3>1, <3>2, PlugInEffect
    <3>4. AddEvents(v, disk) \in Seq(Event)
      BY <1>1, DiskEvents
    <3>5. \A i \in 1 .. Len(AddEvents(v, disk)) : AddEvents(v, disk)[i].vol = v
      BY <3>4, EventsOfDisk, LenProperties
    <3>. QED BY <1>1, <3>3, <3>4, <3>5 DEF TypeOK
  <2>. QED BY <2>1, <2>2 DEF ChangeDisk
<1>3. PICK s \in Seq(Event) : /\ sock' = sock \o s
                              /\ \A i \in 1 .. Len(s) : s[i].vol = v
                              /\ \A w \in Volume \ {v} : slot'[w] = slot[w]
  BY <1>2
<1>4. /\ sock \in Seq(Event) /\ Len(sock) \in Nat /\ Len(s) \in Nat
      /\ DOMAIN sock = 1 .. Len(sock) /\ DOMAIN (sock \o s) = 1 .. Len(sock) + Len(s)
      /\ \A i \in 1 .. Len(sock) + Len(s) :
           (sock \o s)[i] = IF i <= Len(sock) THEN sock[i] ELSE s[i - Len(sock)]
  BY ConcatProperties, LenProperties DEF TypeOK
<1>5. ASSUME NEW m \in Module, NEW p \in Place, NEW i \in Nat, Waits(m, p, i)'
      PROVE  Waits(m, p, i) /\ At(p)'[i] = At(p)[i]
  <2>1. CASE p = "sock"
    <3>1. i \in 1 .. Len(sock) + Len(s) /\ At(p)'[i] = (sock \o s)[i] /\ (sock \o s)[i].vol = m
      BY <1>3, <1>4, <1>5, <2>1 DEF Waits, At
    <3>2. i <= Len(sock)
      <4>1. ASSUME i > Len(sock)
            PROVE  FALSE
        <5>1. i - Len(sock) \in 1 .. Len(s) /\ (sock \o s)[i] = s[i - Len(sock)]
          BY <1>4, <3>1, <4>1
        <5>. QED BY <1>1, <1>3, <3>1, <5>1
      <4>. QED BY <1>4, <4>1
    <3>. QED BY <1>4, <2>1, <3>1, <3>2 DEF Waits, At
  <2>2. CASE p # "sock"
    <3>1. At(p)' = At(p)
      BY <1>1, <2>2 DEF At, Place
    <3>. QED BY <1>5, <3>1 DEF Waits
  <2>. QED BY <2>1, <2>2
<1>6. SameCards
  BY <1>1, <1>3 DEF SameCards, Volume
<1>7. ToMount'
  <2>1. ASSUME work # Idle, work.evt.vol \in Module
        PROVE  work.pc = "mount" /\ Mountable(work.evt)'
    <3>1. work.pc = "mount" /\ Mountable(work.evt)
      BY <2>1, ModuleInHand
    <3>. QED BY <1>1, <1>6, <2>1, <3>1 DEF Mountable, SameCards
  <2>. QED BY <1>1, <2>1 DEF ToMount
<1>. QED BY <1>1, <1>5, <1>6, <1>7, EventsStay

\* A module's card comes up: there was no event of this module before, and there is
\* one of each of its devices now.
LEMMA CardCounts ==
  ASSUME TypeOK, During, OneReadable, NEW v \in Module, NEW c \in Card, PlugIn(v, c, 0),
         UNCHANGED <<net, vol, eventVec, work, cacheVec, ui, added>>
  PROVE  During'
<1>0. v \in Volume /\ c \in Seq(BOOLEAN) /\ 0 \in Nat
  BY VolumeAssumption DEF Volume
<1>1. PICK disk \in Disk :
        /\ disk.devs = c /\ slot[v] = None /\ fs' = fs
        /\ slot' = [slot EXCEPT ![v] = disk] /\ sock' = sock \o AddEvents(v, disk)
  BY <1>0, PlugInEffect, SMTT(30)
<1>2. slot'[v] = disk /\ disk # None /\ \A w \in Volume \ {v} : slot'[w] = slot[w]
  <2>1. slot \in [Volume -> Disk \cup {None}]
    BY DEF TypeOK, Disk
  <2>2. disk # None
    <3>1. None \notin Disk
      BY VolumeAssumption, Zenon DEF Disk
    <3>. QED BY <1>1, <3>1
  <2>. QED BY <1>0, <1>1, <2>1, <2>2, Zenon
<1>3. PICK s : s = AddEvents(v, disk)
  OBVIOUS
<1>4. /\ s \in Seq(Event) /\ Len(s) \in Nat /\ DOMAIN s = 1 .. Len(s) /\ DOMAIN c = 1 .. Len(s)
      /\ \A i \in 1 .. Len(s) : s[i] = Kernel("add", v, disk, i)
  <2>1. s \in Seq(Event)
    BY <1>0, <1>3, DiskEvents
  <2>2. Len(s) \in Nat /\ DOMAIN s = 1 .. Len(s)
    BY <2>1, LenProperties
  <2>3. disk.devs = c
    BY <1>1
  <2>4. /\ DOMAIN disk.devs = 1 .. Len(disk.devs) /\ DOMAIN s = 1 .. Len(disk.devs)
        /\ \A i \in 1 .. Len(disk.devs) : s[i] = Kernel("add", v, disk, i)
    BY <1>3, EventsOfDisk, Zenon
  <2>. QED BY <2>1, <2>2, <2>3, <2>4, Zenon
<1>5. /\ sock \in Seq(Event) /\ Len(sock) \in Nat /\ DOMAIN sock = 1 .. Len(sock)
      /\ DOMAIN (sock \o s) = 1 .. Len(sock) + Len(s)
      /\ \A i \in 1 .. Len(sock) + Len(s) :
           (sock \o s)[i] = IF i <= Len(sock) THEN sock[i] ELSE s[i - Len(sock)]
  BY <1>4, ConcatProperties, LenProperties DEF TypeOK
<1>6. \A p \in Place, i \in Nat : ~Waits(v, p, i)
  BY <1>1 DEF During, Underway, Fresh, Waits
<1>7. v \notin MountedModules /\ MountedModules' = MountedModules
  BY <1>1 DEF During, MountedOnce, MountedModules
<1>8. ASSUME NEW m \in Module, NEW p \in Place, NEW i \in Nat, Waits(m, p, i)'
      PROVE  \/ /\ m # v /\ Waits(m, p, i) /\ At(p)'[i] = At(p)[i]
                /\ Fresh(At(p)[i])' /\ Mountable(At(p)[i])' = Mountable(At(p)[i])
             \/ /\ m = v /\ p = "sock" /\ i - Len(sock) \in DOMAIN c
                /\ Fresh(At(p)[i])' /\ Mountable(At(p)[i])' = c[i - Len(sock)]
  <2>1. CASE p # "sock" \/ i <= Len(sock)
    <3>1. Waits(m, p, i) /\ At(p)'[i] = At(p)[i]
      <4>1. CASE p # "sock"
        <5>1. At(p)' = At(p)
          BY <4>1 DEF At, Place
        <5>. QED BY <1>8, <5>1 DEF Waits
      <4>2. CASE p = "sock" /\ i <= Len(sock)
        <5>1. i \in 1 .. Len(sock) + Len(s) /\ At(p)'[i] = (sock \o s)[i] /\ (sock \o s)[i].vol = m
          BY <1>1, <1>3, <1>5, <1>8, <4>2 DEF Waits, At
        <5>. QED BY <1>5, <4>2, <5>1 DEF Waits, At
      <4>. QED BY <2>1, <4>1, <4>2
    <3>2. PICK e : e = At(p)[i]
      OBVIOUS
    <3>3. m # v /\ e.vol = m /\ Fresh(e)
      BY <1>6, <3>1, <3>2 DEF Waits, During, Underway
    <3>4. slot'[m] = slot[m]
      BY <1>2, <3>3 DEF Volume
    <3>5. Fresh(e)' /\ Mountable(e)' = Mountable(e)
      BY <3>3, <3>4 DEF Fresh, Mountable
    <3>. QED BY <3>1, <3>2, <3>3, <3>5 DEF Fresh, Mountable
  <2>2. CASE p = "sock" /\ i > Len(sock)
    <3>1. i \in 1 .. Len(sock) + Len(s) /\ At(p)'[i] = (sock \o s)[i] /\ (sock \o s)[i].vol = m
      BY <1>1, <1>3, <1>5, <1>8, <2>2 DEF Waits, At
    <3>2. PICK k : k = i - Len(sock)
      OBVIOUS
    <3>3. k \in 1 .. Len(s) /\ At(p)'[i] = s[k]
      BY <1>4, <1>5, <2>2, <3>1, <3>2
    <3>4. PICK e : e = At(p)'[i]
      OBVIOUS
    <3>5. e = Kernel("add", v, disk, k) /\ k \in DOMAIN c
      BY <1>4, <3>3, <3>4
    <3>6. e.vol = v /\ e.act = "add" /\ e.dev = <<disk.name, k>>
      BY <3>5 DEF Kernel
    <3>8. Fresh(e)' /\ Mountable(e)' = c[k]
      BY <1>1, <1>2, <3>5, <3>6 DEF Fresh, Mountable
    <3>9. m = v
      BY <3>1, <3>4, <3>6
    <3>. QED BY <2>2, <3>2, <3>4, <3>5, <3>8, <3>9 DEF Fresh, Mountable
  <2>. QED BY <1>5, <2>1, <2>2
<1>10. Underway'
  <2>1. ASSUME NEW m \in Module, NEW i \in Nat, Waits(m, "work", i)'
        PROVE  work'.pc = "mount" /\ Mountable(At("work")[i])'
    <3>1. Waits(m, "work", i) /\ Mountable(At("work")[i])' = Mountable(At("work")[i])
      BY <1>8, <2>1 DEF Place
    <3>. QED BY <3>1 DEF During, Underway, Place
  <2>. QED BY <1>8, <2>1 DEF Underway
<1>11. OnceOnly'
  <2>1. ASSUME NEW m \in Module, NEW p \in Place, NEW q \in Place, NEW i \in Nat, NEW j \in Nat,
               Waits(m, p, i)', Mountable(At(p)[i])', Waits(m, q, j)', Mountable(At(q)[j])'
        PROVE  p = q /\ i = j
    <3>1. CASE m # v
      <4>1. Waits(m, p, i) /\ Mountable(At(p)[i]) /\ Waits(m, q, j) /\ Mountable(At(q)[j])
        BY <1>8, <2>1, <3>1
      <4>. QED BY <4>1 DEF During, OnceOnly
    <3>2. CASE m = v
      <4>1. PICK k, l : k = i - Len(sock) /\ l = j - Len(sock)
        OBVIOUS
      <4>2. /\ p = "sock" /\ q = "sock" /\ k \in DOMAIN c /\ l \in DOMAIN c
            /\ Mountable(At(p)[i])' = c[k] /\ Mountable(At(q)[j])' = c[l]
        BY <1>8, <2>1, <3>2, <4>1
      <4>3. c[k] /\ c[l]
        BY <2>1, <4>2
      <4>4. k = l
        BY <4>2, <4>3 DEF OneReadable
      <4>. QED BY <1>5, <4>1, <4>2, <4>4
    <3>. QED BY <3>1, <3>2
  <2>. QED BY <2>1 DEF OnceOnly
<1>12. MountedOnce'
  <2>1. ASSUME NEW m \in MountedModules, NEW p \in Place, NEW i \in Nat, Waits(m, p, i)',
               Mountable(At(p)[i])'
        PROVE  FALSE
    <3>1. m \in Module /\ m # v
      BY <1>7 DEF MountedModules
    <3>2. Waits(m, p, i) /\ Mountable(At(p)[i])
      BY <1>8, <2>1, <3>1
    <3>. QED BY <3>2 DEF During, MountedOnce
  <2>2. \A m \in MountedModules : slot'[m] # None /\ fs'[m] # << >>
    BY <1>1, <1>2, <1>7 DEF During, MountedOnce, MountedModules, Volume
  <2>. QED BY <1>7, <2>1, <2>2 DEF MountedOnce
<1>. QED BY <1>7, <1>10, <1>11, <1>12 DEF During

LEMMA KernelsCount ==
  ASSUME TypeOK, During, OneReadable, Kernels, power = Module, entering, clean'
  PROVE  During'
<1>1. CASE \E v \in Local : ChangeDisk(v)
  BY <1>1, LocalDiskCounts
<1>2. CASE \E m \in Module : SwitchModule(m) \/ DropModule(m)
  <2>1. PICK m \in Module : SwitchModule(m)
    BY <1>2 DEF DropModule
  <2>2. PICK d \in Card : PlugIn(m, d, 0)
    BY <2>1 DEF SwitchModule
  <2>3. UNCHANGED <<net, vol, eventVec, work, cacheVec, ui, added>>
    BY <2>1 DEF SwitchModule, manager, mode
  <2>. QED BY <2>2, <2>3, CardCounts
<1>. QED BY <1>1, <1>2 DEF Kernels

-----------------------------------------------------------------------------
(***************************************************************************)
(* The switch                                                              *)
(***************************************************************************)
LEMMA NotYetStays ==
  ASSUME NotYet, UNCHANGED <<eventVec, work, vol, added>>
  PROVE  NotYet'
  BY DEF NotYet, MountedModules

LEMMA WorkerNotYet ==
  ASSUME TypeOK, NotYet, Worker
  PROVE  NotYet'
<1>0. vol \in [Volume -> Vol]
  BY VolType
<1>1. CASE TakeAdd \/ TakeRemove
  <2>1. PICK e : e = Head(eventVec)
    OBVIOUS
  <2>2. /\ eventVec # << >> /\ eventVec' = Tail(eventVec) /\ e \in Event
        /\ added' = added
        /\ (work' = work \/ (work' # Idle /\ work'.evt = e))
    <3>1. eventVec # << >> /\ eventVec' = Tail(eventVec) /\ e \in Event /\ added' = added
      BY <1>1, <2>1, QueueHead DEF TakeAdd, TakeRemove, mode
    <3>2. work' = work \/ \E pc \in {"mount", "unmount"} : work' = [pc |-> pc, evt |-> e]
      BY <1>1, <2>1 DEF TakeAdd, TakeRemove
    <3>. QED BY <3>1, <3>2 DEF Idle
  <2>3. /\ eventVec \in Seq(Event) /\ Len(eventVec) \in Nat /\ e = eventVec[1] /\ 1 \in DOMAIN eventVec
        /\ \A i \in DOMAIN Tail(eventVec) :
             i + 1 \in DOMAIN eventVec /\ Tail(eventVec)[i] = eventVec[i + 1]
    BY <2>1, <2>2, HeadTailProperties, LenProperties DEF TypeOK
  <2>4. e.vol \notin Module /\ \A i \in DOMAIN eventVec' : eventVec'[i].vol \notin Module
    BY <2>2, <2>3 DEF NotYet
  <2>5. e.vol \in Volume /\ \A w \in Volume \ {e.vol} : vol'[w] = vol[w]
    BY <1>0, <1>1, <2>1, <2>2 DEF TakeAdd, TakeRemove, Event
  <2>6. MountedModules' = MountedModules
    BY <2>4, <2>5 DEF MountedModules, Volume
  <2>. QED BY <2>2, <2>4, <2>6 DEF NotYet
<1>2. CASE MountVolume \/ MountFails \/ UnmountFirst \/ UnmountVolume \/ UnmountFails
  <2>1. PICK v : v = work.evt.vol
    OBVIOUS
  <2>2. work # Idle /\ v \in Volume /\ v \notin Module
    BY <1>2, <2>1, InHand DEF MountVolume, MountFails, UnmountFirst, UnmountVolume, UnmountFails,
       NotYet
  <2>3. /\ eventVec' = eventVec /\ added' = added
        /\ work' = Idle \/ work'.evt = work.evt
    BY <1>2, <2>1, <2>2, InHand DEF MountVolume, MountFails, UnmountFirst, UnmountVolume,
       UnmountFails, mode
  <2>4. \A w \in Volume \ {v} : vol'[w] = vol[w]
    BY <1>0, <1>2, <2>1 DEF MountVolume, MountFails, UnmountFirst, UnmountVolume, UnmountFails
  <2>5. MountedModules' = MountedModules
    BY <2>2, <2>4 DEF MountedModules, Volume
  <2>. QED BY <2>1, <2>2, <2>3, <2>5 DEF NotYet
<1>. QED BY <1>1, <1>2 DEF Worker

\* Everything but the thread of the UI leaves it where it is.
LEMMA OthersCount ==
  ASSUME TypeOK, CountInv, OneReadable, Kernels \/ Listener \/ Worker
  PROVE  CountInv'
<1>1. NamesApart' /\ Cards'
  <2>1. CASE Kernels
    BY <2>1, KernelSlots DEF CountInv
  <2>2. CASE Listener \/ Worker
    <3>1. slot' = slot
      BY <2>2 DEF Listener, ReadEvent, CacheEvent, Worker, TakeAdd, TakeRemove, MountVolume,
         MountFails, UnmountFirst, UnmountVolume, UnmountFails, kernel
    <3>. QED BY <3>1 DEF CountInv, NamesApart, Cards
  <2>. QED BY <2>1, <2>2
<1>2. /\ UNCHANGED <<ui, entering, power>>
      /\ clean' = clean \/ clean' = ~entering
  <2>1. CASE Kernels
    <3>1. UNCHANGED mode
      BY <2>1 DEF Kernels, ChangeDisk, SwitchModule, DropModule
    <3>2. clean' = clean \/ clean' = ~entering
      BY <2>1, Zenon DEF Kernels, ChangeDisk, SwitchModule, DropModule, history
    <3>. QED BY <3>1, <3>2, Zenon DEF mode
  <2>2. CASE Listener \/ Worker
    <3>1. UNCHANGED <<ui, entering, power>> /\ clean' = clean
      BY <2>2 DEF Listener, ReadEvent, CacheEvent, Worker, TakeAdd, TakeRemove, MountVolume,
         MountFails, UnmountFirst, UnmountVolume, UnmountFails, mode, history
    <3>. QED BY <3>1, Zenon
  <2>. QED BY <2>1, <2>2, Zenon
<1>3. ASSUME clean', ui \in {"clear", "check"}
      PROVE  NotYet'
  <2>1. NotYet /\ entering
    <3>1. entering
      BY <1>3 DEF CountInv
    <3>2. clean
      BY <1>2, <1>3, <3>1, Zenon
    <3>. QED BY <1>3, <3>1, <3>2 DEF CountInv
  <2>2. CASE Kernels
    <3>1. UNCHANGED <<eventVec, work, vol, added>>
      BY <2>2 DEF Kernels, ChangeDisk, SwitchModule, DropModule, manager, mode
    <3>. QED BY <2>1, <3>1, NotYetStays
  <2>3. CASE Listener
    <3>1. UNCHANGED <<eventVec, work, vol, added>>
      BY <2>1, <2>3 DEF Listener, ReadEvent, CacheEvent, manager, mode
    <3>. QED BY <2>1, <3>1, NotYetStays
  <2>4. CASE Worker
    BY <2>1, <2>4, WorkerNotYet
  <2>. QED BY <2>2, <2>3, <2>4
<1>4. ASSUME clean', ui \in {"check", "flushed", "wait"}
      PROVE  During'
  <2>1. During /\ entering /\ power = Module /\ NamesApart
    <3>1. entering
      BY <1>4 DEF CountInv
    <3>2. clean
      BY <1>2, <1>4, <3>1, Zenon
    <3>. QED BY <1>4, <3>1, <3>2 DEF CountInv
  <2>. QED BY <1>4, <2>1, KernelsCount, ReadEventCounts, CacheEventCounts, WorkerCounts DEF Listener
<1>. QED BY <1>1, <1>2, <1>3, <1>4 DEF CountInv

LEMMA EnterCounts ==
  ASSUME TypeOK, CountInv, Enter
  PROVE  CountInv'
<1>1. /\ ui' = "clear" /\ entering' /\ added' = 0
      /\ clean' = \A m \in Module : ~Pending(m)
      /\ UNCHANGED <<slot, eventVec, work>>
  BY DEF Enter
<1>2. NamesApart' /\ Cards'
  BY <1>1 DEF CountInv, NamesApart, Cards
<1>3. MountedModules' = {}
  <2>1. ASSUME NEW m \in Module
        PROVE  vol'[m].state # "mounted"
    <3>1. m \in Volume /\ vol \in [Volume -> Vol]
      BY VolType DEF Volume
    <3>2. vol' = [v \in Volume |-> IF v \in MountedModules
                                   THEN [vol[v] EXCEPT !.state = "idle"] ELSE vol[v]]
      BY DEF Enter, MountedModules
    <3>3. m \in MountedModules => vol'[m].state = "idle"
      BY <3>1, <3>2 DEF Vol
    <3>4. m \notin MountedModules => vol'[m].state = vol[m].state /\ vol[m].state # "mounted"
      BY <3>1, <3>2 DEF MountedModules
    <3>. QED BY <3>3, <3>4
  <2>. QED BY <2>1 DEF MountedModules
<1>4. ASSUME clean'
      PROVE  NotYet'
  <2>1. \A m \in Module : ~OnTheWay(m)
    BY <1>1, <1>4 DEF Pending
  <2>2. \A i \in DOMAIN eventVec : eventVec[i].vol \notin Module
    BY <2>1 DEF OnTheWay
  <2>3. work # Idle => work.evt.vol \notin Module
    BY <2>1 DEF OnTheWay
  <2>. QED BY <1>1, <1>3, <2>2, <2>3 DEF NotYet
<1>. QED BY <1>1, <1>2, <1>4 DEF CountInv

\* After a switch on without an event on its way everything is to be counted still.
LEMMA PowerOnCounts ==
  ASSUME TypeOK, CountInv, ClearAndPowerOn
  PROVE  CountInv'
<1>1. /\ ui = "clear" /\ ui' = "check" /\ power' = Module /\ cacheVec' = << >>
      /\ clean' = (clean /\ \A m \in Module : slot[m] = None /\ ~OnTheWay(m))
      /\ UNCHANGED <<slot, fs, sock, net, vol, eventVec, work, entering, added>>
  BY DEF ClearAndPowerOn, kernel, manager
<1>2. NamesApart' /\ Cards' /\ entering'
  BY <1>1 DEF CountInv, NamesApart, Cards
<1>3. ASSUME clean'
      PROVE  NotYet' /\ During'
  <2>1. clean /\ \A m \in Module : ~OnTheWay(m)
    BY <1>1, <1>3
  <2>2. NotYet /\ NotYet'
    BY <1>1, <2>1, NotYetStays DEF CountInv
  <2>3. ASSUME NEW m \in Module, NEW p \in Place, NEW i \in Nat, Waits(m, p, i)'
        PROVE  FALSE
    <3>1. CASE p = "sock"
      BY <1>1, <2>1, <2>3, <3>1 DEF Waits, At, OnTheWay
    <3>2. CASE p = "net"
      BY <1>1, <2>1, <2>3, <3>2 DEF Waits, At, OnTheWay
    <3>3. CASE p = "cache"
      BY <1>1, <2>3, <3>3 DEF Waits, At
    <3>4. CASE p = "queue"
      BY <1>1, <2>1, <2>3, <3>4 DEF Waits, At, OnTheWay
    <3>5. CASE p = "work"
      BY <1>1, <2>1, <2>3, <3>5 DEF Waits, At, OnTheWay
    <3>. QED BY <3>1, <3>2, <3>3, <3>4, <3>5 DEF Place
  <2>4. MountedModules' = {} /\ added' = 0
    BY <2>2 DEF NotYet
  <2>5. added' = Cardinality(MountedModules')
    BY <2>4, FS_EmptySet
  <2>6. Underway' /\ OnceOnly'
    BY <2>3 DEF Underway, OnceOnly
  <2>7. MountedOnce'
    BY <2>4 DEF MountedOnce
  <2>. QED BY <2>2, <2>5, <2>6, <2>7 DEF During
<1>. QED BY <1>1, <1>2, <1>3 DEF CountInv

LEMMA SwitchCounts ==
  ASSUME TypeOK, CountInv, Start \/ SwitchOn \/ Exit \/ SwitchOff
  PROVE  CountInv'
<1>1. NamesApart' /\ Cards'
  <2>1. slot' = slot
    BY DEF Start, Listen, Coldboot, StartWorkThread, SwitchOn, ClearAndPowerOn, GiveUp, Flush,
       FlushClears, EndEnter, Exit, SwitchOff, CacheRemoval, EndExit, kernel
  <2>. QED BY <2>1 DEF CountInv, NamesApart, Cards
<1>2. CASE ClearAndPowerOn
  BY <1>2, PowerOnCounts
<1>3. CASE GiveUp
  <2>1. /\ ui = "check" /\ UNCHANGED <<eventVec, work, vol, added>>
        /\ \/ ui' = "clear" /\ UNCHANGED <<entering, clean>>
           \/ ui' = "inside"
    BY <1>3 DEF GiveUp, manager, history
  <2>2. CASE ui' = "clear" /\ UNCHANGED <<entering, clean>>
    <3>1. entering' /\ (clean => NotYet)
      BY <2>1, <2>2 DEF CountInv
    <3>2. clean' => NotYet'
      BY <2>1, <2>2, <3>1, NotYetStays
    <3>. QED BY <1>1, <2>2, <3>1, <3>2 DEF CountInv
  <2>3. CASE ui' = "inside"
    BY <1>1, <2>3 DEF CountInv
  <2>. QED BY <2>1, <2>2, <2>3
<1>4. CASE Flush
  <2>1. CASE ui = "check"
    <3>1. ui' = "flushed" /\ UNCHANGED <<entering, power, clean>>
      BY <1>4, <2>1 DEF Flush, history
    <3>. QED BY <1>1, <1>4, <2>1, <3>1, FlushCounts DEF CountInv
  <2>2. CASE ui # "check"
    BY <1>1, <1>4, <2>2 DEF Flush, CountInv
  <2>. QED BY <2>1, <2>2
<1>5. CASE FlushClears
  <2>1. CASE ui = "flushed"
    <3>1. ui' = "wait" /\ UNCHANGED <<entering, power, clean>>
      BY <1>5, <2>1 DEF FlushClears, history
    <3>. QED BY <1>1, <1>5, <2>1, <3>1, FlushClearsCounts DEF CountInv
  <2>2. CASE ui # "flushed"
    BY <1>1, <1>5, <2>2 DEF FlushClears, CountInv
  <2>. QED BY <2>1, <2>2
<1>6. CASE EndEnter \/ Exit \/ SwitchOff \/ Start
  <2>1. ui' \in {"inside", "exit", "normal", "coldboot"}
    BY <1>6 DEF EndEnter, Exit, SwitchOff, CacheRemoval, EndExit, Start, Listen, Coldboot,
       StartWorkThread
  <2>. QED BY <1>1, <2>1 DEF CountInv
<1>. QED BY <1>2, <1>3, <1>4, <1>5, <1>6 DEF SwitchOn

LEMMA CountInit ==
  ASSUME Init
  PROVE  CountInv
<1>1. ui = "start" /\ \A m \in Module : slot[m] = None
  BY VolumeAssumption DEF Init, Volume
<1>. QED BY <1>1 DEF CountInv, NamesApart, Cards

LEMMA CountNext ==
  ASSUME OneReadable, TypeOK, CountInv, [Next]_vars
  PROVE  CountInv'
<1>1. CASE Next
  BY <1>1, OthersCount, EnterCounts, SwitchCounts DEF Next
<1>2. CASE UNCHANGED vars
  <2>1. /\ UNCHANGED <<slot, fs, sock, net, vol, eventVec, work, cacheVec>>
        /\ UNCHANGED <<entering, added, ui, power, clean>>
    BY <1>2 DEF vars, kernel, manager, mode, history
  <2>2. NamesApart' /\ Cards' /\ (NotYet => NotYet')
    BY <2>1, NotYetStays DEF CountInv, NamesApart, Cards
  <2>3. During => During'
    <3>1. \A p \in Place : At(p)' = At(p)
      BY <2>1 DEF At, Place
    <3>2. MountedModules' = MountedModules /\ slot' = slot /\ fs' = fs
      BY <2>1 DEF MountedModules
    <3>3. \A m, i : \A p \in Place : Waits(m, p, i)' <=> Waits(m, p, i)
      BY <3>1 DEF Waits
    <3>4. ToMount' <=> ToMount
      BY <2>1 DEF ToMount, Mountable
    <3>5. During => ToMount
      <4>1. ASSUME During, work # Idle, work.evt.vol \in Module
            PROVE  work.pc = "mount" /\ Mountable(work.evt)
        <5>1. Waits(work.evt.vol, "work", 1) /\ At("work")[1] = work.evt
          BY <4>1 DEF Waits, At
        <5>. QED BY <4>1, <5>1 DEF During, Underway, Place
      <4>. QED BY <4>1 DEF ToMount
    <3>6. SameCards
      BY <2>1 DEF SameCards
    <3>7. \A m \in Module, p \in Place, i \in Nat :
            Waits(m, p, i)' => Waits(m, p, i) /\ At(p)'[i] = At(p)[i]
      BY <3>1, <3>3
    <3>. QED BY <2>1, <3>4, <3>5, <3>6, <3>7, EventsStay
  <2>. QED BY <2>1, <2>2, <2>3 DEF CountInv
<1>. QED BY <1>1, <1>2

\* The inductive invariant of EnteredAlwaysMounted: while the mode is entered, each
\* event of a module is that of the card in it, and the count is that of the modules
\* mounted, one readable device per card given.
THEOREM CountInvariance ==
  ASSUME OneReadable
  PROVE  Spec => []CountInv
<1>1. Init => CountInv
  BY CountInit
<1>2. TypeOK /\ CountInv /\ [Next]_vars => CountInv'
  BY CountNext
<1>. QED BY <1>1, <1>2, VolumeTypeCorrect, PTL DEF Spec

\* EnteredIsMounted: when checkEnterUdiskResult finds as many mounts as there are
\* modules, it was every module's card that was mounted, for any number of modules and
\* of attempts to power them up, if no card has two partitions to mount.
THEOREM EnteredAlwaysMounted ==
  ASSUME OneReadable
  PROVE  Spec => EnteredIsMounted
<1>1. ASSUME CountInv, [Next]_vars, ui = "wait", ui' = "inside", Entered, clean
      PROVE  \A m \in Module : vol[m].state = "mounted" /\ fs[m] # << >>
  <2>1. MountedOnce /\ added = Cardinality(MountedModules)
    BY <1>1 DEF CountInv, During
  <2>2. Cardinality(MountedModules) >= Cardinality(Module)
    BY <1>1, <2>1 DEF Entered
  <2>3. /\ Cardinality(MountedModules) \in Nat /\ Cardinality(Module) \in Nat
        /\ Cardinality(MountedModules) <= Cardinality(Module)
        /\ Cardinality(Module) = Cardinality(MountedModules) => Module = MountedModules
    BY ModulesAreFinite, FS_Subset, FS_CardinalityType
  <2>4. Module = MountedModules
    BY <2>2, <2>3
  <2>. QED BY <2>1, <2>4 DEF MountedOnce, MountedModules
<1>2. CountInv /\ [Next]_vars =>
        [ui = "wait" /\ ui' = "inside" /\ Entered /\ clean =>
           \A m \in Module : vol[m].state = "mounted" /\ fs[m] # << >>]_vars
  BY <1>1
<1>. QED BY <1>2, CountInvariance, PTL DEF Spec, EnteredIsMounted
=============================================================================
