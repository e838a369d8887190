---------------------------- MODULE VolumeManager ----------------------------
(***************************************************************************)
(* The volumes of system_server (src/system_server/VolumeManager.cpp): the *)
(* uevents of disks and of the camera modules' cards, the thread that      *)
(* mounts and unmounts them and picks the save path, and the switch into   *)
(* and out of U-disk mode, which holds the events back in a cache while it *)
(* powers the modules up.                                                  *)
(*                                                                         *)
(* Three threads meet here: the netlink listener, the volume worker and    *)
(* the UI.  A disk is the sequence of its block devices, each with a file  *)
(* system or not; the kernel gives it the lowest free name.                *)
(*                                                                         *)
(* Two things of the code are not here because nothing depends on them:    *)
(* the work mode, which says whether mounted modules are counted (the      *)
(* count is reset when the mode is entered), and the count of removals,    *)
(* which only ends a wait that has a limit anyway.  Left out as well, and  *)
(* not harmless, is what comes from elsewhere: updateRemoteTfsInfo, which  *)
(* writes what camerad says of a module over its iVolState from the thread *)
(* that has asked, formatVolume, and the calls of unmountCurLocalVol       *)
(* and unmountAll, by update_check and at power off.                       *)
(***************************************************************************)
EXTENDS Naturals, Sequences, FiniteSets

CONSTANTS
  Local, Module,    \* mLocalVols, mModuleVols
  Disks,            \* what each local slot may hold: its devices, the priority of its bus
  First,            \* the disks at the start: the name in each local slot, 0 for none
  Card,             \* what a module may hold: its devices, TRUE if readable
  None,
  MaxTries,         \* how often the modules are powered up (4 in the code)
  MaxQueue,         \* bound: the events in the three queues when the kernel sends one
  MaxPlugs, MaxFaults, MaxEnters  \* bounds: plugs and pulls, failing calls, mode switches

VARIABLES
  slot,      \* the disk in each slot: its name, its devices, the priority of its bus
  fs,        \* the devices mounted at pMountPath, the last one first
  sock,      \* the uevents the listener has not read
  net,       \* the event the listener is about to put into the cache
  running,   \* mWorkerRunning
  vol,       \* iVolState, cDevNode and iPrio of each volume
  current,   \* mCurrentUsedLocalVol
  eventVec,  \* mEventVec
  work,      \* the worker: what it does, and the event in hand
  cacheVec,  \* mCacheVec
  entering,  \* mEnteringUdisk
  added,     \* mHandledAddUdiskVolCnt
  ui,        \* where the UI thread is
  power,     \* the modules that are powered as U-disks
  tries,     \* iModulePowerOnTimes
  todo,      \* the volumes left in the loop of coldboot or exitUdiskMode
  lost,      \* history: volumes with an event thrown away or left behind, or a failed call
  clean,     \* history: no event of a module is older than the switch of the mode
  plugs, faults, enters

kernel  == <<slot, fs, sock>>
manager == <<running, vol, current, eventVec, work>>
mode    == <<cacheVec, entering, added, ui, power, tries, todo>>
history == <<lost, clean>>
budget  == <<plugs, faults, enters>>
vars    == <<kernel, net, manager, mode, history, budget>>

Volume == Local \cup Module
Name   == 1..(2 * Cardinality(Volume))
Dev    == Name \X Nat
State  == {"init", "nomedia", "idle", "mounted", "unmounting"}
Event  == [act : {"add", "remove"}, src : {"kernel", "app"}, vol : Volume,
           dev : Dev \cup {None}, prio : Nat]
UI     == {"start", "coldboot", "normal", "clear", "check", "flushed", "wait", "inside",
           "exit", "exiting", "leave"}

ASSUME VolumeAssumption ==
  /\ Local \cap Module = {} /\ IsFiniteSet(Volume)
  /\ None \notin Volume \cup [name : Name, devs : Seq(BOOLEAN), prio : Nat] \cup Event
  /\ Disks \in [Local -> SUBSET [devs : Seq(BOOLEAN), prio : Nat]]
  /\ Card \subseteq Seq(BOOLEAN)
  /\ First \subseteq [Local -> Name \cup {0}]
  /\ \A f \in First : \A u, v \in Local : f[u] = f[v] /\ f[u] # 0 => u = v
  /\ {MaxTries, MaxQueue, MaxPlugs, MaxFaults, MaxEnters} \subseteq Nat

-----------------------------------------------------------------------------
(***************************************************************************)
(* The kernel (external)                                                   *)
(***************************************************************************)
\* A name is taken as long as its disk is there or mounted.
Taken(n) ==
  \E v \in Volume : \/ slot[v] # None /\ slot[v].name = n
                    \/ \E i \in 1..Len(fs[v]) : fs[v][i][1] = n

FreeName(n) == ~Taken(n) /\ \A k \in 1..(n - 1) : Taken(k)

Kernel(act, v, disk, i) ==
  [act |-> act, src |-> "kernel", vol |-> v, dev |-> <<disk.name, i>>, prio |-> disk.prio]

\* The devices come in order and go in reverse order.
AddEvents(v, disk) == [i \in 1..Len(disk.devs) |-> Kernel("add", v, disk, i)]
RemoveEvents(v, disk) ==
  LET n == Len(disk.devs) IN [i \in 1..n |-> Kernel("remove", v, disk, n + 1 - i)]

Room(n) == Len(sock) + Len(cacheVec) + Len(eventVec) + n <= MaxQueue

PlugIn(v, devs, prio) ==
  /\ slot[v] = None /\ Room(Len(devs))
  /\ \E n \in Name :
       /\ FreeName(n)
       /\ LET disk == [name |-> n, devs |-> devs, prio |-> prio] IN
            /\ slot' = [slot EXCEPT ![v] = disk]
            /\ sock' = sock \o AddEvents(v, disk)
  /\ UNCHANGED fs

PullOut(v) ==
  /\ slot[v] # None /\ Room(Len(slot[v].devs))
  /\ slot' = [slot EXCEPT ![v] = None]
  /\ sock' = sock \o RemoveEvents(v, slot[v])
  /\ UNCHANGED fs

\* Somebody plugs a local disk in or pulls it out; before the listener starts this
\* only makes another initial state.
ChangeDisk(v) ==
  /\ ui # "start" /\ plugs < MaxPlugs
  /\ plugs' = plugs + 1
  /\ \/ \E d \in Disks[v] : PlugIn(v, d.devs, d.prio)
     \/ PullOut(v)
  /\ UNCHANGED <<net, manager, mode, history, faults, enters>>

\* A module comes up as a U-disk once it is powered, and goes when it is not ...
SwitchModule(m) ==
  /\ \/ m \in power /\ \E d \in Card : PlugIn(m, d, 0)
     \/ m \notin power /\ PullOut(m)
  /\ UNCHANGED <<net, manager, mode, history, budget>>

\* ... or by itself.
DropModule(m) ==
  /\ plugs < MaxPlugs
  /\ plugs' = plugs + 1
  /\ m \in power /\ PullOut(m)
  /\ clean' = ~entering
  /\ UNCHANGED <<net, manager, mode, lost, faults, enters>>

-----------------------------------------------------------------------------
(***************************************************************************)
(* The listener                                                            *)
(***************************************************************************)
\* handleBlockEvent: without a worker the event is dropped; with mEnteringUdisk, as it
\* is now, it is going to the cache, else postEvent passes it on.
ReadEvent ==
  /\ net = None /\ sock # << >>
  /\ sock' = Tail(sock)
  /\ LET e == Head(sock) IN
       \/ ~running /\ lost' = lost \cup {e.vol} /\ UNCHANGED <<net, eventVec>>
       \/ running /\ entering /\ net' = e /\ UNCHANGED <<lost, eventVec>>
       \/ running /\ ~entering /\ eventVec' = Append(eventVec, e) /\ UNCHANGED <<net, lost>>
  /\ UNCHANGED <<slot, fs, running, vol, current, work, mode, clean, budget>>

\* A mutant of CacheEvent: only the modules' events are kept.
CacheEventOfModule ==
  /\ net # None
  /\ cacheVec' = IF net.vol \in Module THEN Append(cacheVec, net) ELSE cacheVec
  /\ net' = None
  /\ lost' = IF entering /\ ui # "flushed" THEN lost ELSE lost \cup {net.vol}
  /\ UNCHANGED <<kernel, manager, entering, added, ui, power, tries, todo, clean, budget>>

\* Under mCacheEvtLock, which the UI thread does not take.  Between the copy of the cache
\* and its clearing, or once mEnteringUdisk is reset, the event comes too late.
CacheEvent ==
  /\ net # None
  /\ cacheVec' = Append(cacheVec, net)
  /\ net' = None
  /\ lost' = IF entering /\ ui # "flushed" THEN lost ELSE lost \cup {net.vol}
  /\ UNCHANGED <<kernel, manager, entering, added, ui, power, tries, todo, clean, budget>>

-----------------------------------------------------------------------------
(***************************************************************************)
(* The worker                                                              *)
(***************************************************************************)
Fault == faults < MaxFaults /\ faults' = faults + 1
Works == UNCHANGED faults

Idle == [pc |-> "idle", evt |-> None]

\* /dev/<name> is there, whichever slot it is in; isValidFs wants a file system on it too.
Exists(dev) ==
  \E v \in Volume : slot[v] # None /\ slot[v].name = dev[1] /\ dev[2] \in DOMAIN slot[v].devs
ValidFs(dev) ==
  \E v \in Volume : slot[v] # None /\ slot[v].name = dev[1] /\ dev[2] \in DOMAIN slot[v].devs
                    /\ slot[v].devs[dev[2]]

\* NETLINK_ACTION_ADD up to the mount; a volume that is still mounted is unmounted first.
TakeAdd ==
  /\ work.pc = "idle" /\ eventVec # << >> /\ Head(eventVec).act = "add"
  /\ eventVec' = Tail(eventVec)
  /\ LET e == Head(eventVec)
         v == e.vol
         remount == vol[v].state = "mounted"
     IN \/ /\ ~ValidFs(e.dev)
           /\ vol' = [vol EXCEPT ![v].dev = None]
           /\ lost' = IF remount THEN lost \cup {v} ELSE lost
           /\ UNCHANGED work
        \/ /\ ValidFs(e.dev)
           /\ vol' = [vol EXCEPT ![v].dev = e.dev,
                                 ![v].state = IF remount THEN "unmounting" ELSE @]
           /\ work' = [pc |-> IF remount THEN "unmount" ELSE "mount", evt |-> e]
           /\ UNCHANGED lost
  /\ UNCHANGED <<kernel, net, running, current, mode, clean, budget>>

\* NETLINK_ACTION_REMOVE and the checks of unmountVolume.
TakeRemove ==
  /\ work.pc = "idle" /\ eventVec # << >> /\ Head(eventVec).act = "remove"
  /\ eventVec' = Tail(eventVec)
  /\ LET e == Head(eventVec)
         v == e.vol
     IN IF (e.src = "kernel" => vol[v].dev = e.dev) /\ vol[v].state = "mounted"
        THEN /\ vol' = [vol EXCEPT ![v].state = "unmounting"]
             /\ work' = [pc |-> "unmount", evt |-> e]
        ELSE UNCHANGED <<vol, work>>
  /\ UNCHANGED <<kernel, net, running, current, mode, history, budget>>

\* setSavepathChanged, of the volumes as they are after the event.  The code breaks ties
\* by the order of the slots; here either may be taken.
MountedLocals(vs) == {w \in Local : vs[w].state = "mounted"}

Best(S, vs) == {w \in S : \A u \in S : vs[u].prio <= vs[w].prio}

\* Only a volume with a higher priority takes the place of the current one.
SaveOnAdd(v, vs) ==
  LET Higher == {w \in MountedLocals(vs) : vs[w].prio > vs[current].prio}
  IN IF current = None THEN {v}
     ELSE IF Higher = {} THEN {current}
     ELSE Best(Higher, vs)

\* A mutant of SaveOnRemove: > for >=, so volumes of the lowest priority are passed over.
SaveOnRemoveHigher(v, vs) ==
  LET Other == {w \in MountedLocals(vs) \ {v} : vs[w].prio > vs[v].prio}
  IN IF v # current THEN {current}
     ELSE IF Other = {} THEN {None}
     ELSE Best(Other, vs)

\* The current volume has gone, with the lowest priority now: any other may follow it.
SaveOnRemove(v, vs) ==
  LET Other == MountedLocals(vs) \ {v}
  IN IF v # current THEN {current}
     ELSE IF Other = {} THEN {None}
     ELSE Best(Other, vs)

\* A mutant of MountVolume: a module's card takes part in the choice of the save path.
MountVolumeAnyIsLocal ==
  /\ work.pc = "mount" /\ Exists(vol[work.evt.vol].dev) /\ Works
  /\ LET v == work.evt.vol IN
       /\ fs' = [fs EXCEPT ![v] = <<vol[v].dev>> \o @]
       /\ vol' = [vol EXCEPT ![v].state = "mounted", ![v].prio = work.evt.prio]
       /\ added' = IF v \in Module THEN added + 1 ELSE added
       /\ current' \in SaveOnAdd(v, vol')
  /\ work' = Idle
  /\ UNCHANGED <<slot, sock, net, running, eventVec, cacheVec, entering, ui, power, tries, todo,
                 history, plugs, enters>>

\* mountVolume and what follows it; checkMountPath does not keep a mount from being
\* put on top of another.
MountVolume ==
  /\ work.pc = "mount" /\ Exists(vol[work.evt.vol].dev) /\ Works
  /\ LET v == work.evt.vol IN
       /\ fs' = [fs EXCEPT ![v] = <<vol[v].dev>> \o @]
       /\ vol' = [vol EXCEPT ![v].state = "mounted",
                             ![v].prio = IF v \in Local THEN work.evt.prio ELSE @]
       /\ added' = IF v \in Module THEN added + 1 ELSE added
       /\ current' \in IF v \in Local THEN SaveOnAdd(v, vol') ELSE {current}
  /\ work' = Idle
  /\ UNCHANGED <<slot, sock, net, running, eventVec, cacheVec, entering, ui, power, tries, todo,
                 history, plugs, enters>>

\* The device has gone, or mount fails; the save path stays as it is.
MountFails ==
  /\ work.pc = "mount"
  /\ LET v == work.evt.vol IN
       /\ IF Exists(vol[v].dev) THEN Fault ELSE Works
       /\ vol' = [vol EXCEPT ![v].state = "nomedia"]
       /\ lost' = IF Exists(vol[v].dev) THEN lost \cup {v} ELSE lost
  /\ work' = Idle
  /\ UNCHANGED <<kernel, net, running, current, eventVec, mode, clean, plugs, enters>>

\* umount: EINVAL and ENOENT, of a path where nothing is mounted, are success too.
Unmounted(stack) == IF stack = << >> THEN stack ELSE Tail(stack)

\* The rest of unmountVolume, for an ADD: the mount follows in any case ...
UnmountFirst ==
  /\ work.pc = "unmount" /\ work.evt.act = "add"
  /\ LET v == work.evt.vol IN
       /\ \/ Works /\ fs' = [fs EXCEPT ![v] = Unmounted(@)] /\ UNCHANGED lost
          \/ Fault /\ lost' = lost \cup {v} /\ UNCHANGED fs
       /\ vol' = [vol EXCEPT ![v].state = "init"]
  /\ work' = [work EXCEPT !.pc = "mount"]
  /\ UNCHANGED <<slot, sock, net, running, current, eventVec, mode, clean, plugs, enters>>

\* ... and for a REMOVE: setVolCurPrio and setSavepathChanged, which takes the priority
\* from the current volume.
UnmountVolume ==
  /\ work.pc = "unmount" /\ work.evt.act = "remove" /\ Works
  /\ LET v == work.evt.vol IN
       /\ fs' = [fs EXCEPT ![v] = Unmounted(@)]
       /\ vol' = [vol EXCEPT ![v].state = "init",
                             ![v].prio = IF v = current THEN 0
                                         ELSE IF v \in Local THEN work.evt.prio ELSE @]
       /\ current' \in SaveOnRemove(v, vol')
  /\ work' = Idle
  /\ UNCHANGED <<slot, sock, net, running, eventVec, mode, history, plugs, enters>>

UnmountFails ==
  /\ work.pc = "unmount" /\ work.evt.act = "remove" /\ Fault
  /\ vol' = [vol EXCEPT ![work.evt.vol].state = "mounted"]
  /\ lost' = lost \cup {work.evt.vol}
  /\ work' = Idle
  /\ UNCHANGED <<kernel, net, running, current, eventVec, mode, clean, plugs, enters>>

-----------------------------------------------------------------------------
(***************************************************************************)
(* The UI thread: start, enterUdiskMode and exitUdiskMode                  *)
(***************************************************************************)
\* The events of volume v somewhere between the kernel and the end of the worker.
OnTheWay(v) ==
  \/ \E i \in DOMAIN sock : sock[i].vol = v
  \/ net # None /\ net.vol = v
  \/ \E i \in DOMAIN eventVec : eventVec[i].vol = v
  \/ work # Idle /\ work.evt.vol = v

Pending(v) == OnTheWay(v) \/ \E i \in DOMAIN cacheVec : cacheVec[i].vol = v

Cached == {cacheVec[i].vol : i \in DOMAIN cacheVec}

\* NetlinkManager::start, then coldboot has the kernel add every disk again; the modules
\* are not powered yet.
Listen ==
  /\ ui = "start"
  /\ ui' = "coldboot"
  /\ todo' = {v \in Local : slot[v] # None}
  /\ UNCHANGED <<kernel, net, manager, cacheVec, entering, added, power, tries, history, budget>>

Coldboot(v) ==
  /\ ui = "coldboot" /\ v \in todo
  /\ todo' = todo \ {v}
  /\ sock' = IF slot[v] = None THEN sock ELSE sock \o AddEvents(v, slot[v])
  /\ UNCHANGED <<slot, fs, net, manager, cacheVec, entering, added, ui, power, tries, history,
                 budget>>

StartWorkThread ==
  /\ ui = "coldboot" /\ todo = {}
  /\ running' = TRUE
  /\ ui' = "normal"
  /\ UNCHANGED <<kernel, net, vol, current, eventVec, work, cacheVec, entering, added, power,
                 tries, todo, history, budget>>

\* The first steps of enterUdiskMode, up to the modules' power.  checkAllUdiskIdle works
\* beside the worker and without its lock.
Enter ==
  LET Mounted == {m \in Module : vol[m].state = "mounted"} IN
    /\ ui = "normal" /\ enters < MaxEnters
    /\ enters' = enters + 1
    /\ entering' = TRUE
    /\ added' = 0
    /\ clean' = \A m \in Module : ~Pending(m)
    /\ \/ Works /\ fs' = [v \in Volume |-> IF v \in Mounted THEN Unmounted(fs[v]) ELSE fs[v]]
       \/ Mounted # {} /\ Fault /\ UNCHANGED fs
    /\ vol' = [v \in Volume |-> IF v \in Mounted THEN [vol[v] EXCEPT !.state = "idle"] ELSE vol[v]]
    /\ power' = {}
    /\ ui' = "clear"
    /\ UNCHANGED <<slot, sock, net, running, current, eventVec, work, cacheVec, tries, todo,
                   lost, plugs>>

\* The wait for the modules to go is short; then mCacheVec.clear(), and power on.
ClearAndPowerOn ==
  /\ ui = "clear"
  /\ cacheVec' = << >>
  /\ lost' = lost \cup Cached
  /\ clean' = (clean /\ \A m \in Module : slot[m] = None /\ ~OnTheWay(m))
  /\ power' = Module
  /\ ui' = "check"
  /\ UNCHANGED <<kernel, net, manager, entering, added, tries, todo, budget>>

AllUp == \A m \in Module : slot[m] # None

\* A mutant of GiveUp: the events are held back for ever.
GiveUpEntering ==
  /\ ui = "check" /\ ~AllUp
  /\ IF tries + 1 < MaxTries
     THEN ui' = "clear" /\ power' = {} /\ tries' = tries + 1 /\ UNCHANGED <<lost, clean>>
     ELSE /\ ui' = "inside" /\ tries' = 0
          /\ lost' = lost \cup Cached /\ clean' = TRUE
          /\ UNCHANGED power
  /\ UNCHANGED <<kernel, net, manager, cacheVec, entering, added, todo, budget>>

\* Not all modules came up: off and again, or give up with the cache as it is.
GiveUp ==
  /\ ui = "check" /\ ~AllUp
  /\ IF tries + 1 < MaxTries
     THEN ui' = "clear" /\ power' = {} /\ tries' = tries + 1 /\ UNCHANGED <<entering, history>>
     ELSE /\ ui' = "inside" /\ tries' = 0 /\ entering' = FALSE
          /\ lost' = lost \cup Cached /\ clean' = TRUE
          /\ UNCHANGED power
  /\ UNCHANGED <<kernel, net, manager, cacheVec, added, todo, budget>>

\* flushAllUdiskEvent2Worker, once all modules are up or all removals are there: the
\* copy ...
Flush ==
  /\ \/ ui = "check" /\ AllUp /\ ui' = "flushed"
     \/ ui = "exit" /\ todo = {} /\ ui' = "exiting"
  /\ eventVec' = eventVec \o cacheVec
  /\ tries' = 0
  /\ UNCHANGED <<kernel, net, running, vol, current, work, cacheVec, entering, added, power,
                 todo, history, budget>>

\* ... and the clearing.
FlushClears ==
  /\ ui \in {"flushed", "exiting"}
  /\ cacheVec' = << >>
  /\ ui' = IF ui = "flushed" THEN "wait" ELSE "leave"
  /\ UNCHANGED <<kernel, net, manager, entering, added, power, tries, todo, history, budget>>

\* checkEnterUdiskResult
Entered == added >= Cardinality(Module)

\* waitUdiskEvtDealComplete ends when the worker's list is empty or the time is over;
\* what the cache has got since then stays there.
EndEnter ==
  /\ ui = "wait"
  /\ entering' = FALSE
  /\ lost' = lost \cup Cached /\ clean' = TRUE
  /\ ui' = "inside"
  /\ UNCHANGED <<kernel, net, manager, cacheVec, added, power, tries, todo, budget>>

\* exitUdiskMode: the modules' removals go through the cache, behind what was left there.
Exit ==
  /\ ui = "inside"
  /\ ui' = "exit"
  /\ todo' = Module
  /\ UNCHANGED <<kernel, net, manager, cacheVec, entering, added, power, tries, history, budget>>

CacheRemoval(m) ==
  /\ ui = "exit" /\ m \in todo
  /\ todo' = todo \ {m}
  /\ cacheVec' = Append(cacheVec, [act |-> "remove", src |-> "app", vol |-> m,
                                   dev |-> vol[m].dev, prio |-> 0])
  /\ UNCHANGED <<kernel, net, manager, entering, added, ui, power, tries, history, budget>>

\* All removals are handled or 13 s are over, and the modules are told to leave.
EndExit ==
  /\ ui = "leave"
  /\ power' = {}
  /\ ui' = "normal"
  /\ UNCHANGED <<kernel, net, manager, cacheVec, entering, added, tries, todo, history, budget>>

-----------------------------------------------------------------------------
Init ==
  /\ \E name \in First, disk \in [Local -> UNION {Disks[v] : v \in Local}] :
       /\ \A v \in Local : disk[v] \in Disks[v]
       /\ slot = [v \in Volume |->
            IF v \in Local /\ name[v] # 0
            THEN [name |-> name[v], devs |-> disk[v].devs, prio |-> disk[v].prio]
            ELSE None]
  /\ fs = [v \in Volume |-> << >>]
  /\ sock = << >> /\ net = None
  /\ running = FALSE
  /\ vol = [v \in Volume |-> [state |-> "init", dev |-> None, prio |-> 0]]
  /\ current = None
  /\ eventVec = << >> /\ work = Idle
  /\ cacheVec = << >> /\ entering = FALSE
  /\ added = 0
  /\ ui = "start" /\ power = {} /\ tries = 0 /\ todo = {}
  /\ lost = {} /\ clean = TRUE
  /\ plugs = 0 /\ faults = 0 /\ enters = 0

Kernels  == (\E v \in Local : ChangeDisk(v)) \/ (\E m \in Module : SwitchModule(m) \/ DropModule(m))
Listener == ReadEvent \/ CacheEvent
Worker   == running /\ (\/ TakeAdd \/ TakeRemove \/ MountVolume \/ MountFails
                        \/ UnmountFirst \/ UnmountVolume \/ UnmountFails)
Start    == Listen \/ (\E v \in Local : Coldboot(v)) \/ StartWorkThread
SwitchOn == ClearAndPowerOn \/ GiveUp \/ Flush \/ FlushClears \/ EndEnter
SwitchOff == (\E m \in Module : CacheRemoval(m)) \/ EndExit

Next == Kernels \/ Listener \/ Worker \/ Start \/ Enter \/ SwitchOn \/ Exit \/ SwitchOff

Spec == /\ Init /\ [][Next]_vars
        /\ WF_vars(Listener) /\ WF_vars(Worker) /\ WF_vars(Start \/ SwitchOn \/ SwitchOff)

-----------------------------------------------------------------------------
(***************************************************************************)
(* Properties                                                              *)
(***************************************************************************)
\* The variables keep their types.
TypeOK ==
  /\ slot \in [Volume -> [name : Name, devs : Seq(BOOLEAN), prio : Nat] \cup {None}]
  /\ fs \in [Volume -> Seq(Dev \cup {None})]
  /\ sock \in Seq(Event) /\ eventVec \in Seq(Event) /\ cacheVec \in Seq(Event)
  /\ net = None \/ net \in Event
  /\ vol \in [Volume -> [state : State, dev : Dev \cup {None}, prio : Nat]]
  /\ current \in Local \cup {None}
  /\ work = Idle \/ work \in [pc : {"mount", "unmount"}, evt : Event]
  /\ {running, entering, clean} \subseteq BOOLEAN
  /\ {added, tries, plugs, faults, enters} \subseteq Nat
  /\ ui \in UI /\ power \subseteq Module /\ todo \subseteq Volume /\ lost \subseteq Volume

\* Between two events of the worker no mounted local volume is above the save path, and
\* there is no save path only when no local volume is mounted, whatever order the volumes
\* came and went in (setSavepathChanged).  The volume of the save path is mounted, or it
\* is one that did not mount again after it was unmounted by force (MountFails): nothing
\* moves the save path away from that, see the next property.
SavePathIsBest ==
  work = Idle =>
    IF current = None THEN MountedLocals(vol) = {}
    ELSE /\ vol[current].state \in {"mounted", "nomedia"}
         /\ \A w \in MountedLocals(vol) : vol[w].prio <= vol[current].prio

\* What update_check (main.cpp:631) reads from a save path other than "none": the device
\* is there and mounted, once no event of it is on its way.  It is not so when a volume
\* that is mounted gets another device, for which it is unmounted and which then does not
\* mount: the state is nomedia, the save path stays, and the removals that follow find
\* nothing to unmount (volWorkerEntry, unmountVolume).
SavePathIsMounted ==
  current # None /\ ~Pending(current) => vol[current].state = "mounted"

Readable(v) == slot[v] # None /\ \E i \in DOMAIN slot[v].devs : slot[v].devs[i]

\* A local volume with no event on its way is mounted if its disk is there and readable,
\* with a device of that disk, and is not mounted otherwise: what is held back in the
\* cache, and what comes beside, is handled in its order.  This is not said of a volume
\* once it is in lost: an event of it was dropped, by one of the races between the
\* listener and the UI thread, or a call for it failed, and nothing in the code makes up
\* for that later (handleBlockEvent, flushAllUdiskEvent2Worker, volWorkerEntry).
Settled ==
  \A v \in Local \ lost :
    running /\ ~Pending(v) =>
      IF Readable(v)
      THEN /\ vol[v].state = "mounted" /\ Head(fs[v]) = vol[v].dev
           /\ vol[v].dev[1] = slot[v].name /\ slot[v].devs[vol[v].dev[2]]
      ELSE vol[v].state # "mounted" /\ fs[v] = << >>

\* A condition under which the next property holds, see VolumeManagerProof: no card of a
\* module has two partitions that can be mounted.
OneReadable == \A c \in Card : \A i, j \in DOMAIN c : c[i] /\ c[j] => i = j

\* When entering the U-disk mode succeeds every module's card is mounted, unless a
\* module dropped off or events from before the switch were still on their way: what the
\* comment of checkEnterUdiskResult says.  The code compares two numbers, of mounts and of
\* modules, and a card with two partitions is mounted twice.
EnteredIsMounted ==
  [][ui = "wait" /\ ui' = "inside" /\ Entered /\ clean =>
       \A m \in Module : vol[m].state = "mounted" /\ fs[m] # << >>]_vars

\* A readable disk that stays is mounted in the end, however the switches of the mode
\* turn out (the worker and the listener never stop; an entry that fails resumes them).
DisksServed ==
  \A v \in Local :
    <>[]Readable(v) => <>[](v \in lost \/ vol[v].state = "mounted")
=============================================================================
