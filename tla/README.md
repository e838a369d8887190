# The Pro2/Titan camera software in TLA+

This directory holds a formal model of the software that runs on the Insta360
Pro2/Titan camera (`src/`): TLA+ modules, the TLC configurations that check
them on small instances, and theorems that TLAPS proves for every instance.
`PROJECT.json` is the index: components, runs, the source lines of every
definition, hazards, findings, mutants and theorems.

    tlc -workers 2 -config MCMonitor.cfg MCMonitor      one run
    tlapm MonitorProof.tla                              the proofs

## 1. The system

The camera is a dozen processes on one embedded Linux board.

```
             fork, kill, waitpid                 /proc, netlink, input
  monitor ------------------------+                      |
  (src/init)   <-- property socket|                      v
     ^                            |   fifos        system_server (ui_service)
     |setprop, ctl.start/stop     +--> logd        screen, keys, storage, network
     |                            +--> bootan            |  ^
     |                            +--> update_check      v  | fifos
     |                            +--> update_app   web_server  <---HTTP--- app
     |                            +--> camerad <--fifos--^
     |                            +--> ...            (requests, answers, notifications)
```

### 1.1 monitor (`src/init`) - modelled in `Monitor`

*State.* The flags, the pid and the start time of every service
(`struct service`); the property area; the queue of pending actions, an
intrusive doubly linked list; the current action and command; the SIGCHLD pipe
and the property socket.

*Operations.* `service_start`, `service_stop`, `service_reset`, the class
commands, `ctl.start|stop|restart` messages, `setprop`, property triggers,
`wait_for_one_process` with the `onrestart` commands, `restart_processes`.

*What is hard.* One thread serves everything, and every call is a chain of
small changes around which processes die, children call `setpgid`, clients
send messages and five-second delays run out. A service can be stopped,
started, dead and due for a restart, in any order.

*What makes it correct.* Its record of processes is true; no exit is missed;
the status it publishes is the one it acts on; what died comes back unless it
was stopped, and what is stopped does not come back by its death; the queue stays a
list.

### 1.2 The start-up chain (`misc/init.rc`, `bootan`, `update_check`) - modelled in `InitRc`

`early-boot` starts logd; `sys.logd.startup` starts bootan; `sys.bootan` starts
update_check; that sets `sys.uc_update_app` (an update was found) or
`sys.uc_start_app`, upon which camerad starts; `init.svc.camerad=running` starts
web_server. Each link is a property set by another process at a moment of its
choice, before or after `queue_property_triggers` has enabled the triggers, and
set again when the process comes back after a crash. Correct means: every boot
ends in the update or in a camera with a web server, never in both.

### 1.3 web_server (`src/web_server`) - modelled in `CameraControl` and `Connection`

*State.* The state word of the camera (`poll_info[CAM_STATE]`, a bit mask),
two flags that tell who took a picture or went live, the semaphores
`sem_camera` and `syncWriteReadSem`, the write sequence number, the list of
asynchronous ids, three fifos to camerad.

*Operations.* Requests of the app (a Flask thread each), requests of the UI (one
thread, which starts more), the poll timer, notifications of camerad. A handler
checks the state word, claims a bit of it, sends a request, waits up to
`FIFO_TO` for the answer, and a callback changes the state word again.

*What is hard.* The state word is read, changed and written back without a lock
of its own; `sem_camera` is taken by the app and the notifications but not by
the UI or the timer; answers may be late or missing; notifications race with
answers; errors leave from the middle of a critical section.

*What makes it correct.* When everything has come to rest the state word says
what camerad is doing; each call gets the answer to its own request; no result of
an asynchronous command is dropped; every call returns.

*The connection.* One client at a time is connected. It shows a fingerprint with
every request and sends heartbeats; when it falls silent for `POLL_TO` seconds a
`RepeatedTimer` disconnects it. Flag, fingerprint and timer are written one after
the other by the threads of several requests and by those of timers that have run
out; `connect_sem` keeps only connects apart. Correct means: who is connected is
watched by a timer, who falls silent is disconnected, every request returns.

### 1.4 system_server (`src/system_server`) - VolumeManager modelled in `VolumeManager`

*VolumeManager, state.* For each slot its state, device and priority; the current
save path; the queue `mEventVec`, the cache `mCacheVec` and the flag
`mEnteringUdisk`; the count of mounted modules.
*Operations.* The netlink listener queues or caches the uevents of disks; a worker
mounts and unmounts, one event at a time, and chooses the save path; the UI thread
enters and leaves U-disk mode, in which six modules appear as disks of their own:
it holds the events back, powers the modules on, up to four times, and then hands
the cache to the worker.
*What is hard.* Disks come and go at any time, in the middle of every call; calls
fail; the cache is copied, cleared and given up without the lock of the listener.
*What makes it correct.* What is in a slot is mounted and what is not is not; the
save path is the best mounted disk; a successful entry means mounted modules; a
failed one leaves the camera as it was.

*The rest.* InputManager (key loop and long-press thread), TranManager and fifo
(framing), MenuUI and ProtoManager (menus and the requests they send), NetManager,
CfgManager, AudioManager, HardwareService, PowerManager, OLED, battery and
CacheService are not modelled; `PROJECT.json` gives the reason for each.

### 1.5 update_check, update_app - modelled in `Update`

*State.* The files (sections, `.sys_ver`, the copy of the image, update_app, the
unpacked tree), as programs see them and as they are on the disk; the properties
`sys.firm_ver` and `sys.img_ver`; the count of attempts.
*Operations.* At boot update_check looks for an image on the medium, copies it,
compares its version with that of the device, unpacks update_app and the tree, in
up to three attempts, and starts update_app, which installs one section after
another, removes what was unpacked, writes the version file and reboots.
*What is hard.* A power cut may fall between any two steps, and between a write
and its way to the disk; copies fail; media change; what one boot leaves behind
the next one finds.
*What makes it correct.* A version is named only when it is installed; it does not
go back; the updater and its tree come from one image; a device left alone comes
to rest in its applications. The first two hold only in part, see 2.5.

### 1.6 Not modelled

camerad is not in the repository: `CameraControl` has it as an external process,
from what the handlers expect of it. `webServer/` is a rewrite of web_server that
no service starts. The OSC proxies translate requests one at a time. `logd`,
`logcat`, `extlib`, `http`, `http_file`, `include` are taken over from Android or
from other projects; of these only `cutils/list.h` is modelled. `tools`,
`update_tool`, `factory_test`, `test`, `vm_clean` run by hand or straight
through. Of system_server, InputManager is left out because whether a press is
reported once or twice depends on milliseconds between two clocks, and the menus,
the display and the drivers because they are presentation and I/O. `PROJECT.json` lists every one with its reason.

## 2. The modules

| module | what it is | lines of code it stands for |
|---|---|---|
| `ActionQueue` | `cutils/list.h` as the queue of actions: pointers, assignment by assignment, and `Represents`, the sequence a list stands for | `list.h`, `init_parser.c` |
| `Monitor` | the monitor, its children, its clients and the clock | `init.c`, `signal_handler.c`, `property_service.c`, `init_parser.c`, `builtins.c` |
| `ServiceLifecycle` | abstract specification: what the monitor promises about a service | the contract of `init.svc.*` |
| `InitRc` | `Monitor` with the rc file of the camera and what its processes send | `misc/init.rc`, `bootan.cpp`, `update_check/main.cpp`, ... |
| `CameraControl` | the control centre, camerad (external) and the fifos | `control_center.py`, `state_machine.py`, `ins_osc_state.py`, ... |
| `Connection` | connect, disconnect, heartbeat and the poll timer of web_server | `control_center.py`, `timer_util.py` |
| `VolumeManager` | listener, worker and U-disk mode of system_server; the kernel's disks (external) | `VolumeManager.cpp`, `NetlinkEvent.cpp`, `util.cpp` |
| `Update` | update_check and update_app over power cuts; the file system (external) | `update_check/main.cpp`, `update_app.cpp` |
| `MCMonitor`, `MCCameraApp`, `MCCameraBoth`, `MCVolumeManager`, `MCPartitions`, `MCUpdate` | values of the constants for TLC | |
| `MonitorProof`, `MonitorLifecycle`, `InitRcProof`, `CameraControlProof`, `ConnectionProof`, `VolumeManagerProof`, `VolumeSettledProof`, `UpdateProof` | theorems | |

### 2.1 Monitor

`main()`'s loop has five statements: run one command, restart what is due, poll,
serve one property message, serve the SIGCHLD pipe. `stage` names the one that
comes next; `ExecuteOneCommand`, `RestartProcesses`, `Poll`,
`HandlePropertySetFd` and `HandleSignal` are the statements. A C call that
touches several services in a row is expanded into a list of steps, `todo`, that
`Step` works off one at a time: the monitor is single-threaded, but processes die
and messages arrive between two steps, and that is where it can be surprised.
`ServiceStart`, `ServiceStopOrReset`, `Reap`, `Respawn` and `SetProp` are the
functions of the same names, one disjunct per early return.

The processes are `proc`: *forked* (before `setpgid`, where `kill(-pid)` does not
reach them), *grouped*, *dying* (SIGKILL sent) and *zombie*. Pids are reused
once reaped.

A service is started again when five seconds have passed since its last *start*
(`init.c:308-313`), the time it lived included: one that lived longer comes back at once,
with messages and actions pending. `clock` tells of each service whether the loop has been
idle since its start (`Rest`) and whether the five seconds are over (`FiveSecondsPass`).
The clock is read only while a service waits for its restart, so they may be over in the
very moment its death is noticed, or later. With `LoopMayStall` nothing else is assumed;
without it, only that the loop was idle at some moment between the start and their end.

Left out: keychords, `check_startup`, `import`, the `trigger` keyword, commands
of the rc file that touch no service (`other`), side effects of `net.*` and
`persist.*` properties, the table of permissions (a message is `denied` or not), a
`poll()` cut short by a signal with nothing to do, children of a service (the
second `kill` of a dead service's group finds nobody).

What the model shows of the code besides its properties. With clients that stop and start
services, a service that is stopped and started before its process is reaped gets a second
process: `service_stop_or_reset` clears `SVC_RUNNING` at once (269), so `service_start`
never sees that the first one is still exiting, as its comment (144-148) says it does. A
fork that fails leaves a service down, and due for no restart. The option `critical`, for
which `init/readme.txt:62-64` promises a reboot into recovery at the fifth exit in four
minutes, does nothing: `SVC_CRITICAL` is never read and the two constants
(`signal_handler.c:20-21`) are unused.

### 2.2 CameraControl

Every thread has a program counter: `lock` (waits for `sem_camera`), `check`,
`call` (waits for `syncWriteReadSem`), `wait` (for the answer), `after` (callback,
then release), and a list of operations on the state word. An operation that the
code makes as `set(get() | bit)` is two steps, `ReadState` then `WriteState`, so
that any other thread can come between; a check is one reading. The UI's request
moves to a worker thread (`Spawn`), whose callback runs without `sem_camera`, as
in the code. The handlers and callbacks are constants (`Claim`, `RecDone`,
`LiveFinish`, ...), one per Python function. `id` tells requests apart; the code
has only `seq`, which `reset_fifo` sets back to 0.

camerad is modelled so: it takes requests in order, answers each with
success or failure, tells of an end by a notification, and may give up what it
does (`Break`). It keeps its ends of the fifos open when web_server closes
and reopens its own, so late answers stay. A refused `stop_preview` has ended the
preview. Opening a fifo never blocks, although in the code (3815-3824) it lasts until
camerad opens its side. An answer always has the fields the callbacks look up: without
`results` (1233) a callback would end in `reset_all`, like a timeout.

Left out: TEST states, storage, options, calibration; `RESET_NOTIFY`; the bits of
the state word of these. Several readings of the state word in one `if` are one.

### 2.3 Connection

A request and a timer that has run out are threads with a program counter, one step
for every assignment or call to the timer: between any two another thread may come.
`StartTimer` and `StopTimer` are the two methods of `RepeatedTimer`, `Run` the first
line of `_run`, which clears `is_running` of whichever timer is armed by now; `Expire`
is the `threading.Timer`, of which `armed` are those that wait. `random_data` is the
client whose fingerprint is valid, `finger_print` the clients that have one.

The code has races that break what it is for, and the model has them too:

1. the disconnect of a timer is between `set_connect(False)` (988) and the stop of
   the timer (989) when a client connects: it is connected, has no timer and no
   valid fingerprint, and nobody can connect or disconnect any more;
2. two clients pass `get_connect` before either is connected, and if the second
   connect fails it has stopped the timer of the first;
3. a heartbeat that is past its checks arms the timer after a disconnect, or in the
   middle of a connect, which the comment at 909 excludes;
4. `_run` clears `is_running` of a timer that was armed since, so the next start
   arms another one beside it;
5. the last step of a disconnect (990) wipes the fingerprint of a client that has
   just connected, which then cannot send anything until its timer runs out.

`crossed` remembers 1 and a connect that fails while a client is connected (2). The
properties say that in all other cases the timer is there: 3, 4 and 5 cost time or
timers, not the watch. `modulePowerOff` may take `FIFO_TO` = 70 s, far more than
`POLL_TO` = 10 s, so any number of things may happen while a disconnect waits.

Left out: the answers; `sem_camera` and what a disconnect asks of camerad
(`CameraControl` has both); the fingerprint "test", which `check_fp` takes in every
connection (3443); a timer whose thread is refused (`timer_util.py:51-53` logs it, and
nobody watches the connection until the next start).

### 2.4 VolumeManager

The kernel gives a disk the lowest free name, where a name stays taken while its disk
is mounted, and announces the devices of a disk one by one. The listener (`ReadEvent`,
`CacheEvent`) looks at `mEnteringUdisk` and puts the event away in two steps. The
worker takes an event, checks it (`TakeAdd`, `TakeRemove`), then makes the system call
and what follows it (`MountVolume`, `MountFails`, `UnmountFirst`, `UnmountVolume`,
`UnmountFails`): a disk may go in between. The UI thread walks through
`enterUdiskMode` (`Enter`, `ClearAndPowerOn`, `GiveUp` or `Flush`, `FlushClears`,
`EndEnter`) and `exitUdiskMode`. `SaveOnAdd` and `SaveOnRemove` are the two branches
of `setSavepathChanged`.

Events are lost or come out of order in these places. `lost` collects the volumes they
are about, for good, since nothing in the code makes up for it; `Settled` and `DisksServed`
are not said of these volumes any more, and say that nothing else goes wrong:

* the listener runs, and coldboot has the kernel repeat its events (1122), before the
  worker is said to run (876): an event read before that is dropped;
* `mCacheVec.clear()` at 3309, once per attempt, drops what was cached of local disks
  too, and without the lock;
* an event cached between the copy of the cache (942) and its clearing (946) is lost;
* events cached after the flush, or left by an entry that failed (3339), stay there until
  the mode is left, behind events that are younger;
* the ADD of an unreadable second partition clears the device of a mounted volume
  (1306), whose REMOVE then does not match (2434);
* a mount or unmount that fails although its device is there.

The save path is not excused: `SavePathIsBest` says of every state between two events that
no mounted local volume is above it. But its own volume need not be mounted. One that is
mounted when another device of it comes is unmounted by force and mounted again; if that
fails, its state is `NOMEDIA`, and the save path stays on it, since only the removal of a
*mounted* volume moves it (run `save_path_lost`).

`clean` says that no event of a module from before the switch was on its way and none
dropped off: only then does `mHandledAddUdiskVolCnt`, a count of mounts (3084), say
anything about modules. And it does only when no card has two partitions that can be
mounted, for each of them is mounted and counted (run `udisk_count`).

Left out, although they write the same state: `updateRemoteTfsInfo` (2878-2904), by which
the thread that has asked camerad for the cards of the modules writes `iVolState` of their
volumes over; `unmountCurLocalVol` (817-832), by which update_check unmounts the save
path through `handleBlockEvent`; `formatVolume` (from a menu, without a lock); `unmountAll`
at power off. Left out as well: `stopWorkThread`, the removal of events that
`handleRemoteVolHotplug` brings from camerad, the sizes of volumes. An address no slot has is never sent
(`isSupportedDev` would answer with the last slot).

### 2.5 Update

`page` is what programs read, `disk` what a power cut leaves. A section, the image,
update_app and the tree are files whose content is the version it comes from, `None` or
`Torn`. Where a step copies, unpacks, installs or writes a file, or reads the version
file, it has a disjunct with `Fault`. The setting of a property (`sys.firm_ver`,
`sys.img_ver`, the triggers of init) is taken to work, and so is a `reboot`: after three
failed attempts update_check calls for one (`main.cpp:727`) and then falls through to
745-755, which starts the applications for the moments that are left; these are not
modelled. The file system writes dirty files back when it likes and in any order
(`WriteBack`), whole or in part; only a file renamed over another one is there as a
whole, the old or the new one (ext4 with auto_da_alloc). `gen_file` syncs, as
`update_ver2file` does, but after the rename.

Two properties hold only in the form they have here, and TLC shows why:

* `VersionIsInstalled` is about the sections as programs see them. The first `sync()` after
  the sections were copied comes after the version file was renamed (`update_app.cpp:1079-1087`),
  and nothing orders the rename after the sections on the disk. If power fails in between,
  the disk may name a version of which sections are old or torn; asked of `disk`, the
  property is violated after 13 steps.
* `NoDowngrade` is about a boot in which update_check could read the version file. If it
  cannot (`main.cpp:279-289`, or the file is empty), `sys.firm_ver` is not set, and
  `upateVerCheck` (250-259) lets any image through, an older one too; without
  `firmVer = None` the property is violated after 27 steps.

What the model shows of the code besides its properties: `iPro2UpdateOffset` is never
reset, so once an attempt has come past the key every further one of this boot fails
and the device reboots; a tool `upgrade` that is killed makes the update return -1,
for which `handleUpdateResult` has no case, and the device stays where it is; the
comment at `update_app.cpp:1114` says the files are kept for a new attempt when the
version could not be written, but they were removed at 1194; a whole image that
cannot be unpacked means a reboot every three attempts while it is in the slot;
an update that stops half-way leaves sections of two versions, and if its image is
then taken away the applications run on them.

Left out: the contents of `bill.list` and of the sections, the user script, the
removal of logs (`vm_clean`), the battery check, the display.

## 3. What is checked

| run | result | states | what it shows |
|---|---|---|---|
| `monitor` | pass | 1.2 M | The records of processes and flags are true, the status tells the truth between calls, no SIGCHLD is lost, and the monitor implements `ServiceLifecycle` |
| `init_rc` | pass | 179 k | The boot chain ends, in one of its two ends; oneshots run once; a camerad that dies comes back with its web server; no service has two processes; no action is queued twice |
| `cam_app` | pass | 2.5 M | With an app, a timer and notifications: the state word agrees with camerad at rest, no result is lost, answers match |
| `cam_both` | pass | 204 k | With UI and app and answers that do not come: every call returns, once the fifos are open |
| `conn` | pass | 174 k | Two clients and timers that run out: the connected client is watched, the silent one is disconnected, every request returns |
| `volumes` | pass | 1.2 M | Disks that come and go, failing calls, failing switches of the mode: no mounted disk is above the save path; disks that lost no event settle as they are there or not |
| `update` | pass | 602 k | Power cuts, faults, changes of the medium: the version file tells what is installed, versions go up where the old one could be read, the device ends in its applications |
| `init_rc_requeue` | violation | | an action is linked twice into the queue |
| `cam_stale` | violation | | a late answer is taken for another request's |
| `cam_twice` | violation | | two starts of the preview |
| `save_path_lost` | violation | | a save path on which nothing is mounted |
| `udisk_count` | violation | | U-disk mode with a module that is not mounted |

### 3.1 The violations

They are disagreements between the code and what is written about it; the
`findings` of `PROJECT.json` quote both.

* `init/readme.txt:28-31` says an action is queued *unless it is already on the
  queue*. `action_add_queue_tail` does not look. Two settings of one property
  before the loop gets to the action link its node twice.
* After a timeout `reset_all` starts the sequence numbers again at 0, so the check
  of the numbers cannot tell the answer of the request that timed out from
  the next one's.
* The comment of `cameraUiStartPreview` says its state keeps the UI from starting
  a preview while the app starts one; check and claim are two steps.
* `update_check/main.cpp:631` takes a save path other than "none" for a device that is
  there and mounted. A disk of two readable partitions is mounted by the first and pulled;
  the addition of the second comes to the worker, which unmounts the first and fails to
  mount the second, gone by now. The removals find nothing mounted and leave the save path.
* `VolumeManager.cpp:3075-3079` says `checkEnterUdiskResult` returns true when all modules
  were mounted. It compares the number of mounts with that of the modules: a card of two
  partitions makes up for a module without a mounted card.

### 3.2 Bounds, and why they are enough

`monitor`: three services: one that crashes and whose `onrestart` restarts another,
one that is stopped by clients and may be missing, one oneshot started by a
property. Between them they take every branch of `service_start` (but for the arguments
a `ctl.start` may carry, which no process of the rc file sends), of stop, of
reap and of restart. Three pids for three services means `fork` fails when a stopped process
is not yet reaped, and pids are reused at once. Pids are interchangeable, hence the
symmetry; the only temporal property of the run is the refinement, a safety
property without fairness. One message may wait; more would only be served
later.

`init_rc`: five pids, two waiting messages, camerad may die at any moment. The other
services of the chain do not crash in this run. With web_server dying as well the queue is
broken (`init_rc_requeue`), and so it is with logd dying: a restart of camerad leaves
`prop_camerad` in the queue and `prop_logd` behind it, a logd that has lived for long dies,
comes back at once, sets its property again and has `prop_logd` linked a second time (TLC
finds the list broken with `MayCrash = {logd}` already, and with `{logd, camerad}`). Once it
is broken nothing else can be said.
The loop is idle at some moment in the five seconds after a start (`LoopMayStall =
FALSE`), as in a monitor whose steps take milliseconds; a camerad that has lived longer
than that comes back at once, whatever is pending. Deadlock is not checked: after the
boot all is idle.

`cam_app`: one app thread, the timer, the notifications, four calls, two unread
notifications: a start, a stop, one more request and the timer's in between. One app
thread is no loss: all of them queue for `sem_camera` before they look at
anything. camerad may end a recording or a live by itself and lose its network
link. It does not end a preview by itself here, since `preview_finish_notify`
also clears RECORD, which may belong to a recorded live: a case in which TLC finds
the state word wrong and no document says which of the two is meant.

`cam_both`: three calls, one unread notification, one worker thread, any request
may go unanswered. It is the smallest instance in which a late answer, a reset and
a notification meet a waiting UI and a waiting app.

`conn`: two clients, so that one may connect while the other one's connection ends;
two timers, so that one may be running out while another is armed. More requests of
one client are one after the other. Nothing bounds the length of a behaviour.

`volumes`: a slow SD card that is there at the start, a fast disk, also one with a
second, unreadable partition, and one module: two local volumes are what a choice of
the save path needs, one module is what success needs, and counting more of them adds
no interleaving. Two plugs or pulls, one failing call, one switch of the mode, two
attempts to power the modules up (four in the code), two events in the queues when the
kernel sends another one: with them every action is taken and every way of losing an
event happens. Deadlock is not checked: when nobody plugs anything all threads wait.

`save_path_lost`, `udisk_count`: one local slot and two modules, and disks and cards of one
or of two readable partitions (`MCPartitions`): what the first run needs is a second device
on one slot, what the second one needs are two numbers that can be told apart. No call
fails in either.

`update`: two sections, one of which boots the device; two versions, of which the
older one has the greater minor number, and a device that has the older one or no version
file at first; two faults, one power cut, one change of the medium. Two faults are needed
for a retry that fails for another reason than the attempt before. Deadlock is not
checked: the applications run and nothing follows.

### 3.3 Fairness, and why the code justifies it

* `Monitor`: `WF(Main)`: the loop has no wait but `poll()`. `WF(Kernel(p))` for
  every process: a killed process dies, a child reaches `setpgid`, a
  process that has something to send does (a `setprop` is a blocking
  `connect`, and the backlog empties). `WF(Rest)`, `WF(FiveSecondsPass)`: time
  passes. No fairness on crashes and clients.
* `CameraControl`: `WF` of every thread, of camerad's serving and of its ending
  what it was told to end. A thread that waits for a semaphore is helped by no
  strong fairness: Python's semaphore does not promise order, but the calls are
  bounded by `MaxCalls`, after which the semaphore is free for good. What
  `EveryCallReturns` shows is the absence of deadlock and of a lost release, not
  a fair order.

* `Connection`: `WF` of every timer (a timer that is armed runs out, its thread runs)
  and `SF` of every client's thread: it is disabled only by another holder of
  `connect_sem` or by the bound on the number of timers, and a waiter of a semaphore
  is not overtaken for ever. Nobody has to send a request.
* `VolumeManager`: `WF` of the listener, of the worker and of the UI's walk through a
  switch. Nothing is assumed of the kernel, the modules or the user: a module may
  never come up, a mode may never be left.
* `Update`: `WF` of the two programs and of a reboot that was asked for. Power cuts,
  faults and changes of the medium are bounded, not fair; `Converges` speaks of a
  device when they are used up.

### 3.4 Every property has a mutant

For each property of a passing run `PROJECT.json` names a plausible bug (a guard
dropped, a release forgotten, a handler that keeps a bit) defined beside
the real definition; with it in place TLC finds the property violated. The
definitions are marked as mutants.

## 4. What is proved

Eight modules hold theorems; all are checked by `tlapm` to the last leaf. Unless a
hypothesis is named, a theorem holds for every value of the constants that satisfies the
named `ASSUME`s of its module. Each inductive invariant below was first checked by TLC on
the run it generalises.

**`MonitorProof`, the queue.** For any set of actions: if list `l` represents the sequence
`q` and `a` is not in `q`, `AddTail(l, a)` represents `Append(q, a)`
(`AddTailAppends`); if `q` is not empty, `RemoveHead(l)` represents `Tail(q)`
(`RemoveHeadTails`). The first one's hypothesis is the one the code does not
check.

**`MonitorProof`, the monitor.** For any services, rc file, triggers, processes, clients, pids
and backlog that satisfy the named assumptions of `Monitor` and `ActionQueue`:

* `TypeCorrect`: `Spec => []TypeOK`
* `PidsStayTracked`: `Spec => []PidsAreTracked`
* `FlagsStayAgreed`: `Spec => []FlagsAgree`
* `NoSigchldLost`: `Spec => []NoLostSigchld`

The assumptions say what the constants are (sequences of services, functions from
keys to actions, the four status words among the values) and that `NewPid`
returns free pids, which is the kernel's part.

*The argument.* The type invariant is not inductive, and the other three
presume it. `IInv` is the conjunction of the four with

* `Closed(list)`: wherever a walk from the head of the queue gets, the pointers
  are set. The queue may be corrupt (see `init_rc_requeue`), so
  `Represents` is not an invariant; this is what remains true even then, and what
  keeps `HeadOf` an action. It needs a closure condition on `next` and `prev`,
  since unlinking reads through both.
* `CommandInRange`: the command index stays within the current action.
* `PromiseKept`: when the loop has seen the socket readable, a message is there,
  so `Head(inbox)` is one.

`TypeOK` rests on these three. `PidsAreTracked` rests on the kernel's returning a free
pid at a fork, so that no other service has it, and at a reap on its own saying that
a process belongs to one service, so that no second owner keeps the pid that is
given back. `FlagsAgree` rests at a reap on its second half: a service that has a pid
is not waiting for its restart, so setting SVC_RESTARTING leaves nothing beside
it. `NoLostSigchld` rests on the shape of `todo`: a `reap` step stays in it until no
zombie is left, whatever the steps put in front of it. The proof has one lemma per action (`ServiceStartInv`,
`ReapInv`, ...), with the parts of the invariant under it, and lemmas on what
the helpers return (`ExpandType`, `SetPropEffect`, `AddTailClosed`, ...).

**`MonitorLifecycle`.** Two more results about `Monitor`, on top of `IInv`:

* `StatusStaysTrue`: `Spec => []StatusIsTrue`
* `LifecycleImplemented`: `Spec => ImplementsLifecycle`, that is, the initial states
  are initial states of `ServiceLifecycle` and every step of the monitor is one of its
  steps or leaves it as it is.

Both have two hypotheses. `OnRestartSparesItself`: no service is started or stopped by its
own `onrestart` list. The rc file meets it (`misc/init.rc:97` only restarts `ui_service`);
without it the status that is announced at the end of the list may be wrong.
`RoomForEveryKey`: the keys fit the property area (`PA_COUNT_MAX`, 247 of them), since
`property_set` of a new key fails when it is full, without the caller's noticing.

*The argument.* `StatusIsTrue` speaks of the states between two calls. Inside of one, a
service that has been reaped reads "running" still, until the step that announces its
restart has come. `StatusInv` says what holds all along: while such a step is left in
`todo` the service is flagged as restarting, and no step before that one touches the
service (`Orderly`); all others are announced truthfully (`Truthful`); and a process that
is still to be reaped belongs to a service that runs or has been stopped
(`ReapIsForeseen`), so that a reap never announces a restart for a service that was reset.
For the refinement the status of a service with a pending announcement is mapped to
the one it had; each concrete step then changes one service the way one action of
`ServiceLifecycle` does.

**`InitRcProof`.** About `Monitor` with the rc file of the camera (`RcAssumption`: the
constants are those translated from `misc/init.rc`, the names are distinct, and nobody
else talks to the monitor), for any set of pids and any backlog:

* `OneshotsNeverStartTwice`: `Spec => OneshotsStartOnce`
* `NeverUpdateAndCamera`: `Spec => []NoUpdateWhileCameraRuns`, assuming `RoomForEveryKey`
* `NeverTwoProcesses`: `Spec => []OneProcessPerService`, assuming `RoomForEveryKey`
* `QueueStaysIntact`: `Spec => []QueueIntact`, assuming `RoomForEveryKey`,
  `~LoopMayStall` and `Living \cap (MayCrash \cup Finishes) = {}`, where `Living` is logd
  and web_server

*The argument.* The first three are about what can *not* happen any more. `Confined(O, M, A, K)` says
that all steps left to do are in `O`, all messages in flight or still to be sent in
`M`, all actions that can be reached from the queue in `A`, and all properties that are
set in `K`; `Closure(O, M, A, K)` says of the rc file alone that these sets lead to nothing outside of
themselves. What is confined to closed sets stays so under every action (`StepConfined`,
`LoopConfined`), whatever dies or comes back. `OneshotInv` uses it with everything but the steps that start a oneshot service by
its name, so that only `class_start` can start one; and a oneshot that was ever
started or stopped runs or is disabled, which `class_start` respects. This needs no room
in the property area: a oneshot whose status was not recorded is still disabled.
`ChoiceInv` uses it for each *side* (the property update_check sets, the action on it, the
service this starts): until update_check has been started both sides are untouched, and
afterwards at least one is. That update_check is not started twice is
`OneshotInv`, told from its status property, hence the need for room.

`TrackInv` says that every process there is, dying or zombie included, is the one its
service has the pid of. That is false of the monitor in general (a stop and a start in a
row, 2.1). With this rc file it is true because only bootan is ever stopped, and
bootan is a oneshot that is not started again: `Confined` excludes any other stop, start
or restart, `Lasting`, the services that are never stopped, have a pid exactly as long as
they run, and a oneshot without a status has none, so that `service_start` never
overwrites a pid.

`QueueInv` counts. `QueueIntact` holds as long as no action is queued while it is linked,
which the code never checks (`AddTailAppends` has it as a hypothesis), so it is a fact
about this rc file. `Load(q, a)` adds up all that stands for action `a` being queued or
about to be: a step in `todo` that queues it (`Leading`), a message in the inbox whose
property triggers it (`Bringing`), a process that has yet to send such a message (`Said`),
the wait for `queue_all_property_triggers` (`Held`), and its being linked in the sequence
`q` the list represents. `Loaded(q)` says that the load of no action is above one, and
what keeps it so: nothing of what a service leads to is under way (`Quiet`) when it is
about to be started. For a oneshot that is before its first start, and so it is for logd,
which lives on (`LivingStay`). What leads to the first start of logd or camerad is spent by it
(`OpenerSpent`). A camerad that died may be started again when its five seconds are over;
the loop has then been idle since its last start, with inbox, `todo` and queue empty
(`IdleQuiet`), and nothing but a start of camerad leads to `prop_camerad`, so that it has
stayed quiet since (`CameraQuiet`, `RestedQuiet`), no matter what other actions are pending by now.
For web_server it is as long as it does not run. The lemmas follow one step: `NextAccounted` gives the sequence `r` the list
represents afterwards and bounds its loads by those of `q`, plus one for what a service
makes that is forked in this step; `LoadedNext` puts the parts together. At the end,
`WalkVisits` says that the walk in `QueueIntact` visits the represented sequence
(by the least position at which it would not, `LeastOf`), and `QueueNotLonger` that this is
not cut off.

*The hypotheses* are needed. A web_server that dies is started by its own restart and by
the one of camerad, each time setting its property: the run `init_rc_requeue` has `prop_web`
queued twice. A logd that dies sets its property again while `prop_logd` may still wait
behind another action (3.2). With `LoopMayStall` and camerad dying, TLC finds an action linked
twice as well: five seconds may then pass while the message of the process before is
still in the inbox. camerad may die at any time and at any age, the oneshots too, and pids
and backlog are arbitrary.

**`CameraControlProof`.** For any threads of the app and of the UI, timers, commands and
bounds:

* `CameraTypeCorrect`: `Spec => []TypeOK`
* `SemaphoresGuard`: `Spec => []SInv`: requests of the app and notifications are
  handled under `sem_camera`, answers are waited for under `syncWriteReadSem`, and nobody
  leaves a handler with one of them, even when answers time out.
* `AnswersAlwaysMatch`: `Spec => []AnswersMatch`, assuming `~MayTimeOut`
* `ResultsNeverLost`: `Spec => []ResultsNotLost`, assuming `~MayTimeOut`
* `StateAlwaysAgrees`: `Spec => []StateAgrees`, assuming `AppAlone`

*The hypotheses.* `~MayTimeOut` says that camerad answers within `FIFO_TO`. Without it both
properties are false: the answer that comes late is taken by the next request (the run
`cam_stale` and its finding). `AppAlone` is the configuration of `cam_app`: besides, no
request of the UI, no request of the whole state, and no preview that
breaks off by itself. The UI changes the state word without `sem_camera`, a synchronisation
overwrites it, bits in flight included, and the end of a preview clears the bit of a
recording; each of these makes the word wrong at rest, and each is a hazard in
`PROJECT.json` that names the line.

*The argument, in three layers.* `SInv`: who is where in a handler and which semaphore
that thread has. `AInv` adds `OneRequest`: the fifos hold the request of the
thread that waits, or its answer, and nothing else. `RInv` adds that the end of an asynchronous
command that is in the list, or about to enter it, has yet to be told, is told, or is being
looked up; it holds because the id is entered under the `sem_camera` the notification waits
for. `CInv` does the same for the state word: one thread at most changes it, the one that has
`sem_camera`, and `Final(ops, camState)`, the word it will leave behind, agrees with what
camerad does and has not told yet (`Agrees(S, Acts, Telling)`). While the answer is
awaited the word is that of the check with the bit claimed, and whatever notices camerad
sends meanwhile keep the agreement. TLC checked `CInv` on two apps and the timer with three
calls and three notices (4,069,834 states).

**`ConnectionProof`.** For any clients and timers:

* `ConnectionTypeCorrect`: `Spec => []TypeOK`, which has the mutual exclusion of
  connects in it: `connect_sem` is held by the one client between `Lock` and `Release`.
* `ConnectedAlwaysWatched`: `Spec => []ConnectedIsWatched`.

*The argument.* `ConnectedIsWatched` speaks of states at rest and says nothing of
the way there. `IInv` adds three facts. `Watched`: while a client is connected and
nothing has crossed, either a timer is armed, or some thread is at a place from which
it will arm one, fail or end the connection (`Pending`). `RunningIsTrue`: `is_running`
is set only while the timer of the last start waits or has just run out, so that a
start that does nothing leaves the client watched. `UnwatchedIsFree`: a thread that is
about to stop the timer at the end of a disconnect finds nobody connected, or a
crossing.

**`VolumeManagerProof`.** For any slots, disks, modules and bounds:

* `VolumeTypeCorrect`: `Spec => []TypeOK`
* `SavePathAlwaysBest`: `Spec => []SavePathIsBest`
* `EnteredAlwaysMounted`: `Spec => EnteredIsMounted`, assuming `OneReadable`

*The save path.* Between two events is not enough: an unmount may fail and put its volume
back as if nothing had been. `IInv` has `UnmountingInHand` (a local volume is unmounting
exactly while it is the one in the worker's hand), `CurrentIsHighest` (no local volume
that is mounted *or unmounting* is above the current one, and there is none when there is
no save path) and `CurrentIsMounted` (the current volume is mounted, in hand, or did not
mount again).

*The count.* `checkEnterUdiskResult` compares a count of mounts with the number of modules.
`OneReadable` says that no card of a module has two partitions that can be mounted. It is
what the property needs: each partition is mounted, and counted, by an event of its
own (the second mount unmounts the first), so with two modules and cards of two partitions
the count is reached with one module mounted (run `udisk_count`). `CountInv` says that from the switch on, unless a module has dropped off, the worker
has no event of a module until the cache is handed over (`NotYet`), and after the modules have been
powered on every event of a module, in whichever of the five places an event passes, is
an addition of a device of the card that is in it (`Underway`), a readable one at one
place only (`OnceOnly`), and at none once the module is mounted (`MountedOnce`). Three lemmas carry it
through the actions: events stay (`EventsStay`), the head of a place goes on to the next
(`HeadMoves`), a whole place is put behind another (`TailMoves`). TLC checked it on two
modules and an SD card (16.6 million states).

**`VolumeSettledProof`.** For any slots, disks, modules and bounds, and any disks at the start
that have names of their own (`First`; the kernel gives no name twice):

* `AlwaysSettled`: `Spec => []Settled`

*The argument.* `Settled` speaks of a volume none of whose events is on its way. What holds before
that is told by looking ahead in `Pipe`, the events in the order in which the worker
will get them: its queue, the cache (but for the moment between the copy and the clearing,
when the copy counts), the event in the listener's hand, the socket. `Served(v)` has three parts. What will be
added is a device of the disk in the slot, or its removal comes behind it
(`AddsFollowed`). What is mounted, or about to be, is a readable device of that disk, or its removal is still to
come (`MountFollowed`). And if the disk is readable, the volume is mounted and no removal
is on its way, or one of its readable devices will be added and no removal comes behind that (`Awaited`). With nothing
on its way these are `Settled`. `Stack(v)` says that one device at most is mounted at the
path, `Phases` that outside of a switch the cache has no events of a local volume that is not
in `lost`, so that an event may overtake it.
One lemma carries most steps: events of other volumes may be taken out of the sequence or put
in anywhere (`OthersSkipped`); the others are about its two ends, where the kernel
appends what it adds and removes (`AddsAppended`, `RemovesAppended`) and the worker takes the
first (`FirstTaken`). A mount that fails because its device has gone is the case that
needs most: the removal is behind it, so a readable disk in the slot is another
one, and is awaited. TLC checked `SettledInv` on the run (1.2 million states) and, for 12
million states, on disks of two readable partitions.

**`UpdateProof`.** For any images, sections, media and bounds:

* `UpdateTypeCorrect`: `Spec => []TypeOK`
* `UpdaterAlwaysMatches`: `Spec => []UpdaterMatches`
* `VersionAlwaysInstalled`: `Spec => VersionIsInstalled`
* `NeverDowngraded`: `Spec => NoDowngrade`

*The argument.* The last two are action properties. `IInv` says, stage by stage, what
is already true: the version compared is newer (`Chosen`), copy, updater and tree are
of that version (`Copied`, `Unpacked`), a section has it or is still in `left`
(`Installed`), no fourth attempt is made (`AttemptsLeft`), `firmVer` is the version on
the disk or could not be read (`FirmVerIsTrue`), and a version that programs see and the
disk does not have yet is that of every section as programs see it, and newer unless the
old one could not be read (`PendingVersion`), so that whichever step brings it to the disk
brings such a one. Nothing is used of the order in which files reach the disk.
`NewerIsAbove` says that the three comparisons of `isNeedUpdate` are the order of versions.

*Only model-checked*: everything with fairness (`BootCompletes`, `WebFollowsCamerad`,
`RestartsHappen`, `ZombiesReaped`, `EveryCallReturns`, `SilentExpires`, `CallsReturn`,
`DisksServed`, `Converges`), which is beyond the prover. Every invariant and every action
property of a passing run is stated by a theorem.

## 5. Open work

In the order of what it would add:

1. Runs of `CameraControl` in which the UI records and synchronises: the handlers are in
   the model, but TLC finds the state word wrong at rest (see the hazards), and no
   document says what should be there.
2. `formatVolume` beside the worker; InputManager with a model of its clocks.
