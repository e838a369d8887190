------------------------- MODULE CameraControlProof -------------------------
(***************************************************************************)
(* Proofs about CameraControl: the types, the two semaphores, whose answer *)
(* is read, the results of the asynchronous commands, and the state word.  *)
(***************************************************************************)
EXTENDS CameraControl, SequenceTheorems, TLAPS

\* The thread of the notifications handles notices, the others commands, and the
\* poll timer never one that has a result to come.
OwnWork ==
  /\ th[Notifier].pc \in {"idle", "lock", "after"}
  /\ th[Notifier].pc # "idle" => th[Notifier].cmd \in Notice
  /\ \A t \in Thread \ {Notifier} : th[t].cmd \in Cmd
  /\ \A t \in Timer : th[t].cmd \notin Async

\* A thread of the UI's own never waits for sem_camera, and what it writes itself is
\* only what ui_cmd_execute does without a thread of its own.
UiPath ==
  /\ semCamera \notin Ui
  /\ \A t \in Ui : /\ th[t].pc \in {"idle", "check", "call", "wait", "after"}
                   /\ th[t].pc = "wait" => ~Spawns(t)
                   /\ th[t].pc = "after" => th[t].cmd # "power_off"

\* Requests of the app and notifications are handled under sem_camera, an answer is
\* waited for under syncWriteReadSem.
Locks ==
  /\ \A t \in App \cup {Notifier} : th[t].pc \in {"check", "call", "wait", "after"} => semCamera = t
  /\ \A t \in Thread : th[t].pc = "wait" => syncWriteRead = t

\* Nobody leaves a handler with a semaphore still taken.
Holders ==
  /\ semCamera # NoThread => th[semCamera].pc \in {"check", "call", "wait", "after"}
  /\ syncWriteRead # NoThread => th[syncWriteRead].pc \in {"wait", "after"}

SInv == TypeOK /\ OwnWork /\ UiPath /\ Locks /\ Holders

-----------------------------------------------------------------------------
(***************************************************************************)
(* The threads and the operations                                          *)
(***************************************************************************)
LEMMA ThreadFacts ==
  /\ App \subseteq Thread /\ Ui \subseteq Thread /\ Timer \subseteq Thread
  /\ Worker \subseteq Thread /\ Notifier \in Thread /\ NoThread \notin Thread
  /\ Notifier \notin App \cup Ui \cup Timer \cup Worker
  /\ App \cap (Ui \cup Timer \cup Worker) = {} /\ Ui \cap (Timer \cup Worker) = {}
  /\ Timer \cap Worker = {}
  BY ThreadAssumption DEF Thread

\* Everything but the entry of an id into async_id_list.
OtherOp == {o \in Op : o.op # "add_id"}

LEMMA OpFacts ==
  /\ \A b \in Bit : Add(b) \in OtherOp /\ Rm(b) \in OtherOp /\ RmIf(b) \in OtherOp
  /\ \A S \in SUBSET Bit : Store(S) \in OtherOp /\ Sync(S) \in OtherOp
  /\ \A w \in {"pic", "live"} : Own(w) \in OtherOp /\ Disown(w) \in OtherOp
  /\ \A b \in Bit, w \in {"pic", "live"} : RmUnowned(b, w) \in OtherOp
  /\ \A u \in BOOLEAN : Link(u) \in OtherOp
  /\ \A i \in Nat : AddId(i) \in Op /\ GotId(i) \in OtherOp
<1>1. \A b \in Bit : Add(b) \in OtherOp /\ Rm(b) \in OtherOp /\ RmIf(b) \in OtherOp
  BY DEF OtherOp, Op, Add, Rm, RmIf
<1>2. \A S \in SUBSET Bit : Store(S) \in OtherOp /\ Sync(S) \in OtherOp
  BY DEF OtherOp, Op, Store, Sync
<1>3. \A w \in {"pic", "live"} : Own(w) \in OtherOp /\ Disown(w) \in OtherOp
  BY DEF OtherOp, Op, Own, Disown
<1>4. \A b \in Bit, w \in {"pic", "live"} : RmUnowned(b, w) \in OtherOp
  BY DEF OtherOp, Op, RmUnowned
<1>5. \A u \in BOOLEAN : Link(u) \in OtherOp
  BY DEF OtherOp, Op, Link
<1>6. \A i \in Nat : AddId(i) \in Op /\ GotId(i) \in OtherOp
  BY DEF OtherOp, Op, AddId, GotId
<1>. QED BY <1>1, <1>2, <1>3, <1>4, <1>5, <1>6

LEMMA Lists ==
  ASSUME NEW S
  PROVE  /\ << >> \in Seq(S)
         /\ \A a \in S : <<a>> \in Seq(S)
         /\ \A a, b \in S : <<a, b>> \in Seq(S)
         /\ \A a, b, c \in S : <<a, b, c>> \in Seq(S)
         /\ \A a, b, c, d \in S : <<a, b, c, d>> \in Seq(S)
         /\ \A s, r \in Seq(S) : s \o r \in Seq(S)
         /\ \A s \in Seq(S), a \in S : Append(s, a) \in Seq(S)
         /\ \A s \in Seq(S) : s # << >> => Head(s) \in S /\ Tail(s) \in Seq(S)
  OBVIOUS

LEMMA OtherLists ==
  /\ << >> \in Seq(OtherOp)
  /\ \A a \in OtherOp : <<a>> \in Seq(OtherOp)
  /\ \A a, b \in OtherOp : <<a, b>> \in Seq(OtherOp)
  BY Lists

LEMMA OpsOfOther == Seq(OtherOp) \subseteq Seq(Op)
  BY DEF OtherOp

LEMMA ResetAllType == ResetAll \in Seq(OtherOp)
<1>1. /\ [op |-> "reset_fifo"] \in OtherOp /\ [op |-> "clear_ids"] \in OtherOp
  BY DEF OtherOp, Op
<1>. QED BY <1>1, OpFacts, Lists DEF ResetAll

LEMMA BeforeCheckType ==
  ASSUME NEW t, NEW c
  PROVE  BeforeCheck(t, c) \in Seq(OtherOp)
<1>1. BeforeCheck(t, c) \in {<<RmUnowned("CAPTURE", "pic")>>, <<RmUnowned("START_LIVING", "live")>>,
                             << >>}
  BY DEF BeforeCheck
<1>2. RmUnowned("CAPTURE", "pic") \in OtherOp /\ RmUnowned("START_LIVING", "live") \in OtherOp
  BY OpFacts DEF Bit
<1>. QED BY <1>1, <1>2, Lists

LEMMA ClaimType ==
  ASSUME NEW t, NEW c
  PROVE  Claim(t, c) \in Seq(OtherOp)
<1>1. \A w \in {"pic", "live"} : OwnIf(t, w) \in Seq(OtherOp)
  BY OpFacts, Lists DEF OwnIf
<1>2. /\ <<Add("CAPTURE")>> \o OwnIf(t, "pic") \in Seq(OtherOp)
      /\ <<Add("START_LIVING")>> \o OwnIf(t, "live") \in Seq(OtherOp)
  BY <1>1, OpFacts, Lists DEF Bit
<1>3. Claim(t, c) \in
        {<<Add("START_RECORDING")>>, <<Add("STOP_RECORDING")>>, <<Add("CAPTURE")>> \o OwnIf(t, "pic"),
         <<Add("START_LIVING")>> \o OwnIf(t, "live"), <<Add("STOP_LIVING")>>,
         <<Add("START_PREVIEWING")>>, <<Add("STOP_PREVIEWING")>>,
         <<Store({"RECORD", "EXCEPTION"})>>, << >>}
  BY DEF Claim
<1>4. /\ Add("START_RECORDING") \in OtherOp /\ Add("STOP_RECORDING") \in OtherOp
      /\ Add("STOP_LIVING") \in OtherOp /\ Add("START_PREVIEWING") \in OtherOp
      /\ Add("STOP_PREVIEWING") \in OtherOp /\ Store({"RECORD", "EXCEPTION"}) \in OtherOp
  BY OpFacts DEF Bit
<1>. QED BY <1>2, <1>3, <1>4, OtherLists

LEMMA DoneType ==
  ASSUME NEW c, NEW S \in SUBSET Bit
  PROVE  Done(c, S) \in Seq(OtherOp)
<1>1. /\ RecDone \in Seq(OtherOp) /\ RecStopDone \in Seq(OtherOp) /\ StopLiveDone \in Seq(OtherOp)
      /\ PreviewDone \in Seq(OtherOp) /\ StopPreviewDone \in Seq(OtherOp)
  BY OpFacts, Lists DEF Bit, RecDone, RecStopDone, StopLiveDone, PreviewDone, StopPreviewDone
<1>2. LiveDone(TRUE) \in Seq(OtherOp) /\ LiveDone(FALSE) \in Seq(OtherOp)
  BY OpFacts, Lists DEF Bit, LiveDone
<1>3. <<Sync(S)>> \in Seq(OtherOp) /\ << >> \in Seq(OtherOp)
  BY OpFacts, Lists
<1>4. Done(c, S) \in {RecDone, RecStopDone, LiveDone(FALSE), LiveDone(TRUE), StopLiveDone,
                      PreviewDone, StopPreviewDone, <<Sync(S)>>, << >>}
  BY DEF Done
<1>. QED BY <1>1, <1>2, <1>3, <1>4

LEMMA FailType ==
  ASSUME NEW c
  PROVE  Fail(c) \in Seq(OtherOp)
<1>1. /\ RecFail \in Seq(OtherOp) /\ RecStopFail \in Seq(OtherOp) /\ TakePicFail \in Seq(OtherOp)
      /\ LiveFail \in Seq(OtherOp) /\ StopLiveFail \in Seq(OtherOp)
      /\ PreviewFail \in Seq(OtherOp) /\ StopPreviewFail \in Seq(OtherOp) /\ << >> \in Seq(OtherOp)
  BY OpFacts, Lists DEF Bit, RecFail, RecStopFail, TakePicFail, LiveFail, StopLiveFail, PreviewFail,
     StopPreviewFail
<1>2. Fail(c) \in {RecFail, RecStopFail, TakePicFail, LiveFail, StopLiveFail, PreviewFail,
                   StopPreviewFail, << >>}
  BY DEF Fail
<1>. QED BY <1>1, <1>2

LEMMA NotifiedType ==
  ASSUME NEW n \in Notice, NEW id \in Nat
  PROVE  Notified(n, id) \in Seq(OtherOp)
<1>1. /\ RecNotify \in Seq(OtherOp) /\ PicOrgFinish \in Seq(OtherOp) /\ PicNotify \in Seq(OtherOp)
      /\ PreviewFinishNotify \in Seq(OtherOp) /\ LiveFinish \in Seq(OtherOp)
      /\ LiveRecFinish \in Seq(OtherOp)
  BY OpFacts, Lists DEF Bit, RecNotify, PicOrgFinish, PicNotify, PreviewFinishNotify, LiveFinish,
     LiveRecFinish
<1>2. /\ Append(RecNotify, GotId(id)) \in Seq(OtherOp) /\ Append(PicNotify, GotId(id)) \in Seq(OtherOp)
      /\ Append(LiveFinish, GotId(id)) \in Seq(OtherOp)
      /\ <<Link(TRUE)>> \in Seq(OtherOp) /\ <<Link(FALSE)>> \in Seq(OtherOp)
  BY <1>1, OpFacts, Lists
<1>3. Notified(n, id) \in {Append(RecNotify, GotId(id)), PicOrgFinish, Append(PicNotify, GotId(id)),
                           PreviewFinishNotify, Append(LiveFinish, GotId(id)), LiveRecFinish,
                           <<Link(FALSE)>>, <<Link(TRUE)>>}
  BY DEF Notified, Notice
<1>. QED BY <1>1, <1>2, <1>3

LEMMA AnsweredType ==
  ASSUME NEW t, NEW a \in [seq : Nat, id : Nat, ok : BOOLEAN, state : SUBSET Bit]
  PROVE  /\ Answered(t, a) \in Seq(Op)
         /\ Answered(t, a) \in Seq(OtherOp)
            \/ /\ a.ok /\ t \in App \cup Timer /\ th[t].cmd \in Async
               /\ \E s \in Seq(OtherOp) : Answered(t, a) = s \o <<AddId(a.id)>>
<1>1. /\ Fail(th[t].cmd) \in Seq(OtherOp) /\ Done(th[t].cmd, a.state) \in Seq(OtherOp)
  BY FailType, DoneType
<1>2. CASE ~a.ok
  BY <1>1, <1>2, OpsOfOther DEF Answered
<1>3. CASE a.ok /\ t \in App \cup Timer /\ th[t].cmd \in Async
  <2>1. Answered(t, a) = Done(th[t].cmd, a.state) \o <<AddId(a.id)>>
    BY <1>3 DEF Answered
  <2>2. Done(th[t].cmd, a.state) \in Seq(Op) /\ <<AddId(a.id)>> \in Seq(Op)
    BY <1>1, OpsOfOther, OpFacts, Lists
  <2>3. Done(th[t].cmd, a.state) \o <<AddId(a.id)>> \in Seq(Op)
    BY <2>2, Lists
  <2>4. \E s \in Seq(OtherOp) : Answered(t, a) = s \o <<AddId(a.id)>>
    BY <1>1, <2>1
  <2>. QED BY <1>3, <2>1, <2>3, <2>4
<1>4. CASE a.ok /\ ~(t \in App \cup Timer /\ th[t].cmd \in Async)
  <2>1. Answered(t, a) = Done(th[t].cmd, a.state) \o << >>
    BY <1>4 DEF Answered
  <2>. QED BY <1>1, <2>1, OpsOfOther, Lists
<1>. QED BY <1>2, <1>3, <1>4

\* What a reading turns an operation into enters no id either.
LEMMA AfterReadingType ==
  ASSUME camState \subseteq Bit, NEW o \in Op,
         o.op \in {"add", "rm", "rmif", "rmunowned", "sync", "link"}
  PROVE  AfterReading(o) \in Seq(OtherOp)
<1>1. CASE o.op \in {"add", "rm", "rmif", "rmunowned"}
  <2>1. o.bit \in Bit
    BY <1>1 DEF Op
  <2>2. AfterReading(o) \in {<<Store(camState \cup {o.bit})>>, <<Store(camState \ {o.bit})>>,
                             <<Rm(o.bit)>>, <<RmIf(o.bit)>>, << >>}
    BY <1>1 DEF AfterReading
  <2>3. /\ Store(camState \cup {o.bit}) \in OtherOp /\ Store(camState \ {o.bit}) \in OtherOp
        /\ Rm(o.bit) \in OtherOp /\ RmIf(o.bit) \in OtherOp
    BY <2>1, OpFacts
  <2>. QED BY <2>2, <2>3, OtherLists
<1>2. CASE o.op = "sync"
  <2>1. o.val \in SUBSET Bit
    BY <1>2 DEF Op
  <2>2. AfterReading(o) \in {<<Store(o.val)>>, << >>}
    BY <1>2 DEF AfterReading
  <2>. QED BY <2>1, <2>2, OpFacts, Lists
<1>3. CASE o.op = "link"
  <2>1. AfterReading(o) \in {<<Rm("LIVE_CONNECTING"), Add("LIVE")>>,
                             <<Rm("LIVE"), Add("LIVE_CONNECTING")>>, << >>}
    BY <1>3 DEF AfterReading
  <2>2. \A b \in {"LIVE", "LIVE_CONNECTING"} : Add(b) \in OtherOp /\ Rm(b) \in OtherOp
    BY OpFacts DEF Bit
  <2>. QED BY <2>1, <2>2, OtherLists
<1>. QED BY <1>1, <1>2, <1>3

-----------------------------------------------------------------------------
(***************************************************************************)
(* The steps of the threads                                                *)
(***************************************************************************)
Stage == {"idle", "lock", "check", "call", "wait", "after", "disconnect"}

\* Only t moves.
Moves(t) ==
  /\ th' \in [Thread -> ThreadState]
  /\ \A u \in Thread \ {t} : th'[u] = th[u]

LEMMA IdleFacts ==
  /\ Idle \in ThreadState
  /\ Idle.pc = "idle" /\ Idle.cmd = "plain" /\ Idle.ops = << >> /\ Idle.seq = 0 /\ Idle.id = 0
  BY Lists DEF Idle, ThreadState, Cmd

LEMMA SetFacts ==
  ASSUME TypeOK, NEW t \in Thread, NEW r \in ThreadState, th' = [th EXCEPT ![t] = r]
  PROVE  Moves(t) /\ th'[t] = r
  BY DEF Moves, TypeOK

LEMMA GoesFacts ==
  ASSUME TypeOK, NEW t \in Thread, NEW p \in Stage, NEW o \in Seq(Op), Goes(t, p, o)
  PROVE  /\ Moves(t)
         /\ th'[t].pc = p /\ th'[t].ops = o
         /\ th'[t].cmd = th[t].cmd /\ th'[t].seq = th[t].seq /\ th'[t].id = th[t].id
<1>1. th[t] \in ThreadState
  BY DEF TypeOK
<1>2. [th[t] EXCEPT !.pc = p, !.ops = o] \in ThreadState
  BY <1>1 DEF ThreadState, Stage
<1>3. th' = [th EXCEPT ![t] = [th[t] EXCEPT !.pc = p, !.ops = o]]
  BY DEF Goes, TypeOK
<1>4. Moves(t) /\ th'[t] = [th[t] EXCEPT !.pc = p, !.ops = o]
  BY <1>2, <1>3, SetFacts
<1>. QED BY <1>1, <1>4 DEF ThreadState

LEMMA BeginsFacts ==
  ASSUME TypeOK, NEW t \in Thread, NEW c \in Cmd \cup Notice, NEW p \in Stage, NEW o \in Seq(Op),
         NEW i \in Nat, th' = [th EXCEPT ![t] = [Idle EXCEPT !.pc = p, !.cmd = c, !.ops = o, !.id = i]]
  PROVE  /\ Moves(t)
         /\ th'[t].pc = p /\ th'[t].ops = o /\ th'[t].cmd = c /\ th'[t].id = i
<1>. DEFINE r == [Idle EXCEPT !.pc = p, !.cmd = c, !.ops = o, !.id = i]
<1>1. r \in ThreadState
  BY IdleFacts DEF ThreadState, Stage
<1>2. Moves(t) /\ th'[t] = r
  BY <1>1, SetFacts
<1>3. r.pc = p /\ r.ops = o /\ r.cmd = c /\ r.id = i
  BY DEF Idle
<1>. QED BY <1>2, <1>3

\* A step within a handler: the semaphores and the command stay.
LEMMA WithinHandler ==
  ASSUME SInv, NEW t \in Thread, Moves(t), UNCHANGED <<semCamera, syncWriteRead>>,
         th'[t].cmd = th[t].cmd, th'[t].pc \in {"check", "call", "after"},
         th[t].pc \in {"check", "call", "wait", "after"},
         th[t].pc \in {"wait", "after"} => th'[t].pc = "after",
         t = Notifier => th'[t].pc = "after",
         t \in Ui /\ th'[t].pc = "after" => th[t].cmd # "power_off"
  PROVE  OwnWork' /\ UiPath' /\ Locks' /\ Holders'
<1>1. OwnWork'
  BY ThreadFacts DEF SInv, OwnWork, Moves
<1>2. UiPath'
  BY ThreadFacts DEF SInv, UiPath, Moves, Spawns
<1>3. Locks'
  BY ThreadFacts DEF SInv, Locks, Moves
<1>4. Holders'
  BY ThreadFacts DEF SInv, Holders, Moves, TypeOK
<1>. QED BY <1>1, <1>2, <1>3, <1>4

\* A thread becomes idle, its semaphores released.
LEMMA BecomesIdle ==
  ASSUME SInv, NEW t \in Thread, Moves(t), th'[t] = Idle,
         semCamera' = Freed(semCamera, t), syncWriteRead' = Freed(syncWriteRead, t)
  PROVE  OwnWork' /\ UiPath' /\ Locks' /\ Holders'
<1>1. Idle.cmd \in Cmd \ Async /\ Idle.pc = "idle"
  BY IdleFacts DEF Cmd, Async
<1>2. OwnWork'
  BY <1>1, ThreadFacts DEF SInv, OwnWork, Moves
<1>3. UiPath'
  BY <1>1, ThreadFacts DEF SInv, UiPath, Moves, Spawns, Freed
<1>4. Locks'
  BY <1>1, ThreadFacts DEF SInv, Locks, Moves, Freed
<1>5. Holders'
  BY <1>1, ThreadFacts DEF SInv, Holders, Moves, TypeOK, Freed
<1>. QED BY <1>2, <1>3, <1>4, <1>5

\* A thread that holds neither semaphore begins to wait for sem_camera.
LEMMA WaitsForCamera ==
  ASSUME SInv, NEW t \in Thread, Moves(t), th'[t].pc = "lock",
         th[t].pc \in {"idle", "disconnect"}, UNCHANGED <<semCamera, syncWriteRead>>, t \notin Ui,
         IF t = Notifier THEN th'[t].cmd \in Notice
                         ELSE th'[t].cmd \in Cmd /\ (t \in Timer => th'[t].cmd \notin Async)
  PROVE  OwnWork' /\ UiPath' /\ Locks' /\ Holders'
<1>1. OwnWork'
  BY ThreadFacts DEF SInv, OwnWork, Moves
<1>2. UiPath'
  BY ThreadFacts DEF SInv, UiPath, Moves, Spawns
<1>3. Locks'
  BY ThreadFacts DEF SInv, Locks, Moves
<1>4. Holders'
  BY ThreadFacts DEF SInv, Holders, Moves, TypeOK
<1>. QED BY <1>1, <1>2, <1>3, <1>4

-----------------------------------------------------------------------------
(***************************************************************************)
(* Every step keeps the types and the semaphores                           *)
(***************************************************************************)
LEMMA InitSemaphores ==
  ASSUME Init
  PROVE  SInv
<1>1. TypeOK
  BY IdleFacts, Lists DEF Init, TypeOK
<1>2. \A t \in Thread : th[t].pc = "idle" /\ th[t].cmd = "plain"
  BY IdleFacts DEF Init
<1>. QED BY <1>1, <1>2, ThreadFacts DEF Init, SInv, OwnWork, UiPath, Locks, Holders, Cmd, Async

LEMMA AppCallSem ==
  ASSUME SInv, NEW t \in Thread, AppCall(t)
  PROVE  SInv' /\ Moves(t) /\ th'[t].pc = "lock" /\ th'[t].ops = << >>
<1>1. PICK c \in AppCmd : Begins(t, c, "lock", << >>)
  BY DEF AppCall
<1>2. t \in App /\ c \in Cmd /\ calls \in Nat
  BY <1>1, ThreadAssumption DEF AppCall, SInv, TypeOK
<1>3. Moves(t) /\ th'[t].pc = "lock" /\ th'[t].cmd = c /\ th'[t].ops = << >>
  <2>1. TypeOK /\ c \in Cmd \cup Notice
    BY <1>2 DEF SInv
  <2>2. << >> \in Seq(Op) /\ "lock" \in Stage
    BY Lists DEF Stage
  <2>3. th' = [th EXCEPT ![t] = [Idle EXCEPT !.pc = "lock", !.cmd = c, !.ops = << >>, !.id = calls]]
    BY <1>1 DEF Begins
  <2>. QED BY <1>2, <2>1, <2>2, <2>3, BeginsFacts
<1>4. TypeOK'
  BY <1>1, <1>3 DEF AppCall, Begins, SInv, TypeOK, Moves
<1>5. OwnWork' /\ UiPath' /\ Locks' /\ Holders'
  BY <1>2, <1>3, WaitsForCamera, ThreadFacts DEF AppCall
<1>. QED BY <1>3, <1>4, <1>5 DEF SInv

LEMMA UiCallSem ==
  ASSUME SInv, NEW t \in Thread, UiCall(t)
  PROVE  /\ SInv' /\ Moves(t) /\ th'[t].pc = "check" /\ th'[t].ops \in Seq(OtherOp)
<1>1. PICK c \in UiCmd : Begins(t, c, "check", BeforeCheck(t, c))
  BY DEF UiCall
<1>2. t \in Ui /\ c \in Cmd /\ calls \in Nat
  BY <1>1, ThreadAssumption DEF UiCall, SInv, TypeOK
<1>3. BeforeCheck(t, c) \in Seq(OtherOp) \cap Seq(Op) /\ "check" \in Stage
  BY BeforeCheckType, OpsOfOther DEF Stage
<1>4. /\ Moves(t) /\ th'[t].pc = "check" /\ th'[t].cmd = c /\ th'[t].ops = BeforeCheck(t, c)
  BY <1>1, <1>2, <1>3, ThreadFacts, BeginsFacts DEF Begins, SInv
<1>5. TypeOK'
  BY <1>1, <1>4 DEF UiCall, Begins, SInv, TypeOK, Moves
<1>6. OwnWork'
  BY <1>2, <1>4, ThreadFacts DEF SInv, OwnWork, Moves
<1>7. UiPath'
  BY <1>2, <1>4, ThreadFacts DEF UiCall, SInv, UiPath, Moves, Spawns
<1>8. Locks' /\ Holders'
  BY <1>2, <1>4, ThreadFacts DEF UiCall, SInv, Locks, Holders, Moves, TypeOK
<1>. QED BY <1>3, <1>4, <1>5, <1>6, <1>7, <1>8 DEF SInv

LEMMA TimerFiresSem ==
  ASSUME SInv, NEW t \in Thread, TimerFires(t)
  PROVE  SInv' /\ Moves(t) /\ th'[t].pc = "call" /\ th'[t].ops = << >>
<1>1. t \in Timer /\ "power_off" \in Cmd \ Async /\ calls \in Nat
  BY DEF TimerFires, SInv, TypeOK, Cmd, Async
<1>2. Moves(t) /\ th'[t].pc = "call" /\ th'[t].cmd = "power_off" /\ th'[t].ops = << >>
  <2>1. TypeOK /\ calls \in Nat
    BY <1>1 DEF SInv
  <2>2. << >> \in Seq(Op) /\ "call" \in Stage
    BY Lists DEF Stage
  <2>3. PICK c \in Cmd \cup Notice : c = "power_off"
    BY <1>1
  <2>4. th' = [th EXCEPT ![t] = [Idle EXCEPT !.pc = "call", !.cmd = c, !.ops = << >>, !.id = calls]]
    BY <2>3 DEF TimerFires, Begins
  <2>5. Moves(t) /\ th'[t].pc = "call" /\ th'[t].cmd = c /\ th'[t].ops = << >>
    BY <2>1, <2>2, <2>4, BeginsFacts
  <2>. QED BY <2>3, <2>5
<1>3. TypeOK'
  BY <1>2 DEF TimerFires, Begins, SInv, TypeOK, Moves
<1>4. OwnWork'
  BY <1>1, <1>2, ThreadFacts DEF SInv, OwnWork, Moves
<1>5. UiPath'
  BY <1>1, <1>2, ThreadFacts DEF TimerFires, SInv, UiPath, Moves, Spawns
<1>6. Locks' /\ Holders'
  BY <1>1, <1>2, ThreadFacts DEF TimerFires, SInv, Locks, Holders, Moves, TypeOK
<1>. QED BY <1>2, <1>3, <1>4, <1>5, <1>6 DEF SInv

LEMMA HearSem ==
  ASSUME SInv, NEW t \in Thread, Hear(t)
  PROVE  /\ SInv' /\ Moves(t) /\ th'[t].pc = "lock" /\ th'[t].ops = << >>
         /\ th'[t].cmd = Head(notices).name /\ th'[t].id = Head(notices).id
<1>1. /\ t = Notifier /\ Head(notices) \in [name : Notice, id : Nat]
      /\ Tail(notices) \in Seq([name : Notice, id : Nat])
  BY Lists DEF Hear, SInv, TypeOK
<1>. DEFINE r == [Idle EXCEPT !.pc = "lock", !.cmd = Head(notices).name, !.id = Head(notices).id]
<1>2. r \in ThreadState
  BY <1>1, IdleFacts DEF ThreadState
<1>3. Moves(t) /\ th'[t] = r
  BY <1>2, SetFacts DEF Hear, SInv
<1>4. /\ r.pc = "lock" /\ r.ops = << >>
      /\ r.cmd = Head(notices).name /\ r.id = Head(notices).id
  BY DEF Idle
<1>5. TypeOK'
  BY <1>1, <1>3 DEF Hear, SInv, TypeOK, Moves
<1>6. OwnWork' /\ UiPath' /\ Locks' /\ Holders'
  BY <1>1, <1>3, <1>4, WaitsForCamera, ThreadFacts DEF Hear
<1>. QED BY <1>3, <1>4, <1>5, <1>6 DEF SInv

LEMMA LockSem ==
  ASSUME SInv, NEW t \in Thread, Lock(t)
  PROVE  /\ SInv' /\ Moves(t) /\ th'[t].cmd = th[t].cmd /\ th'[t].id = th[t].id
         /\ IF t = Notifier
            THEN th'[t].pc = "after" /\ th'[t].ops = Notified(th[t].cmd, th[t].id)
            ELSE th'[t].pc = "check" /\ th'[t].ops = << >>
<1>1. th[t].id \in Nat /\ th[t].pc = "lock" /\ t \notin Ui
  BY ThreadFacts DEF Lock, SInv, TypeOK, ThreadState, UiPath
<1>2. PICK p \in {"check", "after"}, o \in Seq(Op) :
        /\ Goes(t, p, o) /\ (p = "after" <=> t = Notifier)
        /\ o = IF t = Notifier THEN Notified(th[t].cmd, th[t].id) ELSE << >>
  <2>1. CASE t = Notifier
    <3>1. Notified(th[t].cmd, th[t].id) \in Seq(Op)
      BY <1>1, <2>1, NotifiedType, OpsOfOther DEF SInv, OwnWork
    <3>. QED BY <2>1, <3>1 DEF Lock
  <2>2. CASE t # Notifier
    BY <2>2, Lists DEF Lock
  <2>. QED BY <2>1, <2>2
<1>3. /\ Moves(t) /\ th'[t].pc = p /\ th'[t].cmd = th[t].cmd /\ th'[t].ops = o
      /\ th'[t].id = th[t].id
  <2>1. p \in Stage
    BY <1>2 DEF Stage
  <2>. QED BY <1>2, <2>1, GoesFacts, ZenonT(30) DEF SInv
<1>4. TypeOK'
  BY <1>3 DEF Lock, SInv, TypeOK, Moves
<1>5. OwnWork'
  BY <1>1, <1>2, <1>3, ThreadFacts DEF SInv, OwnWork, Moves
<1>6. UiPath'
  BY <1>1, <1>2, <1>3, ThreadFacts DEF Lock, SInv, UiPath, Moves, Spawns
<1>7. Locks'
  BY <1>1, <1>2, <1>3, ThreadFacts DEF Lock, SInv, Locks, Moves
<1>8. Holders'
  BY <1>1, <1>2, <1>3, ThreadFacts DEF Lock, SInv, Holders, Moves, TypeOK
<1>. QED BY <1>2, <1>3, <1>4, <1>5, <1>6, <1>7, <1>8 DEF SInv

LEMMA CheckSem ==
  ASSUME SInv, NEW t \in Thread, Check(t)
  PROVE  /\ SInv' /\ Moves(t) /\ th'[t].pc \in {"call", "after"} /\ th'[t].ops \in Seq(OtherOp)
         /\ t # Notifier
<1>1. t # Notifier
  BY DEF Check, SInv, OwnWork
<1>2. PICK p \in {"call", "after"}, o \in Seq(OtherOp) :
        Goes(t, p, o) /\ (p = "after" => ~Allowed(t, th[t].cmd, camState))
  BY ClaimType, OtherLists DEF Check
<1>3. Allowed(t, "power_off", camState)
  BY DEF Allowed
<1>4. /\ Moves(t) /\ th'[t].pc = p /\ th'[t].cmd = th[t].cmd /\ th'[t].ops = o
  BY <1>2, OpsOfOther, GoesFacts DEF SInv, Stage
<1>5. TypeOK'
  BY <1>4 DEF Check, SInv, TypeOK, Moves
<1>6. OwnWork' /\ UiPath' /\ Locks' /\ Holders'
  BY <1>1, <1>2, <1>3, <1>4, WithinHandler DEF Check
<1>. QED BY <1>1, <1>2, <1>4, <1>5, <1>6 DEF SInv

\* What an operation of a handler leaves in place.
LEMMA HandlerGoesOn ==
  ASSUME SInv, NEW t \in Thread, NEW o \in Seq(Op), Goes(t, th[t].pc, o),
         th[t].ops # << >>, UNCHANGED <<semCamera, syncWriteRead>>
  PROVE  /\ Moves(t) /\ th'[t].pc = th[t].pc /\ th'[t].cmd = th[t].cmd /\ th'[t].ops = o
         /\ th'[t].seq = th[t].seq /\ th'[t].id = th[t].id
         /\ OwnWork' /\ UiPath' /\ Locks' /\ Holders'
<1>. th[t].pc \in Stage
  BY DEF SInv, TypeOK, ThreadState, Stage
<1>1. /\ Moves(t) /\ th'[t].pc = th[t].pc /\ th'[t].cmd = th[t].cmd /\ th'[t].ops = o
         /\ th'[t].seq = th[t].seq /\ th'[t].id = th[t].id
  BY GoesFacts DEF SInv
<1>2. OwnWork'
  BY <1>1, ThreadFacts DEF SInv, OwnWork, Moves
<1>3. UiPath'
  BY <1>1, ThreadFacts DEF SInv, UiPath, Moves, Spawns, Freed
<1>4. Locks'
  BY <1>1, ThreadFacts DEF SInv, Locks, Moves
<1>5. Holders'
  BY <1>1, ThreadFacts DEF SInv, Holders, Moves, TypeOK
<1>. QED BY <1>1, <1>2, <1>3, <1>4, <1>5

LEMMA ReadStateSem ==
  ASSUME SInv, NEW t \in Thread, ReadState(t)
  PROVE  /\ SInv' /\ Moves(t)
         /\ th'[t].pc = th[t].pc /\ th'[t].cmd = th[t].cmd /\ th'[t].seq = th[t].seq
         /\ th'[t].id = th[t].id
         /\ AfterReading(NextOp(t)) \in Seq(OtherOp)
         /\ th'[t].ops = AfterReading(NextOp(t)) \o Tail(th[t].ops)
<1>1. th[t].ops \in Seq(Op) /\ th[t].ops # << >>
  BY DEF ReadState, SInv, TypeOK, ThreadState
<1>2. NextOp(t) \in Op /\ Tail(th[t].ops) \in Seq(Op)
  BY <1>1, Lists DEF NextOp
<1>3. AfterReading(NextOp(t)) \in Seq(OtherOp) \cap Seq(Op)
  BY <1>2, AfterReadingType, OpsOfOther DEF ReadState, SInv, TypeOK
<1>4. AfterReading(NextOp(t)) \o Tail(th[t].ops) \in Seq(Op)
  BY <1>2, <1>3, Lists
<1>5. /\ Moves(t) /\ th'[t].ops = AfterReading(NextOp(t)) \o Tail(th[t].ops)
      /\ th'[t].pc = th[t].pc /\ th'[t].cmd = th[t].cmd /\ th'[t].seq = th[t].seq
      /\ th'[t].id = th[t].id
      /\ OwnWork' /\ UiPath' /\ Locks' /\ Holders'
  BY <1>1, <1>4, HandlerGoesOn DEF ReadState
<1>6. TypeOK'
  BY <1>5 DEF ReadState, SInv, TypeOK, Moves
<1>. QED BY <1>3, <1>5, <1>6 DEF SInv

LEMMA WriteStateSem ==
  ASSUME SInv, NEW t \in Thread, WriteState(t)
  PROVE  /\ SInv' /\ Moves(t) /\ th'[t].ops = Tail(th[t].ops)
         /\ th'[t].pc = th[t].pc /\ th'[t].cmd = th[t].cmd /\ th'[t].seq = th[t].seq
         /\ th'[t].id = th[t].id
<1>1. th[t].ops \in Seq(Op) /\ th[t].ops # << >>
  BY DEF WriteState, SInv, TypeOK, ThreadState
<1>2. NextOp(t) \in Op /\ Tail(th[t].ops) \in Seq(Op)
  BY <1>1, Lists DEF NextOp
<1>3. /\ Moves(t) /\ th'[t].ops = Tail(th[t].ops)
      /\ th'[t].pc = th[t].pc /\ th'[t].cmd = th[t].cmd /\ th'[t].seq = th[t].seq
      /\ th'[t].id = th[t].id
      /\ OwnWork' /\ UiPath' /\ Locks' /\ Holders'
  BY <1>1, <1>2, HandlerGoesOn DEF WriteState
<1>4. /\ NextOp(t).op = "store" => NextOp(t).val \in SUBSET Bit
      /\ NextOp(t).op \in {"own", "disown"} => NextOp(t).who \in {"pic", "live"}
      /\ NextOp(t).op \in {"add_id", "got_id"} => NextOp(t).id \in Nat
  BY <1>2 DEF Op
<1>5. camState' \subseteq Bit /\ client' \subseteq {"pic", "live"} /\ writeSeq' \in Nat
  BY <1>4 DEF WriteState, SInv, TypeOK
<1>6. asyncIds' \subseteq [id : Nat, got : BOOLEAN]
  <2>1. \A i \in Nat : Got(i) \subseteq [id : Nat, got : BOOLEAN]
    BY DEF Got, SInv, TypeOK
  <2>2. asyncIds' \in {asyncIds \cup {[id |-> NextOp(t).id, got |-> FALSE]}, Got(NextOp(t).id), {},
                      asyncIds}
    BY DEF WriteState
  <2>3. NextOp(t).op \notin {"add_id", "got_id"} => asyncIds' \in {{}, asyncIds}
    BY DEF WriteState
  <2>4. \A i \in Nat : {[id |-> i, got |-> FALSE]} \subseteq [id : Nat, got : BOOLEAN]
    OBVIOUS
  <2>5. asyncIds \subseteq [id : Nat, got : BOOLEAN]
    BY DEF SInv, TypeOK
  <2>6. CASE NextOp(t).op \in {"add_id", "got_id"}
    BY <1>4, <2>1, <2>2, <2>4, <2>5, <2>6
  <2>. QED BY <2>3, <2>5, <2>6
<1>7. TypeOK'
  BY <1>3, <1>5, <1>6 DEF WriteState, SInv, TypeOK, Moves
<1>. QED BY <1>3, <1>7 DEF SInv

LEMMA SpawnSem ==
  ASSUME SInv, NEW t \in Thread, Spawn(t)
  PROVE  /\ SInv'
         /\ \E w \in Worker : /\ th[w].pc = "idle" /\ th'[t] = Idle /\ th'[w] = th[t]
                             /\ \A u \in Thread \ {t, w} : th'[u] = th[u]
<1>1. PICK w \in Worker : th[w].pc = "idle" /\ th' = [th EXCEPT ![t] = Idle, ![w] = th[t]]
  BY DEF Spawn
<1>2. t \in Ui /\ w \in Thread /\ w # t /\ w \notin App \cup Ui \cup Timer \cup {Notifier}
  BY <1>1, ThreadFacts DEF Spawn, Spawns
<1>3. /\ th' \in [Thread -> ThreadState]
      /\ th'[t] = Idle /\ th'[w] = th[t] /\ th[t].pc = "call" /\ th[t].cmd \in Cmd
      /\ \A u \in Thread \ {t, w} : th'[u] = th[u]
  BY <1>1, <1>2, IdleFacts, ThreadFacts DEF Spawn, SInv, TypeOK, OwnWork
<1>4. TypeOK'
  BY <1>3 DEF Spawn, SInv, TypeOK
<1>5. OwnWork'
  BY <1>2, <1>3, IdleFacts, ThreadFacts DEF SInv, OwnWork, Cmd
<1>6. UiPath'
  BY <1>2, <1>3, IdleFacts, ThreadFacts DEF Spawn, SInv, UiPath, Spawns
<1>7. Locks'
  BY <1>2, <1>3, IdleFacts, ThreadFacts DEF Spawn, SInv, Locks
<1>8. semCamera # t /\ syncWriteRead # t
  BY <1>2, <1>3, ThreadFacts DEF SInv, UiPath, Holders
<1>9. Holders'
  BY <1>1, <1>2, <1>3, <1>8, ThreadFacts DEF Spawn, SInv, Holders, TypeOK
<1>. QED BY <1>1, <1>3, <1>4, <1>5, <1>6, <1>7, <1>9 DEF SInv

LEMMA WriteSem ==
  ASSUME SInv, NEW t \in Thread, Write(t)
  PROVE  /\ SInv'
         /\ Moves(t) /\ th'[t].pc = "wait" /\ th'[t].seq = writeSeq
         /\ th'[t].cmd = th[t].cmd /\ th'[t].id = th[t].id /\ th'[t].ops = << >>
<1>1. /\ th[t] \in ThreadState /\ th[t].pc = "call" /\ writeSeq \in Nat /\ th[t].ops = << >>
  BY DEF Write, SInv, TypeOK
<1>2. t # Notifier /\ th[t].cmd \in Cmd
  BY <1>1 DEF SInv, OwnWork
<1>. DEFINE r == [th[t] EXCEPT !.pc = "wait", !.seq = writeSeq]
<1>3. /\ r \in ThreadState /\ r.pc = "wait" /\ r.seq = writeSeq /\ r.cmd = th[t].cmd
      /\ r.id = th[t].id /\ r.ops = << >>
  BY <1>1 DEF ThreadState
<1>4. th' = [th EXCEPT ![t] = r]
  BY DEF Write, SInv, TypeOK
<1>5. Moves(t) /\ th'[t] = r
  BY <1>3, <1>4, SetFacts DEF SInv
<1>. HIDE DEF r
<1>6. TypeOK'
  <2>1. [cmd |-> th[t].cmd, seq |-> writeSeq, id |-> th[t].id] \in [cmd : Cmd, seq : Nat, id : Nat]
    BY <1>1, <1>2 DEF ThreadState
  <2>2. toCamerad' \in Seq([cmd : Cmd, seq : Nat, id : Nat])
    BY <2>1, Lists DEF Write, SInv, TypeOK
  <2>. QED BY <1>1, <1>5, <2>2 DEF Write, SInv, TypeOK, Moves
<1>7. OwnWork'
  BY <1>2, <1>3, <1>5, ThreadFacts DEF SInv, OwnWork, Moves
<1>8. UiPath'
  BY <1>3, <1>5, ThreadFacts DEF Write, SInv, UiPath, Moves, Spawns
<1>9. Locks'
  BY <1>1, <1>3, <1>5, ThreadFacts DEF Write, SInv, Locks, Moves
<1>10. Holders'
  BY <1>1, <1>3, <1>5, ThreadFacts DEF Write, SInv, Holders, Moves, TypeOK
<1>. QED BY <1>3, <1>5, <1>6, <1>7, <1>8, <1>9, <1>10 DEF SInv

\* The answer is taken, or the wait given up.
LEMMA EndOfWait ==
  ASSUME SInv, NEW t \in Thread, th[t].pc = "wait", NEW o \in Seq(Op), Goes(t, "after", o),
         UNCHANGED <<semCamera, syncWriteRead>>
  PROVE  /\ Moves(t) /\ th'[t].pc = "after" /\ th'[t].ops = o
         /\ OwnWork' /\ UiPath' /\ Locks' /\ Holders'
<1>1. t # Notifier
  BY DEF SInv, OwnWork
<1>2. t \in Ui => th[t].cmd # "power_off"
  BY DEF SInv, UiPath, Spawns
<1>3. "after" \in Stage
  BY DEF Stage
<1>4. /\ Moves(t) /\ th'[t].pc = "after" /\ th'[t].cmd = th[t].cmd /\ th'[t].ops = o
  BY <1>3, GoesFacts DEF SInv
<1>. QED BY <1>1, <1>2, <1>4, WithinHandler

LEMMA ReadSem ==
  ASSUME SInv, NEW t \in Thread, Read(t)
  PROVE  /\ SInv' /\ Moves(t) /\ th'[t].pc = "after"
         /\ th'[t].ops \in {Answered(t, Head(toClient)), ResetAll}
<1>. DEFINE Answer == [seq : Nat, id : Nat, ok : BOOLEAN, state : SUBSET Bit]
<1>1. /\ toClient \in Seq(Answer) /\ Head(toClient) \in Answer /\ Tail(toClient) \in Seq(Answer)
      /\ th[t].pc = "wait"
  BY Lists DEF Read, SInv, TypeOK
<1>2. Answered(t, Head(toClient)) \in Seq(Op) /\ ResetAll \in Seq(Op)
  BY <1>1, AnsweredType, ResetAllType, OpsOfOther
<1>3. PICK o \in Seq(Op) : Goes(t, "after", o) /\ o \in {Answered(t, Head(toClient)), ResetAll}
  BY <1>2 DEF Read
<1>4. /\ Moves(t) /\ th'[t].pc = "after" /\ th'[t].ops = o
      /\ OwnWork' /\ UiPath' /\ Locks' /\ Holders'
  BY <1>1, <1>3, EndOfWait DEF Read
<1>5. Body \in Answer
  <2>1. 2 * MaxCalls \in Nat
    BY ThreadAssumption
  <2>. QED BY <2>1 DEF Body
<1>6. <<Body>> \o Tail(toClient) \in Seq(Answer)
  BY <1>1, <1>5, Lists
<1>7. toClient' \in Seq(Answer)
  BY <1>1, <1>6 DEF Read
<1>8. TypeOK'
  BY <1>4, <1>7 DEF Read, SInv, TypeOK, Moves
<1>. QED BY <1>3, <1>4, <1>8 DEF SInv

LEMMA TimeOutSem ==
  ASSUME SInv, NEW t \in Thread, TimeOut(t)
  PROVE  SInv'
<1>1. ResetAll \in Seq(Op)
  BY ResetAllType, OpsOfOther
<1>2. Moves(t) /\ OwnWork' /\ UiPath' /\ Locks' /\ Holders'
  BY <1>1, EndOfWait DEF TimeOut
<1>3. TypeOK'
  BY <1>2 DEF TimeOut, SInv, TypeOK, Moves
<1>. QED BY <1>2, <1>3 DEF SInv

LEMMA ReturnSem ==
  ASSUME SInv, NEW t \in Thread, Return(t)
  PROVE  SInv' /\ Moves(t) /\ th'[t].pc \in {"idle", "disconnect"} /\ th'[t].ops = << >>
<1>1. CASE th[t].cmd = "power_off"
  <2>1. t \notin Ui /\ t # Notifier
    BY <1>1 DEF Return, SInv, UiPath, OwnWork, Notice
  <2>2. "disconnect" \in Stage /\ << >> \in Seq(Op)
    BY Lists DEF Stage
  <2>3. Moves(t) /\ th'[t].pc = "disconnect" /\ th'[t].cmd = th[t].cmd /\ th'[t].ops = << >>
    BY <1>1, <2>2, GoesFacts DEF Return, SInv
  <2>4. TypeOK'
    BY <2>3 DEF Return, SInv, TypeOK, Moves, Freed
  <2>5. OwnWork'
    BY <2>1, <2>3, ThreadFacts DEF SInv, OwnWork, Moves
  <2>6. UiPath'
    BY <2>1, <2>3, ThreadFacts DEF Return, SInv, UiPath, Moves, Spawns, Freed
  <2>7. Locks'
    BY <2>3, ThreadFacts DEF Return, SInv, Locks, Moves, Freed
  <2>8. Holders'
    BY <2>3, ThreadFacts DEF Return, SInv, Holders, Moves, TypeOK, Freed
  <2>. QED BY <2>3, <2>4, <2>5, <2>6, <2>7, <2>8 DEF SInv
<1>2. CASE th[t].cmd # "power_off"
  <2>1. Moves(t) /\ th'[t] = Idle
    BY <1>2, IdleFacts, SetFacts DEF Return, SInv
  <2>2. OwnWork' /\ UiPath' /\ Locks' /\ Holders'
    BY <2>1, BecomesIdle DEF Return
  <2>3. TypeOK'
    BY <2>1 DEF Return, SInv, TypeOK, Moves, Freed
  <2>. QED BY <2>1, <2>2, <2>3, IdleFacts DEF SInv
<1>. QED BY <1>1, <1>2

LEMMA DisconnectSem ==
  ASSUME SInv, NEW t \in Thread, Disconnect(t)
  PROVE  SInv' /\ Moves(t) /\ th'[t].pc \in {"lock", "idle"} /\ th'[t].ops = << >> /\ t # Notifier
<1>1. t \notin Ui /\ t # Notifier /\ th[t].pc = "disconnect"
  BY DEF Disconnect, SInv, UiPath, OwnWork
<1>2. CASE camState = {"PREVIEW"}
  <2>. DEFINE r == [Idle EXCEPT !.pc = "lock", !.cmd = "stop_preview", !.id = calls]
  <2>1. r \in ThreadState /\ r.pc = "lock" /\ r.cmd = "stop_preview" /\ r.ops = << >>
    <3>1. "stop_preview" \in Cmd /\ calls \in Nat
      BY DEF Cmd, SInv, TypeOK
    <3>2. r \in ThreadState
      BY <3>1, IdleFacts DEF ThreadState
    <3>. QED BY <3>2 DEF Idle
  <2>2. Moves(t) /\ th'[t] = r
    BY <1>2, <2>1, SetFacts DEF Disconnect, SInv
  <2>. HIDE DEF r
  <2>3. "stop_preview" \in Cmd \ Async
    BY DEF Cmd, Async
  <2>4. OwnWork' /\ UiPath' /\ Locks' /\ Holders'
    BY <1>1, <2>1, <2>2, <2>3, WaitsForCamera DEF Disconnect
  <2>5. calls' \in Nat
    BY <1>2 DEF Disconnect, SInv, TypeOK
  <2>6. TypeOK'
    BY <2>2, <2>5 DEF Disconnect, SInv, TypeOK, Moves
  <2>. QED BY <1>1, <2>1, <2>2, <2>4, <2>6 DEF SInv
<1>3. CASE camState # {"PREVIEW"}
  <2>1. Moves(t) /\ th'[t] = Idle
    BY <1>3, IdleFacts, SetFacts DEF Disconnect, SInv
  <2>2. semCamera # t /\ syncWriteRead # t
    BY <1>1, ThreadFacts DEF SInv, Holders
  <2>3. OwnWork' /\ UiPath' /\ Locks' /\ Holders'
    BY <2>1, <2>2, BecomesIdle DEF Disconnect, Freed
  <2>4. TypeOK'
    BY <1>3, <2>1 DEF Disconnect, SInv, TypeOK, Moves
  <2>. QED BY <1>1, <2>1, <2>3, <2>4, IdleFacts DEF SInv
<1>. QED BY <1>2, <1>3

\* camerad moves no thread.
LEMMA CameradSem ==
  ASSUME SInv, UNCHANGED <<own, semCamera, syncWriteRead, calls>>,
         toCamerad' \in Seq([cmd : Cmd, seq : Nat, id : Nat]),
         toClient' \in Seq([seq : Nat, id : Nat, ok : BOOLEAN, state : SUBSET Bit]),
         notices' \in Seq([name : Notice, id : Nat]),
         doing' \subseteq [act : Activity, id : Nat]
  PROVE  SInv'
  BY DEF own, SInv, TypeOK, OwnWork, UiPath, Spawns, Locks, Holders

LEMMA DoingType ==
  ASSUME NEW A \in SUBSET Activity, NEW i \in Nat
  PROVE  Doing(A, i) \subseteq [act : Activity, id : Nat]
  BY DEF Doing

LEMMA ServeSem ==
  ASSUME SInv, Serve
  PROVE  SInv'
<1>. DEFINE r == Head(toCamerad)
            Answer == [seq : Nat, id : Nat, ok : BOOLEAN, state : SUBSET Bit]
<1>1. /\ r \in [cmd : Cmd, seq : Nat, id : Nat]
      /\ Tail(toCamerad) \in Seq([cmd : Cmd, seq : Nat, id : Nat])
  BY Lists DEF Serve, SInv, TypeOK
<1>2. PICK ok \in BOOLEAN :
        /\ doing' = IF ok THEN Accepted(r) ELSE Rejected(r)
        /\ toClient' = Append(toClient, [seq |-> r.seq, id |-> r.id, ok |-> ok,
                                         state |-> BitsOf(Acts)])
  BY DEF Serve
<1>3. BitsOf(Acts) \in SUBSET Bit
  BY DEF BitsOf, Bit
<1>4. toClient' \in Seq(Answer)
  <2>1. [seq |-> r.seq, id |-> r.id, ok |-> ok, state |-> BitsOf(Acts)] \in Answer
    BY <1>1, <1>3
  <2>2. toClient \in Seq(Answer)
    BY DEF SInv, TypeOK
  <2>. HIDE DEF Answer, r
  <2>. QED BY <1>2, <2>1, <2>2, Lists
<1>5. doing' \subseteq [act : Activity, id : Nat]
  <2>1. \A S : Without(S) \subseteq [act : Activity, id : Nat]
    BY DEF Without, SInv, TypeOK
  <2>2. \A A \in SUBSET Activity : Doing(A, r.id) \subseteq [act : Activity, id : Nat]
    BY <1>1, DoingType
  <2>3. doing \subseteq [act : Activity, id : Nat]
    BY DEF SInv, TypeOK
  <2>4. Rejected(r) \subseteq [act : Activity, id : Nat]
    BY <2>1, <2>3 DEF Rejected
  <2>. HIDE DEF r
  <2>5. Accepted(r) \in
          {doing \cup Doing({"record"}, r.id), Without({"record"}) \cup Doing({"record_end"}, r.id),
           doing \cup Doing({"capture"}, r.id), doing \cup Doing({"live"}, r.id),
           doing \cup Doing({"live", "live_rec"}, r.id),
           Without({"live", "live_rec", "link_down"}) \cup Doing({"live_end"}, r.id),
           doing \cup Doing({"preview"}, r.id), Without({"preview"}), doing}
    BY DEF Accepted
  <2>6. \A A \in {{"record"}, {"record_end"}, {"capture"}, {"live"}, {"live", "live_rec"},
                  {"live_end"}, {"preview"}} : Doing(A, r.id) \subseteq [act : Activity, id : Nat]
    <3>1. {"record", "record_end", "capture", "live", "live_rec", "live_end", "preview"}
            \subseteq Activity
      BY DEF Activity
    <3>. QED BY <2>2, <3>1
  <2>7. Accepted(r) \subseteq [act : Activity, id : Nat]
    BY <2>1, <2>3, <2>5, <2>6
  <2>. QED BY <1>2, <2>4, <2>7
<1>6. notices' \in Seq([name : Notice, id : Nat])
  BY DEF Serve, SInv, TypeOK
<1>. QED BY <1>1, <1>4, <1>5, <1>6, CameradSem DEF Serve

\* A notification is written and what camerad does changes.
LEMMA TellSem ==
  ASSUME SInv, NEW n \in Notice, NEW i \in Nat, Tell(n, i),
         doing' \subseteq [act : Activity, id : Nat]
  PROVE  SInv'
<1>1. [name |-> n, id |-> i] \in [name : Notice, id : Nat]
  OBVIOUS
<1>2. notices' \in Seq([name : Notice, id : Nat])
  BY <1>1, Lists DEF Tell, SInv, TypeOK
<1>3. /\ toCamerad' \in Seq([cmd : Cmd, seq : Nat, id : Nat])
      /\ toClient' \in Seq([seq : Nat, id : Nat, ok : BOOLEAN, state : SUBSET Bit])
  BY DEF Tell, SInv, TypeOK
<1>. QED BY <1>2, <1>3, CameradSem DEF Tell

\* What Finish, Break and LinkChange tell, and what is left to do then.
LEMMA Tells ==
  ASSUME SInv, Finish \/ Break \/ LinkChange
  PROVE  \E n \in Notice, i \in Nat :
           /\ Tell(n, i)
           /\ doing' \subseteq [act : Activity, id : Nat]
<1>1. doing \subseteq [act : Activity, id : Nat]
  BY DEF SInv, TypeOK
<1>2. \A S : Without(S) \subseteq [act : Activity, id : Nat]
  BY <1>1 DEF Without
<1>3. CASE Finish
  <2>1. PICK d \in doing :
          \/ d.act = "record_end" /\ Tell("record_finish", d.id) /\ doing' = doing \ {d}
          \/ d.act = "live_end" /\ Tell("live_finish", d.id) /\ doing' = doing \ {d}
          \/ d.act = "capture" /\ Tell("pic_org_finish", d.id)
               /\ doing' = (doing \ {d}) \cup Doing({"stitch"}, d.id)
          \/ d.act \in {"capture", "stitch"} /\ Tell("pic_finish", d.id) /\ doing' = doing \ {d}
    BY <1>3 DEF Finish
  <2>2. d.id \in Nat
    BY <1>1
  <2>3. Doing({"stitch"}, d.id) \subseteq [act : Activity, id : Nat]
    BY <2>2, DoingType DEF Activity
  <2>4. doing' \subseteq [act : Activity, id : Nat]
    BY <1>1, <2>1, <2>3
  <2>5. {"record_finish", "live_finish", "pic_org_finish", "pic_finish"} \subseteq Notice
    BY DEF Notice
  <2>. QED BY <2>1, <2>2, <2>4, <2>5
<1>4. CASE Break
  <2>1. PICK d \in doing :
          \/ Tell("record_finish", d.id) /\ doing' = doing \ {d}
          \/ Tell("preview_finish", d.id) /\ doing' = Without({"preview", "record"})
          \/ Tell("live_rec_finish", d.id) /\ doing' = doing \ {d}
          \/ Tell("live_finish", d.id) /\ doing' = Without({"live", "live_rec", "link_down"})
    BY <1>4 DEF Break
  <2>2. d.id \in Nat
    BY <1>1
  <2>3. doing' \subseteq [act : Activity, id : Nat]
    BY <1>1, <1>2, <2>1
  <2>4. {"record_finish", "preview_finish", "live_rec_finish", "live_finish"} \subseteq Notice
    BY DEF Notice
  <2>. QED BY <2>1, <2>2, <2>3, <2>4
<1>5. CASE LinkChange
  <2>1. /\ 0 \in Nat /\ "link_up" \in Notice /\ "link_down" \in Notice
        /\ Doing({"link_down"}, 0) \subseteq [act : Activity, id : Nat]
    BY DoingType DEF Notice, Activity
  <2>2. CASE "link_down" \in Acts
    BY <1>2, <1>5, <2>1, <2>2 DEF LinkChange
  <2>3. CASE "link_down" \notin Acts
    BY <1>1, <1>5, <2>1, <2>3 DEF LinkChange
  <2>. QED BY <2>2, <2>3
<1>. QED BY <1>3, <1>4, <1>5

LEMMA NextSemaphores ==
  ASSUME SInv, [Next]_vars
  PROVE  SInv'
<1>1. ASSUME NEW t \in Thread, AppCall(t) \/ UiCall(t) \/ TimerFires(t) \/ ThreadStep(t)
      PROVE  SInv'
  BY <1>1, AppCallSem, UiCallSem, TimerFiresSem, HearSem, LockSem, CheckSem, ReadStateSem,
     WriteStateSem, SpawnSem, WriteSem, ReadSem, TimeOutSem, ReturnSem, DisconnectSem DEF ThreadStep
<1>2. CASE Serve
  BY <1>2, ServeSem
<1>3. CASE Finish \/ Break \/ LinkChange
  BY <1>3, Tells, TellSem
<1>4. CASE UNCHANGED vars
  BY <1>4 DEF vars, own, SInv, TypeOK, OwnWork, UiPath, Spawns, Locks, Holders
<1>. QED BY <1>1, <1>2, <1>3, <1>4 DEF Next, Over

-----------------------------------------------------------------------------
(***************************************************************************)
(* The theorems that hold whatever camerad does                            *)
(***************************************************************************)
\* The inductive invariant behind the types and the semaphores.
THEOREM CameraInvariance == Spec => []SInv
<1>1. Init => SInv
  BY InitSemaphores
<1>2. SInv /\ [Next]_vars => SInv'
  BY NextSemaphores
<1>. QED BY <1>1, <1>2, PTL DEF Spec

\* TypeOK holds for any threads, commands and bounds.
THEOREM CameraTypeCorrect == Spec => []TypeOK
  BY CameraInvariance, PTL DEF SInv

\* Requests of the app and notifications change the state word one at a time, one
\* request is with camerad at a time, and a semaphore is only held by a thread that
\* is in the handler which gives it back (osc_cmd_execute, write_and_read), even
\* when answers time out or come late.
THEOREM SemaphoresGuard == Spec => [](Locks /\ Holders)
  BY CameraInvariance, PTL DEF SInv

-----------------------------------------------------------------------------
(***************************************************************************)
(* When camerad answers in time, the fifos hold the request of the thread  *)
(* that waits, or the answer to it, and nothing else.                      *)
(***************************************************************************)
Asked(t) ==
  /\ toCamerad = <<[cmd |-> th[t].cmd, seq |-> th[t].seq, id |-> th[t].id]>>
  /\ toClient = << >>

Replied(t) ==
  /\ toCamerad = << >>
  /\ \E ok \in BOOLEAN, S \in SUBSET Bit :
       toClient = <<[seq |-> th[t].seq, id |-> th[t].id, ok |-> ok, state |-> S]>>

OneRequest ==
  /\ \A t \in Thread : th[t].pc = "wait" => Asked(t) \/ Replied(t)
  /\ (\A t \in Thread : th[t].pc # "wait") => toCamerad = << >> /\ toClient = << >>

AInv == SInv /\ OneRequest

\* The threads that wait go on waiting, no other begins to.
Waiting ==
  \A u \in Thread :
    /\ th'[u].pc = "wait" <=> th[u].pc = "wait"
    /\ th[u].pc = "wait" => /\ th'[u].cmd = th[u].cmd /\ th'[u].seq = th[u].seq
                            /\ th'[u].id = th[u].id

LEMMA WaitingRequest ==
  ASSUME OneRequest, Waiting, UNCHANGED <<toCamerad, toClient>>
  PROVE  OneRequest'
  BY DEF OneRequest, Waiting, Asked, Replied

\* A thread that does not wait moves and does not begin to wait.
LEMMA OthersWait ==
  ASSUME NEW t \in Thread, Moves(t), th[t].pc # "wait", th'[t].pc # "wait"
  PROVE  Waiting
  BY DEF Moves, Waiting

LEMMA HandlerWaits ==
  ASSUME NEW t \in Thread, Moves(t), th'[t].pc = th[t].pc, th'[t].cmd = th[t].cmd,
         th'[t].seq = th[t].seq, th'[t].id = th[t].id
  PROVE  Waiting
  BY DEF Moves, Waiting

LEMMA InitRequest ==
  ASSUME Init
  PROVE  OneRequest
  BY IdleFacts DEF Init, OneRequest

\* Every step of a thread but a write and a read.
LEMMA HandlerRequest ==
  ASSUME AInv, NEW t \in Thread,
         \/ AppCall(t) \/ UiCall(t) \/ TimerFires(t)
         \/ Hear(t) \/ Lock(t) \/ Check(t) \/ ReadState(t) \/ WriteState(t)
         \/ Spawn(t) \/ Return(t) \/ Disconnect(t)
  PROVE  OneRequest'
<1>1. UNCHANGED <<toCamerad, toClient>>
  BY DEF AppCall, UiCall, TimerFires, Hear, Lock, Check, ReadState, WriteState, Spawn, Return,
     Disconnect
<1>2. CASE AppCall(t)
  <2>1. th[t].pc # "wait"
    BY <1>2 DEF AppCall
  <2>. QED BY <1>1, <1>2, <2>1, AppCallSem, OthersWait, WaitingRequest DEF AInv
<1>3. CASE UiCall(t)
  <2>1. th[t].pc # "wait"
    BY <1>3 DEF UiCall
  <2>. QED BY <1>1, <1>3, <2>1, UiCallSem, OthersWait, WaitingRequest DEF AInv
<1>4. CASE TimerFires(t)
  <2>1. th[t].pc # "wait"
    BY <1>4 DEF TimerFires
  <2>. QED BY <1>1, <1>4, <2>1, TimerFiresSem, OthersWait, WaitingRequest DEF AInv
<1>5. CASE Hear(t)
  <2>1. th[t].pc # "wait"
    BY <1>5 DEF Hear
  <2>. QED BY <1>1, <1>5, <2>1, HearSem, OthersWait, WaitingRequest DEF AInv
<1>6. CASE Lock(t)
  <2>1. th[t].pc # "wait"
    BY <1>6 DEF Lock
  <2>2. Moves(t) /\ th'[t].pc # "wait"
    BY <1>6, LockSem DEF AInv
  <2>. QED BY <1>1, <2>1, <2>2, OthersWait, WaitingRequest DEF AInv
<1>7. CASE Check(t)
  <2>1. th[t].pc # "wait"
    BY <1>7 DEF Check
  <2>2. Moves(t) /\ th'[t].pc # "wait"
    BY <1>7, CheckSem DEF AInv
  <2>. QED BY <1>1, <2>1, <2>2, OthersWait, WaitingRequest DEF AInv
<1>8. CASE ReadState(t)
  BY <1>1, <1>8, ReadStateSem, HandlerWaits, WaitingRequest DEF AInv
<1>9. CASE WriteState(t)
  BY <1>1, <1>9, WriteStateSem, HandlerWaits, WaitingRequest DEF AInv
<1>10. CASE Spawn(t)
  <2>1. PICK w \in Worker : /\ th[w].pc = "idle" /\ th'[t] = Idle /\ th'[w] = th[t]
                            /\ \A u \in Thread \ {t, w} : th'[u] = th[u]
    BY <1>10, SpawnSem DEF AInv
  <2>2. th[t].pc = "call"
    BY <1>10 DEF Spawn
  <2>3. Waiting
    BY <2>1, <2>2, IdleFacts DEF Waiting
  <2>. QED BY <1>1, <2>3, WaitingRequest DEF AInv
<1>11. CASE Return(t)
  <2>1. th[t].pc # "wait"
    BY <1>11 DEF Return
  <2>2. Moves(t) /\ th'[t].pc # "wait"
    BY <1>11, ReturnSem DEF AInv
  <2>. QED BY <1>1, <2>1, <2>2, OthersWait, WaitingRequest DEF AInv
<1>12. CASE Disconnect(t)
  <2>1. th[t].pc # "wait"
    BY <1>12 DEF Disconnect
  <2>2. Moves(t) /\ th'[t].pc # "wait"
    BY <1>12, DisconnectSem DEF AInv
  <2>. QED BY <1>1, <2>1, <2>2, OthersWait, WaitingRequest DEF AInv
<1>. QED BY <1>2, <1>3, <1>4, <1>5, <1>6, <1>7, <1>8, <1>9, <1>10, <1>11, <1>12

\* Whoever writes finds the fifos empty.
LEMMA WriteRequest ==
  ASSUME AInv, NEW t \in Thread, Write(t)
  PROVE  OneRequest'
<1>1. \A u \in Thread : th[u].pc # "wait"
  BY ThreadFacts DEF Write, AInv, SInv, Locks
<1>2. toCamerad = << >> /\ toClient = << >>
  BY <1>1 DEF AInv, OneRequest
<1>3. /\ Moves(t) /\ th'[t].pc = "wait" /\ th'[t].seq = writeSeq
      /\ th'[t].cmd = th[t].cmd /\ th'[t].id = th[t].id
  BY WriteSem DEF AInv
<1>4. Asked(t)'
  <2>1. toCamerad' = <<[cmd |-> th[t].cmd, seq |-> writeSeq, id |-> th[t].id]>>
    BY <1>2 DEF Write
  <2>. QED BY <1>2, <1>3, <2>1 DEF Write, Asked
<1>. QED BY <1>1, <1>3, <1>4 DEF OneRequest, Moves

\* Only one thread waits.
LEMMA OneWaits ==
  ASSUME SInv, NEW t \in Thread, NEW u \in Thread, th[t].pc = "wait", th[u].pc = "wait"
  PROVE  t = u
  BY DEF SInv, Locks

\* Whoever reads reads the answer to its own request.
LEMMA ReadRequest ==
  ASSUME AInv, NEW t \in Thread, Read(t)
  PROVE  /\ OneRequest'
         /\ Head(toClient).seq = th[t].seq /\ Head(toClient).id = th[t].id
         /\ Goes(t, "after", Answered(t, Head(toClient)))
<1>1. th[t].pc = "wait" /\ toClient # << >>
  BY DEF Read
<1>2. Replied(t)
  BY <1>1 DEF AInv, OneRequest, Asked
<1>3. PICK a : toClient = <<a>> /\ a.seq = th[t].seq /\ a.id = th[t].id
  BY <1>2 DEF Replied
<1>4. toCamerad = << >> /\ Head(toClient) = a /\ Tail(toClient) = << >>
  BY <1>2, <1>3 DEF Replied
<1>5. Goes(t, "after", Answered(t, a)) /\ toClient' = << >> /\ toCamerad' = << >>
  BY <1>3, <1>4 DEF Read
<1>6. Moves(t) /\ th'[t].pc = "after"
  BY ReadSem DEF AInv
<1>7. \A u \in Thread : th'[u].pc # "wait"
  BY <1>1, <1>6, OneWaits DEF AInv, Moves
<1>. QED BY <1>3, <1>4, <1>5, <1>7 DEF OneRequest

LEMMA ServeRequest ==
  ASSUME AInv, Serve
  PROVE  /\ OneRequest'
         /\ \E t \in Thread : /\ th[t].pc = "wait" /\ Asked(t) /\ Replied(t)'
                              /\ th[t].cmd = Head(toCamerad).cmd /\ th[t].id = Head(toCamerad).id
<1>1. PICK t \in Thread : th[t].pc = "wait"
  BY DEF Serve, AInv, OneRequest
<1>2. Asked(t)
  BY <1>1 DEF Serve, AInv, OneRequest, Replied
<1>. DEFINE r == [cmd |-> th[t].cmd, seq |-> th[t].seq, id |-> th[t].id]
<1>3. Head(toCamerad) = r /\ Tail(toCamerad) = << >>
  BY <1>2 DEF Asked
<1>4. PICK ok \in BOOLEAN :
        toClient' = Append(toClient, [seq |-> Head(toCamerad).seq, id |-> Head(toCamerad).id,
                                      ok |-> ok, state |-> BitsOf(Acts)])
  BY DEF Serve
<1>5. BitsOf(Acts) \in SUBSET Bit
  BY DEF BitsOf, Bit
<1>6. toClient' = <<[seq |-> th[t].seq, id |-> th[t].id, ok |-> ok, state |-> BitsOf(Acts)]>>
  BY <1>2, <1>3, <1>4 DEF Asked
<1>7. Replied(t)'
  BY <1>3, <1>5, <1>6 DEF Serve, Replied, own
<1>8. OneRequest'
  BY <1>1, <1>7, OneWaits DEF OneRequest, Serve, own, AInv
<1>. QED BY <1>1, <1>2, <1>3, <1>7, <1>8

LEMMA NextRequest ==
  ASSUME ~MayTimeOut, AInv, [Next]_vars
  PROVE  AInv'
<1>1. SInv'
  BY NextSemaphores DEF AInv
<1>. SUFFICES OneRequest'
  BY <1>1 DEF AInv
<1>2. ASSUME NEW t \in Thread, AppCall(t) \/ UiCall(t) \/ TimerFires(t) \/ ThreadStep(t)
      PROVE  OneRequest'
  BY <1>2, HandlerRequest, WriteRequest, ReadRequest DEF ThreadStep, TimeOut
<1>3. CASE Serve
  BY <1>3, ServeRequest
<1>4. CASE Finish \/ Break \/ LinkChange
  <2>1. UNCHANGED <<own, toCamerad, toClient>>
    BY <1>4 DEF Finish, Break, LinkChange, Tell
  <2>. QED BY <2>1, WaitingRequest DEF own, Waiting, AInv
<1>5. CASE UNCHANGED vars
  BY <1>5, WaitingRequest DEF vars, own, Waiting, AInv
<1>. QED BY <1>2, <1>3, <1>4, <1>5 DEF Next, Over

THEOREM RequestInvariance ==
  ASSUME ~MayTimeOut
  PROVE  Spec => []AInv
<1>1. Init => AInv
  BY InitSemaphores, InitRequest DEF AInv
<1>2. AInv /\ [Next]_vars => AInv'
  BY NextRequest
<1>. QED BY <1>1, <1>2, PTL DEF Spec

\* Only a read takes an answer, and takes the one of its own request.
LEMMA StepMatches ==
  ASSUME AInv, NEW t \in Thread, th[t].pc = "wait", toClient # << >>
  PROVE  Head(toClient).id = th[t].id
<1>1. Replied(t)
  BY DEF AInv, OneRequest, Asked
<1>. QED BY <1>1 DEF Replied

\* AnswersMatch: as long as camerad answers in time, no thread, however many there
\* are, takes the answer to another's request or to an earlier one of its own.  (If
\* it does not, it may: the sequence numbers begin again at 0.)
THEOREM AnswersAlwaysMatch ==
  ASSUME ~MayTimeOut
  PROVE  Spec => AnswersMatch
<1>1. AInv => (\A t \in Thread :
        (th[t].pc = "wait" /\ th'[t].pc = "after" /\ toClient # << >>
           /\ Head(toClient).seq = th[t].seq) => Head(toClient).id = th[t].id)
  BY StepMatches
<1>. QED BY <1>1, RequestInvariance, PTL DEF AnswersMatch

-----------------------------------------------------------------------------
(***************************************************************************)
(* The results of the asynchronous commands.  The end of a command whose   *)
(* id is in the list, or about to enter it, has yet to be told, is told,   *)
(* or is looked up right now.                                              *)
(***************************************************************************)
Has(s, o) == \E k \in 1 .. Len(s) : s[k] = o

End == {"record_finish", "pic_finish", "live_finish"}
Ending == {"record_end", "capture", "stitch", "live_end"}

\* The end of command i will come before the thread of the notifications.
Coming(i) ==
  \/ \E d \in doing : d.id = i /\ d.act \in Ending
  \/ \E k \in 1 .. Len(notices) : notices[k].id = i /\ notices[k].name \in End
  \/ th[Notifier].pc = "lock" /\ th[Notifier].cmd \in End /\ th[Notifier].id = i

BeingGot(i) == th[Notifier].pc = "after" /\ Has(th[Notifier].ops, GotId(i))

Remembered == \A a \in asyncIds : ~a.got => Coming(a.id) \/ BeingGot(a.id)

\* An id is only entered by a request of the app, whose sem_camera keeps the thread
\* of the notifications from looking it up before.
EnteredInTime ==
  \A t \in Thread, i \in Nat :
    Has(th[t].ops, AddId(i)) => t \in App /\ th[t].pc = "after" /\ Coming(i)

RepliedInTime ==
  \A t \in App :
    th[t].pc = "wait" /\ th[t].cmd \in Async /\ toClient # << >> /\ Head(toClient).ok
      => Coming(Head(toClient).id)

RInv == AInv /\ Remembered /\ EnteredInTime /\ RepliedInTime

LEMMA HasFacts ==
  ASSUME NEW S, NEW o
  PROVE  /\ ~Has(<< >>, o)
         /\ \A s, r \in Seq(S) : Has(s \o r, o) <=> Has(s, o) \/ Has(r, o)
         /\ \A s \in Seq(S) : s # << >> => (Has(s, o) <=> Head(s) = o \/ Has(Tail(s), o))
         /\ \A s \in Seq(S), a \in S : Has(Append(s, a), o) <=> Has(s, o) \/ a = o
<1>1. ~Has(<< >>, o)
  BY DEF Has
<1>2. ASSUME NEW s \in Seq(S), NEW r \in Seq(S)
      PROVE  Has(s \o r, o) <=> Has(s, o) \/ Has(r, o)
  <2>1. \A k \in 1 .. Len(s) : (s \o r)[k] = s[k] /\ k \in 1 .. Len(s \o r)
    OBVIOUS
  <2>2. \A k \in 1 .. Len(r) : (s \o r)[k + Len(s)] = r[k] /\ k + Len(s) \in 1 .. Len(s \o r)
    OBVIOUS
  <2>3. \A k \in 1 .. Len(s \o r) :
          \/ k \in 1 .. Len(s) /\ (s \o r)[k] = s[k]
          \/ k - Len(s) \in 1 .. Len(r) /\ (s \o r)[k] = r[k - Len(s)]
    OBVIOUS
  <2>. QED BY <2>1, <2>2, <2>3 DEF Has
<1>3. ASSUME NEW s \in Seq(S), s # << >>
      PROVE  Has(s, o) <=> Head(s) = o \/ Has(Tail(s), o)
  <2>1. Head(s) = s[1] /\ 1 \in 1 .. Len(s)
    BY <1>3
  <2>2. \A k \in 1 .. Len(Tail(s)) : Tail(s)[k] = s[k + 1] /\ k + 1 \in 1 .. Len(s)
    BY <1>3
  <2>3. \A k \in 1 .. Len(s) : k = 1 \/ (k - 1 \in 1 .. Len(Tail(s)) /\ Tail(s)[k - 1] = s[k])
    BY <1>3
  <2>. QED BY <2>1, <2>2, <2>3 DEF Has
<1>4. ASSUME NEW s \in Seq(S), NEW a \in S
      PROVE  Has(Append(s, a), o) <=> Has(s, o) \/ a = o
  <2>1. /\ Append(s, a)[Len(s) + 1] = a /\ Len(s) + 1 \in 1 .. Len(Append(s, a))
        /\ \A k \in 1 .. Len(s) : Append(s, a)[k] = s[k] /\ k \in 1 .. Len(Append(s, a))
        /\ \A k \in 1 .. Len(Append(s, a)) : k = Len(s) + 1 \/ k \in 1 .. Len(s)
    OBVIOUS
  <2>. QED BY <2>1 DEF Has
<1>. QED BY <1>1, <1>2, <1>3, <1>4

\* The facts above for lists of operations.
LEMMA HasOps ==
  /\ \A o : ~Has(<< >>, o)
  /\ \A s, r \in Seq(Op) : \A o : Has(s \o r, o) <=> Has(s, o) \/ Has(r, o)
  /\ \A s \in Seq(Op) : s # << >> => \A o : Has(s, o) <=> Head(s) = o \/ Has(Tail(s), o)
  /\ \A s \in Seq(Op), a \in Op : \A o : Has(Append(s, a), o) <=> Has(s, o) \/ a = o
  BY HasFacts

LEMMA OtherEntersNothing ==
  ASSUME NEW s \in Seq(OtherOp), NEW i
  PROVE  ~Has(s, AddId(i))
<1>1. \A k \in 1 .. Len(s) : s[k] \in OtherOp
  OBVIOUS
<1>2. AddId(i).op = "add_id"
  BY DEF AddId
<1>. QED BY <1>1, <1>2 DEF Has, OtherOp

LEMMA IdOps ==
  ASSUME NEW o \in Op
  PROVE  /\ o.op = "add_id" => o.id \in Nat /\ o = AddId(o.id)
         /\ o.op = "got_id" => o.id \in Nat /\ o = GotId(o.id)
         /\ \A i : o = AddId(i) => o.op = "add_id" /\ o.id = i
         /\ \A i : o = GotId(i) => o.op = "got_id" /\ o.id = i
<1>1. \A i : AddId(i).op = "add_id" /\ AddId(i).id = i /\ GotId(i).op = "got_id" /\ GotId(i).id = i
  BY DEF AddId, GotId
<1>2. o.op \in {"add_id", "got_id"} => o \in [op : {"add_id", "got_id"}, id : Nat]
  BY DEF Op
<1>3. \A q \in [op : {"add_id", "got_id"}, id : Nat] : q = [op |-> q.op, id |-> q.id]
  OBVIOUS
<1>. QED BY <1>1, <1>2, <1>3 DEF AddId, GotId

\* The end of a command is got.
LEMMA EndIsGot ==
  ASSUME NEW n \in End, NEW i \in Nat
  PROVE  Has(Notified(n, i), GotId(i))
<1>1. RecNotify \in Seq(Op) /\ PicNotify \in Seq(Op) /\ LiveFinish \in Seq(Op) /\ GotId(i) \in Op
  <2>1. RecNotify \in Seq(OtherOp) /\ PicNotify \in Seq(OtherOp) /\ LiveFinish \in Seq(OtherOp)
    BY OpFacts, Lists DEF Bit, RecNotify, PicNotify, LiveFinish
  <2>. QED BY <2>1, OpsOfOther, OpFacts DEF OtherOp
<1>2. \A s \in Seq(Op) : Has(Append(s, GotId(i)), GotId(i))
  BY <1>1, HasOps
<1>3. Notified(n, i) \in {Append(RecNotify, GotId(i)), Append(PicNotify, GotId(i)),
                          Append(LiveFinish, GotId(i))}
  BY DEF Notified, End
<1>. QED BY <1>1, <1>2, <1>3

-----------------------------------------------------------------------------
\* Another thread than that of the notifications takes a step that enters no id.
LEMMA OtherResults ==
  ASSUME RInv, NEW t \in Thread, t # Notifier, Moves(t),
         th'[t].pc = "wait" => th[t].pc = "wait" \/ toClient' = << >>,
         th'[t].cmd = th[t].cmd \/ th'[t].pc # "wait",
         \A i \in Nat : Has(th'[t].ops, AddId(i))
                          => Has(th[t].ops, AddId(i)) /\ th'[t].pc = th[t].pc,
         UNCHANGED <<asyncIds, notices, doing>>, toClient' \in {toClient, << >>}
  PROVE  Remembered' /\ EnteredInTime' /\ RepliedInTime'
<1>1. th'[Notifier] = th[Notifier]
  BY ThreadFacts DEF Moves
<1>2. \A i : (Coming(i) <=> Coming(i)') /\ (BeingGot(i) <=> BeingGot(i)')
  BY <1>1 DEF Coming, BeingGot
<1>3. Remembered'
  BY <1>2 DEF RInv, Remembered
<1>4. EnteredInTime'
  BY <1>2 DEF RInv, EnteredInTime, Moves
<1>5. RepliedInTime'
  BY <1>2, ThreadFacts DEF RInv, RepliedInTime, Moves
<1>. QED BY <1>3, <1>4, <1>5

LEMMA InitResults ==
  ASSUME Init
  PROVE  Remembered /\ EnteredInTime /\ RepliedInTime
<1>1. \A t \in Thread : th[t].pc = "idle" /\ th[t].ops = << >>
  BY IdleFacts DEF Init
<1>. QED BY <1>1, HasOps, ThreadFacts DEF Init, Remembered, EnteredInTime, RepliedInTime

\* The steps that enter nothing, of the other threads.
LEMMA HandlerResults ==
  ASSUME RInv, NEW t \in Thread,
         \/ AppCall(t) \/ UiCall(t) \/ TimerFires(t) \/ Check(t) \/ Disconnect(t) \/ Write(t)
         \/ t # Notifier /\ (Lock(t) \/ Return(t))
  PROVE  Remembered' /\ EnteredInTime' /\ RepliedInTime'
<1>1. UNCHANGED <<asyncIds, notices, doing, toClient>>
  BY DEF AppCall, UiCall, TimerFires, Check, Disconnect, Write, Lock, Return
<1>2. SInv
  BY DEF RInv, AInv
<1>3. t # Notifier
  BY <1>2, ThreadFacts, CheckSem, DisconnectSem DEF AppCall, UiCall, TimerFires, Write, SInv, OwnWork
<1>4. CASE Write(t)
  <2>1. \A u \in Thread : th[u].pc # "wait"
    BY <1>2, <1>4, ThreadFacts DEF Write, SInv, Locks
  <2>2. toClient = << >>
    BY <2>1 DEF RInv, AInv, OneRequest
  <2>3. Moves(t) /\ th'[t].ops = << >> /\ th'[t].cmd = th[t].cmd
    BY <1>2, <1>4, WriteSem
  <2>. QED BY <1>1, <1>3, <2>2, <2>3, HasOps, OtherResults
<1>5. CASE ~Write(t)
  <2>1. Moves(t) /\ th'[t].pc # "wait" /\ (th'[t].ops = << >> \/ th'[t].ops \in Seq(OtherOp))
    <3>1. CASE AppCall(t) \/ UiCall(t) \/ TimerFires(t)
      BY <1>2, <3>1, AppCallSem, UiCallSem, TimerFiresSem
    <3>2. CASE Check(t) \/ Disconnect(t)
      <4>1. CASE Check(t)
        BY <1>2, <4>1, CheckSem
      <4>2. CASE Disconnect(t)
        BY <1>2, <4>2, DisconnectSem
      <4>. QED BY <3>2, <4>1, <4>2
    <3>3. CASE Lock(t)
      BY <1>2, <1>3, <3>3, LockSem
    <3>4. CASE Return(t)
      BY <1>2, <3>4, ReturnSem
    <3>. QED BY <1>5, <3>1, <3>2, <3>3, <3>4
  <2>2. \A i \in Nat : ~Has(th'[t].ops, AddId(i))
    BY <2>1, HasOps, OtherEntersNothing
  <2>. QED BY <1>1, <1>3, <2>1, <2>2, OtherResults
<1>. QED BY <1>4, <1>5

\* A notification that is read goes from the fifo to the thread.
LEMMA HearResults ==
  ASSUME RInv, NEW t \in Thread, Hear(t)
  PROVE  Remembered' /\ EnteredInTime' /\ RepliedInTime'
<1>1. /\ t = Notifier /\ Moves(t) /\ th'[t].pc = "lock" /\ th'[t].ops = << >>
      /\ th'[t].cmd = Head(notices).name /\ th'[t].id = Head(notices).id
      /\ th[t].pc = "idle" /\ notices # << >> /\ notices' = Tail(notices)
      /\ UNCHANGED <<asyncIds, doing, toClient>>
  BY HearSem DEF RInv, AInv, Hear
<1>2. notices \in Seq([name : Notice, id : Nat])
  BY DEF RInv, AInv, SInv, TypeOK
<1>3. ASSUME NEW i, Coming(i)
      PROVE  Coming(i)'
  <2>1. CASE \E k \in 1 .. Len(notices) : notices[k].id = i /\ notices[k].name \in End
    <3>1. PICK k \in 1 .. Len(notices) : notices[k].id = i /\ notices[k].name \in End
      BY <2>1
    <3>2. CASE k = 1
      <4>1. Head(notices) = notices[k]
        BY <3>2
      <4>. QED BY <1>1, <3>1, <4>1 DEF Coming
    <3>3. CASE k # 1
      <4>1. k - 1 \in 1 .. Len(Tail(notices)) /\ Tail(notices)[k - 1] = notices[k]
        BY <1>1, <1>2, <3>3
      <4>. QED BY <1>1, <3>1, <4>1 DEF Coming
    <3>. QED BY <3>2, <3>3
  <2>. QED BY <1>1, <1>3, <2>1 DEF Coming
<1>4. Remembered'
  BY <1>1, <1>3 DEF RInv, Remembered, BeingGot
<1>5. EnteredInTime'
  BY <1>1, <1>3, HasOps DEF RInv, EnteredInTime, Moves
<1>6. RepliedInTime'
  BY <1>1, <1>3, ThreadFacts DEF RInv, RepliedInTime, Moves
<1>. QED BY <1>4, <1>5, <1>6

\* The thread of the notifications gets sem_camera: no request of the app is between
\* its own acquire and its own release.
LEMMA LockResults ==
  ASSUME RInv, Lock(Notifier)
  PROVE  Remembered' /\ EnteredInTime' /\ RepliedInTime'
<1>1. /\ Moves(Notifier) /\ th'[Notifier].pc = "after" /\ th[Notifier].pc = "lock"
      /\ th'[Notifier].ops = Notified(th[Notifier].cmd, th[Notifier].id)
      /\ UNCHANGED <<asyncIds, doing, notices, toClient>> /\ semCamera = NoThread
  BY LockSem, ThreadFacts DEF RInv, AInv, Lock
<1>2. th[Notifier].cmd \in Notice /\ th[Notifier].id \in Nat
  BY <1>1, ThreadFacts DEF RInv, AInv, SInv, TypeOK, ThreadState, OwnWork
<1>3. \A t \in App : th[t].pc \notin {"wait", "after"}
  BY <1>1, ThreadFacts DEF RInv, AInv, SInv, Locks
<1>4. ASSUME NEW i, Coming(i)
      PROVE  Coming(i)' \/ BeingGot(i)'
  <2>1. CASE th[Notifier].cmd \in End /\ th[Notifier].id = i
    BY <1>1, <1>2, <2>1, EndIsGot DEF BeingGot
  <2>. QED BY <1>1, <1>4, <2>1 DEF Coming
<1>5. Remembered'
  BY <1>1, <1>4 DEF RInv, Remembered, BeingGot
<1>6. EnteredInTime'
  <2>1. \A i \in Nat : ~Has(th'[Notifier].ops, AddId(i))
    BY <1>1, <1>2, NotifiedType, OtherEntersNothing
  <2>2. \A t \in Thread, i \in Nat : ~Has(th'[t].ops, AddId(i))
    BY <1>1, <1>3, <2>1 DEF RInv, EnteredInTime, Moves
  <2>. QED BY <2>2 DEF EnteredInTime
<1>7. RepliedInTime'
  BY <1>1, <1>3, ThreadFacts DEF RepliedInTime, Moves
<1>. QED BY <1>5, <1>6, <1>7

LEMMA ReturnResults ==
  ASSUME RInv, Return(Notifier)
  PROVE  Remembered' /\ EnteredInTime' /\ RepliedInTime'
<1>1. /\ Moves(Notifier) /\ th'[Notifier].pc \in {"idle", "disconnect"} /\ th'[Notifier].ops = << >>
      /\ th[Notifier].pc = "after" /\ th[Notifier].ops = << >>
      /\ UNCHANGED <<asyncIds, doing, notices, toClient>>
  BY ReturnSem, ThreadFacts DEF RInv, AInv, Return
<1>2. \A i : Coming(i) => Coming(i)'
  BY <1>1 DEF Coming
<1>3. \A i : ~BeingGot(i)
  BY <1>1, HasOps DEF BeingGot
<1>4. Remembered'
  BY <1>1, <1>2, <1>3 DEF RInv, Remembered
<1>5. EnteredInTime'
  BY <1>1, <1>2, HasOps DEF RInv, EnteredInTime, Moves
<1>6. RepliedInTime'
  BY <1>1, <1>2, ThreadFacts DEF RInv, RepliedInTime, Moves
<1>. QED BY <1>4, <1>5, <1>6

LEMMA ReadStateResults ==
  ASSUME RInv, NEW t \in Thread, ReadState(t)
  PROVE  Remembered' /\ EnteredInTime' /\ RepliedInTime'
<1>. DEFINE o == NextOp(t)
            r == Tail(th[t].ops)
<1>1. /\ Moves(t) /\ th'[t].pc = th[t].pc /\ th'[t].cmd = th[t].cmd /\ th'[t].id = th[t].id
      /\ AfterReading(o) \in Seq(OtherOp) /\ th'[t].ops = AfterReading(o) \o r
      /\ UNCHANGED <<asyncIds, doing, notices, toClient>>
  BY ReadStateSem DEF RInv, AInv, ReadState
<1>2. /\ th[t].ops \in Seq(Op) /\ th[t].ops # << >> /\ o = Head(th[t].ops)
      /\ o.op \notin {"add_id", "got_id"} /\ r \in Seq(Op) /\ o \in Op
  BY Lists DEF ReadState, NextOp, RInv, AInv, SInv, TypeOK, ThreadState
<1>. HIDE DEF o, r
<1>3. \A i \in Nat : Has(th'[t].ops, AddId(i)) => Has(th[t].ops, AddId(i))
  <2>1. \A i \in Nat : Has(th'[t].ops, AddId(i)) <=> Has(AfterReading(o), AddId(i)) \/ Has(r, AddId(i))
    BY <1>1, <1>2, OpsOfOther, HasOps
  <2>2. \A i \in Nat : Has(r, AddId(i)) => Has(th[t].ops, AddId(i))
    BY <1>2, HasOps DEF r
  <2>. QED BY <1>1, <2>1, <2>2, OtherEntersNothing
<1>4. \A i : Has(th[t].ops, GotId(i)) => Has(th'[t].ops, GotId(i))
  <2>1. \A i : Has(th[t].ops, GotId(i)) => Has(r, GotId(i))
    BY <1>2, HasOps, IdOps DEF r
  <2>2. \A i : Has(r, GotId(i)) => Has(th'[t].ops, GotId(i))
    BY <1>1, <1>2, OpsOfOther, HasOps
  <2>. QED BY <2>1, <2>2
<1>5. \A i : (Coming(i) => Coming(i)') /\ (BeingGot(i) => BeingGot(i)')
  <2>1. CASE t = Notifier
    BY <1>1, <1>4, <2>1 DEF Coming, BeingGot
  <2>2. CASE t # Notifier
    BY <1>1, <2>2, ThreadFacts DEF Coming, BeingGot, Moves
  <2>. QED BY <2>1, <2>2
<1>6. Remembered'
  BY <1>1, <1>5 DEF RInv, Remembered
<1>7. EnteredInTime'
  BY <1>1, <1>3, <1>5 DEF RInv, EnteredInTime, Moves
<1>8. RepliedInTime'
  BY <1>1, <1>5, ThreadFacts DEF RInv, RepliedInTime, Moves
<1>. QED BY <1>6, <1>7, <1>8

\* What an operation leaves of the list of ids.
LEMMA WriteIds ==
  ASSUME NEW t \in Thread, WriteState(t)
  PROVE  /\ NextOp(t).op = "add_id"
              => asyncIds' = asyncIds \cup {[id |-> NextOp(t).id, got |-> FALSE]}
         /\ NextOp(t).op = "got_id" => asyncIds' = Got(NextOp(t).id)
         /\ NextOp(t).op \notin {"add_id", "got_id"} => asyncIds' \subseteq asyncIds
  BY DEF WriteState

LEMMA GotFacts ==
  ASSUME TypeOK, NEW i, NEW a \in Got(i), ~a.got
  PROVE  a \in asyncIds /\ a.id # i
<1>1. PICK b \in asyncIds : a = IF b.id = i THEN [b EXCEPT !.got = TRUE] ELSE b
  BY DEF Got
<1>2. b \in [id : Nat, got : BOOLEAN]
  BY DEF TypeOK
<1>3. CASE b.id = i
  BY <1>1, <1>2, <1>3
<1>. QED BY <1>1, <1>3

LEMMA WriteStateResults ==
  ASSUME RInv, NEW t \in Thread, WriteState(t)
  PROVE  Remembered' /\ EnteredInTime' /\ RepliedInTime'
<1>. DEFINE o == NextOp(t)
            r == Tail(th[t].ops)
<1>1. /\ Moves(t) /\ th'[t].pc = th[t].pc /\ th'[t].cmd = th[t].cmd /\ th'[t].id = th[t].id
      /\ th'[t].ops = r
      /\ UNCHANGED <<doing, notices, toClient>>
  BY WriteStateSem DEF RInv, AInv, WriteState
<1>2. /\ th[t].ops \in Seq(Op) /\ th[t].ops # << >> /\ o = Head(th[t].ops)
      /\ r \in Seq(Op) /\ o \in Op /\ TypeOK
  BY Lists DEF WriteState, NextOp, RInv, AInv, SInv, TypeOK, ThreadState
<1>3. \A q : Has(th[t].ops, q) <=> o = q \/ Has(r, q)
  BY <1>2, HasOps
<1>4. /\ o.op = "add_id" => asyncIds' = asyncIds \cup {[id |-> o.id, got |-> FALSE]}
      /\ o.op = "got_id" => asyncIds' = Got(o.id)
      /\ o.op \notin {"add_id", "got_id"} => asyncIds' \subseteq asyncIds
  BY WriteIds
<1>. HIDE DEF o, r
<1>5. \A i : Coming(i) => Coming(i)'
  <2>1. CASE t = Notifier
    BY <1>1, <2>1 DEF Coming
  <2>2. CASE t # Notifier
    BY <1>1, <2>2, ThreadFacts DEF Coming, Moves
  <2>. QED BY <2>1, <2>2
<1>6. \A i : BeingGot(i) => BeingGot(i)' \/ (o.op = "got_id" /\ o.id = i)
  <2>1. CASE t = Notifier
    BY <1>1, <1>2, <1>3, <2>1, IdOps DEF BeingGot
  <2>2. CASE t # Notifier
    BY <1>1, <2>2, ThreadFacts DEF BeingGot, Moves
  <2>. QED BY <2>1, <2>2
<1>7. Remembered'
  <2>1. SUFFICES ASSUME NEW a \in asyncIds', ~a.got
                 PROVE  Coming(a.id)' \/ BeingGot(a.id)'
    BY DEF Remembered
  <2>2. CASE o.op = "add_id"
    <3>1. CASE a \in asyncIds
      BY <1>5, <1>6, <2>1, <2>2, <3>1 DEF RInv, Remembered
    <3>2. CASE a \notin asyncIds
      <4>1. a.id = o.id
        BY <1>4, <2>2, <3>2
      <4>2. o.id \in Nat /\ Has(th[t].ops, AddId(o.id))
        BY <1>2, <1>3, <2>2, IdOps
      <4>. QED BY <1>5, <4>1, <4>2 DEF RInv, EnteredInTime
    <3>. QED BY <3>1, <3>2
  <2>3. CASE o.op = "got_id"
    <3>1. a \in asyncIds /\ a.id # o.id
      BY <1>2, <1>4, <2>1, <2>3, GotFacts
    <3>. QED BY <1>5, <1>6, <2>1, <3>1 DEF RInv, Remembered
  <2>4. CASE o.op \notin {"add_id", "got_id"}
    BY <1>4, <1>5, <1>6, <2>1, <2>4 DEF RInv, Remembered
  <2>. QED BY <2>2, <2>3, <2>4
<1>8. EnteredInTime'
  BY <1>1, <1>3, <1>5 DEF RInv, EnteredInTime, Moves
<1>9. RepliedInTime'
  BY <1>1, <1>5, ThreadFacts DEF RInv, RepliedInTime, Moves
<1>. QED BY <1>7, <1>8, <1>9

LEMMA SpawnResults ==
  ASSUME RInv, NEW t \in Thread, Spawn(t)
  PROVE  Remembered' /\ EnteredInTime' /\ RepliedInTime'
<1>1. PICK w \in Worker : /\ th[w].pc = "idle" /\ th'[t] = Idle /\ th'[w] = th[t]
                          /\ \A u \in Thread \ {t, w} : th'[u] = th[u]
  BY SpawnSem DEF RInv, AInv
<1>2. /\ t \in Ui /\ th[t].ops = << >> /\ th[t].pc = "call"
      /\ UNCHANGED <<asyncIds, doing, notices, toClient>>
  BY DEF Spawn, Spawns
<1>3. th'[Notifier] = th[Notifier]
  BY <1>1, <1>2, ThreadFacts
<1>4. \A i : (Coming(i) => Coming(i)') /\ (BeingGot(i) => BeingGot(i)')
  BY <1>2, <1>3 DEF Coming, BeingGot
<1>5. Remembered'
  BY <1>2, <1>4 DEF RInv, Remembered
<1>6. EnteredInTime'
  <2>1. \A i : ~Has(th'[t].ops, AddId(i)) /\ ~Has(th'[w].ops, AddId(i))
    BY <1>1, <1>2, IdleFacts, HasOps
  <2>. QED BY <1>1, <1>4, <2>1 DEF RInv, EnteredInTime
<1>7. RepliedInTime'
  BY <1>1, <1>2, <1>4, ThreadFacts DEF RInv, RepliedInTime
<1>. QED BY <1>5, <1>6, <1>7

LEMMA ReadResults ==
  ASSUME RInv, NEW t \in Thread, Read(t)
  PROVE  Remembered' /\ EnteredInTime' /\ RepliedInTime'
<1>. DEFINE a == Head(toClient)
<1>1. /\ Moves(t) /\ th'[t].pc = "after" /\ th[t].pc = "wait" /\ toClient # << >>
      /\ UNCHANGED <<asyncIds, doing, notices>>
  BY ReadSem DEF RInv, AInv, Read
<1>2. Goes(t, "after", Answered(t, a))
  BY ReadRequest DEF RInv
<1>3. a \in [seq : Nat, id : Nat, ok : BOOLEAN, state : SUBSET Bit]
  BY <1>1, Lists DEF RInv, AInv, SInv, TypeOK
<1>. HIDE DEF a
<1>4. th'[t].ops = Answered(t, a)
  BY <1>2 DEF Goes, RInv, AInv, SInv, TypeOK, ThreadState
<1>5. t # Notifier
  BY <1>1 DEF RInv, AInv, SInv, OwnWork
<1>6. \A i : (Coming(i) => Coming(i)') /\ (BeingGot(i) => BeingGot(i)')
  BY <1>1, <1>5, ThreadFacts DEF Coming, BeingGot, Moves
<1>7. \A i \in Nat : Has(Answered(t, a), AddId(i)) => t \in App /\ Coming(i)
  <2>1. CASE Answered(t, a) \in Seq(OtherOp)
    BY <2>1, OtherEntersNothing
  <2>2. CASE /\ a.ok /\ t \in App \cup Timer /\ th[t].cmd \in Async
             /\ \E s \in Seq(OtherOp) : Answered(t, a) = s \o <<AddId(a.id)>>
    <3>1. t \in App
      BY <2>2 DEF RInv, AInv, SInv, OwnWork
    <3>2. Coming(a.id)
      BY <1>1, <2>2, <3>1 DEF a, RInv, RepliedInTime
    <3>3. PICK s \in Seq(OtherOp) : Answered(t, a) = s \o <<AddId(a.id)>>
      BY <2>2
    <3>4. AddId(a.id) \in Op /\ <<AddId(a.id)>> \in Seq(Op) /\ s \in Seq(Op)
      BY <1>3, OpFacts, Lists, OpsOfOther
    <3>5. ASSUME NEW i \in Nat, Has(Answered(t, a), AddId(i))
          PROVE  i = a.id
      <4>1. Has(<<AddId(a.id)>>, AddId(i))
        <5>1. Has(s \o <<AddId(a.id)>>, AddId(i)) /\ ~Has(s, AddId(i))
          BY <3>3, <3>5, OtherEntersNothing
        <5>. QED BY <3>4, <5>1, HasOps
      <4>2. AddId(a.id) = AddId(i)
        <5>1. \A x, k : k \in 1 .. Len(<<x>>) => <<x>>[k] = x
          OBVIOUS
        <5>. QED BY <4>1, <5>1 DEF Has
      <4>. QED BY <3>4, <4>2, IdOps
    <3>. QED BY <3>1, <3>2, <3>5
  <2>. QED BY <1>3, <2>1, <2>2, AnsweredType
<1>8. Remembered'
  BY <1>1, <1>6 DEF RInv, Remembered
<1>9. EnteredInTime'
  BY <1>1, <1>4, <1>6, <1>7 DEF RInv, EnteredInTime, Moves
<1>10. RepliedInTime'
  <2>1. \A u \in Thread : th'[u].pc # "wait"
    BY <1>1, OneWaits DEF RInv, AInv, Moves
  <2>. QED BY <2>1, ThreadFacts DEF RepliedInTime
<1>. QED BY <1>8, <1>9, <1>10

\* camerad remembers that the end of an asynchronous command has to be told.
LEMMA CameradResults ==
  ASSUME RInv, UNCHANGED own, \A i : Coming(i) => Coming(i)', RepliedInTime'
  PROVE  Remembered' /\ EnteredInTime' /\ RepliedInTime'
<1>1. \A i : BeingGot(i) => BeingGot(i)'
  BY DEF own, BeingGot
<1>2. Remembered'
  BY <1>1 DEF own, RInv, Remembered
<1>3. EnteredInTime'
  BY DEF own, RInv, EnteredInTime
<1>. QED BY <1>2, <1>3

\* No request ends what is ending.
LEMMA EndingStays ==
  ASSUME NEW r, NEW d \in doing, d.act \in Ending
  PROVE  d \in Accepted(r) /\ d \in Rejected(r)
<1>1. \A S : S \cap Ending = {} => d \in Without(S)
  BY DEF Without, Only
<1>2. /\ d \in Without({"record"}) /\ d \in Without({"live", "live_rec", "link_down"})
      /\ d \in Without({"preview"})
  BY <1>1 DEF Ending
<1>3. d \in Accepted(r)
  BY <1>2 DEF Accepted
<1>4. d \in Rejected(r)
  BY <1>2 DEF Rejected
<1>. QED BY <1>3, <1>4

LEMMA ServeResults ==
  ASSUME RInv, Serve
  PROVE  Remembered' /\ EnteredInTime' /\ RepliedInTime'
<1>0. PICK r : r = Head(toCamerad)
  OBVIOUS
<1>1. PICK ok \in BOOLEAN :
        /\ doing' = IF ok THEN Accepted(r) ELSE Rejected(r)
        /\ toClient' = Append(toClient, [seq |-> r.seq, id |-> r.id, ok |-> ok,
                                         state |-> BitsOf(Acts)])
  BY <1>0 DEF Serve
<1>2. UNCHANGED <<own, notices>>
  BY DEF Serve
<1>3. \A i : Coming(i) => Coming(i)'
  <2>1. \A d \in doing : d.act \in Ending => d \in doing'
    BY <1>1, EndingStays
  <2>. QED BY <1>2, <2>1 DEF Coming, own
<1>4. PICK t \in Thread : /\ th[t].pc = "wait" /\ Asked(t) /\ th[t].cmd = r.cmd
                          /\ th[t].id = r.id
  BY <1>0, ServeRequest DEF RInv
<1>5. toClient' = <<[seq |-> r.seq, id |-> r.id, ok |-> ok, state |-> BitsOf(Acts)]>>
  BY <1>1, <1>4 DEF Asked
<1>6. ok /\ r.cmd \in Async => Coming(r.id)'
  <2>1. ASSUME ok, r.cmd \in Async
        PROVE  \E e \in Ending : [act |-> e, id |-> r.id] \in doing'
    <3>1. \A e : [act |-> e, id |-> r.id] \in Doing({e}, r.id)
      BY DEF Doing
    <3>2. CASE r.cmd = "take_pic"
      BY <1>1, <2>1, <3>1, <3>2 DEF Accepted, Ending
    <3>3. CASE r.cmd = "stop_record"
      BY <1>1, <2>1, <3>1, <3>3 DEF Accepted, Ending
    <3>4. CASE r.cmd = "stop_live"
      BY <1>1, <2>1, <3>1, <3>4 DEF Accepted, Ending
    <3>. QED BY <2>1, <3>2, <3>3, <3>4 DEF Async
  <2>2. \A e : [act |-> e, id |-> r.id].id = r.id /\ [act |-> e, id |-> r.id].act = e
    OBVIOUS
  <2>3. ok /\ r.cmd \in Async => \E d \in doing' : d.id = r.id /\ d.act \in Ending
    BY <2>1, <2>2
  <2>4. (\E d \in doing' : d.id = r.id /\ d.act \in Ending) => Coming(r.id)'
    BY <1>2 DEF Coming, own
  <2>. QED BY <2>3, <2>4
<1>7. RepliedInTime'
  <2>1. ASSUME NEW u \in App, th[u].pc = "wait"
        PROVE  u = t
    BY <1>4, <2>1, OneWaits, ThreadFacts DEF RInv, AInv
  <2>2. Head(toClient').ok = ok /\ Head(toClient').id = r.id
    BY <1>5
  <2>3. \A u \in App : th[u].pc = "wait" /\ th[u].cmd \in Async /\ ok => Coming(r.id)'
    BY <1>4, <1>6, <2>1
  <2>. QED BY <1>2, <2>2, <2>3 DEF RepliedInTime, own
<1>. QED BY <1>2, <1>3, <1>7, CameradResults

\* What is told and what is still going on: nothing that ends goes without a word.
LEMMA ToldOrDoing ==
  ASSUME RInv, NEW n \in Notice, NEW j \in Nat, Tell(n, j),
         \A d \in doing : d.act \in Ending =>
           \/ \E e \in doing' : e.id = d.id /\ e.act \in Ending
           \/ n \in End /\ j = d.id
  PROVE  Remembered' /\ EnteredInTime' /\ RepliedInTime'
<1>1. UNCHANGED <<own, toClient>> /\ notices' = Append(notices, [name |-> n, id |-> j])
  BY DEF Tell
<1>2. notices \in Seq([name : Notice, id : Nat])
  BY DEF RInv, AInv, SInv, TypeOK
<1>3. /\ \A k \in 1 .. Len(notices) : notices'[k] = notices[k] /\ k \in 1 .. Len(notices')
      /\ Len(notices) + 1 \in 1 .. Len(notices')
      /\ notices'[Len(notices) + 1] = [name |-> n, id |-> j]
  BY <1>1, <1>2
<1>4. ASSUME NEW i, Coming(i)
      PROVE  Coming(i)'
  <2>1. CASE \E d \in doing : d.id = i /\ d.act \in Ending
    BY <1>3, <2>1 DEF Coming
  <2>2. CASE \E k \in 1 .. Len(notices) : notices[k].id = i /\ notices[k].name \in End
    BY <1>3, <2>2 DEF Coming
  <2>3. CASE th[Notifier].pc = "lock" /\ th[Notifier].cmd \in End /\ th[Notifier].id = i
    BY <1>1, <2>3 DEF Coming, own
  <2>. QED BY <1>4, <2>1, <2>2, <2>3 DEF Coming
<1>5. RepliedInTime'
  BY <1>1, <1>4, ThreadFacts DEF RInv, RepliedInTime, own
<1>. QED BY <1>1, <1>4, <1>5, CameradResults

LEMMA TellsResults ==
  ASSUME RInv, Finish \/ Break \/ LinkChange
  PROVE  Remembered' /\ EnteredInTime' /\ RepliedInTime'
<1>1. doing \subseteq [act : Activity, id : Nat]
  BY DEF RInv, AInv, SInv, TypeOK
<1>2. \A S : S \cap Ending = {} => \A d \in doing : d.act \in Ending => d \in Without(S)
  BY DEF Without, Only
<1>3. /\ {"preview", "record"} \cap Ending = {} /\ {"link_down"} \cap Ending = {}
      /\ {"live", "live_rec", "link_down"} \cap Ending = {}
  BY DEF Ending
<1>4. CASE Finish
  <2>1. PICK d \in doing :
          \/ d.act = "record_end" /\ Tell("record_finish", d.id) /\ doing' = doing \ {d}
          \/ d.act = "live_end" /\ Tell("live_finish", d.id) /\ doing' = doing \ {d}
          \/ d.act = "capture" /\ Tell("pic_org_finish", d.id)
               /\ doing' = (doing \ {d}) \cup Doing({"stitch"}, d.id)
          \/ d.act \in {"capture", "stitch"} /\ Tell("pic_finish", d.id) /\ doing' = doing \ {d}
    BY <1>4 DEF Finish
  <2>2. d.id \in Nat
    BY <1>1
  <2>3. {"record_finish", "live_finish", "pic_org_finish", "pic_finish"} \subseteq Notice
    BY DEF Notice
  <2>4. CASE \E n \in End : Tell(n, d.id) /\ doing' = doing \ {d}
    <3>1. PICK n \in End : Tell(n, d.id) /\ doing' = doing \ {d}
      BY <2>4
    <3>2. n \in Notice
      BY DEF End, Notice
    <3>. QED BY <2>2, <3>1, <3>2, ToldOrDoing
  <2>5. CASE Tell("pic_org_finish", d.id) /\ doing' = (doing \ {d}) \cup Doing({"stitch"}, d.id)
    <3>1. [act |-> "stitch", id |-> d.id] \in doing' /\ "stitch" \in Ending
      BY <2>5 DEF Doing, Ending
    <3>2. \A c \in doing : c.act \in Ending => \E e \in doing' : e.id = c.id /\ e.act \in Ending
      BY <2>5, <3>1
    <3>. QED BY <2>2, <2>3, <2>5, <3>2, ToldOrDoing
  <2>. QED BY <2>1, <2>4, <2>5 DEF End
<1>5. CASE Break
  <2>1. PICK d \in doing :
          \/ d.act = "record" /\ Tell("record_finish", d.id) /\ doing' = doing \ {d}
          \/ Tell("preview_finish", d.id) /\ doing' = Without({"preview", "record"})
          \/ d.act = "live_rec" /\ Tell("live_rec_finish", d.id) /\ doing' = doing \ {d}
          \/ Tell("live_finish", d.id) /\ doing' = Without({"live", "live_rec", "link_down"})
    BY <1>5 DEF Break
  <2>2. \A c \in doing : c.act \in Ending => c \in doing'
    BY <1>2, <1>3, <2>1 DEF Ending
  <2>3. PICK n \in {"record_finish", "preview_finish", "live_rec_finish", "live_finish"} :
          Tell(n, d.id)
    BY <2>1
  <2>4. n \in Notice /\ d.id \in Nat
    BY <1>1 DEF Notice
  <2>. QED BY <2>2, <2>3, <2>4, ToldOrDoing
<1>6. CASE LinkChange
  <2>1. \A c \in doing : c.act \in Ending => c \in doing'
    BY <1>2, <1>3, <1>6 DEF LinkChange
  <2>2. PICK n \in {"link_up", "link_down"} : Tell(n, 0)
    BY <1>6 DEF LinkChange
  <2>3. n \in Notice /\ 0 \in Nat
    BY DEF Notice
  <2>. QED BY <2>1, <2>2, <2>3, ToldOrDoing
<1>. QED BY <1>4, <1>5, <1>6

LEMMA NextResults ==
  ASSUME ~MayTimeOut, RInv, [Next]_vars
  PROVE  RInv'
<1>1. AInv'
  BY NextRequest DEF RInv
<1>. SUFFICES Remembered' /\ EnteredInTime' /\ RepliedInTime'
  BY <1>1 DEF RInv
<1>2. ASSUME NEW t \in Thread, AppCall(t) \/ UiCall(t) \/ TimerFires(t) \/ ThreadStep(t)
      PROVE  Remembered' /\ EnteredInTime' /\ RepliedInTime'
  BY <1>2, HandlerResults, HearResults, LockResults, ReturnResults, ReadStateResults,
     WriteStateResults, SpawnResults, ReadResults DEF ThreadStep, TimeOut
<1>3. CASE Serve
  BY <1>3, ServeResults
<1>4. CASE Finish \/ Break \/ LinkChange
  BY <1>4, TellsResults
<1>5. CASE UNCHANGED vars
  <2>1. UNCHANGED <<own, notices, doing, toClient>>
    BY <1>5 DEF vars
  <2>2. \A i : Coming(i) => Coming(i)'
    BY <2>1 DEF own, Coming
  <2>3. RepliedInTime'
    BY <2>1, <2>2 DEF own, RInv, RepliedInTime
  <2>. QED BY <2>1, <2>2, <2>3, CameradResults
<1>. QED BY <1>2, <1>3, <1>4, <1>5 DEF Next, Over

THEOREM ResultsInvariance ==
  ASSUME ~MayTimeOut
  PROVE  Spec => []RInv
<1>1. Init => RInv
  BY InitSemaphores, InitRequest, InitResults DEF RInv, AInv
<1>2. RInv /\ [Next]_vars => RInv'
  BY NextResults
<1>. QED BY <1>1, <1>2, PTL DEF Spec

\* ResultsNotLost: as long as camerad answers in time, the end of an asynchronous
\* command never comes before its id is in the list, for any number of apps, of
\* threads of the UI and of notifications in between, whatever breaks off by itself.
THEOREM ResultsNeverLost ==
  ASSUME ~MayTimeOut
  PROVE  Spec => []ResultsNotLost
<1>1. RInv => ResultsNotLost
  <2>1. SUFFICES ASSUME RInv, Quiet, NEW a \in asyncIds, ~a.got
                 PROVE  \E d \in doing : d.id = a.id
    BY DEF ResultsNotLost
  <2>2. th[Notifier].pc = "idle" /\ notices = << >>
    BY <2>1, ThreadFacts DEF Quiet
  <2>3. Coming(a.id)
    BY <2>1, <2>2 DEF RInv, Remembered, BeingGot
  <2>. QED BY <2>2, <2>3 DEF Coming
<1>. QED BY <1>1, ResultsInvariance, PTL

-----------------------------------------------------------------------------
(***************************************************************************)
(* The state word.  Operations on it are carried out one at a time under   *)
(* sem_camera, so what a handler has begun can be told by its end: Final   *)
(* is the state word when the operations that are left are done.           *)
(***************************************************************************)
\* The bits an operation decides, and the state word after it.
Changes(o) ==
  CASE o.op \in {"add", "rm", "rmif"} -> {o.bit}
    [] o.op = "store" -> Bit
    [] o.op = "link"  -> {"LIVE", "LIVE_CONNECTING"}
    [] OTHER          -> {}

Linked(up, S) ==
  IF up /\ "LIVE" \notin S /\ "LIVE_CONNECTING" \in S
  THEN (S \ {"LIVE_CONNECTING"}) \cup {"LIVE"}
  ELSE IF ~up /\ "LIVE" \in S THEN (S \ {"LIVE"}) \cup {"LIVE_CONNECTING"} ELSE S

Do(o, S) ==
  CASE o.op = "add"             -> S \cup {o.bit}
    [] o.op \in {"rm", "rmif"}  -> S \ {o.bit}
    [] o.op = "store"           -> o.val
    [] o.op = "link"            -> Linked(o.up, S)
    [] OTHER                    -> S

\* A bit is as the last operation that decides it leaves it.
Decides(b, k, ops) ==
  b \in Changes(ops[k]) /\ \A j \in 1 .. Len(ops) : j > k => b \notin Changes(ops[j])

Final(ops, S) ==
  {b \in Bit : \/ b \in S /\ \A k \in 1 .. Len(ops) : b \notin Changes(ops[k])
               \/ \E k \in 1 .. Len(ops) : Decides(b, k, ops) /\ b \in Do(ops[k], S)}

\* The operations whose outcome does not depend on what came before, and those with
\* no second guess of the state.
BitOp == {o \in Op : o.op \notin {"link", "sync", "rmunowned"}}
StateOp == BitOp \cup {Link(TRUE), Link(FALSE)}

LEMMA DoFacts ==
  ASSUME NEW o \in StateOp, NEW S \in SUBSET Bit
  PROVE  /\ Do(o, S) \in SUBSET Bit
         /\ \A b \in Bit \ Changes(o) : b \in Do(o, S) <=> b \in S
         /\ o \in BitOp => \A T : \A b \in Changes(o) : b \in Do(o, S) <=> b \in Do(o, T)
<1>1. CASE o \in BitOp
  <2>1. /\ o.op \in {"add", "rm", "rmif"} => o.bit \in Bit
        /\ o.op = "store" => o.val \in SUBSET Bit
        /\ o.op # "link"
    BY <1>1 DEF BitOp, Op
  <2>. QED BY <1>1, <2>1 DEF Do, Changes
<1>2. CASE o \in {Link(TRUE), Link(FALSE)}
  <2>1. o.op = "link" /\ o \notin BitOp
    BY <1>2 DEF Link, BitOp
  <2>2. Do(o, S) = Linked(o.up, S) /\ Changes(o) = {"LIVE", "LIVE_CONNECTING"}
    BY <2>1 DEF Do, Changes
  <2>3. /\ Linked(o.up, S) \in SUBSET Bit
        /\ \A b \in Bit \ {"LIVE", "LIVE_CONNECTING"} : b \in Linked(o.up, S) <=> b \in S
    BY DEF Linked, Bit
  <2>. QED BY <2>1, <2>2, <2>3
<1>. QED BY <1>1, <1>2 DEF StateOp

LEMMA FinalNil ==
  ASSUME NEW S \in SUBSET Bit
  PROVE  Final(<< >>, S) = S
  BY DEF Final

LEMMA FinalCons ==
  ASSUME NEW s \in Seq(StateOp), s # << >>, Tail(s) \in Seq(BitOp), NEW S \in SUBSET Bit
  PROVE  Final(s, S) = Final(Tail(s), Do(Head(s), S))
<1>. DEFINE h == Head(s)
            r == Tail(s)
<1>1. /\ h \in StateOp /\ h = s[1] /\ Len(s) = Len(r) + 1 /\ Len(r) \in Nat
      /\ \A k \in 1 .. Len(r) : r[k] \in BitOp /\ r[k] = s[k + 1]
  OBVIOUS
<1>. HIDE DEF h, r
<1>2. /\ \A b \in Bit \ Changes(h) : b \in Do(h, S) <=> b \in S
      /\ Do(h, S) \in SUBSET Bit
  BY <1>1, DoFacts
<1>3. \A k \in 1 .. Len(r) : \A b \in Changes(r[k]) : b \in Do(r[k], S) <=> b \in Do(r[k], Do(h, S))
  <2>1. BitOp \subseteq StateOp
    BY DEF StateOp
  <2>. QED BY <1>1, <2>1, DoFacts
<1>4. ASSUME NEW b \in Bit
      PROVE  b \in Final(s, S) <=> b \in Final(r, Do(h, S))
  <2>1. CASE \E k \in 1 .. Len(r) : b \in Changes(r[k])
    <3>1. PICK i \in 1 .. Len(r) : b \in Changes(r[i])
      BY <2>1
    <3>2. i + 1 \in 1 .. Len(s) /\ i + 1 > 1 /\ b \in Changes(s[i + 1])
      BY <1>1, <3>1
    <3>3. \A k \in 1 .. Len(s) : Decides(b, k, s) =>
            k - 1 \in 1 .. Len(r) /\ s[k] = r[k - 1] /\ Decides(b, k - 1, r)
      <4>1. SUFFICES ASSUME NEW k \in 1 .. Len(s), Decides(b, k, s)
                     PROVE  k - 1 \in 1 .. Len(r) /\ s[k] = r[k - 1] /\ Decides(b, k - 1, r)
        OBVIOUS
      <4>2. k # 1
        BY <3>2, <4>1 DEF Decides
      <4>3. k - 1 \in 1 .. Len(r) /\ (k - 1) + 1 = k
        BY <1>1, <4>2
      <4>. s[k] = r[k - 1]
        BY <1>1, <4>3
      <4>4. \A j \in 1 .. Len(r) : j > k - 1 => j + 1 \in 1 .. Len(s) /\ j + 1 > k /\ r[j] = s[j + 1]
        BY <1>1
      <4>. QED BY <4>1, <4>3, <4>4 DEF Decides
    <3>4. \A k \in 1 .. Len(r) : Decides(b, k, r) =>
            k + 1 \in 1 .. Len(s) /\ s[k + 1] = r[k] /\ Decides(b, k + 1, s)
      <4>1. \A k \in 1 .. Len(r) : k + 1 \in 1 .. Len(s) /\ s[k + 1] = r[k]
        BY <1>1
      <4>2. \A k \in 1 .. Len(r) : \A j \in 1 .. Len(s) :
              j > k + 1 => j - 1 \in 1 .. Len(r) /\ j - 1 > k /\ s[j] = r[j - 1]
        BY <1>1
      <4>. QED BY <4>1, <4>2 DEF Decides
    <3>5. b \in Final(s, S) <=> \E k \in 1 .. Len(s) : Decides(b, k, s) /\ b \in Do(s[k], S)
      BY <3>2 DEF Final
    <3>6. b \in Final(r, Do(h, S)) <=>
            \E k \in 1 .. Len(r) : Decides(b, k, r) /\ b \in Do(r[k], Do(h, S))
      BY <3>1 DEF Final
    <3>7. \A k \in 1 .. Len(r) : Decides(b, k, r) => (b \in Do(r[k], S) <=> b \in Do(r[k], Do(h, S)))
      BY <1>3 DEF Decides
    <3>. QED BY <3>3, <3>4, <3>5, <3>6, <3>7
  <2>2. CASE \A k \in 1 .. Len(r) : b \notin Changes(r[k])
    <3>1. \A k \in 1 .. Len(s) : k # 1 => b \notin Changes(s[k])
      <4>1. \A k \in 1 .. Len(s) : k # 1 => k - 1 \in 1 .. Len(r) /\ s[k] = r[k - 1]
        BY <1>1
      <4>. QED BY <2>2, <4>1
    <3>2. 1 \in 1 .. Len(s) /\ \A j \in 1 .. Len(s) : j > 1 => j # 1
      BY <1>1
    <3>3. \A k \in 1 .. Len(s) : Decides(b, k, s) <=> k = 1 /\ b \in Changes(h)
      BY <1>1, <3>1, <3>2 DEF Decides
    <3>4. b \in Final(s, S) <=> (b \in S /\ b \notin Changes(h)) \/ (b \in Changes(h) /\ b \in Do(h, S))
      BY <1>1, <3>1, <3>2, <3>3 DEF Final
    <3>. QED BY <1>2, <2>2, <3>4 DEF Final, Decides
  <2>. QED BY <2>1, <2>2
<1>. QED BY <1>4 DEF Final, h, r
LEMMA FinalOf ==
  ASSUME NEW S \in SUBSET Bit
  PROVE  /\ \A a \in StateOp : Final(<<a>>, S) = Do(a, S)
         /\ \A a, b \in BitOp : Final(<<a, b>>, S) = Do(b, Do(a, S))
         /\ \A a, b, c \in BitOp : Final(<<a, b, c>>, S) = Do(c, Do(b, Do(a, S)))
         /\ \A a, b, c, d \in BitOp : Final(<<a, b, c, d>>, S) = Do(d, Do(c, Do(b, Do(a, S))))
         /\ \A a, b, c, d, e \in BitOp :
              Final(<<a, b, c, d, e>>, S) = Do(e, Do(d, Do(c, Do(b, Do(a, S)))))
<1>0. BitOp \subseteq StateOp
  BY DEF StateOp
<1>1. ASSUME NEW a \in StateOp, NEW V \in SUBSET Bit
      PROVE  Do(a, V) \in SUBSET Bit /\ Final(<<a>>, V) = Do(a, V)
  <2>1. Do(a, V) \in SUBSET Bit
    BY DoFacts
  <2>2. Final(<<a>>, V) = Final(<< >>, Do(a, V))
    <3>1. /\ <<a>> \in Seq(StateOp) /\ <<a>> # << >> /\ Head(<<a>>) = a /\ Tail(<<a>>) = << >>
          /\ << >> \in Seq(BitOp)
      OBVIOUS
    <3>. QED BY <3>1, FinalCons
  <2>. QED BY <2>1, <2>2, FinalNil
<1>2. ASSUME NEW a \in BitOp, NEW b \in BitOp, NEW V \in SUBSET Bit
      PROVE  Final(<<a, b>>, V) = Do(b, Do(a, V))
  <2>1. /\ <<a, b>> \in Seq(StateOp) /\ <<a, b>> # << >> /\ Head(<<a, b>>) = a
        /\ Tail(<<a, b>>) = <<b>> /\ <<b>> \in Seq(BitOp)
    BY <1>0
  <2>2. Final(<<a, b>>, V) = Final(<<b>>, Do(a, V))
    BY <2>1, FinalCons
  <2>. QED BY <1>0, <1>1, <2>2
<1>3. ASSUME NEW a \in BitOp, NEW b \in BitOp, NEW c \in BitOp, NEW V \in SUBSET Bit
      PROVE  Final(<<a, b, c>>, V) = Do(c, Do(b, Do(a, V)))
  <2>1. /\ <<a, b, c>> \in Seq(StateOp) /\ <<a, b, c>> # << >> /\ Head(<<a, b, c>>) = a
        /\ Tail(<<a, b, c>>) = <<b, c>> /\ <<b, c>> \in Seq(BitOp)
    BY <1>0
  <2>2. Final(<<a, b, c>>, V) = Final(<<b, c>>, Do(a, V))
    BY <2>1, FinalCons
  <2>. QED BY <1>0, <1>1, <1>2, <2>2
<1>4. ASSUME NEW a \in BitOp, NEW b \in BitOp, NEW c \in BitOp, NEW d \in BitOp, NEW V \in SUBSET Bit
      PROVE  Final(<<a, b, c, d>>, V) = Do(d, Do(c, Do(b, Do(a, V))))
  <2>1. /\ <<a, b, c, d>> \in Seq(StateOp) /\ <<a, b, c, d>> # << >> /\ Head(<<a, b, c, d>>) = a
        /\ Tail(<<a, b, c, d>>) = <<b, c, d>> /\ <<b, c, d>> \in Seq(BitOp)
    BY <1>0
  <2>2. Final(<<a, b, c, d>>, V) = Final(<<b, c, d>>, Do(a, V))
    BY <2>1, FinalCons
  <2>3. Final(<<b, c, d>>, Do(a, V)) = Do(d, Do(c, Do(b, Do(a, V))))
    <3>1. Do(a, V) \in SUBSET Bit
      BY <1>0, <1>1
    <3>. QED BY <1>3, <3>1
  <2>. QED BY <2>2, <2>3
<1>5. ASSUME NEW a \in BitOp, NEW b \in BitOp, NEW c \in BitOp, NEW d \in BitOp, NEW e \in BitOp
      PROVE  Final(<<a, b, c, d, e>>, S) = Do(e, Do(d, Do(c, Do(b, Do(a, S)))))
  <2>1. /\ <<a, b, c, d, e>> \in Seq(StateOp) /\ <<a, b, c, d, e>> # << >>
        /\ Head(<<a, b, c, d, e>>) = a
        /\ Tail(<<a, b, c, d, e>>) = <<b, c, d, e>> /\ <<b, c, d, e>> \in Seq(BitOp)
    BY <1>0
  <2>2. Final(<<a, b, c, d, e>>, S) = Final(<<b, c, d, e>>, Do(a, S))
    BY <2>1, FinalCons
  <2>3. Final(<<b, c, d, e>>, Do(a, S)) = Do(e, Do(d, Do(c, Do(b, Do(a, S)))))
    <3>1. Do(a, S) \in SUBSET Bit
      BY <1>0, <1>1
    <3>. QED BY <1>4, <3>1
  <2>. QED BY <2>2, <2>3
<1>. QED BY <1>1, <1>2, <1>3, <1>4, <1>5

LEMMA BitOps ==
  /\ \A b \in Bit : Add(b) \in BitOp /\ Rm(b) \in BitOp /\ RmIf(b) \in BitOp
  /\ \A S \in SUBSET Bit : Store(S) \in BitOp
  /\ \A w \in {"pic", "live"} : Own(w) \in BitOp /\ Disown(w) \in BitOp
  /\ \A i \in Nat : AddId(i) \in BitOp /\ GotId(i) \in BitOp
  /\ Link(TRUE) \in StateOp /\ Link(FALSE) \in StateOp
<1>1. \A b \in Bit : Add(b) \in BitOp /\ Rm(b) \in BitOp /\ RmIf(b) \in BitOp
  BY OpFacts DEF BitOp, OtherOp, Add, Rm, RmIf
<1>2. \A S \in SUBSET Bit : Store(S) \in BitOp
  BY OpFacts DEF BitOp, OtherOp, Store
<1>3. \A w \in {"pic", "live"} : Own(w) \in BitOp /\ Disown(w) \in BitOp
  BY OpFacts DEF BitOp, OtherOp, Own, Disown
<1>4. \A i \in Nat : AddId(i) \in BitOp /\ GotId(i) \in BitOp
  BY OpFacts DEF BitOp, OtherOp, AddId, GotId
<1>. QED BY <1>1, <1>2, <1>3, <1>4 DEF StateOp

LEMMA DoEach ==
  /\ \A b, S : Do(Add(b), S) = S \cup {b} /\ Do(Rm(b), S) = S \ {b} /\ Do(RmIf(b), S) = S \ {b}
  /\ \A V, S : Do(Store(V), S) = V
  /\ \A w, S : Do(Own(w), S) = S /\ Do(Disown(w), S) = S
  /\ \A i, S : Do(AddId(i), S) = S /\ Do(GotId(i), S) = S
  /\ \A S : Do(Link(TRUE), S) = Linked(TRUE, S) /\ Do(Link(FALSE), S) = Linked(FALSE, S)
  BY DEF Do, Add, Rm, RmIf, Store, Own, Disown, AddId, GotId, Link

LEMMA JoinOne ==
  /\ \A a : <<a>> \o << >> = <<a>>
  /\ \A a, b : <<a>> \o <<b>> = <<a, b>>
<1>1. ASSUME NEW a
      PROVE  <<a>> \o << >> = <<a>>
  <2>1. <<a>> \in Seq({a})
    OBVIOUS
  <2>. QED BY <2>1
<1>2. ASSUME NEW a, NEW b
      PROVE  <<a>> \o <<b>> = <<a, b>>
  <2>1. <<a>> \in Seq({a, b}) /\ <<b>> \in Seq({a, b}) /\ <<a, b>> \in Seq({a, b})
    OBVIOUS
  <2>2. <<a>> \o <<b>> \in Seq({a, b}) /\ Len(<<a>> \o <<b>>) = 2
    BY <2>1
  <2>3. (<<a>> \o <<b>>)[1] = a /\ (<<a>> \o <<b>>)[2] = b
    BY <2>1
  <2>4. Len(<<a, b>>) = 2 /\ \A i \in 1 .. 2 : (<<a>> \o <<b>>)[i] = <<a, b>>[i]
    <3>1. \A i \in 1 .. 2 : i = 1 \/ i = 2
      OBVIOUS
    <3>. QED BY <2>3, <3>1
  <2>. QED BY <2>1, <2>2, <2>4, SeqEqual
<1>. QED BY <1>1, <1>2

LEMMA AppendTwo ==
  /\ \A a : Append(<< >>, a) = <<a>>
  /\ \A a, b : Append(<<a>>, b) = <<a, b>>
<1>1. ASSUME NEW a, NEW b
      PROVE  Append(<<a>>, b) = <<a, b>>
  <2>1. /\ <<a>> \in Seq({a, b}) /\ <<a, b>> \in Seq({a, b}) /\ Append(<<a>>, b) \in Seq({a, b})
        /\ Len(Append(<<a>>, b)) = 2 /\ Len(<<a, b>>) = 2
    OBVIOUS
  <2>2. Append(<<a>>, b)[1] = a /\ Append(<<a>>, b)[2] = b /\ \A i \in 1 .. 2 : i = 1 \/ i = 2
    OBVIOUS
  <2>3. \A i \in 1 .. 2 : Append(<<a>>, b)[i] = <<a, b>>[i]
    BY <2>2
  <2>. QED BY <2>1, <2>3, SeqEqual
<1>2. \A a : Append(<< >>, a) = <<a>>
  OBVIOUS
<1>. QED BY <1>1, <1>2

LEMMA JoinThree ==
  /\ \A a, b, c : <<a, b, c>> \o << >> = <<a, b, c>>
  /\ \A a, b, c, d : <<a, b, c>> \o <<d>> = <<a, b, c, d>>
<1>1. ASSUME NEW a, NEW b, NEW c
      PROVE  <<a, b, c>> \o << >> = <<a, b, c>>
  <2>1. <<a, b, c>> \in Seq({a, b, c})
    OBVIOUS
  <2>. QED BY <2>1, ConcatEmptySeq
<1>2. ASSUME NEW a, NEW b, NEW c, NEW d
      PROVE  <<a, b, c>> \o <<d>> = <<a, b, c, d>>
  <2>. DEFINE X == {a, b, c, d}
  <2>1. <<a, b, c>> \in Seq(X) /\ <<d>> \in Seq(X) /\ <<a, b, c, d>> \in Seq(X)
    OBVIOUS
  <2>2. <<a, b, c>> \o <<d>> \in Seq(X) /\ Len(<<a, b, c>> \o <<d>>) = 4
    BY <2>1
  <2>3. /\ (<<a, b, c>> \o <<d>>)[1] = a /\ (<<a, b, c>> \o <<d>>)[2] = b
        /\ (<<a, b, c>> \o <<d>>)[3] = c /\ (<<a, b, c>> \o <<d>>)[4] = d
    BY <2>1
  <2>4. Len(<<a, b, c, d>>) = 4 /\ \A i \in 1 .. 4 : (<<a, b, c>> \o <<d>>)[i] = <<a, b, c, d>>[i]
    <3>1. \A i \in 1 .. 4 : i = 1 \/ i = 2 \/ i = 3 \/ i = 4
      OBVIOUS
    <3>. QED BY <2>3, <3>1
  <2>. QED BY <2>1, <2>2, <2>4, SeqEqual
<1>. QED BY <1>1, <1>2

\* What follows the last operation on the state word does not matter to it.
LEMMA FinalQuiet ==
  ASSUME NEW s \in Seq(Op), NEW o \in Op, Changes(o) = {}, NEW S
  PROVE  Final(Append(s, o), S) = Final(s, S) /\ Final(s \o <<o>>, S) = Final(s, S)
<1>1. ASSUME NEW r, Len(r) = Len(s) + 1, r[Len(s) + 1] = o, \A k \in 1 .. Len(s) : r[k] = s[k]
      PROVE  Final(r, S) = Final(s, S)
  <2>1. Len(s) \in Nat /\ \A k \in 1 .. Len(s) + 1 : k = Len(s) + 1 \/ k \in 1 .. Len(s)
    OBVIOUS
  <2>2. \A k \in 1 .. Len(s) : k \in 1 .. Len(s) + 1
    OBVIOUS
  <2>. QED BY <1>1, <2>1, <2>2 DEF Final, Decides
<1>2. /\ Len(Append(s, o)) = Len(s) + 1 /\ Append(s, o)[Len(s) + 1] = o
      /\ \A k \in 1 .. Len(s) : Append(s, o)[k] = s[k]
  OBVIOUS
<1>3. /\ Len(s \o <<o>>) = Len(s) + 1 /\ (s \o <<o>>)[Len(s) + 1] = o
      /\ \A k \in 1 .. Len(s) : (s \o <<o>>)[k] = s[k]
  <2>1. <<o>> \in Seq(Op) /\ Len(<<o>>) = 1 /\ <<o>>[1] = o /\ Len(s) \in Nat
    OBVIOUS
  <2>. QED BY <2>1, ConcatProperties
<1>. QED BY <1>1, <1>2, <1>3

\* What a handler that is not stopped on its way leaves of the state word.
LEMMA ClaimFinal ==
  ASSUME NEW t \in Thread, NEW S \in SUBSET Bit
  PROVE  /\ Final(Claim(t, "start_record"), S) = S \cup {"START_RECORDING"}
         /\ Final(Claim(t, "stop_record"), S) = S \cup {"STOP_RECORDING"}
         /\ Final(Claim(t, "take_pic"), S) = S \cup {"CAPTURE"}
         /\ \A c \in {"start_live", "start_live_save"} : Final(Claim(t, c), S) = S \cup {"START_LIVING"}
         /\ Final(Claim(t, "stop_live"), S) = S \cup {"STOP_LIVING"}
         /\ Final(Claim(t, "start_preview"), S) = S \cup {"START_PREVIEWING"}
         /\ Final(Claim(t, "stop_preview"), S) = S \cup {"STOP_PREVIEWING"}
         /\ \A c \in {"power_off", "plain"} : Final(Claim(t, c), S) = S
<1>1. ASSUME NEW b \in Bit
      PROVE  Final(<<Add(b)>>, S) = S \cup {b}
  <2>1. Add(b) \in StateOp
    BY BitOps DEF StateOp
  <2>2. Final(<<Add(b)>>, S) = Do(Add(b), S)
    BY <2>1, FinalOf
  <2>. QED BY <2>2, DoEach
<1>2. ASSUME NEW b \in Bit, NEW w \in {"pic", "live"}
      PROVE  Final(<<Add(b)>> \o OwnIf(t, w), S) = S \cup {b}
  <2>1. <<Add(b)>> \o OwnIf(t, w) \in {<<Add(b)>>, <<Add(b), Own(w)>>}
    BY JoinOne DEF OwnIf
  <2>2. Final(<<Add(b), Own(w)>>, S) = S \cup {b}
    <3>1. Add(b) \in BitOp /\ Own(w) \in BitOp
      BY BitOps
    <3>2. Final(<<Add(b), Own(w)>>, S) = Do(Own(w), Do(Add(b), S))
      BY <3>1, FinalOf
    <3>. QED BY <3>2, DoEach
  <2>. QED BY <1>1, <2>1, <2>2
<1>3. {"START_RECORDING", "STOP_RECORDING", "CAPTURE", "START_LIVING", "STOP_LIVING",
       "START_PREVIEWING", "STOP_PREVIEWING"} \subseteq Bit
  BY DEF Bit
<1>. QED BY <1>1, <1>2, <1>3, FinalNil DEF Claim

\* ... of one that is refused ...
LEMMA FailFinal ==
  ASSUME NEW S \in SUBSET Bit
  PROVE  /\ Final(Fail("start_record"), S) = S \ {"START_RECORDING", "RECORD"}
         /\ Final(Fail("stop_record"), S) = S \ {"STOP_RECORDING"}
         /\ Final(Fail("take_pic"), S) = S \ {"CAPTURE"}
         /\ \A c \in {"start_live", "start_live_save"} : Final(Fail(c), S) = S \ {"START_LIVING"}
         /\ Final(Fail("stop_live"), S) = S \ {"STOP_LIVING"}
         /\ Final(Fail("start_preview"), S) = S \ {"START_PREVIEWING"}
         /\ Final(Fail("stop_preview"), S) = S \ {"STOP_PREVIEWING", "PREVIEW"}
         /\ \A c \in {"power_off", "plain"} : Final(Fail(c), S) = S
<1>1. /\ \A b \in Bit : Rm(b) \in BitOp /\ RmIf(b) \in BitOp
      /\ Disown("pic") \in BitOp /\ Disown("live") \in BitOp /\ BitOp \subseteq StateOp
  BY BitOps DEF StateOp
<1>2. \A b \in Bit : Final(<<Rm(b)>>, S) = S \ {b} /\ Final(<<RmIf(b)>>, S) = S \ {b}
  <2>1. \A a \in StateOp : Final(<<a>>, S) = Do(a, S)
    BY FinalOf
  <2>. QED BY <1>1, <2>1, DoEach
<1>3. \A b, c \in Bit : /\ Final(<<RmIf(b), RmIf(c)>>, S) = S \ {b, c}
                        /\ Final(<<Rm(b), Rm(c)>>, S) = S \ {b, c}
  <2>1. \A a, b \in BitOp : Final(<<a, b>>, S) = Do(b, Do(a, S))
    BY FinalOf
  <2>. QED BY <1>1, <2>1, DoEach
<1>4. \A b \in Bit : /\ Final(<<Disown("pic"), Rm(b)>>, S) = S \ {b}
                     /\ Final(<<Disown("live"), Rm(b)>>, S) = S \ {b}
  <2>1. \A a, b \in BitOp : Final(<<a, b>>, S) = Do(b, Do(a, S))
    BY FinalOf
  <2>. QED BY <1>1, <2>1, DoEach
<1>5. {"START_RECORDING", "RECORD", "STOP_RECORDING", "CAPTURE", "START_LIVING", "STOP_LIVING",
       "START_PREVIEWING", "STOP_PREVIEWING", "PREVIEW"} \subseteq Bit
  BY DEF Bit
<1>6. /\ Final(RecFail, S) = S \ {"START_RECORDING", "RECORD"}
      /\ Final(RecStopFail, S) = S \ {"STOP_RECORDING"}
      /\ Final(TakePicFail, S) = S \ {"CAPTURE"}
      /\ Final(LiveFail, S) = S \ {"START_LIVING"}
      /\ Final(StopLiveFail, S) = S \ {"STOP_LIVING"}
      /\ Final(PreviewFail, S) = S \ {"START_PREVIEWING"}
      /\ Final(StopPreviewFail, S) = S \ {"STOP_PREVIEWING", "PREVIEW"}
  BY <1>2, <1>3, <1>4, <1>5 DEF RecFail, RecStopFail, TakePicFail, LiveFail, StopLiveFail,
     PreviewFail, StopPreviewFail
<1>. QED BY <1>6, FinalNil DEF Fail

\* ... of one that is accepted ...
LEMMA DoneFinal ==
  ASSUME NEW S \in SUBSET Bit, NEW r
  PROVE  /\ Final(Done("start_record", r), S) = (S \cup {"RECORD"}) \ {"START_RECORDING"}
         /\ Final(Done("stop_record", r), S) = S \ {"RECORD"}
         /\ Final(Done("take_pic", r), S) = S
         /\ Final(Done("start_live", r), S) = (S \ {"START_LIVING"}) \cup {"LIVE"}
         /\ Final(Done("start_live_save", r), S) = (S \ {"START_LIVING"}) \cup {"LIVE", "RECORD"}
         /\ Final(Done("stop_live", r), S)
              = (S \cup {"STOP_LIVING"}) \ {"LIVE", "LIVE_CONNECTING", "RECORD"}
         /\ Final(Done("start_preview", r), S) = (S \ {"START_PREVIEWING"}) \cup {"PREVIEW"}
         /\ Final(Done("stop_preview", r), S) = S \ {"PREVIEW", "STOP_PREVIEWING"}
         /\ \A c \in {"power_off", "plain"} : Final(Done(c, r), S) = S
<1>1. /\ \A b \in Bit : Add(b) \in BitOp /\ Rm(b) \in BitOp /\ RmIf(b) \in BitOp
      /\ Disown("live") \in BitOp /\ BitOp \subseteq StateOp
  BY BitOps DEF StateOp
<1>2. {"START_RECORDING", "RECORD", "START_LIVING", "STOP_LIVING", "LIVE", "LIVE_CONNECTING",
       "START_PREVIEWING", "STOP_PREVIEWING", "PREVIEW"} \subseteq Bit
  BY DEF Bit
<1>3. Final(RecStopDone, S) = S \ {"RECORD"}
  <2>1. \A a \in StateOp : Final(<<a>>, S) = Do(a, S)
    BY FinalOf
  <2>. QED BY <1>1, <1>2, <2>1, DoEach DEF RecStopDone
<1>4. /\ Final(RecDone, S) = (S \cup {"RECORD"}) \ {"START_RECORDING"}
      /\ Final(PreviewDone, S) = (S \ {"START_PREVIEWING"}) \cup {"PREVIEW"}
      /\ Final(StopPreviewDone, S) = S \ {"PREVIEW", "STOP_PREVIEWING"}
  <2>1. \A a, b \in BitOp : Final(<<a, b>>, S) = Do(b, Do(a, S))
    BY FinalOf
  <2>2. \A b, c \in Bit : /\ Final(<<Add(b), RmIf(c)>>, S) = (S \cup {b}) \ {c}
                          /\ Final(<<Rm(b), Add(c)>>, S) = (S \ {b}) \cup {c}
                          /\ Final(<<Rm(b), Rm(c)>>, S) = S \ {b, c}
    BY <1>1, <2>1, DoEach
  <2>. QED BY <1>2, <2>2 DEF RecDone, PreviewDone, StopPreviewDone
<1>5. Final(Done("start_live", r), S) = (S \ {"START_LIVING"}) \cup {"LIVE"}
  <2>1. Done("start_live", r) = <<Disown("live"), RmIf("START_LIVING"), Add("LIVE")>>
    BY JoinThree DEF Done, LiveDone
  <2>2. \A a, b, c \in BitOp : Final(<<a, b, c>>, S) = Do(c, Do(b, Do(a, S)))
    BY FinalOf
  <2>. QED BY <1>1, <1>2, <2>1, <2>2, DoEach
<1>6. Final(Done("start_live_save", r), S) = (S \ {"START_LIVING"}) \cup {"LIVE", "RECORD"}
  <2>1. Done("start_live_save", r)
          = <<Disown("live"), RmIf("START_LIVING"), Add("LIVE"), Add("RECORD")>>
    BY JoinThree DEF Done, LiveDone
  <2>2. \A a, b, c, d \in BitOp : Final(<<a, b, c, d>>, S) = Do(d, Do(c, Do(b, Do(a, S))))
    BY FinalOf
  <2>3. Final(Done("start_live_save", r), S)
          = Do(Add("RECORD"), Do(Add("LIVE"), Do(RmIf("START_LIVING"), Do(Disown("live"), S))))
    BY <1>1, <1>2, <2>1, <2>2, SMTT(30)
  <2>. QED BY <2>3, DoEach
<1>7. Final(StopLiveDone, S) = (S \cup {"STOP_LIVING"}) \ {"LIVE", "LIVE_CONNECTING", "RECORD"}
  <2>1. \A a, b, c, d \in BitOp : Final(<<a, b, c, d>>, S) = Do(d, Do(c, Do(b, Do(a, S))))
    BY FinalOf
  <2>2. Final(StopLiveDone, S) = Do(RmIf("RECORD"), Do(RmIf("LIVE_CONNECTING"), Do(RmIf("LIVE"),
                                                                  Do(Add("STOP_LIVING"), S))))
    BY <1>1, <1>2, <2>1 DEF StopLiveDone
  <2>. QED BY <2>2, DoEach
<1>. QED BY <1>3, <1>4, <1>5, <1>6, <1>7, FinalNil DEF Done

\* ... and of a notification.
Handled(n, S) ==
  CASE n = "record_finish"   -> S \ {"RECORD", "STOP_RECORDING"}
    [] n = "pic_org_finish"  -> (S \ {"CAPTURE"}) \cup {"STITCHING"}
    [] n = "pic_finish"      -> S \ {"CAPTURE", "STITCHING"}
    [] n = "preview_finish"  -> S \ {"PREVIEW", "STOP_PREVIEWING", "RECORD"}
    [] n = "live_finish"     -> S \ {"LIVE", "LIVE_CONNECTING", "STOP_LIVING", "RECORD"}
    [] n = "live_rec_finish" -> S \ {"RECORD"}
    [] n = "link_down"       -> Linked(FALSE, S)
    [] n = "link_up"         -> Linked(TRUE, S)

LEMMA NotifiedFinal ==
  ASSUME NEW n \in Notice, NEW i \in Nat, NEW S \in SUBSET Bit
  PROVE  Final(Notified(n, i), S) = Handled(n, S)
<1>1. /\ \A b \in Bit : Add(b) \in BitOp /\ RmIf(b) \in BitOp /\ BitOp \subseteq StateOp
      /\ Disown("pic") \in BitOp
  BY BitOps DEF StateOp
<1>2. {"RECORD", "STOP_RECORDING", "CAPTURE", "STITCHING", "PREVIEW", "STOP_PREVIEWING", "LIVE",
       "LIVE_CONNECTING", "STOP_LIVING"} \subseteq Bit
  BY DEF Bit
<1>3. \A s \in Seq(Op) : Final(Append(s, GotId(i)), S) = Final(s, S)
  <2>1. GotId(i) \in Op /\ Changes(GotId(i)) = {}
    BY OpFacts DEF GotId, Changes, OtherOp
  <2>. QED BY <2>1, FinalQuiet
<1>4. RecNotify \in Seq(Op) /\ PicNotify \in Seq(Op) /\ LiveFinish \in Seq(Op)
  BY OpFacts, Lists DEF Bit, OtherOp, RecNotify, PicNotify, LiveFinish
<1>5. Final(RecNotify, S) = S \ {"RECORD", "STOP_RECORDING"}
  <2>1. \A a, b \in BitOp : Final(<<a, b>>, S) = Do(b, Do(a, S))
    BY FinalOf
  <2>. QED BY <1>1, <1>2, <2>1, DoEach DEF RecNotify
<1>6. Final(PicOrgFinish, S) = (S \ {"CAPTURE"}) \cup {"STITCHING"}
  <2>1. \A a, b \in BitOp : Final(<<a, b>>, S) = Do(b, Do(a, S))
    BY FinalOf
  <2>. QED BY <1>1, <1>2, <2>1, DoEach DEF PicOrgFinish
<1>7. Final(PicNotify, S) = S \ {"CAPTURE", "STITCHING"}
  <2>1. \A a, b, c \in BitOp : Final(<<a, b, c>>, S) = Do(c, Do(b, Do(a, S)))
    BY FinalOf
  <2>. QED BY <1>1, <1>2, <2>1, DoEach DEF PicNotify
<1>8. Final(PreviewFinishNotify, S) = S \ {"PREVIEW", "STOP_PREVIEWING", "RECORD"}
  <2>1. \A a, b, c \in BitOp : Final(<<a, b, c>>, S) = Do(c, Do(b, Do(a, S)))
    BY FinalOf
  <2>. QED BY <1>1, <1>2, <2>1, DoEach DEF PreviewFinishNotify
<1>9. Final(LiveFinish, S) = S \ {"LIVE", "LIVE_CONNECTING", "STOP_LIVING", "RECORD"}
  <2>1. \A a, b, c, d \in BitOp : Final(<<a, b, c, d>>, S) = Do(d, Do(c, Do(b, Do(a, S))))
    BY FinalOf
  <2>2. Final(LiveFinish, S) = Do(RmIf("RECORD"), Do(RmIf("STOP_LIVING"), Do(RmIf("LIVE_CONNECTING"),
                                                                     Do(RmIf("LIVE"), S))))
    BY <1>1, <1>2, <2>1 DEF LiveFinish
  <2>. QED BY <2>2, DoEach
<1>10. /\ Final(LiveRecFinish, S) = S \ {"RECORD"}
       /\ Final(<<Link(TRUE)>>, S) = Linked(TRUE, S) /\ Final(<<Link(FALSE)>>, S) = Linked(FALSE, S)
  <2>1. \A a \in StateOp : Final(<<a>>, S) = Do(a, S)
    BY FinalOf
  <2>. QED BY <1>1, <1>2, <2>1, BitOps, DoEach DEF LiveRecFinish
<1>. QED BY <1>3, <1>4, <1>5, <1>6, <1>7, <1>8, <1>9, <1>10 DEF Notified, Handled, Notice

-----------------------------------------------------------------------------
(***************************************************************************)
(* What the state word says, what camerad does, and what it has told that  *)
(* is not yet handled, in the order in which it will be.                   *)
(***************************************************************************)
LinkNotice == {"link_up", "link_down"}
LiveNotice == LinkNotice \cup {"live_rec_finish"}

Told(q, n) == \E k \in 1 .. Len(q) : q[k] = n

\* The last that is told about the link, or the state word if nothing is, says that
\* it is down.
LinkIsDown(M, q) ==
  \/ \E k \in 1 .. Len(q) :
       q[k] = "link_down" /\ \A j \in 1 .. Len(q) : j > k => q[j] \notin LinkNotice
  \/ (\A k \in 1 .. Len(q) : q[k] \notin LinkNotice) /\ "LIVE_CONNECTING" \in M

Recording(M, B, q) ==
  \/ M = {"RECORD"} /\ B = {"record"} /\ q = << >>
  \/ M \in {{"RECORD"}, {"STOP_RECORDING"}} /\ B = {} /\ q = <<"record_finish">>
  \/ M = {"STOP_RECORDING"} /\ B = {"record_end"} /\ q = << >>

Picture(M, B, q) ==
  \/ M = {"CAPTURE"} /\ B = {"capture"} /\ q = << >>
  \/ M = {"CAPTURE"} /\ B = {"stitch"} /\ q = <<"pic_org_finish">>
  \/ M = {"CAPTURE"} /\ B = {} /\ q \in {<<"pic_finish">>, <<"pic_org_finish", "pic_finish">>}
  \/ M = {"STITCHING"} /\ B = {"stitch"} /\ q = << >>
  \/ M = {"STITCHING"} /\ B = {} /\ q = <<"pic_finish">>

LiveBits(M) == M \in {{"LIVE"}, {"LIVE_CONNECTING"}, {"LIVE", "RECORD"}, {"LIVE_CONNECTING", "RECORD"}}

Live(M, B, q) ==
  /\ LiveBits(M) /\ "live" \in B /\ B \subseteq {"live", "live_rec", "link_down"}
  /\ q \in Seq(LiveNotice)
  /\ "RECORD" \in M => "live_rec" \in B \/ Told(q, "live_rec_finish")
  /\ "live_rec" \in B => "RECORD" \in M /\ ~Told(q, "live_rec_finish")
  /\ "link_down" \in B <=> LinkIsDown(M, q)

LiveStops(M, B, q) == M = {"STOP_LIVING"} /\ B = {"live_end"} /\ q \in Seq(LiveNotice)

LiveEnded(M, B, q) ==
  /\ LiveBits(M) \/ M = {"STOP_LIVING"}
  /\ B = {} /\ \E r \in Seq(LiveNotice) : q = Append(r, "live_finish")

Matches(M, B, q) ==
  \/ M = {} /\ B = {} /\ q = << >>
  \/ Recording(M, B, q) \/ Picture(M, B, q)
  \/ Live(M, B, q) \/ LiveStops(M, B, q) \/ LiveEnded(M, B, q)

\* S is right when the notices of q are all there is to handle.
Agrees(S, A, q) ==
  ("PREVIEW" \in S <=> "preview" \in A) /\ Matches(S \ {"PREVIEW"}, A \ {"preview"}, q)

\* What is told and not yet handled.
Telling ==
  (IF th[Notifier].pc = "lock" THEN <<th[Notifier].cmd>> ELSE << >>)
    \o [k \in 1 .. Len(notices) |-> notices[k].name]

Right(S) == S \in SUBSET Bit /\ Agrees(S, Acts, Telling)

\* Whoever has operations to do has sem_camera, but for the poll timer's power_off
\* it takes sem_camera to be in a handler, and nobody asks for the state.
OnlyHolder ==
  \A t \in Thread :
    /\ th[t].ops # << >> => /\ t = semCamera /\ th[t].pc \in {"call", "after"}
                            /\ th[t].ops \in Seq(StateOp) /\ Tail(th[t].ops) \in Seq(BitOp)
    /\ th[t].pc \in {"check", "call", "wait", "after"} /\ t # semCamera => th[t].cmd = "power_off"
    /\ th[t].cmd \notin {"sync_info", "query_state"}

Unique == \A d, e \in doing : d.act = e.act => d = e

\* What an answer does to the state word, the list of async commands left aside.
Callback(c, a) == IF a.ok THEN Done(c, a.state) ELSE Fail(c)

\* The state word will be right when t, which has sem_camera, is done with its
\* operations; before camerad has answered, it was when the request was checked.
InOrder(t) ==
  /\ th[t].pc = "check" => Right(camState)
  /\ th[t].pc = "call" \/ (th[t].pc = "wait" /\ toClient = << >>) =>
       \E S \in SUBSET Bit : /\ Right(S) /\ Allowed(t, th[t].cmd, S)
                             /\ Final(th[t].ops, camState) = Final(Claim(t, th[t].cmd), S)
  /\ th[t].pc = "wait" /\ toClient # << >> =>
       Right(Final(Callback(th[t].cmd, Head(toClient)), camState))
  /\ th[t].pc = "after" => Right(Final(th[t].ops, camState))

Progress ==
  /\ semCamera = NoThread => Right(camState)
  /\ \A t \in Thread : t = semCamera => InOrder(t)

CInv == AInv /\ OnlyHolder /\ Unique /\ Progress

-----------------------------------------------------------------------------
(***************************************************************************)
(* One more notice, one notice less                                        *)
(***************************************************************************)
LEMMA HeadOf ==
  ASSUME NEW X, NEW q \in Seq(X), q # << >>
  PROVE  /\ Head(q) = q[1] /\ Head(q) \in X /\ Tail(q) \in Seq(X) /\ Len(q) = Len(Tail(q)) + 1
         /\ Len(Tail(q)) \in Nat
         /\ \A k \in 1 .. Len(q) : k = 1 \/ (k - 1 \in 1 .. Len(Tail(q)) /\ q[k] = Tail(q)[k - 1])
         /\ \A k \in 1 .. Len(Tail(q)) : k + 1 \in 1 .. Len(q) /\ Tail(q)[k] = q[k + 1]
  OBVIOUS

LEMMA LastOf ==
  ASSUME NEW X, NEW q \in Seq(X), NEW n
  PROVE  /\ Len(Append(q, n)) = Len(q) + 1 /\ Len(q) \in Nat /\ Append(q, n)[Len(q) + 1] = n
         /\ \A k \in 1 .. Len(q) : k \in 1 .. Len(q) + 1 /\ Append(q, n)[k] = q[k]
         /\ \A k \in 1 .. Len(q) + 1 : k = Len(q) + 1 \/ k \in 1 .. Len(q)
  OBVIOUS

LEMMA ToldFacts ==
  ASSUME NEW X, NEW q \in Seq(X), NEW n
  PROVE  /\ ~Told(<< >>, n)
         /\ \A m : Told(Append(q, m), n) <=> Told(q, n) \/ m = n
         /\ q # << >> => (Told(q, n) <=> Head(q) = n \/ Told(Tail(q), n))
<1>1. ~Told(<< >>, n)
  BY DEF Told
<1>2. ASSUME NEW m
      PROVE  Told(Append(q, m), n) <=> Told(q, n) \/ m = n
  BY LastOf DEF Told
<1>3. ASSUME q # << >>
      PROVE  Told(q, n) <=> Head(q) = n \/ Told(Tail(q), n)
  <2>. DEFINE r == Tail(q)
  <2>1. /\ Head(q) = q[1] /\ 1 \in 1 .. Len(q)
        /\ \A k \in 1 .. Len(q) : k = 1 \/ (k - 1 \in 1 .. Len(r) /\ q[k] = r[k - 1])
        /\ \A k \in 1 .. Len(r) : k + 1 \in 1 .. Len(q) /\ r[k] = q[k + 1]
    BY <1>3, HeadOf
  <2>. HIDE DEF r
  <2>2. Told(q, n) => q[1] = n \/ Told(r, n)
    BY <2>1 DEF Told
  <2>3. q[1] = n \/ Told(r, n) => Told(q, n)
    BY <2>1 DEF Told
  <2>. QED BY <2>1, <2>2, <2>3 DEF r
<1>. QED BY <1>1, <1>2, <1>3

LEMMA LinkFacts ==
  ASSUME NEW X, NEW q \in Seq(X), NEW M
  PROVE  /\ LinkIsDown(M, << >>) <=> "LIVE_CONNECTING" \in M
         /\ \A n \in X : LinkIsDown(M, Append(q, n)) <=>
              n = "link_down" \/ (n \notin LinkNotice /\ LinkIsDown(M, q))
<1>1. LinkIsDown(M, << >>) <=> "LIVE_CONNECTING" \in M
  BY DEF LinkIsDown
<1>2. ASSUME NEW n \in X
      PROVE  LinkIsDown(M, Append(q, n)) <=>
               n = "link_down" \/ (n \notin LinkNotice /\ LinkIsDown(M, q))
  <2>. DEFINE s == Append(q, n)
              L == Len(q)
  <2>1. /\ Len(s) = L + 1 /\ L \in Nat /\ s[L + 1] = n
        /\ \A k \in 1 .. L : k \in 1 .. L + 1 /\ s[k] = q[k]
        /\ \A k \in 1 .. L + 1 : k = L + 1 \/ k \in 1 .. L
    BY LastOf
  <2>. HIDE DEF s
  <2>2. CASE n \in LinkNotice
    <3>1. LinkIsDown(M, s) => n = "link_down"
      BY <2>1, <2>2 DEF LinkIsDown
    <3>2. n = "link_down" => LinkIsDown(M, s)
      BY <2>1 DEF LinkIsDown
    <3>. QED BY <2>2, <3>1, <3>2 DEF s
  <2>3. CASE n \notin LinkNotice
    <3>0. n # "link_down"
      BY <2>3 DEF LinkNotice
    <3>1. (\A k \in 1 .. Len(s) : s[k] \notin LinkNotice) <=> (\A k \in 1 .. L : q[k] \notin LinkNotice)
      BY <2>1, <2>3
    <3>2. \A k \in 1 .. L : (\A j \in 1 .. Len(s) : j > k => s[j] \notin LinkNotice)
                            <=> (\A j \in 1 .. L : j > k => q[j] \notin LinkNotice)
      BY <2>1, <2>3
    <3>3. (\E k \in 1 .. Len(s) :
             s[k] = "link_down" /\ \A j \in 1 .. Len(s) : j > k => s[j] \notin LinkNotice)
          <=> (\E k \in 1 .. L :
                 q[k] = "link_down" /\ \A j \in 1 .. L : j > k => q[j] \notin LinkNotice)
      BY <2>1, <3>0, <3>2
    <3>. QED BY <2>3, <3>0, <3>1, <3>3 DEF LinkIsDown, s
  <2>. QED BY <2>2, <2>3
<1>. QED BY <1>1, <1>2

\* What the first notice does to the state word takes its place.
LEMMA LinkHandled ==
  ASSUME NEW X, NEW q \in Seq(X), q # << >>, NEW M, NEW N,
         "LIVE_CONNECTING" \in N <=>
           Head(q) = "link_down" \/ (Head(q) \notin LinkNotice /\ "LIVE_CONNECTING" \in M)
  PROVE  LinkIsDown(M, q) <=> LinkIsDown(N, Tail(q))
<1>. DEFINE r == Tail(q)
            L == Len(r)
            h == Head(q)
<1>1. /\ h = q[1] /\ Len(q) = L + 1 /\ L \in Nat /\ 1 \in 1 .. Len(q)
      /\ \A k \in 1 .. Len(q) : k = 1 \/ (k - 1 \in 1 .. L /\ q[k] = r[k - 1])
      /\ \A k \in 1 .. L : k + 1 \in 1 .. Len(q) /\ r[k] = q[k + 1]
  BY HeadOf
<1>2. "LIVE_CONNECTING" \in N <=> h = "link_down" \/ (h \notin LinkNotice /\ "LIVE_CONNECTING" \in M)
  OBVIOUS
<1>. HIDE DEF r, h
<1>3. \A k \in 1 .. L : (\A j \in 1 .. Len(q) : j > k + 1 => q[j] \notin LinkNotice)
                        <=> (\A j \in 1 .. L : j > k => r[j] \notin LinkNotice)
  <2>1. ASSUME NEW k \in 1 .. L, \A j \in 1 .. Len(q) : j > k + 1 => q[j] \notin LinkNotice,
               NEW j \in 1 .. L, j > k
        PROVE  r[j] \notin LinkNotice
    BY <1>1, <2>1
  <2>2. ASSUME NEW k \in 1 .. L, \A j \in 1 .. L : j > k => r[j] \notin LinkNotice,
               NEW j \in 1 .. Len(q), j > k + 1
        PROVE  q[j] \notin LinkNotice
    <3>1. j # 1 /\ j - 1 > k
      BY <1>1, <2>2
    <3>2. j - 1 \in 1 .. L /\ q[j] = r[j - 1]
      BY <1>1, <3>1
    <3>. QED BY <2>2, <3>1, <3>2
  <2>. QED BY <2>1, <2>2
<1>4. CASE \A k \in 1 .. L : r[k] \notin LinkNotice
  <2>1. LinkIsDown(N, r) <=> "LIVE_CONNECTING" \in N
    BY <1>4 DEF LinkIsDown, LinkNotice
  <2>2. \A k \in 1 .. Len(q) : k # 1 => q[k] \notin LinkNotice
    BY <1>1, <1>4
  <2>3. LinkIsDown(M, q) <=> h = "link_down" \/ (h \notin LinkNotice /\ "LIVE_CONNECTING" \in M)
    <3>1. "link_down" \in LinkNotice /\ \A j \in 1 .. Len(q) : j > 1 => j # 1
      BY DEF LinkNotice
    <3>. QED BY <1>1, <2>2, <3>1 DEF LinkIsDown
  <2>. QED BY <1>2, <2>1, <2>3 DEF r
<1>5. CASE \E k \in 1 .. L : r[k] \in LinkNotice
  <2>1. \E k \in 1 .. Len(q) : k > 1 /\ q[k] \in LinkNotice
    BY <1>1, <1>5
  <2>2. LinkIsDown(M, q) <=>
          \E k \in 1 .. Len(q) :
            /\ k # 1 /\ q[k] = "link_down" /\ \A j \in 1 .. Len(q) : j > k => q[j] \notin LinkNotice
    BY <2>1 DEF LinkIsDown
  <2>3. LinkIsDown(N, r) <=>
          \E k \in 1 .. L : r[k] = "link_down" /\ \A j \in 1 .. L : j > k => r[j] \notin LinkNotice
    BY <1>5 DEF LinkIsDown
  <2>4. ASSUME NEW k \in 1 .. Len(q), k # 1, q[k] = "link_down",
               \A j \in 1 .. Len(q) : j > k => q[j] \notin LinkNotice
        PROVE  LinkIsDown(N, r)
    <3>1. k - 1 \in 1 .. L /\ r[k - 1] = "link_down" /\ (k - 1) + 1 = k
      BY <1>1, <2>4
    <3>2. \A j \in 1 .. L : j > k - 1 => r[j] \notin LinkNotice
      BY <1>3, <2>4, <3>1
    <3>. QED BY <2>3, <3>1, <3>2
  <2>5. ASSUME NEW k \in 1 .. L, r[k] = "link_down",
               \A j \in 1 .. L : j > k => r[j] \notin LinkNotice
        PROVE  LinkIsDown(M, q)
    <3>1. k + 1 \in 1 .. Len(q) /\ k + 1 # 1 /\ q[k + 1] = "link_down"
      BY <1>1, <2>5
    <3>2. \A j \in 1 .. Len(q) : j > k + 1 => q[j] \notin LinkNotice
      BY <1>3, <2>5
    <3>. QED BY <2>2, <3>1, <3>2
  <2>. QED BY <2>2, <2>3, <2>4, <2>5 DEF r
<1>. QED BY <1>4, <1>5

LEMMA HandledBits ==
  ASSUME NEW n \in Notice \ {"preview_finish"}, NEW S \in SUBSET Bit
  PROVE  /\ Handled(n, S) \in SUBSET Bit
         /\ "PREVIEW" \in Handled(n, S) <=> "PREVIEW" \in S
         /\ Handled(n, S) \ {"PREVIEW"} = Handled(n, S \ {"PREVIEW"})
<1>1. {"STITCHING", "LIVE", "LIVE_CONNECTING"} \subseteq Bit
  BY DEF Bit
<1>2. CASE n = "link_down"
  <2>1. \A V : Handled(n, V) = Linked(FALSE, V)
    BY <1>2 DEF Handled
  <2>. QED BY <1>1, <2>1 DEF Linked
<1>3. CASE n = "link_up"
  <2>1. \A V : Handled(n, V) = Linked(TRUE, V)
    BY <1>3 DEF Handled
  <2>. QED BY <1>1, <2>1 DEF Linked
<1>4. CASE n \notin LinkNotice
  <2>1. \/ \A V : Handled(n, V) = V \ {"RECORD", "STOP_RECORDING"}
        \/ \A V : Handled(n, V) = (V \ {"CAPTURE"}) \cup {"STITCHING"}
        \/ \A V : Handled(n, V) = V \ {"CAPTURE", "STITCHING"}
        \/ \A V : Handled(n, V) = V \ {"LIVE", "LIVE_CONNECTING", "STOP_LIVING", "RECORD"}
        \/ \A V : Handled(n, V) = V \ {"RECORD"}
    BY <1>4 DEF Handled, Notice, LinkNotice
  <2>. QED BY <1>1, <2>1
<1>. QED BY <1>2, <1>3, <1>4 DEF LinkNotice

\* What the notices of a live do to its bits.
LEMMA LiveHandled ==
  ASSUME NEW n \in LiveNotice, NEW M
  PROVE  /\ LiveBits(M) =>
              /\ LiveBits(Handled(n, M))
              /\ "LIVE_CONNECTING" \in Handled(n, M) <=>
                   n = "link_down" \/ (n \notin LinkNotice /\ "LIVE_CONNECTING" \in M)
              /\ "RECORD" \in Handled(n, M) <=> n # "live_rec_finish" /\ "RECORD" \in M
         /\ M = {"STOP_LIVING"} => Handled(n, M) = M
<1>1. CASE n = "link_down"
  <2>1. Handled(n, M) = IF "LIVE" \in M THEN (M \ {"LIVE"}) \cup {"LIVE_CONNECTING"} ELSE M
    BY <1>1 DEF Handled, Linked
  <2>2. LiveBits(M) => /\ LiveBits(Handled(n, M)) /\ "LIVE_CONNECTING" \in Handled(n, M)
                       /\ "RECORD" \in Handled(n, M) <=> "RECORD" \in M
    BY <2>1 DEF LiveBits
  <2>. QED BY <1>1, <2>1, <2>2
<1>2. CASE n = "link_up"
  <2>1. Handled(n, M) = IF "LIVE" \notin M /\ "LIVE_CONNECTING" \in M
                        THEN (M \ {"LIVE_CONNECTING"}) \cup {"LIVE"} ELSE M
    BY <1>2 DEF Handled, Linked
  <2>2. LiveBits(M) => /\ LiveBits(Handled(n, M)) /\ "LIVE_CONNECTING" \notin Handled(n, M)
                       /\ "RECORD" \in Handled(n, M) <=> "RECORD" \in M
    BY <2>1 DEF LiveBits
  <2>. QED BY <1>2, <2>1, <2>2 DEF LinkNotice
<1>3. CASE n = "live_rec_finish"
  <2>1. Handled(n, M) = M \ {"RECORD"} /\ n \notin LinkNotice /\ n # "link_down"
    BY <1>3 DEF Handled, LinkNotice
  <2>2. LiveBits(M) => LiveBits(M \ {"RECORD"})
    BY DEF LiveBits
  <2>. QED BY <1>3, <2>1, <2>2
<1>. QED BY <1>1, <1>2, <1>3 DEF LiveNotice, LinkNotice

LEMMA RecordingHandled ==
  ASSUME NEW M, NEW B, NEW q, q # << >>, Recording(M, B, q)
  PROVE  Head(q) = "record_finish" /\ Matches(Handled(Head(q), M), B, Tail(q))
<1>1. M \in {{"RECORD"}, {"STOP_RECORDING"}} /\ B = {} /\ q = <<"record_finish">>
  BY DEF Recording
<1>2. Head(q) = "record_finish" /\ Tail(q) = << >>
  BY <1>1
<1>3. Handled("record_finish", M) = {}
  BY <1>1 DEF Handled
<1>. QED BY <1>1, <1>2, <1>3 DEF Matches

LEMMA PictureHandled ==
  ASSUME NEW M, NEW B, NEW q, q # << >>, Picture(M, B, q)
  PROVE  /\ Head(q) \in {"pic_org_finish", "pic_finish"}
         /\ Matches(Handled(Head(q), M), B, Tail(q))
<1>1. M \in {{"CAPTURE"}, {"STITCHING"}}
  BY DEF Picture
<1>2. Handled("pic_org_finish", {"CAPTURE"}) = {"STITCHING"} /\ Handled("pic_finish", M) = {}
  BY <1>1 DEF Handled
<1>3. CASE M = {"CAPTURE"} /\ B = {"stitch"} /\ q = <<"pic_org_finish">>
  <2>1. Head(q) = "pic_org_finish" /\ Tail(q) = << >>
    BY <1>3
  <2>. QED BY <1>2, <1>3, <2>1 DEF Matches, Picture
<1>4. CASE B = {} /\ q = <<"pic_finish">>
  <2>1. Head(q) = "pic_finish" /\ Tail(q) = << >>
    BY <1>4
  <2>. QED BY <1>2, <1>4, <2>1 DEF Matches
<1>5. CASE M = {"CAPTURE"} /\ B = {} /\ q = <<"pic_org_finish", "pic_finish">>
  <2>1. Head(q) = "pic_org_finish" /\ Tail(q) = <<"pic_finish">>
    BY <1>5
  <2>. QED BY <1>2, <1>5, <2>1 DEF Matches, Picture
<1>. QED BY <1>3, <1>4, <1>5 DEF Picture

LEMMA LivingHandled ==
  ASSUME NEW M, NEW B, NEW q, q # << >>, Live(M, B, q) \/ LiveStops(M, B, q)
  PROVE  Head(q) \in LiveNotice /\ Matches(Handled(Head(q), M), B, Tail(q))
<1>1. q \in Seq(LiveNotice)
  BY DEF Live, LiveStops
<1>2. Head(q) \in LiveNotice /\ Tail(q) \in Seq(LiveNotice)
  BY <1>1
<1>. DEFINE N == Handled(Head(q), M)
<1>3. CASE LiveStops(M, B, q)
  BY <1>2, <1>3, LiveHandled DEF LiveStops, Matches
<1>4. CASE Live(M, B, q)
  <2>1. /\ LiveBits(N)
        /\ "LIVE_CONNECTING" \in N <=>
             Head(q) = "link_down" \/ (Head(q) \notin LinkNotice /\ "LIVE_CONNECTING" \in M)
        /\ "RECORD" \in N <=> Head(q) # "live_rec_finish" /\ "RECORD" \in M
    BY <1>2, <1>4, LiveHandled DEF Live
  <2>. HIDE DEF N
  <2>2. LinkIsDown(M, q) <=> LinkIsDown(N, Tail(q))
    BY <1>1, <2>1, LinkHandled
  <2>3. Told(q, "live_rec_finish") <=>
          Head(q) = "live_rec_finish" \/ Told(Tail(q), "live_rec_finish")
    BY <1>1, ToldFacts
  <2>4. Live(N, B, Tail(q))
    BY <1>2, <1>4, <2>1, <2>2, <2>3 DEF Live
  <2>. QED BY <1>2, <2>4 DEF Matches, N
<1>. QED BY <1>3, <1>4

LEMMA EndedHandled ==
  ASSUME NEW M, NEW B, NEW q, LiveEnded(M, B, q)
  PROVE  Head(q) \in LiveNotice \cup {"live_finish"} /\ Matches(Handled(Head(q), M), B, Tail(q))
<1>1. PICK r \in Seq(LiveNotice) : q = Append(r, "live_finish")
  BY DEF LiveEnded
<1>2. B = {} /\ (LiveBits(M) \/ M = {"STOP_LIVING"})
  BY DEF LiveEnded
<1>3. CASE r = << >>
  <2>1. Head(q) = "live_finish" /\ Tail(q) = << >>
    BY <1>1, <1>3
  <2>2. Handled("live_finish", M) = {}
    BY <1>2 DEF Handled, LiveBits
  <2>. QED BY <1>2, <2>1, <2>2 DEF Matches
<1>4. CASE r # << >>
  <2>1. Head(q) = Head(r) /\ Head(r) \in LiveNotice /\ Tail(r) \in Seq(LiveNotice)
    BY <1>1, <1>4
  <2>2. Tail(q) = Append(Tail(r), "live_finish")
    BY <1>1, <1>4
  <2>3. LiveBits(Handled(Head(q), M)) \/ Handled(Head(q), M) = {"STOP_LIVING"}
    BY <1>2, <2>1, LiveHandled
  <2>. QED BY <1>2, <2>1, <2>2, <2>3 DEF Matches, LiveEnded
<1>. QED BY <1>3, <1>4

\* A state word that is right when all is handled is right when the first is.
LEMMA AgreesHandled ==
  ASSUME NEW S \in SUBSET Bit, NEW A, NEW q, q # << >>, Agrees(S, A, q)
  PROVE  /\ Head(q) \in Notice \ {"preview_finish"}
         /\ Handled(Head(q), S) \in SUBSET Bit /\ Agrees(Handled(Head(q), S), A, Tail(q))
<1>. DEFINE M == S \ {"PREVIEW"}
            B == A \ {"preview"}
<1>1. Matches(M, B, q)
  BY DEF Agrees
<1>. HIDE DEF M, B
<1>2. Head(q) \in Notice \ {"preview_finish"} /\ Matches(Handled(Head(q), M), B, Tail(q))
  <2>1. {"record_finish", "pic_org_finish", "pic_finish", "live_finish"} \cup LiveNotice
          \subseteq Notice \ {"preview_finish"}
    BY DEF LiveNotice, LinkNotice, Notice
  <2>. QED BY <1>1, <2>1, RecordingHandled, PictureHandled, LivingHandled, EndedHandled DEF Matches
<1>3. /\ Handled(Head(q), S) \in SUBSET Bit /\ Handled(Head(q), S) \ {"PREVIEW"} = Handled(Head(q), M)
      /\ "PREVIEW" \in Handled(Head(q), S) <=> "PREVIEW" \in S
  BY <1>2, HandledBits DEF M
<1>. QED BY <1>2, <1>3 DEF Agrees, B

LEMMA RecordingTold ==
  ASSUME NEW M, NEW B, NEW q, Matches(M, B, q)
  PROVE  \A a \in {"record", "record_end"} \cap B : Matches(M, B \ {a}, Append(q, "record_finish"))
<1>1. SUFFICES ASSUME NEW a \in {"record", "record_end"} \cap B
               PROVE  Matches(M, B \ {a}, Append(q, "record_finish"))
  OBVIOUS
<1>2. Recording(M, B, q)
  BY <1>1 DEF Matches, Picture, Live, LiveStops, LiveEnded
<1>3. M \in {{"RECORD"}, {"STOP_RECORDING"}} /\ B \ {a} = {} /\ q = << >>
  BY <1>1, <1>2 DEF Recording
<1>4. Append(q, "record_finish") = <<"record_finish">>
  BY <1>3
<1>. QED BY <1>3, <1>4 DEF Matches, Recording

LEMMA PictureTold ==
  ASSUME NEW M, NEW B, NEW q, Matches(M, B, q)
  PROVE  /\ "capture" \in B => /\ "stitch" \notin B
                               /\ Matches(M, (B \ {"capture"}) \cup {"stitch"}, Append(q, "pic_org_finish"))
         /\ \A a \in {"capture", "stitch"} \cap B : Matches(M, B \ {a}, Append(q, "pic_finish"))
<1>1. ("capture" \in B \/ "stitch" \in B) => Picture(M, B, q)
  BY DEF Matches, Recording, Live, LiveStops, LiveEnded
<1>2. ASSUME "capture" \in B
      PROVE  /\ "stitch" \notin B
             /\ Matches(M, (B \ {"capture"}) \cup {"stitch"}, Append(q, "pic_org_finish"))
             /\ Matches(M, B \ {"capture"}, Append(q, "pic_finish"))
  <2>1. M = {"CAPTURE"} /\ B = {"capture"} /\ q = << >>
    BY <1>1, <1>2 DEF Picture
  <2>2. /\ Append(q, "pic_org_finish") = <<"pic_org_finish">> /\ Append(q, "pic_finish") = <<"pic_finish">>
        /\ (B \ {"capture"}) \cup {"stitch"} = {"stitch"} /\ B \ {"capture"} = {}
    BY <2>1
  <2>. QED BY <2>1, <2>2 DEF Matches, Picture
<1>3. ASSUME "stitch" \in B
      PROVE  Matches(M, B \ {"stitch"}, Append(q, "pic_finish"))
  <2>1. /\ B \ {"stitch"} = {}
        /\ \/ M = {"CAPTURE"} /\ q = <<"pic_org_finish">>
           \/ M = {"STITCHING"} /\ q = << >>
    BY <1>1, <1>3 DEF Picture
  <2>2. /\ Append(<< >>, "pic_finish") = <<"pic_finish">>
        /\ Append(<<"pic_org_finish">>, "pic_finish") = <<"pic_org_finish", "pic_finish">>
    BY AppendTwo
  <2>. QED BY <2>1, <2>2 DEF Matches, Picture
<1>. QED BY <1>2, <1>3

LEMMA LiveTold ==
  ASSUME NEW M, NEW B, NEW q, Matches(M, B, q)
  PROVE  /\ "live_end" \in B => Matches(M, B \ {"live_end"}, Append(q, "live_finish"))
         /\ "live_rec" \in B => Matches(M, B \ {"live_rec"}, Append(q, "live_rec_finish"))
         /\ "live" \in B =>
              /\ Matches(M, B \ {"live", "live_rec", "link_down"}, Append(q, "live_finish"))
              /\ "link_down" \in B => Matches(M, B \ {"link_down"}, Append(q, "link_up"))
              /\ Matches(M, B \cup {"link_down"}, Append(q, "link_down"))
<1>1. ASSUME "live_end" \in B
      PROVE  Matches(M, B \ {"live_end"}, Append(q, "live_finish"))
  <2>1. LiveStops(M, B, q)
    BY <1>1 DEF Matches, Recording, Picture, Live, LiveEnded
  <2>2. B \ {"live_end"} = {}
    BY <2>1 DEF LiveStops
  <2>. QED BY <2>1, <2>2 DEF Matches, LiveStops, LiveEnded
<1>2. "live" \in B \/ "live_rec" \in B => Live(M, B, q)
  BY DEF Matches, Recording, Picture, LiveStops, LiveEnded
<1>3. ASSUME Live(M, B, q), NEW n \in LiveNotice
      PROVE  /\ Append(q, n) \in Seq(LiveNotice)
             /\ Told(Append(q, n), "live_rec_finish") <=> Told(q, "live_rec_finish") \/ n = "live_rec_finish"
             /\ LinkIsDown(M, Append(q, n)) <=>
                  n = "link_down" \/ (n \notin LinkNotice /\ LinkIsDown(M, q))
  <2>1. q \in Seq(LiveNotice)
    BY <1>3 DEF Live
  <2>. QED BY <2>1, ToldFacts, LinkFacts
<1>4. ASSUME "live_rec" \in B
      PROVE  Matches(M, B \ {"live_rec"}, Append(q, "live_rec_finish"))
  <2>1. "live_rec_finish" \in LiveNotice /\ "live_rec_finish" \notin LinkNotice
    BY DEF LiveNotice, LinkNotice
  <2>2. /\ Append(q, "live_rec_finish") \in Seq(LiveNotice)
        /\ Told(Append(q, "live_rec_finish"), "live_rec_finish")
        /\ LinkIsDown(M, Append(q, "live_rec_finish")) <=> LinkIsDown(M, q)
    BY <1>2, <1>3, <1>4, <2>1
  <2>3. Live(M, B \ {"live_rec"}, Append(q, "live_rec_finish"))
    BY <1>2, <1>4, <2>2 DEF Live
  <2>. QED BY <2>3 DEF Matches
<1>5. ASSUME "live" \in B
      PROVE  Matches(M, B \ {"live", "live_rec", "link_down"}, Append(q, "live_finish"))
  <2>1. LiveBits(M) /\ q \in Seq(LiveNotice) /\ B \ {"live", "live_rec", "link_down"} = {}
    BY <1>2, <1>5 DEF Live
  <2>. QED BY <2>1 DEF Matches, LiveEnded
<1>6. ASSUME "live" \in B
      PROVE  /\ Matches(M, B \ {"link_down"}, Append(q, "link_up"))
             /\ Matches(M, B \cup {"link_down"}, Append(q, "link_down"))
  <2>1. {"link_up", "link_down"} \subseteq LiveNotice
    BY DEF LiveNotice, LinkNotice
  <2>2. /\ Append(q, "link_up") \in Seq(LiveNotice) /\ Append(q, "link_down") \in Seq(LiveNotice)
        /\ Told(Append(q, "link_up"), "live_rec_finish") <=> Told(q, "live_rec_finish")
        /\ Told(Append(q, "link_down"), "live_rec_finish") <=> Told(q, "live_rec_finish")
        /\ ~LinkIsDown(M, Append(q, "link_up")) /\ LinkIsDown(M, Append(q, "link_down"))
    BY <1>2, <1>3, <1>6, <2>1 DEF LinkNotice
  <2>3. Live(M, B \ {"link_down"}, Append(q, "link_up"))
    BY <1>2, <1>6, <2>2 DEF Live
  <2>4. Live(M, B \cup {"link_down"}, Append(q, "link_down"))
    BY <1>2, <1>6, <2>2 DEF Live
  <2>. QED BY <2>3, <2>4 DEF Matches
<1>. QED BY <1>1, <1>4, <1>5, <1>6

\* What ends, breaks off or loses its link is told: a state word that was right
\* stays right.
LEMMA AgreesTold ==
  ASSUME NEW S, NEW A, NEW q, Agrees(S, A, q)
  PROVE  /\ \A a \in {"record", "record_end"} \cap A : Agrees(S, A \ {a}, Append(q, "record_finish"))
         /\ "capture" \in A => /\ "stitch" \notin A
                               /\ Agrees(S, (A \ {"capture"}) \cup {"stitch"}, Append(q, "pic_org_finish"))
         /\ \A a \in {"capture", "stitch"} \cap A : Agrees(S, A \ {a}, Append(q, "pic_finish"))
         /\ "live_end" \in A => Agrees(S, A \ {"live_end"}, Append(q, "live_finish"))
         /\ "live_rec" \in A => Agrees(S, A \ {"live_rec"}, Append(q, "live_rec_finish"))
         /\ "live" \in A =>
              /\ Agrees(S, A \ {"live", "live_rec", "link_down"}, Append(q, "live_finish"))
              /\ "link_down" \in A => Agrees(S, A \ {"link_down"}, Append(q, "link_up"))
              /\ Agrees(S, A \cup {"link_down"}, Append(q, "link_down"))
<1>. DEFINE M == S \ {"PREVIEW"}
            B == A \ {"preview"}
<1>1. Matches(M, B, q)
  BY DEF Agrees
<1>2. ASSUME NEW C, NEW r, "preview" \notin C, Matches(M, B \ C, r)
      PROVE  Agrees(S, A \ C, r)
  <2>1. (A \ C) \ {"preview"} = B \ C
    OBVIOUS
  <2>. QED BY <1>2, <2>1 DEF Agrees
<1>3. ASSUME NEW C, NEW D, NEW r, "preview" \notin C \cup D, Matches(M, (B \ C) \cup D, r)
      PROVE  Agrees(S, (A \ C) \cup D, r)
  <2>1. ((A \ C) \cup D) \ {"preview"} = (B \ C) \cup D
    BY <1>3
  <2>. QED BY <1>3, <2>1 DEF Agrees
<1>4. ASSUME NEW D, NEW r, "preview" \notin D, Matches(M, B \cup D, r)
      PROVE  Agrees(S, A \cup D, r)
  <2>1. (A \cup D) \ {"preview"} = B \cup D
    BY <1>4
  <2>. QED BY <1>4, <2>1 DEF Agrees
<1>5. \A a : a # "preview" => (a \in B <=> a \in A)
  OBVIOUS
<1>. HIDE DEF M, B
<1>6. \A a \in {"record", "record_end"} \cap A : Agrees(S, A \ {a}, Append(q, "record_finish"))
  BY <1>1, <1>2, <1>5, RecordingTold
<1>7. "capture" \in A => /\ "stitch" \notin A
                         /\ Agrees(S, (A \ {"capture"}) \cup {"stitch"}, Append(q, "pic_org_finish"))
  BY <1>1, <1>3, <1>5, PictureTold
<1>8. \A a \in {"capture", "stitch"} \cap A : Agrees(S, A \ {a}, Append(q, "pic_finish"))
  BY <1>1, <1>2, <1>5, PictureTold
<1>9. /\ "live_end" \in A => Agrees(S, A \ {"live_end"}, Append(q, "live_finish"))
      /\ "live_rec" \in A => Agrees(S, A \ {"live_rec"}, Append(q, "live_rec_finish"))
  BY <1>1, <1>2, <1>5, LiveTold
<1>10. "live" \in A =>
         /\ Agrees(S, A \ {"live", "live_rec", "link_down"}, Append(q, "live_finish"))
         /\ "link_down" \in A => Agrees(S, A \ {"link_down"}, Append(q, "link_up"))
         /\ Agrees(S, A \cup {"link_down"}, Append(q, "link_down"))
  BY <1>1, <1>2, <1>4, <1>5, LiveTold
<1>. QED BY <1>6, <1>7, <1>8, <1>9, <1>10

-----------------------------------------------------------------------------
(***************************************************************************)
(* A request is served                                                     *)
(***************************************************************************)
LEMMA FinalType == \A s, S : Final(s, S) \in SUBSET Bit
  BY DEF Final

AppCommand == Cmd \ {"sync_info", "query_state"}

\* What camerad does when it has accepted a request, and when it has refused one.
Begun(c, A) ==
  CASE c = "start_record"    -> A \cup {"record"}
    [] c = "stop_record"     -> (A \ {"record"}) \cup {"record_end"}
    [] c = "take_pic"        -> A \cup {"capture"}
    [] c = "start_live"      -> A \cup {"live"}
    [] c = "start_live_save" -> A \cup {"live", "live_rec"}
    [] c = "stop_live"       -> (A \ {"live", "live_rec", "link_down"}) \cup {"live_end"}
    [] c = "start_preview"   -> A \cup {"preview"}
    [] c = "stop_preview"    -> A \ {"preview"}
    [] OTHER                 -> A

Kept(c, A) == IF c = "stop_preview" THEN A \ {"preview"} ELSE A

Claimed(t, c, S) == Final(Claim(t, c), S)

LEMMA NothingOn ==
  ASSUME NEW S, NEW A, NEW q, Agrees(S, A, q), IdleOrPreview(S)
  PROVE  S \ {"PREVIEW"} = {} /\ A \ {"preview"} = {} /\ q = << >>
<1>1. S \ {"PREVIEW"} = {}
  BY DEF IdleOrPreview
<1>. QED BY <1>1 DEF Agrees, Matches, Recording, Picture, Live, LiveBits, LiveStops, LiveEnded

LEMMA StartServed ==
  ASSUME NEW t \in Thread, NEW S \in SUBSET Bit, NEW q, NEW r, Agrees(S, Acts, q), IdleOrPreview(S),
         NEW c \in {"start_record", "take_pic", "start_live", "start_live_save"}
  PROVE  /\ Agrees(Final(Done(c, r), Claimed(t, c, S)), Begun(c, Acts), q)
         /\ Agrees(Final(Fail(c), Claimed(t, c, S)), Acts, q)
<1>1. /\ S \ {"PREVIEW"} = {} /\ Acts \ {"preview"} = {} /\ q = << >>
      /\ "PREVIEW" \in S <=> "preview" \in Acts
  BY NothingOn DEF Agrees
<1>2. Claimed(t, c, S) \in SUBSET Bit
  BY FinalType DEF Claimed
<1>3. ASSUME NEW D, NEW E, "PREVIEW" \notin D, "preview" \notin E, Matches(D, E, << >>)
      PROVE  Agrees(S \cup D, Acts \cup E, q)
  <2>1. (S \cup D) \ {"PREVIEW"} = D /\ (Acts \cup E) \ {"preview"} = E
    BY <1>1, <1>3
  <2>. QED BY <1>1, <1>3, <2>1 DEF Agrees
<1>4. CASE c = "start_record"
  <2>1. Claimed(t, c, S) = S \cup {"START_RECORDING"}
    BY <1>4, ClaimFinal DEF Claimed
  <2>2. Final(Done(c, r), Claimed(t, c, S)) = S \cup {"RECORD"}
    BY <1>1, <1>2, <1>4, <2>1, DoneFinal
  <2>3. Final(Fail(c), Claimed(t, c, S)) = S
    <3>1. Final(Fail(c), Claimed(t, c, S)) = Claimed(t, c, S) \ {"START_RECORDING", "RECORD"}
      BY <1>2, <1>4, FailFinal
    <3>. QED BY <1>1, <2>1, <3>1
  <2>4. Agrees(S \cup {"RECORD"}, Acts \cup {"record"}, q)
    BY <1>3 DEF Matches, Recording
  <2>. QED BY <1>4, <2>2, <2>3, <2>4 DEF Begun
<1>5. CASE c = "take_pic"
  <2>1. Claimed(t, c, S) = S \cup {"CAPTURE"}
    BY <1>5, ClaimFinal DEF Claimed
  <2>2. Final(Done(c, r), Claimed(t, c, S)) = S \cup {"CAPTURE"}
    BY <1>2, <1>5, <2>1, DoneFinal
  <2>3. Final(Fail(c), Claimed(t, c, S)) = S
    <3>1. Final(Fail(c), Claimed(t, c, S)) = Claimed(t, c, S) \ {"CAPTURE"}
      BY <1>2, <1>5, FailFinal
    <3>. QED BY <1>1, <2>1, <3>1
  <2>4. Agrees(S \cup {"CAPTURE"}, Acts \cup {"capture"}, q)
    BY <1>3 DEF Matches, Picture
  <2>. QED BY <1>5, <2>2, <2>3, <2>4 DEF Begun
<1>6. CASE c \in {"start_live", "start_live_save"}
  <2>. DEFINE D == IF c = "start_live" THEN {"LIVE"} ELSE {"LIVE", "RECORD"}
              E == IF c = "start_live" THEN {"live"} ELSE {"live", "live_rec"}
  <2>1. Claimed(t, c, S) = S \cup {"START_LIVING"}
    BY <1>6, ClaimFinal DEF Claimed
  <2>2. Final(Done(c, r), Claimed(t, c, S)) = S \cup D
    BY <1>1, <1>2, <1>6, <2>1, DoneFinal
  <2>3. Final(Fail(c), Claimed(t, c, S)) = S
    <3>1. Final(Fail(c), Claimed(t, c, S)) = Claimed(t, c, S) \ {"START_LIVING"}
      BY <1>2, <1>6, FailFinal
    <3>. QED BY <1>1, <2>1, <3>1
  <2>4. Live(D, E, << >>)
    <3>1. << >> \in Seq(LiveNotice) /\ ~Told(<< >>, "live_rec_finish")
      BY DEF Told
    <3>2. ~LinkIsDown(D, << >>)
      BY DEF LinkIsDown
    <3>. QED BY <1>6, <3>1, <3>2 DEF Live, LiveBits
  <2>5. "PREVIEW" \notin D /\ "preview" \notin E /\ Matches(D, E, << >>)
    BY <2>4 DEF Matches
  <2>. HIDE DEF D, E
  <2>6. Agrees(S \cup D, Acts \cup E, q)
    BY <1>3, <2>5
  <2>7. Begun(c, Acts) = Acts \cup E
    BY <1>6 DEF Begun, E
  <2>. QED BY <2>2, <2>3, <2>6, <2>7
<1>. QED BY <1>4, <1>5, <1>6

LEMMA StopRecordServed ==
  ASSUME NEW t \in Thread, NEW S \in SUBSET Bit, NEW q, NEW r, Agrees(S, Acts, q), "RECORD" \in S
  PROVE  /\ "record" \in Acts =>
              /\ Agrees(Final(Done("stop_record", r), Claimed(t, "stop_record", S)),
                        Begun("stop_record", Acts), q)
              /\ "record_end" \notin Acts
         /\ Agrees(Final(Fail("stop_record"), Claimed(t, "stop_record", S)), Acts, q)
<1>. DEFINE M == S \ {"PREVIEW"}
            B == Acts \ {"preview"}
<1>1. Claimed(t, "stop_record", S) = S \cup {"STOP_RECORDING"} /\ Claimed(t, "stop_record", S) \in SUBSET Bit
  BY ClaimFinal, FinalType DEF Claimed
<1>2. Matches(M, B, q) /\ "RECORD" \in M
  BY DEF Agrees
<1>3. "STOP_RECORDING" \notin S
  BY <1>2 DEF Matches, Recording, Picture, Live, LiveBits, LiveStops, LiveEnded
<1>4. Final(Fail("stop_record"), Claimed(t, "stop_record", S)) = S
  BY <1>1, <1>3, FailFinal
<1>5. ASSUME "record" \in Acts
      PROVE  /\ Agrees(Final(Done("stop_record", r), Claimed(t, "stop_record", S)),
                       Begun("stop_record", Acts), q)
             /\ "record_end" \notin Acts
  <2>1. "record" \in B
    BY <1>5
  <2>2. M = {"RECORD"} /\ B = {"record"} /\ q = << >>
    BY <1>2, <2>1 DEF Matches, Recording, Picture, Live, LiveStops, LiveEnded
  <2>3. Final(Done("stop_record", r), Claimed(t, "stop_record", S)) = (S \cup {"STOP_RECORDING"}) \ {"RECORD"}
    <3>1. PICK V \in SUBSET Bit : V = Claimed(t, "stop_record", S)
      BY <1>1
    <3>2. Final(Done("stop_record", r), V) = V \ {"RECORD"}
      BY DoneFinal
    <3>. QED BY <1>1, <3>1, <3>2
  <2>4. /\ ((S \cup {"STOP_RECORDING"}) \ {"RECORD"}) \ {"PREVIEW"} = {"STOP_RECORDING"}
        /\ ((Acts \ {"record"}) \cup {"record_end"}) \ {"preview"} = {"record_end"}
        /\ "PREVIEW" \in (S \cup {"STOP_RECORDING"}) \ {"RECORD"} <=> "PREVIEW" \in S
        /\ "preview" \in (Acts \ {"record"}) \cup {"record_end"} <=> "preview" \in Acts
    BY <2>2
  <2>5. Begun("stop_record", Acts) = (Acts \ {"record"}) \cup {"record_end"}
    BY DEF Begun
  <2>6. Matches({"STOP_RECORDING"}, {"record_end"}, q)
    BY <2>2 DEF Matches, Recording
  <2>7. "record_end" \notin Acts
    BY <2>2
  <2>. QED BY <2>3, <2>4, <2>5, <2>6, <2>7 DEF Agrees
<1>. QED BY <1>4, <1>5

LEMMA StopLiveServed ==
  ASSUME NEW t \in Thread, NEW S \in SUBSET Bit, NEW q, NEW r, Agrees(S, Acts, q), AllowStopLive(S)
  PROVE  /\ "live" \in Acts =>
              /\ Agrees(Final(Done("stop_live", r), Claimed(t, "stop_live", S)),
                        Begun("stop_live", Acts), q)
              /\ "live_end" \notin Acts
         /\ Agrees(Final(Fail("stop_live"), Claimed(t, "stop_live", S)), Acts, q)
<1>. DEFINE M == S \ {"PREVIEW"}
            B == Acts \ {"preview"}
<1>1. Claimed(t, "stop_live", S) = S \cup {"STOP_LIVING"} /\ Claimed(t, "stop_live", S) \in SUBSET Bit
  BY ClaimFinal, FinalType DEF Claimed
<1>2. Matches(M, B, q) /\ ("LIVE" \in M \/ "LIVE_CONNECTING" \in M)
  BY DEF Agrees, AllowStopLive
<1>3. LiveBits(M) /\ "STOP_LIVING" \notin S
  BY <1>2 DEF Matches, Recording, Picture, Live, LiveBits, LiveStops, LiveEnded
<1>4. Final(Fail("stop_live"), Claimed(t, "stop_live", S)) = S
  <2>1. Final(Fail("stop_live"), Claimed(t, "stop_live", S)) = Claimed(t, "stop_live", S) \ {"STOP_LIVING"}
    BY <1>1, FailFinal
  <2>. QED BY <1>1, <1>3, <2>1
<1>5. ASSUME "live" \in Acts
      PROVE  /\ Agrees(Final(Done("stop_live", r), Claimed(t, "stop_live", S)),
                       Begun("stop_live", Acts), q)
             /\ "live_end" \notin Acts
  <2>1. "live" \in B
    BY <1>5
  <2>2. Live(M, B, q)
    BY <1>2, <2>1 DEF Matches, Recording, Picture, LiveStops, LiveEnded
  <2>3. B \subseteq {"live", "live_rec", "link_down"} /\ q \in Seq(LiveNotice)
    BY <2>2 DEF Live
  <2>4. M \subseteq {"LIVE", "LIVE_CONNECTING", "RECORD"}
    BY <1>3 DEF LiveBits
  <2>5. Final(Done("stop_live", r), Claimed(t, "stop_live", S))
          = (S \cup {"STOP_LIVING"}) \ {"LIVE", "LIVE_CONNECTING", "RECORD"}
    BY <1>1, DoneFinal
  <2>6. /\ ((S \cup {"STOP_LIVING"}) \ {"LIVE", "LIVE_CONNECTING", "RECORD"}) \ {"PREVIEW"}
             = {"STOP_LIVING"}
        /\ "PREVIEW" \in (S \cup {"STOP_LIVING"}) \ {"LIVE", "LIVE_CONNECTING", "RECORD"}
             <=> "PREVIEW" \in S
    BY <2>4
  <2>7. /\ ((Acts \ {"live", "live_rec", "link_down"}) \cup {"live_end"}) \ {"preview"} = {"live_end"}
        /\ "preview" \in (Acts \ {"live", "live_rec", "link_down"}) \cup {"live_end"}
             <=> "preview" \in Acts
    BY <2>3
  <2>8. Begun("stop_live", Acts) = (Acts \ {"live", "live_rec", "link_down"}) \cup {"live_end"}
    BY DEF Begun
  <2>9. Matches({"STOP_LIVING"}, {"live_end"}, q) /\ "live_end" \notin Acts
    BY <2>3 DEF Matches, LiveStops
  <2>. QED BY <2>5, <2>6, <2>7, <2>8, <2>9 DEF Agrees
<1>. QED BY <1>4, <1>5

LEMMA PreviewServed ==
  ASSUME NEW t \in Thread, NEW S \in SUBSET Bit, NEW q, NEW r, Agrees(S, Acts, q)
  PROVE  /\ AllowPreview(S) =>
              /\ Agrees(Final(Done("start_preview", r), Claimed(t, "start_preview", S)),
                        Begun("start_preview", Acts), q)
              /\ Agrees(Final(Fail("start_preview"), Claimed(t, "start_preview", S)), Acts, q)
         /\ S = {"PREVIEW"} =>
              /\ Agrees(Final(Done("stop_preview", r), Claimed(t, "stop_preview", S)),
                        Begun("stop_preview", Acts), q)
              /\ Agrees(Final(Fail("stop_preview"), Claimed(t, "stop_preview", S)),
                        Kept("stop_preview", Acts), q)
<1>1. /\ Claimed(t, "start_preview", S) = S \cup {"START_PREVIEWING"}
      /\ Claimed(t, "stop_preview", S) = S \cup {"STOP_PREVIEWING"}
      /\ Claimed(t, "start_preview", S) \in SUBSET Bit /\ Claimed(t, "stop_preview", S) \in SUBSET Bit
  BY ClaimFinal, FinalType DEF Claimed
<1>2. ASSUME AllowPreview(S)
      PROVE  /\ Agrees(Final(Done("start_preview", r), Claimed(t, "start_preview", S)),
                       Begun("start_preview", Acts), q)
             /\ Agrees(Final(Fail("start_preview"), Claimed(t, "start_preview", S)), Acts, q)
  <2>1. "START_PREVIEWING" \notin S
    BY <1>2 DEF AllowPreview
  <2>2. Final(Done("start_preview", r), Claimed(t, "start_preview", S)) = S \cup {"PREVIEW"}
    BY <1>1, <2>1, DoneFinal
  <2>3. Final(Fail("start_preview"), Claimed(t, "start_preview", S)) = S
    <3>1. Final(Fail("start_preview"), Claimed(t, "start_preview", S))
            = Claimed(t, "start_preview", S) \ {"START_PREVIEWING"}
      BY <1>1, FailFinal
    <3>. QED BY <1>1, <2>1, <3>1
  <2>4. Begun("start_preview", Acts) = Acts \cup {"preview"}
    BY DEF Begun
  <2>5. /\ (S \cup {"PREVIEW"}) \ {"PREVIEW"} = S \ {"PREVIEW"}
        /\ (Acts \cup {"preview"}) \ {"preview"} = Acts \ {"preview"}
    OBVIOUS
  <2>. QED BY <2>2, <2>3, <2>4, <2>5 DEF Agrees
<1>3. ASSUME S = {"PREVIEW"}
      PROVE  /\ Agrees(Final(Done("stop_preview", r), Claimed(t, "stop_preview", S)),
                       Begun("stop_preview", Acts), q)
             /\ Agrees(Final(Fail("stop_preview"), Claimed(t, "stop_preview", S)),
                       Kept("stop_preview", Acts), q)
  <2>1. Final(Done("stop_preview", r), Claimed(t, "stop_preview", S)) = {}
    <3>1. Final(Done("stop_preview", r), Claimed(t, "stop_preview", S))
            = Claimed(t, "stop_preview", S) \ {"PREVIEW", "STOP_PREVIEWING"}
      BY <1>1, DoneFinal
    <3>. QED BY <1>1, <1>3, <3>1
  <2>2. Final(Fail("stop_preview"), Claimed(t, "stop_preview", S)) = {}
    <3>1. Final(Fail("stop_preview"), Claimed(t, "stop_preview", S))
            = Claimed(t, "stop_preview", S) \ {"STOP_PREVIEWING", "PREVIEW"}
      BY <1>1, FailFinal
    <3>. QED BY <1>1, <1>3, <3>1
  <2>3. Begun("stop_preview", Acts) = Acts \ {"preview"} /\ Kept("stop_preview", Acts) = Acts \ {"preview"}
    BY DEF Begun, Kept
  <2>4. Acts \ {"preview"} = {} /\ q = << >>
    BY <1>3, NothingOn DEF IdleOrPreview
  <2>. QED BY <2>1, <2>2, <2>3, <2>4 DEF Agrees, Matches
<1>. QED BY <1>2, <1>3

\* The word that was right when the request was checked is right again when its
\* callback has run, and camerad does nothing twice at once.
LEMMA CommandServed ==
  ASSUME NEW t \in Thread \ Ui, NEW c \in AppCommand, NEW S \in SUBSET Bit, NEW q, NEW r,
         Agrees(S, Acts, q), Allowed(t, c, S)
  PROVE  /\ Accepts(c) => /\ Agrees(Final(Done(c, r), Claimed(t, c, S)), Begun(c, Acts), q)
                          /\ c = "stop_record" => "record_end" \notin Acts
                          /\ c = "stop_live" => "live_end" \notin Acts
         /\ Agrees(Final(Fail(c), Claimed(t, c, S)), Kept(c, Acts), q)
<1>1. CASE c \in {"start_record", "take_pic", "start_live", "start_live_save"}
  <2>1. IdleOrPreview(S)
    BY <1>1 DEF Allowed
  <2>2. Kept(c, Acts) = Acts
    BY <1>1 DEF Kept
  <2>. QED BY <1>1, <2>1, <2>2, StartServed
<1>2. CASE c = "stop_record"
  <2>1. "RECORD" \in S /\ (Accepts(c) <=> "record" \in Acts) /\ Kept(c, Acts) = Acts
    BY <1>2 DEF Allowed, Accepts, Kept
  <2>. QED BY <1>2, <2>1, StopRecordServed
<1>3. CASE c = "stop_live"
  <2>1. AllowStopLive(S) /\ (Accepts(c) <=> "live" \in Acts) /\ Kept(c, Acts) = Acts
    BY <1>3 DEF Allowed, Accepts, Kept
  <2>. QED BY <1>3, <2>1, StopLiveServed
<1>4. CASE c = "start_preview"
  <2>1. AllowPreview(S) /\ Kept(c, Acts) = Acts
    BY <1>4 DEF Allowed, Kept
  <2>. QED BY <1>4, <2>1, PreviewServed
<1>5. CASE c = "stop_preview"
  <2>1. S = {"PREVIEW"}
    BY <1>5 DEF Allowed, AllowStopPreview
  <2>. QED BY <1>5, <2>1, PreviewServed
<1>6. CASE c \in {"power_off", "plain"}
  <2>1. Claimed(t, c, S) = S
    BY <1>6, ClaimFinal DEF Claimed
  <2>2. Final(Done(c, r), S) = S /\ Final(Fail(c), S) = S
    BY <1>6, DoneFinal, FailFinal
  <2>3. Begun(c, Acts) = Acts /\ Kept(c, Acts) = Acts
    BY <1>6 DEF Begun, Kept
  <2>. QED BY <1>6, <2>1, <2>2, <2>3
<1>. QED BY <1>1, <1>2, <1>3, <1>4, <1>5, <1>6 DEF AppCommand, Cmd

-----------------------------------------------------------------------------
(***************************************************************************)
(* The operations of the handlers, what is told and what goes on           *)
(***************************************************************************)
LEMMA BitLists ==
  /\ << >> \in Seq(BitOp)
  /\ \A a \in BitOp : <<a>> \in Seq(BitOp)
  /\ \A a, b \in BitOp : <<a, b>> \in Seq(BitOp)
  /\ \A a, b, c \in BitOp : <<a, b, c>> \in Seq(BitOp)
  /\ \A a, b, c, d \in BitOp : <<a, b, c, d>> \in Seq(BitOp)
  /\ \A s, r \in Seq(BitOp) : s \o r \in Seq(BitOp)
  BY Lists

LEMMA BitsAreFit ==
  ASSUME NEW s \in Seq(BitOp)
  PROVE  s \in Seq(StateOp) /\ s \in Seq(Op) /\ (s # << >> => Tail(s) \in Seq(BitOp))
<1>1. BitOp \subseteq StateOp /\ BitOp \subseteq Op
  BY DEF StateOp, BitOp
<1>. QED BY <1>1

LEMMA ClaimFit ==
  ASSUME NEW t, NEW c \in AppCommand
  PROVE  Claim(t, c) \in Seq(BitOp)
<1>1. \A w \in {"pic", "live"} : OwnIf(t, w) \in Seq(BitOp)
  BY BitOps, BitLists DEF OwnIf
<1>2. /\ \A b \in Bit : <<Add(b)>> \in Seq(BitOp)
      /\ <<Add("CAPTURE")>> \o OwnIf(t, "pic") \in Seq(BitOp)
      /\ <<Add("START_LIVING")>> \o OwnIf(t, "live") \in Seq(BitOp)
  <2>1. \A b \in Bit : <<Add(b)>> \in Seq(BitOp)
    BY BitOps, BitLists
  <2>. QED BY <1>1, <2>1, BitLists DEF Bit
<1>3. Claim(t, c) \in
        {<<Add("START_RECORDING")>>, <<Add("STOP_RECORDING")>>, <<Add("CAPTURE")>> \o OwnIf(t, "pic"),
         <<Add("START_LIVING")>> \o OwnIf(t, "live"), <<Add("STOP_LIVING")>>,
         <<Add("START_PREVIEWING")>>, <<Add("STOP_PREVIEWING")>>, << >>}
  BY DEF Claim, AppCommand
<1>4. {"START_RECORDING", "STOP_RECORDING", "STOP_LIVING", "START_PREVIEWING", "STOP_PREVIEWING"}
        \subseteq Bit
  BY DEF Bit
<1>. QED BY <1>2, <1>3, <1>4, BitLists

LEMMA DoneFit ==
  ASSUME NEW c \in AppCommand, NEW r
  PROVE  Done(c, r) \in Seq(BitOp) /\ Fail(c) \in Seq(BitOp)
<1>1. /\ \A b \in {"RECORD", "START_RECORDING", "STOP_RECORDING", "CAPTURE", "START_LIVING", "LIVE",
                   "LIVE_CONNECTING", "STOP_LIVING", "START_PREVIEWING", "STOP_PREVIEWING",
                   "PREVIEW"} : Add(b) \in BitOp /\ Rm(b) \in BitOp /\ RmIf(b) \in BitOp
      /\ Disown("pic") \in BitOp /\ Disown("live") \in BitOp
  BY BitOps DEF Bit
<1>2. /\ RecDone \in Seq(BitOp) /\ RecStopDone \in Seq(BitOp) /\ PreviewDone \in Seq(BitOp)
      /\ StopPreviewDone \in Seq(BitOp) /\ StopLiveDone \in Seq(BitOp)
  BY <1>1, BitLists DEF RecDone, RecStopDone, PreviewDone, StopPreviewDone, StopLiveDone
<1>3. \A save \in BOOLEAN : LiveDone(save) \in Seq(BitOp)
  <2>1. /\ <<Disown("live"), RmIf("START_LIVING"), Add("LIVE")>> \in Seq(BitOp)
        /\ <<Add("RECORD")>> \in Seq(BitOp)
    BY <1>1, BitLists
  <2>2. /\ <<Disown("live"), RmIf("START_LIVING"), Add("LIVE")>> \o <<Add("RECORD")>> \in Seq(BitOp)
        /\ <<Disown("live"), RmIf("START_LIVING"), Add("LIVE")>> \o << >> \in Seq(BitOp)
    BY <2>1, BitLists
  <2>. QED BY <2>2 DEF LiveDone
<1>4. Done(c, r) \in {RecDone, RecStopDone, LiveDone(FALSE), LiveDone(TRUE), StopLiveDone,
                      PreviewDone, StopPreviewDone, << >>}
  BY DEF Done, AppCommand
<1>5. Done(c, r) \in Seq(BitOp)
  BY <1>2, <1>3, <1>4, BitLists
<1>6. /\ RecFail \in Seq(BitOp) /\ RecStopFail \in Seq(BitOp) /\ TakePicFail \in Seq(BitOp)
      /\ LiveFail \in Seq(BitOp) /\ StopLiveFail \in Seq(BitOp)
      /\ PreviewFail \in Seq(BitOp) /\ StopPreviewFail \in Seq(BitOp)
  BY <1>1, BitLists DEF RecFail, RecStopFail, TakePicFail, LiveFail, StopLiveFail, PreviewFail,
     StopPreviewFail
<1>7. Fail(c) \in {RecFail, RecStopFail, TakePicFail, LiveFail, StopLiveFail, PreviewFail,
                   StopPreviewFail, << >>}
  BY DEF Fail
<1>. QED BY <1>5, <1>6, <1>7, BitLists

LEMMA AnsweredFit ==
  ASSUME NEW t, th[t].cmd \in AppCommand, NEW a, a.id \in Nat, NEW S
  PROVE  /\ Answered(t, a) \in Seq(BitOp)
         /\ Final(Answered(t, a), S) = IF a.ok THEN Final(Done(th[t].cmd, a.state), S)
                                               ELSE Final(Fail(th[t].cmd), S)
<1>1. Done(th[t].cmd, a.state) \in Seq(BitOp) /\ Fail(th[t].cmd) \in Seq(BitOp)
  BY DoneFit
<1>2. CASE ~a.ok
  BY <1>1, <1>2 DEF Answered
<1>3. CASE a.ok
  <2>1. \/ Answered(t, a) = Done(th[t].cmd, a.state) \o <<AddId(a.id)>>
        \/ Answered(t, a) = Done(th[t].cmd, a.state) \o << >>
    BY <1>3 DEF Answered
  <2>2. /\ Done(th[t].cmd, a.state) \o <<AddId(a.id)>> \in Seq(BitOp)
        /\ Final(Done(th[t].cmd, a.state) \o <<AddId(a.id)>>, S) = Final(Done(th[t].cmd, a.state), S)
    <3>1. AddId(a.id) \in BitOp /\ AddId(a.id) \in Op /\ Changes(AddId(a.id)) = {}
      BY BitOps, OpFacts DEF AddId, Changes
    <3>2. Done(th[t].cmd, a.state) \in Seq(Op) /\ <<AddId(a.id)>> \in Seq(BitOp)
      BY <1>1, <3>1, BitsAreFit, BitLists
    <3>. QED BY <1>1, <3>1, <3>2, FinalQuiet, BitLists
  <2>3. Done(th[t].cmd, a.state) \o << >> = Done(th[t].cmd, a.state)
    BY <1>1
  <2>. QED BY <1>1, <1>3, <2>1, <2>2, <2>3
<1>. QED BY <1>2, <1>3

LEMMA NotifiedFit ==
  ASSUME NEW n \in Notice, NEW i \in Nat
  PROVE  /\ Notified(n, i) \in Seq(StateOp)
         /\ Notified(n, i) # << >> => Tail(Notified(n, i)) \in Seq(BitOp)
<1>1. /\ \A b \in {"RECORD", "STOP_RECORDING", "CAPTURE", "STITCHING", "PREVIEW", "STOP_PREVIEWING",
                   "LIVE", "LIVE_CONNECTING", "STOP_LIVING"} : Add(b) \in BitOp /\ RmIf(b) \in BitOp
      /\ Disown("pic") \in BitOp /\ GotId(i) \in BitOp
  BY BitOps DEF Bit
<1>2. /\ RecNotify \in Seq(BitOp) /\ PicOrgFinish \in Seq(BitOp) /\ PicNotify \in Seq(BitOp)
      /\ PreviewFinishNotify \in Seq(BitOp) /\ LiveFinish \in Seq(BitOp) /\ LiveRecFinish \in Seq(BitOp)
  BY <1>1, BitLists DEF RecNotify, PicOrgFinish, PicNotify, PreviewFinishNotify, LiveFinish,
     LiveRecFinish
<1>3. /\ Append(RecNotify, GotId(i)) \in Seq(BitOp) /\ Append(PicNotify, GotId(i)) \in Seq(BitOp)
      /\ Append(LiveFinish, GotId(i)) \in Seq(BitOp)
  BY <1>1, <1>2
<1>4. \A u \in BOOLEAN : /\ <<Link(u)>> \in Seq(StateOp) /\ Tail(<<Link(u)>>) \in Seq(BitOp)
  <2>1. \A x \in StateOp : <<x>> \in Seq(StateOp) /\ Tail(<<x>>) \in Seq(BitOp)
    <3>1. \A x : Tail(<<x>>) = << >>
      OBVIOUS
    <3>. QED BY <3>1, Lists, BitLists
  <2>. QED BY <2>1, BitOps
<1>5. Notified(n, i) \in {Append(RecNotify, GotId(i)), PicOrgFinish, Append(PicNotify, GotId(i)),
                          PreviewFinishNotify, Append(LiveFinish, GotId(i)), LiveRecFinish,
                          <<Link(FALSE)>>, <<Link(TRUE)>>}
  BY DEF Notified, Notice
<1>. QED BY <1>2, <1>3, <1>4, <1>5, BitsAreFit

Names(s) == [k \in 1 .. Len(s) |-> s[k].name]

LEMMA NamesFacts ==
  ASSUME NEW s \in Seq([name : Notice, id : Nat])
  PROVE  /\ Names(s) \in Seq(Notice) /\ (s = << >> => Names(s) = << >>)
         /\ \A n \in Notice, i \in Nat :
              Names(Append(s, [name |-> n, id |-> i])) = Append(Names(s), n)
         /\ s # << >> => Names(s) = <<Head(s).name>> \o Names(Tail(s))
<1>1. ASSUME NEW r \in Seq([name : Notice, id : Nat])
      PROVE  /\ Names(r) \in Seq(Notice) /\ Len(Names(r)) = Len(r)
             /\ \A k \in 1 .. Len(r) : Names(r)[k] = r[k].name
  <2>1. Len(r) \in Nat /\ \A k \in 1 .. Len(r) : r[k] \in [name : Notice, id : Nat]
    BY LenProperties, ElementOfSeq
  <2>2. \A k \in 1 .. Len(r) : r[k].name \in Notice
    BY <2>1
  <2>3. Names(r) \in [1 .. Len(r) -> Notice] /\ \A k \in 1 .. Len(r) : Names(r)[k] = r[k].name
    BY <2>2 DEF Names
  <2>4. Names(r) \in Seq(Notice)
    <3>1. [1 .. Len(r) -> Notice] \in {[1 .. n -> Notice] : n \in Nat}
      BY <2>1
    <3>. QED BY <2>3, <3>1, SeqDef, SMTT(30)
  <2>5. Len(Names(r)) = Len(r)
    BY <2>1 DEF Names
  <2>. QED BY <2>3, <2>4, <2>5
<1>2. s = << >> => Names(s) = << >>
  BY DEF Names
<1>3. ASSUME NEW n \in Notice, NEW i \in Nat
      PROVE  Names(Append(s, [name |-> n, id |-> i])) = Append(Names(s), n)
  <2>. DEFINE e == [name |-> n, id |-> i]
              r == Append(s, e)
  <2>1. e \in [name : Notice, id : Nat] /\ e.name = n
    OBVIOUS
  <2>. HIDE DEF e
  <2>2. /\ r \in Seq([name : Notice, id : Nat]) /\ Len(r) = Len(s) + 1 /\ r[Len(s) + 1] = e
        /\ \A k \in 1 .. Len(s) : r[k] = s[k]
        /\ Len(s) \in Nat /\ \A k \in 1 .. Len(s) + 1 : k = Len(s) + 1 \/ k \in 1 .. Len(s)
    BY <2>1
  <2>. HIDE DEF r
  <2>3. /\ Append(Names(s), n) \in Seq(Notice) /\ Len(Append(Names(s), n)) = Len(s) + 1
        /\ Append(Names(s), n)[Len(s) + 1] = n
        /\ \A k \in 1 .. Len(s) : Append(Names(s), n)[k] = s[k].name
    <3>1. Names(s) \in Seq(Notice) /\ Len(Names(s)) = Len(s)
      BY <1>1
    <3>2. /\ Append(Names(s), n) \in Seq(Notice) /\ Len(Append(Names(s), n)) = Len(s) + 1
          /\ Append(Names(s), n)[Len(s) + 1] = n
          /\ \A k \in 1 .. Len(s) : Append(Names(s), n)[k] = Names(s)[k]
      BY <3>1, LastOf
    <3>. QED BY <1>1, <3>2
  <2>4. /\ Names(r) \in Seq(Notice) /\ Len(Names(r)) = Len(s) + 1
        /\ \A k \in 1 .. Len(s) + 1 : Names(r)[k] = r[k].name
    BY <1>1, <2>2
  <2>5. \A k \in 1 .. Len(s) + 1 : Names(r)[k] = Append(Names(s), n)[k]
    BY <2>1, <2>2, <2>3, <2>4
  <2>6. Names(r) = Append(Names(s), n)
    BY <2>3, <2>4, <2>5, SeqEqual
  <2>. QED BY <2>6 DEF r, e
<1>4. ASSUME s # << >>
      PROVE  Names(s) = <<Head(s).name>> \o Names(Tail(s))
  <2>. DEFINE r == Tail(s)
              h == Head(s).name
  <2>1. /\ h \in Notice /\ s[1].name = h /\ r \in Seq([name : Notice, id : Nat])
        /\ Len(s) = Len(r) + 1 /\ Len(r) \in Nat
        /\ \A k \in 1 .. Len(s) : k = 1 \/ (k - 1 \in 1 .. Len(r) /\ s[k] = r[k - 1])
    <3>1. /\ Head(s) = s[1] /\ Head(s) \in [name : Notice, id : Nat]
          /\ r \in Seq([name : Notice, id : Nat]) /\ Len(s) = Len(r) + 1 /\ Len(r) \in Nat
          /\ \A k \in 1 .. Len(s) : k = 1 \/ (k - 1 \in 1 .. Len(r) /\ s[k] = r[k - 1])
      BY <1>4, HeadOf
    <3>. QED BY <3>1
  <2>. HIDE DEF r, h
  <2>2. <<h>> \in Seq(Notice) /\ Len(<<h>>) = 1 /\ <<h>>[1] = h
    BY <2>1
  <2>3. Names(r) \in Seq(Notice) /\ Len(Names(r)) = Len(r) /\ \A k \in 1 .. Len(r) : Names(r)[k] = r[k].name
    BY <1>1, <2>1
  <2>4. /\ <<h>> \o Names(r) \in Seq(Notice) /\ Len(<<h>> \o Names(r)) = Len(s)
        /\ \A k \in 1 .. Len(s) : (<<h>> \o Names(r))[k] = IF k <= 1 THEN <<h>>[k] ELSE Names(r)[k - 1]
    BY <2>1, <2>2, <2>3, ConcatProperties
  <2>5. \A k \in 1 .. Len(s) : (<<h>> \o Names(r))[k] = Names(s)[k]
    <3>1. SUFFICES ASSUME NEW k \in 1 .. Len(s)
                   PROVE  (<<h>> \o Names(r))[k] = Names(s)[k]
      OBVIOUS
    <3>2. CASE k = 1
      <4>1. (<<h>> \o Names(r))[1] = <<h>>[1]
        BY <2>4, <3>2
      <4>2. Names(s)[1] = s[1].name
        BY <1>1, <3>2
      <4>. QED BY <2>1, <2>2, <3>2, <4>1, <4>2
    <3>3. CASE k # 1
      <4>1. k - 1 \in 1 .. Len(r) /\ s[k] = r[k - 1] /\ ~(k <= 1)
        BY <2>1, <3>3
      <4>. QED BY <1>1, <2>3, <2>4, <4>1
    <3>. QED BY <3>2, <3>3
  <2>6. Names(s) = <<h>> \o Names(r)
    BY <1>1, <2>4, <2>5, SeqEqual
  <2>. QED BY <2>6 DEF r, h
<1>. QED BY <1>1, <1>2, <1>3, <1>4

LEMMA ConsFacts ==
  ASSUME NEW X, NEW h \in X, NEW s \in Seq(X)
  PROVE  <<h>> \o s # << >> /\ Head(<<h>> \o s) = h /\ Tail(<<h>> \o s) = s
<1>1. <<h>> \in Seq(X) /\ Len(<<h>>) = 1 /\ <<h>>[1] = h /\ Len(s) \in Nat
  OBVIOUS
<1>. DEFINE r == <<h>> \o s
<1>2. /\ r \in Seq(X) /\ Len(r) = 1 + Len(s)
      /\ \A k \in 1 .. 1 + Len(s) : r[k] = IF k <= 1 THEN <<h>>[k] ELSE s[k - 1]
  BY <1>1, ConcatProperties
<1>. HIDE DEF r
<1>3. r # << >> /\ r[1] = h
  BY <1>1, <1>2
<1>4. /\ Head(r) = r[1] /\ Tail(r) \in Seq(X) /\ Len(Tail(r)) = Len(s)
      /\ \A k \in 1 .. Len(s) : Tail(r)[k] = r[k + 1]
  <2>1. /\ Head(r) = r[1] /\ Tail(r) \in Seq(X) /\ Len(r) = Len(Tail(r)) + 1
        /\ Len(Tail(r)) \in Nat /\ \A k \in 1 .. Len(Tail(r)) : Tail(r)[k] = r[k + 1]
    BY <1>2, <1>3, HeadOf
  <2>. QED BY <1>1, <1>2, <2>1
<1>5. \A k \in 1 .. Len(s) : Tail(r)[k] = s[k]
  <2>1. \A k \in 1 .. Len(s) : k + 1 \in 1 .. 1 + Len(s) /\ ~(k + 1 <= 1) /\ (k + 1) - 1 = k
    BY <1>1
  <2>. QED BY <1>2, <1>4, <2>1
<1>6. Tail(r) = s
  BY <1>4, <1>5, SeqEqual
<1>. QED BY <1>3, <1>4, <1>6 DEF r

LEMMA TellingIs ==
  Telling = (IF th[Notifier].pc = "lock" THEN <<th[Notifier].cmd>> ELSE << >>) \o Names(notices)
  BY DEF Telling, Names

LEMMA TellingType ==
  ASSUME SInv
  PROVE  Telling \in Seq(Notice)
<1>1. Names(notices) \in Seq(Notice)
  BY NamesFacts DEF SInv, TypeOK
<1>2. (IF th[Notifier].pc = "lock" THEN <<th[Notifier].cmd>> ELSE << >>) \in Seq(Notice)
  BY DEF SInv, OwnWork
<1>. QED BY <1>1, <1>2, TellingIs, Lists

\* As long as the thread of the notifications does not take one up.
LEMMA TellingStays ==
  ASSUME UNCHANGED notices, th'[Notifier].pc = "lock" <=> th[Notifier].pc = "lock",
         th[Notifier].pc = "lock" => th'[Notifier].cmd = th[Notifier].cmd
  PROVE  Telling' = Telling
  BY DEF Telling

LEMMA TellingHeard ==
  ASSUME SInv, Hear(Notifier)
  PROVE  Telling' = Telling
<1>1. /\ th'[Notifier].pc = "lock" /\ th'[Notifier].cmd = Head(notices).name
      /\ th[Notifier].pc = "idle" /\ notices # << >> /\ notices' = Tail(notices)
  BY HearSem, ThreadFacts DEF Hear
<1>2. Names(notices) = <<Head(notices).name>> \o Names(Tail(notices)) /\ Names(notices) \in Seq(Notice)
  BY <1>1, NamesFacts DEF SInv, TypeOK
<1>3. Telling' = <<Head(notices).name>> \o Names(Tail(notices))
  BY <1>1 DEF Telling, Names
<1>4. Telling = << >> \o Names(notices)
  BY <1>1, TellingIs
<1>. QED BY <1>2, <1>3, <1>4, ConcatEmptySeq

LEMMA TellingTaken ==
  ASSUME SInv, th[Notifier].pc = "lock", th'[Notifier].pc = "after", UNCHANGED notices
  PROVE  Telling # << >> /\ Head(Telling) = th[Notifier].cmd /\ Telling' = Tail(Telling)
<1>1. th[Notifier].cmd \in Notice /\ Names(notices) \in Seq(Notice)
  BY NamesFacts DEF SInv, OwnWork, TypeOK
<1>2. Telling = <<th[Notifier].cmd>> \o Names(notices)
  BY TellingIs
<1>4. Telling # << >> /\ Head(Telling) = th[Notifier].cmd /\ Tail(Telling) = Names(notices)
  BY <1>1, <1>2, ConsFacts
<1>5. Telling' = << >> \o Names(notices)
  BY DEF Telling, Names
<1>. QED BY <1>1, <1>4, <1>5, ConcatEmptySeq

LEMMA TellingGrows ==
  ASSUME SInv, NEW n \in Notice, NEW i \in Nat, Tell(n, i)
  PROVE  Telling' = Append(Telling, n)
<1>. DEFINE b == IF th[Notifier].pc = "lock" THEN <<th[Notifier].cmd>> ELSE << >>
            s == Names(notices)
<1>1. notices \in Seq([name : Notice, id : Nat]) /\ notices' = Append(notices, [name |-> n, id |-> i])
  BY DEF Tell, SInv, TypeOK
<1>2. Names(notices') = Append(s, n) /\ s \in Seq(Notice)
  BY <1>1, NamesFacts
<1>3. Telling' = b \o Names(notices')
  BY DEF Telling, Names, Tell, own
<1>4. b \in Seq(Notice)
  BY DEF SInv, OwnWork
<1>5. Telling = b \o s
  BY TellingIs
<1>. HIDE DEF b, s
<1>6. b \o Append(s, n) = Append(b \o s, n)
  <2>1. /\ b \o s \in Seq(Notice) /\ Append(s, n) \in Seq(Notice)
        /\ b \o Append(s, n) \in Seq(Notice) /\ Append(b \o s, n) \in Seq(Notice)
    BY <1>2, <1>4, Lists
  <2>2. /\ Len(b) \in Nat /\ Len(s) \in Nat /\ Len(Append(s, n)) = Len(s) + 1
        /\ Append(s, n)[Len(s) + 1] = n /\ \A k \in 1 .. Len(s) : Append(s, n)[k] = s[k]
    BY <1>2, <1>4, LastOf, LenProperties
  <2>3. /\ Len(b \o s) = Len(b) + Len(s)
        /\ \A k \in 1 .. Len(b) + Len(s) :
             (b \o s)[k] = IF k <= Len(b) THEN b[k] ELSE s[k - Len(b)]
    BY <1>2, <1>4, ConcatProperties
  <2>4. /\ Len(b \o Append(s, n)) = Len(b) + (Len(s) + 1)
        /\ \A k \in 1 .. Len(b) + (Len(s) + 1) :
             (b \o Append(s, n))[k] = IF k <= Len(b) THEN b[k] ELSE Append(s, n)[k - Len(b)]
    <3>1. PICK a : a = Append(s, n)
      OBVIOUS
    <3>2. a \in Seq(Notice) /\ Len(a) = Len(s) + 1
      BY <2>1, <2>2, <3>1
    <3>3. /\ Len(b \o a) = Len(b) + Len(a)
          /\ \A k \in 1 .. Len(b) + Len(a) : (b \o a)[k] = IF k <= Len(b) THEN b[k] ELSE a[k - Len(b)]
      BY <1>4, <3>2, ConcatProperties
    <3>. QED BY <3>1, <3>2, <3>3
  <2>5. /\ Len(Append(b \o s, n)) = (Len(b) + Len(s)) + 1
        /\ Append(b \o s, n)[(Len(b) + Len(s)) + 1] = n
        /\ \A k \in 1 .. Len(b) + Len(s) : Append(b \o s, n)[k] = (b \o s)[k]
    BY <2>1, <2>3, LastOf
  <2>6. ASSUME NEW k \in 1 .. Len(b) + (Len(s) + 1)
        PROVE  (b \o Append(s, n))[k] = Append(b \o s, n)[k]
    <3>1. CASE k = (Len(b) + Len(s)) + 1
      <4>1. ~(k <= Len(b)) /\ k - Len(b) = Len(s) + 1
        BY <2>2, <3>1
      <4>. QED BY <2>2, <2>4, <2>5, <3>1, <4>1
    <3>2. CASE k # (Len(b) + Len(s)) + 1
      <4>1. k \in 1 .. Len(b) + Len(s) /\ (k <= Len(b) \/ k - Len(b) \in 1 .. Len(s))
        BY <2>2, <3>2
      <4>. QED BY <2>2, <2>3, <2>4, <2>5, <4>1
    <3>. QED BY <3>1, <3>2
  <2>7. Len(b \o Append(s, n)) = Len(Append(b \o s, n))
    BY <2>2, <2>4, <2>5
  <2>. QED BY <2>1, <2>4, <2>6, <2>7, SeqEqual
<1>. QED BY <1>2, <1>3, <1>5, <1>6

-----------------------------------------------------------------------------
ActsOf(D) == {d.act : d \in D}
Single(D) == \A d, e \in D : d.act = e.act => d = e

LEMMA ActsFacts ==
  /\ Acts = ActsOf(doing) /\ (Unique <=> Single(doing))
  /\ Acts' = ActsOf(doing') /\ (Unique' <=> Single(doing'))
  /\ \A C : ActsOf(Without(C)) = Acts \ C
  /\ Unique => /\ \A C : Single(Without(C))
               /\ \A d \in doing : ActsOf(doing \ {d}) = Acts \ {d.act} /\ Single(doing \ {d})
<1>1. \A C : ActsOf(Without(C)) = Acts \ C
  BY DEF ActsOf, Acts, Without, Only
<1>2. ASSUME Unique
      PROVE  /\ \A C : Single(Without(C))
             /\ \A d \in doing : ActsOf(doing \ {d}) = Acts \ {d.act} /\ Single(doing \ {d})
  BY <1>2 DEF ActsOf, Acts, Without, Only, Unique, Single
<1>. QED BY <1>1, <1>2 DEF Acts, ActsOf, Unique, Single

LEMMA ActsJoined ==
  ASSUME NEW D, NEW X, NEW i
  PROVE  /\ ActsOf(D \cup Doing(X, i)) = ActsOf(D) \cup X
         /\ Single(D) /\ X \cap ActsOf(D) = {} => Single(D \cup Doing(X, i))
<1>1. /\ \A d \in Doing(X, i) : d.act \in X /\ d = [act |-> d.act, id |-> i]
      /\ \A a \in X : \E d \in Doing(X, i) : d.act = a
  <2>1. ASSUME NEW d \in Doing(X, i)
        PROVE  d.act \in X /\ d = [act |-> d.act, id |-> i]
    <3>1. PICK a \in X : d = [act |-> a, id |-> i]
      BY DEF Doing
    <3>. QED BY <3>1
  <2>2. ASSUME NEW a \in X
        PROVE  \E d \in Doing(X, i) : d.act = a
    <3>1. [act |-> a, id |-> i] \in Doing(X, i) /\ [act |-> a, id |-> i].act = a
      BY DEF Doing
    <3>. QED BY <3>1
  <2>. QED BY <2>1, <2>2
<1>2. ActsOf(D \cup Doing(X, i)) = ActsOf(D) \cup X
  BY <1>1 DEF ActsOf
<1>3. ASSUME Single(D), X \cap ActsOf(D) = {},
             NEW d \in D \cup Doing(X, i), NEW e \in D \cup Doing(X, i), d.act = e.act
      PROVE  d = e
  <2>1. \A c \in D : c.act \in ActsOf(D)
    BY DEF ActsOf
  <2>2. CASE d \in Doing(X, i) /\ e \in Doing(X, i)
    BY <1>1, <1>3, <2>2
  <2>3. CASE d \in D /\ e \in D
    BY <1>3, <2>3 DEF Single
  <2>. QED BY <1>1, <1>3, <2>1, <2>2, <2>3
<1>. QED BY <1>2, <1>3 DEF Single

\* What camerad does when it has served a request.
LEMMA ServedActs ==
  ASSUME Unique, NEW r, r.cmd \in AppCommand, NEW ok \in BOOLEAN, ok => Accepts(r.cmd),
         doing' = IF ok THEN Accepted(r) ELSE Rejected(r),
         ok /\ r.cmd = "stop_record" => "record_end" \notin Acts,
         ok /\ r.cmd = "stop_live" => "live_end" \notin Acts
  PROVE  Unique' /\ Acts' = IF ok THEN Begun(r.cmd, Acts) ELSE Kept(r.cmd, Acts)
<1>0. /\ Single(doing) /\ ActsOf(doing) = Acts
      /\ \A C : Single(Without(C)) /\ ActsOf(Without(C)) = Acts \ C
  BY ActsFacts
<1>1. ASSUME Single(doing')
      PROVE  Unique' /\ Acts' = ActsOf(doing')
  BY <1>1, ActsFacts
<1>2. ASSUME NEW X, NEW D, Single(D), X \cap ActsOf(D) = {}, doing' = D \cup Doing(X, r.id)
      PROVE  Unique' /\ Acts' = ActsOf(D) \cup X
  <2>. DEFINE E == D \cup Doing(X, r.id)
  <2>1. Single(E) /\ ActsOf(E) = ActsOf(D) \cup X
    BY <1>2, ActsJoined
  <2>2. doing' = E
    BY <1>2
  <2>. HIDE DEF E
  <2>3. Single(doing') /\ ActsOf(doing') = ActsOf(D) \cup X
    BY <2>1, <2>2
  <2>. QED BY <1>1, <2>3
<1>3. CASE ~ok
  <2>1. CASE r.cmd = "stop_preview"
    <3>1. doing' = Without({"preview"}) /\ Kept(r.cmd, Acts) = Acts \ {"preview"}
      BY <1>3, <2>1 DEF Rejected, Kept
    <3>2. Single(doing') /\ ActsOf(doing') = Acts \ {"preview"}
      BY <1>0, <3>1
    <3>. QED BY <1>1, <1>3, <3>1, <3>2
  <2>2. CASE r.cmd # "stop_preview"
    <3>1. doing' = doing /\ Kept(r.cmd, Acts) = Acts
      BY <1>3, <2>2 DEF Rejected, Kept
    <3>2. Single(doing') /\ ActsOf(doing') = Acts
      BY <1>0, <3>1
    <3>. QED BY <1>1, <1>3, <3>1, <3>2
  <2>. QED BY <2>1, <2>2
<1>4. CASE ok /\ r.cmd \in {"start_record", "take_pic", "start_live", "start_live_save"}
  <2>1. \E X \in {{"record"}, {"capture"}, {"live"}, {"live", "live_rec"}} :
          doing' = doing \cup Doing(X, r.id) /\ Begun(r.cmd, Acts) = Acts \cup X
    <3>1. CASE r.cmd = "start_record"
      BY <1>4, <3>1 DEF Accepted, Begun
    <3>2. CASE r.cmd = "take_pic"
      BY <1>4, <3>2 DEF Accepted, Begun
    <3>3. CASE r.cmd = "start_live"
      BY <1>4, <3>3 DEF Accepted, Begun
    <3>4. CASE r.cmd = "start_live_save"
      BY <1>4, <3>4 DEF Accepted, Begun
    <3>. QED BY <1>4, <3>1, <3>2, <3>3, <3>4
  <2>2. Acts \subseteq {"preview"}
    BY <1>4 DEF Accepts
  <2>. PICK X \in {{"record"}, {"capture"}, {"live"}, {"live", "live_rec"}} :
         doing' = doing \cup Doing(X, r.id) /\ Begun(r.cmd, Acts) = Acts \cup X
    BY <2>1
  <2>3. X \cap ActsOf(doing) = {}
    <3>1. "preview" \notin X
      BY <2>1
    <3>. QED BY <1>0, <2>2, <3>1
  <2>. QED BY <1>0, <1>2, <1>4, <2>1, <2>3
<1>5. CASE ok /\ r.cmd = "stop_record"
  <2>1. /\ doing' = Without({"record"}) \cup Doing({"record_end"}, r.id)
        /\ Begun(r.cmd, Acts) = (Acts \ {"record"}) \cup {"record_end"} /\ "record_end" \notin Acts
    BY <1>5 DEF Accepted, Begun
  <2>2. {"record_end"} \cap ActsOf(Without({"record"})) = {}
    BY <1>0, <2>1
  <2>. QED BY <1>0, <1>2, <1>5, <2>1, <2>2
<1>6. CASE ok /\ r.cmd = "stop_live"
  <2>. DEFINE C == {"live", "live_rec", "link_down"}
  <2>1. /\ doing' = Without(C) \cup Doing({"live_end"}, r.id)
        /\ Begun(r.cmd, Acts) = (Acts \ C) \cup {"live_end"} /\ "live_end" \notin Acts
    BY <1>6 DEF Accepted, Begun
  <2>. HIDE DEF C
  <2>2. {"live_end"} \cap ActsOf(Without(C)) = {}
    BY <1>0, <2>1
  <2>3. Single(Without(C)) /\ ActsOf(Without(C)) = Acts \ C
    BY <1>0
  <2>4. Unique' /\ Acts' = ActsOf(Without(C)) \cup {"live_end"}
    BY <1>2, <2>1, <2>2, <2>3
  <2>5. Acts' = Begun(r.cmd, Acts)
    BY <1>6, <2>1, <2>3, <2>4
  <2>. QED BY <1>6, <2>4, <2>5
<1>7. CASE ok /\ r.cmd = "start_preview"
  <2>1. /\ doing' = doing \cup Doing({"preview"}, r.id) /\ "preview" \notin Acts
        /\ Begun(r.cmd, Acts) = Acts \cup {"preview"}
    BY <1>7 DEF Accepted, Accepts, Begun
  <2>2. {"preview"} \cap ActsOf(doing) = {}
    BY <1>0, <2>1
  <2>. QED BY <1>0, <1>2, <1>7, <2>1, <2>2
<1>8. CASE ok /\ r.cmd = "stop_preview"
  <2>1. doing' = Without({"preview"}) /\ Begun(r.cmd, Acts) = Acts \ {"preview"}
    BY <1>8 DEF Accepted, Begun
  <2>2. Single(doing') /\ ActsOf(doing') = Acts \ {"preview"}
    BY <1>0, <2>1
  <2>. QED BY <1>1, <1>8, <2>1, <2>2
<1>9. CASE ok /\ r.cmd \in {"power_off", "plain"}
  <2>1. doing' = doing /\ Begun(r.cmd, Acts) = Acts
    BY <1>9 DEF Accepted, Begun
  <2>2. Single(doing') /\ ActsOf(doing') = Acts
    BY <1>0, <2>1
  <2>. QED BY <1>1, <1>9, <2>1, <2>2
<1>. QED BY <1>3, <1>4, <1>5, <1>6, <1>7, <1>8, <1>9 DEF AppCommand, Cmd

-----------------------------------------------------------------------------
(***************************************************************************)
(* The steps                                                               *)
(***************************************************************************)
\* What a handler has begun stays in order when nothing touches it and every word
\* that was right still is.
LEMMA InOrderStays ==
  ASSUME NEW t, InOrder(t), th'[t] = th[t], UNCHANGED camState,
         th[t].pc = "wait" => toClient' = toClient,
         \A S : Agrees(S, Acts, Telling) => Agrees(S, Acts', Telling')
  PROVE  InOrder(t)'
<1>1. th[t].pc = "check" => Right(camState)'
  BY DEF InOrder, Right
<1>2. th[t].pc = "call" \/ (th[t].pc = "wait" /\ toClient' = << >>) =>
       \E S \in SUBSET Bit : /\ Agrees(S, Acts', Telling') /\ Allowed(t, th[t].cmd, S)
                             /\ Final(th[t].ops, camState) = Final(Claim(t, th[t].cmd), S)
  BY DEF InOrder, Right
<1>3. th[t].pc = "wait" /\ toClient' # << >> =>
        Right(Final(Callback(th[t].cmd, Head(toClient)), camState))'
  <2>. SUFFICES ASSUME th[t].pc = "wait", toClient' # << >>
                PROVE  Right(Final(Callback(th[t].cmd, Head(toClient)), camState))'
    OBVIOUS
  <2>. DEFINE F == Final(Callback(th[t].cmd, Head(toClient)), camState)
  <2>1. toClient' = toClient
    OBVIOUS
  <2>2. Right(F)
    BY <2>1 DEF InOrder
  <2>3. Final(Callback(th'[t].cmd, Head(toClient')), camState') = F
    BY <2>1
  <2>. HIDE DEF F
  <2>4. F \in SUBSET Bit /\ Agrees(F, Acts', Telling')
    BY <2>2 DEF Right
  <2>. QED BY <2>3, <2>4 DEF Right
<1>4. th[t].pc = "after" => Right(Final(th[t].ops, camState))'
  BY DEF InOrder, Right
<1>. QED BY <1>1, <1>2, <1>3, <1>4 DEF InOrder, Right

\* A thread moves that has not sem_camera, and begins nothing on the state word.
LEMMA FreeMoves ==
  ASSUME CInv, NEW t \in Thread, Moves(t), t # semCamera, th'[t].ops = << >>,
         th'[t].pc \in {"check", "call", "wait", "after"} => th'[t].cmd = "power_off",
         th'[t].cmd \notin {"sync_info", "query_state"},
         UNCHANGED <<camState, semCamera, doing>>, Telling' = Telling,
         \A u \in Thread : u = semCamera /\ th[u].pc = "wait" => toClient' = toClient
  PROVE  OnlyHolder' /\ Unique' /\ Progress'
<1>1. OnlyHolder'
  BY DEF CInv, OnlyHolder, Moves
<1>2. Acts' = Acts /\ Unique'
  BY DEF CInv, Acts, Unique
<1>3. \A u \in Thread : u = semCamera => InOrder(u)'
  BY <1>2, InOrderStays DEF CInv, Progress, Moves
<1>4. semCamera = NoThread => Right(camState)'
  BY <1>2 DEF CInv, Progress, Right
<1>. QED BY <1>1, <1>2, <1>3, <1>4 DEF Progress

\* The thread that has sem_camera, or takes it, moves.
LEMMA HolderMoves ==
  ASSUME CInv, NEW t \in Thread, Moves(t), semCamera \in {t, NoThread}, semCamera' = t,
         th'[t].cmd \notin {"sync_info", "query_state"},
         th'[t].ops # << >> => /\ th'[t].pc \in {"call", "after"}
                               /\ th'[t].ops \in Seq(StateOp) /\ Tail(th'[t].ops) \in Seq(BitOp),
         UNCHANGED doing, InOrder(t)'
  PROVE  OnlyHolder' /\ Unique' /\ Progress'
<1>1. OnlyHolder'
  BY ThreadFacts DEF CInv, OnlyHolder, Moves
<1>2. Unique'
  BY DEF CInv, Unique
<1>3. Progress'
  BY ThreadFacts DEF Progress
<1>. QED BY <1>1, <1>2, <1>3

LEMMA NotHolder ==
  ASSUME SInv, NEW t \in Thread, th[t].pc \in {"idle", "lock", "disconnect"}
  PROVE  t # semCamera
  BY ThreadFacts DEF SInv, Holders

\* Who is in a handler handles a command of the app's.
LEMMA InHandler ==
  ASSUME CInv, NEW t \in Thread, t # Notifier
  PROVE  th[t].cmd \in AppCommand
  BY DEF CInv, AInv, SInv, OwnWork, OnlyHolder, AppCommand

LEMMA PowerOff ==
  /\ \A t, S : Claim(t, "power_off") = << >> /\ Allowed(t, "power_off", S)
  /\ \A S : Done("power_off", S) = << >> /\ Fail("power_off") = << >>
  BY DEF Claim, Allowed, Done, Fail

LEMMA AppCallState ==
  ASSUME AppAlone, CInv, NEW t \in Thread, AppCall(t)
  PROVE  OnlyHolder' /\ Unique' /\ Progress'
<1>1. PICK c \in AppCmd : Begins(t, c, "lock", << >>)
  BY DEF AppCall
<1>2. /\ c \in Cmd /\ calls \in Nat /\ SInv /\ t # Notifier /\ t # semCamera
      /\ c \notin {"sync_info", "query_state"}
  BY ThreadAssumption, ThreadFacts, NotHolder DEF AppCall, CInv, AInv, SInv, TypeOK, AppAlone
<1>3. Moves(t) /\ th'[t].pc = "lock" /\ th'[t].cmd = c /\ th'[t].ops = << >>
  <2>1. TypeOK /\ c \in Cmd \cup Notice
    BY <1>2 DEF SInv
  <2>2. << >> \in Seq(Op) /\ "lock" \in Stage
    BY Lists DEF Stage
  <2>3. th' = [th EXCEPT ![t] = [Idle EXCEPT !.pc = "lock", !.cmd = c, !.ops = << >>, !.id = calls]]
    BY <1>1 DEF Begins
  <2>. QED BY <1>2, <2>1, <2>2, <2>3, BeginsFacts
<1>4. Telling' = Telling
  BY <1>2, <1>3, ThreadFacts, TellingStays DEF AppCall, Moves
<1>. QED BY <1>2, <1>3, <1>4, FreeMoves DEF AppCall

LEMMA TimerFiresState ==
  ASSUME CInv, NEW t \in Thread, TimerFires(t)
  PROVE  OnlyHolder' /\ Unique' /\ Progress'
<1>1. /\ calls \in Nat /\ SInv /\ t # Notifier /\ t # semCamera /\ "power_off" \in Cmd
      /\ << >> \in Seq(Op) /\ "call" \in Stage
  <2>1. SInv /\ calls \in Nat
    BY DEF CInv, AInv, SInv, TypeOK
  <2>2. t # Notifier /\ t # semCamera
    BY <2>1, ThreadFacts, NotHolder DEF TimerFires
  <2>3. "power_off" \in Cmd
    BY DEF Cmd
  <2>4. << >> \in Seq(Op) /\ "call" \in Stage
    BY Lists DEF Stage
  <2>. QED BY <2>1, <2>2, <2>3, <2>4
<1>2. Moves(t) /\ th'[t].pc = "call" /\ th'[t].cmd = "power_off" /\ th'[t].ops = << >>
  <2>1. TypeOK /\ "power_off" \in Cmd \cup Notice
    BY <1>1 DEF SInv
  <2>2. th' = [th EXCEPT ![t] = [Idle EXCEPT !.pc = "call", !.cmd = "power_off", !.ops = << >>,
                                             !.id = calls]]
    BY DEF TimerFires, Begins
  <2>. QED BY <1>1, <2>1, <2>2, BeginsFacts
<1>3. Telling' = Telling
  BY <1>1, <1>2, ThreadFacts, TellingStays DEF TimerFires, Moves
<1>. QED BY <1>1, <1>2, <1>3, FreeMoves DEF TimerFires

LEMMA HearState ==
  ASSUME CInv, NEW t \in Thread, Hear(t)
  PROVE  OnlyHolder' /\ Unique' /\ Progress'
<1>1. SInv /\ t = Notifier /\ t # semCamera
  BY NotHolder DEF Hear, CInv, AInv
<1>2. /\ Moves(t) /\ th'[t].pc = "lock" /\ th'[t].ops = << >>
      /\ th'[t].cmd \notin {"sync_info", "query_state"}
  <2>1. Head(notices) \in [name : Notice, id : Nat]
    BY <1>1, Lists DEF Hear, SInv, TypeOK
  <2>2. Head(notices).name \notin {"sync_info", "query_state"}
    BY <2>1 DEF Notice
  <2>. QED BY <1>1, <2>2, HearSem
<1>3. Telling' = Telling
  BY <1>1, TellingHeard
<1>. QED BY <1>1, <1>2, <1>3, FreeMoves DEF Hear

\* A request is checked against a word that is right; a notification is taken up when
\* it is the first that is not handled.
LEMMA LockState ==
  ASSUME CInv, NEW t \in Thread, Lock(t)
  PROVE  OnlyHolder' /\ Unique' /\ Progress'
<1>1. /\ SInv /\ semCamera = NoThread /\ semCamera' = t /\ th[t].pc = "lock"
      /\ UNCHANGED <<camState, doing, notices>> /\ Acts' = Acts
      /\ Right(camState) /\ camState \in SUBSET Bit
  BY DEF Lock, CInv, AInv, SInv, TypeOK, Progress, Acts
<1>2. /\ Moves(t) /\ th'[t].cmd = th[t].cmd /\ th'[t].id = th[t].id
      /\ IF t = Notifier
         THEN th'[t].pc = "after" /\ th'[t].ops = Notified(th[t].cmd, th[t].id)
         ELSE th'[t].pc = "check" /\ th'[t].ops = << >>
  BY <1>1, LockSem
<1>3. th'[t].cmd \notin {"sync_info", "query_state"}
  BY <1>2 DEF CInv, OnlyHolder
<1>4. CASE t # Notifier
  <2>1. Telling' = Telling
    BY <1>1, <1>2, <1>4, ThreadFacts, TellingStays DEF Moves
  <2>2. InOrder(t)'
    BY <1>1, <1>2, <1>4, <2>1 DEF InOrder, Right
  <2>. QED BY <1>1, <1>2, <1>3, <1>4, <2>2, HolderMoves
<1>5. CASE t = Notifier
  <2>. DEFINE n == th[t].cmd
              i == th[t].id
  <2>1. n \in Notice /\ i \in Nat
    BY <1>1, <1>5 DEF SInv, TypeOK, ThreadState, OwnWork
  <2>2. Telling # << >> /\ Head(Telling) = n /\ Telling' = Tail(Telling)
    BY <1>1, <1>2, <1>5, TellingTaken
  <2>3. Agrees(camState, Acts, Telling)
    BY <1>1 DEF Right
  <2>4. Handled(n, camState) \in SUBSET Bit /\ Agrees(Handled(n, camState), Acts, Tail(Telling))
    <3>1. /\ Handled(Head(Telling), camState) \in SUBSET Bit
          /\ Agrees(Handled(Head(Telling), camState), Acts, Tail(Telling))
      BY <1>1, <2>2, <2>3, AgreesHandled
    <3>. QED BY <2>2, <3>1
  <2>. HIDE DEF n, i
  <2>5. Final(Notified(n, i), camState) = Handled(n, camState)
    BY <1>1, <2>1, NotifiedFinal
  <2>6. th'[t].ops = Notified(n, i) /\ th'[t].pc = "after"
    BY <1>2, <1>5 DEF n, i
  <2>7. Right(Final(th[t].ops, camState))'
    BY <1>1, <2>2, <2>4, <2>5, <2>6 DEF Right
  <2>8. InOrder(t)'
    BY <2>6, <2>7 DEF InOrder
  <2>9. th'[t].ops # << >> => /\ th'[t].pc \in {"call", "after"}
                              /\ th'[t].ops \in Seq(StateOp) /\ Tail(th'[t].ops) \in Seq(BitOp)
    BY <2>1, <2>6, NotifiedFit
  <2>. QED BY <1>1, <1>2, <1>3, <2>8, <2>9, HolderMoves
<1>. QED BY <1>4, <1>5

\* A check that passes begins the request with a word that is right.
LEMMA CheckState ==
  ASSUME CInv, NEW t \in Thread, Check(t)
  PROVE  OnlyHolder' /\ Unique' /\ Progress'
<1>. DEFINE c == th[t].cmd
<1>1. /\ SInv /\ UNCHANGED <<camState, semCamera, doing, notices, toClient>> /\ Acts' = Acts
      /\ th[t].pc = "check" /\ camState \in SUBSET Bit
  BY DEF Check, CInv, AInv, SInv, TypeOK, Acts
<1>2. Moves(t) /\ th'[t].pc \in {"call", "after"} /\ t # Notifier
  BY <1>1, CheckSem
<1>3. c \in AppCommand
  BY <1>2, InHandler
<1>4. Claim(t, c) \in Seq(BitOp) /\ Claim(t, c) \in Seq(Op)
  BY <1>3, ClaimFit, BitsAreFit
<1>5. /\ th'[t].cmd = c
      /\ \/ Allowed(t, c, camState) /\ th'[t].pc = "call" /\ th'[t].ops = Claim(t, c)
         \/ th'[t].pc = "after" /\ th'[t].ops = << >>
  <2>1. CASE Allowed(t, c, camState)
    <3>1. Goes(t, "call", Claim(t, c)) /\ "call" \in Stage
      BY <2>1 DEF Check, Stage
    <3>. QED BY <1>1, <1>4, <2>1, <3>1, GoesFacts DEF SInv
  <2>2. CASE ~Allowed(t, c, camState)
    <3>1. Goes(t, "after", << >>) /\ "after" \in Stage /\ << >> \in Seq(Op)
      BY <2>2, Lists DEF Check, Stage
    <3>. QED BY <1>1, <3>1, GoesFacts DEF SInv
  <2>. QED BY <2>1, <2>2
<1>6. Telling' = Telling
  BY <1>1, <1>2, ThreadFacts, TellingStays DEF Moves
<1>7. c \notin {"sync_info", "query_state"}
  BY DEF CInv, OnlyHolder
<1>8. CASE t # semCamera
  <2>1. c = "power_off"
    BY <1>1, <1>8 DEF CInv, OnlyHolder
  <2>2. th'[t].ops = << >>
    BY <1>5, <2>1, PowerOff
  <2>. HIDE DEF c
  <2>. QED BY <1>1, <1>2, <1>5, <1>6, <1>7, <1>8, <2>1, <2>2, FreeMoves
<1>9. CASE t = semCamera
  <2>1. Agrees(camState, Acts', Telling')
    BY <1>1, <1>6, <1>9 DEF CInv, Progress, InOrder, Right
  <2>. HIDE DEF c
  <2>2. CASE Allowed(t, c, camState) /\ th'[t].pc = "call" /\ th'[t].ops = Claim(t, c)
    <3>1. InOrder(t)'
      BY <1>1, <1>5, <2>1, <2>2 DEF InOrder, Right
    <3>2. /\ th'[t].ops \in Seq(StateOp)
          /\ th'[t].ops # << >> => Tail(th'[t].ops) \in Seq(BitOp)
      BY <1>4, <2>2, BitsAreFit
    <3>. QED BY <1>1, <1>2, <1>5, <1>7, <1>9, <3>1, <3>2, HolderMoves
  <2>3. CASE th'[t].pc = "after" /\ th'[t].ops = << >>
    <3>1. Final(th'[t].ops, camState') = camState
      BY <1>1, <2>3, FinalNil
    <3>2. InOrder(t)'
      BY <1>1, <2>1, <2>3, <3>1 DEF InOrder, Right
    <3>. QED BY <1>1, <1>2, <1>5, <1>7, <1>9, <2>3, <3>2, HolderMoves
  <2>. QED BY <1>5, <2>2, <2>3
<1>. QED BY <1>8, <1>9

\* Reading the state and storing what follows from it is the operation itself.
LEMMA ReadingStays ==
  ASSUME camState \in SUBSET Bit, NEW s \in Seq(StateOp), s # << >>, Tail(s) \in Seq(BitOp),
         Head(s).op \in {"add", "rm", "rmif", "rmunowned", "sync", "link"}
  PROVE  /\ AfterReading(Head(s)) \o Tail(s) \in Seq(BitOp)
         /\ Final(AfterReading(Head(s)) \o Tail(s), camState) = Final(s, camState)
<1>. DEFINE o == Head(s)
            r == Tail(s)
<1>1. o \in StateOp /\ r \in Seq(BitOp) /\ BitOp \subseteq StateOp
  BY Lists DEF StateOp
<1>2. Final(s, camState) = Final(r, Do(o, camState))
  BY FinalCons
<1>. HIDE DEF o, r
<1>3. ASSUME NEW a \in BitOp, NEW q \in Seq(BitOp), NEW S \in SUBSET Bit
      PROVE  <<a>> \o q \in Seq(BitOp) /\ Final(<<a>> \o q, S) = Final(q, Do(a, S))
  <2>1. /\ <<a>> \o q \in Seq(BitOp) /\ <<a>> \o q # << >>
        /\ Head(<<a>> \o q) = a /\ Tail(<<a>> \o q) = q
    BY ConsFacts, Lists
  <2>2. PICK p : p = <<a>> \o q
    OBVIOUS
  <2>3. p \in Seq(StateOp) /\ p # << >> /\ Head(p) = a /\ Tail(p) = q
    BY <2>1, <2>2, BitsAreFit
  <2>4. Final(p, S) = Final(Tail(p), Do(Head(p), S))
    BY <2>3, FinalCons
  <2>. QED BY <2>1, <2>2, <2>3, <2>4
<1>4. CASE o \in BitOp
  <2>1. o.op \in {"add", "rm", "rmif"} /\ o.bit \in Bit
    <3>1. o \in Op /\ o.op \in {"add", "rm", "rmif"}
      BY <1>4 DEF BitOp, o
    <3>. QED BY <3>1 DEF Op
  <2>2. \/ AfterReading(o) = <<Store(Do(o, camState))>>
        \/ AfterReading(o) = <<Rm(o.bit)>> /\ Do(o, camState) = camState \ {o.bit}
        \/ AfterReading(o) = << >> /\ Do(o, camState) = camState
    BY <2>1 DEF AfterReading, Do
  <2>3. Do(o, camState) \in SUBSET Bit
    BY <1>1, DoFacts
  <2>4. CASE AfterReading(o) = <<Store(Do(o, camState))>>
    <3>1. PICK V \in SUBSET Bit : V = Do(o, camState)
      BY <2>3
    <3>2. Store(V) \in BitOp /\ Do(Store(V), camState) = V
      BY BitOps, DoEach
    <3>3. /\ <<Store(V)>> \o r \in Seq(BitOp)
          /\ Final(<<Store(V)>> \o r, camState) = Final(r, Do(Store(V), camState))
      BY <1>1, <1>3, <3>2
    <3>. QED BY <1>2, <2>4, <3>1, <3>2, <3>3 DEF o, r
  <2>5. CASE AfterReading(o) = <<Rm(o.bit)>> /\ Do(o, camState) = camState \ {o.bit}
    <3>1. PICK b \in Bit : b = o.bit
      BY <2>1
    <3>2. Rm(b) \in BitOp /\ Do(Rm(b), camState) = camState \ {b}
      BY BitOps, DoEach
    <3>3. /\ <<Rm(b)>> \o r \in Seq(BitOp)
          /\ Final(<<Rm(b)>> \o r, camState) = Final(r, Do(Rm(b), camState))
      BY <1>1, <1>3, <3>2
    <3>. QED BY <1>2, <2>5, <3>1, <3>2, <3>3 DEF o, r
  <2>6. CASE AfterReading(o) = << >> /\ Do(o, camState) = camState
    <3>1. << >> \o r = r
      BY <1>1, ConcatEmptySeq
    <3>. QED BY <1>1, <1>2, <2>6, <3>1 DEF o, r
  <2>. QED BY <2>2, <2>4, <2>5, <2>6
<1>5. CASE o \notin BitOp
  <2>1. PICK up \in BOOLEAN : o = Link(up)
    BY <1>1, <1>5 DEF StateOp
  <2>2. o.op = "link" /\ o.up = up
    BY <2>1 DEF Link
  <2>. DEFINE L == "LIVE"
              N == "LIVE_CONNECTING"
  <2>3. \/ /\ AfterReading(o) = <<Rm(N), Add(L)>>
           /\ Do(o, camState) = (camState \ {N}) \cup {L}
        \/ /\ AfterReading(o) = <<Rm(L), Add(N)>>
           /\ Do(o, camState) = (camState \ {L}) \cup {N}
        \/ AfterReading(o) = << >> /\ Do(o, camState) = camState
    <3>1. /\ Do(o, camState) = Linked(up, camState)
          /\ AfterReading(o) = IF up THEN IF L \notin camState /\ N \in camState
                                          THEN <<Rm(N), Add(L)>> ELSE << >>
                                     ELSE IF L \in camState THEN <<Rm(L), Add(N)>> ELSE << >>
      BY <2>2 DEF AfterReading, Do
    <3>2. Linked(up, camState) = IF up /\ L \notin camState /\ N \in camState
                                 THEN (camState \ {N}) \cup {L}
                                 ELSE IF ~up /\ L \in camState THEN (camState \ {L}) \cup {N} ELSE camState
      BY DEF Linked
    <3>. QED BY <3>1, <3>2
  <2>. HIDE DEF L, N
  <2>4. ASSUME NEW b \in Bit, NEW d \in Bit
        PROVE  /\ <<Rm(b), Add(d)>> \o r \in Seq(BitOp)
               /\ Final(<<Rm(b), Add(d)>> \o r, camState) = Final(r, (camState \ {b}) \cup {d})
    <3>1. PICK q : q = <<Add(d)>> \o r
      OBVIOUS
    <3>2. /\ Rm(b) \in BitOp /\ Do(Rm(b), camState) = camState \ {b}
          /\ Add(d) \in BitOp /\ Do(Add(d), camState \ {b}) = (camState \ {b}) \cup {d}
          /\ camState \ {b} \in SUBSET Bit
      BY BitOps, DoEach
    <3>3. PICK S \in SUBSET Bit : S = camState \ {b}
      BY <3>2
    <3>4. q \in Seq(BitOp) /\ Final(q, S) = Final(r, Do(Add(d), S))
      BY <1>1, <1>3, <3>1, <3>2
    <3>5. <<Rm(b)>> \o q \in Seq(BitOp) /\ Final(<<Rm(b)>> \o q, camState) = Final(q, S)
      <4>1. PICK a \in BitOp : a = Rm(b)
        BY <3>2
      <4>2. /\ <<a>> \o q \in Seq(BitOp)
            /\ Final(<<a>> \o q, camState) = Final(q, Do(a, camState))
        BY <1>3, <3>4
      <4>. QED BY <3>2, <3>3, <4>1, <4>2
    <3>6. <<Rm(b), Add(d)>> \o r = <<Rm(b)>> \o q
      <4>1. <<Rm(b)>> \o <<Add(d)>> = <<Rm(b), Add(d)>>
        BY JoinOne
      <4>2. <<Rm(b)>> \in Seq(BitOp) /\ <<Add(d)>> \in Seq(BitOp)
        BY <3>2, Lists
      <4>3. (<<Rm(b)>> \o <<Add(d)>>) \o r = <<Rm(b)>> \o (<<Add(d)>> \o r)
        BY <1>1, <4>2, ConcatAssociative
      <4>. QED BY <3>1, <4>1, <4>3
    <3>. QED BY <3>2, <3>3, <3>4, <3>5, <3>6
  <2>5. L \in Bit /\ N \in Bit
    BY DEF Bit, L, N
  <2>6. CASE AfterReading(o) = << >> /\ Do(o, camState) = camState
    <3>1. << >> \o r = r
      BY <1>1, ConcatEmptySeq
    <3>. QED BY <1>1, <1>2, <2>6, <3>1 DEF o, r
  <2>7. /\ AfterReading(o) \o r \in Seq(BitOp)
        /\ Final(AfterReading(o) \o r, camState) = Final(r, Do(o, camState))
    BY <1>2, <2>3, <2>4, <2>5, <2>6 DEF o, r
  <2>. QED BY <1>2, <2>7 DEF o, r
<1>. QED BY <1>4, <1>5

LEMMA ReadStateState ==
  ASSUME CInv, NEW t \in Thread, ReadState(t)
  PROVE  OnlyHolder' /\ Unique' /\ Progress'
<1>. DEFINE s == th[t].ops
            s2 == AfterReading(Head(s)) \o Tail(s)
<1>1. /\ SInv /\ UNCHANGED <<camState, semCamera, doing, notices, toClient>> /\ Acts' = Acts
      /\ camState \in SUBSET Bit /\ s # << >>
      /\ Head(s).op \in {"add", "rm", "rmif", "rmunowned", "sync", "link"}
  BY DEF ReadState, CInv, AInv, SInv, TypeOK, Acts, NextOp
<1>2. /\ t = semCamera /\ th[t].pc \in {"call", "after"}
      /\ s \in Seq(StateOp) /\ Tail(s) \in Seq(BitOp)
  BY <1>1 DEF CInv, OnlyHolder
<1>3. /\ Moves(t) /\ th'[t].pc = th[t].pc /\ th'[t].cmd = th[t].cmd /\ th'[t].ops = s2
  BY <1>1, ReadStateSem DEF NextOp
<1>. HIDE DEF s2
<1>4. s2 \in Seq(BitOp) /\ Final(s2, camState) = Final(s, camState)
  BY <1>1, <1>2, ReadingStays DEF s2
<1>5. Telling' = Telling
  BY <1>1, <1>3, ThreadFacts, TellingStays DEF Moves
<1>6. InOrder(t)'
  <2>1. InOrder(t) /\ Final(th'[t].ops, camState') = Final(th[t].ops, camState)
    BY <1>1, <1>2, <1>3, <1>4 DEF CInv, Progress
  <2>2. CASE th[t].pc = "call"
    <3>1. PICK S \in SUBSET Bit : /\ Right(S) /\ Allowed(t, th[t].cmd, S)
                                  /\ Final(th[t].ops, camState) = Final(Claim(t, th[t].cmd), S)
      BY <2>1, <2>2 DEF InOrder
    <3>2. Agrees(S, Acts', Telling')
      BY <1>1, <1>5, <3>1 DEF Right
    <3>. QED BY <1>3, <2>1, <2>2, <3>1, <3>2 DEF InOrder, Right
  <2>3. CASE th[t].pc = "after"
    <3>1. Right(Final(th[t].ops, camState))
      BY <2>1, <2>3 DEF InOrder
    <3>2. Right(Final(th[t].ops, camState))'
      BY <1>1, <1>5, <2>1, <3>1 DEF Right
    <3>. QED BY <1>3, <2>3, <3>2 DEF InOrder
  <2>. QED BY <1>2, <2>2, <2>3
<1>7. /\ th'[t].ops \in Seq(StateOp) /\ (th'[t].ops # << >> => Tail(th'[t].ops) \in Seq(BitOp))
  BY <1>3, <1>4, BitsAreFit
<1>8. th'[t].cmd \notin {"sync_info", "query_state"}
  BY <1>3 DEF CInv, OnlyHolder
<1>. QED BY <1>1, <1>2, <1>3, <1>6, <1>7, <1>8, HolderMoves

LEMMA WriteStateState ==
  ASSUME CInv, NEW t \in Thread, WriteState(t)
  PROVE  OnlyHolder' /\ Unique' /\ Progress'
<1>. DEFINE s == th[t].ops
<1>1. /\ SInv /\ UNCHANGED <<semCamera, doing, notices, toClient>> /\ Acts' = Acts
      /\ camState \in SUBSET Bit /\ s # << >>
  BY DEF WriteState, CInv, AInv, SInv, TypeOK, Acts
<1>2. /\ t = semCamera /\ th[t].pc \in {"call", "after"}
      /\ s \in Seq(StateOp) /\ Tail(s) \in Seq(BitOp)
  BY <1>1 DEF CInv, OnlyHolder
<1>3. /\ Moves(t) /\ th'[t].pc = th[t].pc /\ th'[t].cmd = th[t].cmd /\ th'[t].ops = Tail(s)
  BY <1>1, WriteStateSem
<1>4. camState' = Do(Head(s), camState)
  BY DEF WriteState, NextOp, Do
<1>5. Final(Tail(s), camState') = Final(s, camState)
  <2>1. Final(s, camState) = Final(Tail(s), Do(Head(s), camState))
    BY <1>1, <1>2, FinalCons
  <2>. QED BY <1>4, <2>1
<1>6. Telling' = Telling
  BY <1>1, <1>3, ThreadFacts, TellingStays DEF Moves
<1>7. InOrder(t)'
  <2>1. InOrder(t) /\ Final(th'[t].ops, camState') = Final(th[t].ops, camState)
    BY <1>1, <1>2, <1>3, <1>5 DEF CInv, Progress
  <2>2. CASE th[t].pc = "call"
    <3>1. PICK S \in SUBSET Bit : /\ Right(S) /\ Allowed(t, th[t].cmd, S)
                                  /\ Final(th[t].ops, camState) = Final(Claim(t, th[t].cmd), S)
      BY <2>1, <2>2 DEF InOrder
    <3>2. Agrees(S, Acts', Telling')
      BY <1>1, <1>6, <3>1 DEF Right
    <3>. QED BY <1>3, <2>1, <2>2, <3>1, <3>2 DEF InOrder, Right
  <2>3. CASE th[t].pc = "after"
    <3>1. Right(Final(th[t].ops, camState))
      BY <2>1, <2>3 DEF InOrder
    <3>2. Right(Final(th[t].ops, camState))'
      BY <1>1, <1>6, <2>1, <3>1 DEF Right
    <3>. QED BY <1>3, <2>3, <3>2 DEF InOrder
  <2>. QED BY <1>2, <2>2, <2>3
<1>8. /\ th'[t].ops \in Seq(StateOp) /\ (th'[t].ops # << >> => Tail(th'[t].ops) \in Seq(BitOp))
  BY <1>2, <1>3, BitsAreFit
<1>9. th'[t].cmd \notin {"sync_info", "query_state"}
  BY <1>3 DEF CInv, OnlyHolder
<1>. QED BY <1>1, <1>2, <1>3, <1>7, <1>8, <1>9, HolderMoves

LEMMA WriteRequestState ==
  ASSUME CInv, NEW t \in Thread, Write(t)
  PROVE  OnlyHolder' /\ Unique' /\ Progress'
<1>1. /\ AInv /\ SInv /\ UNCHANGED <<camState, semCamera, doing, notices, toClient>> /\ Acts' = Acts
      /\ th[t].pc = "call" /\ th[t].ops = << >>
  BY DEF Write, CInv, AInv, Acts
<1>2. \A u \in Thread : th[u].pc # "wait"
  BY <1>1, ThreadFacts DEF Write, SInv, Locks
<1>3. toClient = << >>
  BY <1>1, <1>2 DEF AInv, OneRequest
<1>4. Moves(t) /\ th'[t].pc = "wait" /\ th'[t].cmd = th[t].cmd /\ th'[t].ops = << >>
  BY <1>1, WriteSem
<1>5. Telling' = Telling
  BY <1>1, <1>4, ThreadFacts, TellingStays DEF Moves, SInv, OwnWork
<1>6. th[t].cmd \notin {"sync_info", "query_state"}
  BY DEF CInv, OnlyHolder
<1>7. CASE t # semCamera
  <2>1. th[t].cmd = "power_off"
    BY <1>1, <1>7 DEF CInv, OnlyHolder
  <2>. QED BY <1>1, <1>4, <1>5, <1>6, <1>7, <2>1, FreeMoves
<1>8. CASE t = semCamera
  <2>1. PICK S \in SUBSET Bit : /\ Right(S) /\ Allowed(t, th[t].cmd, S)
                                /\ Final(th[t].ops, camState) = Final(Claim(t, th[t].cmd), S)
    BY <1>1, <1>8 DEF CInv, Progress, InOrder
  <2>2. Agrees(S, Acts', Telling')
    BY <1>1, <1>5, <2>1 DEF Right
  <2>3. InOrder(t)'
    BY <1>1, <1>3, <1>4, <2>1, <2>2 DEF InOrder, Right
  <2>. QED BY <1>1, <1>4, <1>6, <1>8, <2>3, HolderMoves
<1>. QED BY <1>7, <1>8

LEMMA ReadRequestState ==
  ASSUME CInv, NEW t \in Thread, Read(t)
  PROVE  OnlyHolder' /\ Unique' /\ Progress'
<1>. DEFINE a == Head(toClient)
            c == th[t].cmd
<1>1. /\ AInv /\ SInv /\ UNCHANGED <<camState, semCamera, doing, notices>> /\ Acts' = Acts
      /\ th[t].pc = "wait" /\ toClient # << >> /\ camState \in SUBSET Bit
  BY DEF Read, CInv, AInv, SInv, TypeOK, Acts
<1>2. t # Notifier
  BY <1>1 DEF SInv, OwnWork
<1>3. c \in AppCommand
  BY <1>2, InHandler
<1>4. a.id \in Nat
  <2>1. a \in [seq : Nat, id : Nat, ok : BOOLEAN, state : SUBSET Bit]
    BY <1>1, Lists DEF SInv, TypeOK
  <2>. QED BY <2>1
<1>5. Goes(t, "after", Answered(t, a))
  BY <1>1, ReadRequest
<1>. HIDE DEF a
<1>6. /\ Answered(t, a) \in Seq(BitOp)
      /\ Final(Answered(t, a), camState) = Final(Callback(c, a), camState)
  <2>1. /\ Answered(t, a) \in Seq(BitOp)
        /\ Final(Answered(t, a), camState) = IF a.ok THEN Final(Done(c, a.state), camState)
                                                     ELSE Final(Fail(c), camState)
    BY <1>3, <1>4, AnsweredFit
  <2>2. Final(Callback(c, a), camState) = IF a.ok THEN Final(Done(c, a.state), camState)
                                                  ELSE Final(Fail(c), camState)
    BY DEF Callback
  <2>. QED BY <2>1, <2>2
<1>7. Moves(t) /\ th'[t].pc = "after" /\ th'[t].cmd = c /\ th'[t].ops = Answered(t, a)
  <2>1. Answered(t, a) \in Seq(Op) /\ "after" \in Stage
    BY <1>6, BitsAreFit DEF Stage
  <2>. QED BY <1>1, <1>5, <2>1, GoesFacts DEF SInv
<1>8. Telling' = Telling
  BY <1>1, <1>2, <1>7, ThreadFacts, TellingStays DEF Moves
<1>9. c \notin {"sync_info", "query_state"}
  BY <1>3 DEF AppCommand
<1>10. CASE t # semCamera
  <2>1. c = "power_off"
    BY <1>1, <1>10 DEF CInv, OnlyHolder
  <2>2. Answered(t, a) = << >>
    <3>1. Answered(t, a) \in {<< >>, << >> \o << >>}
      BY <2>1, PowerOff DEF Answered, Async
    <3>. QED BY <3>1, Lists, ConcatEmptySeq
  <2>3. \A u \in Thread : ~(u = semCamera /\ th[u].pc = "wait")
    BY <1>1, <1>10, OneWaits
  <2>. HIDE DEF c
  <2>. QED BY <1>1, <1>7, <1>8, <1>9, <1>10, <2>1, <2>2, <2>3, FreeMoves
<1>11. CASE t = semCamera
  <2>1. Right(Final(Callback(c, a), camState))
    BY <1>1, <1>11 DEF CInv, Progress, InOrder, a
  <2>2. Right(Final(th[t].ops, camState))'
    BY <1>1, <1>6, <1>7, <1>8, <2>1 DEF Right
  <2>3. InOrder(t)'
    BY <1>7, <2>2 DEF InOrder
  <2>4. /\ th'[t].ops \in Seq(StateOp) /\ (th'[t].ops # << >> => Tail(th'[t].ops) \in Seq(BitOp))
    BY <1>6, <1>7, BitsAreFit
  <2>. QED BY <1>1, <1>7, <1>9, <1>11, <2>3, <2>4, HolderMoves
<1>. QED BY <1>10, <1>11

LEMMA ReturnState ==
  ASSUME CInv, NEW t \in Thread, Return(t)
  PROVE  OnlyHolder' /\ Unique' /\ Progress'
<1>1. /\ SInv /\ UNCHANGED <<camState, doing, notices, toClient>> /\ Acts' = Acts
      /\ th[t].pc = "after" /\ th[t].ops = << >> /\ camState \in SUBSET Bit
      /\ semCamera' = Freed(semCamera, t)
  BY DEF Return, CInv, AInv, SInv, TypeOK, Acts
<1>2. Moves(t) /\ th'[t].pc \in {"idle", "disconnect"} /\ th'[t].ops = << >>
  BY <1>1, ReturnSem
<1>3. th'[t].cmd \notin {"sync_info", "query_state"}
  <2>1. CASE th[t].cmd = "power_off"
    <3>1. Goes(t, "disconnect", << >>) /\ "disconnect" \in Stage /\ << >> \in Seq(Op)
      BY <2>1, Lists DEF Return, Stage
    <3>2. th'[t].cmd = th[t].cmd
      BY <1>1, <3>1, GoesFacts DEF SInv
    <3>. QED BY <2>1, <3>2
  <2>2. CASE th[t].cmd # "power_off"
    <3>1. th' = [th EXCEPT ![t] = Idle]
      BY <2>2 DEF Return
    <3>2. th'[t] = Idle
      BY <1>1, <3>1, IdleFacts, SetFacts DEF SInv
    <3>. QED BY <3>2, IdleFacts
  <2>. QED BY <2>1, <2>2
<1>4. Telling' = Telling
  BY <1>1, <1>2, ThreadFacts, TellingStays DEF Moves
<1>5. CASE t # semCamera
  <2>1. semCamera' = semCamera
    BY <1>1, <1>5 DEF Freed
  <2>. QED BY <1>1, <1>2, <1>3, <1>4, <1>5, <2>1, FreeMoves
<1>6. CASE t = semCamera
  <2>1. semCamera' = NoThread
    BY <1>1, <1>6 DEF Freed
  <2>2. Right(Final(th[t].ops, camState))
    BY <1>1, <1>6 DEF CInv, Progress, InOrder
  <2>3. Final(th[t].ops, camState) = camState
    BY <1>1, FinalNil
  <2>4. Right(camState)'
    BY <1>1, <1>4, <2>2, <2>3 DEF Right
  <2>5. OnlyHolder'
    BY <1>2, <1>3, <1>6, <2>1 DEF CInv, OnlyHolder, Moves
  <2>6. Unique'
    BY <1>1 DEF CInv, Unique
  <2>. QED BY <2>1, <2>4, <2>5, <2>6, ThreadFacts DEF Progress
<1>. QED BY <1>5, <1>6

LEMMA DisconnectState ==
  ASSUME CInv, NEW t \in Thread, Disconnect(t)
  PROVE  OnlyHolder' /\ Unique' /\ Progress'
<1>1. /\ SInv /\ UNCHANGED <<camState, semCamera, doing, notices, toClient>> /\ Acts' = Acts
      /\ th[t].pc = "disconnect" /\ t # semCamera
  BY NotHolder DEF Disconnect, CInv, AInv, Acts
<1>2. Moves(t) /\ th'[t].pc \in {"lock", "idle"} /\ th'[t].ops = << >> /\ t # Notifier
  BY <1>1, DisconnectSem
<1>3. th'[t].cmd \notin {"sync_info", "query_state"}
  <2>1. CASE camState = {"PREVIEW"}
    <3>1. th' = [th EXCEPT ![t] = [Idle EXCEPT !.pc = "lock", !.cmd = "stop_preview", !.id = calls]]
      BY <2>1 DEF Disconnect
    <3>2. th'[t].cmd = [Idle EXCEPT !.pc = "lock", !.cmd = "stop_preview", !.id = calls].cmd
      BY <1>1, <3>1 DEF SInv, TypeOK
    <3>3. [Idle EXCEPT !.pc = "lock", !.cmd = "stop_preview", !.id = calls].cmd = "stop_preview"
      BY DEF Idle
    <3>. QED BY <3>2, <3>3
  <2>2. CASE camState # {"PREVIEW"}
    <3>1. th' = [th EXCEPT ![t] = Idle]
      BY <2>2 DEF Disconnect
    <3>2. th'[t] = Idle
      BY <1>1, <3>1, IdleFacts, SetFacts DEF SInv
    <3>. QED BY <3>2, IdleFacts
  <2>. QED BY <2>1, <2>2
<1>4. Telling' = Telling
  BY <1>1, <1>2, ThreadFacts, TellingStays DEF Moves
<1>. QED BY <1>1, <1>2, <1>3, <1>4, FreeMoves

\* camerad answers: the word that was right when the request was checked will be
\* right again with the callback of the answer.
LEMMA ServeState ==
  ASSUME AppAlone, CInv, Serve
  PROVE  OnlyHolder' /\ Unique' /\ Progress'
<1>. DEFINE r == Head(toCamerad)
<1>1. /\ AInv /\ SInv /\ UNCHANGED <<th, camState, semCamera, notices>> /\ camState \in SUBSET Bit
  BY DEF Serve, own, CInv, AInv, SInv, TypeOK
<1>2. PICK t \in Thread : /\ th[t].pc = "wait" /\ Asked(t) /\ th[t].cmd = r.cmd
  BY <1>1, ServeRequest
<1>3. PICK ok \in BOOLEAN :
        /\ ok => Accepts(r.cmd)
        /\ doing' = IF ok THEN Accepted(r) ELSE Rejected(r)
        /\ toClient' = Append(toClient, [seq |-> r.seq, id |-> r.id, ok |-> ok, state |-> BitsOf(Acts)])
  BY DEF Serve
<1>. DEFINE a == [seq |-> r.seq, id |-> r.id, ok |-> ok, state |-> BitsOf(Acts)]
<1>4. toClient = << >> /\ toClient' = <<a>> /\ Head(toClient') = a /\ toClient' # << >>
  BY <1>2, <1>3 DEF Asked
<1>5. Telling' = Telling
  BY <1>1, TellingStays
<1>6. OnlyHolder'
  BY <1>1 DEF CInv, OnlyHolder
<1>7. semCamera # NoThread => semCamera \in Thread
  BY <1>1 DEF SInv, TypeOK
<1>8. t # Notifier /\ t \notin Ui
  BY <1>1, <1>2 DEF SInv, OwnWork, AppAlone
<1>. DEFINE c == th[t].cmd
<1>9. c \in AppCommand /\ r.cmd = c
  BY <1>2, <1>8, InHandler
<1>. HIDE DEF r
<1>10. CASE t # semCamera
  <2>1. c = "power_off"
    BY <1>2, <1>10 DEF CInv, OnlyHolder
  <2>2. doing' = doing
    BY <1>3, <1>9, <2>1 DEF Accepted, Rejected
  <2>3. Acts' = Acts /\ Unique'
    BY <2>2 DEF CInv, Acts, Unique
  <2>4. \A u \in Thread : u = semCamera => InOrder(u)'
    <3>1. \A u \in Thread : u = semCamera => th[u].pc # "wait"
      BY <1>1, <1>2, <1>10, OneWaits
    <3>. QED BY <1>1, <1>5, <2>3, <3>1, InOrderStays DEF CInv, Progress
  <2>5. semCamera = NoThread => Right(camState)'
    BY <1>1, <1>5, <2>3 DEF CInv, Progress, Right
  <2>. QED BY <1>1, <1>6, <2>3, <2>4, <2>5 DEF Progress
<1>11. CASE t = semCamera
  <2>1. th[t].ops = << >>
    BY <1>2 DEF CInv, OnlyHolder
  <2>2. PICK S \in SUBSET Bit : /\ Right(S) /\ Allowed(t, c, S)
                                /\ Final(th[t].ops, camState) = Final(Claim(t, c), S)
    BY <1>2, <1>4, <1>11 DEF CInv, Progress, InOrder
  <2>3. camState = Claimed(t, c, S)
    BY <1>1, <2>1, <2>2, FinalNil DEF Claimed
  <2>4. Agrees(S, Acts, Telling)
    BY <2>2 DEF Right
  <2>5. /\ Accepts(c) => /\ Agrees(Final(Done(c, BitsOf(Acts)), camState), Begun(c, Acts), Telling)
                         /\ c = "stop_record" => "record_end" \notin Acts
                         /\ c = "stop_live" => "live_end" \notin Acts
        /\ Agrees(Final(Fail(c), camState), Kept(c, Acts), Telling)
    BY <1>8, <1>9, <2>2, <2>3, <2>4, CommandServed
  <2>6. Unique' /\ Acts' = IF ok THEN Begun(c, Acts) ELSE Kept(c, Acts)
    <3>1. /\ Unique /\ r.cmd \in AppCommand
          /\ ok => Accepts(r.cmd)
          /\ ok /\ r.cmd = "stop_record" => "record_end" \notin Acts
          /\ ok /\ r.cmd = "stop_live" => "live_end" \notin Acts
      BY <1>3, <1>9, <2>5 DEF CInv
    <3>2. Unique' /\ Acts' = IF ok THEN Begun(r.cmd, Acts) ELSE Kept(r.cmd, Acts)
      BY <1>3, <3>1, ServedActs
    <3>. QED BY <1>9, <3>2
  <2>7. Agrees(Final(Callback(c, a), camState), Acts', Telling')
    <3>1. a.ok = ok /\ a.state = BitsOf(Acts)
      OBVIOUS
    <3>2. CASE ok
      BY <1>3, <1>5, <1>9, <2>5, <2>6, <3>1, <3>2 DEF Callback
    <3>3. CASE ~ok
      BY <1>5, <2>5, <2>6, <3>1, <3>3 DEF Callback
    <3>. QED BY <3>2, <3>3
  <2>. HIDE DEF a
  <2>8. Right(Final(Callback(th[t].cmd, Head(toClient)), camState))'
    BY <1>1, <1>4, <2>7, FinalType DEF Right
  <2>9. InOrder(t)'
    BY <1>1, <1>2, <1>4, <2>8 DEF InOrder
  <2>. QED BY <1>1, <1>6, <1>11, <2>6, <2>9, ThreadFacts DEF Progress
<1>. QED BY <1>10, <1>11

-----------------------------------------------------------------------------
\* There is a right word at every moment, be it the one that is still to come.
LEMMA SomeRight ==
  ASSUME CInv
  PROVE  \E S : Agrees(S, Acts, Telling)
<1>1. CASE semCamera = NoThread
  BY <1>1 DEF CInv, Progress, Right
<1>2. CASE semCamera # NoThread
  <2>1. semCamera \in Thread /\ th[semCamera].pc \in {"check", "call", "wait", "after"}
    BY <1>2 DEF CInv, AInv, SInv, TypeOK, Holders
  <2>2. InOrder(semCamera)
    BY <2>1 DEF CInv, Progress
  <2>3. \E S : Right(S)
    BY <2>1, <2>2 DEF InOrder
  <2>. QED BY <2>3 DEF Right
<1>. QED BY <1>1, <1>2

\* camerad tells of something: what was right is right with what is told.
LEMMA TellState ==
  ASSUME CInv, NEW n \in Notice, NEW i \in Nat, Tell(n, i), Single(doing'),
         \A S : Agrees(S, Acts, Telling) => Agrees(S, ActsOf(doing'), Append(Telling, n))
  PROVE  OnlyHolder' /\ Unique' /\ Progress'
<1>1. SInv /\ UNCHANGED <<th, camState, semCamera, toClient>>
  BY DEF Tell, own, CInv, AInv
<1>2. Telling' = Append(Telling, n) /\ Acts' = ActsOf(doing') /\ Unique'
  BY <1>1, TellingGrows, ActsFacts
<1>3. OnlyHolder'
  BY <1>1 DEF CInv, OnlyHolder
<1>4. \A S : Agrees(S, Acts, Telling) => Agrees(S, Acts', Telling')
  BY <1>2
<1>5. \A u \in Thread : u = semCamera => InOrder(u)'
  BY <1>1, <1>4, InOrderStays DEF CInv, Progress
<1>6. semCamera = NoThread => Right(camState)'
  BY <1>1, <1>4 DEF CInv, Progress, Right
<1>. QED BY <1>1, <1>2, <1>3, <1>5, <1>6 DEF Progress

LEMMA FinishState ==
  ASSUME CInv, Finish
  PROVE  OnlyHolder' /\ Unique' /\ Progress'
<1>1. PICK d \in doing :
        \/ d.act = "record_end" /\ Tell("record_finish", d.id) /\ doing' = doing \ {d}
        \/ d.act = "live_end" /\ Tell("live_finish", d.id) /\ doing' = doing \ {d}
        \/ d.act = "capture" /\ Tell("pic_org_finish", d.id)
             /\ doing' = (doing \ {d}) \cup Doing({"stitch"}, d.id)
        \/ d.act \in {"capture", "stitch"} /\ Tell("pic_finish", d.id) /\ doing' = doing \ {d}
  BY DEF Finish
<1>2. d.id \in Nat /\ d.act \in Acts /\ Unique
  BY DEF CInv, AInv, SInv, TypeOK, Acts
<1>3. ActsOf(doing \ {d}) = Acts \ {d.act} /\ Single(doing \ {d})
  BY <1>2, ActsFacts
<1>4. ASSUME NEW n \in {"record_finish", "live_finish", "pic_finish"}, Tell(n, d.id), doing' = doing \ {d},
             \A S : Agrees(S, Acts, Telling) => Agrees(S, Acts \ {d.act}, Append(Telling, n))
      PROVE  OnlyHolder' /\ Unique' /\ Progress'
  <2>1. n \in Notice
    BY DEF Notice
  <2>2. /\ Single(doing')
        /\ \A S : Agrees(S, Acts, Telling) => Agrees(S, ActsOf(doing'), Append(Telling, n))
    BY <1>3, <1>4
  <2>. QED BY <1>2, <1>4, <2>1, <2>2, TellState
<1>5. CASE d.act = "record_end" /\ Tell("record_finish", d.id) /\ doing' = doing \ {d}
  BY <1>2, <1>4, <1>5, AgreesTold
<1>6. CASE d.act = "live_end" /\ Tell("live_finish", d.id) /\ doing' = doing \ {d}
  BY <1>2, <1>4, <1>6, AgreesTold
<1>7. CASE d.act \in {"capture", "stitch"} /\ Tell("pic_finish", d.id) /\ doing' = doing \ {d}
  BY <1>2, <1>4, <1>7, AgreesTold
<1>8. CASE /\ d.act = "capture" /\ Tell("pic_org_finish", d.id)
           /\ doing' = (doing \ {d}) \cup Doing({"stitch"}, d.id)
  <2>1. "stitch" \notin Acts
    BY <1>2, <1>8, SomeRight, AgreesTold
  <2>2. {"stitch"} \cap ActsOf(doing \ {d}) = {}
    BY <1>3, <2>1
  <2>. DEFINE D == (doing \ {d}) \cup Doing({"stitch"}, d.id)
  <2>3. Single(D) /\ ActsOf(D) = ActsOf(doing \ {d}) \cup {"stitch"}
    BY <1>3, <2>2, ActsJoined
  <2>4. doing' = D
    BY <1>8
  <2>. HIDE DEF D
  <2>5. Single(doing') /\ ActsOf(doing') = (Acts \ {"capture"}) \cup {"stitch"}
    BY <1>3, <1>8, <2>3, <2>4
  <2>6. \A S : Agrees(S, Acts, Telling) =>
          Agrees(S, (Acts \ {"capture"}) \cup {"stitch"}, Append(Telling, "pic_org_finish"))
    BY <1>2, <1>8, AgreesTold
  <2>7. "pic_org_finish" \in Notice
    BY DEF Notice
  <2>. QED BY <1>2, <1>8, <2>5, <2>6, <2>7, TellState
<1>. QED BY <1>1, <1>5, <1>6, <1>7, <1>8

LEMMA BreakState ==
  ASSUME AppAlone, CInv, Break
  PROVE  OnlyHolder' /\ Unique' /\ Progress'
<1>1. PICK d \in doing :
        \/ d.act = "record" /\ Tell("record_finish", d.id) /\ doing' = doing \ {d}
        \/ d.act = "live_rec" /\ Tell("live_rec_finish", d.id) /\ doing' = doing \ {d}
        \/ /\ d.act = "live" /\ Tell("live_finish", d.id)
           /\ doing' = Without({"live", "live_rec", "link_down"})
  BY DEF Break, AppAlone
<1>2. d.id \in Nat /\ d.act \in Acts /\ Unique
  BY DEF CInv, AInv, SInv, TypeOK, Acts
<1>3. ActsOf(doing \ {d}) = Acts \ {d.act} /\ Single(doing \ {d})
  BY <1>2, ActsFacts
<1>4. {"record_finish", "live_rec_finish", "live_finish"} \subseteq Notice
  BY DEF Notice
<1>5. CASE d.act = "record" /\ Tell("record_finish", d.id) /\ doing' = doing \ {d}
  <2>1. \A S : Agrees(S, Acts, Telling) => Agrees(S, Acts \ {"record"}, Append(Telling, "record_finish"))
    BY <1>2, <1>5, AgreesTold
  <2>2. Single(doing') /\ ActsOf(doing') = Acts \ {"record"}
    BY <1>3, <1>5
  <2>. QED BY <1>2, <1>4, <1>5, <2>1, <2>2, TellState
<1>6. CASE d.act = "live_rec" /\ Tell("live_rec_finish", d.id) /\ doing' = doing \ {d}
  <2>1. \A S : Agrees(S, Acts, Telling) => Agrees(S, Acts \ {"live_rec"}, Append(Telling, "live_rec_finish"))
    BY <1>2, <1>6, AgreesTold
  <2>2. Single(doing') /\ ActsOf(doing') = Acts \ {"live_rec"}
    BY <1>3, <1>6
  <2>. QED BY <1>2, <1>4, <1>6, <2>1, <2>2, TellState
<1>7. CASE /\ d.act = "live" /\ Tell("live_finish", d.id)
           /\ doing' = Without({"live", "live_rec", "link_down"})
  <2>. DEFINE C == {"live", "live_rec", "link_down"}
  <2>1. \A S : Agrees(S, Acts, Telling) => Agrees(S, Acts \ C, Append(Telling, "live_finish"))
    BY <1>2, <1>7, AgreesTold
  <2>2. Single(Without(C)) /\ ActsOf(Without(C)) = Acts \ C
    BY <1>2, ActsFacts
  <2>3. doing' = Without(C)
    BY <1>7
  <2>. HIDE DEF C
  <2>4. Single(doing') /\ ActsOf(doing') = Acts \ C
    BY <2>2, <2>3
  <2>. QED BY <1>2, <1>4, <1>7, <2>1, <2>4, TellState
<1>. QED BY <1>1, <1>5, <1>6, <1>7

LEMMA LinkChangeState ==
  ASSUME CInv, LinkChange
  PROVE  OnlyHolder' /\ Unique' /\ Progress'
<1>1. "live" \in Acts /\ Unique /\ 0 \in Nat
  BY DEF LinkChange, CInv
<1>2. "link_up" \in Notice /\ "link_down" \in Notice
  BY DEF Notice
<1>3. CASE "link_down" \in Acts
  <2>1. Tell("link_up", 0) /\ doing' = Without({"link_down"})
    BY <1>3 DEF LinkChange
  <2>2. \A S : Agrees(S, Acts, Telling) => Agrees(S, Acts \ {"link_down"}, Append(Telling, "link_up"))
    BY <1>1, <1>3, AgreesTold
  <2>3. Single(doing') /\ ActsOf(doing') = Acts \ {"link_down"}
    BY <1>1, <2>1, ActsFacts
  <2>. QED BY <1>1, <1>2, <2>1, <2>2, <2>3, TellState
<1>4. CASE "link_down" \notin Acts
  <2>1. Tell("link_down", 0) /\ doing' = doing \cup Doing({"link_down"}, 0)
    BY <1>4 DEF LinkChange
  <2>2. \A S : Agrees(S, Acts, Telling) =>
          Agrees(S, Acts \cup {"link_down"}, Append(Telling, "link_down"))
    BY <1>1, AgreesTold
  <2>3. Single(doing) /\ ActsOf(doing) = Acts
    BY <1>1, ActsFacts
  <2>. DEFINE D == doing \cup Doing({"link_down"}, 0)
  <2>4. {"link_down"} \cap ActsOf(doing) = {}
    BY <1>4, <2>3
  <2>5. Single(D) /\ ActsOf(D) = ActsOf(doing) \cup {"link_down"}
    BY <2>3, <2>4, ActsJoined
  <2>6. doing' = D
    BY <2>1
  <2>. HIDE DEF D
  <2>7. Single(doing') /\ ActsOf(doing') = Acts \cup {"link_down"}
    BY <2>3, <2>5, <2>6
  <2>. QED BY <1>1, <1>2, <2>1, <2>2, <2>7, TellState
<1>. QED BY <1>3, <1>4

LEMMA InitState ==
  ASSUME Init
  PROVE  CInv
<1>1. /\ \A t \in Thread : th[t].ops = << >> /\ th[t].pc = "idle" /\ th[t].cmd = "plain"
      /\ camState = {} /\ doing = {} /\ notices = << >> /\ semCamera = NoThread
  BY IdleFacts DEF Init
<1>2. Telling = << >>
  <2>1. Names(notices) = << >>
    BY <1>1, NamesFacts, Lists
  <2>2. Telling = << >> \o << >>
    BY <1>1, <2>1, ThreadFacts, TellingIs
  <2>. QED BY <2>2, Lists, ConcatEmptySeq
<1>3. Acts = {}
  BY <1>1 DEF Acts
<1>4. Agrees({}, {}, << >>)
  BY DEF Agrees, Matches
<1>5. Right(camState)
  BY <1>1, <1>2, <1>3, <1>4 DEF Right
<1>6. OnlyHolder /\ Unique
  BY <1>1 DEF OnlyHolder, Unique
<1>7. Progress
  BY <1>1, <1>5, ThreadFacts DEF Progress
<1>. QED BY <1>6, <1>7, InitSemaphores, InitRequest DEF CInv, AInv

LEMMA NextState ==
  ASSUME AppAlone, CInv, [Next]_vars
  PROVE  CInv'
<1>1. AInv'
  BY NextRequest DEF CInv, AppAlone
<1>. SUFFICES OnlyHolder' /\ Unique' /\ Progress'
  BY <1>1 DEF CInv
<1>2. ASSUME NEW t \in Thread, AppCall(t) \/ UiCall(t) \/ TimerFires(t) \/ ThreadStep(t)
      PROVE  OnlyHolder' /\ Unique' /\ Progress'
  <2>1. ~UiCall(t) /\ ~Spawn(t) /\ ~TimeOut(t)
    BY DEF AppAlone, UiCall, Spawn, Spawns, TimeOut
  <2>. QED BY <1>2, <2>1, AppCallState, TimerFiresState, HearState, LockState, CheckState,
              ReadStateState, WriteStateState, WriteRequestState, ReadRequestState, ReturnState,
              DisconnectState DEF ThreadStep
<1>3. CASE Serve
  BY <1>3, ServeState
<1>4. CASE Finish \/ Break \/ LinkChange
  BY <1>4, FinishState, BreakState, LinkChangeState
<1>5. CASE UNCHANGED vars
  <2>1. UNCHANGED <<th, camState, semCamera, doing, notices, toClient>> /\ Acts' = Acts
    BY <1>5 DEF vars, own, Acts
  <2>2. Telling' = Telling
    BY <2>1, TellingStays
  <2>3. OnlyHolder' /\ Unique'
    BY <2>1 DEF CInv, OnlyHolder, Unique
  <2>4. \A u \in Thread : u = semCamera => InOrder(u)'
    BY <2>1, <2>2, InOrderStays DEF CInv, Progress
  <2>5. semCamera = NoThread => Right(camState)'
    BY <2>1, <2>2 DEF CInv, Progress, Right
  <2>. QED BY <2>1, <2>3, <2>4, <2>5 DEF Progress
<1>. QED BY <1>2, <1>3, <1>4, <1>5 DEF Next, Over

\* The state word is right at every moment with what is begun and what is told taken
\* into account, for any number of apps and of calls.
THEOREM StateInvariance ==
  ASSUME AppAlone
  PROVE  Spec => []CInv
<1>1. Init => CInv
  BY InitState
<1>2. CInv /\ [Next]_vars => CInv'
  BY NextState
<1>. QED BY <1>1, <1>2, PTL DEF Spec

\* A word that agrees with all that is done and nothing is told of says what is done.
LEMMA AgreesAtRest ==
  ASSUME NEW S \in SUBSET Bit, NEW A \in SUBSET Activity, Agrees(S, A, << >>)
  PROVE  S = BitsOf(A) \cup {"STOP_RECORDING" : a \in A \cap {"record_end"}}
                       \cup {"STOP_LIVING" : a \in A \cap {"live_end"}}
<1>. DEFINE M == S \ {"PREVIEW"}
            B == A \ {"preview"}
            Word(X) == BitsOf(X) \cup {"STOP_RECORDING" : a \in X \cap {"record_end"}}
                                 \cup {"STOP_LIVING" : a \in X \cap {"live_end"}}
<1>1. ("PREVIEW" \in S <=> "preview" \in A) /\ Matches(M, B, << >>)
  BY DEF Agrees
<1>. HIDE DEF M, B
<1>2. \/ M = {} /\ B = {}
      \/ M = {"RECORD"} /\ B = {"record"}
      \/ M = {"STOP_RECORDING"} /\ B = {"record_end"}
      \/ M = {"CAPTURE"} /\ B = {"capture"}
      \/ M = {"STITCHING"} /\ B = {"stitch"}
      \/ Live(M, B, << >>)
      \/ M = {"STOP_LIVING"} /\ B = {"live_end"}
  <2>1. << >> # <<"record_finish">> /\ << >> # <<"pic_org_finish">> /\ << >> # <<"pic_finish">>
        /\ << >> # <<"pic_org_finish", "pic_finish">>
    OBVIOUS
  <2>2. ~LiveEnded(M, B, << >>)
    BY DEF LiveEnded
  <2>. QED BY <1>1, <2>1, <2>2 DEF Matches, Recording, Picture, LiveStops
<1>3. Live(M, B, << >>) =>
        /\ M \in {{"LIVE"}, {"LIVE_CONNECTING"}, {"LIVE", "RECORD"}, {"LIVE_CONNECTING", "RECORD"}}
        /\ "live" \in B /\ B \subseteq {"live", "live_rec", "link_down"}
        /\ "RECORD" \in M <=> "live_rec" \in B
        /\ "LIVE_CONNECTING" \in M <=> "link_down" \in B
  <2>1. << >> \in Seq(Notice) /\ ~Told(<< >>, "live_rec_finish")
    BY Lists, ToldFacts
  <2>2. LinkIsDown(M, << >>) <=> "LIVE_CONNECTING" \in M
    BY <2>1, LinkFacts
  <2>. QED BY <2>1, <2>2 DEF Live, LiveBits
<1>4. M = Word(B)
  BY <1>2, <1>3 DEF BitsOf
<1>5. Word(A) = Word(B) \cup {"PREVIEW" : a \in A \cap {"preview"}}
  BY DEF BitsOf, B
<1>6. S = M \cup {"PREVIEW" : a \in A \cap {"preview"}}
  BY <1>1 DEF M
<1>. QED BY <1>4, <1>5, <1>6

\* StateAgrees: as long as the app alone sends the commands, whatever it sends and
\* however many threads of it do, and camerad answers in time, no bit of a start or of
\* a stop is left behind and none that tells of a running activity is missing, also
\* when a recording or a live ends by itself, the stream loses its connection, or the
\* poll timer powers the camera off.
THEOREM StateAlwaysAgrees ==
  ASSUME AppAlone
  PROVE  Spec => []StateAgrees
<1>1. CInv => StateAgrees
  <2>1. SUFFICES ASSUME CInv, Quiet
                 PROVE  camState = BitsOf(Acts)
                                   \cup {"STOP_RECORDING" : a \in Acts \cap {"record_end"}}
                                   \cup {"STOP_LIVING" : a \in Acts \cap {"live_end"}}
    BY DEF StateAgrees
  <2>2. semCamera = NoThread
    BY <2>1 DEF Quiet, CInv, AInv, SInv, TypeOK, Holders
  <2>3. Telling = << >>
    <3>1. notices = << >> /\ th[Notifier].pc = "idle"
      BY <2>1, ThreadFacts DEF Quiet
    <3>2. Names(notices) = << >>
      BY <3>1, NamesFacts, Lists
    <3>3. Telling = << >> \o << >>
      BY <3>1, <3>2, TellingIs
    <3>. QED BY <3>3, Lists, ConcatEmptySeq
  <2>4. camState \in SUBSET Bit /\ Agrees(camState, Acts, << >>)
    BY <2>1, <2>2, <2>3 DEF CInv, Progress, Right
  <2>5. Acts \in SUBSET Activity
    BY <2>1 DEF CInv, AInv, SInv, TypeOK, Acts
  <2>. QED BY <2>4, <2>5, AgreesAtRest
<1>. QED BY <1>1, StateInvariance, PTL
=============================================================================
