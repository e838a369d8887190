---------------------------- MODULE CameraControl ----------------------------
(***************************************************************************)
(* The control centre of web_server (src/web_server/control_center.py) and *)
(* the state word of the camera it keeps (state_machine.py,                *)
(* osc_protocol/ins_osc_state.py).                                         *)
(*                                                                         *)
(* Several threads change the state word: a thread per request of the app, *)
(* the thread of the UI's requests with the threads it starts, the poll    *)
(* timer and the thread of camerad's notifications.  Every getCamState and *)
(* every setCamState is atomic, addCamState and rmServerState are not.     *)
(* Requests of the app and notifications hold sem_camera; whoever talks to *)
(* camerad holds syncWriteReadSem; the UI does not take sem_camera.        *)
(*                                                                         *)
(* A handler is a list of operations on the state word, ops.  The state    *)
(* word is the set of its bits.  camerad is external.                      *)
(***************************************************************************)
EXTENDS Naturals, Sequences, FiniteSets

CONSTANTS
  App, Ui, Timer, Worker,  \* the threads
  Notifier, NoThread,
  AppCmd, UiCmd,           \* the commands the app and the UI send
  MayBreak,                \* what camerad may give up by itself
  MayTimeOut,              \* a request may go unanswered for FIFO_TO seconds
  MaxCalls, MaxNotices     \* bounds: calls, and unread notifications

VARIABLES
  camState,       \* poll_info[CAM_STATE]
  client,         \* _client_take_pic and _client_take_live, as a set
  th,             \* the threads
  semCamera,      \* who holds sem_camera
  syncWriteRead,  \* who holds syncWriteReadSem
  writeSeq,       \* _write_seq
  asyncIds,       \* async_id_list: the commands whose result is to come or has come
  toCamerad, toClient,  \* the two fifos
  notices,        \* the fifo of notifications
  doing,          \* what camerad does
  calls           \* counts the calls, and tells the requests apart

own  == <<th, camState, client, writeSeq, asyncIds>>
vars == <<own, semCamera, syncWriteRead, toCamerad, toClient, notices, doing, calls>>

Thread == App \cup Ui \cup Timer \cup Worker \cup {Notifier}

Bit == {"RECORD", "CAPTURE", "STITCHING", "PREVIEW", "LIVE", "LIVE_CONNECTING",
        "START_RECORDING", "STOP_RECORDING", "START_LIVING", "STOP_LIVING",
        "START_PREVIEWING", "STOP_PREVIEWING", "EXCEPTION"}

\* "plain" stands for the many commands that change no state (get_offset, ...).
Cmd == {"start_record", "stop_record", "take_pic", "start_live", "start_live_save",
        "stop_live", "start_preview", "stop_preview", "query_state", "sync_info",
        "power_off", "plain"}

Notice == {"record_finish", "pic_org_finish", "pic_finish", "preview_finish", "live_finish",
           "live_rec_finish", "link_down", "link_up"}

Async == {"take_pic", "stop_record", "stop_live"}

Activity == {"record", "record_end", "capture", "stitch", "preview", "live", "live_rec",
             "live_end", "link_down"}

ASSUME ThreadAssumption ==
  /\ NoThread \notin Thread /\ Notifier \notin App \cup Ui \cup Timer \cup Worker
  /\ App \cap (Ui \cup Timer \cup Worker) = {} /\ Ui \cap (Timer \cup Worker) = {}
  /\ Timer \cap Worker = {}
  /\ AppCmd \subseteq Cmd /\ UiCmd \subseteq Cmd /\ MayBreak \subseteq Activity
  /\ MayTimeOut \in BOOLEAN /\ {MaxCalls, MaxNotices} \subseteq Nat

-----------------------------------------------------------------------------
(***************************************************************************)
(* The operations of a handler                                             *)
(***************************************************************************)
Add(b)   == [op |-> "add", bit |-> b]     \* addCamState, addServerState
Rm(b)    == [op |-> "rm", bit |-> b]      \* rmServerState
RmIf(b)  == [op |-> "rmif", bit |-> b]    \* if checkStateIn(b): rmServerState(b)
Store(S) == [op |-> "store", val |-> S]   \* setCamState
Own(w)   == [op |-> "own", who |-> w]     \* _client_take_... = True
Disown(w) == [op |-> "disown", who |-> w] \* _client_take_... = False
RmUnowned(b, w) == [op |-> "rmunowned", bit |-> b, who |-> w]
Sync(S)  == [op |-> "sync", val |-> S]    \* sync_init_info_to_p
Link(up) == [op |-> "link", up |-> up]    \* net_link_state_notify
AddId(i) == [op |-> "add_id", id |-> i]   \* add_async_cmd_id
GotId(i) == [op |-> "got_id", id |-> i]   \* add_async_finish

ResetAll == <<[op |-> "reset_fifo"], Store({}), [op |-> "clear_ids"]>>

Op ==  [op : {"add", "rm", "rmif"}, bit : Bit]
  \cup [op : {"store", "sync"}, val : SUBSET Bit]
  \cup [op : {"own", "disown"}, who : {"pic", "live"}]
  \cup [op : {"rmunowned"}, bit : Bit, who : {"pic", "live"}]
  \cup [op : {"link"}, up : BOOLEAN]
  \cup [op : {"add_id", "got_id"}, id : Nat]
  \cup [op : {"reset_fifo", "clear_ids"}]

-----------------------------------------------------------------------------
(***************************************************************************)
(* The checks of the state machine, on one reading of the state word       *)
(***************************************************************************)
IdleOrPreview(S) == S \in {{}, {"PREVIEW"}}

\* checkAllowPreview
AllowPreview(S) ==
  \/ S = {}
  \/ \E b \in {"RECORD", "LIVE", "LIVE_CONNECTING", "START_LIVING", "STOP_RECORDING",
               "START_RECORDING"} : S = {b}

\* checkAllowStopLive
AllowStopLive(S) ==
  \/ "LIVE" \in S /\ "STOP_LIVING" \notin S
  \/ "LIVE_CONNECTING" \in S

\* The app may stop a preview only when nothing else goes on, the UI always.
AllowStopPreview(t, S) == IF t \in Ui THEN "PREVIEW" \in S ELSE S = {"PREVIEW"}

Allowed(t, c, S) ==
  CASE c \in {"start_record", "take_pic", "start_live", "start_live_save"} -> IdleOrPreview(S)
    [] c = "stop_record"   -> "RECORD" \in S
    [] c = "stop_live"     -> AllowStopLive(S)
    [] c = "start_preview" -> AllowPreview(S)
    [] c = "stop_preview"  -> AllowStopPreview(t, S)
    [] OTHER               -> TRUE

\* check_need_sync; the bits that would forbid it are not modelled.
NeedSync(S, mine) == S # mine

-----------------------------------------------------------------------------
(***************************************************************************)
(* The handlers                                                            *)
(***************************************************************************)
\* What the handler of a command does before it looks at the state ...
BeforeCheck(t, c) ==
  CASE t \in Ui /\ c = "take_pic" -> <<RmUnowned("CAPTURE", "pic")>>
    [] t \in Ui /\ c \in {"start_live", "start_live_save"} -> <<RmUnowned("START_LIVING", "live")>>
    [] OTHER -> << >>

OwnIf(t, w) == IF t \in Ui THEN << >> ELSE <<Own(w)>>

\* ... and between the check and the request.
Claim(t, c) ==
  CASE c = "start_record"  -> <<Add("START_RECORDING")>>
    [] c = "stop_record"   -> <<Add("STOP_RECORDING")>>
    [] c = "take_pic"      -> <<Add("CAPTURE")>> \o OwnIf(t, "pic")
    [] c \in {"start_live", "start_live_save"} -> <<Add("START_LIVING")>> \o OwnIf(t, "live")
    [] c = "stop_live"     -> <<Add("STOP_LIVING")>>
    [] c = "start_preview" -> <<Add("START_PREVIEWING")>>
    [] c = "stop_preview"  -> <<Add("STOP_PREVIEWING")>>
    [] c = "sync_info"     -> <<Store({"RECORD", "EXCEPTION"})>>  \* STATE_TEST
    [] OTHER               -> << >>

\* The callbacks on an answer of camerad, S is the state it reports.
RecDone == <<Add("RECORD"), RmIf("START_RECORDING")>>
RecFail == <<RmIf("START_RECORDING"), RmIf("RECORD")>>
RecStopDone == <<RmIf("RECORD")>>
RecStopFail == <<RmIf("STOP_RECORDING")>>
TakePicFail == <<Disown("pic"), Rm("CAPTURE")>>
LiveDone(save) == <<Disown("live"), RmIf("START_LIVING"), Add("LIVE")>>
                  \o (IF save THEN <<Add("RECORD")>> ELSE << >>)
LiveFail == <<Disown("live"), Rm("START_LIVING")>>
StopLiveDone == <<Add("STOP_LIVING"), RmIf("LIVE"), RmIf("LIVE_CONNECTING"), RmIf("RECORD")>>
StopLiveFail == <<RmIf("STOP_LIVING")>>
PreviewDone == <<Rm("START_PREVIEWING"), Add("PREVIEW")>>
PreviewFail == <<Rm("START_PREVIEWING")>>
StopPreviewDone == <<Rm("PREVIEW"), Rm("STOP_PREVIEWING")>>
StopPreviewFail == <<Rm("STOP_PREVIEWING"), Rm("PREVIEW")>>

Done(c, S) ==
  CASE c = "start_record"    -> RecDone
    [] c = "stop_record"     -> RecStopDone
    [] c = "start_live"      -> LiveDone(FALSE)
    [] c = "start_live_save" -> LiveDone(TRUE)
    [] c = "stop_live"       -> StopLiveDone
    [] c = "start_preview"   -> PreviewDone
    [] c = "stop_preview"    -> StopPreviewDone
    [] c \in {"query_state", "sync_info"} -> <<Sync(S)>>
    [] OTHER                 -> << >>

Fail(c) ==
  CASE c = "start_record"  -> RecFail
    [] c = "stop_record"   -> RecStopFail
    [] c = "take_pic"      -> TakePicFail
    [] c \in {"start_live", "start_live_save"} -> LiveFail
    [] c = "stop_live"     -> StopLiveFail
    [] c = "start_preview" -> PreviewFail
    [] c = "stop_preview"  -> StopPreviewFail
    [] OTHER               -> << >>

\* The handlers of the notifications.
RecNotify == <<RmIf("RECORD"), RmIf("STOP_RECORDING")>>
PicOrgFinishUnknown == <<RmIf("CAPTURE"), Add("PIC_STITCHING")>>  \* mutant: not a bit
PicOrgFinish == <<RmIf("CAPTURE"), Add("STITCHING")>>
PicNotify == <<RmIf("CAPTURE"), RmIf("STITCHING"), Disown("pic")>>
PreviewFinishNotify == <<RmIf("PREVIEW"), RmIf("STOP_PREVIEWING"), RmIf("RECORD")>>
LiveFinishKeepsRecord == <<RmIf("LIVE"), RmIf("LIVE_CONNECTING"), RmIf("STOP_LIVING")>>  \* mutant
LiveFinish == <<RmIf("LIVE"), RmIf("LIVE_CONNECTING"), RmIf("STOP_LIVING"), RmIf("RECORD")>>
LiveRecFinish == <<RmIf("RECORD")>>

\* A notification ends with add_async_finish when it is the end of an async command.
Notified(n, id) ==
  CASE n = "record_finish"   -> Append(RecNotify, GotId(id))
    [] n = "pic_org_finish"  -> PicOrgFinish
    [] n = "pic_finish"      -> Append(PicNotify, GotId(id))
    [] n = "preview_finish"  -> PreviewFinishNotify
    [] n = "live_finish"     -> Append(LiveFinish, GotId(id))
    [] n = "live_rec_finish" -> LiveRecFinish
    [] n = "link_down"       -> <<Link(FALSE)>>
    [] n = "link_up"         -> <<Link(TRUE)>>

-----------------------------------------------------------------------------
(***************************************************************************)
(* The threads.  id tells requests apart, the code has only seq.           *)
(***************************************************************************)
Idle == [pc |-> "idle", cmd |-> "plain", ops |-> << >>, seq |-> 0, id |-> 0]

Goes(t, pc, ops) == th' = [th EXCEPT ![t].pc = pc, ![t].ops = ops]

Begins(t, c, pc, ops) ==
  /\ calls < MaxCalls
  /\ th' = [th EXCEPT ![t] = [Idle EXCEPT !.pc = pc, !.cmd = c, !.ops = ops, !.id = calls]]
  /\ calls' = calls + 1

\* osc_cmd_execute, start_camera_cmd_func and com_cmd_func: waits for sem_camera.
AppCall(t) ==
  /\ t \in App /\ th[t].pc = "idle"
  /\ \E c \in AppCmd : Begins(t, c, "lock", << >>)
  /\ UNCHANGED <<camState, client, writeSeq, asyncIds, semCamera, syncWriteRead, toCamerad,
                 toClient, notices, doing>>

\* ui_cmd_execute
UiCall(t) ==
  /\ t \in Ui /\ th[t].pc = "idle"
  /\ \E c \in UiCmd : Begins(t, c, "check", BeforeCheck(t, c))
  /\ UNCHANGED <<camState, client, writeSeq, asyncIds, semCamera, syncWriteRead, toCamerad,
                 toClient, notices, doing>>

\* poll_timeout, camera_disconnect: modulePowerOff takes no sem_camera
TimerFires(t) ==
  /\ t \in Timer /\ th[t].pc = "idle"
  /\ Begins(t, "power_off", "call", << >>)
  /\ UNCHANGED <<camState, client, writeSeq, asyncIds, semCamera, syncWriteRead, toCamerad,
                 toClient, notices, doing>>

\* The thread of the notifications reads one; it waits for sem_camera as well.
Hear(t) ==
  /\ t = Notifier /\ th[t].pc = "idle" /\ notices # << >>
  /\ th' = [th EXCEPT ![t] = [Idle EXCEPT !.pc = "lock", !.cmd = Head(notices).name,
                                           !.id = Head(notices).id]]
  /\ notices' = Tail(notices)
  /\ UNCHANGED <<camState, client, writeSeq, asyncIds, semCamera, syncWriteRead, toCamerad,
                 toClient, doing, calls>>

\* mutant: the notifications are handled without sem_camera
LockNotForNotices(t) ==
  /\ th[t].pc = "lock" /\ (semCamera = NoThread \/ t = Notifier)
  /\ semCamera' = IF t = Notifier THEN semCamera ELSE t
  /\ IF t = Notifier THEN Goes(t, "after", Notified(th[t].cmd, th[t].id)) ELSE Goes(t, "check", << >>)
  /\ UNCHANGED <<camState, client, writeSeq, asyncIds, syncWriteRead, toCamerad, toClient, notices,
                 doing, calls>>

Lock(t) ==
  /\ th[t].pc = "lock" /\ semCamera = NoThread
  /\ semCamera' = t
  /\ IF t = Notifier THEN Goes(t, "after", Notified(th[t].cmd, th[t].id)) ELSE Goes(t, "check", << >>)
  /\ UNCHANGED <<camState, client, writeSeq, asyncIds, syncWriteRead, toCamerad, toClient, notices,
                 doing, calls>>

Check(t) ==
  /\ th[t].pc = "check" /\ th[t].ops = << >>
  /\ IF Allowed(t, th[t].cmd, camState)
     THEN Goes(t, "call", Claim(t, th[t].cmd))
     ELSE Goes(t, "after", << >>)
  /\ UNCHANGED <<camState, client, writeSeq, asyncIds, semCamera, syncWriteRead, toCamerad, toClient,
                 notices, doing, calls>>

\* What an operation that reads the state turns into, the reading done.
AfterReading(o) ==
  CASE o.op = "add"  -> <<Store(camState \cup {o.bit})>>
    [] o.op = "rm"   -> <<Store(camState \ {o.bit})>>
    [] o.op = "rmif" -> IF o.bit \in camState THEN <<Rm(o.bit)>> ELSE << >>
    [] o.op = "rmunowned" -> IF o.who \notin client THEN <<RmIf(o.bit)>> ELSE << >>
    [] o.op = "sync" -> IF NeedSync(o.val, camState) THEN <<Store(o.val)>> ELSE << >>
    [] o.op = "link" ->
         IF o.up THEN IF "LIVE" \notin camState /\ "LIVE_CONNECTING" \in camState
                      THEN <<Rm("LIVE_CONNECTING"), Add("LIVE")>> ELSE << >>
                 ELSE IF "LIVE" \in camState
                      THEN <<Rm("LIVE"), Add("LIVE_CONNECTING")>> ELSE << >>

NextOp(t) == Head(th[t].ops)

\* add_async_finish: the result of a command that is not in the list is dropped.
Got(i) == {IF a.id = i THEN [a EXCEPT !.got = TRUE] ELSE a : a \in asyncIds}

ReadState(t) ==
  /\ th[t].ops # << >>
  /\ NextOp(t).op \in {"add", "rm", "rmif", "rmunowned", "sync", "link"}
  /\ Goes(t, th[t].pc, AfterReading(NextOp(t)) \o Tail(th[t].ops))
  /\ UNCHANGED <<camState, client, writeSeq, asyncIds, semCamera, syncWriteRead, toCamerad, toClient,
                 notices, doing, calls>>

\* One assignment: set_cam_state, the two flags, async_id_list, _write_seq.
WriteState(t) ==
  /\ th[t].ops # << >>
  /\ LET o == NextOp(t) IN
     /\ o.op \in {"store", "own", "disown", "add_id", "got_id", "reset_fifo", "clear_ids"}
     /\ camState' = IF o.op = "store" THEN o.val ELSE camState
     /\ client' = CASE o.op = "own"    -> client \cup {o.who}
                    [] o.op = "disown" -> client \ {o.who}
                    [] OTHER           -> client
     /\ asyncIds' = CASE o.op = "add_id"    -> asyncIds \cup {[id |-> o.id, got |-> FALSE]}
                      [] o.op = "got_id"    -> Got(o.id)
                      [] o.op = "clear_ids" -> {}
                      [] OTHER              -> asyncIds
     /\ writeSeq' = IF o.op = "reset_fifo" THEN 0 ELSE writeSeq
  /\ Goes(t, th[t].pc, Tail(th[t].ops))
  /\ UNCHANGED <<semCamera, syncWriteRead, toCamerad, toClient, notices, doing, calls>>

-----------------------------------------------------------------------------
(***************************************************************************)
(* write_and_read                                                          *)
(***************************************************************************)
\* The UI has its request made by a thread of its own (ComSyncReqThread), but
\* for the synchronisation and the plain requests.  A guard bounds the threads.
Spawns(t) == t \in Ui /\ th[t].cmd \notin {"sync_info", "plain"}

Spawn(t) ==
  /\ th[t].pc = "call" /\ th[t].ops = << >> /\ Spawns(t)
  /\ \E w \in Worker :
       /\ th[w].pc = "idle"
       /\ th' = [th EXCEPT ![t] = Idle, ![w] = th[t]]
  /\ UNCHANGED <<camState, client, writeSeq, asyncIds, semCamera, syncWriteRead, toCamerad, toClient,
                 notices, doing, calls>>

\* mutant: syncWriteReadSem is not waited for
WriteAtOnce(t) ==
  /\ th[t].pc = "call" /\ th[t].ops = << >> /\ ~Spawns(t)
  /\ syncWriteRead' = t
  /\ toCamerad' = Append(toCamerad, [cmd |-> th[t].cmd, seq |-> writeSeq, id |-> th[t].id])
  /\ writeSeq' = writeSeq + 1
  /\ th' = [th EXCEPT ![t].pc = "wait", ![t].seq = writeSeq]
  /\ UNCHANGED <<camState, client, asyncIds, semCamera, toClient, notices, doing, calls>>

\* syncWriteReadSem.acquire() and write_req
Write(t) ==
  /\ th[t].pc = "call" /\ th[t].ops = << >> /\ ~Spawns(t)
  /\ syncWriteRead = NoThread
  /\ syncWriteRead' = t
  /\ toCamerad' = Append(toCamerad, [cmd |-> th[t].cmd, seq |-> writeSeq, id |-> th[t].id])
  /\ writeSeq' = writeSeq + 1
  /\ th' = [th EXCEPT ![t].pc = "wait", ![t].seq = writeSeq]
  /\ UNCHANGED <<camState, client, asyncIds, semCamera, toClient, notices, doing, calls>>

\* The answer of a call: the callback, and for the app the list of async commands.
Answered(t, a) ==
  LET c == th[t].cmd IN
  IF ~a.ok THEN Fail(c)
  ELSE Done(c, a.state)
       \o (IF t \in App \cup Timer /\ c \in Async THEN <<AddId(a.id)>> ELSE << >>)

\* Only the header of an answer is read when seq is another: the body stays,
\* and no header is found in it until it is read away.  An answer to a request says
\* what became of it: one without the fields the callbacks look up (results) would end
\* in ResetAll as well, and camerad is taken to send none.
Body == [seq |-> 2 * MaxCalls, id |-> 0, ok |-> FALSE, state |-> {}]

Read(t) ==
  /\ th[t].pc = "wait" /\ toClient # << >>
  /\ LET a == Head(toClient) IN
     IF a.seq = th[t].seq
     THEN /\ Goes(t, "after", Answered(t, a))
          /\ toClient' = Tail(toClient)
     ELSE /\ Goes(t, "after", ResetAll)
          /\ \/ toClient' = <<Body>> \o Tail(toClient)
             \/ a = Body /\ toClient' = Tail(toClient)
  /\ UNCHANGED <<camState, client, writeSeq, asyncIds, semCamera, syncWriteRead, toCamerad, notices,
                 doing, calls>>

\* mutant: the branch of the exception returns before the semaphore is released
TimeOutReturns(t) ==
  /\ MayTimeOut
  /\ th[t].pc = "wait" /\ toClient = << >>
  /\ th' = [th EXCEPT ![t] = Idle]
  /\ UNCHANGED <<camState, client, writeSeq, asyncIds, semCamera, syncWriteRead, toCamerad, toClient,
                 notices, doing, calls>>

\* No answer for FIFO_TO seconds; camerad keeps the fifos open and may answer later.
TimeOut(t) ==
  /\ MayTimeOut
  /\ th[t].pc = "wait" /\ toClient = << >>
  /\ Goes(t, "after", ResetAll)
  /\ UNCHANGED <<camState, client, writeSeq, asyncIds, semCamera, syncWriteRead, toCamerad, toClient,
                 notices, doing, calls>>

Freed(sem, t) == IF sem = t THEN NoThread ELSE sem

\* The semaphores are released.
Return(t) ==
  /\ th[t].pc = "after" /\ th[t].ops = << >>
  /\ syncWriteRead' = Freed(syncWriteRead, t)
  /\ semCamera' = Freed(semCamera, t)
  /\ IF th[t].cmd = "power_off" THEN Goes(t, "disconnect", << >>) ELSE th' = [th EXCEPT ![t] = Idle]
  /\ UNCHANGED <<camState, client, writeSeq, asyncIds, toCamerad, toClient, notices, doing, calls>>

\* The rest of camera_disconnect: a preview is stopped if it is all there is.
Disconnect(t) ==
  /\ th[t].pc = "disconnect"
  /\ IF camState = {"PREVIEW"}
     THEN /\ th' = [th EXCEPT ![t] = [Idle EXCEPT !.pc = "lock", !.cmd = "stop_preview",
                                                  !.id = calls]]
          /\ calls' = calls + 1
     ELSE th' = [th EXCEPT ![t] = Idle] /\ UNCHANGED calls
  /\ UNCHANGED <<camState, client, writeSeq, asyncIds, semCamera, syncWriteRead, toCamerad, toClient,
                 notices, doing>>

ThreadStep(t) ==
  \/ Hear(t) \/ Lock(t) \/ Check(t) \/ ReadState(t) \/ WriteState(t)
  \/ Spawn(t) \/ Write(t) \/ Read(t) \/ TimeOut(t) \/ Return(t) \/ Disconnect(t)

-----------------------------------------------------------------------------
(***************************************************************************)
(* camerad, external: from what the handlers expect of it                  *)
(***************************************************************************)
Acts == {d.act : d \in doing}
Only(S) == {d \in doing : d.act \in S}
Without(S) == doing \ Only(S)
Doing(acts, id) == {[act |-> a, id |-> id] : a \in acts}

Accepts(c) ==
  CASE c \in {"start_record", "take_pic", "start_live", "start_live_save"} -> Acts \subseteq {"preview"}
    [] c = "stop_record"   -> "record" \in Acts
    [] c = "stop_live"     -> "live" \in Acts
    [] c = "start_preview" -> "preview" \notin Acts
    [] OTHER               -> TRUE

Accepted(r) ==
  CASE r.cmd = "start_record"    -> doing \cup Doing({"record"}, r.id)
    [] r.cmd = "stop_record"     -> Without({"record"}) \cup Doing({"record_end"}, r.id)
    [] r.cmd = "take_pic"        -> doing \cup Doing({"capture"}, r.id)
    [] r.cmd = "start_live"      -> doing \cup Doing({"live"}, r.id)
    [] r.cmd = "start_live_save" -> doing \cup Doing({"live", "live_rec"}, r.id)
    [] r.cmd = "stop_live"       -> Without({"live", "live_rec", "link_down"})
                                      \cup Doing({"live_end"}, r.id)
    [] r.cmd = "start_preview"   -> doing \cup Doing({"preview"}, r.id)
    [] r.cmd = "stop_preview"    -> Without({"preview"})
    [] OTHER                     -> doing

\* A refused stop_preview ends the preview just the same (camera_preview_stop_fail).
Rejected(r) == IF r.cmd = "stop_preview" THEN Without({"preview"}) ELSE doing

\* The bits that tell what camerad does.
BitsOf(acts) ==
  {"RECORD" : a \in acts \cap {"record", "live_rec"}} \cup {"CAPTURE" : a \in acts \cap {"capture"}}
  \cup {"STITCHING" : a \in acts \cap {"stitch"}} \cup {"PREVIEW" : a \in acts \cap {"preview"}}
  \cup (IF "live" \notin acts THEN {}
        ELSE IF "link_down" \in acts THEN {"LIVE_CONNECTING"} ELSE {"LIVE"})

Serve ==
  /\ toCamerad # << >>
  /\ LET r == Head(toCamerad) IN
     \E ok \in BOOLEAN :
       /\ ok => Accepts(r.cmd)
       /\ doing' = IF ok THEN Accepted(r) ELSE Rejected(r)
       /\ toClient' = Append(toClient, [seq |-> r.seq, id |-> r.id, ok |-> ok, state |-> BitsOf(Acts)])
  /\ toCamerad' = Tail(toCamerad)
  /\ UNCHANGED <<own, semCamera, syncWriteRead, notices, calls>>

Tell(name, id) ==
  /\ Len(notices) < MaxNotices
  /\ notices' = Append(notices, [name |-> name, id |-> id])
  /\ UNCHANGED <<own, semCamera, syncWriteRead, toCamerad, toClient, calls>>

\* What camerad was asked for comes to its end.
Finish ==
  \E d \in doing :
    \/ d.act = "record_end" /\ Tell("record_finish", d.id) /\ doing' = doing \ {d}
    \/ d.act = "live_end" /\ Tell("live_finish", d.id) /\ doing' = doing \ {d}
    \/ d.act = "capture" /\ Tell("pic_org_finish", d.id)
         /\ doing' = (doing \ {d}) \cup Doing({"stitch"}, d.id)
    \/ d.act \in {"capture", "stitch"} /\ Tell("pic_finish", d.id) /\ doing' = doing \ {d}

\* What camerad gives up by itself; the id is that of the command that started it.
Break ==
  \E d \in doing :
    /\ d.act \in MayBreak
    /\ \/ d.act = "record" /\ Tell("record_finish", d.id) /\ doing' = doing \ {d}
       \/ d.act = "preview" /\ Tell("preview_finish", d.id) /\ doing' = Without({"preview", "record"})
       \/ d.act = "live_rec" /\ Tell("live_rec_finish", d.id) /\ doing' = doing \ {d}
       \/ d.act = "live" /\ Tell("live_finish", d.id)
            /\ doing' = Without({"live", "live_rec", "link_down"})

LinkChange ==
  /\ "link_down" \in MayBreak /\ "live" \in Acts
  /\ IF "link_down" \in Acts
     THEN Tell("link_up", 0) /\ doing' = Without({"link_down"})
     ELSE Tell("link_down", 0) /\ doing' = doing \cup Doing({"link_down"}, 0)

-----------------------------------------------------------------------------
Init ==
  /\ camState = {} /\ client = {} /\ asyncIds = {} /\ writeSeq = 0
  /\ th = [t \in Thread |-> Idle]
  /\ semCamera = NoThread /\ syncWriteRead = NoThread
  /\ toCamerad = << >> /\ toClient = << >> /\ notices = << >>
  /\ doing = {} /\ calls = 0

Quiet ==
  /\ \A t \in Thread : th[t].pc = "idle"
  /\ notices = << >>

\* The bound on the calls is reached: nobody asks any more.
Over == Quiet /\ calls >= MaxCalls /\ UNCHANGED vars

Next ==
  \/ \E t \in Thread : AppCall(t) \/ UiCall(t) \/ TimerFires(t) \/ ThreadStep(t)
  \/ Serve \/ Finish \/ Break \/ LinkChange
  \/ Over

\* The threads run, camerad serves its requests and ends what it was told to end.
Fairness ==
  /\ \A t \in Thread : WF_vars(ThreadStep(t))
  /\ WF_vars(Serve) /\ WF_vars(Finish)

Spec == Init /\ [][Next]_vars /\ Fairness

-----------------------------------------------------------------------------
(***************************************************************************)
(* Properties                                                              *)
(***************************************************************************)
ThreadState == [pc : {"idle", "lock", "check", "call", "wait", "after", "disconnect"},
                cmd : Cmd \cup Notice, ops : Seq(Op), seq : Nat, id : Nat]

TypeOK ==
  /\ camState \subseteq Bit /\ client \subseteq {"pic", "live"}
  /\ th \in [Thread -> ThreadState]
  /\ semCamera \in Thread \cup {NoThread} /\ syncWriteRead \in Thread \cup {NoThread}
  /\ writeSeq \in Nat /\ calls \in Nat
  /\ asyncIds \subseteq [id : Nat, got : BOOLEAN]
  /\ toCamerad \in Seq([cmd : Cmd, seq : Nat, id : Nat])
  /\ toClient \in Seq([seq : Nat, id : Nat, ok : BOOLEAN, state : SUBSET Bit])
  /\ notices \in Seq([name : Notice, id : Nat])
  /\ doing \subseteq [act : Activity, id : Nat]

\* The setting in which the state word can be relied on: the UI asks for nothing,
\* nobody asks for the state itself, the preview does not break and camerad answers
\* in time.
AppAlone ==
  /\ Ui = {} /\ AppCmd \cap {"sync_info", "query_state"} = {}
  /\ "preview" \notin MayBreak /\ ~MayTimeOut

\* When no thread is at work and no notification is unread, the state word tells
\* exactly what camerad does: no bit of a start or of a stop is left behind, none
\* of a running or of an ending activity is missing (the handlers of
\* control_center.py, the callbacks and the notifications together).
StateAgrees ==
  Quiet => camState = BitsOf(Acts)
                      \cup {"STOP_RECORDING" : a \in Acts \cap {"record_end"}}
                      \cup {"STOP_LIVING" : a \in Acts \cap {"live_end"}}

\* Whoever takes an answer from the fifo takes the one of its own request
\* (write_and_read, read_response).
AnswersMatch ==
  [][\A t \in Thread :
       (th[t].pc = "wait" /\ th'[t].pc = "after" /\ toClient # << >>
          /\ Head(toClient).seq = th[t].seq) => Head(toClient).id = th[t].id]_vars

\* A command of the app whose result has yet to come is one that camerad is at
\* work on: the notification of its end is never looked up in async_id_list before
\* the command is in it, and so never dropped (add_async_cmd_id after the answer,
\* add_async_finish in the thread of the notifications).
ResultsNotLost ==
  Quiet => \A a \in asyncIds : ~a.got => \E d \in doing : d.id = a.id

\* No call waits for ever: not for a semaphore, not for an answer, whichever
\* requests camerad fails to answer (write_and_read releases in every branch, and
\* the semaphores are always taken in the same order).  The opening of the fifos,
\* which ends when camerad opens its side, is taken to end.
EveryCallReturns == \A t \in Thread : th[t].pc # "idle" ~> th[t].pc = "idle"

\* Two starts of the preview are never under way at once (comment of
\* cameraUiStartPreview, control_center.py:1898-1899).
OneStartPreview ==
  \A t, u \in Thread :
    /\ th[t].cmd = "start_preview" /\ th[u].cmd = "start_preview"
    /\ th[t].pc \in {"call", "wait"} /\ th[u].pc \in {"call", "wait"}
    => t = u
=============================================================================
