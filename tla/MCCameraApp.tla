----------------------------- MODULE MCCameraApp -----------------------------
(***************************************************************************)
(* Requests of the app, the poll timer and camerad's notifications;        *)
(* camerad answers every request in time.                                  *)
(***************************************************************************)
EXTENDS CameraControl

AppCmds == {"start_record", "stop_record", "take_pic", "start_live_save", "stop_live",
            "start_preview", "stop_preview"}
Breaks == {"record", "live", "live_rec", "link_down"}
None == {}

ASSUME AppAssumption == AppAlone
=============================================================================
