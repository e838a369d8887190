----------------------------- MODULE MCCameraBoth -----------------------------
(***************************************************************************)
(* The app and the UI at once, with a camerad that may not answer in time  *)
(* and a preview that may break.                                           *)
(***************************************************************************)
EXTENDS CameraControl

Plain == {"plain"}
Starts == {"start_preview"}
StartsAndSyncs == {"start_preview", "sync_info"}
Breaks == {"preview"}
=============================================================================
