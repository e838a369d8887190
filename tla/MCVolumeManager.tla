--------------------------- MODULE MCVolumeManager ---------------------------
(***************************************************************************)
(* A small instance of VolumeManager: a slow SD card, which is there at    *)
(* the start, a fast disk, also one with a second, unreadable partition,   *)
(* and one module.                                                         *)
(***************************************************************************)
EXTENDS VolumeManager

Whole == <<TRUE>>
Two   == <<TRUE, FALSE>>

MCDisks == [sd |-> {[devs |-> Whole, prio |-> 0]},
            udisk |-> {[devs |-> Whole, prio |-> 2], [devs |-> Two, prio |-> 2]}]
MCFirst == {[sd |-> 1, udisk |-> 0]}
MCCard  == {Whole}
=============================================================================
