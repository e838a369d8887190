----------------------------- MODULE MCPartitions -----------------------------
(***************************************************************************)
(* An instance of VolumeManager in which disks and the modules' cards may  *)
(* have two partitions that can be mounted: one local slot, two modules.   *)
(***************************************************************************)
EXTENDS VolumeManager

Whole == <<TRUE>>
Both  == <<TRUE, TRUE>>

MCDisks == [sd |-> {[devs |-> Whole, prio |-> 0], [devs |-> Both, prio |-> 0]}]
MCFirst == {[sd |-> 0], [sd |-> 1]}
MCCard  == {Whole, Both}
=============================================================================
