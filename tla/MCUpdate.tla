------------------------------ MODULE MCUpdate ------------------------------
(***************************************************************************)
(* A small instance of Update: two sections and two versions, of which the *)
(* older one has the greater minor number; the device has the older one at *)
(* first, or no version file.                                              *)
(***************************************************************************)
EXTENDS Update

MCImage     == {<<1, 5, 0>>, <<2, 0, 0>>}
MCFirstVers == {None, <<1, 5, 0>>}
MCBill      == <<"firmware", "bin">>
MCMedia     == MCImage \cup {Empty}
=============================================================================
