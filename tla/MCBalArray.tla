----------------------------- MODULE MCBalArray -----------------------------
(* A small word: i64 is -64 .. 63, an element 4 bytes, and the allocator has *)
(* a block of at most 20 bytes, header included: 4 elements.  Both products   *)
(* of the growth wrap for some of the indexes.                                *)
EXTENDS BalArrayProperties

MCSizes == {-1, 0, 1, 3}
=============================================================================
