----------------------------- MODULE MCVecArray -----------------------------
(* A small word: i64 is -16 .. 15, a Vec holds up to 4 elements, and every    *)
(* index from one end of the word to the other is stored and loaded.          *)
EXTENDS VecArrayProperties
=============================================================================
