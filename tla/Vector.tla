------------------------------- MODULE Vector -------------------------------
(***************************************************************************)
(* std::vector, as far as the reader needs it: where the elements lie.  An *)
(* element's address is the buffer and the place in it; when the vector    *)
(* outgrows its capacity, its elements move to another buffer and their    *)
(* old addresses are dead.                                                 *)
(***************************************************************************)
EXTENDS Naturals

EmptyVector == [buf |-> 0, cap |-> 0, len |-> 0, items |-> <<>>]

Address(v, k) == [buf |-> v.buf, at |-> k]
Back(v) == v.items[v.len]

\* b is a buffer nothing lies in yet.
EmplaceBack(v, x, b) ==
  [buf |-> IF v.len < v.cap THEN v.buf ELSE b,
   cap |-> IF v.len < v.cap THEN v.cap ELSE 2 * v.cap + 1,
   len |-> v.len + 1,
   items |-> [k \in 1 .. v.len + 1 |-> IF k = v.len + 1 THEN x ELSE v.items[k]]]

Reserve(v, n, b) ==
  [buf |-> IF n > v.cap THEN b ELSE v.buf,
   cap |-> IF n > v.cap THEN n ELSE v.cap,
   len |-> v.len, items |-> v.items]

PopBack(v) ==
  [buf |-> v.buf, cap |-> v.cap, len |-> v.len - 1,
   items |-> [k \in 1 .. v.len - 1 |-> v.items[k]]]

WithBack(v, x) ==
  [buf |-> v.buf, cap |-> v.cap, len |-> v.len,
   items |-> [k \in 1 .. v.len |-> IF k = v.len THEN x ELSE v.items[k]]]
=============================================================================
