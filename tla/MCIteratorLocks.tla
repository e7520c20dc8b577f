--------------------------- MODULE MCIteratorLocks ---------------------------
EXTENDS IteratorLocks

(* Keys that extend, precede and branch off each other, the empty key too. *)
MCKeys == {<<>>, <<1>>, <<1, 1>>, <<1, 2>>, <<2>>, <<1, 1, 2>>}
=============================================================================
