--------------------------- MODULE MCSenseBarrier ---------------------------
(* Small instances of SenseBarrier for TLC: the configuration gives the harts *)
(* as model values.                                                           *)
EXTENDS SenseBarrier
=============================================================================
