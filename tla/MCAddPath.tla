------------------------------ MODULE MCAddPath ------------------------------
(***************************************************************************)
(* Small instances of AddPath.  Threads are interchangeable; windows are   *)
(* not, they are ordered by time.                                          *)
(***************************************************************************)
EXTENDS AddPath, TLC

ThreadSymmetry == Permutations(Threads)
=============================================================================
