----------------------------- MODULE MCRequests ------------------------------
(***************************************************************************)
(* A small instance of Requests.  Threads are interchangeable, and names   *)
(* too; instances are not, rt_domain treats the first one differently.     *)
(***************************************************************************)
EXTENDS Requests, TLC

Symmetries == Permutations(Names) \cup Permutations(Threads)
=============================================================================
