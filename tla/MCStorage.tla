------------------------------ MODULE MCStorage ------------------------------
(***************************************************************************)
(* Small instances of Storage.  Threads and windows are interchangeable,   *)
(* and so are names that are treated alike: the module compares them for   *)
(* equality only, and Kept is the one set that tells names apart.          *)
(***************************************************************************)
EXTENDS Storage, TLC

Symmetries ==
    UNION {Permutations(S) : S \in {Kept, Names \ Kept, Threads, Windows}}
=============================================================================
