------------------------------ MODULE MCBrowse -------------------------------
(***************************************************************************)
(* A small instance of Browse: names that are leaf and branch at once, that*)
(* share a prefix without sharing a segment, that have an empty segment;   *)
(* points of two ids in one database and of a third in another.            *)
(***************************************************************************)
EXTENDS Browse

SmallNames == {<<1>>, <<1, 2>>, <<1, 3, 1>>, <<1, 3, 2>>, <<1, 3, 3, 2>>}
SmallAsked == {<<>>, <<1>>}
SmallSuffixes == {<<>>, <<2>>}
\* Two names of equal value.
SmallWorth == <<1>> :> 1 @@ <<1, 2>> :> 0 @@ <<1, 3, 1>> :> 2 @@ <<1, 3, 2>> :> 1
              @@ <<1, 3, 3, 2>> :> 3
SmallKeys == {<<1, 0>>, <<1, 1>>, <<1, 2>>, <<2, 0>>, <<3, 0>>, <<3, 1>>}
=============================================================================
