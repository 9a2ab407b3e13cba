---------------------------- MODULE MCCachePipe ----------------------------
(* Instances of the pipe of the response cache. *)
EXTENDS CachePipe, TLC

CONSTANTS c1, c2

TwoAndOne == c1 :> 2 @@ c2 :> 1
=============================================================================
