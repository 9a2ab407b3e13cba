--------------------------- MODULE MCBoardService ---------------------------
(* Instances of the board's requests. *)
EXTENDS BoardService, TLC

CONSTANTS c1, c2

\* One client goes through register, post and one more call; the other makes
\* one call.
ThreeAndOne == [c \in Clients |-> IF c = c1 THEN 3 ELSE 1]
=============================================================================
