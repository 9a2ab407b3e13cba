-------------------------- MODULE MCRateLimiter --------------------------
EXTENDS RateLimiter, TLC

CONSTANTS p1, p2, board, node, all

\* Half a token per tick in the global bucket, a token in the topics'.
MCRate == [b \in {board, node, all} |-> IF b = all THEN 1 ELSE 2]
MCBurst == [b \in {board, node, all} |-> 2]

ThreadSymmetry == Permutations(Threads)
==========================================================================
