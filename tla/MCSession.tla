----------------------------- MODULE MCSession -----------------------------
EXTENDS Session

CONSTANTS s1, m1, m2

\* The second message is a retained one.
MCSent == [s \in Senders |-> <<m1, m2>>]
============================================================================
