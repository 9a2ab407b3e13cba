----------------------------- MODULE MCRegistry -----------------------------
\* Two agents, which are alike, one master and a registry.
EXTENDS Registry, TLC

CONSTANTS a1, a2, m1

AgentSymmetry == Permutations(Agents)
=============================================================================
