---------------------------- MODULE MCLlmCache ----------------------------
(* Instances of the response cache. *)
EXTENDS LlmCache

CONSTANTS k1, k2, k3, k4, h1, h2

\* Prefixes that select everything, one branch, or nothing.
AllOrOne == {{h1, h2}, {h1}, {}}

\* Exact keys are hashes: nothing tells one from another.
KeySymmetry == Permutations(Keys)
=============================================================================
