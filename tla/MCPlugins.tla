----------------------------- MODULE MCPlugins -----------------------------
EXTENDS Plugins, TLC

CONSTANTS a1, a2, h1, filters_py, extra_py, audit, spam

MCAllFiles == <<extra_py, filters_py>>

\* The second file brings a second plug-in, and one of the same name.
MCClasses == [f \in {filters_py, extra_py} |->
                IF f = filters_py THEN <<audit, spam>> ELSE <<spam>>]

MCPriority == [n \in {audit, spam} |-> IF n = audit THEN 10 ELSE 100]

AdminSymmetry == Permutations(Admins)
============================================================================
