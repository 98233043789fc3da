-------------------------- MODULE MCBufferSessions --------------------------
(* BufferSessions for TLC: regions, sessions and invocations are sets of    *)
(* model values that the specification only tests for equality.            *)
EXTENDS BufferSessions, TLC

Symmetry ==
    Permutations(Regions) \cup Permutations(Sessions)
        \cup Permutations(Invocations)
=============================================================================
