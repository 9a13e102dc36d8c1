---------------------------- MODULE MCSharedBuf -----------------------------
EXTENDS SharedBuf, TLC

CONSTANTS p1, p2, c, a1, a2, a3, v1, v2

MCPutters == {p1, p2}
MCAddr == {a1, a2, a3}
MCVal == {v1, v2}

Symmetry == Permutations(MCPutters) \cup Permutations(MCAddr)
              \cup Permutations(MCVal)
=============================================================================
