------------------------------ MODULE MCWindow ------------------------------
EXTENDS Window

Win(use, wtype, size, slide) ==
    [use |-> use, wtype |-> wtype, size |-> size, slide |-> slide,
     vals |-> CASE use \in {"view", "join", "count"} -> {1}
                [] use \in {"sum", "base"} -> {1, 3}
                [] OTHER -> {-1, 0, 1}]

\* Row and time windows of sizes 1 to 3 over 4-bit numbers, sliding or not,
\* and base versions that do and do not skip tuples.
MCConfigs ==
    {Win(u, t, n, 1) : u \in {"view", "join"}, t \in {"row", "time"},
                       n \in 1..3}
    \cup {Win(u, t, n, k) : u \in Aggregates, t \in {"row", "time"},
                            n \in {2, 3}, k \in {1, 2, 3}}
    \cup {Win("base", "row", n, k) : n \in {2, 3}, k \in {3, 4}}
=============================================================================
