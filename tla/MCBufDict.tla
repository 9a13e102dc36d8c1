----------------------------- MODULE MCBufDict ------------------------------
EXTENDS BufDict

CONSTANTS ios, sched

\* _ioBuffer among the names before and after it: Ios makes a user's error
\* buffer, in front, the scheduler makes two streams and kills one, which may be
\* the last entry or not.
MCFixed == {2}
MCMakes == [p \in Procs |-> IF p = ios THEN {1} ELSE {3, 4}]
MCKills == [p \in Procs |-> IF p = ios THEN {} ELSE {3}]
=============================================================================
