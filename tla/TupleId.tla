------------------------------- MODULE TupleId ------------------------------
(***************************************************************************)
(* The tuple_id of windowBuf (esl/windowBuf.cc) and of winbuf (winbuf.cc): *)
(* an unsigned number that counts the tuples of a row window and the       *)
(* milliseconds of a time window, and starts again at 0 after UINT_MAX.    *)
(***************************************************************************)
EXTENDS Integers

CONSTANT M  \* the number of values of an unsigned int, UINT_MAX + 1

ASSUME MAssumption == M \in Nat /\ M >= 4

Ids == 0..(M - 1)

\* updateTupleID: one more row, or d more milliseconds.  The conversion of the
\* elapsed time, a double, to unsigned keeps its low bits.
Later(id, d) == (id + d) % M

\* Mutant: getExpired without the case of a number that has wrapped.
ExpiredNoWrap(id, t, size) == t + size <= id

\* getExpired: has the row numbered t left a window of that size at number id?
Expired(id, t, size) ==
    IF id < size
      THEN t <= M - 1 - size + id /\ t > id
      ELSE t <= id - size \/ t > id

-----------------------------------------------------------------------------
(* What the numbers stand for.                                              *)

\* How long before the number id the number t was current, if it was less
\* than M ago.
Age(id, t) == (id - t) % M

\* The age at which getExpired gives a row up: the size of the window, but one
\* more just after the numbers have wrapped.
Edge(id, size) == IF id < size THEN size + 1 ELSE size
=============================================================================
