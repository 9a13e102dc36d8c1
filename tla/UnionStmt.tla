----------------------------- MODULE UnionStmt ------------------------------
(***************************************************************************)
(* Which input a union statement takes its next tuple from (esl/stmt.cc).  *)
(* exe_set_in() puts that tuple into the output and leaves the buffer in   *)
(* `in', for the caller to pop.  A tuple is its timestamp.                 *)
(***************************************************************************)
EXTENDS Naturals, Sequences

\* The first of the positions S.
First(S) == CHOOSE i \in S : \A j \in S : i <= j

\* Mutant: inputs that are empty are passed over.
EarliestPresent(ins, buf) ==
    LET full == {i \in DOMAIN ins : buf[ins[i]] # << >>}
        least == {i \in full : \A j \in full : Head(buf[ins[i]]) <= Head(buf[ins[j]])}
    IN IF full = {} THEN [rc |-> "no_input", in |-> ins[1]]
       ELSE [rc |-> "success", in |-> ins[First(least)]]

\* utStmt: the tuple with the smallest timestamp, once every input has one.
Earliest(ins, buf) ==
    LET idle == {i \in DOMAIN ins : buf[ins[i]] = << >>}
        least == {i \in DOMAIN ins : \A j \in DOMAIN ins :
                    Head(buf[ins[i]]) <= Head(buf[ins[j]])}
    IN IF idle # {} THEN [rc |-> "no_input", in |-> ins[First(idle)]]
       ELSE [rc |-> "success", in |-> ins[First(least)]]

\* utlStmt: the inputs in turn, from the one that was last set in `in' (0: from
\* the first).
Rotation(ins, from) ==
    LET n == Len(ins) IN [k \in 1 .. n |-> ins[((from + k - 2) % n) + 1]]
StartsAt(ins, in) ==
    IF \E i \in DOMAIN ins : ins[i] = in THEN First({i \in DOMAIN ins : ins[i] = in}) ELSE 1

\* Mutant: only the input that was used last is looked at.
InTurnSame(ins, buf, in) ==
    LET b == ins[StartsAt(ins, in)] IN
    [rc |-> IF buf[b] = << >> THEN "no_input" ELSE "success", in |-> b]

InTurn(ins, buf, in) ==
    LET round == Rotation(ins, StartsAt(ins, in))
        full == {k \in DOMAIN round : buf[round[k]] # << >>}
    IN IF full = {} THEN [rc |-> "no_input", in |-> round[1]]
       ELSE [rc |-> "success", in |-> round[First(full)]]
=============================================================================
