-------------------------------- MODULE Fifo --------------------------------
(***************************************************************************)
(* What a StreamMill buffer promises its users (class buffer, buffer.h):   *)
(* put() appends a tuple to the tail, get() followed by pop() takes the    *)
(* tuple at the head.  Nothing is lost, duplicated or reordered.           *)
(***************************************************************************)
EXTENDS Sequences

CONSTANTS Val,   \* tuples
          NoVal  \* "nothing was taken yet"

VARIABLES queue, \* tuples put and not yet popped, oldest first
          out    \* the tuple taken last

vars == <<queue, out>>

Init == queue = << >> /\ out = NoVal

Put(v) == queue' = Append(queue, v) /\ UNCHANGED out

Get == /\ queue # << >>
       /\ out' = Head(queue)
       /\ queue' = Tail(queue)

Next == Get \/ \E v \in Val : Put(v)

Spec == Init /\ [][Next]_vars
=============================================================================
