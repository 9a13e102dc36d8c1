-------------------------------- MODULE Exec --------------------------------
(***************************************************************************)
(* The query scheduler running tuples through the query graph of module    *)
(* DriverGraph: OperatorPriorityStrategy::runNextUnit (esl/strategy.cc),   *)
(* the strategy runDriver installs.  One call is a pass over the driver's  *)
(* statements that gives each at most one tuple.  Priorities stay at       *)
(* MAX_PRIORITY, since Monitor::collectStats is never set, so the pass     *)
(* follows the order of the driver's list and does not end at the first    *)
(* tuple.  A buffer with several readers (a fork) is popped only when all  *)
(* of them have processed its first tuple, which their dummies record.     *)
(*                                                                         *)
(* Commands are taken between passes; they add or drop whole queries (see  *)
(* module QueryPool for how, and for refused ones).  Ios and I/O modules   *)
(* put tuples at any time.  A tuple is its timestamp.  No joins.           *)
(***************************************************************************)
EXTENDS Integers, DriverGraph, UnionStmt

CONSTANTS Query,     \* the queries, each named by its own statement
          Parts,     \* the sub statements of a union
          Timed,     \* the unions that are utStmt; the others are utlStmt
          Input,     \* the streams that I/O modules write
          Client,    \* the outputs of which Ios hands every tuple to clients
          Droppable, \* the queries clients deactivate
          Midway,    \* whether they do so when a fork is half processed
          Budget,    \* Driver::priority, tuples from sources in one pass
          MaxTuples, \* bound: tuples that arrive
          MaxStops   \* bound: deactivations

ASSUME ExecAssumption ==
    /\ Query \subseteq Stmt /\ Droppable \subseteq Query
    /\ Parts \in [Query -> Seq(Stmt)] /\ Timed \subseteq Stmt
    /\ \A q \in Query :
         LET parts == ToSet(Parts[q]) IN
         /\ \A p \in parts : Type[p] = "normal"
         /\ Type[q] = "union" => Reads(q) \subseteq {Out[p] : p \in parts}
    /\ \A s \in Stmt : Type[s] # "join"
    /\ Input \subseteq Buffer /\ Client \subseteq Buffer
    /\ Midway \in BOOLEAN
    /\ Budget \in Nat \ {0} /\ MaxTuples \in Nat /\ MaxStops \in Nat

VARIABLES
    g,      \* the query graph
    order,  \* the driver's stmts, and so the strategy's stmtsInfo
    buf,    \* the tuples in the buffers
    done,   \* the dummies whose `processed' is set
    in,     \* uStmt::in
    pos,    \* the pass is at order[pos]; 0 between passes
    left,   \* nTuples
    clock,  \* the time, and the number of tuples that arrived
    stops,  \* the number of deactivations
    ahead   \* history: how many of the tuples in its input a statement has
            \* processed; less than 0 if it missed some

vars == <<g, order, buf, done, in, pos, left, clock, stops, ahead>>

Init ==
    /\ g = EmptyGraph /\ order = << >> /\ done = {}
    /\ buf = [b \in Buffer |-> << >>]
    /\ in = [s \in Stmt |-> Nil]
    /\ pos = 0 /\ left = 0 /\ clock = 0 /\ stops = 0
    /\ ahead = [s \in Stmt |-> 0]

-----------------------------------------------------------------------------
(* The rest of the system                                                   *)

\* An I/O module puts a tuple.
Arrive(b) ==
    /\ b \in Input /\ clock < MaxTuples
    /\ clock' = clock + 1
    /\ buf' = [buf EXCEPT ![b] = Append(@, clock')]
    /\ UNCHANGED <<g, order, done, in, pos, left, stops, ahead>>

Flow(q) == Append(Parts[q], q)

\* ACTIVATE_QUERY: the parts, then the query itself.
Activate(q) ==
    LET r == AddAll(g, Flow(q)) IN
    /\ pos = 0 /\ q \notin g.stmts /\ r.ok
    /\ g' = r.g
    /\ order' = order \o Flow(q)
    /\ UNCHANGED <<buf, done, in, pos, left, clock, stops, ahead>>

\* DEACTIVATE_QUERY; flags go with their dummies.
Deactivate(q) ==
    /\ pos = 0 /\ q \in Droppable \cap g.stmts /\ stops < MaxStops
    /\ stops' = stops + 1
    /\ g' = DropAll(g, Flow(q))
    /\ order' = Without(order, ToSet(Flow(q)))
    /\ done' = done \cap DOMAIN g'.dummies
    /\ Midway \/ \A d \in done \ done' : g.dummies[d] \in ToSet(Flow(q))
    /\ ahead' = [s \in Stmt |-> IF s \in ToSet(Flow(q)) THEN 0 ELSE ahead[s]]
    /\ UNCHANGED <<buf, in, pos, left, clock>>

-----------------------------------------------------------------------------
(* runNextUnit                                                              *)

Start ==
    /\ pos = 0 /\ order # << >>
    /\ pos' = 1 /\ left' = Budget
    /\ UNCHANGED <<g, order, buf, done, in, clock, stops, ahead>>

Onward == pos' = IF pos = Len(order) THEN 0 ELSE pos + 1

\* The statement runs on x: there may be a tuple for its output, or not (a
\* filter, or a failure, which is treated the same way).
Emit(s, bufs, x) ==
    IF Out[s] \in Client THEN bufs ELSE [bufs EXCEPT ![Out[s]] = Append(@, x)]
Outputs(s, bufs, x) == {bufs, Emit(s, bufs, x)}

\* The statement whose turn it is, and the entry of its input.
Turn == order[pos]
InOf(s) == Ins[s][1]
EntryOf(s) == g.tab[InOf(s)]
Spent(s) == EntryOf(s).type \in Sources /\ left <= 0

\* "finished one driver round"
Leaves(s) ==
    /\ Type[s] = "normal" /\ Spent(s)
    /\ pos' = 0
    /\ UNCHANGED <<g, order, buf, done, in, left, clock, stops, ahead>>

Charge(s, type) == IF EntryOf(s).type = type THEN left - 1 ELSE left

\* The first tuple of b is popped.
Pop(bufs, b) == [bufs EXCEPT ![b] = Tail(@)]
Passed(counts, b) == [s \in Stmt |-> IF s \in g.stmts /\ b = InOf(s)
                                      THEN counts[s] - 1 ELSE counts[s]]

\* A statement that is not on a fork.  The code means "fork" and "source_fork":
\* a merge_fork is read like this too.
RunPlain(s) ==
    LET b == InOf(s) IN
    /\ Type[s] = "normal" /\ ~Spent(s)
    /\ EntryOf(s).type \notin {"fork", "source_fork"}
    /\ Onward
    /\ IF buf[b] = << >> THEN UNCHANGED <<buf, ahead, left>>
       ELSE /\ buf' \in Outputs(s, Pop(buf, b), Head(buf[b]))
            /\ ahead' = Passed([ahead EXCEPT ![s] = 1], b)
            /\ left' = Charge(s, "source")
    /\ UNCHANGED <<g, order, done, in, clock, stops>>

\* Mutant: the tuple is popped for the first one who has processed it.
RunForkEarly(s) ==
    LET b == InOf(s)
        own == <<b, Out[s]>>
        all == {d \in DOMAIN g.dummies : d[1] = b}
        finished == all \cap done # {}
        pops == finished /\ buf[b] # << >>
        bufs == IF pops THEN Pop(buf, b) ELSE buf
        counts == IF pops THEN Passed(ahead, b) ELSE ahead
        marks == IF finished THEN done \ all ELSE done
    IN
    /\ Type[s] = "normal" /\ ~Spent(s)
    /\ EntryOf(s).type \in {"fork", "source_fork"}
    /\ Onward
    /\ left' = IF finished THEN Charge(s, "source_fork") ELSE left
    /\ IF own \in marks \/ bufs[b] = << >>
         THEN buf' = bufs /\ done' = marks /\ ahead' = counts
         ELSE /\ buf' \in Outputs(s, bufs, Head(bufs[b]))
              /\ done' = marks \cup {own}
              /\ ahead' = [counts EXCEPT ![s] = 1]
    /\ UNCHANGED <<g, order, in, clock, stops>>

\* A statement on a fork.  When all branches are finished, the first of them
\* that has its turn pops the tuple and resets the flags.
RunFork(s) ==
    LET b == InOf(s)
        own == <<b, Out[s]>>
        all == {d \in DOMAIN g.dummies : d[1] = b}
        finished == all \subseteq done
        pops == finished /\ buf[b] # << >>
        bufs == IF pops THEN Pop(buf, b) ELSE buf
        counts == IF pops THEN Passed(ahead, b) ELSE ahead
        marks == IF finished THEN done \ all ELSE done
    IN
    /\ Type[s] = "normal" /\ ~Spent(s)
    /\ EntryOf(s).type \in {"fork", "source_fork"}
    /\ Onward
    /\ left' = IF finished THEN Charge(s, "source_fork") ELSE left
    /\ IF own \in marks \/ bufs[b] = << >>
         THEN buf' = bufs /\ done' = marks /\ ahead' = counts
         ELSE /\ buf' \in Outputs(s, bufs, Head(bufs[b]))
              /\ done' = marks \cup {own}
              /\ ahead' = [counts EXCEPT ![s] = 1]
    /\ UNCHANGED <<g, order, in, clock, stops>>

\* A union sets `in' to the buffer to pop.
RunUnion(s) ==
    LET r == IF s \in Timed THEN Earliest(Ins[s], buf) ELSE InTurn(Ins[s], buf, in[s]) IN
    /\ Type[s] = "union"
    /\ Onward
    /\ in' = [in EXCEPT ![s] = r.in]
    /\ IF r.rc = "no_input" THEN UNCHANGED <<buf, left>>
       ELSE /\ buf' = Emit(s, Pop(buf, r.in), Head(buf[r.in]))
            /\ left' = IF g.tab[r.in].type = "source" THEN left - 1 ELSE left
    /\ UNCHANGED <<g, order, done, clock, stops, ahead>>

Visit ==
    /\ pos > 0
    /\ Leaves(Turn) \/ RunPlain(Turn) \/ RunFork(Turn) \/ RunUnion(Turn)

Next ==
    \/ Start \/ Visit
    \/ \E b \in Buffer : Arrive(b)
    \/ \E q \in Query : Activate(q) \/ Deactivate(q)

\* querySchdl::run never stops calling runDriver.
Spec == Init /\ [][Next]_vars /\ WF_vars(Start) /\ WF_vars(Visit)

-----------------------------------------------------------------------------
Normal == {s \in g.stmts : Type[s] = "normal"}

\* driver.h: processed tells "if this fork branch has been processed for the
\* current tuple".  So a statement has processed the tuples that were popped
\* from its input, and the first one in the buffer if it is marked: each reader
\* gets each tuple once, in order, while queries come and go.
ProcessedExact ==
    \A s \in Normal : ahead[s] = IF <<InOf(s), Out[s]>> \in done THEN 1 ELSE 0

\* A timed union merges its inputs by timestamp: its output is in order although
\* its branches filter and lag in their own ways, and keep what is in their
\* buffers while the query is deactivated.
Ordered ==
    \A s \in Timed : LET out == buf[Out[s]] IN
        \A i \in DOMAIN out, j \in DOMAIN out : i <= j => out[i] <= out[j]

\* The next tuple of s is not there yet, or s is done with all of them.
Idle(s) ==
    IF Type[s] = "normal"
      THEN ahead[s] >= Len(buf[InOf(s)])
      ELSE s \in Timed \/ \A b \in Reads(s) : buf[b] = << >>

\* When no more tuples arrive and queries stay, every statement ends up having
\* processed all of its input, however small the budget of a pass.
Drained == []<>(\A s \in g.stmts : Idle(s))
=============================================================================
