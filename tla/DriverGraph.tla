----------------------------- MODULE DriverGraph ----------------------------
(***************************************************************************)
(* The query graph of the driver (Driver and DrvMgr, esl/driver.cc): the   *)
(* buffer state table that Driver::addStmt and Driver::dropStmt edit in    *)
(* place, entry by entry, whenever a statement is activated or             *)
(* deactivated.  The operators work on a graph                             *)
(*                                                                         *)
(*    tab      bufStateTable, the entries of real buffers                  *)
(*    dummies  bufStateTable, the fork dummies: <<in, out>> (the code joins *)
(*             the two names) to the statement of that branch              *)
(*    map      the keys of DrvMgr::bufToDrvMap                             *)
(*    stmts    the keys of DrvMgr::stmtToDrvMap, the driver's stmts        *)
(*                                                                         *)
(* and return [ok, g].  One driver: DrvMgr puts every statement into the   *)
(* existing one unless a component command split it.  Statements do not    *)
(* read a buffer twice nor write into a buffer they read.                  *)
(***************************************************************************)
EXTENDS Naturals, Sequences, FiniteSets, SequencesExt

CONSTANTS Stmt,     \* the statements that can be in a driver
          Buffer,   \* the buffers they read and write
          Type,     \* "normal", "union" (utStmt and utlStmt) or "join"
          Ins,      \* their inputs; for a join its windows, then `in'
          Out,      \* their output
          Nil       \* a null pointer

ASSUME GraphAssumption ==
    /\ Type \in [Stmt -> {"normal", "union", "join"}]
    /\ Ins \in [Stmt -> Seq(Buffer)]
    /\ Out \in [Stmt -> Buffer]
    /\ \A s \in Stmt : /\ Ins[s] # << >> /\ IsInjective(Ins[s])
                       /\ Out[s] \notin ToSet(Ins[s])
                       /\ Type[s] = "normal" => Len(Ins[s]) = 1
    /\ Nil \notin Stmt \cup Buffer

Reads(s) == ToSet(Ins[s])

\* The C unions: `back' is a buffer or dummy, or the union or join statement of
\* a merge buffer; `fwd' is a buffer, or the fork count.
Entry(type, s, back, fwd) ==
    [type |-> type, stmt |-> s, back |-> back, fwd |-> fwd]

Forks == {"fork", "source_fork", "merge_fork"}
Merges == {"merge", "merge_fork", "merge_sink"}
Sinks == {"sink", "merge_sink"}
Sources == {"source", "source_fork"}

\* What a second reader makes of a buffer, and what its loss makes of it.
Forked == [source |-> "source_fork", normal |-> "fork", merge |-> "merge_fork"]
Unforked == [source_fork |-> "source", fork |-> "normal", merge_fork |-> "merge"]
\* A sink's first reader, and the loss of the only one.
Extended == [sink |-> "normal", merge_sink |-> "merge"]
Ended == [normal |-> "sink", merge |-> "merge_sink"]
\* A writer of a source: a normal statement, or a union or join.
Fed == [source |-> "normal", source_fork |-> "fork"]
Merged == [source |-> "merge", source_fork |-> "merge_fork"]
\* The loss of the writer of a buffer that has readers.
Unfed == [normal |-> "source", merge |-> "source",
          fork |-> "source_fork", merge_fork |-> "source_fork"]

EmptyGraph == [tab |-> << >>, dummies |-> << >>, map |-> {}, stmts |-> {}]

-----------------------------------------------------------------------------
(* Driver::addStmt                                                          *)

\* Mutant: a third reader is not counted.
EnteredUncounted(e, s) ==
    CASE e.type \in DOMAIN Forked -> [e EXCEPT !.type = Forked[@], !.fwd = 2]
      [] e.type \in Forks -> e
      [] e.type \in Sinks ->
           [e EXCEPT !.type = Extended[@], !.stmt = s, !.fwd = Out[s]]

\* Mutant: a sink that gets a reader keeps its type.
EnteredAsSink(e, s) ==
    CASE e.type \in DOMAIN Forked -> [e EXCEPT !.type = Forked[@], !.fwd = 2]
      [] e.type \in Forks -> [e EXCEPT !.fwd = @ + 1]
      [] e.type \in Sinks -> [e EXCEPT !.stmt = s, !.fwd = Out[s]]

\* The entry e of an input buffer once s reads it too.
Entered(e, s) ==
    CASE e.type \in DOMAIN Forked -> [e EXCEPT !.type = Forked[@], !.fwd = 2]
      [] e.type \in Forks -> [e EXCEPT !.fwd = @ + 1]
      [] e.type \in Sinks ->
           [e EXCEPT !.type = Extended[@], !.stmt = s, !.fwd = Out[s]]

\* s starts to read the buffers of B.  The reader of a buffer that becomes a
\* fork gets a dummy, which the entry of its output is told, unless that is a
\* merge buffer.
Enter(g, s, B) ==
    LET known == B \cap DOMAIN g.tab
        split == {b \in known : g.tab[b].type \in DOMAIN Forked}
        forks == {b \in known : g.tab[b].type \in DOMAIN Forked \cup Forks}
        moved(c) == {b \in split : g.tab[b].fwd = c /\ g.tab[c].type \notin Merges}
        entry(c) == IF c \in known THEN Entered(g.tab[c], s) ELSE g.tab[c]
        old == {<<b, g.tab[b].fwd>> : b \in split}
        new == {<<b, Out[s]>> : b \in forks}
    IN [g EXCEPT
         !.tab = [c \in DOMAIN g.tab \cup B |->
                    IF c \notin DOMAIN g.tab THEN Entry("source", s, Nil, Out[s])
                    ELSE IF moved(c) = {} THEN entry(c)
                    ELSE [entry(c) EXCEPT !.back = <<CHOOSE b \in moved(c) : TRUE, c>>]],
         !.dummies = [d \in DOMAIN g.dummies \cup old \cup new |->
                        IF d \in new THEN s
                        ELSE IF d \in old THEN g.tab[d[1]].stmt ELSE g.dummies[d]]]

\* Mutant: the dummy is forgotten.
BranchPlain(g, i, o) == i

\* The branch through which a normal statement is reached.
Branch(g, i, o) == IF g.tab[i].type \in Forks THEN <<i, o>> ELSE i

\* s starts to write its output; its inputs are entered.
Produce(g, s) ==
    LET o == Out[s]
        merge == Type[s] # "normal"
        back == IF merge THEN s ELSE Branch(g, Last(Ins[s]), o)
        entry == IF o \notin DOMAIN g.tab
                   THEN Entry(IF merge THEN "merge_sink" ELSE "sink", Nil, back, Nil)
                   ELSE [g.tab[o] EXCEPT
                           !.type = (IF merge THEN Merged ELSE Fed)[@],
                           !.back = back]
    IN [g EXCEPT !.tab = [c \in DOMAIN @ \cup {o} |->
                            IF c = o THEN entry ELSE @[c]],
                 !.stmts = @ \cup {s}]

\* The output exists and is written by another statement.
Occupied(g, s) == Out[s] \in DOMAIN g.tab /\ g.tab[Out[s]].type \notin Sources

\* Mutant: the output is looked at after the inputs have been entered.
GivesUpLate(g, s) ==
    {i \in 1 .. Len(Ins[s]) :
        /\ Ins[s][i] \in DOMAIN g.tab
        /\ Type[s] = "join" /\ i < Len(Ins[s])
        /\ g.tab[Ins[s][i]].type \in DOMAIN Forked}

\* The input at which addStmt gives up: the inputs before it are entered.  The
\* output is looked at only with an input that exists already, and at the end.
GivesUp(g, s) ==
    {i \in 1 .. Len(Ins[s]) :
        /\ Ins[s][i] \in DOMAIN g.tab
        /\ \/ Occupied(g, s)
           \/ /\ Type[s] = "join" /\ i < Len(Ins[s])
              /\ g.tab[Ins[s][i]].type \in DOMAIN Forked}

DriverAdd(g, s, valid) ==
    LET at == GivesUp(g, s)
        n == IF at = {} THEN Len(Ins[s]) ELSE (CHOOSE i \in at : \A j \in at : i <= j) - 1
        in == Enter(g, s, ToSet(SubSeq(Ins[s], 1, n)))
    IN IF ~valid THEN [ok |-> FALSE, g |-> g]
       ELSE IF at # {} \/ Occupied(g, s) THEN [ok |-> FALSE, g |-> in]
       ELSE [ok |-> TRUE, g |-> Produce(in, s)]

-----------------------------------------------------------------------------
(* Driver::dropStmt                                                         *)

\* The other reader of a fork that s leaves with one reader.
Rest(g, s, b) == CHOOSE d \in DOMAIN g.dummies : d[1] = b /\ d[2] # Out[s]

\* s no longer reads its inputs: a source disappears with its only reader, a
\* fork of two becomes an ordinary buffer again.
Leave(g, s) ==
    LET forks == {b \in Reads(s) : g.tab[b].type \in Forks}
        joined == {b \in forks : g.tab[b].fwd = 2}
        gone == {b \in Reads(s) : g.tab[b].type = "source"}
        moved(c) == {b \in joined : Rest(g, s, b)[2] = c}
        left(b) ==
            LET e == g.tab[b] IN
            CASE b \in joined -> [e EXCEPT !.type = Unforked[@],
                                           !.stmt = g.dummies[Rest(g, s, b)],
                                           !.fwd = Rest(g, s, b)[2]]
              [] b \in forks \ joined -> [e EXCEPT !.fwd = @ - 1]
              [] e.type \in DOMAIN Ended ->
                   [e EXCEPT !.type = Ended[@], !.stmt = Nil, !.fwd = Nil]
              [] OTHER -> e
        entry(c) == IF c \in Reads(s) THEN left(c) ELSE g.tab[c]
    IN [g EXCEPT
         !.tab = [c \in DOMAIN @ \ gone |->
                    IF moved(c) = {} THEN entry(c)
                    ELSE [entry(c) EXCEPT !.back = CHOOSE b \in moved(c) : TRUE]],
         !.dummies = [d \in DOMAIN @ \ ({<<b, Out[s]>> : b \in forks}
                                        \cup {Rest(g, s, b) : b \in joined})
                        |-> @[d]],
         !.map = @ \ gone]

\* Mutant: DrvMgr is not told that the output is gone.
WithdrawUntold(g, s) ==
    LET o == Out[s]
        unfed == [g.tab[o] EXCEPT !.type = Unfed[@], !.back = Nil] IN
    IF g.tab[o].type \in Sinks
      THEN [g EXCEPT !.tab = [c \in DOMAIN @ \ {o} |-> @[c]], !.stmts = @ \ {s}]
      ELSE [g EXCEPT !.tab[o] = unfed, !.stmts = @ \ {s}]

\* s no longer writes its output.
Withdraw(g, s) ==
    LET o == Out[s]
        unfed == [g.tab[o] EXCEPT !.type = Unfed[@], !.back = Nil] IN
    IF g.tab[o].type \in Sinks
      THEN [g EXCEPT !.tab = [c \in DOMAIN @ \ {o} |-> @[c]],
                     !.map = @ \ {o}, !.stmts = @ \ {s}]
      ELSE [g EXCEPT !.tab[o] = unfed, !.stmts = @ \ {s}]

\* "wrong buffer state type": nobody reads an input, nobody writes the output.
Misplaced(g, s) ==
    \/ \E b \in Reads(s) : b \notin DOMAIN g.tab \/ g.tab[b].type \in Sinks
    \/ Out[s] \notin DOMAIN g.tab \/ g.tab[Out[s]].type \in Sources

DriverDrop(g, s) ==
    IF Misplaced(g, s) THEN [ok |-> FALSE, g |-> g]
    ELSE [ok |-> TRUE, g |-> Withdraw(Leave(g, s), s)]

-----------------------------------------------------------------------------
(* DrvMgr                                                                   *)

\* The buffers DrvMgr looks at: it leaves out the windows of a join.
MapIns(s) == IF Type[s] = "join" THEN {Last(Ins[s])} ELSE Reads(s)

AddStmt(g, s, valid) ==
    LET r == DriverAdd(g, s, valid) IN
    IF s \in g.stmts THEN [ok |-> TRUE, g |-> g]
    ELSE IF MapIns(s) \cap g.map = {} /\ Out[s] \in g.map /\ Occupied(g, s)
      THEN [ok |-> FALSE, g |-> g]
    ELSE IF r.ok
      THEN [r EXCEPT !.g.map = @ \cup MapIns(s) \cup {Out[s]}]
      ELSE r

DropStmt(g, s) ==
    IF s \notin g.stmts THEN [ok |-> TRUE, g |-> g] ELSE DriverDrop(g, s)

-----------------------------------------------------------------------------
(* Several statements                                                       *)

\* addStmt for the statements of seq, up to the first that is refused.
AddAfter(r, s) == IF r.ok THEN AddStmt(r.g, s, TRUE) ELSE r
AddAll(g, seq) ==
    LET f[i \in 0 .. Len(seq)] ==
          IF i = 0 THEN [ok |-> TRUE, g |-> g] ELSE AddAfter(f[i - 1], seq[i])
    IN f[Len(seq)]

\* dropStmt for the statements of seq; it stops at a failure, of which there is none
\* (DropRight).
DropAll(g, seq) ==
    LET f[i \in 0 .. Len(seq)] ==
          IF i = 0 THEN g ELSE DropStmt(f[i - 1], seq[i]).g
    IN f[Len(seq)]

\* The elements of seq that are in S, in their order: SelectSeq as a function
\* whose steps a proof can follow.
Only(seq, S) ==
    LET f[i \in 0 .. Len(seq)] ==
          IF i = 0 THEN << >>
          ELSE IF seq[i] \in S THEN Append(f[i - 1], seq[i])
          ELSE f[i - 1]
    IN f[Len(seq)]

Without(seq, S) == Only(seq, ToSet(seq) \ S)

-----------------------------------------------------------------------------
(* What the table should be, from the statements alone                      *)

Readers(S, b) == {s \in S : b \in Reads(s)}
Writers(S, b) == {s \in S : Out[s] = b}
Used(S) == UNION {Reads(s) \cup {Out[s]} : s \in S}

\* The type of a buffer follows from who writes it and how many read it.
BufType(S, b) ==
    LET n == Cardinality(Readers(S, b))
        how == IF Writers(S, b) = {} THEN "source"
               ELSE IF \A w \in Writers(S, b) : Type[w] = "normal" THEN "normal"
               ELSE "merge"
    IN IF n = 0 THEN Ended[how] ELSE IF n = 1 THEN how ELSE Forked[how]

ForkDummies(S) ==
    UNION {{b \in Reads(s) : BufType(S, b) \in Forks} \X {Out[s]} : s \in S}

\* The entry of b looks forward to its only reader, or counts its readers.
LooksForward(S, b, e) ==
    CASE e.type \in Forks -> e.fwd = Cardinality(Readers(S, b))
      [] e.type \in Sinks -> e.stmt = Nil /\ e.fwd = Nil
      [] OTHER -> \E r \in Readers(S, b) : e.stmt = r /\ e.fwd = Out[r]

\* The entry of b, no merge buffer, looks back to the branch its writer reads.
LooksBack(S, b, e) ==
    IF e.type \in Sources THEN e.back = Nil
    ELSE \E w \in Writers(S, b) :
            LET i == Last(Ins[w]) IN
            e.back = IF BufType(S, i) \in Forks THEN <<i, b>> ELSE i
=============================================================================
