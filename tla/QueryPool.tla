------------------------------ MODULE QueryPool -----------------------------
(***************************************************************************)
(* The life of queries in the scheduler (querySchdl.cc): the free pool of  *)
(* compiled statements and the handlers of ACTIVATE, DEACTIVATE, DROP_QUERY*)
(* and DROP_DECLARE, which move queries between the pool and the query     *)
(* graph of module DriverGraph.  A query is one statement, or a union or a *)
(* join with sub statements, or a collection (cStmt) of statements; its    *)
(* activation also activates the queries of the pool that feed it.  So one *)
(* command is many calls of DrvMgr::addStmt or dropStmt, each of which is  *)
(* an action here and can be refused: the handler then undoes the others.  *)
(*                                                                         *)
(* The messages of the handlers are module CommandProtocol's subject: here *)
(* Ios is told the outcome at once.                                        *)
(***************************************************************************)
EXTENDS DriverGraph

CONSTANTS Query,     \* queries: statements, or collections
          Parts,     \* sub_stmts of a union, a join or a collection
          CollOut,   \* the output of a collection, or Nil
          Stream,    \* the declared streams among the buffers
          Droppable, \* the streams clients drop and declare anew
          Deletable, \* the queries clients delete
          Unlucky    \* the queries whose library may fail to load

Coll == Query \ Stmt

ASSUME PoolAssumption ==
    /\ Parts \in [Stmt \cup Coll -> Seq(Stmt)]
    /\ \A s \in Stmt : Type[s] = "normal" <=> Parts[s] = << >>
    /\ CollOut \in [Coll -> Buffer \cup {Nil}]
    /\ Droppable \subseteq Stream /\ Stream \subseteq Buffer
    /\ Deletable \subseteq Query /\ Unlucky \subseteq Query
    /\ Nil \notin Query

\* What the compiler makes of a query: addSubStmt of a union and of a join adds
\* the output of the part to what is read, a join's window is named after it, and
\* so are the statements after their query.
ASSUME PartsAssumption ==
    /\ \A s \in Stmt : \A p \in ToSet(Parts[s]) : Type[p] = "normal"
    /\ \A s \in Stmt : Type[s] = "union" =>
          \A b \in Reads(s) : \E p \in ToSet(Parts[s]) : Out[p] = b
    /\ \A s \in Stmt : Type[s] = "join" =>
          \A i \in 1 .. Len(Ins[s]) - 1 :
             /\ \E p \in ToSet(Parts[s]) : Out[p] = Ins[s][i]
             /\ \A r \in Stmt : Ins[s][i] \in Reads(r) => r = s

VARIABLES
    g,        \* the query graph
    free,     \* freeStmts, in its order
    invalid,  \* statements of the pool whose `valid' is false
    stale,    \* history: compiled queries that point to a buffer since killed
    live,     \* the streams that have a buffer
    known,    \* Ios: the queries it has
    isActive, \* Ios: the queries it has as active
    pc, cmd,  \* the handler's progress, the query it works on
    work,     \* ACTIVATE: the list q
    todo,     \* the statements still to be added or dropped in this round
    added,    \* ACTIVATE: the list added
    bufs,     \* ACTIVATE: the list bufs
    before,   \* history: the graph when ACTIVATE began
    reply     \* the last verdict

vars == <<g, free, invalid, stale, live, known, isActive, pc, cmd, work, todo,
          added, bufs, before, reply>>
handler == <<pc, cmd, work, todo, added, bufs, before>>

Init ==
    /\ g = EmptyGraph /\ free = << >> /\ invalid = {} /\ stale = {}
    /\ live = Stream /\ known = {} /\ isActive = {}
    /\ pc = "idle" /\ cmd = Nil /\ work = << >> /\ todo = << >>
    /\ added = << >> /\ bufs = {} /\ before = Nil /\ reply = Nil

\* The statements a query puts into the driver.
PartsOf(s) == IF s \in Stmt THEN ToSet(Parts[s]) \cup {s} ELSE {}
Members(q) ==
    IF q \in Stmt THEN PartsOf(q) ELSE UNION {PartsOf(s) : s \in ToSet(Parts[q])}

\* The streams a query was compiled against.
Uses(q) == Stream \cap UNION {Reads(s) \cup {Out[s]} : s \in Members(q)}

\* The streams the code looks for in a statement of the pool.  In a collection
\* it looks at inputs and at the output of unions only.
Watched(q) ==
    IF q \in Stmt THEN Uses(q)
    ELSE Stream \cap UNION {Reads(s) \cup (IF Type[s] = "union" THEN {Out[s]} ELSE {})
                              : s \in Members(q)}

Compiles(q) == Uses(q) \subseteq live

-----------------------------------------------------------------------------
(* Adding queries, dropping and declaring streams                           *)

\* ADD_QUERY.  Ios has the query although its library may not have been loaded.
AddQuery(q) ==
    /\ pc = "idle" /\ q \notin known /\ q \notin ToSet(free)
    /\ Members(q) \cap g.stmts = {}
    /\ Compiles(q)
    /\ known' = known \cup {q}
    /\ \/ free' = Append(free, q)
       \/ q \in Unlucky /\ UNCHANGED free
    /\ UNCHANGED <<g, invalid, stale, live, isActive, handler, reply>>

\* Mutant: statements of the pool are not looked at.
DropDeclareBlind(x) ==
    /\ pc = "idle" /\ x \in live \cap Droppable
    /\ IF x \in g.map
         THEN reply' = FALSE /\ UNCHANGED <<live, invalid, stale>>
         ELSE /\ reply' = TRUE
              /\ live' = live \ {x}
              /\ stale' = stale \cup {q \in ToSet(free) : x \in Uses(q)}
              /\ UNCHANGED invalid
    /\ UNCHANGED <<g, free, known, isActive, handler>>

\* DROP_DECLARE is refused while bufferInUse; statements of the pool become
\* invalid, the query's own statement, not its parts.
DropDeclare(x) ==
    /\ pc = "idle" /\ x \in live \cap Droppable
    /\ IF x \in g.map
         THEN reply' = FALSE /\ UNCHANGED <<live, invalid, stale>>
         ELSE /\ reply' = TRUE
              /\ live' = live \ {x}
              /\ invalid' = invalid \cup {q \in ToSet(free) : x \in Watched(q)}
              /\ stale' = stale \cup {q \in ToSet(free) : x \in Uses(q)}
    /\ UNCHANGED <<g, free, known, isActive, handler>>

\* ADD_DECLARE: the statements of the pool that use the stream are compiled
\* again and move to the end of the pool; if one does not compile nothing
\* changes and Ios drops the stream again.
Declare(x) ==
    LET users == {q \in ToSet(free) : x \in Watched(q)}
        ok == \A q \in users : Uses(q) \subseteq live \cup {x}
    IN
    /\ pc = "idle" /\ x \in Droppable \ live
    /\ reply' = ok
    /\ IF ok
         THEN /\ live' = live \cup {x}
              /\ free' = Without(free, users) \o Only(free, users)
              /\ invalid' = invalid \ users
              /\ stale' = stale \ users
         ELSE UNCHANGED <<live, free, invalid, stale>>
    /\ UNCHANGED <<g, known, isActive, handler>>

-----------------------------------------------------------------------------
(* ACTIVATE_QUERY                                                           *)

\* A call of dm->addStmt: s is recorded in `added' as `as'; its failure is an
\* error, but for a union in a collection.  Parts note what they read.
Job(s, as, must, note) == [stmt |-> s, as |-> as, must |-> must, note |-> note]
PartJobs(s) == [i \in DOMAIN Parts[s] |->
                  Job(Parts[s][i], Parts[s][i], TRUE, Reads(Parts[s][i]))]

\* Mutant: the union in a collection is not added itself.
JobsNoUnion(s) ==
    IF s \in Stmt
      THEN Append(PartJobs(s), Job(s, s, TRUE, IF Type[s] = "normal" THEN Reads(s) ELSE {}))
      ELSE FlattenSeq([i \in DOMAIN Parts[s] |->
             LET p == Parts[s][i] IN
             IF Type[p] = "union" THEN PartJobs(p)
               ELSE <<Job(p, p, TRUE, {Last(Ins[p])})>>])

\* The calls for one statement of the list q.
Jobs(s) ==
    IF s \in Stmt
      THEN Append(PartJobs(s), Job(s, s, TRUE, IF Type[s] = "normal" THEN Reads(s) ELSE {}))
      ELSE FlattenSeq([i \in DOMAIN Parts[s] |->
             LET p == Parts[s][i] IN
             IF Type[p] = "union"
               THEN Append(PartJobs(p), Job(p, s, FALSE, {}))
               ELSE <<Job(p, p, TRUE, {Last(Ins[p])})>>])

\* A statement that is not in the pool is compiled, and is then valid.
Activate(q) ==
    /\ pc = "idle" /\ q \in known \ isActive
    /\ \/ /\ q \in ToSet(free) \/ Compiles(q)
          /\ pc' = "next" /\ cmd' = q /\ work' = <<q>>
          /\ before' = g
          /\ UNCHANGED reply
       \/ /\ q \notin ToSet(free)
          /\ reply' = FALSE
          /\ UNCHANGED <<pc, cmd, work, before>>
    /\ UNCHANGED <<g, free, invalid, stale, live, known, isActive, todo, added,
                   bufs>>

\* s3 = q.back()
TakeStmt ==
    /\ pc = "next" /\ work # << >>
    /\ work' = Front(work)
    /\ todo' = Jobs(Last(work))
    /\ added' = IF Last(work) \in Coll THEN Append(added, Last(work)) ELSE added
    /\ pc' = "add"
    /\ UNCHANGED <<g, free, invalid, stale, live, known, isActive, cmd, bufs,
                   before, reply>>

AddOne ==
    LET job == Head(todo)
        r == AddStmt(g, job.stmt, job.stmt \notin invalid)
    IN
    /\ pc = "add" /\ todo # << >>
    /\ g' = r.g
    /\ IF r.ok
         THEN /\ added' = Append(added, job.as)
              /\ bufs' = bufs \cup job.note
         ELSE UNCHANGED <<added, bufs>>
    /\ IF r.ok \/ ~job.must
         THEN todo' = Tail(todo) /\ UNCHANGED pc
         ELSE todo' = << >> /\ pc' = "undo"
    /\ UNCHANGED <<free, invalid, stale, live, known, isActive, cmd, work,
                   before, reply>>

OutOf(q) == IF q \in Stmt THEN Out[q] ELSE CollOut[q]

\* The statements of the pool before the first one that was added: `found' is
\* never reset, so the search ends there.
Searched ==
    LET at == {i \in DOMAIN free : free[i] \in ToSet(added)} IN
    IF at = {} THEN free
    ELSE SubSeq(free, 1, (CHOOSE i \in at : \A j \in at : i <= j) - 1)

\* "now go through the free pool, look for upstream stmts"
Search ==
    /\ pc = "add" /\ todo = << >>
    /\ work' = work \o Only(Searched, {q \in ToSet(free) : OutOf(q) \in bufs})
    /\ pc' = "next"
    /\ UNCHANGED <<g, free, invalid, stale, live, known, isActive, cmd, todo,
                   added, bufs, before, reply>>

Ends(ok) ==
    /\ pc' = "idle" /\ cmd' = Nil /\ added' = << >> /\ bufs' = {}
    /\ work' = << >> /\ before' = Nil /\ reply' = ok
    /\ UNCHANGED todo

\* Ios is told of every statement that was activated.
Activated ==
    /\ pc = "next" /\ work = << >>
    /\ free' = Without(free, ToSet(added))
    /\ isActive' = isActive \cup (known \cap (ToSet(added) \cup {cmd}))
    /\ Ends(TRUE)
    /\ UNCHANGED <<g, invalid, stale, live, known>>

\* Mutant: the last statement that was added stays.
UndoAllButOne ==
    /\ pc = "undo"
    /\ IF Len(added) <= 1 THEN Ends(FALSE) /\ UNCHANGED g
       ELSE /\ g' = DropStmt(g, Head(added)).g
            /\ added' = Tail(added)
            /\ UNCHANGED <<pc, cmd, work, todo, bufs, before, reply>>
    /\ UNCHANGED <<free, invalid, stale, live, known, isActive>>

\* "need to undo the partial adds, before return error"
Undo ==
    /\ pc = "undo"
    /\ IF added = << >> THEN Ends(FALSE) /\ UNCHANGED g
       ELSE /\ g' = DropStmt(g, Head(added)).g
            /\ added' = Tail(added)
            /\ UNCHANGED <<pc, cmd, work, todo, bufs, before, reply>>
    /\ UNCHANGED <<free, invalid, stale, live, known, isActive>>

-----------------------------------------------------------------------------
(* DEACTIVATE_QUERY and DROP_QUERY                                          *)

\* getStmtByName finds a query only if its own statement is in a driver.
Deactivate(q) ==
    /\ pc = "idle" /\ q \in isActive
    /\ IF q \in g.stmts
         THEN /\ pc' = "deactivate" /\ cmd' = q
              /\ todo' = Append(Parts[q], q)
              /\ UNCHANGED reply
         ELSE reply' = FALSE /\ UNCHANGED <<pc, cmd, todo>>
    /\ UNCHANGED <<g, free, invalid, stale, live, known, isActive, work, added,
                   bufs, before>>

\* Ios forgets the query before the scheduler has dropped it.
DropQuery(q) ==
    /\ pc = "idle" /\ q \in known \cap Deletable
    /\ known' = known \ {q} /\ isActive' = isActive \ {q}
    /\ IF q \in ToSet(free)
         THEN /\ free' = Without(free, {q})
              /\ reply' = TRUE
              /\ UNCHANGED <<pc, cmd, todo>>
       ELSE IF q \in g.stmts
         THEN /\ pc' = "drop" /\ cmd' = q
              /\ todo' = Append(Parts[q], q)
              /\ UNCHANGED <<free, reply>>
         ELSE reply' = FALSE /\ UNCHANGED <<free, pc, cmd, todo>>
    /\ invalid' = invalid \ {q} /\ stale' = stale \ {q}
    /\ UNCHANGED <<g, live, work, added, bufs, before>>

\* A statement is always found where it belongs (DropsSucceed): the code's way
\* back, adding the dropped ones again, is never taken.
DropOne ==
    /\ pc \in {"deactivate", "drop"} /\ todo # << >>
    /\ DropStmt(g, Head(todo)).ok
    /\ g' = DropStmt(g, Head(todo)).g
    /\ todo' = Tail(todo)
    /\ UNCHANGED <<free, invalid, stale, live, known, isActive, pc, cmd, work,
                   added, bufs, before, reply>>

Deactivated ==
    /\ pc = "deactivate" /\ todo = << >>
    /\ free' = Append(free, cmd)
    /\ isActive' = isActive \ {cmd}
    /\ Ends(TRUE)
    /\ UNCHANGED <<g, invalid, stale, live, known>>

Dropped ==
    /\ pc = "drop" /\ todo = << >>
    /\ Ends(TRUE)
    /\ UNCHANGED <<g, free, invalid, stale, live, known, isActive>>

-----------------------------------------------------------------------------
Next ==
    \/ \E q \in Query : \/ AddQuery(q) \/ Activate(q)
                        \/ Deactivate(q) \/ DropQuery(q)
    \/ \E x \in Stream : DropDeclare(x) \/ Declare(x)
    \/ TakeStmt \/ AddOne \/ Search \/ Activated \/ Undo
    \/ DropOne \/ Deactivated \/ Dropped

Spec == Init /\ [][Next]_vars

-----------------------------------------------------------------------------
\* After any sequence of addStmt and dropStmt, refused ones included, the table
\* the driver runs on is the one the set of its statements calls for: the
\* buffers and their types, fork counts and dummies, what they lead to and, but
\* for merge buffers (Rest of DriverGraph overwrites it), what they look back to.
TableExact ==
    LET S == g.stmts IN
    /\ DOMAIN g.tab = Used(S)
    /\ \A b \in DOMAIN g.tab : /\ g.tab[b].type = BufType(S, b)
                               /\ LooksForward(S, b, g.tab[b])
                               /\ \/ g.tab[b].type \in Merges
                                  \/ LooksBack(S, b, g.tab[b])
    /\ DOMAIN g.dummies = ForkDummies(S)
    /\ \A d \in DOMAIN g.dummies : d[1] \in Reads(g.dummies[d])
                                   /\ d[2] = Out[g.dummies[d]]
                                   /\ g.dummies[d] \in S

\* DrvMgr::bufferInUse, which protects a stream from DROP_DECLARE, knows exactly
\* the buffers of the driver: none is killed in use, none is kept for ever.
MapExact == g.map = DOMAIN g.tab

\* dropStmt finds every statement of a query where it expects it, whatever was
\* activated, refused and deactivated before ("wrong buffer state type").
DropsSucceed ==
    /\ pc \in {"deactivate", "drop"} /\ todo # << >> => ~Misplaced(g, Head(todo))
    /\ pc = "undo" /\ added # << >> /\ Head(added) \in g.stmts
         => ~Misplaced(g, Head(added))

\* Between commands a query is in the driver with all its statements, if Ios has
\* it as active, or with none of them; then it may be in the pool, once.
WholeQueries ==
    pc = "idle" =>
      /\ \A q \in Query : IF q \in isActive THEN Members(q) \subseteq g.stmts
                         ELSE Members(q) \cap g.stmts = {}
      /\ IsInjective(free) /\ ToSet(free) \subseteq known \ isActive

\* The graph but for what merge buffers look back to.
Apart(h) == [h EXCEPT !.tab = [b \in DOMAIN @ |->
               IF @[b].type \in Merges THEN [@[b] EXCEPT !.back = Nil] ELSE @[b]]]

\* An activation that is refused leaves the graph as it was ("need to undo the
\* partial adds, before return error").
RefusedUndone ==
    [][pc = "undo" /\ pc' = "idle" => Apart(g') = Apart(before)]_vars

\* No query in the driver points to a buffer that was killed ("the statement
\* might not be valid").
NoDeadBuffer ==
    pc = "idle" => \A q \in stale : Members(q) \cap g.stmts = {}
=============================================================================
