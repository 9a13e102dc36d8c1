------------------------------- MODULE Restart -------------------------------
(***************************************************************************)
(* Crashes and recovery.  Ios keeps what its clients declared and added in *)
(* BerkeleyDB tables and, when it starts, tells the scheduler everything   *)
(* again: tables, then streams, then queries (Ios::run, ios/ios.cc), one   *)
(* statement after the other, without ever waiting until nothing is in     *)
(* flight.  Between crashes the two processes are those of                 *)
(* CommandProtocol, with a client that waits.                              *)
(*                                                                         *)
(* The whole system may go down, at any step and also during recovery; or  *)
(* the scheduler alone dies and its parent forks it again (esl.cc) over    *)
(* the shared memory that is still there, while Ios goes on.  Tables       *)
(* without a crash inside: BerkeleyDB writes them when they are closed.    *)
(***************************************************************************)
EXTENDS CommandProtocol

CONSTANT MaxCrashes   \* bound on the number of crashes

\* Records carry ids made from the time: no two statements share one.
ASSUME RestartAssumption ==
    /\ MaxCrashes \in Nat
    /\ Query \cap Stream = {} /\ Query \cap Table = {} /\ Stream \cap Table = {}

VARIABLES
    disk,       \* DECLARES_TABLENAME and QUERIES_TABLENAME: the names in them
    ghosts,     \* records of deleted streams that are still there
    recovering, \* Ios is in front of its main loop
    todo,       \* the records it has not read yet
    refused,    \* history: what recovery read and gave up for a reason
    apart,      \* history: the scheduler alone has been restarted
    cut,        \* history: that happened while Ios was waiting for it
    crashes     \* history: number of crashes

past == <<refused, apart, cut, crashes>>
rvars == <<vars, disk, ghosts, recovering, todo, past>>

RInit ==
    /\ Init
    /\ disk = {} /\ ghosts = {} /\ recovering = FALSE /\ todo = {} /\ refused = {}
    /\ apart = FALSE /\ cut = FALSE /\ crashes = 0

-----------------------------------------------------------------------------
(* Between crashes                                                          *)

\* activeDeclareModules and activeQueryModules.
InMemory == known \cup ToSet(streams) \cup ToSet(tables)

\* Mutant: a module is added in memory only.
SavedNever == UNCHANGED <<disk, ghosts>>

\* addModule and removing a module or a statement change memory and table.
Saved ==
    /\ disk' = (disk \ (InMemory \ InMemory')) \cup (InMemory' \ InMemory)
    /\ UNCHANGED ghosts

\* processDeleteDeclareCommand frees the statement before it looks for the
\* record under the statement's id; what it finds in freed memory may match no
\* record.  The declaration's file is removed all the same.
Outlived ==
    /\ ipc = "undeclare" /\ streams' # streams
    /\ ghosts' = ghosts \cup {arg}
    /\ UNCHANGED disk

\* Names made from the time are in no table; streams and tables that recovery
\* could not compile are not declared a second time.
NewName == ipc' \in {"query", "table", "stream"} => arg' \notin disk

RAsks == /\ ~recovering /\ Client /\ NewName /\ (Saved \/ Outlived)
        /\ UNCHANGED <<recovering, todo, past>>

RWorks == /\ ~recovering /\ Ios /\ (Saved \/ Outlived)
         /\ UNCHANGED <<recovering, todo, past>>

RSchedules == Scheduler /\ UNCHANGED <<disk, ghosts, recovering, todo, past>>

-----------------------------------------------------------------------------
(* Recovery                                                                 *)

\* Mutant: queries are read before the streams they use.
PhaseSwapped(x) == IF x \in Table THEN 1 ELSE IF x \in Stream THEN 3 ELSE 2

\* Ios::run reads tables, then streams, then queries.
Phase(x) == IF x \in Table THEN 1 ELSE IF x \in Stream THEN 2 ELSE 3

Kind(x) == CASE x \in Table -> "table" [] x \in Stream -> "stream"
             [] x \in Query -> "query"

\* The next record: its statement is sent to the scheduler.  Ios does not get
\* over a record whose file is gone: fopen returns NULL and fread dies.
RecoverNext(x) ==
    /\ recovering /\ ipc = "clear"
    /\ x \in todo /\ \A y \in todo : Phase(x) <= Phase(y)
    /\ x \notin ghosts
    /\ todo' = todo \ {x}
    /\ Sends(Kind(x), x, IF x \in Query THEN ADD_QUERY ELSE ADD_DECLARE)
    /\ UNCHANGED <<batch, known, isActive, streams, tables, connected, schVars,
                   bufs, misread, lost, disk, ghosts, recovering, past>>

\* A table ends with the compiler's verdict, as when a client declares it.
RecoverTable ==
    /\ recovering /\ TableLoop
    /\ refused' = IF ipc' = "clear" /\ tables' = tables
                    THEN refused \cup {arg} ELSE refused
    /\ UNCHANGED <<schVars, pend, bufs, smine, lost, disk, ghosts, recovering, todo,
                   apart, cut, crashes>>

\* Mutant: the name of the added buffer is not sent back.
RecoverStreamSilent == \E m \in ToSet(ioBuf) :
    /\ recovering
    /\ \/ /\ Sees("stream", m) /\ m.code \in {COMPILE_FAILURE, COMPILE_SUCCESS}
          /\ Reply(m)
          /\ ipc' = "clear"
          /\ streams' = IF m.code = COMPILE_SUCCESS THEN Append(streams, arg)
                                                    ELSE streams
          /\ refused' = IF m.code = COMPILE_FAILURE THEN refused \cup {arg}
                                                    ELSE refused
          /\ UNCHANGED <<qBuf, arg, got, batch, known, isActive, tables,
                         connected>>
       \/ /\ Other("stream", m, {COMPILE_FAILURE, COMPILE_SUCCESS})
          /\ UNCHANGED refused
    /\ UNCHANGED <<schVars, pend, bufs, smine, lost, disk, ghosts, recovering, todo,
                   apart, cut, crashes>>

\* So does a stream, unlike one that a client declares; and if it is refused
\* after its buffer was added, nothing is undone.
RecoverStream == \E m \in ToSet(ioBuf) :
    /\ recovering
    /\ \/ /\ Sees("stream", m) /\ m.code \in {COMPILE_FAILURE, COMPILE_SUCCESS}
          /\ Reply(m)
          /\ ipc' = "clear"
          /\ streams' = IF m.code = COMPILE_SUCCESS THEN Append(streams, arg)
                                                    ELSE streams
          /\ refused' = IF m.code = COMPILE_FAILURE THEN refused \cup {arg}
                                                    ELSE refused
          /\ qBuf' = IF got THEN qBuf ELSE Append(qBuf, Msg(m.code, None))
          /\ UNCHANGED <<arg, got, batch, known, isActive, tables, connected>>
       \/ /\ m.code = ADDED_STREAM_BUFFER /\ Forward("stream", m)
          /\ UNCHANGED refused
       \/ /\ Other("stream", m, {COMPILE_FAILURE, COMPILE_SUCCESS,
                                 ADDED_STREAM_BUFFER})
          /\ UNCHANGED refused
    /\ UNCHANGED <<schVars, pend, bufs, smine, lost, disk, ghosts, recovering, todo,
                   apart, cut, crashes>>

\* Mutant: the scheduler's verdicts are taken for the compiler's.
RecoverQueryAny == \E m \in ToSet(ioBuf) :
    /\ recovering
    /\ Sees("query", m)
    /\ m.code \in {COMPILE_SUCCESS, COMPILE_FAILURE, COMMAND_SUCCESSFUL,
                   COMMAND_FAILED}
    /\ Reply(m)
    /\ ipc' = "clear"
    /\ known' = IF m.code \in {COMPILE_SUCCESS, COMMAND_SUCCESSFUL}
                  THEN known \cup {arg} ELSE known
    /\ UNCHANGED <<qBuf, arg, got, batch, isActive, streams, tables, connected,
                   schVars, pend, bufs, smine, lost, disk, ghosts, recovering,
                   todo, past>>

\* Mutant: a query of a user who has become private stays in the scheduler.
RecoverQueryKeeps == \E m \in ToSet(ioBuf) :
    /\ recovering
    /\ \/ /\ Sees("query", m) /\ m.code \in {COMPILE_SUCCESS, COMPILE_FAILURE}
          /\ Reply(m)
          /\ ipc' = "clear"
          /\ \/ m.code = COMPILE_SUCCESS /\ known' = known \cup {arg}
             \/ UNCHANGED known
          /\ UNCHANGED <<qBuf, arg, got, batch, isActive, streams, tables,
                         connected>>
       \/ Other("query", m, {COMPILE_SUCCESS, COMPILE_FAILURE})
    /\ UNCHANGED <<schVars, pend, bufs, smine, lost, disk, ghosts, recovering,
                   todo, past>>

\* History: query arg failed although its stream is declared, or the stream has
\* no record any more or was itself refused.
Justified == Compiles(arg) \/ Reads[arg] \in refused \/ Reads[arg] \notin disk

\* A query is inactive after recovery.  One that draws on objects of a user who
\* has become private since it was added is dropped again.  A query that cannot
\* be compiled is passed over and keeps its record.
RecoverQuery == \E m \in ToSet(ioBuf) :
    /\ recovering
    /\ \/ /\ Sees("query", m) /\ m.code = COMPILE_SUCCESS
          /\ Reply(m)
          /\ ipc' = "clear"
          /\ \/ known' = known \cup {arg} /\ UNCHANGED <<qBuf, refused>>
             \/ /\ qBuf' = Append(qBuf, Msg(DROP_QUERY, arg))
                /\ refused' = refused \cup {arg} /\ UNCHANGED known
          /\ UNCHANGED <<arg, got, batch, isActive, streams, tables, connected>>
       \/ /\ Sees("query", m) /\ m.code = COMPILE_FAILURE
          /\ Reply(m)
          /\ ipc' = "clear"
          /\ refused' = refused \cup (IF Justified THEN {arg} ELSE {})
          /\ UNCHANGED <<qBuf, arg, got, batch, known, isActive, streams,
                         tables, connected>>
       \/ /\ Other("query", m, {COMPILE_SUCCESS, COMPILE_FAILURE})
          /\ UNCHANGED refused
    /\ UNCHANGED <<schVars, pend, bufs, smine, lost, disk, ghosts, recovering,
                   todo, apart, cut, crashes>>

\* Everything was read; Ios enters its main loop.
Recovered ==
    /\ recovering /\ ipc = "clear" /\ todo = {}
    /\ recovering' = FALSE /\ ipc' = "ready"
    /\ UNCHANGED <<qBuf, ioBuf, arg, got, batch, known, isActive, streams,
                   tables, connected, schVars, pend, bufs, smine, misread, lost,
                   disk, ghosts, todo, past>>

Recovers ==
    \/ \E x \in todo : RecoverNext(x)
    \/ RecoverTable \/ RecoverStream \/ RecoverQuery \/ Recovered

-----------------------------------------------------------------------------
(* Crashes                                                                  *)

\* Everything goes down and is started again: main makes new shared memory, and
\* Ios::init empties tables.dcl and system.dcl.
SystemCrash ==
    /\ crashes < MaxCrashes /\ crashes' = crashes + 1
    /\ qBuf' = << >> /\ ioBuf' = << >> /\ pend' = << >>
    /\ ipc' = "clear" /\ arg' = None /\ got' = FALSE /\ batch' = << >>
    /\ known' = {} /\ isActive' = {} /\ streams' = << >> /\ tables' = << >>
    /\ connected' = {} /\ bufs' = {}
    /\ spc' = "main" /\ freeStmts' = {} /\ invalid' = {} /\ active' = {}
    /\ smine' = FALSE /\ misread' = FALSE /\ lost' = FALSE
    /\ recovering' = TRUE /\ todo' = disk
    /\ refused' = {} /\ apart' = FALSE /\ cut' = FALSE
    /\ UNCHANGED <<disk, ghosts>>

\* The buffers a compilation that is cut short has announced or is about to
\* announce, but has not created: the one it stopped at may be there.
Unborn(p) == {m.arg : m \in {x \in ToSet(p) : x.code = ADDED_STREAM_BUFFER}}
Creating(p) == IF p # << >> /\ Head(p).code = CONNECT_IOMODULE
                 THEN {{}, {Head(p).arg}} ELSE {{}}

Waiting == recovering \/ ipc \notin {"ready", "clear", "poll"}

\* The scheduler dies, maybe with a command it has just popped, and is forked
\* again.  Shared memory stays, nobody tells Ios.
SchedulerCrash ==
    /\ crashes < MaxCrashes /\ crashes' = crashes + 1
    /\ qBuf' \in {qBuf} \cup (IF pend = << >> /\ qBuf # << >>
                             THEN {Tail(qBuf)} ELSE {})
    /\ \E b \in Creating(pend) : bufs' = bufs \ (Unborn(pend) \cup b)
    /\ connected' = connected \cap bufs'
    /\ pend' = << >> /\ spc' = "main"
    /\ freeStmts' = {} /\ invalid' = {} /\ active' = {}
    /\ apart' = TRUE /\ cut' = (cut \/ Waiting)
    /\ UNCHANGED <<ioBuf, iosVars, smine, misread, lost, disk, ghosts,
                   recovering, todo, refused>>

RNext == RAsks \/ RWorks \/ RSchedules \/ Recovers \/ SystemCrash \/ SchedulerCrash

\* Ios and the scheduler keep running, as in Modules; crashes are owed
\* by nobody.
RSpec ==
    /\ RInit /\ [][RNext]_rvars
    /\ WF_rvars(RWorks) /\ WF_rvars(Recovers) /\ WF_rvars(RSchedules)

-----------------------------------------------------------------------------
AtRest == ~recovering /\ ipc = "ready" /\ Quiet

\* The state of both processes is of its type through crashes and recovery, and
\* what Ios has in memory is in its tables.
RTypeOK ==
    /\ TypeOK
    /\ disk \subseteq Query \cup Stream \cup Table
    /\ ghosts \subseteq disk /\ todo \subseteq disk /\ refused \subseteq disk
    /\ InMemory \subseteq disk
    /\ recovering \in BOOLEAN /\ apart \in BOOLEAN /\ cut \in BOOLEAN
    /\ crashes \in 0 .. MaxCrashes

\* Neither a request nor a recovered statement takes another one's answer for
\* its own, although recovery goes on while ADD_DECLARE and DROP_QUERY have
\* answers under way; unless the scheduler died while Ios was waiting for it.
OwnReplies == cut \/ ReplyIsMine

\* After recovery Ios and the scheduler agree again: the same queries, none
\* active that Ios takes for inactive or the other way round, every stream with
\* a buffer and its source.  Only a stream that recovery gave up leaves a buffer
\* behind.
AgreeAgain ==
    AtRest /\ ~apart =>
        /\ active \cup freeStmts = known \ Unloadable
        /\ isActive = active
        /\ ToSet(streams) \subseteq bufs /\ bufs \ ToSet(streams) \subseteq refused
        /\ ToSet(streams) \subseteq connected

\* Nothing that was acknowledged is forgotten: a record is in memory when Ios is
\* in its main loop, unless recovery had a reason to give it up: the compiler
\* refused it, or it is a query whose stream had no record or was refused.
Remembered ==
    ~recovering => disk \ ghosts \subseteq InMemory \cup refused

\* Every request and every recovery ends, unless the scheduler dies while Ios is
\* waiting for it (Ios then waits for ever), or the record of a deleted stream
\* is still there.
RecoveryEnds ==
    (recovering \/ ipc # "ready") ~>
        (~recovering /\ ipc = "ready") \/ cut \/ ghosts # {}
=============================================================================
