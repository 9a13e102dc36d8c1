--------------------------- MODULE CommandProtocol --------------------------
(***************************************************************************)
(* The conversation between the I/O scheduler (Ios, esl/ios/ios.cc) and    *)
(* the query scheduler (querySchdl, esl/querySchdl.cc).  They are two      *)
(* processes; Ios puts commands on "_queryBuffer" and polls "_ioBuffer"    *)
(* for the reply.  A message carries a code and a name but no request      *)
(* number, the codes of commands and replies overlap, some commands are    *)
(* answered twice and some answers are never waited for.                   *)
(*                                                                         *)
(* Both buffers are the FIFO queues of module Fifo (see SharedBuf).  The   *)
(* handler of a command decides its outcome when it takes the command and  *)
(* then puts its messages one by one (`pend`).  The ESL compiler is an     *)
(* oracle: it may fail at any point of the declarations it processes.      *)
(* Requests of one statement; several for AddQueries.  Requests about a    *)
(* whole module, and fairness, are in module Modules.                      *)
(***************************************************************************)
EXTENDS Naturals, Sequences, FiniteSets, SequencesExt

CONSTANTS Query,     \* query statements
          Stream,    \* streams, each with a source (an I/O module)
          Table,     \* tables
          Reads,     \* Reads[q]: the stream query q reads
          Private,   \* the queries that use objects of a private user
          Unloadable,\* the queries whose compiled library cannot be loaded
          None,      \* the empty name
          Kinds,     \* the requests the client makes
          Paced,     \* does the client wait until nothing is in flight?
          Again,     \* streams the client may declare although they exist
          MaxFlight  \* bound on the messages in flight when a request starts

ASSUME CommandAssumption ==
    /\ IsFiniteSet(Query)
    /\ Reads \in [Query -> Stream]
    /\ Private \subseteq Query
    /\ Unloadable \subseteq Query
    /\ None \notin Query \cup Stream \cup Table
    /\ Paced \in BOOLEAN
    /\ Again \subseteq Stream
    /\ MaxFlight \in Nat

\* Replies (ios.h); SUCCESS and FAILURE are basic.h's.
SUCCESS == 0
FAILURE == 1
CONNECT_IOMODULE == 2
COMPILE_SUCCESS == 4
COMPILE_FAILURE == 5
COMMAND_FAILED == 6
COMMAND_SUCCESSFUL == 7
USES_LIBRARY == 8
ACTIVATED_QUERY == 9
ADDED_BUFFER == 20
ADDED_STREAM_BUFFER == 21
\* Commands.
ADD_QUERY == 1
ACTIVATE_QUERY == 2
ADD_DECLARE == 3
DEACTIVATE_QUERY == 4
DROP_QUERY == 5
DROP_DECLARE == 6
GET_COMPONENTS == 9

VARIABLES
    qBuf, ioBuf,   \* "_queryBuffer" and "_ioBuffer"
    ipc, arg, got, \* Ios: where it is, the statement, gotAddedBuffer or
                   \* accessingPrivateUser
    batch,         \* Ios: the statements generateStatements has added so far
    known,         \* Ios: activeQueryModules
    isActive,      \* Ios: the statements with isActive = 1
    streams,       \* Ios: streams of activeDeclareModules (system.dcl)
    tables,        \* Ios: tables of activeDeclareModules (tables.dcl)
    connected,     \* streams whose live buffer an I/O module writes to
    spc,           \* scheduler: "main", or "wait" inside ADD_DECLARE
    pend,          \* scheduler: messages its handler still has to put
    freeStmts,     \* scheduler: the statements of the free pool
    invalid,       \* scheduler: statements with valid = false
    active,        \* scheduler: statements in a driver
    bufs,          \* streams that have a buffer
    smine,         \* history: the scheduler works on the last command sent
    misread,       \* history: Ios took another command's message for its reply
    lost           \* history: ADD_DECLARE swallowed a command

iosVars == <<ipc, arg, got, batch, known, isActive, streams, tables>>
schVars == <<spc, freeStmts, invalid, active>>
vars == <<qBuf, ioBuf, ipc, arg, got, batch, known, isActive, streams, tables,
          connected, spc, pend, freeStmts, invalid, active, bufs, smine,
          misread, lost>>

\* `mine` is history: the message belongs to the conversation Ios is in.
Msg(code, name) == [code |-> code, arg |-> name, mine |-> TRUE]
Stale(s) == [i \in DOMAIN s |-> [s[i] EXCEPT !.mine = FALSE]]

Quiet == qBuf = << >> /\ ioBuf = << >> /\ pend = << >> /\ spc = "main"

Init ==
    /\ qBuf = << >> /\ ioBuf = << >>
    /\ ipc = "ready" /\ arg = None /\ got = FALSE /\ batch = << >>
    /\ known = {} /\ isActive = {}
    /\ streams = << >> /\ tables = << >> /\ connected = {}
    /\ spc = "main" /\ pend = << >>
    /\ freeStmts = {} /\ invalid = {} /\ active = {} /\ bufs = {}
    /\ smine = FALSE /\ misread = FALSE /\ lost = FALSE

-----------------------------------------------------------------------------
(* Ios: the main loop                                                       *)

\* pollStdoutMessageBuffer: takes one message; only CONNECT_IOMODULE, for a
\* buffer that exists, has an effect here.
Polled(m) ==
    connected' = IF m.code = CONNECT_IOMODULE /\ m.arg \in bufs
                   THEN connected \cup {m.arg} ELSE connected

\* The end of a request: Ios::run goes on to clear _ioBuffer.
NoRequest ==
    /\ ipc = "ready"
    /\ ipc' = "clear"
    /\ UNCHANGED <<qBuf, ioBuf, arg, got, batch, known, isActive, streams,
                   tables, connected, schVars, pend, bufs, smine, misread, lost>>

\* "just clearing the iobuff incase there are leftover messages"
ClearOne ==
    /\ ipc = "clear" /\ ioBuf # << >>
    /\ ioBuf' = Tail(ioBuf)
    /\ UNCHANGED <<qBuf, iosVars, connected, schVars, pend, bufs, smine,
                   misread, lost>>

ClearDone ==
    /\ ipc = "clear" /\ ioBuf = << >>
    /\ ipc' = "poll"
    /\ UNCHANGED <<qBuf, ioBuf, arg, got, batch, known, isActive, streams,
                   tables, connected, schVars, pend, bufs, smine, misread, lost>>

PollStdout ==
    /\ ipc = "poll"
    /\ ipc' = "ready"
    /\ IF ioBuf = << >>
         THEN UNCHANGED <<ioBuf, connected>>
         ELSE ioBuf' = Tail(ioBuf) /\ Polled(Head(ioBuf))
    /\ UNCHANGED <<qBuf, arg, got, batch, known, isActive, streams, tables,
                   schVars, pend, bufs, smine, misread, lost>>

-----------------------------------------------------------------------------
(* Ios: the requests                                                        *)

InFlight == Len(qBuf) + Len(ioBuf) + Len(pend)

\* A conversation of kind k about x starts with command code; everything that
\* is still in flight belongs to an earlier one.
Sends(k, x, code) ==
    /\ ipc' = k /\ arg' = x /\ got' = FALSE
    /\ qBuf' = Append(Stale(qBuf), Msg(code, x))
    /\ ioBuf' = Stale(ioBuf)
    /\ pend' = Stale(pend)
    /\ smine' = FALSE

\* The client asks for it.
Start(k, x, code) == k \in Kinds /\ Sends(k, x, code)

MayStart ==
    /\ ipc = "ready"
    /\ Paced => Quiet
    /\ InFlight <= MaxFlight

\* Names of statements are made from the time: a new one is in use nowhere.
Fresh(q) ==
    /\ q \notin known \cup active \cup ToSet(batch) \cup freeStmts
    /\ \A m \in ToSet(qBuf) : m.arg # q

AddQueries(q) ==
    /\ MayStart \/ ipc = "more"
    /\ Fresh(q)
    /\ Start("query", q, ADD_QUERY)
    /\ UNCHANGED <<batch, known, isActive, streams, tables, connected,
                   schVars, bufs, misread, lost>>

ActivateQuery(q) ==
    /\ MayStart
    /\ q \in known \ isActive
    /\ Start("activate", q, ACTIVATE_QUERY)
    /\ UNCHANGED <<batch, known, isActive, streams, tables, connected,
                   schVars, bufs, misread, lost>>

DeactivateQuery(q) ==
    /\ MayStart
    /\ q \in known \cap isActive
    /\ Start("deactivate", q, DEACTIVATE_QUERY)
    /\ UNCHANGED <<batch, known, isActive, streams, tables, connected,
                   schVars, bufs, misread, lost>>

\* DROP_QUERY is answered, but nobody waits for the answer.
DeleteQuery(q) ==
    /\ MayStart
    /\ q \in known
    /\ "delete" \in Kinds
    /\ qBuf' = Append(Stale(qBuf), Msg(DROP_QUERY, q))
    /\ ioBuf' = Stale(ioBuf) /\ pend' = Stale(pend) /\ smine' = FALSE
    /\ known' = known \ {q} /\ isActive' = isActive \ {q}
    /\ ipc' = "clear"
    /\ UNCHANGED <<arg, got, batch, streams, tables, connected, schVars, bufs,
                   misread, lost>>

AddTable(t) ==
    /\ MayStart
    /\ t \notin ToSet(tables)
    /\ Start("table", t, ADD_DECLARE)
    /\ UNCHANGED <<batch, known, isActive, streams, tables, connected,
                   schVars, bufs, misread, lost>>

AddStream(s) ==
    /\ MayStart
    /\ s \notin ToSet(streams) \/ s \in Again
    /\ Start("stream", s, ADD_DECLARE)
    /\ UNCHANGED <<batch, known, isActive, streams, tables, connected,
                   schVars, bufs, misread, lost>>

DeleteStream(s) ==
    /\ MayStart
    /\ s \in ToSet(streams)
    /\ Start("undeclare", s, DROP_DECLARE)
    /\ UNCHANGED <<batch, known, isActive, streams, tables, connected,
                   schVars, bufs, misread, lost>>

ViewComponents ==
    /\ MayStart
    /\ Start("components", None, GET_COMPONENTS)
    /\ UNCHANGED <<batch, known, isActive, streams, tables, connected,
                   schVars, bufs, misread, lost>>

-----------------------------------------------------------------------------
(* Ios: waiting for the reply                                               *)

\* A pass of a waiting loop that sees a message m at the head of _ioBuffer.
Sees(k, m) == ipc = k /\ ioBuf # << >> /\ m = Head(ioBuf)

\* The conversation ends with m as its reply.
Reply(m) == ioBuf' = Tail(ioBuf) /\ misread' = (misread \/ ~m.mine)

\* Mutant: pollStdoutMessageBuffer does not pop.
OtherNoPop(k, m, codes) ==
    /\ Sees(k, m) /\ m.code \notin codes
    /\ Polled(m)
    /\ UNCHANGED <<qBuf, ioBuf, iosVars, misread>>

\* A message that is not what the loop looks for goes to pollStdoutMessageBuffer.
Other(k, m, codes) ==
    /\ Sees(k, m) /\ m.code \notin codes
    /\ ioBuf' = Tail(ioBuf)
    /\ Polled(m)
    /\ UNCHANGED <<qBuf, iosVars, misread>>

\* The name of an added buffer is sent back to the scheduler.
Forward(k, m) ==
    /\ Sees(k, m)
    /\ ioBuf' = Tail(ioBuf)
    /\ qBuf' = Append(qBuf, Msg(ADDED_BUFFER, m.arg))
    /\ got' = (k # "query" \/ got)
    /\ UNCHANGED <<ipc, arg, batch, known, isActive, streams, tables,
                   connected, misread>>

\* generateStatements, QUERY_STMT: one statement.  A query of a private user is
\* dropped again; after an error the statements added before it are dropped too.
QueryLoop == \E m \in ToSet(ioBuf) :
    \/ /\ Sees("query", m) /\ m.code = COMPILE_SUCCESS
       /\ Reply(m)
       /\ IF got
            THEN /\ qBuf' = Append(qBuf, Msg(DROP_QUERY, arg))
                 /\ ipc' = "rollback" /\ UNCHANGED batch
            ELSE /\ batch' = Append(batch, arg)
                 /\ ipc' = "more" /\ UNCHANGED qBuf
       /\ UNCHANGED <<arg, got, known, isActive, streams, tables, connected>>
    \/ /\ Sees("query", m) /\ m.code = COMPILE_FAILURE
       /\ Reply(m)
       /\ ipc' = "rollback"
       /\ UNCHANGED <<qBuf, arg, got, batch, known, isActive, streams, tables,
                      connected>>
    \/ /\ Sees("query", m) /\ m.code = USES_LIBRARY
       /\ ioBuf' = Tail(ioBuf)
       /\ got' = TRUE
       /\ UNCHANGED <<qBuf, ipc, arg, batch, known, isActive, streams, tables,
                      connected, misread>>
    \/ m.code = ADDED_STREAM_BUFFER /\ Forward("query", m)
    \/ Other("query", m, {COMPILE_SUCCESS, COMPILE_FAILURE, USES_LIBRARY,
                          ADDED_STREAM_BUFFER})

\* All statements compiled: the module is added.
QueriesAdded ==
    /\ ipc = "more"
    /\ known' = known \cup ToSet(batch)
    /\ batch' = << >>
    /\ ipc' = "clear"
    /\ UNCHANGED <<qBuf, ioBuf, arg, got, isActive, streams, tables, connected,
                   misread>>

QueriesDropped ==
    /\ ipc = "rollback"
    /\ IF batch = << >>
         THEN ipc' = "clear" /\ UNCHANGED <<qBuf, batch>>
         ELSE /\ qBuf' = Append(qBuf, Msg(DROP_QUERY, Head(batch)))
              /\ batch' = Tail(batch)
              /\ UNCHANGED ipc
    /\ UNCHANGED <<ioBuf, arg, got, known, isActive, streams, tables, connected,
                   misread>>

ActivateLoop == \E m \in ToSet(ioBuf) :
    \/ /\ Sees("activate", m) /\ m.code \in {COMMAND_FAILED, COMMAND_SUCCESSFUL}
       /\ Reply(m)
       /\ ipc' = "clear"
       /\ isActive' = IF m.code = COMMAND_SUCCESSFUL
                        THEN isActive \cup {arg} ELSE isActive
       /\ UNCHANGED <<qBuf, arg, got, batch, known, streams, tables, connected>>
    \/ /\ Sees("activate", m) /\ m.code = ACTIVATED_QUERY
       /\ ioBuf' = Tail(ioBuf)
       /\ isActive' = isActive \cup ({m.arg} \cap known)
       /\ UNCHANGED <<qBuf, ipc, arg, got, batch, known, streams, tables,
                      connected, misread>>
    \/ Other("activate", m, {COMMAND_FAILED, COMMAND_SUCCESSFUL,
                             ACTIVATED_QUERY})

DeactivateLoop == \E m \in ToSet(ioBuf) :
    \/ /\ Sees("deactivate", m)
       /\ m.code \in {COMMAND_FAILED, COMMAND_SUCCESSFUL}
       /\ Reply(m)
       /\ ipc' = "clear"
       /\ isActive' = IF m.code = COMMAND_SUCCESSFUL
                        THEN isActive \ {arg} ELSE isActive
       /\ UNCHANGED <<qBuf, arg, got, batch, known, streams, tables, connected>>
    \/ Other("deactivate", m, {COMMAND_FAILED, COMMAND_SUCCESSFUL})

\* Mutant: the scheduler is not told when no buffer was added.
TableNoCode == \E m \in ToSet(ioBuf) :
    \/ /\ Sees("table", m) /\ m.code \in {COMPILE_FAILURE, COMPILE_SUCCESS}
       /\ Reply(m)
       /\ ipc' = "clear"
       /\ tables' = IF m.code = COMPILE_SUCCESS THEN Append(tables, arg)
                                                ELSE tables
       /\ UNCHANGED qBuf
       /\ UNCHANGED <<arg, got, batch, known, isActive, streams, connected>>
    \/ m.code = ADDED_BUFFER /\ Forward("table", m)
    \/ Other("table", m, {COMPILE_FAILURE, COMPILE_SUCCESS, ADDED_BUFFER})

\* DECLARE_TABLE_STMT: ends with the compiler's verdict; the scheduler's own
\* COMMAND_SUCCESSFUL or COMMAND_FAILED is left over.
TableLoop == \E m \in ToSet(ioBuf) :
    \/ /\ Sees("table", m) /\ m.code \in {COMPILE_FAILURE, COMPILE_SUCCESS}
       /\ Reply(m)
       /\ ipc' = "clear"
       /\ tables' = IF m.code = COMPILE_SUCCESS THEN Append(tables, arg)
                                                ELSE tables
       /\ qBuf' = IF got THEN qBuf ELSE Append(qBuf, Msg(m.code, None))
       /\ UNCHANGED <<arg, got, batch, known, isActive, streams, connected>>
    \/ m.code = ADDED_BUFFER /\ Forward("table", m)
    \/ Other("table", m, {COMPILE_FAILURE, COMPILE_SUCCESS, ADDED_BUFFER})

\* DECLARE_STREAM_STMT: ends with the scheduler's verdict.  A stream that was
\* added and then refused is dropped again ("undo").  If no buffer was added,
\* the scheduler is told so with a COMPILE_ code, whatever it is doing.
StreamLoop == \E m \in ToSet(ioBuf) :
    \/ /\ Sees("stream", m) /\ m.code = COMMAND_SUCCESSFUL
       /\ Reply(m)
       /\ ipc' = "clear"
       /\ streams' = Append(streams, arg)
       /\ qBuf' = IF got THEN qBuf ELSE Append(qBuf, Msg(COMPILE_SUCCESS, None))
       /\ UNCHANGED <<arg, got, batch, known, isActive, tables, connected>>
    \/ /\ Sees("stream", m) /\ m.code = COMMAND_FAILED
       /\ Reply(m)
       /\ IF got
            THEN ipc' = "undo" /\ qBuf' = Append(qBuf, Msg(DROP_DECLARE, arg))
            ELSE ipc' = "clear"
                 /\ qBuf' = Append(qBuf, Msg(COMPILE_FAILURE, None))
       /\ UNCHANGED <<arg, got, batch, known, isActive, streams, tables,
                      connected>>
    \/ m.code = ADDED_STREAM_BUFFER /\ Forward("stream", m)
    \/ Other("stream", m, {COMMAND_FAILED, COMMAND_SUCCESSFUL,
                           ADDED_STREAM_BUFFER})

\* One message is looked at; it is taken only if it is SUCCESS or FAILURE.
Glance(k, m) ==
    /\ Sees(k, m)
    /\ misread' = (misread \/ ~m.mine)
    /\ ioBuf' = IF m.code \in {SUCCESS, FAILURE} THEN Tail(ioBuf) ELSE ioBuf
    /\ ipc' = "clear"

StreamUndo == \E m \in ToSet(ioBuf) :
    /\ Glance("undo", m)
    /\ UNCHANGED <<qBuf, arg, got, batch, known, isActive, streams, tables,
                   connected>>

\* Everything but FAILURE counts as success.
DeleteReply == \E m \in ToSet(ioBuf) :
    /\ Glance("undeclare", m)
    /\ streams' = IF m.code = FAILURE THEN streams ELSE RemoveFirst(streams, arg)
    /\ UNCHANGED <<qBuf, arg, got, batch, known, isActive, tables, connected>>

ComponentsReply == \E m \in ToSet(ioBuf) :
    /\ Sees("components", m)
    /\ Reply(m)
    /\ ipc' = "clear"
    /\ UNCHANGED <<qBuf, arg, got, batch, known, isActive, streams, tables,
                   connected>>

IosReads ==
    /\ \/ QueryLoop \/ QueriesAdded \/ QueriesDropped
       \/ ActivateLoop \/ DeactivateLoop \/ TableLoop \/ StreamLoop
       \/ StreamUndo \/ DeleteReply \/ ComponentsReply
    /\ UNCHANGED <<schVars, pend, bufs, smine, lost>>

-----------------------------------------------------------------------------
(* The scheduler: compilation                                               *)

\* tables.dcl and system.dcl as the compiler finds them: Ios appends the
\* declaration it is adding before it sends ADD_DECLARE.
TablesDcl == IF ipc = "table" THEN Append(tables, arg) ELSE tables
SystemDcl == IF ipc \in {"stream", "undo"} THEN Append(streams, arg)
             ELSE streams

\* Declaring a stream without a buffer announces and creates one and asks Ios
\* to connect its source; for an existing buffer the source is named without
\* its ".so", which matches no I/O module.  Left out are the codes 50 and 51 around
\* each declaration, which every loop of Ios takes and drops, and the sources built
\* from a port or a table, for which Ios compiles a module (ADD_BUILTIN_IOMOD).
StreamMsgs(s, b) ==
    IF s \in b THEN <<Msg(CONNECT_IOMODULE, None)>>
    ELSE <<Msg(ADDED_STREAM_BUFFER, s), Msg(CONNECT_IOMODULE, s)>>

\* Every table of tables.dcl is announced again by every compilation.
DeclMsgs(b) ==
    [i \in DOMAIN TablesDcl |-> Msg(ADDED_BUFFER, TablesDcl[i])]
    \o FlattenSeq([i \in DOMAIN SystemDcl |-> StreamMsgs(SystemDcl[i], b)])

CompileMsgs(q, b) ==
    DeclMsgs(b) \o (IF q \in Private THEN <<Msg(USES_LIBRARY, q)>> ELSE << >>)

\* What compiling statement q may put on _ioBuffer when the streams in b have a
\* buffer.  It can succeed only if the stream that q reads is declared.  The
\* library of a compiled statement is loaded after COMPILE_SUCCESS was put.
Compiled(q, b) ==
    [ok |-> q \notin Unloadable, whole |-> TRUE,
     msgs |-> Append(CompileMsgs(q, b), Msg(COMPILE_SUCCESS, q))]
Refused(q, b) ==
    {[ok |-> FALSE, whole |-> FALSE,
      msgs |-> Append(SubSeq(CompileMsgs(q, b), 1, i),
                      Msg(COMPILE_FAILURE, None))] :
        i \in 0 .. Len(CompileMsgs(q, b))}
Compiles(q) == q = None \/ Reads[q] \in ToSet(SystemDcl)
Outcomes(q, b) ==
    Refused(q, b) \cup (IF Compiles(q) THEN {Compiled(q, b)} ELSE {})

\* The streams that get a buffer.
Created(out) ==
    IF out.whole THEN ToSet(SystemDcl)
    ELSE {m.arg : m \in {x \in ToSet(out.msgs) : x.code = ADDED_STREAM_BUFFER}}

-----------------------------------------------------------------------------
(* The scheduler: commands                                                  *)

\* The handler's messages; they belong to the conversation of its command.
Puts(out, mine) == pend' = [i \in DOMAIN out |-> [out[i] EXCEPT !.mine = mine]]

PutReply ==
    /\ pend # << >>
    /\ ioBuf' = Append(ioBuf, Head(pend))
    /\ pend' = Tail(pend)
    /\ UNCHANGED <<qBuf, iosVars, connected, schVars, bufs, smine, misread, lost>>

\* The main loop takes command m.
Takes(m, code) ==
    /\ spc = "main" /\ pend = << >> /\ qBuf # << >>
    /\ m = Head(qBuf) /\ m.code = code
    /\ qBuf' = Tail(qBuf)
    /\ smine' = m.mine

Verdict(ok) == Msg(IF ok THEN COMMAND_SUCCESSFUL ELSE COMMAND_FAILED, None)

\* Mutant: the handler reports the compiler's verdict once more.
AddQueryTwice == \E m \in ToSet(qBuf) :
    /\ Takes(m, ADD_QUERY)
    /\ \E out \in Outcomes(m.arg, bufs) :
         /\ Puts(Append(out.msgs, Last(out.msgs)), m.mine)
         /\ bufs' = bufs \cup Created(out)
         /\ freeStmts' = freeStmts \cup (IF out.ok THEN {m.arg} ELSE {})
    /\ UNCHANGED <<ioBuf, iosVars, connected, spc, invalid, active, misread, lost>>

HandleAddQuery == \E m \in ToSet(qBuf) :
    /\ Takes(m, ADD_QUERY)
    /\ \E out \in Outcomes(m.arg, bufs) :
         /\ Puts(out.msgs, m.mine)
         /\ bufs' = bufs \cup Created(out)
         /\ freeStmts' = freeStmts \cup (IF out.ok THEN {m.arg} ELSE {})
    /\ UNCHANGED <<ioBuf, iosVars, connected, spc, invalid, active, misread, lost>>

\* After a successful compilation the handler waits for a second message.
HandleAddDeclare == \E m \in ToSet(qBuf) : \E out \in Outcomes(None, bufs) :
    /\ Takes(m, ADD_DECLARE)
    /\ bufs' = bufs \cup Created(out)
    /\ IF out.ok THEN spc' = "wait" /\ Puts(out.msgs, m.mine)
       ELSE UNCHANGED spc /\ Puts(Append(out.msgs, Verdict(FALSE)), m.mine)
    /\ UNCHANGED <<ioBuf, iosVars, connected, freeStmts, invalid, active,
                   misread, lost>>

Users(s) == {q \in freeStmts : Reads[q] = s}

\* The buffers there are after i compilations, and the messages of the first i
\* of the statements in users, all of which succeed.
BufsAfter(i) == IF i = 0 THEN bufs ELSE bufs \cup ToSet(SystemDcl)
Recompiled(users, i) ==
    FlattenSeq([j \in 1 .. i |-> Compiled(users[j], BufsAfter(j - 1)).msgs])

\* The second message names the buffer: the free statements that use it are
\* recompiled in the order of the pool, up to the first failure; all of them are
\* replaced or none.
DeclareAdded == \E m \in ToSet(qBuf) : \E users \in SetToSeqs(Users(m.arg)) :
    /\ spc = "wait" /\ pend = << >> /\ m = Head(qBuf)
    /\ m.code = ADDED_BUFFER
    /\ qBuf' = Tail(qBuf) /\ spc' = "main"
    /\ \/ /\ \A q \in Users(m.arg) : Compiles(q)
          /\ Puts(Append(Recompiled(users, Len(users)), Verdict(TRUE)), smine)
          /\ bufs' = BufsAfter(Len(users))
          /\ invalid' = invalid \ Users(m.arg)
       \/ \E i \in DOMAIN users :
          \E out \in Refused(users[i], BufsAfter(i - 1)) :
          /\ \A j \in 1 .. i - 1 : Compiles(users[j])
          /\ Puts(Recompiled(users, i - 1) \o out.msgs \o <<Verdict(FALSE)>>,
                  smine)
          /\ bufs' = BufsAfter(i - 1) \cup Created(out)
          /\ UNCHANGED invalid
    /\ UNCHANGED <<ioBuf, iosVars, connected, freeStmts, active, smine, misread,
                   lost>>

\* A compiler's verdict: the only message with one of these codes that is about
\* no statement (as commands they are DEACTIVATE_QUERY and DROP_QUERY).
IsVerdict(m) == m.code \in {COMPILE_SUCCESS, COMPILE_FAILURE} /\ m.arg = None

\* COMPILE_SUCCESS and COMPILE_FAILURE end the wait with nothing to do; so does
\* any other message, an "Internal error, id not recieved for stream adding".
DeclareEnds ==
    /\ spc = "wait" /\ pend = << >> /\ qBuf # << >>
    /\ Head(qBuf).code # ADDED_BUFFER
    /\ qBuf' = Tail(qBuf) /\ spc' = "main"
    /\ lost' = (lost \/ ~IsVerdict(Head(qBuf)))
    /\ UNCHANGED <<ioBuf, iosVars, connected, pend, freeStmts, invalid, active,
                   bufs, smine, misread>>

\* A statement of the free pool is taken as it is; the driver refuses an
\* invalid one.
NoCompile(q) == [ok |-> q \notin invalid, msgs |-> << >>]

\* A statement that is not in the free pool is compiled (again).
HandleActivate == \E m \in ToSet(qBuf) :
    /\ Takes(m, ACTIVATE_QUERY)
    /\ \E out \in IF m.arg \in freeStmts THEN {NoCompile(m.arg)}
                   ELSE Outcomes(m.arg, bufs) :
         /\ bufs' = bufs \cup (IF m.arg \in freeStmts THEN {} ELSE Created(out))
         /\ IF out.ok
              THEN /\ active' = active \cup {m.arg}
                   /\ freeStmts' = freeStmts \ {m.arg}
                   /\ Puts(out.msgs \o <<Msg(ACTIVATED_QUERY, m.arg),
                                    Verdict(TRUE)>>, m.mine)
              ELSE /\ Puts(Append(out.msgs, Verdict(FALSE)), m.mine)
                   /\ UNCHANGED <<active, freeStmts>>
    /\ UNCHANGED <<ioBuf, iosVars, connected, spc, invalid, misread, lost>>

\* Mutant: the statement is dropped from its driver but not put back.
DeactivateForgets == \E m \in ToSet(qBuf) :
    /\ Takes(m, DEACTIVATE_QUERY)
    /\ active' = active \ {m.arg}
    /\ Puts(<<Verdict(m.arg \in active)>>, m.mine)
    /\ UNCHANGED <<ioBuf, iosVars, connected, spc, freeStmts, invalid, bufs,
                   misread, lost>>

HandleDeactivate == \E m \in ToSet(qBuf) :
    /\ Takes(m, DEACTIVATE_QUERY)
    /\ active' = active \ {m.arg}
    /\ freeStmts' = freeStmts \cup (active \cap {m.arg})
    /\ Puts(<<Verdict(m.arg \in active)>>, m.mine)
    /\ UNCHANGED <<ioBuf, iosVars, connected, spc, invalid, bufs, misread, lost>>

\* An active statement is deactivated first.
HandleDropQuery == \E m \in ToSet(qBuf) :
    /\ Takes(m, DROP_QUERY)
    /\ active' = active \ (IF m.arg \in freeStmts THEN {} ELSE {m.arg})
    /\ freeStmts' = freeStmts \ {m.arg}
    /\ invalid' = invalid \ {m.arg}
    /\ Puts(<<Verdict(m.arg \in active \cup freeStmts)>>, m.mine)
    /\ UNCHANGED <<ioBuf, iosVars, connected, spc, bufs, misread, lost>>

\* Mutant: a stream may be dropped under an active query.
DropDeclareInUse == \E m \in ToSet(qBuf) :
    /\ Takes(m, DROP_DECLARE)
    /\ bufs' = bufs \ {m.arg}
    /\ connected' = connected \ {m.arg}
    /\ Puts(<<Msg(IF m.arg \in bufs THEN SUCCESS ELSE FAILURE, None)>>, m.mine)
    /\ invalid' = invalid \cup Users(m.arg)
    /\ UNCHANGED <<ioBuf, iosVars, spc, freeStmts, active, misread, lost>>

\* Refused while an active query uses the buffer.  Killing the buffer leaves the
\* free statements that use it invalid and the I/O module without a live buffer.
\* For a buffer that is gone bm->kill fails and returns with mm's lock, which the
\* answer's iob->put takes again and gives back: what that means is BufDict's subject.
HandleDropDeclare == \E m \in ToSet(qBuf) :
    LET ok == m.arg \in bufs /\ \A q \in active : Reads[q] # m.arg IN
    /\ Takes(m, DROP_DECLARE)
    /\ Puts(<<Msg(IF ok THEN SUCCESS ELSE FAILURE, None)>>, m.mine)
    /\ bufs' = IF ok THEN bufs \ {m.arg} ELSE bufs
    /\ connected' = IF ok THEN connected \ {m.arg} ELSE connected
    /\ invalid' = IF ok THEN invalid \cup Users(m.arg) ELSE invalid
    /\ UNCHANGED <<ioBuf, iosVars, spc, freeStmts, active, misread, lost>>

HandleGetComponents == \E m \in ToSet(qBuf) :
    /\ Takes(m, GET_COMPONENTS)
    /\ Puts(<<Msg(COMMAND_SUCCESSFUL, None)>>, m.mine)
    /\ UNCHANGED <<ioBuf, iosVars, connected, schVars, bufs, misread, lost>>

\* Codes that are no command: the main loop drops the message.
HandleUnknown == \E m \in ToSet(qBuf) :
    /\ Takes(m, ADDED_BUFFER)
    /\ UNCHANGED <<ioBuf, iosVars, connected, schVars, pend, bufs, misread, lost>>

-----------------------------------------------------------------------------
Client ==
    \/ \E q \in Query : \/ AddQueries(q) \/ ActivateQuery(q)
                        \/ DeactivateQuery(q) \/ DeleteQuery(q)
    \/ \E t \in Table : AddTable(t)
    \/ \E s \in Stream : AddStream(s) \/ DeleteStream(s)
    \/ ViewComponents

Ios == NoRequest \/ ClearOne \/ ClearDone \/ PollStdout \/ IosReads

Scheduler ==
    \/ PutReply \/ HandleAddQuery \/ HandleAddDeclare \/ DeclareAdded
    \/ DeclareEnds \/ HandleActivate \/ HandleDeactivate \/ HandleDropQuery
    \/ HandleDropDeclare \/ HandleGetComponents \/ HandleUnknown

Next == Client \/ Ios \/ Scheduler

Spec == Init /\ [][Next]_vars

-----------------------------------------------------------------------------
IosSteps == {"ready", "clear", "poll", "query", "more", "rollback", "activate",
             "deactivate", "table", "stream", "undo", "undeclare", "components"}
Names == Query \cup Stream \cup Table \cup {None}
Message == [code : 0 .. 21, arg : Names, mine : BOOLEAN]

\* The types of the two processes' state; in particular a statement is in
\* the free pool or in a driver, and only one in the free pool can be invalid.
TypeOK ==
    /\ qBuf \in Seq(Message) /\ ioBuf \in Seq(Message) /\ pend \in Seq(Message)
    /\ ipc \in IosSteps /\ arg \in Names /\ got \in BOOLEAN
    /\ batch \in Seq(Query) /\ known \subseteq Query /\ isActive \subseteq known
    /\ streams \in Seq(Stream) /\ tables \in Seq(Table)
    /\ connected \subseteq bufs /\ bufs \subseteq Stream
    /\ spc \in {"main", "wait"}
    /\ freeStmts \subseteq Query /\ active \subseteq Query \ freeStmts
    /\ invalid \subseteq freeStmts
    /\ smine \in BOOLEAN /\ misread \in BOOLEAN /\ lost \in BOOLEAN

\* Ios never takes a message that another command's handler put on _ioBuffer
\* for the reply to its own command (generateStatements, activateQuery,
\* deactivateQuery, processDeleteDeclareCommand, processViewComponentsCommand).
ReplyIsMine == ~misread

\* ADD_DECLARE_CMD_CODE_hndl, which takes a second message off _queryBuffer,
\* never takes a command there ("Internal error, id not recieved").
NoCommandLost == ~lost

\* A query in a driver always has its input buffer: DROP_DECLARE refuses to kill
\* it, and a statement whose buffer was killed while it was in the free pool is
\* not activated before it was compiled again.
LiveInputs == \A q \in active : Reads[q] \in bufs

\* When nothing is in flight Ios and the scheduler agree: the scheduler has the
\* statements Ios knows, but for those it could not load, the same ones are
\* active, the declared streams are those that have a buffer, and each of them
\* is connected to its source.
Agreement ==
    ipc = "ready" /\ Quiet =>
        /\ active \cup freeStmts = known \ Unloadable
        /\ isActive = active
        /\ ToSet(streams) = bufs
        /\ ToSet(streams) \subseteq connected

\* Every request ends and Ios serves the next one.
RequestsEnd == (ipc # "ready") ~> (ipc = "ready")
=============================================================================
