------------------------------- MODULE Modules -------------------------------
(***************************************************************************)
(* Requests about a whole module of queries, on top of CommandProtocol:    *)
(* activate, deactivate or delete every query that was added in one        *)
(* AddQueries (ios/ios.cc).  Ios talks to the scheduler about one query    *)
(* after the other, without clearing _ioBuffer in between, and takes back  *)
(* what it has done when one of them is refused.                           *)
(*                                                                         *)
(* A module that has lost all its queries is left out: a request about it  *)
(* sends nothing.                                                          *)
(***************************************************************************)
EXTENDS CommandProtocol

VARIABLES
    modules,    \* activeQueryModules: the queries of each, in their order
    mode,       \* "activate" or "deactivate", "undo" when that is taken back,
                \* "none" outside such a request
    undoing,    \* what is taken back
    did, rest,  \* the queries before i, and from i on
    ok,         \* rc = 0
    before      \* history: what was active when the request came

mvars == <<modules, mode, undoing, did, rest, ok, before>>
allvars == <<vars, mvars>>

MInit ==
    /\ Init
    /\ modules = {} /\ mode = "none" /\ undoing = "none"
    /\ did = << >> /\ rest = << >> /\ ok = TRUE /\ before = {}

\* AddQueries adds the module, DeleteQuery takes its query out of one; a module
\* without queries is dropped.
Regrouped ==
    LET gone == known \ known'
        left == IF gone = {} THEN modules
                ELSE {RemoveFirst(m, q) : m \in modules, q \in gone}
        added == IF ipc = "more" /\ ipc' = "clear" THEN {batch} ELSE {}
    IN  modules' = (left \cup added) \ {<< >>}

\* The requests and the steps of CommandProtocol.
Asks == /\ mode = "none" /\ Client /\ Regrouped
        /\ UNCHANGED <<mode, undoing, did, rest, ok, before>>

Works == /\ mode = "none" /\ Ios /\ Regrouped
         /\ UNCHANGED <<mode, undoing, did, rest, ok, before>>

Schedules == Scheduler /\ UNCHANGED mvars

-----------------------------------------------------------------------------
\* processActivateQueryModuleCommand, ...ByNameCommand, and
\* processDeactivateQueryModuleCommand: the loop begins.
ModuleRequest(k, m) ==
    /\ MayStart /\ mode = "none" /\ k \in Kinds
    /\ m \in modules
    /\ mode' = k /\ rest' = m /\ did' = << >> /\ ok' = TRUE
    /\ before' = active
    /\ ipc' = "clear"
    /\ UNCHANGED <<qBuf, ioBuf, arg, got, batch, known, isActive, streams,
                   tables, connected, schVars, pend, bufs, smine, misread, lost,
                   modules, undoing>>

\* removeQueryModuleByIndex: the module is forgotten, then DROP_QUERY is sent for
\* each of its queries, and nobody waits.
DeleteModule(m) ==
    /\ MayStart /\ mode = "none" /\ "delete" \in Kinds
    /\ m \in modules
    /\ modules' = modules \ {m}
    /\ known' = known \ ToSet(m) /\ isActive' = isActive \ ToSet(m)
    /\ batch' = m /\ ipc' = "rollback"
    /\ UNCHANGED <<qBuf, ioBuf, arg, got, streams, tables, connected, schVars,
                   pend, bufs, smine, misread, lost, mode, undoing, did, rest, ok,
                   before>>

Code(k) == IF k = "activate" THEN ACTIVATE_QUERY ELSE DEACTIVATE_QUERY

\* The next query, unless it is what it should be.
Each ==
    LET q == Head(rest) IN
    /\ mode \in {"activate", "deactivate"} /\ ipc = "clear" /\ ok
    /\ rest # << >>
    /\ did' = Append(did, q) /\ rest' = Tail(rest)
    /\ IF (q \in isActive) = (mode = "activate") THEN UNCHANGED vars
       ELSE /\ Start(mode, q, Code(mode))
            /\ UNCHANGED <<batch, known, isActive, streams, tables, connected,
                           schVars, bufs, misread, lost>>
    /\ UNCHANGED <<modules, mode, undoing, ok, before>>

\* activateQuery and deactivateQuery return.
Waits ==
    /\ mode # "none"
    /\ ActivateLoop \/ DeactivateLoop
    /\ ok' = IF ipc' = "clear" THEN Head(ioBuf).code = COMMAND_SUCCESSFUL ELSE ok
    /\ UNCHANGED <<schVars, pend, bufs, smine, lost, modules, mode, undoing, did,
                   rest, before>>

\* Mutant: the loop goes on from the refused query.
RefusesHere ==
    /\ mode \in {"activate", "deactivate"} /\ ipc = "clear" /\ ~ok
    /\ mode' = "undo" /\ undoing' = mode
    /\ rest' = rest /\ did' = << >> /\ ok' = TRUE
    /\ UNCHANGED <<vars, modules, before>>

\* rc # 0: the queries before the refused one are looked at again.
Refuses ==
    /\ mode \in {"activate", "deactivate"} /\ ipc = "clear" /\ ~ok
    /\ mode' = "undo" /\ undoing' = mode
    /\ rest' = Front(did) /\ did' = << >> /\ ok' = TRUE
    /\ UNCHANGED <<vars, modules, before>>

\* A query that is active (after a refused activation) is deactivated, also if
\* it was active before; the answer is waited for, but isActive changes whatever
\* it is.
TakesBack ==
    LET q == Head(rest)
        back == IF undoing = "activate" THEN "deactivate" ELSE "activate"
    IN
    /\ mode = "undo" /\ ipc = "clear" /\ rest # << >>
    /\ rest' = Tail(rest)
    /\ IF (q \in isActive) = (back = "activate")
         THEN UNCHANGED vars
         ELSE /\ Start(back, q, Code(back))
              /\ isActive' = IF back = "activate" THEN isActive \cup {q}
                             ELSE isActive \ {q}
              /\ UNCHANGED <<batch, known, streams, tables, connected, schVars,
                             bufs, misread, lost>>
    /\ UNCHANGED <<modules, mode, undoing, did, ok, before>>

ModuleDone ==
    /\ mode # "none" /\ ipc = "clear" /\ rest = << >>
    /\ mode = "undo" \/ ok
    /\ mode' = "none" /\ undoing' = "none" /\ did' = << >> /\ ok' = TRUE
    /\ before' = {}
    /\ UNCHANGED <<vars, modules, rest>>

ModuleSteps == Each \/ Waits \/ Refuses \/ TakesBack \/ ModuleDone

MNext ==
    \/ Asks \/ Works \/ Schedules \/ ModuleSteps
    \/ \E m \in modules : \/ ModuleRequest("activate", m)
                          \/ ModuleRequest("deactivate", m)
                          \/ DeleteModule(m)

\* Both processes keep running: Ios never stops polling, the scheduler never
\* stops taking commands.  Clients owe nothing.
MSpec ==
    /\ MInit /\ [][MNext]_allvars
    /\ WF_allvars(Works) /\ WF_allvars(ModuleSteps)
    /\ WF_allvars(Schedules)

-----------------------------------------------------------------------------
\* A request about a module ends with the scheduler having all of its queries
\* active, or none of them, or, when one was refused, none active that was not
\* active before (activateQueryModule, processDeactivateQueryModuleCommand).
ModuleWhole ==
    ipc = "clear" /\ rest = << >> =>
        /\ mode = "activate" /\ ok => ToSet(did) \subseteq active
        /\ mode = "deactivate" /\ ok => ToSet(did) \cap active = {}
        /\ mode = "undo" /\ undoing = "activate" => active \subseteq before
=============================================================================
