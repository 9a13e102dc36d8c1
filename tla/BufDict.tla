------------------------------ MODULE BufDict -------------------------------
(***************************************************************************)
(* The dictionary of buffers, bufferMngr in esl/buffer.cc: an array in     *)
(* shared memory, sorted by name.  create and kill change it under the     *)
(* lock of the shared memory; lookup searches it without.  The scheduler   *)
(* and Ios call all three.  A step is one access to the shared array.      *)
(***************************************************************************)
EXTENDS Integers, FiniteSets, SequencesExt

CONSTANTS Procs,
          Fixed,    \* the names made before the processes are forked (esl.cc)
          Makes,    \* the names each process creates: Ios those of the users'
                    \* error buffers, the scheduler those of streams, tables...
          Kills,    \* those it kills
          NoProc,
          Reentrant, \* mm's lock belongs to a process, which may take it again
                     \* and gives it back with one mm_unlock
          MaxGen    \* bound: how often a name is created

Names == Fixed \cup UNION {Makes[p] : p \in Procs}
MaxBuf == Cardinality(Names)

ASSUME BufDictAssumption ==
    /\ Names \subseteq Int /\ IsFiniteSet(Names)
    /\ \A p \in Procs : Kills[p] \subseteq Makes[p] /\ Makes[p] \cap Fixed = {}
    /\ \A p, q \in Procs : p # q => Makes[p] \cap Makes[q] = {}
    /\ NoProc \notin Procs /\ Reentrant \in BOOLEAN /\ MaxGen \in Nat

VARIABLES
    dict, n,    \* dict[i] is [name, b]; a buffer b is its name and how many of
                \* that name there were before
    lock,       \* mm_lock: the process that holds it
    pc, op, arg,            \* of each process, and what it was called with
    l, u, idx,              \* bsearch's, and the index of the sort or shift
    tmp,        \* the sorted copy of dict that qsort copies back
    res,        \* what the search found
    gen,        \* how often a name was created
    alive,      \* history: the buffers, as the finished calls left them
    crossed     \* history: another process changed dict during the search

vars == <<dict, n, lock, pc, op, arg, l, u, idx, tmp, res, gen, alive, crossed>>

NULL == [name |-> 0, gen |-> 0]
Entry(x, g) == [name |-> x, b |-> [name |-> x, gen |-> g]]

\* The m entries of E in the order of their names.
Sorted(E, m) ==
    CHOOSE s \in [1..m -> E] :
      /\ ToSet(s) = E
      /\ \A i, j \in 1..m : i < j => s[i].name < s[j].name

Init ==
    /\ n = Cardinality(Fixed)
    /\ LET s == Sorted({Entry(x, 1) : x \in Fixed}, n) IN
       dict = [i \in 1..MaxBuf |-> IF i <= n THEN s[i] ELSE Entry(0, 0)]
    /\ lock = NoProc
    /\ pc = [p \in Procs |-> "idle"] /\ op = [p \in Procs |-> "lookup"]
    /\ arg = [p \in Procs |-> 0]
    /\ l = [p \in Procs |-> 0] /\ u = [p \in Procs |-> 0]
    /\ idx = [p \in Procs |-> 0] /\ tmp = << >>
    /\ res = [p \in Procs |-> NULL]
    /\ gen = [x \in Names |-> IF x \in Fixed THEN 1 ELSE 0]
    /\ alive = {Entry(x, 1).b : x \in Fixed}
    /\ crossed = [p \in Procs |-> FALSE]

Goto(p, where) == pc' = [pc EXCEPT ![p] = where]

\* The call returns; its locals are gone.
Return(p) ==
    /\ Goto(p, "idle")
    /\ op' = [op EXCEPT ![p] = "lookup"] /\ arg' = [arg EXCEPT ![p] = 0]
    /\ l' = [l EXCEPT ![p] = 0] /\ u' = [u EXCEPT ![p] = 0]
    /\ idx' = [idx EXCEPT ![p] = 0] /\ res' = [res EXCEPT ![p] = NULL]
    /\ crossed' = [crossed EXCEPT ![p] = FALSE]

Alive(x) == \E b \in alive : b.name = x

\* The steps between taking the lock and returning.
Changing == {"create", "sort", "kill", "shift", "unlock"}

\* Nobody is in the middle of a change.
Quiet == \A p \in Procs : pc[p] \notin Changing

-----------------------------------------------------------------------------
(* Calls                                                                    *)

\* lookup, and the lookup that create starts with; bsearch gets n here.  After a
\* kill, failed or not, come other kills or the answer, but no lookup.
Search(p, what, x) ==
    /\ pc[p] = "idle" /\ lock # p
    /\ op' = [op EXCEPT ![p] = what] /\ arg' = [arg EXCEPT ![p] = x]
    /\ l' = [l EXCEPT ![p] = 0] /\ u' = [u EXCEPT ![p] = n]
    /\ res' = [res EXCEPT ![p] = NULL]
    /\ crossed' = [crossed EXCEPT ![p] = ~Quiet]
    /\ Goto(p, "search")
    /\ UNCHANGED <<dict, n, lock, idx, tmp, gen, alive>>

Lookup(p, x) == Search(p, "lookup", x)

\* A name is created when it is not there, by the only process that does.
Create(p, x) == /\ x \in Makes[p] /\ ~Alive(x) /\ gen[x] < MaxGen
                /\ Search(p, "create", x)

\* A name may be killed that is not there, or not any more: deleting a half
\* deleted module once more sends DROP_DECLARE for a buffer that is gone (ios.cc).
Kill(p, x) ==
    /\ pc[p] = "idle"
    /\ x \in Kills[p]
    /\ op' = [op EXCEPT ![p] = "kill"] /\ arg' = [arg EXCEPT ![p] = x]
    /\ Goto(p, "lock")
    /\ UNCHANGED <<dict, n, lock, l, u, idx, tmp, res, gen, alive, crossed>>

\* Mutant: the last entry is never looked at.
BsearchShort(p) ==
    LET m == (l[p] + u[p]) \div 2
        name == dict[m + 1].name
    IN
    /\ pc[p] = "search"
    /\ IF l[p] + 1 >= u[p]
         THEN Goto(p, "found") /\ UNCHANGED <<l, u, idx>>
         ELSE /\ idx' = [idx EXCEPT ![p] = m + 1]
              /\ u' = IF arg[p] < name THEN [u EXCEPT ![p] = m] ELSE u
              /\ l' = IF arg[p] > name THEN [l EXCEPT ![p] = m + 1] ELSE l
              /\ Goto(p, IF arg[p] = name THEN "hit" ELSE "search")
    /\ UNCHANGED <<dict, n, lock, op, arg, tmp, res, gen, alive, crossed>>

\* bsearch: one comparison.
Bsearch(p) ==
    LET m == (l[p] + u[p]) \div 2
        name == dict[m + 1].name
    IN
    /\ pc[p] = "search"
    /\ IF l[p] >= u[p]
         THEN Goto(p, "found") /\ UNCHANGED <<l, u, idx>>
         ELSE /\ idx' = [idx EXCEPT ![p] = m + 1]
              /\ u' = IF arg[p] < name THEN [u EXCEPT ![p] = m] ELSE u
              /\ l' = IF arg[p] > name THEN [l EXCEPT ![p] = m + 1] ELSE l
              /\ Goto(p, IF arg[p] = name THEN "hit" ELSE "search")
    /\ UNCHANGED <<dict, n, lock, op, arg, tmp, res, gen, alive, crossed>>

\* bmap->b.
Hit(p) ==
    /\ pc[p] = "hit"
    /\ res' = [res EXCEPT ![p] = dict[idx[p]].b]
    /\ Goto(p, "found")
    /\ UNCHANGED <<dict, n, lock, op, arg, l, u, idx, tmp, gen, alive, crossed>>

\* lookup returns; create returns -1, or goes on when there is no such buffer.
Found(p) ==
    /\ pc[p] = "found"
    /\ \/ /\ op[p] = "create" /\ res[p] = NULL
          /\ Goto(p, "lock")
          /\ UNCHANGED <<op, arg, l, u, idx, res, crossed>>
       \/ /\ ~(op[p] = "create" /\ res[p] = NULL)
          /\ Return(p)
    /\ UNCHANGED <<dict, n, lock, tmp, gen, alive>>

\* Mutant: create does not wait for the lock.
LockBarges(p) ==
    /\ pc[p] = "lock"
    /\ lock = NoProc \/ op[p] = "create"
    /\ lock' = p
    /\ Goto(p, op[p])
    /\ crossed' = [q \in Procs |-> crossed[q] \/ (q # p /\ pc[q] # "idle")]
    /\ UNCHANGED <<dict, n, op, arg, l, u, idx, tmp, res, gen, alive>>

Lock(p) ==
    /\ pc[p] = "lock"
    /\ lock = NoProc \/ (Reentrant /\ lock = p)
    /\ lock' = p
    /\ Goto(p, op[p])
    /\ crossed' = [q \in Procs |-> crossed[q] \/ (q # p /\ pc[q] # "idle")]
    /\ UNCHANGED <<dict, n, op, arg, l, u, idx, tmp, res, gen, alive>>

\* create: the entry goes behind the others; qsort prepares the sorted copy.
Insert(p) ==
    LET e == Entry(arg[p], gen[arg[p]] + 1) IN
    /\ pc[p] = "create"
    /\ dict' = [dict EXCEPT ![n + 1] = e]
    /\ n' = n + 1
    /\ tmp' = Sorted({dict'[i] : i \in 1..n'}, n')
    /\ gen' = [gen EXCEPT ![arg[p]] = @ + 1]
    /\ idx' = [idx EXCEPT ![p] = 1]
    /\ Goto(p, "sort")
    /\ UNCHANGED <<lock, op, arg, l, u, res, alive, crossed>>

\* qsort copies the sorted entries back, one at a time.
Sort(p) ==
    /\ pc[p] = "sort"
    /\ IF idx[p] > n
         THEN Goto(p, "unlock") /\ tmp' = << >> /\ UNCHANGED <<dict, idx>>
         ELSE /\ dict' = [dict EXCEPT ![idx[p]] = tmp[idx[p]]]
              /\ idx' = [idx EXCEPT ![p] = @ + 1]
              /\ UNCHANGED <<pc, tmp>>
    /\ UNCHANGED <<n, lock, op, arg, l, u, res, gen, alive, crossed>>

\* kill: bsearch, alone with the array; the buffer is freed.
FindIdx(p) ==
    /\ pc[p] = "kill"
    /\ \E i \in 1..n : /\ dict[i].name = arg[p]
                      /\ idx' = [idx EXCEPT ![p] = i]
    /\ Goto(p, "shift")
    /\ UNCHANGED <<dict, n, lock, op, arg, l, u, tmp, res, gen, alive, crossed>>

\* kill: there is no such name; it returns -1 and keeps the lock.
KillNone(p) ==
    /\ pc[p] = "kill"
    /\ \A i \in 1..n : dict[i].name # arg[p]
    /\ Return(p)
    /\ UNCHANGED <<dict, n, lock, tmp, gen, alive>>

\* Mutant: the handler does not answer when kill has failed.
ReleaseForgotten(p) ==
    /\ Reentrant /\ pc[p] = "idle" /\ lock = p
    /\ UNCHANGED vars

\* The put() that answers the command takes the lock the process still has, and
\* gives it back.  With another kind of lock it waits, for itself.
Release(p) ==
    /\ Reentrant /\ pc[p] = "idle" /\ lock = p
    /\ lock' = NoProc
    /\ UNCHANGED <<dict, n, pc, op, arg, l, u, idx, tmp, res, gen, alive, crossed>>

\* Mutant: the last entry is not moved.
ShiftShort(p) ==
    /\ pc[p] = "shift"
    /\ IF idx[p] < n - 1
         THEN /\ dict' = [dict EXCEPT ![idx[p]] = dict[idx[p] + 1]]
              /\ idx' = [idx EXCEPT ![p] = @ + 1]
              /\ UNCHANGED <<n, pc>>
         ELSE /\ n' = n - 1
              /\ Goto(p, "unlock")
              /\ UNCHANGED <<dict, idx>>
    /\ UNCHANGED <<lock, op, arg, l, u, tmp, res, gen, alive, crossed>>

\* The entries behind move down, one at a time.
Shift(p) ==
    /\ pc[p] = "shift"
    /\ IF idx[p] < n
         THEN /\ dict' = [dict EXCEPT ![idx[p]] = dict[idx[p] + 1]]
              /\ idx' = [idx EXCEPT ![p] = @ + 1]
              /\ UNCHANGED <<n, pc>>
         ELSE /\ n' = n - 1
              /\ Goto(p, "unlock")
              /\ UNCHANGED <<dict, idx>>
    /\ UNCHANGED <<lock, op, arg, l, u, tmp, res, gen, alive, crossed>>

Unlock(p) ==
    /\ pc[p] = "unlock"
    /\ lock' = NoProc
    /\ alive' = IF op[p] = "create"
                  THEN alive \cup {Entry(arg[p], gen[arg[p]]).b}
                  ELSE {b \in alive : b.name # arg[p]}
    /\ Return(p)
    /\ UNCHANGED <<dict, n, tmp, gen>>

-----------------------------------------------------------------------------
Call(p) == \E x \in Names : Lookup(p, x) \/ Create(p, x) \/ Kill(p, x)

Step(p) == \/ Bsearch(p) \/ Hit(p) \/ Found(p) \/ Insert(p) \/ Sort(p)
           \/ FindIdx(p) \/ KillNone(p) \/ Shift(p) \/ Unlock(p)

Next == \E p \in Procs : Call(p) \/ Step(p) \/ Lock(p) \/ Release(p)

\* A call that has begun goes on, and an answer follows the kills; the kernel hands
\* the lock to whoever waits.
Spec == /\ Init /\ [][Next]_vars
        /\ \A p \in Procs : WF_vars(Step(p)) /\ SF_vars(Lock(p)) /\ SF_vars(Release(p))

-----------------------------------------------------------------------------
(* Properties                                                               *)

\* Who is changing the dictionary holds the lock, so nobody else is; and a lock
\* that somebody holds who is not was kept by a kill (buffer.cc, kill).
LockOK ==
    \A p \in Procs : /\ pc[p] \in Changing => lock = p
                     /\ lock = p /\ pc[p] \notin Changing => Kills[p] # {}

\* The variables have their types, nothing is written behind the array's end,
\* and the lock excludes other changes, whoever keeps it (LockOK).
TypeOK ==
    /\ n \in 0..MaxBuf /\ lock \in Procs \cup {NoProc}
    /\ DOMAIN dict = 1..MaxBuf
    /\ LockOK
    /\ \A p \in Procs : u[p] \in 0..MaxBuf /\ l[p] \in 0..MaxBuf

\* Whenever nobody is changing the dictionary, be the lock free or kept by a kill
\* that failed, it has exactly the buffers that were created and not killed, in
\* the order bsearch needs (create, kill).
DictExact ==
    Quiet =>
      /\ {dict[i].b : i \in 1..n} = alive
      /\ \A i \in 1..(n - 1) : dict[i].name < dict[i + 1].name

\* A lookup that no create or kill of another process has crossed returns the
\* buffer of that name, or NULL when there is none.
LookupExact ==
    \A p \in Procs : pc[p] = "found" /\ ~crossed[p] =>
      IF Alive(arg[p]) THEN res[p] \in alive /\ res[p].name = arg[p]
      ELSE res[p] = NULL

\* Every create, kill and lookup returns, also while another process kills names
\* that are not there and keeps the lock: where that lock is the process's own,
\* its next put() gives it back (buffer.cc, kill; querySchdl.cc, the answer).
Returns == \A p \in Procs : pc[p] # "idle" ~> pc[p] = "idle"
=============================================================================
