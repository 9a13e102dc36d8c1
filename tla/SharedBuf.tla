----------------------------- MODULE SharedBuf ------------------------------
(***************************************************************************)
(* sharedBuf (esl/buffer.cc): the linked list in OSSP mm shared memory     *)
(* through which the I/O scheduler and the query scheduler exchange        *)
(* commands ("_queryBuffer", "_ioBuffer") and stream tuples.               *)
(*                                                                         *)
(* Several processes may put(); one process get()s and pop()s.  Writers    *)
(* take the mm lock, but empty() and get() read n, head and the head node  *)
(* without it, so every shared access below is a step of its own.          *)
(* The mm allocator (mm_malloc, mm_free) is external: an atomic pool.      *)
(***************************************************************************)
EXTENDS Naturals, Sequences

CONSTANTS Putters,  \* processes that call put()
          Getter,   \* the process that calls get() and pop()
          Addr,     \* the sDBT cells the shared memory segment has room for
          Val,      \* tuples
          Nil,      \* the NULL pointer, no lock owner, no tuple
          Wild,     \* a pointer that is neither NULL nor a cell
          MaxFault  \* bound on process crashes and failed allocations

ASSUME SharedBufAssumption ==
    /\ Getter \notin Putters
    /\ Nil \notin Putters \cup {Getter}
    /\ Nil \notin Addr /\ Nil \notin Val
    /\ Wild \notin Addr \cup {Nil}
    /\ MaxFault \in Nat

VARIABLES
    head, tail, n,    \* the fields of sharedBuf
    next, data,       \* the fields of the cells
    free,             \* cells the mm allocator can hand out
    lock,             \* owner of the mm lock
    pc, node,         \* each putter's step and the cell it allocated
    gpc, val, cell,   \* the getter's step, the tuple it copied, the cell it frees
    out,              \* the tuple popped last
    faults,           \* faults so far
    chain             \* history: the cells of the tuples put and not yet popped

bufVars == <<head, tail, n, next, data, free, lock>>
vars == <<head, tail, n, next, data, free, lock, pc, node, gpc, val, cell,
          out, faults, chain>>

PutSteps == {"idle", "alloc", "locked", "linked", "moved", "counted"}
GetSteps == {"idle", "sawN", "nonempty", "copied", "popN", "wantLock",
             "locked", "unlinked", "freed", "counted"}

Init ==
    /\ head = Nil /\ tail = Nil /\ n = 0
    /\ next \in [Addr -> {Nil}]
    /\ data \in [Addr -> {Nil}]
    /\ free = Addr
    /\ lock = Nil
    /\ pc = [p \in Putters |-> "idle"]
    /\ node = [p \in Putters |-> Nil]
    /\ gpc = "idle" /\ val = Nil /\ cell = Nil
    /\ out = Nil
    /\ faults = 0
    /\ chain = << >>

-----------------------------------------------------------------------------
(* put()                                                                    *)

\* A cell is allocated and filled.
PutAlloc(p, a, v) ==
    /\ pc[p] = "idle"
    /\ a \in free
    /\ free' = free \ {a}
    /\ data' = [data EXCEPT ![a] = v]
    /\ next' = [next EXCEPT ![a] = Nil]
    /\ node' = [node EXCEPT ![p] = a]
    /\ pc' = [pc EXCEPT ![p] = "alloc"]
    /\ UNCHANGED <<head, tail, n, lock, gpc, val, cell, out, faults, chain>>

\* No room for the payload: sDBT::init returns before it sets `next` and
\* `atime`, and put() links the cell all the same.  Its memory, fresh from
\* mm_malloc, may have been a payload: `next` is any pointer, and Nil data
\* stands for key, data and atime of which some were never set.
\* (No room for the cell makes put() return ERR_BUFFER with nothing changed.)
PutShort(p, a, x) ==
    /\ pc[p] = "idle"
    /\ a \in free
    /\ faults < MaxFault
    /\ faults' = faults + 1
    /\ free' = free \ {a}
    /\ data' = [data EXCEPT ![a] = Nil]
    /\ next' = [next EXCEPT ![a] = x]
    /\ node' = [node EXCEPT ![p] = a]
    /\ pc' = [pc EXCEPT ![p] = "alloc"]
    /\ UNCHANGED <<head, tail, n, lock, gpc, val, cell, out, chain>>

\* Mutant: put() without mm_lock.
PutNoLock(p) ==
    /\ pc[p] = "alloc"
    /\ lock' = p
    /\ pc' = [pc EXCEPT ![p] = "locked"]
    /\ UNCHANGED <<head, tail, n, next, data, free, node, gpc, val, cell, out,
                   faults, chain>>

PutLock(p) ==
    /\ pc[p] = "alloc"
    /\ lock = Nil
    /\ lock' = p
    /\ pc' = [pc EXCEPT ![p] = "locked"]
    /\ UNCHANGED <<head, tail, n, next, data, free, node, gpc, val, cell, out,
                   faults, chain>>

\* First store of either branch: `tail = sdbt` or `tail->next = sdbt`.  A tail
\* that is no cell, which only faults can leave, kills the process: it then only
\* crashes.
PutLink(p) ==
    /\ pc[p] = "locked"
    /\ n = 0 \/ tail \in Addr
    /\ IF n = 0
         THEN tail' = node[p] /\ UNCHANGED next
         ELSE next' = [next EXCEPT ![tail] = node[p]] /\ UNCHANGED tail
    /\ pc' = [pc EXCEPT ![p] = "linked"]
    /\ UNCHANGED <<head, n, data, free, lock, node, gpc, val, cell, out,
                   faults, chain>>

\* Second store: `head = tail` or `tail = tail->next`.
PutMove(p) ==
    /\ pc[p] = "linked"
    /\ IF n = 0
         THEN head' = tail /\ UNCHANGED tail
         ELSE tail' = next[tail] /\ UNCHANGED head
    /\ pc' = [pc EXCEPT ![p] = "moved"]
    /\ UNCHANGED <<n, next, data, free, lock, node, gpc, val, cell, out,
                   faults, chain>>

\* Mutant: put() forgets n++.
PutNoCount(p) ==
    /\ pc[p] = "moved"
    /\ chain' = Append(chain, node[p])
    /\ pc' = [pc EXCEPT ![p] = "counted"]
    /\ UNCHANGED <<head, tail, n, next, data, free, lock, node, gpc, val, cell,
                   out, faults>>

PutCount(p) ==
    /\ pc[p] = "moved"
    /\ n' = n + 1
    /\ chain' = Append(chain, node[p])
    /\ pc' = [pc EXCEPT ![p] = "counted"]
    /\ UNCHANGED <<head, tail, next, data, free, lock, node, gpc, val, cell,
                   out, faults>>

PutUnlock(p) ==
    /\ pc[p] = "counted"
    /\ lock' = Nil
    /\ node' = [node EXCEPT ![p] = Nil]
    /\ pc' = [pc EXCEPT ![p] = "idle"]
    /\ UNCHANGED <<head, tail, n, next, data, free, gpc, val, cell, out,
                   faults, chain>>

-----------------------------------------------------------------------------
(* get() and pop(), each after an empty() that reads n and then head        *)

\* One read of empty(): an empty buffer sends the getter back to polling.
ReadN(from, to) ==
    /\ gpc = from
    /\ gpc' = IF n = 0 THEN "idle" ELSE to
    /\ UNCHANGED <<bufVars, pc, node, val, cell, out, faults, chain>>

\* Mutant: empty() trusts n alone.
ReadHeadUnchecked(from, to) ==
    /\ gpc = from
    /\ gpc' = to
    /\ UNCHANGED <<bufVars, pc, node, val, cell, out, faults, chain>>

ReadHead(from, to) ==
    /\ gpc = from
    /\ gpc' = IF head = Nil THEN "idle" ELSE to
    /\ UNCHANGED <<bufVars, pc, node, val, cell, out, faults, chain>>

GetEmptyN == ReadN("idle", "sawN")
GetEmptyHead == ReadHead("sawN", "nonempty")
PopEmptyN == ReadN("copied", "popN")
PopEmptyHead == ReadHead("popN", "wantLock")

\* Mutant: get() copies the pointer instead of the payload.
GetCopyPointer ==
    /\ gpc = "nonempty"
    /\ val' = head
    /\ gpc' = "copied"
    /\ UNCHANGED <<bufVars, pc, node, cell, out, faults, chain>>

GetCopy ==
    /\ gpc = "nonempty" /\ head # Wild
    /\ val' = data[head]
    /\ gpc' = "copied"
    /\ UNCHANGED <<bufVars, pc, node, cell, out, faults, chain>>

\* Mutant: pop() without mm_lock.
PopNoLock ==
    /\ gpc = "wantLock"
    /\ gpc' = "locked"
    /\ UNCHANGED <<bufVars, pc, node, val, cell, out, faults, chain>>

PopLock ==
    /\ gpc = "wantLock"
    /\ lock = Nil
    /\ lock' = Getter
    /\ gpc' = "locked"
    /\ UNCHANGED <<head, tail, n, next, data, free, pc, node, val, cell, out,
                   faults, chain>>

\* Mutant: pop() frees the head without moving on.
PopKeepsHead ==
    /\ gpc = "locked"
    /\ cell' = head
    /\ out' = val
    /\ chain' = IF chain = << >> THEN chain ELSE Tail(chain)
    /\ gpc' = "unlinked"
    /\ UNCHANGED <<head, tail, n, next, data, free, lock, pc, node, val, faults>>

PopUnlink ==
    /\ gpc = "locked" /\ head # Wild
    /\ cell' = head
    /\ head' = next[head]
    /\ out' = val
    /\ chain' = IF chain = << >> THEN chain ELSE Tail(chain)
    /\ gpc' = "unlinked"
    /\ UNCHANGED <<tail, n, next, data, free, lock, pc, node, val, faults>>

PopFree ==
    /\ gpc = "unlinked"
    /\ free' = free \cup {cell}
    /\ gpc' = "freed"
    /\ UNCHANGED <<head, tail, n, next, data, lock, pc, node, val, cell, out,
                   faults, chain>>

PopCount ==
    /\ gpc = "freed"
    /\ n' = n - 1
    /\ gpc' = "counted"
    /\ UNCHANGED <<head, tail, next, data, free, lock, pc, node, val, cell,
                   out, faults, chain>>

PopUnlock ==
    /\ gpc = "counted"
    /\ lock' = Nil
    /\ gpc' = "idle"
    /\ UNCHANGED <<head, tail, n, next, data, free, pc, node, val, cell, out,
                   faults, chain>>

-----------------------------------------------------------------------------
(* A process dies anywhere; esl.cc forks it again over the same segment.    *)
(* The kernel gives the lock of a dead process back (external).             *)

Released(who) == lock' = IF lock = who THEN Nil ELSE lock

PutterCrash(p) ==
    /\ pc[p] # "idle"
    /\ \/ faults < MaxFault /\ faults' = faults + 1
       \/ pc[p] = "locked" /\ n # 0 /\ tail \notin Addr /\ UNCHANGED faults
    /\ Released(p)
    /\ pc' = [pc EXCEPT ![p] = "idle"]
    /\ node' = [node EXCEPT ![p] = Nil]
    /\ UNCHANGED <<head, tail, n, next, data, free, gpc, val, cell, out, chain>>

\* The getter is about to follow a wild head, or a pointer of a cell whose
\* payload is not all there (get's memcpy, destroy).
Astray ==
    \/ gpc \in {"nonempty", "locked"} /\ head = Wild
    \/ gpc = "nonempty" /\ head \in Addr /\ data[head] = Nil
    \/ gpc = "unlinked" /\ data[cell] = Nil

GetterCrash ==
    /\ gpc # "idle"
    /\ \/ faults < MaxFault /\ faults' = faults + 1
       \/ Astray /\ UNCHANGED faults
    /\ Released(Getter)
    /\ gpc' = "idle" /\ val' = Nil /\ cell' = Nil
    /\ UNCHANGED <<head, tail, n, next, data, free, pc, node, out, chain>>

-----------------------------------------------------------------------------
Put(p) ==
    \/ \E a \in Addr, v \in Val : PutAlloc(p, a, v)
    \/ \E a \in Addr, x \in Addr \cup {Nil, Wild} : PutShort(p, a, x)
    \/ PutLock(p) \/ PutLink(p) \/ PutMove(p) \/ PutCount(p) \/ PutUnlock(p)

GetAndPop ==
    \/ GetEmptyN \/ GetEmptyHead \/ GetCopy
    \/ PopEmptyN \/ PopEmptyHead
    \/ PopLock \/ PopUnlink \/ PopFree \/ PopCount \/ PopUnlock

Next ==
    \/ \E p \in Putters : Put(p)
    \/ GetAndPop
    \/ \E p \in Putters : PutterCrash(p)
    \/ GetterCrash

Spec == Init /\ [][Next]_vars

\* The getter polls forever and a process inside put() finishes it; nobody is
\* obliged to start a put().
Fairness ==
    /\ WF_vars(GetAndPop)
    /\ \A p \in Putters :
         WF_vars(PutLock(p) \/ PutLink(p) \/ PutMove(p) \/ PutCount(p)
                 \/ PutUnlock(p))

FairSpec == Spec /\ Fairness

-----------------------------------------------------------------------------
(* Properties.  Most hold until a process dies inside put() or pop(), or an *)
(* allocation in put() fails.                                               *)

Holding == {"locked", "linked", "moved", "counted"}   \* putter owns the lock
Popping == {"locked", "unlinked", "freed", "counted"} \* getter owns the lock
OwnCell == {"alloc", "locked", "linked", "moved"}     \* cell not yet in the list
Sure    == {"sawN", "nonempty", "copied", "popN", "wantLock", "locked"}
Copied  == {"copied", "popN", "wantLock", "locked"}

CellSeq(s) == s \in Seq(Addr)

\* What a shared pointer may hold: until something fails, never a wild value.
Ptr == Addr \cup {Nil} \cup (IF faults = 0 THEN {} ELSE {Wild})

\* Type invariant of the fields of sharedBuf and of the two sides' registers:
\* every pointer in the shared memory is a cell or NULL, or, after a fault,
\* possibly the garbage that sDBT::init left in `next`; the cell that pop frees
\* and the cells that put links are always cells.
TypeOK ==
    /\ head \in Ptr /\ tail \in Ptr /\ n \in Nat
    /\ next \in [Addr -> Ptr]
    /\ data \in [Addr -> Val \cup {Nil}]
    /\ free \in SUBSET Addr
    /\ lock \in Putters \cup {Getter, Nil}
    /\ pc \in [Putters -> PutSteps]
    /\ node \in [Putters -> Addr \cup {Nil}]
    /\ gpc \in GetSteps /\ val \in Val \cup {Nil} /\ cell \in Addr \cup {Nil}
    /\ out \in Val \cup {Nil}
    /\ faults \in Nat
    /\ CellSeq(chain)

LockOK ==
    /\ \A p \in Putters : pc[p] \in Holding <=> lock = p
    /\ gpc \in Popping <=> lock = Getter

\* Cells are in one place only: in the list, in one putter's hands, with the
\* getter that frees it, or in the pool.
CellsOK ==
    /\ \A i \in 1 .. Len(chain) : chain[i] \notin free
    /\ \A i, j \in 1 .. Len(chain) : chain[i] = chain[j] => i = j
    /\ \A p \in Putters : pc[p] \in OwnCell =>
          /\ node[p] \in Addr \ free
          /\ data[node[p]] \in Val
          /\ \A i \in 1 .. Len(chain) : chain[i] # node[p]
          /\ \A q \in Putters : pc[q] \in OwnCell /\ node[q] = node[p] => q = p
    /\ gpc = "unlinked" =>
          /\ cell \in Addr \ free /\ data[cell] \in Val
          /\ \A i \in 1 .. Len(chain) : chain[i] # cell
          /\ \A p \in Putters : pc[p] \in OwnCell => node[p] # cell

\* n counts the list, head and tail are its ends, next links it.
LinksOK ==
    /\ n = Len(chain) + (IF gpc \in {"unlinked", "freed"} THEN 1 ELSE 0)
    /\ \A i \in 1 .. Len(chain) : i < Len(chain) => next[chain[i]] = chain[i + 1]
    /\ \A i \in 1 .. Len(chain) : data[chain[i]] \in Val
    /\ chain # << >> => head = chain[1]
    /\ chain # << >> /\ (\A p \in Putters : pc[p] # "moved") =>
          tail = chain[Len(chain)]
    /\ \A p \in Putters : pc[p] = "linked" =>
          IF n = 0 THEN tail = node[p] ELSE next[tail] = node[p]
    /\ \A p \in Putters : pc[p] = "moved" =>
          /\ tail = node[p]
          /\ IF n = 0 THEN head = node[p] ELSE next[chain[Len(chain)]] = node[p]

\* What the getter saw without the lock still holds when it uses it.
GetterOK ==
    /\ gpc \in Sure => chain # << >>
    /\ gpc \in Copied => val = data[chain[1]]

\* The list is well formed at every step of every process although empty() and
\* get() read it without the lock (sharedBuf::put, get, pop, empty).
ListOK == faults = 0 => LockOK /\ CellsOK /\ LinksOK /\ GetterOK

\* get() and pop() follow head only to a cell that is allocated and holds a
\* tuple: no NULL dereference and no use after mm_free.
NoBadDeref ==
    faults = 0 /\ gpc \in {"nonempty", "locked"} =>
        /\ head \in Addr \ free
        /\ data[head] \in Val

\* Whatever a process that died or an allocation that failed has left half done,
\* the getter never follows a NULL head: empty() tests head as well as n.
\* (NULL only: a wild head passes both tests.)
NoNullDeref == gpc \in {"nonempty", "locked"} => head # Nil

\* The buffer behaves as a FIFO queue for its users.
Queue == INSTANCE Fifo WITH
            queue <- [i \in 1 .. Len(chain) |-> data[chain[i]]],
            out <- out, NoVal <- Nil

IsFifo == Queue!Spec

\* A tuple that was put is eventually taken: the getter, which polls without
\* the lock, never misses it for good.
Delivered == chain # << >> ~> gpc = "unlinked"
=============================================================================
