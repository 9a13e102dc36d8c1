-------------------------- MODULE SharedBufProofs ---------------------------
(***************************************************************************)
(* Proofs about SharedBuf for every set of writers, every number of cells  *)
(* and every bound on faults.                                              *)
(***************************************************************************)
EXTENDS SharedBuf, TLAPS

(* What survives faults: the lock, and the pointers a process is about to   *)
(* follow.  TypeOK is not inductive without it (next[tail], data[head]).    *)

\* A writer that has a cell has one, and after its first store tail is a cell.
PutterSafe ==
    \A p \in Putters :
        /\ pc[p] \in OwnCell => node[p] \in Addr
        /\ pc[p] = "linked" => tail \in Addr

\* The reader has seen head # NULL, then n # 0, and only it can undo either.
GetterSafe ==
    /\ gpc \in {"nonempty", "copied", "popN", "wantLock", "locked"} => head # Nil
    /\ gpc \in {"popN", "wantLock", "locked", "unlinked", "freed"} => n > 0
    /\ gpc \in {"unlinked", "freed"} => cell \in Addr

BaseInv == TypeOK /\ LockOK /\ PutterSafe /\ GetterSafe

-----------------------------------------------------------------------------
LEMMA BaseInit == Init => BaseInv
  <1> SUFFICES ASSUME Init PROVE BaseInv
    OBVIOUS
  <1> USE SharedBufAssumption
  <1>1. TypeOK
    BY DEF Init, TypeOK, CellSeq, PutSteps, GetSteps, Ptr
  <1>2. LockOK
    BY DEF Init, LockOK, Holding, Popping
  <1>3. PutterSafe /\ GetterSafe
    BY DEF Init, PutterSafe, GetterSafe, OwnCell
  <1> QED
    BY <1>1, <1>2, <1>3 DEF BaseInv

\* Every step of a writer keeps the types, the lock and the pointers safe.
LEMMA BasePut ==
    ASSUME BaseInv, NEW p \in Putters, Put(p) PROVE BaseInv'
  <1> USE SharedBufAssumption DEF BaseInv
  <1> USE DEF OwnCell, Holding, Popping, PutSteps, GetSteps, CellSeq, Ptr
  <1>1. CASE \E a \in Addr, v \in Val : PutAlloc(p, a, v)
    <2> PICK a \in Addr, v \in Val : PutAlloc(p, a, v)
      BY <1>1
    <2>1. TypeOK'
      BY DEF TypeOK, PutAlloc
    <2>2. LockOK'
      BY DEF TypeOK, LockOK, PutAlloc
    <2>3. PutterSafe' /\ GetterSafe'
      BY DEF TypeOK, PutterSafe, GetterSafe, PutAlloc
    <2> QED BY <2>1, <2>2, <2>3
  <1>2. CASE \E a \in Addr, x \in Addr \cup {Nil, Wild} : PutShort(p, a, x)
    <2> PICK a \in Addr, x \in Addr \cup {Nil, Wild} : PutShort(p, a, x)
      BY <1>2
    <2>1. TypeOK'
      BY DEF TypeOK, PutShort
    <2>2. LockOK'
      BY DEF TypeOK, LockOK, PutShort
    <2>3. PutterSafe' /\ GetterSafe'
      BY DEF TypeOK, PutterSafe, GetterSafe, PutShort
    <2> QED BY <2>1, <2>2, <2>3
  <1>3. CASE PutLock(p)
    <2>1. TypeOK'
      BY <1>3 DEF TypeOK, PutLock
    <2>2. LockOK'
      BY <1>3 DEF TypeOK, LockOK, PutLock
    <2>3. PutterSafe' /\ GetterSafe'
      BY <1>3 DEF TypeOK, PutterSafe, GetterSafe, PutLock
    <2> QED BY <2>1, <2>2, <2>3
  <1>4. CASE PutLink(p)
    <2>1. TypeOK'
      BY <1>4 DEF TypeOK, PutLink, PutterSafe
    <2>2. LockOK'
      BY <1>4 DEF TypeOK, LockOK, PutLink
    <2>3. PutterSafe' /\ GetterSafe'
      BY <1>4 DEF TypeOK, PutterSafe, GetterSafe, LockOK, PutLink
    <2> QED BY <2>1, <2>2, <2>3
  <1>5. CASE PutMove(p)
    <2>1. TypeOK'
      BY <1>5 DEF TypeOK, PutMove, PutterSafe
    <2>2. LockOK'
      BY <1>5 DEF TypeOK, LockOK, PutMove
    <2>3. PutterSafe' /\ GetterSafe'
      BY <1>5 DEF TypeOK, PutterSafe, GetterSafe, LockOK, PutMove
    <2> QED BY <2>1, <2>2, <2>3
  <1>6. CASE PutCount(p)
    <2>1. TypeOK'
      BY <1>6 DEF TypeOK, PutCount, PutterSafe
    <2>2. LockOK'
      BY <1>6 DEF TypeOK, LockOK, PutCount
    <2>3. PutterSafe' /\ GetterSafe'
      BY <1>6 DEF TypeOK, PutterSafe, GetterSafe, PutCount
    <2> QED BY <2>1, <2>2, <2>3
  <1>7. CASE PutUnlock(p)
    <2>1. TypeOK'
      BY <1>7 DEF TypeOK, PutUnlock
    <2>2. LockOK'
      BY <1>7 DEF TypeOK, LockOK, PutUnlock
    <2>3. PutterSafe' /\ GetterSafe'
      BY <1>7 DEF TypeOK, PutterSafe, GetterSafe, PutUnlock
    <2> QED BY <2>1, <2>2, <2>3
  <1> QED
    BY <1>1, <1>2, <1>3, <1>4, <1>5, <1>6, <1>7 DEF Put

\* Every step of the reader does.
LEMMA BaseGet == ASSUME BaseInv, GetAndPop PROVE BaseInv'
  <1> USE SharedBufAssumption DEF BaseInv
  <1> USE DEF OwnCell, Holding, Popping, PutSteps, GetSteps, CellSeq, Ptr
  <1>1. CASE GetEmptyN \/ GetEmptyHead \/ PopEmptyN \/ PopEmptyHead
    BY <1>1 DEF GetEmptyN, GetEmptyHead, PopEmptyN, PopEmptyHead, ReadN,
                ReadHead, bufVars, TypeOK, LockOK, PutterSafe, GetterSafe
  <1>2. CASE GetCopy
    BY <1>2 DEF GetCopy, bufVars, TypeOK, LockOK, PutterSafe, GetterSafe
  <1>3. CASE PopLock
    BY <1>3 DEF PopLock, TypeOK, LockOK, PutterSafe, GetterSafe
  <1>4. CASE PopUnlink
    BY <1>4 DEF PopUnlink, TypeOK, LockOK, PutterSafe, GetterSafe
  <1>5. CASE PopFree
    BY <1>5 DEF PopFree, TypeOK, LockOK, PutterSafe, GetterSafe
  <1>6. CASE PopCount
    BY <1>6 DEF PopCount, TypeOK, LockOK, PutterSafe, GetterSafe
  <1>7. CASE PopUnlock
    BY <1>7 DEF PopUnlock, TypeOK, LockOK, PutterSafe, GetterSafe
  <1> QED
    BY <1>1, <1>2, <1>3, <1>4, <1>5, <1>6, <1>7 DEF GetAndPop

LEMMA BaseStep == BaseInv /\ [Next]_vars => BaseInv'
  <1> SUFFICES ASSUME BaseInv, [Next]_vars PROVE BaseInv'
    OBVIOUS
  <1> USE DEF OwnCell, Holding, Popping, PutSteps, GetSteps, CellSeq, Ptr
  <1>1. CASE \E p \in Putters : Put(p)
    BY <1>1, BasePut
  <1>2. CASE GetAndPop
    BY <1>2, BaseGet
  <1>3. CASE \E p \in Putters : PutterCrash(p)
    BY <1>3, SharedBufAssumption
    DEF PutterCrash, Released, BaseInv, TypeOK, LockOK, PutterSafe, GetterSafe
  <1>4. CASE GetterCrash
    BY <1>4, SharedBufAssumption
    DEF GetterCrash, Released, BaseInv, TypeOK, LockOK, PutterSafe, GetterSafe
  <1>5. CASE UNCHANGED vars
    BY <1>5 DEF vars, BaseInv, TypeOK, LockOK, PutterSafe, GetterSafe
  <1> QED
    BY <1>1, <1>2, <1>3, <1>4, <1>5 DEF Next

\* Type correctness of sharedBuf, faults included: the shared pointers are cells
\* or NULL, or, after a fault, the garbage of a short allocation, and nothing
\* else; what put() links and pop() frees are cells, and n never falls below 0.
THEOREM TypeCorrect == Spec => []TypeOK
  <1>1. Init => BaseInv
    BY BaseInit
  <1>2. BaseInv /\ [Next]_vars => BaseInv'
    BY BaseStep
  <1>3. BaseInv => TypeOK
    BY DEF BaseInv
  <1> QED
    BY <1>1, <1>2, <1>3, PTL DEF Spec

\* The reader never follows a NULL head, whatever a process that died or an
\* allocation that failed has left behind (sharedBuf::empty tests n and head).
THEOREM NullSafe == Spec => []NoNullDeref
  <1>1. Init => BaseInv
    BY BaseInit
  <1>2. BaseInv /\ [Next]_vars => BaseInv'
    BY BaseStep
  <1>3. BaseInv => NoNullDeref
    BY DEF BaseInv, GetterSafe, NoNullDeref
  <1> QED
    BY <1>1, <1>2, <1>3, PTL DEF Spec
-----------------------------------------------------------------------------
(* The list itself, as long as nothing has failed.                          *)

ListInv == CellsOK /\ LinksOK /\ GetterOK

LEMMA ListInit == Init => ListOK
  BY BaseInit DEF Init, ListOK, BaseInv, CellsOK, LinksOK, GetterOK, OwnCell,
                  Sure, Copied

\* A step of put() keeps the list well formed and does not surprise the reader.
LEMMA ListPut ==
    ASSUME BaseInv, ListInv, NEW p \in Putters, Put(p), faults' = 0
    PROVE  ListInv'
  <1> USE SharedBufAssumption DEF BaseInv, ListInv, TypeOK, CellSeq
  <1> USE DEF OwnCell, Holding, Popping, Sure, Copied
  <1>1. CASE \E a \in Addr, v \in Val : PutAlloc(p, a, v)
    <2> PICK a \in Addr, v \in Val : PutAlloc(p, a, v)
      BY <1>1
    <2>1. CellsOK'
      <3> USE DEF PutAlloc
      <3>1. /\ \A i \in 1 .. Len(chain') : chain'[i] \notin free' /\ chain'[i] # a
            /\ \A i, j \in 1 .. Len(chain') : chain'[i] = chain'[j] => i = j
        BY DEF CellsOK
      <3>2. \A q \in Putters : pc'[q] \in OwnCell =>
               /\ node'[q] \in Addr \ free'
               /\ data'[node'[q]] \in Val
               /\ \A i \in 1 .. Len(chain') : chain'[i] # node'[q]
        BY <3>1 DEF CellsOK
      <3>3. \A q \in Putters : q # p /\ pc'[q] \in OwnCell =>
               pc[q] \in OwnCell /\ node'[q] = node[q] /\ node[q] # a
        BY DEF CellsOK
      <3>4. node'[p] = a
        OBVIOUS
      <3>5. \A q, r \in Putters :
               pc'[q] \in OwnCell /\ pc'[r] \in OwnCell /\ node'[r] = node'[q] => r = q
        BY <3>3, <3>4 DEF CellsOK
      <3>6. gpc' = "unlinked" =>
               /\ cell' \in Addr \ free'
               /\ \A i \in 1 .. Len(chain') : chain'[i] # cell'
               /\ \A q \in Putters : pc'[q] \in OwnCell => node'[q] # cell'
        BY <3>3, <3>4 DEF CellsOK
      <3> QED
        BY <3>1, <3>2, <3>5, <3>6 DEF CellsOK
    <2>a. \A i \in 1 .. Len(chain) : chain[i] # a
      BY DEF CellsOK, PutAlloc
    <2>b. ASSUME NEW q \in Putters, pc[q] = "linked", n # 0 PROVE tail # a
      <3>1. lock = q /\ gpc \notin Popping
        BY <2>b DEF LockOK
      <3>2. chain # << >> /\ \A r \in Putters : pc[r] # "moved"
        BY <2>b, <3>1 DEF LockOK, LinksOK
      <3> QED
        BY <3>2, <2>a DEF LinksOK
    <2>2. LinksOK'
      <3> USE DEF PutAlloc
      <3>1. /\ n' = Len(chain') + (IF gpc' \in {"unlinked", "freed"} THEN 1 ELSE 0)
            /\ chain' # << >> => head' = chain'[1]
            /\ chain' # << >> /\ (\A q \in Putters : pc'[q] # "moved") =>
                  tail' = chain'[Len(chain')]
        BY DEF LinksOK
      <3>2. \A i \in 1 .. Len(chain') :
               /\ i < Len(chain') => next'[chain'[i]] = chain'[i + 1]
               /\ data'[chain'[i]] \in Val
        BY <2>a DEF LinksOK
      <3>3. \A q \in Putters : pc'[q] = "linked" =>
               IF n' = 0 THEN tail' = node'[q] ELSE next'[tail'] = node'[q]
        BY <2>b DEF LinksOK
      <3>4. \A q \in Putters : pc'[q] = "moved" =>
               /\ tail' = node'[q]
               /\ IF n' = 0 THEN head' = node'[q]
                            ELSE next'[chain'[Len(chain')]] = node'[q]
        <4> SUFFICES ASSUME NEW q \in Putters, pc'[q] = "moved"
                     PROVE  /\ tail' = node'[q]
                            /\ IF n' = 0 THEN head' = node'[q]
                                 ELSE next'[chain'[Len(chain')]] = node'[q]
          OBVIOUS
        <4>1. q # p /\ pc[q] = "moved"
          OBVIOUS
        <4>2. lock = q /\ gpc \notin Popping
          BY <4>1 DEF LockOK
        <4>3. n # 0 => Len(chain) \in 1 .. Len(chain)
          BY <4>2 DEF LinksOK
        <4> QED
          BY <4>1, <4>3, <2>a DEF LinksOK
      <3> QED
        BY <3>1, <3>2, <3>3, <3>4 DEF LinksOK
    <2>3. GetterOK'
      BY DEF CellsOK, GetterOK, PutAlloc
    <2> QED BY <2>1, <2>2, <2>3
  <1>2. CASE \E a \in Addr, x \in Addr \cup {Nil, Wild} : PutShort(p, a, x)
    BY <1>2 DEF PutShort
  <1>3. CASE PutLock(p)
    <2>1. CellsOK'
      BY <1>3 DEF CellsOK, PutLock
    <2>2. LinksOK'
      BY <1>3 DEF CellsOK, LinksOK, LockOK, PutterSafe, PutLock
    <2>3. GetterOK'
      BY <1>3 DEF GetterOK, PutLock
    <2> QED BY <2>1, <2>2, <2>3
  <1>4. CASE PutLink(p)
    <2>1. CellsOK'
      BY <1>4 DEF CellsOK, PutLink
    <2>2. LinksOK'
      BY <1>4 DEF CellsOK, LinksOK, LockOK, PutterSafe, PutLink
    <2>3. GetterOK'
      BY <1>4 DEF GetterOK, PutLink
    <2> QED BY <2>1, <2>2, <2>3
  <1>5. CASE PutMove(p)
    <2>1. CellsOK'
      BY <1>5 DEF CellsOK, PutMove
    <2>2. LinksOK'
      BY <1>5 DEF CellsOK, LinksOK, LockOK, PutterSafe, PutMove
    <2>3. GetterOK'
      BY <1>5 DEF GetterOK, PutMove
    <2> QED BY <2>1, <2>2, <2>3
  <1>6. CASE PutCount(p)
    <2>1. CellsOK'
      BY <1>6 DEF CellsOK, PutCount
    <2>2. LinksOK'
      <3> USE <1>6 DEF PutCount
      <3>1. lock = p /\ gpc \notin Popping /\ \A q \in Putters : q # p => pc[q] \notin Holding
        BY DEF LockOK
      <3>2. n = Len(chain) /\ node[p] \in Addr /\ tail = node[p]
        BY <3>1 DEF LinksOK, PutterSafe
      <3>3. /\ chain' \in Seq(Addr) /\ Len(chain') = Len(chain) + 1
            /\ chain'[Len(chain')] = node[p]
            /\ \A i \in 1 .. Len(chain) : chain'[i] = chain[i]
        BY <3>2
      <3>4. n' = Len(chain') + (IF gpc' \in {"unlinked", "freed"} THEN 1 ELSE 0)
        BY <3>1, <3>2, <3>3
      <3>5. \A i \in 1 .. Len(chain') : i < Len(chain') => next'[chain'[i]] = chain'[i + 1]
        <4> SUFFICES ASSUME NEW i \in 1 .. Len(chain'), i < Len(chain')
                     PROVE  next'[chain'[i]] = chain'[i + 1]
          OBVIOUS
        <4>1. /\ next' = next /\ Len(chain) \in Nat
              /\ \A j \in 1 .. Len(chain) : j < Len(chain) => next[chain[j]] = chain[j + 1]
          BY DEF LinksOK
        <4>2. chain'[i] = chain[i] /\ i \in 1 .. Len(chain)
          BY ONLY <3>3, <4>1, i \in 1 .. Len(chain'), i < Len(chain')
        <4>3. CASE i < Len(chain)
          <5>1. chain'[i + 1] = chain[i + 1]
            BY ONLY <3>3, <4>1, <4>2, <4>3
          <5>2. next[chain[i]] = chain[i + 1]
            BY ONLY <4>1, <4>2, <4>3
          <5> QED
            BY ONLY <4>1, <4>2, <5>1, <5>2
        <4>4. CASE i = Len(chain)
          BY <3>2, <3>3, <4>2, <4>4 DEF LinksOK
        <4> QED
          BY ONLY <4>1, <4>2, <4>3, <4>4
      <3>6. \A i \in 1 .. Len(chain') : data'[chain'[i]] \in Val
        BY <3>3 DEF LinksOK, CellsOK
      <3>7. head' = chain'[1]
        BY <3>2, <3>3 DEF LinksOK
      <3>8. \A q \in Putters : pc'[q] \notin {"linked", "moved"}
        BY <3>1
      <3> QED
        BY <3>2, <3>3, <3>4, <3>5, <3>6, <3>7, <3>8 DEF LinksOK
    <2>3. GetterOK'
      BY <1>6, SMTT(20) DEF GetterOK, PutCount
    <2> QED BY <2>1, <2>2, <2>3
  <1>7. CASE PutUnlock(p)
    <2>1. CellsOK'
      BY <1>7 DEF CellsOK, PutUnlock
    <2>2. LinksOK'
      BY <1>7 DEF CellsOK, LinksOK, LockOK, PutterSafe, PutUnlock
    <2>3. GetterOK'
      BY <1>7 DEF GetterOK, PutUnlock
    <2> QED BY <2>1, <2>2, <2>3
  <1> QED
    BY <1>1, <1>2, <1>3, <1>4, <1>5, <1>6, <1>7 DEF Put

\* A step of get() or pop() does too.
LEMMA ListGet ==
    ASSUME BaseInv, ListInv, GetAndPop, faults' = 0
    PROVE  ListInv'
  <1> USE SharedBufAssumption DEF BaseInv, ListInv, TypeOK, CellSeq
  <1> USE DEF OwnCell, Holding, Popping, Sure, Copied
  <1>1. CASE GetEmptyN \/ GetEmptyHead \/ PopEmptyN \/ PopEmptyHead
    <2> USE DEF GetEmptyN, GetEmptyHead, PopEmptyN, PopEmptyHead, ReadN,
                ReadHead, bufVars
    <2>1. CellsOK'
      BY <1>1 DEF CellsOK
    <2>2. LinksOK'
      BY <1>1 DEF LinksOK
    <2>3. GetterOK'
      BY <1>1 DEF GetterOK, LinksOK
    <2> QED BY <2>1, <2>2, <2>3
  <1>2. CASE GetCopy
    <2>1. CellsOK'
      BY <1>2 DEF CellsOK, GetterOK, LinksOK, LockOK, GetCopy, bufVars
    <2>2. LinksOK'
      BY <1>2 DEF CellsOK, LinksOK, GetterOK, LockOK, GetCopy, bufVars
    <2>3. GetterOK'
      BY <1>2 DEF GetterOK, LinksOK, GetCopy, bufVars
    <2> QED BY <2>1, <2>2, <2>3
  <1>3. CASE PopLock
    <2>1. CellsOK'
      BY <1>3 DEF CellsOK, GetterOK, LinksOK, LockOK, PopLock
    <2>2. LinksOK'
      BY <1>3 DEF CellsOK, LinksOK, GetterOK, LockOK, PopLock
    <2>3. GetterOK'
      BY <1>3 DEF GetterOK, LinksOK, PopLock
    <2> QED BY <2>1, <2>2, <2>3
  <1>4. CASE PopUnlink
    <2>1. CellsOK'
      BY <1>4 DEF CellsOK, GetterOK, LinksOK, LockOK, PopUnlink
    <2>2. LinksOK'
      <3> USE <1>4 DEF PopUnlink
      <3>1. lock = Getter /\ \A q \in Putters : pc[q] \notin Holding
        BY DEF LockOK
      <3>2. chain # << >> /\ chain' = Tail(chain)
        BY DEF GetterOK
      <3>3. /\ chain' \in Seq(Addr) /\ Len(chain') = Len(chain) - 1
            /\ \A i \in 1 .. Len(chain') : chain'[i] = chain[i + 1]
        BY <3>2
      <3>4. n' = Len(chain') + (IF gpc' \in {"unlinked", "freed"} THEN 1 ELSE 0)
        BY <3>3 DEF LinksOK
      <3>5. \A i \in 1 .. Len(chain') :
               /\ i < Len(chain') => next'[chain'[i]] = chain'[i + 1]
               /\ data'[chain'[i]] \in Val
        <4>1. /\ next' = next /\ data' = data /\ Len(chain) \in Nat
              /\ \A i \in 1 .. Len(chain) : i < Len(chain) => next[chain[i]] = chain[i + 1]
              /\ \A i \in 1 .. Len(chain) : data[chain[i]] \in Val
          BY DEF LinksOK
        <4>2. PICK l, k : l = Len(chain) /\ k = Len(chain')
          OBVIOUS
        <4>3. /\ l \in Nat /\ k = l - 1
              /\ \A i \in 1 .. k : chain'[i] = chain[i + 1]
              /\ \A i \in 1 .. l : i < l => next[chain[i]] = chain[i + 1]
              /\ \A i \in 1 .. l : data[chain[i]] \in Val
          BY <3>3, <4>1, <4>2
        <4>4. ASSUME NEW i \in 1 .. k
              PROVE  /\ i < k => next[chain'[i]] = chain'[i + 1]
                     /\ data[chain'[i]] \in Val
          <5>1. i + 1 \in 1 .. l /\ (i < k => i + 1 < l /\ i + 1 \in 1 .. k)
            BY <4>3
          <5>2. chain'[i] = chain[i + 1] /\ (i < k => chain'[i + 1] = chain[(i + 1) + 1])
            BY <4>3, <5>1
          <5> QED
            BY <4>3, <5>1, <5>2
        <4> QED
          BY <4>1, <4>2, <4>4
      <3>6. chain' # << >> => head' = chain'[1]
        <4>1. head = chain[1]
          BY <3>2 DEF LinksOK
        <4>2. chain' # << >> => 1 < Len(chain) /\ 1 \in 1 .. Len(chain) /\ 1 \in 1 .. Len(chain')
          BY <3>3
        <4> QED
          BY <4>1, <4>2, <3>3 DEF LinksOK
      <3>7. chain' # << >> => tail' = chain'[Len(chain')]
        <4>1. tail = chain[Len(chain)]
          BY <3>1, <3>2 DEF LinksOK
        <4> QED
          BY <4>1, <3>3
      <3> QED
        BY <3>1, <3>4, <3>5, <3>6, <3>7 DEF LinksOK
    <2>3. GetterOK'
      BY <1>4 DEF GetterOK, LinksOK, PopUnlink
    <2> QED BY <2>1, <2>2, <2>3
  <1>5. CASE PopFree
    <2>1. CellsOK'
      BY <1>5 DEF CellsOK, GetterOK, LinksOK, LockOK, PopFree
    <2>2. LinksOK'
      BY <1>5 DEF CellsOK, LinksOK, GetterOK, LockOK, PopFree
    <2>3. GetterOK'
      BY <1>5 DEF GetterOK, LinksOK, PopFree
    <2> QED BY <2>1, <2>2, <2>3
  <1>6. CASE PopCount
    <2>1. CellsOK'
      BY <1>6 DEF CellsOK, GetterOK, LinksOK, LockOK, PopCount
    <2>2. LinksOK'
      BY <1>6 DEF CellsOK, LinksOK, GetterOK, LockOK, PopCount
    <2>3. GetterOK'
      BY <1>6 DEF GetterOK, LinksOK, PopCount
    <2> QED BY <2>1, <2>2, <2>3
  <1>7. CASE PopUnlock
    <2>1. CellsOK'
      BY <1>7 DEF CellsOK, GetterOK, LinksOK, LockOK, PopUnlock
    <2>2. LinksOK'
      BY <1>7 DEF CellsOK, LinksOK, GetterOK, LockOK, PopUnlock
    <2>3. GetterOK'
      BY <1>7 DEF GetterOK, LinksOK, PopUnlock
    <2> QED BY <2>1, <2>2, <2>3
  <1> QED
    BY <1>1, <1>2, <1>3, <1>4, <1>5, <1>6, <1>7 DEF GetAndPop

LEMMA ListStep == BaseInv /\ ListOK /\ [Next]_vars => ListOK'
  <1> SUFFICES ASSUME BaseInv, ListOK, [Next]_vars, faults' = 0
               PROVE  LockOK' /\ ListInv'
    BY DEF ListOK, ListInv
  <1>1. LockOK'
    BY BaseStep DEF BaseInv
  <1>2. CASE \E p \in Putters : Put(p)
    <2> PICK p \in Putters : Put(p)
      BY <1>2
    <2>1. faults = 0
      BY DEF Put, PutAlloc, PutShort, PutLock, PutLink, PutMove, PutCount,
             PutUnlock, BaseInv, TypeOK
    <2> QED
      BY <1>1, <2>1, ListPut DEF ListOK, ListInv
  <1>3. CASE GetAndPop
    <2>1. faults = 0
      BY <1>3 DEF GetAndPop, GetEmptyN, GetEmptyHead, PopEmptyN, PopEmptyHead,
         ReadN, ReadHead, GetCopy, PopLock, PopUnlink, PopFree, PopCount, PopUnlock
    <2> QED
      BY <1>1, <1>3, <2>1, ListGet DEF ListOK, ListInv
  <1>4. CASE \E p \in Putters : PutterCrash(p)
    <2> PICK p \in Putters : PutterCrash(p)
      BY <1>4
    <2>1. faults = 0 /\ pc[p] = "locked" /\ n # 0 /\ tail \notin Addr
      BY DEF PutterCrash, BaseInv, TypeOK
    <2>2. lock = p /\ gpc \notin Popping
      BY <2>1, SharedBufAssumption DEF BaseInv, LockOK, TypeOK, Holding
    <2>3. chain # << >> /\ (\A q \in Putters : pc[q] # "moved")
      BY <2>1, <2>2 DEF ListOK, LinksOK, Popping, BaseInv, LockOK, TypeOK,
                        CellSeq, Holding
    <2>4. tail \in Addr
      BY <2>1, <2>3 DEF ListOK, LinksOK, BaseInv, TypeOK, CellSeq
    <2> QED
      BY <2>1, <2>4, SharedBufAssumption
  <1>5. CASE GetterCrash
    BY <1>5, SharedBufAssumption DEF GetterCrash, Astray, BaseInv, TypeOK, Ptr, ListOK,
       CellsOK, LinksOK, GetterOK, Sure, CellSeq
  <1>6. CASE UNCHANGED vars
    BY <1>1, <1>6 DEF vars, ListOK, ListInv, CellsOK, LinksOK, GetterOK
  <1> QED
    BY <1>2, <1>3, <1>4, <1>5, <1>6 DEF Next

\* The invariant of sharedBuf, for any number of writers: until something fails
\* the cells from head to tail are exactly the tuples put and not yet popped.
THEOREM ListCorrect == Spec => []ListOK
  <1>1. Init => BaseInv /\ ListOK
    BY BaseInit, ListInit
  <1>2. BaseInv /\ ListOK /\ [Next]_vars => (BaseInv /\ ListOK)'
    BY BaseStep, ListStep
  <1> QED
    BY <1>1, <1>2, PTL DEF Spec

\* The unlocked reads of get() and pop() are safe: the head they follow is an
\* allocated cell that holds a tuple.
THEOREM DerefSafe == Spec => []NoBadDeref
  <1>1. Init => BaseInv /\ ListOK
    BY BaseInit, ListInit
  <1>2. BaseInv /\ ListOK /\ [Next]_vars => (BaseInv /\ ListOK)'
    BY BaseStep, ListStep
  <1>3. BaseInv /\ ListOK => NoBadDeref
    BY DEF BaseInv, TypeOK, CellSeq, ListOK, CellsOK, LinksOK, GetterOK, Sure,
           NoBadDeref
  <1> QED
    BY <1>1, <1>2, <1>3, PTL DEF Spec

-----------------------------------------------------------------------------
(* Refinement: until something fails, the buffer is a FIFO queue.           *)

Contents == [i \in 1 .. Len(chain) |-> data[chain[i]]]

LEMMA ContentsAppend ==
    ASSUME BaseInv, ListInv, NEW p \in Putters, PutCount(p)
    PROVE  Contents' = Append(Contents, data[node[p]]) /\ data[node[p]] \in Val
  <1> USE SharedBufAssumption DEF BaseInv, TypeOK, CellSeq, PutCount
  <1>1. node[p] \in Addr /\ data[node[p]] \in Val
    BY DEF ListInv, CellsOK, OwnCell
  <1>2. /\ Len(chain') = Len(chain) + 1
        /\ chain'[Len(chain) + 1] = node[p]
        /\ \A i \in 1 .. Len(chain) : chain'[i] = chain[i]
    BY <1>1
  <1>3. Contents \in Seq(Val \cup {Nil}) /\ Len(Contents) = Len(chain)
    BY DEF Contents
  <1>4. Contents' = [i \in 1 .. Len(chain) + 1 |->
                        IF i <= Len(chain) THEN data[chain[i]] ELSE data[node[p]]]
    BY <1>2 DEF Contents
  <1>5. Append(Contents, data[node[p]]) =
           [i \in 1 .. Len(chain) + 1 |->
                IF i <= Len(chain) THEN data[chain[i]] ELSE data[node[p]]]
    BY <1>1, <1>3 DEF Contents
  <1> QED
    BY <1>1, <1>4, <1>5

LEMMA ContentsTail ==
    ASSUME BaseInv, ListInv, PopUnlink
    PROVE  /\ Contents # << >>
           /\ out' = Head(Contents)
           /\ Contents' = Tail(Contents)
  <1> USE SharedBufAssumption DEF BaseInv, TypeOK, CellSeq, PopUnlink
  <1>1. chain # << >> /\ chain' = Tail(chain) /\ val = data[chain[1]]
    BY DEF ListInv, GetterOK, Sure, Copied
  <1>2. Contents \in Seq(Val \cup {Nil}) /\ Len(Contents) = Len(chain)
    BY DEF Contents
  <1>3. Contents # << >> /\ Head(Contents) = data[chain[1]]
    BY <1>1, <1>2 DEF Contents
  <1>4. /\ Len(chain') = Len(chain) - 1
        /\ \A i \in 1 .. Len(chain) - 1 : chain'[i] = chain[i + 1]
    BY <1>1
  <1>5. Contents' = [i \in 1 .. Len(chain) - 1 |-> data[chain[i + 1]]]
    BY <1>4 DEF Contents
  <1>6. Tail(Contents) = [i \in 1 .. Len(chain) - 1 |-> data[chain[i + 1]]]
    BY <1>2, <1>3 DEF Contents
  <1> QED
    BY <1>1, <1>3, <1>5, <1>6

\* Every step of sharedBuf is a step of the queue or leaves it alone.
LEMMA FifoStep ==
    ASSUME MaxFault = 0
    PROVE  BaseInv /\ ListOK /\ faults = 0 /\ [Next]_vars =>
              faults' = 0 /\ [Queue!Next]_(Queue!vars)
  <1> SUFFICES ASSUME BaseInv, ListOK, faults = 0, [Next]_vars
               PROVE  faults' = 0 /\ [Queue!Next]_(Queue!vars)
    OBVIOUS
  <1> USE DEF Queue!Next, Queue!vars, Queue!Put, Queue!Get
  <1>0. ListInv
    BY DEF ListOK, ListInv
  <1>1. CASE \E p \in Putters, a \in Addr, v \in Val : PutAlloc(p, a, v)
    <2> PICK p \in Putters, a \in Addr, v \in Val : PutAlloc(p, a, v)
      BY <1>1
    <2>1. \A i \in 1 .. Len(chain) : data'[chain'[i]] = data[chain[i]]
      BY <1>0 DEF PutAlloc, ListInv, CellsOK, BaseInv, TypeOK, CellSeq
    <2>2. Contents' = Contents /\ UNCHANGED <<out, faults>>
      BY <2>1 DEF Contents, PutAlloc
    <2> QED
      BY <2>2 DEF Contents
  <1>2. CASE \E p \in Putters : PutCount(p)
    <2> PICK p \in Putters : PutCount(p)
      BY <1>2
    <2> QED
      BY <1>0, ContentsAppend DEF PutCount, Contents
  <1>3. CASE PopUnlink
    BY <1>0, <1>3, ContentsTail DEF PopUnlink, Contents
  <1>4. CASE \/ \E p \in Putters : PutLock(p) \/ PutLink(p) \/ PutMove(p) \/ PutUnlock(p)
             \/ GetAndPop /\ ~PopUnlink
             \/ UNCHANGED vars
    <2>1. UNCHANGED <<chain, data, out, faults>>
      BY <1>4 DEF PutLock, PutLink, PutMove, PutUnlock, GetAndPop, GetEmptyN,
         GetEmptyHead, PopEmptyN, PopEmptyHead, ReadN, ReadHead, bufVars, GetCopy,
         PopLock, PopFree, PopCount, PopUnlock, vars
    <2>2. Contents' = Contents
      BY <2>1 DEF Contents
    <2> QED
      BY <2>1, <2>2 DEF Contents
  <1>5. ASSUME NEW p \in Putters PROVE ~PutterCrash(p) /\ ~\E a \in Addr, x \in Addr \cup {Nil, Wild} : PutShort(p, a, x)
    <2>1. ~(pc[p] = "locked" /\ n # 0 /\ tail \notin Addr)
      <3> SUFFICES ASSUME pc[p] = "locked", n # 0 PROVE tail \in Addr
        OBVIOUS
      <3>1. lock = p /\ gpc \notin Popping
        BY SharedBufAssumption DEF BaseInv, LockOK, TypeOK, Holding
      <3>2. chain # << >> /\ (\A q \in Putters : pc[q] # "moved")
        BY <3>1 DEF ListOK, LinksOK, Popping, BaseInv, LockOK, TypeOK, CellSeq,
                    Holding
      <3> QED
        BY <3>2, SharedBufAssumption DEF ListOK, LinksOK, BaseInv, TypeOK, CellSeq
    <2> QED
      BY <2>1 DEF PutterCrash, PutShort
  <1>6. ~GetterCrash
    BY SharedBufAssumption DEF GetterCrash, Astray, BaseInv, TypeOK, Ptr, ListOK,
       CellsOK, LinksOK, GetterOK, Sure, CellSeq
  <1> QED
    BY <1>1, <1>2, <1>3, <1>4, <1>5, <1>6 DEF Next, Put

\* sharedBuf implements the abstract queue of Fifo for any number of writers
\* that interleave their memory accesses with the reader's.
THEOREM FifoCorrect == ASSUME MaxFault = 0 PROVE Spec => IsFifo
  <1>1. Init => Queue!Init /\ BaseInv /\ ListOK /\ faults = 0
    <2>1. Init => BaseInv
      BY BaseInit
    <2>2. Init => ListOK
      BY ListInit
    <2>3. Init => Queue!Init
      BY DEF Init, Queue!Init
    <2> QED
      BY <2>1, <2>2, <2>3 DEF Init
  <1>2. BaseInv /\ ListOK /\ faults = 0 /\ [Next]_vars =>
           /\ (BaseInv /\ ListOK /\ faults = 0)'
           /\ [Queue!Next]_(Queue!vars)
    BY BaseStep, ListStep, FifoStep
  <1> QED
    BY <1>1, <1>2, PTL DEF Spec, IsFifo, Queue!Spec
=============================================================================
