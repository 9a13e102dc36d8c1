--------------------------- MODULE BufDictProofs ----------------------------
(***************************************************************************)
(* The dictionary of buffers, for any processes and names: its lock, its   *)
(* contents whenever nobody is changing it, be the lock free or kept, and  *)
(* what a search of it returns while nobody changes it.                    *)
(***************************************************************************)
EXTENDS BufDict, FiniteSetTheorems, WellFoundedInduction, TLAPS

-----------------------------------------------------------------------------
(* Induction over the natural numbers, with a set in the place of a        *)
(* predicate                                                               *)

\* A set of natural numbers that is not empty has a least element.
LEMMA LeastNat ==
    ASSUME NEW T, T \subseteq Nat, T # {}
    PROVE  \E x \in T : \A y \in T : x <= y
  <1> DEFINE R == OpToRel(<, Nat)
  <1>1. IsWellFoundedOn(R, Nat)
    BY NatLessThanWellFounded
  <1>2. \A x, y \in Nat : <<x, y>> \in R <=> x < y
    BY DEF OpToRel
  <1> HIDE DEF R
  <1>3. PICK x \in T : \A y \in T : ~ (<<y, x>> \in R)
    BY <1>1, WFMin
  <1>4. ASSUME NEW y \in T PROVE x <= y
    <2>1. x \in Nat /\ y \in Nat /\ ~ (y < x)
      BY <1>2, <1>3
    <2> QED
      BY <2>1
  <1> QED
    BY <1>4

\* Induction: a set that has 0 and with every number its successor has them
\* all.
LEMMA NatInd ==
    ASSUME NEW P, 0 \in P, \A k \in Nat : k \in P => k + 1 \in P
    PROVE  \A k \in Nat : k \in P
  <1> SUFFICES ASSUME Nat \ P # {} PROVE FALSE
    OBVIOUS
  <1>1. PICK x \in Nat \ P : \A y \in Nat \ P : x <= y
    BY LeastNat
  <1>2. x # 0 /\ x - 1 \in Nat /\ x - 1 \in P
    BY <1>1
  <1>3. (x - 1) + 1 \in P
    BY <1>2
  <1> QED
    BY <1>1, <1>2, <1>3

-----------------------------------------------------------------------------
(* Sorted entries                                                           *)

\* The entries at the indices I of d are in the order of their names.
InOrder(d, I) == \A i, j \in I : i < j => d[i].name < d[j].name

\* The m entries of E can be put in the order of their names.
CanSort(E, m) == \E s \in [1..m -> E] : ToSet(s) = E /\ InOrder(s, 1..m)

\* E is what an ordered array of m entries holds and one more entry.
OneMore(d, m, e, E) ==
    /\ InOrder(d, 1..m)
    /\ \A i \in 1..m : d[i] \in E /\ d[i].name \in Int /\ d[i].name # e.name
    /\ e \in E /\ e.name \in Int
    /\ \A f \in E : f = e \/ \E i \in 1..m : f = d[i]

\* A name that is not in an ordered array has one place in it.
LEMMA Place ==
  ASSUME NEW m \in Nat, NEW d, \A i \in 1..m : d[i].name \in Int, InOrder(d, 1..m),
         NEW x \in Int, \A i \in 1..m : d[i].name # x
  PROVE  \E k \in 1..(m + 1) : \A i \in 1..m : /\ i < k => d[i].name < x
                                               /\ i >= k => x < d[i].name
<1> DEFINE T == {i \in 1..(m + 1) : i = m + 1 \/ x < d[i].name}
<1>1. T \subseteq Nat /\ m + 1 \in T
  OBVIOUS
<1>2. PICK k \in T : \A y \in T : k <= y
  BY <1>1, LeastNat
<1>3. k \in 1..(m + 1) /\ (k = m + 1 \/ x < d[k].name)
  OBVIOUS
<1>4. ASSUME NEW i \in 1..m, i < k PROVE d[i].name < x
  <2>1. i \notin T
    BY <1>2, <1>3, <1>4
  <2> QED
    BY <2>1
<1>5. ASSUME NEW i \in 1..m, i >= k PROVE x < d[i].name
  <2>1. k \in 1..m /\ x < d[k].name /\ (k = i \/ d[k].name < d[i].name)
    BY <1>3, <1>5 DEF InOrder
  <2> QED
    BY <2>1
<1> QED
  BY <1>3, <1>4, <1>5

\* The ordered array with a new entry in its place.
LEMMA Insertion ==
  ASSUME NEW m \in Nat, NEW d, NEW e, NEW E, OneMore(d, m, e, E)
  PROVE  CanSort(E, m + 1)
<1> USE DEF OneMore
<1>1. PICK k \in 1..(m + 1) :
        \A i \in 1..m : /\ i < k => d[i].name < e.name
                        /\ i >= k => e.name < d[i].name
  BY Place
<1> DEFINE s == [i \in 1..(m + 1) |-> IF i < k THEN d[i]
                                      ELSE IF i = k THEN e ELSE d[i - 1]]
<1>2. /\ s \in [1..(m + 1) -> E]
      /\ \A i \in 1..m : i < k => s[i] = d[i]
      /\ s[k] = e
      /\ \A i \in 1..m : i >= k => s[i + 1] = d[i]
      /\ \A i \in 1..(m + 1) : i > k => s[i] = d[i - 1]
  OBVIOUS
<1>a. DOMAIN s = 1..(m + 1)
  OBVIOUS
<1> HIDE DEF s
<1>3. E \subseteq ToSet(s)
  <2> SUFFICES ASSUME NEW f \in E PROVE \E i \in 1..(m + 1) : s[i] = f
    BY <1>a DEF ToSet
  <2>1. CASE f = e
    BY <1>2, <2>1
  <2>2. ASSUME NEW i \in 1..m, f = d[i] PROVE \E j \in 1..(m + 1) : s[j] = f
    <3>1. i \in 1..(m + 1) /\ i + 1 \in 1..(m + 1)
      OBVIOUS
    <3> QED
      BY <1>2, <2>2, <3>1
  <2> QED
    BY <2>1, <2>2
<1>4. ToSet(s) \subseteq E
  BY <1>2, <1>a DEF ToSet
<1>5. InOrder(s, 1..(m + 1))
  <2> SUFFICES ASSUME NEW i \in 1..(m + 1), NEW j \in 1..(m + 1), i < j
               PROVE  s[i].name < s[j].name
    BY DEF InOrder
  <2>1. CASE j < k
    BY <1>2, <2>1 DEF InOrder
  <2>2. CASE j = k
    BY <1>1, <1>2, <2>2
  <2>3. CASE j > k
    <3>1. s[j] = d[j - 1] /\ j - 1 \in 1..m /\ j - 1 >= k
      BY <1>2, <2>3
    <3>2. CASE i < k
      <4>1. s[i] = d[i] /\ i \in 1..m /\ i < j - 1
        BY <1>2, <3>1, <3>2
      <4> QED
        BY <3>1, <4>1 DEF InOrder
    <3>3. CASE i = k
      BY <1>1, <1>2, <3>1, <3>3
    <3>4. CASE i > k
      <4>1. s[i] = d[i - 1] /\ i - 1 \in 1..m /\ i - 1 < j - 1
        BY <1>2, <2>3, <3>4
      <4> QED
        BY <3>1, <4>1 DEF InOrder
    <3> QED
      BY <3>2, <3>3, <3>4
  <2> QED
    BY <2>1, <2>2, <2>3
<1>6. ToSet(s) = E
  BY <1>3, <1>4
<1> QED
  BY ONLY <1>2, <1>5, <1>6 DEF CanSort

\* qsort gives what Sorted says when there is such an array.
LEMMA SortedIs ==
  ASSUME NEW E, NEW m \in Nat, CanSort(E, m)
  PROVE  /\ Sorted(E, m) \in [1..m -> E] /\ ToSet(Sorted(E, m)) = E
         /\ InOrder(Sorted(E, m), 1..m)
  BY DEF Sorted, CanSort, InOrder

\* The buffers made before the fork can be sorted, as any finite set of names.
LEMMA FirstSorted ==
  ASSUME NEW F, F \subseteq Int, IsFiniteSet(F)
  PROVE  CanSort({Entry(x, 1) : x \in F}, Cardinality(F))
<1> DEFINE Ent(G) == {Entry(x, 1) : x \in G}
           P == {m \in Nat : \A G \in SUBSET F : Cardinality(G) = m => CanSort(Ent(G), m)}
<1>1. 0 \in P
  <2> SUFFICES ASSUME NEW G \in SUBSET F, Cardinality(G) = 0 PROVE CanSort(Ent(G), 0)
    OBVIOUS
  <2>1. G = {}
    BY FS_Subset, FS_EmptySet
  <2>2. Ent(G) = {}
    BY <2>1
  <2>3. << >> \in [1..0 -> Ent(G)] /\ ToSet(<< >>) = {} /\ InOrder(<< >>, 1..0)
    BY DEF ToSet, InOrder
  <2> QED
    BY <2>2, <2>3 DEF CanSort
<1>2. ASSUME NEW m \in Nat, m \in P PROVE m + 1 \in P
  <2> HIDE DEF Ent
  <2> SUFFICES ASSUME NEW G \in SUBSET F, Cardinality(G) = m + 1
               PROVE  CanSort(Ent(G), m + 1)
    OBVIOUS
  <2>1. IsFiniteSet(G)
    BY FS_Subset
  <2>2. G # {}
    BY <2>1, FS_EmptySet
  <2>3. PICK x : x \in G
    BY <2>2
  <2> DEFINE H == G \ {x}
  <2>4. H \in SUBSET F /\ Cardinality(H) = m
    <3>1. Cardinality(H) = Cardinality(G) - 1
      BY <2>1, <2>3, FS_RemoveElement
    <3>2. H \in SUBSET F
      OBVIOUS
    <3>3. (m + 1) - 1 = m
      OBVIOUS
    <3> QED
      BY ONLY <3>1, <3>2, <3>3, Cardinality(G) = m + 1
  <2>5. PICK d \in [1..m -> Ent(H)] : ToSet(d) = Ent(H) /\ InOrder(d, 1..m)
    BY <1>2, <2>4 DEF CanSort
  <2>6. \A i \in 1..m : \E y \in H : d[i] = Entry(y, 1)
    BY DEF Ent
  <2>7. \A i \in 1..m : d[i] \in Ent(G) /\ d[i].name \in Int /\ d[i].name # Entry(x, 1).name
    BY <2>6 DEF Entry, Ent
  <2>8. Entry(x, 1) \in Ent(G) /\ Entry(x, 1).name \in Int
    BY <2>3 DEF Entry, Ent
  <2>9. {d[i] : i \in 1..m} = Ent(H)
    BY <2>5 DEF ToSet
  <2>10. OneMore(d, m, Entry(x, 1), Ent(G))
    BY <2>3, <2>5, <2>7, <2>8, <2>9 DEF OneMore, Ent
  <2> QED
    BY ONLY <2>10, Insertion, m \in Nat
<1> HIDE DEF P
<1>3. \A m \in Nat : m \in P
  BY <1>1, <1>2, NatInd
<1>4. Cardinality(F) \in Nat /\ F \in SUBSET F
  BY FS_CardinalityType
<1> QED
  BY <1>3, <1>4 DEF P, Ent

\* The names of an ordered array are different: it is no longer than they are
\* many.
LEMMA NotLonger ==
  ASSUME NEW m \in Nat, NEW d, InOrder(d, 1..m), NEW F, F \subseteq Int, IsFiniteSet(F),
         \A i \in 1..m : d[i].name \in F
  PROVE  m <= Cardinality(F)
<1> DEFINE f == [i \in 1..m |-> d[i].name]
<1>1. f \in Injection(1..m, F)
  <2>1. f \in [1..m -> F]
    OBVIOUS
  <2>2. ASSUME NEW i \in 1..m, NEW j \in 1..m, f[i] = f[j] PROVE i = j
    <3>1. d[i].name \in Int /\ d[j].name \in Int /\ d[i].name = d[j].name
      BY <2>2
    <3>2. ~ (i < j) /\ ~ (j < i)
      BY <3>1 DEF InOrder
    <3> QED
      BY <3>2
  <2> QED
    BY <2>1, <2>2 DEF Injection, IsInjective
<1>2. Cardinality(1..m) <= Cardinality(F)
  BY <1>1, FS_Injection
<1>3. Cardinality(1..m) = m
  BY FS_Interval
<1> QED
  BY <1>2, <1>3

-----------------------------------------------------------------------------
(* The lock                                                                 *)

Steps == {"idle", "search", "hit", "found", "lock"} \cup Changing
Ops == {"lookup", "create", "kill"}

\* The control state of the processes: a call that waits for the lock wants to
\* change the dictionary, and a lock that is kept was taken by a kill.
LockInv ==
    /\ LockOK
    /\ lock \in Procs \cup {NoProc}
    /\ pc \in [Procs -> Steps] /\ op \in [Procs -> Ops]
    /\ \A p \in Procs : pc[p] = "lock" => op[p] \in {"create", "kill"}
    /\ \A p \in Procs : pc[p] = "kill" => Kills[p] # {}
    /\ \A p \in Procs : op[p] = "kill" => Kills[p] # {}

LEMMA InitLock == Init => LockInv
  BY BufDictAssumption DEF Init, LockInv, LockOK, Steps, Ops, Changing

\* A call changes the state of its process only.
LEMMA CallLock ==
  ASSUME LockInv, NEW p \in Procs, Call(p)
  PROVE  LockInv'
<1>1. PICK x \in Names : Lookup(p, x) \/ Create(p, x) \/ Kill(p, x)
  BY DEF Call
<1>2. CASE Lookup(p, x) \/ Create(p, x)
  BY <1>2 DEF Lookup, Create, Search, Goto, LockInv, LockOK, Steps, Ops, Changing
<1>3. CASE Kill(p, x)
  BY <1>3 DEF Kill, Goto, LockInv, LockOK, Steps, Ops, Changing
<1> QED
  BY <1>1, <1>2, <1>3

LEMMA StepLock ==
  ASSUME LockInv, NEW p \in Procs, Step(p)
  PROVE  LockInv'
<1> USE DEF Goto, Return, LockInv, LockOK, Steps, Ops, Changing
<1>1. CASE Bsearch(p)
  BY <1>1 DEF Bsearch
<1>2. CASE Hit(p)
  BY <1>2 DEF Hit
<1>3. CASE Found(p)
  BY <1>3 DEF Found
<1>4. CASE Insert(p)
  BY <1>4 DEF Insert
<1>5. CASE Sort(p)
  BY <1>5 DEF Sort
<1>6. CASE FindIdx(p)
  BY <1>6 DEF FindIdx
<1>7. CASE Shift(p)
  BY <1>7 DEF Shift
<1>8. CASE Unlock(p)
  BY <1>8, BufDictAssumption DEF Unlock
<1>9. CASE KillNone(p)
  BY <1>9 DEF KillNone
<1> QED
  BY <1>1, <1>2, <1>3, <1>4, <1>5, <1>6, <1>7, <1>8, <1>9 DEF Step

LEMMA GiveBack ==
  ASSUME LockInv, NEW p \in Procs, Release(p)
  PROVE  LockInv'
  BY BufDictAssumption DEF Release, LockInv, LockOK, Changing

LEMMA TakeLock ==
  ASSUME LockInv, NEW p \in Procs, Lock(p)
  PROVE  LockInv'
  BY BufDictAssumption DEF Lock, Goto, LockInv, LockOK, Steps, Ops, Changing

LEMMA NextLock == LockInv /\ [Next]_vars => LockInv'
<1> SUFFICES ASSUME LockInv, [Next]_vars
             PROVE  LockInv'
  OBVIOUS
<1>1. CASE UNCHANGED vars
  BY <1>1 DEF vars, LockInv, LockOK
<1>2. CASE Next
  BY <1>2, CallLock, StepLock, TakeLock, GiveBack DEF Next
<1> QED
  BY <1>1, <1>2

\* At every moment at most one process is changing the dictionary of buffers, and
\* it holds the lock of the shared memory, also when kills of names that are not
\* there keep that lock; nobody but a process that kills ever keeps it
\* (bufferMngr's create and kill).
THEOREM Exclusive == Spec => []LockOK
<1>1. LockInv => LockOK
  BY DEF LockInv
<1> QED
  BY <1>1, InitLock, NextLock, PTL DEF Spec

-----------------------------------------------------------------------------
(* The inductive invariant                                                  *)

Buffers == [name : Int, gen : Nat]
Entries == {e \in [name : Int, b : Buffers] : e.b.name = e.name}

StateInv ==
    /\ n \in 0..MaxBuf /\ dict \in [1..MaxBuf -> Entries]
    /\ l \in [Procs -> 0..MaxBuf] /\ u \in [Procs -> 0..MaxBuf]
    /\ idx \in [Procs -> Int] /\ arg \in [Procs -> Int]
    /\ res \in [Procs -> Buffers] /\ crossed \in [Procs -> BOOLEAN]
    /\ gen \in [Names -> Nat]
    /\ alive \subseteq [name : Names, gen : Nat]

\* What a call does at each step, and that the name it creates stays absent until
\* it has: nobody else makes that name.
CallOf(p) ==
    /\ pc[p] = "idle" => op[p] = "lookup"
    /\ pc[p] \in {"search", "hit", "found"} => op[p] # "kill"
    /\ pc[p] \in {"create", "sort"} => op[p] = "create"
    /\ pc[p] \in {"kill", "shift"} => op[p] = "kill"
    /\ pc[p] = "unlock" => op[p] # "lookup"
    /\ pc[p] = "hit" => idx[p] \in 1..MaxBuf
    /\ pc[p] # "idle" => arg[p] \in Names
    /\ op[p] = "create" => arg[p] \in Makes[p] /\ ~Alive(arg[p])
    /\ op[p] = "kill" => arg[p] \in Makes[p]

CallInv == \A p \in Procs : CallOf(p)

Bufs(d, I) == {d[i].b : i \in I}

\* The first m entries of d are those of the buffers B, in order.
Exact(d, m, B) == InOrder(d, 1..m) /\ Bufs(d, 1..m) = B

\* The buffers there will be when the call of p has returned.
After(p) == IF op[p] = "create" THEN alive \cup {Entry(arg[p], gen[arg[p]]).b}
                                ELSE {b \in alive : b.name # arg[p]}

\* What the dictionary is while p changes it.
Phase(p) ==
    /\ pc[p] \in {"create", "kill"} => Exact(dict, n, alive)
    /\ pc[p] = "sort" =>
         /\ tmp \in [1..n -> Entries] /\ Exact(tmp, n, After(p))
         /\ idx[p] \in 1..(n + 1)
         /\ \A i \in 1..(idx[p] - 1) : dict[i] = tmp[i]
    /\ pc[p] = "shift" =>
         /\ idx[p] \in 1..n
         /\ InOrder(dict, (1..n) \ {idx[p]})
         /\ Bufs(dict, (1..n) \ {idx[p]}) = After(p)
    /\ pc[p] = "unlock" => Exact(dict, n, After(p))

DictInv == /\ Quiet => Exact(dict, n, alive)
           /\ \A p \in Procs : Phase(p)

\* What the search of p knows of the name, as long as nobody has changed the
\* dictionary under it.
Bracket(p) ==
    /\ l[p] <= u[p] /\ u[p] <= n /\ res[p] = NULL
    /\ \A i \in 1..n : /\ i <= l[p] => dict[i].name < arg[p]
                       /\ i > u[p] => arg[p] < dict[i].name

Answer(p) == IF Alive(arg[p]) THEN res[p] \in alive /\ res[p].name = arg[p]
             ELSE res[p] = NULL

SearchOf(p) ==
    ~crossed[p] =>
      /\ pc[p] \in {"search", "hit", "found"} => Quiet
      /\ pc[p] = "search" => Bracket(p)
      /\ pc[p] = "hit" => idx[p] \in 1..n /\ dict[idx[p]].name = arg[p]
      /\ pc[p] = "found" => Answer(p)

SearchInv == \A p \in Procs : SearchOf(p)

Inv == LockInv /\ StateInv /\ CallInv /\ DictInv /\ SearchInv

LEMMA MaxBufNat == MaxBuf \in Nat
  BY BufDictAssumption, FS_CardinalityType DEF MaxBuf

LEMMA InitInv == Init => Inv
<1> SUFFICES ASSUME Init PROVE Inv
  OBVIOUS
<1> DEFINE E == {Entry(x, 1) : x \in Fixed}
           s == Sorted(E, n)
<1>1. /\ Fixed \subseteq Int /\ IsFiniteSet(Fixed) /\ Fixed \subseteq Names
      /\ Cardinality(Fixed) <= MaxBuf
  BY BufDictAssumption, FS_Subset DEF Names, MaxBuf
<1>2. n \in Nat /\ n <= MaxBuf /\ MaxBuf \in Nat
  BY <1>1, MaxBufNat, FS_CardinalityType DEF Init
<1>3. CanSort(E, n)
  <2>1. n = Cardinality(Fixed)
    BY DEF Init
  <2> QED
    BY <1>1, <2>1, FirstSorted
<1>4. s \in [1..n -> E] /\ ToSet(s) = E /\ InOrder(s, 1..n)
  <2> HIDE DEF E
  <2> QED
    BY <1>2, <1>3, SortedIs
<1>5. dict = [i \in 1..MaxBuf |-> IF i <= n THEN s[i] ELSE Entry(0, 0)]
  BY DEF Init
<1> HIDE DEF s
<1>6. E \subseteq Entries /\ Entry(0, 0) \in Entries
  BY <1>1 DEF Entry, Entries, Buffers
<1>7. StateInv
  <2>1. dict \in [1..MaxBuf -> Entries]
    BY <1>2, <1>4, <1>5, <1>6
  <2>2. alive \subseteq [name : Names, gen : Nat]
    BY <1>1 DEF Init, Entry
  <2> QED
    BY <1>2, <2>1, <2>2 DEF Init, StateInv, Buffers, NULL
<1>8. Exact(dict, n, alive)
  <2>1. \A i \in 1..n : dict[i] = s[i]
    BY <1>2, <1>5
  <2>2. InOrder(dict, 1..n)
    BY <1>4, <2>1 DEF InOrder
  <2>3. Bufs(dict, 1..n) = {e.b : e \in ToSet(s)}
    BY <1>4, <2>1 DEF Bufs, ToSet
  <2>4. {e.b : e \in E} = alive
    BY DEF Init
  <2> QED
    BY <1>4, <2>2, <2>3, <2>4 DEF Exact
<1>9. CallInv /\ DictInv /\ SearchInv
  BY <1>8 DEF Init, CallInv, CallOf, DictInv, Phase, SearchInv, SearchOf, Quiet
<1> QED
  BY <1>7, <1>9, InitLock DEF Inv

-----------------------------------------------------------------------------
(* A search                                                                 *)

\* A step of p leaves what the other processes are doing.
Others(p) ==
    \A q \in Procs : q # p => /\ pc'[q] = pc[q] /\ op'[q] = op[q]
                              /\ arg'[q] = arg[q] /\ l'[q] = l[q]
                              /\ u'[q] = u[q] /\ idx'[q] = idx[q]
                              /\ res'[q] = res[q] /\ crossed'[q] = crossed[q]

Frame(p) == Others(p) /\ UNCHANGED <<dict, n, tmp, gen, alive>>

\* Quiet is about the processes one by one.
LEMMA QuietKept ==
  ASSUME NEW p \in Procs, Others(p), pc[p] \notin Changing, pc'[p] \notin Changing
  PROVE  Quiet' <=> Quiet
  BY DEF Quiet, Others

\* A step outside the changes leaves the dictionary alone and what is known of the
\* other processes.
LEMMA Framed ==
  ASSUME Inv, NEW p \in Procs, Frame(p), CallOf(p)', SearchOf(p)',
         pc[p] \notin Changing, pc'[p] \notin Changing
  PROVE  CallInv' /\ DictInv' /\ SearchInv'
<1>0. Quiet' <=> Quiet
  BY QuietKept DEF Frame
<1>1. ASSUME NEW q \in Procs, q # p PROVE CallOf(q)' /\ Phase(q)' /\ SearchOf(q)'
  <2>1. CallOf(q) /\ Phase(q) /\ SearchOf(q)
    BY DEF Inv, CallInv, DictInv, SearchInv
  <2>2. CallOf(q)'
    BY <1>1, <2>1 DEF Frame, Others, CallOf, Alive
  <2>3. Phase(q)'
    <3>1. UNCHANGED <<dict, n, tmp, gen, alive>>
      BY DEF Frame
    <3>2. UNCHANGED <<pc[q], op[q], arg[q], idx[q]>>
      BY <1>1 DEF Frame, Others
    <3>3. After(q)' = After(q)
      BY <3>1, <3>2 DEF After
    <3> QED
      BY <2>1, <3>1, <3>2, <3>3 DEF Phase, Exact, InOrder, Bufs
  <2>4. SearchOf(q)'
    BY <1>0, <1>1, <2>1 DEF Frame, Others, SearchOf, Bracket, Answer, Alive
  <2> QED
    BY <2>2, <2>3, <2>4
<1>2. Phase(p)'
  BY DEF Phase, Changing
<1>3. (Quiet => Exact(dict, n, alive))'
  BY <1>0 DEF Inv, DictInv, Frame, Exact, InOrder, Bufs
<1> QED
  BY <1>1, <1>2, <1>3 DEF CallInv, DictInv, SearchInv

\* Half of what is left of the array.
LEMMA Middle ==
  ASSUME NEW a \in Nat, NEW b \in Nat, a < b
  PROVE  (a + b) \div 2 \in Nat /\ a <= (a + b) \div 2 /\ (a + b) \div 2 < b
  OBVIOUS

\* Nobody is changing it: the array has the names of the buffers.
LEMMA NamesOf ==
  ASSUME Inv, Quiet, NEW x
  PROVE  Alive(x) <=> \E i \in 1..n : dict[i].name = x
<1>1. Bufs(dict, 1..n) = alive
  BY DEF Inv, DictInv, Exact
<1>2. \A i \in 1..n : i \in 1..MaxBuf /\ dict[i].b.name = dict[i].name
  BY MaxBufNat DEF Inv, StateInv, Entries
<1> QED
  BY <1>1, <1>2 DEF Bufs, Alive

LEMMA SearchKeeps ==
  ASSUME Inv, NEW p \in Procs, NEW what \in {"lookup", "create"}, NEW x \in Names,
         Search(p, what, x), what = "create" => x \in Makes[p] /\ ~Alive(x)
  PROVE  StateInv' /\ CallInv' /\ DictInv' /\ SearchInv'
<1>1. StateInv /\ LockInv /\ MaxBuf \in Nat /\ Names \subseteq Int
  BY MaxBufNat, BufDictAssumption DEF Inv
<1>2. StateInv'
  <2>1. NULL \in Buffers
    BY DEF NULL, Buffers
  <2>2. crossed' \in [Procs -> BOOLEAN]
    <3>1. (~Quiet) \in BOOLEAN
      BY Zenon DEF Quiet
    <3> QED
      BY <1>1, <3>1, Zenon DEF StateInv, Search
  <2>3. UNCHANGED <<dict, n, idx, gen, alive>> /\ res' = [res EXCEPT ![p] = NULL]
        /\ l' = [l EXCEPT ![p] = 0] /\ u' = [u EXCEPT ![p] = n]
        /\ arg' = [arg EXCEPT ![p] = x]
    BY Zenon DEF Search
  <2> QED
    BY <1>1, <2>1, <2>2, <2>3 DEF StateInv
<1>3. Frame(p) /\ pc'[p] = "search" /\ op'[p] = what /\ arg'[p] = x
  BY <1>1 DEF StateInv, LockInv, Search, Goto, Frame, Others
<1>4. CallOf(p)'
  BY <1>3 DEF CallOf, Alive, Frame
<1>6. pc[p] \notin Changing /\ pc'[p] \notin Changing
  BY <1>3 DEF Search, Changing
<1>5. SearchOf(p)'
  <2> SUFFICES ASSUME ~crossed'[p] PROVE Quiet' /\ Bracket(p)'
    BY <1>3 DEF SearchOf
  <2>1. Quiet
    BY <1>1 DEF StateInv, Search, Quiet
  <2>2. Quiet'
    BY <1>3, <1>6, <2>1, QuietKept DEF Frame
  <2> QED
    BY <1>1, <2>2 DEF Search, Bracket, StateInv
<1> QED
  BY <1>2, <1>3, <1>4, <1>5, <1>6, Framed

LEMMA KillKeeps ==
  ASSUME Inv, NEW p \in Procs, NEW x \in Names, Kill(p, x)
  PROVE  StateInv' /\ CallInv' /\ DictInv' /\ SearchInv'
<1>1. StateInv /\ LockInv /\ Names \subseteq Int /\ x \in Makes[p]
  BY BufDictAssumption DEF Inv, Kill
<1>2. StateInv'
  BY <1>1 DEF StateInv, Kill
<1>3. Frame(p) /\ pc'[p] = "lock" /\ op'[p] = "kill" /\ arg'[p] = x
  BY <1>1 DEF StateInv, LockInv, Kill, Goto, Frame, Others
<1>4. CallOf(p)'
  BY <1>1, <1>3 DEF CallOf, Alive, Frame, Kill
<1>5. SearchOf(p)'
  BY <1>3 DEF SearchOf
<1>6. pc[p] \notin Changing /\ pc'[p] \notin Changing
  BY <1>3 DEF Kill, Changing
<1> QED
  BY <1>2, <1>3, <1>4, <1>5, <1>6, Framed

\* The lock is given back: the dictionary has nothing to do with that.
LEMMA ReleaseKeeps ==
  ASSUME Inv, NEW p \in Procs, Release(p)
  PROVE  StateInv' /\ CallInv' /\ DictInv' /\ SearchInv'
<1> USE DEF Release
<1>1. StateInv' /\ CallInv'
  BY DEF Inv, StateInv, CallInv, CallOf, Alive
<1>2. DictInv'
  BY DEF Inv, DictInv, Phase, After, Exact, InOrder, Bufs, Quiet
<1>3. SearchInv'
  BY DEF Inv, SearchInv, SearchOf, Bracket, Answer, Alive, Quiet
<1> QED
  BY <1>1, <1>2, <1>3

LEMMA HitKeeps ==
  ASSUME Inv, NEW p \in Procs, Hit(p)
  PROVE  StateInv' /\ CallInv' /\ DictInv' /\ SearchInv'
<1>1. StateInv /\ LockInv /\ CallOf(p) /\ SearchOf(p) /\ idx[p] \in 1..MaxBuf
  BY DEF Inv, CallInv, CallOf, SearchInv, Hit
<1>2. /\ Frame(p) /\ pc'[p] = "found" /\ op'[p] = op[p] /\ arg'[p] = arg[p]
      /\ pc[p] = "hit" /\ res'[p] = dict[idx[p]].b /\ crossed'[p] = crossed[p]
  BY <1>1 DEF Hit, Goto, Frame, Others, StateInv, LockInv
<1>3. StateInv' /\ CallOf(p)'
  <2>1. dict[idx[p]].b \in Buffers
    BY <1>1 DEF StateInv, Entries
  <2> QED
    BY <1>1, <1>2, <2>1 DEF StateInv, CallOf, Alive, Frame, Hit
<1>5. pc[p] \notin Changing /\ pc'[p] \notin Changing
  BY <1>2 DEF Changing
<1>4. SearchOf(p)'
  <2> SUFFICES ASSUME ~crossed[p] PROVE Quiet /\ Answer(p)'
    BY <1>1, <1>2, <1>5, QuietKept DEF SearchOf, Frame
  <2>1. Quiet /\ idx[p] \in 1..n /\ dict[idx[p]].name = arg[p]
    BY <1>1, <1>2 DEF SearchOf
  <2>2. dict[idx[p]].b \in alive
    BY <2>1 DEF Inv, DictInv, Exact, Bufs
  <2>3. dict[idx[p]].b.name = arg[p]
    BY <1>1, <2>1 DEF StateInv, Entries
  <2>4. Alive(arg[p])
    BY <2>2, <2>3 DEF Alive
  <2> QED
    BY <1>2, <2>1, <2>2, <2>3, <2>4 DEF Answer, Alive, Frame
<1> QED
  BY <1>2, <1>3, <1>4, <1>5, Framed

LEMMA BsearchKeeps ==
  ASSUME Inv, NEW p \in Procs, Bsearch(p)
  PROVE  StateInv' /\ CallInv' /\ DictInv' /\ SearchInv'
<1>1. StateInv /\ LockInv /\ CallOf(p) /\ SearchOf(p) /\ MaxBuf \in Nat
  BY MaxBufNat DEF Inv, CallInv, SearchInv
<1> DEFINE a == l[p]
           b == u[p]
           m == (a + b) \div 2
<1>2. a \in Nat /\ b \in Nat /\ a <= MaxBuf /\ b <= MaxBuf /\ n \in Nat /\ n <= MaxBuf
      /\ arg[p] \in Int
  BY <1>1 DEF StateInv
<1>3. CASE a >= b
  <2>1. /\ Frame(p) /\ pc' = [pc EXCEPT ![p] = "found"]
        /\ UNCHANGED <<l, u, idx, op, arg, res, crossed>>
    BY <1>1, <1>3 DEF Bsearch, Goto, Frame, Others, LockInv
  <2>2. StateInv' /\ CallOf(p)'
    BY <1>1, <2>1 DEF StateInv, CallOf, Alive, Frame, LockInv, Bsearch
  <2>4. pc[p] \notin Changing /\ pc'[p] \notin Changing
    BY <1>1, <2>1 DEF Bsearch, Changing, LockInv
  <2>3. SearchOf(p)'
    <3> SUFFICES ASSUME ~crossed[p] PROVE Quiet /\ Answer(p)'
      BY <1>1, <2>1, <2>4, QuietKept DEF SearchOf, Frame, LockInv
    <3>1. Quiet /\ Bracket(p)
      BY <1>1 DEF SearchOf, Bsearch
    <3>2. \A i \in 1..n : dict[i].name # arg[p]
      <4> SUFFICES ASSUME NEW i \in 1..n PROVE dict[i].name # arg[p]
        OBVIOUS
      <4>1. i <= a \/ i > b
        BY <1>2, <1>3
      <4>2. dict[i].name \in Int
        BY <1>1, <1>2 DEF StateInv, Entries
      <4> QED
        BY <1>2, <3>1, <4>1, <4>2 DEF Bracket
    <3>3. ~Alive(arg[p])
      BY <3>1, <3>2, NamesOf
    <3> QED
      BY <2>1, <3>1, <3>3 DEF Answer, Alive, Bracket, Frame
  <2> QED
    BY <2>1, <2>2, <2>3, <2>4, Framed
<1>4. CASE a < b
  <2>1. m \in Nat /\ a <= m /\ m < b /\ m + 1 \in 1..MaxBuf
    <3>1. m \in Nat /\ a <= m /\ m < b
      BY <1>2, <1>4, Middle
    <3> HIDE DEF m
    <3> QED
      BY <1>1, <1>2, <3>1
  <2> DEFINE name == dict[m + 1].name
  <2>2. name \in Int
    BY <1>1, <2>1 DEF StateInv, Entries
  <2>3. /\ Frame(p) /\ idx' = [idx EXCEPT ![p] = m + 1]
        /\ u' = IF arg[p] < name THEN [u EXCEPT ![p] = m] ELSE u
        /\ l' = IF arg[p] > name THEN [l EXCEPT ![p] = m + 1] ELSE l
        /\ pc' = [pc EXCEPT ![p] = IF arg[p] = name THEN "hit" ELSE "search"]
        /\ UNCHANGED <<op, arg, res, crossed>> /\ pc[p] = "search"
    <3>1. ~ (a >= b)
      BY <1>2, <1>4
    <3> QED
      BY <1>1, <3>1 DEF Bsearch, Goto, Frame, Others, LockInv, StateInv
  <2> HIDE DEF m, name
  <2>4. StateInv'
    <3>1. l' \in [Procs -> 0..MaxBuf] /\ u' \in [Procs -> 0..MaxBuf] /\ idx' \in [Procs -> Int]
      BY <1>1, <1>2, <2>1, <2>3 DEF StateInv
    <3> QED
      BY <1>1, <2>3, <3>1 DEF StateInv, Frame
  <2>5. CallOf(p)' /\ pc[p] \notin Changing /\ pc'[p] \notin Changing
    BY <1>1, <2>1, <2>3 DEF CallOf, Alive, Frame, LockInv, StateInv, Changing
  <2>6. SearchOf(p)'
    <3> SUFFICES ASSUME ~crossed[p]
                 PROVE  /\ Quiet
                        /\ arg[p] # name => Bracket(p)'
                        /\ arg[p] = name => idx'[p] \in 1..n /\ dict[idx'[p]].name = arg[p]
      BY <1>1, <2>3, <2>5, QuietKept DEF SearchOf, Frame, LockInv
    <3>1. Quiet /\ Bracket(p)
      BY <1>1, <2>3 DEF SearchOf
    <3>2. InOrder(dict, 1..n)
      BY <3>1 DEF Inv, DictInv, Exact
    <3>3. b <= n /\ m + 1 \in 1..n /\ a <= b /\ res[p] = NULL
      BY <1>2, <2>1, <3>1 DEF Bracket
    <3>4. \A i \in 1..n : dict[i].name \in Int
      BY <1>1, <1>2 DEF StateInv, Entries
    <3>5. CASE arg[p] = name
      <4>1. idx'[p] = m + 1
        BY <1>1, <2>3 DEF StateInv
      <4> QED
        BY <3>1, <3>3, <3>5, <4>1 DEF name
    <3>6. CASE arg[p] < name
      <4>1. u'[p] = m /\ l'[p] = a
        BY <1>1, <1>2, <2>2, <2>3, <3>6 DEF StateInv
      <4>2. ASSUME NEW i \in 1..n, i > m PROVE arg[p] < dict[i].name
        <5>1. i = m + 1 \/ dict[m + 1].name < dict[i].name
          BY <2>1, <3>2, <3>3, <4>2 DEF InOrder
        <5> QED
          BY <1>2, <2>2, <3>4, <3>6, <5>1 DEF name
      <4>3. Bracket(p)'
        BY <1>2, <2>1, <2>3, <3>1, <3>3, <4>1, <4>2 DEF Bracket, Frame
      <4> QED
        BY <1>2, <2>2, <3>1, <3>6, <4>3
    <3>7. CASE arg[p] > name
      <4>1. l'[p] = m + 1 /\ u'[p] = b
        BY <1>1, <1>2, <2>2, <2>3, <3>7 DEF StateInv
      <4>2. ASSUME NEW i \in 1..n, i <= m + 1 PROVE dict[i].name < arg[p]
        <5>1. i = m + 1 \/ dict[i].name < dict[m + 1].name
          BY <2>1, <3>2, <3>3, <4>2 DEF InOrder
        <5> QED
          BY <1>2, <2>2, <3>4, <3>7, <5>1 DEF name
      <4>3. Bracket(p)'
        BY <1>2, <2>1, <2>3, <3>1, <3>3, <4>1, <4>2 DEF Bracket, Frame
      <4> QED
        BY <1>2, <2>2, <3>1, <3>7, <4>3
    <3> QED
      BY <1>2, <2>2, <3>5, <3>6, <3>7
  <2> QED
    BY <2>3, <2>4, <2>5, <2>6, Framed
<1> QED
  BY <1>2, <1>3, <1>4

LEMMA FoundKeeps ==
  ASSUME Inv, NEW p \in Procs, Found(p)
  PROVE  StateInv' /\ CallInv' /\ DictInv' /\ SearchInv'
<1>1. StateInv /\ LockInv /\ CallOf(p)
  BY DEF Inv, CallInv
<1>2. StateInv'
  <2>1. NULL \in Buffers /\ 0 \in 0..MaxBuf
    BY MaxBufNat DEF NULL, Buffers
  <2> QED
    <3>1. CASE res'[p] = NULL /\ Return(p)
      BY <1>1, <2>1, <3>1 DEF StateInv, Found, Return
    <3>2. CASE UNCHANGED <<op, arg, l, u, idx, res, crossed>>
      BY <1>1, <3>2 DEF StateInv, Found
    <3> QED
      BY <1>1, <3>1, <3>2 DEF Found, Return, StateInv
<1>3. /\ Frame(p) /\ pc[p] = "found"
      /\ \/ pc'[p] = "lock" /\ op[p] = "create" /\ op'[p] = op[p] /\ arg'[p] = arg[p]
         \/ pc'[p] = "idle" /\ op'[p] = "lookup"
  BY <1>1 DEF Found, Return, Goto, Frame, Others, StateInv, LockInv
<1>4. CallOf(p)' /\ SearchOf(p)' /\ pc[p] \notin Changing /\ pc'[p] \notin Changing
  BY <1>1, <1>3 DEF CallOf, SearchOf, Alive, Frame, Changing
<1> QED
  BY <1>2, <1>3, <1>4, Framed

-----------------------------------------------------------------------------
(* A change                                                                 *)

\* The process that changes the dictionary is alone: no search that is under way
\* counts on the dictionary, and nobody else is changing it.
LEMMA Changed ==
  ASSUME Inv, NEW p \in Procs, pc[p] \in Changing, Others(p), CallOf(p)', Phase(p)',
         pc'[p] \notin {"search", "hit", "found"},
         \A q \in Procs : q # p => CallOf(q)',
         pc'[p] \in Changing \/ Exact(dict, n, alive)'
  PROVE  CallInv' /\ DictInv' /\ SearchInv'
<1>1. ASSUME NEW q \in Procs, q # p PROVE Phase(q)' /\ SearchOf(q)'
  <2>1. pc[q] \notin Changing
    BY <1>1 DEF Inv, LockInv, LockOK
  <2>2. SearchOf(q) /\ ~Quiet
    BY DEF Inv, SearchInv, Quiet
  <2> QED
    BY <1>1, <2>1, <2>2 DEF Others, Phase, SearchOf, Changing
<1>2. SearchOf(p)'
  BY DEF SearchOf
<1>3. (Quiet => Exact(dict, n, alive))'
  BY DEF Quiet
<1> QED
  BY <1>1, <1>2, <1>3 DEF CallInv, DictInv, SearchInv

\* Nothing the calls of the others depend on has changed.
LEMMA CallsKept ==
  ASSUME Inv, NEW p \in Procs, Others(p), alive' = alive
  PROVE  \A q \in Procs : q # p => CallOf(q)'
  BY DEF Inv, CallInv, CallOf, Alive, Others

LEMMA LockKeeps ==
  ASSUME Inv, NEW p \in Procs, Lock(p)
  PROVE  StateInv' /\ CallInv' /\ DictInv' /\ SearchInv'
<1>1. StateInv /\ LockInv /\ CallInv /\ DictInv /\ SearchInv
  BY DEF Inv
<1>2. /\ pc[p] = "lock" /\ lock \in {p, NoProc} /\ op[p] \in {"create", "kill"}
      /\ pc' = [pc EXCEPT ![p] = op[p]] /\ lock' = p
      /\ UNCHANGED <<dict, n, op, arg, l, u, idx, tmp, res, gen, alive>>
      /\ crossed' = [q \in Procs |-> crossed[q] \/ (q # p /\ pc[q] # "idle")]
  BY <1>1 DEF Lock, Goto, LockInv, LockOK, Changing
<1>3. StateInv'
  BY <1>1, <1>2 DEF StateInv
<1>4. CallInv'
  BY <1>1, <1>2 DEF CallInv, CallOf, Alive, LockInv
<1>5. DictInv'
  <2>1. ~Quiet' /\ Quiet
    <3>1. pc'[p] \in Changing /\ pc[p] \notin Changing
      BY <1>1, <1>2 DEF LockInv, Changing
    <3>2. \A q \in Procs : q # p => pc[q] \notin Changing
      BY <1>1, <1>2, BufDictAssumption DEF LockInv, LockOK
    <3> QED
      BY <3>1, <3>2 DEF Quiet
  <2>2. Exact(dict, n, alive)'
    BY <1>1, <1>2, <2>1 DEF DictInv, Exact, InOrder, Bufs
  <2>3. Phase(p)'
    BY <1>1, <1>2, <2>2 DEF Phase, LockInv
  <2>4. ASSUME NEW q \in Procs, q # p PROVE Phase(q)'
    <3>1. pc[q] \notin Changing /\ pc'[q] = pc[q]
      BY <1>1, <1>2, <2>4, BufDictAssumption DEF LockInv, LockOK
    <3> QED
      BY <3>1 DEF Phase, Changing
  <2> QED
    BY <2>1, <2>3, <2>4 DEF DictInv
<1>6. SearchInv'
  <2> SUFFICES ASSUME NEW q \in Procs, ~crossed'[q], pc'[q] \in {"search", "hit", "found"}
               PROVE  FALSE
    BY DEF SearchInv, SearchOf
  <2> QED
    BY <1>1, <1>2 DEF LockInv
<1> QED
  BY <1>3, <1>4, <1>5, <1>6

LEMMA InsertKeeps ==
  ASSUME Inv, NEW p \in Procs, Insert(p)
  PROVE  StateInv' /\ CallInv' /\ DictInv' /\ SearchInv'
<1>1. StateInv /\ LockInv /\ CallOf(p) /\ Phase(p) /\ MaxBuf \in Nat /\ n \in Nat
  BY MaxBufNat DEF Inv, CallInv, DictInv, StateInv
<1>2. /\ lock = p /\ pc[p] = "create" /\ op[p] = "create"
      /\ arg[p] \in Names /\ ~Alive(arg[p]) /\ Exact(dict, n, alive)
      /\ Names \subseteq Int /\ IsFiniteSet(Names) /\ gen[arg[p]] \in Nat
      /\ arg[p] \in Int
  BY <1>1, BufDictAssumption DEF Insert, LockInv, LockOK, Changing, CallOf, Phase, StateInv
<1> DEFINE x == arg[p]
           e == Entry(x, gen[x] + 1)
           E == {dict'[i] : i \in 1..(n + 1)}
<1>3. ASSUME NEW i \in 1..n
      PROVE  dict[i] \in Entries /\ dict[i].name \in Names \ {x} /\ dict[i].b \in alive
  <2>1. dict[i] \in Entries /\ dict[i].b.name = dict[i].name
    BY <1>1 DEF StateInv, Entries
  <2>2. dict[i].b \in alive
    BY <1>2 DEF Exact, Bufs
  <2>3. dict[i].b.name \in Names
    BY <1>1, <2>2 DEF StateInv
  <2>4. dict[i].b.name # x
    BY <1>2, <2>2 DEF Alive
  <2> QED
    BY <2>1, <2>2, <2>3, <2>4
<1>4. n < MaxBuf
  <2> DEFINE F == Names \ {x}
  <2>1. F \subseteq Int /\ IsFiniteSet(F) /\ Cardinality(F) = MaxBuf - 1
    BY <1>2, FS_RemoveElement DEF MaxBuf
  <2>2. \A i \in 1..n : dict[i].name \in F
    BY <1>3
  <2>3. InOrder(dict, 1..n)
    BY <1>2 DEF Exact
  <2> HIDE DEF F
  <2>4. n <= Cardinality(F)
    BY <1>1, <2>1, <2>2, <2>3, NotLonger
  <2> QED
    BY <1>1, <2>1, <2>4
<1>5. /\ dict' = [dict EXCEPT ![n + 1] = e] /\ n' = n + 1
      /\ tmp' = Sorted(E, n + 1)
      /\ gen' = [gen EXCEPT ![x] = @ + 1]
      /\ idx' = [idx EXCEPT ![p] = 1] /\ pc' = [pc EXCEPT ![p] = "sort"]
      /\ UNCHANGED <<lock, op, arg, l, u, res, alive, crossed>>
  BY DEF Insert, Goto
<1>6. e \in Entries /\ e.name = x
  BY <1>2 DEF Entries, Entry, Buffers
<1>7. dict'[n + 1] = e /\ \A i \in 1..n : dict'[i] = dict[i]
  BY <1>1, <1>4, <1>5 DEF StateInv
<1> HIDE DEF e
<1>8. OneMore(dict, n, e, E)
  <2>1. InOrder(dict, 1..n)
    BY <1>2 DEF Exact
  <2>2. \A i \in 1..n : dict[i] \in E /\ dict[i].name \in Int /\ dict[i].name # e.name
    <3> SUFFICES ASSUME NEW i \in 1..n
                 PROVE  dict[i] \in E /\ dict[i].name \in Int /\ dict[i].name # e.name
      OBVIOUS
    <3>1. i \in 1..(n + 1) /\ dict'[i] = dict[i]
      BY <1>1, <1>7
    <3>2. dict[i].name \in Int /\ dict[i].name # e.name
      BY <1>2, <1>3, <1>6
    <3> QED
      BY <3>1, <3>2
  <2>3. e \in E /\ e.name \in Int
    BY <1>1, <1>2, <1>6, <1>7
  <2>4. \A f \in E : f = e \/ \E i \in 1..n : f = dict[i]
    BY <1>1, <1>7
  <2> QED
    BY <2>1, <2>2, <2>3, <2>4 DEF OneMore
<1> HIDE DEF E
<1>9. tmp' \in [1..(n + 1) -> E] /\ ToSet(tmp') = E /\ InOrder(tmp', 1..(n + 1))
  <2>1. CanSort(E, n + 1)
    BY <1>1, <1>8, Insertion
  <2>2. n + 1 \in Nat
    BY <1>1
  <2> QED
    BY <1>5, <2>1, <2>2, SortedIs
<1>10. StateInv'
  <2>1. n' \in 0..MaxBuf
    BY <1>1, <1>4, <1>5
  <2>2. dict' \in [1..MaxBuf -> Entries]
    BY <1>1, <1>5, <1>6 DEF StateInv
  <2>3. gen' \in [Names -> Nat]
    BY <1>1, <1>2, <1>5 DEF StateInv
  <2>4. idx' \in [Procs -> Int]
    BY <1>1, <1>5 DEF StateInv
  <2> QED
    BY <1>1, <1>5, <2>1, <2>2, <2>3, <2>4 DEF StateInv
<1>11. Others(p) /\ pc'[p] = "sort"
  BY <1>1, <1>5 DEF Others, StateInv, LockInv
<1>12. CallOf(p)'
  BY <1>1, <1>2, <1>5, <1>11 DEF CallOf, Alive
<1>13. Phase(p)'
  <2>1. After(p)' = alive \cup {e.b}
    <3>1. gen'[x] = gen[x] + 1
      BY <1>1, <1>2, <1>5 DEF StateInv
    <3> QED
      BY <1>2, <1>5, <3>1 DEF After, e
  <2>2. E \subseteq Entries
    BY <1>1, <1>3, <1>6, <1>8 DEF OneMore
  <2>3. {f.b : f \in E} = alive \cup {e.b}
    <3>1. {dict[i].b : i \in 1..n} = alive
      BY <1>2 DEF Exact, Bufs
    <3> QED
      BY <1>8, <3>1 DEF OneMore
  <2>4. Bufs(tmp', 1..(n + 1)) = {f.b : f \in ToSet(tmp')}
    BY <1>9 DEF Bufs, ToSet
  <2>5. Exact(tmp', n + 1, alive \cup {e.b})
    BY <1>9, <2>3, <2>4 DEF Exact
  <2>6. idx'[p] = 1
    BY <1>1, <1>5 DEF StateInv
  <2>7. tmp' \in [1..(n + 1) -> Entries]
    BY <1>9, <2>2
  <2>8. (Exact(tmp, n, After(p)))'
    BY <1>5, <2>1, <2>5
  <2> QED
    BY <1>1, <1>5, <1>11, <2>6, <2>7, <2>8 DEF Phase
<1>14. pc[p] \in Changing /\ pc'[p] \in Changing
  BY <1>2, <1>11 DEF Changing
<1> QED
  BY <1>2, <1>5, <1>10, <1>11, <1>12, <1>13, <1>14, Changed, CallsKept

LEMMA SortKeeps ==
  ASSUME Inv, NEW p \in Procs, Sort(p)
  PROVE  StateInv' /\ CallInv' /\ DictInv' /\ SearchInv'
<1>1. StateInv /\ LockInv /\ CallOf(p) /\ Phase(p) /\ MaxBuf \in Nat /\ n \in Nat
  BY MaxBufNat DEF Inv, CallInv, DictInv, StateInv
<1> DEFINE k == idx[p]
<1>2. /\ lock = p /\ pc[p] = "sort"
      /\ tmp \in [1..n -> Entries] /\ Exact(tmp, n, After(p))
      /\ k \in 1..(n + 1) /\ \A i \in 1..(k - 1) : dict[i] = tmp[i]
  BY <1>1 DEF Sort, LockInv, LockOK, Changing, Phase
<1>3. UNCHANGED <<n, lock, op, arg, l, u, res, gen, alive, crossed>>
  BY DEF Sort
<1>4. pc[p] \in Changing
  BY <1>2 DEF Changing
<1>5. After(p)' = After(p)
  BY <1>3 DEF After
<1>6. CASE k > n
  <2>1. pc' = [pc EXCEPT ![p] = "unlock"] /\ UNCHANGED <<dict, idx>>
    BY <1>6 DEF Sort, Goto
  <2>2. Others(p) /\ StateInv' /\ CallOf(p)' /\ pc'[p] = "unlock"
    BY <1>1, <1>2, <1>3, <2>1 DEF Others, StateInv, LockInv, CallOf, Alive
  <2>3. \A i \in 1..n : dict[i] = tmp[i]
    BY <1>1, <1>2, <1>6
  <2>4. Exact(dict, n, After(p))
    BY <1>2, <2>3 DEF Exact, InOrder, Bufs
  <2>5. Phase(p)'
    BY <1>3, <1>5, <2>1, <2>2, <2>4 DEF Phase
  <2> QED
    BY <1>3, <1>4, <2>2, <2>5, Changed, CallsKept DEF Changing
<1>7. CASE ~ (k > n)
  <2>1. /\ dict' = [dict EXCEPT ![k] = tmp[k]]
        /\ idx' = [idx EXCEPT ![p] = k + 1] /\ UNCHANGED <<pc, tmp>>
    BY <1>7 DEF Sort
  <2>2. k \in 1..n /\ k \in 1..MaxBuf /\ k \in Nat /\ tmp[k] \in Entries
    BY <1>1, <1>2, <1>7 DEF StateInv
  <2> HIDE DEF k
  <2>3. StateInv'
    <3>1. dict' \in [1..MaxBuf -> Entries]
      BY <1>1, <2>1, <2>2 DEF StateInv
    <3>2. idx' \in [Procs -> Int] /\ idx'[p] = k + 1
      BY <1>1, <2>1, <2>2 DEF StateInv
    <3> QED
      BY <1>1, <1>3, <3>1, <3>2 DEF StateInv
  <2>4. Others(p) /\ CallOf(p)' /\ idx'[p] = k + 1
    BY <1>1, <1>2, <1>3, <2>1 DEF Others, StateInv, CallOf, Alive
  <2>5. ASSUME NEW i \in 1..k PROVE dict'[i] = tmp[i]
    <3>1. i \in 1..MaxBuf /\ (i = k \/ i \in 1..(k - 1))
      BY <1>1, <2>2
    <3> QED
      BY <1>1, <1>2, <2>1, <2>2, <3>1 DEF StateInv, k
  <2>6. Phase(p)'
    <3>1. Exact(tmp, n, After(p))'
      BY <1>2, <1>3, <1>5, <2>1
    <3>2. idx'[p] \in 1..(n + 1) /\ idx'[p] - 1 = k
      BY <1>1, <2>2, <2>4
    <3> QED
      BY <1>2, <1>3, <2>1, <2>5, <3>1, <3>2 DEF Phase
  <2> QED
    BY <1>2, <1>3, <1>4, <2>1, <2>3, <2>4, <2>6, Changed, CallsKept DEF Changing
<1> QED
  BY <1>6, <1>7

LEMMA FindIdxKeeps ==
  ASSUME Inv, NEW p \in Procs, FindIdx(p)
  PROVE  StateInv' /\ CallInv' /\ DictInv' /\ SearchInv'
<1>1. StateInv /\ LockInv /\ CallOf(p) /\ Phase(p) /\ MaxBuf \in Nat /\ n \in Nat
  BY MaxBufNat DEF Inv, CallInv, DictInv, StateInv
<1>2. /\ lock = p /\ pc[p] = "kill" /\ op[p] = "kill"
      /\ Exact(dict, n, alive)
  BY <1>1 DEF FindIdx, LockInv, LockOK, Changing, CallOf, Phase
<1>3. \A i \in 1..n : dict[i].b.name = dict[i].name /\ dict[i].name \in Int
  BY <1>1 DEF StateInv, Entries
<1>4. Bufs(dict, 1..n) = alive /\ InOrder(dict, 1..n)
  BY <1>2 DEF Exact
<1>5. PICK k \in 1..n : dict[k].name = arg[p] /\ idx' = [idx EXCEPT ![p] = k]
  BY DEF FindIdx
<1>7. k \in 1..n /\ dict[k].name = arg[p]
  BY <1>5
<1>8. /\ idx' = [idx EXCEPT ![p] = k] /\ pc' = [pc EXCEPT ![p] = "shift"]
      /\ UNCHANGED <<dict, n, lock, op, arg, l, u, tmp, res, gen, alive, crossed>>
  BY <1>5 DEF FindIdx, Goto
<1>9. StateInv' /\ Others(p) /\ pc'[p] = "shift" /\ idx'[p] = k
  <2>1. StateInv'
    <3>1. idx' \in [Procs -> Int]
      BY <1>1, <1>7, <1>8 DEF StateInv
    <3> QED
      BY <1>1, <1>8, <3>1 DEF StateInv
  <2>2. Others(p)
    BY <1>1, <1>8 DEF Others, StateInv, LockInv
  <2>3. pc'[p] = "shift" /\ idx'[p] = k
    BY <1>1, <1>8 DEF StateInv, LockInv
  <2> QED
    BY <2>1, <2>2, <2>3
<1>10. CallOf(p)'
  BY <1>1, <1>2, <1>8, <1>9 DEF CallOf, Alive
<1>11. Bufs(dict, (1..n) \ {k}) = {b \in alive : b.name # arg[p]}
  <2>1. ASSUME NEW i \in 1..n PROVE dict[i].name = arg[p] <=> i = k
    <3>1. i < k => dict[i].name < dict[k].name
      BY <1>4, <1>7 DEF InOrder
    <3>2. k < i => dict[k].name < dict[i].name
      BY <1>4, <1>7 DEF InOrder
    <3> QED
      BY <1>3, <1>7, <3>1, <3>2
  <2> QED
    BY <1>3, <1>4, <2>1 DEF Bufs
<1>12. InOrder(dict, (1..n) \ {k})
  BY <1>4 DEF InOrder
<1>13. After(p)' = {b \in alive : b.name # arg[p]}
  BY <1>2, <1>8 DEF After
<1>14. Phase(p)'
  BY <1>7, <1>8, <1>9, <1>11, <1>12, <1>13 DEF Phase
<1>15. pc[p] \in Changing /\ pc'[p] \in Changing
  BY <1>2, <1>9 DEF Changing
<1> QED
  BY <1>8, <1>9, <1>10, <1>14, <1>15, Changed, CallsKept

\* The name is not there: the dictionary is as it was, and the lock is kept.
LEMMA KillNoneKeeps ==
  ASSUME Inv, NEW p \in Procs, KillNone(p)
  PROVE  StateInv' /\ CallInv' /\ DictInv' /\ SearchInv'
<1>1. StateInv /\ LockInv /\ CallOf(p) /\ Phase(p) /\ MaxBuf \in Nat
  BY MaxBufNat DEF Inv, CallInv, DictInv
<1>2. pc[p] = "kill" /\ Exact(dict, n, alive) /\ UNCHANGED <<dict, n, tmp, gen, alive>>
  BY <1>1 DEF KillNone, Phase
<1>3. StateInv'
  <2>1. NULL \in Buffers /\ 0 \in 0..MaxBuf
    BY <1>1 DEF NULL, Buffers
  <2> QED
    BY <1>1, <2>1 DEF StateInv, KillNone, Return
<1>4. Others(p) /\ pc'[p] = "idle" /\ op'[p] = "lookup"
  BY <1>1 DEF Others, KillNone, Return, Goto, StateInv, LockInv
<1>5. CallOf(p)' /\ Phase(p)'
  BY <1>4 DEF CallOf, Phase
<1>6. Exact(dict, n, alive)'
  BY <1>2 DEF Exact, InOrder, Bufs
<1>7. pc[p] \in Changing
  BY <1>2 DEF Changing
<1> QED
  BY <1>2, <1>3, <1>4, <1>5, <1>6, <1>7, Changed, CallsKept

LEMMA ShiftKeeps ==
  ASSUME Inv, NEW p \in Procs, Shift(p)
  PROVE  StateInv' /\ CallInv' /\ DictInv' /\ SearchInv'
<1>1. StateInv /\ LockInv /\ CallOf(p) /\ Phase(p) /\ MaxBuf \in Nat /\ n \in Nat
      /\ n <= MaxBuf
  BY MaxBufNat DEF Inv, CallInv, DictInv, StateInv
<1>2. PICK k : k = idx[p]
  OBVIOUS
<1>3. /\ lock = p /\ pc[p] = "shift" /\ k \in 1..n
      /\ InOrder(dict, (1..n) \ {k}) /\ Bufs(dict, (1..n) \ {k}) = After(p)
  BY <1>1, <1>2 DEF Shift, LockInv, LockOK, Changing, Phase
<1>4. UNCHANGED <<lock, op, arg, l, u, tmp, res, gen, alive, crossed>>
  BY DEF Shift
<1>5. pc[p] \in Changing
  BY <1>3 DEF Changing
<1>6. After(p)' = After(p)
  BY <1>4 DEF After
<1>7. CASE k < n
  <2>1. /\ dict' = [dict EXCEPT ![k] = dict[k + 1]]
        /\ idx' = [idx EXCEPT ![p] = k + 1] /\ UNCHANGED <<n, pc>>
    BY <1>2, <1>7 DEF Shift
  <2>2. k \in 1..MaxBuf /\ k + 1 \in 1..MaxBuf /\ k + 1 \in 1..n /\ k \in Nat
    BY <1>1, <1>3, <1>7
  <2>3. StateInv'
    <3>1. dict' \in [1..MaxBuf -> Entries]
      BY <1>1, <2>1, <2>2 DEF StateInv
    <3>2. idx' \in [Procs -> Int]
      BY <1>1, <2>1, <2>2 DEF StateInv
    <3> QED
      BY <1>1, <1>4, <2>1, <3>1, <3>2 DEF StateInv
  <2>4. Others(p) /\ CallOf(p)' /\ idx'[p] = k + 1
    BY <1>1, <1>3, <1>4, <2>1 DEF Others, StateInv, CallOf, Alive
  <2>5. dict'[k] = dict[k + 1] /\ \A i \in 1..n : i # k => dict'[i] = dict[i]
    BY <1>1, <2>1, <2>2 DEF StateInv
  <2>6. InOrder(dict', (1..n) \ {k + 1})
    <3> SUFFICES ASSUME NEW i \in (1..n) \ {k + 1}, NEW j \in (1..n) \ {k + 1}, i < j
                 PROVE  dict'[i].name < dict'[j].name
      BY DEF InOrder
    <3>1. CASE i = k
      <4>1. j > k + 1 /\ dict'[j] = dict[j]
        BY <2>2, <2>5, <3>1
      <4> QED
        BY <1>3, <2>2, <2>5, <3>1, <4>1 DEF InOrder
    <3>2. CASE j = k
      <4>1. i < k + 1 /\ dict'[i] = dict[i] /\ i # k
        BY <2>2, <2>5, <3>2
      <4> QED
        BY <1>3, <2>2, <2>5, <3>2, <4>1 DEF InOrder
    <3>3. CASE i # k /\ j # k
      BY <1>3, <2>5, <3>3 DEF InOrder
    <3> QED
      BY <3>1, <3>2, <3>3
  <2>7. Bufs(dict', (1..n) \ {k + 1}) = Bufs(dict, (1..n) \ {k})
    <3>1. ASSUME NEW i \in (1..n) \ {k + 1}
          PROVE  \E j \in (1..n) \ {k} : dict[j] = dict'[i]
      <4>1. k + 1 # k
        BY <2>2
      <4> QED
        BY <2>2, <2>5, <4>1
    <3>2. ASSUME NEW j \in (1..n) \ {k}
          PROVE  \E i \in (1..n) \ {k + 1} : dict[j] = dict'[i]
      <4>1. k + 1 # k
        BY <2>2
      <4> QED
        BY <1>3, <2>2, <2>5, <4>1
    <3> QED
      BY <3>1, <3>2 DEF Bufs
  <2>8. Phase(p)'
    BY <1>3, <1>6, <2>1, <2>2, <2>4, <2>6, <2>7 DEF Phase
  <2> QED
    BY <1>3, <1>4, <1>5, <2>1, <2>3, <2>4, <2>8, Changed, CallsKept DEF Changing
<1>8. CASE ~ (k < n)
  <2>1. n' = n - 1 /\ pc' = [pc EXCEPT ![p] = "unlock"] /\ UNCHANGED <<dict, idx>>
    BY <1>2, <1>8 DEF Shift, Goto
  <2>2. n' \in 0..MaxBuf /\ (1..n) \ {k} = 1..(n - 1)
    BY <1>1, <1>3, <1>8, <2>1
  <2>3. Others(p) /\ StateInv' /\ CallOf(p)' /\ pc'[p] = "unlock"
    BY <1>1, <1>3, <1>4, <2>1, <2>2 DEF Others, StateInv, LockInv, CallOf, Alive
  <2>4. Exact(dict, n - 1, After(p))
    BY <1>3, <2>2 DEF Exact
  <2>5. Phase(p)'
    BY <1>6, <2>1, <2>3, <2>4 DEF Phase
  <2> QED
    BY <1>4, <1>5, <2>3, <2>5, Changed, CallsKept DEF Changing
<1> QED
  BY <1>7, <1>8

LEMMA UnlockKeeps ==
  ASSUME Inv, NEW p \in Procs, Unlock(p)
  PROVE  StateInv' /\ CallInv' /\ DictInv' /\ SearchInv'
<1>1. StateInv /\ LockInv /\ CallOf(p) /\ Phase(p) /\ MaxBuf \in Nat /\ CallInv
  BY MaxBufNat DEF Inv, CallInv, DictInv
<1>2. /\ pc[p] = "unlock" /\ op[p] \in {"create", "kill"}
      /\ arg[p] \in Names /\ arg[p] \in Makes[p] /\ Exact(dict, n, After(p))
  BY <1>1 DEF Unlock, LockInv, LockOK, Changing, CallOf, Phase, Ops
<1>3. alive' = After(p) /\ UNCHANGED <<dict, n, tmp, gen>>
  BY DEF Unlock, After
<1>4. Exact(dict, n, alive)'
  BY <1>2, <1>3
<1>5. After(p) \subseteq [name : Names, gen : Nat]
  <2>1. CASE op[p] = "kill"
    BY <1>1, <2>1 DEF After, StateInv
  <2>2. CASE op[p] = "create"
    BY <1>1, <1>2, <2>2 DEF After, StateInv, Entry
  <2> QED
    BY <1>2, <2>1, <2>2
<1>6. StateInv'
  <2>1. NULL \in Buffers /\ 0 \in 0..MaxBuf
    BY <1>1 DEF NULL, Buffers
  <2> QED
    BY <1>1, <1>3, <1>5, <2>1 DEF StateInv, Unlock, Return
<1>7. Others(p) /\ pc'[p] = "idle" /\ op'[p] = "lookup"
  BY <1>1 DEF Others, Unlock, Return, Goto, StateInv, LockInv
<1>8. CallOf(p)' /\ Phase(p)'
  BY <1>7 DEF CallOf, Phase
<1>9. ASSUME NEW q \in Procs, q # p PROVE CallOf(q)'
  <2>1. CallOf(q)
    BY <1>1 DEF CallInv
  <2>2. arg[q] \in Makes[q] => (Alive(arg[q]) <=> Alive(arg[q])')
    <3> SUFFICES ASSUME arg[q] \in Makes[q] PROVE Alive(arg[q]) <=> Alive(arg[q])'
      OBVIOUS
    <3>1. arg[q] # arg[p] /\ arg'[q] = arg[q]
      BY <1>2, <1>7, <1>9, BufDictAssumption DEF Others
    <3> QED
      BY <1>3, <3>1 DEF Alive, After, Entry
  <2> QED
    BY <1>7, <1>9, <2>1, <2>2 DEF CallOf, Others
<1>10. pc[p] \in Changing
  BY <1>2 DEF Changing
<1> QED
  BY <1>4, <1>6, <1>7, <1>8, <1>9, <1>10, Changed

-----------------------------------------------------------------------------
(* The theorems                                                             *)

LEMMA NextInv == Inv /\ [Next]_vars => Inv'
<1> SUFFICES ASSUME Inv, [Next]_vars PROVE Inv'
  OBVIOUS
<1>1. LockInv'
  BY NextLock DEF Inv
<1>2. CASE UNCHANGED vars
  <2> USE <1>2 DEF vars
  <2>1. StateInv' /\ CallInv'
    BY DEF Inv, StateInv, CallInv, CallOf, Alive
  <2>2. DictInv'
    BY DEF Inv, DictInv, Phase, After, Exact, InOrder, Bufs, Quiet
  <2>3. SearchInv'
    BY DEF Inv, SearchInv, SearchOf, Bracket, Answer, Alive, Quiet
  <2> QED
    BY <1>1, <2>1, <2>2, <2>3 DEF Inv
<1>3. ASSUME NEW p \in Procs, Call(p) \/ Step(p) \/ Lock(p) \/ Release(p)
      PROVE  StateInv' /\ CallInv' /\ DictInv' /\ SearchInv'
  <2>1. CASE Call(p)
    <3>1. PICK x \in Names : Lookup(p, x) \/ Create(p, x) \/ Kill(p, x)
      BY <2>1 DEF Call
    <3> QED
      BY <3>1, SearchKeeps, KillKeeps DEF Lookup, Create
  <2>2. CASE Step(p)
    BY <2>2, BsearchKeeps, HitKeeps, FoundKeeps, InsertKeeps, SortKeeps, FindIdxKeeps,
       KillNoneKeeps, ShiftKeeps, UnlockKeeps DEF Step
  <2>3. CASE Lock(p)
    BY <2>3, LockKeeps
  <2>4. CASE Release(p)
    BY <2>4, ReleaseKeeps
  <2> QED
    BY <1>3, <2>1, <2>2, <2>3, <2>4
<1> QED
  BY <1>1, <1>2, <1>3 DEF Next, Inv

LEMMA AlwaysInv == Spec => []Inv
  BY InitInv, NextInv, PTL DEF Spec

\* The array of the dictionary is never written behind its end, and who is changing
\* it holds the lock, so nobody else is; also when names are killed that are not
\* there, which leaves the lock with its killer (bufferMngr's create and kill).
THEOREM DictTypes == Spec => []TypeOK
<1>1. Inv => TypeOK
  BY DEF Inv, LockInv, StateInv, TypeOK
<1> QED
  BY <1>1, AlwaysInv, PTL

\* Whenever nobody is in the middle of a change the dictionary has the buffers that
\* were created and not killed, each once and sorted by name, however the creates,
\* kills and lookups of any number of processes interleave, and whether or not a
\* kill found its name.
THEOREM DictAlwaysExact == Spec => []DictExact
<1>1. Inv => DictExact
  <2> SUFFICES ASSUME Inv, Quiet
               PROVE  /\ {dict[i].b : i \in 1..n} = alive
                      /\ \A i \in 1..(n - 1) : dict[i].name < dict[i + 1].name
    BY DEF DictExact
  <2>1. Exact(dict, n, alive) /\ n \in Nat
    BY MaxBufNat DEF Inv, DictInv, StateInv
  <2>2. \A i \in 1..(n - 1) : i \in 1..n /\ i + 1 \in 1..n /\ i < i + 1
    BY <2>1
  <2> QED
    BY <2>1, <2>2 DEF Exact, InOrder, Bufs
<1> QED
  BY <1>1, AlwaysInv, PTL

\* A search without the lock returns the buffer of the name, or NULL when there is
\* none, unless another process has changed the dictionary under it.
THEOREM LookupsExact == Spec => []LookupExact
<1>1. Inv => LookupExact
  BY DEF Inv, SearchInv, SearchOf, Answer, LookupExact
<1> QED
  BY <1>1, AlwaysInv, PTL
=============================================================================
