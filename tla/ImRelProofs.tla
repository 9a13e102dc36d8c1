----------------------------- MODULE ImRelProofs ----------------------------
(***************************************************************************)
(* Proofs about ImRel: the types, the pool, the chains of the index, and   *)
(* that a relation is a table.  Everything is said of the set of cells on  *)
(* the list and of the order of their put numbers: next leads to the next  *)
(* higher one, hchain to the next lower one with the same key.             *)
(***************************************************************************)
EXTENDS ImRel, FiniteSetTheorems, SequenceTheorems, WellFoundedInduction, TLAPS

-----------------------------------------------------------------------------
(* Induction over the natural numbers, with a set in the place of a        *)
(* predicate                                                               *)

\* A set of natural numbers that is not empty has a least element.
LEMMA LeastNat ==
    ASSUME NEW N, N \subseteq Nat, N # {}
    PROVE  \E x \in N : \A y \in N : x <= y
  <1> DEFINE R == OpToRel(<, Nat)
  <1>1. IsWellFoundedOn(R, Nat)
    BY NatLessThanWellFounded
  <1>2. \A x, y \in Nat : <<x, y>> \in R <=> x < y
    BY DEF OpToRel
  <1> HIDE DEF R
  <1>3. PICK x \in N : \A y \in N : ~ (<<y, x>> \in R)
    BY <1>1, WFMin
  <1>4. ASSUME NEW y \in N PROVE x <= y
    <2>1. x \in Nat /\ y \in Nat /\ ~ (y < x)
      BY <1>2, <1>3
    <2> QED
      BY <2>1
  <1> QED
    BY <1>4

\* Induction: a set that has 0 and with every number its successor has them
\* all.
LEMMA NatInd ==
    ASSUME NEW P, 0 \in P, \A n \in Nat : n \in P => n + 1 \in P
    PROVE  \A n \in Nat : n \in P
  <1> SUFFICES ASSUME Nat \ P # {} PROVE FALSE
    OBVIOUS
  <1>1. PICK x \in Nat \ P : \A y \in Nat \ P : x <= y
    BY LeastNat
  <1>2. x # 0 /\ x - 1 \in Nat /\ x - 1 \in P
    BY <1>1
  <1>3. (x - 1) + 1 \in P
    BY <1>2
  <1> QED
    BY <1>1, <1>2, <1>3

-----------------------------------------------------------------------------
(* Paths                                                                    *)

\* s is the function defined inside Path, up to n.
Steps(s, f, x, n) ==
    s = [i \in 0..n |-> IF i = 0 THEN x
                        ELSE IF s[i - 1] = NULL THEN NULL ELSE f[s[i - 1]]]

LEMMA StepsAt ==
  ASSUME NEW s, NEW f, NEW x, NEW n, Steps(s, f, x, n), NEW i \in 0..n
  PROVE  s[i] = IF i = 0 THEN x
                ELSE IF s[i - 1] = NULL THEN NULL ELSE f[s[i - 1]]
<1> DEFINE g == [j \in 0..n |-> IF j = 0 THEN x
                     ELSE IF s[j - 1] = NULL THEN NULL ELSE f[s[j - 1]]]
<1>1. s = g
  BY DEF Steps
<1>2. g[i] = IF i = 0 THEN x ELSE IF s[i - 1] = NULL THEN NULL ELSE f[s[i - 1]]
  OBVIOUS
<1> HIDE DEF g
<1> QED
  BY <1>1, <1>2

LEMMA StepsExist ==
  ASSUME NEW f, NEW x PROVE \A n \in Nat : \E s : Steps(s, f, x, n)
<1> DEFINE P == {n \in Nat : \E s : Steps(s, f, x, n)}
<1>1. 0 \in P
  <2>1. Steps([i \in 0..0 |-> x], f, x, 0)
    BY DEF Steps
  <2> QED
    BY <2>1
<1>2. ASSUME NEW n \in Nat, n \in P PROVE n + 1 \in P
  <2>1. PICK s : Steps(s, f, x, n)
    BY <1>2
  <2> DEFINE t == [i \in 0..(n + 1) |->
                     IF i = 0 THEN x
                     ELSE IF s[i - 1] = NULL THEN NULL ELSE f[s[i - 1]]]
  <2>2. \A i \in 0..n : t[i] = s[i]
    BY <2>1, StepsAt
  <2>3. \A i \in 0..(n + 1) : i # 0 => i - 1 \in 0..n
    OBVIOUS
  <2>4. Steps(t, f, x, n + 1)
    BY <2>2, <2>3 DEF Steps
  <2> QED
    BY <2>4
<1> HIDE DEF P
<1>3. \A n \in Nat : n \in P
  BY <1>1, <1>2, NatInd
<1> QED
  BY <1>3 DEF P

\* y comes next after the cells of rank a and less: it has the least higher
\* one, or is NULL if none has.
Follows(r, R, a, y) ==
    \/ y = NULL /\ \A z \in R : r[z] <= a
    \/ /\ y \in R /\ r[y] > a
       /\ \A z \in R : r[z] > a => r[y] <= r[z]

\* From x on f leads through the cells of R by rising rank.
Leads(f, r, R, x) ==
    /\ R \subseteq Cells
    /\ r \in [Cells -> Nat]
    /\ \A y, z \in R : r[y] = r[z] => y = z
    /\ \A y \in R : r[y] > 0
    /\ Follows(r, R, 0, x)
    /\ \A y \in R : Follows(r, R, r[y], f[y])

\* After n steps the path has met the cells of lower rank, in their order.
Met(s, r, R, n) ==
    /\ s[n] \in R \cup {NULL}
    /\ s[n] = NULL => \A z \in R : \E i \in 0..(n - 1) : s[i] = z
    /\ s[n] # NULL =>
         /\ \A i \in 0..(n - 1) : s[i] \in R /\ r[s[i]] < r[s[n]]
         /\ \A z \in R : r[z] < r[s[n]] => \E i \in 0..(n - 1) : s[i] = z

LEMMA NullNoCell == NULL \notin Cells
  BY DEF NULL, Cells

LEMMA MetFirst ==
  ASSUME NEW f, NEW r, NEW R, NEW x, Leads(f, r, R, x), NEW s, s[0] = x
  PROVE  Met(s, r, R, 0)
<1>1. R \subseteq Cells /\ Follows(r, R, 0, x) /\ \A y \in R : r[y] > 0 /\ r[y] \in Nat
  BY DEF Leads
<1>2. 0..(0 - 1) = {}
  OBVIOUS
<1> QED
  BY <1>1, <1>2, NullNoCell DEF Follows, Met

LEMMA MetNext ==
  ASSUME NEW f, NEW r, NEW R, NEW x, Leads(f, r, R, x), NEW s, NEW n \in Nat,
         Met(s, r, R, n),
         s[n + 1] = IF s[n] = NULL THEN NULL ELSE f[s[n]]
  PROVE  Met(s, r, R, n + 1)
<1>0. n \in 0..((n + 1) - 1) /\ 0..((n + 1) - 1) = 0..(n - 1) \cup {n}
  OBVIOUS
<1>t. R \subseteq Cells /\ NULL \notin R /\ \A y \in R : r[y] \in Nat
  BY NullNoCell DEF Leads
<1>1. CASE s[n] = NULL
  BY <1>0, <1>1 DEF Met
<1>2. CASE s[n] # NULL
  <2>1. s[n] \in R /\ s[n + 1] = f[s[n]] /\ Follows(r, R, r[s[n]], s[n + 1])
    BY <1>2 DEF Met, Leads
  <2>2. /\ \A i \in 0..(n - 1) : s[i] \in R /\ r[s[i]] < r[s[n]]
        /\ \A z \in R : r[z] < r[s[n]] => \E i \in 0..(n - 1) : s[i] = z
    BY <1>2 DEF Met
  <2>3. \A z \in R : r[z] <= r[s[n]] => \E i \in 0..((n + 1) - 1) : s[i] = z
    <3> SUFFICES ASSUME NEW z \in R, r[z] <= r[s[n]]
                 PROVE  \E i \in 0..((n + 1) - 1) : s[i] = z
      OBVIOUS
    <3>1. CASE r[z] = r[s[n]]
      <4>1. z = s[n]
        BY <2>1, <3>1 DEF Leads
      <4> QED
        BY <4>1, <1>0
    <3>2. CASE r[z] # r[s[n]]
      <4>1. r[z] < r[s[n]]
        BY <1>t, <2>1, <3>2
      <4> QED
        BY <4>1, <2>2, <1>0
    <3> QED
      BY <3>1, <3>2
  <2>4. CASE s[n + 1] = NULL
    <3>1. \A z \in R : r[z] <= r[s[n]]
      BY <2>1, <2>4, <1>t DEF Follows
    <3> QED
      BY <3>1, <2>3, <2>4 DEF Met
  <2>5. CASE s[n + 1] # NULL
    <3>1. s[n + 1] \in R /\ r[s[n + 1]] > r[s[n]]
          /\ \A z \in R : r[z] > r[s[n]] => r[s[n + 1]] <= r[z]
      BY <2>1, <2>5 DEF Follows
    <3>2. \A i \in 0..((n + 1) - 1) : s[i] \in R /\ r[s[i]] < r[s[n + 1]]
      <4> SUFFICES ASSUME NEW i \in 0..((n + 1) - 1)
                   PROVE  s[i] \in R /\ r[s[i]] < r[s[n + 1]]
        OBVIOUS
      <4>1. i = n \/ i \in 0..(n - 1)
        OBVIOUS
      <4>2. s[i] \in R /\ r[s[i]] <= r[s[n]]
        BY <4>1, <2>1, <2>2, <1>t
      <4> QED
        BY <4>2, <3>1, <2>1, <1>t
    <3>3. \A z \in R : r[z] < r[s[n + 1]] => r[z] <= r[s[n]]
      BY <3>1, <2>1, <1>t
    <3> QED
      BY <2>3, <3>1, <3>2, <3>3, <2>5 DEF Met
  <2> QED
    BY <2>4, <2>5
<1> QED
  BY <1>1, <1>2

\* p goes through R by rising rank.
Through(p, r, R, m) ==
    /\ p \in [1..m -> R]
    /\ \A y \in R : \E i \in 1..m : p[i] = y
    /\ \A i, j \in 1..m : i < j => r[p[i]] < r[p[j]]

LEMMA PathIs ==
  ASSUME NEW f, NEW r, NEW R, NEW x, Leads(f, r, R, x)
  PROVE  \E m \in Nat : Through(Path(f, x), r, R, m)
<1> DEFINE s == CHOOSE s : Steps(s, f, x, MaxCells)
           N == {n \in 0..MaxCells : s[n] = NULL} \cup {MaxCells + 1}
           m == Min(N)
<1>0. MaxCells \in Nat
  BY ImRelAssumption
<1>1. Steps(s, f, x, MaxCells)
  BY <1>0, StepsExist
<1>2. Path(f, x) = [n \in 1..m |-> s[n - 1]]
  BY DEF Path, Steps
<1> HIDE DEF s
<1>t. R \subseteq Cells /\ NULL \notin R /\ \A y \in R : r[y] \in Nat
  BY NullNoCell DEF Leads
<1>3. \A n \in 0..MaxCells : Met(s, r, R, n)
  <2> DEFINE P == {n \in Nat : n \in 0..MaxCells => Met(s, r, R, n)}
  <2>1. 0 \in P
    <3>1. 0 \in 0..MaxCells
      BY <1>0
    <3>2. s[0] = x
      BY <3>1, <1>1, StepsAt
    <3> QED
      BY <3>2, MetFirst
  <2>2. ASSUME NEW n \in Nat, n \in P PROVE n + 1 \in P
    <3> SUFFICES ASSUME n + 1 \in 0..MaxCells PROVE Met(s, r, R, n + 1)
      OBVIOUS
    <3>1. n \in 0..MaxCells /\ (n + 1) - 1 = n /\ n + 1 # 0
      BY <1>0
    <3>2. Met(s, r, R, n)
      BY <2>2, <3>1
    <3>3. s[n + 1] = IF s[n] = NULL THEN NULL ELSE f[s[n]]
      <4>1. s[n + 1] = IF n + 1 = 0 THEN x
             ELSE IF s[(n + 1) - 1] = NULL THEN NULL ELSE f[s[(n + 1) - 1]]
        BY <1>1, StepsAt
      <4> QED
        BY ONLY <4>1, <3>1
    <3> QED
      BY <3>2, <3>3, MetNext
  <2> HIDE DEF P
  <2>3. \A n \in Nat : n \in P
    BY <2>1, <2>2, NatInd
  <2>4. \A n \in 0..MaxCells : n \in Nat
    BY <1>0
  <2> QED
    BY <2>3, <2>4 DEF P
<1>4. \E n \in 0..MaxCells : s[n] = NULL
  <2> SUFFICES ASSUME \A n \in 0..MaxCells : s[n] # NULL PROVE FALSE
    OBVIOUS
  <2> DEFINE A == 0..MaxCells
             g == [n \in A |-> s[n]]
  <2>1. g \in [A -> Cells]
    BY <1>3, <1>t DEF Met
  <2>2. /\ IsFiniteSet(A) /\ Cardinality(A) = MaxCells + 1
        /\ IsFiniteSet(Cells) /\ Cardinality(Cells) = MaxCells
    <3>1. 0 \in Int /\ 1 \in Int /\ MaxCells \in Int
      BY <1>0
    <3>2. /\ IsFiniteSet(A)
          /\ Cardinality(A) = IF 0 > MaxCells THEN 0 ELSE MaxCells - 0 + 1
      BY <3>1, FS_Interval
    <3>3. /\ IsFiniteSet(Cells)
          /\ Cardinality(Cells) = IF 1 > MaxCells THEN 0 ELSE MaxCells - 1 + 1
      BY <3>1, FS_Interval DEF Cells
    <3> HIDE DEF A
    <3> QED
      BY <1>0, <3>2, <3>3
  <2>3. \E i, j \in A : i # j /\ g[i] = g[j]
    <3>1. Cardinality(Cells) < Cardinality(A)
      BY <2>2, <1>0
    <3> HIDE DEF A, g
    <3> QED
      BY <2>1, <2>2, <3>1, FS_PigeonHole
  <2>4. ASSUME NEW i \in A, NEW j \in A, i < j PROVE s[i] # s[j]
    <3>1. i \in 0..(j - 1) /\ s[j] # NULL /\ Met(s, r, R, j)
      BY <2>4, <1>3, <1>0
    <3>2. s[i] \in R /\ r[s[i]] < r[s[j]] /\ s[j] \in R
      BY <3>1 DEF Met
    <3> QED
      BY <3>2, <1>t
  <2>5. PICK i \in A, j \in A : i # j /\ s[i] = s[j]
    BY <2>3
  <2>6. i < j \/ j < i
    BY <2>5, <1>0
  <2> QED
    BY <2>4, <2>5, <2>6
<1>5. m \in 0..MaxCells /\ s[m] = NULL /\ \A n \in 0..(m - 1) : s[n] # NULL
  <2>1. N \subseteq Nat /\ N # {}
    BY <1>0
  <2>2. PICK y \in N : \A z \in N : y <= z
    <3> HIDE DEF N
    <3> QED
      BY <2>1, LeastNat
  <2>3. m \in N /\ \A z \in N : m <= z
    <3> HIDE DEF N
    <3> QED
      BY <2>2 DEF Min
  <2>4. m # MaxCells + 1
    <3>1. PICK n \in 0..MaxCells : s[n] = NULL
      BY <1>4
    <3>2. n \in N /\ m <= n
      BY <3>1, <2>3
    <3> HIDE DEF m, N
    <3> QED
      BY <3>2, <1>0
  <2>5. m \in 0..MaxCells /\ s[m] = NULL
    BY <2>3, <2>4
  <2>6. ASSUME NEW n \in 0..(m - 1) PROVE s[n] # NULL
    <3> SUFFICES ASSUME s[n] = NULL PROVE FALSE
      OBVIOUS
    <3> HIDE DEF m
    <3>1. n \in 0..MaxCells /\ n < m
      BY <2>5, <1>0
    <3>2. n \in N
      BY <3>1
    <3> HIDE DEF N
    <3> QED
      BY <3>1, <3>2, <2>3, <2>5, <1>0
  <2> QED
    BY <2>5, <2>6
<1> HIDE DEF m, N
<1>m. m \in Nat /\ \A n \in 1..m : n - 1 \in 0..(m - 1) /\ n - 1 \in 0..MaxCells
  BY <1>5, <1>0
<1> DEFINE p == [n \in 1..m |-> s[n - 1]]
<1>6. \A n \in 1..m : p[n] = s[n - 1] /\ s[n - 1] \in R
  BY <1>m, <1>5, <1>3 DEF Met
<1>7. p \in [1..m -> R]
  BY <1>6
<1>8. ASSUME NEW y \in R PROVE \E i \in 1..m : p[i] = y
  <2>1. PICK i \in 0..(m - 1) : s[i] = y
    BY <1>3, <1>5 DEF Met
  <2>2. i + 1 \in 1..m /\ (i + 1) - 1 = i
    BY <1>m
  <2> QED
    BY <2>1, <2>2
<1>9. ASSUME NEW i \in 1..m, NEW j \in 1..m, i < j PROVE r[p[i]] < r[p[j]]
  <2>1. Met(s, r, R, j - 1) /\ s[j - 1] # NULL /\ i - 1 \in 0..((j - 1) - 1)
    BY <1>m, <1>3, <1>5, <1>9
  <2>2. r[s[i - 1]] < r[s[j - 1]]
    BY <2>1 DEF Met
  <2> QED
    BY <2>2
<1> HIDE DEF p
<1>10. Through(p, r, R, m)
  BY <1>7, <1>8, <1>9 DEF Through
<1>11. Path(f, x) = p
  BY <1>2 DEF p
<1> QED
  BY <1>10, <1>11, <1>m
-----------------------------------------------------------------------------
(* The inductive invariant                                                  *)

CellSet == Cells \cup {NULL}
CellRecord == [next : CellSet, prev : CellSet, hchain : CellSet,
               key : Keys \cup {All}, id : 0..MaxPuts, d : 0..MaxUpdates]
ScanRecord == [on : BOOLEAN, key : Keys \cup {All}, at : 0..MaxPuts,
               here : BOOLEAN, eof : BOOLEAN]

\* The types of TypeOK.
Types ==
    /\ indexed \in BOOLEAN /\ head \in CellSet
    /\ cell \in [Cells -> CellRecord]
    /\ free \in Seq(Cells) /\ fresh \in 1..(MaxCells + 1)
    /\ hidx \in [Keys -> [cell : CellSet, keyat : CellSet]]
    /\ cur \in [Cursors -> CellSet] /\ nextaccess \in [Cursors -> CellSet]
    /\ scan \in [Cursors -> ScanRecord]
    /\ puts \in 0..MaxPuts /\ emptied \in Nat

\* The cell behind x on the list whose head is h.
Fwd(cl, h, x) == IF cl[x].next = h THEN NULL ELSE cl[x].next

\* y is the first row of S put after a, NULL if there is none.
After(cl, S, a, y) ==
    \/ y = NULL /\ \A x \in S : cl[x].id <= a
    \/ /\ y \in S /\ cl[y].id > a
       /\ \A x \in S : cl[x].id > a => cl[y].id <= cl[x].id

\* x is a row of S with the key k put before a, where 0 is no bound.
Older(cl, S, k, a, x) == x \in S /\ cl[x].key = k /\ (a = 0 \/ cl[x].id < a)

\* y is the last of them, NULL if there is none.
Before(cl, S, k, a, y) ==
    \/ y = NULL /\ \A x \in S : ~Older(cl, S, k, a, x)
    \/ /\ Older(cl, S, k, a, y)
       /\ \A x \in S : Older(cl, S, k, a, x) => cl[x].id <= cl[y].id

\* The cells of S are the list with the head h, in the order of the puts.
Ring(cl, h, S) ==
    /\ S \subseteq Cells
    /\ \A x, y \in S : cl[x].id = cl[y].id => x = y
    /\ After(cl, S, 0, h)
    /\ \A x \in S :
         /\ cl[x].next \in S /\ cl[cl[x].next].prev = x
         /\ cl[x].prev \in S /\ cl[cl[x].prev].next = x
         /\ After(cl, S, cl[x].id, Fwd(cl, h, x))

\* The rows of S are n rows put so far.
Rows(cl, S, n) == \A x \in S : cl[x].id \in 1..n /\ cl[x].key \in Keys

\* Every cell below f is in S, or once in fr, or was lost; there are e such.
Pool(S, fr, f, e) ==
    /\ IsFiniteSet(S) /\ \A x \in S : x < f
    /\ \A i \in 1..Len(fr) : fr[i] < f /\ fr[i] \notin S
    /\ \A i, j \in 1..Len(fr) : fr[i] = fr[j] => i = j
    /\ f - 1 = Cardinality(S) + Len(fr) + e

\* The slot of a key whose newest row is at y.
SlotOf(y) == IF y = NULL THEN NoSlot ELSE [cell |-> y, keyat |-> y]

\* The chains of the index ix.
Chains(cl, S, ix) ==
    /\ \A k \in Keys : \E y : Before(cl, S, k, 0, y) /\ ix[k] = SlotOf(y)
    /\ \A x \in S : Before(cl, S, cl[x].key, cl[x].id, cl[x].hchain)

\* A full scan that returned the row a and is at u: u is that row, or was the
\* first one and is NULL, or leads to the row after it.
Placed(cl, h, S, a, u) ==
    \/ u = NULL /\ \A x \in S : cl[x].id > a
    \/ u \in S /\ cl[u].id = a
    \/ /\ u \in Cells \ S /\ cl[u].next # NULL
       /\ S # {} => After(cl, S, a, Fwd(cl, h, u))

\* The place s of a scan in the relation, with its cursor at u and v next.
Scanning(cl, h, S, n, ind, s, u, v) ==
    /\ s.at <= n
    /\ s.here => s.on /\ ~s.eof /\ u \in S /\ cl[u].id = s.at
    /\ s.on /\ s.key # All => ind
    /\ s.on /\ ~s.eof /\ s.at # 0 /\ s.key = All => Placed(cl, h, S, s.at, u)
    /\ s.on /\ ~s.eof /\ s.at # 0 /\ s.key # All =>
         Before(cl, S, s.key, s.at, v)

\* What holds of the relation whose list is S.
IsRelation(S) ==
    /\ Ring(cell, head, S)
    /\ Rows(cell, S, puts)
    /\ Pool(S, free, fresh, emptied)
    /\ indexed => Chains(cell, S, hidx)
    /\ \A c \in Cursors : Scanning(cell, head, S, puts, indexed, scan[c],
                                    cur[c], nextaccess[c])

\* The inductive invariant.
RelationInv == Types /\ \E S \in SUBSET Cells : IsRelation(S)

-----------------------------------------------------------------------------
(* What the operators return when the invariant holds                       *)

IsCells(cl) == cl \in [Cells -> CellRecord]

LEMMA CellFields ==
  ASSUME NEW cl, IsCells(cl), NEW x \in Cells
  PROVE  /\ cl[x].next \in CellSet /\ cl[x].prev \in CellSet
         /\ cl[x].hchain \in CellSet
         /\ cl[x].key \in Keys \cup {All} /\ cl[x].id \in 0..MaxPuts
         /\ cl[x].d \in 0..MaxUpdates
         /\ cl[x].id \in Nat /\ cl[x].d \in Nat
<1>1. cl[x] \in CellRecord /\ MaxPuts \in Nat /\ MaxUpdates \in Nat
  BY ImRelAssumption DEF IsCells
<1> QED
  BY <1>1 DEF CellRecord

\* The cells of the list with the head h.
Listed(cl, h) ==
    Range(IF h = NULL THEN << >>
          ELSE Path([x \in Cells |-> IF cl[x].next = h THEN NULL
                                     ELSE cl[x].next], h))

LEMMA ListIs ==
  ASSUME NEW cl, IsCells(cl), NEW h, NEW S, Ring(cl, h, S),
         NEW n, Rows(cl, S, n), n \in Nat
  PROVE  Listed(cl, h) = S
<1> DEFINE f == [x \in Cells |-> IF cl[x].next = h THEN NULL ELSE cl[x].next]
           r == [x \in Cells |-> cl[x].id]
<1>0. /\ S \subseteq Cells /\ \A x \in S : cl[x].id \in Nat /\ cl[x].id > 0
      /\ NULL \notin S
  BY CellFields, NullNoCell DEF Ring, Rows
<1>1. CASE h = NULL
  <2>1. \A x \in S : cl[x].id <= 0
    BY <1>0, <1>1 DEF Ring, After
  <2>2. S = {}
    BY <2>1, <1>0
  <2>3. Listed(cl, h) = {}
    BY <1>1 DEF Listed, Range
  <2> QED
    BY <2>2, <2>3
<1>2. CASE h # NULL
  <2>1. \A x \in S : f[x] = Fwd(cl, h, x) /\ r[x] = cl[x].id
    BY <1>0 DEF Fwd
  <2>2. r \in [Cells -> Nat]
    BY CellFields
  <2> HIDE DEF f, r
  <2>3. \A a, y : After(cl, S, a, y) => Follows(r, S, a, y)
    BY <2>1 DEF After, Follows
  <2>4. Leads(f, r, S, h)
    BY <1>0, <2>1, <2>2, <2>3 DEF Leads, Ring
  <2>5. PICK m \in Nat : Through(Path(f, h), r, S, m)
    BY <2>4, PathIs
  <2>6. Range(Path(f, h)) = S
    BY <2>5 DEF Through, Range
  <2> QED
    BY <2>6, <1>2 DEF Listed, f
<1> QED
  BY <1>1, <1>2

\* The rows with the key k.
RowsOf(cl, S, k) == {x \in S : cl[x].key = k}

\* The order of a chain: from the newest row on.
Age(cl) == [x \in Cells |-> (MaxPuts + 1) - cl[x].id]

LEMMA ChainIs ==
  ASSUME NEW cl, IsCells(cl), NEW h, NEW S, Ring(cl, h, S),
         NEW n, Rows(cl, S, n), n \in Nat,
         NEW ix, Chains(cl, S, ix), NEW k, NEW y, Before(cl, S, k, 0, y)
  PROVE  \E m \in Nat : Through(Path([x \in Cells |-> cl[x].hchain], y), Age(cl),
                                RowsOf(cl, S, k), m)
<1> DEFINE f == [x \in Cells |-> cl[x].hchain]
           r == Age(cl)
           R == RowsOf(cl, S, k)
<1>0. /\ S \subseteq Cells /\ \A x \in S : cl[x].id \in Nat /\ cl[x].id > 0
      /\ NULL \notin S /\ MaxPuts \in Nat
  BY CellFields, NullNoCell, ImRelAssumption DEF Ring, Rows
<1>1. \A x \in Cells : r[x] = (MaxPuts + 1) - cl[x].id /\ r[x] \in Nat /\ r[x] > 0
                       /\ cl[x].id \in Nat /\ cl[x].id <= MaxPuts
                       /\ f[x] = cl[x].hchain
  BY <1>0, CellFields DEF Age
<1>2. r \in [Cells -> Nat]
  BY <1>1 DEF Age
<1>3. R \subseteq S /\ \A x \in S : x \in R <=> cl[x].key = k
  BY DEF RowsOf
<1> HIDE DEF f, r, R
<1>4. Follows(r, R, 0, y)
  <2>1. CASE y = NULL
    BY <2>1, <1>0, <1>3 DEF Before, Older, Follows
  <2>2. CASE y # NULL
    <3>1. y \in R /\ \A x \in R : cl[x].id <= cl[y].id
      BY <2>2, <1>0, <1>3 DEF Before, Older
    <3> QED
      BY <3>1, <1>0, <1>1, <1>3 DEF Follows
  <2> QED
    BY <2>1, <2>2
<1>5. ASSUME NEW z \in R PROVE Follows(r, R, r[z], f[z])
  <2>1. z \in S /\ z \in Cells /\ cl[z].id # 0 /\ cl[z].key = k /\ f[z] = cl[z].hchain
    BY <1>0, <1>1, <1>3
  <2>2. Before(cl, S, k, cl[z].id, f[z])
    BY <2>1 DEF Chains
  <2>3. CASE f[z] = NULL
    <3>1. \A x \in R : ~(cl[x].id < cl[z].id)
      BY <2>2, <2>3, <1>0, <1>3 DEF Before, Older
    <3>2. \A x \in R : r[x] <= r[z]
      BY <3>1, <2>1, <1>0, <1>1, <1>3
    <3> QED
      BY <3>2, <2>3 DEF Follows
  <2>4. CASE f[z] # NULL
    <3>1. /\ f[z] \in R /\ cl[f[z]].id < cl[z].id
          /\ \A x \in R : cl[x].id < cl[z].id => cl[x].id <= cl[f[z]].id
      BY <2>1, <2>2, <2>4, <1>0, <1>3 DEF Before, Older
    <3>2. r[f[z]] > r[z]
      BY <3>1, <2>1, <1>0, <1>1, <1>3
    <3>3. \A x \in R : r[x] > r[z] => r[f[z]] <= r[x]
      BY <3>1, <2>1, <1>0, <1>1, <1>3
    <3> QED
      BY <3>1, <3>2, <3>3 DEF Follows
  <2> QED
    BY <2>3, <2>4
<1>6. \A u, v \in R : r[u] = r[v] => u = v
  <2>1. \A u, v \in R : r[u] = r[v] => cl[u].id = cl[v].id
    BY <1>0, <1>1, <1>3
  <2> QED
    BY <2>1, <1>3 DEF Ring
<1>7. Leads(f, r, R, y)
  BY <1>0, <1>1, <1>2, <1>3, <1>4, <1>5, <1>6 DEF Leads
<1>8. \E m \in Nat : Through(Path(f, y), r, R, m)
  BY <1>7, PathIs
<1> QED
  BY <1>8 DEF f, r, R

\* The slot of a key leads to its newest row.
LEMMA FindIs ==
  ASSUME NEW S, NULL \notin S, Chains(cell, S, hidx), NEW k \in Keys,
         NEW cl, \A x \in S : cl[x].key = cell[x].key
  PROVE  Before(cell, S, k, 0, Find(cl, k)) /\ hidx[k] = SlotOf(Find(cl, k))
<1>1. PICK y : Before(cell, S, k, 0, y) /\ hidx[k] = SlotOf(y)
  BY DEF Chains
<1>2. CASE y = NULL
  <2>1. hidx[k] = NoSlot
    BY <1>1, <1>2 DEF SlotOf
  <2>2. Find(cl, k) = NULL
    BY <2>1 DEF Find
  <2> QED
    BY <1>1, <1>2, <2>2
<1>3. CASE y # NULL
  <2>1. y \in S /\ cell[y].key = k /\ cl[y].key = k
    BY <1>1, <1>3 DEF Before, Older
  <2>2. hidx[k] = [cell |-> y, keyat |-> y]
    BY <1>1, <1>3 DEF SlotOf
  <2>3. hidx[k] # NoSlot /\ hidx[k].keyat = y /\ hidx[k].cell = y
    <3>1. NoSlot.cell = NULL
      BY DEF NoSlot
    <3> QED
      BY <2>2, <3>1, <1>3
  <2>4. Find(cl, k) = y
    BY <2>1, <2>3 DEF Find
  <2> QED
    BY <1>1, <2>4
<1> QED
  BY <1>2, <1>3

-----------------------------------------------------------------------------
(* The invariant implies the properties                                     *)

LEMMA OnListIs ==
  ASSUME Types, NEW S, IsRelation(S) PROVE OnList = S /\ NULL \notin S
<1>1. IsCells(cell) /\ puts \in Nat
  BY ImRelAssumption DEF Types, IsCells
<1>2. Listed(cell, head) = S
  BY <1>1, ListIs DEF IsRelation
<1> QED
  BY <1>2, NullNoCell DEF Listed, OnList, List, IsRelation, Ring

LEMMA ImpliesTypeOK == RelationInv => TypeOK
<1> SUFFICES ASSUME Types, NEW S \in SUBSET Cells, IsRelation(S) PROVE TypeOK
  BY DEF RelationInv
<1>1. \A c \in Cursors : scan[c].here => cur[c] \in OnList
  BY OnListIs DEF IsRelation, Scanning
<1> QED
  BY <1>1 DEF TypeOK, Types, CellSet, CellRecord, ScanRecord

LEMMA ImpliesPool == RelationInv => PoolExact
<1> SUFFICES ASSUME Types, NEW S \in SUBSET Cells, IsRelation(S) PROVE PoolExact
  BY DEF RelationInv
<1>1. OnList = S
  BY OnListIs
<1>2. free \in Seq(Cells) /\ DOMAIN free = 1..Len(free)
  BY DEF Types
<1>3. S \cap Range(free) = {} /\ IsInjective(free)
  BY <1>2 DEF IsRelation, Pool, Range, IsInjective
<1>4. fresh - 1 = Cardinality(S) + Len(free) + emptied
  BY DEF IsRelation, Pool
<1>5. \A x \in S : cell[cell[x].next].prev = x
  BY DEF IsRelation, Ring
<1> QED
  BY <1>1, <1>3, <1>4, <1>5 DEF PoolExact

LEMMA ImpliesChains == RelationInv => ChainExact
<1> SUFFICES ASSUME Types, NEW S \in SUBSET Cells, IsRelation(S), indexed,
                    NEW k \in Keys
             PROVE  LET chain == Path([x \in Cells |-> cell[x].hchain], Find(cell, k)) IN
                    /\ hidx[k] # NoSlot => hidx[k].keyat \in OnList
                    /\ Range(chain) = {x \in OnList : cell[x].key = k}
                    /\ \A i, j \in DOMAIN chain :
                         i < j => cell[chain[i]].id > cell[chain[j]].id
  BY DEF RelationInv, ChainExact
<1> DEFINE y == Find(cell, k)
           p == Path([x \in Cells |-> cell[x].hchain], y)
<1>1. OnList = S /\ NULL \notin S
  BY OnListIs
<1>2. IsCells(cell) /\ puts \in Nat /\ MaxPuts \in Nat
  BY ImRelAssumption DEF Types, IsCells
<1>3. Ring(cell, head, S) /\ Rows(cell, S, puts) /\ Chains(cell, S, hidx)
  BY DEF IsRelation
<1>4. Before(cell, S, k, 0, y) /\ hidx[k] = SlotOf(y)
  BY <1>1, <1>3, FindIs
<1> HIDE DEF y
<1>5. PICK m \in Nat : Through(p, Age(cell), RowsOf(cell, S, k), m)
  BY <1>2, <1>3, <1>4, ChainIs
<1> HIDE DEF p
<1>6. hidx[k] # NoSlot => hidx[k].keyat \in S
  BY <1>4 DEF SlotOf, Before, Older
<1>7. Range(p) = RowsOf(cell, S, k) /\ DOMAIN p = 1..m
  BY <1>5 DEF Through, Range
<1>8. ASSUME NEW i \in 1..m, NEW j \in 1..m, i < j
      PROVE  cell[p[i]].id > cell[p[j]].id
  <2>1. p[i] \in Cells /\ p[j] \in Cells /\ Age(cell)[p[i]] < Age(cell)[p[j]]
    BY <1>5, <1>8 DEF Through, RowsOf
  <2>2. \A z \in Cells : Age(cell)[z] = (MaxPuts + 1) - cell[z].id /\ cell[z].id \in Nat
    BY <1>2, CellFields DEF Age
  <2> QED
    BY <2>1, <2>2, <1>2
<1> QED
  BY <1>1, <1>6, <1>7, <1>8 DEF p, y, RowsOf

LEMMA RelationInit == Init => RelationInv
<1> SUFFICES ASSUME Init PROVE RelationInv
  OBVIOUS
<1>0. MaxCells \in Nat /\ MaxPuts \in Nat /\ MaxUpdates \in Nat
  BY ImRelAssumption
<1>1. cell \in [Cells -> CellRecord]
  BY <1>0 DEF Init, CellRecord, CellSet
<1>2. scan \in [Cursors -> ScanRecord]
  BY <1>0 DEF Init, Closed, ScanRecord
<1>3. hidx \in [Keys -> [cell : CellSet, keyat : CellSet]]
  BY DEF Init, NoSlot, CellSet
<1>4. Types
  BY <1>0, <1>1, <1>2, <1>3 DEF Init, Types, CellSet
<1>5. Ring(cell, head, {}) /\ Rows(cell, {}, puts)
  BY DEF Init, Ring, Rows, After
<1>6. Pool({}, free, fresh, emptied)
  <2>1. free = << >> /\ Len(free) = 0 /\ fresh = 1 /\ emptied = 0
    BY DEF Init
  <2>2. IsFiniteSet({}) /\ Cardinality({}) = 0
    BY FS_EmptySet
  <2> QED
    BY <2>1, <2>2 DEF Pool
<1>7. Chains(cell, {}, hidx)
  <2>1. \A k \in Keys : Before(cell, {}, k, 0, NULL) /\ hidx[k] = SlotOf(NULL)
    BY DEF Init, Before, SlotOf
  <2> QED
    BY <2>1 DEF Chains
<1>8. \A c \in Cursors : Scanning(cell, head, {}, puts, indexed, scan[c],
                                 cur[c], nextaccess[c])
  BY DEF Init, Scanning, Closed
<1> QED
  BY <1>4, <1>5, <1>6, <1>7, <1>8 DEF RelationInv, IsRelation

-----------------------------------------------------------------------------
(* A row is put: the order of the rows                                      *)

\* The rows of S have the same numbers and keys in cl2 as in cl.
SameRows(cl, cl2, S) ==
    \A z \in S : cl2[z].id = cl[z].id /\ cl2[z].key = cl[z].key

\* n is at least the number of every row of S, and x gets n + 1.
Added(cl, cl2, S, n, x) ==
    /\ n \in Nat /\ x \notin S /\ NULL \notin S /\ x # NULL
    /\ \A z \in S : cl[z].id \in 1..n
    /\ SameRows(cl, cl2, S)
    /\ cl2[x].id = n + 1

LEMMA AfterAdded ==
  ASSUME NEW cl, NEW cl2, NEW S, NEW n, NEW x, Added(cl, cl2, S, n, x),
         NEW a \in 0..n, NEW y, After(cl, S, a, y)
  PROVE  After(cl2, S \cup {x}, a, IF y = NULL THEN x ELSE y)
<1>1. /\ n \in Nat /\ \A z \in S : cl[z].id \in Nat /\ cl[z].id <= n /\ cl2[z].id = cl[z].id
      /\ cl2[x].id = n + 1
  BY DEF Added, SameRows
<1>2. CASE y = NULL
  BY <1>1, <1>2 DEF After, Added
<1>3. CASE y # NULL
  BY <1>1, <1>3 DEF After, Added
<1> QED
  BY <1>2, <1>3

LEMMA AfterLast ==
  ASSUME NEW cl, NEW cl2, NEW S, NEW n, NEW x, Added(cl, cl2, S, n, x)
  PROVE  After(cl2, S \cup {x}, n + 1, NULL)
<1>1. /\ n \in Nat /\ \A z \in S : cl[z].id \in Nat /\ cl[z].id <= n /\ cl2[z].id = cl[z].id
      /\ cl2[x].id = n + 1
  BY DEF Added, SameRows
<1> QED
  BY <1>1 DEF After

LEMMA BeforeAdded ==
  ASSUME NEW cl, NEW cl2, NEW S, NEW n, NEW x, Added(cl, cl2, S, n, x),
         NEW a \in 0..n, NEW k, a = 0 => k # cl2[x].key,
         NEW y, Before(cl, S, k, a, y)
  PROVE  Before(cl2, S \cup {x}, k, a, y)
<1>1. /\ n \in Nat /\ \A z \in S : cl[z].id \in Nat /\ cl[z].id <= n /\ cl2[z].id = cl[z].id
      /\ cl2[x].id = n + 1 /\ x # NULL /\ x \notin S
  BY DEF Added, SameRows
<1>2. \A z : Older(cl2, S \cup {x}, k, a, z) <=> Older(cl, S, k, a, z)
  BY <1>1 DEF Older, Added, SameRows
<1>3. \A z \in S : cl2[z].id = cl[z].id
  BY <1>1
<1>4. CASE y = NULL
  BY <1>2, <1>4 DEF Before, Older, Added
<1>5. CASE y # NULL
  BY <1>2, <1>3, <1>5 DEF Before, Older
<1> QED
  BY <1>4, <1>5

\* The new row is the newest one with its key.
LEMMA BeforeNewest ==
  ASSUME NEW cl, NEW cl2, NEW S, NEW n, NEW x, Added(cl, cl2, S, n, x),
         NEW k, cl2[x].key = k
  PROVE  /\ Before(cl2, S \cup {x}, k, 0, x)
         /\ \A y : Before(cl, S, k, 0, y) => Before(cl2, S \cup {x}, k, n + 1, y)
<1>1. /\ n \in Nat /\ \A z \in S : cl[z].id \in Nat /\ cl[z].id <= n /\ cl2[z].id = cl[z].id
      /\ cl2[x].id = n + 1 /\ x # NULL /\ x \notin S /\ n + 1 # 0
  BY DEF Added, SameRows
<1>2. Before(cl2, S \cup {x}, k, 0, x)
  BY <1>1 DEF Before, Older
<1>3. \A z : Older(cl2, S \cup {x}, k, n + 1, z) <=> Older(cl, S, k, 0, z)
  BY <1>1 DEF Older, Added, SameRows
<1>4. \A z \in S : cl2[z].id = cl[z].id
  BY <1>1
<1>5. ASSUME NEW y, Before(cl, S, k, 0, y) PROVE Before(cl2, S \cup {x}, k, n + 1, y)
  <2>1. CASE y = NULL
    BY <1>3, <1>5, <2>1 DEF Before, Older, Added
  <2>2. CASE y # NULL
    BY <1>3, <1>4, <1>5, <2>2 DEF Before, Older
  <2> QED
    BY <2>1, <2>2
<1> QED
  BY <1>2, <1>5

\* x is linked behind the last cell of the list with the head h.
PutLinks(cl, cl2, h, x) ==
    LET last == IF h = NULL THEN x ELSE cl[h].prev
        first == IF h = NULL THEN x ELSE h
    IN \A z \in Cells :
         /\ cl2[z].next = IF z = last THEN x ELSE IF z = x THEN first ELSE cl[z].next
         /\ cl2[z].prev = IF z = first THEN x ELSE IF z = x THEN last ELSE cl[z].prev

LEMMA PutRing ==
  ASSUME NEW cl, NEW cl2, NEW h, NEW S, NEW n, NEW x \in Cells,
         Ring(cl, h, S), Added(cl, cl2, S, n, x), PutLinks(cl, cl2, h, x)
  PROVE  Ring(cl2, IF h = NULL THEN x ELSE h, S \cup {x})
<1> DEFINE W == S \cup {x}
           g == IF h = NULL THEN x ELSE h
<1>0. S \subseteq Cells /\ NULL \notin S /\ x \notin S /\ x # NULL /\ n \in Nat
      /\ \A z \in S : cl[z].id \in 1..n /\ cl2[z].id = cl[z].id
  BY DEF Ring, Added, SameRows
<1>1. \A u, v \in W : cl2[u].id = cl2[v].id => u = v
  <2>1. cl2[x].id = n + 1 /\ \A z \in S : cl2[z].id # n + 1
    BY <1>0 DEF Added
  <2>2. \A u, v \in S : cl2[u].id = cl2[v].id => u = v
    BY <1>0 DEF Ring
  <2> QED
    BY <2>1, <2>2
<1>2. After(cl2, W, 0, g)
  <2>1. After(cl, S, 0, h) /\ 0 \in 0..n
    BY <1>0 DEF Ring
  <2> QED
    BY <2>1, AfterAdded
<1>3. CASE h = NULL
  <2>1. S = {}
    <3>1. \A z \in S : cl[z].id <= 0
      BY <1>0, <1>3 DEF Ring, After
    <3> QED
      BY <3>1, <1>0
  <2>2. cl2[x].next = x /\ cl2[x].prev = x /\ g = x /\ W = {x}
    BY <1>3, <2>1 DEF PutLinks
  <2>3. After(cl2, W, cl2[x].id, NULL)
    <3>1. cl2[x].id = n + 1
      BY DEF Added
    <3> QED
      BY <3>1, AfterLast
  <2> QED
    BY <1>0, <1>1, <1>2, <2>2, <2>3 DEF Ring, Fwd
<1>4. CASE h # NULL
  <2> DEFINE l == cl[h].prev
  <2>1. h \in S /\ l \in S /\ cl[l].next = h /\ g = h
    BY <1>4 DEF Ring, After
  <2>2. /\ \A z \in Cells : cl2[z].next = IF z = l THEN x ELSE IF z = x THEN h ELSE cl[z].next
        /\ \A z \in Cells : cl2[z].prev = IF z = h THEN x ELSE IF z = x THEN l ELSE cl[z].prev
    BY <1>4 DEF PutLinks
  <2> HIDE DEF l, W, g
  <2>3. /\ cl2[x].next = h /\ cl2[h].prev = x /\ cl2[x].prev = l /\ cl2[l].next = x
    BY <2>1, <2>2, <1>0
  <2>4. ASSUME NEW z \in S
        PROVE  /\ cl2[z].next \in W /\ cl2[cl2[z].next].prev = z
               /\ cl2[z].prev \in W /\ cl2[cl2[z].prev].next = z
    <3>1. /\ cl[z].next \in S /\ cl[cl[z].next].prev = z
          /\ cl[z].prev \in S /\ cl[cl[z].prev].next = z
      BY DEF Ring
    <3>2. cl2[z].next \in W /\ cl2[cl2[z].next].prev = z
      <4>1. CASE z = l
        BY <4>1, <2>1, <2>3 DEF W
      <4>2. CASE z # l
        <5>1. cl[z].next # h
          BY <3>1, <4>2 DEF l
        <5>2. cl2[z].next = cl[z].next /\ cl2[cl[z].next].prev = cl[cl[z].next].prev
          BY <5>1, <4>2, <2>2, <3>1, <1>0
        <5> QED
          BY <5>2, <3>1 DEF W
      <4> QED
        BY <4>1, <4>2
    <3>3. cl2[z].prev \in W /\ cl2[cl2[z].prev].next = z
      <4>1. CASE z = h
        BY <4>1, <2>1, <2>3 DEF W
      <4>2. CASE z # h
        <5>1. cl[z].prev # l
          BY <3>1, <4>2, <2>1
        <5>2. cl2[z].prev = cl[z].prev /\ cl2[cl[z].prev].next = cl[cl[z].prev].next
          BY <5>1, <4>2, <2>2, <3>1, <1>0
        <5> QED
          BY <5>2, <3>1 DEF W
      <4> QED
        BY <4>1, <4>2
    <3> QED
      BY <3>2, <3>3
  <2>5. ASSUME NEW z \in S PROVE After(cl2, W, cl2[z].id, Fwd(cl2, h, z))
    <3>1. After(cl, S, cl[z].id, Fwd(cl, h, z)) /\ cl[z].id \in 0..n /\ cl2[z].id = cl[z].id
      BY <1>0 DEF Ring
    <3>2. After(cl2, W, cl2[z].id, IF Fwd(cl, h, z) = NULL THEN x ELSE Fwd(cl, h, z))
      BY <3>1, AfterAdded DEF W
    <3>3. Fwd(cl2, h, z) = IF Fwd(cl, h, z) = NULL THEN x ELSE Fwd(cl, h, z)
      <4>1. cl[z].next \in S /\ cl[cl[z].next].prev = z
        BY DEF Ring
      <4>2. CASE z = l
        BY <4>2, <2>1, <2>3, <1>0 DEF Fwd
      <4>3. CASE z # l
        <5>1. cl[z].next # h /\ cl2[z].next = cl[z].next
          BY <4>1, <4>3, <2>2, <1>0 DEF l
        <5> QED
          BY <5>1, <4>1, <1>0 DEF Fwd
      <4> QED
        BY <4>2, <4>3
    <3> QED
      BY <3>2, <3>3
  <2>6. After(cl2, W, cl2[x].id, Fwd(cl2, h, x))
    <3>1. Fwd(cl2, h, x) = NULL /\ cl2[x].id = n + 1
      BY <2>3 DEF Fwd, Added
    <3> QED
      BY <3>1, AfterLast DEF W
  <2>7. ASSUME NEW z \in W
        PROVE  /\ cl2[z].next \in W /\ cl2[cl2[z].next].prev = z
               /\ cl2[z].prev \in W /\ cl2[cl2[z].prev].next = z
               /\ After(cl2, W, cl2[z].id, Fwd(cl2, h, z))
    <3>1. CASE z = x
      BY <3>1, <2>1, <2>3, <2>6 DEF W
    <3>2. CASE z \in S
      BY <3>2, <2>4, <2>5
    <3> QED
      BY <3>1, <3>2 DEF W
  <2>8. W \subseteq Cells
    BY <1>0 DEF W
  <2> QED
    BY <1>1, <1>2, <2>1, <2>7, <2>8 DEF Ring, W, g
<1> QED
  BY <1>3, <1>4

-----------------------------------------------------------------------------
(* Put                                                                      *)

\* cl2 is cl with row at x, linked between last and first.
IsLinked(cl, cl2, x, last, first, row) ==
    \A z \in Cells :
      /\ cl2[z].next = IF z = last THEN x ELSE IF z = x THEN row.next
                       ELSE cl[z].next
      /\ cl2[z].prev = IF z = first THEN x ELSE IF z = x THEN row.prev
                       ELSE cl[z].prev
      /\ cl2[z].hchain = IF z = x THEN row.hchain ELSE cl[z].hchain
      /\ cl2[z].key = IF z = x THEN row.key ELSE cl[z].key
      /\ cl2[z].id = IF z = x THEN row.id ELSE cl[z].id
      /\ cl2[z].d = IF z = x THEN row.d ELSE cl[z].d

LEMMA Linked ==
  ASSUME NEW cl, IsCells(cl), NEW x \in Cells, NEW last \in Cells,
         NEW first \in Cells, NEW row \in CellRecord,
         NEW cl2, cl2 = [[cl EXCEPT ![x] = row] EXCEPT ![last].next = x,
                                                       ![first].prev = x]
  PROVE  IsCells(cl2) /\ IsLinked(cl, cl2, x, last, first, row)
<1> DEFINE a == [cl EXCEPT ![x] = row]
           b == [a EXCEPT ![last].next = x]
           e == [b EXCEPT ![first].prev = x]
<1>1. cl \in [Cells -> CellRecord] /\ x \in CellSet
  BY DEF IsCells, CellSet
<1>2. a \in [Cells -> CellRecord] /\ \A z \in Cells : a[z] = IF z = x THEN row ELSE cl[z]
  BY <1>1
<1> HIDE DEF a
<1>3. /\ b \in [Cells -> CellRecord]
      /\ \A z \in Cells : b[z] = IF z = last THEN [a[z] EXCEPT !.next = x] ELSE a[z]
  BY <1>1, <1>2 DEF CellRecord
<1> HIDE DEF b
<1>4. /\ e \in [Cells -> CellRecord]
      /\ \A z \in Cells : e[z] = IF z = first THEN [b[z] EXCEPT !.prev = x] ELSE b[z]
  BY <1>1, <1>3 DEF CellRecord
<1>5. cl2 = e
  BY DEF a, b
<1> HIDE DEF e
<1>6. \A z \in Cells : a[z] \in CellRecord /\ b[z] \in CellRecord
  BY <1>2, <1>3
<1>7. ASSUME NEW z \in Cells
      PROVE  /\ b[z].next = (IF z = last THEN x ELSE a[z].next) /\ b[z].prev = a[z].prev
             /\ b[z].hchain = a[z].hchain /\ b[z].key = a[z].key
             /\ b[z].id = a[z].id /\ b[z].d = a[z].d
  BY <1>3, <1>6 DEF CellRecord
<1>8. ASSUME NEW z \in Cells
      PROVE  /\ e[z].prev = (IF z = first THEN x ELSE b[z].prev) /\ e[z].next = b[z].next
             /\ e[z].hchain = b[z].hchain /\ e[z].key = b[z].key
             /\ e[z].id = b[z].id /\ e[z].d = b[z].d
  BY <1>4, <1>6 DEF CellRecord
<1>9. IsCells(cl2)
  BY <1>4, <1>5 DEF IsCells
<1>10. ASSUME NEW z \in Cells
       PROVE  /\ a[z].next = (IF z = x THEN row.next ELSE cl[z].next)
              /\ a[z].prev = (IF z = x THEN row.prev ELSE cl[z].prev)
              /\ a[z].hchain = (IF z = x THEN row.hchain ELSE cl[z].hchain)
              /\ a[z].key = (IF z = x THEN row.key ELSE cl[z].key)
              /\ a[z].id = (IF z = x THEN row.id ELSE cl[z].id)
              /\ a[z].d = (IF z = x THEN row.d ELSE cl[z].d)
  BY <1>2
<1>11. ASSUME NEW z \in Cells
       PROVE  /\ e[z].next = (IF z = last THEN x ELSE IF z = x THEN row.next ELSE cl[z].next)
              /\ e[z].prev = (IF z = first THEN x ELSE IF z = x THEN row.prev ELSE cl[z].prev)
              /\ e[z].hchain = (IF z = x THEN row.hchain ELSE cl[z].hchain)
              /\ e[z].key = (IF z = x THEN row.key ELSE cl[z].key)
              /\ e[z].id = (IF z = x THEN row.id ELSE cl[z].id)
              /\ e[z].d = (IF z = x THEN row.d ELSE cl[z].d)
  BY ONLY z \in Cells, <1>7, <1>8, <1>10
<1> QED
  BY ONLY <1>5, <1>9, <1>11 DEF IsLinked

\* cl2 is cl with v in the hchain of y.
IsRechained(cl, cl2, y, v) ==
    \A z \in Cells :
      /\ cl2[z].hchain = IF z = y THEN v ELSE cl[z].hchain
      /\ cl2[z].next = cl[z].next /\ cl2[z].prev = cl[z].prev
      /\ cl2[z].key = cl[z].key /\ cl2[z].id = cl[z].id
      /\ cl2[z].d = cl[z].d

LEMMA Rechained ==
  ASSUME NEW cl, IsCells(cl), NEW y \in Cells, NEW v \in CellSet,
         NEW cl2, cl2 = [cl EXCEPT ![y].hchain = v]
  PROVE  IsCells(cl2) /\ IsRechained(cl, cl2, y, v)
<1>1. cl \in [Cells -> CellRecord]
  BY DEF IsCells
<1>2. \A z \in Cells : cl[z] \in CellRecord
  BY <1>1
<1>3. /\ cl2 \in [Cells -> CellRecord]
      /\ \A z \in Cells : cl2[z] = IF z = y THEN [cl[z] EXCEPT !.hchain = v] ELSE cl[z]
  BY <1>1 DEF CellRecord
<1>4. ASSUME NEW z \in Cells
      PROVE  /\ cl2[z].hchain = (IF z = y THEN v ELSE cl[z].hchain)
             /\ cl2[z].next = cl[z].next /\ cl2[z].prev = cl[z].prev
             /\ cl2[z].key = cl[z].key /\ cl2[z].id = cl[z].id
             /\ cl2[z].d = cl[z].d
  BY <1>2, <1>3 DEF CellRecord
<1> QED
  BY <1>3, <1>4 DEF IsCells, IsRechained

\* allocateBuffer gives out x and leaves fr2 and f2.
Taken(fr, f, x, fr2, f2) ==
    /\ x = IF fr # << >> THEN Last(fr) ELSE f
    /\ fr2 = IF fr # << >> THEN Front(fr) ELSE fr
    /\ f2 = IF fr # << >> THEN f ELSE f + 1

LEMMA PutPool ==
  ASSUME NEW S, S \subseteq Cells, NEW fr \in Seq(Cells), NEW f \in 1..(MaxCells + 1),
         NEW e \in Nat,
         Pool(S, fr, f, e),
         NEW x \in Cells, NEW fr2, NEW f2, Taken(fr, f, x, fr2, f2)
  PROVE  /\ x \notin S /\ fr2 \in Seq(Cells) /\ f2 \in 1..(MaxCells + 1)
         /\ Pool(S \cup {x}, fr2, f2, e)
<1>0. MaxCells \in Nat /\ Cells \subseteq Nat /\ f \in Nat /\ \A z \in Cells : z <= MaxCells
  BY ImRelAssumption DEF Cells
<1>1. /\ IsFiniteSet(S) /\ Cardinality(S) \in Nat
      /\ IsFiniteSet(S \cup {x})
      /\ x \notin S => Cardinality(S \cup {x}) = Cardinality(S) + 1
  BY FS_AddElement, FS_CardinalityType DEF Pool
<1>2. CASE fr = << >>
  <2>1. x = f /\ fr2 = fr /\ f2 = f + 1 /\ Len(fr) = 0
    BY <1>2 DEF Taken
  <2>2. x \notin S
    BY <2>1, <1>0 DEF Pool
  <2>3. f2 \in 1..(MaxCells + 1) /\ \A z \in S \cup {x} : z < f2
    BY <2>1, <1>0 DEF Pool
  <2>4. f2 - 1 = Cardinality(S \cup {x}) + Len(fr2) + e
    BY <2>1, <2>2, <1>0, <1>1 DEF Pool
  <2> QED
    BY <2>1, <2>2, <2>3, <2>4, <1>1 DEF Pool
<1>3. CASE fr # << >>
  <2> DEFINE n == Len(fr)
  <2>1. /\ n \in Nat /\ n >= 1 /\ x = fr[n] /\ n \in 1..n
        /\ fr2 \in Seq(Cells) /\ Len(fr2) = n - 1
        /\ \A i \in 1..(n - 1) : fr2[i] = fr[i]
        /\ f2 = f
    <3>1. n \in Nat /\ n >= 1 /\ x = fr[n] /\ fr2 = SubSeq(fr, 1, n - 1) /\ f2 = f
      BY <1>3 DEF Last, Front, Taken
    <3>2. /\ SubSeq(fr, 1, n - 1) \in Seq(Cells)
          /\ Len(SubSeq(fr, 1, n - 1)) = n - 1
          /\ \A i \in 1..(n - 1) : SubSeq(fr, 1, n - 1)[i] = fr[i]
      <4>1. PICK m \in Nat : m = n - 1
        BY <3>1
      <4>2. \A i \in 1..m : fr[i] \in Cells
        BY <4>1, <3>1
      <4>3. /\ SubSeq(fr, 1, m) \in Seq(Cells)
            /\ Len(SubSeq(fr, 1, m)) = IF 1 <= m THEN m - 1 + 1 ELSE 0
            /\ \A i \in 1..(m - 1 + 1) : SubSeq(fr, 1, m)[i] = fr[1 + i - 1]
        <5>1. 1 \in Int /\ m \in Int
          OBVIOUS
        <5> QED
          BY ONLY <4>2, <5>1, SubSeqProperties
      <4>4. Len(SubSeq(fr, 1, m)) = m /\ m - 1 + 1 = m /\ \A i \in 1..m : 1 + i - 1 = i
        BY <4>3
      <4>5. \A i \in 1..m : SubSeq(fr, 1, m)[i] = fr[i]
        BY <4>3, <4>4
      <4> QED
        BY <4>1, <4>3, <4>4, <4>5
    <3> HIDE DEF n
    <3>3. n \in 1..n
      BY <3>1
    <3> QED
      BY <3>1, <3>2, <3>3
  <2> HIDE DEF n
  <2>2. x \notin S /\ x < f
    BY <2>1 DEF Pool, n
  <2>3. \A i \in 1..Len(fr2) : i \in 1..n /\ i # n /\ fr2[i] = fr[i]
    BY <2>1
  <2>4. \A i \in 1..Len(fr2) : fr2[i] < f2 /\ fr2[i] \notin S \cup {x}
    BY <2>1, <2>3 DEF Pool, n
  <2>5. \A i, j \in 1..Len(fr2) : fr2[i] = fr2[j] => i = j
    BY <2>3 DEF Pool, n
  <2>6. \A z \in S \cup {x} : z < f2
    BY <2>1, <2>2 DEF Pool
  <2>7. f2 - 1 = Cardinality(S \cup {x}) + Len(fr2) + e
    <3>1. f - 1 = Cardinality(S) + n + e
      BY DEF Pool, n
    <3> QED
      BY ONLY <3>1, <2>1, <2>2, <1>0, <1>1, e \in Nat
  <2> QED
    BY <2>1, <2>2, <2>4, <2>5, <2>6, <2>7, <1>1 DEF Pool
<1> QED
  BY <1>2, <1>3

LEMMA PutChains ==
  ASSUME NEW cl, NEW cl2, NEW S, NEW n, NEW x, Added(cl, cl2, S, n, x),
         NEW ix, DOMAIN ix = Keys, NEW k \in Keys,
         Chains(cl, S, ix), cl2[x].key = k,
         \A z \in S : cl2[z].hchain = cl[z].hchain,
         Before(cl, S, k, 0, cl2[x].hchain)
  PROVE  Chains(cl2, S \cup {x}, [ix EXCEPT ![k] = [cell |-> x, keyat |-> x]])
<1> DEFINE ix2 == [ix EXCEPT ![k] = [cell |-> x, keyat |-> x]]
           W == S \cup {x}
<1>0. x # NULL /\ n \in Nat /\ cl2[x].id = n + 1 /\ 0 \in 0..n
      /\ \A z \in S : cl[z].id \in 1..n /\ cl2[z].id = cl[z].id /\ cl2[z].key = cl[z].key
  BY DEF Added, SameRows
<1>1. ix2[k] = SlotOf(x) /\ \A o \in Keys : o # k => ix2[o] = ix[o]
  BY <1>0 DEF SlotOf
<1> HIDE DEF ix2
<1>2. ASSUME NEW o \in Keys PROVE \E y : Before(cl2, W, o, 0, y) /\ ix2[o] = SlotOf(y)
  <2>1. CASE o = k
    BY <2>1, <1>1, BeforeNewest
  <2>2. CASE o # k
    <3>1. PICK y : Before(cl, S, o, 0, y) /\ ix[o] = SlotOf(y)
      BY DEF Chains
    <3>2. Before(cl2, W, o, 0, y)
      BY <3>1, <2>2, <1>0, BeforeAdded
    <3> QED
      BY <3>1, <3>2, <2>2, <1>1
  <2> QED
    BY <2>1, <2>2
<1>3. ASSUME NEW z \in S PROVE Before(cl2, W, cl2[z].key, cl2[z].id, cl2[z].hchain)
  <2>1. Before(cl, S, cl[z].key, cl[z].id, cl[z].hchain)
    BY DEF Chains
  <2>2. cl[z].id \in 0..n /\ cl[z].id # 0
    BY <1>0
  <2>3. Before(cl2, W, cl[z].key, cl[z].id, cl[z].hchain)
    BY <2>1, <2>2, BeforeAdded
  <2> QED
    BY <2>3, <1>0
<1>4. Before(cl2, W, cl2[x].key, cl2[x].id, cl2[x].hchain)
  <2>1. Before(cl2, W, k, n + 1, cl2[x].hchain)
    BY BeforeNewest
  <2> QED
    BY <2>1, <1>0
<1> QED
  BY <1>2, <1>3, <1>4 DEF Chains, ix2

LEMMA PutScanning ==
  ASSUME NEW cl, NEW cl2, NEW S, NEW n, NEW x, Added(cl, cl2, S, n, x),
         NEW h, NEW h2, NEW ind, NEW s \in ScanRecord, NEW u \in CellSet, NEW v,
         Scanning(cl, h, S, n, ind, s, u, v), S # {} => h2 = h,
         \A z \in Cells \ (S \cup {x}) : cl2[z].next = cl[z].next,
         s.on /\ ~s.eof /\ s.key = All /\ u \notin S \cup {NULL} =>
           u # x /\ S # {} /\ cl[u].next # h
  PROVE  Scanning(cl2, h2, S \cup {x}, n + 1, ind, s, u, v)
<1>0. x # NULL /\ n \in Nat /\ cl2[x].id = n + 1 /\ NULL \notin S /\ s.at \in Nat /\ s.at <= n
      /\ \A z \in S : cl[z].id \in 1..n /\ cl2[z].id = cl[z].id /\ cl2[z].key = cl[z].key
  BY ImRelAssumption DEF Added, SameRows, ScanRecord, Scanning
<1>1. s.here => s.on /\ ~s.eof /\ u \in S \cup {x} /\ cl2[u].id = s.at
  BY <1>0 DEF Scanning
<1>2. ASSUME s.on, ~s.eof, s.at # 0, s.key = All
      PROVE  Placed(cl2, h2, S \cup {x}, s.at, u)
  <2>1. Placed(cl, h, S, s.at, u)
    BY <1>2 DEF Scanning
  <2>2. CASE u = NULL
    <3>1. \A z \in S : cl[z].id > s.at
      BY <2>1, <2>2, <1>0, NullNoCell DEF Placed
    <3>2. \A z \in S \cup {x} : cl2[z].id > s.at
      BY <3>1, <1>0
    <3> QED
      BY <3>2, <2>2 DEF Placed
  <2>3. CASE u \in S
    <3>1. cl[u].id = s.at
      BY <2>1, <2>3, <1>0 DEF Placed
    <3> QED
      BY <3>1, <2>3, <1>0 DEF Placed
  <2>4. CASE u \notin S \cup {NULL}
    <3>1. /\ u \in Cells \ (S \cup {x}) /\ S # {} /\ h2 = h
          /\ cl[u].next # NULL /\ cl[u].next # h /\ cl2[u].next = cl[u].next
          /\ After(cl, S, s.at, Fwd(cl, h, u))
      BY <2>1, <2>4, <1>2 DEF Placed, CellSet
    <3>2. Fwd(cl, h, u) = cl[u].next /\ Fwd(cl2, h2, u) = cl[u].next
      BY <3>1 DEF Fwd
    <3>3. After(cl2, S \cup {x}, s.at, Fwd(cl2, h2, u))
      <4>1. s.at \in 0..n
        BY <1>0
      <4> QED
        BY <4>1, <3>1, <3>2, AfterAdded
    <3> QED
      BY <3>1, <3>3 DEF Placed
  <2> QED
    BY <2>2, <2>3, <2>4
<1>3. ASSUME s.on, ~s.eof, s.at # 0, s.key # All
      PROVE  Before(cl2, S \cup {x}, s.key, s.at, v)
  <2>1. Before(cl, S, s.key, s.at, v) /\ s.at \in 0..n
    BY <1>0, <1>3 DEF Scanning
  <2> QED
    BY <2>1, <1>3, BeforeAdded
<1>4. s.at <= n + 1 /\ (s.on /\ s.key # All => ind)
  BY <1>0 DEF Scanning
<1> QED
  BY <1>1, <1>2, <1>3, <1>4 DEF Scanning

\* The data of the rows of S are the same after a step.
SameData(S) ==
    \A z \in S : cell'[z].id = cell[z].id /\ cell'[z].key = cell[z].key
                 /\ cell'[z].d = cell[z].d

LEMMA TypeFacts ==
  ASSUME Types
  PROVE  /\ IsCells(cell) /\ puts \in Nat /\ puts <= MaxPuts /\ MaxPuts \in Nat
         /\ MaxCells \in Nat /\ MaxUpdates \in Nat /\ All \notin Keys
         /\ 0 \in 0..MaxPuts /\ 0 \in 0..MaxUpdates
  BY ImRelAssumption DEF Types, IsCells

LEMMA PutStep ==
  ASSUME Types, NEW S \in SUBSET Cells, IsRelation(S), NEW k \in Keys, Put(k), MayPut
  PROVE  \E x \in Cells \ S :
           /\ Types' /\ IsRelation(S \cup {x})' /\ SameData(S)
           /\ cell'[x].id = puts + 1 /\ cell'[x].key = k /\ cell'[x].d = 0
<1>0. OnList = S /\ NULL \notin S
  BY OnListIs
<1>t. /\ IsCells(cell) /\ puts \in Nat /\ puts <= MaxPuts /\ MaxPuts \in Nat
      /\ MaxCells \in Nat /\ MaxUpdates \in Nat /\ All \notin Keys
      /\ 0 \in 0..MaxPuts /\ 0 \in 0..MaxUpdates
  BY TypeFacts
<1>r. /\ Ring(cell, head, S) /\ Rows(cell, S, puts)
      /\ Pool(S, free, fresh, emptied) /\ (indexed => Chains(cell, S, hidx))
  BY DEF IsRelation
<1>1. PICK x : x = Allocated
  OBVIOUS
<1>2. PICK last : last = IF head = NULL THEN x ELSE cell[head].prev
  OBVIOUS
<1>3. PICK first : first = IF head = NULL THEN x ELSE head
  OBVIOUS
<1>4. PICK row : row = [next |-> first, prev |-> last, hchain |-> NULL,
                        key |-> k, id |-> puts + 1, d |-> 0]
  OBVIOUS
<1>5. PICK cl : cl = [[cell EXCEPT ![x] = row] EXCEPT ![last].next = x,
                                                      ![first].prev = x]
  OBVIOUS
<1>6. /\ puts < MaxPuts /\ x \in Cells /\ puts' = puts + 1 /\ head' = first
      /\ IF free # << >> THEN free' = Front(free) /\ fresh' = fresh
                         ELSE fresh' = fresh + 1 /\ free' = free
      /\ indexed => /\ cell' = [cl EXCEPT ![x].hchain = Find(cl, k)]
                    /\ hidx' = [hidx EXCEPT ![k] = [cell |-> x, keyat |-> x]]
      /\ ~indexed => cell' = cl /\ hidx' = hidx
      /\ indexed' = indexed /\ cur' = cur /\ nextaccess' = nextaccess
      /\ scan' = scan /\ emptied' = emptied
  BY <1>1, <1>2, <1>3, <1>4, <1>5 DEF Put, SlotSet
<1>7. /\ x \notin S /\ free' \in Seq(Cells) /\ fresh' \in 1..(MaxCells + 1)
      /\ Pool(S \cup {x}, free', fresh', emptied')
  <2>1. Taken(free, fresh, x, free', fresh')
    BY <1>1, <1>6 DEF Allocated, Taken
  <2>2. free \in Seq(Cells) /\ fresh \in 1..(MaxCells + 1) /\ emptied \in Nat
        /\ S \subseteq Cells /\ x \in Cells /\ Pool(S, free, fresh, emptied)
    BY <1>6, <1>r DEF Types
  <2>3. /\ x \notin S /\ free' \in Seq(Cells) /\ fresh' \in 1..(MaxCells + 1)
        /\ Pool(S \cup {x}, free', fresh', emptied)
    BY ONLY <2>1, <2>2, PutPool
  <2> QED
    BY <2>3, <1>6
<1>8. first \in Cells /\ last \in Cells
  <2>1. CASE head = NULL
    BY <2>1, <1>2, <1>3, <1>6
  <2>2. CASE head # NULL
    <3>1. head \in S
      BY <2>2, <1>r DEF Ring, After
    <3> QED
      BY <3>1, <2>2, <1>2, <1>3, <1>r DEF Ring
  <2> QED
    BY <2>1, <2>2
<1>9. /\ row \in CellRecord /\ row.next = first /\ row.prev = last /\ row.hchain = NULL
      /\ row.key = k /\ row.id = puts + 1 /\ row.d = 0
  <2>1. puts + 1 \in 0..MaxPuts
    BY <1>6, <1>t
  <2> QED
    BY <2>1, <1>4, <1>8, <1>t DEF CellRecord, CellSet
<1>10. /\ IsCells(cl)
       /\ \A z \in Cells :
            /\ cl[z].next = IF z = last THEN x ELSE IF z = x THEN first ELSE cell[z].next
            /\ cl[z].prev = IF z = first THEN x ELSE IF z = x THEN last ELSE cell[z].prev
            /\ cl[z].hchain = IF z = x THEN NULL ELSE cell[z].hchain
            /\ cl[z].key = IF z = x THEN k ELSE cell[z].key
            /\ cl[z].id = IF z = x THEN puts + 1 ELSE cell[z].id
            /\ cl[z].d = IF z = x THEN 0 ELSE cell[z].d
  <2>1. x \in Cells /\ IsCells(cell) /\ row \in CellRecord
    BY <1>6, <1>t, <1>9
  <2>2. IsCells(cl) /\ IsLinked(cell, cl, x, last, first, row)
    BY ONLY <2>1, <1>5, <1>8, Linked
  <2> QED
    BY ONLY <2>2, <1>9 DEF IsLinked
<1>11. indexed => /\ Before(cell, S, k, 0, Find(cl, k))
                  /\ Find(cl, k) \in CellSet
  <2> SUFFICES ASSUME indexed PROVE Before(cell, S, k, 0, Find(cl, k))
                                    /\ Find(cl, k) \in CellSet
    OBVIOUS
  <2>1. \A z \in S : cl[z].key = cell[z].key
    BY <1>10, <1>7
  <2>2. Before(cell, S, k, 0, Find(cl, k))
    BY <2>1, <1>0, <1>r, FindIs
  <2> QED
    BY <2>2 DEF Before, Older, CellSet
<1>12. PICK hc \in CellSet : /\ indexed => hc = Find(cl, k)
                             /\ ~indexed => hc = NULL
  BY <1>11 DEF CellSet
<1>13. /\ IsCells(cell')
       /\ \A z \in Cells :
            /\ cell'[z].next = cl[z].next /\ cell'[z].prev = cl[z].prev
            /\ cell'[z].hchain = IF z = x THEN hc ELSE cl[z].hchain
            /\ cell'[z].key = cl[z].key /\ cell'[z].id = cl[z].id
            /\ cell'[z].d = cl[z].d
  <2>1. CASE indexed
    <3>1. cell' = [cl EXCEPT ![x].hchain = hc]
      BY <2>1, <1>6, <1>12
    <3>2. x \in Cells /\ hc \in CellSet /\ IsCells(cl)
      BY <1>6, <1>10
    <3> QED
      <4>1. IsCells(cell') /\ IsRechained(cl, cell', x, hc)
        BY ONLY <3>1, <3>2, Rechained
      <4> QED
        BY ONLY <4>1 DEF IsRechained
  <2>2. CASE ~indexed
    <3>1. cell' = cl /\ hc = NULL
      BY <2>2, <1>6, <1>12
    <3> QED
      BY <3>1, <1>10, <1>6
  <2> QED
    BY <2>1, <2>2
<1>14. Added(cell, cell', S, puts, x)
  <2>1. x # NULL /\ \A z \in S : z # x /\ z \in Cells
    BY <1>6, <1>7, NullNoCell
  <2>2. SameRows(cell, cell', S) /\ cell'[x].id = puts + 1
    BY <2>1, <1>6, <1>10, <1>13 DEF SameRows
  <2> QED
    BY <2>1, <2>2, <1>0, <1>t, <1>7, <1>r DEF Added, Rows
<1>15. PutLinks(cell, cell', head, x)
  <2>1. \A z \in Cells :
            /\ cell'[z].next = IF z = last THEN x ELSE IF z = x THEN first ELSE cell[z].next
            /\ cell'[z].prev = IF z = first THEN x ELSE IF z = x THEN last ELSE cell[z].prev
    BY <1>10, <1>13
  <2> QED
    BY ONLY <2>1, <1>2, <1>3 DEF PutLinks
<1>16. Ring(cell', head', S \cup {x})
  <2>1. Ring(cell', IF head = NULL THEN x ELSE head, S \cup {x})
    BY <1>6, <1>14, <1>15, <1>r, PutRing
  <2> QED
    BY <2>1, <1>3, <1>6
<1>17. cell'[x].key = k /\ cell'[x].id = puts + 1 /\ cell'[x].d = 0 /\ SameData(S)
       /\ \A z \in S : cell'[z].hchain = cell[z].hchain
  <2>1. \A z \in S : z # x /\ z \in Cells
    BY <1>7
  <2> QED
    BY <2>1, <1>6, <1>10, <1>13 DEF SameData
<1>18. Rows(cell', S \cup {x}, puts')
  <2>1. \A z \in S : cell[z].id \in 1..puts /\ cell[z].key \in Keys
    BY <1>r DEF Rows
  <2>2. \A z \in S : cell'[z].id \in 1..puts /\ cell'[z].key \in Keys
    BY <2>1, <1>17 DEF SameData
  <2> QED
    BY <2>2, <1>6, <1>17, <1>t DEF Rows
<1>19. indexed' => Chains(cell', S \cup {x}, hidx')
  <2> SUFFICES ASSUME indexed PROVE Chains(cell', S \cup {x}, hidx')
    BY <1>6
  <2>1. Before(cell, S, k, 0, cell'[x].hchain)
    BY <1>6, <1>11, <1>12, <1>13
  <2>2. DOMAIN hidx = Keys /\ hidx' = [hidx EXCEPT ![k] = [cell |-> x, keyat |-> x]]
    BY <1>6 DEF Types
  <2>3. Chains(cell', S \cup {x}, [hidx EXCEPT ![k] = [cell |-> x, keyat |-> x]])
    BY <2>1, <2>2, <1>14, <1>17, <1>r, PutChains
  <2> QED
    BY <2>2, <2>3
<1>h. /\ head # NULL => S # {} /\ last \in S
      /\ S # {} => head # NULL
      /\ head = NULL => last = x
  <2>1. head # NULL => head \in S /\ cell[head].prev \in S
    BY <1>r DEF Ring, After
  <2>2. head = NULL => S = {}
    <3>1. \A z \in S : cell[z].id \in 1..puts
      BY <1>r DEF Rows
    <3>2. head = NULL => \A z \in S : cell[z].id <= 0
      BY <1>0, <1>r DEF Ring, After
    <3> QED
      BY <3>1, <3>2, <1>t
  <2> QED
    BY <2>1, <2>2, <1>2
<1>20. ASSUME NEW c \in Cursors
       PROVE  Scanning(cell', head', S \cup {x}, puts', indexed', scan'[c],
                       cur'[c], nextaccess'[c])
  <2>1. scan[c] \in ScanRecord /\ cur[c] \in CellSet
    BY DEF Types
  <2>2. Scanning(cell, head, S, puts, indexed, scan[c], cur[c], nextaccess[c])
    BY DEF IsRelation
  <2>3. scan[c].on /\ ~scan[c].eof /\ scan[c].key = All /\ cur[c] \notin S \cup {NULL} =>
          cur[c] # x /\ S # {} /\ cell[cur[c]].next # head
    BY <1>0, <1>1, <1>h DEF MayPut, Adrift
  <2>5. \A z \in Cells \ (S \cup {x}) : cell'[z].next = cell[z].next
    BY <1>h, <1>10, <1>13, <1>6
  <2>6. S # {} => head' = head
    BY <1>3, <1>6, <1>h
  <2>4. Scanning(cell', head', S \cup {x}, puts + 1, indexed, scan[c], cur[c], nextaccess[c])
    BY ONLY <2>1, <2>2, <2>3, <2>5, <2>6, <1>14, PutScanning
  <2> QED
    BY <2>4, <1>6
<1>21. Types'
  <2>1. hidx' \in [Keys -> [cell : CellSet, keyat : CellSet]]
    BY <1>6 DEF Types, CellSet
  <2>2. puts' \in 0..MaxPuts /\ head' \in CellSet
    BY <1>6, <1>8, <1>t DEF CellSet
  <2> QED
    BY <2>1, <2>2, <1>6, <1>7, <1>13 DEF Types, IsCells
<1>22. IsRelation(S \cup {x})'
  BY <1>7, <1>16, <1>18, <1>19, <1>20 DEF IsRelation
<1> QED
  BY <1>6, <1>7, <1>17, <1>21, <1>22

-----------------------------------------------------------------------------
(* A row is deleted: the order of the rows                                  *)

\* x is one of the rows of S, which differ by their numbers.
Removed(cl, cl2, S, x) ==
    /\ x \in S /\ NULL \notin S
    /\ \A z \in S : cl[z].id \in Nat /\ cl[z].id > 0
    /\ \A y, z \in S : cl[y].id = cl[z].id => y = z
    /\ SameRows(cl, cl2, S)

LEMMA AfterRemoved ==
  ASSUME NEW cl, NEW cl2, NEW S, NEW x, Removed(cl, cl2, S, x),
         NEW a \in Nat, NEW y, After(cl, S, a, y), NEW v, After(cl, S, cl[x].id, v)
  PROVE  After(cl2, S \ {x}, a, IF y = x THEN v ELSE y)
<1>1. /\ x \in S /\ NULL \notin S
      /\ \A z \in S : cl[z].id \in Nat /\ cl2[z].id = cl[z].id
  BY DEF Removed, SameRows
<1>2. CASE y # x
  BY <1>1, <1>2 DEF After
<1>3. CASE y = x
  <2>1. cl[x].id > a /\ \A z \in S : cl[z].id > a => cl[x].id <= cl[z].id
    BY <1>1, <1>3 DEF After
  <2>2. \A z \in S \ {x} : cl[z].id > a => cl[z].id > cl[x].id
    <3>1. \A z \in S \ {x} : cl[z].id # cl[x].id
      BY <1>1 DEF Removed
    <3> QED
      BY <3>1, <2>1, <1>1
  <2>3. CASE v = NULL
    <3>1. \A z \in S : cl[z].id <= cl[x].id
      BY <2>3, <1>1 DEF After
    <3>2. \A z \in S \ {x} : cl2[z].id <= a
      BY <3>1, <2>2, <1>1
    <3> QED
      BY <3>2, <2>3, <1>3 DEF After
  <2>4. CASE v # NULL
    <3>1. v \in S /\ cl[v].id > cl[x].id /\ \A z \in S : cl[z].id > cl[x].id => cl[v].id <= cl[z].id
      BY <2>4, <1>1 DEF After
    <3>2. v \in S \ {x} /\ cl2[v].id > a
      BY <3>1, <2>1, <1>1
    <3>3. \A z \in S \ {x} : cl2[z].id > a => cl2[v].id <= cl2[z].id
      BY <3>1, <2>2, <1>1
    <3> QED
      BY <3>2, <3>3, <1>3 DEF After
  <2> QED
    BY <2>3, <2>4
<1> QED
  BY <1>2, <1>3

LEMMA BeforeRemoved ==
  ASSUME NEW cl, NEW cl2, NEW S, NEW x, Removed(cl, cl2, S, x),
         NEW a \in Nat, NEW k, NEW y, Before(cl, S, k, a, y),
         NEW v, y = x => Before(cl, S, cl[x].key, cl[x].id, v)
  PROVE  Before(cl2, S \ {x}, k, a, IF y = x THEN v ELSE y)
<1>1. /\ x \in S /\ NULL \notin S /\ cl[x].id # 0
      /\ \A z \in S : cl[z].id \in Nat /\ cl2[z].id = cl[z].id /\ cl2[z].key = cl[z].key
  BY DEF Removed, SameRows
<1>2. \A z \in S \ {x} : Older(cl2, S \ {x}, k, a, z) <=> Older(cl, S, k, a, z)
  BY <1>1 DEF Older
<1>3. CASE y # x
  <2>1. CASE y = NULL
    BY <1>1, <1>2, <1>3, <2>1 DEF Before, Older
  <2>2. CASE y # NULL
    <3>1. Older(cl, S, k, a, y) /\ \A z \in S : Older(cl, S, k, a, z) => cl[z].id <= cl[y].id
      BY <2>2 DEF Before
    <3>2. y \in S \ {x}
      BY <3>1, <1>3 DEF Older
    <3> QED
      BY <3>1, <3>2, <1>1, <1>2, <1>3 DEF Before
  <2> QED
    BY <2>1, <2>2
<1>4. CASE y = x
  <2>1. Older(cl, S, k, a, x) /\ \A z \in S : Older(cl, S, k, a, z) => cl[z].id <= cl[x].id
    BY <1>1, <1>4 DEF Before
  <2>2. cl[x].key = k /\ (a = 0 \/ cl[x].id < a)
    BY <2>1 DEF Older
  <2>3. \A z \in S \ {x} : Older(cl, S, k, a, z) <=> Older(cl, S, k, cl[x].id, z)
    <3>1. \A z \in S \ {x} : cl[z].id # cl[x].id
      BY <1>1 DEF Removed
    <3>2. \A z \in S \ {x} : Older(cl, S, k, a, z) => cl[z].id < cl[x].id
      BY <3>1, <2>1, <1>1
    <3>3. \A z \in S : cl[z].id < cl[x].id => (a = 0 \/ cl[z].id < a)
      BY <2>2, <1>1
    <3> QED
      BY <3>2, <3>3, <1>1 DEF Older
  <2>4. CASE v = NULL
    <3>1. \A z \in S : ~Older(cl, S, k, cl[x].id, z)
      BY <2>4, <2>2, <1>1, <1>4 DEF Before, Older
    <3> QED
      BY <3>1, <2>3, <2>4, <1>2, <1>4 DEF Before
  <2>5. CASE v # NULL
    <3>1. /\ Older(cl, S, k, cl[x].id, v)
          /\ \A z \in S : Older(cl, S, k, cl[x].id, z) => cl[z].id <= cl[v].id
      BY <2>5, <2>2, <1>4 DEF Before
    <3>2. v \in S \ {x}
      BY <3>1, <1>1 DEF Older
    <3>3. Older(cl2, S \ {x}, k, a, v)
      BY <3>1, <3>2, <2>3, <1>2
    <3>4. \A z \in S \ {x} : Older(cl2, S \ {x}, k, a, z) => cl2[z].id <= cl2[v].id
      BY <3>1, <3>2, <2>3, <1>1, <1>2
    <3> QED
      BY <3>3, <3>4, <1>4 DEF Before
  <2> QED
    BY <2>4, <2>5
<1> QED
  BY <1>3, <1>4

\* The list goes past x.
CutLinks(cl, cl2, x) ==
    \A z \in Cells :
      /\ cl2[z].next = IF z = cl[x].prev THEN cl[x].next ELSE cl[z].next
      /\ cl2[z].prev = IF z = cl[x].next THEN cl[x].prev ELSE cl[z].prev

LEMMA CutRing ==
  ASSUME NEW cl, NEW cl2, NEW h, NEW S, NEW x, Ring(cl, h, S),
         Removed(cl, cl2, S, x), CutLinks(cl, cl2, x),
         ~(x = h /\ cl[x].next = h)
  PROVE  /\ Ring(cl2, IF x = h THEN cl[x].next ELSE h, S \ {x})
         /\ cl[x].next # x /\ cl[x].prev # x
<1> DEFINE W == S \ {x}
           p == cl[x].prev
           q == cl[x].next
           g == IF x = h THEN q ELSE h
<1>0. /\ x \in S /\ NULL \notin S /\ S \subseteq Cells
      /\ \A z \in S : cl[z].id \in Nat /\ cl2[z].id = cl[z].id
  BY DEF Ring, Removed, SameRows
<1>1. \A z \in S :
         /\ cl[z].next \in S /\ cl[cl[z].next].prev = z
         /\ cl[z].prev \in S /\ cl[cl[z].prev].next = z
         /\ After(cl, S, cl[z].id, Fwd(cl, h, z))
  BY DEF Ring
<1>2. After(cl, S, 0, h)
  BY DEF Ring
<1>3. q # x
  <2> SUFFICES ASSUME q = x PROVE FALSE
    OBVIOUS
  <2>1. x # h
    OBVIOUS
  <2>2. After(cl, S, cl[x].id, x)
    BY <2>1, <1>0, <1>1 DEF Fwd
  <2> QED
    BY <2>2, <1>0 DEF After
<1>4. p # x
  BY <1>0, <1>1, <1>3
<1>5. \A z \in Cells : /\ cl2[z].next = IF z = p THEN q ELSE cl[z].next
                       /\ cl2[z].prev = IF z = q THEN p ELSE cl[z].prev
  BY DEF CutLinks
<1>6. p \in W /\ q \in W
  BY <1>0, <1>1, <1>3, <1>4
<1> HIDE DEF p, q
<1>7. After(cl, S, cl[x].id, IF q = h THEN NULL ELSE q)
  BY <1>0, <1>1 DEF Fwd, q
<1>8. ASSUME NEW z \in W
      PROVE  /\ cl2[z].next \in W /\ cl2[cl2[z].next].prev = z
             /\ cl2[z].prev \in W /\ cl2[cl2[z].prev].next = z
  <2>1. cl2[z].next \in W /\ cl2[cl2[z].next].prev = z
    <3>1. CASE z = p
      BY <3>1, <1>0, <1>5, <1>6
    <3>2. CASE z # p
      <4>1. cl[z].next # x /\ cl[z].next # q
        BY <3>2, <1>0, <1>1 DEF p, q
      <4> QED
        BY <4>1, <3>2, <1>0, <1>1, <1>5
    <3> QED
      BY <3>1, <3>2
  <2>2. cl2[z].prev \in W /\ cl2[cl2[z].prev].next = z
    <3>1. CASE z = q
      BY <3>1, <1>0, <1>5, <1>6
    <3>2. CASE z # q
      <4>1. cl[z].prev # x /\ cl[z].prev # p
        BY <3>2, <1>0, <1>1 DEF p, q
      <4> QED
        BY <4>1, <3>2, <1>0, <1>1, <1>5
    <3> QED
      BY <3>1, <3>2
  <2> QED
    BY <2>1, <2>2
<1>9. ASSUME NEW z \in W PROVE After(cl2, W, cl2[z].id, Fwd(cl2, g, z))
  <2> DEFINE y == Fwd(cl, h, z)
             v == IF q = h THEN NULL ELSE q
  <2>1. After(cl, S, cl[z].id, y) /\ cl[z].id \in Nat /\ cl2[z].id = cl[z].id
    BY <1>0, <1>1
  <2>2. After(cl2, W, cl[z].id, IF y = x THEN v ELSE y)
    <3> HIDE DEF y, v
    <3>1. After(cl, S, cl[x].id, v)
      BY <1>7 DEF v
    <3> QED
      BY <3>1, <2>1, AfterRemoved
  <2>3. Fwd(cl2, g, z) = IF y = x THEN v ELSE y
    <3>1. cl[z].next \in S /\ cl[cl[z].next].prev = z /\ z \in Cells
      BY <1>0, <1>1
    <3>2. CASE z = p
      <4>1. cl2[z].next = q /\ cl[z].next = x
        BY <3>1, <3>2, <1>0, <1>1, <1>5 DEF p
      <4>2. CASE x = h
        BY <4>1, <4>2, <1>0 DEF Fwd
      <4>3. CASE x # h
        BY <4>1, <4>3, <1>0 DEF Fwd
      <4> QED
        BY <4>2, <4>3
    <3>3. CASE z # p
      <4>1. cl[z].next # x /\ cl[z].next # q /\ cl2[z].next = cl[z].next
        BY <3>1, <3>3, <1>0, <1>1, <1>5 DEF p, q
      <4>2. CASE x = h
        BY <4>1, <4>2, <1>0 DEF Fwd
      <4>3. CASE x # h
        BY <4>1, <4>3, <1>0 DEF Fwd
      <4> QED
        BY <4>2, <4>3
    <3> QED
      BY <3>2, <3>3
  <2> QED
    BY <2>1, <2>2, <2>3
<1>10. After(cl2, W, 0, g)
  <2>1. After(cl2, W, 0, IF h = x THEN (IF q = h THEN NULL ELSE q) ELSE h)
    <3>1. PICK v : v = IF q = h THEN NULL ELSE q
      OBVIOUS
    <3>2. After(cl, S, cl[x].id, v) /\ 0 \in Nat
      BY <3>1, <1>7
    <3>3. After(cl2, W, 0, IF h = x THEN v ELSE h)
      BY <3>2, <1>2, AfterRemoved
    <3> QED
      BY <3>1, <3>3
  <2>2. x = h => q # h
    BY DEF q
  <2> QED
    BY <2>1, <2>2
<1>11. \A y, z \in W : cl2[y].id = cl2[z].id => y = z
  BY <1>0 DEF Removed
<1>12. W \subseteq Cells
  BY <1>0
<1>13. Ring(cl2, g, W)
  <2> HIDE DEF W, g
  <2> QED
    BY <1>8, <1>9, <1>10, <1>11, <1>12 DEF Ring
<1> QED
  BY <1>3, <1>4, <1>13 DEF p, q

-----------------------------------------------------------------------------
(* Delete                                                                   *)

\* The chain goes past x.  Its slot moves on when x is the newest row ...
LEMMA ChainsFirst ==
  ASSUME NEW cl, NEW cl2, NEW S, NEW x, Removed(cl, cl2, S, x),
         NEW ix, DOMAIN ix = Keys, Chains(cl, S, ix),
         NEW k \in Keys, cl[x].key = k, Before(cl, S, k, 0, x),
         \A z \in S : cl2[z].hchain = cl[z].hchain,
         NEW ix2, ix2 = [ix EXCEPT ![k] = SlotOf(cl[x].hchain)]
  PROVE  Chains(cl2, S \ {x}, ix2)
<1> DEFINE W == S \ {x}
           v == cl[x].hchain
<1>0. /\ x \in S /\ NULL \notin S
      /\ \A z \in S : cl[z].id \in Nat /\ cl[z].id # 0 /\ cl2[z].id = cl[z].id
                      /\ cl2[z].key = cl[z].key
  BY DEF Removed, SameRows
<1>1. Before(cl, S, cl[x].key, cl[x].id, v)
  BY <1>0 DEF Chains
<1> HIDE DEF v
<1>2. ASSUME NEW o \in Keys PROVE \E y : Before(cl2, W, o, 0, y) /\ ix2[o] = SlotOf(y)
  <2>1. CASE o = k
    <3>1. Before(cl2, W, k, 0, v)
      <4>1. Before(cl2, W, k, 0, IF x = x THEN v ELSE x)
        BY <1>1, BeforeRemoved
      <4> QED
        BY <4>1
    <3>2. ix2[o] = SlotOf(v)
      BY <2>1 DEF v
    <3> QED
      BY <3>1, <3>2, <2>1
  <2>2. CASE o # k
    <3>1. PICK y : Before(cl, S, o, 0, y) /\ ix[o] = SlotOf(y)
      BY DEF Chains
    <3>2. y # x
      BY <3>1, <2>2, <1>0 DEF Before, Older
    <3>3. Before(cl2, W, o, 0, IF y = x THEN v ELSE y)
      BY <3>1, <1>1, BeforeRemoved
    <3>4. Before(cl2, W, o, 0, y)
      BY <3>2, <3>3
    <3>5. ix2[o] = ix[o]
      BY <2>2
    <3> QED
      BY <3>1, <3>4, <3>5
  <2> QED
    BY <2>1, <2>2
<1>3. ASSUME NEW z \in W PROVE Before(cl2, W, cl2[z].key, cl2[z].id, cl2[z].hchain)
  <2>1. /\ Before(cl, S, cl[z].key, cl[z].id, cl[z].hchain)
        /\ cl[z].id \in Nat /\ cl[z].id # 0
    BY <1>0 DEF Chains
  <2>2. cl[z].hchain # x
    <3> SUFFICES ASSUME cl[z].hchain = x PROVE FALSE
      OBVIOUS
    <3>1. Older(cl, S, cl[z].key, cl[z].id, x)
      BY <2>1, <1>0 DEF Before
    <3>2. cl[z].key = k /\ cl[x].id < cl[z].id
      BY <3>1, <2>1 DEF Older
    <3>3. Older(cl, S, k, 0, z)
      BY <3>2 DEF Older
    <3>4. cl[z].id <= cl[x].id
      BY <3>3, <1>0 DEF Before
    <3> QED
      BY <3>2, <3>4, <1>0
  <2>3. Before(cl2, W, cl[z].key, cl[z].id, IF cl[z].hchain = x THEN v ELSE cl[z].hchain)
    BY ONLY <2>1, <1>1, Removed(cl, cl2, S, x), BeforeRemoved
  <2> QED
    BY <2>2, <2>3, <1>0
<1> QED
  BY <1>2, <1>3 DEF Chains

\* ... and otherwise the row before it in the chain skips it.
LEMMA ChainsSkip ==
  ASSUME NEW cl, NEW cl2, NEW S, NEW x, Removed(cl, cl2, S, x),
         NEW ix, Chains(cl, S, ix),
         NEW k \in Keys, cl[x].key = k,
         NEW o, Before(cl, S, k, 0, o), ix[k] = SlotOf(o), o # x,
         NEW y \in S, cl[y].hchain = x,
         \A z \in S : cl2[z].hchain = IF z = y THEN cl[x].hchain ELSE cl[z].hchain
  PROVE  Chains(cl2, S \ {x}, ix)
<1> DEFINE W == S \ {x}
           v == cl[x].hchain
<1>0. /\ x \in S /\ NULL \notin S
      /\ \A z \in S : cl[z].id \in Nat /\ cl[z].id # 0 /\ cl2[z].id = cl[z].id
                      /\ cl2[z].key = cl[z].key
  BY DEF Removed, SameRows
<1>1. Before(cl, S, cl[x].key, cl[x].id, v)
  BY <1>0 DEF Chains
<1>h. \A z \in W : cl2[z].hchain = IF z = y THEN v ELSE cl[z].hchain
  OBVIOUS
<1> HIDE DEF v
<1>2. ASSUME NEW i \in Keys PROVE \E u : Before(cl2, W, i, 0, u) /\ ix[i] = SlotOf(u)
  <2>1. PICK u : Before(cl, S, i, 0, u) /\ ix[i] = SlotOf(u) /\ u # x
    <3>1. CASE i = k
      BY <3>1
    <3>2. CASE i # k
      <4>1. PICK u : Before(cl, S, i, 0, u) /\ ix[i] = SlotOf(u)
        BY DEF Chains
      <4>2. u # x
        BY <4>1, <3>2, <1>0 DEF Before, Older
      <4> QED
        BY <4>1, <4>2
    <3> QED
      BY <3>1, <3>2
  <2>2. Before(cl2, W, i, 0, IF u = x THEN v ELSE u)
    BY <2>1, <1>1, BeforeRemoved
  <2>3. Before(cl2, W, i, 0, u)
    BY <2>1, <2>2
  <2> QED
    BY <2>1, <2>3
<1>3. ASSUME NEW z \in W PROVE Before(cl2, W, cl2[z].key, cl2[z].id, cl2[z].hchain)
  <2>1. /\ Before(cl, S, cl[z].key, cl[z].id, cl[z].hchain)
        /\ cl[z].id \in Nat /\ cl[z].id # 0
    BY <1>0 DEF Chains
  <2>2. cl[z].hchain = x => z = y
    <3> SUFFICES ASSUME cl[z].hchain = x, z # y PROVE FALSE
      OBVIOUS
    <3>1. Older(cl, S, cl[z].key, cl[z].id, x)
          /\ \A w \in S : Older(cl, S, cl[z].key, cl[z].id, w) => cl[w].id <= cl[x].id
      BY <2>1, <1>0 DEF Before
    <3>2. Before(cl, S, cl[y].key, cl[y].id, x)
      BY DEF Chains
    <3>3. Older(cl, S, cl[y].key, cl[y].id, x)
          /\ \A w \in S : Older(cl, S, cl[y].key, cl[y].id, w) => cl[w].id <= cl[x].id
      BY <3>2, <1>0 DEF Before
    <3>4. cl[z].key = k /\ cl[y].key = k /\ cl[x].id < cl[z].id /\ cl[x].id < cl[y].id
      BY <3>1, <3>3, <1>0 DEF Older
    <3>5. ~(cl[y].id < cl[z].id)
      BY <3>1, <3>4, <1>0 DEF Older
    <3>6. ~(cl[z].id < cl[y].id)
      BY <3>3, <3>4, <1>0 DEF Older
    <3>7. cl[y].id = cl[z].id
      BY <3>5, <3>6, <1>0
    <3> QED
      BY <3>7 DEF Removed
  <2>3. Before(cl2, W, cl[z].key, cl[z].id, IF cl[z].hchain = x THEN v ELSE cl[z].hchain)
    BY ONLY <2>1, <1>1, Removed(cl, cl2, S, x), BeforeRemoved
  <2>4. cl2[z].hchain = IF cl[z].hchain = x THEN v ELSE cl[z].hchain
    BY <2>2, <1>h
  <2> QED
    BY <2>3, <2>4, <1>0
<1> QED
  BY <1>2, <1>3 DEF Chains

\* The cell of a deleted row returns to the pool, ...
LEMMA FreePool ==
  ASSUME NEW S, NEW fr \in Seq(Cells), NEW f \in Nat, NEW e \in Nat,
         Pool(S, fr, f, e), NEW x \in S, x \in Cells
  PROVE  Append(fr, x) \in Seq(Cells) /\ Pool(S \ {x}, Append(fr, x), f, e)
<1> DEFINE n == Len(fr)
           t == Append(fr, x)
<1>1. /\ n \in Nat /\ t \in Seq(Cells) /\ Len(t) = n + 1
      /\ \A i \in 1..n : t[i] = fr[i]
      /\ t[n + 1] = x
  OBVIOUS
<1>2. /\ IsFiniteSet(S) /\ Cardinality(S) \in Nat /\ IsFiniteSet(S \ {x})
      /\ Cardinality(S \ {x}) = Cardinality(S) - 1
  BY FS_RemoveElement, FS_CardinalityType DEF Pool
<1>3. /\ \A z \in S : z < f
      /\ \A i \in 1..n : fr[i] < f /\ fr[i] \notin S
      /\ \A i, j \in 1..n : fr[i] = fr[j] => i = j
      /\ f - 1 = Cardinality(S) + n + e
  BY DEF Pool
<1> HIDE DEF t, n
<1>4. \A i \in 1..(n + 1) : i = n + 1 \/ i \in 1..n
  BY <1>1
<1>5. \A i \in 1..(n + 1) : t[i] < f /\ t[i] \notin S \ {x}
  BY <1>1, <1>3, <1>4
<1>6. \A i, j \in 1..(n + 1) : t[i] = t[j] => i = j
  BY <1>1, <1>3, <1>4
<1>7. f - 1 = Cardinality(S \ {x}) + (n + 1) + e
  BY ONLY <1>1, <1>2, <1>3, e \in Nat, f \in Nat
<1>8. Pool(S \ {x}, t, f, e)
  BY <1>1, <1>2, <1>3, <1>5, <1>6, <1>7 DEF Pool
<1> QED
  BY <1>1, <1>8 DEF t

\* ... except that of the only row, which is lost.
LEMMA LostPool ==
  ASSUME NEW S, NEW fr \in Seq(Cells), NEW f \in Nat, NEW e \in Nat,
         Pool(S, fr, f, e), NEW x \in S
  PROVE  Pool(S \ {x}, fr, f, e + 1)
<1>2. /\ IsFiniteSet(S) /\ Cardinality(S) \in Nat /\ IsFiniteSet(S \ {x})
      /\ Cardinality(S \ {x}) = Cardinality(S) - 1
  BY FS_RemoveElement, FS_CardinalityType DEF Pool
<1>3. f - 1 = Cardinality(S) + Len(fr) + e /\ Len(fr) \in Nat
  BY DEF Pool
<1>4. f - 1 = Cardinality(S \ {x}) + Len(fr) + (e + 1)
  BY ONLY <1>2, <1>3, e \in Nat, f \in Nat
<1> QED
  BY <1>2, <1>4 DEF Pool

\* A scan that is at another row.
LEMMA OtherScanning ==
  ASSUME NEW cl, NEW cl2, NEW S, NEW x, Removed(cl, cl2, S, x),
         NEW h, NEW h2, NEW n, NEW ind, NEW s \in ScanRecord, NEW u \in CellSet, NEW w,
         Scanning(cl, h, S, n, ind, s, u, w),
         S \ {x} # {} => h2 = IF x = h THEN cl[x].next ELSE h,
         \A z \in Cells \ S : cl2[z].next = cl[z].next,
         After(cl, S, cl[x].id, Fwd(cl, h, x)),
         s.on /\ ~s.eof =>
           /\ u # x
           /\ s.key # All => w # x
           /\ s.key = All /\ u \notin S \cup {NULL} =>
                cl[u].next # x /\ (x = h => cl[u].next # cl[x].next)
  PROVE  Scanning(cl2, h2, S \ {x}, n, ind, s, u, w)
<1>0. /\ NULL \notin S /\ s.at \in Nat
      /\ \A z \in S : cl[z].id \in Nat /\ cl2[z].id = cl[z].id
  BY ImRelAssumption DEF Removed, SameRows, ScanRecord
<1>x. x # NULL
  BY DEF Removed
<1>1. s.here => s.on /\ ~s.eof /\ u \in S \ {x} /\ cl2[u].id = s.at
  BY <1>0 DEF Scanning
<1>2. ASSUME s.on, ~s.eof, s.at # 0, s.key = All
      PROVE  Placed(cl2, h2, S \ {x}, s.at, u)
  <2>1. Placed(cl, h, S, s.at, u) /\ u # x
    BY <1>2 DEF Scanning
  <2>2. CASE u = NULL
    <3>1. \A z \in S : cl[z].id > s.at
      BY <2>1, <2>2, <1>0, NullNoCell DEF Placed
    <3> QED
      BY <3>1, <2>2, <1>0 DEF Placed
  <2>3. CASE u \in S
    <3>1. cl[u].id = s.at
      BY <2>1, <2>3, <1>0 DEF Placed
    <3> QED
      BY <3>1, <2>1, <2>3, <1>0 DEF Placed
  <2>4. CASE u \notin S \cup {NULL}
    <3>1. /\ u \in Cells \ S /\ cl[u].next # NULL /\ cl2[u].next = cl[u].next
          /\ S # {} => After(cl, S, s.at, Fwd(cl, h, u))
          /\ cl[u].next # x /\ (x = h => cl[u].next # cl[x].next)
      BY <2>1, <2>4, <1>2 DEF Placed, CellSet
    <3>2. ASSUME S \ {x} # {} PROVE After(cl2, S \ {x}, s.at, Fwd(cl2, h2, u))
      <4>1. Fwd(cl2, h2, u) = Fwd(cl, h, u)
        BY <3>1, <3>2 DEF Fwd
      <4>2. Fwd(cl, h, u) # x
        BY <3>1, <1>0, <1>x DEF Fwd
      <4>3. After(cl2, S \ {x}, s.at, IF Fwd(cl, h, u) = x THEN Fwd(cl, h, x)
                                      ELSE Fwd(cl, h, u))
        <5>1. After(cl, S, s.at, Fwd(cl, h, u))
          BY <3>1, <3>2
        <5> QED
          BY <5>1, <1>0, AfterRemoved
      <4> QED
        BY <4>1, <4>2, <4>3
    <3> QED
      BY <3>1, <3>2 DEF Placed
  <2> QED
    BY <2>2, <2>3, <2>4
<1>3. ASSUME s.on, ~s.eof, s.at # 0, s.key # All
      PROVE  Before(cl2, S \ {x}, s.key, s.at, w)
  <2>1. Before(cl, S, s.key, s.at, w) /\ w # x
    BY <1>3 DEF Scanning
  <2>2. Before(cl2, S \ {x}, s.key, s.at, IF w = x THEN NULL ELSE w)
    BY <1>0, <2>1, BeforeRemoved
  <2> QED
    BY <2>1, <2>2
<1>4. s.at <= n /\ (s.on /\ s.key # All => ind)
  BY DEF Scanning
<1> QED
  BY <1>1, <1>2, <1>3, <1>4 DEF Scanning

\* The scan that deletes its row.
LEMMA OwnScanning ==
  ASSUME NEW cl, NEW cl2, NEW S, S \subseteq Cells, NEW x, Removed(cl, cl2, S, x),
         NEW h, After(cl, S, 0, h), After(cl, S, cl[x].id, Fwd(cl, h, x)),
         NEW h2, NEW n, NEW ind, NEW s \in ScanRecord, NEW w,
         Scanning(cl, h, S, n, ind, s, x, w), s.here,
         NEW u, \/ u = NULL /\ x = h
                \/ /\ u = x /\ cl2[x].next = cl[x].next /\ cl[x].next # NULL
                   /\ S \ {x} # {} => h2 = h
  PROVE  Scanning(cl2, h2, S \ {x}, n, ind, [s EXCEPT !.here = FALSE], u, w)
<1> DEFINE r == [s EXCEPT !.here = FALSE]
<1>0. /\ NULL \notin S /\ x \in S /\ x \in Cells /\ s.at \in Nat
      /\ \A z \in S : cl[z].id \in Nat /\ cl[z].id > 0 /\ cl2[z].id = cl[z].id
      /\ \A z \in S \ {x} : cl[z].id # cl[x].id
  BY ImRelAssumption DEF Removed, SameRows, ScanRecord
<1>1. /\ r.on = s.on /\ r.key = s.key /\ r.at = s.at /\ r.eof = s.eof /\ ~r.here
  BY DEF ScanRecord
<1>2. s.on /\ ~s.eof /\ cl[x].id = s.at
  BY DEF Scanning
<1> HIDE DEF r
<1>3. Placed(cl2, h2, S \ {x}, s.at, u)
  <2>1. CASE u = NULL /\ x = h
    <3>1. \A z \in S : cl[x].id <= cl[z].id
      BY <2>1, <1>0 DEF After
    <3>2. \A z \in S \ {x} : cl2[z].id > s.at
      BY <3>1, <1>0, <1>2
    <3> QED
      BY <3>2, <2>1 DEF Placed
  <2>2. CASE /\ u = x /\ cl2[x].next = cl[x].next /\ cl[x].next # NULL
             /\ S \ {x} # {} => h2 = h
    <3>1. ASSUME S \ {x} # {} PROVE After(cl2, S \ {x}, s.at, Fwd(cl2, h2, x))
      <4>1. Fwd(cl2, h2, x) = Fwd(cl, h, x)
        BY <2>2, <3>1 DEF Fwd
      <4> DEFINE y == Fwd(cl, h, x)
      <4>2. After(cl, S, s.at, y)
        BY <1>2
      <4> HIDE DEF y
      <4>3. y # x
        BY <4>2, <1>0, <1>2 DEF After
      <4>4. After(cl2, S \ {x}, s.at, y)
        BY <4>2, <4>3, <1>0 DEF After
      <4> QED
        BY <4>1, <4>4 DEF y
    <3> QED
      BY <3>1, <2>2, <1>0 DEF Placed
  <2> QED
    BY <2>1, <2>2
<1>4. ASSUME s.key # All, s.at # 0 PROVE Before(cl2, S \ {x}, s.key, s.at, w)
  <2>1. Before(cl, S, s.key, s.at, w)
    BY <1>2, <1>4 DEF Scanning
  <2>2. w # x
    BY <2>1, <1>0, <1>2, <1>4 DEF Before, Older
  <2>3. Before(cl2, S \ {x}, s.key, s.at, IF w = x THEN NULL ELSE w)
    BY <1>0, <2>1, <2>2, BeforeRemoved
  <2> QED
    BY <2>2, <2>3
<1>5. s.at <= n /\ (s.on /\ s.key # All => ind)
  BY DEF Scanning
<1>6. Scanning(cl2, h2, S \ {x}, n, ind, r, u, w)
  BY <1>1, <1>3, <1>4, <1>5 DEF Scanning
<1> QED
  BY <1>6 DEF r

\* cl2 is cl without x in the list.
IsCut(cl, cl2, x) ==
    /\ CutLinks(cl, cl2, x)
    /\ \A z \in Cells :
         /\ cl2[z].hchain = cl[z].hchain /\ cl2[z].key = cl[z].key
         /\ cl2[z].id = cl[z].id /\ cl2[z].d = cl[z].d

LEMMA CutIs ==
  ASSUME NEW cl, IsCells(cl), NEW x, cl[x].prev \in Cells, cl[x].next \in Cells,
         NEW cl2, cl2 = [cl EXCEPT ![cl[x].prev].next = cl[x].next,
                                   ![cl[x].next].prev = cl[x].prev]
  PROVE  IsCells(cl2) /\ IsCut(cl, cl2, x)
<1>1. PICK p \in Cells, q \in Cells : p = cl[x].prev /\ q = cl[x].next
  OBVIOUS
<1> DEFINE b == [cl EXCEPT ![p].next = q]
           e == [b EXCEPT ![q].prev = p]
<1>2. cl \in [Cells -> CellRecord] /\ p \in CellSet /\ q \in CellSet
  BY DEF IsCells, CellSet
<1>3. cl2 = e
  BY <1>1
<1>4. /\ b \in [Cells -> CellRecord]
      /\ \A z \in Cells : b[z] = IF z = p THEN [cl[z] EXCEPT !.next = q] ELSE cl[z]
  BY <1>2 DEF CellRecord
<1> HIDE DEF b
<1>5. /\ e \in [Cells -> CellRecord]
      /\ \A z \in Cells : e[z] = IF z = q THEN [b[z] EXCEPT !.prev = p] ELSE b[z]
  <2>1. q \in Cells /\ p \in CellSet /\ b \in [Cells -> CellRecord]
    BY <1>2, <1>4
  <2> QED
    BY ONLY <2>1 DEF CellRecord
<1> HIDE DEF e
<1>6. \A z \in Cells : cl[z] \in CellRecord /\ b[z] \in CellRecord
  BY <1>2, <1>4
<1>7. ASSUME NEW z \in Cells
      PROVE  /\ b[z].next = (IF z = p THEN q ELSE cl[z].next) /\ b[z].prev = cl[z].prev
             /\ b[z].hchain = cl[z].hchain /\ b[z].key = cl[z].key
             /\ b[z].id = cl[z].id /\ b[z].d = cl[z].d
  BY <1>4, <1>6 DEF CellRecord
<1>8. ASSUME NEW z \in Cells
      PROVE  /\ e[z].prev = (IF z = q THEN p ELSE b[z].prev) /\ e[z].next = b[z].next
             /\ e[z].hchain = b[z].hchain /\ e[z].key = b[z].key
             /\ e[z].id = b[z].id /\ e[z].d = b[z].d
  BY <1>5, <1>6 DEF CellRecord
<1>9. IsCells(cl2)
  BY <1>3, <1>5 DEF IsCells
<1>10. ASSUME NEW z \in Cells
       PROVE  /\ e[z].next = (IF z = p THEN q ELSE cl[z].next)
              /\ e[z].prev = (IF z = q THEN p ELSE cl[z].prev)
              /\ e[z].hchain = cl[z].hchain /\ e[z].key = cl[z].key
              /\ e[z].id = cl[z].id /\ e[z].d = cl[z].d
  BY ONLY z \in Cells, <1>7, <1>8
<1>11. CutLinks(cl, cl2, x)
  BY ONLY <1>1, <1>3, <1>10 DEF CutLinks
<1> QED
  BY ONLY <1>3, <1>9, <1>10, <1>11 DEF IsCut

LEMMA UnchainStep ==
  ASSUME Types, NEW S \in SUBSET Cells, IsRelation(S), NEW x \in S,
         NEW cl, IsCells(cl),
         \A z \in Cells : /\ cl[z].hchain = cell[z].hchain /\ cl[z].key = cell[z].key
                          /\ cl[z].id = cell[z].id,
         Unchain(cl, x)
  PROVE  /\ IsCells(cell')
         /\ \A z \in Cells :
              /\ cell'[z].next = cl[z].next /\ cell'[z].prev = cl[z].prev
              /\ cell'[z].key = cl[z].key /\ cell'[z].id = cl[z].id
              /\ cell'[z].d = cl[z].d
         /\ hidx' \in [Keys -> [cell : CellSet, keyat : CellSet]]
         /\ indexed => Chains(cell', S \ {x}, hidx')
<1>0. OnList = S /\ NULL \notin S
  BY OnListIs
<1>t. IsCells(cell) /\ puts \in Nat /\ hidx \in [Keys -> [cell : CellSet, keyat : CellSet]]
  BY TypeFacts DEF Types
<1>r. /\ Ring(cell, head, S) /\ Rows(cell, S, puts)
      /\ (indexed => Chains(cell, S, hidx))
  BY DEF IsRelation
<1>1. CASE ~indexed
  BY <1>1, <1>t DEF Unchain
<1>2. CASE indexed
  <2> DEFINE k == cell[x].key
             v == cell[x].hchain
  <2>1. k \in Keys /\ cl[x].key = k /\ cl[x].hchain = v /\ v \in CellSet /\ x \in Cells
    BY <1>r, <1>t, CellFields DEF Rows
  <2> HIDE DEF k, v
  <2>2. PICK old : old = Find(cl, k)
    OBVIOUS
  <2>3. Before(cell, S, k, 0, old) /\ hidx[k] = SlotOf(old)
    BY <2>1, <2>2, <1>0, <1>2, <1>r, FindIs
  <2>4. ASSUME NEW cl2, SameRows(cell, cl2, S) PROVE Removed(cell, cl2, S, x)
    <3>1. \A z \in S : cell[z].id \in Nat /\ cell[z].id > 0
      BY <1>r, <1>t DEF Rows
    <3> QED
      BY <3>1, <2>4, <1>0, <1>r DEF Removed, Ring
  <2>5. CASE old = x
    <3>1. /\ cell' = cl
          /\ hidx' = [hidx EXCEPT ![k] = SlotOf(v)]
      BY <2>1, <2>2, <2>5, <1>2 DEF Unchain, SlotSet, SlotOf
    <3>2. SameRows(cell, cl, S)
      BY DEF SameRows
    <3>3. \A z \in S : cl[z].hchain = cell[z].hchain
      OBVIOUS
    <3>4. Chains(cl, S \ {x}, hidx')
      <4>1. DOMAIN hidx = Keys /\ cell[x].key = k /\ Before(cell, S, k, 0, x)
            /\ hidx' = [hidx EXCEPT ![k] = SlotOf(cell[x].hchain)] /\ k \in Keys
            /\ Chains(cell, S, hidx) /\ Removed(cell, cl, S, x)
        BY <2>1, <2>3, <2>4, <2>5, <3>1, <3>2, <1>2, <1>r, <1>t DEF k, v
      <4> QED
        BY ONLY <4>1, <3>3, ChainsFirst
    <3>5. SlotOf(v) \in [cell : CellSet, keyat : CellSet]
      BY <2>1 DEF SlotOf, NoSlot, CellSet
    <3>6. hidx' \in [Keys -> [cell : CellSet, keyat : CellSet]]
      BY <3>1, <3>5, <1>t
    <3> QED
      BY <3>1, <3>4, <3>6
  <2>6. CASE old # x
    <3>1. [z \in Cells |-> cl[z].hchain] = [z \in Cells |-> cell[z].hchain]
      OBVIOUS
    <3>2. PICK y \in Range(Path([z \in Cells |-> cell[z].hchain], old)) :
             /\ cl[y].hchain = x
             /\ cell' = [cl EXCEPT ![y].hchain = v]
             /\ hidx' = hidx
      <4>1. /\ \E y \in Range(Path([z \in Cells |-> cl[z].hchain], old)) :
                 /\ cl[y].hchain = x
                 /\ cell' = [cl EXCEPT ![y].hchain = v]
            /\ hidx' = hidx
        BY <2>1, <2>2, <2>6, <1>2 DEF Unchain
      <4> QED
        BY <4>1, <3>1
    <3>3. y \in S
      <4>1. PICK m \in Nat : Through(Path([z \in Cells |-> cell[z].hchain], old), Age(cell),
                                    RowsOf(cell, S, k), m)
        BY <2>3, <1>2, <1>r, <1>t, ChainIs
      <4> QED
        BY <4>1, <3>2 DEF Through, RowsOf, Range
    <3>4. cell[y].hchain = x /\ y \in Cells
      BY <3>2, <3>3
    <3>5. IsCells(cell') /\ IsRechained(cl, cell', y, v)
      BY ONLY <2>1, <3>2, <3>4, IsCells(cl), Rechained
    <3>6. \A z \in Cells :
              /\ cell'[z].next = cl[z].next /\ cell'[z].prev = cl[z].prev
              /\ cell'[z].key = cl[z].key /\ cell'[z].id = cl[z].id
              /\ cell'[z].d = cl[z].d
              /\ cell'[z].hchain = IF z = y THEN v ELSE cl[z].hchain
      BY ONLY <3>5 DEF IsRechained
    <3>7. SameRows(cell, cell', S)
      BY <3>6 DEF SameRows
    <3>8. \A z \in S : cell'[z].hchain = IF z = y THEN cell[x].hchain ELSE cell[z].hchain
      BY <3>6 DEF v
    <3>9. Chains(cell', S \ {x}, hidx)
      <4>1. /\ Removed(cell, cell', S, x) /\ Chains(cell, S, hidx) /\ k \in Keys
            /\ cell[x].key = k /\ y \in S
        BY <3>3, <3>7, <2>1, <2>4, <1>2, <1>r DEF k
      <4> QED
        BY ONLY <4>1, <2>3, <2>6, <3>4, <3>8, ChainsSkip
    <3> QED
      BY <3>2, <3>5, <3>6, <3>9, <1>t
  <2> QED
    BY <2>5, <2>6
<1> QED
  BY <1>1, <1>2

LEMMA DeleteStep ==
  ASSUME Types, NEW S \in SUBSET Cells, IsRelation(S), NEW c \in Cursors,
         Delete(c), MayDelete(c)
  PROVE  \E x \in S : /\ Types' /\ IsRelation(S \ {x})' /\ SameData(S)
                      /\ cell[x].id = scan[c].at
<1>0. OnList = S /\ NULL \notin S
  BY OnListIs
<1>t. /\ IsCells(cell) /\ puts \in Nat /\ emptied \in Nat /\ free \in Seq(Cells)
      /\ fresh \in Nat /\ MaxCells \in Nat
  BY TypeFacts DEF Types
<1>r. /\ Ring(cell, head, S) /\ Rows(cell, S, puts)
      /\ Pool(S, free, fresh, emptied) /\ (indexed => Chains(cell, S, hidx))
  BY DEF IsRelation
<1>s. \A o \in Cursors : /\ Scanning(cell, head, S, puts, indexed, scan[o], cur[o], nextaccess[o])
                         /\ scan[o] \in ScanRecord /\ cur[o] \in CellSet
  BY DEF IsRelation, Types
<1>1. PICK x : x = cur[c]
  OBVIOUS
<1>2. PICK q : q = cell[x].next
  OBVIOUS
<1>3. PICK sole \in BOOLEAN : sole <=> x = head /\ q = head
  OBVIOUS
<1>4. PICK cl : cl = IF sole THEN cell ELSE Cut(x)
  OBVIOUS
<1>5. /\ scan[c].on /\ scan[c].here
      /\ Unchain(cl, x)
      /\ free' = IF sole THEN free ELSE Append(free, x)
      /\ head' = IF sole THEN NULL ELSE IF x = head THEN q ELSE head
      /\ cur' = [cur EXCEPT ![c] = IF x = head /\ ~sole THEN NULL ELSE x]
      /\ scan' = [scan EXCEPT ![c].here = FALSE]
      /\ emptied' = IF sole THEN emptied + 1 ELSE emptied
      /\ indexed' = indexed /\ fresh' = fresh /\ nextaccess' = nextaccess
      /\ puts' = puts
  BY <1>1, <1>2, <1>3, <1>4 DEF Delete
<1>6. x \in S /\ x \in Cells /\ cell[x].id = scan[c].at
  BY <1>1, <1>5, <1>s DEF Scanning
<1>7. /\ cell[x].prev \in S /\ q \in S /\ After(cell, S, 0, head)
      /\ After(cell, S, cell[x].id, Fwd(cell, head, x))
  BY <1>2, <1>6, <1>r DEF Ring
<1>8. /\ IsCells(cl)
      /\ \A z \in Cells : /\ cl[z].hchain = cell[z].hchain /\ cl[z].key = cell[z].key
                          /\ cl[z].id = cell[z].id /\ cl[z].d = cell[z].d
      /\ sole => \A z \in Cells : cl[z].next = cell[z].next /\ cl[z].prev = cell[z].prev
      /\ ~sole => CutLinks(cell, cl, x)
  <2>1. CASE sole
    BY <2>1, <1>4, <1>t
  <2>2. CASE ~sole
    <3>1. cell[x].prev \in Cells /\ cell[x].next \in Cells
      BY <1>2, <1>7
    <3>2. cl = [cell EXCEPT ![cell[x].prev].next = cell[x].next,
                            ![cell[x].next].prev = cell[x].prev]
      BY <2>2, <1>4 DEF Cut
    <3>3. IsCells(cl) /\ IsCut(cell, cl, x)
      BY ONLY <1>t, <3>1, <3>2, CutIs
    <3> QED
      BY <3>3, <2>2 DEF IsCut
  <2> QED
    BY <2>1, <2>2
<1>9. /\ IsCells(cell')
      /\ \A z \in Cells :
           /\ cell'[z].next = cl[z].next /\ cell'[z].prev = cl[z].prev
           /\ cell'[z].key = cl[z].key /\ cell'[z].id = cl[z].id
           /\ cell'[z].d = cl[z].d
      /\ hidx' \in [Keys -> [cell : CellSet, keyat : CellSet]]
      /\ indexed => Chains(cell', S \ {x}, hidx')
  <2>1. /\ x \in S /\ IsCells(cl) /\ Unchain(cl, x)
        /\ \A z \in Cells : /\ cl[z].hchain = cell[z].hchain /\ cl[z].key = cell[z].key
                            /\ cl[z].id = cell[z].id
    BY <1>5, <1>6, <1>8
  <2>2. Types /\ S \in SUBSET Cells /\ IsRelation(S)
    OBVIOUS
  <2> QED
    BY ONLY <2>1, <2>2, UnchainStep
<1>10. SameData(S) /\ SameRows(cell, cell', S)
  <2>1. \A z \in S : z \in Cells
    OBVIOUS
  <2> QED
    BY <2>1, <1>8, <1>9 DEF SameData, SameRows
<1>11. Removed(cell, cell', S, x)
  <2>1. \A z \in S : cell[z].id \in Nat /\ cell[z].id > 0
    BY <1>r, <1>t DEF Rows
  <2> QED
    BY <2>1, <1>0, <1>6, <1>10, <1>r DEF Removed, Ring
<1>12. ~sole => /\ CutLinks(cell, cell', x)
                /\ Ring(cell', head', S \ {x})
                /\ cell'[x].next = cell[x].next
  <2> SUFFICES ASSUME ~sole PROVE /\ CutLinks(cell, cell', x)
                                  /\ Ring(cell', head', S \ {x})
                                  /\ cell'[x].next = cell[x].next
    OBVIOUS
  <2>1. CutLinks(cell, cell', x)
    BY <1>8, <1>9 DEF CutLinks
  <2>2. /\ Ring(cell', IF x = head THEN cell[x].next ELSE head, S \ {x})
        /\ cell[x].prev # x
    <3>1. ~(x = head /\ cell[x].next = head)
      BY <1>2, <1>3
    <3> QED
      BY <3>1, <2>1, <1>11, <1>r, CutRing
  <2>3. head' = IF x = head THEN cell[x].next ELSE head
    BY <1>2, <1>5
  <2>4. cell'[x].next = cell[x].next
    BY <2>1, <2>2, <1>6 DEF CutLinks
  <2> QED
    BY <2>1, <2>2, <2>3, <2>4
<1>13. sole => S \ {x} = {} /\ head' = NULL
  <2> SUFFICES ASSUME sole PROVE S \ {x} = {} /\ head' = NULL
    OBVIOUS
  <2>1. Fwd(cell, head, x) = NULL /\ x = head
    BY <1>2, <1>3 DEF Fwd
  <2>2. \A z \in S : cell[z].id <= cell[x].id
    BY <2>1, <1>0, <1>7 DEF After
  <2>3. \A z \in S : cell[z].id > 0 => cell[x].id <= cell[z].id
    BY <2>1, <1>0, <1>6, <1>7 DEF After
  <2>4. \A z \in S : cell[z].id = cell[x].id
    BY <2>2, <2>3, <1>6, <1>11 DEF Removed
  <2>5. \A z \in S : z = x
    BY <2>4, <1>6, <1>11 DEF Removed
  <2> QED
    BY <2>5, <1>5
<1>14. Ring(cell', head', S \ {x})
  <2>1. CASE sole
    <3>1. Ring(cell', NULL, {})
      BY DEF Ring, After
    <3> QED
      BY <3>1, <2>1, <1>13
  <2> QED
    BY <2>1, <1>12, <1>3
<1>15. Rows(cell', S \ {x}, puts')
  BY <1>5, <1>10, <1>r DEF Rows, SameRows
<1>16. Pool(S \ {x}, free', fresh', emptied') /\ free' \in Seq(Cells)
  <2>1. CASE sole
    <3>1. free' = free /\ fresh' = fresh /\ emptied' = emptied + 1
      BY <2>1, <1>5
    <3>2. Pool(S \ {x}, free, fresh, emptied + 1)
      BY <1>6, <1>r, <1>t, LostPool
    <3> QED
      BY <3>1, <3>2, <1>t
  <2>2. CASE ~sole
    <3>1. free' = Append(free, x) /\ fresh' = fresh /\ emptied' = emptied
      BY <2>2, <1>5
    <3>2. Append(free, x) \in Seq(Cells) /\ Pool(S \ {x}, Append(free, x), fresh, emptied)
      BY <1>6, <1>r, <1>t, FreePool
    <3> QED
      BY <3>1, <3>2
  <2> QED
    BY <2>1, <2>2
<1>17. ASSUME NEW o \in Cursors
       PROVE  Scanning(cell', head', S \ {x}, puts', indexed', scan'[o],
                       cur'[o], nextaccess'[o])
  <2>1. CASE o = c
    <3>1. PICK u : u = IF x = head /\ ~sole THEN NULL ELSE x
      OBVIOUS
    <3>2. /\ scan'[c] = [scan[c] EXCEPT !.here = FALSE] /\ cur'[c] = u
          /\ nextaccess' = nextaccess /\ puts' = puts /\ indexed' = indexed
      BY <3>1, <1>5 DEF Types
    <3>3. \/ u = NULL /\ x = head
          \/ /\ u = x /\ cell'[x].next = cell[x].next /\ cell[x].next # NULL
             /\ S \ {x} # {} => head' = head
      <4>4. cell[x].next # NULL
        BY <1>0, <1>2, <1>7
      <4>1. CASE sole
        BY <4>1, <4>4, <3>1, <1>6, <1>8, <1>9, <1>13
      <4>2. CASE ~sole /\ x = head
        BY <4>2, <3>1
      <4>3. CASE ~sole /\ x # head
        BY <4>3, <4>4, <3>1, <1>5, <1>12
      <4> QED
        BY <4>1, <4>2, <4>3
    <3>4. /\ S \subseteq Cells /\ scan[c] \in ScanRecord /\ scan[c].here
          /\ Scanning(cell, head, S, puts, indexed, scan[c], x, nextaccess[c])
          /\ After(cell, S, 0, head) /\ After(cell, S, cell[x].id, Fwd(cell, head, x))
      BY <1>1, <1>5, <1>7, <1>s
    <3>5. Scanning(cell', head', S \ {x}, puts, indexed, [scan[c] EXCEPT !.here = FALSE],
                   u, nextaccess[c])
      BY ONLY <3>3, <3>4, <1>11, OwnScanning
    <3> QED
      BY <3>2, <3>5, <2>1
  <2>2. CASE o # c
    <3>1. scan'[o] = scan[o] /\ cur'[o] = cur[o] /\ nextaccess' = nextaccess
          /\ puts' = puts /\ indexed' = indexed
      BY <2>2, <1>5 DEF Types
    <3>2. scan[o].on /\ ~scan[o].eof =>
            /\ cur[o] # x
            /\ scan[o].key # All => nextaccess[o] # x
            /\ scan[o].key = All /\ cur[o] \notin S \cup {NULL} =>
                 /\ cell[cur[o]].next # x
                 /\ x = head => cell[cur[o]].next # cell[x].next
      BY <2>2, <1>0, <1>1 DEF MayDelete, Adrift
    <3>5. \A z \in Cells \ S : cell'[z].next = cell[z].next
      <4>1. CASE sole
        BY <4>1, <1>8, <1>9
      <4>2. CASE ~sole
        BY <4>2, <1>7, <1>12 DEF CutLinks
      <4> QED
        BY <4>1, <4>2
    <3>6. S \ {x} # {} => head' = IF x = head THEN cell[x].next ELSE head
      BY <1>2, <1>5, <1>13
    <3>3. /\ scan[o] \in ScanRecord /\ cur[o] \in CellSet
          /\ Scanning(cell, head, S, puts, indexed, scan[o], cur[o], nextaccess[o])
      BY <1>s
    <3>4. Scanning(cell', head', S \ {x}, puts, indexed, scan[o], cur[o], nextaccess[o])
      BY ONLY <3>2, <3>3, <3>5, <3>6, <1>7, <1>11, OtherScanning
    <3> QED
      BY <3>1, <3>4
  <2> QED
    BY <2>1, <2>2
<1>18. Types'
  <2>1. head' \in CellSet
    BY <1>5, <1>7 DEF Types, CellSet
  <2>2. scan' \in [Cursors -> ScanRecord]
    BY <1>5 DEF Types, ScanRecord
  <2>3. cur' \in [Cursors -> CellSet]
    BY <1>5, <1>6 DEF Types, CellSet
  <2>4. emptied' \in Nat
    BY <1>5, <1>t
  <2> QED
    BY <2>1, <2>2, <2>3, <2>4, <1>5, <1>9, <1>16 DEF Types, IsCells
<1>19. IsRelation(S \ {x})'
  BY <1>5, <1>9, <1>14, <1>15, <1>16, <1>17 DEF IsRelation
<1> QED
  BY <1>6, <1>10, <1>18, <1>19

-----------------------------------------------------------------------------
(* The other actions                                                        *)

\* Only the scan of c changes.
LEMMA ScanStep ==
  ASSUME Types, NEW S \in SUBSET Cells, IsRelation(S), NEW c \in Cursors,
         NEW s \in ScanRecord, NEW u \in CellSet, NEW v \in CellSet,
         Scanning(cell, head, S, puts, indexed, s, u, v),
         scan' = [scan EXCEPT ![c] = s], cur' = [cur EXCEPT ![c] = u],
         nextaccess' = [nextaccess EXCEPT ![c] = v],
         UNCHANGED <<indexed, head, cell, free, fresh, hidx, puts, emptied>>
  PROVE  Types' /\ IsRelation(S)'
<1>1. Types'
  BY DEF Types
<1>2. ASSUME NEW o \in Cursors
      PROVE  Scanning(cell, head, S, puts, indexed, scan'[o], cur'[o], nextaccess'[o])
  <2>1. CASE o = c
    <3>1. scan'[o] = s /\ cur'[o] = u /\ nextaccess'[o] = v
      BY <2>1 DEF Types
    <3> QED
      BY <3>1
  <2>2. CASE o # c
    <3>1. scan'[o] = scan[o] /\ cur'[o] = cur[o] /\ nextaccess'[o] = nextaccess[o]
      BY <2>2 DEF Types
    <3>2. Scanning(cell, head, S, puts, indexed, scan[o], cur[o], nextaccess[o])
      BY DEF IsRelation
    <3> QED
      BY <3>1, <3>2
  <2> QED
    BY <2>1, <2>2
<1>3. IsRelation(S)'
  <2>1. \A o \in Cursors : Scanning(cell', head', S, puts', indexed', scan'[o],
                                    cur'[o], nextaccess'[o])
    BY <1>2
  <2>2. /\ Ring(cell', head', S) /\ Rows(cell', S, puts')
        /\ Pool(S, free', fresh', emptied') /\ (indexed' => Chains(cell', S, hidx'))
    BY DEF IsRelation
  <2> QED
    BY <2>1, <2>2 DEF IsRelation
<1> QED
  BY <1>1, <1>3

LEMMA Scans ==
  /\ Closed \in ScanRecord /\ AtEnd \in ScanRecord
  /\ ~Closed.here /\ ~Closed.on /\ Closed.at = 0
  /\ ~AtEnd.here /\ AtEnd.eof /\ AtEnd.key = All /\ AtEnd.at = 0 
  /\ \A k \in Keys \cup {All} :
       LET s == [Closed EXCEPT !.on = TRUE, !.key = k] IN
       s \in ScanRecord /\ ~s.here /\ s.at = 0 /\ s.key = k
<1>1. 0 \in 0..MaxPuts
  BY ImRelAssumption
<1> QED
  BY <1>1 DEF Closed, AtEnd, ScanRecord

LEMMA SameAt ==
  ASSUME Types, NEW c \in Cursors
  PROVE  /\ cur = [cur EXCEPT ![c] = cur[c]] /\ cur[c] \in CellSet
         /\ nextaccess = [nextaccess EXCEPT ![c] = nextaccess[c]]
         /\ nextaccess[c] \in CellSet /\ scan[c] \in ScanRecord
  BY DEF Types

LEMMA OpenStep ==
  ASSUME Types, NEW S \in SUBSET Cells, IsRelation(S), NEW c \in Cursors,
         NEW k \in Keys \cup {All}, Open(c, k)
  PROVE  Types' /\ IsRelation(S)'
<1>1. PICK s : s = [Closed EXCEPT !.on = TRUE, !.key = k]
  OBVIOUS
<1>2. s \in ScanRecord /\ ~s.here /\ s.at = 0 /\ s.key = k
  BY <1>1, Scans
<1>3. PICK u \in CellSet, v \in CellSet : /\ cur = [cur EXCEPT ![c] = u]
                                         /\ nextaccess = [nextaccess EXCEPT ![c] = v]
  BY SameAt
<1>4. /\ k \in Keys => indexed
      /\ scan' = [scan EXCEPT ![c] = s] /\ cur' = [cur EXCEPT ![c] = u]
      /\ nextaccess' = [nextaccess EXCEPT ![c] = v]
      /\ UNCHANGED <<indexed, head, cell, free, fresh, hidx, puts, emptied>>
  BY <1>1, <1>3 DEF Open
<1>5. Scanning(cell, head, S, puts, indexed, s, u, v)
  <2>1. 0 <= puts
    BY TypeFacts
  <2> QED
    BY <2>1, <1>2, <1>4 DEF Scanning
<1> QED
  BY <1>2, <1>4, <1>5, ScanStep

LEMMA CloseStep ==
  ASSUME Types, NEW S \in SUBSET Cells, IsRelation(S), NEW c \in Cursors, Close(c)
  PROVE  Types' /\ IsRelation(S)'
<1>1. /\ scan' = [scan EXCEPT ![c] = Closed] /\ cur' = [cur EXCEPT ![c] = NULL]
      /\ nextaccess' = [nextaccess EXCEPT ![c] = NULL]
      /\ UNCHANGED <<indexed, head, cell, free, fresh, hidx, puts, emptied>>
  BY DEF Close
<1>2. Closed \in ScanRecord /\ NULL \in CellSet
  BY Scans DEF CellSet
<1>3. Scanning(cell, head, S, puts, indexed, Closed, NULL, NULL)
  <2>1. 0 <= puts
    BY TypeFacts
  <2> QED
    BY <2>1, Scans DEF Scanning
<1> QED
  BY <1>1, <1>2, <1>3, ScanStep

\* The row a fetch returns: the next one in the order of the scan.
Fetched(cl, S, s, x) ==
    /\ s.key = All => After(cl, S, s.at, x)
    /\ s.key # All => Before(cl, S, s.key, s.at, x)

LEMMA FetchStep ==
  ASSUME Types, NEW S \in SUBSET Cells, IsRelation(S), NEW c \in Cursors, Fetch(c)
  PROVE  \E x \in S \cup {NULL} :
           /\ Types' /\ IsRelation(S)' /\ SameData(S)
           /\ Fetched(cell, S, scan[c], x)
           /\ scan' = [scan EXCEPT ![c] =
                         IF x = NULL THEN AtEnd
                         ELSE [scan[c] EXCEPT !.at = cell[x].id, !.here = TRUE]]
<1>0. OnList = S /\ NULL \notin S
  BY OnListIs
<1>t. /\ IsCells(cell) /\ puts \in Nat /\ scan[c] \in ScanRecord /\ All \notin Keys
      /\ scan[c].at \in Nat /\ cur[c] \in CellSet /\ nextaccess[c] \in CellSet
  BY TypeFacts, SameAt DEF ScanRecord
<1>r. /\ Ring(cell, head, S) /\ Rows(cell, S, puts) /\ (indexed => Chains(cell, S, hidx))
      /\ Scanning(cell, head, S, puts, indexed, scan[c], cur[c], nextaccess[c])
  BY DEF IsRelation
<1>g. scan[c].on /\ ~scan[c].eof
  BY DEF Fetch
<1>1. PICK x : x = IF head = NULL THEN NULL
                   ELSE IF scan[c].key = All THEN NextCell(c) ELSE NextDup(c)
  OBVIOUS
<1>2. /\ IF head = NULL THEN cur' = cur /\ nextaccess' = nextaccess
         ELSE /\ cur' = [cur EXCEPT ![c] = x]
              /\ nextaccess' = [nextaccess EXCEPT ![c] = Following(c, x)]
      /\ scan' = [scan EXCEPT ![c] =
                    IF x = NULL THEN AtEnd
                    ELSE [scan[c] EXCEPT !.at = cell[x].id, !.here = TRUE]]
      /\ UNCHANGED <<indexed, head, cell, free, fresh, hidx, puts, emptied>>
  BY <1>1 DEF Fetch, Types
<1>3. \A z \in S : cell[z].id \in Nat /\ cell[z].id > 0
  BY <1>r, <1>t DEF Rows
<1>4. After(cell, S, 0, head)
  BY <1>r DEF Ring
<1>5. head = NULL => S = {}
  BY <1>0, <1>3, <1>4 DEF After
<1>6. scan[c].key = All => After(cell, S, scan[c].at, x)
  <2> SUFFICES ASSUME scan[c].key = All PROVE After(cell, S, scan[c].at, x)
    OBVIOUS
  <2>1. CASE head = NULL
    BY <2>1, <1>1, <1>5 DEF After
  <2>2. CASE head # NULL /\ scan[c].at = 0
    BY <2>2, <1>1, <1>4 DEF NextCell
  <2>3. CASE head # NULL /\ scan[c].at # 0
    <3>1. Placed(cell, head, S, scan[c].at, cur[c])
      BY <2>3, <1>g, <1>r DEF Scanning
    <3>2. x = IF cur[c] = NULL THEN head ELSE Fwd(cell, head, cur[c])
      BY <2>3, <1>1 DEF NextCell, Fwd
    <3>3. head \in S
      BY <2>3, <1>4 DEF After
    <3>4. CASE cur[c] = NULL
      <4>1. \A z \in S : cell[z].id > scan[c].at
        BY <3>1, <3>4, <1>0, NullNoCell DEF Placed
      <4>2. \A z \in S : cell[head].id <= cell[z].id
        BY <3>3, <1>0, <1>3, <1>4 DEF After
      <4> QED
        BY <4>1, <4>2, <3>2, <3>3, <3>4 DEF After
    <3>5. CASE cur[c] \in S
      <4>1. cell[cur[c]].id = scan[c].at
        BY <3>1, <3>5, <1>0 DEF Placed
      <4>2. After(cell, S, cell[cur[c]].id, Fwd(cell, head, cur[c]))
        BY <3>5, <1>r DEF Ring
      <4>3. cur[c] # NULL
        BY <3>5, <1>0
      <4> QED
        BY <4>1, <4>2, <4>3, <3>2
    <3>6. CASE cur[c] \notin S /\ cur[c] # NULL
      <4>1. After(cell, S, scan[c].at, Fwd(cell, head, cur[c]))
        BY <3>1, <3>3, <3>6 DEF Placed
      <4> QED
        BY <4>1, <3>2, <3>6
    <3> QED
      BY <3>4, <3>5, <3>6
  <2> QED
    BY <2>1, <2>2, <2>3
<1>7. scan[c].key # All => Before(cell, S, scan[c].key, scan[c].at, x)
  <2> SUFFICES ASSUME scan[c].key # All PROVE Before(cell, S, scan[c].key, scan[c].at, x)
    OBVIOUS
  <2>1. indexed /\ scan[c].key \in Keys
    BY <1>g, <1>r, <1>t DEF Scanning, ScanRecord
  <2>2. CASE head = NULL
    BY <2>2, <1>1, <1>5 DEF Before
  <2>3. CASE head # NULL /\ scan[c].at = 0
    <3>1. x = Find(cell, scan[c].key)
      BY <2>3, <1>1 DEF NextDup
    <3>2. Before(cell, S, scan[c].key, 0, Find(cell, scan[c].key))
      BY <2>1, <1>0, <1>r, FindIs
    <3> QED
      BY <2>3, <3>1, <3>2
  <2>4. CASE head # NULL /\ scan[c].at # 0
    <3>1. x = nextaccess[c]
      BY <2>4, <1>1 DEF NextDup
    <3> QED
      BY <3>1, <2>4, <1>g, <1>r DEF Scanning
  <2> QED
    BY <2>2, <2>3, <2>4
<1>8. x \in S \cup {NULL}
  BY <1>6, <1>7 DEF After, Before, Older
<1>9. x # NULL => head # NULL
  BY <1>1
<1>10. Types' /\ IsRelation(S)'
  <2>1. CASE x = NULL
    <3>1. PICK u \in CellSet, v \in CellSet :
             cur' = [cur EXCEPT ![c] = u] /\ nextaccess' = [nextaccess EXCEPT ![c] = v]
      <4>1. CASE head = NULL
        BY <4>1, <1>2, SameAt
      <4>2. CASE head # NULL
        <5>1. Following(c, x) = NULL /\ NULL \in CellSet
          BY <2>1 DEF Following, CellSet
        <5> QED
          BY <5>1, <4>2, <2>1, <1>2
      <4> QED
        BY <4>1, <4>2
    <3>2. scan' = [scan EXCEPT ![c] = AtEnd] /\ AtEnd \in ScanRecord
      BY <2>1, <1>2, Scans
    <3>3. Scanning(cell, head, S, puts, indexed, AtEnd, u, v)
      <4>1. 0 <= puts
        BY <1>t
      <4> QED
        BY <4>1, Scans DEF Scanning
    <3>4. UNCHANGED <<indexed, head, cell, free, fresh, hidx, puts, emptied>>
      BY <1>2
    <3> QED
      BY <3>1, <3>2, <3>3, <3>4, ScanStep
  <2>2. CASE x # NULL
    <3>1. PICK s : s = [scan[c] EXCEPT !.at = cell[x].id, !.here = TRUE]
      OBVIOUS
    <3>2. PICK v : v = Following(c, x)
      OBVIOUS
    <3>3. x \in S /\ x \in Cells /\ x \in CellSet
      BY <2>2, <1>8 DEF CellSet
    <3>4. cell[x].id \in 0..MaxPuts /\ cell[x].next \in CellSet /\ cell[x].hchain \in CellSet
          /\ cell[x].id <= puts
      <4>1. cell[x].id \in 1..puts
        BY <3>3, <1>r DEF Rows
      <4> QED
        BY <4>1, <3>3, <1>t, CellFields
    <3>5. s \in ScanRecord /\ s.at = cell[x].id /\ s.here /\ s.on /\ ~s.eof
          /\ s.key = scan[c].key
      BY <3>1, <3>4, <1>g, <1>t DEF ScanRecord
    <3>6. v \in CellSet
      BY <3>2, <3>4, <2>2 DEF Following, CellSet
    <3>7. s.key # All => Before(cell, S, s.key, s.at, v)
      <4> SUFFICES ASSUME s.key # All PROVE Before(cell, S, s.key, s.at, v)
        OBVIOUS
      <4>1. indexed
        BY <3>5, <1>g, <1>r DEF Scanning
      <4>2. v = cell[x].hchain
        BY <3>2, <3>5, <2>2 DEF Following
      <4>3. cell[x].key = s.key
        BY <3>5, <2>2, <1>7 DEF Before, Older
      <4> QED
        BY <4>1, <4>2, <4>3, <3>3, <3>5, <1>r DEF Chains
    <3>8. Scanning(cell, head, S, puts, indexed, s, x, v)
      <4>1. Placed(cell, head, S, s.at, x)
        BY <3>3, <3>5 DEF Placed
      <4>2. s.on /\ s.key # All => indexed
        BY <3>5, <1>g, <1>r DEF Scanning
      <4> QED
        BY <4>1, <4>2, <3>3, <3>4, <3>5, <3>7 DEF Scanning
    <3>9. /\ scan' = [scan EXCEPT ![c] = s] /\ cur' = [cur EXCEPT ![c] = x]
          /\ nextaccess' = [nextaccess EXCEPT ![c] = v]
          /\ UNCHANGED <<indexed, head, cell, free, fresh, hidx, puts, emptied>>
      BY <3>1, <3>2, <2>2, <1>2, <1>9
    <3> QED
      BY <3>3, <3>5, <3>6, <3>8, <3>9, ScanStep
  <2> QED
    BY <2>1, <2>2
<1>11. SameData(S)
  BY <1>2 DEF SameData
<1> QED
  BY <1>2, <1>6, <1>7, <1>8, <1>10, <1>11 DEF Fetched

\* cl2 differs from cl in the data only.
SameLinks(cl, cl2) ==
    \A z \in Cells : /\ cl2[z].next = cl[z].next /\ cl2[z].prev = cl[z].prev
                     /\ cl2[z].hchain = cl[z].hchain
                     /\ cl2[z].key = cl[z].key /\ cl2[z].id = cl[z].id

LEMMA SameOrder ==
  ASSUME NEW cl, NEW cl2, NEW S, S \subseteq Cells, SameLinks(cl, cl2)
  PROVE  /\ \A a, y : After(cl, S, a, y) => After(cl2, S, a, y)
         /\ \A k, a, y : Before(cl, S, k, a, y) => Before(cl2, S, k, a, y)
<1>1. \A z \in S : cl2[z].key = cl[z].key /\ cl2[z].id = cl[z].id
  BY DEF SameLinks
<1>2. \A a, y : After(cl, S, a, y) => After(cl2, S, a, y)
  BY <1>1 DEF After
<1>3. \A k, a, y : Older(cl2, S, k, a, y) <=> Older(cl, S, k, a, y)
  BY <1>1 DEF Older
<1>4. ASSUME NEW k, NEW a, NEW y, Before(cl, S, k, a, y) PROVE Before(cl2, S, k, a, y)
  <2>1. CASE y = NULL /\ \A x \in S : ~Older(cl, S, k, a, x)
    BY <2>1, <1>3 DEF Before
  <2>2. CASE /\ Older(cl, S, k, a, y)
             /\ \A x \in S : Older(cl, S, k, a, x) => cl[x].id <= cl[y].id
    <3>1. y \in S
      BY <2>2 DEF Older
    <3> QED
      BY <2>2, <3>1, <1>1, <1>3 DEF Before
  <2> QED
    BY <1>4, <2>1, <2>2 DEF Before
<1> QED
  BY <1>2, <1>4

LEMMA UpdateStep ==
  ASSUME Types, NEW S \in SUBSET Cells, IsRelation(S), NEW c \in Cursors, Update(c)
  PROVE  /\ Types' /\ IsRelation(S)' /\ cur[c] \in S /\ cell[cur[c]].id = scan[c].at
         /\ \A z \in Cells : /\ cell'[z].id = cell[z].id /\ cell'[z].key = cell[z].key
                             /\ cell'[z].d = IF z = cur[c] THEN cell[z].d + 1 ELSE cell[z].d
<1>t. /\ IsCells(cell) /\ MaxUpdates \in Nat
  BY TypeFacts
<1>r. /\ Ring(cell, head, S) /\ Rows(cell, S, puts)
      /\ Pool(S, free, fresh, emptied) /\ (indexed => Chains(cell, S, hidx))
  BY DEF IsRelation
<1>s. \A o \in Cursors : /\ Scanning(cell, head, S, puts, indexed, scan[o], cur[o], nextaccess[o])
                         /\ scan[o] \in ScanRecord /\ cur[o] \in CellSet
  BY DEF IsRelation, Types
<1>1. PICK x : x = cur[c]
  OBVIOUS
<1>2. /\ scan[c].here /\ cell[x].d < MaxUpdates
      /\ cell' = [cell EXCEPT ![x].d = @ + 1]
      /\ UNCHANGED <<indexed, head, free, fresh, hidx, cur, nextaccess, scan, puts, emptied>>
  BY <1>1 DEF Update
<1>3. x \in S /\ x \in Cells /\ cell[x].id = scan[c].at
  BY <1>1, <1>2, <1>s DEF Scanning
<1>4. cell \in [Cells -> CellRecord] /\ cell[x].d + 1 \in 0..MaxUpdates
  <2>1. cell[x].d \in Nat
    BY <1>3, <1>t, CellFields
  <2> QED
    BY <2>1, <1>2, <1>t DEF IsCells
<1>5. /\ cell' \in [Cells -> CellRecord]
      /\ \A z \in Cells : cell'[z] = IF z = x THEN [cell[z] EXCEPT !.d = cell[x].d + 1]
                                     ELSE cell[z]
  BY <1>2, <1>3, <1>4 DEF CellRecord
<1>6. ASSUME NEW z \in Cells
      PROVE  /\ cell'[z].next = cell[z].next /\ cell'[z].prev = cell[z].prev
             /\ cell'[z].hchain = cell[z].hchain
             /\ cell'[z].key = cell[z].key /\ cell'[z].id = cell[z].id
             /\ cell'[z].d = IF z = x THEN cell[z].d + 1 ELSE cell[z].d
  <2>1. cell[z] \in CellRecord
    BY <1>4
  <2> QED
    BY <2>1, <1>5 DEF CellRecord
<1>7. SameLinks(cell, cell') /\ S \subseteq Cells
  BY <1>6 DEF SameLinks
<1>8. /\ \A a, y : After(cell, S, a, y) => After(cell', S, a, y)
      /\ \A k, a, y : Before(cell, S, k, a, y) => Before(cell', S, k, a, y)
  BY <1>7, SameOrder
<1>9. \A z \in S : /\ cell'[z].next = cell[z].next /\ cell'[z].prev = cell[z].prev
                   /\ cell'[z].hchain = cell[z].hchain
                   /\ cell'[z].key = cell[z].key /\ cell'[z].id = cell[z].id
                   /\ Fwd(cell', head, z) = Fwd(cell, head, z)
  BY <1>6 DEF Fwd
<1>10. Ring(cell', head, S)
  <2>1. /\ S \subseteq Cells
        /\ \A y, z \in S : cell[y].id = cell[z].id => y = z
        /\ After(cell, S, 0, head)
        /\ \A z \in S :
             /\ cell[z].next \in S /\ cell[cell[z].next].prev = z
             /\ cell[z].prev \in S /\ cell[cell[z].prev].next = z
             /\ After(cell, S, cell[z].id, Fwd(cell, head, z))
    BY <1>r DEF Ring
  <2>2. \A z \in S :
             /\ cell'[z].next \in S /\ cell'[cell'[z].next].prev = z
             /\ cell'[z].prev \in S /\ cell'[cell'[z].prev].next = z
    BY <2>1, <1>9
  <2>3. \A z \in S : After(cell', S, cell'[z].id, Fwd(cell', head, z))
    BY <2>1, <1>8, <1>9
  <2>4. \A y, z \in S : cell'[y].id = cell'[z].id => y = z
    BY <2>1, <1>9
  <2>5. After(cell', S, 0, head)
    BY <2>1, <1>8
  <2> QED
    BY <2>1, <2>2, <2>3, <2>4, <2>5 DEF Ring
<1>11. Rows(cell', S, puts)
  BY <1>9, <1>r DEF Rows
<1>12. indexed => Chains(cell', S, hidx)
  BY <1>8, <1>9, <1>r DEF Chains
<1>13. ASSUME NEW o \in Cursors
       PROVE  Scanning(cell', head, S, puts, indexed, scan[o], cur[o], nextaccess[o])
  <2> DEFINE s == scan[o]
             u == cur[o]
  <2>1. Scanning(cell, head, S, puts, indexed, s, u, nextaccess[o]) /\ u \in CellSet
    BY <1>s
  <2> HIDE DEF s, u
  <2>2. s.here => s.on /\ ~s.eof /\ u \in S /\ cell'[u].id = s.at
    BY <2>1, <1>9 DEF Scanning
  <2>3. Placed(cell, head, S, s.at, u) => Placed(cell', head, S, s.at, u)
    <3>1. u \in Cells => /\ Fwd(cell', head, u) = Fwd(cell, head, u)
                        /\ cell'[u].next = cell[u].next
      BY <1>6 DEF Fwd
    <3>2. CASE u = NULL /\ \A z \in S : cell[z].id > s.at
      BY <3>2, <1>9 DEF Placed
    <3>3. CASE u \in S /\ cell[u].id = s.at
      BY <3>3, <1>9 DEF Placed
    <3>4. CASE /\ u \in Cells \ S /\ cell[u].next # NULL
               /\ S # {} => After(cell, S, s.at, Fwd(cell, head, u))
      <4>1. S # {} => After(cell', S, s.at, Fwd(cell', head, u))
        BY <3>1, <3>4, <1>8
      <4> QED
        BY <3>1, <3>4, <4>1 DEF Placed
    <3> QED
      BY <3>2, <3>3, <3>4 DEF Placed
  <2>4. Scanning(cell', head, S, puts, indexed, s, u, nextaccess[o])
    BY <2>1, <2>2, <2>3, <1>8 DEF Scanning
  <2> QED
    BY <2>4 DEF s, u
<1>14. Types'
  BY <1>2, <1>5 DEF Types
<1>15. IsRelation(S)'
  <2>1. \A o \in Cursors : Scanning(cell', head', S, puts', indexed', scan'[o],
                                    cur'[o], nextaccess'[o])
    BY <1>2, <1>13
  <2>2. /\ Ring(cell', head', S) /\ Rows(cell', S, puts')
        /\ Pool(S, free', fresh', emptied') /\ (indexed' => Chains(cell', S, hidx'))
    BY <1>2, <1>10, <1>11, <1>12, <1>r
  <2> QED
    BY <2>1, <2>2 DEF IsRelation
<1> QED
  BY <1>1, <1>3, <1>6, <1>14, <1>15

-----------------------------------------------------------------------------
(* The theorems                                                             *)

LEMMA StutterStep ==
  ASSUME Types, NEW S \in SUBSET Cells, IsRelation(S), UNCHANGED vars
  PROVE  Types' /\ IsRelation(S)'
<1>1. /\ indexed' = indexed /\ head' = head /\ cell' = cell /\ free' = free
      /\ fresh' = fresh /\ hidx' = hidx /\ cur' = cur /\ nextaccess' = nextaccess
      /\ scan' = scan /\ puts' = puts /\ emptied' = emptied
  BY DEF vars
<1> QED
  BY <1>1 DEF Types, IsRelation

\* Every step keeps the inductive invariant.
LEMMA RelationStep == RelationInv /\ [Next]_vars => RelationInv'
<1> SUFFICES ASSUME Types, NEW S \in SUBSET Cells, IsRelation(S), [Next]_vars
             PROVE  Types' /\ \E R \in SUBSET Cells : IsRelation(R)'
  BY DEF RelationInv
<1>1. CASE UNCHANGED vars
  BY <1>1, StutterStep
<1>2. ASSUME NEW k \in Keys, Put(k), MayPut
      PROVE  Types' /\ \E R \in SUBSET Cells : IsRelation(R)'
  <2>1. PICK x \in Cells \ S : Types' /\ IsRelation(S \cup {x})'
    BY <1>2, PutStep
  <2>2. S \cup {x} \in SUBSET Cells
    OBVIOUS
  <2> QED
    BY <2>1, <2>2
<1>3. ASSUME NEW c \in Cursors, NEW k \in Keys \cup {All}, Open(c, k)
      PROVE  Types' /\ \E R \in SUBSET Cells : IsRelation(R)'
  BY <1>3, OpenStep
<1>4. ASSUME NEW c \in Cursors, Close(c)
      PROVE  Types' /\ \E R \in SUBSET Cells : IsRelation(R)'
  BY <1>4, CloseStep
<1>5. ASSUME NEW c \in Cursors, Fetch(c)
      PROVE  Types' /\ \E R \in SUBSET Cells : IsRelation(R)'
  BY <1>5, FetchStep
<1>6. ASSUME NEW c \in Cursors, Update(c)
      PROVE  Types' /\ \E R \in SUBSET Cells : IsRelation(R)'
  BY <1>6, UpdateStep
<1>7. ASSUME NEW c \in Cursors, Delete(c), MayDelete(c)
      PROVE  Types' /\ \E R \in SUBSET Cells : IsRelation(R)'
  <2>1. PICK x \in S : Types' /\ IsRelation(S \ {x})'
    BY <1>7, DeleteStep
  <2>2. S \ {x} \in SUBSET Cells
    OBVIOUS
  <2> QED
    BY <2>1, <2>2
<1> QED
  BY <1>1, <1>2, <1>3, <1>4, <1>5, <1>6, <1>7 DEF Next

LEMMA RelationAlways == Spec => []RelationInv
  BY RelationInit, RelationStep, PTL DEF Spec

\* The variables have their types, and a statement that has a row still has its
\* cursor on the list when rows around it were deleted and put; that nobody else
\* deletes the row itself is assumed (MayDelete; c_put and c_del, im_cursor.c).
THEOREM RelationTypes == Spec => []TypeOK
  BY RelationAlways, ImpliesTypeOK, PTL

\* No cell of the pool is given out twice or freed twice, and none but those of
\* only rows is lost (buffer.c, im_cursor.c); prev stays next backwards.
THEOREM PoolCorrect == Spec => []PoolExact
  BY RelationAlways, ImpliesPool, PTL

\* The chain of a key has the rows with that key, newest first, and its slot
\* never points into a freed cell (hash-arbitrary.c, hash_replace).
THEOREM ChainsCorrect == Spec => []ChainExact
  BY RelationAlways, ImpliesChains, PTL

-----------------------------------------------------------------------------
(* Refinement: a relation is a table                                        *)

\* The rows of the cells S as the table has them.
TableOf(cl, S) == {[id |-> cl[x].id, key |-> cl[x].key, d |-> cl[x].d] : x \in S}

LEMMA TableIs ==
  ASSUME Types, NEW S, IsRelation(S)
  PROVE  {RowAt(x) : x \in OnList} = TableOf(cell, S)
  BY OnListIs DEF RowAt, TableOf

LEMMA TableIsPrime ==
  ASSUME Types', NEW S, IsRelation(S)'
  PROVE  {RowAt(x) : x \in OnList}' = TableOf(cell', S)
<1>1. IsCells(cell') /\ puts' \in Nat
  BY ImRelAssumption DEF Types, IsCells
<1>2. Listed(cell', head') = S
  BY <1>1, ListIs DEF IsRelation
<1>3. OnList' = S
  BY <1>2 DEF Listed, OnList, List
<1> QED
  BY <1>3 DEF RowAt, TableOf

LEMMA SameTable ==
  ASSUME NEW S, SameData(S) PROVE TableOf(cell', S) = TableOf(cell, S)
  BY DEF SameData, TableOf

LEMMA TableInit == Init => T!TInit
<1> SUFFICES ASSUME Init PROVE T!TInit
  OBVIOUS
<1>1. OnList = {}
  BY DEF Init, OnList, List, Range
<1>2. T!Closed = Closed
  BY DEF T!Closed, Closed
<1> QED
  BY <1>1, <1>2 DEF Init, T!TInit

\* The least and the greatest element of a set of numbers.
LEMMA Extremes ==
  ASSUME NEW A, A \subseteq Nat, NEW m \in A
  PROVE  /\ (\A y \in A : m <= y) => T!Min(A) = m
         /\ (\A y \in A : y <= m) => T!Max(A) = m
<1>1. ASSUME \A y \in A : m <= y PROVE T!Min(A) = m
  <2> DEFINE w == CHOOSE y \in A : \A z \in A : y <= z
  <2>1. w \in A /\ \A z \in A : w <= z
    BY <1>1
  <2>2. T!Min(A) = w
    BY DEF T!Min
  <2> HIDE DEF w
  <2>3. w <= m /\ m <= w /\ w \in Nat /\ m \in Nat
    BY <2>1, <1>1
  <2> QED
    BY <2>2, <2>3
<1>2. ASSUME \A y \in A : y <= m PROVE T!Max(A) = m
  <2> DEFINE w == CHOOSE y \in A : \A z \in A : y >= z
  <2>0. \A z \in A : m >= z
    BY <1>2
  <2>1. w \in A /\ \A z \in A : w >= z
    BY <2>0
  <2>2. T!Max(A) = w
    BY DEF T!Max
  <2> HIDE DEF w
  <2>3. w >= m /\ w <= m /\ w \in Nat /\ m \in Nat
    BY <2>1, <1>2
  <2> QED
    BY <2>2, <2>3
<1> QED
  BY <1>1, <1>2

\* The rows of S that the scan s has still to meet.
Waiting(cl, S, s) ==
    {x \in S : IF s.key = All THEN cl[x].id > s.at
               ELSE cl[x].key = s.key /\ (s.at = 0 \/ cl[x].id < s.at)}

\* What a fetch finds is what the table promises next.
LEMMA FetchIds ==
  ASSUME NEW cl, NEW S, NULL \notin S, \A z \in S : cl[z].id \in Nat,
         NEW s, s.at \in Nat, NEW x, Fetched(cl, S, s, x)
  PROVE  LET ids == {cl[z].id : z \in Waiting(cl, S, s)} IN
         /\ x = NULL <=> Waiting(cl, S, s) = {}
         /\ x # NULL => /\ s.key = All => T!Min(ids) = cl[x].id
                        /\ s.key # All => T!Max(ids) = cl[x].id
<1> DEFINE Q == Waiting(cl, S, s)
           ids == {cl[z].id : z \in Q}
<1>1. CASE s.key = All
  <2>1. \A z : z \in Q <=> z \in S /\ cl[z].id > s.at
    BY <1>1 DEF Waiting
  <2>2. After(cl, S, s.at, x)
    BY <1>1 DEF Fetched
  <2> HIDE DEF Q
  <2>3. CASE x = NULL
    <3>1. Q = {}
      BY <2>1, <2>2, <2>3 DEF After
    <3> QED
      BY <3>1, <2>3 DEF Q
  <2>4. CASE x # NULL
    <3>1. x \in Q /\ \A z \in Q : cl[x].id <= cl[z].id
      BY <2>1, <2>2, <2>4 DEF After
    <3>2. ids \subseteq Nat /\ cl[x].id \in ids /\ \A y \in ids : cl[x].id <= y
      BY <3>1, <2>1
    <3>3. T!Min(ids) = cl[x].id
      <4> HIDE DEF ids
      <4> QED
        BY <3>2, Extremes
    <3> QED
      BY <3>1, <3>3, <2>4, <1>1 DEF Q
  <2> QED
    BY <2>3, <2>4
<1>2. CASE s.key # All
  <2>1. \A z : z \in Q <=> Older(cl, S, s.key, s.at, z)
    BY <1>2 DEF Waiting, Older
  <2>2. Before(cl, S, s.key, s.at, x)
    BY <1>2 DEF Fetched
  <2>q. Q \subseteq S
    BY DEF Waiting
  <2> HIDE DEF Q
  <2>3. CASE x = NULL
    <3>1. Q = {}
      BY <2>1, <2>q, <2>2, <2>3 DEF Before, Older
    <3> QED
      BY <3>1, <2>3 DEF Q
  <2>4. CASE x # NULL
    <3>1. x \in Q /\ \A z \in Q : cl[z].id <= cl[x].id
      BY <2>1, <2>q, <2>2, <2>4 DEF Before
    <3>2. ids \subseteq Nat /\ cl[x].id \in ids /\ \A y \in ids : y <= cl[x].id
      BY <3>1, <2>q
    <3>3. T!Max(ids) = cl[x].id
      <4> HIDE DEF ids
      <4> QED
        BY <3>2, Extremes
    <3> QED
      BY <3>1, <3>3, <2>4, <1>2 DEF Q
  <2> QED
    BY <2>3, <2>4
<1> QED
  BY <1>1, <1>2

LEMMA TablePut ==
  ASSUME Types, NEW S \in SUBSET Cells, IsRelation(S), NEW k \in Keys, Put(k), MayPut
  PROVE  T!Put(k)
<1>1. PICK x \in Cells \ S :
           /\ Types' /\ IsRelation(S \cup {x})' /\ SameData(S)
           /\ cell'[x].id = puts + 1 /\ cell'[x].key = k /\ cell'[x].d = 0
  BY PutStep
<1>2. {RowAt(z) : z \in OnList} = TableOf(cell, S)
  BY TableIs
<1>3. {RowAt(z) : z \in OnList}' = TableOf(cell', S \cup {x})
  BY <1>1, TableIsPrime
<1>4. TableOf(cell', S \cup {x}) =
        TableOf(cell', S) \cup {[id |-> puts + 1, key |-> k, d |-> 0]}
  BY <1>1 DEF TableOf
<1>5. TableOf(cell', S) = TableOf(cell, S)
  BY <1>1, SameTable
<1>6. puts' = puts + 1 /\ scan' = scan
  BY DEF Put
<1> QED
  BY <1>2, <1>3, <1>4, <1>5, <1>6 DEF T!Put

\* A step that leaves the rows alone.
LEMMA TableSame ==
  ASSUME Types, NEW S, IsRelation(S), Types', IsRelation(S)', SameData(S)
  PROVE  {RowAt(z) : z \in OnList}' = {RowAt(z) : z \in OnList}
  BY TableIs, TableIsPrime, SameTable

LEMMA TableIds ==
  ASSUME NEW cl, NEW Q
  PROVE  {r.id : r \in TableOf(cl, Q)} = {cl[z].id : z \in Q}
<1>1. \A z \in Q : cl[z].id \in {r.id : r \in TableOf(cl, Q)}
  <2> SUFFICES ASSUME NEW z \in Q PROVE \E r \in TableOf(cl, Q) : cl[z].id = r.id
    OBVIOUS
  <2>1. [id |-> cl[z].id, key |-> cl[z].key, d |-> cl[z].d] \in TableOf(cl, Q)
    BY DEF TableOf
  <2> QED
    BY <2>1
<1>2. \A r \in TableOf(cl, Q) : \E z \in Q : r.id = cl[z].id
  BY DEF TableOf
<1> QED
  BY <1>1, <1>2

LEMMA TableFetch ==
  ASSUME Types, NEW S \in SUBSET Cells, IsRelation(S), NEW c \in Cursors, Fetch(c)
  PROVE  T!Fetch(c)
<1>1. PICK x \in S \cup {NULL} :
           /\ Types' /\ IsRelation(S)' /\ SameData(S)
           /\ Fetched(cell, S, scan[c], x)
           /\ scan' = [scan EXCEPT ![c] =
                         IF x = NULL THEN AtEnd
                         ELSE [scan[c] EXCEPT !.at = cell[x].id, !.here = TRUE]]
  BY FetchStep
<1>2. {RowAt(z) : z \in OnList}' = {RowAt(z) : z \in OnList}
  BY <1>1, TableSame
<1>3. {RowAt(z) : z \in OnList} = TableOf(cell, S)
  BY TableIs
<1>4. /\ NULL \notin S /\ \A z \in S : cell[z].id \in Nat
      /\ scan[c] \in ScanRecord /\ scan[c].at \in Nat
  <2>1. NULL \notin S /\ scan[c] \in ScanRecord /\ MaxPuts \in Nat
    BY OnListIs, SameAt, TypeFacts
  <2>2. \A z \in S : cell[z].id \in Nat
    BY TypeFacts, CellFields
  <2> QED
    BY <2>1, <2>2 DEF ScanRecord
<1> DEFINE Q == Waiting(cell, S, scan[c])
           ids == {cell[z].id : z \in Q}
<1>5. /\ x = NULL <=> Q = {}
      /\ x # NULL => /\ scan[c].key = All => T!Min(ids) = cell[x].id
                     /\ scan[c].key # All => T!Max(ids) = cell[x].id
  BY <1>1, <1>4, FetchIds
<1>6. T!Ahead(c) = TableOf(cell, Q)
  <2>1. CASE scan[c].key = All
    <3>1. T!Ahead(c) = {r \in TableOf(cell, S) : r.id > scan[c].at}
      BY <2>1, <1>3 DEF T!Ahead
    <3>2. Q = {z \in S : cell[z].id > scan[c].at}
      BY <2>1 DEF Waiting
    <3> HIDE DEF Q
    <3> QED
      BY <3>1, <3>2 DEF TableOf
  <2>2. CASE scan[c].key # All
    <3>1. T!Ahead(c) = {r \in TableOf(cell, S) :
                          r.key = scan[c].key /\ (scan[c].at = 0 \/ r.id < scan[c].at)}
      BY <2>2, <1>3 DEF T!Ahead
    <3>2. Q = {z \in S : cell[z].key = scan[c].key
                         /\ (scan[c].at = 0 \/ cell[z].id < scan[c].at)}
      BY <2>2 DEF Waiting
    <3> HIDE DEF Q
    <3> QED
      BY <3>1, <3>2 DEF TableOf
  <2> QED
    BY <2>1, <2>2
<1> HIDE DEF Q
<1>7. {r.id : r \in T!Ahead(c)} = ids
  <2>1. {r.id : r \in TableOf(cell, Q)} = ids
    BY ONLY TableIds
  <2> QED
    BY ONLY <2>1, <1>6
<1>8. T!Ahead(c) = {} <=> Q = {}
  BY <1>6 DEF TableOf
<1>9. x # NULL => T!NextId(c) = cell[x].id
  <2> HIDE DEF ids
  <2> QED
    BY <1>5, <1>7 DEF T!NextId
<1>10. T!AtEnd = AtEnd
  BY DEF T!AtEnd, T!Closed, AtEnd, Closed
<1>11. puts' = puts /\ scan[c].on /\ ~scan[c].eof
  BY DEF Fetch
<1>12. CASE x = NULL
  <2>1. T!Ahead(c) = {} /\ scan' = [scan EXCEPT ![c] = T!AtEnd]
    BY <1>1, <1>5, <1>8, <1>10, <1>12
  <2> QED
    BY <2>1, <1>2, <1>11 DEF T!Fetch
<1>13. CASE x # NULL
  <2>1. T!Ahead(c) # {}
    BY <1>5, <1>8, <1>13
  <2>2. scan' = [scan EXCEPT ![c].at = T!NextId(c), ![c].here = TRUE]
    <3>1. scan' = [scan EXCEPT ![c] =
                     [scan[c] EXCEPT !.at = T!NextId(c), !.here = TRUE]]
      BY <1>1, <1>9, <1>13
    <3>2. scan \in [Cursors -> ScanRecord]
      BY DEF Types
    <3>3. PICK i : i = T!NextId(c)
      OBVIOUS
    <3>4. [scan EXCEPT ![c].at = i, ![c].here = TRUE] =
             [scan EXCEPT ![c] = [scan[c] EXCEPT !.at = i, !.here = TRUE]]
      BY <3>2
    <3> QED
      BY <3>1, <3>3, <3>4
  <2> QED
    BY <2>1, <2>2, <1>2, <1>11 DEF T!Fetch
<1> QED
  BY <1>12, <1>13

LEMMA TableUpdate ==
  ASSUME Types, NEW S \in SUBSET Cells, IsRelation(S), NEW c \in Cursors, Update(c)
  PROVE  T!Update(c)
<1>1. /\ Types' /\ IsRelation(S)' /\ cur[c] \in S /\ cell[cur[c]].id = scan[c].at
      /\ \A z \in Cells : /\ cell'[z].id = cell[z].id /\ cell'[z].key = cell[z].key
                          /\ cell'[z].d = IF z = cur[c] THEN cell[z].d + 1 ELSE cell[z].d
  BY UpdateStep
<1>2. {RowAt(z) : z \in OnList} = TableOf(cell, S)
  BY TableIs
<1>3. {RowAt(z) : z \in OnList}' = TableOf(cell', S)
  BY <1>1, TableIsPrime
<1> DEFINE Old(z) == [id |-> cell[z].id, key |-> cell[z].key, d |-> cell[z].d]
           New(z) == [id |-> cell'[z].id, key |-> cell'[z].key, d |-> cell'[z].d]
           Chg(r) == IF r.id = scan[c].at THEN [r EXCEPT !.d = @ + 1] ELSE r
<1>4. ASSUME NEW z \in S PROVE New(z) = Chg(Old(z))
  <2>1. z \in Cells /\ (cell[z].id = scan[c].at <=> z = cur[c])
    BY <1>1 DEF IsRelation, Ring
  <2>2. CASE z = cur[c]
    BY <2>1, <2>2, <1>1
  <2>3. CASE z # cur[c]
    BY <2>1, <2>3, <1>1
  <2> QED
    BY <2>2, <2>3
<1>5. TableOf(cell, S) = {Old(z) : z \in S} /\ TableOf(cell', S) = {New(z) : z \in S}
  BY DEF TableOf
<1> HIDE DEF Old, New
<1>6. TableOf(cell', S) = {Chg(r) : r \in TableOf(cell, S)}
  <2> HIDE DEF Chg
  <2> QED
    BY <1>4, <1>5
<1>7. puts' = puts /\ scan' = scan /\ scan[c].on /\ scan[c].here
  BY DEF Update
<1> QED
  BY <1>2, <1>3, <1>6, <1>7 DEF T!Update

LEMMA TableDelete ==
  ASSUME Types, NEW S \in SUBSET Cells, IsRelation(S), NEW c \in Cursors,
         Delete(c), MayDelete(c)
  PROVE  T!Delete(c)
<1>1. PICK x \in S : /\ Types' /\ IsRelation(S \ {x})' /\ SameData(S)
                     /\ cell[x].id = scan[c].at
  BY DeleteStep
<1>2. {RowAt(z) : z \in OnList} = TableOf(cell, S)
  BY TableIs
<1>3. {RowAt(z) : z \in OnList}' = TableOf(cell', S \ {x})
  BY <1>1, TableIsPrime
<1>4. TableOf(cell', S \ {x}) = TableOf(cell, S \ {x})
  <2>1. SameData(S \ {x})
    BY <1>1 DEF SameData
  <2> QED
    BY <2>1, SameTable
<1>5. TableOf(cell, S \ {x}) = {r \in TableOf(cell, S) : r.id # scan[c].at}
  <2>1. \A z \in S : cell[z].id # scan[c].at <=> z # x
    BY <1>1 DEF IsRelation, Ring
  <2> QED
    BY <2>1 DEF TableOf
<1>6. puts' = puts /\ scan' = [scan EXCEPT ![c].here = FALSE] /\ scan[c].on /\ scan[c].here
  BY DEF Delete
<1> QED
  BY <1>2, <1>3, <1>4, <1>5, <1>6 DEF T!Delete

\* Every step of the relation is a step of the table.
LEMMA TableStep == RelationInv /\ [Next]_vars => [T!TNext]_(T!tvars)
<1> SUFFICES ASSUME Types, NEW S \in SUBSET Cells, IsRelation(S), [Next]_vars
             PROVE  [T!TNext]_(T!tvars)
  BY DEF RelationInv
<1>1. CASE UNCHANGED vars
  <2>1. Types' /\ IsRelation(S)'
    BY <1>1, StutterStep
  <2>2. SameData(S) /\ puts' = puts /\ scan' = scan
    BY <1>1 DEF vars, SameData
  <2>3. {RowAt(z) : z \in OnList}' = {RowAt(z) : z \in OnList}
    BY <2>1, <2>2, TableSame
  <2> QED
    BY <2>2, <2>3 DEF T!tvars
<1>2. ASSUME NEW k \in Keys, Put(k), MayPut PROVE T!TNext
  BY <1>2, TablePut DEF T!TNext
<1>3. ASSUME NEW c \in Cursors, NEW k \in Keys \cup {All}, Open(c, k) PROVE T!TNext
  <2>1. Types' /\ IsRelation(S)'
    BY <1>3, OpenStep
  <2>2. SameData(S) /\ puts' = puts
    BY <1>3 DEF Open, SameData
  <2>3. {RowAt(z) : z \in OnList}' = {RowAt(z) : z \in OnList}
    BY <2>1, <2>2, TableSame
  <2>4. T!Open(c, k)
    BY <1>3, <2>2, <2>3 DEF Open, T!Open, Closed, T!Closed
  <2> QED
    BY <2>4 DEF T!TNext
<1>4. ASSUME NEW c \in Cursors, Close(c) PROVE T!TNext
  <2>1. Types' /\ IsRelation(S)'
    BY <1>4, CloseStep
  <2>2. SameData(S) /\ puts' = puts
    BY <1>4 DEF Close, SameData
  <2>3. {RowAt(z) : z \in OnList}' = {RowAt(z) : z \in OnList}
    BY <2>1, <2>2, TableSame
  <2>4. T!Close(c)
    BY <1>4, <2>2, <2>3 DEF Close, T!Close, Closed, T!Closed
  <2> QED
    BY <2>4 DEF T!TNext
<1>5. ASSUME NEW c \in Cursors, Fetch(c) PROVE T!TNext
  BY <1>5, TableFetch DEF T!TNext
<1>6. ASSUME NEW c \in Cursors, Update(c) PROVE T!TNext
  BY <1>6, TableUpdate DEF T!TNext
<1>7. ASSUME NEW c \in Cursors, Delete(c), MayDelete(c) PROVE T!TNext
  BY <1>7, TableDelete DEF T!TNext
<1> QED
  BY <1>1, <1>2, <1>3, <1>4, <1>5, <1>6, <1>7 DEF Next

\* im_rel and im_cursor implement the abstract table: whatever is changed, put or
\* deleted in the meantime under MayPut and MayDelete, a scan meets every row that
\* is there when its turn comes exactly once and in its order, also when it goes on
\* from a cell that has been freed (im_cursor.c, c_get).
THEOREM RelationIsTable == Spec => Refines
<1>1. Init => T!TInit
  BY TableInit
<1>2. RelationInv /\ [Next]_vars => [T!TNext]_(T!tvars)
  BY TableStep
<1> QED
  BY <1>1, <1>2, RelationAlways, PTL DEF Spec, Refines, T!TSpec
=============================================================================
