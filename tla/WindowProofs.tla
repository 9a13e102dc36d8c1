---------------------------- MODULE WindowProofs ----------------------------
(***************************************************************************)
(* What the numbers of rows promise, for every width of an unsigned int    *)
(* and every size of a window; and that windows hold what they should.     *)
(***************************************************************************)
EXTENDS Window, SequenceTheorems, WellFoundedInduction, TLAPS

-----------------------------------------------------------------------------
(* Induction over the natural numbers, with a set in the place of a        *)
(* predicate                                                               *)

\* A set of natural numbers that is not empty has a least element.
LEMMA LeastNat ==
    ASSUME NEW T, T \subseteq Nat, T # {}
    PROVE  \E x \in T : \A y \in T : x <= y
  <1> DEFINE R == OpToRel(<, Nat)
  <1>1. IsWellFoundedOn(R, Nat)
    BY NatLessThanWellFounded
  <1>2. \A x, y \in Nat : <<x, y>> \in R <=> x < y
    BY DEF OpToRel
  <1> HIDE DEF R
  <1>3. PICK x \in T : \A y \in T : ~ (<<y, x>> \in R)
    BY <1>1, WFMin
  <1>4. ASSUME NEW y \in T PROVE x <= y
    <2>1. x \in Nat /\ y \in Nat /\ ~ (y < x)
      BY <1>2, <1>3
    <2> QED
      BY <2>1
  <1> QED
    BY <1>4

\* Induction: a set that has 0 and with every number its successor has them
\* all.
LEMMA NatInd ==
    ASSUME NEW P, 0 \in P, \A n \in Nat : n \in P => n + 1 \in P
    PROVE  \A n \in Nat : n \in P
  <1> SUFFICES ASSUME Nat \ P # {} PROVE FALSE
    OBVIOUS
  <1>1. PICK x \in Nat \ P : \A y \in Nat \ P : x <= y
    BY LeastNat
  <1>2. x # 0 /\ x - 1 \in Nat /\ x - 1 \in P
    BY <1>1
  <1>3. (x - 1) + 1 \in P
    BY <1>2
  <1> QED
    BY <1>1, <1>2, <1>3

\* A function over 1 .. n is a sequence.
LEMMA FunSeq ==
    ASSUME NEW S, NEW n \in Nat, NEW f \in [1 .. n -> S]
    PROVE  f \in Seq(S) /\ Len(f) = n
  OBVIOUS

-----------------------------------------------------------------------------
(* Numbers of rows                                                          *)

\* A number keeps its value.
LEMMA ModSame == ASSUME NEW x \in Ids PROVE x % M = x
  BY MAssumption DEF Ids

\* A sum that is too large wraps once.
LEMMA ModAbove == ASSUME NEW x \in Int, M <= x, x < 2 * M PROVE x % M = x - M
  BY MAssumption

\* So does a difference below 0.
LEMMA ModBelow == ASSUME NEW x \in Int, -M <= x, x < 0 PROVE x % M = x + M
  BY MAssumption

\* The age of a row from its number, without %.
LEMMA AgeValue ==
  ASSUME NEW id \in Ids, NEW t \in Ids
  PROVE  Age(id, t) = IF t <= id THEN id - t ELSE id - t + M
  BY ModSame, ModBelow, MAssumption DEF Age, Ids

\* windowBuf::getExpired decides by the row's age alone: it gives a row up when
\* the age has reached the window's size, or one more while tuple_id, wrapped,
\* is below the size.
THEOREM ExpiredByAge ==
  ASSUME NEW id \in Ids, NEW t \in Ids, NEW size \in 1..(M - 1)
  PROVE  Expired(id, t, size) <=> Age(id, t) >= Edge(id, size)
  BY AgeValue, MAssumption DEF Expired, Edge, Ids

\* A row ages by as much as tuple_id grows, across the wrap, as long as it does
\* not get so old that its number comes back (updateTupleID).
THEOREM Ages ==
  ASSUME NEW id \in Ids, NEW t \in Ids, NEW d \in Nat, Age(id, t) + d < M
  PROVE  /\ Later(id, d) \in Ids
         /\ Age(Later(id, d), t) = Age(id, t) + d
<1>1. Later(id, d) = IF id + d < M THEN id + d ELSE id + d - M
  <2>1. id \in Int /\ id >= 0 /\ id < M /\ d < M
    BY AgeValue, MAssumption DEF Ids
  <2>2. CASE id + d < M
    BY <2>1, <2>2, ModSame, MAssumption DEF Later, Ids
  <2>3. CASE id + d >= M
    BY <2>1, <2>3, ModAbove, MAssumption DEF Later
  <2> QED
    BY <2>1, <2>2, <2>3, MAssumption
<1>2. Later(id, d) \in Ids
  BY <1>1, AgeValue, MAssumption DEF Ids
<1>3. Age(Later(id, d), t) = Age(id, t) + d
  BY <1>1, <1>2, AgeValue, MAssumption DEF Ids
<1> QED
  BY <1>2, <1>3

-----------------------------------------------------------------------------
(* Windows as parts of the stream                                           *)

\* A set of places that has with one all later ones begins somewhere.
LEMMA Threshold ==
  ASSUME NEW n \in Nat, NEW K, K \subseteq 1..n,
         \A i \in K, j \in 1..n : i < j => j \in K
  PROVE  \E y \in 0..n : \A k \in 1..n : k \in K <=> k > y
<1>1. CASE K = {}
  <2>1. n \in 0..n /\ \A k \in 1..n : ~ (k > n)
    OBVIOUS
  <2> QED
    BY <1>1, <2>1
<1>2. CASE K # {}
  <2>1. K \subseteq Nat
    OBVIOUS
  <2>2. PICK x \in K : \A z \in K : x <= z
    BY <1>2, <2>1, LeastNat
  <2>3. x - 1 \in 0..n
    OBVIOUS
  <2>4. ASSUME NEW k \in 1..n PROVE k \in K <=> k > x - 1
    <3>1. k \in K => x <= k
      BY <2>2
    <3>2. x <= k => x = k \/ x < k
      OBVIOUS
    <3> QED
      BY <3>1, <3>2
  <2> QED
    BY <2>3, <2>4
<1> QED
  BY <1>1, <1>2

\* K is the places behind y.
Behind(K, n, y) == /\ y \in Nat /\ y <= n /\ K \subseteq 1..n
                   /\ \A k \in 1..n : k \in K <=> k > y

\* t is what is behind y in s.
Rest(s, t, y) == /\ Len(t) = Len(s) - y
                 /\ \A i \in 1..(Len(s) - y) : t[i] = s[y + i]

\* What From leaves.
LEMMA FromAt ==
  ASSUME NEW S, NEW s \in Seq(S), NEW y, NEW K, Behind(K, Len(s), y)
  PROVE  From(s, K) \in Seq(S) /\ Rest(s, From(s, K), y)
<1> USE DEF Behind, Rest
<1>1. PICK n \in Nat : n = Len(s) /\ DOMAIN s = 1..n
  OBVIOUS
<1>2. CASE y = n
  <2>1. K = {}
    BY <1>1, <1>2
  <2> QED
    BY <1>1, <1>2, <2>1 DEF From
<1>3. CASE y < n
  <2>1. y + 1 \in K /\ \A k \in K : y + 1 <= k
    BY <1>1, <1>3
  <2>2. K \subseteq Nat
    BY <1>1
  <2>3. Min(K) \in K /\ \A k \in K : Min(K) <= k
    BY <2>1 DEF Min
  <2>4. Min(K) = y + 1
    <3>1. PICK x \in Nat : x = Min(K)
      BY <2>2, <2>3
    <3>2. x <= y + 1 /\ y + 1 <= x
      BY <2>1, <2>3, <3>1
    <3> QED
      BY <3>1, <3>2
  <2>5. From(s, K) = SubSeq(s, y + 1, n)
    BY <1>1, <2>1, <2>4 DEF From
  <2>6. \A i \in (y + 1)..n : s[i] \in S
    BY <1>1
  <2>7. /\ SubSeq(s, y + 1, n) \in Seq(S)
        /\ Len(SubSeq(s, y + 1, n)) = IF y + 1 <= n THEN n - (y + 1) + 1 ELSE 0
        /\ \A i \in 1..(n - (y + 1) + 1) : SubSeq(s, y + 1, n)[i] = s[(y + 1) + i - 1]
    BY <2>6, SubSeqProperties, y + 1 \in Int, n \in Int
  <2>8. /\ n - (y + 1) + 1 = n - y /\ y + 1 <= n
        /\ \A i \in Nat : (y + 1) + i - 1 = y + i
    BY <1>3
  <2>9. \A i \in 1..(n - y) : i \in Nat
    OBVIOUS
  <2> QED
    BY <1>1, <2>5, <2>7, <2>8, <2>9
<1>4. y = n \/ y < n
  BY <1>1
<1> QED
  BY ONLY <1>2, <1>3, <1>4

Tuples == [v : Int, age : Nat]
Rows == [id : Ids, v : Int, age : Nat]

LEMMA OlderTuple ==
  ASSUME NEW r \in Tuples, NEW d \in Nat
  PROVE  LET q == [r EXCEPT !.age = @ + d] IN
         q \in Tuples /\ q.age = r.age + d /\ q.v = r.v
  BY DEF Tuples

LEMMA AgedTuple ==
  ASSUME NEW s \in Seq(Tuples), NEW d \in Nat
  PROVE  /\ Aged(s, d) \in Seq(Tuples) /\ Len(Aged(s, d)) = Len(s)
         /\ \A k \in 1..Len(s) : /\ Aged(s, d)[k].age = s[k].age + d
                                 /\ Aged(s, d)[k].v = s[k].v
<1>1. PICK n \in Nat : n = Len(s) /\ DOMAIN s = 1..n
  OBVIOUS
<1>2. \A k \in 1..n : s[k] \in Tuples
  BY <1>1
<1>3. Aged(s, d) = [k \in 1..n |-> [s[k] EXCEPT !.age = @ + d]]
  BY <1>1 DEF Aged
<1>4. ASSUME NEW k \in 1..n
      PROVE  /\ Aged(s, d)[k] \in Tuples /\ Aged(s, d)[k].age = s[k].age + d
             /\ Aged(s, d)[k].v = s[k].v
  <2>1. PICK r \in Tuples : r = s[k]
    BY <1>2
  <2>2. Aged(s, d)[k] = [r EXCEPT !.age = @ + d]
    BY ONLY <1>3, <2>1, k \in 1..n
  <2> QED
    BY <2>1, <2>2, OlderTuple
<1>5. Aged(s, d) \in Seq(Tuples) /\ Len(Aged(s, d)) = n
  <2>1. Aged(s, d) \in [1..n -> Tuples]
    BY <1>3, <1>4
  <2> QED
    BY ONLY <2>1, n \in Nat, FunSeq
<1> QED
  BY <1>1, <1>4, <1>5

LEMMA OlderRow ==
  ASSUME NEW r \in Rows, NEW d \in Nat
  PROVE  LET q == [r EXCEPT !.age = @ + d] IN
         q \in Rows /\ q.age = r.age + d /\ q.v = r.v /\ q.id = r.id
  BY DEF Rows

LEMMA AgedRow ==
  ASSUME NEW s \in Seq(Rows), NEW d \in Nat
  PROVE  /\ Aged(s, d) \in Seq(Rows) /\ Len(Aged(s, d)) = Len(s)
         /\ \A k \in 1..Len(s) : /\ Aged(s, d)[k].age = s[k].age + d
                                 /\ Aged(s, d)[k].v = s[k].v
                                 /\ Aged(s, d)[k].id = s[k].id
<1>1. PICK n \in Nat : n = Len(s) /\ DOMAIN s = 1..n
  OBVIOUS
<1>2. \A k \in 1..n : s[k] \in Rows
  BY <1>1
<1>3. Aged(s, d) = [k \in 1..n |-> [s[k] EXCEPT !.age = @ + d]]
  BY <1>1 DEF Aged
<1>4. ASSUME NEW k \in 1..n
      PROVE  /\ Aged(s, d)[k] \in Rows /\ Aged(s, d)[k].age = s[k].age + d
             /\ Aged(s, d)[k].v = s[k].v /\ Aged(s, d)[k].id = s[k].id
  <2>1. PICK r \in Rows : r = s[k]
    BY <1>2
  <2>2. Aged(s, d)[k] = [r EXCEPT !.age = @ + d]
    BY ONLY <1>3, <2>1, k \in 1..n
  <2> QED
    BY <2>1, <2>2, OlderRow
<1>5. Aged(s, d) \in Seq(Rows) /\ Len(Aged(s, d)) = n
  <2>1. Aged(s, d) \in [1..n -> Rows]
    BY <1>3, <1>4
  <2> QED
    BY ONLY <2>1, n \in Nat, FunSeq
<1> QED
  BY <1>1, <1>4, <1>5

\* Later tuples are younger.
Falling(s) == \A i, j \in 1..Len(s) : i < j => s[j].age <= s[i].age

\* The rows behind the first a of R are the tuples behind the first c of C, and
\* these are the ones younger than e.
Match(R, C, e, a, c) ==
    /\ a \in Nat /\ c \in Nat /\ a <= Len(R) /\ c <= Len(C)
    /\ Len(R) - a = Len(C) - c
    /\ \A k \in 1..Len(R) : R[k].age < e <=> k > a
    /\ \A k \in 1..Len(C) : C[k].age < e <=> k > c
    /\ \A k \in 1..(Len(R) - a) : R[a + k].v = C[c + k].v /\ R[a + k].age = C[c + k].age

\* As time goes on the window begins later, at the same tuple in both.
LEMMA MatchAged ==
  ASSUME NEW R \in Seq(Rows), NEW C \in Seq(Tuples), NEW e \in Nat, NEW a, NEW c,
         Match(R, C, e, a, c), Falling(C), NEW d \in Nat, NEW f \in Nat,
         \A x \in Nat : x >= e => x + d >= f
  PROVE  \E a2, c2 : Match(Aged(R, d), Aged(C, d), f, a2, c2)
<1>1. PICK r \in Nat, n \in Nat : r = Len(R) /\ n = Len(C)
  OBVIOUS
<1>2. PICK A, B : A = Aged(C, d) /\ B = Aged(R, d)
  OBVIOUS
<1>3. /\ A \in Seq(Tuples) /\ Len(A) = n /\ Len(B) = r
      /\ \A k \in 1..n : A[k].age = C[k].age + d /\ A[k].v = C[k].v
      /\ \A k \in 1..r : B[k].age = R[k].age + d /\ B[k].v = R[k].v
  BY <1>1, <1>2, AgedTuple, AgedRow
<1>4. /\ \A k \in 1..n : C[k].age \in Nat
      /\ \A k \in 1..r : R[k].age \in Nat
  <2>1. \A k \in 1..n : C[k] \in Tuples
    BY <1>1
  <2>2. \A k \in 1..r : R[k] \in Rows
    BY <1>1
  <2> QED
    BY <2>1, <2>2 DEF Tuples, Rows
<1>5. /\ a \in Nat /\ c \in Nat /\ a <= r /\ c <= n /\ r - a = n - c
      /\ \A k \in 1..r : R[k].age < e <=> k > a
      /\ \A k \in 1..n : C[k].age < e <=> k > c
      /\ \A k \in 1..(r - a) : R[a + k].v = C[c + k].v /\ R[a + k].age = C[c + k].age
  BY <1>1 DEF Match
<1> DEFINE K == {k \in 1..n : A[k].age < f}
<1>6. PICK z \in 0..n : \A k \in 1..n : k \in K <=> k > z
  <2>1. ASSUME NEW i \in K, NEW j \in 1..n, i < j PROVE j \in K
    <3>1. i \in 1..n /\ A[i].age < f
      BY <2>1
    <3>2. C[j].age <= C[i].age
      BY <1>1, <2>1, <3>1 DEF Falling
    <3>3. PICK x1 \in Nat, y1 \in Nat : x1 = C[i].age /\ y1 = C[j].age
      BY ONLY <1>4, <3>1, j \in 1..n
    <3>4. A[i].age = x1 + d /\ A[j].age = y1 + d /\ y1 <= x1
      BY ONLY <1>3, <3>1, <3>2, <3>3, j \in 1..n
    <3>5. A[j].age < f
      BY ONLY <3>1, <3>4, x1 \in Nat, y1 \in Nat, d \in Nat, f \in Nat
    <3> QED
      BY ONLY <3>5, j \in 1..n
  <2> HIDE DEF K
  <2>2. K \subseteq 1..n
    BY DEF K
  <2> QED
    BY <2>1, <2>2, Threshold
<1>7. \A k \in 1..n : A[k].age < f <=> k > z
  BY <1>6
<1>8. c <= z
  <2> SUFFICES ASSUME z < c PROVE FALSE
    BY <1>5
  <2>0. c \in 1..n /\ c > z /\ ~ (c > c)
    BY ONLY <1>5, z < c, z \in 0..n
  <2>1. c \in 1..n /\ ~ (C[c].age < e) /\ A[c].age < f
    BY ONLY <1>5, <1>7, <2>0
  <2>2. PICK x \in Nat : x = C[c].age /\ A[c].age = x + d
    BY <1>3, <1>4, <2>1
  <2>3. x >= e /\ x + d < f
    BY <2>1, <2>2
  <2> QED
    BY <2>3
<1> DEFINE y == a + (z - c)
<1>9. y \in Nat /\ y <= r /\ r - y = n - z
  BY <1>5, <1>8
<1>10. ASSUME NEW k \in 1..r PROVE B[k].age < f <=> k > y
  <2>1. CASE k <= a
    <3>1. PICK x \in Nat : x = R[k].age /\ B[k].age = x + d
      BY ONLY <1>3, <1>4, k \in 1..r
    <3>2. ~ (k > a)
      BY ONLY <1>5, <2>1, k \in 1..r
    <3>3. ~ (x < e)
      BY ONLY <1>5, <3>1, <3>2, k \in 1..r
    <3>4. x + d >= f
      BY <3>3
    <3>5. ~ (k > y)
      BY <1>5, <1>8, <2>1
    <3>6. ~ (x + d < f)
      BY ONLY <3>4, x \in Nat, d \in Nat, f \in Nat
    <3> QED
      BY ONLY <3>1, <3>5, <3>6
  <2>2. CASE k > a
    <3>1. PICK i \in 1..(r - a) : k = a + i
      <4>1. k - a \in 1..(r - a) /\ k = a + (k - a)
        BY <1>5, <2>2
      <4> QED
        BY <4>1
    <3>2. c + i \in 1..n /\ R[k].age = C[c + i].age
      BY <1>5, <3>1
    <3>3. B[k].age = A[c + i].age
      BY <1>3, <3>2
    <3>4. A[c + i].age < f <=> c + i > z
      BY <1>7, <3>2
    <3> QED
      BY <1>5, <3>1, <3>3, <3>4
  <2> QED
    BY <1>5, <2>1, <2>2
<1>11. ASSUME NEW k \in 1..(r - y) PROVE B[y + k].v = A[z + k].v /\ B[y + k].age = A[z + k].age
  <2>1. PICK i \in 1..(r - a) : i = (z - c) + k /\ a + i = y + k /\ c + i = z + k
    <3>1. /\ (z - c) + k \in 1..(r - a) /\ a + ((z - c) + k) = y + k
          /\ c + ((z - c) + k) = z + k
      BY <1>5, <1>8, <1>9
    <3> QED
      BY <3>1
  <2>2. R[a + i].v = C[c + i].v /\ R[a + i].age = C[c + i].age
    BY ONLY <1>5, i \in 1..(r - a)
  <2>3. a + i \in 1..r /\ c + i \in 1..n
    BY ONLY <1>1, <1>5, i \in 1..(r - a), n \in Nat, r \in Nat
  <2> QED
    BY ONLY <1>3, <2>1, <2>2, <2>3
<1>12. Match(B, A, f, y, z)
  BY <1>3, <1>7, <1>9, <1>10, <1>11 DEF Match
<1> QED
  BY <1>2, <1>12

\* The history forgets only what is too old for the window.
LEMMA MatchForgets ==
  ASSUME NEW R, NEW C \in Seq(Tuples), NEW e \in Nat, NEW a, NEW c, Len(R) \in Nat,
         Match(R, C, e, a, c), Falling(C), NEW m \in Nat, e <= m + 1,
         NEW D, D = From(C, {k \in DOMAIN C : C[k].age <= m})
  PROVE  D \in Seq(Tuples) /\ Falling(D) /\ \E c2 : Match(R, D, e, a, c2)
<1> DEFINE K == {k \in DOMAIN C : C[k].age <= m}
<1>1. PICK n \in Nat, r \in Nat : n = Len(C) /\ DOMAIN C = 1..n /\ r = Len(R)
  OBVIOUS
<1>2. \A k \in 1..n : C[k].age \in Nat
  <2>1. \A k \in 1..n : C[k] \in Tuples
    BY <1>1
  <2> QED
    BY <2>1 DEF Tuples
<1>3. PICK p \in 0..n : \A k \in 1..n : k \in K <=> k > p
  <2>1. ASSUME NEW i \in K, NEW j \in 1..n, i < j PROVE j \in K
    <3>1. C[j].age <= C[i].age
      BY <1>1, <2>1 DEF Falling
    <3> QED
      BY <1>1, <1>2, <2>1, <3>1
  <2>2. K \subseteq 1..n
    BY <1>1
  <2> HIDE DEF K
  <2> QED
    BY <2>1, <2>2, Threshold
<1>4. D = From(C, K)
  OBVIOUS
<1>5. /\ D \in Seq(Tuples) /\ Len(D) = n - p
      /\ \A i \in 1..(n - p) : D[i] = C[p + i]
  <2>1. Behind(K, Len(C), p)
    BY <1>1, <1>3 DEF Behind
  <2> HIDE DEF K
  <2>2. D \in Seq(Tuples) /\ Rest(C, D, p)
    BY ONLY <1>4, <2>1, FromAt, C \in Seq(Tuples)
  <2> QED
    BY <1>1, <2>2 DEF Rest
<1>6. /\ a \in Nat /\ c \in Nat /\ a <= r /\ c <= n /\ r - a = n - c
      /\ \A k \in 1..r : R[k].age < e <=> k > a
      /\ \A k \in 1..n : C[k].age < e <=> k > c
      /\ \A k \in 1..(r - a) : R[a + k].v = C[c + k].v /\ R[a + k].age = C[c + k].age
  BY <1>1 DEF Match
<1>7. p <= c
  <2> SUFFICES ASSUME c < p PROVE FALSE
    BY <1>6
  <2>1. p \in 1..n /\ p \notin K /\ C[p].age < e
    BY <1>3, <1>6
  <2> QED
    BY <1>1, <1>2, <2>1
<1>8. Falling(D)
  <2> SUFFICES ASSUME NEW i \in 1..(n - p), NEW j \in 1..(n - p), i < j
               PROVE  D[j].age <= D[i].age
    BY <1>5 DEF Falling
  <2>1. p + i \in 1..n /\ p + j \in 1..n /\ p + i < p + j
    OBVIOUS
  <2> QED
    BY <1>1, <1>5, <2>1 DEF Falling
<1>9. Match(R, D, e, a, c - p)
  <2>1. ASSUME NEW k \in 1..(n - p) PROVE D[k].age < e <=> k > c - p
    <3>0. p + k \in 1..n
      BY ONLY p \in 0..n, n \in Nat, k \in 1..(n - p)
    <3>1. p + k \in 1..n /\ D[k] = C[p + k]
      BY ONLY <1>5, <3>0, k \in 1..(n - p)
    <3>2. C[p + k].age < e <=> p + k > c
      BY ONLY <1>6, <3>1
    <3>3. p + k > c <=> k > c - p
      BY <1>6
    <3> QED
      BY ONLY <3>1, <3>2, <3>3
  <2>2. ASSUME NEW k \in 1..(r - a)
        PROVE  R[a + k].v = D[(c - p) + k].v /\ R[a + k].age = D[(c - p) + k].age
    <3>0. a \in Nat /\ c \in Nat /\ r - a = n - c /\ p <= c
      BY ONLY <1>6, <1>7
    <3>1. (c - p) + k \in 1..(n - p) /\ p + ((c - p) + k) = c + k
      BY ONLY <3>0, k \in 1..(r - a), p \in 0..n, n \in Nat, r \in Nat
    <3>2. D[(c - p) + k] = C[c + k]
      BY <1>5, <3>1
    <3> QED
      BY <1>6, <3>2
  <2>3. c - p \in Nat /\ c - p <= n - p /\ r - a = (n - p) - (c - p)
    BY <1>6, <1>7
  <2> QED
    BY <1>1, <1>5, <1>6, <2>1, <2>2, <2>3 DEF Match
<1> QED
  BY <1>5, <1>8, <1>9

\* The rows before the window go.
LEMMA MatchKept ==
  ASSUME NEW R \in Seq(Rows), NEW C, NEW e \in Nat, NEW a, NEW c, Len(C) \in Nat,
         Match(R, C, e, a, c), NEW K, K = {k \in DOMAIN R : R[k].age < e}
  PROVE  From(R, K) \in Seq(Rows) /\ Rest(R, From(R, K), a) /\ Match(From(R, K), C, e, 0, c)
<1>1. PICK n \in Nat, r \in Nat : n = Len(C) /\ r = Len(R) /\ DOMAIN R = 1..r
  OBVIOUS
<1>2. /\ a \in Nat /\ c \in Nat /\ a <= r /\ c <= n /\ r - a = n - c
      /\ \A k \in 1..r : R[k].age < e <=> k > a
      /\ \A k \in 1..n : C[k].age < e <=> k > c
      /\ \A k \in 1..(r - a) : R[a + k].v = C[c + k].v /\ R[a + k].age = C[c + k].age
  BY <1>1 DEF Match
<1>3. Behind(K, Len(R), a)
  BY <1>1, <1>2 DEF Behind
<1>4. PICK D : D = From(R, K)
  OBVIOUS
<1>5. D \in Seq(Rows) /\ Rest(R, D, a)
  BY ONLY <1>3, <1>4, FromAt, R \in Seq(Rows)
<1>6. Len(D) = r - a /\ \A i \in 1..(r - a) : D[i] = R[a + i]
  BY <1>1, <1>5 DEF Rest
<1>7. Match(D, C, e, 0, c)
  <2>1. ASSUME NEW k \in 1..(r - a) PROVE D[k].age < e /\ k > 0 /\ D[0 + k] = R[a + k]
    <3>1. a + k \in 1..r /\ a + k > a /\ 0 + k = k
      BY <1>2
    <3> QED
      BY <1>2, <1>6, <3>1
  <2>2. r - a \in Nat /\ (r - a) - 0 = r - a /\ 0 \in Nat /\ 0 <= r - a
    BY <1>2
  <2>3. \A k \in 1..(r - a) : D[k].age < e <=> k > 0
    BY <2>1
  <2>4. \A k \in 1..(r - a) : D[0 + k].v = C[c + k].v /\ D[0 + k].age = C[c + k].age
    BY <1>2, <2>1
  <2> QED
    BY ONLY <1>1, <1>2, <1>6, <2>2, <2>3, <2>4 DEF Match
<1> QED
  BY <1>4, <1>5, <1>7

\* A new tuple comes into both.
LEMMA MatchAppend ==
  ASSUME NEW R \in Seq(Rows), NEW C \in Seq(Tuples), NEW e \in Nat \ {0}, NEW a, NEW c,
         Match(R, C, e, a, c), NEW x \in Rows, NEW y \in Tuples,
         x.age = 0, y.age = 0, x.v = y.v
  PROVE  Match(Append(R, x), Append(C, y), e, a, c)
<1>1. PICK n \in Nat, r \in Nat : n = Len(C) /\ r = Len(R)
  OBVIOUS
<1>2. PICK A, B : A = Append(C, y) /\ B = Append(R, x)
  OBVIOUS
<1>3. /\ Len(A) = n + 1 /\ Len(B) = r + 1 /\ A[n + 1] = y /\ B[r + 1] = x
      /\ \A k \in 1..n : A[k] = C[k]
      /\ \A k \in 1..r : B[k] = R[k]
  BY <1>1, <1>2
<1>4. /\ a \in Nat /\ c \in Nat /\ a <= r /\ c <= n /\ r - a = n - c
      /\ \A k \in 1..r : R[k].age < e <=> k > a
      /\ \A k \in 1..n : C[k].age < e <=> k > c
      /\ \A k \in 1..(r - a) : R[a + k].v = C[c + k].v /\ R[a + k].age = C[c + k].age
  BY <1>1 DEF Match
<1>5. ASSUME NEW k \in 1..(r + 1) PROVE B[k].age < e <=> k > a
  <2>1. CASE k = r + 1
    BY <1>3, <1>4, <2>1
  <2>2. CASE k \in 1..r
    BY <1>3, <1>4, <2>2
  <2> QED
    BY <2>1, <2>2
<1>6. ASSUME NEW k \in 1..(n + 1) PROVE A[k].age < e <=> k > c
  BY <1>3, <1>4
<1>7. ASSUME NEW k \in 1..((r + 1) - a)
      PROVE  B[a + k].v = A[c + k].v /\ B[a + k].age = A[c + k].age
  <2>1. CASE k \in 1..(r - a)
    <3>1. a + k \in 1..r /\ c + k \in 1..n
      BY <1>4, <2>1
    <3> QED
      BY <1>3, <1>4, <2>1, <3>1
  <2>2. CASE k = (r + 1) - a
    <3>1. a + k = r + 1 /\ c + k = n + 1
      BY <1>4, <2>2
    <3> QED
      BY <1>3, <3>1
  <2> QED
    BY <1>4, <2>1, <2>2
<1>8. a <= r + 1 /\ c <= n + 1 /\ (r + 1) - a = (n + 1) - c
  BY <1>4
<1>9. Match(B, A, e, a, c)
  BY <1>3, <1>4, <1>5, <1>6, <1>7, <1>8 DEF Match
<1> QED
  BY <1>2, <1>9

LEMMA FallingAppend ==
  ASSUME NEW C \in Seq(Tuples), Falling(C), NEW y \in Tuples, y.age = 0
  PROVE  Append(C, y) \in Seq(Tuples) /\ Falling(Append(C, y))
<1>1. PICK n \in Nat : n = Len(C)
  OBVIOUS
<1>2. PICK A : A = Append(C, y)
  OBVIOUS
<1>3. /\ A \in Seq(Tuples) /\ Len(A) = n + 1 /\ A[n + 1] = y
      /\ \A k \in 1..n : A[k] = C[k] /\ C[k] \in Tuples
  BY <1>1, <1>2
<1>4. ASSUME NEW i \in 1..(n + 1), NEW j \in 1..(n + 1), i < j PROVE A[j].age <= A[i].age
  <2>1. i \in 1..n /\ A[i].age \in Nat
    <3>1. i \in 1..n
      BY <1>4
    <3>2. A[i] \in Tuples
      BY <1>3, <3>1
    <3> QED
      BY <3>1, <3>2 DEF Tuples
  <2>2. CASE j = n + 1
    BY <1>3, <2>1, <2>2
  <2>3. CASE j \in 1..n
    BY <1>1, <1>3, <1>4, <2>1, <2>3 DEF Falling
  <2> QED
    BY <2>2, <2>3
<1> QED
  BY <1>2, <1>3, <1>4 DEF Falling

-----------------------------------------------------------------------------
(* The inductive invariant                                                  *)

\* The uses that keep every tuple of the window.
Whole == {"view", "join", "sum", "count"}

\* The number of a row tells its age.
Numbered(s, id) == \A k \in 1..Len(s) : s[k].age = Age(id, s[k].id)

RowsInv ==
    /\ rows \in Seq(Rows) /\ Numbered(rows, tuple_id)
    /\ fresh => rows = << >> /\ recent = << >>
    /\ \E a, c : /\ Match(rows, recent, Edge(tuple_id, conf.size), a, c)
                 /\ conf.use # "join" \/ trimmed => a = 0

WindowInv ==
    /\ conf \in Configs /\ tuple_id \in Ids /\ fresh \in BOOLEAN /\ trimmed \in BOOLEAN
    /\ recent \in Seq(Tuples) /\ Falling(recent)
    /\ conf.use \in Whole => RowsInv

LEMMA LaterNumber == ASSUME NEW id \in Ids, NEW d \in Nat PROVE Later(id, d) \in Ids
<1>1. PICK x \in Nat : x = id + d
  BY MAssumption DEF Ids
<1>2. x % M \in 0..(M - 1)
  BY MAssumption
<1> QED
  BY <1>1, <1>2 DEF Later, Ids

\* The edge of the window moves forward only.
LEMMA EdgeMoves ==
  ASSUME NEW id \in Ids, NEW size \in 1..(M - 1), NEW d \in Nat
  PROVE  /\ Edge(id, size) \in Nat \ {0} /\ Edge(id, size) <= size + 1
         /\ \A x \in Nat : x >= Edge(id, size) => x + d >= Edge(Later(id, d), size)
<1>1. M \in Nat /\ id \in Nat /\ size \in Nat /\ size >= 1
  BY MAssumption DEF Ids
<1>2. Edge(id, size) \in Nat \ {0} /\ Edge(id, size) <= size + 1 /\ Edge(id, size) >= size
  BY <1>1 DEF Edge
<1>3. CASE d = 0
  <2>1. Later(id, d) = id
    BY <1>1, <1>3, ModSame DEF Later
  <2> QED
    BY <1>2, <1>3, <2>1
<1>4. CASE d > 0
  <2>1. Later(id, d) \in Nat
    BY LaterNumber, MAssumption DEF Ids
  <2>2. Edge(Later(id, d), size) \in Nat /\ Edge(Later(id, d), size) <= size + 1
    BY <1>1, <2>1 DEF Edge
  <2> HIDE DEF Edge
  <2> QED
    BY <1>1, <1>2, <1>4, <2>2
<1> QED
  BY <1>3, <1>4

LEMMA AgedFalling ==
  ASSUME NEW s \in Seq(Tuples), Falling(s), NEW d \in Nat PROVE Falling(Aged(s, d))
<1>0. PICK n \in Nat : n = Len(s)
  OBVIOUS
<1>1. PICK A : n = Len(s) /\ A = Aged(s, d)
  BY <1>0
<1>2. Len(A) = n /\ \A k \in 1..n : A[k].age = s[k].age + d
  BY <1>1, AgedTuple
<1>3. \A k \in 1..n : s[k].age \in Nat
  <2>1. \A k \in 1..n : s[k] \in Tuples
    BY <1>1
  <2> QED
    BY <2>1 DEF Tuples
<1>4. ASSUME NEW i \in 1..n, NEW j \in 1..n, i < j PROVE A[j].age <= A[i].age
  <2>1. s[j].age <= s[i].age
    BY ONLY <1>1, <1>4, Falling(s), i \in 1..n, j \in 1..n DEF Falling
  <2>2. PICK x \in Nat, y \in Nat : x = s[i].age /\ y = s[j].age
    BY <1>3
  <2>3. A[i].age = x + d /\ A[j].age = y + d /\ y <= x
    BY ONLY <1>2, <2>1, <2>2, i \in 1..n, j \in 1..n
  <2> QED
    BY ONLY <2>3, x \in Nat, y \in Nat, d \in Nat
<1> QED
  BY ONLY <1>1, <1>2, <1>4 DEF Falling

LEMMA NumberedAged ==
  ASSUME NEW id \in Ids, NEW s \in Seq(Rows), Numbered(s, id), NEW d \in Nat,
         \A k \in 1..Len(s) : s[k].age + d < M
  PROVE  Numbered(Aged(s, d), Later(id, d))
<1>0. PICK n \in Nat : n = Len(s)
  OBVIOUS
<1>1. PICK B : n = Len(s) /\ B = Aged(s, d)
  BY <1>0
<1>2. Len(B) = n /\ \A k \in 1..n : B[k].age = s[k].age + d /\ B[k].id = s[k].id
  BY <1>1, AgedRow
<1>3. ASSUME NEW k \in 1..n PROVE B[k].age = Age(Later(id, d), B[k].id)
  <2>1. PICK w \in Rows : w = s[k]
    BY <1>1
  <2>2. PICK t \in Ids : t = s[k].id
    BY <2>1 DEF Rows
  <2>3. s[k].age = Age(id, t) /\ s[k].age + d < M
    BY <1>1, <2>2 DEF Numbered
  <2>4. Age(Later(id, d), t) = Age(id, t) + d
    BY ONLY <2>3, Ages, t \in Ids, d \in Nat, id \in Ids
  <2> QED
    BY <1>2, <2>2, <2>3, <2>4
<1> QED
  BY <1>1, <1>2, <1>3 DEF Numbered

\* A tuple arrives: what was in the window, and is not too old now, stays the
\* same in the rows and in the history.
LEMMA TupleComes ==
  ASSUME WindowInv, NEW d \in 0..MaxGap, NEW v \in conf.vals, Tuple(d, v), conf' = conf
  PROVE  /\ tuple_id' \in Ids /\ fresh' = FALSE /\ Gap(d) \in Nat
         /\ conf.size \in 1..(M - 1) /\ v \in Int
         /\ \E old : /\ recent' = Append(old, [v |-> v, age |-> 0])
                     /\ old \in Seq(Tuples) /\ Falling(old)
                     /\ conf.use \in Whole =>
                          /\ Aged(rows, Gap(d)) \in Seq(Rows)
                          /\ Len(Aged(rows, Gap(d))) = Len(rows)
                          /\ Numbered(Aged(rows, Gap(d)), tuple_id')
                          /\ fresh => Aged(rows, Gap(d)) = << >> /\ old = << >>
                          /\ \E a, c : Match(Aged(rows, Gap(d)), old,
                                             Edge(tuple_id', conf.size), a, c)
<1>1. conf.size \in 1..(M - 1) /\ v \in Int /\ Gap(d) \in Nat
  BY WindowAssumption DEF WindowInv, Gap
<1>2. PICK g \in Nat : g = Gap(d)
  BY <1>1
<1>3. PICK m \in 1..(M - 1) : m = conf.size
  BY <1>1
<1>4. m \in Nat /\ tuple_id \in Ids /\ tuple_id' = Later(tuple_id, g) /\ tuple_id' \in Ids
  BY <1>2, LaterNumber DEF WindowInv, Tuple
<1>5. PICK A : A = Aged(recent, g)
  OBVIOUS
<1>6. PICK old : old = From(A, {k \in DOMAIN A : A[k].age <= m})
  OBVIOUS
<1>7. fresh' = FALSE /\ recent' = Append(old, [v |-> v, age |-> 0])
  BY <1>2, <1>3, <1>5, <1>6 DEF Tuple
<1>8. A \in Seq(Tuples) /\ Falling(A)
  <2>1. recent \in Seq(Tuples) /\ Falling(recent)
    BY DEF WindowInv
  <2> QED
    BY <1>5, <2>1, AgedTuple, AgedFalling
<1>9. old \in Seq(Tuples) /\ Falling(old)
  <2>1. Match(A, A, 0, Len(A), Len(A))
    <3>1. PICK n \in Nat : n = Len(A)
      BY <1>8
    <3>2. \A k \in 1..n : A[k].age \in Nat
      <4>1. \A k \in 1..n : A[k] \in Tuples
        BY <1>8, <3>1
      <4> QED
        BY <4>1 DEF Tuples
    <3> QED
      BY <3>1, <3>2 DEF Match
  <2>2. Len(A) \in Nat /\ 0 \in Nat /\ 0 <= m + 1
    BY <1>4, <1>8
  <2> QED
    BY ONLY <1>4, <1>6, <1>8, <2>1, <2>2, MatchForgets
<1>10. ASSUME conf.use \in Whole
       PROVE  /\ Aged(rows, g) \in Seq(Rows) /\ Len(Aged(rows, g)) = Len(rows)
              /\ Numbered(Aged(rows, g), tuple_id')
              /\ fresh => Aged(rows, g) = << >> /\ old = << >>
              /\ \E a, c : Match(Aged(rows, g), old, Edge(tuple_id', m), a, c)
  <2>1. RowsInv /\ rows \in Seq(Rows)
    BY <1>10 DEF WindowInv, RowsInv
  <2>2. PICK B : B = Aged(rows, g)
    OBVIOUS
  <2>3. PICK r \in Nat : r = Len(rows) /\ DOMAIN rows = 1..r
    BY <2>1
  <2>4. /\ B \in Seq(Rows) /\ Len(B) = r
        /\ \A k \in 1..r : B[k].age = rows[k].age + g /\ B[k].id = rows[k].id
    BY <2>1, <2>2, <2>3, AgedRow
  <2>5. Numbered(B, tuple_id')
    <3>1. Numbered(rows, tuple_id) /\ \A k \in 1..Len(rows) : rows[k].age + g < M
      BY <1>2, <2>1, <2>3 DEF RowsInv, Tuple
    <3> QED
      BY ONLY <1>4, <2>1, <2>2, <3>1, NumberedAged, g \in Nat
  <2>6. ASSUME fresh PROVE B = << >> /\ old = << >>
    <3>1. rows = << >> /\ recent = << >>
      BY <2>1, <2>6 DEF RowsInv
    <3>2. Len(B) = 0 /\ DOMAIN A = {}
      BY <1>5, <2>3, <2>4, <3>1 DEF Aged
    <3>3. old = << >>
      BY <1>6, <3>2 DEF From
    <3> QED
      BY <2>4, <3>2, <3>3
  <2>7. \E a, c : Match(B, old, Edge(tuple_id', m), a, c)
    <3>1. PICK e, f : e = Edge(tuple_id, m) /\ f = Edge(tuple_id', m)
      OBVIOUS
    <3>2. /\ e \in Nat /\ \A x \in Nat : x >= e => x + g >= f
      BY <1>4, <3>1, EdgeMoves
    <3>3. f \in Nat /\ f <= m + 1
      BY <1>4, <3>1, EdgeMoves
    <3>4. PICK a, c : Match(rows, recent, e, a, c)
      BY <1>3, <2>1, <3>1 DEF RowsInv
    <3>5. recent \in Seq(Tuples) /\ Falling(recent)
      BY DEF WindowInv
    <3>6. PICK a2, c2 : Match(B, A, f, a2, c2)
      BY ONLY <1>5, <2>1, <2>2, <3>2, <3>3, <3>4, <3>5, MatchAged, g \in Nat
    <3>7. Len(B) \in Nat
      BY <2>4
    <3>8. \E c3 : Match(B, old, f, a2, c3)
      BY ONLY <1>4, <1>6, <1>8, <3>3, <3>6, <3>7, MatchForgets
    <3> QED
      BY <3>1, <3>8
  <2> QED
    BY <2>2, <2>3, <2>4, <2>5, <2>6, <2>7
<1> QED
  BY <1>1, <1>2, <1>3, <1>4, <1>7, <1>9, <1>10

\* The new row.
LEMMA NewRow ==
  ASSUME NEW id \in Ids, NEW v \in Int, NEW x, x = [id |-> id, v |-> v, age |-> 0],
         NEW s \in Seq(Rows), Numbered(s, id)
  PROVE  /\ x \in Rows /\ x.age = 0 /\ x.v = v
         /\ Append(s, x) \in Seq(Rows) /\ Numbered(Append(s, x), id)
<1>1. x \in Rows /\ x.age = 0 /\ x.v = v /\ x.id = id
  BY DEF Rows
<1>2. Age(id, id) = 0
  BY AgeValue DEF Ids
<1>3. PICK n \in Nat : n = Len(s)
  OBVIOUS
<1>4. PICK t : t = Append(s, x)
  OBVIOUS
<1>5. /\ t \in Seq(Rows) /\ Len(t) = n + 1 /\ t[n + 1] = x
      /\ \A k \in 1..n : t[k] = s[k]
  BY <1>1, <1>3, <1>4
<1>6. ASSUME NEW k \in 1..(n + 1) PROVE t[k].age = Age(id, t[k].id)
  <2>1. CASE k = n + 1
    BY <1>1, <1>2, <1>5, <2>1
  <2>2. CASE k \in 1..n
    BY <1>3, <1>5, <2>2 DEF Numbered
  <2> QED
    BY <2>1, <2>2
<1> QED
  BY <1>1, <1>4, <1>5, <1>6 DEF Numbered

\* Rows are popped by their numbers: what is left is what is young enough.
LEMMA KeptByAge ==
  ASSUME NEW s \in Seq(Rows), NEW id \in Ids, Numbered(s, id), conf.size \in 1..(M - 1)
  PROVE  Kept(s, id) = From(s, {k \in DOMAIN s : s[k].age < Edge(id, conf.size)})
<1>1. PICK m \in 1..(M - 1) : m = conf.size
  OBVIOUS
<1>2. PICK n \in Nat : n = Len(s) /\ DOMAIN s = 1..n
  OBVIOUS
<1>3. PICK e \in Nat : e = Edge(id, m)
  BY EdgeMoves
<1>4. ASSUME NEW k \in 1..n PROVE ~Expired(id, s[k].id, m) <=> s[k].age < e
  <2>1. PICK w \in Rows : w = s[k]
    BY <1>2
  <2>2. PICK t \in Ids, x \in Nat : t = s[k].id /\ x = s[k].age
    BY <2>1 DEF Rows
  <2>3. x = Age(id, t)
    BY <1>2, <2>2 DEF Numbered
  <2>4. Expired(id, t, m) <=> Age(id, t) >= Edge(id, m)
    BY ExpiredByAge
  <2>5. Expired(id, t, m) <=> x >= e
    BY ONLY <1>3, <2>3, <2>4
  <2>6. x >= e <=> ~ (x < e)
    OBVIOUS
  <2> QED
    BY <2>2, <2>5, <2>6
<1>5. {k \in DOMAIN s : ~Expired(id, s[k].id, conf.size)}
        = {k \in DOMAIN s : s[k].age < Edge(id, conf.size)}
  BY <1>1, <1>2, <1>3, <1>4
<1> QED
  BY ONLY <1>5 DEF Kept

\* So popping leaves exactly the window.
LEMMA KeptMatch ==
  ASSUME NEW s \in Seq(Rows), NEW id \in Ids, Numbered(s, id), conf.size \in 1..(M - 1),
         NEW C, Len(C) \in Nat, NEW e, e = Edge(id, conf.size), NEW a, NEW c,
         Match(s, C, e, a, c)
  PROVE  /\ Kept(s, id) \in Seq(Rows) /\ Numbered(Kept(s, id), id)
         /\ Match(Kept(s, id), C, e, 0, c) /\ Rest(s, Kept(s, id), a)
<1>1. PICK K : K = {k \in DOMAIN s : s[k].age < e}
  OBVIOUS
<1>2. PICK D : D = Kept(s, id) /\ D = From(s, K)
  BY <1>1, KeptByAge
<1>3. e \in Nat
  BY EdgeMoves
<1>4. D \in Seq(Rows) /\ Rest(s, D, a) /\ Match(D, C, e, 0, c)
  BY ONLY <1>1, <1>2, <1>3, MatchKept, Match(s, C, e, a, c), s \in Seq(Rows), Len(C) \in Nat
<1>5. Numbered(D, id)
  <2>1. PICK n \in Nat, y \in Nat : n = Len(s) /\ y = a /\ y <= n
    BY DEF Match
  <2>2. Len(D) = n - y /\ \A i \in 1..(n - y) : D[i] = s[y + i]
    BY <1>4, <2>1 DEF Rest
  <2>3. \A i \in 1..(n - y) : y + i \in 1..n
    BY <2>1
  <2> QED
    BY <2>1, <2>2, <2>3 DEF Numbered
<1> QED
  BY <1>2, <1>4, <1>5

-----------------------------------------------------------------------------
(* The windows hold exactly the tuples of the window                        *)

LEMMA InitWindowInv == Init => WindowInv
<1> SUFFICES ASSUME Init PROVE WindowInv
  OBVIOUS
<1>1. << >> \in Seq(Tuples) /\ << >> \in Seq(Rows) /\ Len(<< >>) = 0
  OBVIOUS
<1>2. tuple_id \in Ids
  BY MAssumption DEF Init, Ids
<1>3. Match(<< >>, << >>, Edge(tuple_id, conf.size), 0, 0)
  BY <1>1 DEF Match
<1>4. RowsInv
  BY <1>1, <1>3 DEF Init, RowsInv, Numbered
<1> QED
  BY <1>1, <1>2, <1>4 DEF Init, WindowInv, Falling

\* The tuple x of the rows is the tuple y of the history, numbered.
New(x, y, v, id) == x = [id |-> id, v |-> v, age |-> 0] /\ y = [v |-> v, age |-> 0]

LEMMA BothAppend ==
  ASSUME NEW id \in Ids, NEW v \in Int, NEW e \in Nat \ {0}, NEW D \in Seq(Rows),
         Numbered(D, id), NEW old \in Seq(Tuples), Falling(old), NEW a, NEW c,
         Match(D, old, e, a, c), NEW x, NEW y, New(x, y, v, id)
  PROVE  /\ Append(D, x) \in Seq(Rows) /\ Numbered(Append(D, x), id)
         /\ Append(old, y) \in Seq(Tuples) /\ Falling(Append(old, y))
         /\ Match(Append(D, x), Append(old, y), e, a, c)
<1>1. y \in Tuples /\ y.age = 0 /\ y.v = v /\ x = [id |-> id, v |-> v, age |-> 0]
  BY DEF New, Tuples
<1>2. x \in Rows /\ x.age = 0 /\ x.v = v
      /\ Append(D, x) \in Seq(Rows) /\ Numbered(Append(D, x), id)
  BY ONLY <1>1, NewRow, id \in Ids, v \in Int, D \in Seq(Rows), Numbered(D, id)
<1>3. Append(old, y) \in Seq(Tuples) /\ Falling(Append(old, y))
  BY <1>1, FallingAppend
<1>4. Match(Append(D, x), Append(old, y), e, a, c)
  <2>1. x.v = y.v
    BY <1>1, <1>2
  <2> QED
    BY ONLY <1>1, <1>2, <2>1, MatchAppend, D \in Seq(Rows), old \in Seq(Tuples),
            Match(D, old, e, a, c), e \in Nat \ {0}
<1> QED
  BY <1>2, <1>3, <1>4

\* What an action that takes a tuple starts from: the old rows B and the old
\* tuples, now older, and the new row and tuple.
Arrived(B, old, x, y, v, id, e, a, c) ==
    /\ id \in Ids /\ v \in Int /\ e \in Nat \ {0}
    /\ B \in Seq(Rows) /\ Numbered(B, id)
    /\ old \in Seq(Tuples) /\ Falling(old)
    /\ New(x, y, v, id) /\ Match(B, old, e, a, c)

LEMMA Arrives ==
  ASSUME WindowInv, NEW d \in 0..MaxGap, NEW v \in conf.vals, Tuple(d, v), conf' = conf,
         conf.use \in Whole
  PROVE  /\ conf.size \in 1..(M - 1) /\ conf \in Configs /\ fresh' = FALSE
         /\ \E B, old, x, y, e, a, c :
              /\ Arrived(B, old, x, y, v, tuple_id', e, a, c)
              /\ B = Aged(rows, Gap(d)) /\ recent' = Append(old, y) /\ x = Row(v)
              /\ e = Edge(tuple_id', conf.size)
              /\ fresh => B = << >> /\ old = << >>
              /\ Len(B) = Len(rows)
<1>1. /\ tuple_id' \in Ids /\ fresh' = FALSE /\ conf.size \in 1..(M - 1) /\ v \in Int
  BY TupleComes
<1>2. PICK B, y, x, e : B = Aged(rows, Gap(d)) /\ y = [v |-> v, age |-> 0] /\ x = Row(v)
                        /\ e = Edge(tuple_id', conf.size)
  OBVIOUS
<1>3. PICK old :
         /\ recent' = Append(old, y) /\ old \in Seq(Tuples) /\ Falling(old)
         /\ B \in Seq(Rows) /\ Numbered(B, tuple_id') /\ Len(B) = Len(rows)
         /\ fresh => B = << >> /\ old = << >>
         /\ \E a, c : Match(B, old, e, a, c)
  BY <1>2, TupleComes
<1>4. PICK a, c : Match(B, old, e, a, c)
  BY <1>3
<1>5. e \in Nat \ {0}
  BY ONLY <1>1, <1>2, EdgeMoves, 0 \in Nat
<1>6. New(x, y, v, tuple_id')
  BY <1>2 DEF New, Row
<1>7. Arrived(B, old, x, y, v, tuple_id', e, a, c)
  BY <1>1, <1>3, <1>4, <1>5, <1>6 DEF Arrived
<1>8. conf \in Configs
  BY DEF WindowInv
<1> QED
  BY ONLY <1>1, <1>2, <1>3, <1>7, <1>8

\* What such an action has to establish.
LEMMA Settles ==
  ASSUME conf' = conf, conf \in Configs, trimmed' \in BOOLEAN, fresh' = FALSE,
         tuple_id' \in Ids, rows' \in Seq(Rows), Numbered(rows', tuple_id'),
         recent' \in Seq(Tuples), Falling(recent'), NEW e, e = Edge(tuple_id', conf.size),
         NEW a, NEW c, Match(rows', recent', e, a, c),
         conf.use # "join" \/ trimmed' => a = 0
  PROVE  WindowInv'
  BY DEF WindowInv, RowsInv

\* A view pops what has expired and puts the tuple.
LEMMA ViewInsertInv ==
  ASSUME WindowInv, NEW d \in 0..MaxGap, NEW v \in conf.vals, ViewInsert(d, v)
  PROVE  WindowInv'
<1>1. Tuple(d, v) /\ conf' = conf /\ trimmed' = trimmed /\ conf.use = "view"
  BY DEF ViewInsert
<1>2. conf.use \in Whole
  BY <1>1 DEF Whole
<1>3. conf.size \in 1..(M - 1) /\ conf \in Configs /\ fresh' = FALSE
  BY <1>1, <1>2, Arrives
<1>4. PICK B, old, x, y, e, a, c :
         /\ Arrived(B, old, x, y, v, tuple_id', e, a, c)
         /\ B = Aged(rows, Gap(d)) /\ recent' = Append(old, y) /\ x = Row(v)
         /\ e = Edge(tuple_id', conf.size)
  BY <1>1, <1>2, Arrives
<1>5. PICK D : D = Kept(B, tuple_id')
  OBVIOUS
<1>6. D \in Seq(Rows) /\ Numbered(D, tuple_id') /\ Match(D, old, e, 0, c)
  <2>1. Len(old) \in Nat
    BY <1>4 DEF Arrived
  <2> QED
    BY ONLY <1>3, <1>4, <1>5, <2>1, KeptMatch DEF Arrived
<1>7. rows' = Append(D, x)
  BY <1>4, <1>5 DEF ViewInsert
<1>8. /\ rows' \in Seq(Rows) /\ Numbered(rows', tuple_id')
      /\ recent' \in Seq(Tuples) /\ Falling(recent') /\ Match(rows', recent', e, 0, c)
  BY ONLY <1>4, <1>6, <1>7, BothAppend DEF Arrived
<1> QED
  BY ONLY <1>1, <1>3, <1>4, <1>8, Settles, WindowInv DEF WindowInv, Arrived

\* The window manager of a join puts the tuple.
LEMMA WmPutInv ==
  ASSUME WindowInv, NEW d \in 0..MaxGap, NEW v \in conf.vals, WmPut(d, v)
  PROVE  WindowInv'
<1>1. Tuple(d, v) /\ conf' = conf /\ trimmed' = FALSE /\ conf.use = "join"
  BY DEF WmPut
<1>2. conf.use \in Whole
  BY <1>1 DEF Whole
<1>3. conf.size \in 1..(M - 1) /\ conf \in Configs /\ fresh' = FALSE
  BY <1>1, <1>2, Arrives
<1>4. PICK B, old, x, y, e, a, c :
         /\ Arrived(B, old, x, y, v, tuple_id', e, a, c)
         /\ B = Aged(rows, Gap(d)) /\ recent' = Append(old, y) /\ x = Row(v)
         /\ e = Edge(tuple_id', conf.size)
  BY <1>1, <1>2, Arrives
<1>5. rows' = Append(B, x)
  BY <1>4 DEF WmPut
<1>6. /\ rows' \in Seq(Rows) /\ Numbered(rows', tuple_id')
      /\ recent' \in Seq(Tuples) /\ Falling(recent') /\ Match(rows', recent', e, a, c)
  BY ONLY <1>4, <1>5, BothAppend DEF Arrived
<1> QED
  BY ONLY <1>1, <1>3, <1>4, <1>6, Settles DEF Arrived

\* The join trims.
LEMMA JoinTrimInv == WindowInv /\ JoinTrim => WindowInv'
<1> SUFFICES ASSUME WindowInv, JoinTrim PROVE WindowInv'
  OBVIOUS
<1>1. /\ conf' = conf /\ tuple_id' = tuple_id /\ fresh' = fresh /\ recent' = recent
      /\ trimmed' = TRUE /\ conf.use = "join" /\ rows' = Kept(rows, tuple_id)
  BY DEF JoinTrim
<1>2. conf.use \in Whole /\ RowsInv /\ conf.size \in 1..(M - 1)
  BY <1>1, WindowAssumption DEF Whole, WindowInv
<1>3. PICK e, a, c : e = Edge(tuple_id, conf.size) /\ Match(rows, recent, e, a, c)
  BY <1>2 DEF RowsInv
<1>4. rows \in Seq(Rows) /\ Numbered(rows, tuple_id) /\ tuple_id \in Ids
      /\ Len(recent) \in Nat
  BY <1>2 DEF RowsInv, WindowInv
<1>5. rows' \in Seq(Rows) /\ Numbered(rows', tuple_id) /\ Match(rows', recent, e, 0, c)
  BY ONLY <1>1, <1>2, <1>3, <1>4, KeptMatch
<1>6. fresh => rows' = << >> /\ recent = << >>
  <2> SUFFICES ASSUME fresh PROVE rows' = << >> /\ recent = << >>
    OBVIOUS
  <2>1. rows = << >> /\ recent = << >>
    BY <1>2 DEF RowsInv
  <2>2. DOMAIN rows = {}
    BY <2>1
  <2> QED
    BY <1>1, <2>1, <2>2 DEF Kept, From
<1>7. RowsInv'
  BY <1>1, <1>3, <1>5, <1>6 DEF RowsInv
<1> QED
  BY <1>1, <1>7 DEF WindowInv

\* The other windows keep only their tuples' history.
LEMMA OtherInv ==
  ASSUME WindowInv, NEW d \in 0..MaxGap, NEW v \in conf.vals, Tuple(d, v), conf' = conf,
         trimmed' = trimmed, conf.use \notin Whole
  PROVE  WindowInv'
<1>1. tuple_id' \in Ids /\ fresh' = FALSE /\ v \in Int
  BY TupleComes
<1>2. PICK y : y = [v |-> v, age |-> 0]
  OBVIOUS
<1>3. PICK old : recent' = Append(old, y) /\ old \in Seq(Tuples) /\ Falling(old)
  BY <1>2, TupleComes
<1>4. y \in Tuples /\ y.age = 0
  BY <1>1, <1>2 DEF Tuples
<1>5. recent' \in Seq(Tuples) /\ Falling(recent')
  BY ONLY <1>3, <1>4, FallingAppend
<1> QED
  BY <1>1, <1>5 DEF WindowInv

\* The first tuple of a group.
LEMMA AggrInitInv ==
  ASSUME WindowInv, NEW d \in 0..MaxGap, NEW v \in conf.vals, AggrInit(d, v)
  PROVE  WindowInv'
<1>1. /\ Tuple(d, v) /\ conf' = conf /\ trimmed' = trimmed /\ conf.use \in Aggregates
      /\ fresh /\ conf.use # "join"
  BY DEF AggrInit, Aggregates
<1>2. CASE conf.use \notin Whole
  BY <1>1, <1>2, OtherInv
<1>3. CASE conf.use \in Whole
  <2>1. conf.size \in 1..(M - 1) /\ conf \in Configs /\ fresh' = FALSE
    BY <1>1, <1>3, Arrives
  <2>2. PICK B, old, x, y, e, a, c :
           /\ Arrived(B, old, x, y, v, tuple_id', e, a, c)
           /\ B = << >> /\ recent' = Append(old, y) /\ x = Row(v)
           /\ e = Edge(tuple_id', conf.size)
    BY <1>1, <1>3, Arrives
  <2>3. rows' = Append(B, x)
    BY <2>2 DEF AggrInit
  <2>4. a = 0
    BY <2>2 DEF Arrived, Match
  <2>5. /\ rows' \in Seq(Rows) /\ Numbered(rows', tuple_id')
        /\ recent' \in Seq(Tuples) /\ Falling(recent') /\ Match(rows', recent', e, a, c)
    BY ONLY <2>2, <2>3, BothAppend DEF Arrived
  <2> QED
    BY ONLY <1>1, <2>1, <2>2, <2>4, <2>5, Settles, WindowInv DEF WindowInv, Arrived
<1> QED
  BY <1>2, <1>3

\* A later one: it is put before the expired rows are popped.
LEMMA AggrIterateInv ==
  ASSUME WindowInv, NEW d \in 0..MaxGap, NEW v \in conf.vals, AggrIterate(d, v)
  PROVE  WindowInv'
<1>1. /\ Tuple(d, v) /\ conf' = conf /\ trimmed' = trimmed /\ conf.use \in Aggregates
      /\ conf.use # "join"
  BY DEF AggrIterate, Aggregates
<1>2. CASE conf.use \notin Whole
  BY <1>1, <1>2, OtherInv
<1>3. CASE conf.use \in Whole
  <2>1. conf.size \in 1..(M - 1) /\ conf \in Configs /\ fresh' = FALSE
    BY <1>1, <1>3, Arrives
  <2>2. PICK B, old, x, y, e, a, c :
           /\ Arrived(B, old, x, y, v, tuple_id', e, a, c)
           /\ B = Aged(rows, Gap(d)) /\ recent' = Append(old, y) /\ x = Row(v)
           /\ e = Edge(tuple_id', conf.size)
    BY <1>1, <1>3, Arrives
  <2>3. PICK s : s = Append(B, x)
    OBVIOUS
  <2>4. /\ s \in Seq(Rows) /\ Numbered(s, tuple_id')
        /\ recent' \in Seq(Tuples) /\ Falling(recent') /\ Match(s, recent', e, a, c)
    BY ONLY <2>2, <2>3, BothAppend DEF Arrived
  <2>5. rows' = Kept(s, tuple_id')
    <3>1. conf.use # "min" /\ conf.use # "max"
      BY <1>3 DEF Whole
    <3> QED
      BY <2>2, <2>3, <3>1 DEF AggrIterate, Undominated
  <2>6. Len(recent') \in Nat /\ tuple_id' \in Ids
    BY <2>2, <2>4 DEF Arrived
  <2>7. rows' \in Seq(Rows) /\ Numbered(rows', tuple_id') /\ Match(rows', recent', e, 0, c)
    BY ONLY <2>1, <2>2, <2>4, <2>5, <2>6, KeptMatch
  <2> QED
    BY ONLY <1>1, <2>1, <2>2, <2>4, <2>6, <2>7, Settles, WindowInv DEF WindowInv
<1> QED
  BY <1>2, <1>3

LEMMA WindowInvStep == WindowInv /\ [Next]_vars => WindowInv'
<1> SUFFICES ASSUME WindowInv, [Next]_vars PROVE WindowInv'
  OBVIOUS
<1>1. ASSUME NEW d \in 0..MaxGap, NEW v \in conf.vals, BasePut(d, v) PROVE WindowInv'
  BY <1>1, OtherInv DEF BasePut, Whole
<1>2. CASE UNCHANGED vars
  BY <1>2 DEF vars, WindowInv, RowsInv
<1>3. CASE JoinTrim
  BY <1>3, JoinTrimInv
<1>4. ASSUME NEW d \in 0..MaxGap, NEW v \in conf.vals,
             BaseSkip(d, v) \/ BaseOutput(d, v) \/ BaseInit(d, v) \/ BaseIterate(d, v)
      PROVE  WindowInv'
  BY <1>1, <1>4 DEF BaseSkip, BaseOutput, BaseInit, BaseIterate
<1> QED
  BY <1>2, <1>3, <1>4, ViewInsertInv, WmPutInv, AggrInitInv, AggrIterateInv DEF Next

\* What matches is shown.
LEMMA MatchShown ==
  ASSUME NEW R \in Seq(Rows), NEW C \in Seq(Tuples), NEW e \in Nat, NEW a, NEW c,
         e = Edge(tuple_id, conf.size), Match(R, C, e, a, c)
  PROVE  Shown(Present(R)) = Present(C) /\ (a = 0 => Present(R) = R)
<1>1. PICK r \in Nat, n \in Nat : r = Len(R) /\ n = Len(C) /\ DOMAIN R = 1..r
                                  /\ DOMAIN C = 1..n
  OBVIOUS
<1>2. /\ a \in Nat /\ c \in Nat /\ a <= r /\ c <= n /\ r - a = n - c
      /\ \A k \in 1..r : R[k].age < e <=> k > a
      /\ \A k \in 1..n : C[k].age < e <=> k > c
      /\ \A k \in 1..(r - a) : R[a + k].v = C[c + k].v /\ R[a + k].age = C[c + k].age
  BY <1>1 DEF Match
<1>3. PICK K : K = Young(R) /\ Behind(K, Len(R), a)
  <2>1. Young(R) = {k \in 1..r : R[k].age < e}
    BY <1>1 DEF Young
  <2> QED
    BY <1>1, <1>2, <2>1 DEF Behind
<1>4. PICK L : L = Young(C) /\ Behind(L, Len(C), c)
  <2>1. Young(C) = {k \in 1..n : C[k].age < e}
    BY <1>1 DEF Young
  <2> QED
    BY <1>1, <1>2, <2>1 DEF Behind
<1>5. PICK P, Q : P = Present(R) /\ Q = Present(C)
  OBVIOUS
<1>6. P \in Seq(Rows) /\ Rest(R, P, a)
  BY ONLY <1>3, <1>5, FromAt, R \in Seq(Rows) DEF Present
<1>7. Q \in Seq(Tuples) /\ Rest(C, Q, c)
  BY ONLY <1>4, <1>5, FromAt, C \in Seq(Tuples) DEF Present
<1>8. PICK m \in Nat : m = r - a /\ m = n - c
  BY <1>2
<1>9. /\ Len(P) = m /\ DOMAIN P = 1..m /\ \A i \in 1..m : P[i] = R[a + i]
      /\ Len(Q) = m /\ DOMAIN Q = 1..m /\ \A i \in 1..m : Q[i] = C[c + i]
  BY <1>1, <1>6, <1>7, <1>8 DEF Rest
<1>10. Shown(P) = Q
  <2>1. ASSUME NEW k \in 1..m PROVE [v |-> P[k].v, age |-> P[k].age] = Q[k]
    <3>1. PICK w \in Tuples : w = Q[k]
      BY <1>7, <1>9
    <3>2. w.v = P[k].v /\ w.age = P[k].age
      BY <1>2, <1>8, <1>9, <3>1
    <3> QED
      BY <3>1, <3>2 DEF Tuples
  <2>2. Shown(P) = [k \in 1..m |-> [v |-> P[k].v, age |-> P[k].age]]
    BY <1>9 DEF Shown
  <2>3. Q = [k \in 1..m |-> Q[k]]
    BY <1>7, <1>9
  <2> QED
    BY ONLY <2>1, <2>2, <2>3
<1>11. ASSUME a = 0 PROVE P = R
  <2>1. m = r /\ \A i \in 1..m : a + i = i
    BY <1>8, <1>11
  <2> QED
    BY <1>1, <1>6, <1>9, <2>1
<1> QED
  BY <1>5, <1>10, <1>11

LEMMA WindowHolds == WindowInv => WindowExact
<1> SUFFICES ASSUME WindowInv PROVE WindowExact
  OBVIOUS
<1>1. CASE conf.use \notin Whole
  BY <1>1 DEF WindowExact, Whole
<1>2. CASE conf.use \in Whole
  <2>1. conf.size \in 1..(M - 1) /\ tuple_id \in Ids /\ RowsInv
    BY <1>2, WindowAssumption DEF WindowInv
  <2>2. PICK e, a, c : /\ e = Edge(tuple_id, conf.size) /\ Match(rows, recent, e, a, c)
                       /\ conf.use # "join" \/ trimmed => a = 0
    BY <2>1 DEF RowsInv
  <2>3. e \in Nat
    BY ONLY <2>1, <2>2, EdgeMoves, 0 \in Nat
  <2>4. rows \in Seq(Rows) /\ recent \in Seq(Tuples)
    BY <2>1 DEF WindowInv, RowsInv
  <2>5. Shown(Present(rows)) = Present(recent) /\ (a = 0 => Present(rows) = rows)
    BY ONLY <2>2, <2>3, <2>4, MatchShown
  <2> QED
    BY ONLY <2>2, <2>5 DEF WindowExact
<1> QED
  BY <1>1, <1>2

\* Whatever the width of an unsigned int, the sizes of the windows and the gaps
\* between the tuples: a view and the window of a sum or a count hold exactly
\* the tuples of the window, and so does a join's when it is read, across any
\* number of wraps of tuple_id (windowBuf.cc, getExpired; winbuf.cc).
THEOREM WindowsExact == Spec => []WindowExact
<1> QED
  BY WindowHolds, InitWindowInv, WindowInvStep, PTL DEF Spec

-----------------------------------------------------------------------------
(* Sums                                                                     *)

\* f is what Total adds up over the first n of s.
Sums(f, s, n) == f = [k \in 0..n |-> IF k = 0 THEN 0 ELSE f[k - 1] + s[k].v]

LEMMA SumsAt ==
  ASSUME NEW f, NEW s, NEW n \in Nat, Sums(f, s, n)
  PROVE  f[0] = 0 /\ \A k \in 1..n : f[k] = f[k - 1] + s[k].v
<1> DEFINE g == [k \in 0..n |-> IF k = 0 THEN 0 ELSE f[k - 1] + s[k].v]
<1>1. f = g
  BY DEF Sums
<1>2. g[0] = 0 /\ \A k \in 1..n : g[k] = f[k - 1] + s[k].v
  OBVIOUS
<1> HIDE DEF g
<1> QED
  BY <1>1, <1>2

\* The recursive definition defines a function.
LEMMA SumsExist == ASSUME NEW s PROVE \A n \in Nat : \E f : Sums(f, s, n)
<1> DEFINE P == {n \in Nat : \E f : Sums(f, s, n)}
<1>1. 0 \in P
  <2>1. Sums([k \in 0..0 |-> 0], s, 0)
    BY DEF Sums
  <2> QED
    BY <2>1
<1>2. ASSUME NEW n \in Nat, n \in P PROVE n + 1 \in P
  <2>1. PICK f : Sums(f, s, n)
    BY <1>2
  <2> DEFINE g == [k \in 0..(n + 1) |-> IF k = 0 THEN 0 ELSE f[k - 1] + s[k].v]
  <2>2. f[0] = 0 /\ \A k \in 1..n : f[k] = f[k - 1] + s[k].v
    BY <2>1, SumsAt
  <2>3. \A k \in 0..n : g[k] = f[k]
    BY <2>2
  <2>4. \A k \in 0..(n + 1) : k # 0 => k - 1 \in 0..n
    OBVIOUS
  <2>5. Sums(g, s, n + 1)
    BY <2>3, <2>4 DEF Sums
  <2> QED
    BY <2>5
<1> HIDE DEF P
<1>3. \A n \in Nat : n \in P
  BY <1>1, <1>2, NatInd
<1> QED
  BY <1>3 DEF P

\* s has n elements whose v are integers.
Valued(s, n) == n \in Nat /\ Len(s) = n /\ \A k \in 1..n : s[k].v \in Int

\* f has the sums of the first elements of s.
Partial(f, s, n) == /\ f \in [0..n -> Int] /\ f[0] = 0
                    /\ \A k \in 1..n : f[k] = f[k - 1] + s[k].v

\* t has the values of s behind p.
Part(t, m, s, p) == \A k \in 1..m : t[k].v = s[p + k].v

LEMMA TotalSums ==
  ASSUME NEW s, NEW n, Valued(s, n)
  PROVE  \E f : Partial(f, s, n) /\ Total(s) = f[n]
<1> DEFINE f == CHOOSE f : Sums(f, s, Len(s))
<1>1. n \in Nat /\ Len(s) = n /\ \A k \in 1..n : s[k].v \in Int
  BY DEF Valued
<1>2. Sums(f, s, n)
  BY <1>1, SumsExist
<1>3. Total(s) = f[n]
  BY <1>1 DEF Total, Sums
<1> HIDE DEF f
<1>4. f[0] = 0 /\ \A k \in 1..n : f[k] = f[k - 1] + s[k].v
  BY <1>1, <1>2, SumsAt
<1> DEFINE P == {k \in Nat : k \in 0..n => f[k] \in Int}
<1>5. 0 \in P
  BY <1>4
<1>6. ASSUME NEW k \in Nat, k \in P PROVE k + 1 \in P
  <2> SUFFICES ASSUME k + 1 \in 0..n PROVE f[k + 1] \in Int
    OBVIOUS
  <2>1. k \in 0..n /\ k + 1 \in 1..n /\ (k + 1) - 1 = k
    BY <1>1
  <2>2. f[k] \in Int
    BY <1>6, <2>1
  <2>3. f[k + 1] = f[k] + s[k + 1].v
    BY <1>4, <2>1
  <2> QED
    BY <1>1, <2>1, <2>2, <2>3
<1> HIDE DEF P
<1>7. \A k \in Nat : k \in P
  BY <1>5, <1>6, NatInd
<1>8. \A k \in 0..n : f[k] \in Int
  <2>1. \A k \in 0..n : k \in Nat
    BY <1>1
  <2> QED
    BY <1>7, <2>1 DEF P
<1>9. f \in [0..n -> Int]
  <2>1. f = [k \in 0..n |-> IF k = 0 THEN 0 ELSE f[k - 1] + s[k].v]
    BY <1>2 DEF Sums
  <2>2. DOMAIN f = 0..n /\ f = [k \in DOMAIN f |-> f[k]]
    BY <2>1, <1>4
  <2> QED
    BY <1>8, <2>2
<1> QED
  BY <1>3, <1>4, <1>9 DEF Partial

\* Parts of a sequence add up.
LEMMA SumShift ==
  ASSUME NEW n \in Nat, NEW m \in Nat, NEW p \in Nat, p + m <= n, NEW s, NEW t, NEW f, NEW g,
         Valued(t, m), Partial(f, s, n), Partial(g, t, m), Part(t, m, s, p)
  PROVE  g[m] = f[p + m] - f[p]
<1> DEFINE P == {k \in Nat : k \in 0..m => g[k] = f[p + k] - f[p]}
<1>0. /\ f \in [0..n -> Int] /\ \A k \in 1..n : f[k] = f[k - 1] + s[k].v
      /\ g \in [0..m -> Int] /\ g[0] = 0 /\ \A k \in 1..m : g[k] = g[k - 1] + t[k].v
  BY DEF Partial
<1>1. 0 \in P
  <2>1. p + 0 = p /\ f[p] \in Int
    BY <1>0
  <2> QED
    BY <1>0, <2>1
<1>2. ASSUME NEW k \in Nat, k \in P PROVE k + 1 \in P
  <2> SUFFICES ASSUME k + 1 \in 0..m PROVE g[k + 1] = f[p + (k + 1)] - f[p]
    OBVIOUS
  <2>1. /\ k \in 0..m /\ k + 1 \in 1..m /\ (k + 1) - 1 = k
        /\ p + (k + 1) \in 1..n /\ (p + (k + 1)) - 1 = p + k /\ p + k \in 0..n /\ p \in 0..n
    OBVIOUS
  <2>2. PICK u \in Int, w \in Int, z \in Int, q \in Int :
           u = f[p] /\ w = f[p + k] /\ z = g[k] /\ q = t[k + 1].v /\ q = s[p + (k + 1)].v
    BY <1>0, <2>1 DEF Valued, Part
  <2>3. z = w - u
    BY <1>2, <2>1, <2>2
  <2>4. g[k + 1] = z + q
    BY <1>0, <2>1, <2>2
  <2>5. f[p + (k + 1)] = w + q
    BY ONLY <1>0, <2>1, <2>2
  <2> QED
    BY ONLY <2>2, <2>3, <2>4, <2>5
<1> HIDE DEF P
<1>3. m \in P
  BY <1>1, <1>2, NatInd
<1> QED
  BY <1>3 DEF P

\* The sum of what has the same values is the same.
LEMMA TotalSame ==
  ASSUME NEW s, NEW t, NEW n, Valued(s, n), Valued(t, n), \A k \in 1..n : s[k].v = t[k].v
  PROVE  Total(s) = Total(t)
<1>1. PICK f : Partial(f, s, n) /\ Total(s) = f[n]
  BY TotalSums
<1>2. PICK g : Partial(g, t, n) /\ Total(t) = g[n]
  BY TotalSums
<1>3. n \in Nat /\ 0 + n <= n /\ 0 \in Nat /\ Part(t, n, s, 0)
  BY DEF Valued, Part
<1>4. g[n] = f[0 + n] - f[0]
  BY ONLY <1>1, <1>2, <1>3, SumShift, Valued(t, n)
<1>5. 0 + n = n /\ n \in 0..n
  BY <1>3
<1> QED
  BY <1>1, <1>2, <1>4, <1>5 DEF Partial

\* What AGGR_ITERATE does with a sum: from that of b it gets that of what is
\* left of b and a new row with v, when the first p go.
Slides(b, n, s, m, v, gone, p, rest, r) ==
    /\ n \in Nat /\ m \in Nat /\ p \in Nat /\ r \in Nat /\ m = n + 1 /\ p + r = m
    /\ Valued(b, n) /\ Valued(s, m) /\ Part(b, n, s, 0) /\ v \in Int /\ s[m].v = v
    /\ Valued(gone, p) /\ Part(gone, p, s, 0) /\ Valued(rest, r) /\ Part(rest, r, s, p)

LEMMA TotalSlides ==
  ASSUME NEW b, NEW n, NEW s, NEW m, NEW v, NEW gone, NEW p, NEW rest, NEW r,
         Slides(b, n, s, m, v, gone, p, rest, r)
  PROVE  Total(rest) = Total(b) - Total(gone) + v
<1>0. /\ n \in Nat /\ m \in Nat /\ p \in Nat /\ r \in Nat /\ m = n + 1 /\ p + r = m
      /\ Valued(b, n) /\ Valued(s, m) /\ Part(b, n, s, 0) /\ v \in Int /\ s[m].v = v
      /\ Valued(gone, p) /\ Part(gone, p, s, 0) /\ Valued(rest, r) /\ Part(rest, r, s, p)
  BY DEF Slides
<1>1. PICK f : Partial(f, s, m) /\ Total(s) = f[m]
  BY ONLY <1>0, TotalSums
<1>2. PICK g : Partial(g, b, n) /\ Total(b) = g[n]
  BY ONLY <1>0, TotalSums
<1>3. PICK h : Partial(h, gone, p) /\ Total(gone) = h[p]
  BY ONLY <1>0, TotalSums
<1>4. PICK q : Partial(q, rest, r) /\ Total(rest) = q[r]
  BY ONLY <1>0, TotalSums
<1>5. 0 \in Nat /\ 0 + n <= m /\ 0 + p <= m /\ p + r <= m
  BY ONLY <1>0
<1>6. g[n] = f[0 + n] - f[0]
  <2>1. /\ n \in Nat /\ m \in Nat /\ 0 \in Nat /\ 0 + n <= m /\ Valued(b, n)
        /\ Partial(f, s, m) /\ Partial(g, b, n) /\ Part(b, n, s, 0)
    BY ONLY <1>0, <1>1, <1>2, <1>5
  <2> QED
    BY ONLY <2>1, SumShift
<1>7. h[p] = f[0 + p] - f[0]
  <2>1. /\ p \in Nat /\ m \in Nat /\ 0 \in Nat /\ 0 + p <= m /\ Valued(gone, p)
        /\ Partial(f, s, m) /\ Partial(h, gone, p) /\ Part(gone, p, s, 0)
    BY ONLY <1>0, <1>1, <1>3, <1>5
  <2> QED
    BY ONLY <2>1, SumShift
<1>8. q[r] = f[p + r] - f[p]
  <2>1. /\ r \in Nat /\ m \in Nat /\ p \in Nat /\ p + r <= m /\ Valued(rest, r)
        /\ Partial(f, s, m) /\ Partial(q, rest, r) /\ Part(rest, r, s, p)
    BY ONLY <1>0, <1>1, <1>4, <1>5
  <2> QED
    BY ONLY <2>1, SumShift
<1>9. /\ 0 + n = n /\ 0 + p = p /\ m - 1 = n /\ m \in 1..m /\ p \in 0..m /\ n \in 0..m
      /\ m \in 0..m
  BY ONLY <1>0
<1>10. f[0] = 0 /\ f[m] = f[n] + v /\ f[n] \in Int /\ f[m] \in Int /\ f[p] \in Int
  BY ONLY <1>0, <1>1, <1>9 DEF Partial
<1>11. PICK i \in Int, j \in Int, k \in Int : i = f[n] /\ j = f[m] /\ k = f[p]
  BY ONLY <1>10
<1>12. g[n] = i /\ h[p] = k /\ q[r] = j - k /\ j = i + v
  BY ONLY <1>0, <1>6, <1>7, <1>8, <1>9, <1>10, <1>11
<1> QED
  BY ONLY <1>0, <1>2, <1>3, <1>4, <1>12, i \in Int, j \in Int, k \in Int

\* The value of a count and of a sum.
ValueInv ==
    ~fresh => /\ conf.use = "count" => value = Len(rows)
              /\ conf.use = "sum" => value = Total(rows)

\* What the last step needs about the rows that come and go.
LEMMA RowsValued ==
  ASSUME NEW s \in Seq(Rows)
  PROVE  Valued(s, Len(s))
<1>1. \A k \in 1..Len(s) : s[k] \in Rows
  OBVIOUS
<1> QED
  BY <1>1 DEF Valued, Rows

LEMMA AggrInitValue ==
  ASSUME WindowInv, NEW d \in 0..MaxGap, NEW v \in conf.vals, AggrInit(d, v)
  PROVE  ValueInv'
<1>1. /\ rows' = <<Row(v)>> /\ conf' = conf
      /\ value' = IF conf.use = "count" THEN 1 ELSE v
  BY DEF AggrInit
<1>2. v \in Int
  BY WindowAssumption DEF WindowInv
<1>3. Valued(rows', 1) /\ rows'[1].v = v /\ Len(rows') = 1
  BY <1>1, <1>2 DEF Valued, Row
<1>4. PICK f : Partial(f, rows', 1) /\ Total(rows') = f[1]
  BY <1>3, TotalSums
<1>5. f[1] = f[0] + v /\ f[0] = 0
  BY <1>3, <1>4, 1 \in 1..1, 1 - 1 = 0 DEF Partial
<1>6. Total(rows') = v
  BY <1>2, <1>4, <1>5
<1>7. Total(rows') = Total(rows)'
  BY DEF Total
<1> QED
  BY <1>1, <1>3, <1>6, <1>7 DEF ValueInv

LEMMA AggrIterateValue ==
  ASSUME WindowInv, ValueInv, NEW d \in 0..MaxGap, NEW v \in conf.vals, AggrIterate(d, v),
         conf.use \in {"sum", "count"}
  PROVE  ValueInv'
<1>1. Tuple(d, v) /\ conf' = conf /\ ~fresh /\ conf.use \in Whole
      /\ conf.use # "min" /\ conf.use # "max"
  BY DEF AggrIterate, Whole
<1>2. conf.size \in 1..(M - 1) /\ rows \in Seq(Rows)
  BY <1>1, Arrives DEF WindowInv, RowsInv
<1>3. PICK B, old, x, y, e, a, c :
         /\ Arrived(B, old, x, y, v, tuple_id', e, a, c)
         /\ B = Aged(rows, Gap(d)) /\ recent' = Append(old, y) /\ x = Row(v)
         /\ e = Edge(tuple_id', conf.size)
         /\ fresh => B = << >> /\ old = << >>
         /\ Len(B) = Len(rows)
  BY <1>1, Arrives
<1>4. PICK s : s = Append(B, x)
  OBVIOUS
<1>5. /\ s \in Seq(Rows) /\ Numbered(s, tuple_id')
      /\ recent' \in Seq(Tuples) /\ Match(s, recent', e, a, c)
  BY ONLY <1>3, <1>4, BothAppend DEF Arrived
<1>6. PICK D : D = Kept(s, tuple_id')
  OBVIOUS
<1>7. D \in Seq(Rows) /\ Rest(s, D, a)
  <2>1. Len(recent') \in Nat /\ tuple_id' \in Ids
    BY <1>3, <1>5 DEF Arrived
  <2> QED
    BY ONLY <1>2, <1>3, <1>5, <1>6, <2>1, KeptMatch
<1>8. rows' = D /\ value' = Result(v, Popped(s, tuple_id'), D)
  BY <1>1, <1>3, <1>4, <1>6 DEF AggrIterate, Undominated
<1>9. PICK n \in Nat, m \in Nat, p \in Nat, r \in Nat :
         n = Len(B) /\ m = Len(s) /\ m = n + 1 /\ p = a /\ p + r = m /\ r = m - p
  <2>1. PICK n \in Nat : n = Len(B) /\ Len(s) = n + 1
    BY <1>3, <1>4 DEF Arrived
  <2>2. a \in Nat /\ a <= n + 1
    BY <1>5, <2>1 DEF Match
  <2>3. PICK p \in Nat, m \in Nat, r \in Nat : p = a /\ m = n + 1 /\ r = m - p
    BY <2>2
  <2> QED
    BY <2>1, <2>3
<1>10. Len(D) = r /\ \A i \in 1..r : D[i] = s[p + i]
  BY <1>7, <1>9 DEF Rest
<1>11. PICK gone : gone = Popped(s, tuple_id')
  OBVIOUS
<1>12. Len(gone) = p /\ \A i \in 1..p : gone[i] = s[i]
  <2>0. m - r = p /\ \A i \in 1..p : i \in 1..m
    BY <1>9
  <2>1. gone = SubSeq(s, 1, p)
    BY <1>6, <1>9, <1>10, <1>11, <2>0 DEF Popped
  <2>2. \A i \in 1..p : s[i] \in Rows
    <3>1. s \in Seq(Rows)
      BY <1>5
    <3>2. \A i \in 1..Len(s) : s[i] \in Rows
      BY ONLY <3>1
    <3>3. Len(s) = m
      BY <1>9
    <3> QED
      BY ONLY <2>0, <3>2, <3>3
  <2>3. /\ Len(SubSeq(s, 1, p)) = IF 1 <= p THEN p - 1 + 1 ELSE 0
        /\ \A i \in 1..(p - 1 + 1) : SubSeq(s, 1, p)[i] = s[1 + i - 1]
    BY <2>2, SubSeqProperties, 1 \in Int, p \in Int
  <2>4. p - 1 + 1 = p /\ \A i \in Nat : 1 + i - 1 = i
    OBVIOUS
  <2>5. ASSUME NEW i \in 1..p PROVE gone[i] = s[i]
    <3>1. i \in Nat
      OBVIOUS
    <3> QED
      BY ONLY <2>1, <2>3, <2>4, <3>1, i \in 1..p
  <2> QED
    BY <2>1, <2>3, <2>4, <2>5
<1>13. fresh' = FALSE
  BY <1>1, Arrives
<1>14. CASE conf.use = "count"
  <2>1. value = n /\ value' = value - p + 1
    BY <1>1, <1>3, <1>8, <1>9, <1>11, <1>12, <1>14 DEF ValueInv, Result
  <2>2. value' = r
    BY <1>9, <2>1
  <2> QED
    BY <1>1, <1>8, <1>10, <1>14, <2>2 DEF ValueInv
<1>15. CASE conf.use = "sum"
  <2>1. value = Total(rows) /\ value' = value - Total(gone) + v
    BY <1>1, <1>8, <1>11, <1>15 DEF ValueInv, Result
  <2>2. B \in Seq(Rows) /\ v \in Int /\ s[m] = x /\ x.v = v /\ \A k \in 1..n : s[k] = B[k]
    BY <1>3, <1>4, <1>9 DEF Arrived, New
  <2>3. Valued(B, n) /\ Valued(rows, n) /\ Valued(s, m) /\ Valued(D, r)
    BY <1>2, <1>3, <1>5, <1>7, <1>9, <1>10, <2>2, RowsValued
  <2>4. Valued(gone, p)
    <3>1. \A k \in 1..p : k \in 1..m
      BY <1>9
    <3> QED
      BY <1>12, <2>3, <3>1 DEF Valued
  <2>5. Total(B) = Total(rows)
    <3>1. Gap(d) \in Nat
      BY <1>1, TupleComes
    <3>2. \A k \in 1..n : B[k].v = rows[k].v
      BY <1>2, <1>3, <1>9, <3>1, AgedRow
    <3> QED
      BY ONLY <2>3, <3>2, TotalSame
  <2>6. Part(B, n, s, 0) /\ Part(gone, p, s, 0) /\ Part(D, r, s, p)
    BY <1>10, <1>12, <2>2 DEF Part
  <2>7. s[m].v = v /\ m = n + 1 /\ p + r = m
    BY <1>9, <2>2
  <2>8. Total(D) = Total(B) - Total(gone) + v
    <3>1. Slides(B, n, s, m, v, gone, p, D, r)
      BY <2>2, <2>3, <2>4, <2>6, <2>7 DEF Slides
    <3> QED
      BY ONLY <3>1, TotalSlides
  <2>9. Total(rows)' = Total(D)
    BY <1>8 DEF Total
  <2> QED
    BY <1>1, <1>15, <2>1, <2>5, <2>8, <2>9 DEF ValueInv
<1> QED
  BY <1>14, <1>15

LEMMA ValueInvStep == WindowInv /\ ValueInv /\ [Next]_vars => ValueInv'
<1> SUFFICES ASSUME WindowInv, ValueInv, [Next]_vars PROVE ValueInv'
  OBVIOUS
<1>1. CASE UNCHANGED vars
  <2>1. Total(rows)' = Total(rows) /\ Len(rows)' = Len(rows)
    BY <1>1 DEF vars, Total
  <2> QED
    BY <1>1, <2>1 DEF vars, ValueInv
<1>2. CASE conf' = conf /\ conf.use \notin {"sum", "count"}
  BY <1>2 DEF ValueInv
<1>3. ASSUME NEW d \in 0..MaxGap, NEW v \in conf.vals, AggrInit(d, v) PROVE ValueInv'
  BY <1>3, AggrInitValue
<1>4. ASSUME NEW d \in 0..MaxGap, NEW v \in conf.vals, AggrIterate(d, v) PROVE ValueInv'
  <2>1. conf' = conf
    BY <1>4 DEF AggrIterate
  <2> QED
    BY <1>2, <1>4, <2>1, AggrIterateValue
<1>5. ASSUME NEW d \in 0..MaxGap, NEW v \in conf.vals,
             \/ ViewInsert(d, v) \/ WmPut(d, v)
             \/ BaseSkip(d, v) \/ BaseOutput(d, v) \/ BaseInit(d, v) \/ BaseIterate(d, v)
      PROVE  conf' = conf /\ conf.use \notin {"sum", "count"}
  BY <1>5 DEF ViewInsert, WmPut, BaseSkip, BaseOutput, BaseInit, BaseIterate, BasePut
<1>6. ASSUME JoinTrim PROVE conf' = conf /\ conf.use \notin {"sum", "count"}
  BY <1>6 DEF JoinTrim
<1> QED
  BY <1>1, <1>2, <1>3, <1>4, <1>5, <1>6 DEF Next

-----------------------------------------------------------------------------
(* Minima and maxima                                                        *)

\* f is what Undominated has left after each of the first n rows of s.
Filters(f, s, v, n) ==
    f = [k \in 0..n |-> IF k = 0 THEN << >>
                        ELSE IF Beats(s[k].v, v) THEN Append(f[k - 1], s[k])
                        ELSE f[k - 1]]

LEMMA FiltersAt ==
  ASSUME NEW f, NEW s, NEW v, NEW n \in Nat, Filters(f, s, v, n)
  PROVE  /\ f[0] = << >>
         /\ \A k \in 1..n : f[k] = IF Beats(s[k].v, v) THEN Append(f[k - 1], s[k])
                                   ELSE f[k - 1]
<1> DEFINE g == [k \in 0..n |-> IF k = 0 THEN << >>
                                ELSE IF Beats(s[k].v, v) THEN Append(f[k - 1], s[k])
                                ELSE f[k - 1]]
<1>1. f = g
  BY DEF Filters
<1>2. /\ g[0] = << >>
      /\ \A k \in 1..n : g[k] = IF Beats(s[k].v, v) THEN Append(f[k - 1], s[k])
                                ELSE f[k - 1]
  OBVIOUS
<1> HIDE DEF g
<1> QED
  BY <1>1, <1>2

\* The recursive definition defines a function.
LEMMA FiltersExist ==
  ASSUME NEW s, NEW v PROVE \A n \in Nat : \E f : Filters(f, s, v, n)
<1> DEFINE P == {n \in Nat : \E f : Filters(f, s, v, n)}
<1>1. 0 \in P
  <2>1. Filters([k \in 0..0 |-> << >>], s, v, 0)
    BY DEF Filters
  <2> QED
    BY <2>1
<1>2. ASSUME NEW n \in Nat, n \in P PROVE n + 1 \in P
  <2>1. PICK f : Filters(f, s, v, n)
    BY <1>2
  <2> DEFINE g == [k \in 0..(n + 1) |-> IF k = 0 THEN << >>
                                        ELSE IF Beats(s[k].v, v) THEN Append(f[k - 1], s[k])
                                        ELSE f[k - 1]]
  <2>2. /\ f[0] = << >>
        /\ \A k \in 1..n : f[k] = IF Beats(s[k].v, v) THEN Append(f[k - 1], s[k])
                                  ELSE f[k - 1]
    BY <2>1, FiltersAt
  <2>3. \A k \in 0..n : g[k] = f[k]
    BY <2>2
  <2>4. \A k \in 0..(n + 1) : k # 0 => k - 1 \in 0..n
    OBVIOUS
  <2>5. Filters(g, s, v, n + 1)
    BY <2>3, <2>4 DEF Filters
  <2> QED
    BY <2>5
<1> HIDE DEF P
<1>3. \A n \in Nat : n \in P
  BY <1>1, <1>2, NatInd
<1> QED
  BY <1>3 DEF P

\* g is, in their order, those of the first n rows of s that beat v: m tells
\* where they come from.
Picked(g, s, v, n, m) ==
    /\ g \in Seq(Rows) /\ m \in [1..Len(g) -> 1..n]
    /\ \A i \in 1..Len(g) : g[i] = s[m[i]] /\ Beats(s[m[i]].v, v)
    /\ \A i, j \in 1..Len(g) : i < j => m[i] < m[j]
    /\ \A k \in 1..n : Beats(s[k].v, v) => \E i \in 1..Len(g) : m[i] = k

LEMMA PickedMore ==
  ASSUME NEW s \in Seq(Rows), NEW v, NEW n \in Nat, n + 1 <= Len(s), NEW g, NEW m,
         Picked(g, s, v, n, m)
  PROVE  /\ Beats(s[n + 1].v, v) => \E q : Picked(Append(g, s[n + 1]), s, v, n + 1, q)
         /\ ~Beats(s[n + 1].v, v) => \E q : Picked(g, s, v, n + 1, q)
<1>1. PICK l \in Nat : l = Len(g)
  BY DEF Picked
<1>2. PICK x \in Rows : x = s[n + 1]
  OBVIOUS
<1>3. /\ g \in Seq(Rows) /\ m \in [1..l -> 1..n]
      /\ \A i \in 1..l : g[i] = s[m[i]] /\ Beats(s[m[i]].v, v)
      /\ \A i, j \in 1..l : i < j => m[i] < m[j]
      /\ \A k \in 1..n : Beats(s[k].v, v) => \E i \in 1..l : m[i] = k
  BY <1>1 DEF Picked
<1>4. \A k \in 1..(n + 1) : k = n + 1 \/ k \in 1..n
  OBVIOUS
<1>5. ASSUME ~Beats(x.v, v) PROVE Picked(g, s, v, n + 1, m)
  <2>1. m \in [1..l -> 1..(n + 1)]
    BY <1>3
  <2>2. \A k \in 1..(n + 1) : Beats(s[k].v, v) => \E i \in 1..l : m[i] = k
    BY <1>2, <1>3, <1>4, <1>5
  <2> QED
    BY ONLY <1>1, <1>3, <2>1, <2>2 DEF Picked
<1>6. ASSUME Beats(x.v, v) PROVE \E q : Picked(Append(g, x), s, v, n + 1, q)
  <2>1. PICK h : h = Append(g, x)
    OBVIOUS
  <2>2. /\ h \in Seq(Rows) /\ Len(h) = l + 1 /\ h[l + 1] = x
        /\ \A i \in 1..l : h[i] = g[i]
    BY <1>1, <1>3, <2>1
  <2> DEFINE q == [i \in 1..(l + 1) |-> IF i = l + 1 THEN n + 1 ELSE m[i]]
  <2>3. \A i \in 1..(l + 1) : i = l + 1 \/ i \in 1..l
    OBVIOUS
  <2>4. q \in [1..(l + 1) -> 1..(n + 1)] /\ q[l + 1] = n + 1 /\ \A i \in 1..l : q[i] = m[i]
    BY <1>3, <2>3
  <2> HIDE DEF q
  <2>5. ASSUME NEW i \in 1..(l + 1) PROVE h[i] = s[q[i]] /\ Beats(s[q[i]].v, v)
    BY <1>2, <1>3, <1>6, <2>2, <2>3, <2>4
  <2>6. ASSUME NEW i \in 1..(l + 1), NEW j \in 1..(l + 1), i < j PROVE q[i] < q[j]
    <3>1. i \in 1..l /\ q[i] = m[i] /\ m[i] \in 1..n
      BY <1>3, <2>4, <2>6
    <3>2. CASE j = l + 1
      BY <2>4, <3>1, <3>2
    <3>3. CASE j \in 1..l
      BY <1>3, <2>4, <2>6, <3>1, <3>3
    <3> QED
      BY <2>3, <3>2, <3>3
  <2>7. ASSUME NEW k \in 1..(n + 1), Beats(s[k].v, v)
        PROVE  \E i \in 1..(l + 1) : q[i] = k
    <3>1. CASE k = n + 1
      BY <2>4, <3>1
    <3>2. CASE k \in 1..n
      <4>1. PICK i \in 1..l : m[i] = k
        BY <1>3, <2>7, <3>2
      <4>2. i \in 1..(l + 1)
        OBVIOUS
      <4> QED
        BY <2>4, <4>1, <4>2
    <3> QED
      BY <1>4, <3>1, <3>2
  <2>8. Picked(h, s, v, n + 1, q)
    BY ONLY <2>2, <2>4, <2>5, <2>6, <2>7 DEF Picked
  <2> QED
    BY <2>1, <2>8
<1> QED
  BY <1>2, <1>5, <1>6

\* What deleteGreater and deleteLesser leave.
LEMMA UndominatedPicks ==
  ASSUME NEW s \in Seq(Rows), NEW v, conf.use \in {"min", "max"}
  PROVE  \E m : Picked(Undominated(s, v), s, v, Len(s), m)
<1> DEFINE f == CHOOSE f : Filters(f, s, v, Len(s))
<1>1. PICK n \in Nat : n = Len(s)
  OBVIOUS
<1>2. Filters(f, s, v, n)
  BY <1>1, FiltersExist
<1>3. Undominated(s, v) = f[n]
  BY <1>1 DEF Undominated, Filters
<1> HIDE DEF f
<1>4. /\ f[0] = << >>
      /\ \A k \in 1..n : f[k] = IF Beats(s[k].v, v) THEN Append(f[k - 1], s[k])
                                ELSE f[k - 1]
  BY <1>2, FiltersAt
<1> DEFINE P == {k \in Nat : k \in 0..n => \E m : Picked(f[k], s, v, k, m)}
<1>5. 0 \in P
  <2>1. Picked(<< >>, s, v, 0, [i \in 1..0 |-> 0])
    BY DEF Picked
  <2> QED
    BY <1>4, <2>1
<1>6. ASSUME NEW k \in Nat, k \in P PROVE k + 1 \in P
  <2> SUFFICES ASSUME k + 1 \in 0..n PROVE \E m : Picked(f[k + 1], s, v, k + 1, m)
    OBVIOUS
  <2>1. k \in 0..n /\ k + 1 \in 1..n /\ (k + 1) - 1 = k /\ k + 1 <= Len(s)
    BY <1>1
  <2>2. PICK g, m : g = f[k] /\ Picked(g, s, v, k, m)
    BY <1>6, <2>1
  <2>3. f[k + 1] = IF Beats(s[k + 1].v, v) THEN Append(g, s[k + 1]) ELSE g
    BY <1>4, <2>1, <2>2
  <2>4. /\ Beats(s[k + 1].v, v) => \E q : Picked(Append(g, s[k + 1]), s, v, k + 1, q)
        /\ ~Beats(s[k + 1].v, v) => \E q : Picked(g, s, v, k + 1, q)
    BY ONLY <2>1, <2>2, PickedMore, k \in Nat, s \in Seq(Rows)
  <2>5. CASE Beats(s[k + 1].v, v)
    BY ONLY <2>3, <2>4, <2>5
  <2>6. CASE ~Beats(s[k + 1].v, v)
    BY ONLY <2>3, <2>4, <2>6
  <2> QED
    BY ONLY <2>5, <2>6
<1> HIDE DEF P
<1>7. n \in P
  BY <1>5, <1>6, NatInd
<1>8. n \in 0..n
  OBVIOUS
<1> QED
  BY <1>1, <1>3, <1>7, <1>8 DEF P

LEMMA BeatsFacts ==
  ASSUME NEW x \in Int, NEW y \in Int, NEW z \in Int
  PROVE  /\ Beats(x, x) /\ (Beats(x, y) \/ Beats(y, x))
         /\ Beats(x, y) /\ Beats(y, z) => Beats(x, z)
  BY DEF Beats

\* t is the part of s that is younger than f.
Cut(s, t, f, p) == /\ p \in Nat /\ p <= Len(s) /\ Rest(s, t, p)
                   /\ \A k \in 1..Len(s) : s[k].age < f <=> k > p

\* K is what is younger than f in s, where later elements are younger.
Younger(K, s, f) == /\ f \in Nat /\ Falling(s)
                    /\ \A k \in 1..Len(s) : s[k].age \in Nat
                    /\ K = {k \in DOMAIN s : s[k].age < f}

LEMMA CutAt ==
  ASSUME NEW S, NEW s \in Seq(S), NEW f, NEW K, Younger(K, s, f)
  PROVE  From(s, K) \in Seq(S) /\ \E p : Cut(s, From(s, K), f, p)
<1>0. /\ f \in Nat /\ Falling(s) /\ \A k \in 1..Len(s) : s[k].age \in Nat
      /\ K = {k \in DOMAIN s : s[k].age < f}
  BY DEF Younger
<1>1. PICK n \in Nat : n = Len(s) /\ DOMAIN s = 1..n
  OBVIOUS
<1>2. PICK p \in 0..n : \A k \in 1..n : k \in K <=> k > p
  <2>1. ASSUME NEW i \in K, NEW j \in 1..n, i < j PROVE j \in K
    <3>0. i \in 1..n /\ s[i].age < f
      BY ONLY <1>0, <1>1, <2>1
    <3>1. s[j].age <= s[i].age
      BY ONLY <1>0, <1>1, <2>1, <3>0 DEF Falling
    <3>2. PICK x \in Nat, y \in Nat : x = s[i].age /\ y = s[j].age
      BY ONLY <1>0, <1>1, <3>0, j \in 1..n
    <3>3. y < f
      BY ONLY <1>0, <3>0, <3>1, <3>2, x \in Nat, y \in Nat
    <3> QED
      BY ONLY <1>0, <1>1, <3>2, <3>3, j \in 1..n
  <2>2. K \subseteq 1..n
    BY ONLY <1>0, <1>1
  <2> QED
    BY ONLY <2>1, <2>2, Threshold, n \in Nat
<1>3. Behind(K, Len(s), p)
  BY <1>0, <1>1, <1>2 DEF Behind
<1>4. PICK t : t = From(s, K)
  OBVIOUS
<1>5. t \in Seq(S) /\ Rest(s, t, p)
  BY ONLY <1>3, <1>4, FromAt, s \in Seq(S)
<1>6. Cut(s, t, f, p)
  BY <1>0, <1>1, <1>2, <1>5 DEF Cut
<1> QED
  BY <1>4, <1>5, <1>6

\* The rows R are enough for the minimum, or the maximum, of the tuples of C
\* younger than e: each is one of them, ...
Sound(R, C, e) ==
    \A k \in 1..Len(R) : R[k].age < e =>
      \E j \in 1..Len(C) : C[j].v = R[k].v /\ C[j].age = R[k].age

\* ... each tuple is beaten by one that is no older, ...
Covers(R, C, e) ==
    \A j \in 1..Len(C) : C[j].age < e =>
      \E k \in 1..Len(R) : Beats(R[k].v, C[j].v) /\ R[k].age <= C[j].age

\* ... and the first n are in order.
Climbs(R, n) == \A i, j \in 1..n : i < j => Beats(R[i].v, R[j].v)

Best(R, C, e, n) == Falling(R) /\ Sound(R, C, e) /\ Covers(R, C, e) /\ Climbs(R, n)

LEMMA RowTypes ==
  ASSUME NEW R \in Seq(Rows)
  PROVE  Len(R) \in Nat /\ \A k \in 1..Len(R) : R[k].age \in Nat /\ R[k].v \in Int
<1>1. \A k \in 1..Len(R) : R[k] \in Rows
  OBVIOUS
<1> QED
  BY <1>1 DEF Rows

LEMMA TupleTypes ==
  ASSUME NEW C \in Seq(Tuples)
  PROVE  Len(C) \in Nat /\ \A k \in 1..Len(C) : C[k].age \in Nat /\ C[k].v \in Int
<1>1. \A k \in 1..Len(C) : C[k] \in Tuples
  OBVIOUS
<1> QED
  BY <1>1 DEF Tuples

LEMMA BestAged ==
  ASSUME NEW R \in Seq(Rows), NEW C \in Seq(Tuples), NEW e \in Nat, NEW n, n = Len(R),
         Best(R, C, e, n), NEW d \in Nat, NEW f \in Nat,
         \A x \in Nat : x >= e => x + d >= f
  PROVE  Best(Aged(R, d), Aged(C, d), f, n)
<1>1. PICK r \in Nat, c \in Nat : r = Len(R) /\ c = Len(C)
  OBVIOUS
<1>2. PICK A, B : A = Aged(C, d) /\ B = Aged(R, d)
  OBVIOUS
<1>3. /\ Len(A) = c /\ Len(B) = r
      /\ \A k \in 1..c : A[k].age = C[k].age + d /\ A[k].v = C[k].v /\ C[k].age \in Nat
      /\ \A k \in 1..r : B[k].age = R[k].age + d /\ B[k].v = R[k].v /\ R[k].age \in Nat
  <2>1. /\ Len(A) = c /\ \A k \in 1..c : A[k].age = C[k].age + d /\ A[k].v = C[k].v
    BY ONLY <1>1, <1>2, AgedTuple, C \in Seq(Tuples), d \in Nat
  <2>2. /\ Len(B) = r /\ \A k \in 1..r : B[k].age = R[k].age + d /\ B[k].v = R[k].v
    BY ONLY <1>1, <1>2, AgedRow, R \in Seq(Rows), d \in Nat
  <2>3. /\ \A k \in 1..c : C[k].age \in Nat
        /\ \A k \in 1..r : R[k].age \in Nat
    BY ONLY <1>1, RowTypes, TupleTypes, R \in Seq(Rows), C \in Seq(Tuples)
  <2> QED
    BY ONLY <2>1, <2>2, <2>3
<1>4. \A x \in Nat : x + d < f => x < e
  OBVIOUS
<1>5. Falling(B)
  <2> SUFFICES ASSUME NEW i \in 1..r, NEW j \in 1..r, i < j PROVE B[j].age <= B[i].age
    BY <1>3 DEF Falling
  <2>1. R[j].age <= R[i].age
    BY <1>1 DEF Best, Falling
  <2>2. PICK x \in Nat, z \in Nat : x = R[i].age /\ z = R[j].age /\ z <= x
    BY ONLY <1>3, <2>1, i \in 1..r, j \in 1..r
  <2>3. B[i].age = x + d /\ B[j].age = z + d
    BY ONLY <1>3, <2>2, i \in 1..r, j \in 1..r
  <2>4. z + d <= x + d
    BY <2>2
  <2> QED
    BY ONLY <2>3, <2>4
<1>6. Sound(B, A, f)
  <2> SUFFICES ASSUME NEW k \in 1..r, B[k].age < f
               PROVE  \E j \in 1..c : A[j].v = B[k].v /\ A[j].age = B[k].age
    BY <1>3 DEF Sound
  <2>1. R[k].age < e
    BY <1>3, <1>4
  <2>2. PICK j \in 1..c : C[j].v = R[k].v /\ C[j].age = R[k].age
    BY <1>1, <2>1 DEF Best, Sound
  <2> QED
    BY <1>3, <2>2
<1>7. Covers(B, A, f)
  <2> SUFFICES ASSUME NEW j \in 1..c, A[j].age < f
               PROVE  \E k \in 1..r : Beats(B[k].v, A[j].v) /\ B[k].age <= A[j].age
    BY <1>3 DEF Covers
  <2>1. C[j].age < e
    BY <1>3, <1>4
  <2>2. PICK k \in 1..r : Beats(R[k].v, C[j].v) /\ R[k].age <= C[j].age
    BY <1>1, <2>1 DEF Best, Covers
  <2>3. PICK x \in Nat, z \in Nat : x = R[k].age /\ z = C[j].age /\ x <= z
    BY ONLY <1>3, <2>2, j \in 1..c
  <2>4. B[k].age = x + d /\ A[j].age = z + d
    BY ONLY <1>3, <2>3, k \in 1..r, j \in 1..c
  <2>5. B[k].age <= A[j].age
    BY ONLY <2>3, <2>4, x \in Nat, z \in Nat, d \in Nat
  <2> QED
    BY ONLY <1>3, <2>2, <2>5, k \in 1..r, j \in 1..c
<1>8. Climbs(B, r)
  BY <1>1, <1>3 DEF Best, Climbs
<1> QED
  BY <1>1, <1>2, <1>5, <1>6, <1>7, <1>8 DEF Best

LEMMA BestForgets ==
  ASSUME NEW R \in Seq(Rows), NEW C \in Seq(Tuples), NEW D, NEW p, NEW f \in Nat, NEW g \in Nat,
         f <= g, Cut(C, D, g, p), NEW n, Best(R, C, f, n)
  PROVE  Best(R, D, f, n)
<1>1. PICK c \in Nat, r \in Nat : c = Len(C) /\ r = Len(R)
  OBVIOUS
<1>2. PICK q \in Nat : /\ q = p /\ q <= c /\ Len(D) = c - q
                       /\ \A i \in 1..(c - q) : D[i] = C[q + i]
                       /\ \A k \in 1..c : C[k].age < g <=> k > q
  BY <1>1 DEF Cut, Rest
<1>3. \A k \in 1..r : R[k].age \in Nat
  BY <1>1, RowTypes
<1>4. Sound(R, D, f)
  <2> SUFFICES ASSUME NEW k \in 1..r, R[k].age < f
               PROVE  \E j \in 1..(c - q) : D[j].v = R[k].v /\ D[j].age = R[k].age
    BY <1>1, <1>2 DEF Sound
  <2>1. PICK j \in 1..c : C[j].v = R[k].v /\ C[j].age = R[k].age
    BY <1>1 DEF Best, Sound
  <2>2. j > q
    BY <1>2, <1>3, <2>1
  <2>3. j - q \in 1..(c - q) /\ q + (j - q) = j
    BY <1>2, <2>2
  <2>4. D[j - q] = C[j]
    BY <1>2, <2>3
  <2> QED
    BY <2>1, <2>3, <2>4
<1>5. Covers(R, D, f)
  <2> SUFFICES ASSUME NEW j \in 1..(c - q), D[j].age < f
               PROVE  \E k \in 1..r : Beats(R[k].v, D[j].v) /\ R[k].age <= D[j].age
    BY <1>1, <1>2 DEF Covers
  <2>1. q + j \in 1..c /\ D[j] = C[q + j]
    BY <1>2
  <2> QED
    BY <1>1, <2>1 DEF Best, Covers
<1> QED
  BY <1>4, <1>5 DEF Best

LEMMA BestAppend ==
  ASSUME NEW R \in Seq(Rows), NEW C \in Seq(Tuples), NEW e \in Nat \ {0}, NEW n, n = Len(R),
         Best(R, C, e, n), NEW x, NEW y, NEW v \in Int, NEW id \in Ids, New(x, y, v, id)
  PROVE  Best(Append(R, x), Append(C, y), e, n)
<1>1. PICK r \in Nat, c \in Nat : r = Len(R) /\ c = Len(C)
  OBVIOUS
<1>2. x.age = 0 /\ y.age = 0 /\ x.v = v /\ y.v = v /\ x \in Rows /\ y \in Tuples
  BY DEF New, Rows, Tuples
<1>3. PICK A, B : A = Append(C, y) /\ B = Append(R, x)
  OBVIOUS
<1>4. /\ Len(A) = c + 1 /\ Len(B) = r + 1 /\ A[c + 1] = y /\ B[r + 1] = x
      /\ \A k \in 1..c : A[k] = C[k]
      /\ \A k \in 1..r : B[k] = R[k] /\ R[k].age \in Nat
  BY <1>1, <1>2, <1>3, RowTypes
<1>5. /\ \A k \in 1..(r + 1) : k = r + 1 \/ k \in 1..r
      /\ \A k \in 1..(c + 1) : k = c + 1 \/ k \in 1..c
      /\ r + 1 \in 1..(r + 1) /\ c + 1 \in 1..(c + 1)
      /\ \A k \in 1..r : k \in 1..(r + 1)
      /\ \A k \in 1..c : k \in 1..(c + 1)
  OBVIOUS
<1>6. Falling(B)
  <2> SUFFICES ASSUME NEW i \in 1..(r + 1), NEW j \in 1..(r + 1), i < j
               PROVE  B[j].age <= B[i].age
    BY <1>4 DEF Falling
  <2>1. i \in 1..r
    OBVIOUS
  <2>2. CASE j = r + 1
    BY <1>2, <1>4, <2>1, <2>2
  <2>3. CASE j \in 1..r
    BY <1>1, <1>4, <2>1, <2>3 DEF Best, Falling
  <2> QED
    BY <1>5, <2>2, <2>3
<1>7. Sound(B, A, e)
  <2> SUFFICES ASSUME NEW k \in 1..(r + 1), B[k].age < e
               PROVE  \E j \in 1..(c + 1) : A[j].v = B[k].v /\ A[j].age = B[k].age
    BY <1>4 DEF Sound
  <2>1. CASE k = r + 1
    BY <1>2, <1>4, <1>5, <2>1
  <2>2. CASE k \in 1..r
    <3>1. PICK j \in 1..c : C[j].v = R[k].v /\ C[j].age = R[k].age
      BY <1>1, <1>4, <2>2 DEF Best, Sound
    <3> QED
      BY <1>4, <1>5, <2>2, <3>1
  <2> QED
    BY <1>5, <2>1, <2>2
<1>8. Covers(B, A, e)
  <2> SUFFICES ASSUME NEW j \in 1..(c + 1), A[j].age < e
               PROVE  \E k \in 1..(r + 1) : Beats(B[k].v, A[j].v) /\ B[k].age <= A[j].age
    BY <1>4 DEF Covers
  <2>1. CASE j = c + 1
    <3>1. Beats(v, v) /\ 0 <= 0
      BY BeatsFacts
    <3> QED
      BY ONLY <1>2, <1>4, <1>5, <2>1, <3>1
  <2>2. CASE j \in 1..c
    <3>1. PICK k \in 1..r : Beats(R[k].v, C[j].v) /\ R[k].age <= C[j].age
      BY <1>1, <1>4, <2>2 DEF Best, Covers
    <3> QED
      BY ONLY <1>4, <1>5, <2>2, <3>1
  <2> QED
    BY <1>5, <2>1, <2>2
<1>9. Climbs(B, r)
  BY <1>1, <1>4 DEF Best, Climbs
<1> QED
  BY <1>1, <1>3, <1>6, <1>7, <1>8, <1>9 DEF Best

\* The last row stays, and what is popped was too old.
Keeps(R, C, D, p, f, n) ==
    /\ R \in Seq(Rows) /\ C \in Seq(Tuples) /\ D \in Seq(Rows) /\ f \in Nat /\ n \in Nat
    /\ Cut(R, D, f, p) /\ Len(R) = n + 1 /\ R[n + 1].age < f /\ Best(R, C, f, n)

LEMMA BestKept ==
  ASSUME NEW R, NEW C, NEW D, NEW p, NEW f, NEW n, Keeps(R, C, D, p, f, n)
  PROVE  \E m \in Nat : /\ Len(D) = m + 1 /\ D[m + 1] = R[n + 1] /\ Best(D, C, f, m)
                        /\ \A k \in 1..(m + 1) : D[k].age < f
<1> USE DEF Keeps
<1>1. PICK c \in Nat, r \in Nat : c = Len(C) /\ r = n + 1 /\ r = Len(R)
  OBVIOUS
<1>2. PICK q \in Nat : /\ q = p /\ q <= r /\ Len(D) = r - q
                       /\ \A i \in 1..(r - q) : D[i] = R[q + i]
                       /\ \A k \in 1..r : R[k].age < f <=> k > q
  BY <1>1 DEF Cut, Rest
<1>3. /\ \A k \in 1..r : R[k].age \in Nat
      /\ \A j \in 1..c : C[j].age \in Nat
  BY <1>1, RowTypes, TupleTypes
<1>4. q < r
  BY <1>1, <1>2
<1>5. PICK m \in Nat : m = n - q /\ m + 1 = r - q /\ q + (m + 1) = n + 1
  BY <1>1, <1>4
<1>6. \A i \in 1..(m + 1) : q + i \in 1..r /\ q + i > q
  BY <1>5, <1>2, <1>1
<1>7. \A i \in 1..(m + 1) : D[i] = R[q + i]
  BY <1>2, <1>5
<1>8. Len(D) = m + 1 /\ D[m + 1] = R[n + 1]
  BY <1>2, <1>5, <1>7
<1>9. \A k \in 1..(m + 1) : D[k].age < f
  BY <1>2, <1>6, <1>7
<1>10. Falling(D)
  <2> SUFFICES ASSUME NEW i \in 1..(m + 1), NEW j \in 1..(m + 1), i < j
               PROVE  D[j].age <= D[i].age
    BY <1>8 DEF Falling
  <2>1. q + i < q + j
    OBVIOUS
  <2> QED
    BY <1>1, <1>6, <1>7, <2>1 DEF Best, Falling
<1>11. Sound(D, C, f)
  <2> SUFFICES ASSUME NEW k \in 1..(m + 1)
               PROVE  \E j \in 1..c : C[j].v = D[k].v /\ C[j].age = D[k].age
    BY <1>1, <1>8 DEF Sound
  <2>1. q + k \in 1..r /\ D[k] = R[q + k] /\ R[q + k].age < f
    BY <1>2, <1>6, <1>7
  <2> QED
    BY <1>1, <2>1 DEF Best, Sound
<1>12. Covers(D, C, f)
  <2> SUFFICES ASSUME NEW j \in 1..c, C[j].age < f
               PROVE  \E k \in 1..(m + 1) : Beats(D[k].v, C[j].v) /\ D[k].age <= C[j].age
    BY <1>1, <1>8 DEF Covers
  <2>1. PICK k \in 1..r : Beats(R[k].v, C[j].v) /\ R[k].age <= C[j].age
    BY <1>1 DEF Best, Covers
  <2>2. R[k].age < f
    BY <1>3, <2>1
  <2>3. k > q
    BY <1>2, <2>2
  <2>4. PICK i \in 1..(m + 1) : q + i = k
    <3>1. k - q \in 1..(m + 1) /\ q + (k - q) = k
      BY <1>5, <2>3
    <3> QED
      BY <3>1
  <2>5. D[i] = R[k]
    BY <1>7, <2>4
  <2> QED
    BY <2>1, <2>5
<1>13. Climbs(D, m)
  <2> SUFFICES ASSUME NEW i \in 1..m, NEW j \in 1..m, i < j PROVE Beats(D[i].v, D[j].v)
    BY DEF Climbs
  <2>1. q + i \in 1..n /\ q + j \in 1..n /\ q + i < q + j
    BY <1>5
  <2>2. i \in 1..(m + 1) /\ j \in 1..(m + 1)
    OBVIOUS
  <2>3. Beats(R[q + i].v, R[q + j].v)
    BY <2>1 DEF Best, Climbs
  <2> QED
    BY <1>7, <2>2, <2>3
<1> QED
  BY <1>8, <1>9, <1>10, <1>11, <1>12, <1>13 DEF Best

\* The rows that the new one, the last, beats are not needed.
LEMMA BestFiltered ==
  ASSUME NEW D \in Seq(Rows), NEW C \in Seq(Tuples), NEW f \in Nat, NEW n \in Nat,
         Len(D) = n + 1, Best(D, C, f, n), \A k \in 1..(n + 1) : D[k].age < f,
         NEW v \in Int, D[n + 1].v = v, D[n + 1].age = 0, NEW id, Numbered(D, id),
         NEW G, NEW m, Picked(G, D, v, Len(D), m)
  PROVE  /\ G \in Seq(Rows) /\ G # << >> /\ Numbered(G, id)
         /\ Best(G, C, f, Len(G)) /\ \A k \in 1..Len(G) : G[k].age < f
<1>1. PICK g \in Nat, c \in Nat : g = Len(G) /\ c = Len(C)
  BY DEF Picked
<1>2. /\ G \in Seq(Rows)
      /\ \A i \in 1..g : m[i] \in 1..(n + 1) /\ G[i] = D[m[i]] /\ Beats(D[m[i]].v, v)
      /\ \A i, j \in 1..g : i < j => m[i] < m[j]
      /\ \A k \in 1..(n + 1) : Beats(D[k].v, v) => \E i \in 1..g : m[i] = k
  BY <1>1 DEF Picked
<1>3. /\ \A k \in 1..(n + 1) : D[k].v \in Int
      /\ \A j \in 1..c : C[j].v \in Int /\ C[j].age \in Nat
  BY <1>1, RowTypes, TupleTypes
<1>4. PICK l \in 1..g : m[l] = n + 1
  <2>1. n + 1 \in 1..(n + 1) /\ Beats(v, v)
    BY BeatsFacts
  <2> QED
    BY <1>2, <2>1
<1>5. G # << >>
  BY <1>1, <1>4
<1>6. Numbered(G, id)
  <2> SUFFICES ASSUME NEW k \in 1..g PROVE G[k].age = Age(id, G[k].id)
    BY <1>1 DEF Numbered
  <2>1. PICK i \in 1..(n + 1) : G[k] = D[i]
    BY <1>2
  <2>2. D[i].age = Age(id, D[i].id)
    BY DEF Numbered
  <2> QED
    BY <2>1, <2>2
<1>7. \A k \in 1..g : G[k].age < f
  BY <1>2
<1>8. Falling(G)
  <2> SUFFICES ASSUME NEW i \in 1..g, NEW j \in 1..g, i < j PROVE G[j].age <= G[i].age
    BY <1>1 DEF Falling
  <2>1. PICK a \in 1..(n + 1), b \in 1..(n + 1) : G[i] = D[a] /\ G[j] = D[b] /\ a < b
    BY <1>2
  <2>2. D[b].age <= D[a].age
    BY <2>1 DEF Best, Falling
  <2> QED
    BY <2>1, <2>2
<1>9. Sound(G, C, f)
  <2> SUFFICES ASSUME NEW k \in 1..g
               PROVE  \E j \in 1..c : C[j].v = G[k].v /\ C[j].age = G[k].age
    BY <1>1 DEF Sound
  <2>1. PICK i \in 1..(n + 1) : G[k] = D[i]
    BY <1>2
  <2>2. \E j \in 1..c : C[j].v = D[i].v /\ C[j].age = D[i].age
    BY <1>1 DEF Best, Sound
  <2> QED
    BY <2>1, <2>2
<1>10. Covers(G, C, f)
  <2> SUFFICES ASSUME NEW j \in 1..c, C[j].age < f
               PROVE  \E k \in 1..g : Beats(G[k].v, C[j].v) /\ G[k].age <= C[j].age
    BY <1>1 DEF Covers
  <2>1. PICK k \in 1..(n + 1) : Beats(D[k].v, C[j].v) /\ D[k].age <= C[j].age
    BY <1>1 DEF Best, Covers
  <2>2. CASE Beats(D[k].v, v)
    <3>1. PICK i \in 1..g : m[i] = k
      BY <1>2, <2>2
    <3> QED
      BY <1>2, <2>1, <3>1
  <2>3. CASE ~Beats(D[k].v, v)
    <3>1. PICK x \in Int, y \in Int : x = D[k].v /\ y = C[j].v
      BY <1>3
    <3>2. Beats(v, x)
      BY <2>3, <3>1, BeatsFacts
    <3>3. Beats(v, y)
      BY ONLY <2>1, <3>1, <3>2, BeatsFacts, v \in Int
    <3>4. G[l] = D[n + 1]
      BY <1>2, <1>4
    <3>5. G[l].age <= C[j].age
      BY <1>3, <3>4
    <3> QED
      BY <3>1, <3>3, <3>4, <3>5
  <2> QED
    BY <2>2, <2>3
<1>11. Climbs(G, g)
  <2> SUFFICES ASSUME NEW i \in 1..g, NEW j \in 1..g, i < j PROVE Beats(G[i].v, G[j].v)
    BY DEF Climbs
  <2>1. m[i] \in 1..(n + 1) /\ m[j] \in 1..(n + 1) /\ m[i] < m[j]
    BY <1>2
  <2>2. CASE m[j] = n + 1
    BY <1>2, <2>2
  <2>3. CASE m[j] # n + 1
    <3>1. m[i] \in 1..n /\ m[j] \in 1..n
      BY <2>1, <2>3
    <3> QED
      BY <1>2, <2>1, <3>1 DEF Best, Climbs
  <2> QED
    BY <2>2, <2>3
<1> QED
  BY <1>1, <1>2, <1>5, <1>6, <1>7, <1>8, <1>9, <1>10, <1>11 DEF Best

-----------------------------------------------------------------------------
(* The windows of minima and maxima                                         *)

\* The rows climb, or fall, and are enough; the first is the result.
BestInv ==
    conf.use \in {"min", "max"} =>
      /\ rows \in Seq(Rows) /\ Numbered(rows, tuple_id)
      /\ Best(rows, recent, Edge(tuple_id, conf.size), Len(rows))
      /\ \A k \in 1..Len(rows) : rows[k].age < Edge(tuple_id, conf.size)
      /\ fresh => rows = << >> /\ recent = << >>
      /\ ~fresh => rows # << >> /\ value = rows[1].v

\* A window is a minimum's or a maximum's for good.
LEMMA BestSame ==
  ASSUME conf' = conf, NEW e, e = Edge(tuple_id', conf.size),
         Best(rows', recent', e, Len(rows'))
  PROVE  Best(rows, recent, Edge(tuple_id, conf.size), Len(rows))'
  BY DEF Best, Sound, Covers, Climbs, Beats, Falling

\* The history of such a window, one tuple later.
LEMMA RecentComes ==
  ASSUME WindowInv, NEW d \in 0..MaxGap, NEW v \in conf.vals, Tuple(d, v), conf' = conf
  PROVE  \E x, y, old, p :
           /\ New(x, y, v, tuple_id') /\ x = Row(v) /\ recent' = Append(old, y)
           /\ old \in Seq(Tuples) /\ Cut(Aged(recent, Gap(d)), old, conf.size + 1, p)
           /\ recent = << >> => old = << >>
<1>1. conf.size \in 1..(M - 1) /\ Gap(d) \in Nat
  BY TupleComes
<1>2. PICK m \in Nat : m = conf.size /\ m + 1 \in Nat
  BY <1>1, MAssumption
<1>3. PICK A : A = Aged(recent, Gap(d))
  OBVIOUS
<1>4. A \in Seq(Tuples) /\ Falling(A)
  BY <1>1, <1>3, AgedTuple, AgedFalling DEF WindowInv
<1>5. PICK K : K = {k \in DOMAIN A : A[k].age <= m}
  OBVIOUS
<1>6. PICK old : old = From(A, K)
  OBVIOUS
<1>7. \A k \in 1..Len(A) : A[k].age \in Nat
  BY <1>4, TupleTypes
<1>8. K = {k \in DOMAIN A : A[k].age < m + 1}
  BY <1>2, <1>4, <1>5, <1>7
<1>9. old \in Seq(Tuples) /\ \E p : Cut(A, old, m + 1, p)
  <2>1. Younger(K, A, m + 1)
    BY ONLY <1>2, <1>4, <1>7, <1>8 DEF Younger
  <2> QED
    BY ONLY <1>4, <1>6, <2>1, CutAt
<1>10. PICK x, y : x = Row(v) /\ y = [v |-> v, age |-> 0] /\ New(x, y, v, tuple_id')
  BY DEF New, Row
<1>11. recent' = Append(old, y)
  BY <1>2, <1>3, <1>5, <1>6, <1>10 DEF Tuple
<1>12. recent = << >> => old = << >>
  <2> SUFFICES ASSUME recent = << >> PROVE old = << >>
    OBVIOUS
  <2>1. DOMAIN A = {}
    BY <1>3 DEF Aged
  <2> QED
    BY <1>5, <1>6, <2>1 DEF From
<1> QED
  BY ONLY <1>2, <1>3, <1>9, <1>10, <1>11, <1>12

LEMMA AggrInitBest ==
  ASSUME WindowInv, BestInv, NEW d \in 0..MaxGap, NEW v \in conf.vals, AggrInit(d, v),
         conf.use \in {"min", "max"}
  PROVE  BestInv'
<1>1. /\ Tuple(d, v) /\ conf' = conf /\ fresh /\ rows' = <<Row(v)>> /\ value' = v
      /\ recent = << >>
  BY DEF AggrInit, BestInv
<1>2. tuple_id' \in Ids /\ fresh' = FALSE /\ conf.size \in 1..(M - 1) /\ v \in Int
  BY <1>1, TupleComes
<1>3. PICK x, y : New(x, y, v, tuple_id') /\ x = Row(v) /\ recent' = Append(<< >>, y)
  BY <1>1, RecentComes
<1>4. PICK e \in Nat \ {0} : e = Edge(tuple_id', conf.size)
  BY <1>2, EdgeMoves, 0 \in Nat
<1>5. << >> \in Seq(Rows) /\ << >> \in Seq(Tuples) /\ Len(<< >>) = 0
  OBVIOUS
<1>6. Best(<< >>, << >>, e, 0) /\ Numbered(<< >>, tuple_id')
  BY <1>5 DEF Best, Falling, Sound, Covers, Climbs, Numbered
<1>7. rows' = Append(<< >>, x)
  BY <1>1, <1>3
<1>8. Best(rows', recent', e, 0)
  BY ONLY <1>2, <1>3, <1>4, <1>5, <1>6, <1>7, BestAppend
<1>9. rows' \in Seq(Rows) /\ Numbered(rows', tuple_id')
  BY ONLY <1>2, <1>3, <1>5, <1>6, <1>7, NewRow DEF New
<1>10. Len(rows') = 1 /\ rows'[1] = x /\ rows' # << >> /\ x.v = v /\ x.age = 0
  BY <1>1, <1>3 DEF New
<1>11. Best(rows', recent', e, 1)
  BY <1>8 DEF Best, Climbs
<1>12. \A k \in 1..Len(rows') : rows'[k].age < e
  BY <1>4, <1>10
<1>13. Best(rows, recent, Edge(tuple_id, conf.size), Len(rows))'
  BY <1>1, <1>4, <1>10, <1>11, BestSame
<1>14. value' = rows'[1].v
  BY <1>1, <1>10
<1> QED
  BY ONLY <1>1, <1>2, <1>4, <1>9, <1>10, <1>12, <1>13, <1>14 DEF BestInv

LEMMA AggrIterateBest ==
  ASSUME WindowInv, BestInv, NEW d \in 0..MaxGap, NEW v \in conf.vals, AggrIterate(d, v),
         conf.use \in {"min", "max"}
  PROVE  BestInv'
<1>1. /\ Tuple(d, v) /\ conf' = conf /\ ~fresh /\ tuple_id \in Ids
      /\ rows \in Seq(Rows) /\ Numbered(rows, tuple_id) /\ recent \in Seq(Tuples)
      /\ Best(rows, recent, Edge(tuple_id, conf.size), Len(rows))
  BY DEF AggrIterate, BestInv, WindowInv
<1>2. /\ tuple_id' \in Ids /\ fresh' = FALSE /\ conf.size \in 1..(M - 1) /\ v \in Int
      /\ Gap(d) \in Nat
  BY <1>1, TupleComes
<1>3. PICK g \in Nat : g = Gap(d)
  BY <1>2
<1>4. PICK id \in Ids : id = tuple_id' /\ id = Later(tuple_id, g)
  BY <1>1, <1>2, <1>3 DEF Tuple
<1>5. PICK size \in 1..(M - 1) : size = conf.size /\ size + 1 \in Nat
  BY <1>2, MAssumption
<1>6. PICK e \in Nat, f \in Nat \ {0} :
         /\ e = Edge(tuple_id, size) /\ f = Edge(id, size) /\ f <= size + 1
         /\ \A x \in Nat : x >= e => x + g >= f
  BY <1>1, <1>4, EdgeMoves
<1>7. PICK x, y, old, p :
         /\ New(x, y, v, tuple_id') /\ x = Row(v) /\ recent' = Append(old, y)
         /\ old \in Seq(Tuples) /\ Cut(Aged(recent, Gap(d)), old, conf.size + 1, p)
  BY <1>1, RecentComes
<1>8. PICK A, B : A = Aged(recent, g) /\ B = Aged(rows, g)
  OBVIOUS
<1>9. PICK n \in Nat : n = Len(rows)
  BY <1>1
<1>10. A \in Seq(Tuples) /\ B \in Seq(Rows) /\ Len(B) = n
  BY <1>1, <1>8, <1>9, AgedTuple, AgedRow
<1>11. Numbered(B, id)
  <2>1. \A k \in 1..Len(rows) : rows[k].age + g < M
    BY <1>1, <1>3 DEF Tuple
  <2> QED
    BY ONLY <1>1, <1>4, <1>8, <2>1, NumberedAged, g \in Nat
<1>12. Best(B, old, f, n)
  <2>1. Best(rows, recent, e, n)
    BY <1>1, <1>5, <1>6, <1>9
  <2>2. Best(B, A, f, n)
    BY ONLY <1>1, <1>6, <1>8, <1>9, <2>1, BestAged, g \in Nat, e \in Nat, f \in Nat \ {0}
  <2>3. Cut(A, old, size + 1, p)
    BY <1>3, <1>5, <1>7, <1>8
  <2> QED
    BY ONLY <1>5, <1>6, <1>10, <2>2, <2>3, BestForgets, f \in Nat \ {0}
<1>13. PICK s : s = Append(B, x)
  OBVIOUS
<1>14. New(x, y, v, id)
  BY <1>4, <1>7
<1>15. Best(s, recent', f, n)
  BY ONLY <1>2, <1>7, <1>10, <1>12, <1>13, <1>14, BestAppend, id \in Ids, f \in Nat \ {0}
<1>16. s \in Seq(Rows) /\ Numbered(s, id) /\ x.age = 0 /\ x.v = v
  BY ONLY <1>2, <1>10, <1>11, <1>13, <1>14, NewRow, id \in Ids DEF New
<1>17. Len(s) = n + 1 /\ s[n + 1] = x
  BY <1>10, <1>13
<1>18. recent' \in Seq(Tuples)
  <2>1. y \in Tuples
    BY <1>2, <1>14 DEF New, Tuples
  <2> QED
    BY <1>7, <2>1
<1>19. PICK K, D : K = {k \in DOMAIN s : s[k].age < f} /\ D = Kept(s, id)
  OBVIOUS
<1>20. D = From(s, K)
  BY ONLY <1>2, <1>5, <1>6, <1>16, <1>19, KeptByAge, id \in Ids
<1>21. D \in Seq(Rows) /\ \E q : Cut(s, D, f, q)
  <2>1. Falling(s) /\ \A k \in 1..Len(s) : s[k].age \in Nat
    BY ONLY <1>15, <1>16, RowTypes DEF Best
  <2>2. Younger(K, s, f)
    BY ONLY <1>19, <2>1, f \in Nat \ {0} DEF Younger
  <2> QED
    BY ONLY <1>16, <1>20, <2>2, CutAt
<1>22. PICK q : Cut(s, D, f, q)
  BY <1>21
<1>23. s[n + 1].age < f
  BY <1>16, <1>17
<1>24. PICK m \in Nat : /\ Len(D) = m + 1 /\ D[m + 1] = s[n + 1] /\ Best(D, recent', f, m)
                        /\ \A k \in 1..(m + 1) : D[k].age < f
  <2>1. Keeps(s, recent', D, q, f, n)
    BY ONLY <1>15, <1>16, <1>17, <1>18, <1>21, <1>22, <1>23, n \in Nat, f \in Nat \ {0}
       DEF Keeps
  <2> QED
    BY ONLY <2>1, BestKept
<1>25. Numbered(D, id)
  <2>1. PICK z \in Nat : /\ z = q /\ Len(D) = (n + 1) - z
                         /\ \A i \in 1..((n + 1) - z) : D[i] = s[z + i]
    BY <1>17, <1>22 DEF Cut, Rest
  <2>2. \A i \in 1..((n + 1) - z) : z + i \in 1..(n + 1)
    OBVIOUS
  <2> QED
    BY <1>16, <1>17, <2>1, <2>2 DEF Numbered
<1>26. PICK G : G = Undominated(D, v)
  OBVIOUS
<1>27. PICK h : Picked(G, D, v, Len(D), h)
  BY ONLY <1>21, <1>26, UndominatedPicks, conf.use \in {"min", "max"}
<1>28. D[m + 1].v = v /\ D[m + 1].age = 0
  BY <1>16, <1>17, <1>24
<1>29. /\ G \in Seq(Rows) /\ G # << >> /\ Numbered(G, id)
       /\ Best(G, recent', f, Len(G)) /\ \A k \in 1..Len(G) : G[k].age < f
  BY ONLY <1>2, <1>18, <1>21, <1>24, <1>25, <1>27, <1>28, BestFiltered, m \in Nat,
          f \in Nat \ {0}
<1>30. rows' = G /\ value' = G[1].v
  <2>1. rows' = G /\ value' = Result(v, Popped(s, tuple_id'), G)
    BY <1>3, <1>4, <1>7, <1>8, <1>13, <1>19, <1>26 DEF AggrIterate
  <2> QED
    BY <1>29, <2>1 DEF Result
<1>31. f = Edge(tuple_id', conf.size)
  BY <1>4, <1>5, <1>6
<1>32. Best(rows, recent, Edge(tuple_id, conf.size), Len(rows))'
  BY ONLY <1>1, <1>29, <1>30, <1>31, BestSame
<1> QED
  BY ONLY <1>1, <1>2, <1>4, <1>29, <1>30, <1>31, <1>32 DEF BestInv

LEMMA BestInvStep == WindowInv /\ BestInv /\ [Next]_vars => BestInv'
<1> SUFFICES ASSUME WindowInv, BestInv, [Next]_vars PROVE BestInv'
  OBVIOUS
<1>1. CASE UNCHANGED vars
  <2>1. conf.use \in {"min", "max"} =>
          Best(rows, recent, Edge(tuple_id, conf.size), Len(rows))'
    BY <1>1, BestSame DEF vars, BestInv
  <2> QED
    BY <1>1, <2>1 DEF vars, BestInv
<1>2. CASE conf' = conf /\ conf.use \notin {"min", "max"}
  BY <1>2 DEF BestInv
<1>3. ASSUME NEW d \in 0..MaxGap, NEW v \in conf.vals, AggrInit(d, v) PROVE BestInv'
  <2>1. conf' = conf
    BY <1>3 DEF AggrInit
  <2>2. CASE conf.use \in {"min", "max"}
    BY ONLY <1>3, <2>2, AggrInitBest, WindowInv, BestInv
  <2> QED
    BY ONLY <1>2, <2>1, <2>2
<1>4. ASSUME NEW d \in 0..MaxGap, NEW v \in conf.vals, AggrIterate(d, v) PROVE BestInv'
  <2>1. conf' = conf
    BY <1>4 DEF AggrIterate
  <2>2. CASE conf.use \in {"min", "max"}
    BY ONLY <1>4, <2>2, AggrIterateBest, WindowInv, BestInv
  <2> QED
    BY ONLY <1>2, <2>1, <2>2
<1>5. ASSUME NEW d \in 0..MaxGap, NEW v \in conf.vals,
             \/ ViewInsert(d, v) \/ WmPut(d, v)
             \/ BaseSkip(d, v) \/ BaseOutput(d, v) \/ BaseInit(d, v) \/ BaseIterate(d, v)
      PROVE  conf' = conf /\ conf.use \notin {"min", "max"}
  BY <1>5 DEF ViewInsert, WmPut, BaseSkip, BaseOutput, BaseInit, BaseIterate, BasePut
<1>6. ASSUME JoinTrim PROVE conf' = conf /\ conf.use \notin {"min", "max"}
  BY <1>6 DEF JoinTrim
<1> QED
  BY <1>1, <1>2, <1>3, <1>4, <1>5, <1>6 DEF Next

LEMMA MinIs ==
  ASSUME NEW S, S \subseteq Int, NEW x \in S
  PROVE  /\ (\A y \in S : x <= y) => Min(S) = x
         /\ (\A y \in S : x >= y) => Max(S) = x
<1>1. ASSUME \A y \in S : x <= y PROVE Min(S) = x
  <2>1. PICK m : m = Min(S)
    OBVIOUS
  <2>2. m \in S /\ \A y \in S : m <= y
    BY <1>1, <2>1 DEF Min
  <2>3. m \in Int /\ x \in Int /\ m <= x /\ x <= m
    BY <1>1, <2>2
  <2> QED
    BY <2>1, <2>3
<1>2. ASSUME \A y \in S : x >= y PROVE Max(S) = x
  <2>1. PICK m : m = Max(S)
    OBVIOUS
  <2>2. m \in S /\ \A y \in S : m >= y
    BY <1>2, <2>1 DEF Max
  <2>3. m \in Int /\ x \in Int /\ m <= x /\ x <= m
    BY <1>2, <2>2
  <2> QED
    BY <2>1, <2>3
<1> QED
  BY <1>1, <1>2

\* The first row is the best of what is in the window.
LEMMA FirstIsBest ==
  ASSUME WindowInv, BestInv, ~fresh, conf.use \in {"min", "max"}
  PROVE  LET w == Present(recent)
             vals == {w[k].v : k \in DOMAIN w}
         IN  vals \subseteq Int /\ value \in vals /\ \A y \in vals : Beats(value, y)
<1>1. /\ rows \in Seq(Rows) /\ rows # << >> /\ value = rows[1].v /\ tuple_id \in Ids
      /\ recent \in Seq(Tuples) /\ Falling(recent) /\ conf.size \in 1..(M - 1)
  BY WindowAssumption DEF BestInv, WindowInv
<1>2. PICK e \in Nat : e = Edge(tuple_id, conf.size)
  BY <1>1, EdgeMoves, 0 \in Nat
<1>3. Best(rows, recent, e, Len(rows)) /\ \A k \in 1..Len(rows) : rows[k].age < e
  BY <1>2 DEF BestInv
<1>4. PICK r \in Nat, n \in Nat : r = Len(rows) /\ n = Len(recent)
  BY <1>1
<1>5. /\ \A k \in 1..r : rows[k].age \in Nat /\ rows[k].v \in Int
      /\ \A j \in 1..n : recent[j].age \in Nat /\ recent[j].v \in Int
  BY <1>1, <1>4, RowTypes, TupleTypes
<1>6. r >= 1 /\ 1 \in 1..r
  BY <1>1, <1>4
<1>7. PICK w, K : w = Present(recent) /\ w = From(recent, K)
                  /\ K = {k \in DOMAIN recent : recent[k].age < e}
  BY <1>2 DEF Present, Young
<1>8. w \in Seq(Tuples) /\ \E p : Cut(recent, w, e, p)
  <2>1. \A k \in 1..Len(recent) : recent[k].age \in Nat
    BY <1>4, <1>5
  <2>2. Younger(K, recent, e)
    BY ONLY <1>1, <1>7, <2>1, e \in Nat DEF Younger
  <2>3. recent \in Seq(Tuples) /\ w = From(recent, K)
    BY ONLY <1>1, <1>7
  <2> QED
    BY ONLY <2>2, <2>3, CutAt
<1>9. PICK p \in Nat : /\ p <= n /\ Len(w) = n - p /\ \A i \in 1..(n - p) : w[i] = recent[p + i]
                       /\ \A k \in 1..n : recent[k].age < e <=> k > p
  BY <1>4, <1>8 DEF Cut, Rest
<1>10. PICK m \in Nat : m = n - p /\ DOMAIN w = 1..m
  BY <1>8, <1>9
<1>11. \A i \in 1..m : p + i \in 1..n /\ p + i > p
  BY <1>9, <1>10
<1>12. PICK vals : vals = {w[k].v : k \in DOMAIN w}
  OBVIOUS
<1>13. vals \subseteq Int
  <2>1. \A i \in 1..m : w[i].v \in Int
    BY <1>5, <1>9, <1>10, <1>11
  <2> QED
    BY <1>10, <1>12, <2>1
<1>14. value \in vals
  <2>1. PICK j \in 1..n : recent[j].v = rows[1].v /\ recent[j].age = rows[1].age
    BY <1>3, <1>4, <1>6 DEF Best, Sound
  <2>2. rows[1].age < e
    BY <1>3, <1>4, <1>6
  <2>3. j > p
    BY <1>9, <2>1, <2>2
  <2>4. j - p \in 1..m /\ p + (j - p) = j
    BY <1>10, <2>3
  <2>5. w[j - p] = recent[j]
    BY <1>9, <1>10, <2>4
  <2> QED
    BY <1>1, <1>10, <1>12, <2>1, <2>4, <2>5
<1>15. ASSUME NEW i \in 1..m PROVE Beats(value, w[i].v)
  <2>1. w[i] = recent[p + i] /\ recent[p + i].age < e /\ p + i \in 1..n
    BY <1>9, <1>10, <1>11
  <2>2. PICK k \in 1..r : Beats(rows[k].v, recent[p + i].v)
    BY <1>3, <1>4, <2>1 DEF Best, Covers
  <2>3. PICK x \in Int, y \in Int, z \in Int : x = rows[1].v /\ y = rows[k].v /\ z = w[i].v
    BY <1>5, <1>6, <2>1
  <2>4. Beats(x, y)
    <3>1. CASE k = 1
      BY <2>3, <3>1, BeatsFacts
    <3>2. CASE k > 1
      BY <1>3, <1>4, <1>6, <2>3, <3>2 DEF Best, Climbs
    <3> QED
      BY <3>1, <3>2
  <2>5. Beats(y, z)
    BY ONLY <2>1, <2>2, <2>3
  <2>6. Beats(x, z)
    BY ONLY <2>4, <2>5, BeatsFacts, x \in Int, y \in Int, z \in Int
  <2> QED
    BY ONLY <1>1, <2>3, <2>6
<1>16. \A y \in vals : Beats(value, y)
  BY <1>10, <1>12, <1>15
<1> QED
  BY <1>7, <1>12, <1>13, <1>14, <1>16

LEMMA ValuesExact == WindowInv /\ ValueInv /\ BestInv => AggregateExact
<1> SUFFICES ASSUME WindowInv, ValueInv, BestInv, conf.use \in Aggregates, ~fresh
             PROVE  AggregateExact
  BY DEF AggregateExact
<1>1. PICK w, vals : w = Present(recent) /\ vals = {w[k].v : k \in DOMAIN w}
  OBVIOUS
<1>2. CASE conf.use \in {"min", "max"}
  <2>1. vals \subseteq Int /\ value \in vals /\ \A y \in vals : Beats(value, y)
    BY <1>1, <1>2, FirstIsBest
  <2>2. conf.use = "min" => value = Min(vals)
    BY <2>1, MinIs DEF Beats
  <2>3. conf.use = "max" => value = Max(vals)
    BY <2>1, MinIs DEF Beats
  <2> QED
    BY <1>1, <1>2, <2>2, <2>3 DEF AggregateExact
<1>3. CASE conf.use \in {"sum", "count"}
  <2>1. conf.use \in Whole /\ rows \in Seq(Rows) /\ conf.use # "join"
    BY <1>3 DEF Whole, WindowInv, RowsInv
  <2>2. Shown(rows) = w
    BY <1>1, <1>3, WindowHolds DEF WindowExact
  <2>3. PICK n \in Nat : n = Len(rows) /\ DOMAIN rows = 1..n
    BY <2>1
  <2>4. w = [k \in 1..n |-> [v |-> rows[k].v, age |-> rows[k].age]]
    BY <2>2, <2>3 DEF Shown
  <2>5. Len(w) = n /\ \A k \in 1..n : w[k].v = rows[k].v
    BY <2>3, <2>4
  <2>6. Valued(rows, n)
    BY <2>1, <2>3, RowsValued
  <2>7. Valued(w, n)
    BY <2>5, <2>6 DEF Valued
  <2>8. Total(rows) = Total(w)
    BY ONLY <2>5, <2>6, <2>7, TotalSame
  <2> QED
    BY <1>1, <1>3, <2>3, <2>5, <2>8 DEF AggregateExact, ValueInv
<1> QED
  BY <1>2, <1>3 DEF Aggregates

\* Whatever the sizes, the gaps and the values: a windowed sum, count, minimum
\* or maximum is that of the tuples in the window, although it only adds and
\* subtracts, or keeps but the rows that may still matter (semant_aggr.cc,
\* AGGR_ITERATE; winbuf.cc, deleteGreater and deleteLesser).
THEOREM AggregatesExact == Spec => []AggregateExact
<1> DEFINE I == WindowInv /\ ValueInv /\ BestInv
<1>1. Init => I
  <2> SUFFICES ASSUME Init PROVE ValueInv /\ BestInv
    BY InitWindowInv
  <2>1. rows = << >> /\ recent = << >> /\ fresh = TRUE /\ Len(rows) = 0
        /\ Len(recent) = 0 /\ rows \in Seq(Rows)
    BY DEF Init
  <2>2. Best(rows, recent, Edge(tuple_id, conf.size), Len(rows)) /\ Numbered(rows, tuple_id)
    BY ONLY <2>1 DEF Best, Falling, Sound, Covers, Climbs, Numbered
  <2>3. \A k \in 1..Len(rows) : rows[k].age < Edge(tuple_id, conf.size)
    BY ONLY <2>1
  <2> QED
    BY ONLY <2>1, <2>2, <2>3 DEF ValueInv, BestInv
<1>2. I /\ [Next]_vars => I'
  BY WindowInvStep, ValueInvStep, BestInvStep
<1>3. I => AggregateExact
  BY ValuesExact
<1> QED
  BY <1>1, <1>2, <1>3, PTL DEF Spec

-----------------------------------------------------------------------------
(* Slides                                                                   *)

\* A product grows with its factor.
LEMMA Times ==
  ASSUME NEW s \in Nat, NEW a \in Nat, NEW b \in Nat, a < b
  PROVE  s * a \in Nat /\ s * b \in Nat /\ s * a + s <= s * b
<1>1. PICK c \in Nat : b = a + 1 + c
  <2>1. b - a - 1 \in Nat
    OBVIOUS
  <2> QED
    BY <2>1
<1>2. s * b = s * a + s + s * c
  BY <1>1
<1>3. s * a \in Nat /\ s * c \in Nat
  OBVIOUS
<1> QED
  BY <1>2, <1>3

\* What a number leaves when it is divided.
LEMMA Remainder ==
  ASSUME NEW s \in Nat, s > 0, NEW q \in Nat, NEW r \in Nat, r < s
  PROVE  (s * q + r) % s = r
<1>1. PICK n \in Nat : n = s * q + r
  OBVIOUS
<1>2. PICK d \in Nat, m \in Nat : m < s /\ n = s * d + m /\ n % s = m
  <2>1. n \div s \in Nat /\ n % s \in Nat /\ n % s < s /\ n = s * (n \div s) + (n % s)
    OBVIOUS
  <2> QED
    BY <2>1
<1>3. d < q => s * d + s <= s * q
  BY Times
<1>4. q < d => s * q + s <= s * d
  BY Times
<1>5. s * d \in Nat /\ s * q \in Nat
  OBVIOUS
<1>6. d = q
  <2>1. PICK x \in Nat, y \in Nat : x = s * d /\ y = s * q
    BY <1>5
  <2>2. n = y + r /\ n = x + m
    BY ONLY <1>1, <1>2, <2>1
  <2>3. d < q => x + s <= y
    BY ONLY <1>3, <2>1
  <2>4. q < d => y + s <= x
    BY ONLY <1>4, <2>1
  <2>5. ~(d < q) /\ ~(q < d)
    BY <1>2, <2>2, <2>3, <2>4
  <2> QED
    BY <2>5
<1>7. m = r
  BY <1>1, <1>2, <1>5, <1>6
<1> QED
  BY <1>1, <1>2, <1>7

\* A multiple of s is reached exactly at the end of a slide of s.
LEMMA Multiple ==
  ASSUME NEW s \in Nat, NEW q \in Nat, NEW n \in Nat, s * q <= n, n < s * q + s
  PROVE  n % s = 0 <=> n = s * q
<1>1. PICK r \in Nat : r < s /\ n = s * q + r
  <2>1. s * q \in Nat
    OBVIOUS
  <2>2. n - s * q \in Nat
    BY <2>1
  <2> QED
    BY <2>1, <2>2
<1>2. n % s = r
  BY <1>1, Remainder
<1>3. s * q \in Nat
  OBVIOUS
<1> QED
  BY <1>1, <1>2, <1>3

\* Where an aggregate is in its slide: an output came no earlier than last_out
\* says, and in a row window exactly there.
SlideInv ==
  conf.use \in Aggregates /\ conf.slide > 1 =>
    /\ last_out \in Nat /\ since \in Nat /\ since < conf.slide
    /\ last_out + since <= tuple_id
    /\ fresh => tuple_id = 0
    /\ conf.wtype = "row" =>
         /\ \E q \in Nat : last_out = conf.slide * q
         /\ tuple_id < last_out + conf.slide
         /\ slide_out = 1 <=> tuple_id = last_out

\* Up to the horizon a sliding window's numbers do not wrap.
LEMMA NoWrap ==
  ASSUME WindowInv, NEW d \in 0..MaxGap, NEW v \in conf.vals, Tuple(d, v), conf.slide > 1
  PROVE  /\ conf.slide \in Nat /\ conf.size \in Nat /\ tuple_id \in Nat /\ Gap(d) \in Nat
         /\ tuple_id' = tuple_id + Gap(d) /\ tuple_id' <= Horizon /\ tuple_id' \in Ids
         /\ conf.wtype = "row" => Gap(d) = 1
<1>1. /\ conf.slide \in Nat /\ conf.size \in Nat /\ tuple_id \in Nat /\ Gap(d) \in Nat
      /\ Horizon \in Ids /\ M \in Nat
  BY WindowAssumption, MAssumption DEF WindowInv, Gap, Ids
<1>2. PICK g \in Nat : g = Gap(d)
  BY <1>1
<1>3. tuple_id + g <= Horizon /\ tuple_id' = Later(tuple_id, g)
  BY <1>2 DEF Tuple
<1>4. tuple_id + g \in Ids
  BY <1>1, <1>3 DEF Ids
<1>5. tuple_id' = tuple_id + g
  BY <1>3, <1>4, ModSame DEF Later
<1> QED
  BY <1>1, <1>2, <1>3, <1>4, <1>5 DEF Gap

\* The least number of slides that catches up.
LEMMA CatchesUp ==
  ASSUME NEW id \in Ids, id # 0, last_out \in Nat, conf.slide \in Nat, conf.slide > 1,
         id >= last_out + conf.slide
  PROVE  \E k \in 1..M : /\ CaughtUp(id) = last_out + conf.slide * k
                         /\ last_out + conf.slide * k <= id
                         /\ id < last_out + 2 * conf.slide => k = 1
<1>1. PICK s \in Nat, o \in Nat : s = conf.slide /\ o = last_out /\ s > 1
  OBVIOUS
<1> DEFINE K == {k \in 1..M : id = 0 \/ o + k * s >= id - s}
<1>2. M \in Nat /\ M >= 4 /\ id \in Nat /\ id < M
  BY MAssumption DEF Ids
<1>3. M \in K
  <2>1. M * s \in Nat /\ M * s >= M
    BY <1>1, <1>2
  <2> QED
    BY <1>1, <1>2, <2>1
<1>4. K \subseteq Nat
  OBVIOUS
<1>5. CaughtUp(id) = o + s * Min(K)
  BY <1>1 DEF CaughtUp
<1>6. PICK x \in K : \A z \in K : x <= z
  BY <1>3, <1>4, LeastNat
<1>7. Min(K) \in K /\ \A z \in K : Min(K) <= z
  BY <1>6 DEF Min
<1>8. PICK k \in 1..M : k = Min(K)
  BY <1>7
<1>9. o + s * k <= id
  <2>1. CASE k = 1
    BY <1>1, <1>2, <2>1
  <2>2. CASE k > 1
    <3>1. PICK j \in Nat : j + 1 = k /\ j \in 1..M
      <4>1. k - 1 \in 1..M /\ k - 1 \in Nat
        BY <2>2, <1>2
      <4> QED
        BY <4>1, <1>2
    <3>2. j \notin K
      <4>1. ~(k <= j)
        BY <3>1
      <4> QED
        BY <1>7, <1>8, <4>1
    <3>3. ~(o + j * s >= id - s)
      BY <3>1, <3>2
    <3>4. s * k = j * s + s /\ j * s \in Nat
      BY <3>1
    <3> QED
      BY <1>2, <3>3, <3>4
  <2> QED
    BY <2>1, <2>2
<1>10. ASSUME id < o + 2 * s PROVE k = 1
  <2>1. 1 \in 1..M /\ o + 1 * s >= id - s
    BY <1>2, <1>10
  <2>2. 1 \in K
    BY <2>1
  <2>3. k <= 1
    BY <1>7, <1>8, <2>2
  <2> QED
    BY <2>3
<1> QED
  BY <1>1, <1>5, <1>8, <1>9, <1>10

LEMMA AggrInitSlide ==
  ASSUME WindowInv, SlideInv, NEW d \in 0..MaxGap, NEW v \in conf.vals, AggrInit(d, v)
  PROVE  SlideInv'
<1> SUFFICES ASSUME conf.slide > 1 PROVE SlideInv'
  BY DEF AggrInit, SlideInv
<1>1. /\ Tuple(d, v) /\ conf' = conf /\ fresh /\ conf.use \in Aggregates
      /\ last_out' = last_out
  BY DEF AggrInit
<1>2. PICK s \in Nat, g \in Nat : s = conf.slide /\ g = Gap(d) /\ s > 1
  BY <1>1, NoWrap
<1>3. /\ tuple_id' = tuple_id + g /\ (conf.wtype = "row" => g = 1) /\ tuple_id \in Nat
      /\ tuple_id' \in Ids
  BY ONLY <1>1, <1>2, NoWrap, WindowInv, d \in 0..MaxGap, v \in conf.vals
<1>4. tuple_id = 0 /\ last_out = 0 /\ since = 0 /\ tuple_id' = g
  BY <1>1, <1>2, <1>3 DEF SlideInv
<1>5. conf.wtype = "row" \/ g = 0
  BY <1>1, <1>2 DEF Gap
<1>6. ~Due(0)
  <2>1. Signed(0) = 0
    BY MAssumption DEF Signed
  <2> QED
    BY <1>2, <1>4, <2>1 DEF Due
<1>7. slide_out' = 0 /\ since' = g /\ fresh' = FALSE
  BY <1>1, <1>2, <1>4, <1>6 DEF AggrInit, Tuple
<1>8. 0 = s * 0 /\ g <= 1 /\ g < s
  BY <1>2, <1>3, <1>5
<1> QED
  BY ONLY <1>1, <1>2, <1>3, <1>4, <1>5, <1>7, <1>8, 0 \in Nat DEF SlideInv

LEMMA AggrIterateSlide ==
  ASSUME Horizon < M \div 2, WindowInv, SlideInv,
         NEW d \in 0..MaxGap, NEW v \in conf.vals, AggrIterate(d, v)
  PROVE  SlideInv'
<1> SUFFICES ASSUME conf.slide > 1 PROVE SlideInv'
  BY DEF AggrIterate, SlideInv
<1>1. /\ Tuple(d, v) /\ conf' = conf /\ conf.use \in Aggregates /\ Slide(d)
  BY DEF AggrIterate
<1>2. PICK s \in Nat, g \in Nat, o \in Nat, c \in Nat, t \in Nat :
        /\ s = conf.slide /\ g = Gap(d) /\ s > 1 /\ o = last_out /\ c = since
        /\ t = tuple_id
  BY <1>1, NoWrap DEF SlideInv
<1>3. PICK id \in Ids : id = tuple_id' /\ id = t + g /\ id <= Horizon
  BY <1>1, <1>2, NoWrap
<1>4. conf.wtype = "row" => g = 1
  BY <1>1, <1>2, NoWrap
<1>5. c < s /\ o + c <= t
  BY <1>1, <1>2 DEF SlideInv
<1>6. fresh' = FALSE
  BY <1>1 DEF Tuple
<1>7. id \in Nat /\ Signed(id) = id
  <2>1. M \in Nat /\ Horizon \in Nat /\ id \in Nat
    BY MAssumption, WindowAssumption DEF Ids
  <2>2. ~(id >= M \div 2)
    <3>1. PICK h \in Nat : h = M \div 2
      BY <2>1
    <3> QED
      BY <1>3, <2>1, <3>1
  <2> QED
    BY <2>1, <2>2 DEF Signed
<1>8. Due(id) <=> id >= o + s
  <2>1. id = 0 => o = 0
    BY <1>3, <1>5, <1>7
  <2> QED
    BY <1>2, <1>7, <2>1 DEF Due
<1>9. ASSUME conf.wtype = "row"
      PROVE  /\ \E q \in Nat : o = s * q
             /\ t < o + s /\ g = 1
  BY <1>1, <1>2, <1>4, <1>9 DEF SlideInv
<1>10. CASE ~Due(id)
  <2>1. last_out' = o /\ since' = c + g /\ slide_out' = 0
    BY <1>1, <1>2, <1>3, <1>10 DEF Slide
  <2>2. id < o + s
    BY <1>7, <1>8, <1>10
  <2>3. c + g \in Nat /\ c + g < s /\ o + (c + g) <= id
    BY <1>3, <1>5, <1>7, <2>2
  <2>4. conf.wtype = "row" => ~(id = o)
    BY <1>3, <1>4, <1>5, <1>7
  <2> QED
    BY ONLY <1>1, <1>2, <1>3, <1>6, <1>9, <2>1, <2>2, <2>3, <2>4 DEF SlideInv
<1>11. CASE Due(id)
  <2>1. last_out' = CaughtUp(id) /\ since' = 0 /\ slide_out' = 1
    BY <1>1, <1>2, <1>3, <1>11 DEF Slide
  <2>2. id # 0 /\ id >= o + s
    BY <1>2, <1>7, <1>8, <1>11
  <2>3. PICK k \in 1..M : /\ CaughtUp(id) = o + s * k /\ o + s * k <= id
                          /\ id < o + 2 * s => k = 1
    BY ONLY <1>2, <2>2, CatchesUp, id \in Ids, s \in Nat, o \in Nat
  <2>4. PICK p \in Nat : p = o + s * k
    <3>1. k \in Nat
      OBVIOUS
    <3> QED
      BY <3>1
  <2>5. last_out' = p /\ p <= id /\ p + 0 <= id /\ 0 < s
    BY <1>2, <1>7, <2>1, <2>3, <2>4
  <2>6. ASSUME conf.wtype = "row"
        PROVE (\E q \in Nat : p = s * q) /\ id < p + s /\ id = p
    <3>1. PICK q \in Nat : o = s * q
      BY <1>9, <2>6
    <3>2. id = o + s
      BY <1>3, <1>7, <1>9, <2>2, <2>6
    <3>3. k = 1
      BY <1>2, <2>3, <3>2
    <3>4. p = o + s
      BY <2>4, <3>3
    <3>5. p = s * (q + 1) /\ q + 1 \in Nat
      BY <3>1, <3>4
    <3> QED
      BY <1>2, <3>2, <3>4, <3>5
  <2> QED
    BY ONLY <1>1, <1>2, <1>3, <1>6, <2>1, <2>5, <2>6, 0 \in Nat, p \in Nat DEF SlideInv
<1> QED
  BY <1>10, <1>11

LEMMA SlideInvStep ==
  ASSUME Horizon < M \div 2 PROVE WindowInv /\ SlideInv /\ [Next]_vars => SlideInv'
<1> SUFFICES ASSUME WindowInv, SlideInv, [Next]_vars PROVE SlideInv'
  OBVIOUS
<1>1. ASSUME conf.use \notin Aggregates, conf' = conf PROVE SlideInv'
  BY <1>1 DEF SlideInv
<1>2. CASE UNCHANGED vars
  BY <1>2 DEF vars, SlideInv
<1>3. CASE JoinTrim
  BY <1>1, <1>3 DEF JoinTrim, Aggregates
<1>4. ASSUME NEW d \in 0..MaxGap, NEW v \in conf.vals,
             \/ ViewInsert(d, v) \/ WmPut(d, v) \/ BaseSkip(d, v)
             \/ BaseOutput(d, v) \/ BaseInit(d, v) \/ BaseIterate(d, v)
      PROVE  SlideInv'
  <2>1. conf' = conf /\ conf.use \in {"view", "join", "base"}
    BY <1>4 DEF ViewInsert, WmPut, BaseSkip, BaseOutput, BaseInit, BaseIterate, BasePut
  <2> QED
    BY <1>1, <2>1 DEF Aggregates
<1> QED
  BY <1>2, <1>3, <1>4, AggrInitSlide, AggrIterateSlide DEF Next

\* Whatever the slide, the size and the gaps, as long as the numbers fit into
\* a signed int: a sliding row window puts out exactly at the end of each slide,
\* and a time window never lets a slide go by without an output, although
\* last_out only moves by whole slides (semant_aggr.cc, transCallBuiltInAggr).
THEOREM SlidesKept == ASSUME Horizon < M \div 2 PROVE Spec => []SlideKept
<1> DEFINE I == WindowInv /\ SlideInv
<1>1. Init => I
  <2> SUFFICES ASSUME Init PROVE SlideInv
    BY InitWindowInv
  <2>1. conf.slide \in Nat /\ conf.slide * 0 = 0
    BY WindowAssumption DEF Init
  <2> QED
    BY <2>1 DEF Init, SlideInv
<1>2. I /\ [Next]_vars => I'
  BY WindowInvStep, SlideInvStep
<1>3. I => SlideKept
  <2> SUFFICES ASSUME I, conf.use \in Aggregates, conf.slide > 1 PROVE SlideKept
    BY DEF SlideKept
  <2>1. CASE conf.wtype # "row"
    BY <2>1 DEF SlideKept, SlideInv
  <2>2. CASE conf.wtype = "row"
    <3>1. PICK s \in Nat, t \in Nat : s = conf.slide /\ t = tuple_id
      BY WindowAssumption, MAssumption DEF WindowInv, Ids
    <3>2. PICK q \in Nat : last_out = s * q
      BY <2>2, <3>1 DEF SlideInv
    <3>3. s * q <= t /\ t < s * q + s /\ since < s
      <4>1. last_out \in Nat /\ since \in Nat /\ last_out + since <= t /\ since < s
        BY <3>1 DEF SlideInv
      <4>2. t < last_out + s
        BY <2>2, <3>1 DEF SlideInv
      <4> QED
        BY <3>2, <4>1, <4>2
    <3>4. t % s = 0 <=> t = s * q
      BY ONLY <3>3, Multiple, s \in Nat, t \in Nat, q \in Nat
    <3> QED
      BY <2>2, <3>1, <3>2, <3>3, <3>4 DEF SlideKept, SlideInv
  <2> QED
    BY <2>1, <2>2
<1> QED
  BY <1>1, <1>2, <1>3, PTL DEF Spec

-----------------------------------------------------------------------------
(* The base version                                                         *)

\* The last j elements of s.
Newest(s, j) == SubSeq(s, Len(s) - j + 1, Len(s))

\* One tuple per number: ages count down to 0.
Counted(s) == \A k \in 1..Len(s) : s[k].age = Len(s) - k

\* o is a number of whole slides.
Multiplies(y, o) == \E q \in Nat : o = y * q

\* The slide is at tuple_id; the tuples of the window so far, if any, are
\* aggregated, and all of them when the slide has ended.
BaseInv ==
  conf.use = "base" =>
    /\ last_out \in Nat /\ Multiplies(conf.slide, last_out)
    /\ last_out <= tuple_id /\ tuple_id < last_out + conf.slide
    /\ slide_out = 1 <=> tuple_id = last_out
    /\ Counted(recent) /\ (Len(recent) >= conf.size \/ Len(recent) = tuple_id)
    /\ tuple_id <= Skipped => init = TRUE /\ iterate = FALSE
    /\ tuple_id > Skipped =>
         /\ init = FALSE /\ iterate = TRUE
         /\ value = Total(Newest(recent, tuple_id - Skipped))
    /\ slide_out = 1 /\ ~fresh =>
         /\ Len(recent) >= conf.size
         /\ value = Total(Newest(recent, conf.size))

\* Numbers t in a slide from o, of y tuples of which z are in the window.
LEMMA Numbers ==
  ASSUME NEW t \in Nat, NEW o \in Nat, NEW y \in Nat, NEW z \in Nat, NEW k \in Nat,
         k = o + y - z, y >= z, z > 1
  PROVE  /\ t = k => t + 1 < o + y /\ o <= t + 1 /\ t + 1 # o
         /\ t > k /\ t < o + y => t - k \in Nat /\ t - k < z /\ t - k <= t
         /\ t + 1 = o + y => t > k /\ z = (t - k) + 1
         /\ (t + 1) - k = (t - k) + 1
<1>1. t = k => t + 1 < o + y
  OBVIOUS
<1>2. t = k => o <= t + 1 /\ t + 1 # o
  OBVIOUS
<1>3. t > k /\ t < o + y => t - k \in Nat /\ t - k < z /\ t - k <= t
  OBVIOUS
<1>4. t + 1 = o + y => t > k /\ z = (t - k) + 1
  OBVIOUS
<1> QED
  BY <1>1, <1>2, <1>3, <1>4

LEMMA NewestAt ==
  ASSUME NEW s \in Seq(Tuples), NEW n \in Nat, n = Len(s), NEW j \in Nat, j <= n
  PROVE  /\ Valued(Newest(s, j), j) /\ Rest(s, Newest(s, j), n - j)
         /\ \A i \in 1..j : Newest(s, j)[i] = s[(n - j) + i]
<1>1. PICK a \in Nat : a = n - j
  <2>1. n - j \in Nat
    OBVIOUS
  <2> QED
    BY <2>1
<1>2. Newest(s, j) = SubSeq(s, a + 1, n)
  BY <1>1 DEF Newest
<1>3. \A i \in (a + 1)..n : s[i] \in Tuples
  OBVIOUS
<1>4. /\ SubSeq(s, a + 1, n) \in Seq(Tuples)
      /\ Len(SubSeq(s, a + 1, n)) = IF a + 1 <= n THEN n - (a + 1) + 1 ELSE 0
      /\ \A i \in 1..(n - (a + 1) + 1) : SubSeq(s, a + 1, n)[i] = s[(a + 1) + i - 1]
  BY <1>3, SubSeqProperties, a + 1 \in Int, n \in Int
<1>5. n - (a + 1) + 1 = j /\ (a + 1 <= n \/ j = 0)
  BY <1>1
<1>6. \A i \in 1..j : (a + 1) + i - 1 = a + i
  OBVIOUS
<1>7. PICK t \in Seq(Tuples) : t = Newest(s, j) /\ Len(t) = j /\ \A i \in 1..j : t[i] = s[a + i]
  <2>1. Len(SubSeq(s, a + 1, n)) = j
    BY ONLY <1>4, <1>5
  <2>2. \A i \in 1..j : SubSeq(s, a + 1, n)[i] = s[a + i]
    BY ONLY <1>4, <1>5, <1>6
  <2> QED
    BY ONLY <1>2, <1>4, <2>1, <2>2
<1>8. Valued(t, j)
  BY <1>7, TupleTypes DEF Valued
<1>9. n - a = j
  BY <1>1
<1>10. Rest(s, t, a)
  BY <1>7, <1>9 DEF Rest
<1> QED
  BY <1>1, <1>7, <1>8, <1>10

\* D is C without its first p, and with v at its end.
Moves(C, n, D, m, p, v) ==
    /\ n = Len(C) /\ m = Len(D) /\ p \in Nat /\ p <= n /\ m = n - p + 1
    /\ \A i \in 1..(n - p) : D[i].v = C[p + i].v
    /\ D[m].v = v

\* The sum of one tuple more.
LEMMA OneMore ==
  ASSUME NEW C \in Seq(Tuples), NEW D \in Seq(Tuples), NEW n \in Nat, NEW m \in Nat,
         NEW p, NEW v \in Int, Moves(C, n, D, m, p, v), NEW j \in Nat, j <= n - p
  PROVE  Total(Newest(D, j + 1)) = Total(Newest(C, j)) + v
<1>0. /\ n = Len(C) /\ m = Len(D) /\ p \in Nat /\ p <= n /\ m = n - p + 1
      /\ \A i \in 1..(n - p) : D[i].v = C[p + i].v
      /\ D[m].v = v
  BY DEF Moves
<1>1. PICK b, s : b = Newest(C, j) /\ s = Newest(D, j + 1)
  OBVIOUS
<1>2. PICK a \in Nat, c \in Nat : a = n - j /\ c = m - (j + 1) /\ a = p + c /\ j <= n
  <2>1. n - j \in Nat /\ m - (j + 1) \in Nat /\ j <= n
    BY <1>0
  <2>2. n - j = p + (m - (j + 1))
    BY ONLY <1>0, n \in Nat, m \in Nat, j \in Nat
  <2> QED
    BY ONLY <2>1, <2>2
<1>3. Valued(b, j) /\ \A i \in 1..j : b[i] = C[a + i]
  <2>1. n = Len(C) /\ j <= n
    BY ONLY <1>0, <1>2
  <2>2. Valued(Newest(C, j), j) /\ \A i \in 1..j : Newest(C, j)[i] = C[(n - j) + i]
    BY ONLY <2>1, NewestAt, C \in Seq(Tuples), n \in Nat, j \in Nat
  <2> QED
    BY ONLY <1>1, <1>2, <2>2
<1>4. Valued(s, j + 1) /\ \A i \in 1..(j + 1) : s[i] = D[c + i]
  <2>1. m = Len(D) /\ j + 1 \in Nat /\ j + 1 <= m
    BY <1>0
  <2>2. PICK i \in Nat : i = j + 1 /\ i <= m
    BY <2>1
  <2>3. Valued(Newest(D, i), i) /\ \A h \in 1..i : Newest(D, i)[h] = D[(m - i) + h]
    BY ONLY <2>1, <2>2, NewestAt, D \in Seq(Tuples), m \in Nat, i \in Nat
  <2> QED
    BY ONLY <1>1, <1>2, <2>2, <2>3
<1>5. ASSUME NEW i \in 1..j PROVE b[i].v = s[i].v
  <2>1. c + i \in 1..(n - p) /\ p + (c + i) = a + i /\ i \in 1..(j + 1)
    BY <1>0, <1>2
  <2>2. D[c + i].v = C[a + i].v
    BY ONLY <1>0, <2>1
  <2> QED
    BY ONLY <1>3, <1>4, <2>1, <2>2, i \in 1..j
<1>6. s[j + 1].v = v
  <2>1. j + 1 \in 1..(j + 1) /\ c + (j + 1) = m
    BY <1>0, <1>2
  <2> QED
    BY ONLY <1>0, <1>4, <2>1
<1>7. Part(b, j, s, 0) /\ Part(s, j + 1, s, 0) /\ Part(<< >>, 0, s, 0) /\ Valued(<< >>, 0)
  BY <1>5 DEF Part, Valued
<1>8. Slides(b, j, s, j + 1, v, << >>, 0, s, j + 1)
  BY <1>3, <1>4, <1>6, <1>7 DEF Slides
<1>9. Total(s) = Total(b) - Total(<< >>) + v
  BY ONLY <1>8, TotalSlides
<1>10. Total(<< >>) = 0
  <2>1. PICK f : Partial(f, << >>, 0) /\ Total(<< >>) = f[0]
    BY <1>7, TotalSums
  <2> QED
    BY <2>1 DEF Partial
<1>11. Total(b) \in Int
  <2>1. PICK f : Partial(f, b, j) /\ Total(b) = f[j]
    BY <1>3, TotalSums
  <2> QED
    BY <2>1 DEF Partial
<1> QED
  BY ONLY <1>1, <1>9, <1>10, <1>11, v \in Int

\* A tuple comes to a base version: the history and the numbers.
LEMMA BaseComes ==
  ASSUME \A c \in Configs : c.use = "base" => c.size > 1,
         WindowInv, BaseInv, NEW d \in 0..MaxGap, NEW v \in conf.vals, BasePut(d, v)
  PROVE  \E t \in Nat, n \in Nat, m \in Nat, p \in Nat :
           /\ t = tuple_id /\ tuple_id' = t + 1 /\ v \in Int /\ fresh' = FALSE
           /\ conf.size \in Nat /\ conf.slide \in Nat /\ conf.slide >= conf.size
           /\ conf.size > 1 /\ conf' = conf /\ conf.use = "base"
           /\ recent \in Seq(Tuples) /\ recent' \in Seq(Tuples)
           /\ Moves(recent, n, recent', m, p, v) /\ (p = 0 \/ n - p >= conf.size)
           /\ Counted(recent') /\ (Len(recent') >= conf.size \/ Len(recent') = t + 1)
<1>1. /\ Tuple(d, v) /\ conf' = conf /\ conf.use = "base" /\ conf \in Configs
      /\ conf.wtype = "row" /\ conf.slide >= conf.size /\ conf.size > 1
      /\ conf.size \in 1..(M - 1) /\ conf.slide \in 1..(M - 1) /\ M \in Nat
  BY WindowAssumption, MAssumption DEF BasePut, WindowInv
<1>2. PICK z \in Nat, y \in Nat : z = conf.size /\ y = conf.slide /\ y >= z /\ z > 1 /\ y > 1
  BY <1>1
<1>3. PICK t \in Nat : t = tuple_id /\ Gap(d) = 1 /\ tuple_id' = t + 1
  BY <1>1, <1>2, NoWrap
<1>4. v \in Int /\ fresh' = FALSE
  BY <1>1, TupleComes
<1>5. PICK x, w, old, p : /\ New(x, w, v, tuple_id') /\ recent' = Append(old, w)
                          /\ old \in Seq(Tuples) /\ Cut(Aged(recent, Gap(d)), old, conf.size + 1, p)
  BY <1>1, RecentComes
<1>6. PICK C, A : C \in Seq(Tuples) /\ C = recent /\ A = Aged(recent, 1) /\ A = Aged(C, 1)
  BY DEF WindowInv
<1>7. PICK n \in Nat : n = Len(C)
  BY <1>6
<1>8. /\ Len(A) = n
      /\ \A k \in 1..n : A[k].age = C[k].age + 1 /\ A[k].v = C[k].v
  BY ONLY <1>6, <1>7, AgedTuple, 1 \in Nat
<1>9. Cut(A, old, z + 1, p)
  BY <1>2, <1>3, <1>5, <1>6
<1>10. /\ p \in Nat /\ p <= n /\ Len(old) = n - p
       /\ \A i \in 1..(n - p) : old[i] = A[p + i]
       /\ \A k \in 1..n : A[k].age < z + 1 <=> k > p
  BY ONLY <1>8, <1>9 DEF Cut, Rest
<1>11. /\ \A k \in 1..n : C[k].age = n - k
       /\ n >= z \/ n = t
  BY <1>1, <1>2, <1>3, <1>6, <1>7 DEF BaseInv, Counted
<1>12. p = 0 \/ n - p >= z
  <2> SUFFICES ASSUME p # 0 PROVE n - p >= z
    OBVIOUS
  <2>1. p \in 1..n
    BY <1>10
  <2>2. A[p].age < z + 1 <=> p > p
    BY ONLY <1>10, <2>1
  <2>3. A[p].age = n - p + 1
    BY ONLY <1>8, <1>11, <2>1
  <2>4. ~(n - p + 1 < z + 1)
    BY <1>10, <2>2, <2>3
  <2> QED
    BY ONLY <1>10, <2>4, n \in Nat, z \in Nat
<1>13. PICK m \in Nat : m = n - p + 1
  BY <1>10
<1>14. PICK D : D = recent'
  OBVIOUS
<1>15. w = [v |-> v, age |-> 0] /\ w \in Tuples
  BY <1>4, <1>5 DEF New, Tuples
<1>16. /\ D \in Seq(Tuples) /\ Len(D) = m /\ D[m] = w
       /\ \A i \in 1..(n - p) : D[i] = old[i]
  BY <1>5, <1>10, <1>13, <1>14, <1>15
<1>17. ASSUME NEW i \in 1..(n - p)
       PROVE  D[i].v = C[p + i].v /\ D[i].age = m - i
  <2>1. p + i \in 1..n /\ n - (p + i) + 1 = m - i
    BY <1>10, <1>13
  <2>2. D[i] = A[p + i]
    BY ONLY <1>10, <1>16, i \in 1..(n - p)
  <2>3. A[p + i].age = C[p + i].age + 1 /\ A[p + i].v = C[p + i].v
    BY ONLY <1>8, <2>1
  <2>4. C[p + i].age = n - (p + i)
    BY ONLY <1>11, <2>1
  <2> QED
    BY ONLY <2>1, <2>2, <2>3, <2>4
<1>18. Moves(C, n, D, m, p, v)
  BY ONLY <1>7, <1>10, <1>13, <1>15, <1>16, <1>17 DEF Moves
<1>19. Counted(D)
  <2>1. ASSUME NEW k \in 1..m PROVE D[k].age = m - k
    <3>1. CASE k = m
      BY <1>13, <1>15, <1>16, <3>1
    <3>2. CASE k # m
      <4>1. k \in 1..(n - p)
        BY <1>10, <1>13, <3>2
      <4> QED
        BY ONLY <1>17, <4>1
    <3> QED
      BY <3>1, <3>2
  <2> QED
    BY <1>16, <2>1 DEF Counted
<1>20. p \in Nat
  BY <1>10
<1>21. m >= z \/ m = t + 1
  BY <1>10, <1>11, <1>12, <1>13
<1> QED
  BY <1>1, <1>2, <1>3, <1>4, <1>6, <1>12, <1>14, <1>16, <1>18, <1>19, <1>20, <1>21

\* Each branch of the base version keeps the slide.
LEMMA BasePutInv ==
  ASSUME \A c \in Configs : c.use = "base" => c.size > 1,
         WindowInv, BaseInv, NEW d \in 0..MaxGap, NEW v \in conf.vals,
         BaseSkip(d, v) \/ BaseOutput(d, v) \/ BaseInit(d, v) \/ BaseIterate(d, v)
  PROVE  BaseInv'
<1>1. BasePut(d, v)
  BY DEF BaseSkip, BaseOutput, BaseInit, BaseIterate
<1>2. PICK t \in Nat, n \in Nat, m \in Nat, p \in Nat :
           /\ t = tuple_id /\ tuple_id' = t + 1 /\ v \in Int /\ fresh' = FALSE
           /\ conf.size \in Nat /\ conf.slide \in Nat /\ conf.slide >= conf.size
           /\ conf.size > 1 /\ conf' = conf /\ conf.use = "base"
           /\ recent \in Seq(Tuples) /\ recent' \in Seq(Tuples)
           /\ Moves(recent, n, recent', m, p, v) /\ (p = 0 \/ n - p >= conf.size)
           /\ Counted(recent') /\ (Len(recent') >= conf.size \/ Len(recent') = t + 1)
  BY ONLY <1>1, BaseComes, WindowInv, BaseInv, d \in 0..MaxGap, v \in conf.vals,
          \A c \in Configs : c.use = "base" => c.size > 1
<1>3. PICK z \in Nat, y \in Nat, o \in Nat :
        /\ z = conf.size /\ y = conf.slide /\ o = last_out /\ y >= z /\ z > 1
        /\ Multiplies(y, o)
  BY <1>2 DEF BaseInv, Multiplies
<1>4. PICK k \in Nat : k = Skipped /\ k = o + y - z /\ k >= o
  <2>1. o + y - z \in Nat /\ o + y - z >= o
    BY ONLY <1>3, o \in Nat, y \in Nat, z \in Nat
  <2> QED
    BY <1>3, <2>1 DEF Skipped
<1>5. o <= t /\ t < o + y /\ (n >= z \/ n = t)
  BY <1>2, <1>3 DEF BaseInv, Moves
<1>17. y >= z
  BY <1>3
<1>16. /\ t = k => t + 1 < o + y /\ o <= t + 1 /\ t + 1 # o
       /\ t > k /\ t < o + y => t - k \in Nat /\ t - k < z /\ t - k <= t
       /\ t + 1 = o + y => t > k /\ z = (t - k) + 1
       /\ (t + 1) - k = (t - k) + 1
  BY ONLY <1>3, <1>4, Numbers, t \in Nat, k \in Nat, o \in Nat, y \in Nat, z \in Nat
<1>6. /\ t <= k => init = TRUE /\ iterate = FALSE
      /\ t > k => init = FALSE /\ iterate = TRUE /\ value = Total(Newest(recent, t - k))
  BY <1>2, <1>4 DEF BaseInv
<1>7. p \in Nat /\ p <= n /\ m = n - p + 1 /\ m = Len(recent')
  BY <1>2 DEF Moves
<1>8. PICK C \in Seq(Tuples), D \in Seq(Tuples) :
        C = recent /\ D = recent' /\ Moves(C, n, D, m, p, v)
  BY <1>2
<1>9. Skipped' = last_out' + y - z
  BY <1>2, <1>3 DEF Skipped
<1>10. ASSUME NEW j \in Nat, j < z, j <= t
       PROVE  j <= n - p /\ Total(Newest(D, j + 1)) = Total(Newest(C, j)) + v
  <2>1. j <= n - p
    BY <1>2, <1>3, <1>5, <1>7, <1>10
  <2> QED
    BY ONLY <1>2, <1>8, <2>1, OneMore, C \in Seq(Tuples), D \in Seq(Tuples), n \in Nat,
            m \in Nat, j \in Nat
<1>11. Len(D) >= z \/ Len(D) = t + 1
  BY <1>2, <1>3, <1>8
<1>12. CASE BaseSkip(d, v)
  <2>1. /\ t + 1 <= k /\ slide_out' = 0 /\ init' = TRUE /\ last_out' = o
        /\ iterate' = iterate
    BY <1>2, <1>3, <1>4, <1>12 DEF BaseSkip
  <2>2. iterate = FALSE
    <3>1. t <= k
      BY ONLY <2>1, t \in Nat, k \in Nat
    <3> QED
      BY ONLY <1>6, <3>1
  <2>4. t + 1 < o + y /\ o <= t + 1 /\ t + 1 # o
    BY ONLY <1>3, <1>4, <1>5, <2>1, t \in Nat, k \in Nat, o \in Nat, y \in Nat, z \in Nat
  <2>3. Skipped' = k /\ ~(t + 1 > k)
    BY <1>4, <1>9, <2>1
  <2> QED
    BY ONLY <1>2, <1>3, <1>8, <1>11, <2>1, <2>2, <2>3, <2>4, o \in Nat DEF BaseInv
<1>13. CASE BaseInit(d, v)
  <2>1. /\ t + 1 > k /\ ~Ends(t + 1) /\ slide_out' = 0 /\ init' = FALSE /\ last_out' = o
        /\ iterate' = TRUE /\ init = TRUE /\ value' = v
    BY <1>2, <1>3, <1>4, <1>13, <1>6 DEF BaseInit
  <2>2. t = k
    BY <1>6, <2>1
  <2>3. t + 1 < o + y /\ o <= t + 1 /\ t + 1 # o
    BY ONLY <1>16, <2>2
  <2>4. Skipped' = k /\ (t + 1) - k = 0 + 1
    BY <1>4, <1>9, <2>1, <2>2
  <2>5. Total(Newest(D, 0 + 1)) = Total(Newest(C, 0)) + v
    BY <1>3, <1>10, 0 \in Nat
  <2>6. Total(Newest(C, 0)) = 0
    <3>1. 0 \in Nat /\ n = Len(C) /\ 0 <= n
      BY <1>8 DEF Moves
    <3>2. Valued(Newest(C, 0), 0)
      BY ONLY <3>1, NewestAt, C \in Seq(Tuples), n \in Nat
    <3>3. PICK f : Partial(f, Newest(C, 0), 0) /\ Total(Newest(C, 0)) = f[0]
      BY <3>2, TotalSums
    <3> QED
      BY <3>3 DEF Partial
  <2>7. Total(Newest(D, (t + 1) - k)) = v
    BY <1>2, <2>4, <2>5, <2>6
  <2>8. value' = Total(Newest(recent', tuple_id' - Skipped'))
    BY ONLY <1>2, <1>8, <2>1, <2>4, <2>7
  <2>9. ~(t + 1 <= k)
    BY <2>2
  <2> QED
    BY ONLY <1>2, <1>3, <1>8, <1>11, <2>1, <2>3, <2>4, <2>8, <2>9, o \in Nat DEF BaseInv
<1>14. CASE BaseIterate(d, v)
  <2>1. /\ t + 1 > k /\ ~Ends(t + 1) /\ slide_out' = 0 /\ init' = init /\ last_out' = o
        /\ iterate' = iterate /\ iterate /\ value' = value + v
    BY <1>2, <1>3, <1>4, <1>14 DEF BaseIterate
  <2>2. t > k /\ init = FALSE /\ iterate = TRUE
    BY <1>6, <2>1
  <2>3. ~(t + 1 >= o + y)
    BY <1>3, <2>1, <2>2 DEF Ends
  <2>4. t + 1 < o + y /\ o <= t + 1 /\ t + 1 # o
    BY ONLY <1>3, <1>5, <2>3, t \in Nat, k \in Nat, o \in Nat, y \in Nat, z \in Nat
  <2>5. PICK j \in Nat : j = t - k /\ (t + 1) - k = j + 1 /\ j < z /\ j <= t
    BY ONLY <1>5, <1>16, <2>2
  <2>6. Total(Newest(D, j + 1)) = Total(Newest(C, j)) + v
    BY <1>10, <2>5
  <2>7. value = Total(Newest(C, j))
    BY <1>6, <1>8, <2>2, <2>5
  <2>8. Skipped' = k
    BY <1>4, <1>9, <2>1
  <2>9. value' = Total(Newest(recent', tuple_id' - Skipped'))
    BY ONLY <1>2, <1>8, <2>1, <2>5, <2>6, <2>7, <2>8
  <2>10. ~(t + 1 <= k)
    BY <2>2
  <2> QED
    BY ONLY <1>2, <1>3, <1>8, <1>11, <2>1, <2>2, <2>4, <2>8, <2>9, <2>10, o \in Nat DEF BaseInv
<1>15. CASE BaseOutput(d, v)
  <2>1. /\ t + 1 > k /\ Ends(t + 1) /\ slide_out' = 1 /\ init' = TRUE /\ last_out' = o + y
        /\ iterate' = FALSE /\ value' = value + v
    BY <1>2, <1>3, <1>4, <1>15 DEF BaseOutput
  <2>2. t + 1 >= o + y
    BY <1>3, <2>1 DEF Ends
  <2>3. t + 1 = o + y
    BY ONLY <1>5, <2>2, t \in Nat, o \in Nat, y \in Nat
  <2>4. t > k
    BY ONLY <1>16, <2>3
  <2>5. PICK j \in Nat : j = t - k /\ z = j + 1 /\ j < z /\ j <= t
    BY ONLY <1>5, <1>16, <2>3, <2>4
  <2>6. j <= n - p /\ Total(Newest(D, j + 1)) = Total(Newest(C, j)) + v
    BY <1>10, <2>5
  <2>7. value = Total(Newest(C, j))
    BY <1>6, <1>8, <2>4, <2>5
  <2>8. Skipped' = o + y + y - z
    BY <1>3, <1>9, <2>1
  <2>9. value' = Total(Newest(D, z)) /\ Len(D) >= z
    BY <1>7, <1>8, <2>1, <2>5, <2>6, <2>7
  <2>10. o + y \in Nat /\ Multiplies(y, o + y)
    <3>1. PICK q \in Nat : o = y * q
      BY <1>3 DEF Multiplies
    <3>2. PICK r \in Nat : r = q + 1
      OBVIOUS
    <3>3. o + y = y * r
      BY ONLY <3>1, <3>2, q \in Nat, y \in Nat, r \in Nat
    <3>4. o + y \in Nat
      BY ONLY o \in Nat, y \in Nat
    <3> QED
      BY ONLY <3>3, <3>4, r \in Nat DEF Multiplies
  <2>11. t + 1 <= Skipped' /\ ~(t + 1 > Skipped')
    <3>1. t + 1 <= o + y + y - z /\ ~(t + 1 > o + y + y - z)
      BY ONLY <1>17, <2>3, o \in Nat, y \in Nat, z \in Nat
    <3> QED
      BY ONLY <2>8, <3>1
  <2>12. value' = Total(Newest(recent', conf'.size))
    BY ONLY <1>2, <1>3, <1>8, <2>9
  <2>13. t + 1 < (o + y) + y /\ o + y <= t + 1
    BY <1>3, <2>3
  <2> QED
    BY ONLY <1>2, <1>3, <1>8, <1>11, <2>1, <2>3, <2>9, <2>10, <2>11, <2>12, <2>13 DEF BaseInv
<1> QED
  BY <1>12, <1>13, <1>14, <1>15

LEMMA BaseInvStep ==
  ASSUME \A c \in Configs : c.use = "base" => c.size > 1
  PROVE  WindowInv /\ BaseInv /\ [Next]_vars => BaseInv'
<1> SUFFICES ASSUME WindowInv, BaseInv, [Next]_vars PROVE BaseInv'
  OBVIOUS
<1>1. ASSUME conf.use # "base", conf' = conf PROVE BaseInv'
  BY <1>1 DEF BaseInv
<1>2. CASE UNCHANGED vars
  <2>1. Skipped' = Skipped /\ Counted(recent)' = Counted(recent)
    BY <1>2 DEF vars, Skipped, Counted
  <2> QED
    BY <1>2, <2>1 DEF vars, BaseInv
<1>3. CASE JoinTrim
  BY <1>1, <1>3 DEF JoinTrim
<1>4. ASSUME NEW d \in 0..MaxGap, NEW v \in conf.vals,
             ViewInsert(d, v) \/ WmPut(d, v) \/ AggrInit(d, v) \/ AggrIterate(d, v)
      PROVE  BaseInv'
  <2>1. conf' = conf /\ conf.use # "base"
    BY <1>4 DEF ViewInsert, WmPut, AggrInit, AggrIterate, Aggregates
  <2> QED
    BY <1>1, <2>1
<1> QED
  BY <1>2, <1>3, <1>4, BasePutInv DEF Next

\* Whatever the slide and the window, of at least two rows: the base version of
\* a user-defined aggregate puts out exactly at the end of each slide, and its
\* value is the sum of exactly the last `size' tuples (semant_aggr.cc,
\* transCallUDA).
THEOREM BaseVersionExact ==
  ASSUME \A c \in Configs : c.use = "base" => c.size > 1
  PROVE  Spec => []BaseExact
<1> DEFINE I == WindowInv /\ BaseInv
<1>1. Init => I
  <2> SUFFICES ASSUME Init, conf.use = "base" PROVE BaseInv
    BY InitWindowInv DEF BaseInv
  <2>1. PICK y \in Nat, z \in Nat : y = conf.slide /\ z = conf.size /\ y >= z /\ y * 0 = 0 /\ y > 0
    BY WindowAssumption, MAssumption DEF Init
  <2>2. Len(recent) = 0 /\ tuple_id = 0 /\ last_out = 0
    BY DEF Init
  <2>3. Skipped >= 0
    BY <2>1, <2>2 DEF Skipped
  <2>4. Counted(recent) /\ Multiplies(y, 0)
    BY <2>1, <2>2 DEF Counted, Multiplies
  <2>5. slide_out = 1 /\ fresh = TRUE /\ init = TRUE /\ iterate = FALSE
    BY DEF Init
  <2>6. 0 <= Skipped /\ ~(0 > Skipped)
    BY <2>1, <2>2, <2>3 DEF Skipped
  <2> QED
    BY ONLY <2>1, <2>2, <2>4, <2>5, <2>6, y \in Nat DEF BaseInv
<1>2. I /\ [Next]_vars => I'
  BY WindowInvStep, BaseInvStep
<1>3. I => BaseExact
  <2> SUFFICES ASSUME I, conf.use = "base", ~fresh PROVE BaseExact
    BY DEF BaseExact
  <2>1. PICK s \in Nat, t \in Nat, z \in Nat : s = conf.slide /\ t = tuple_id /\ z = conf.size
    <3>1. conf.slide \in Nat /\ conf.size \in Nat /\ tuple_id \in Nat
      BY WindowAssumption, MAssumption DEF WindowInv, Ids
    <3> QED
      BY <3>1
  <2>2. PICK q \in Nat : last_out = s * q
    BY <2>1 DEF BaseInv, Multiplies
  <2>3. s * q <= t /\ t < s * q + s
    BY <2>1, <2>2 DEF BaseInv
  <2>4. t % s = 0 <=> t = s * q
    BY ONLY <2>3, Multiple, s \in Nat, t \in Nat, q \in Nat
  <2>5. slide_out = 1 <=> tuple_id % conf.slide = 0
    BY <2>1, <2>2, <2>4 DEF BaseInv
  <2>6. ASSUME slide_out = 1
        PROVE  value = Total(From(recent, {k \in DOMAIN recent : recent[k].age < conf.size}))
    <3>1. PICK C \in Seq(Tuples), n \in Nat : C = recent /\ n = Len(C) /\ DOMAIN C = 1..n
      BY DEF WindowInv
    <3>2. n >= z /\ value = Total(Newest(C, z)) /\ \A k \in 1..n : C[k].age = n - k
      BY <2>1, <2>6, <3>1 DEF BaseInv, Counted
    <3>3. PICK a \in Nat : a = n - z /\ a <= n
      BY <3>2
    <3>4. PICK K : K = {k \in 1..n : C[k].age < z}
      OBVIOUS
    <3>5. Behind(K, Len(C), a)
      BY <3>1, <3>2, <3>3, <3>4 DEF Behind
    <3>6. PICK w, u : w = From(C, K) /\ u = Newest(C, z)
      OBVIOUS
    <3>7. w \in Seq(Tuples) /\ Rest(C, w, a)
      BY ONLY <3>5, <3>6, FromAt, C \in Seq(Tuples)
    <3>8. Valued(u, z) /\ \A i \in 1..z : u[i] = C[(n - z) + i]
      <4>1. n = Len(C) /\ z <= n
        BY ONLY <3>1, <3>2, n \in Nat, z \in Nat
      <4> QED
        BY ONLY <3>6, <4>1, NewestAt, C \in Seq(Tuples), n \in Nat, z \in Nat
    <3>9. n - a = z
      BY <3>3
    <3>10. Len(w) = z /\ \A i \in 1..z : w[i] = C[a + i]
      BY ONLY <3>1, <3>7, <3>9 DEF Rest
    <3>11. \A i \in 1..z : w[i].v = u[i].v
      BY ONLY <3>3, <3>8, <3>10
    <3>12. Valued(w, z)
      BY ONLY <3>8, <3>10, <3>11 DEF Valued
    <3>13. Total(w) = Total(u)
      BY ONLY <3>8, <3>11, <3>12, TotalSame
    <3> QED
      BY ONLY <2>1, <3>1, <3>2, <3>4, <3>6, <3>13
  <2> QED
    BY <2>5, <2>6 DEF BaseExact
<1> QED
  BY <1>1, <1>2, <1>3, PTL DEF Spec
=============================================================================
