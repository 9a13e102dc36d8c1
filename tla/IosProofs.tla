------------------------------ MODULE IosProofs ------------------------------
(***************************************************************************)
(* Proofs about Ios and the scheduler: about CommandProtocol, then about   *)
(* Modules and Restart, whose steps contain those of CommandProtocol.      *)
(*                                                                         *)
(* CommandProtocol, for all queries, streams and tables and any number of  *)
(* messages in flight: types (TypeCorrect), what the scheduler takes off   *)
(* _queryBuffer (CommandsKept), the buffers of the queries in drivers      *)
(* (InputsLive) and, for a client that waits, whose replies Ios takes      *)
(* (RepliesOwn).                                                           *)
(***************************************************************************)
EXTENDS Modules, Restart, SequenceTheorems, FiniteSetTheorems, WellFoundedInduction,
        TLAPS

-----------------------------------------------------------------------------
(* Induction over the natural numbers, with a set in the place of a        *)
(* predicate, and what the operators on sequences return                   *)

\* A set of natural numbers that is not empty has a least element.
LEMMA LeastNat ==
    ASSUME NEW T, T \subseteq Nat, T # {}
    PROVE  \E x \in T : \A y \in T : x <= y
  <1> DEFINE R == OpToRel(<, Nat)
  <1>1. IsWellFoundedOn(R, Nat)
    BY NatLessThanWellFounded
  <1>2. \A x, y \in Nat : <<x, y>> \in R <=> x < y
    BY DEF OpToRel
  <1> HIDE DEF R
  <1>3. PICK x \in T : \A y \in T : ~ (<<y, x>> \in R)
    BY <1>1, WFMin
  <1>4. ASSUME NEW y \in T PROVE x <= y
    <2>1. x \in Nat /\ y \in Nat /\ ~ (y < x)
      BY <1>2, <1>3
    <2> QED
      BY <2>1
  <1> QED
    BY <1>4

\* Induction: a set that has 0 and with every number its successor has them
\* all.
LEMMA NatInd ==
    ASSUME NEW P, 0 \in P, \A n \in Nat : n \in P => n + 1 \in P
    PROVE  \A n \in Nat : n \in P
  <1> SUFFICES ASSUME Nat \ P # {} PROVE FALSE
    OBVIOUS
  <1>1. PICK x \in Nat \ P : \A y \in Nat \ P : x <= y
    BY LeastNat
  <1>2. x # 0 /\ x - 1 \in Nat /\ x - 1 \in P
    BY <1>1
  <1>3. (x - 1) + 1 \in P
    BY <1>2
  <1> QED
    BY <1>1, <1>2, <1>3

\* f is what FlattenSeq computes for the first n sequences of ss.
Flattens(f, ss, n) ==
    f = [i \in 1 .. n |-> IF i = 1 THEN ss[i] ELSE f[i - 1] \o ss[i]]

\* The function defined inside FlattenSeq, at one argument.
LEMMA FlattensAt ==
    ASSUME NEW f, NEW ss, NEW n, Flattens(f, ss, n), NEW i \in 1 .. n
    PROVE  f[i] = IF i = 1 THEN ss[i] ELSE f[i - 1] \o ss[i]
  <1> DEFINE g == [j \in 1 .. n |-> IF j = 1 THEN ss[j] ELSE f[j - 1] \o ss[j]]
  <1>1. f = g
    BY DEF Flattens
  <1>2. g[i] = IF i = 1 THEN ss[i] ELSE f[i - 1] \o ss[i]
    OBVIOUS
  <1> HIDE DEF g
  <1> QED
    BY <1>1, <1>2

\* The recursive definition inside FlattenSeq defines a function.
LEMMA FlattenExists ==
    ASSUME NEW ss PROVE \A n \in Nat : \E f : Flattens(f, ss, n)
  <1> DEFINE P == {n \in Nat : \E f : Flattens(f, ss, n)}
  <1>1. 0 \in P
    <2>1. Flattens([i \in 1 .. 0 |-> {}], ss, 0)
      BY DEF Flattens
    <2> QED
      BY <2>1
  <1>2. ASSUME NEW n \in Nat, n \in P PROVE n + 1 \in P
    <2>1. PICK f : Flattens(f, ss, n)
      BY <1>2
    <2> DEFINE g == [i \in 1 .. n + 1 |->
                       IF i = 1 THEN ss[i] ELSE f[i - 1] \o ss[i]]
    <2>2. \A i \in 1 .. n : g[i] = f[i]
      BY <2>1, FlattensAt
    <2>3. \A i \in 1 .. n + 1 : i # 1 => i - 1 \in 1 .. n
      OBVIOUS
    <2>4. Flattens(g, ss, n + 1)
      BY <2>2, <2>3 DEF Flattens
    <2> QED
      BY <2>4
  <1> HIDE DEF P
  <1>3. \A n \in Nat : n \in P
    BY <1>1, <1>2, NatInd
  <1> QED
    BY <1>3 DEF P

\* FlattenSeq of sequences over S is a sequence over S.
LEMMA FlattenType ==
    ASSUME NEW S, NEW ss \in Seq(Seq(S)) PROVE FlattenSeq(ss) \in Seq(S)
  <1>1. CASE Len(ss) = 0
    BY <1>1 DEF FlattenSeq
  <1>2. CASE Len(ss) # 0
    <2> DEFINE N == Len(ss)
               f == CHOOSE f : Flattens(f, ss, N)
    <2>0. N \in Nat /\ N >= 1
      BY <1>2
    <2>1. Flattens(f, ss, N)
      BY <2>0, FlattenExists
    <2>2. FlattenSeq(ss) = f[N]
      BY <1>2 DEF FlattenSeq, Flattens
    <2> HIDE DEF f
    <2> DEFINE P == {n \in Nat : n \in 1 .. N => f[n] \in Seq(S)}
    <2>3. 0 \in P
      OBVIOUS
    <2>4. ASSUME NEW n \in Nat, n \in P PROVE n + 1 \in P
      <3> SUFFICES ASSUME n + 1 \in 1 .. N PROVE f[n + 1] \in Seq(S)
        BY <2>4
      <3>1. ss[n + 1] \in Seq(S)
        OBVIOUS
      <3>2. f[n + 1] = IF n + 1 = 1 THEN ss[n + 1] ELSE f[n] \o ss[n + 1]
        BY <2>1, FlattensAt
      <3>3. n # 0 => f[n] \in Seq(S)
        BY <2>4
      <3> QED
        BY <3>1, <3>2, <3>3
    <2> HIDE DEF P
    <2>5. N \in P
      BY <2>0, <2>3, <2>4, NatInd
    <2> QED
      BY <2>0, <2>2, <2>5 DEF P
  <1> QED
    BY <1>1, <1>2

-----------------------------------------------------------------------------
(* Sequences                                                                *)

LEMMA WiderSeq ==
    ASSUME NEW A, NEW B, A \subseteq B, NEW s \in Seq(A) PROVE s \in Seq(B)
  <1>1. Len(s) \in Nat /\ s \in [1 .. Len(s) -> A]
    OBVIOUS
  <1>2. s \in [1 .. Len(s) -> B]
    BY <1>1
  <1> QED
    BY <1>1, <1>2

\* A function over 1 .. n is a sequence.
LEMMA FunSeq ==
    ASSUME NEW S, NEW n \in Nat, NEW f \in [1 .. n -> S]
    PROVE  f \in Seq(S) /\ Len(f) = n
  OBVIOUS

\* One that maps the elements of a sequence.
LEMMA MapSeq ==
    ASSUME NEW A, NEW B, NEW s \in Seq(A), NEW f,
           DOMAIN f = DOMAIN s, \A i \in DOMAIN s : f[i] \in B,
           f = [i \in DOMAIN f |-> f[i]]
    PROVE  f \in Seq(B) /\ Len(f) = Len(s)
  <1>1. Len(s) \in Nat /\ DOMAIN s = 1 .. Len(s)
    OBVIOUS
  <1>2. f \in [1 .. Len(s) -> B]
    BY <1>1
  <1> QED
    BY <1>1, <1>2, FunSeq

LEMMA AppendAt ==
    ASSUME NEW S, NEW s \in Seq(S), NEW e \in S
    PROVE  /\ Append(s, e) \in Seq(S)
           /\ DOMAIN Append(s, e) = 1 .. Len(s) + 1
           /\ DOMAIN s = 1 .. Len(s)
           /\ \A i \in 1 .. Len(s) : Append(s, e)[i] = s[i]
           /\ Append(s, e)[Len(s) + 1] = e
  OBVIOUS

LEMMA TailAt ==
    ASSUME NEW S, NEW s \in Seq(S), s # << >>
    PROVE  /\ Tail(s) \in Seq(S) /\ Head(s) \in S /\ Head(s) = s[1]
           /\ Len(s) \in Nat /\ Len(s) >= 1
           /\ DOMAIN Tail(s) = 1 .. Len(s) - 1
           /\ \A i \in 1 .. Len(s) - 1 : Tail(s)[i] = s[i + 1]
  OBVIOUS

LEMMA ShortSeq ==
    ASSUME NEW S, NEW x \in S, NEW y \in S
    PROVE  <<x>> \in Seq(S) /\ <<x, y>> \in Seq(S)
  OBVIOUS

LEMMA ToSetSeq ==
    ASSUME NEW S, NEW s \in Seq(S) PROVE ToSet(s) \subseteq S
  BY DEF ToSet

LEMMA ConcatAt ==
    ASSUME NEW S, NEW a \in Seq(S), NEW b \in Seq(S)
    PROVE  /\ a \o b \in Seq(S)
           /\ Len(a) \in Nat /\ Len(b) \in Nat
           /\ Len(a \o b) = Len(a) + Len(b)
           /\ DOMAIN (a \o b) = 1 .. Len(a) + Len(b)
           /\ \A i \in 1 .. Len(a) : (a \o b)[i] = a[i]
           /\ \A i \in 1 .. Len(b) : (a \o b)[Len(a) + i] = b[i]
  OBVIOUS

LEMMA RemoveAtSeq ==
    ASSUME NEW S, NEW s \in Seq(S), NEW k \in 1 .. Len(s)
    PROVE  /\ RemoveAt(s, k) \in Seq(S)
           /\ Len(RemoveAt(s, k)) = Len(s) - 1
           /\ \A i \in 1 .. k - 1 : RemoveAt(s, k)[i] = s[i]
           /\ \A i \in k .. Len(s) - 1 : RemoveAt(s, k)[i] = s[i + 1]
  <1> DEFINE a == SubSeq(s, 1, k - 1)
             b == SubSeq(s, k + 1, Len(s))
  <1>1. /\ a \in Seq(S) /\ Len(a) = k - 1 /\ Len(s) \in Nat
        /\ \A i \in 1 .. k - 1 : a[i] = s[i]
    OBVIOUS
  <1>2. /\ b \in Seq(S) /\ Len(b) = Len(s) - k
        /\ \A i \in 1 .. Len(s) - k : b[i] = s[i + k]
    OBVIOUS
  <1>3. RemoveAt(s, k) = a \o b
    BY DEF RemoveAt
  <1> HIDE DEF a, b
  <1>4. \A i \in k .. Len(s) - 1 : (a \o b)[i] = b[i - (k - 1)] /\ i - (k - 1) \in 1 .. Len(s) - k
    BY <1>1, <1>2
  <1>5. \A i \in k .. Len(s) - 1 : b[i - (k - 1)] = s[i + 1]
    BY <1>1, <1>2, <1>4
  <1>6. /\ a \o b \in Seq(S)
        /\ Len(a \o b) = Len(s) - 1
        /\ \A i \in 1 .. k - 1 : (a \o b)[i] = a[i]
    <2>1. Len(a \o b) = Len(a) + Len(b)
      BY <1>1, <1>2, ConcatAt
    <2>2. Len(a \o b) = Len(s) - 1
      BY <2>1, <1>1, <1>2
    <2> QED
      BY <1>1, <1>2, <2>2, ConcatAt
  <1> QED
    BY <1>1, <1>3, <1>4, <1>5, <1>6

\* Taking out the first occurrence of an element leaves the others, and none of
\* it if there was only one.
LEMMA RemoveFirstSeq ==
    ASSUME NEW S, NEW s \in Seq(S), NEW e
    PROVE  /\ RemoveFirst(s, e) \in Seq(S)
           /\ ToSet(RemoveFirst(s, e)) \subseteq ToSet(s)
           /\ ToSet(s) \ {e} \subseteq ToSet(RemoveFirst(s, e))
           /\ (\A i, j \in DOMAIN s : s[i] = s[j] => i = j) =>
                 /\ ToSet(RemoveFirst(s, e)) = ToSet(s) \ {e}
                 /\ \A i, j \in DOMAIN RemoveFirst(s, e) :
                       RemoveFirst(s, e)[i] = RemoveFirst(s, e)[j] => i = j
  <1>1. CASE ~ \E i \in 1 .. Len(s) : s[i] = e
    <2>1. RemoveFirst(s, e) = s /\ e \notin ToSet(s)
      BY <1>1 DEF RemoveFirst, ToSet
    <2> QED
      BY <2>1
  <1>2. CASE \E i \in 1 .. Len(s) : s[i] = e
    <2> DEFINE I == {i \in 1 .. Len(s) : s[i] = e}
               k == Min(I)
    <2>1. PICK x \in I : \A y \in I : x <= y
      <3>1. I \subseteq Nat /\ I # {}
        BY <1>2
      <3> HIDE DEF I
      <3> QED
        BY <3>1, LeastNat
    <2>2. k \in I
      BY <2>1 DEF Min
    <2>3. RemoveFirst(s, e) = RemoveAt(s, k)
      BY <1>2 DEF RemoveFirst, SelectInSeq
    <2> HIDE DEF k
    <2> DEFINE t == RemoveAt(s, k)
    <2>k. k \in 1 .. Len(s) /\ s[k] = e /\ Len(s) \in Nat /\ DOMAIN s = 1 .. Len(s)
      BY <2>2
    <2>4. /\ t \in Seq(S) /\ DOMAIN t = 1 .. Len(s) - 1 /\ DOMAIN s = 1 .. Len(s)
          /\ \A i \in 1 .. k - 1 : t[i] = s[i]
          /\ \A i \in k .. Len(s) - 1 : t[i] = s[i + 1]
          /\ k \in 1 .. Len(s) /\ s[k] = e /\ Len(s) \in Nat
      <3>1. t \in Seq(S) /\ Len(t) = Len(s) - 1
        BY <2>k, RemoveAtSeq
      <3>2. DOMAIN t = 1 .. Len(s) - 1
        BY <3>1
      <3> QED
        BY <2>k, <3>1, <3>2, RemoveAtSeq
    <2> HIDE DEF t
    <2>5. ToSet(t) \subseteq ToSet(s)
      <3>1. \A i \in DOMAIN t : t[i] = s[i] \/ (t[i] = s[i + 1] /\ i + 1 \in DOMAIN s)
        BY <2>4
      <3>2. \A i \in DOMAIN t : i \in DOMAIN s
        BY <2>4
      <3> QED
        BY <3>1, <3>2 DEF ToSet
    <2>6. ASSUME NEW y \in ToSet(s), y # e PROVE y \in ToSet(t)
      <3>1. PICK i \in DOMAIN s : y = s[i]
        BY DEF ToSet
      <3>2. CASE i < k
        BY <2>4, <3>1, <3>2 DEF ToSet
      <3>3. CASE i > k
        <4>1. i - 1 \in k .. Len(s) - 1 /\ t[i - 1] = y
          BY <2>4, <3>1, <3>3
        <4> QED
          BY <2>4, <4>1 DEF ToSet
      <3> QED
        BY <2>4, <2>6, <3>1, <3>2, <3>3
    <2>7. ASSUME \A i, j \in DOMAIN s : s[i] = s[j] => i = j
          PROVE  e \notin ToSet(t) /\ \A i, j \in DOMAIN t : t[i] = t[j] => i = j
      <3>1. \A i \in DOMAIN t : t[i] = s[IF i < k THEN i ELSE i + 1]
        BY <2>4
      <3>2. \A i \in DOMAIN t : (IF i < k THEN i ELSE i + 1) \in DOMAIN s \ {k}
        BY <2>4
      <3>3. e \notin ToSet(t)
        BY <2>4, <2>7, <3>1, <3>2 DEF ToSet
      <3>4. ASSUME NEW i \in DOMAIN t, NEW j \in DOMAIN t, t[i] = t[j] PROVE i = j
        <4>1. (IF i < k THEN i ELSE i + 1) = (IF j < k THEN j ELSE j + 1)
          BY <2>7, <3>1, <3>2, <3>4
        <4> QED
          BY <2>4, <4>1
      <3> QED
        BY <3>3, <3>4
    <2> QED
      BY <2>3, <2>4, <2>5, <2>6, <2>7 DEF t
  <1> QED
    BY <1>1, <1>2

\* A message moves from the front of the second sequence to the end of the
\* first, or leaves the first.
LEMMA TailConcat ==
    ASSUME NEW S, NEW s \in Seq(S), s # << >>, NEW t \in Seq(S)
    PROVE  /\ Tail(s) \o t = Tail(s \o t) /\ s \o t # << >>
           /\ Head(s \o t) = Head(s)
  <1>1. /\ Len(s) \in Nat /\ Len(s) >= 1 /\ Len(t) \in Nat
        /\ Tail(s) \in Seq(S) /\ Len(Tail(s)) = Len(s) - 1
        /\ \A i \in 1 .. Len(s) - 1 : Tail(s)[i] = s[i + 1]
        /\ s \o t \in Seq(S) /\ Len(s \o t) = Len(s) + Len(t)
        /\ \A i \in 1 .. Len(s) : (s \o t)[i] = s[i]
        /\ \A i \in 1 .. Len(t) : (s \o t)[Len(s) + i] = t[i]
        /\ Head(s) = s[1]
    BY TailAt, ConcatAt
  <1> DEFINE a == Tail(s) \o t
             b == s \o t
  <1>2. /\ a \in Seq(S) /\ Len(a) = (Len(s) - 1) + Len(t)
        /\ \A i \in 1 .. Len(s) - 1 : a[i] = Tail(s)[i]
        /\ \A i \in 1 .. Len(t) : a[(Len(s) - 1) + i] = t[i]
    BY <1>1, ConcatAt
  <1> DEFINE n == Len(s)
             u == Tail(s)
             c == Tail(b)
  <1>3. b # << >> /\ Head(b) = b[1]
    <2> HIDE DEF b
    <2> QED
      BY <1>1 DEF b
  <1>4. c \in Seq(S) /\ Len(c) = Len(b) - 1 /\ \A i \in 1 .. Len(b) - 1 : c[i] = b[i + 1]
    <2> HIDE DEF b
    <2> QED
      BY <1>1, <1>3 DEF b
  <1> HIDE DEF a, b, c, u, n
  <1>5. Len(a) = Len(c)
    BY <1>1, <1>2, <1>4 DEF b
  <1>6. ASSUME NEW i \in 1 .. Len(a) PROVE a[i] = c[i]
    <2>1. c[i] = b[i + 1]
      BY <1>4, <1>5, <1>6, <1>1, <1>2
    <2>2. CASE i <= Len(s) - 1
      BY <1>1, <1>2, <2>1, <2>2 DEF b
    <2>3. CASE i > Len(s) - 1
      <3>1. /\ i - (Len(s) - 1) \in 1 .. Len(t)
            /\ (Len(s) - 1) + (i - (Len(s) - 1)) = i
            /\ Len(s) + (i - (Len(s) - 1)) = i + 1
        BY <1>1, <1>2, <2>3
      <3> QED
        BY <1>1, <1>2, <2>1, <3>1 DEF b
    <2> QED
      BY <1>1, <1>2, <2>2, <2>3
  <1>7. a = c
    BY <1>2, <1>4, <1>5, <1>6, SeqEqual
  <1> QED
    BY <1>1, <1>3, <1>7 DEF a, b, c

LEMMA ShiftConcat ==
    ASSUME NEW S, NEW s \in Seq(S), NEW t \in Seq(S), t # << >>
    PROVE  Append(s, Head(t)) \o Tail(t) = s \o t
  <1>1. /\ Len(s) \in Nat /\ Len(t) >= 1 /\ Len(t) \in Nat
        /\ Tail(t) \in Seq(S) /\ Len(Tail(t)) = Len(t) - 1
        /\ \A i \in 1 .. Len(t) - 1 : Tail(t)[i] = t[i + 1]
        /\ s \o t \in Seq(S) /\ Len(s \o t) = Len(s) + Len(t)
        /\ \A i \in 1 .. Len(s) : (s \o t)[i] = s[i]
        /\ \A i \in 1 .. Len(t) : (s \o t)[Len(s) + i] = t[i]
        /\ Head(t) = t[1] /\ Head(t) \in S
    BY TailAt, ConcatAt
  <1> DEFINE p == Append(s, Head(t))
             q == Tail(t)
             a == p \o q
             b == s \o t
  <1>2. /\ p \in Seq(S) /\ Len(p) = Len(s) + 1
        /\ \A i \in 1 .. Len(s) : p[i] = s[i]
        /\ p[Len(s) + 1] = t[1]
    BY <1>1, AppendAt
  <1>q. q \in Seq(S) /\ Len(q) = Len(t) - 1
        /\ \A i \in 1 .. Len(t) - 1 : q[i] = t[i + 1]
    BY <1>1
  <1> HIDE DEF p, q
  <1>3. /\ a \in Seq(S) /\ Len(a) = (Len(s) + 1) + (Len(t) - 1)
        /\ \A i \in 1 .. Len(s) + 1 : a[i] = p[i]
        /\ \A i \in 1 .. Len(t) - 1 : a[(Len(s) + 1) + i] = q[i]
    <2>0. p \in Seq(S) /\ q \in Seq(S)
      BY <1>2, <1>q
    <2>1. /\ a \in Seq(S) /\ Len(a) = Len(p) + Len(q)
          /\ \A i \in 1 .. Len(p) : a[i] = p[i]
          /\ \A i \in 1 .. Len(q) : a[Len(p) + i] = q[i]
      BY ONLY <2>0, ConcatAt
    <2> HIDE DEF a
    <2> QED
      BY <1>1, <1>2, <1>q, <2>1
  <1> HIDE DEF a, b
  <1>4. Len(a) = Len(b) /\ Len(a) = Len(s) + Len(t)
    BY <1>1, <1>3 DEF b
  <1>5. ASSUME NEW i \in 1 .. Len(a) PROVE a[i] = b[i]
    <2>1. CASE i <= Len(s)
      BY <1>1, <1>2, <1>3, <1>4, <2>1 DEF b
    <2>2. CASE i = Len(s) + 1
      BY <1>1, <1>2, <1>3, <1>4, <2>2 DEF b
    <2>3. CASE i > Len(s) + 1
      <3>1. /\ i - (Len(s) + 1) \in 1 .. Len(t) - 1
            /\ (Len(s) + 1) + (i - (Len(s) + 1)) = i
            /\ (i - (Len(s) + 1)) + 1 \in 1 .. Len(t)
            /\ Len(s) + ((i - (Len(s) + 1)) + 1) = i
        BY <1>1, <1>4, <2>3
      <3>2. a[i] = q[i - (Len(s) + 1)]
        BY <1>3, <3>1
      <3>3. q[i - (Len(s) + 1)] = t[(i - (Len(s) + 1)) + 1]
        BY <1>q, <3>1
      <3>4. t[(i - (Len(s) + 1)) + 1] = b[i]
        BY <1>1, <3>1 DEF b
      <3> QED
        BY <3>2, <3>3, <3>4
    <2> QED
      BY <1>1, <1>4, <2>1, <2>2, <2>3
  <1>6. b \in Seq(S)
    BY <1>1 DEF b
  <1>7. a = b
    BY <1>3, <1>4, <1>5, <1>6, SeqEqual
  <1> QED
    BY <1>7 DEF a, b, p, q

-----------------------------------------------------------------------------
(* The elements of a sequence                                               *)

LEMMA SeqOfAll ==
    ASSUME NEW S, NEW A, NEW s \in Seq(S), \A i \in DOMAIN s : s[i] \in A
    PROVE  s \in Seq(A)
  <1>1. s = [i \in DOMAIN s |-> s[i]]
    OBVIOUS
  <1> QED
    BY <1>1, MapSeq

LEMMA ToSetAppend ==
    ASSUME NEW S, NEW s \in Seq(S), NEW e \in S
    PROVE  ToSet(Append(s, e)) = ToSet(s) \cup {e}
  <1>1. /\ DOMAIN Append(s, e) = 1 .. Len(s) + 1 /\ DOMAIN s = 1 .. Len(s)
        /\ \A i \in 1 .. Len(s) : Append(s, e)[i] = s[i]
        /\ Append(s, e)[Len(s) + 1] = e /\ Len(s) \in Nat
    BY AppendAt
  <1>2. \A i \in 1 .. Len(s) + 1 : i \in 1 .. Len(s) \/ i = Len(s) + 1
    BY <1>1
  <1>3. \A i \in 1 .. Len(s) : i \in 1 .. Len(s) + 1
    BY <1>1
  <1>4. Len(s) + 1 \in 1 .. Len(s) + 1
    BY <1>1
  <1> DEFINE t == Append(s, e)
  <1> HIDE DEF t
  <1>5. ToSet(t) \subseteq ToSet(s) \cup {e}
    BY <1>1, <1>2 DEF ToSet, t
  <1>6. ToSet(s) \subseteq ToSet(t) /\ e \in ToSet(t)
    BY <1>1, <1>3, <1>4 DEF ToSet, t
  <1> QED
    BY <1>5, <1>6 DEF t

\* An element that was not in a sequence is in it once.
LEMMA OnceAppend ==
    ASSUME NEW S, NEW s \in Seq(S), NEW e \in S, e \notin ToSet(s),
           \A i, j \in DOMAIN s : s[i] = s[j] => i = j
    PROVE  \A i, j \in DOMAIN Append(s, e) :
              Append(s, e)[i] = Append(s, e)[j] => i = j
  <1> DEFINE t == Append(s, e)
  <1>1. /\ DOMAIN t = 1 .. Len(s) + 1 /\ DOMAIN s = 1 .. Len(s)
        /\ \A i \in 1 .. Len(s) : t[i] = s[i]
        /\ t[Len(s) + 1] = e /\ Len(s) \in Nat
    BY AppendAt
  <1> HIDE DEF t
  <1>2. \A i \in DOMAIN s : t[i] # e
    BY <1>1 DEF ToSet
  <1>3. \A i \in DOMAIN t : i \in DOMAIN s \/ i = Len(s) + 1
    BY <1>1
  <1>4. ASSUME NEW i \in DOMAIN t, NEW j \in DOMAIN t, t[i] = t[j] PROVE i = j
    <2>1. CASE i \in DOMAIN s /\ j \in DOMAIN s
      BY <1>1, <1>4, <2>1
    <2>2. CASE i = Len(s) + 1 \/ j = Len(s) + 1
      BY <1>1, <1>2, <1>3, <1>4, <2>2
    <2> QED
      BY <1>3, <2>1, <2>2
  <1> QED
    BY <1>4 DEF t

LEMMA ToSetEmpty ==
    ASSUME NEW S, NEW s \in Seq(S)
    PROVE  ToSet(s) = {} <=> s = << >>
  BY DEF ToSet

LEMMA ToSetTail ==
    ASSUME NEW S, NEW s \in Seq(S), s # << >>
    PROVE  Head(s) \in ToSet(s) /\ ToSet(s) = ToSet(Tail(s)) \cup {Head(s)}
  <1> DEFINE t == Tail(s)
  <1>1. /\ Head(s) = s[1] /\ DOMAIN s = 1 .. Len(s) /\ Len(s) \in Nat /\ Len(s) >= 1
        /\ DOMAIN t = 1 .. Len(s) - 1
        /\ \A i \in 1 .. Len(s) - 1 : t[i] = s[i + 1]
    BY TailAt
  <1> HIDE DEF t
  <1>2. 1 \in DOMAIN s /\ \A i \in DOMAIN t : i + 1 \in DOMAIN s /\ t[i] = s[i + 1]
    BY <1>1
  <1>3. \A i \in DOMAIN s : i = 1 \/ (i - 1 \in DOMAIN t /\ t[i - 1] = s[i])
    BY <1>1
  <1>4. Head(s) \in ToSet(s) /\ ToSet(t) \subseteq ToSet(s)
    BY <1>1, <1>2 DEF ToSet
  <1>5. \A x \in ToSet(s) : x = Head(s) \/ x \in ToSet(t)
    BY <1>1, <1>3 DEF ToSet
  <1> QED
    BY <1>4, <1>5 DEF t

LEMMA OnceTail ==
    ASSUME NEW S, NEW s \in Seq(S), s # << >>,
           \A i, j \in DOMAIN s : s[i] = s[j] => i = j
    PROVE  /\ \A i, j \in DOMAIN Tail(s) : Tail(s)[i] = Tail(s)[j] => i = j
           /\ Head(s) \notin ToSet(Tail(s))
  <1> DEFINE t == Tail(s)
  <1>1. /\ Head(s) = s[1] /\ DOMAIN s = 1 .. Len(s) /\ Len(s) \in Nat /\ Len(s) >= 1
        /\ DOMAIN t = 1 .. Len(s) - 1
        /\ \A i \in 1 .. Len(s) - 1 : t[i] = s[i + 1]
    BY TailAt
  <1> HIDE DEF t
  <1>2. \A i \in DOMAIN t : i + 1 \in DOMAIN s /\ t[i] = s[i + 1] /\ i + 1 # 1
    BY <1>1
  <1>3. 1 \in DOMAIN s
    BY <1>1
  <1>4. ASSUME NEW i \in DOMAIN t, NEW j \in DOMAIN t, t[i] = t[j] PROVE i = j
    <2>1. i + 1 = j + 1
      BY <1>2, <1>4
    <2> QED
      BY <1>1, <2>1
  <1>5. \A i \in DOMAIN t : t[i] # s[1]
    BY <1>2, <1>3
  <1> QED
    BY <1>1, <1>4, <1>5 DEF t, ToSet

LEMMA FrontAppend ==
    ASSUME NEW S, NEW s \in Seq(S), NEW e \in S
    PROVE  Front(Append(s, e)) = s /\ Last(Append(s, e)) = e
  <1> DEFINE t == Append(s, e)
  <1>1. /\ t \in Seq(S) /\ Len(t) = Len(s) + 1 /\ Len(s) \in Nat
        /\ \A i \in 1 .. Len(s) : t[i] = s[i]
        /\ t[Len(s) + 1] = e
    BY AppendAt
  <1> HIDE DEF t
  <1>2. Last(t) = e
    BY <1>1 DEF Last
  <1>3. /\ Front(t) \in Seq(S) /\ Len(Front(t)) = Len(s)
        /\ \A i \in 1 .. Len(s) : Front(t)[i] = t[i]
    BY <1>1 DEF Front
  <1>4. \A i \in 1 .. Len(s) : Front(t)[i] = s[i]
    BY <1>1, <1>3
  <1> DEFINE f == Front(t)
  <1> HIDE DEF f
  <1>5. f = s
    BY <1>3, <1>4, SeqEqual DEF f
  <1> QED
    BY <1>2, <1>5 DEF t, f

LEMMA FrontSeq ==
    ASSUME NEW S, NEW s \in Seq(S)
    PROVE  /\ Front(s) \in Seq(S) /\ ToSet(Front(s)) \subseteq ToSet(s)
           /\ s # << >> => ToSet(s) = ToSet(Front(s)) \cup {Last(s)}
           /\ \A e \in S : Front(Append(s, e)) = s /\ Last(Append(s, e)) = e
  <1> DEFINE f == Front(s)
  <1>1. CASE s = << >>
    <2>1. f = << >>
      BY <1>1 DEF Front
    <2> QED
      BY <1>1, <2>1, FrontAppend
  <1>2. CASE s # << >>
    <2>1. /\ f \in Seq(S) /\ Len(s) \in Nat /\ Len(s) >= 1 /\ Len(f) = Len(s) - 1
          /\ DOMAIN f = 1 .. Len(s) - 1 /\ DOMAIN s = 1 .. Len(s)
          /\ \A i \in 1 .. Len(s) - 1 : f[i] = s[i]
          /\ Last(s) = s[Len(s)]
      <3>1. Len(s) \in Nat /\ Len(s) >= 1 /\ DOMAIN s = 1 .. Len(s) /\ Last(s) = s[Len(s)]
        BY <1>2 DEF Last
      <3>2. f = SubSeq(s, 1, Len(s) - 1)
        BY DEF Front
      <3>3. /\ SubSeq(s, 1, Len(s) - 1) \in Seq(S)
            /\ Len(SubSeq(s, 1, Len(s) - 1)) = Len(s) - 1
            /\ \A i \in 1 .. Len(s) - 1 : SubSeq(s, 1, Len(s) - 1)[i] = s[i]
        BY <3>1
      <3> HIDE DEF f
      <3> QED
        BY <3>1, <3>2, <3>3
    <2> HIDE DEF f
    <2>2. \A i \in DOMAIN f : i \in DOMAIN s /\ f[i] = s[i]
      BY <2>1
    <2>3. Len(s) \in DOMAIN s
      BY <2>1
    <2>4. \A i \in DOMAIN s : i = Len(s) \/ (i \in DOMAIN f /\ f[i] = s[i])
      BY <2>1
    <2>5. ToSet(s) = ToSet(f) \cup {Last(s)}
      BY <2>1, <2>2, <2>3, <2>4 DEF ToSet
    <2> QED
      BY <2>1, <2>5, FrontAppend DEF f
  <1> QED
    BY <1>1, <1>2

LEMMA ToSetConcat ==
    ASSUME NEW S, NEW a \in Seq(S), NEW b \in Seq(S)
    PROVE  ToSet(a \o b) = ToSet(a) \cup ToSet(b)
  <1> DEFINE c == a \o b
  <1>1. /\ DOMAIN c = 1 .. Len(a) + Len(b) /\ Len(a) \in Nat /\ Len(b) \in Nat
        /\ DOMAIN a = 1 .. Len(a) /\ DOMAIN b = 1 .. Len(b)
        /\ \A i \in 1 .. Len(a) : c[i] = a[i]
        /\ \A i \in 1 .. Len(b) : c[Len(a) + i] = b[i]
    BY ConcatAt
  <1> HIDE DEF c
  <1>2. \A i \in DOMAIN a : i \in DOMAIN c /\ c[i] = a[i]
    BY <1>1
  <1>3. \A i \in DOMAIN b : Len(a) + i \in DOMAIN c /\ c[Len(a) + i] = b[i]
    BY <1>1
  <1>4. ASSUME NEW i \in DOMAIN c, i \notin DOMAIN a
        PROVE  i - Len(a) \in DOMAIN b /\ c[i] = b[i - Len(a)]
    <2>1. i - Len(a) \in 1 .. Len(b) /\ Len(a) + (i - Len(a)) = i
      BY <1>1, <1>4
    <2> QED
      BY <1>1, <2>1
  <1>5. ToSet(a) \subseteq ToSet(c) /\ ToSet(b) \subseteq ToSet(c)
    BY <1>2, <1>3 DEF ToSet
  <1>6. ToSet(c) \subseteq ToSet(a) \cup ToSet(b)
    BY <1>2, <1>4 DEF ToSet
  <1> QED
    BY <1>5, <1>6 DEF c

\* FlattenSeq loses nothing.
LEMMA FlattenHas ==
    ASSUME NEW S, NEW ss \in Seq(Seq(S)), NEW k \in DOMAIN ss
    PROVE  ToSet(ss[k]) \subseteq ToSet(FlattenSeq(ss))
  <1> DEFINE N == Len(ss)
             f == CHOOSE f : Flattens(f, ss, N)
  <1>0. N \in Nat /\ N >= 1 /\ k \in 1 .. N
    OBVIOUS
  <1>1. Flattens(f, ss, N)
    BY <1>0, FlattenExists
  <1>2. FlattenSeq(ss) = f[N]
    BY <1>0 DEF FlattenSeq, Flattens
  <1> HIDE DEF f
  <1> DEFINE P == {n \in Nat : n \in 1 .. N =>
                     f[n] \in Seq(S) /\ (k <= n => ToSet(ss[k]) \subseteq ToSet(f[n]))}
  <1>3. 0 \in P
    OBVIOUS
  <1>4. ASSUME NEW n \in Nat, n \in P PROVE n + 1 \in P
    <2> SUFFICES ASSUME n + 1 \in 1 .. N
                 PROVE  f[n + 1] \in Seq(S)
                        /\ (k <= n + 1 => ToSet(ss[k]) \subseteq ToSet(f[n + 1]))
      BY <1>4
    <2>1. ss[n + 1] \in Seq(S)
      OBVIOUS
    <2>2. f[n + 1] = IF n + 1 = 1 THEN ss[n + 1] ELSE f[n] \o ss[n + 1]
      BY <1>1, FlattensAt
    <2>3. n # 0 => f[n] \in Seq(S) /\ (k <= n => ToSet(ss[k]) \subseteq ToSet(f[n]))
      BY <1>4
    <2>4. CASE n = 0
      BY <1>0, <2>1, <2>2, <2>4
    <2>5. CASE n # 0
      <3>0. n + 1 # 1
        BY <2>5
      <3>1. f[n + 1] = f[n] \o ss[n + 1]
        BY <2>2, <3>0
      <3>2. f[n + 1] \in Seq(S) /\ ToSet(f[n + 1]) = ToSet(f[n]) \cup ToSet(ss[n + 1])
        BY <2>1, <2>3, <2>5, <3>1, ToSetConcat, ConcatAt
      <3>3. k <= n + 1 => k <= n \/ k = n + 1
        BY <1>0
      <3> QED
        BY <2>3, <2>5, <3>2, <3>3
    <2> QED
      BY <2>4, <2>5
  <1> HIDE DEF P
  <1>5. N \in P
    BY <1>0, <1>3, <1>4, NatInd
  <1> QED
    BY <1>0, <1>2, <1>5 DEF P

-----------------------------------------------------------------------------
(* The protocol                                                            *)

\* What _queryBuffer must hold, given the statements in drivers: the commands
\* that create or activate a statement name a query, and one that is about to be
\* created is in no driver and is not activated before.
QueueOK(s, a) == \A i \in DOMAIN s :
    /\ s[i].code = ACTIVATE_QUERY => s[i].arg \in Query
    /\ s[i].code = ADD_QUERY =>
         /\ s[i].arg \in Query \ a
         /\ \A j \in 1 .. i - 1 :
               ~ (s[j].code = ACTIVATE_QUERY /\ s[j].arg = s[i].arg)

\* What Ios waits for is about a statement of the right kind.
ArgOK ==
    /\ ipc = "query" => arg \in Query
    /\ ipc = "activate" => arg \in known
    /\ ipc = "table" => arg \in Table
    /\ ipc \in {"stream", "undo"} => arg \in Stream

\* TypeOK is not inductive alone.
TypeInv == TypeOK /\ ArgOK /\ QueueOK(qBuf, active)

-----------------------------------------------------------------------------
(* _queryBuffer                                                             *)

LEMMA MsgType ==
    ASSUME NEW c \in 0 .. 21, NEW x \in Names
    PROVE  Msg(c, x) \in Message /\ Msg(c, x).code = c /\ Msg(c, x).arg = x
  BY DEF Msg, Message

\* The commands, other than the two, may be appended freely.
LEMMA AppendQueue ==
    ASSUME NEW s \in Seq(Message), NEW a, QueueOK(s, a),
           NEW c \in 0 .. 21, NEW x \in Names,
           c = ACTIVATE_QUERY => x \in Query,
           c = ADD_QUERY =>
             /\ x \in Query \ a
             /\ \A i \in DOMAIN s :
                   ~ (s[i].code = ACTIVATE_QUERY /\ s[i].arg = x)
    PROVE  /\ Append(s, Msg(c, x)) \in Seq(Message)
           /\ QueueOK(Append(s, Msg(c, x)), a)
  <1> DEFINE m == Msg(c, x)
             t == Append(s, m)
  <1>1. m \in Message /\ m.code = c /\ m.arg = x
    BY MsgType
  <1> HIDE DEF m
  <1>2. /\ t \in Seq(Message) /\ DOMAIN t = 1 .. Len(s) + 1
        /\ DOMAIN s = 1 .. Len(s) /\ Len(s) \in Nat
        /\ \A i \in 1 .. Len(s) : t[i] = s[i]
        /\ t[Len(s) + 1] = m
    BY <1>1, AppendAt
  <1> HIDE DEF t
  <1>3. ASSUME NEW i \in DOMAIN t
        PROVE  /\ t[i].code = ACTIVATE_QUERY => t[i].arg \in Query
               /\ t[i].code = ADD_QUERY =>
                    /\ t[i].arg \in Query \ a
                    /\ \A j \in 1 .. i - 1 :
                         ~ (t[j].code = ACTIVATE_QUERY /\ t[j].arg = t[i].arg)
    <2>1. \A j \in 1 .. i - 1 : j \in DOMAIN s /\ t[j] = s[j]
      BY <1>2
    <2>2. CASE i \in DOMAIN s
      BY <1>2, <2>1, <2>2 DEF QueueOK
    <2>3. CASE i = Len(s) + 1
      BY <1>1, <1>2, <2>1, <2>3
    <2> QED
      BY <1>2, <2>2, <2>3
  <1> QED
    BY <1>2, <1>3 DEF QueueOK, t, m

\* Taking a command; after ACTIVATE_QUERY its statement may be in a driver.
LEMMA TailQueue ==
    ASSUME NEW s \in Seq(Message), s # << >>, NEW a, QueueOK(s, a),
           NEW b, b \subseteq a \cup
                    (IF Head(s).code = ACTIVATE_QUERY THEN {Head(s).arg} ELSE {})
    PROVE  /\ Tail(s) \in Seq(Message) /\ Head(s) \in Message
           /\ QueueOK(Tail(s), b)
           /\ Head(s).code = ACTIVATE_QUERY => Head(s).arg \in Query
           /\ Head(s).code = ADD_QUERY => Head(s).arg \in Query \ a
  <1> DEFINE t == Tail(s)
  <1>1. /\ t \in Seq(Message) /\ Head(s) \in Message /\ Head(s) = s[1]
        /\ Len(s) \in Nat /\ Len(s) >= 1
        /\ DOMAIN t = 1 .. Len(s) - 1 /\ DOMAIN s = 1 .. Len(s)
        /\ \A i \in 1 .. Len(s) - 1 : t[i] = s[i + 1]
    BY TailAt
  <1> HIDE DEF t
  <1>2. ASSUME NEW i \in DOMAIN t
        PROVE  /\ t[i].code = ACTIVATE_QUERY => t[i].arg \in Query
               /\ t[i].code = ADD_QUERY =>
                    /\ t[i].arg \in Query \ b
                    /\ \A j \in 1 .. i - 1 :
                         ~ (t[j].code = ACTIVATE_QUERY /\ t[j].arg = t[i].arg)
    <2>1. i + 1 \in DOMAIN s /\ t[i] = s[i + 1]
      BY <1>1
    <2>2. \A j \in 1 .. i - 1 : t[j] = s[j + 1] /\ j + 1 \in 1 .. (i + 1) - 1
      BY <1>1
    <2>3. 1 \in 1 .. (i + 1) - 1
      BY <1>1
    <2>4. s[i + 1].code = ACTIVATE_QUERY => s[i + 1].arg \in Query
      BY <2>1 DEF QueueOK
    <2>5. s[i + 1].code = ADD_QUERY =>
             /\ s[i + 1].arg \in Query \ a
             /\ \A j \in 1 .. (i + 1) - 1 :
                  ~ (s[j].code = ACTIVATE_QUERY /\ s[j].arg = s[i + 1].arg)
      BY <2>1 DEF QueueOK
    <2> QED
      BY <1>1, <2>1, <2>2, <2>3, <2>4, <2>5
  <1>3. 1 \in DOMAIN s
    BY <1>1
  <1> QED
    BY <1>1, <1>2, <1>3 DEF QueueOK, t

LEMMA StaleSeq ==
    ASSUME NEW s \in Seq(Message)
    PROVE  /\ Stale(s) \in Seq(Message)
           /\ DOMAIN Stale(s) = DOMAIN s /\ Len(Stale(s)) = Len(s)
           /\ \A i \in DOMAIN s : /\ Stale(s)[i].code = s[i].code
                                  /\ Stale(s)[i].arg = s[i].arg
                                  /\ Stale(s)[i].mine = FALSE
  <1>1. DOMAIN Stale(s) = DOMAIN s /\ Stale(s) = [i \in DOMAIN Stale(s) |-> Stale(s)[i]]
    BY DEF Stale
  <1>2. ASSUME NEW i \in DOMAIN s
        PROVE  /\ Stale(s)[i] \in Message /\ Stale(s)[i].code = s[i].code
               /\ Stale(s)[i].arg = s[i].arg /\ Stale(s)[i].mine = FALSE
    <2>1. s[i] \in Message
      OBVIOUS
    <2>2. Stale(s)[i] = [s[i] EXCEPT !.mine = FALSE]
      BY DEF Stale
    <2> QED
      BY <2>1, <2>2 DEF Message
  <1>3. Stale(s) \in Seq(Message) /\ Len(Stale(s)) = Len(s)
    <2> DEFINE f == Stale(s)
    <2>1. f = [i \in DOMAIN f |-> f[i]] /\ DOMAIN f = DOMAIN s
            /\ \A i \in DOMAIN s : f[i] \in Message
      BY <1>1, <1>2
    <2> HIDE DEF f
    <2>2. f \in Seq(Message) /\ Len(f) = Len(s)
      BY <2>1, MapSeq
    <2> QED
      BY <2>2 DEF f
  <1> QED
    BY <1>1, <1>2, <1>3

LEMMA StaleQueue ==
    ASSUME NEW s \in Seq(Message), NEW a, QueueOK(s, a)
    PROVE  QueueOK(Stale(s), a)
  <1> DEFINE t == Stale(s)
  <1>1. /\ DOMAIN t = DOMAIN s
        /\ \A i \in DOMAIN s : t[i].code = s[i].code /\ t[i].arg = s[i].arg
    BY StaleSeq
  <1>s. DOMAIN s = 1 .. Len(s) /\ Len(s) \in Nat
    OBVIOUS
  <1>2. \A i \in DOMAIN s : \A j \in 1 .. i - 1 : j \in DOMAIN s
    BY <1>s
  <1> HIDE DEF t
  <1> QED
    BY <1>1, <1>2 DEF QueueOK, t

\* The messages of a handler keep their type.
LEMMA PutsType ==
    ASSUME NEW out \in Seq(Message), NEW b \in BOOLEAN, Puts(out, b)
    PROVE  /\ pend' \in Seq(Message)
           /\ DOMAIN pend' = DOMAIN out /\ Len(pend') = Len(out)
           /\ \A i \in DOMAIN out : /\ pend'[i].code = out[i].code
                                    /\ pend'[i].arg = out[i].arg
                                    /\ pend'[i].mine = b
  <1> DEFINE f == [i \in DOMAIN out |-> [out[i] EXCEPT !.mine = b]]
  <1>1. pend' = f
    BY DEF Puts
  <1>2. ASSUME NEW i \in DOMAIN out
        PROVE  /\ f[i] \in Message /\ f[i].code = out[i].code
               /\ f[i].arg = out[i].arg /\ f[i].mine = b
    <2>1. out[i] \in Message
      OBVIOUS
    <2>2. f[i] = [out[i] EXCEPT !.mine = b]
      OBVIOUS
    <2> HIDE DEF f
    <2> QED
      BY <2>1, <2>2 DEF Message
  <1>3. f = [i \in DOMAIN f |-> f[i]] /\ DOMAIN f = DOMAIN out
    OBVIOUS
  <1> HIDE DEF f
  <1>4. f \in Seq(Message) /\ Len(f) = Len(out)
    BY <1>2, <1>3, MapSeq
  <1> QED
    BY <1>1, <1>2, <1>3, <1>4

-----------------------------------------------------------------------------
(* What a compilation puts on _ioBuffer                                     *)

\* The declarations the compiler finds are of streams and of tables.
LEMMA DclType ==
    ASSUME TypeInv PROVE TablesDcl \in Seq(Table) /\ SystemDcl \in Seq(Stream)
  BY DEF TypeInv, TypeOK, ArgOK, TablesDcl, SystemDcl

\* A message that announces a stream names one.
Output == {m \in Message : m.code = ADDED_STREAM_BUFFER => m.arg \in Stream}

LEMMA OutputType ==
    ASSUME NEW s \in Seq(Output) PROVE s \in Seq(Message)
  BY WiderSeq DEF Output

LEMMA OutputMsg ==
    ASSUME NEW c \in 0 .. 21, NEW x \in Names,
           c = ADDED_STREAM_BUFFER => x \in Stream
    PROVE  Msg(c, x) \in Output
  BY MsgType DEF Output

LEMMA VerdictOutput ==
    \A b : Verdict(b) \in Output
  BY OutputMsg DEF Verdict, Names, COMMAND_SUCCESSFUL, COMMAND_FAILED,
                   ADDED_STREAM_BUFFER

\* What precedes the compiler's verdict.
Announced == {ADDED_BUFFER, ADDED_STREAM_BUFFER, CONNECT_IOMODULE, USES_LIBRARY}
Notice == {m \in Output : m.code \in Announced}

LEMMA NoticeMsg ==
    ASSUME NEW c \in Announced, NEW x \in Names,
           c = ADDED_STREAM_BUFFER => x \in Stream
    PROVE  Msg(c, x) \in Notice
  <1>1. c \in 0 .. 21
    BY DEF Announced, ADDED_BUFFER, ADDED_STREAM_BUFFER, CONNECT_IOMODULE,
           USES_LIBRARY
  <1> QED
    BY <1>1, MsgType DEF Output, Notice

LEMMA DeclNotices ==
    ASSUME TypeInv, NEW b PROVE DeclMsgs(b) \in Seq(Notice)
  <1> DEFINE T == TablesDcl
             S == SystemDcl
             f == [i \in DOMAIN T |-> Msg(ADDED_BUFFER, T[i])]
             g == [i \in DOMAIN S |-> StreamMsgs(S[i], b)]
  <1>1. T \in Seq(Table) /\ S \in Seq(Stream)
    BY DclType
  <1> HIDE DEF T, S
  <1>2. f \in Seq(Notice)
    <2>1. \A i \in DOMAIN T : Msg(ADDED_BUFFER, T[i]) \in Notice
      BY <1>1, NoticeMsg DEF Names, Announced, ADDED_BUFFER, ADDED_STREAM_BUFFER
    <2>2. DOMAIN f = DOMAIN T /\ \A i \in DOMAIN T : f[i] \in Notice
      BY <2>1
    <2>3. f = [i \in DOMAIN f |-> f[i]]
      OBVIOUS
    <2> HIDE DEF f
    <2> QED
      BY <1>1, <2>2, <2>3, MapSeq
  <1>3. g \in Seq(Seq(Notice))
    <2>1. ASSUME NEW s \in Stream PROVE StreamMsgs(s, b) \in Seq(Notice)
      <3>1. /\ Msg(CONNECT_IOMODULE, None) \in Notice
            /\ Msg(ADDED_STREAM_BUFFER, s) \in Notice
            /\ Msg(CONNECT_IOMODULE, s) \in Notice
        BY NoticeMsg DEF Names, Announced, CONNECT_IOMODULE, ADDED_STREAM_BUFFER
      <3> QED
        BY <3>1 DEF StreamMsgs
    <2>2. \A i \in DOMAIN S : S[i] \in Stream
      BY <1>1
    <2>3. DOMAIN g = DOMAIN S /\ \A i \in DOMAIN S : g[i] \in Seq(Notice)
      BY <2>1, <2>2
    <2>4. g = [i \in DOMAIN g |-> g[i]]
      OBVIOUS
    <2> HIDE DEF g
    <2> QED
      BY <1>1, <2>3, <2>4, MapSeq
  <1>4. FlattenSeq(g) \in Seq(Notice)
    BY <1>3, FlattenType
  <1>5. DeclMsgs(b) = f \o FlattenSeq(g)
    BY DEF DeclMsgs, T, S
  <1> HIDE DEF f, g
  <1> QED
    BY <1>2, <1>4, <1>5

LEMMA CompileNotices ==
    ASSUME TypeInv, NEW q \in Query \cup {None}, NEW b
    PROVE  CompileMsgs(q, b) \in Seq(Notice)
  <1>1. DeclMsgs(b) \in Seq(Notice)
    BY DeclNotices
  <1>2. Msg(USES_LIBRARY, q) \in Notice
    BY NoticeMsg DEF Names, Announced, USES_LIBRARY, ADDED_STREAM_BUFFER
  <1>3. CASE q \in Private
    BY <1>1, <1>2, <1>3 DEF CompileMsgs
  <1>4. CASE q \notin Private
    BY <1>1, <1>4 DEF CompileMsgs
  <1> QED
    BY <1>3, <1>4

\* What compiling a statement may put and create.
LEMMA OutcomeType ==
    ASSUME TypeInv, NEW q \in Query \cup {None}, NEW b,
           NEW out \in Outcomes(q, b) \cup {Compiled(q, b)}
    PROVE  out.msgs \in Seq(Output) /\ Created(out) \subseteq Stream
  <1> DEFINE c == CompileMsgs(q, b)
  <1>1. c \in Seq(Output)
    BY CompileNotices, WiderSeq DEF Notice
  <1>2. \A x \in Names : Msg(COMPILE_SUCCESS, x) \in Output
                         /\ Msg(COMPILE_FAILURE, x) \in Output
    BY OutputMsg DEF COMPILE_SUCCESS, COMPILE_FAILURE, ADDED_STREAM_BUFFER
  <1>3. q \in Names /\ None \in Names
    BY DEF Names
  <1>4. out.msgs \in Seq(Output)
    <2>1. CASE out = Compiled(q, b)
      <3>1. out.msgs = Append(c, Msg(COMPILE_SUCCESS, q))
        BY <2>1 DEF Compiled
      <3> HIDE DEF c
      <3> QED
        BY <1>1, <1>2, <1>3, <3>1
    <2>2. CASE out \in Refused(q, b)
      <3>1. PICK i \in 0 .. Len(c) :
               out.msgs = Append(SubSeq(c, 1, i), Msg(COMPILE_FAILURE, None))
        BY <2>2 DEF Refused
      <3> HIDE DEF c
      <3>2. SubSeq(c, 1, i) \in Seq(Output)
        BY <1>1
      <3> QED
        BY <1>2, <1>3, <3>1, <3>2
    <2> QED
      BY <2>1, <2>2 DEF Outcomes
  <1>5. Created(out) \subseteq Stream
    <2>1. ToSet(SystemDcl) \subseteq Stream
      BY DclType, ToSetSeq
    <2>2. ToSet(out.msgs) \subseteq Output
      BY <1>4, ToSetSeq
    <2> QED
      BY <2>1, <2>2 DEF Created, Output
  <1> QED
    BY <1>4, <1>5

\* The users of a buffer, in some order.
LEMMA UsersSeq ==
    ASSUME TypeInv, NEW x, NEW users \in SetToSeqs(Users(x))
    PROVE  users \in Seq(Query) /\ Len(users) = Cardinality(Users(x))
  <1>1. Users(x) \subseteq Query /\ IsFiniteSet(Users(x))
    <2>1. Users(x) \subseteq Query
      BY DEF Users, TypeInv, TypeOK
    <2> QED
      BY <2>1, FS_Subset, CommandAssumption
  <1>2. Cardinality(Users(x)) \in Nat
    BY <1>1, FS_CardinalityType
  <1>3. users \in [1 .. Cardinality(Users(x)) -> Users(x)]
    BY DEF SetToSeqs
  <1>4. users \in [1 .. Cardinality(Users(x)) -> Query]
    BY <1>1, <1>3
  <1> QED
    BY <1>2, <1>4, FunSeq

LEMMA RecompiledOutput ==
    ASSUME TypeInv, NEW users \in Seq(Query), NEW n \in 0 .. Len(users)
    PROVE  Recompiled(users, n) \in Seq(Output)
  <1> DEFINE f == [j \in 1 .. n |-> Compiled(users[j], BufsAfter(j - 1)).msgs]
  <1>1. ASSUME NEW j \in 1 .. n
        PROVE  Compiled(users[j], BufsAfter(j - 1)).msgs \in Seq(Output)
    <2>1. users[j] \in Query
      OBVIOUS
    <2> QED
      BY <2>1, OutcomeType
  <1>2. f \in [1 .. n -> Seq(Output)] /\ n \in Nat
    BY <1>1
  <1>3. Recompiled(users, n) = FlattenSeq(f)
    BY DEF Recompiled
  <1> HIDE DEF f
  <1>4. f \in Seq(Seq(Output))
    BY <1>2, FunSeq
  <1> QED
    BY <1>3, <1>4, FlattenType

-----------------------------------------------------------------------------
(* Types: the client and Ios                                                *)

\* The codes that neither create nor activate a statement.
Plain == {DEACTIVATE_QUERY, ADD_DECLARE, DROP_DECLARE, DROP_QUERY,
          GET_COMPONENTS, ADDED_BUFFER, COMPILE_SUCCESS, COMPILE_FAILURE}

LEMMA PlainCodes ==
    \A c \in Plain : c \in 0 .. 21 /\ c # ACTIVATE_QUERY /\ c # ADD_QUERY
  BY DEF Plain, ADD_QUERY, ACTIVATE_QUERY, DEACTIVATE_QUERY, ADD_DECLARE,
         DROP_DECLARE, DROP_QUERY, GET_COMPONENTS, ADDED_BUFFER,
         COMPILE_SUCCESS, COMPILE_FAILURE

LEMMA AppendPlain ==
    ASSUME NEW s \in Seq(Message), NEW a, QueueOK(s, a), NEW c \in Plain,
           NEW x \in Names
    PROVE  /\ Append(s, Msg(c, x)) \in Seq(Message)
           /\ QueueOK(Append(s, Msg(c, x)), a)
  BY PlainCodes, AppendQueue

LEMMA TypeInit == Init => TypeInv
  <1> SUFFICES ASSUME Init PROVE TypeInv
    OBVIOUS
  <1>1. QueueOK(qBuf, active)
    BY DEF Init, QueueOK
  <1>2. qBuf \in Seq(Message) /\ ioBuf \in Seq(Message) /\ pend \in Seq(Message)
    BY DEF Init
  <1>3. batch \in Seq(Query) /\ streams \in Seq(Stream) /\ tables \in Seq(Table)
    BY DEF Init
  <1> QED
    BY <1>1, <1>2, <1>3 DEF Init, TypeInv, TypeOK, ArgOK, IosSteps, Names

\* A conversation begins.
LEMMA SendsType ==
    ASSUME TypeInv, NEW k \in IosSteps, NEW x \in Names, NEW c \in 0 .. 21,
           Sends(k, x, c),
           c = ACTIVATE_QUERY => x \in Query,
           c = ADD_QUERY =>
             /\ x \in Query \ active
             /\ \A i \in DOMAIN qBuf :
                   ~ (qBuf[i].code = ACTIVATE_QUERY /\ qBuf[i].arg = x)
    PROVE  /\ qBuf' \in Seq(Message) /\ QueueOK(qBuf', active)
           /\ ioBuf' \in Seq(Message) /\ pend' \in Seq(Message)
           /\ ipc' = k /\ arg' = x /\ got' = FALSE /\ smine' = FALSE
           /\ ipc' \in IosSteps /\ arg' \in Names
  <1>1. qBuf \in Seq(Message) /\ ioBuf \in Seq(Message) /\ pend \in Seq(Message)
    BY DEF TypeInv, TypeOK
  <1>2. /\ Stale(qBuf) \in Seq(Message) /\ DOMAIN Stale(qBuf) = DOMAIN qBuf
        /\ \A i \in DOMAIN qBuf : /\ Stale(qBuf)[i].code = qBuf[i].code
                                  /\ Stale(qBuf)[i].arg = qBuf[i].arg
    BY <1>1, StaleSeq
  <1>3. QueueOK(Stale(qBuf), active)
    BY <1>1, StaleQueue DEF TypeInv
  <1>4. qBuf' \in Seq(Message) /\ QueueOK(qBuf', active)
    BY <1>2, <1>3, AppendQueue DEF Sends
  <1> QED
    BY <1>1, <1>4, StaleSeq DEF Sends

LEMMA TypeClient ==
    ASSUME TypeInv, Client PROVE TypeInv'
  <1>k. {"query", "activate", "deactivate", "table", "stream", "undeclare",
         "components"} \subseteq IosSteps
    BY DEF IosSteps
  <1>n. Query \subseteq Names /\ Stream \subseteq Names /\ Table \subseteq Names
        /\ None \in Names
    BY DEF Names
  <1>c. \A c \in {DEACTIVATE_QUERY, ADD_DECLARE, DROP_DECLARE, GET_COMPONENTS} :
           c \in 0 .. 21 /\ c # ACTIVATE_QUERY /\ c # ADD_QUERY
    BY PlainCodes DEF Plain
  <1>a. ADD_QUERY \in 0 .. 21 /\ ACTIVATE_QUERY \in 0 .. 21
        /\ ADD_QUERY # ACTIVATE_QUERY
    BY DEF ADD_QUERY, ACTIVATE_QUERY
  <1>1. ASSUME NEW q \in Query, AddQueries(q) PROVE TypeInv'
    <2>1. \A i \in DOMAIN qBuf : qBuf[i].arg # q
      BY <1>1 DEF AddQueries, Fresh, ToSet
    <2>2. q \in Query \ active
      BY <1>1 DEF AddQueries, Fresh
    <2>3. Sends("query", q, ADD_QUERY)
      BY <1>1 DEF AddQueries, Start
    <2>4. /\ qBuf' \in Seq(Message) /\ QueueOK(qBuf', active)
          /\ ioBuf' \in Seq(Message) /\ pend' \in Seq(Message)
          /\ ipc' = "query" /\ arg' = q /\ got' = FALSE /\ smine' = FALSE
          /\ ipc' \in IosSteps /\ arg' \in Names
      BY <2>1, <2>2, <2>3, <1>k, <1>n, <1>a, SendsType
    <2> QED
      BY <1>1, <2>4 DEF AddQueries, TypeInv, TypeOK, ArgOK, schVars
  <1>2. ASSUME NEW q \in Query, ActivateQuery(q) PROVE TypeInv'
    <2>1. Sends("activate", q, ACTIVATE_QUERY) /\ q \in known
      BY <1>2 DEF ActivateQuery, Start
    <2>2. /\ qBuf' \in Seq(Message) /\ QueueOK(qBuf', active)
          /\ ioBuf' \in Seq(Message) /\ pend' \in Seq(Message)
          /\ ipc' = "activate" /\ arg' = q /\ got' = FALSE /\ smine' = FALSE
          /\ ipc' \in IosSteps /\ arg' \in Names
      BY <2>1, <1>k, <1>n, <1>a, <1>c, SendsType
    <2> QED
      BY <1>2, <2>1, <2>2 DEF ActivateQuery, TypeInv, TypeOK, ArgOK, schVars
  <1>3. ASSUME NEW q \in Query, DeactivateQuery(q) PROVE TypeInv'
    <2>1. Sends("deactivate", q, DEACTIVATE_QUERY)
      BY <1>3 DEF DeactivateQuery, Start
    <2>2. /\ qBuf' \in Seq(Message) /\ QueueOK(qBuf', active)
          /\ ioBuf' \in Seq(Message) /\ pend' \in Seq(Message)
          /\ ipc' = "deactivate" /\ arg' = q /\ got' = FALSE /\ smine' = FALSE
          /\ ipc' \in IosSteps /\ arg' \in Names
      BY <2>1, <1>k, <1>n, <1>a, <1>c, SendsType
    <2> QED
      BY <1>3, <2>1, <2>2 DEF DeactivateQuery, TypeInv, TypeOK, ArgOK, schVars
  <1>4. ASSUME NEW q \in Query, DeleteQuery(q) PROVE TypeInv'
    <2>1. qBuf \in Seq(Message) /\ ioBuf \in Seq(Message) /\ pend \in Seq(Message)
      BY DEF TypeInv, TypeOK
    <2>2. ioBuf' \in Seq(Message) /\ pend' \in Seq(Message)
      BY <1>4, <2>1, StaleSeq DEF DeleteQuery
    <2>3. Stale(qBuf) \in Seq(Message) /\ QueueOK(Stale(qBuf), active)
      BY <2>1, StaleSeq, StaleQueue DEF TypeInv
    <2>4. qBuf' \in Seq(Message) /\ QueueOK(qBuf', active)
      BY <1>4, <2>3, <1>n, AppendPlain DEF DeleteQuery, Plain
    <2> QED
      BY <1>4, <2>2, <2>4 DEF DeleteQuery, IosSteps, TypeInv, TypeOK, ArgOK, schVars
  <1>5. ASSUME NEW t \in Table, AddTable(t) PROVE TypeInv'
    <2>1. Sends("table", t, ADD_DECLARE)
      BY <1>5 DEF AddTable, Start
    <2>2. /\ qBuf' \in Seq(Message) /\ QueueOK(qBuf', active)
          /\ ioBuf' \in Seq(Message) /\ pend' \in Seq(Message)
          /\ ipc' = "table" /\ arg' = t /\ got' = FALSE /\ smine' = FALSE
          /\ ipc' \in IosSteps /\ arg' \in Names
      BY <2>1, <1>k, <1>n, <1>a, <1>c, SendsType
    <2> QED
      BY <1>5, <2>2 DEF AddTable, TypeInv, TypeOK, ArgOK, schVars
  <1>6. ASSUME NEW s \in Stream, AddStream(s) PROVE TypeInv'
    <2>1. Sends("stream", s, ADD_DECLARE)
      BY <1>6 DEF AddStream, Start
    <2>2. /\ qBuf' \in Seq(Message) /\ QueueOK(qBuf', active)
          /\ ioBuf' \in Seq(Message) /\ pend' \in Seq(Message)
          /\ ipc' = "stream" /\ arg' = s /\ got' = FALSE /\ smine' = FALSE
          /\ ipc' \in IosSteps /\ arg' \in Names
      BY <2>1, <1>k, <1>n, <1>a, <1>c, SendsType
    <2> QED
      BY <1>6, <2>2 DEF AddStream, TypeInv, TypeOK, ArgOK, schVars
  <1>7. ASSUME NEW s \in Stream, DeleteStream(s) PROVE TypeInv'
    <2>1. Sends("undeclare", s, DROP_DECLARE)
      BY <1>7 DEF DeleteStream, Start
    <2>2. /\ qBuf' \in Seq(Message) /\ QueueOK(qBuf', active)
          /\ ioBuf' \in Seq(Message) /\ pend' \in Seq(Message)
          /\ ipc' = "undeclare" /\ arg' = s /\ got' = FALSE /\ smine' = FALSE
          /\ ipc' \in IosSteps /\ arg' \in Names
      BY <2>1, <1>k, <1>n, <1>a, <1>c, SendsType
    <2> QED
      BY <1>7, <2>2 DEF DeleteStream, TypeInv, TypeOK, ArgOK, schVars
  <1>8. CASE ViewComponents
    <2>1. Sends("components", None, GET_COMPONENTS)
      BY <1>8 DEF ViewComponents, Start
    <2>2. /\ qBuf' \in Seq(Message) /\ QueueOK(qBuf', active)
          /\ ioBuf' \in Seq(Message) /\ pend' \in Seq(Message)
          /\ ipc' = "components" /\ arg' = None /\ got' = FALSE /\ smine' = FALSE
          /\ ipc' \in IosSteps /\ arg' \in Names
      BY <2>1, <1>k, <1>n, <1>a, <1>c, SendsType
    <2> QED
      BY <1>8, <2>2 DEF ViewComponents, TypeInv, TypeOK, ArgOK, schVars
  <1> QED
    BY <1>1, <1>2, <1>3, <1>4, <1>5, <1>6, <1>7, <1>8 DEF Client

Queued(q) == q \in Seq(Message) /\ QueueOK(q, active)

\* What Ios may change, and what it must establish.
LEMMA TypeIos ==
    ASSUME TypeInv, UNCHANGED <<schVars, pend, bufs, smine, lost>>,
           Queued(qBuf'), ioBuf' \in Seq(Message), ipc' \in IosSteps,
           arg' \in Names, got' \in BOOLEAN, batch' \in Seq(Query),
           known' \subseteq Query, isActive' \subseteq known',
           streams' \in Seq(Stream), tables' \in Seq(Table),
           connected' \subseteq bufs, misread' \in BOOLEAN, ArgOK'
    PROVE  TypeInv'
  BY DEF TypeInv, TypeOK, Queued, schVars

\* The message at the head of _ioBuffer.
LEMMA SeenType ==
    ASSUME TypeInv, NEW m \in ToSet(ioBuf)
    PROVE  m \in Message /\ m.arg \in Names /\ Tail(ioBuf) \in Seq(Message)
  <1>1. ioBuf \in Seq(Message) /\ ioBuf # << >>
    BY DEF TypeInv, TypeOK, ToSet
  <1>2. m \in Message
    BY <1>1, ToSetSeq
  <1>3. m.arg \in Names
    BY <1>2 DEF Message
  <1> QED
    BY <1>1, <1>2, <1>3

LEMMA PlainQueued ==
    ASSUME TypeInv
    PROVE  /\ Queued(qBuf)
           /\ \A x \in Names : \A c \in Plain : Queued(Append(qBuf, Msg(c, x)))
  BY AppendPlain DEF TypeInv, TypeOK, Queued

LEMMA TypeForward ==
    ASSUME TypeInv, NEW k, NEW m \in ToSet(ioBuf), Forward(k, m),
           UNCHANGED <<schVars, pend, bufs, smine, lost>>
    PROVE  TypeInv'
  <1>1. Queued(qBuf') /\ ioBuf' \in Seq(Message) /\ got' \in BOOLEAN
    BY SeenType, PlainQueued DEF Forward, Plain, TypeInv, TypeOK
  <1>2. UNCHANGED <<ipc, arg, batch, known, isActive, streams, tables, connected,
                    misread>>
    BY DEF Forward
  <1>3. ArgOK'
    BY <1>2 DEF TypeInv, ArgOK
  <1> QED
    BY <1>1, <1>2, <1>3, TypeIos DEF TypeInv, TypeOK

LEMMA TypeOther ==
    ASSUME TypeInv, NEW k, NEW m \in ToSet(ioBuf), NEW C, Other(k, m, C),
           UNCHANGED <<schVars, pend, bufs, smine, lost>>
    PROVE  TypeInv'
  <1>1. Queued(qBuf') /\ ioBuf' \in Seq(Message)
    BY SeenType, PlainQueued DEF Other
  <1>2. connected' \subseteq bufs
    BY DEF Other, Polled, TypeInv, TypeOK
  <1>3. UNCHANGED <<ipc, arg, got, batch, known, isActive, streams, tables, misread>>
    BY DEF Other, iosVars
  <1>4. ArgOK'
    BY <1>3 DEF TypeInv, ArgOK
  <1> QED
    BY <1>1, <1>2, <1>3, <1>4, TypeIos DEF TypeInv, TypeOK

\* Ios reads _ioBuffer.
LEMMA TypeReads ==
    ASSUME TypeInv, IosReads PROVE TypeInv'
  <1>1. \A x \in Names : \A c \in Plain : Queued(Append(qBuf, Msg(c, x)))
    BY PlainQueued
  <1>2. Queued(qBuf)
    BY PlainQueued
  <1>3. \A m \in ToSet(ioBuf) :
           m \in Message /\ m.arg \in Names /\ Tail(ioBuf) \in Seq(Message)
    BY SeenType
  <1>4. /\ Query \subseteq Names /\ Stream \subseteq Names /\ Table \subseteq Names
        /\ None \in Names /\ arg \in Names
    BY DEF Names, TypeInv, TypeOK
  <1>5. /\ {COMPILE_SUCCESS, COMPILE_FAILURE, ADDED_BUFFER, DROP_QUERY,
            DROP_DECLARE} \subseteq Plain
    BY DEF Plain
  <1>6. UNCHANGED <<schVars, pend, bufs, smine, lost>>
    BY DEF IosReads
  <1>q. ASSUME Queued(qBuf'), ioBuf' \in Seq(Message), ipc' \in IosSteps,
               arg' \in Names, got' \in BOOLEAN, batch' \in Seq(Query),
               known' \subseteq Query, isActive' \subseteq known',
               streams' \in Seq(Stream), tables' \in Seq(Table),
               connected' \subseteq bufs, misread' \in BOOLEAN, ArgOK'
        PROVE  TypeInv'
    BY <1>6, <1>q, TypeIos
  <1>t. /\ ipc \in IosSteps /\ arg \in Names /\ got \in BOOLEAN
        /\ batch \in Seq(Query) /\ known \subseteq Query /\ isActive \subseteq known
        /\ streams \in Seq(Stream) /\ tables \in Seq(Table)
        /\ connected \subseteq bufs /\ misread \in BOOLEAN /\ ArgOK
    BY DEF TypeInv, TypeOK
  <1>s. {"clear", "more", "rollback", "undo"} \subseteq IosSteps
    BY DEF IosSteps
  <1>f. ASSUME NEW k, NEW m \in ToSet(ioBuf), Forward(k, m) PROVE TypeInv'
    BY <1>6, <1>f, TypeForward
  <1>o. ASSUME NEW k, NEW m \in ToSet(ioBuf), NEW C, Other(k, m, C) PROVE TypeInv'
    BY <1>6, <1>o, TypeOther
  <1>9. CASE QueryLoop
    <2>1. PICK m \in ToSet(ioBuf) : QueryLoop!(m)
      BY <1>9 DEF QueryLoop
    <2>2. CASE QueryLoop!(m)!1
      <3>1. ipc = "query" /\ arg \in Query /\ ioBuf' = Tail(ioBuf)
        BY <1>t, <2>2 DEF Sees, Reply, ArgOK
      <3>2. Append(batch, arg) \in Seq(Query)
        BY <1>t, <3>1
      <3>3. Queued(qBuf') /\ batch' \in Seq(Query) /\ ipc' \in {"rollback", "more"}
        BY <1>1, <1>2, <1>4, <1>5, <1>t, <2>2, <3>2
      <3>4. misread' \in BOOLEAN
        BY <2>2 DEF Reply
      <3>5. ArgOK'
        BY <3>3 DEF ArgOK
      <3> QED
        BY <1>3, <1>q, <1>t, <1>s, <2>2, <3>1, <3>3, <3>4, <3>5
    <2>3. CASE QueryLoop!(m)!2
      <3>1. ioBuf' = Tail(ioBuf) /\ misread' \in BOOLEAN /\ ipc' = "rollback"
        BY <2>3 DEF Reply
      <3>2. ArgOK'
        BY <3>1 DEF ArgOK
      <3> QED
        BY <1>2, <1>3, <1>q, <1>t, <1>s, <2>3, <3>1, <3>2
    <2>4. CASE QueryLoop!(m)!3
      <3>1. ArgOK'
        BY <1>t, <2>4 DEF ArgOK
      <3> QED
        BY <1>2, <1>3, <1>q, <1>t, <2>4, <3>1
    <2> QED
      BY <1>f, <1>o, <2>1, <2>2, <2>3, <2>4
  <1>10. CASE QueriesAdded
    <2>1. ToSet(batch) \subseteq Query
      BY <1>t, ToSetSeq
    <2>2. ArgOK' /\ ipc' = "clear" /\ batch' = << >> /\ known' = known \cup ToSet(batch)
      BY <1>10 DEF QueriesAdded, ArgOK
    <2>3. ioBuf' \in Seq(Message) /\ batch' \in Seq(Query)
      BY <1>10, <2>2 DEF QueriesAdded, TypeInv, TypeOK
    <2> QED
      BY <1>2, <1>q, <1>t, <1>s, <1>10, <2>1, <2>2, <2>3 DEF QueriesAdded
  <1>11. CASE QueriesDropped
    <2>1. batch # << >> => Head(batch) \in Query /\ Tail(batch) \in Seq(Query)
      BY <1>t
    <2>2. Queued(qBuf') /\ batch' \in Seq(Query) /\ ipc' \in {"clear", "rollback"}
      BY <1>1, <1>2, <1>4, <1>5, <1>t, <1>11, <2>1 DEF QueriesDropped
    <2>3. ArgOK'
      BY <2>2 DEF ArgOK
    <2>4. ioBuf' \in Seq(Message)
      BY <1>11 DEF QueriesDropped, TypeInv, TypeOK
    <2> QED
      BY <1>q, <1>t, <1>s, <1>11, <2>2, <2>3, <2>4 DEF QueriesDropped
  <1>12. CASE ActivateLoop
    <2>1. PICK m \in ToSet(ioBuf) : ActivateLoop!(m)
      BY <1>12 DEF ActivateLoop
    <2>2. CASE ActivateLoop!(m)!1
      <3>1. ioBuf' = Tail(ioBuf) /\ misread' \in BOOLEAN /\ ipc' = "clear" /\ arg \in known
        BY <1>t, <2>2 DEF Reply, Sees, ArgOK
      <3>2. ArgOK'
        BY <3>1 DEF ArgOK
      <3>3. isActive' \subseteq known'
        BY <1>t, <2>2, <3>1
      <3> QED
        BY <1>2, <1>3, <1>q, <1>t, <1>s, <2>2, <3>1, <3>2, <3>3
    <2>3. CASE ActivateLoop!(m)!2
      <3>1. ArgOK' /\ isActive' \subseteq known'
        BY <1>t, <2>3 DEF ArgOK
      <3> QED
        BY <1>2, <1>3, <1>q, <1>t, <2>3, <3>1
    <2> QED
      BY <1>o, <2>1, <2>2, <2>3
  <1>13. CASE DeactivateLoop
    <2>1. PICK m \in ToSet(ioBuf) : DeactivateLoop!(m)
      BY <1>13 DEF DeactivateLoop
    <2>2. CASE DeactivateLoop!(m)!1
      <3>1. ioBuf' = Tail(ioBuf) /\ misread' \in BOOLEAN /\ ipc' = "clear"
        BY <2>2 DEF Reply
      <3>2. ArgOK' /\ isActive' \subseteq known'
        BY <1>t, <2>2, <3>1 DEF ArgOK
      <3> QED
        BY <1>2, <1>3, <1>q, <1>t, <1>s, <2>2, <3>1, <3>2
    <2> QED
      BY <1>o, <2>1, <2>2
  <1>14. CASE TableLoop
    <2>1. PICK m \in ToSet(ioBuf) : TableLoop!(m)
      BY <1>14 DEF TableLoop
    <2>2. CASE TableLoop!(m)!1
      <3>1. /\ ioBuf' = Tail(ioBuf) /\ misread' \in BOOLEAN /\ ipc' = "clear"
            /\ arg \in Table
        BY <1>t, <2>2 DEF Reply, Sees, ArgOK
      <3>2. ArgOK'
        BY <3>1 DEF ArgOK
      <3>3. Append(tables, arg) \in Seq(Table)
        BY <1>t, <3>1
      <3>4. tables' \in Seq(Table) /\ Queued(qBuf')
        BY <1>1, <1>2, <1>4, <1>5, <1>t, <2>2, <3>3
      <3> QED
        BY <1>3, <1>q, <1>t, <1>s, <2>2, <3>1, <3>2, <3>4
    <2> QED
      BY <1>f, <1>o, <2>1, <2>2
  <1>15. CASE StreamLoop
    <2>1. PICK m \in ToSet(ioBuf) : StreamLoop!(m)
      BY <1>15 DEF StreamLoop
    <2>2. CASE StreamLoop!(m)!1
      <3>1. /\ ioBuf' = Tail(ioBuf) /\ misread' \in BOOLEAN /\ ipc' = "clear"
            /\ arg \in Stream
        BY <1>t, <2>2 DEF Reply, Sees, ArgOK
      <3>2. ArgOK'
        BY <3>1 DEF ArgOK
      <3>3. Append(streams, arg) \in Seq(Stream)
        BY <1>t, <3>1
      <3>4. streams' \in Seq(Stream) /\ Queued(qBuf')
        BY <1>1, <1>2, <1>4, <1>5, <1>t, <2>2, <3>3
      <3> QED
        BY <1>3, <1>q, <1>t, <1>s, <2>2, <3>1, <3>2, <3>4
    <2>3. CASE StreamLoop!(m)!2
      <3>1. /\ ioBuf' = Tail(ioBuf) /\ misread' \in BOOLEAN
            /\ ipc' \in {"undo", "clear"} /\ arg \in Stream /\ arg' = arg
        BY <1>t, <2>3 DEF Reply, Sees, ArgOK
      <3>2. ArgOK'
        BY <3>1 DEF ArgOK
      <3>3. Queued(qBuf')
        BY <1>1, <1>2, <1>4, <1>5, <2>3
      <3> QED
        BY <1>3, <1>q, <1>t, <1>s, <2>3, <3>1, <3>2, <3>3
    <2> QED
      BY <1>f, <1>o, <2>1, <2>2, <2>3
  <1>16. CASE StreamUndo \/ DeleteReply \/ ComponentsReply
    <2>1. PICK m \in ToSet(ioBuf) :
            StreamUndo!(m) \/ DeleteReply!(m) \/ ComponentsReply!(m)
      BY <1>16 DEF StreamUndo, DeleteReply, ComponentsReply
    <2>2. ioBuf' \in Seq(Message) /\ misread' \in BOOLEAN /\ ipc' = "clear"
      BY <1>3, <2>1 DEF Glance, Reply, TypeInv, TypeOK
    <2>3. ArgOK'
      BY <2>2 DEF ArgOK
    <2>4. streams' \in Seq(Stream)
      <3>1. RemoveFirst(streams, arg) \in Seq(Stream)
        BY <1>t, RemoveFirstSeq
      <3> QED
        BY <1>t, <2>1, <3>1
    <2>5. UNCHANGED <<qBuf, arg, got, batch, known, isActive, tables, connected>>
      BY <2>1
    <2> QED
      BY <1>2, <1>q, <1>t, <1>s, <2>2, <2>3, <2>4, <2>5
  <1> QED
    BY <1>9, <1>10, <1>11, <1>12, <1>13, <1>14, <1>15, <1>16 DEF IosReads

\* The steps of Ios between requests.
LEMMA TypeIdle ==
    ASSUME TypeInv, NoRequest \/ ClearOne \/ ClearDone \/ PollStdout
    PROVE  TypeInv'
  <1>1. ioBuf' \in Seq(Message) /\ connected' \subseteq bufs
    <2>1. ioBuf \in Seq(Message) /\ connected \subseteq bufs
      BY DEF TypeInv, TypeOK
    <2>2. ioBuf # << >> => Tail(ioBuf) \in Seq(Message)
      BY <2>1
    <2> QED
      BY <2>1, <2>2 DEF NoRequest, ClearOne, ClearDone, PollStdout, Polled
  <1>2. /\ ipc' \in {"clear", "poll", "ready"}
        /\ UNCHANGED <<qBuf, arg, got, batch, known, isActive, streams, tables,
                       spc, freeStmts, invalid, active, pend, bufs, smine, misread,
                       lost>>
    BY DEF NoRequest, ClearOne, ClearDone, PollStdout, schVars, iosVars
  <1> QED
    BY <1>1, <1>2 DEF TypeInv, TypeOK, ArgOK, IosSteps

-----------------------------------------------------------------------------
(* The scheduler                                                            *)

LEMMA TakesType ==
    ASSUME TypeInv, NEW m, NEW c, Takes(m, c)
    PROVE  /\ m \in Message /\ m.arg \in Names /\ m.mine \in BOOLEAN
           /\ qBuf' \in Seq(Message) /\ smine' \in BOOLEAN
           /\ c # ACTIVATE_QUERY => \A b : b \subseteq active => QueueOK(qBuf', b)
           /\ c = ACTIVATE_QUERY =>
                 /\ m.arg \in Query
                 /\ \A b : b \subseteq active \cup {m.arg} => QueueOK(qBuf', b)
           /\ c = ADD_QUERY => m.arg \in Query \ active
  <1>1. /\ qBuf \in Seq(Message) /\ qBuf # << >> /\ m = Head(qBuf) /\ m.code = c
        /\ qBuf' = Tail(qBuf) /\ smine' = m.mine /\ QueueOK(qBuf, active)
    BY DEF TypeInv, TypeOK, Takes
  <1>2. /\ Tail(qBuf) \in Seq(Message) /\ m \in Message
        /\ m.code = ACTIVATE_QUERY => m.arg \in Query
        /\ m.code = ADD_QUERY => m.arg \in Query \ active
    BY <1>1, TailQueue
  <1>3. \A b : b \subseteq active \cup
                  (IF m.code = ACTIVATE_QUERY THEN {m.arg} ELSE {}) =>
              QueueOK(Tail(qBuf), b)
    BY <1>1, TailQueue
  <1>4. m.arg \in Names /\ m.mine \in BOOLEAN
    BY <1>2 DEF Message
  <1> QED
    BY <1>1, <1>2, <1>3, <1>4

\* What a handler may change, and what it must establish.
LEMMA TypeHandler ==
    ASSUME TypeInv, UNCHANGED iosVars, ioBuf' \in Seq(Message),
           qBuf' \in Seq(Message), pend' \in Seq(Message),
           QueueOK(qBuf', active'), smine' \in BOOLEAN, lost' \in BOOLEAN,
           misread' = misread, spc' \in {"main", "wait"},
           connected' \subseteq bufs', bufs' \subseteq Stream,
           freeStmts' \subseteq Query, active' \subseteq Query \ freeStmts',
           invalid' \subseteq freeStmts'
    PROVE  TypeInv'
  BY DEF TypeInv, TypeOK, ArgOK, iosVars

LEMMA TypeScheduler ==
    ASSUME TypeInv, Scheduler PROVE TypeInv'
  <1>t. /\ qBuf \in Seq(Message) /\ ioBuf \in Seq(Message) /\ pend \in Seq(Message)
        /\ connected \subseteq bufs /\ bufs \subseteq Stream
        /\ spc \in {"main", "wait"}
        /\ freeStmts \subseteq Query /\ active \subseteq Query \ freeStmts
        /\ invalid \subseteq freeStmts /\ smine \in BOOLEAN /\ lost \in BOOLEAN
        /\ QueueOK(qBuf, active)
    BY DEF TypeInv, TypeOK
  <1>c. /\ ADD_QUERY # ACTIVATE_QUERY /\ ADD_DECLARE # ACTIVATE_QUERY
        /\ DEACTIVATE_QUERY # ACTIVATE_QUERY /\ DROP_QUERY # ACTIVATE_QUERY
        /\ DROP_DECLARE # ACTIVATE_QUERY /\ GET_COMPONENTS # ACTIVATE_QUERY
        /\ ADDED_BUFFER # ACTIVATE_QUERY
    BY PlainCodes DEF Plain, ADD_QUERY, ACTIVATE_QUERY
  <1>v. \A b : <<Verdict(b)>> \in Seq(Output) /\ Verdict(b) \in Output
    BY VerdictOutput
  <1>w. Verdict(TRUE) \in Output /\ Verdict(FALSE) \in Output
    BY VerdictOutput
  <1>p. ASSUME NEW out \in Seq(Output), NEW b \in BOOLEAN, Puts(out, b)
        PROVE  pend' \in Seq(Message)
    BY <1>p, OutputType, PutsType
  <1>1. CASE PutReply
    <2>1. Head(pend) \in Message /\ Tail(pend) \in Seq(Message)
      BY <1>1, <1>t DEF PutReply
    <2>2. ioBuf' \in Seq(Message) /\ pend' \in Seq(Message)
      BY <1>1, <1>t, <2>1 DEF PutReply
    <2> QED
      BY <1>1, <1>t, <2>2, TypeHandler DEF PutReply, schVars
  <1>2. CASE HandleAddQuery
    <2>1. PICK m \in ToSet(qBuf) : HandleAddQuery!(m)
      BY <1>2 DEF HandleAddQuery
    <2>2. /\ m.mine \in BOOLEAN /\ qBuf' \in Seq(Message) /\ smine' \in BOOLEAN
          /\ QueueOK(qBuf', active) /\ m.arg \in Query \ active
      BY <1>c, <2>1, TakesType
    <2>3. PICK out \in Outcomes(m.arg, bufs) :
              /\ Puts(out.msgs, m.mine)
              /\ bufs' = bufs \cup Created(out)
              /\ freeStmts' = freeStmts \cup (IF out.ok THEN {m.arg} ELSE {})
      BY <2>1
    <2>4. out.msgs \in Seq(Output) /\ Created(out) \subseteq Stream
      BY <2>2, <2>3, OutcomeType
    <2>5. pend' \in Seq(Message)
      BY <1>p, <2>2, <2>3, <2>4
    <2>6. UNCHANGED <<ioBuf, iosVars, connected, spc, invalid, active, misread, lost>>
      BY <2>1
    <2> QED
      BY <1>t, <2>2, <2>3, <2>4, <2>5, <2>6, TypeHandler
  <1>3. CASE HandleAddDeclare
    <2>1. PICK m \in ToSet(qBuf), out \in Outcomes(None, bufs) :
             HandleAddDeclare!(m)!(out)
      BY <1>3 DEF HandleAddDeclare
    <2>2. /\ m.mine \in BOOLEAN /\ qBuf' \in Seq(Message) /\ smine' \in BOOLEAN
          /\ QueueOK(qBuf', active)
      BY <1>c, <2>1, TakesType
    <2>4. out.msgs \in Seq(Output) /\ Created(out) \subseteq Stream
      BY <2>1, OutcomeType
    <2>5. Append(out.msgs, Verdict(FALSE)) \in Seq(Output)
      BY <1>w, <2>4, AppendAt
    <2>6. pend' \in Seq(Message) /\ spc' \in {"main", "wait"}
      BY <1>p, <1>t, <2>1, <2>2, <2>4, <2>5
    <2>7. UNCHANGED <<ioBuf, iosVars, connected, freeStmts, invalid, active, misread, lost>>
          /\ bufs' = bufs \cup Created(out)
      BY <2>1
    <2> QED
      BY <1>t, <2>2, <2>4, <2>6, <2>7, TypeHandler
  <1>4. CASE DeclareAdded
    <2>0. PICK m \in ToSet(qBuf) : DeclareAdded!(m)
      BY <1>4 DEF DeclareAdded
    <2>1. PICK users \in SetToSeqs(Users(m.arg)) : DeclareAdded!(m)!(users)
      BY <2>0
    <2>2. qBuf # << >>
      BY <2>1 DEF ToSet
    <2>3. qBuf' \in Seq(Message) /\ QueueOK(qBuf', active)
      BY <1>t, <2>1, <2>2, TailQueue
    <2>4. users \in Seq(Query) /\ Len(users) \in Nat /\ DOMAIN users = 1 .. Len(users)
      BY UsersSeq
    <2>5. \A i : BufsAfter(i) \subseteq Stream /\ bufs \subseteq BufsAfter(i)
      <3>1. ToSet(SystemDcl) \subseteq Stream
        BY DclType, ToSetSeq
      <3> QED
        BY <1>t, <3>1 DEF BufsAfter
    <2>6. CASE DeclareAdded!(m)!(users)!4!1
      <3>1. Recompiled(users, Len(users)) \in Seq(Output)
        BY <2>4, RecompiledOutput
      <3>2. Append(Recompiled(users, Len(users)), Verdict(TRUE)) \in Seq(Output)
        BY <1>w, <3>1, AppendAt
      <3>3. pend' \in Seq(Message)
        BY <1>p, <1>t, <2>6, <3>2
      <3> QED
        BY <1>t, <2>1, <2>3, <2>5, <2>6, <3>3, TypeHandler
    <2>7. CASE DeclareAdded!(m)!(users)!4!2
      <3>0. PICK i \in DOMAIN users : DeclareAdded!(m)!(users)!4!2!(i)
        BY <2>7
      <3>1. PICK out \in Refused(users[i], BufsAfter(i - 1)) :
               /\ Puts(Recompiled(users, i - 1) \o out.msgs \o <<Verdict(FALSE)>>,
                       smine)
               /\ bufs' = BufsAfter(i - 1) \cup Created(out)
               /\ UNCHANGED invalid
        BY <3>0
      <3>2. users[i] \in Query /\ i - 1 \in 0 .. Len(users)
        BY <2>4
      <3>3. Recompiled(users, i - 1) \in Seq(Output)
        BY <2>4, <3>2, RecompiledOutput
      <3>4. out.msgs \in Seq(Output) /\ Created(out) \subseteq Stream
        BY <3>2, OutcomeType DEF Outcomes
      <3>5. Recompiled(users, i - 1) \o out.msgs \o <<Verdict(FALSE)>> \in Seq(Output)
        <4>1. <<Verdict(FALSE)>> \in Seq(Output)
          BY <1>w, ShortSeq
        <4>2. Recompiled(users, i - 1) \o out.msgs \in Seq(Output)
          BY <3>3, <3>4, ConcatAt
        <4> QED
          BY <4>1, <4>2, ConcatAt
      <3>6. pend' \in Seq(Message)
        BY <1>p, <1>t, <3>1, <3>5
      <3> QED
        BY <1>t, <2>1, <2>3, <2>5, <3>1, <3>4, <3>6, TypeHandler
    <2> QED
      BY <2>1, <2>6, <2>7
  <1>5. CASE DeclareEnds
    <2>1. qBuf' \in Seq(Message) /\ QueueOK(qBuf', active)
      BY <1>t, <1>5, TailQueue DEF DeclareEnds
    <2> QED
      BY <1>t, <1>5, <2>1, TypeHandler DEF DeclareEnds
  <1>6. CASE HandleActivate
    <2>1. PICK m \in ToSet(qBuf) : HandleActivate!(m)
      BY <1>6 DEF HandleActivate
    <2>2. /\ m.mine \in BOOLEAN /\ qBuf' \in Seq(Message) /\ smine' \in BOOLEAN
          /\ \A b : b \subseteq active \cup {m.arg} => QueueOK(qBuf', b)
          /\ m.arg \in Query
      BY <2>1, TakesType
    <2>3. PICK out \in IF m.arg \in freeStmts THEN {NoCompile(m.arg)}
                                            ELSE Outcomes(m.arg, bufs) :
              HandleActivate!(m)!2!(out)
      BY <2>1
    <2>n. m.arg \in freeStmts => out = NoCompile(m.arg)
      BY <2>3
    <2>4. out.msgs \in Seq(Output)
      <3>1. CASE m.arg \in freeStmts
        <4>1. out.msgs = << >>
          BY <2>n, <3>1 DEF NoCompile
        <4> QED
          BY <4>1
      <3>2. CASE m.arg \notin freeStmts
        BY <2>2, <2>3, <3>2, OutcomeType
      <3> QED
        BY <3>1, <3>2
    <2>5. bufs \subseteq bufs' /\ bufs' \subseteq Stream
      <3>1. CASE m.arg \in freeStmts
        BY <1>t, <2>3, <3>1
      <3>2. CASE m.arg \notin freeStmts
        <4>1. Created(out) \subseteq Stream
          BY <2>2, <2>3, <3>2, OutcomeType
        <4> QED
          BY <1>t, <2>3, <3>2, <4>1
      <3> QED
        BY <3>1, <3>2
    <2>6. UNCHANGED <<ioBuf, iosVars, connected, spc, invalid, misread, lost>>
      BY <2>1
    <2>7. CASE out.ok
      <3>1. /\ active' = active \cup {m.arg} /\ freeStmts' = freeStmts \ {m.arg}
            /\ Puts(out.msgs \o <<Msg(ACTIVATED_QUERY, m.arg), Verdict(TRUE)>>,
                    m.mine)
        BY <2>3, <2>7
      <3>2. Msg(ACTIVATED_QUERY, m.arg) \in Output
        BY <2>2, OutputMsg DEF Names, ACTIVATED_QUERY, ADDED_STREAM_BUFFER
      <3>3. out.msgs \o <<Msg(ACTIVATED_QUERY, m.arg), Verdict(TRUE)>> \in Seq(Output)
        <4>1. <<Msg(ACTIVATED_QUERY, m.arg), Verdict(TRUE)>> \in Seq(Output)
          BY <1>w, <3>2, ShortSeq
        <4> QED
          BY <2>4, <4>1, ConcatAt
      <3>4. pend' \in Seq(Message)
        BY <1>p, <2>2, <3>1, <3>3
      <3>5. m.arg \notin invalid
        <4>1. NoCompile(m.arg).ok = (m.arg \notin invalid)
          BY DEF NoCompile
        <4> QED
          BY <1>t, <2>n, <2>7, <4>1
      <3> QED
        BY <1>t, <2>2, <2>5, <2>6, <3>1, <3>4, <3>5, TypeHandler
    <2>8. CASE ~ out.ok
      <3>1. /\ UNCHANGED <<active, freeStmts>>
            /\ Puts(Append(out.msgs, Verdict(FALSE)), m.mine)
        BY <2>3, <2>8
      <3>2. Append(out.msgs, Verdict(FALSE)) \in Seq(Output)
        BY <1>w, <2>4, AppendAt
      <3>3. pend' \in Seq(Message)
        BY <1>p, <2>2, <3>1, <3>2
      <3> QED
        BY <1>t, <2>2, <2>5, <2>6, <3>1, <3>3, TypeHandler
    <2> QED
      BY <2>7, <2>8
  <1>7. CASE HandleDeactivate
    <2>1. PICK m \in ToSet(qBuf) : HandleDeactivate!(m)
      BY <1>7 DEF HandleDeactivate
    <2>2. /\ m.mine \in BOOLEAN /\ qBuf' \in Seq(Message) /\ smine' \in BOOLEAN
          /\ QueueOK(qBuf', active')
      BY <1>c, <2>1, TakesType
    <2>3. pend' \in Seq(Message)
      BY <1>p, <1>v, <2>1, <2>2
    <2> QED
      BY <1>t, <2>1, <2>2, <2>3, TypeHandler
  <1>8. CASE HandleDropQuery
    <2>1. PICK m \in ToSet(qBuf) : HandleDropQuery!(m)
      BY <1>8 DEF HandleDropQuery
    <2>2. /\ m.mine \in BOOLEAN /\ qBuf' \in Seq(Message) /\ smine' \in BOOLEAN
          /\ \A b : b \subseteq active => QueueOK(qBuf', b)
      BY <1>c, <2>1, TakesType
    <2>3. pend' \in Seq(Message)
      BY <1>p, <1>v, <2>1, <2>2
    <2>4. active' \subseteq active /\ freeStmts' = freeStmts \ {m.arg}
          /\ invalid' = invalid \ {m.arg} /\ QueueOK(qBuf', active')
      BY <2>1, <2>2
    <2> QED
      BY <1>t, <2>1, <2>2, <2>3, <2>4, TypeHandler
  <1>9. CASE HandleDropDeclare
    <2>1. PICK m \in ToSet(qBuf) : HandleDropDeclare!(m)
      BY <1>9 DEF HandleDropDeclare
    <2> DEFINE unread == m.arg \in bufs /\ \A q \in active : Reads[q] # m.arg
               r == Msg(IF unread THEN SUCCESS ELSE FAILURE, None)
    <2>2. /\ m.mine \in BOOLEAN /\ qBuf' \in Seq(Message) /\ smine' \in BOOLEAN
          /\ QueueOK(qBuf', active)
      BY <1>c, <2>1, TakesType
    <2>3. r \in Output
      BY OutputMsg DEF Names, SUCCESS, FAILURE, ADDED_STREAM_BUFFER
    <2>4. <<r>> \in Seq(Output) /\ Puts(<<r>>, m.mine)
      BY <2>1, <2>3
    <2>5. pend' \in Seq(Message)
      BY <1>p, <2>2, <2>4
    <2>6. /\ bufs' \subseteq bufs /\ connected' \subseteq bufs'
          /\ invalid' \subseteq freeStmts
      BY <1>t, <2>1 DEF Users
    <2>7. UNCHANGED <<ioBuf, iosVars, spc, freeStmts, active, misread, lost>>
      BY <2>1
    <2> QED
      BY <1>t, <2>2, <2>5, <2>6, <2>7, TypeHandler
  <1>10. CASE HandleGetComponents
    <2>1. PICK m \in ToSet(qBuf) : HandleGetComponents!(m)
      BY <1>10 DEF HandleGetComponents
    <2>2. /\ m.mine \in BOOLEAN /\ qBuf' \in Seq(Message) /\ smine' \in BOOLEAN
          /\ QueueOK(qBuf', active)
      BY <1>c, <2>1, TakesType
    <2>3. <<Msg(COMMAND_SUCCESSFUL, None)>> \in Seq(Output)
      BY OutputMsg DEF Names, COMMAND_SUCCESSFUL, ADDED_STREAM_BUFFER
    <2>4. pend' \in Seq(Message)
      BY <1>p, <2>1, <2>2, <2>3
    <2>5. UNCHANGED <<ioBuf, iosVars, connected, spc, freeStmts, invalid, active,
                      bufs, misread, lost>>
      BY <2>1 DEF schVars
    <2> QED
      BY <1>t, <2>2, <2>4, <2>5, TypeHandler
  <1>11. CASE HandleUnknown
    <2>1. PICK m \in ToSet(qBuf) : HandleUnknown!(m)
      BY <1>11 DEF HandleUnknown
    <2>2. /\ qBuf' \in Seq(Message) /\ smine' \in BOOLEAN
          /\ QueueOK(qBuf', active)
      BY <1>c, <2>1, TakesType
    <2>3. UNCHANGED <<ioBuf, iosVars, connected, spc, freeStmts, invalid, active,
                      pend, bufs, misread, lost>>
      BY <2>1 DEF schVars
    <2> QED
      BY <1>t, <2>2, <2>3, TypeHandler
  <1> QED
    BY <1>1, <1>2, <1>3, <1>4, <1>5, <1>6, <1>7, <1>8, <1>9, <1>10, <1>11
    DEF Scheduler

-----------------------------------------------------------------------------
(* The second message of ADD_DECLARE                                        *)

\* A message that ends the wait of ADD_DECLARE.
Second(m) == m.code = ADDED_BUFFER \/ IsVerdict(m)

\* Ios still owes the scheduler that message.
Owes == ipc \in {"table", "stream"} /\ ~got

\* ADD_DECLARE is followed by the second message, unless Ios still owes it.
Paired(s, owes) == \A i \in DOMAIN s :
    s[i].code = ADD_DECLARE =>
        IF i + 1 \in DOMAIN s THEN Second(s[i + 1]) ELSE owes

Awaited(s, owes) == IF s = << >> THEN owes ELSE Second(Head(s))

PairInv ==
    /\ Paired(qBuf, Owes)
    /\ spc = "wait" => Awaited(qBuf, Owes)
    /\ NoCommandLost

LEMMA PairAppend ==
    ASSUME NEW s \in Seq(Message), NEW o, NEW p, NEW m \in Message,
           o => Second(m), m.code = ADD_DECLARE => p
    PROVE  /\ Paired(s, o) => Paired(Append(s, m), p)
           /\ Awaited(s, o) => Awaited(Append(s, m), p)
  <1> DEFINE t == Append(s, m)
  <1>1. /\ t \in Seq(Message) /\ DOMAIN t = 1 .. Len(s) + 1
        /\ DOMAIN s = 1 .. Len(s) /\ Len(s) \in Nat
        /\ \A i \in 1 .. Len(s) : t[i] = s[i]
        /\ t[Len(s) + 1] = m
    BY AppendAt
  <1>2. t # << >> /\ (s = << >> => Head(t) = m) /\ (s # << >> => Head(t) = Head(s))
    OBVIOUS
  <1> HIDE DEF t
  <1>3. ASSUME Paired(s, o), NEW i \in DOMAIN t, t[i].code = ADD_DECLARE
        PROVE  IF i + 1 \in DOMAIN t THEN Second(t[i + 1]) ELSE p
    <2>1. CASE i \in DOMAIN s /\ i + 1 \in DOMAIN s
      BY <1>1, <1>3, <2>1 DEF Paired
    <2>2. CASE i = Len(s) /\ i \in DOMAIN s
      <3>1. i + 1 \notin DOMAIN s /\ i + 1 \in DOMAIN t /\ t[i + 1] = m /\ t[i] = s[i]
        BY <1>1, <2>2
      <3>2. o
        BY <1>3, <2>2, <3>1 DEF Paired
      <3> QED
        BY <3>1, <3>2
    <2>3. CASE i = Len(s) + 1
      BY <1>1, <1>3, <2>3
    <2> QED
      BY <1>1, <2>1, <2>2, <2>3
  <1>4. Paired(s, o) => Paired(t, p)
    BY <1>3 DEF Paired
  <1>5. Awaited(s, o) => Awaited(t, p)
    BY <1>2 DEF Awaited
  <1> QED
    BY <1>4, <1>5 DEF t

LEMMA PairTail ==
    ASSUME NEW s \in Seq(Message), s # << >>, NEW o, Paired(s, o)
    PROVE  /\ Paired(Tail(s), o)
           /\ Head(s).code = ADD_DECLARE => Awaited(Tail(s), o)
  <1> DEFINE t == Tail(s)
  <1>1. /\ t \in Seq(Message) /\ Head(s) = s[1]
        /\ Len(s) \in Nat /\ Len(s) >= 1
        /\ DOMAIN t = 1 .. Len(s) - 1 /\ DOMAIN s = 1 .. Len(s)
        /\ \A i \in 1 .. Len(s) - 1 : t[i] = s[i + 1]
    BY TailAt
  <1>2. /\ t = << >> => 2 \notin DOMAIN s
        /\ t # << >> => 2 \in DOMAIN s /\ Head(t) = s[2]
    <2> HIDE DEF t
    <2>1. t # << >> => 1 \in DOMAIN t /\ Head(t) = t[1]
      BY <1>1
    <2>2. t = << >> => 1 \notin DOMAIN t
      OBVIOUS
    <2>3. 1 \in DOMAIN t <=> 2 \in DOMAIN s
      BY <1>1
    <2>4. 1 \in DOMAIN t => t[1] = s[2]
      BY <1>1
    <2> QED
      BY <2>1, <2>2, <2>3, <2>4
  <1> HIDE DEF t
  <1>3. Head(s).code = ADD_DECLARE => Awaited(t, o)
    <2>1. 1 \in DOMAIN s /\ 1 + 1 = 2
      BY <1>1
    <2>2. s[1].code = ADD_DECLARE => IF 1 + 1 \in DOMAIN s THEN Second(s[1 + 1]) ELSE o
      BY <2>1 DEF Paired
    <2> QED
      BY <1>1, <1>2, <2>1, <2>2 DEF Awaited
  <1>4. ASSUME NEW i \in DOMAIN t, t[i].code = ADD_DECLARE
        PROVE  IF i + 1 \in DOMAIN t THEN Second(t[i + 1]) ELSE o
    <2>1. i + 1 \in DOMAIN s /\ t[i] = s[i + 1]
      BY <1>1
    <2>2. IF (i + 1) + 1 \in DOMAIN s THEN Second(s[(i + 1) + 1]) ELSE o
      BY <1>4, <2>1 DEF Paired
    <2>3. /\ i + 1 \in DOMAIN t <=> (i + 1) + 1 \in DOMAIN s
          /\ i + 1 \in DOMAIN t => t[i + 1] = s[(i + 1) + 1]
      BY <1>1
    <2> QED
      BY <2>2, <2>3
  <1> QED
    BY <1>3, <1>4 DEF Paired, t

LEMMA PairStale ==
    ASSUME NEW s \in Seq(Message), NEW o
    PROVE  /\ Paired(s, o) => Paired(Stale(s), o)
           /\ Awaited(s, o) => Awaited(Stale(s), o)
  <1> DEFINE t == Stale(s)
  <1>1. /\ t \in Seq(Message) /\ DOMAIN t = DOMAIN s
        /\ \A i \in DOMAIN s : t[i].code = s[i].code /\ t[i].arg = s[i].arg
    BY StaleSeq
  <1>2. (s = << >>) <=> (t = << >>)
    BY <1>1
  <1>3. s # << >> => 1 \in DOMAIN s /\ Head(s) = s[1] /\ Head(t) = t[1]
    BY <1>1, <1>2
  <1> HIDE DEF t
  <1>4. \A i \in DOMAIN s : Second(s[i]) => Second(t[i])
    BY <1>1 DEF Second, IsVerdict
  <1>5. Paired(s, o) => Paired(t, o)
    BY <1>1, <1>4 DEF Paired
  <1>6. Awaited(s, o) => Awaited(t, o)
    BY <1>2, <1>3, <1>4 DEF Awaited
  <1> QED
    BY <1>5, <1>6 DEF t

\* A step of Ios that puts nothing, or one message.
LEMMA PairKeeps ==
    ASSUME PairInv, UNCHANGED <<qBuf, spc, lost>>, Owes => Owes' PROVE PairInv'
  BY DEF PairInv, Paired, Awaited, NoCommandLost

LEMMA PairPuts ==
    ASSUME PairInv, TypeInv, NEW s \in {qBuf, Stale(qBuf)}, NEW c \in 0 .. 21,
           NEW x \in Names, qBuf' = Append(s, Msg(c, x)), UNCHANGED <<spc, lost>>,
           Owes => c = ADDED_BUFFER \/ IsVerdict(Msg(c, x)),
           c = ADD_DECLARE => Owes'
    PROVE  PairInv'
  <1>1. qBuf \in Seq(Message) /\ Stale(qBuf) \in Seq(Message)
    BY StaleSeq DEF TypeInv, TypeOK
  <1>2. Paired(s, Owes) /\ (spc = "wait" => Awaited(s, Owes))
    BY <1>1, PairStale DEF PairInv
  <1>3. Msg(c, x) \in Message /\ Msg(c, x).code = c
    BY MsgType
  <1>4. Owes => Second(Msg(c, x))
    BY <1>3 DEF Second
  <1>5. Paired(qBuf', Owes') /\ (spc = "wait" => Awaited(qBuf', Owes'))
    BY <1>1, <1>2, <1>3, <1>4, PairAppend
  <1> QED
    BY <1>5 DEF PairInv, NoCommandLost

LEMMA PairInit == Init => PairInv
  BY DEF Init, PairInv, Paired, NoCommandLost

\* A conversation begins when Ios owes nothing.
LEMMA PairSends ==
    ASSUME PairInv, TypeInv, NEW k, NEW x \in Names, NEW c \in 0 .. 21,
           Sends(k, x, c), UNCHANGED <<spc, lost>>, ~Owes,
           c = ADD_DECLARE => k \in {"table", "stream"}
    PROVE  PairInv'
  <1>1. c = ADD_DECLARE => Owes'
    BY DEF Sends, Owes
  <1> QED
    BY <1>1, PairPuts DEF Sends

LEMMA PairClient ==
    ASSUME PairInv, TypeInv, Client PROVE PairInv'
  <1>1. ~Owes
    BY DEF Client, AddQueries, ActivateQuery, DeactivateQuery, DeleteQuery,
           AddTable, AddStream, DeleteStream, ViewComponents, MayStart, Owes
  <1>2. UNCHANGED <<spc, lost>>
    BY DEF Client, AddQueries, ActivateQuery, DeactivateQuery, DeleteQuery,
           AddTable, AddStream, DeleteStream, ViewComponents, schVars
  <1>3. Query \subseteq Names /\ Stream \subseteq Names /\ Table \subseteq Names
        /\ None \in Names
    BY DEF Names
  <1>4. /\ \A c \in {ADD_QUERY, ACTIVATE_QUERY, DEACTIVATE_QUERY, DROP_DECLARE,
                    GET_COMPONENTS, DROP_QUERY} : c \in 0 .. 21 /\ c # ADD_DECLARE
        /\ ADD_DECLARE \in 0 .. 21
    BY DEF ADD_QUERY, ACTIVATE_QUERY, DEACTIVATE_QUERY, DROP_DECLARE,
           GET_COMPONENTS, DROP_QUERY, ADD_DECLARE
  <1>5. CASE \E q \in Query : AddQueries(q)
    BY <1>1, <1>2, <1>3, <1>4, <1>5, PairSends DEF AddQueries, Start
  <1>6. CASE \E q \in Query : ActivateQuery(q)
    BY <1>1, <1>2, <1>3, <1>4, <1>6, PairSends DEF ActivateQuery, Start
  <1>7. CASE \E q \in Query : DeactivateQuery(q)
    BY <1>1, <1>2, <1>3, <1>4, <1>7, PairSends DEF DeactivateQuery, Start
  <1>8. CASE \E q \in Query : DeleteQuery(q)
    <2>1. PICK q \in Query : qBuf' = Append(Stale(qBuf), Msg(DROP_QUERY, q))
      BY <1>8 DEF DeleteQuery
    <2> QED
      BY <1>1, <1>2, <1>3, <1>4, <2>1, PairPuts
  <1>9. CASE \E t \in Table : AddTable(t)
    BY <1>1, <1>2, <1>3, <1>4, <1>9, PairSends DEF AddTable, Start
  <1>10. CASE \E s \in Stream : AddStream(s)
    BY <1>1, <1>2, <1>3, <1>4, <1>10, PairSends DEF AddStream, Start
  <1>11. CASE \E s \in Stream : DeleteStream(s)
    BY <1>1, <1>2, <1>3, <1>4, <1>11, PairSends DEF DeleteStream, Start
  <1>12. CASE ViewComponents
    BY <1>1, <1>2, <1>3, <1>4, <1>12, PairSends DEF ViewComponents, Start
  <1> QED
    BY <1>5, <1>6, <1>7, <1>8, <1>9, <1>10, <1>11, <1>12 DEF Client

\* Ios pays what it owes with the first added buffer or the compiler's verdict.
LEMMA PairReads ==
    ASSUME PairInv, TypeInv, IosReads PROVE PairInv'
  <1>1. UNCHANGED <<spc, lost>>
    BY DEF IosReads, schVars
  <1>2. /\ Query \subseteq Names /\ None \in Names /\ arg \in Names
        /\ \A m \in ToSet(ioBuf) : m.arg \in Names
    <2>1. ioBuf \in Seq(Message) /\ arg \in Names
      BY DEF TypeInv, TypeOK
    <2>2. ToSet(ioBuf) \subseteq Message
      BY <2>1, ToSetSeq
    <2> QED
      BY <2>1, <2>2 DEF Message, Names
  <1>3. \A c \in {ADDED_BUFFER, COMPILE_SUCCESS, COMPILE_FAILURE, DROP_QUERY,
                 DROP_DECLARE} : c \in 0 .. 21 /\ c # ADD_DECLARE
    BY DEF ADDED_BUFFER, COMPILE_SUCCESS, COMPILE_FAILURE, DROP_QUERY,
           DROP_DECLARE, ADD_DECLARE
  <1>4. \A c \in {COMPILE_SUCCESS, COMPILE_FAILURE} : IsVerdict(Msg(c, None))
    BY DEF IsVerdict, Msg
  <1>5. ASSUME NEW c \in {ADDED_BUFFER, COMPILE_SUCCESS, COMPILE_FAILURE,
                          DROP_QUERY, DROP_DECLARE},
               NEW x \in Names, qBuf' = Append(qBuf, Msg(c, x)),
               Owes => c = ADDED_BUFFER \/ IsVerdict(Msg(c, x))
        PROVE  PairInv'
    BY <1>1, <1>3, <1>5, PairPuts
  <1>6. ASSUME NEW k, NEW m \in ToSet(ioBuf), Forward(k, m) PROVE PairInv'
    BY <1>2, <1>5, <1>6 DEF Forward
  <1>7. ASSUME NEW k, NEW m, NEW C, Other(k, m, C) PROVE PairInv'
    BY <1>1, <1>7, PairKeeps DEF Other, iosVars, Owes
  <1>8. CASE QueryLoop
    <2>1. PICK m \in ToSet(ioBuf) : QueryLoop!(m)
      BY <1>8 DEF QueryLoop
    <2>2. CASE QueryLoop!(m)!1 \/ QueryLoop!(m)!2 \/ QueryLoop!(m)!3
      <3>1. ~Owes
        BY <2>2 DEF Sees, Owes
      <3>2. UNCHANGED qBuf \/ qBuf' = Append(qBuf, Msg(DROP_QUERY, arg))
        BY <2>2
      <3> QED
        BY <1>1, <1>2, <1>5, <3>1, <3>2, PairKeeps
    <2> QED
      BY <1>6, <1>7, <2>1, <2>2
  <1>9. CASE QueriesAdded \/ QueriesDropped
    <2>1. ~Owes
      BY <1>9 DEF QueriesAdded, QueriesDropped, Owes
    <2>2. batch # << >> => Head(batch) \in Query
      BY DEF TypeInv, TypeOK
    <2>3. UNCHANGED qBuf \/ \E x \in Query : qBuf' = Append(qBuf, Msg(DROP_QUERY, x))
      BY <1>9, <2>2 DEF QueriesAdded, QueriesDropped
    <2> QED
      BY <1>1, <1>2, <1>5, <2>1, <2>3, PairKeeps
  <1>10. CASE ActivateLoop \/ DeactivateLoop
    <2>1. ~Owes /\ UNCHANGED qBuf
      BY <1>10 DEF ActivateLoop, DeactivateLoop, Sees, Other, Owes
    <2> QED
      BY <1>1, <2>1, PairKeeps
  <1>11. CASE TableLoop
    <2>1. PICK m \in ToSet(ioBuf) : TableLoop!(m)
      BY <1>11 DEF TableLoop
    <2>2. CASE TableLoop!(m)!1
      <3>1. CASE got
        BY <1>1, <2>2, <3>1, PairKeeps DEF Owes
      <3>2. CASE ~got
        BY <1>2, <1>4, <1>5, <2>2, <3>2
      <3> QED
        BY <3>1, <3>2
    <2> QED
      BY <1>6, <1>7, <2>1, <2>2
  <1>12. CASE StreamLoop
    <2>1. PICK m \in ToSet(ioBuf) : StreamLoop!(m)
      BY <1>12 DEF StreamLoop
    <2>2. CASE StreamLoop!(m)!1
      <3>1. CASE got
        BY <1>1, <2>2, <3>1, PairKeeps DEF Owes
      <3>2. CASE ~got
        BY <1>2, <1>4, <1>5, <2>2, <3>2
      <3> QED
        BY <3>1, <3>2
    <2>3. CASE StreamLoop!(m)!2
      <3>1. CASE got
        BY <1>2, <1>5, <2>3, <3>1 DEF Owes
      <3>2. CASE ~got
        BY <1>2, <1>4, <1>5, <2>3, <3>2
      <3> QED
        BY <3>1, <3>2
    <2> QED
      BY <1>6, <1>7, <2>1, <2>2, <2>3
  <1>13. CASE StreamUndo \/ DeleteReply \/ ComponentsReply
    <2>1. ~Owes /\ UNCHANGED qBuf
      BY <1>13 DEF StreamUndo, DeleteReply, ComponentsReply, Glance, Sees, Owes
    <2> QED
      BY <1>1, <2>1, PairKeeps
  <1> QED
    BY <1>8, <1>9, <1>10, <1>11, <1>12, <1>13 DEF IosReads

LEMMA PairIdle ==
    ASSUME PairInv, NoRequest \/ ClearOne \/ ClearDone \/ PollStdout
    PROVE  PairInv'
  <1>1. ~Owes /\ UNCHANGED <<qBuf, spc, lost>>
    BY DEF NoRequest, ClearOne, ClearDone, PollStdout, schVars, Owes
  <1> QED
    BY <1>1, PairKeeps

\* The scheduler takes messages, and waits only after ADD_DECLARE.
LEMMA PairTakes ==
    ASSUME PairInv, TypeInv, NEW m, NEW c, Takes(m, c), UNCHANGED <<iosVars, lost>>,
           spc' = "main" \/ c = ADD_DECLARE
    PROVE  PairInv'
  <1>1. /\ qBuf \in Seq(Message) /\ qBuf # << >> /\ m = Head(qBuf) /\ m.code = c
        /\ qBuf' = Tail(qBuf)
    BY DEF TypeInv, TypeOK, Takes
  <1>2. Owes' = Owes
    BY DEF Owes, iosVars
  <1>3. /\ Paired(Tail(qBuf), Owes)
        /\ Head(qBuf).code = ADD_DECLARE => Awaited(Tail(qBuf), Owes)
    BY <1>1, PairTail DEF PairInv
  <1> QED
    BY <1>1, <1>2, <1>3 DEF PairInv, NoCommandLost

LEMMA PairScheduler ==
    ASSUME PairInv, TypeInv, Scheduler PROVE PairInv'
  <1>1. CASE PutReply
    BY <1>1, PairKeeps DEF PutReply, schVars, iosVars, Owes
  <1>2. CASE HandleAddQuery \/ HandleActivate \/ HandleDeactivate \/ HandleDropQuery
             \/ HandleDropDeclare \/ HandleGetComponents \/ HandleUnknown
    <2>1. UNCHANGED <<iosVars, lost, spc>> /\ spc = "main"
      BY <1>2 DEF HandleAddQuery, HandleActivate, HandleDeactivate, HandleDropQuery,
            HandleDropDeclare, HandleGetComponents, HandleUnknown, Takes, schVars
    <2>2. \E m, c : Takes(m, c)
      BY <1>2 DEF HandleAddQuery, HandleActivate, HandleDeactivate, HandleDropQuery,
            HandleDropDeclare, HandleGetComponents, HandleUnknown
    <2> QED
      BY <2>1, <2>2, PairTakes
  <1>3. CASE HandleAddDeclare
    <2>1. UNCHANGED <<iosVars, lost>> /\ \E m : Takes(m, ADD_DECLARE)
      BY <1>3 DEF HandleAddDeclare
    <2> QED
      BY <2>1, PairTakes
  <1>4. CASE DeclareAdded \/ DeclareEnds
    <2>1. /\ qBuf # << >> /\ qBuf' = Tail(qBuf)
          /\ spc' = "main" /\ spc = "wait" /\ UNCHANGED iosVars
          /\ (lost' = lost \/ DeclareEnds)
      <3>1. CASE DeclareEnds
        BY <3>1 DEF DeclareEnds
      <3>2. CASE DeclareAdded
        <4>1. PICK m \in ToSet(qBuf) : DeclareAdded!(m)
          BY <3>2 DEF DeclareAdded
        <4>2. qBuf # << >>
          BY DEF ToSet
        <4> QED
          BY <4>1, <4>2
      <3> QED
        BY <1>4, <3>1, <3>2
    <2>2. Owes' = Owes /\ Paired(Tail(qBuf), Owes)
      <3>1. qBuf \in Seq(Message)
        BY DEF TypeInv, TypeOK
      <3> QED
        BY <2>1, <3>1, PairTail DEF Owes, iosVars, PairInv
    <2>3. Second(Head(qBuf))
      BY <2>1 DEF PairInv, Awaited
    <2>4. ~lost'
      <3>1. ~lost
        BY DEF PairInv, NoCommandLost
      <3>2. CASE DeclareEnds
        <4>1. IsVerdict(Head(qBuf))
          BY <2>3, <3>2 DEF DeclareEnds, Second
        <4> QED
          BY <3>1, <3>2, <4>1 DEF DeclareEnds
      <3> QED
        BY <2>1, <3>1, <3>2
    <2> QED
      BY <2>1, <2>2, <2>4 DEF PairInv, NoCommandLost
  <1> QED
    BY <1>1, <1>2, <1>3, <1>4 DEF Scheduler

-----------------------------------------------------------------------------
(* The buffers of the queries in drivers                                    *)

\* A statement of the free pool that is still valid has its input buffer.
FreeInputs == \A q \in freeStmts \ invalid : Reads[q] \in bufs

\* LiveInputs is not inductive alone: activation takes statements from the
\* pool, deactivation puts them back.
InputsInv == FreeInputs /\ LiveInputs

LEMMA InputsInit == Init => InputsInv
  BY DEF Init, InputsInv, FreeInputs, LiveInputs

\* Nothing Ios or its client does matters here.
LEMMA InputsIos ==
    ASSUME InputsInv, Client \/ Ios PROVE InputsInv'
  <1>1. UNCHANGED <<freeStmts, invalid, active, bufs>>
    BY DEF Client, AddQueries, ActivateQuery, DeactivateQuery, DeleteQuery,
           AddTable, AddStream, DeleteStream, ViewComponents, schVars, Ios,
           IosReads, NoRequest, ClearOne, ClearDone, PollStdout
  <1> QED
    BY <1>1 DEF InputsInv, FreeInputs, LiveInputs

\* A successful compilation of query q leaves it with its input buffer.
LEMMA CompiledInput ==
    ASSUME NEW q \in Query, NEW b, NEW out \in Outcomes(q, b), out.ok
    PROVE  Reads[q] \in Created(out)
  <1>1. out \notin Refused(q, b)
    BY DEF Refused
  <1>2. Compiles(q) /\ out = Compiled(q, b)
    BY <1>1 DEF Outcomes
  <1>3. out.whole
    BY <1>2 DEF Compiled
  <1> QED
    BY <1>2, <1>3, CommandAssumption DEF Compiles, Created

\* ADD_QUERY
LEMMA InputsAddQuery ==
    ASSUME TypeInv, InputsInv, HandleAddQuery PROVE InputsInv'
  <1>1. PICK m \in ToSet(qBuf) : HandleAddQuery!(m)
    BY DEF HandleAddQuery
  <1>2. m.arg \in Query
    BY <1>1, TakesType
  <1>3. PICK out \in Outcomes(m.arg, bufs) :
            /\ bufs' = bufs \cup Created(out)
            /\ freeStmts' = freeStmts \cup (IF out.ok THEN {m.arg} ELSE {})
    BY <1>1
  <1>4. out.ok => Reads[m.arg] \in bufs'
    BY <1>2, <1>3, CompiledInput
  <1>5. UNCHANGED <<invalid, active>>
    BY <1>1
  <1> QED
    BY <1>2, <1>3, <1>4, <1>5 DEF InputsInv, FreeInputs, LiveInputs

\* ACTIVATE_QUERY: a statement of the pool has its buffer if it is valid, any
\* other statement is compiled.
LEMMA InputsActivate ==
    ASSUME TypeInv, InputsInv, HandleActivate PROVE InputsInv'
  <1>1. PICK m \in ToSet(qBuf) : HandleActivate!(m)
    BY DEF HandleActivate
  <1>2. m.arg \in Query
    BY <1>1, TakesType
  <1>3. UNCHANGED invalid
    BY <1>1
  <1>4. CASE m.arg \in freeStmts
    <2>1. bufs' = bufs
      BY <1>1, <1>4
    <2>2. IF NoCompile(m.arg).ok THEN /\ active' = active \cup {m.arg}
                                      /\ freeStmts' = freeStmts \ {m.arg}
                                 ELSE UNCHANGED <<active, freeStmts>>
      BY <1>1, <1>4
    <2>3. CASE m.arg \in invalid
      <3>1. UNCHANGED <<active, freeStmts>>
        BY <2>2, <2>3 DEF NoCompile
      <3> QED
        BY <1>2, <1>3, <2>1, <3>1 DEF InputsInv, FreeInputs, LiveInputs
    <2>4. CASE m.arg \notin invalid
      <3>1. active' = active \cup {m.arg} /\ freeStmts' = freeStmts \ {m.arg}
        BY <2>2, <2>4 DEF NoCompile
      <3> QED
        BY <1>2, <1>3, <1>4, <2>1, <2>4, <3>1
        DEF InputsInv, FreeInputs, LiveInputs
    <2> QED
      BY <2>3, <2>4
  <1>5. CASE m.arg \notin freeStmts
    <2>1. PICK out \in Outcomes(m.arg, bufs) :
              /\ bufs' = bufs \cup Created(out)
              /\ IF out.ok THEN /\ active' = active \cup {m.arg}
                                /\ freeStmts' = freeStmts \ {m.arg}
                           ELSE UNCHANGED <<active, freeStmts>>
      BY <1>1, <1>5
    <2>2. out.ok => Reads[m.arg] \in bufs'
      BY <1>2, <2>1, CompiledInput
    <2> QED
      BY <1>2, <1>3, <2>1, <2>2 DEF InputsInv, FreeInputs, LiveInputs
  <1> QED
    BY <1>4, <1>5

\* Declaring a stream again: if all its users were compiled, there are none or
\* the buffer exists.
LEMMA InputsDeclareAdded ==
    ASSUME TypeInv, InputsInv, DeclareAdded PROVE InputsInv'
  <1>0. PICK m \in ToSet(qBuf) : DeclareAdded!(m)
    BY DEF DeclareAdded
  <1>1. PICK users \in SetToSeqs(Users(m.arg)) : DeclareAdded!(m)!(users)
    BY <1>0
  <1>3. UNCHANGED <<freeStmts, active>>
    BY <1>1
  <1>4. \A i : bufs \subseteq BufsAfter(i)
    BY DEF BufsAfter
  <1>5. bufs \subseteq bufs'
    BY <1>1, <1>4
  <1>6. CASE UNCHANGED invalid
    BY <1>3, <1>5, <1>6 DEF InputsInv, FreeInputs, LiveInputs
  <1>7. CASE ~ UNCHANGED invalid
    <2>1. /\ \A q \in Users(m.arg) : Compiles(q)
          /\ bufs' = BufsAfter(Len(users))
          /\ invalid' = invalid \ Users(m.arg)
      BY <1>1, <1>7
    <2>2. Users(m.arg) \subseteq Query /\ IsFiniteSet(Users(m.arg))
      <3>1. Users(m.arg) \subseteq Query
        BY DEF Users, TypeInv, TypeOK
      <3> QED
        BY <3>1, FS_Subset, CommandAssumption
    <2>3. ASSUME NEW q \in Users(m.arg) PROVE Reads[q] \in bufs'
      <3>1. Cardinality(Users(m.arg)) \in Nat /\ Cardinality(Users(m.arg)) # 0
        BY <2>2, FS_EmptySet, FS_CardinalityType
      <3>2. users \in [1 .. Cardinality(Users(m.arg)) -> Users(m.arg)]
        BY DEF SetToSeqs
      <3>3. Len(users) = Cardinality(Users(m.arg))
        BY <3>1, <3>2
      <3>4. Reads[q] \in ToSet(SystemDcl)
        BY <2>1, <2>2, CommandAssumption DEF Compiles
      <3> QED
        BY <2>1, <3>1, <3>3, <3>4 DEF BufsAfter
    <2> QED
      BY <1>3, <1>5, <2>1, <2>3 DEF InputsInv, FreeInputs, LiveInputs
  <1> QED
    BY <1>6, <1>7

\* DROP_DECLARE: no active statement uses the buffer, and the free ones that do
\* become invalid.
LEMMA InputsDropDeclare ==
    ASSUME TypeInv, InputsInv, HandleDropDeclare PROVE InputsInv'
  <1>1. PICK m \in ToSet(qBuf) : HandleDropDeclare!(m)
    BY DEF HandleDropDeclare
  <1> DEFINE unread == m.arg \in bufs /\ \A q \in active : Reads[q] # m.arg
  <1>3. UNCHANGED <<freeStmts, active>>
    BY <1>1
  <1>4. CASE unread
    <2>1. bufs' = bufs \ {m.arg} /\ invalid' = invalid \cup Users(m.arg)
      BY <1>1, <1>4
    <2> QED
      BY <1>3, <1>4, <2>1 DEF InputsInv, FreeInputs, LiveInputs, Users
  <1>5. CASE ~ unread
    <2>1. UNCHANGED <<bufs, invalid>>
      BY <1>1, <1>5
    <2> QED
      BY <1>3, <2>1 DEF InputsInv, FreeInputs, LiveInputs
  <1> QED
    BY <1>4, <1>5

\* The other steps of the scheduler.
LEMMA InputsScheduler ==
    ASSUME TypeInv, InputsInv, Scheduler PROVE InputsInv'
  <1> USE DEF InputsInv, FreeInputs, LiveInputs
  <1>1. CASE PutReply \/ HandleGetComponents \/ HandleUnknown
    BY <1>1 DEF PutReply, HandleGetComponents, HandleUnknown, schVars
  <1>2. CASE HandleAddDeclare
    <2>1. UNCHANGED <<freeStmts, invalid, active>> /\ bufs \subseteq bufs'
      BY <1>2 DEF HandleAddDeclare
    <2> QED
      BY <2>1
  <1>3. CASE DeclareEnds
    BY <1>3 DEF DeclareEnds
  <1>4. CASE HandleDeactivate
    <2>1. PICK m \in ToSet(qBuf) : HandleDeactivate!(m)
      BY <1>4 DEF HandleDeactivate
    <2> QED
      BY <2>1
  <1>5. CASE HandleDropQuery
    <2>1. PICK m \in ToSet(qBuf) : HandleDropQuery!(m)
      BY <1>5 DEF HandleDropQuery
    <2>2. /\ active' \subseteq active /\ freeStmts' = freeStmts \ {m.arg}
          /\ invalid' = invalid \ {m.arg} /\ bufs' = bufs
      BY <2>1
    <2> QED
      BY <2>2
  <1> QED
    BY <1>1, <1>2, <1>3, <1>4, <1>5, InputsAddQuery,
       InputsDeclareAdded, InputsActivate, InputsDropDeclare DEF Scheduler

-----------------------------------------------------------------------------
(* Whose replies Ios reads                                                  *)

\* The compiler's verdicts and the scheduler's.
Compiler == {COMPILE_SUCCESS, COMPILE_FAILURE}
Command == {COMMAND_SUCCESSFUL, COMMAND_FAILED}

\* What Ios has still to read, in order.
Coming == ioBuf \o pend

\* After a code in C there are only codes in D.
Then(C, D, s) ==
    \A i, j \in DOMAIN s : i < j /\ s[i].code \in C => s[j].code \in D

\* Messages of the conversation Ios is in; ADDED_BUFFER has no answer.
Own == {m \in Message : m.mine = TRUE}
Asked == {m \in Message : m.mine = TRUE \/ m.code = ADDED_BUFFER}

Awaits == {"query", "more", "activate", "deactivate", "table", "stream", "undo",
           "undeclare", "components"}

\* Ios waits: everything in flight is its own.
OwnInv == ipc \in Awaits =>
    Coming \in Seq(Own) /\ qBuf \in Seq(Asked) /\ (spc = "wait" => smine = TRUE)

\* It goes on to the next query of the batch: nothing is left to read.
BatchInv == ipc \in {"query", "more"} =>
    /\ spc = "main" /\ Then(Compiler, {}, Coming)
    /\ \A i \in DOMAIN qBuf :
          \/ qBuf[i].code = ADDED_BUFFER
          \/ /\ ipc = "query" /\ i = Len(qBuf) /\ qBuf[i].code = ADD_QUERY
             /\ Coming = << >>
    /\ ipc = "more" => Coming = << >>

\* It goes on to the next query of a module: nothing is in flight.
OneInv == ipc \in {"activate", "deactivate"} =>
    /\ spc = "main" /\ Then(Command, {}, Coming)
    /\ qBuf # << >> => /\ Coming = << >> /\ Len(qBuf) = 1
                       /\ qBuf[1].code \in {ACTIVATE_QUERY, DEACTIVATE_QUERY}

MineInv == ReplyIsMine /\ OwnInv /\ BatchInv /\ OneInv

LEMMA ThenTail ==
    ASSUME NEW C, NEW D, NEW s \in Seq(Message), s # << >>, Then(C, D, s)
    PROVE  /\ Then(C, D, Tail(s))
           /\ Head(s).code \in C => \A i \in DOMAIN Tail(s) : Tail(s)[i].code \in D
  <1> DEFINE t == Tail(s)
  <1>1. /\ t \in Seq(Message) /\ Head(s) = s[1] /\ DOMAIN s = 1 .. Len(s)
        /\ Len(s) \in Nat /\ Len(s) >= 1
        /\ DOMAIN t = 1 .. Len(s) - 1
        /\ \A i \in 1 .. Len(s) - 1 : t[i] = s[i + 1]
    BY TailAt
  <1> HIDE DEF t
  <1>2. \A i \in DOMAIN t : i + 1 \in DOMAIN s /\ 1 < i + 1 /\ 1 \in DOMAIN s
                            /\ t[i] = s[i + 1]
    BY <1>1
  <1>3. \A i, j \in DOMAIN t : i < j => i + 1 < j + 1
    BY <1>1
  <1>4. Then(C, D, t)
    BY <1>2, <1>3 DEF Then
  <1>5. Head(s).code \in C => \A i \in DOMAIN t : t[i].code \in D
    BY <1>1, <1>2 DEF Then
  <1> QED
    BY <1>4, <1>5 DEF t

LEMMA LastTail ==
    ASSUME NEW C, NEW s \in Seq(Message), s # << >>, Then(C, {}, s), Head(s).code \in C
    PROVE  Tail(s) = << >>
  <1>1. PICK D : D = {}
    OBVIOUS
  <1>2. Then(C, D, s)
    BY <1>1
  <1>3. \A i \in DOMAIN Tail(s) : Tail(s)[i].code \in D
    BY <1>2, ThenTail
  <1>4. Tail(s) \in Seq(Message)
    BY TailAt
  <1> HIDE <1>2
  <1> QED
    BY <1>1, <1>3, <1>4

LEMMA ThenAppend ==
    ASSUME NEW C, NEW D, NEW s \in Seq(Message), NEW m \in Message,
           Then(C, D, s), m.code \in D \/ \A i \in DOMAIN s : s[i].code \notin C
    PROVE  Then(C, D, Append(s, m))
  <1> DEFINE t == Append(s, m)
  <1>1. /\ DOMAIN t = 1 .. Len(s) + 1 /\ DOMAIN s = 1 .. Len(s)
        /\ \A i \in 1 .. Len(s) : t[i] = s[i]
        /\ t[Len(s) + 1] = m /\ Len(s) \in Nat
    BY AppendAt
  <1> HIDE DEF t
  <1>2. ASSUME NEW i \in DOMAIN t, NEW j \in DOMAIN t, i < j, t[i].code \in C
        PROVE  t[j].code \in D
    <2>1. i \in DOMAIN s /\ t[i] = s[i]
      BY <1>1, <1>2
    <2>2. CASE j \in DOMAIN s
      BY <1>1, <1>2, <2>1, <2>2 DEF Then
    <2>3. CASE j = Len(s) + 1
      BY <1>1, <1>2, <2>1, <2>3
    <2> QED
      BY <1>1, <2>2, <2>3
  <1>3. Then(C, D, t)
    BY <1>2 DEF Then
  <1> QED
    BY <1>3 DEF t

LEMMA ThenConcat ==
    ASSUME NEW C, NEW D, NEW s \in Seq(Message), NEW r \in Seq(Message),
           Then(C, D, r), \A i \in DOMAIN s : s[i].code \notin C
    PROVE  Then(C, D, s \o r)
  <1> DEFINE t == s \o r
  <1>1. /\ DOMAIN t = 1 .. Len(s) + Len(r) /\ DOMAIN s = 1 .. Len(s)
        /\ DOMAIN r = 1 .. Len(r)
        /\ \A i \in 1 .. Len(s) : t[i] = s[i]
        /\ \A i \in 1 .. Len(r) : t[Len(s) + i] = r[i]
        /\ Len(s) \in Nat /\ Len(r) \in Nat
    BY ConcatAt
  <1> HIDE DEF t
  <1>2. ASSUME NEW i \in DOMAIN t, NEW j \in DOMAIN t, i < j, t[i].code \in C
        PROVE  t[j].code \in D
    <2>1. i \notin DOMAIN s
      BY <1>1, <1>2
    <2>2. ASSUME NEW k \in DOMAIN t, k \notin DOMAIN s
          PROVE  k - Len(s) \in DOMAIN r /\ t[k] = r[k - Len(s)]
      <3>1. k - Len(s) \in 1 .. Len(r) /\ Len(s) + (k - Len(s)) = k
        BY <1>1, <2>2
      <3> QED
        BY <1>1, <3>1
    <2>3. j \notin DOMAIN s /\ i - Len(s) < j - Len(s)
      BY <1>1, <1>2, <2>1
    <2> QED
      BY <1>2, <2>1, <2>2, <2>3 DEF Then
  <1>3. Then(C, D, t)
    BY <1>2 DEF Then
  <1> QED
    BY <1>3 DEF t

LEMMA ThenLate ==
    ASSUME NEW C, NEW D, NEW s \in Seq(Message), NEW r \in Seq(Message),
           Then(C, D, s), \A i \in DOMAIN r : r[i].code \in D
    PROVE  Then(C, D, s \o r)
  <1> DEFINE t == s \o r
  <1>1. /\ DOMAIN t = 1 .. Len(s) + Len(r) /\ DOMAIN s = 1 .. Len(s)
        /\ DOMAIN r = 1 .. Len(r)
        /\ \A i \in 1 .. Len(s) : t[i] = s[i]
        /\ \A i \in 1 .. Len(r) : t[Len(s) + i] = r[i]
        /\ Len(s) \in Nat /\ Len(r) \in Nat
    BY ConcatAt
  <1> HIDE DEF t
  <1>2. ASSUME NEW i \in DOMAIN t, NEW j \in DOMAIN t, i < j, t[i].code \in C
        PROVE  t[j].code \in D
    <2>1. CASE j \in DOMAIN s
      <3>1. i \in DOMAIN s
        BY <1>1, <1>2, <2>1
      <3> QED
        BY <1>1, <1>2, <2>1, <3>1 DEF Then
    <2>2. CASE j \notin DOMAIN s
      <3>1. j - Len(s) \in 1 .. Len(r) /\ Len(s) + (j - Len(s)) = j
        BY <1>1, <2>2
      <3> QED
        BY <1>1, <3>1
    <2> QED
      BY <2>1, <2>2
  <1>3. Then(C, D, t)
    BY <1>2 DEF Then
  <1> QED
    BY <1>3 DEF t

\* Only codes matter.
LEMMA ThenSame ==
    ASSUME NEW C, NEW D, NEW s, NEW t, Then(C, D, s), DOMAIN t = DOMAIN s,
           \A i \in DOMAIN s : t[i].code = s[i].code
    PROVE  Then(C, D, t)
  BY DEF Then

\* The messages a handler puts belong to its command.
LEMMA PutsMine ==
    ASSUME NEW out, NEW b \in BOOLEAN, Puts(out, b), pend' \in Seq(Message)
    PROVE  \A i \in DOMAIN pend' : pend'[i].mine = b
  <1>1. ASSUME NEW i \in DOMAIN pend' PROVE pend'[i].mine = b
    <2>1. pend'[i] \in Message /\ i \in DOMAIN out
          /\ pend'[i] = [out[i] EXCEPT !.mine = b]
      BY DEF Puts
    <2>2. "mine" \in DOMAIN pend'[i]
      BY <2>1 DEF Message
    <2>3. "mine" \in DOMAIN out[i]
      BY <2>1, <2>2
    <2> QED
      BY <2>1, <2>3
  <1> QED
    BY <1>1

\* A compilation ends with the compiler's verdict and has no other; the
\* scheduler's verdicts are never part of it.
LEMMA OutcomeForm ==
    ASSUME TypeInv, NEW q \in Query \cup {None}, NEW b,
           NEW out \in Outcomes(q, b)
    PROVE  /\ out.msgs \in Seq(Message)
           /\ \A D : Then(Compiler, D, out.msgs)
           /\ \A i \in DOMAIN out.msgs : out.msgs[i].code \notin Command
  <1> DEFINE c == CompileMsgs(q, b)
  <1>1. c \in Seq(Notice)
    BY CompileNotices
  <1> HIDE DEF c
  <1>2. PICK s \in Seq(Notice), v \in Message :
           out.msgs = Append(s, v) /\ v.code \in Compiler
    <2>1. \A x \in Names : \A e \in Compiler : Msg(e, x) \in Message
                                              /\ Msg(e, x).code \in Compiler
      BY MsgType DEF Compiler, COMPILE_SUCCESS, COMPILE_FAILURE
    <2>2. q \in Names /\ None \in Names /\ COMPILE_SUCCESS \in Compiler
          /\ COMPILE_FAILURE \in Compiler
      BY DEF Names, Compiler
    <2>3. CASE out = Compiled(q, b)
      <3>1. out.msgs = Append(c, Msg(COMPILE_SUCCESS, q))
        BY <2>3 DEF Compiled, c
      <3> QED
        BY <1>1, <2>1, <2>2, <3>1
    <2>4. CASE out \in Refused(q, b)
      <3>1. PICK i \in 0 .. Len(c) :
               out.msgs = Append(SubSeq(c, 1, i), Msg(COMPILE_FAILURE, None))
        BY <2>4 DEF Refused, c
      <3>2. SubSeq(c, 1, i) \in Seq(Notice)
        BY <1>1
      <3> QED
        BY <2>1, <2>2, <3>1, <3>2
    <2> QED
      BY <2>3, <2>4 DEF Outcomes
  <1>3. s \in Seq(Message) /\ \A i \in DOMAIN s : s[i] \in Notice
    BY WiderSeq DEF Notice, Output
  <1>4. \A e \in Announced : e \notin Compiler /\ e \notin Command
    BY DEF Announced, Compiler, Command, ADDED_BUFFER, ADDED_STREAM_BUFFER,
           CONNECT_IOMODULE, USES_LIBRARY, COMPILE_SUCCESS, COMPILE_FAILURE,
           COMMAND_SUCCESSFUL, COMMAND_FAILED
  <1>5. \A i \in DOMAIN s : s[i].code \notin Compiler /\ s[i].code \notin Command
    BY <1>3, <1>4 DEF Notice
  <1>6. \A D : Then(Compiler, D, s)
    BY <1>5 DEF Then
  <1>7. \A D : Then(Compiler, D, Append(s, v))
    BY <1>3, <1>5, <1>6, ThenAppend
  <1> DEFINE t == Append(s, v)
  <1>8. /\ DOMAIN t = 1 .. Len(s) + 1 /\ DOMAIN s = 1 .. Len(s)
        /\ \A i \in 1 .. Len(s) : t[i] = s[i]
        /\ t[Len(s) + 1] = v /\ Len(s) \in Nat /\ t \in Seq(Message)
    BY <1>3, AppendAt
  <1>9. v.code \notin Command
    BY <1>2 DEF Compiler, Command, COMPILE_SUCCESS, COMPILE_FAILURE,
                COMMAND_SUCCESSFUL, COMMAND_FAILED
  <1> HIDE DEF t
  <1>10. \A i \in DOMAIN t : i \in DOMAIN s \/ i = Len(s) + 1
    BY <1>8
  <1>11. \A i \in DOMAIN t : t[i].code \notin Command
    BY <1>5, <1>8, <1>9, <1>10
  <1> QED
    BY <1>2, <1>7, <1>8, <1>11 DEF t

LEMMA ComingEmpty ==
    ASSUME TypeInv
    PROVE  /\ Coming \in Seq(Message)
           /\ Coming = << >> <=> ioBuf = << >> /\ pend = << >>
           /\ pend = << >> => Coming = ioBuf
           /\ ioBuf = << >> => Coming = pend
  <1>1. ioBuf \in Seq(Message) /\ pend \in Seq(Message)
    BY DEF TypeInv, TypeOK
  <1> QED
    BY <1>1, ConcatAt, ConcatEqualIffEmpty, ConcatEmptySeq DEF Coming

\* A conversation begins with nothing to read, and no wait.
LEMMA MineSends ==
    ASSUME TypeInv, TypeInv', ReplyIsMine, Coming = << >>, spc = "main",
           UNCHANGED <<spc, misread>>,
           NEW k, NEW x \in Names, NEW c \in 0 .. 21, Sends(k, x, c),
           \A i \in DOMAIN qBuf : qBuf[i].code = ADDED_BUFFER,
           qBuf = << >> \/ k = "query", k # "more",
           k = "query" => c = ADD_QUERY,
           k \in {"activate", "deactivate"} => c \in {ACTIVATE_QUERY, DEACTIVATE_QUERY}
    PROVE  MineInv'
  <1>1. ioBuf' = << >> /\ pend' = << >> /\ ipc' = k
    BY ComingEmpty DEF Sends, Stale
  <1>2. Coming' = << >>
    BY <1>1 DEF Coming
  <1> DEFINE s == Stale(qBuf)
             m == Msg(c, x)
             t == Append(s, m)
  <1>3. /\ qBuf \in Seq(Message) /\ s \in Seq(Message) /\ Len(s) = Len(qBuf)
        /\ DOMAIN s = DOMAIN qBuf
        /\ \A i \in DOMAIN s : s[i].code = ADDED_BUFFER
    BY StaleSeq DEF TypeInv, TypeOK
  <1>4. m \in Message /\ m.code = c /\ m.mine = TRUE
    BY MsgType DEF Msg
  <1>5. qBuf' = t
    BY DEF Sends
  <1> HIDE DEF s, m
  <1>6. /\ DOMAIN t = 1 .. Len(s) + 1 /\ DOMAIN s = 1 .. Len(s) /\ Len(t) = Len(s) + 1
        /\ \A i \in 1 .. Len(s) : t[i] = s[i]
        /\ t[Len(s) + 1] = m /\ Len(s) \in Nat /\ t \in Seq(Message)
    BY <1>3, <1>4, AppendAt
  <1> HIDE DEF t
  <1>7. \A i \in DOMAIN t :
           t[i].code = ADDED_BUFFER \/ (i = Len(t) /\ t[i] = m)
    BY <1>3, <1>6
  <1>8. t \in Seq(Asked)
    <2>1. s \in Seq(Asked)
      <3>1. \A i \in DOMAIN s : s[i] \in Asked
        BY <1>3 DEF Asked
      <3>2. s = [i \in DOMAIN s |-> s[i]]
        BY <1>3
      <3> QED
        BY <1>3, <3>1, <3>2, MapSeq
    <2>2. m \in Asked
      BY <1>4 DEF Asked
    <2> QED
      BY <2>1, <2>2, AppendAt DEF t
  <1>9. OwnInv'
    BY <1>2, <1>5, <1>8 DEF OwnInv
  <1>10. Then(Compiler, {}, Coming') /\ Then(Command, {}, Coming')
    BY <1>2 DEF Then
  <1>11. BatchInv'
    BY <1>1, <1>2, <1>4, <1>5, <1>7, <1>10 DEF BatchInv
  <1>12. OneInv'
    <2>1. SUFFICES ASSUME k \in {"activate", "deactivate"} PROVE OneInv'
      BY <1>1 DEF OneInv
    <2>2. qBuf = << >>
      BY <2>1
    <2>3. Len(s) = 0 /\ Len(t) = 1 /\ t[1] = m
      <3>1. Len(qBuf) = 0
        BY <2>2
      <3> QED
        BY <1>3, <1>6, <3>1
    <2> QED
      BY <1>1, <1>2, <1>4, <1>5, <1>10, <2>1, <2>3 DEF OneInv
  <1> QED
    BY <1>9, <1>11, <1>12 DEF MineInv, ReplyIsMine

\* A client that waits begins with nothing in flight; in the middle of a batch
\* only names of added buffers are.
LEMMA MineClient ==
    ASSUME TypeInv, MineInv, Paced, Client PROVE MineInv'
  <1>1. TypeInv' /\ UNCHANGED <<spc, misread>>
    BY TypeClient DEF Client, AddQueries, ActivateQuery, DeactivateQuery,
         DeleteQuery, AddTable, AddStream, DeleteStream, ViewComponents, schVars
  <1>2. ReplyIsMine
    BY DEF MineInv
  <1>3. ASSUME MayStart
        PROVE  Coming = << >> /\ spc = "main" /\ qBuf = << >> /\ DOMAIN qBuf = {}
    BY <1>3, ComingEmpty DEF MayStart, Quiet
  <1>4. Query \subseteq Names /\ Stream \subseteq Names /\ Table \subseteq Names
        /\ None \in Names
    BY DEF Names
  <1>5. /\ ADD_QUERY \in 0 .. 21 /\ ACTIVATE_QUERY \in 0 .. 21
        /\ DEACTIVATE_QUERY \in 0 .. 21 /\ DROP_DECLARE \in 0 .. 21
        /\ GET_COMPONENTS \in 0 .. 21 /\ ADD_DECLARE \in 0 .. 21
    BY DEF ADD_QUERY, ACTIVATE_QUERY, DEACTIVATE_QUERY, DROP_DECLARE,
           GET_COMPONENTS, ADD_DECLARE
  <1>6. ASSUME NEW k \in {"activate", "deactivate", "table", "stream", "undeclare",
                          "components"},
               NEW x \in Names, NEW c \in 0 .. 21, Sends(k, x, c), MayStart,
               k \in {"activate", "deactivate"} =>
                  c \in {ACTIVATE_QUERY, DEACTIVATE_QUERY}
        PROVE  MineInv'
    BY <1>1, <1>2, <1>3, <1>6, MineSends
  <1>7. CASE \E q \in Query : AddQueries(q)
    <2>1. PICK q \in Query : AddQueries(q)
      BY <1>7
    <2>2. Coming = << >> /\ spc = "main"
          /\ \A i \in DOMAIN qBuf : qBuf[i].code = ADDED_BUFFER
      BY <1>3, <2>1 DEF AddQueries, MineInv, BatchInv
    <2> QED
      BY <1>1, <1>2, <1>4, <1>5, <2>1, <2>2, MineSends DEF AddQueries, Start
  <1>8. CASE \E q \in Query : ActivateQuery(q)
    BY <1>4, <1>5, <1>6, <1>8 DEF ActivateQuery, Start
  <1>9. CASE \E q \in Query : DeactivateQuery(q)
    BY <1>4, <1>5, <1>6, <1>9 DEF DeactivateQuery, Start
  <1>10. CASE \E q \in Query : DeleteQuery(q)
    <2>1. ipc' = "clear"
      BY <1>10 DEF DeleteQuery
    <2> QED
      BY <1>1, <1>2, <2>1 DEF MineInv, OwnInv, BatchInv, OneInv, Awaits, ReplyIsMine
  <1>11. CASE \E t \in Table : AddTable(t)
    BY <1>4, <1>5, <1>6, <1>11 DEF AddTable, Start
  <1>12. CASE \E s \in Stream : AddStream(s)
    BY <1>4, <1>5, <1>6, <1>12 DEF AddStream, Start
  <1>13. CASE \E s \in Stream : DeleteStream(s)
    BY <1>4, <1>5, <1>6, <1>13 DEF DeleteStream, Start
  <1>14. CASE ViewComponents
    BY <1>4, <1>5, <1>6, <1>14 DEF ViewComponents, Start
  <1> QED
    BY <1>7, <1>8, <1>9, <1>10, <1>11, <1>12, <1>13, <1>14 DEF Client

\* A reply that Ios reads while it waits is its own.
LEMMA HeadOwn ==
    ASSUME TypeInv, MineInv, ipc \in Awaits, ioBuf # << >>
    PROVE  /\ Head(ioBuf).mine = TRUE /\ Head(ioBuf) = Head(Coming)
           /\ Coming # << >> /\ Tail(ioBuf) \o pend = Tail(Coming)
           /\ Tail(Coming) \in Seq(Own)
  <1>1. ioBuf \in Seq(Message) /\ pend \in Seq(Message) /\ Coming \in Seq(Own)
    BY DEF TypeInv, TypeOK, MineInv, OwnInv
  <1>2. /\ Tail(ioBuf) \o pend = Tail(Coming) /\ Coming # << >>
        /\ Head(Coming) = Head(ioBuf)
    BY <1>1, TailConcat DEF Coming
  <1>3. Head(Coming) \in Own /\ Tail(Coming) \in Seq(Own)
    BY <1>1, <1>2, TailAt
  <1> QED
    BY <1>2, <1>3 DEF Own

LEMMA AskedAppend ==
    ASSUME NEW s \in Seq(Asked), NEW c \in 0 .. 21, NEW x \in Names
    PROVE  Append(s, Msg(c, x)) \in Seq(Asked)
  <1>1. Msg(c, x) \in Asked
    <2>1. Msg(c, x) \in Message /\ Msg(c, x).mine = TRUE
      BY MsgType DEF Msg
    <2> QED
      BY <2>1 DEF Asked
  <1> QED
    BY <1>1, AppendAt

\* Ios reads at most one message and puts at most one of its own.
IosPass ==
    /\ ioBuf' = ioBuf \/ (ioBuf # << >> /\ ioBuf' = Tail(ioBuf))
    /\ \/ qBuf' = qBuf
       \/ \E c \in 0 .. 21, x \in Names : qBuf' = Append(qBuf, Msg(c, x))
    /\ ipc' \in Awaits => ipc \in Awaits
    /\ \/ misread' = misread
       \/ ipc \in Awaits /\ ioBuf # << >> /\ misread' = (misread \/ ~Head(ioBuf).mine)

LEMMA MinePass ==
    ASSUME TypeInv, MineInv, UNCHANGED <<pend, spc, smine>>, IosPass
    PROVE  ReplyIsMine' /\ OwnInv'
  <1>1. ReplyIsMine'
    <2>1. ~misread
      BY DEF MineInv, ReplyIsMine
    <2>2. CASE misread' = misread
      BY <2>1, <2>2 DEF ReplyIsMine
    <2>3. CASE ipc \in Awaits /\ ioBuf # << >> /\ misread' = (misread \/ ~Head(ioBuf).mine)
      <3>1. Head(ioBuf).mine = TRUE
        BY <2>3, HeadOwn
      <3>2. ~ (misread \/ ~Head(ioBuf).mine)
        BY <2>1, <3>1
      <3> QED
        BY <2>3, <3>2 DEF ReplyIsMine
    <2> QED
      BY <2>2, <2>3 DEF IosPass
  <1>2. ASSUME ipc' \in Awaits
        PROVE  Coming' \in Seq(Own) /\ qBuf' \in Seq(Asked) /\ (spc' = "wait" => smine' = TRUE)
    <2>1. /\ ipc \in Awaits /\ Coming \in Seq(Own) /\ qBuf \in Seq(Asked)
          /\ spc = "wait" => smine = TRUE
      BY <1>2 DEF IosPass, MineInv, OwnInv
    <2>2. Coming' \in Seq(Own)
      BY <2>1, HeadOwn DEF IosPass, Coming
    <2>3. qBuf' \in Seq(Asked)
      BY <2>1, AskedAppend DEF IosPass
    <2> QED
      BY <2>1, <2>2, <2>3
  <1> QED
    BY <1>1, <1>2 DEF OwnInv

LEMMA MineIdle ==
    ASSUME MineInv, NoRequest \/ ClearOne \/ ClearDone \/ PollStdout
    PROVE  MineInv'
  <1>1. ipc' \notin Awaits /\ misread' = misread
    BY DEF NoRequest, ClearOne, ClearDone, PollStdout, iosVars, Awaits
  <1> QED
    BY <1>1 DEF MineInv, OwnInv, BatchInv, OneInv, ReplyIsMine, Awaits

LEMMA MineReads ==
    ASSUME TypeInv, MineInv, IosReads PROVE MineInv'
  <1>1. UNCHANGED <<pend, spc, smine>>
    BY DEF IosReads, schVars
  <1>2. /\ arg \in Names /\ None \in Names /\ Query \subseteq Names
        /\ \A m \in ToSet(ioBuf) : m.arg \in Names /\ m.code \in 0 .. 21
        /\ (batch # << >> => Head(batch) \in Names)
    <2>1. \A m \in ToSet(ioBuf) : m.arg \in Names /\ m.code \in 0 .. 21
      BY SeenType DEF Message
    <2>2. batch # << >> => Head(batch) \in Query
      BY DEF TypeInv, TypeOK
    <2> QED
      BY <2>1, <2>2 DEF TypeInv, TypeOK, Names
  <1>3. \A c \in {ADDED_BUFFER, COMPILE_SUCCESS, COMPILE_FAILURE, DROP_QUERY,
                 DROP_DECLARE} : c \in 0 .. 21
    BY DEF ADDED_BUFFER, COMPILE_SUCCESS, COMPILE_FAILURE, DROP_QUERY, DROP_DECLARE
  <1>4. ASSUME NEW k \in Awaits, NEW m \in ToSet(ioBuf), Forward(k, m) PROVE IosPass
    BY <1>2, <1>3, <1>4 DEF Forward, Sees, IosPass
  <1>5. ASSUME NEW k \in Awaits, NEW m \in ToSet(ioBuf), NEW C, Other(k, m, C)
        PROVE  IosPass
    BY <1>5 DEF Other, Sees, iosVars, IosPass
  <1>6. CASE QueryLoop
    <2>1. PICK m \in ToSet(ioBuf) : QueryLoop!(m)
      BY <1>6 DEF QueryLoop
    <2>2. ipc = "query" /\ ioBuf # << >> /\ m = Head(ioBuf) /\ ioBuf' = Tail(ioBuf)
          /\ "query" \in Awaits
      BY <2>1 DEF Sees, Reply, Forward, Other, Awaits
    <2>3. IosPass
      <3>1. CASE QueryLoop!(m)!1 \/ QueryLoop!(m)!2
        BY <1>2, <1>3, <2>2, <3>1 DEF Reply, IosPass
      <3>2. CASE QueryLoop!(m)!3
        BY <2>2, <3>2 DEF IosPass
      <3> QED
        BY <1>4, <1>5, <2>1, <2>2, <3>1, <3>2
    <2>4. /\ Coming' = Tail(Coming) /\ Coming # << >> /\ m = Head(Coming)
          /\ Coming \in Seq(Message)
      BY <1>1, <2>2, HeadOwn, ComingEmpty DEF Coming
    <2>5. /\ Then(Compiler, {}, Tail(Coming)) /\ Tail(Coming) \in Seq(Message)
          /\ m.code \in Compiler => Tail(Coming) = << >>
      <3>1. Then(Compiler, {}, Coming)
        BY <2>2 DEF MineInv, BatchInv
      <3>2. Then(Compiler, {}, Tail(Coming))
        BY <2>4, <3>1, ThenTail
      <3>3. m.code \in Compiler => Tail(Coming) = << >>
        BY <2>4, <3>1, LastTail
      <3> QED
        BY <2>4, <3>2, <3>3, TailAt
    <2>6. qBuf \in Seq(Message) /\ \A i \in DOMAIN qBuf : qBuf[i].code = ADDED_BUFFER
      BY <2>2, <2>4 DEF MineInv, BatchInv, TypeInv, TypeOK
    <2>7. BatchInv'
      <3>1. CASE QueryLoop!(m)!1
        <4>1. m.code \in Compiler
          BY <3>1 DEF Compiler
        <4>2. ipc' = "rollback" \/ (ipc' = "more" /\ qBuf' = qBuf)
          BY <3>1
        <4> QED
          BY <1>1, <2>2, <2>4, <2>5, <2>6, <4>1, <4>2 DEF MineInv, BatchInv
      <3>2. CASE QueryLoop!(m)!2
        BY <3>2 DEF BatchInv
      <3>3. CASE QueryLoop!(m)!3 \/ Other("query", m, {COMPILE_SUCCESS,
                  COMPILE_FAILURE, USES_LIBRARY, ADDED_STREAM_BUFFER})
        <4>1. ipc' = "query" /\ qBuf' = qBuf
          BY <2>2, <3>3 DEF Other, iosVars
        <4> QED
          BY <1>1, <2>2, <2>4, <2>5, <2>6, <4>1 DEF MineInv, BatchInv
      <3>4. CASE Forward("query", m)
        <4>1. ipc' = "query" /\ qBuf' = Append(qBuf, Msg(ADDED_BUFFER, m.arg))
          BY <2>2, <3>4 DEF Forward
        <4> DEFINE a == Msg(ADDED_BUFFER, m.arg)
        <4>2. a \in Message /\ a.code = ADDED_BUFFER
          BY <1>2, <1>3, MsgType
        <4> HIDE DEF a
        <4>3. \A i \in DOMAIN Append(qBuf, a) : Append(qBuf, a)[i].code = ADDED_BUFFER
          <5> DEFINE t == Append(qBuf, a)
          <5>1. /\ DOMAIN t = 1 .. Len(qBuf) + 1 /\ DOMAIN qBuf = 1 .. Len(qBuf)
                /\ \A i \in 1 .. Len(qBuf) : t[i] = qBuf[i]
                /\ t[Len(qBuf) + 1] = a /\ Len(qBuf) \in Nat
            BY <2>6, <4>2, AppendAt
          <5> HIDE DEF t
          <5>2. \A i \in DOMAIN t : i \in DOMAIN qBuf \/ i = Len(qBuf) + 1
            BY <5>1
          <5>3. \A i \in DOMAIN t : t[i].code = ADDED_BUFFER
            BY <2>6, <4>2, <5>1, <5>2
          <5> QED
            BY <5>3 DEF t
        <4> QED
          BY <1>1, <2>2, <2>4, <2>5, <4>1, <4>3 DEF MineInv, BatchInv, a
      <3> QED
        BY <2>1, <3>1, <3>2, <3>3, <3>4
    <2>8. OneInv'
      <3>1. ipc' \in {"query", "more", "rollback"}
        BY <2>1, <2>2 DEF Forward, Other, iosVars
      <3> QED
        BY <3>1 DEF OneInv
    <2> QED
      BY <1>1, <2>3, <2>7, <2>8, MinePass DEF MineInv
  <1>7. CASE QueriesAdded \/ QueriesDropped
    <2>1. ipc' \notin Awaits /\ misread' = misread
      BY <1>7 DEF QueriesAdded, QueriesDropped, Awaits
    <2> QED
      BY <2>1 DEF MineInv, OwnInv, BatchInv, OneInv, ReplyIsMine, Awaits
  <1>8. CASE ActivateLoop \/ DeactivateLoop
    <2>1. /\ ioBuf # << >> /\ ioBuf' = Tail(ioBuf) /\ qBuf' = qBuf
          /\ ipc \in {"activate", "deactivate"} /\ ipc' \in {ipc, "clear"}
          /\ misread' = misread \/ misread' = (misread \/ ~Head(ioBuf).mine)
      BY <1>8 DEF ActivateLoop, DeactivateLoop, Sees, Reply, Other, iosVars
    <2>2. IosPass
      BY <2>1 DEF IosPass, Awaits
    <2>3. /\ Coming' = Tail(Coming) /\ Coming # << >> /\ Coming \in Seq(Message)
      BY <1>1, <2>1, HeadOwn, ComingEmpty DEF Coming, Awaits
    <2>4. Then(Command, {}, Coming) /\ qBuf = << >> /\ spc = "main"
      BY <2>1, <2>3 DEF MineInv, OneInv
    <2>5. Then(Command, {}, Tail(Coming))
      BY <2>3, <2>4, ThenTail
    <2>6. OneInv' /\ BatchInv'
      BY <1>1, <2>1, <2>3, <2>4, <2>5 DEF OneInv, BatchInv
    <2> QED
      BY <1>1, <2>2, <2>6, MinePass DEF MineInv
  <1>9. CASE TableLoop \/ StreamLoop \/ StreamUndo \/ DeleteReply \/ ComponentsReply
    <2>a. {"table", "stream", "undo", "undeclare", "components"} \subseteq Awaits
          /\ "clear" \notin Awaits
      BY DEF Awaits
    <2>1. ipc' \in {"table", "stream", "undo", "clear"} /\ IosPass
      <3>1. CASE TableLoop
        <4>1. PICK m \in ToSet(ioBuf) : TableLoop!(m)
          BY <3>1 DEF TableLoop
        <4>2. CASE TableLoop!(m)!1
          <5>1. ipc = "table" /\ ioBuf # << >> /\ m = Head(ioBuf) /\ ipc' = "clear"
            BY <4>2 DEF Sees
          <5>2. qBuf' = qBuf \/ (m.code \in 0 .. 21 /\ qBuf' = Append(qBuf, Msg(m.code, None)))
            BY <1>2, <4>2
          <5> QED
            BY <1>2, <2>a, <4>2, <5>1, <5>2 DEF Reply, IosPass
        <4>3. CASE Forward("table", m) \/ Other("table", m, {COMPILE_FAILURE,
                      COMPILE_SUCCESS, ADDED_BUFFER})
          <5>1. ipc' = "table"
            BY <4>3 DEF Forward, Other, Sees, iosVars
          <5> QED
            BY <1>4, <1>5, <2>a, <4>3, <5>1
        <4> QED
          BY <4>1, <4>2, <4>3
      <3>2. CASE StreamLoop
        <4>1. PICK m \in ToSet(ioBuf) : StreamLoop!(m)
          BY <3>2 DEF StreamLoop
        <4>2. CASE StreamLoop!(m)!1 \/ StreamLoop!(m)!2
          <5>1. ipc = "stream" /\ ioBuf # << >> /\ m = Head(ioBuf)
                /\ ipc' \in {"clear", "undo"} /\ Reply(m)
            BY <4>2 DEF Sees
          <5>2. \/ qBuf' = qBuf
                \/ \E c \in {DROP_DECLARE, COMPILE_SUCCESS, COMPILE_FAILURE},
                      x \in {arg, None} : qBuf' = Append(qBuf, Msg(c, x))
            BY <4>2
          <5>3. \/ qBuf' = qBuf
                \/ \E c \in 0 .. 21, x \in Names : qBuf' = Append(qBuf, Msg(c, x))
            BY <1>2, <1>3, <5>2
          <5> QED
            BY <2>a, <5>1, <5>3 DEF Reply, IosPass
        <4>3. CASE Forward("stream", m) \/ Other("stream", m, {COMMAND_FAILED,
                      COMMAND_SUCCESSFUL, ADDED_STREAM_BUFFER})
          <5>1. ipc' = "stream"
            BY <4>3 DEF Forward, Other, Sees, iosVars
          <5> QED
            BY <1>4, <1>5, <2>a, <4>3, <5>1
        <4> QED
          BY <4>1, <4>2, <4>3
      <3>3. CASE StreamUndo \/ DeleteReply \/ ComponentsReply
        <4>1. /\ ipc \in {"undo", "undeclare", "components"} /\ ipc' = "clear"
              /\ qBuf' = qBuf /\ ioBuf # << >> /\ ioBuf' \in {ioBuf, Tail(ioBuf)}
              /\ misread' = (misread \/ ~Head(ioBuf).mine)
          BY <3>3 DEF StreamUndo, DeleteReply, ComponentsReply, Glance, Sees, Reply
        <4> QED
          BY <2>a, <4>1 DEF IosPass
      <3> QED
        BY <1>9, <3>1, <3>2, <3>3
    <2>2. BatchInv' /\ OneInv'
      BY <2>1 DEF BatchInv, OneInv
    <2> QED
      BY <1>1, <2>1, <2>2, MinePass DEF MineInv
  <1> QED
    BY <1>6, <1>7, <1>8, <1>9 DEF IosReads

\* The scheduler takes the command at the head of the queue.
LEMMA MineTakes ==
    ASSUME TypeInv, MineInv, ipc \in Awaits, qBuf # << >>
    PROVE  /\ Head(qBuf).code # ADDED_BUFFER => Head(qBuf).mine = TRUE
           /\ Tail(qBuf) \in Seq(Asked)
  <1>1. qBuf \in Seq(Asked)
    BY DEF MineInv, OwnInv
  <1>2. Head(qBuf) \in Asked /\ Tail(qBuf) \in Seq(Asked)
    BY <1>1, TailAt
  <1> QED
    BY <1>2 DEF Asked

LEMMA MineScheduler ==
    ASSUME TypeInv, MineInv, Scheduler PROVE MineInv'
  <1>1. TypeInv' /\ UNCHANGED <<ipc, misread>>
    BY TypeScheduler
    DEF Scheduler, PutReply, HandleAddQuery, HandleAddDeclare, DeclareAdded,
        DeclareEnds, HandleActivate, HandleDeactivate, HandleDropQuery,
        HandleDropDeclare, HandleGetComponents, HandleUnknown, iosVars
  <1>2. SUFFICES ASSUME ipc \in Awaits PROVE OwnInv' /\ BatchInv' /\ OneInv'
    BY <1>1 DEF MineInv, ReplyIsMine, OwnInv, BatchInv, OneInv, Awaits
  <1>t. /\ qBuf \in Seq(Message) /\ ioBuf \in Seq(Message) /\ pend \in Seq(Message)
        /\ pend' \in Seq(Message) /\ smine \in BOOLEAN
    BY <1>1 DEF TypeInv, TypeOK
  <1>o. /\ Coming \in Seq(Own) /\ qBuf \in Seq(Asked) /\ (spc = "wait" => smine = TRUE)
    BY <1>2 DEF MineInv, OwnInv
  <1>3. CASE PutReply
    <2>1. Coming' = Coming /\ UNCHANGED <<qBuf, spc, smine>>
      BY <1>3, <1>t, ShiftConcat DEF PutReply, Coming, schVars
    <2> QED
      BY <1>1, <2>1 DEF MineInv, OwnInv, BatchInv, OneInv
  \* What a handler puts is of the conversation, if its command is.
  <1>4. ASSUME NEW out, Puts(out, TRUE), pend = << >>, ioBuf' = ioBuf
        PROVE  Coming' \in Seq(Own)
    <2>1. pend' \in Seq(Own)
      <3>1. \A i \in DOMAIN pend' : pend'[i] \in Own
        <4>1. \A i \in DOMAIN pend' : pend'[i].mine = TRUE
          BY <1>t, <1>4, PutsMine
        <4> QED
          BY <1>t, <4>1 DEF Own
      <3>2. pend' = [i \in DOMAIN pend' |-> pend'[i]]
        BY <1>t
      <3> QED
        BY <1>t, <3>1, <3>2, MapSeq
    <2>2. ioBuf \in Seq(Own)
      BY <1>o, <1>4, ComingEmpty
    <2> QED
      BY <1>4, <2>1, <2>2, ConcatAt DEF Coming
  <1>5. ASSUME NEW m, NEW c, Takes(m, c)
        PROVE  /\ qBuf # << >> /\ pend = << >> /\ spc = "main" /\ m = Head(qBuf)
               /\ qBuf' = Tail(qBuf) /\ qBuf' \in Seq(Asked) /\ smine' = m.mine
               /\ c # ADDED_BUFFER => m.mine = TRUE
               /\ m.code = c
               /\ ipc \in {"query", "more"} => c \in {ADDED_BUFFER, ADD_QUERY}
               /\ ipc \in {"activate", "deactivate"} =>
                     c \in {ACTIVATE_QUERY, DEACTIVATE_QUERY}
    <2>1. /\ qBuf # << >> /\ pend = << >> /\ spc = "main" /\ m = Head(qBuf)
          /\ qBuf' = Tail(qBuf) /\ smine' = m.mine /\ m.code = c
      BY <1>5 DEF Takes
    <2>2. 1 \in DOMAIN qBuf /\ m = qBuf[1]
      BY <1>t, <2>1
    <2> QED
      BY <1>2, <2>1, <2>2, MineTakes DEF MineInv, BatchInv, OneInv
  <1>c. \A c \in {ADD_DECLARE, DROP_QUERY, DROP_DECLARE, GET_COMPONENTS} :
           c \notin {ADDED_BUFFER, ADD_QUERY, ACTIVATE_QUERY, DEACTIVATE_QUERY}
    BY DEF ADD_DECLARE, DROP_QUERY, DROP_DECLARE, GET_COMPONENTS, ADDED_BUFFER,
           ADD_QUERY, ACTIVATE_QUERY, DEACTIVATE_QUERY
  <1>d. /\ ADD_QUERY \notin {ADDED_BUFFER, ACTIVATE_QUERY, DEACTIVATE_QUERY}
        /\ ACTIVATE_QUERY # ADDED_BUFFER /\ DEACTIVATE_QUERY # ADDED_BUFFER
    BY DEF ADDED_BUFFER, ADD_QUERY, ACTIVATE_QUERY, DEACTIVATE_QUERY
  \* A command that answers with out, outside a batch and an activation.
  <1>6. ASSUME NEW m, NEW c, NEW out, Takes(m, c), Puts(out, m.mine),
               c \in {ADD_DECLARE, DROP_QUERY, DROP_DECLARE, GET_COMPONENTS},
               ioBuf' = ioBuf
        PROVE  OwnInv' /\ BatchInv' /\ OneInv'
    <2>1. m.mine = TRUE /\ smine' = TRUE /\ qBuf' \in Seq(Asked) /\ pend = << >>
          /\ ipc' \notin {"query", "more", "activate", "deactivate"}
      BY <1>1, <1>5, <1>6, <1>c
    <2>2. Coming' \in Seq(Own)
      BY <1>4, <1>6, <2>1
    <2> QED
      BY <2>1, <2>2 DEF OwnInv, BatchInv, OneInv
  <1>7. CASE HandleAddDeclare
    <2>1. PICK m \in ToSet(qBuf), out \in Outcomes(None, bufs) :
             HandleAddDeclare!(m)!(out)
      BY <1>7 DEF HandleAddDeclare
    <2>2. \E o : Puts(o, m.mine)
      BY <2>1
    <2> QED
      BY <1>6, <2>1, <2>2
  <1>8. CASE HandleDropQuery \/ HandleDropDeclare \/ HandleGetComponents
    <2>1. \E m, out : \E c \in {DROP_QUERY, DROP_DECLARE, GET_COMPONENTS} :
             Takes(m, c) /\ Puts(out, m.mine) /\ ioBuf' = ioBuf
      BY <1>8 DEF HandleDropQuery, HandleDropDeclare, HandleGetComponents
    <2> QED
      BY <1>6, <2>1
  <1>9. CASE DeclareAdded \/ DeclareEnds
    <2>1. /\ spc = "wait" /\ pend = << >> /\ qBuf # << >> /\ qBuf' = Tail(qBuf)
          /\ spc' = "main" /\ ioBuf' = ioBuf
          /\ pend' = pend \/ \E out : Puts(out, smine)
      <3>1. CASE DeclareEnds
        BY <3>1 DEF DeclareEnds
      <3>2. CASE DeclareAdded
        <4>1. PICK m \in ToSet(qBuf) : DeclareAdded!(m)
          BY <3>2 DEF DeclareAdded
        <4>2. qBuf # << >>
          BY DEF ToSet
        <4>3. \E out : Puts(out, smine)
          BY <4>1
        <4> QED
          BY <4>1, <4>2, <4>3
      <3> QED
        BY <1>9, <3>1, <3>2
    <2>2. ipc \notin {"query", "more", "activate", "deactivate"} /\ smine = TRUE
      BY <1>o, <2>1 DEF MineInv, BatchInv, OneInv
    <2>3. Coming' \in Seq(Own)
      <3>1. CASE pend' = pend
        BY <1>o, <2>1, <3>1 DEF Coming
      <3>2. CASE \E out : Puts(out, smine)
        BY <1>4, <2>1, <2>2, <3>2
      <3> QED
        BY <2>1, <3>1, <3>2
    <2>4. qBuf' \in Seq(Asked)
      BY <1>2, <2>1, MineTakes
    <2> QED
      BY <1>1, <2>1, <2>2, <2>3, <2>4 DEF OwnInv, BatchInv, OneInv
  <1>10. CASE HandleUnknown
    <2>1. PICK m : Takes(m, ADDED_BUFFER) /\ UNCHANGED <<ioBuf, schVars, pend>>
      BY <1>10 DEF HandleUnknown
    <2>2. /\ qBuf # << >> /\ qBuf' = Tail(qBuf) /\ qBuf' \in Seq(Asked) /\ spc = "main"
          /\ ipc \notin {"activate", "deactivate"} /\ m.code = ADDED_BUFFER
      BY <1>5, <1>d, <2>1
    <2>3. Coming' = Coming /\ spc' = spc
      BY <2>1 DEF Coming, schVars
    <2>4. BatchInv'
      <3>1. SUFFICES ASSUME ipc \in {"query", "more"} PROVE BatchInv'
        BY <1>1 DEF BatchInv
      <3> DEFINE t == Tail(qBuf)
      <3>2. /\ DOMAIN qBuf = 1 .. Len(qBuf) /\ Len(qBuf) \in Nat
            /\ DOMAIN t = 1 .. Len(qBuf) - 1 /\ Len(t) = Len(qBuf) - 1
            /\ \A i \in 1 .. Len(qBuf) - 1 : t[i] = qBuf[i + 1]
        BY <1>t, <2>2, TailAt
      <3> HIDE DEF t
      <3>3. \A i \in DOMAIN t : i + 1 \in DOMAIN qBuf /\ t[i] = qBuf[i + 1]
                                /\ (i + 1 = Len(qBuf) => i = Len(t))
        BY <3>2
      <3>4. qBuf' = t
        BY <2>2 DEF t
      <3> QED
        BY <1>1, <2>2, <2>3, <3>1, <3>3, <3>4 DEF MineInv, BatchInv
    <2> QED
      BY <1>1, <1>o, <2>2, <2>3, <2>4 DEF OwnInv, OneInv
  <1>11. CASE HandleAddQuery
    <2>1. PICK m \in ToSet(qBuf) : HandleAddQuery!(m)
      BY <1>11 DEF HandleAddQuery
    <2>2. /\ qBuf # << >> /\ pend = << >> /\ spc = "main" /\ m = Head(qBuf)
          /\ qBuf' = Tail(qBuf) /\ qBuf' \in Seq(Asked) /\ m.mine = TRUE
          /\ ipc \notin {"activate", "deactivate"} /\ m.code = ADD_QUERY
      BY <1>5, <1>d, <2>1
    <2>3. m.arg \in Query
      BY <2>1, TakesType
    <2>4. PICK out \in Outcomes(m.arg, bufs) : Puts(out.msgs, TRUE)
      BY <2>1, <2>2
    <2>5. ioBuf' = ioBuf /\ spc' = spc
      BY <2>1
    <2>6. Coming' \in Seq(Own)
      BY <1>4, <2>2, <2>4, <2>5
    <2>7. BatchInv'
      <3>1. SUFFICES ASSUME ipc \in {"query", "more"} PROVE BatchInv'
        BY <1>1 DEF BatchInv
      <3>2. 1 \in DOMAIN qBuf /\ qBuf[1] = m /\ Len(qBuf) \in Nat
        BY <1>t, <2>2
      <3>3. ipc = "query" /\ Coming = << >> /\ 1 = Len(qBuf)
        BY <1>d, <2>2, <3>1, <3>2 DEF MineInv, BatchInv
      <3>4. qBuf' = << >> /\ DOMAIN qBuf' = {}
        BY <1>t, <2>2, <3>3
      <3>5. Coming' = pend'
        <4>1. ioBuf' = << >>
          BY <2>5, <3>3, ComingEmpty
        <4> QED
          BY <1>t, <4>1, ConcatEmptySeq DEF Coming
      <3>6. out.msgs \in Seq(Message) /\ Then(Compiler, {}, out.msgs)
        BY <2>3, <2>4, OutcomeForm
      <3>7. DOMAIN pend' = DOMAIN out.msgs
            /\ \A i \in DOMAIN out.msgs : pend'[i].code = out.msgs[i].code
        BY <2>4, <3>6, PutsType
      <3>8. Then(Compiler, {}, pend')
        BY <3>6, <3>7, ThenSame
      <3> QED
        BY <1>1, <2>2, <2>5, <3>3, <3>4, <3>5, <3>8 DEF BatchInv
    <2> QED
      BY <1>1, <2>2, <2>5, <2>6, <2>7 DEF OwnInv, OneInv
  <1>12. CASE HandleActivate \/ HandleDeactivate
    <2>1. PICK c \in {ACTIVATE_QUERY, DEACTIVATE_QUERY}, m \in ToSet(qBuf),
               out \in Seq(Message) :
             /\ Takes(m, c) /\ Puts(out, m.mine)
             /\ Then(Command, {}, out) /\ UNCHANGED <<ioBuf, spc>>
      <3>v. \A b : /\ Verdict(b) \in Message /\ <<Verdict(b)>> \in Seq(Message)
                   /\ DOMAIN <<Verdict(b)>> = {1}
        BY VerdictOutput, ShortSeq DEF Output
      <3>1. CASE HandleDeactivate
        <4>1. PICK m \in ToSet(qBuf) : HandleDeactivate!(m)
          BY <3>1 DEF HandleDeactivate
        <4> DEFINE o == <<Verdict(m.arg \in active)>>
        <4>2. o \in Seq(Message) /\ DOMAIN o = {1}
          BY <3>v
        <4>3. Then(Command, {}, o)
          <5> HIDE DEF o
          <5> QED
            BY <4>2 DEF Then
        <4>4. Takes(m, DEACTIVATE_QUERY) /\ Puts(o, m.mine) /\ UNCHANGED <<ioBuf, spc>>
          BY <4>1
        <4> HIDE DEF o
        <4> QED
          BY <4>2, <4>3, <4>4
      <3>2. CASE HandleActivate
        <4>1. PICK m \in ToSet(qBuf) : HandleActivate!(m)
          BY <3>2 DEF HandleActivate
        <4>2. PICK o \in IF m.arg \in freeStmts THEN {NoCompile(m.arg)}
                          ELSE Outcomes(m.arg, bufs) : HandleActivate!(m)!2!(o)
          BY <4>1
        <4>3. m.arg \in Query
          BY <4>1, TakesType
        <4>4. o.msgs \in Seq(Message) /\ \A i \in DOMAIN o.msgs : o.msgs[i].code \notin Command
          <5>1. CASE m.arg \in freeStmts
            <6>1. o.msgs = << >>
              BY <4>2, <5>1 DEF NoCompile
            <6> QED
              BY <6>1
          <5>2. CASE m.arg \notin freeStmts
            BY <4>2, <4>3, <5>2, OutcomeForm
          <5> QED
            BY <5>1, <5>2
        <4>5. Then(Command, {}, o.msgs)
          BY <4>4 DEF Then
        <4> DEFINE a == Append(o.msgs, Verdict(FALSE))
                   e == Msg(ACTIVATED_QUERY, m.arg)
                   r == <<e, Verdict(TRUE)>>
                   b == o.msgs \o r
        <4>6. a \in Seq(Message) /\ Then(Command, {}, a)
          BY <3>v, <4>4, <4>5, ThenAppend, AppendAt
        <4>7. e \in Message /\ e.code = ACTIVATED_QUERY /\ ACTIVATED_QUERY \notin Command
          BY <4>3, MsgType DEF Names, Command, ACTIVATED_QUERY, COMMAND_SUCCESSFUL,
                               COMMAND_FAILED
        <4>8. r \in Seq(Message) /\ Then(Command, {}, r)
          <5> DEFINE v == Verdict(TRUE)
          <5>1. v \in Message
            BY <3>v
          <5> HIDE DEF v, e
          <5>2. <<e, v>> \in Seq(Message) /\ DOMAIN <<e, v>> = {1, 2} /\ <<e, v>>[1] = e
            BY <4>7, <5>1
          <5>3. Then(Command, {}, <<e, v>>)
            BY <4>7, <5>2 DEF Then
          <5> QED
            BY <5>2, <5>3 DEF v
        <4>9. b \in Seq(Message) /\ Then(Command, {}, b)
          <5> HIDE DEF r
          <5> QED
            BY <4>4, <4>8, ThenConcat, ConcatAt
        <4>10. Puts(a, m.mine) \/ Puts(b, m.mine)
          BY <4>2
        <4>11. Takes(m, ACTIVATE_QUERY) /\ UNCHANGED <<ioBuf, spc>>
          BY <4>1
        <4> HIDE DEF a, b
        <4> QED
          BY <4>6, <4>9, <4>10, <4>11
      <3> QED
        BY <1>12, <3>1, <3>2
    <2>2. /\ qBuf # << >> /\ pend = << >> /\ spc = "main" /\ m = Head(qBuf)
          /\ qBuf' = Tail(qBuf) /\ qBuf' \in Seq(Asked) /\ m.mine = TRUE
          /\ ipc \notin {"query", "more"}
      BY <1>5, <1>d, <2>1
    <2>3. Coming' \in Seq(Own)
      BY <1>4, <2>1, <2>2
    <2>4. OneInv'
      <3>1. SUFFICES ASSUME ipc \in {"activate", "deactivate"} PROVE OneInv'
        BY <1>1 DEF OneInv
      <3>2. Coming = << >> /\ Len(qBuf) = 1
        BY <2>2, <3>1 DEF MineInv, OneInv
      <3>3. qBuf' = << >>
        BY <1>t, <2>2, <3>2
      <3>4. Coming' = pend'
        <4>1. ioBuf' = << >>
          BY <2>1, <3>2, ComingEmpty
        <4> QED
          BY <1>t, <4>1, ConcatEmptySeq DEF Coming
      <3>5. DOMAIN pend' = DOMAIN out
            /\ \A i \in DOMAIN out : pend'[i].code = out[i].code
        BY <2>1, <2>2, PutsType
      <3>6. Then(Command, {}, pend')
        BY <2>1, <3>5, ThenSame
      <3> QED
        BY <2>1, <2>2, <3>3, <3>4, <3>6 DEF OneInv
    <2> QED
      BY <1>1, <2>1, <2>2, <2>3, <2>4 DEF OwnInv, BatchInv
  <1> QED
    BY <1>3, <1>7, <1>8, <1>9, <1>10, <1>11, <1>12 DEF Scheduler

LEMMA MineInit == Init => MineInv
  BY DEF Init, MineInv, OwnInv, BatchInv, OneInv, ReplyIsMine, Awaits

-----------------------------------------------------------------------------
(* The theorems                                                             *)

LEMMA TypeNext == TypeInv /\ [Next]_vars => TypeInv'
  <1> SUFFICES ASSUME TypeInv, [Next]_vars PROVE TypeInv'
    OBVIOUS
  <1>1. CASE UNCHANGED vars
    BY <1>1 DEF vars, TypeInv, TypeOK, ArgOK, QueueOK
  <1> QED
    BY <1>1, TypeClient, TypeReads, TypeIdle, TypeScheduler DEF Next, Ios

\* Whatever the client does, every message, list and set of both processes keeps
\* its type; no statement is in the free pool and in a driver at once, only one
\* of the pool is invalid, and I/O modules write only to buffers that exist.
THEOREM TypeCorrect == Spec => []TypeOK
  <1>1. TypeInv => TypeOK
    BY DEF TypeInv
  <1> QED
    BY <1>1, TypeInit, TypeNext, PTL DEF Spec

LEMMA PairNext == TypeInv /\ PairInv /\ [Next]_vars => PairInv'
  <1> SUFFICES ASSUME TypeInv, PairInv, [Next]_vars PROVE PairInv'
    OBVIOUS
  <1>1. CASE UNCHANGED vars
    BY <1>1 DEF vars, PairInv, Paired, Awaited, Owes, NoCommandLost
  <1> QED
    BY <1>1, PairClient, PairReads, PairIdle, PairScheduler DEF Next, Ios

\* Whatever the client asks for and however late the replies are, the message
\* ADD_DECLARE takes off _queryBuffer is the one Ios meant for it.
THEOREM CommandsKept == Spec => []NoCommandLost
  <1>1. PairInv => NoCommandLost
    BY DEF PairInv
  <1> QED
    BY <1>1, TypeInit, TypeNext, PairInit, PairNext, PTL DEF Spec

LEMMA InputsNext == TypeInv /\ InputsInv /\ [Next]_vars => InputsInv'
  <1> SUFFICES ASSUME TypeInv, InputsInv, [Next]_vars PROVE InputsInv'
    OBVIOUS
  <1>1. CASE UNCHANGED vars
    BY <1>1 DEF vars, InputsInv, FreeInputs, LiveInputs
  <1> QED
    BY <1>1, InputsIos, InputsScheduler DEF Next

\* Whatever the client does, however late the replies are and whatever the
\* compiler answers, DROP_DECLARE never kills a buffer under a query in a driver
\* and no statement is activated whose input buffer was killed.
THEOREM InputsLive == Spec => []LiveInputs
  <1>1. InputsInv => LiveInputs
    BY DEF InputsInv
  <1> QED
    BY <1>1, TypeInit, TypeNext, InputsInit, InputsNext, PTL DEF Spec

LEMMA MineNext == Paced /\ TypeInv /\ MineInv /\ [Next]_vars => MineInv'
  <1> SUFFICES ASSUME Paced, TypeInv, MineInv, [Next]_vars PROVE MineInv'
    OBVIOUS
  <1>1. CASE UNCHANGED vars
    BY <1>1 DEF vars, MineInv, OwnInv, BatchInv, OneInv, ReplyIsMine, Coming
  <1> QED
    BY <1>1, MineClient, MineReads, MineIdle, MineScheduler DEF Next, Ios

\* With a client that waits until nothing is in flight, no request ends with the
\* reply to another one, although messages carry no request number, several
\* commands have two answers and the statements of a batch do not wait for the
\* names of buffers still on their way to the scheduler.
THEOREM RepliesOwn == ASSUME Paced PROVE Spec => []ReplyIsMine
  <1>1. TypeInv /\ MineInv /\ [Next]_vars => MineInv'
    BY MineNext
  <1>2. MineInv => ReplyIsMine
    BY DEF MineInv
  <1> QED
    BY <1>1, <1>2, TypeInit, TypeNext, MineInit, PTL DEF Spec

-----------------------------------------------------------------------------
(* Modules, for all statements, modules of any size and any number of      *)
(* requests: types, the commands the scheduler takes, the inputs of        *)
(* queries and, for a client that waits until nothing is in flight, whose  *)
(* replies Ios takes.  If such a client declares a stream only once, then  *)
(* what Ios believes is what the scheduler has, also without modules       *)
(* (Agreement), and a request about a module is done whole or taken back   *)
(* (ModuleWhole).                                                          *)

\* The queries Ios is adding are new.
FreshInv ==
    /\ ipc \notin {"query", "more", "rollback"} => batch = << >>
    /\ IsInjective(batch) /\ ToSet(batch) \cap known = {}
    /\ ipc = "query" => arg \notin known \cup ToSet(batch)

\* A query belongs to one module, once.
GroupInv ==
    /\ \A m \in modules : m \in Seq(Query) /\ IsInjective(m) /\ ToSet(m) \subseteq known
    /\ \A m, n \in modules : m = n \/ ToSet(m) \cap ToSet(n) = {}

\* A request about a module is about queries Ios knows.
LoopInv ==
    /\ mode \in {"none", "activate", "deactivate", "undo"}
    /\ did \in Seq(Query) /\ rest \in Seq(Query)
    /\ mode # "none" => /\ ToSet(did) \cup ToSet(rest) \subseteq known
                        /\ ipc \in {"clear", "activate", "deactivate"}

ModuleInv == TypeInv /\ FreshInv /\ GroupInv /\ LoopInv

-----------------------------------------------------------------------------
(* The modules                                                              *)

\* Only QueriesAdded and DeleteQuery change what Ios knows.
LEMMA KnownSteps ==
    ASSUME TypeInv, Client \/ Ios
    PROVE  \/ known' = known /\ ~(ipc = "more" /\ ipc' = "clear")
           \/ QueriesAdded
           \/ \E q \in known : known' = known \ {q} /\ ipc = "ready"
  <1>1. CASE Client
    <2>1. CASE \E q \in Query : DeleteQuery(q)
      BY <2>1 DEF DeleteQuery, MayStart
    <2>2. CASE ~ \E q \in Query : DeleteQuery(q)
      BY <1>1, <2>2 DEF Client, AddQueries, ActivateQuery, DeactivateQuery, AddTable,
         AddStream, DeleteStream, ViewComponents, Start, Sends
    <2> QED
      BY <2>1, <2>2
  <1>2. CASE NoRequest \/ ClearOne \/ ClearDone \/ PollStdout
    BY <1>2 DEF NoRequest, ClearOne, ClearDone, PollStdout, iosVars
  <1>3. CASE IosReads /\ ~QueriesAdded
    <2>1. known' = known
      BY <1>3 DEF IosReads, QueryLoop, QueriesDropped, ActivateLoop, DeactivateLoop,
         TableLoop, StreamLoop, StreamUndo, DeleteReply, ComponentsReply, Forward,
         Other, iosVars
    <2>2. ipc # "more"
      BY <1>3 DEF IosReads, QueryLoop, QueriesDropped, ActivateLoop, DeactivateLoop,
         TableLoop, StreamLoop, StreamUndo, DeleteReply, ComponentsReply, Forward,
         Other, Glance, Sees
    <2> QED
      BY <2>1, <2>2
  <1> QED
    BY <1>1, <1>2, <1>3 DEF Ios

LEMMA FreshSteps ==
    ASSUME TypeInv, FreshInv, Client \/ Ios PROVE FreshInv'
  <1>t. batch \in Seq(Query) /\ known \subseteq Query /\ (ipc = "query" => arg \in Query)
    BY DEF TypeInv, TypeOK, ArgOK
  <1>1. CASE Client
    <2>1. CASE \E q \in Query : AddQueries(q)
      <3>1. PICK q \in Query : AddQueries(q)
        BY <2>1
      <3>2. /\ ipc' = "query" /\ arg' = q /\ q \notin known \cup ToSet(batch)
            /\ known' = known /\ batch' = batch
        BY <3>1 DEF AddQueries, Start, Sends, Fresh
      <3> QED
        BY <3>2 DEF FreshInv
    <2>2. CASE ~ \E q \in Query : AddQueries(q)
      <3>1. /\ ipc = "ready" /\ batch' = batch /\ known' \subseteq known
            /\ ipc' # "query"
        BY <1>1, <2>2 DEF Client, ActivateQuery, DeactivateQuery, DeleteQuery,
           AddTable, AddStream, DeleteStream, ViewComponents, Start, Sends, MayStart
      <3> QED
        BY <3>1 DEF FreshInv
    <2> QED
      BY <2>1, <2>2
  <1>2. CASE NoRequest \/ ClearOne \/ ClearDone \/ PollStdout
    <2>1. /\ batch' = batch /\ known' = known /\ ipc \notin {"query", "more", "rollback"}
          /\ ipc' # "query"
      BY <1>2 DEF NoRequest, ClearOne, ClearDone, PollStdout, iosVars
    <2> QED
      BY <2>1 DEF FreshInv
  <1>3. CASE QueryLoop
    <2>1. /\ ipc = "query" /\ known' = known /\ arg' = arg
          /\ \/ batch' = batch /\ ipc' \in {"query", "rollback"}
             \/ batch' = Append(batch, arg) /\ ipc' = "more"
      BY <1>3 DEF QueryLoop, Forward, Other, Sees, iosVars
    <2>2. CASE batch' = batch /\ ipc' \in {"query", "rollback"}
      BY <2>1, <2>2 DEF FreshInv
    <2>3. CASE batch' = Append(batch, arg) /\ ipc' = "more"
      <3>1. arg \in Query /\ arg \notin known \cup ToSet(batch)
        BY <1>t, <2>1 DEF FreshInv
      <3>2. IsInjective(batch')
        BY <1>t, <2>3, <3>1, OnceAppend DEF IsInjective, FreshInv
      <3>3. ToSet(batch') = ToSet(batch) \cup {arg}
        BY <1>t, <2>3, <3>1, ToSetAppend
      <3> QED
        BY <2>1, <2>3, <3>1, <3>2, <3>3 DEF FreshInv
    <2> QED
      BY <2>1, <2>2, <2>3
  <1>4. CASE QueriesAdded
    <2>1. batch' = << >> /\ ipc' = "clear"
      BY <1>4 DEF QueriesAdded
    <2>2. ToSet(batch') = {} /\ IsInjective(batch')
      BY <2>1 DEF ToSet, IsInjective
    <2> QED
      BY <2>1, <2>2 DEF FreshInv
  <1>5. CASE QueriesDropped
    <2>1. CASE batch = << >>
      <3>1. ipc' = "clear" /\ batch' = batch /\ known' = known
        BY <1>5, <2>1 DEF QueriesDropped
      <3> QED
        BY <2>1, <3>1 DEF FreshInv
    <2>2. CASE batch # << >>
      <3>1. ipc' = "rollback" /\ batch' = Tail(batch) /\ known' = known
        BY <1>5, <2>2 DEF QueriesDropped
      <3>2. ToSet(batch') \subseteq ToSet(batch) /\ IsInjective(batch')
        BY <1>t, <2>2, <3>1, ToSetTail, OnceTail DEF FreshInv, IsInjective
      <3> QED
        BY <3>1, <3>2 DEF FreshInv
    <2> QED
      BY <2>1, <2>2
  <1>6. CASE IosReads /\ ~QueryLoop /\ ~QueriesAdded /\ ~QueriesDropped
    <2>1. /\ known' = known /\ batch' = batch /\ ipc \notin {"query", "more", "rollback"}
          /\ ipc' # "query"
      BY <1>6 DEF IosReads, ActivateLoop, DeactivateLoop, TableLoop, StreamLoop,
         StreamUndo, DeleteReply, ComponentsReply, Forward, Other, Glance, Sees, iosVars
    <2> QED
      BY <2>1 DEF FreshInv
  <1> QED
    BY <1>1, <1>2, <1>3, <1>4, <1>5, <1>6 DEF Ios

LEMMA GroupSteps ==
    ASSUME TypeInv, FreshInv, GroupInv, Client \/ Ios, Regrouped PROVE GroupInv'
  <1>1. CASE known' = known /\ ~(ipc = "more" /\ ipc' = "clear")
    <2>1. modules' \subseteq modules
      BY <1>1 DEF Regrouped
    <2> QED
      BY <1>1, <2>1 DEF GroupInv
  <1>2. CASE QueriesAdded
    <2>1. modules' \subseteq modules \cup {batch} /\ known' = known \cup ToSet(batch)
      BY <1>2 DEF Regrouped, QueriesAdded
    <2>2. batch \in Seq(Query)
      BY DEF TypeInv, TypeOK
    <2>3. \A m \in modules' : m \in modules \/ m = batch
      BY <2>1
    <2>4. \A m \in modules : ToSet(m) \cap ToSet(batch) = {}
      BY DEF GroupInv, FreshInv
    <2> QED
      BY <2>1, <2>2, <2>3, <2>4 DEF GroupInv, FreshInv
  <1>3. CASE \E q \in known : known' = known \ {q} /\ ipc = "ready"
    <2>1. PICK q \in known : known' = known \ {q} /\ ipc = "ready"
      BY <1>3
    <2>2. known \ known' = {q}
      BY <2>1
    <2>3. \A n \in modules' : \E m \in modules : n = RemoveFirst(m, q)
      BY <2>1, <2>2 DEF Regrouped
    <2>4. ASSUME NEW m \in modules
          PROVE  /\ RemoveFirst(m, q) \in Seq(Query) /\ IsInjective(RemoveFirst(m, q))
                 /\ ToSet(RemoveFirst(m, q)) \subseteq known'
                 /\ ToSet(RemoveFirst(m, q)) \subseteq ToSet(m)
      BY <2>1, RemoveFirstSeq DEF GroupInv, IsInjective
    <2> QED
      BY <2>3, <2>4 DEF GroupInv
  <1> QED
    BY <1>1, <1>2, <1>3, KnownSteps

\* A step of CommandProtocol outside a request about a module.
LEMMA ModuleAsks ==
    ASSUME ModuleInv, Asks \/ Works PROVE ModuleInv'
  <1>1. (Client \/ Ios) /\ Regrouped /\ mode = "none" /\ UNCHANGED <<mode, did, rest>>
    BY DEF Asks, Works
  <1>2. TypeInv'
    BY TypeClient, TypeReads, TypeIdle DEF Asks, Works, Ios, ModuleInv
  <1>3. LoopInv'
    BY <1>1 DEF ModuleInv, LoopInv
  <1> QED
    BY <1>1, <1>2, <1>3, FreshSteps, GroupSteps DEF ModuleInv

LEMMA ModuleSchedules ==
    ASSUME ModuleInv, Schedules PROVE ModuleInv'
  <1>1. UNCHANGED iosVars
    BY DEF Schedules, Scheduler, PutReply, HandleAddQuery, HandleAddDeclare, DeclareAdded,
       DeclareEnds, HandleActivate, HandleDeactivate, HandleDropQuery, HandleDropDeclare,
       HandleGetComponents, HandleUnknown
  <1>2. TypeInv'
    BY TypeScheduler DEF Schedules, ModuleInv
  <1> QED
    BY <1>1, <1>2 DEF ModuleInv, FreshInv, GroupInv, LoopInv, Schedules, iosVars, mvars

\* A request about a module, before its first command.
LEMMA ModuleAsked ==
    ASSUME ModuleInv, NEW m \in modules,
           \/ ModuleRequest("activate", m) \/ ModuleRequest("deactivate", m)
           \/ DeleteModule(m)
    PROVE  ModuleInv'
  <1>1. m \in Seq(Query) /\ IsInjective(m) /\ ToSet(m) \subseteq known /\ batch = << >>
        /\ ipc = "ready"
    BY DEF ModuleInv, GroupInv, FreshInv, ModuleRequest, DeleteModule, MayStart
  <1>2. CASE ModuleRequest("activate", m) \/ ModuleRequest("deactivate", m)
    <2>1. /\ mode' \in {"activate", "deactivate"} /\ rest' = m /\ did' = << >>
          /\ ipc' = "clear"
          /\ UNCHANGED <<qBuf, ioBuf, arg, got, batch, known, isActive, streams, tables,
                         connected, schVars, pend, bufs, smine, misread, lost, modules>>
      BY <1>2 DEF ModuleRequest
    <2>2. TypeInv'
      BY <2>1 DEF ModuleInv, TypeInv, TypeOK, ArgOK, schVars, IosSteps
    <2>3. ToSet(did') = {}
      BY <2>1 DEF ToSet
    <2> QED
      BY <1>1, <2>1, <2>2, <2>3 DEF ModuleInv, FreshInv, GroupInv, LoopInv
  <1>3. CASE DeleteModule(m)
    <2>1. /\ modules' = modules \ {m} /\ known' = known \ ToSet(m)
          /\ isActive' = isActive \ ToSet(m) /\ batch' = m /\ ipc' = "rollback"
          /\ mode = "none"
          /\ UNCHANGED <<qBuf, ioBuf, arg, got, streams, tables, connected, schVars, pend,
                         bufs, smine, misread, lost, mode, did, rest>>
      BY <1>3 DEF DeleteModule
    <2>2. TypeInv'
      BY <1>1, <2>1 DEF ModuleInv, TypeInv, TypeOK, ArgOK, schVars, IosSteps
    <2>3. FreshInv'
      BY <1>1, <2>1 DEF FreshInv
    <2>4. GroupInv'
      BY <2>1 DEF ModuleInv, GroupInv
    <2>5. LoopInv'
      BY <2>1 DEF ModuleInv, LoopInv
    <2> QED
      BY <2>2, <2>3, <2>4, <2>5 DEF ModuleInv
  <1> QED
    BY <1>2, <1>3

\* A command of such a request.
Switch(k, q) ==
    /\ k \in {"activate", "deactivate"} /\ q \in known /\ ipc = "clear"
    /\ Sends(k, q, Code(k))
    /\ isActive' \subseteq known
    /\ UNCHANGED <<batch, known, streams, tables, connected, schVars, bufs, misread, lost>>

LEMMA ModuleSwitches ==
    ASSUME LoopInv, isActive \subseteq known, Each \/ TakesBack
    PROVE  /\ rest # << >> /\ rest' = Tail(rest) /\ Head(rest) \in known
           /\ ToSet(did') \cup ToSet(rest') \subseteq ToSet(did) \cup ToSet(rest)
           /\ did' \in Seq(Query) /\ rest' \in Seq(Query)
           /\ UNCHANGED vars \/ \E k : Switch(k, Head(rest))
           /\ mode # "none" /\ ipc = "clear" /\ UNCHANGED <<modules, mode, undoing, ok, before>>
  <1>1. /\ rest # << >> /\ rest' = Tail(rest) /\ (did' = did \/ did' = Append(did, Head(rest)))
        /\ mode # "none" /\ ipc = "clear" /\ UNCHANGED <<modules, mode, undoing, ok, before>>
    BY DEF Each, TakesBack
  <1>2. rest \in Seq(Query) /\ did \in Seq(Query) /\ ToSet(rest) \subseteq known
    BY <1>1 DEF LoopInv
  <1>3. Head(rest) \in Query /\ Tail(rest) \in Seq(Query) /\ Head(rest) \in ToSet(rest)
        /\ ToSet(rest) = ToSet(Tail(rest)) \cup {Head(rest)}
    BY <1>1, <1>2, TailAt, ToSetTail
  <1>4. /\ Append(did, Head(rest)) \in Seq(Query)
        /\ ToSet(Append(did, Head(rest))) = ToSet(did) \cup {Head(rest)}
    BY <1>2, <1>3, AppendAt, ToSetAppend
  <1>5. UNCHANGED vars \/ \E k : Switch(k, Head(rest))
    <2>1. CASE Each
      <3>1. mode \in {"activate", "deactivate"}
        BY <2>1 DEF Each
      <3>2. \/ UNCHANGED vars
            \/ /\ Sends(mode, Head(rest), Code(mode))
               /\ UNCHANGED <<batch, known, isActive, streams, tables, connected,
                              schVars, bufs, misread, lost>>
        BY <2>1 DEF Each, Start
      <3> QED
        BY <1>1, <1>2, <1>3, <3>1, <3>2 DEF Switch
    <2>2. CASE TakesBack
      <3> DEFINE k == IF undoing = "activate" THEN "deactivate" ELSE "activate"
      <3>1. k \in {"activate", "deactivate"}
        OBVIOUS
      <3>2. \/ UNCHANGED vars
            \/ /\ Sends(k, Head(rest), Code(k))
               /\ isActive' \subseteq isActive \cup {Head(rest)}
               /\ UNCHANGED <<batch, known, streams, tables, connected,
                              schVars, bufs, misread, lost>>
        BY <2>2 DEF TakesBack, Start
      <3> HIDE DEF k
      <3> QED
        BY <1>1, <1>2, <1>3, <3>1, <3>2 DEF Switch
    <2> QED
      BY <2>1, <2>2
  <1> QED
    BY <1>1, <1>2, <1>3, <1>4, <1>5

LEMMA SwitchTypes ==
    ASSUME TypeInv, FreshInv, NEW k, NEW q, Switch(k, q) PROVE TypeInv' /\ FreshInv'
  <1>1. /\ k \in {"activate", "deactivate"} /\ q \in known /\ Sends(k, q, Code(k))
        /\ isActive' \subseteq known /\ ipc = "clear"
        /\ UNCHANGED <<batch, known, streams, tables, connected, schVars, bufs, misread, lost>>
    BY DEF Switch
  <1>2. Code(k) \in {ACTIVATE_QUERY, DEACTIVATE_QUERY}
    BY DEF Code
  <1>3. Code(k) \in 0 .. 21 /\ Code(k) # ADD_QUERY /\ k \in IosSteps /\ q \in Query
        /\ q \in Names
    BY <1>1, <1>2 DEF ACTIVATE_QUERY, DEACTIVATE_QUERY, ADD_QUERY, IosSteps, TypeInv,
       TypeOK, Names
  <1>4. /\ qBuf' \in Seq(Message) /\ QueueOK(qBuf', active)
        /\ ioBuf' \in Seq(Message) /\ pend' \in Seq(Message)
        /\ ipc' = k /\ arg' = q /\ got' = FALSE /\ smine' = FALSE
        /\ ipc' \in IosSteps /\ arg' \in Names
    BY <1>1, <1>3, SendsType
  <1>5. got' \in BOOLEAN /\ smine' \in BOOLEAN
    BY <1>4
  <1>6. ArgOK'
    BY <1>1, <1>4 DEF ArgOK
  <1>7. TypeInv'
    BY <1>1, <1>4, <1>5, <1>6 DEF TypeInv, TypeOK, schVars
  <1>8. FreshInv'
    BY <1>1, <1>4 DEF FreshInv
  <1> QED
    BY <1>7, <1>8

LEMMA ModuleWorks ==
    ASSUME ModuleInv, ModuleSteps PROVE ModuleInv'
  <1>1. CASE Each \/ TakesBack
    <2>1. TypeInv' /\ FreshInv' /\ known' = known
          /\ ipc' \in {"clear", "activate", "deactivate"}
      <3>1. CASE UNCHANGED vars
        <4>1. TypeInv' /\ FreshInv' /\ known' = known /\ ipc' = ipc
          BY <3>1 DEF vars, ModuleInv, FreshInv, TypeInv, TypeOK, ArgOK
        <4>2. ipc = "clear"
          BY <1>1 DEF Each, TakesBack
        <4> QED
          BY <4>1, <4>2
      <3>2. CASE \E k : Switch(k, Head(rest))
        BY <3>2, SwitchTypes DEF ModuleInv, Switch, Sends
      <3> QED
        BY <1>1, <3>1, <3>2, ModuleSwitches DEF ModuleInv, TypeInv, TypeOK
    <2>2. /\ ToSet(did') \cup ToSet(rest') \subseteq ToSet(did) \cup ToSet(rest)
          /\ did' \in Seq(Query) /\ rest' \in Seq(Query) /\ mode # "none"
          /\ mode' = mode /\ modules' = modules
      BY <1>1, ModuleSwitches DEF ModuleInv, TypeInv, TypeOK
    <2> QED
      BY <2>1, <2>2 DEF ModuleInv, GroupInv, LoopInv
  <1>2. CASE Waits
    <2>1. IosReads /\ UNCHANGED <<modules, mode, did, rest>>
      BY <1>2 DEF Waits, IosReads
    <2>2. known' = known /\ ipc' \in {ipc, "clear"}
      BY <1>2 DEF Waits, ActivateLoop, DeactivateLoop, Other, iosVars
    <2>3. TypeInv' /\ FreshInv'
      BY <2>1, TypeReads, FreshSteps DEF ModuleInv, Ios
    <2> QED
      BY <2>1, <2>2, <2>3 DEF ModuleInv, GroupInv, LoopInv
  <1>3. CASE Refuses \/ ModuleDone
    <2>1. /\ UNCHANGED <<vars, modules>> /\ did' = << >> /\ mode' \in {"undo", "none"}
          /\ mode # "none" /\ ipc = "clear" /\ rest' \in {rest, Front(did)}
      BY <1>3 DEF Refuses, ModuleDone
    <2>2. TypeInv' /\ FreshInv' /\ known' = known /\ ipc' = ipc
      BY <2>1 DEF vars, ModuleInv, FreshInv, TypeInv, TypeOK, ArgOK
    <2>3. did \in Seq(Query) /\ rest \in Seq(Query) /\ ToSet(did) \cup ToSet(rest) \subseteq known
      BY <2>1 DEF ModuleInv, LoopInv
    <2>4. rest' \in Seq(Query) /\ ToSet(rest') \subseteq known
      BY <2>1, <2>3, FrontSeq
    <2>5. did' \in Seq(Query) /\ ToSet(did') = {}
      BY <2>1 DEF ToSet
    <2> QED
      BY <2>1, <2>2, <2>4, <2>5 DEF ModuleInv, GroupInv, LoopInv
  <1> QED
    BY <1>1, <1>2, <1>3 DEF ModuleSteps

LEMMA ModuleInit == MInit => ModuleInv
  <1>1. SUFFICES ASSUME MInit PROVE ModuleInv
    OBVIOUS
  <1>2. TypeInv
    BY <1>1, TypeInit DEF MInit
  <1>3. /\ batch = << >> /\ known = {} /\ ipc = "ready" /\ modules = {}
        /\ mode = "none" /\ did = << >> /\ rest = << >>
    BY <1>1 DEF MInit, Init
  <1>4. IsInjective(batch) /\ ToSet(batch) = {}
    BY <1>3 DEF IsInjective, ToSet
  <1> QED
    BY <1>2, <1>3, <1>4 DEF ModuleInv, FreshInv, GroupInv, LoopInv

LEMMA ModuleNext == ModuleInv /\ [MNext]_allvars => ModuleInv'
  <1>1. SUFFICES ASSUME ModuleInv, [MNext]_allvars PROVE ModuleInv'
    OBVIOUS
  <1>2. CASE UNCHANGED allvars
    BY <1>1, <1>2 DEF allvars, vars, mvars, ModuleInv, TypeInv, TypeOK, ArgOK, FreshInv,
       GroupInv, LoopInv
  <1> QED
    BY <1>1, <1>2, ModuleAsks, ModuleSchedules, ModuleAsked, ModuleWorks DEF MNext

\* Requests about modules keep the types of the two processes' state (TypeOK),
\* whatever the client asks for and however often.
THEOREM ModuleTypes == MSpec => []TypeOK
  <1>1. MSpec => []ModuleInv
    BY ModuleInit, ModuleNext, PTL DEF MSpec
  <1>2. ModuleInv => TypeOK
    BY DEF ModuleInv, TypeInv
  <1> QED
    BY <1>1, <1>2, PTL

-----------------------------------------------------------------------------
(* Commands, inputs and replies                                             *)

\* ADD_DECLARE never swallows a command of such a request.
LEMMA ModulePair ==
    ASSUME ModuleInv, PairInv, [MNext]_allvars PROVE PairInv'
  <1>1. CASE UNCHANGED <<qBuf, spc, lost>> /\ ~Owes
    BY <1>1, PairKeeps
  <1>2. CASE Asks \/ Works \/ Schedules \/ Waits
    <2>1. Client \/ Ios \/ Scheduler
      BY <1>2 DEF Asks, Works, Schedules, Waits, Ios, IosReads
    <2> QED
      BY <2>1, PairClient, PairReads, PairIdle, PairScheduler DEF Ios, ModuleInv
  <1>3. CASE \E k : Switch(k, Head(rest))
    <2>1. PICK k : Switch(k, Head(rest))
      BY <1>3
    <2>2. /\ k \in {"activate", "deactivate"} /\ Sends(k, Head(rest), Code(k)) /\ ~Owes
          /\ UNCHANGED <<spc, lost>> /\ Head(rest) \in known
      BY <2>1 DEF Switch, schVars, Owes
    <2>3. Code(k) \in 0 .. 21 /\ Code(k) # ADD_DECLARE /\ Head(rest) \in Names
      BY <2>2 DEF Code, ACTIVATE_QUERY, DEACTIVATE_QUERY, ADD_DECLARE, Names, ModuleInv,
         TypeInv, TypeOK
    <2> QED
      BY <2>2, <2>3, PairSends DEF ModuleInv
  <1>4. CASE Each \/ TakesBack
    <2>1. \/ UNCHANGED vars \/ \E k : Switch(k, Head(rest))
      BY <1>4, ModuleSwitches DEF ModuleInv, TypeInv, TypeOK
    <2>2. ipc = "clear"
      BY <1>4 DEF Each, TakesBack
    <2> QED
      BY <1>1, <1>3, <2>1, <2>2 DEF vars, Owes
  <1>5. CASE Refuses \/ ModuleDone
    BY <1>1, <1>5 DEF Refuses, ModuleDone, vars, Owes
  <1>6. CASE \E m \in modules : \/ ModuleRequest("activate", m)
                                \/ ModuleRequest("deactivate", m)
                                \/ DeleteModule(m)
    BY <1>1, <1>6 DEF ModuleRequest, DeleteModule, MayStart, schVars, Owes
  <1>7. CASE UNCHANGED allvars
    <2>1. UNCHANGED <<qBuf, spc, lost, ipc, got>>
      BY <1>7 DEF allvars, vars
    <2> QED
      BY <2>1, PairKeeps DEF Owes
  <1> QED
    BY <1>2, <1>4, <1>5, <1>6, <1>7 DEF MNext, ModuleSteps

\* ADD_DECLARE takes no command for its second message (NoCommandLost), with
\* requests about whole modules too and however many messages are in flight.
THEOREM ModuleCommandsKept == MSpec => []NoCommandLost
  <1>1. MInit => ModuleInv /\ PairInv
    BY ModuleInit, PairInit DEF MInit
  <1>2. ModuleInv /\ PairInv /\ [MNext]_allvars => (ModuleInv /\ PairInv)'
    BY ModuleNext, ModulePair
  <1>3. ModuleInv /\ PairInv => NoCommandLost
    BY DEF PairInv
  <1> QED
    BY <1>1, <1>2, <1>3, PTL DEF MSpec

LEMMA ModuleInputs ==
    ASSUME ModuleInv, InputsInv, [MNext]_allvars PROVE InputsInv'
  <1>1. CASE UNCHANGED <<freeStmts, invalid, active, bufs>>
    BY <1>1 DEF InputsInv, FreeInputs, LiveInputs
  <1>2. CASE Schedules
    BY <1>2, InputsScheduler DEF Schedules, ModuleInv
  <1>3. CASE Asks \/ Works \/ Waits
    <2>1. Client \/ Ios
      BY <1>3 DEF Asks, Works, Waits, Ios, IosReads
    <2> QED
      BY <2>1, InputsIos
  <1>4. CASE Each \/ TakesBack
    <2>1. UNCHANGED vars \/ \E k : Switch(k, Head(rest))
      BY <1>4, ModuleSwitches DEF ModuleInv, TypeInv, TypeOK
    <2> QED
      BY <1>1, <2>1 DEF Switch, schVars, vars
  <1>5. CASE Refuses \/ ModuleDone
    BY <1>1, <1>5 DEF Refuses, ModuleDone, vars
  <1>6. CASE \E m \in modules : \/ ModuleRequest("activate", m)
                                \/ ModuleRequest("deactivate", m)
                                \/ DeleteModule(m)
    BY <1>1, <1>6 DEF ModuleRequest, DeleteModule, schVars
  <1>7. CASE UNCHANGED allvars
    BY <1>1, <1>7 DEF allvars, vars
  <1> QED
    BY <1>2, <1>3, <1>4, <1>5, <1>6, <1>7 DEF MNext, ModuleSteps

\* A query in a driver has its input buffer (LiveInputs), with requests about
\* whole modules too.
THEOREM ModuleInputsLive == MSpec => []LiveInputs
  <1>1. MInit => ModuleInv /\ InputsInv
    BY ModuleInit, InputsInit DEF MInit
  <1>2. ModuleInv /\ InputsInv /\ [MNext]_allvars => (ModuleInv /\ InputsInv)'
    BY ModuleNext, ModuleInputs
  <1>3. ModuleInv /\ InputsInv => LiveInputs
    BY DEF InputsInv
  <1> QED
    BY <1>1, <1>2, <1>3, PTL DEF MSpec

\* Between two commands about a module nothing is in flight.
LoopQuiet == mode # "none" /\ ipc = "clear" => Quiet

LEMMA QuietRests ==
    ASSUME Quiet PROVE ~Scheduler
  BY DEF Quiet, Scheduler, PutReply, HandleAddQuery, HandleAddDeclare, DeclareAdded,
     DeclareEnds, HandleActivate, HandleDeactivate, HandleDropQuery, HandleDropDeclare,
     HandleGetComponents, HandleUnknown, Takes, ToSet

LEMMA ModuleQuiet ==
    ASSUME Paced, ModuleInv, MineInv, LoopQuiet, [MNext]_allvars PROVE LoopQuiet'
  <1>1. CASE Asks \/ Works
    BY <1>1 DEF Asks, Works, LoopQuiet
  <1>2. CASE Schedules
    <2>1. ipc' = ipc /\ mode' = mode
      BY <1>2 DEF Schedules, Scheduler, PutReply, HandleAddQuery, HandleAddDeclare,
         DeclareAdded, DeclareEnds, HandleActivate, HandleDeactivate, HandleDropQuery,
         HandleDropDeclare, HandleGetComponents, HandleUnknown, iosVars, mvars
    <2> QED
      BY <1>2, <2>1, QuietRests DEF Schedules, LoopQuiet
  <1>3. CASE Waits
    <2>1. /\ ioBuf # << >> /\ ioBuf' = Tail(ioBuf) /\ qBuf' = qBuf /\ pend' = pend
          /\ ipc \in {"activate", "deactivate"} /\ spc' = spc
          /\ ipc' = ipc \/ Head(ioBuf).code \in Command
      BY <1>3 DEF Waits, ActivateLoop, DeactivateLoop, Sees, Reply, Other, iosVars,
         Command, schVars
    <2>2. Coming # << >> /\ Coming \in Seq(Message) /\ Head(Coming) = Head(ioBuf)
          /\ Tail(ioBuf) \o pend = Tail(Coming)
      BY <2>1, HeadOwn, ComingEmpty DEF ModuleInv, Awaits
    <2>3. Then(Command, {}, Coming) /\ qBuf = << >> /\ spc = "main"
      BY <2>1, <2>2 DEF MineInv, OneInv
    <2>4. ipc' # ipc => Tail(ioBuf) \o pend = << >>
      BY <2>1, <2>2, <2>3, LastTail
    <2>5. ioBuf \in Seq(Message) /\ pend \in Seq(Message)
      BY DEF ModuleInv, TypeInv, TypeOK
    <2>6. Tail(ioBuf) \in Seq(Message)
      BY <2>1, <2>5, TailAt
    <2>7. ipc' # ipc => Tail(ioBuf) = << >> /\ pend = << >>
      BY <2>4, <2>5, <2>6, ConcatEqualIffEmpty
    <2> QED
      BY <2>1, <2>3, <2>7 DEF LoopQuiet, Quiet
  <1>4. CASE Each \/ TakesBack
    <2>1. UNCHANGED vars \/ \E k : Switch(k, Head(rest))
      BY <1>4, ModuleSwitches DEF ModuleInv, TypeInv, TypeOK
    <2>2. ipc = "clear" /\ mode # "none"
      BY <1>4 DEF Each, TakesBack
    <2> QED
      BY <2>1, <2>2 DEF Switch, Sends, vars, LoopQuiet, Quiet
  <1>5. CASE Refuses \/ ModuleDone \/ UNCHANGED allvars
    BY <1>5 DEF Refuses, ModuleDone, allvars, vars, mvars, LoopQuiet, Quiet
  <1>6. CASE \E m \in modules : \/ ModuleRequest("activate", m)
                                \/ ModuleRequest("deactivate", m)
                                \/ DeleteModule(m)
    BY <1>6 DEF ModuleRequest, DeleteModule, MayStart, schVars, LoopQuiet, Quiet
  <1> QED
    BY <1>1, <1>2, <1>3, <1>4, <1>5, <1>6 DEF MNext, ModuleSteps

LEMMA ModuleMine ==
    ASSUME Paced, ModuleInv, MineInv, LoopQuiet, [MNext]_allvars PROVE MineInv'
  <1>1. CASE UNCHANGED misread /\ ipc' \notin Awaits
    BY <1>1 DEF MineInv, OwnInv, BatchInv, OneInv, ReplyIsMine, Awaits
  <1>2. CASE Asks \/ Works \/ Schedules \/ Waits
    <2>1. Client \/ Ios \/ Scheduler
      BY <1>2 DEF Asks, Works, Schedules, Waits, Ios, IosReads
    <2> QED
      BY <2>1, MineClient, MineReads, MineIdle, MineScheduler DEF Ios, ModuleInv
  <1>3. CASE Each \/ TakesBack
    <2>1. UNCHANGED vars \/ \E k : Switch(k, Head(rest))
      BY <1>3, ModuleSwitches DEF ModuleInv, TypeInv, TypeOK
    <2>2. ipc = "clear" /\ Quiet
      BY <1>3 DEF Each, TakesBack, LoopQuiet
    <2>3. CASE UNCHANGED vars
      BY <1>1, <2>2, <2>3 DEF vars, Awaits
    <2>4. CASE \E k : Switch(k, Head(rest))
      <3>1. PICK k : Switch(k, Head(rest))
        BY <2>4
      <3>2. TypeInv'
        BY <3>1, SwitchTypes DEF ModuleInv
      <3>3. /\ Coming = << >> /\ spc = "main" /\ UNCHANGED <<spc, misread>> /\ qBuf = << >>
            /\ k \in {"activate", "deactivate"} /\ Sends(k, Head(rest), Code(k))
            /\ Head(rest) \in known
        BY <2>2, <3>1, ComingEmpty DEF Quiet, Switch, schVars, ModuleInv
      <3>4. /\ Code(k) \in {ACTIVATE_QUERY, DEACTIVATE_QUERY} /\ Code(k) \in 0 .. 21
            /\ Head(rest) \in Names
        BY <3>3 DEF Code, ACTIVATE_QUERY, DEACTIVATE_QUERY, Names, ModuleInv, TypeInv,
           TypeOK
      <3>5. ReplyIsMine /\ TypeInv
        BY DEF MineInv, ModuleInv
      <3> QED
        BY SMTT(60), <3>2, <3>3, <3>4, <3>5, MineSends
    <2> QED
      BY <2>1, <2>3, <2>4
  <1>4. CASE Refuses \/ ModuleDone
    BY <1>1, <1>4 DEF Refuses, ModuleDone, vars, Awaits
  <1>5. CASE \E m \in modules : \/ ModuleRequest("activate", m)
                                \/ ModuleRequest("deactivate", m)
                                \/ DeleteModule(m)
    BY <1>1, <1>5 DEF ModuleRequest, DeleteModule, Awaits
  <1>6. CASE UNCHANGED allvars
    BY <1>6 DEF allvars, vars, MineInv, OwnInv, BatchInv, OneInv, ReplyIsMine, Coming, Then
  <1> QED
    BY <1>2, <1>3, <1>4, <1>5, <1>6 DEF MNext, ModuleSteps

\* Ios never takes another command's message for its reply (ReplyIsMine) if the
\* client waits until nothing is in flight, with requests about whole modules
\* too, in which Ios itself sends one command after the other.
THEOREM ModuleReplies == ASSUME Paced PROVE MSpec => []ReplyIsMine
  <1> DEFINE I == ModuleInv /\ MineInv /\ LoopQuiet
  <1>1. MInit => I
    BY ModuleInit, MineInit DEF MInit, LoopQuiet
  <1>2. I /\ [MNext]_allvars => I'
    BY ModuleNext, ModuleMine, ModuleQuiet
  <1>3. I => ReplyIsMine
    BY DEF MineInv
  <1> QED
    BY <1>1, <1>2, <1>3, PTL DEF MSpec

-----------------------------------------------------------------------------
(* Agreement                                                                *)

\* What is on its way to the scheduler, and what Ios has still to read.
Queue == ToSet(qBuf)
Due == ToSet(Coming)

\* A command that Ios waits for: neither a DROP_QUERY nor the name of a buffer
\* nor a compiler's verdict, which nobody answers or nobody waits for.
IsCommand(m) == m.code \notin {DROP_QUERY, ADDED_BUFFER}
                /\ ~(m.code = DEACTIVATE_QUERY /\ m.arg = None)
Sent == \E m \in Queue : IsCommand(m)
OneLast(s) == \A i \in DOMAIN s : IsCommand(s[i]) => i = Len(s)

Requests == {<<"query", ADD_QUERY>>, <<"activate", ACTIVATE_QUERY>>,
             <<"deactivate", DEACTIVATE_QUERY>>, <<"table", ADD_DECLARE>>,
             <<"stream", ADD_DECLARE>>, <<"undo", DROP_DECLARE>>,
             <<"undeclare", DROP_DECLARE>>, <<"components", GET_COMPONENTS>>}

\* There is at most one command, the one that Ios waits for, behind all other
\* messages, and before it is taken nothing is there to read.
QueueInv ==
    /\ OneLast(qBuf)
    /\ \A m \in Queue : IsCommand(m) =>
          <<ipc, m.code>> \in Requests /\ m.arg = arg /\ Due = {} /\ spc = "main"
    /\ ipc \in Awaits => \A m \in Queue : IsCommand(m) \/ m.code = ADDED_BUFFER
    /\ ipc \in Awaits \ {"table", "stream"} => spc = "main"

Dropping(q) == \E m \in Queue : m.code = DROP_QUERY /\ m.arg = q
Adds(q) == ipc = "query" /\ q = arg
Switches(q) == ipc \in {"activate", "deactivate"} /\ q = arg

\* But for what Ios is just doing and has not dropped yet, it knows the
\* statements of the scheduler and which of them are active.
StmtInv == \A q \in Query :
    /\ Dropping(q) => q \notin known \cup ToSet(batch) /\ ~Adds(q)
    /\ ~Adds(q) => (q \in active \cup freeStmts /\ ~Dropping(q)
                      <=> q \in (known \cup ToSet(batch)) \ Unloadable)
    /\ ~Switches(q) => (q \in active /\ ~Dropping(q) /\ q \notin ToSet(batch)
                          <=> q \in isActive)

\* The verdict that is due says what the scheduler has done.
AddedInv ==
    /\ arg \notin active
    /\ Sent => arg \notin freeStmts
    /\ \A m \in Due :
          /\ m.code = COMPILE_SUCCESS => (arg \in freeStmts <=> arg \notin Unloadable)
          /\ m.code = COMPILE_FAILURE => arg \notin freeStmts
AddingInv ==
    /\ ipc \in {"query", "more"} => ToSet(batch) \cap active = {}
    /\ ipc = "query" => AddedInv

ActivatingInv == ipc = "activate" =>
    /\ arg \in isActive => arg \in active
    /\ Sent => arg \notin active
    /\ \A m \in Due :
          /\ m.code = COMMAND_SUCCESSFUL => arg \in active
          /\ m.code = COMMAND_FAILED => arg \notin active
          /\ m.code = ACTIVATED_QUERY => m.arg = arg /\ arg \in active

\* Deactivating an active query always succeeds.
DeactivatingInv == ipc = "deactivate" =>
    /\ Sent => arg \in active
    /\ \A m \in Due : m.code = COMMAND_SUCCESSFUL /\ arg \notin active

\* The declared streams are those that have a buffer, and are connected, but
\* for the one that Ios is adding or deleting.
BufsInv ==
    /\ IsInjective(streams)
    /\ ipc \notin {"stream", "undo", "undeclare"} =>
          bufs = ToSet(streams) /\ ToSet(streams) \subseteq connected
    /\ ipc \in {"stream", "undo"} =>
          /\ arg \notin ToSet(streams) /\ ToSet(streams) \subseteq connected
          /\ bufs \subseteq ToSet(streams) \cup {arg}
          /\ \A q \in active : Reads[q] # arg
    /\ ipc = "undo" /\ ~Sent => arg \notin bufs
    /\ ipc = "undeclare" =>
          /\ arg \in ToSet(streams)
          /\ bufs \subseteq ToSet(streams) /\ ToSet(streams) \subseteq connected \cup {arg}
          /\ Sent => arg \in connected
          /\ \A m \in Due : IF m.code = FAILURE THEN arg \in connected
                                                ELSE arg \notin bufs

\* A stream that is declared: Ios has been told of its buffer or will be, before
\* the scheduler's only verdict; and of its source if that is a success.
StreamInv == ipc = "stream" =>
    /\ Sent => arg \notin bufs /\ ~got
    /\ arg \in bufs <=> got \/ \E m \in Due : m.code = ADDED_STREAM_BUFFER
    /\ spc = "wait" \/ (\E m \in Due : m.code = COMMAND_SUCCESSFUL) =>
          /\ arg \in bufs
          /\ arg \in connected \/ \E m \in Due : m.code = CONNECT_IOMODULE /\ m.arg = arg
    /\ Then(Command, {}, Coming)
    /\ (\E m \in Due : m.code \in Command) => spc = "main"

AgreeInv == /\ QueueInv /\ StmtInv /\ AddingInv /\ ActivatingInv
            /\ DeactivatingInv /\ BufsInv /\ StreamInv

\* The invariants of CommandProtocol.
BaseInv == TypeInv /\ FreshInv /\ PairInv /\ InputsInv /\ MineInv

-----------------------------------------------------------------------------
(* The queues                                                               *)

LEMMA QueueTypes ==
    ASSUME TypeInv
    PROVE  /\ qBuf \in Seq(Message) /\ Queue \subseteq Message
           /\ Coming \in Seq(Message) /\ Due \subseteq Message
           /\ Due = {} <=> Coming = << >>
           /\ Queue = {} <=> qBuf = << >>
           /\ Due = ToSet(ioBuf) \cup ToSet(pend)
  <1>1. qBuf \in Seq(Message) /\ ioBuf \in Seq(Message) /\ pend \in Seq(Message)
    BY DEF TypeInv, TypeOK
  <1>2. Coming \in Seq(Message)
    BY ComingEmpty
  <1> QED
    BY <1>1, <1>2, ToSetSeq, ToSetEmpty, ToSetConcat DEF Queue, Due, Coming

\* Ios reads a message.
LEMMA DueReads ==
    ASSUME TypeInv, ioBuf # << >>, ioBuf' = Tail(ioBuf), pend' = pend
    PROVE  /\ Head(ioBuf) \in Due /\ Due = Due' \cup {Head(ioBuf)}
           /\ Coming' = Tail(Coming) /\ Head(Coming) = Head(ioBuf) /\ Coming # << >>
  <1>1. ioBuf \in Seq(Message) /\ pend \in Seq(Message) /\ Coming \in Seq(Message)
    BY ComingEmpty DEF TypeInv, TypeOK
  <1>2. Coming' = Tail(Coming) /\ Head(Coming) = Head(ioBuf) /\ Coming # << >>
    BY <1>1, TailConcat DEF Coming
  <1>3. Due' = ToSet(Tail(Coming))
    BY <1>2 DEF Due
  <1> HIDE DEF Coming
  <1> QED
    BY <1>1, <1>2, <1>3, ToSetTail DEF Due

\* The scheduler's handler answers.
LEMMA DueAnswers ==
    ASSUME TypeInv, TypeInv', pend = << >>, ioBuf' = ioBuf
    PROVE  Due' = Due \cup ToSet(pend') /\ Coming' = Coming \o pend'
  <1>1. Coming = ioBuf /\ Coming \in Seq(Message) /\ pend' \in Seq(Message)
    BY ComingEmpty DEF TypeInv, TypeOK
  <1>2. Coming' = Coming \o pend'
    BY <1>1 DEF Coming
  <1>3. Due' = ToSet(Coming \o pend')
    BY <1>2 DEF Due
  <1> HIDE DEF Coming
  <1> QED
    BY <1>1, <1>2, <1>3, ToSetConcat DEF Due

LEMMA DuePuts ==
    ASSUME TypeInv, PutReply PROVE Due' = Due /\ Coming' = Coming
  <1>1. ioBuf \in Seq(Message) /\ pend \in Seq(Message)
    BY DEF TypeInv, TypeOK
  <1>2. Coming' = Coming
    BY <1>1, ShiftConcat DEF PutReply, Coming
  <1> QED
    BY <1>2 DEF Due

LEMMA QueueAppends ==
    ASSUME TypeInv, NEW c \in 0 .. 21, NEW x \in Names, qBuf' = Append(qBuf, Msg(c, x))
    PROVE  Queue' = Queue \cup {Msg(c, x)}
           /\ Msg(c, x).code = c /\ Msg(c, x).arg = x
  <1>1. qBuf \in Seq(Message) /\ Msg(c, x) \in Message
    BY MsgType DEF TypeInv, TypeOK
  <1> QED
    BY ZenonT(60), <1>1, ToSetAppend, MsgType DEF Queue

\* The scheduler takes a message; nothing is behind a command.
LEMMA QueueTakes ==
    ASSUME TypeInv, QueueInv, qBuf # << >>, qBuf' = Tail(qBuf)
    PROVE  /\ Head(qBuf) \in Queue /\ Queue = Queue' \cup {Head(qBuf)}
           /\ Head(qBuf) \in Message
           /\ OneLast(qBuf') /\ (IsCommand(Head(qBuf)) => Queue' = {})
  <1>1. qBuf \in Seq(Message)
    BY DEF TypeInv, TypeOK
  <1>2. /\ Head(qBuf) \in Queue /\ Queue = Queue' \cup {Head(qBuf)}
        /\ Head(qBuf) \in Message
    BY <1>1, ToSetTail, TailAt DEF Queue
  <1> DEFINE t == Tail(qBuf)
  <1>3. /\ Head(qBuf) = qBuf[1] /\ DOMAIN qBuf = 1 .. Len(qBuf)
        /\ Len(qBuf) \in Nat /\ Len(qBuf) >= 1 /\ t \in Seq(Message)
        /\ DOMAIN t = 1 .. Len(qBuf) - 1 /\ Len(t) = Len(qBuf) - 1
        /\ \A i \in 1 .. Len(qBuf) - 1 : t[i] = qBuf[i + 1]
    BY <1>1, TailAt
  <1> HIDE DEF t
  <1>4. \A i \in DOMAIN t : i + 1 \in DOMAIN qBuf /\ t[i] = qBuf[i + 1]
    BY <1>3
  <1>5. \A i \in DOMAIN t : i + 1 = Len(qBuf) => i = Len(t)
    BY <1>3
  <1>6. OneLast(t)
    BY <1>4, <1>5 DEF QueueInv, OneLast
  <1>7. IsCommand(Head(qBuf)) => ToSet(t) = {}
    <2>1. SUFFICES ASSUME IsCommand(Head(qBuf)) PROVE ToSet(t) = {}
      OBVIOUS
    <2>2. 1 = Len(qBuf)
      BY <1>3, <2>1 DEF QueueInv, OneLast
    <2>3. Len(t) = 0
      <3>1. Len(t) = Len(qBuf) - 1 /\ Len(qBuf) = 1
        BY <1>3, <2>2
      <3> QED
        BY <3>1
    <2>4. t = << >>
      BY <1>3, <2>3
    <2> QED
      BY <1>3, <2>4, ToSetEmpty
  <1> QED
    BY <1>2, <1>6, <1>7 DEF t, Queue
-----------------------------------------------------------------------------
(* Ios reads                                                                *)

LEMMA NoneSent ==
    ASSUME TypeInv, QueueInv, ioBuf # << >> \/ ipc \notin Awaits \/ ipc = "more"
    PROVE  ~Sent
  <1>1. ioBuf # << >> => Due # {}
    <2>1. ioBuf \in Seq(Message)
      BY DEF TypeInv, TypeOK
    <2> QED
      BY <2>1, QueueTypes, ToSetEmpty
  <1>2. \A c : <<ipc, c>> \in Requests => ipc \in Awaits \ {"more"}
    BY DEF Requests, Awaits
  <1> QED
    BY <1>1, <1>2 DEF QueueInv, Sent

LEMMA NoneLast ==
    ASSUME NEW s, \A m \in ToSet(s) : ~IsCommand(m) PROVE OneLast(s)
  BY DEF OneLast, ToSet

\* Ios puts nothing that the scheduler answers.
LEMMA QueuePass ==
    ASSUME TypeInv, QueueInv, ~Sent, spc' = spc,
           \/ qBuf' = qBuf
           \/ \E c \in 0 .. 21, x \in Names :
                 /\ qBuf' = Append(qBuf, Msg(c, x)) /\ ~IsCommand(Msg(c, x))
                 /\ c = ADDED_BUFFER \/ ipc' \notin Awaits,
           ipc' \in Awaits => ipc \in Awaits,
           ipc' \in Awaits \ {"table", "stream"} => spc = "main"
    PROVE  QueueInv' /\ ~Sent'
  <1>1. \/ Queue' = Queue
        \/ \E m : /\ Queue' = Queue \cup {m} /\ ~IsCommand(m)
                  /\ m.code = ADDED_BUFFER \/ ipc' \notin Awaits
    <2>1. CASE qBuf' = qBuf
      BY <2>1 DEF Queue
    <2>2. CASE qBuf' # qBuf
      <3>1. PICK c \in 0 .. 21 : \E x \in Names :
                 /\ qBuf' = Append(qBuf, Msg(c, x)) /\ ~IsCommand(Msg(c, x))
                 /\ c = ADDED_BUFFER \/ ipc' \notin Awaits
        BY <2>2
      <3>2. PICK x \in Names :
                 /\ qBuf' = Append(qBuf, Msg(c, x)) /\ ~IsCommand(Msg(c, x))
                 /\ c = ADDED_BUFFER \/ ipc' \notin Awaits
        BY <3>1
      <3> QED
        BY <3>2, QueueAppends
    <2> QED
      BY <2>1, <2>2
  <1>2. ~Sent'
    BY <1>1 DEF Sent
  <1>3. OneLast(qBuf')
    BY <1>2, NoneLast DEF Sent, Queue
  <1>4. \A m \in Queue' : ~IsCommand(m)
    BY <1>2 DEF Sent
  <1>5. ipc' \in Awaits => \A m \in Queue' : IsCommand(m) \/ m.code = ADDED_BUFFER
    BY <1>1 DEF QueueInv
  <1> QED
    BY <1>2, <1>3, <1>4, <1>5 DEF QueueInv

\* What it puts may be a DROP_QUERY.
LEMMA DroppingPuts ==
    ASSUME TypeInv, NEW c \in 0 .. 21, NEW x \in Names, qBuf' = Append(qBuf, Msg(c, x))
    PROVE  \A q : Dropping(q)' <=> Dropping(q) \/ (c = DROP_QUERY /\ x = q)
  <1>1. Queue' = Queue \cup {Msg(c, x)} /\ Msg(c, x).code = c /\ Msg(c, x).arg = x
    BY QueueAppends
  <1> SUFFICES ASSUME NEW q PROVE Dropping(q)' <=> Dropping(q) \/ (c = DROP_QUERY /\ x = q)
    OBVIOUS
  <1>2. Dropping(q)' <=> \E m \in Queue' : m.code = DROP_QUERY /\ m.arg = q
    BY DEF Dropping
  <1>3. Dropping(q) <=> \E m \in Queue : m.code = DROP_QUERY /\ m.arg = q
    BY DEF Dropping
  <1> QED
    BY <1>1, <1>2, <1>3

LEMMA DroppingKeeps ==
    ASSUME TypeInv,
           \/ qBuf' = qBuf
           \/ \E c \in 0 .. 21, x \in Names :
                 qBuf' = Append(qBuf, Msg(c, x)) /\ ~(c = DROP_QUERY /\ x \in Query)
    PROVE  \A q \in Query : Dropping(q)' <=> Dropping(q)
  <1>1. CASE qBuf' = qBuf
    BY <1>1 DEF Dropping, Queue
  <1>2. CASE qBuf' # qBuf
    <2>1. PICK c \in 0 .. 21 : \E x \in Names :
               qBuf' = Append(qBuf, Msg(c, x)) /\ ~(c = DROP_QUERY /\ x \in Query)
      BY <1>2
    <2>2. PICK x \in Names :
               qBuf' = Append(qBuf, Msg(c, x)) /\ ~(c = DROP_QUERY /\ x \in Query)
      BY <2>1
    <2> QED
      BY <2>2, DroppingPuts
  <1> QED
    BY <1>1, <1>2

LEMMA StmtKeeps ==
    ASSUME StmtInv, UNCHANGED <<known, active, freeStmts, batch, isActive>>,
           \A q \in Query : Dropping(q)' <=> Dropping(q),
           \A q \in Query : (Adds(q)' <=> Adds(q)) /\ (Switches(q)' <=> Switches(q))
    PROVE  StmtInv'
  BY DEF StmtInv

\* A message that ends nothing is read, and maybe the name of a buffer is put.
LEMMA AgreePass ==
    ASSUME TypeInv, TypeInv', AgreeInv, ipc \in Awaits,
           ioBuf # << >>, ioBuf' = Tail(ioBuf),
           UNCHANGED <<pend, spc, freeStmts, active, bufs, ipc, arg, batch, known,
                       streams>>,
           qBuf' = qBuf \/ \E x \in Names : qBuf' = Append(qBuf, Msg(ADDED_BUFFER, x)),
           \/ isActive' = isActive
           \/ ipc = "activate" /\ arg \in active /\ isActive' = isActive \cup {arg},
           connected \subseteq connected',
           ipc = "stream" =>
              /\ Head(ioBuf).code \notin Command
              /\ got' <=> got \/ Head(ioBuf).code = ADDED_STREAM_BUFFER
              /\ Head(ioBuf).code = CONNECT_IOMODULE /\ Head(ioBuf).arg = arg /\ arg \in bufs
                    => arg \in connected'
    PROVE  AgreeInv'
  <1>1. /\ Due = Due' \cup {Head(ioBuf)} /\ Coming' = Tail(Coming)
        /\ Coming # << >> /\ Coming \in Seq(Message)
    BY DueReads, QueueTypes
  <1>2. ~Sent
    BY NoneSent DEF AgreeInv
  <1>3. ADDED_BUFFER \in 0 .. 21 /\ ADDED_BUFFER # DROP_QUERY
        /\ \A x \in Names : ~IsCommand(Msg(ADDED_BUFFER, x))
    BY DEF ADDED_BUFFER, DROP_QUERY, IsCommand, Msg
  <1>4. QueueInv' /\ ~Sent'
    BY <1>2, <1>3, QueuePass DEF AgreeInv, QueueInv
  <1>5. \A q \in Query : Dropping(q)' <=> Dropping(q)
    BY <1>3, DroppingKeeps
  <1>7. StmtInv'
    <2>1. \A q \in Query : (Adds(q)' <=> Adds(q)) /\ (Switches(q)' <=> Switches(q))
      BY DEF Adds, Switches
    <2>2. \A q \in Query : ~Switches(q) => (q \in isActive <=> q \in isActive')
      BY DEF Switches
    <2> QED
      BY <1>5, <2>1, <2>2 DEF AgreeInv, StmtInv
  <1>8. AddingInv' /\ ActivatingInv' /\ DeactivatingInv'
    BY <1>1, <1>4 DEF AgreeInv, AddingInv, AddedInv, ActivatingInv, DeactivatingInv
  <1>9. BufsInv'
    BY <1>1, <1>2, <1>4 DEF AgreeInv, BufsInv
  <1>10. StreamInv'
    <2>1. SUFFICES ASSUME ipc = "stream" PROVE StreamInv'
      BY DEF StreamInv
    <2>2. Then(Command, {}, Coming')
      <3>1. PICK D : D = {}
        OBVIOUS
      <3>2. Then(Command, D, Coming)
        BY <2>1, <3>1 DEF AgreeInv, StreamInv
      <3>3. Then(Command, D, Tail(Coming))
        BY <1>1, <3>2, ThenTail
      <3> QED
        BY <1>1, <3>1, <3>3
    <2>3. arg \in bufs <=> got' \/ \E m \in Due' : m.code = ADDED_STREAM_BUFFER
      BY <1>1, <2>1 DEF AgreeInv, StreamInv
    <2>4. spc = "wait" \/ (\E m \in Due' : m.code = COMMAND_SUCCESSFUL) =>
            /\ arg \in bufs
            /\ arg \in connected' \/ \E m \in Due' : m.code = CONNECT_IOMODULE /\ m.arg = arg
      BY <1>1, <2>1 DEF AgreeInv, StreamInv
    <2>5. (\E m \in Due' : m.code \in Command) => spc = "main"
      BY <1>1, <2>1 DEF AgreeInv, StreamInv
    <2> QED
      BY <1>4, <2>1, <2>2, <2>3, <2>4, <2>5 DEF StreamInv
  <1> QED
    BY <1>4, <1>7, <1>8, <1>9, <1>10 DEF AgreeInv

\* Ios stops waiting: what it believes must be true now.
LEMMA AgreeEnds ==
    ASSUME TypeInv, QueueInv, ~Sent, spc' = spc, ipc' \notin Awaits,
           \/ qBuf' = qBuf
           \/ \E c \in 0 .. 21, x \in Names :
                 qBuf' = Append(qBuf, Msg(c, x)) /\ ~IsCommand(Msg(c, x)),
           StmtInv', BufsInv'
    PROVE  AgreeInv'
  <1>1. QueueInv'
    BY QueuePass
  <1>2. AddingInv' /\ ActivatingInv' /\ DeactivatingInv' /\ StreamInv'
    BY DEF AddingInv, ActivatingInv, DeactivatingInv, StreamInv, Awaits
  <1> QED
    BY <1>1, <1>2 DEF AgreeInv

LEMMA AgreeIdle ==
    ASSUME TypeInv, AgreeInv, NoRequest \/ ClearOne \/ ClearDone \/ PollStdout
    PROVE  AgreeInv'
  <1>1. /\ ipc \in {"ready", "clear", "poll"} /\ ipc' \in {"ready", "clear", "poll"}
        /\ UNCHANGED <<qBuf, spc, known, active, freeStmts, batch, isActive, streams, bufs>>
        /\ connected \subseteq connected'
    BY DEF NoRequest, ClearOne, ClearDone, PollStdout, Polled, iosVars, schVars
  <1>2. ipc \notin Awaits /\ ipc' \notin Awaits
    BY <1>1 DEF Awaits
  <1>3. ~Sent
    BY <1>2, NoneSent DEF AgreeInv
  <1>4. \A q \in Query : Dropping(q)' <=> Dropping(q)
    BY <1>1, DroppingKeeps
  <1>5. \A q \in Query : (Adds(q)' <=> Adds(q)) /\ (Switches(q)' <=> Switches(q))
    BY <1>1 DEF Adds, Switches
  <1>6. StmtInv'
    BY <1>1, <1>4, <1>5, StmtKeeps DEF AgreeInv
  <1>7. BufsInv'
    BY <1>1 DEF AgreeInv, BufsInv
  <1> QED
    BY <1>1, <1>2, <1>3, <1>6, <1>7, AgreeEnds DEF AgreeInv

LEMMA AgreeQueryLoop ==
    ASSUME BaseInv, TypeInv', AgreeInv, QueryLoop,
           UNCHANGED <<schVars, pend, bufs, smine, lost>>
    PROVE  AgreeInv'
  <1>1. PICK m \in ToSet(ioBuf) : QueryLoop!(m)
    BY DEF QueryLoop
  <1>2. /\ ipc = "query" /\ ioBuf # << >> /\ m = Head(ioBuf) /\ ioBuf' = Tail(ioBuf)
        /\ UNCHANGED <<arg, known, isActive, streams, pend, spc, freeStmts, active, bufs>>
    BY <1>1 DEF Sees, Reply, Forward, Other, iosVars, schVars
  <1>3. /\ TypeInv /\ FreshInv /\ m \in Due /\ Due = Due' \cup {m} /\ m.arg \in Names
        /\ arg \in Query /\ arg \in Names /\ isActive \subseteq known /\ batch \in Seq(Query)
    BY <1>2, DueReads, SeenType DEF BaseInv, TypeInv, TypeOK, ArgOK
  <1>4. ~Sent /\ spc = "main" /\ "query" \in Awaits
    BY <1>2, <1>3, NoneSent DEF AgreeInv, QueueInv, Awaits
  <1>5. /\ arg \notin known \cup ToSet(batch) \cup active /\ ~Dropping(arg)
        /\ m.code = COMPILE_SUCCESS => (arg \in freeStmts <=> arg \notin Unloadable)
        /\ m.code = COMPILE_FAILURE => arg \notin freeStmts
    BY <1>2, <1>3 DEF FreshInv, AgreeInv, AddingInv, AddedInv, StmtInv, Adds
  <1>6. \A q \in Query : /\ Adds(q) <=> q = arg
                         /\ ~Switches(q)
    BY <1>2 DEF Adds, Switches
  <1>7. CASE ipc' = "query"
    <2>1. /\ UNCHANGED <<ipc, batch>> /\ connected \subseteq connected'
          /\ qBuf' = qBuf \/ qBuf' = Append(qBuf, Msg(ADDED_BUFFER, m.arg))
      BY <1>1, <1>2, <1>7 DEF Forward, Other, Polled, iosVars
    <2> QED
      BY <1>2, <1>3, <1>4, <2>1, AgreePass
  <1>8. CASE ipc' # "query"
    <2>1. m.code \in {COMPILE_SUCCESS, COMPILE_FAILURE} /\ connected' = connected
      BY <1>1, <1>2, <1>8 DEF Forward, Other, iosVars
    <2>2. BufsInv'
      <3>1. ipc' \in {"more", "rollback"}
        BY <1>1, <1>2, <1>8 DEF Forward, Other, iosVars
      <3> QED
        BY <1>2, <2>1, <3>1 DEF AgreeInv, BufsInv
    <2>3. \A q \in Query : ~Adds(q)' /\ ~Switches(q)'
      BY <1>1, <1>2, <1>8 DEF Adds, Switches, Forward, Other, iosVars
    <2>4. CASE ipc' = "more"
      <3>1. batch' = Append(batch, arg) /\ qBuf' = qBuf /\ m.code = COMPILE_SUCCESS
        BY <1>1, <1>2, <2>4 DEF Forward, Other, iosVars, COMPILE_SUCCESS, COMPILE_FAILURE
      <3>2. ToSet(batch') = ToSet(batch) \cup {arg}
        BY <1>3, <3>1, ToSetAppend
      <3>3. \A q \in Query : Dropping(q)' <=> Dropping(q)
        BY <1>3, <3>1, DroppingKeeps
      <3>4. StmtInv'
        BY <1>2, <1>3, <1>5, <1>6, <2>3, <3>1, <3>2, <3>3 DEF AgreeInv, StmtInv
      <3>5. QueueInv'
        BY <1>2, <1>3, <1>4, <2>4, <3>1, QueuePass DEF AgreeInv, Awaits
      <3>6. AddingInv'
        BY <1>2, <1>5, <2>4, <3>2 DEF AgreeInv, AddingInv
      <3>7. ActivatingInv' /\ DeactivatingInv' /\ StreamInv'
        BY <2>4 DEF ActivatingInv, DeactivatingInv, StreamInv
      <3> QED
        BY <2>2, <3>4, <3>5, <3>6, <3>7 DEF AgreeInv
    <2>5. CASE ipc' = "rollback" /\ qBuf' = Append(qBuf, Msg(DROP_QUERY, arg))
      <3>1. batch' = batch /\ DROP_QUERY \in 0 .. 21 /\ ~IsCommand(Msg(DROP_QUERY, arg))
            /\ ipc' \notin Awaits
        BY <1>1, <1>2, <2>5 DEF Forward, Other, iosVars, DROP_QUERY, IsCommand, Msg, Awaits
      <3>2. \A q \in Query : Dropping(q)' <=> Dropping(q) \/ q = arg
        BY <1>3, <2>5, <3>1, DroppingPuts
      <3>3. StmtInv'
        BY <1>2, <1>3, <1>5, <1>6, <2>3, <3>1, <3>2 DEF AgreeInv, StmtInv
      <3> QED
        BY <1>2, <1>3, <1>4, <2>2, <2>5, <3>1, <3>3, AgreeEnds DEF AgreeInv
    <2>6. CASE ipc' = "rollback" /\ qBuf' = qBuf
      <3>1. batch' = batch /\ ipc' \notin Awaits /\ m.code = COMPILE_FAILURE
        <4>1. CASE m.code = COMPILE_SUCCESS
          <5>1. QueryLoop!(m)!1
            BY <1>1, <2>6, <4>1, <1>2 DEF Forward, Other, iosVars, COMPILE_SUCCESS,
               COMPILE_FAILURE
          <5>2. qBuf' # qBuf
            <6>1. qBuf' = Append(qBuf, Msg(DROP_QUERY, arg)) /\ qBuf \in Seq(Message)
                  /\ Msg(DROP_QUERY, arg) \in Message
              BY <1>3, <2>6, <5>1, MsgType DEF TypeInv, TypeOK, DROP_QUERY
            <6> QED
              BY <6>1
          <5> QED
            BY <2>6, <5>2
        <4> QED
          BY <1>1, <1>2, <2>1, <2>6, <4>1 DEF Forward, Other, iosVars, Awaits
      <3>2. \A q \in Query : Dropping(q)' <=> Dropping(q)
        BY <1>3, <2>6, DroppingKeeps
      <3>3. StmtInv'
        BY <1>2, <1>3, <1>5, <1>6, <2>3, <3>1, <3>2 DEF AgreeInv, StmtInv
      <3> QED
        BY <1>2, <1>3, <1>4, <2>2, <2>6, <3>1, <3>3, AgreeEnds DEF AgreeInv
    <2> QED
      BY <1>1, <1>2, <1>8, <2>4, <2>5, <2>6 DEF Forward, Other, iosVars
  <1> QED
    BY <1>7, <1>8

LEMMA AgreeBatch ==
    ASSUME BaseInv, AgreeInv, QueriesAdded \/ QueriesDropped,
           UNCHANGED <<schVars, pend, bufs, smine, lost>>
    PROVE  AgreeInv'
  <1>1. /\ UNCHANGED <<arg, isActive, streams, connected, spc, freeStmts, active, bufs>>
        /\ ipc \in {"more", "rollback"} /\ ipc' \in {"clear", "rollback"}
    BY DEF QueriesAdded, QueriesDropped, schVars
  <1>2. TypeInv /\ FreshInv /\ batch \in Seq(Query) /\ isActive \subseteq known
    BY DEF BaseInv, TypeInv, TypeOK
  <1>3. ~Sent /\ ipc' \notin Awaits
    BY <1>1, <1>2, NoneSent DEF AgreeInv, Awaits
  <1>4. \A q \in Query : ~Adds(q) /\ ~Adds(q)' /\ ~Switches(q) /\ ~Switches(q)'
    BY <1>1 DEF Adds, Switches
  <1>5. BufsInv'
    BY <1>1 DEF AgreeInv, BufsInv
  <1>6. CASE QueriesAdded
    <2>1. known' = known \cup ToSet(batch) /\ batch' = << >> /\ qBuf' = qBuf /\ ipc = "more"
      BY <1>6 DEF QueriesAdded
    <2>2. ToSet(batch') = {} /\ ToSet(batch) \cap active = {} /\ ToSet(batch) \cap known = {}
      BY <1>2, <2>1 DEF AgreeInv, AddingInv, FreshInv, ToSet
    <2>3. \A q \in Query : Dropping(q)' <=> Dropping(q)
      BY <1>2, <2>1, DroppingKeeps
    <2>4. StmtInv'
      BY <1>1, <1>2, <1>4, <2>1, <2>2, <2>3 DEF AgreeInv, StmtInv
    <2> QED
      BY <1>1, <1>2, <1>3, <1>5, <2>1, <2>4, AgreeEnds DEF AgreeInv
  <1>7. CASE QueriesDropped /\ batch = << >>
    <2>1. UNCHANGED <<known, batch, qBuf>>
      BY <1>7 DEF QueriesDropped
    <2>2. \A q \in Query : Dropping(q)' <=> Dropping(q)
      BY <1>2, <2>1, DroppingKeeps
    <2>3. StmtInv'
      BY <1>1, <1>4, <2>1, <2>2, StmtKeeps DEF AgreeInv
    <2> QED
      BY <1>1, <1>2, <1>3, <1>5, <2>1, <2>3, AgreeEnds DEF AgreeInv
  <1>8. CASE QueriesDropped /\ batch # << >>
    <2> DEFINE h == Head(batch)
    <2>1. /\ known' = known /\ qBuf' = Append(qBuf, Msg(DROP_QUERY, h))
          /\ batch' = Tail(batch)
      BY <1>8 DEF QueriesDropped
    <2>2. /\ h \in Query /\ h \in Names /\ h \notin known /\ h \notin ToSet(batch')
          /\ ToSet(batch) = ToSet(batch') \cup {h}
      BY <1>2, <1>8, <2>1, TailAt, ToSetTail, OnceTail DEF FreshInv, IsInjective, Names
    <2>3. DROP_QUERY \in 0 .. 21 /\ ~IsCommand(Msg(DROP_QUERY, h))
      BY DEF DROP_QUERY, IsCommand, Msg
    <2> HIDE DEF h
    <2>4. \A q \in Query : Dropping(q)' <=> Dropping(q) \/ q = h
      BY <1>2, <2>1, <2>2, <2>3, DroppingPuts
    <2>5. StmtInv'
      BY <1>1, <1>2, <1>4, <2>1, <2>2, <2>4 DEF AgreeInv, StmtInv
    <2> QED
      BY <1>1, <1>2, <1>3, <1>5, <2>1, <2>2, <2>3, <2>5, AgreeEnds DEF AgreeInv
  <1> QED
    BY <1>6, <1>7, <1>8

LEMMA AgreeSwitchLoop ==
    ASSUME BaseInv, TypeInv', AgreeInv, ActivateLoop \/ DeactivateLoop,
           UNCHANGED <<schVars, pend, bufs, smine, lost>>
    PROVE  AgreeInv'
  <1>1. PICK m \in ToSet(ioBuf) : ActivateLoop!(m) \/ DeactivateLoop!(m)
    BY DEF ActivateLoop, DeactivateLoop
  <1>2. /\ ipc \in {"activate", "deactivate"} /\ ioBuf # << >> /\ m = Head(ioBuf)
        /\ ioBuf' = Tail(ioBuf) /\ connected \subseteq connected'
        /\ UNCHANGED <<qBuf, arg, batch, known, streams, pend, spc, freeStmts, active, bufs>>
    BY <1>1 DEF Sees, Reply, Other, Polled, iosVars, schVars
  <1>3. /\ TypeInv /\ FreshInv /\ m \in Due /\ Due = Due' \cup {m}
        /\ ipc = "activate" => arg \in known
    BY <1>2, DueReads DEF BaseInv, TypeInv, ArgOK
  <1>4. ~Sent /\ spc = "main" /\ ipc \in Awaits /\ \A q : ~Dropping(q)
    <2>1. ~Sent /\ spc = "main" /\ ipc \in Awaits
      BY <1>2, <1>3, NoneSent DEF AgreeInv, QueueInv, Awaits
    <2>2. DROP_QUERY # ADDED_BUFFER
      BY DEF DROP_QUERY, ADDED_BUFFER
    <2> QED
      BY <2>1, <2>2 DEF AgreeInv, QueueInv, Sent, Dropping
  <1>5. batch = << >> /\ ToSet(batch) = {}
    <2>1. batch = << >>
      BY <1>2, <1>3 DEF FreshInv
    <2> QED
      BY <2>1 DEF ToSet
  <1>6. CASE ipc' = ipc
    <2>1. isActive' = isActive \/ (ipc = "activate" /\ arg \in active
                                   /\ isActive' = isActive \cup {arg})
      <3>1. \/ isActive' = isActive
            \/ ipc = "activate" /\ m.code = ACTIVATED_QUERY
               /\ isActive' = isActive \cup ({m.arg} \cap known)
        BY <1>1, <1>2, <1>6 DEF Other, iosVars, Sees
      <3> QED
        BY <1>3, <3>1 DEF AgreeInv, ActivatingInv
    <2> QED
      BY <1>2, <1>3, <1>4, <1>6, <2>1, AgreePass
  <1>7. CASE ipc' # ipc
    <2>1. /\ ipc' = "clear" /\ m.code \in {COMMAND_FAILED, COMMAND_SUCCESSFUL}
          /\ connected' = connected
          /\ isActive' = IF m.code # COMMAND_SUCCESSFUL THEN isActive
                         ELSE IF ipc = "activate" THEN isActive \cup {arg}
                         ELSE isActive \ {arg}
      BY <1>1, <1>2, <1>7 DEF Other, Sees, iosVars
    <2>2. arg \in active <=> arg \in isActive'
      <3>1. COMMAND_FAILED # COMMAND_SUCCESSFUL
        BY DEF COMMAND_FAILED, COMMAND_SUCCESSFUL
      <3> QED
        BY <1>2, <1>3, <2>1, <3>1 DEF AgreeInv, ActivatingInv, DeactivatingInv
    <2>3. \A q \in Query : /\ ~Adds(q) /\ ~Adds(q)' /\ ~Switches(q)'
                           /\ Switches(q) <=> q = arg
                           /\ Dropping(q)' <=> Dropping(q)
      BY <1>2, <1>3, <2>1, DroppingKeeps DEF Adds, Switches
    <2>4. \A q \in Query : q # arg => (q \in isActive' <=> q \in isActive)
      BY <2>1
    <2>5. StmtInv'
      BY <1>2, <1>4, <1>5, <2>2, <2>3, <2>4 DEF AgreeInv, StmtInv
    <2>6. BufsInv' /\ ipc' \notin Awaits
      BY <1>2, <2>1 DEF AgreeInv, BufsInv, Awaits
    <2> QED
      BY <1>2, <1>3, <1>4, <2>5, <2>6, AgreeEnds DEF AgreeInv
  <1> QED
    BY <1>6, <1>7

LEMMA AgreeTableLoop ==
    ASSUME BaseInv, TypeInv', AgreeInv, TableLoop,
           UNCHANGED <<schVars, pend, bufs, smine, lost>>
    PROVE  AgreeInv'
  <1>1. PICK m \in ToSet(ioBuf) : TableLoop!(m)
    BY DEF TableLoop
  <1>2. /\ ipc = "table" /\ ioBuf # << >> /\ m = Head(ioBuf) /\ ioBuf' = Tail(ioBuf)
        /\ connected \subseteq connected'
        /\ UNCHANGED <<arg, batch, known, isActive, streams, pend, spc, freeStmts, active,
                       bufs>>
    BY <1>1 DEF Sees, Reply, Forward, Other, Polled, iosVars, schVars
  <1>3. TypeInv /\ m.arg \in Names /\ ipc \in Awaits /\ ~Sent
    BY <1>2, SeenType, NoneSent DEF BaseInv, AgreeInv, Awaits
  <1>4. CASE ipc' = ipc
    <2>1. qBuf' = qBuf \/ qBuf' = Append(qBuf, Msg(ADDED_BUFFER, m.arg))
      BY <1>1, <1>2, <1>4 DEF Forward, Other, iosVars
    <2> QED
      BY <1>2, <1>3, <1>4, <2>1, AgreePass
  <1>5. CASE ipc' # ipc
    <2>1. /\ ipc' = "clear" /\ m.code \in {COMPILE_FAILURE, COMPILE_SUCCESS}
          /\ qBuf' = qBuf \/ qBuf' = Append(qBuf, Msg(m.code, None))
      BY <1>1, <1>2, <1>5 DEF Forward, Other, iosVars
    <2>2. /\ m.code \in 0 .. 21 /\ None \in Names /\ None \notin Query
          /\ ~IsCommand(Msg(m.code, None))
      BY <2>1, CommandAssumption DEF COMPILE_FAILURE, COMPILE_SUCCESS, Names, IsCommand,
         Msg, DROP_QUERY, DEACTIVATE_QUERY
    <2>3. \A q \in Query : Dropping(q)' <=> Dropping(q)
      BY <1>3, <2>1, <2>2, DroppingKeeps
    <2>4. StmtInv'
      BY <1>2, <2>1, <2>3, StmtKeeps DEF AgreeInv, Adds, Switches
    <2>5. BufsInv' /\ ipc' \notin Awaits
      BY <1>2, <2>1 DEF AgreeInv, BufsInv, Awaits
    <2> QED
      BY <1>2, <1>3, <2>1, <2>2, <2>4, <2>5, AgreeEnds DEF AgreeInv
  <1> QED
    BY <1>4, <1>5

LEMMA LastAppend ==
    ASSUME TypeInv, ~Sent, NEW m \in Message, qBuf' = Append(qBuf, m) PROVE OneLast(qBuf')
  <1>1. qBuf \in Seq(Message) /\ \A i \in DOMAIN qBuf : ~IsCommand(qBuf[i])
    BY DEF TypeInv, TypeOK, Sent, Queue, ToSet
  <1> DEFINE t == Append(qBuf, m)
  <1>2. /\ t \in Seq(Message) /\ DOMAIN t = 1 .. Len(qBuf) + 1 /\ DOMAIN qBuf = 1 .. Len(qBuf)
        /\ Len(t) = Len(qBuf) + 1 /\ Len(qBuf) \in Nat
        /\ \A i \in 1 .. Len(qBuf) : t[i] = qBuf[i]
    BY <1>1, AppendAt
  <1> HIDE DEF t
  <1>3. \A i \in DOMAIN t : i = Len(t) \/ (i \in DOMAIN qBuf /\ t[i] = qBuf[i])
    BY <1>2
  <1>4. OneLast(t)
    BY <1>1, <1>3 DEF OneLast
  <1> QED
    BY <1>4 DEF t

LEMMA AgreeStreamLoop ==
    ASSUME BaseInv, TypeInv', AgreeInv, StreamLoop,
           UNCHANGED <<schVars, pend, bufs, smine, lost>>
    PROVE  AgreeInv'
  <1>1. PICK m \in ToSet(ioBuf) : StreamLoop!(m)
    BY DEF StreamLoop
  <1>2. /\ ipc = "stream" /\ ioBuf # << >> /\ m = Head(ioBuf) /\ ioBuf' = Tail(ioBuf)
        /\ UNCHANGED <<arg, batch, known, isActive, pend, spc, freeStmts, active, bufs>>
    BY <1>1 DEF Sees, Reply, Forward, Other, iosVars, schVars
  <1>3. /\ TypeInv /\ m.arg \in Names /\ ipc \in Awaits /\ ~Sent
        /\ m \in Due /\ Due = Due' \cup {m} /\ arg \in Stream /\ arg \in Names
        /\ Coming # << >> /\ Coming \in Seq(Message) /\ Coming' = Tail(Coming)
        /\ Head(Coming) = m /\ connected \subseteq bufs /\ None \in Names
        /\ streams \in Seq(Stream)
    BY <1>2, SeenType, NoneSent, DueReads, QueueTypes
    DEF BaseInv, AgreeInv, Awaits, TypeInv, TypeOK, ArgOK, Names
  <1>4. \A q \in Query : /\ ~Adds(q) /\ ~Switches(q)
    BY <1>2 DEF Adds, Switches
  <1>5. CASE ipc' = ipc
    <2>1. /\ m.code \notin Command /\ streams' = streams /\ connected \subseteq connected'
          /\ qBuf' = qBuf \/ qBuf' = Append(qBuf, Msg(ADDED_BUFFER, m.arg))
          /\ m.code = CONNECT_IOMODULE /\ m.arg \in bufs => m.arg \in connected'
      <3>1. ADDED_STREAM_BUFFER \notin {COMMAND_FAILED, COMMAND_SUCCESSFUL, CONNECT_IOMODULE}
        BY DEF ADDED_STREAM_BUFFER, COMMAND_FAILED, COMMAND_SUCCESSFUL, CONNECT_IOMODULE
      <3> QED
        BY <1>1, <1>2, <1>5, <3>1 DEF Forward, Other, Polled, iosVars, Command
    <2>2. got' <=> got \/ m.code = ADDED_STREAM_BUFFER
      <3>1. CASE m.code = ADDED_STREAM_BUFFER
        <4>1. got' = TRUE
          BY <1>1, <1>2, <1>5, <3>1 DEF Forward, Other, iosVars
        <4> QED
          BY <3>1, <4>1
      <3>2. CASE m.code # ADDED_STREAM_BUFFER
        <4>1. got' = got
          BY <1>1, <1>2, <1>5, <3>2 DEF Forward, Other, iosVars
        <4> QED
          BY <3>2, <4>1
      <3> QED
        BY <3>1, <3>2
    <2> QED
      BY <1>2, <1>3, <1>5, <2>1, <2>2, AgreePass
  <1>6. CASE ipc' # ipc
    <2>1. /\ ipc' \in {"clear", "undo"} /\ m.code \in Command /\ connected' = connected
          /\ m.code = COMMAND_SUCCESSFUL =>
                /\ ipc' = "clear" /\ streams' = Append(streams, arg)
                /\ qBuf' = qBuf \/ qBuf' = Append(qBuf, Msg(COMPILE_SUCCESS, None))
          /\ m.code # COMMAND_SUCCESSFUL =>
                /\ streams' = streams
                /\ IF got THEN ipc' = "undo" /\ qBuf' = Append(qBuf, Msg(DROP_DECLARE, arg))
                   ELSE ipc' = "clear" /\ qBuf' = Append(qBuf, Msg(COMPILE_FAILURE, None))
      <3>1. COMMAND_FAILED # COMMAND_SUCCESSFUL
        BY DEF COMMAND_FAILED, COMMAND_SUCCESSFUL
      <3> QED
        BY <1>1, <1>2, <1>6, <3>1 DEF Forward, Other, iosVars, Command
    <2>2. Due' = {} /\ spc = "main" /\ Due = {m}
      <3>1. PICK D : D = {}
        OBVIOUS
      <3>2. Then(Command, D, Coming)
        BY <1>2, <3>1 DEF AgreeInv, StreamInv
      <3>3. Coming' = << >>
        BY <1>3, <2>1, <3>1, <3>2, LastTail
      <3>4. Due' = {}
        BY <3>3 DEF Due, ToSet
      <3>5. spc = "main"
        BY <1>2, <1>3, <2>1 DEF AgreeInv, StreamInv
      <3> QED
        BY <1>3, <3>4, <3>5
    <2>3. /\ DROP_DECLARE \in 0 .. 21 /\ COMPILE_FAILURE \in 0 .. 21 /\ COMPILE_SUCCESS \in 0 .. 21
          /\ None \notin Query /\ DROP_DECLARE # DROP_QUERY
          /\ ~IsCommand(Msg(COMPILE_SUCCESS, None)) /\ ~IsCommand(Msg(COMPILE_FAILURE, None))
      BY CommandAssumption DEF COMPILE_FAILURE, COMPILE_SUCCESS, DROP_DECLARE, IsCommand,
         Msg, DROP_QUERY, DEACTIVATE_QUERY
    <2>4. \A q \in Query : /\ ~Adds(q)' /\ ~Switches(q)' /\ (Dropping(q)' <=> Dropping(q))
      <3>1. \A q \in Query : Dropping(q)' <=> Dropping(q)
        BY <1>3, <2>1, <2>3, DroppingKeeps
      <3> QED
        BY <2>1, <3>1 DEF Adds, Switches
    <2>5. StmtInv'
      BY <1>2, <1>4, <2>4, StmtKeeps DEF AgreeInv
    <2>6. ADDED_STREAM_BUFFER \notin Command /\ CONNECT_IOMODULE \notin Command
      BY DEF ADDED_STREAM_BUFFER, Command, COMMAND_FAILED, COMMAND_SUCCESSFUL, CONNECT_IOMODULE
    <2>7. arg \in bufs <=> got
      BY <1>2, <2>1, <2>2, <2>6 DEF AgreeInv, StreamInv
    <2>8. CASE m.code = COMMAND_SUCCESSFUL
      <3>1. arg \in connected /\ arg \in bufs
        BY <1>2, <2>1, <2>2, <2>6, <2>8 DEF AgreeInv, StreamInv
      <3>2. ToSet(streams') = ToSet(streams) \cup {arg}
        <4>1. streams' = Append(streams, arg) /\ streams \in Seq(Stream) /\ arg \in Stream
          BY <1>3, <2>1, <2>8
        <4>2. ToSet(Append(streams, arg)) = ToSet(streams) \cup {arg}
          BY ONLY <4>1, ToSetAppend
        <4> QED
          BY <4>1, <4>2
      <3>3. arg \notin ToSet(streams) /\ IsInjective(streams)
        BY <1>2 DEF AgreeInv, BufsInv
      <3>4. IsInjective(streams')
        BY <1>3, <2>1, <2>8, <3>3, OnceAppend DEF IsInjective
      <3>5. BufsInv' /\ ipc' \notin Awaits
        BY <1>2, <1>3, <2>1, <2>8, <3>1, <3>2, <3>4 DEF AgreeInv, BufsInv, Awaits
      <3> QED
        BY <1>2, <1>3, <2>1, <2>3, <2>5, <2>8, <3>5, AgreeEnds DEF AgreeInv
    <2>9. CASE m.code # COMMAND_SUCCESSFUL /\ ~got
      <3>1. /\ ipc' = "clear" /\ qBuf' = Append(qBuf, Msg(COMPILE_FAILURE, None))
            /\ streams' = streams
        BY <2>1, <2>9
      <3>2. BufsInv' /\ ipc' \notin Awaits
        BY <1>2, <1>3, <2>1, <2>7, <2>9, <3>1 DEF AgreeInv, BufsInv, Awaits
      <3> QED
        BY <1>2, <1>3, <2>3, <2>5, <3>1, <3>2, AgreeEnds DEF AgreeInv
    <2>10. CASE m.code # COMMAND_SUCCESSFUL /\ got
      <3> DEFINE d == Msg(DROP_DECLARE, arg)
      <3>1. ipc' = "undo" /\ qBuf' = Append(qBuf, d) /\ streams' = streams
        BY <2>1, <2>10
      <3>2. /\ Queue' = Queue \cup {d} /\ d.code = DROP_DECLARE /\ d.arg = arg /\ d \in Message
        BY <1>3, <2>3, <3>1, QueueAppends, MsgType
      <3>3. IsCommand(d) /\ <<"undo", DROP_DECLARE>> \in Requests
        BY <3>2 DEF IsCommand, DROP_DECLARE, DROP_QUERY, ADDED_BUFFER, DEACTIVATE_QUERY, Requests
      <3> HIDE DEF d
      <3>4. Sent'
        BY <3>2, <3>3 DEF Sent
      <3>5. OneLast(qBuf')
        BY <1>3, <3>1, <3>2, LastAppend
      <3>6. \A n \in Queue : ~IsCommand(n) /\ n.code = ADDED_BUFFER
        BY <1>2, <1>3 DEF Sent, AgreeInv, QueueInv
      <3>7. QueueInv'
        BY <1>2, <2>2, <3>1, <3>2, <3>3, <3>5, <3>6 DEF QueueInv
      <3>8. BufsInv'
        BY <1>2, <2>1, <3>1, <3>4 DEF AgreeInv, BufsInv
      <3>9. AddingInv' /\ ActivatingInv' /\ DeactivatingInv' /\ StreamInv'
        BY <3>1 DEF AddingInv, ActivatingInv, DeactivatingInv, StreamInv
      <3> QED
        BY <2>5, <3>7, <3>8, <3>9 DEF AgreeInv
    <2> QED
      BY <2>8, <2>9, <2>10
  <1> QED
    BY <1>5, <1>6

\* The last conversations: a stream is dropped, the components are listed.
LEMMA AgreeGlances ==
    ASSUME BaseInv, AgreeInv, StreamUndo \/ DeleteReply \/ ComponentsReply,
           UNCHANGED <<schVars, pend, bufs, smine, lost>>
    PROVE  AgreeInv'
  <1>1. /\ ipc \in {"undo", "undeclare", "components"} /\ ipc' = "clear" /\ ioBuf # << >>
        /\ UNCHANGED <<qBuf, arg, batch, known, isActive, connected, spc, freeStmts, active,
                       bufs>>
    BY DEF StreamUndo, DeleteReply, ComponentsReply, Glance, Sees, schVars
  <1>2. /\ TypeInv /\ ~Sent /\ ipc' \notin Awaits /\ connected \subseteq bufs
        /\ streams \in Seq(Stream)
    BY <1>1, NoneSent DEF BaseInv, AgreeInv, Awaits, TypeInv, TypeOK
  <1>3. \A q \in Query : Dropping(q)' <=> Dropping(q)
    BY <1>1, <1>2, DroppingKeeps
  <1>4. StmtInv'
    BY <1>1, <1>3, StmtKeeps DEF AgreeInv, Adds, Switches
  <1>5. CASE StreamUndo \/ ComponentsReply
    <2>1. ipc \in {"undo", "components"} /\ streams' = streams
      BY <1>5 DEF StreamUndo, ComponentsReply, Glance, Sees
    <2>2. BufsInv'
      BY <1>1, <1>2, <2>1 DEF AgreeInv, BufsInv
    <2> QED
      BY <1>1, <1>2, <1>4, <2>2, AgreeEnds DEF AgreeInv
  <1>6. CASE DeleteReply
    <2>1. /\ ipc = "undeclare"
          /\ streams' = IF Head(ioBuf).code = FAILURE THEN streams ELSE RemoveFirst(streams, arg)
      BY <1>6 DEF DeleteReply, Glance, Sees
    <2>2. Head(ioBuf) \in Due
      <3>1. ioBuf \in Seq(Message)
        BY <1>2 DEF TypeInv, TypeOK
      <3>2. Head(ioBuf) \in ToSet(ioBuf)
        BY <1>1, <3>1, ToSetTail
      <3> QED
        BY <1>2, <3>2, QueueTypes
    <2>3. IsInjective(streams) /\ arg \in ToSet(streams)
      BY <2>1 DEF AgreeInv, BufsInv
    <2>4. IsInjective(RemoveFirst(streams, arg))
          /\ ToSet(RemoveFirst(streams, arg)) = ToSet(streams) \ {arg}
      BY <1>2, <2>3, RemoveFirstSeq DEF IsInjective
    <2>5. BufsInv'
      BY <1>1, <1>2, <2>1, <2>2, <2>3, <2>4 DEF AgreeInv, BufsInv
    <2> QED
      BY <1>1, <1>2, <1>4, <2>5, AgreeEnds DEF AgreeInv
  <1> QED
    BY <1>5, <1>6

LEMMA AgreeIos ==
    ASSUME BaseInv, AgreeInv, Ios PROVE AgreeInv'
  <1>1. CASE NoRequest \/ ClearOne \/ ClearDone \/ PollStdout
    BY <1>1, AgreeIdle DEF BaseInv
  <1>2. CASE IosReads
    <2>1. TypeInv'
      BY <1>2, TypeReads DEF BaseInv
    <2> QED
      BY <1>2, <2>1, AgreeQueryLoop, AgreeBatch, AgreeSwitchLoop, AgreeTableLoop,
         AgreeStreamLoop, AgreeGlances DEF IosReads
  <1> QED
    BY <1>1, <1>2 DEF Ios

-----------------------------------------------------------------------------
(* Requests                                                                 *)

LEMMA RequestCodes ==
    ASSUME NEW k, NEW c, <<k, c>> \in Requests
    PROVE  c \in 0 .. 21 /\ c \notin {DROP_QUERY, ADDED_BUFFER} /\ k \in Awaits
  BY DEF Requests, Awaits, ADD_QUERY, ACTIVATE_QUERY, DEACTIVATE_QUERY, ADD_DECLARE,
     DROP_DECLARE, GET_COMPONENTS, DROP_QUERY, ADDED_BUFFER

\* A conversation starts: its command is the only one.
LEMMA QueueStarts ==
    ASSUME TypeInv, Coming = << >>, spc = "main", spc' = spc,
           \A m \in Queue : m.code = ADDED_BUFFER,
           NEW k, NEW c, NEW x \in Names, <<k, c>> \in Requests,
           c = DEACTIVATE_QUERY => x # None,
           Sends(k, x, c)
    PROVE  /\ QueueInv' /\ Due' = {} /\ Coming' = << >>
           /\ \A q : ~Dropping(q) /\ ~Dropping(q)'
  <1> DEFINE s == Stale(qBuf)
             m == Msg(c, x)
  <1>1. /\ ipc' = k /\ arg' = x /\ qBuf' = Append(s, m)
        /\ ioBuf' = Stale(ioBuf) /\ pend' = Stale(pend)
    BY DEF Sends
  <1>2. c \in 0 .. 21 /\ c \notin {DROP_QUERY, ADDED_BUFFER} /\ k \in Awaits
    BY RequestCodes
  <1>3. m \in Message /\ m.code = c /\ m.arg = x
    BY <1>2, MsgType
  <1>4. qBuf \in Seq(Message)
    BY DEF TypeInv, TypeOK
  <1>5. /\ s \in Seq(Message) /\ DOMAIN s = DOMAIN qBuf
        /\ \A i \in DOMAIN qBuf : s[i].code = qBuf[i].code
    BY <1>4, StaleSeq
  <1>6. \A i \in DOMAIN s : s[i].code = ADDED_BUFFER
    BY <1>5 DEF Queue, ToSet
  <1>7. \A n \in ToSet(s) : n.code = ADDED_BUFFER
    BY <1>6 DEF ToSet
  <1>8. Queue' = ToSet(s) \cup {m}
    <2>1. ToSet(Append(s, m)) = ToSet(s) \cup {m}
      BY ONLY <1>3, <1>5, ToSetAppend
    <2> QED
      BY <1>1, <2>1 DEF Queue
  <1>9. ~(c = DEACTIVATE_QUERY /\ x = None)
    OBVIOUS
  <1>10. IsCommand(m)
    BY <1>2, <1>3, <1>9 DEF IsCommand
  <1>11. Coming' = << >> /\ Due' = {}
    <2>1. ioBuf = << >> /\ pend = << >>
      BY ComingEmpty
    <2>2. ioBuf' = << >> /\ pend' = << >>
      BY <1>1, <2>1 DEF Stale
    <2> QED
      BY <2>2 DEF Coming, Due, ToSet
  <1>12. OneLast(qBuf')
    <2> DEFINE t == Append(s, m)
    <2> HIDE DEF s, m
    <2>1. /\ DOMAIN t = 1 .. Len(s) + 1 /\ DOMAIN s = 1 .. Len(s)
          /\ Len(t) = Len(s) + 1 /\ Len(s) \in Nat
          /\ \A i \in 1 .. Len(s) : t[i] = s[i]
      BY <1>3, <1>5, AppendAt
    <2> HIDE DEF t
    <2>2. \A i \in DOMAIN t : i = Len(t) \/ (i \in DOMAIN s /\ t[i] = s[i])
      BY <2>1
    <2>3. OneLast(t)
      BY <1>6, <2>2 DEF OneLast, IsCommand
    <2> QED
      BY <1>1, <2>3 DEF t
  <1> HIDE DEF s, m
  <1>13. QueueInv'
    <2>1. \A n \in Queue' : n = m \/ (n.code = ADDED_BUFFER /\ ~IsCommand(n))
      BY <1>7, <1>8 DEF IsCommand
    <2>2. \A n \in Queue' : IsCommand(n) =>
             <<ipc', n.code>> \in Requests /\ n.arg = arg' /\ Due' = {} /\ spc' = "main"
      BY <1>1, <1>3, <1>11, <2>1
    <2> QED
      BY <1>10, <1>12, <2>1, <2>2 DEF QueueInv
  <1>14. \A q : ~Dropping(q) /\ ~Dropping(q)'
    <2>1. DROP_QUERY # ADDED_BUFFER
      BY DEF DROP_QUERY, ADDED_BUFFER
    <2> QED
      BY <1>2, <1>3, <1>7, <1>8, <2>1 DEF Dropping
  <1> QED
    BY <1>11, <1>13, <1>14

LEMMA QuietFacts ==
    ASSUME TypeInv, FreshInv, Quiet, ipc \in {"ready", "clear"}
    PROVE  /\ Coming = << >> /\ spc = "main" /\ qBuf = << >> /\ Queue = {}
           /\ \A m \in Queue : m.code = ADDED_BUFFER
           /\ batch = << >> /\ ToSet(batch) = {}
           /\ \A q \in Query : ~Adds(q) /\ ~Switches(q)
  <1>1. Coming = << >> /\ spc = "main" /\ qBuf = << >> /\ batch = << >>
    BY ComingEmpty DEF Quiet, FreshInv
  <1>2. Queue = {} /\ ToSet(batch) = {}
    BY <1>1 DEF Queue, ToSet
  <1> QED
    BY <1>1, <1>2 DEF Adds, Switches

\* Activating and deactivating one query, for a client or for a module.
LEMMA AgreeSwitches ==
    ASSUME TypeInv, FreshInv, AgreeInv, Quiet, ipc \in {"ready", "clear"},
           NEW k \in {"activate", "deactivate"}, NEW q \in known,
           Sends(k, q, Code(k)), q \in isActive <=> k = "deactivate",
           UNCHANGED <<batch, known, streams, connected, spc, freeStmts, active, bufs>>,
           isActive' = isActive \/ (k = "deactivate" /\ isActive' = isActive \ {q})
    PROVE  AgreeInv'
  <1>1. /\ Coming = << >> /\ spc = "main" /\ \A m \in Queue : m.code = ADDED_BUFFER
        /\ ToSet(batch) = {} /\ \A p \in Query : ~Adds(p) /\ ~Switches(p)
    BY QuietFacts
  <1>2. q \in Query /\ q \in Names /\ q # None
    BY CommandAssumption DEF TypeInv, TypeOK, Names
  <1>3. <<k, Code(k)>> \in Requests
    BY DEF Code, Requests
  <1>4. QueueInv' /\ Due' = {} /\ \A p : ~Dropping(p) /\ ~Dropping(p)'
    <2>1. PICK c : c = Code(k)
      OBVIOUS
    <2>2. QueueInv' /\ Due' = {} /\ \A p : ~Dropping(p) /\ ~Dropping(p)'
      BY <1>1, <1>2, <1>3, <2>1, QueueStarts
    <2> QED
      BY <2>2
  <1>5. ipc' = k /\ arg' = q
    BY DEF Sends
  <1>6. \A p \in Query : ~Adds(p)' /\ (Switches(p)' <=> p = q)
    BY <1>5 DEF Adds, Switches
  <1>7. StmtInv'
    BY <1>1, <1>4, <1>6 DEF AgreeInv, StmtInv
  <1>8. q \in active <=> q \in isActive
    BY <1>1, <1>2, <1>4 DEF AgreeInv, StmtInv
  <1>9. AddingInv' /\ ActivatingInv' /\ DeactivatingInv' /\ StreamInv'
    BY <1>4, <1>5, <1>8 DEF AddingInv, ActivatingInv, DeactivatingInv, StreamInv
  <1>10. BufsInv'
    BY <1>5 DEF AgreeInv, BufsInv
  <1> QED
    BY <1>4, <1>7, <1>9, <1>10 DEF AgreeInv

LEMMA AgreeClient ==
    ASSUME Paced, Again = {}, BaseInv, AgreeInv, Client PROVE AgreeInv'
  <1>1. /\ TypeInv /\ FreshInv /\ isActive \subseteq known /\ known \subseteq Query
        /\ connected \subseteq bufs
    BY DEF BaseInv, TypeInv, TypeOK
  <1>2. ASSUME MayStart
        PROVE  /\ Quiet /\ ipc = "ready" /\ Coming = << >> /\ spc = "main" /\ qBuf = << >>
               /\ \A m \in Queue : m.code = ADDED_BUFFER
               /\ ToSet(batch) = {} /\ \A p \in Query : ~Adds(p) /\ ~Switches(p)
    BY <1>1, <1>2, QuietFacts DEF MayStart
  <1>3. Query \cup Stream \cup Table \cup {None} \subseteq Names
    BY DEF Names
  <1>4. ASSUME NEW q \in Query, AddQueries(q) PROVE AgreeInv'
    <2>1. /\ q \notin known \cup active \cup ToSet(batch) \cup freeStmts
          /\ Sends("query", q, ADD_QUERY)
          /\ UNCHANGED <<batch, known, isActive, streams, connected, spc, freeStmts, active,
                         bufs>>
      BY <1>4 DEF AddQueries, Fresh, Start, schVars
    <2>3. /\ ipc \in {"ready", "more"} /\ Coming = << >> /\ spc = "main"
          /\ \A m \in Queue : m.code = ADDED_BUFFER
      <3>1. CASE MayStart
        BY <1>2, <3>1
      <3>2. CASE ipc = "more"
        BY <3>2 DEF BaseInv, MineInv, BatchInv, Queue, ToSet
      <3> QED
        BY <1>4, <3>1, <3>2 DEF AddQueries
    <2>4. <<"query", ADD_QUERY>> \in Requests /\ ADD_QUERY # DEACTIVATE_QUERY /\ q \in Names
      BY <1>3 DEF Requests, ADD_QUERY, DEACTIVATE_QUERY
    <2>5. QueueInv' /\ Due' = {} /\ \A p : ~Dropping(p) /\ ~Dropping(p)'
      BY <1>1, <2>1, <2>3, <2>4, QueueStarts
    <2>6. ipc' = "query" /\ arg' = q
      BY <2>1 DEF Sends
    <2>7. \A p \in Query : ~Adds(p) /\ ~Switches(p) /\ ~Switches(p)' /\ (Adds(p)' <=> p = q)
      BY <2>3, <2>6 DEF Adds, Switches
    <2>8. StmtInv'
      BY <1>1, <2>1, <2>5, <2>7 DEF AgreeInv, StmtInv
    <2>9. ToSet(batch) \cap active = {}
      BY <1>2, <2>3, <1>4 DEF AddQueries, AgreeInv, AddingInv
    <2>10. AddingInv' /\ ActivatingInv' /\ DeactivatingInv' /\ StreamInv'
      BY <2>1, <2>5, <2>6, <2>9 DEF AddingInv, AddedInv, ActivatingInv, DeactivatingInv,
         StreamInv
    <2>11. BufsInv'
      BY <2>1, <2>3, <2>6 DEF AgreeInv, BufsInv
    <2> QED
      BY <2>5, <2>8, <2>10, <2>11 DEF AgreeInv
  <1>5. ASSUME NEW q \in Query, ActivateQuery(q) \/ DeactivateQuery(q) PROVE AgreeInv'
    <2>1. PICK k \in {"activate", "deactivate"} :
             /\ Sends(k, q, Code(k)) /\ q \in known /\ MayStart
             /\ q \in isActive <=> k = "deactivate"
             /\ UNCHANGED <<batch, known, isActive, streams, connected, spc, freeStmts,
                            active, bufs>>
      BY <1>5 DEF ActivateQuery, DeactivateQuery, Start, Code, schVars
    <2>2. Quiet /\ ipc \in {"ready", "clear"}
      BY <1>2, <2>1
    <2> QED
      BY <1>1, <2>1, <2>2, AgreeSwitches
  <1>6. ASSUME NEW q \in Query, DeleteQuery(q) PROVE AgreeInv'
    <2>1. /\ MayStart /\ q \in known /\ qBuf' = Append(Stale(qBuf), Msg(DROP_QUERY, q))
          /\ known' = known \ {q} /\ isActive' = isActive \ {q} /\ ipc' = "clear"
          /\ UNCHANGED <<batch, streams, connected, spc, freeStmts, active, bufs>>
      BY <1>6 DEF DeleteQuery, schVars
    <2>2. Stale(qBuf) = qBuf
      BY <1>2, <2>1 DEF Stale
    <2>3. /\ DROP_QUERY \in 0 .. 21 /\ ~IsCommand(Msg(DROP_QUERY, q)) /\ ipc' \notin Awaits
          /\ q \in Names
      BY <1>3, <2>1 DEF DROP_QUERY, IsCommand, Msg, Awaits
    <2>4. \A p \in Query : Dropping(p)' <=> Dropping(p) \/ p = q
      BY <1>1, <2>1, <2>2, <2>3, DroppingPuts
    <2>5. \A p \in Query : ~Adds(p) /\ ~Adds(p)' /\ ~Switches(p) /\ ~Switches(p)'
      BY <1>2, <2>1 DEF Adds, Switches
    <2>6. StmtInv'
      BY <1>2, <2>1, <2>4, <2>5 DEF AgreeInv, StmtInv
    <2>7. BufsInv' /\ ~Sent
      BY <1>1, <1>2, <2>1, NoneSent DEF AgreeInv, BufsInv, Awaits
    <2> QED
      BY <1>1, <2>1, <2>2, <2>3, <2>6, <2>7, AgreeEnds DEF AgreeInv
  <1>7. ASSUME NEW k \in {"table", "stream", "undeclare", "components"}, NEW c, NEW x \in Names,
               <<k, c>> \in Requests, c # DEACTIVATE_QUERY, Sends(k, x, c), MayStart,
               UNCHANGED <<batch, known, isActive, streams, connected, spc, freeStmts, active,
                           bufs>>
        PROVE  /\ QueueInv' /\ StmtInv' /\ AddingInv' /\ ActivatingInv' /\ DeactivatingInv'
               /\ Due' = {} /\ Coming' = << >> /\ ipc' = k /\ arg' = x /\ ~got'
               /\ ipc = "ready" /\ spc = "main"
    <2>1. QueueInv' /\ Due' = {} /\ Coming' = << >> /\ \A p : ~Dropping(p) /\ ~Dropping(p)'
      BY <1>1, <1>2, <1>7, QueueStarts
    <2>2. ipc' = k /\ arg' = x /\ ~got'
      BY <1>7 DEF Sends
    <2>3. \A p \in Query : (Adds(p)' <=> Adds(p)) /\ (Switches(p)' <=> Switches(p))
      BY <1>2, <1>7, <2>2 DEF Adds, Switches
    <2>4. StmtInv'
      BY <1>7, <2>1, <2>3, StmtKeeps DEF AgreeInv
    <2>5. AddingInv' /\ ActivatingInv' /\ DeactivatingInv'
      BY <2>2 DEF AddingInv, ActivatingInv, DeactivatingInv
    <2> QED
      BY <1>2, <1>7, <2>1, <2>2, <2>4, <2>5
  <1>8. /\ <<"table", ADD_DECLARE>> \in Requests /\ <<"stream", ADD_DECLARE>> \in Requests
        /\ <<"undeclare", DROP_DECLARE>> \in Requests
        /\ <<"components", GET_COMPONENTS>> \in Requests
        /\ DEACTIVATE_QUERY \notin {ADD_DECLARE, DROP_DECLARE, GET_COMPONENTS}
    BY DEF Requests, DEACTIVATE_QUERY, ADD_DECLARE, DROP_DECLARE, GET_COMPONENTS
  <1>9. ASSUME NEW t \in Table, AddTable(t) PROVE AgreeInv'
    <2>1. /\ Sends("table", t, ADD_DECLARE) /\ MayStart
          /\ UNCHANGED <<batch, known, isActive, streams, connected, spc, freeStmts, active, bufs>>
      BY <1>9 DEF AddTable, Start, schVars
    <2>2. /\ QueueInv' /\ StmtInv' /\ AddingInv' /\ ActivatingInv' /\ DeactivatingInv'
          /\ ipc' = "table" /\ ipc = "ready"
      BY <1>3, <1>7, <1>8, <2>1
    <2> QED
      BY <2>1, <2>2 DEF AgreeInv, BufsInv, StreamInv
  <1>10. ASSUME ViewComponents PROVE AgreeInv'
    <2>1. /\ Sends("components", None, GET_COMPONENTS) /\ MayStart
          /\ UNCHANGED <<batch, known, isActive, streams, connected, spc, freeStmts, active, bufs>>
      BY <1>10 DEF ViewComponents, Start, schVars
    <2>2. /\ QueueInv' /\ StmtInv' /\ AddingInv' /\ ActivatingInv' /\ DeactivatingInv'
          /\ ipc' = "components" /\ ipc = "ready"
      BY <1>3, <1>7, <1>8, <2>1
    <2> QED
      BY <2>1, <2>2 DEF AgreeInv, BufsInv, StreamInv
  <1>11. ASSUME NEW s \in Stream, AddStream(s) PROVE AgreeInv'
    <2>1. /\ Sends("stream", s, ADD_DECLARE) /\ MayStart /\ s \notin ToSet(streams)
          /\ UNCHANGED <<batch, known, isActive, streams, connected, spc, freeStmts, active, bufs>>
      BY <1>11 DEF AddStream, Start, schVars
    <2>2. /\ QueueInv' /\ StmtInv' /\ AddingInv' /\ ActivatingInv' /\ DeactivatingInv'
          /\ Due' = {} /\ Coming' = << >> /\ ipc' = "stream" /\ arg' = s /\ ~got'
          /\ ipc = "ready" /\ spc = "main"
      BY <1>3, <1>7, <1>8, <2>1
    <2>3. bufs = ToSet(streams) /\ \A q \in active : Reads[q] \in bufs
      BY <2>2 DEF AgreeInv, BufsInv, BaseInv, InputsInv, LiveInputs
    <2>4. BufsInv'
      BY <2>1, <2>2, <2>3 DEF AgreeInv, BufsInv
    <2>5. Then(Command, {}, Coming')
      BY <2>2 DEF Then
    <2>6. StreamInv'
      BY <2>1, <2>2, <2>3, <2>5 DEF StreamInv
    <2> QED
      BY <2>2, <2>4, <2>6 DEF AgreeInv
  <1>12. ASSUME NEW s \in Stream, DeleteStream(s) PROVE AgreeInv'
    <2>1. /\ Sends("undeclare", s, DROP_DECLARE) /\ MayStart /\ s \in ToSet(streams)
          /\ UNCHANGED <<batch, known, isActive, streams, connected, spc, freeStmts, active, bufs>>
      BY <1>12 DEF DeleteStream, Start, schVars
    <2>2. /\ QueueInv' /\ StmtInv' /\ AddingInv' /\ ActivatingInv' /\ DeactivatingInv'
          /\ Due' = {} /\ ipc' = "undeclare" /\ arg' = s /\ ipc = "ready"
      BY <1>3, <1>7, <1>8, <2>1
    <2> QED
      BY <2>1, <2>2 DEF AgreeInv, BufsInv, StreamInv
  <1> QED
    BY <1>4, <1>5, <1>6, <1>9, <1>10, <1>11, <1>12 DEF Client

-----------------------------------------------------------------------------
(* The scheduler                                                            *)

\* What a handler puts has the codes and names of what it says.
LEMMA PutsSet ==
    ASSUME NEW out \in Seq(Message), NEW b \in BOOLEAN, Puts(out, b)
    PROVE  /\ \A n \in ToSet(pend') : \E o \in ToSet(out) : n.code = o.code /\ n.arg = o.arg
           /\ \A o \in ToSet(out) : \E n \in ToSet(pend') : n.code = o.code /\ n.arg = o.arg
           /\ \A C, D : Then(C, D, out) => Then(C, D, pend')
  <1>1. /\ DOMAIN pend' = DOMAIN out
        /\ \A i \in DOMAIN out : pend'[i].code = out[i].code /\ pend'[i].arg = out[i].arg
    BY PutsType
  <1>2. /\ \A n \in ToSet(pend') : \E o \in ToSet(out) : n.code = o.code /\ n.arg = o.arg
        /\ \A o \in ToSet(out) : \E n \in ToSet(pend') : n.code = o.code /\ n.arg = o.arg
    BY <1>1 DEF ToSet
  <1>3. \A C, D : Then(C, D, out) => Then(C, D, pend')
    BY <1>1 DEF Then
  <1> QED
    BY <1>2, <1>3

\* The handler of a command that Ios waits for: nothing else is in flight.
LEMMA CommandTaken ==
    ASSUME TypeInv, TypeInv', QueueInv, NEW m, NEW c, Takes(m, c), ioBuf' = ioBuf,
           IsCommand(m)
    PROVE  /\ m \in Message /\ <<ipc, c>> \in Requests /\ m.arg = arg /\ Sent
           /\ spc = "main" /\ Queue' = {} /\ OneLast(qBuf') /\ ~Sent'
           /\ \A q : ~Dropping(q) /\ ~Dropping(q)'
           /\ Due' = ToSet(pend') /\ Coming' = pend'
  <1>1. /\ m = Head(qBuf) /\ m.code = c /\ qBuf # << >> /\ qBuf' = Tail(qBuf)
        /\ pend = << >> /\ spc = "main"
    BY DEF Takes
  <1>2. m \in Queue /\ Queue = Queue' \cup {m} /\ m \in Message /\ OneLast(qBuf') /\ Queue' = {}
    BY <1>1, QueueTakes
  <1>3. <<ipc, c>> \in Requests /\ m.arg = arg /\ Due = {}
    BY <1>1, <1>2 DEF QueueInv
  <1>4. Due' = Due \cup ToSet(pend') /\ Coming' = Coming \o pend' /\ Coming = << >>
        /\ pend' \in Seq(Message)
    BY <1>1, <1>3, DueAnswers, QueueTypes DEF TypeInv, TypeOK
  <1>5. Coming' = pend'
    BY <1>4, ConcatEmptySeq
  <1>6. \A q : ~Dropping(q) /\ ~Dropping(q)'
    BY <1>1, <1>2 DEF Dropping, IsCommand
  <1> QED
    BY <1>1, <1>2, <1>3, <1>4, <1>5, <1>6 DEF Sent

LEMMA AgreeAnswered ==
    ASSUME NEW c, <<ipc, c>> \in Requests, OneLast(qBuf'), Queue' = {}, ipc' = ipc,
           spc' = "main" \/ ipc \in {"table", "stream"}
    PROVE  QueueInv'
  BY DEF QueueInv

\* The scheduler takes something else; if Ios waits it is the name of a buffer.
LEMMA OtherTaken ==
    ASSUME TypeInv, QueueInv, qBuf # << >>, qBuf' = Tail(qBuf), ~IsCommand(Head(qBuf)),
           ipc' = ipc, arg' = arg, ipc \in Awaits => spc' = spc \/ spc' = "main",
           \/ Due' = Due /\ (spc' = spc \/ ~Sent)
           \/ ~Sent \/ ipc \notin Awaits
    PROVE  /\ QueueInv' /\ Head(qBuf) \in Message
           /\ ipc \in Awaits => Head(qBuf).code = ADDED_BUFFER
           /\ Sent' <=> Sent
           /\ \A q : q # Head(qBuf).arg \/ Head(qBuf).code # DROP_QUERY =>
                        (Dropping(q)' <=> Dropping(q))
           /\ \A q : Dropping(q)' => Dropping(q)
           /\ Head(qBuf).code = DROP_QUERY => Dropping(Head(qBuf).arg)
  <1>1. /\ Head(qBuf) \in Queue /\ Queue = Queue' \cup {Head(qBuf)}
        /\ Head(qBuf) \in Message /\ OneLast(qBuf')
    BY QueueTakes
  <1>2. Sent' <=> Sent
    BY <1>1 DEF Sent
  <1>3. ipc \notin Awaits => ~Sent
    BY NoneSent
  <1>4. ipc \in Awaits => \A m \in Queue : IsCommand(m) \/ m.code = ADDED_BUFFER
    BY DEF QueueInv
  <1>5. \A m \in Queue' : IsCommand(m) =>
           <<ipc', m.code>> \in Requests /\ m.arg = arg' /\ Due' = {} /\ spc' = "main"
    BY <1>1, <1>2, <1>3 DEF QueueInv, Sent
  <1>6. QueueInv'
    BY <1>1, <1>4, <1>5 DEF QueueInv
  <1>7. \A q : q # Head(qBuf).arg \/ Head(qBuf).code # DROP_QUERY =>
                 (Dropping(q)' <=> Dropping(q))
    BY <1>1 DEF Dropping
  <1>8. \A q : Dropping(q)' => Dropping(q)
    BY <1>1 DEF Dropping
  <1> QED
    BY <1>1, <1>2, <1>4, <1>6, <1>7, <1>8 DEF Dropping

\* While Ios does not wait, only statements and their queue matter.
LEMMA AgreeUnawaited ==
    ASSUME AgreeInv, QueueInv', StmtInv', ipc \notin Awaits,
           UNCHANGED <<ipc, arg, streams, connected, bufs, batch>>
    PROVE  AgreeInv'
  <1>1. ipc \notin {"query", "more", "activate", "deactivate", "stream", "undo", "undeclare"}
    BY DEF Awaits
  <1> QED
    BY <1>1 DEF AgreeInv, AddingInv, ActivatingInv, DeactivatingInv, BufsInv, StreamInv

LEMMA StmtSame ==
    ASSUME AgreeInv, UNCHANGED <<iosVars, active, freeStmts>>,
           \A q \in Query : Dropping(q)' <=> Dropping(q)
    PROVE  StmtInv'
  BY StmtKeeps DEF AgreeInv, iosVars, Adds, Switches

-----------------------------------------------------------------------------
(* Compilations                                                             *)

\* What compiling a statement may announce: a new buffer only of a stream that
\* had none.
Heard(b) == {m \in Notice : m.code = ADDED_STREAM_BUFFER => m.arg \in ToSet(SystemDcl) \ b}

LEMMA DeclHeard ==
    ASSUME TypeInv, NEW b
    PROVE  /\ DeclMsgs(b) \in Seq(Heard(b))
           /\ \A s \in ToSet(SystemDcl) \ b :
                 /\ Msg(ADDED_STREAM_BUFFER, s) \in ToSet(DeclMsgs(b))
                 /\ Msg(CONNECT_IOMODULE, s) \in ToSet(DeclMsgs(b))
  <1> DEFINE H == Heard(b)
             T == TablesDcl
             S == SystemDcl
             f == [i \in DOMAIN T |-> Msg(ADDED_BUFFER, T[i])]
             g == [i \in DOMAIN S |-> StreamMsgs(S[i], b)]
  <1>1. T \in Seq(Table) /\ S \in Seq(Stream)
    BY DclType
  <1>c. /\ ADDED_BUFFER \in Announced /\ ADDED_STREAM_BUFFER \in Announced
        /\ CONNECT_IOMODULE \in Announced
        /\ ADDED_STREAM_BUFFER \notin {ADDED_BUFFER, CONNECT_IOMODULE}
        /\ ADDED_BUFFER \in 0 .. 21 /\ ADDED_STREAM_BUFFER \in 0 .. 21
        /\ CONNECT_IOMODULE \in 0 .. 21
    BY DEF Announced, ADDED_BUFFER, ADDED_STREAM_BUFFER, CONNECT_IOMODULE
  <1>2. /\ \A t \in Table : Msg(ADDED_BUFFER, t) \in H
        /\ Msg(CONNECT_IOMODULE, None) \in H
        /\ \A s \in Stream : Msg(CONNECT_IOMODULE, s) \in H
        /\ \A s \in Stream \cap (ToSet(S) \ b) : Msg(ADDED_STREAM_BUFFER, s) \in H
    <2>1. Table \subseteq Names /\ Stream \subseteq Names /\ None \in Names
      BY DEF Names
    <2>2. /\ \A t \in Table : Msg(ADDED_BUFFER, t) \in Notice
          /\ Msg(CONNECT_IOMODULE, None) \in Notice
          /\ \A s \in Stream : Msg(CONNECT_IOMODULE, s) \in Notice
          /\ \A s \in Stream : Msg(ADDED_STREAM_BUFFER, s) \in Notice
      BY <1>c, <2>1, NoticeMsg
    <2>3. /\ \A t \in Table : Msg(ADDED_BUFFER, t).code = ADDED_BUFFER
          /\ \A x \in Names : Msg(CONNECT_IOMODULE, x).code = CONNECT_IOMODULE
          /\ \A x \in Names : Msg(ADDED_STREAM_BUFFER, x).arg = x
      BY <1>c, <2>1, MsgType
    <2> QED
      BY <1>c, <2>1, <2>2, <2>3 DEF Heard
  <1>3. DeclMsgs(b) = f \o FlattenSeq(g)
    BY DEF DeclMsgs
  <1>u. ToSet(S) = ToSet(SystemDcl)
    OBVIOUS
  <1> HIDE DEF T, S, H
  <1>4. f \in Seq(H)
    <2>1. \A i \in DOMAIN T : Msg(ADDED_BUFFER, T[i]) \in H
      BY <1>1, <1>2
    <2>2. DOMAIN f = DOMAIN T /\ \A i \in DOMAIN T : f[i] \in H
      BY <2>1
    <2>3. f = [i \in DOMAIN f |-> f[i]]
      OBVIOUS
    <2> HIDE DEF f
    <2> QED
      BY <1>1, <2>2, <2>3, MapSeq
  <1>5. g \in Seq(Seq(H))
    <2>1. ASSUME NEW i \in DOMAIN S PROVE StreamMsgs(S[i], b) \in Seq(H)
      <3>1. S[i] \in Stream /\ S[i] \in ToSet(S)
        BY <1>1 DEF ToSet
      <3>2. CASE S[i] \in b
        <4>1. StreamMsgs(S[i], b) = <<Msg(CONNECT_IOMODULE, None)>>
          BY <3>2 DEF StreamMsgs
        <4> QED
          BY <1>2, <4>1, ShortSeq
      <3>3. CASE S[i] \notin b
        <4>1. StreamMsgs(S[i], b) = <<Msg(ADDED_STREAM_BUFFER, S[i]), Msg(CONNECT_IOMODULE, S[i])>>
          BY <3>3 DEF StreamMsgs
        <4> QED
          BY <1>2, <3>1, <3>3, <4>1, ShortSeq
      <3> QED
        BY <3>2, <3>3
    <2>2. DOMAIN g = DOMAIN S /\ \A i \in DOMAIN S : g[i] \in Seq(H)
      BY <2>1
    <2>3. g = [i \in DOMAIN g |-> g[i]]
      OBVIOUS
    <2> HIDE DEF g
    <2> QED
      BY <1>1, <2>2, <2>3, MapSeq
  <1>6. FlattenSeq(g) \in Seq(H)
    BY <1>5, FlattenType
  <1>7. ASSUME NEW s \in ToSet(S) \ b
        PROVE  {Msg(ADDED_STREAM_BUFFER, s), Msg(CONNECT_IOMODULE, s)} \subseteq ToSet(FlattenSeq(g))
    <2>1. PICK i \in DOMAIN S : S[i] = s
      BY DEF ToSet
    <2>2. i \in DOMAIN g /\ g[i] = <<Msg(ADDED_STREAM_BUFFER, s), Msg(CONNECT_IOMODULE, s)>>
      BY <1>7, <2>1 DEF StreamMsgs
    <2>3. {Msg(ADDED_STREAM_BUFFER, s), Msg(CONNECT_IOMODULE, s)} \subseteq ToSet(g[i])
      BY <2>2 DEF ToSet
    <2> HIDE DEF g
    <2>4. ToSet(g[i]) \subseteq ToSet(FlattenSeq(g))
      BY <1>5, <2>2, FlattenHas
    <2> QED
      BY <2>3, <2>4
  <1> HIDE DEF f, g
  <1>8. /\ f \o FlattenSeq(g) \in Seq(H)
        /\ ToSet(f \o FlattenSeq(g)) = ToSet(f) \cup ToSet(FlattenSeq(g))
    BY <1>4, <1>6, ConcatAt, ToSetConcat
  <1> QED
    BY <1>3, <1>7, <1>8, <1>u DEF H

LEMMA CompileHeard ==
    ASSUME TypeInv, NEW b, NEW q \in Query \cup {None}
    PROVE  /\ CompileMsgs(q, b) \in Seq(Heard(b))
           /\ \A s \in ToSet(SystemDcl) \ b :
                 /\ Msg(ADDED_STREAM_BUFFER, s) \in ToSet(CompileMsgs(q, b))
                 /\ Msg(CONNECT_IOMODULE, s) \in ToSet(CompileMsgs(q, b))
  <1>1. DeclMsgs(b) \in Seq(Heard(b))
    BY DeclHeard
  <1>2. Msg(USES_LIBRARY, q) \in Heard(b)
    <2>1. /\ q \in Names /\ USES_LIBRARY \in Announced /\ USES_LIBRARY # ADDED_STREAM_BUFFER
          /\ USES_LIBRARY \in 0 .. 21
      BY DEF Names, Announced, USES_LIBRARY, ADDED_STREAM_BUFFER
    <2>2. Msg(USES_LIBRARY, q) \in Notice /\ Msg(USES_LIBRARY, q).code = USES_LIBRARY
      BY <2>1, NoticeMsg, MsgType
    <2> QED
      BY <2>1, <2>2 DEF Heard
  <1>3. PICK t \in Seq(Heard(b)) : CompileMsgs(q, b) = DeclMsgs(b) \o t
    <2>1. CASE q \in Private
      <3>1. <<Msg(USES_LIBRARY, q)>> \in Seq(Heard(b))
        BY <1>2, ShortSeq
      <3>2. CompileMsgs(q, b) = DeclMsgs(b) \o <<Msg(USES_LIBRARY, q)>>
        BY <2>1 DEF CompileMsgs
      <3> QED
        BY <3>1, <3>2
    <2>2. CASE q \notin Private
      <3>1. CompileMsgs(q, b) = DeclMsgs(b) \o << >> /\ << >> \in Seq(Heard(b))
        BY <2>2 DEF CompileMsgs
      <3> QED
        BY <3>1
    <2> QED
      BY <2>1, <2>2
  <1>4. /\ DeclMsgs(b) \o t \in Seq(Heard(b))
        /\ ToSet(DeclMsgs(b) \o t) = ToSet(DeclMsgs(b)) \cup ToSet(t)
    BY ONLY <1>1, <1>3, ConcatAt, ToSetConcat
  <1> QED
    BY <1>3, <1>4, DeclHeard

\* What the compiler says of statement q, and the buffers it has created then.
LEMMA OutcomeSays ==
    ASSUME TypeInv, NEW b, NEW q \in Query \cup {None}, NEW out \in Outcomes(q, b)
    PROVE  /\ out.msgs \in Seq(Message)
           /\ \A n \in ToSet(out.msgs) :
                 /\ n.code \in Announced \cup Compiler
                 /\ n.code = COMPILE_SUCCESS => (out.ok <=> q \notin Unloadable)
                 /\ n.code = COMPILE_FAILURE => ~out.ok
                 /\ n.code = ADDED_STREAM_BUFFER =>
                       n.arg \in ToSet(SystemDcl) \ b /\ n.arg \in Created(out)
           /\ out.ok \in BOOLEAN /\ (out.ok => q \notin Unloadable)
           /\ Created(out) \subseteq ToSet(SystemDcl)
           /\ \A s \in Created(out) \ b :
                 \E n \in ToSet(out.msgs) : n.code = ADDED_STREAM_BUFFER /\ n.arg = s
           /\ out.ok => /\ ToSet(SystemDcl) \subseteq Created(out)
                        /\ \A s \in ToSet(SystemDcl) \ b :
                              \E n \in ToSet(out.msgs) : n.code = CONNECT_IOMODULE /\ n.arg = s
  <1> DEFINE c == CompileMsgs(q, b)
  <1>1. /\ c \in Seq(Heard(b))
        /\ \A s \in ToSet(SystemDcl) \ b :
              Msg(ADDED_STREAM_BUFFER, s) \in ToSet(c) /\ Msg(CONNECT_IOMODULE, s) \in ToSet(c)
    BY CompileHeard
  <1>2. \A n \in Heard(b) :
           /\ n \in Message /\ n.code \in Announced /\ n.code \notin Compiler
           /\ n.code = ADDED_STREAM_BUFFER => n.arg \in ToSet(SystemDcl) \ b
    BY DEF Heard, Notice, Output, Announced, Compiler, ADDED_BUFFER, ADDED_STREAM_BUFFER,
       CONNECT_IOMODULE, USES_LIBRARY, COMPILE_SUCCESS, COMPILE_FAILURE
  <1>3. c \in Seq(Message)
    BY <1>1, <1>2, WiderSeq
  <1>4. /\ COMPILE_SUCCESS # COMPILE_FAILURE /\ COMPILE_SUCCESS \in Compiler
        /\ COMPILE_FAILURE \in Compiler
        /\ ADDED_STREAM_BUFFER \notin Compiler /\ CONNECT_IOMODULE \in 0 .. 21
        /\ ADDED_STREAM_BUFFER \in 0 .. 21 /\ COMPILE_SUCCESS \in 0 .. 21
        /\ COMPILE_FAILURE \in 0 .. 21
    BY DEF COMPILE_SUCCESS, COMPILE_FAILURE, Compiler, ADDED_STREAM_BUFFER, CONNECT_IOMODULE
  <1>5. q \in Names /\ None \in Names /\ ToSet(SystemDcl) \subseteq Names
    <2>1. ToSet(SystemDcl) \subseteq Stream
      BY DclType, ToSetSeq
    <2> QED
      BY <2>1 DEF Names
  <1>6. \A s \in ToSet(SystemDcl) \ b :
           /\ \E n \in ToSet(c) : n.code = ADDED_STREAM_BUFFER /\ n.arg = s
           /\ \E n \in ToSet(c) : n.code = CONNECT_IOMODULE /\ n.arg = s
    <2>1. \A s \in ToSet(SystemDcl) :
             /\ Msg(ADDED_STREAM_BUFFER, s).code = ADDED_STREAM_BUFFER
             /\ Msg(ADDED_STREAM_BUFFER, s).arg = s
             /\ Msg(CONNECT_IOMODULE, s).code = CONNECT_IOMODULE
             /\ Msg(CONNECT_IOMODULE, s).arg = s
      BY <1>4, <1>5, MsgType
    <2> QED
      BY <1>1, <2>1
  <1>7. CASE out = Compiled(q, b)
    <2> DEFINE v == Msg(COMPILE_SUCCESS, q)
    <2>1. /\ out.msgs = Append(c, v) /\ out.ok = (q \notin Unloadable)
          /\ Created(out) = ToSet(SystemDcl)
      BY <1>7 DEF Compiled, Created
    <2>2. v \in Message /\ v.code = COMPILE_SUCCESS
      BY <1>4, <1>5, MsgType
    <2> HIDE DEF c, v
    <2>3. Append(c, v) \in Seq(Message) /\ ToSet(Append(c, v)) = ToSet(c) \cup {v}
      BY ONLY <1>3, <2>2, AppendAt, ToSetAppend
    <2>4. \A n \in ToSet(c) : n \in Heard(b)
      BY <1>1, ToSetSeq
    <2>5. out.ok \in BOOLEAN /\ (out.ok => q \notin Unloadable)
      BY <2>1
    <2>6. \A n \in ToSet(out.msgs) :
                 /\ n.code \in Announced \cup Compiler
                 /\ n.code = COMPILE_SUCCESS => (out.ok <=> q \notin Unloadable)
                 /\ n.code = COMPILE_FAILURE => ~out.ok
                 /\ n.code = ADDED_STREAM_BUFFER =>
                       n.arg \in ToSet(SystemDcl) \ b /\ n.arg \in Created(out)
      BY <1>2, <1>4, <2>1, <2>2, <2>3, <2>4
    <2> QED
      BY <1>6, <2>1, <2>3, <2>5, <2>6
  <1>8. CASE out \in Refused(q, b)
    <2> DEFINE v == Msg(COMPILE_FAILURE, None)
    <2>1. PICK i \in 0 .. Len(c) :
             out = [ok |-> FALSE, whole |-> FALSE, msgs |-> Append(SubSeq(c, 1, i), v)]
      BY <1>8 DEF Refused
    <2>2. v \in Message /\ v.code = COMPILE_FAILURE
      BY <1>4, <1>5, MsgType
    <2> DEFINE d == SubSeq(c, 1, i)
    <2>3. d \in Seq(Heard(b))
      <3> HIDE DEF c
      <3> QED
        BY <1>1
    <2>4. /\ out.msgs = Append(d, v) /\ out.ok = FALSE
          /\ Created(out) = {m.arg : m \in {x \in ToSet(out.msgs) : x.code = ADDED_STREAM_BUFFER}}
      BY <2>1 DEF Created
    <2> HIDE DEF d, v, c
    <2>5. d \in Seq(Message)
      BY <1>2, <2>3, WiderSeq
    <2>6. Append(d, v) \in Seq(Message) /\ ToSet(Append(d, v)) = ToSet(d) \cup {v}
      BY ONLY <2>2, <2>5, AppendAt, ToSetAppend
    <2>7. \A n \in ToSet(d) : n \in Heard(b)
      BY <2>3, ToSetSeq
    <2>8. \A n \in ToSet(out.msgs) :
                 /\ n.code \in Announced \cup Compiler
                 /\ n.code = COMPILE_SUCCESS => (out.ok <=> q \notin Unloadable)
                 /\ n.code = COMPILE_FAILURE => ~out.ok
                 /\ n.code = ADDED_STREAM_BUFFER =>
                       n.arg \in ToSet(SystemDcl) \ b /\ n.arg \in Created(out)
      BY <1>2, <1>4, <2>2, <2>4, <2>6, <2>7
    <2>9. /\ \A s \in Created(out) :
               \E n \in ToSet(out.msgs) : n.code = ADDED_STREAM_BUFFER /\ n.arg = s
          /\ out.ok \in BOOLEAN /\ ~out.ok
      BY <2>4
    <2> QED
      BY <2>4, <2>6, <2>8, <2>9
  <1> QED
    BY <1>7, <1>8 DEF Outcomes

\* No answer of the scheduler is among the messages of its compilations.
Silent == {m \in Message : m.code \notin Command}

LEMMA RecompiledSilent ==
    ASSUME TypeInv, NEW users \in Seq(Query), NEW n \in 0 .. Len(users)
    PROVE  Recompiled(users, n) \in Seq(Silent)
  <1> DEFINE g == [j \in 1 .. n |-> Compiled(users[j], BufsAfter(j - 1)).msgs]
  <1>1. ASSUME NEW j \in 1 .. n PROVE Compiled(users[j], BufsAfter(j - 1)).msgs \in Seq(Silent)
    <2> DEFINE q == users[j]
               b == BufsAfter(j - 1)
    <2>1. q \in Query /\ q \in Names
      BY DEF Names
    <2> HIDE DEF q, b
    <2> DEFINE c == CompileMsgs(q, b)
               v == Msg(COMPILE_SUCCESS, q)
    <2>2. c \in Seq(Notice)
      BY <2>1, CompileNotices
    <2>3. \A m \in Notice : m \in Silent
      BY DEF Notice, Output, Silent, Announced, Command, ADDED_BUFFER, ADDED_STREAM_BUFFER,
         CONNECT_IOMODULE, USES_LIBRARY, COMMAND_SUCCESSFUL, COMMAND_FAILED
    <2>4. v \in Silent
      <3>1. COMPILE_SUCCESS \in 0 .. 21 /\ COMPILE_SUCCESS \notin Command
        BY DEF COMPILE_SUCCESS, Command, COMMAND_SUCCESSFUL, COMMAND_FAILED
      <3> QED
        BY <2>1, <3>1, MsgType DEF Silent
    <2>5. Compiled(q, b).msgs = Append(c, v)
      BY DEF Compiled
    <2> HIDE DEF c, v
    <2>6. c \in Seq(Silent)
      BY <2>2, <2>3, WiderSeq
    <2>7. Append(c, v) \in Seq(Silent)
      BY ONLY <2>4, <2>6, AppendAt
    <2>8. Compiled(q, b).msgs \in Seq(Silent)
      BY <2>5, <2>7
    <2> QED
      BY <2>8 DEF q, b
  <1>2. Len(users) \in Nat /\ n \in Nat
    OBVIOUS
  <1>3. g \in Seq(Seq(Silent))
    <2>1. g \in [1 .. n -> Seq(Silent)]
      BY <1>1
    <2> HIDE DEF g
    <2> QED
      BY <1>2, <2>1, FunSeq
  <1>4. Recompiled(users, n) = FlattenSeq(g)
    BY DEF Recompiled
  <1> HIDE DEF g
  <1> QED
    BY <1>3, <1>4, FlattenType

-----------------------------------------------------------------------------
(* The scheduler's commands                                                 *)

\* Outside a declaration the compiler creates nothing.
LEMMA NothingCreated ==
    ASSUME BaseInv, AgreeInv, NEW q \in Query \cup {None}, NEW out \in Outcomes(q, bufs),
           ipc \notin {"stream", "undo", "undeclare"}
    PROVE  bufs \cup Created(out) = bufs /\ Created(out) \subseteq bufs
  <1>1. SystemDcl = streams /\ bufs = ToSet(streams)
    BY DEF SystemDcl, AgreeInv, BufsInv
  <1>2. Created(out) \subseteq ToSet(SystemDcl)
    BY OutcomeSays DEF BaseInv
  <1> QED
    BY <1>1, <1>2

LEMMA AgreeAddQuery ==
    ASSUME BaseInv, TypeInv', AgreeInv, HandleAddQuery PROVE AgreeInv'
  <1>1. PICK m \in ToSet(qBuf) : HandleAddQuery!(m)
    BY DEF HandleAddQuery
  <1>2. /\ Takes(m, ADD_QUERY) /\ ioBuf' = ioBuf
        /\ UNCHANGED <<ipc, arg, got, batch, known, isActive, streams, connected, spc, active>>
    BY <1>1 DEF iosVars
  <1>3. IsCommand(m)
    BY <1>2 DEF Takes, IsCommand, ADD_QUERY, DROP_QUERY, ADDED_BUFFER, DEACTIVATE_QUERY
  <1>4. /\ <<ipc, ADD_QUERY>> \in Requests /\ m.arg = arg /\ Sent
        /\ spc = "main" /\ Queue' = {} /\ OneLast(qBuf') /\ ~Sent'
        /\ \A q : ~Dropping(q) /\ ~Dropping(q)'
        /\ Due' = ToSet(pend') /\ m \in Message
    BY <1>2, <1>3, CommandTaken DEF BaseInv, AgreeInv
  <1>5. ipc = "query" /\ arg \in Query /\ m.mine \in BOOLEAN
    BY <1>4 DEF Requests, ADD_QUERY, ACTIVATE_QUERY, DEACTIVATE_QUERY, ADD_DECLARE,
       DROP_DECLARE, GET_COMPONENTS, BaseInv, TypeInv, ArgOK, Message
  <1>6. PICK out \in Outcomes(arg, bufs) :
           /\ Puts(out.msgs, m.mine) /\ bufs' = bufs \cup Created(out)
           /\ freeStmts' = freeStmts \cup (IF out.ok THEN {arg} ELSE {})
    BY <1>1, <1>4
  <1>7. /\ out.msgs \in Seq(Message)
        /\ \A n \in ToSet(out.msgs) :
              /\ n.code = COMPILE_SUCCESS => (out.ok <=> arg \notin Unloadable)
              /\ n.code = COMPILE_FAILURE => ~out.ok
    <2>1. TypeInv /\ arg \in Query \cup {None}
      BY <1>5 DEF BaseInv
    <2> QED
      BY <2>1, OutcomeSays
  <1>8. \A n \in Due' : /\ n.code = COMPILE_SUCCESS => (out.ok <=> arg \notin Unloadable)
                        /\ n.code = COMPILE_FAILURE => ~out.ok
    BY <1>4, <1>5, <1>6, <1>7, PutsSet
  <1>9. bufs' = bufs
    BY <1>5, <1>6, NothingCreated
  <1>10. arg \notin freeStmts /\ arg \notin active
    BY <1>4, <1>5 DEF AgreeInv, AddingInv, AddedInv
  <1>11. AddingInv'
    BY <1>2, <1>4, <1>5, <1>6, <1>8, <1>10 DEF AgreeInv, AddingInv, AddedInv
  <1>12. QueueInv'
    BY <1>2, <1>4, AgreeAnswered
  <1>13. StmtInv'
    <2>1. \A q \in Query : /\ Adds(q) <=> q = arg
                           /\ Adds(q)' <=> q = arg
                           /\ ~Switches(q) /\ ~Switches(q)'
                           /\ q # arg => (q \in freeStmts' <=> q \in freeStmts)
      BY <1>2, <1>5, <1>6 DEF Adds, Switches
    <2> QED
      BY <1>2, <1>4, <2>1 DEF AgreeInv, StmtInv
  <1>14. BufsInv' /\ ActivatingInv' /\ DeactivatingInv' /\ StreamInv'
    BY <1>2, <1>5, <1>9 DEF AgreeInv, BufsInv, ActivatingInv, DeactivatingInv, StreamInv
  <1> QED
    BY <1>11, <1>12, <1>13, <1>14 DEF AgreeInv

LEMMA AgreeAddDeclare ==
    ASSUME BaseInv, TypeInv', AgreeInv, HandleAddDeclare PROVE AgreeInv'
  <1>1. PICK m \in ToSet(qBuf), out \in Outcomes(None, bufs) : HandleAddDeclare!(m)!(out)
    BY DEF HandleAddDeclare
  <1>2. /\ Takes(m, ADD_DECLARE) /\ ioBuf' = ioBuf /\ bufs' = bufs \cup Created(out)
        /\ UNCHANGED <<ipc, arg, got, batch, known, isActive, streams, connected, active,
                       freeStmts, iosVars>>
        /\ out.ok => spc' = "wait" /\ Puts(out.msgs, m.mine)
        /\ ~out.ok => spc' = spc /\ Puts(Append(out.msgs, Verdict(FALSE)), m.mine)
    BY <1>1 DEF iosVars
  <1>3. IsCommand(m)
    BY <1>2 DEF Takes, IsCommand, ADD_DECLARE, DROP_QUERY, ADDED_BUFFER, DEACTIVATE_QUERY
  <1>4. /\ <<ipc, ADD_DECLARE>> \in Requests /\ m.arg = arg /\ Sent
        /\ spc = "main" /\ Queue' = {} /\ OneLast(qBuf') /\ ~Sent'
        /\ \A q : ~Dropping(q) /\ ~Dropping(q)'
        /\ Due' = ToSet(pend') /\ Coming' = pend' /\ m \in Message
    BY <1>2, <1>3, CommandTaken DEF BaseInv, AgreeInv
  <1>5. ipc \in {"table", "stream"} /\ m.mine \in BOOLEAN
    BY <1>4 DEF Requests, ADD_QUERY, ACTIVATE_QUERY, DEACTIVATE_QUERY, ADD_DECLARE,
       DROP_DECLARE, GET_COMPONENTS, Message
  <1>6. QueueInv'
    BY <1>2, <1>4, <1>5, AgreeAnswered
  <1>7. StmtInv'
    BY <1>2, <1>4, StmtSame
  <1>8. AddingInv' /\ ActivatingInv' /\ DeactivatingInv'
    BY <1>2, <1>5 DEF AddingInv, ActivatingInv, DeactivatingInv
  <1>9. CASE ipc = "table"
    <2>1. bufs' = bufs
      BY <1>2, <1>9, NothingCreated
    <2> QED
      BY <1>2, <1>6, <1>7, <1>8, <1>9, <2>1 DEF AgreeInv, BufsInv, StreamInv
  <1>10. CASE ipc = "stream"
    <2>1. /\ arg \in Stream /\ streams \in Seq(Stream) /\ connected \subseteq bufs /\ TypeInv
      BY <1>10 DEF BaseInv, TypeInv, TypeOK, ArgOK
    <2>2. arg \notin bufs /\ ~got /\ ToSet(streams) \subseteq bufs
      BY <1>4, <1>10, <2>1 DEF AgreeInv, StreamInv, BufsInv
    <2>3. ToSet(SystemDcl) = ToSet(streams) \cup {arg}
      <3>1. SystemDcl = Append(streams, arg)
        BY <1>10 DEF SystemDcl
      <3>2. ToSet(Append(streams, arg)) = ToSet(streams) \cup {arg}
        BY ONLY <2>1, ToSetAppend
      <3> QED
        BY <3>1, <3>2
    <2>4. /\ out.msgs \in Seq(Message)
          /\ \A n \in ToSet(out.msgs) :
                /\ n.code \in Announced \cup Compiler
                /\ n.code = ADDED_STREAM_BUFFER =>
                      n.arg \in ToSet(SystemDcl) \ bufs /\ n.arg \in Created(out)
          /\ out.ok \in BOOLEAN
          /\ Created(out) \subseteq ToSet(SystemDcl)
          /\ \A s \in Created(out) \ bufs :
                \E n \in ToSet(out.msgs) : n.code = ADDED_STREAM_BUFFER /\ n.arg = s
          /\ out.ok => /\ ToSet(SystemDcl) \subseteq Created(out)
                       /\ \A s \in ToSet(SystemDcl) \ bufs :
                             \E n \in ToSet(out.msgs) : n.code = CONNECT_IOMODULE /\ n.arg = s
      BY <2>1, OutcomeSays
    <2>5. /\ arg \in bufs' <=> \E n \in ToSet(out.msgs) : n.code = ADDED_STREAM_BUFFER
          /\ out.ok => /\ arg \in bufs'
                       /\ \E n \in ToSet(out.msgs) : n.code = CONNECT_IOMODULE /\ n.arg = arg
      BY <1>2, <2>2, <2>3, <2>4
    <2>6. \A n \in ToSet(out.msgs) : n.code \notin Command
      BY <2>4 DEF Announced, Compiler, Command, ADDED_BUFFER, ADDED_STREAM_BUFFER,
         CONNECT_IOMODULE, USES_LIBRARY, COMPILE_SUCCESS, COMPILE_FAILURE,
         COMMAND_SUCCESSFUL, COMMAND_FAILED
    <2>7. \A i \in DOMAIN out.msgs : out.msgs[i].code \notin Command
      BY <2>6 DEF ToSet
    <2>8. BufsInv'
      BY <1>2, <1>10, <2>3, <2>4 DEF AgreeInv, BufsInv
    <2>9. CASE out.ok
      <3>1. /\ \A n \in Due' : \E o \in ToSet(out.msgs) : n.code = o.code /\ n.arg = o.arg
            /\ \A o \in ToSet(out.msgs) : \E n \in Due' : n.code = o.code /\ n.arg = o.arg
        BY <1>2, <1>4, <1>5, <2>4, <2>9, PutsSet
      <3>2. \A C : Then(Command, C, out.msgs)
        BY <2>7 DEF Then
      <3>3. Then(Command, {}, Coming')
        <4>1. PICK D : D = {}
          OBVIOUS
        <4>2. Then(Command, D, pend')
          BY <1>2, <1>5, <2>4, <2>9, <3>2, PutsSet
        <4> QED
          BY <1>4, <4>1, <4>2
      <3>4. \A n \in Due' : n.code \notin Command
        BY <2>6, <3>1
      <3>5. arg \in bufs' <=> \E n \in Due' : n.code = ADDED_STREAM_BUFFER
        BY <2>5, <3>1
      <3>6. arg \in bufs' /\ \E n \in Due' : n.code = CONNECT_IOMODULE /\ n.arg = arg
        BY <2>5, <2>9, <3>1
      <3>7. StreamInv'
        BY <1>2, <1>4, <2>2, <3>3, <3>4, <3>5, <3>6 DEF StreamInv
      <3> QED
        BY <1>6, <1>7, <1>8, <2>8, <3>7 DEF AgreeInv
    <2>10. CASE ~out.ok
      <3> DEFINE v == Verdict(FALSE)
                 t == Append(out.msgs, v)
      <3>1. v \in Message /\ v.code = COMMAND_FAILED
        <4>1. COMMAND_FAILED \in 0 .. 21 /\ None \in Names
          BY DEF COMMAND_FAILED, Names
        <4> QED
          BY <4>1, MsgType DEF Verdict
      <3>2. Puts(t, m.mine) /\ spc' = "main"
        BY <1>2, <1>4, <2>10
      <3>d. PICK D : D = {}
        OBVIOUS
      <3> HIDE DEF v
      <3>3. t \in Seq(Message) /\ ToSet(t) = ToSet(out.msgs) \cup {v}
        BY ONLY <2>4, <3>1, AppendAt, ToSetAppend
      <3>4. Then(Command, D, t)
        <4>1. Then(Command, D, out.msgs)
          BY <2>7 DEF Then
        <4> QED
          BY <2>4, <2>7, <3>1, <4>1, ThenAppend
      <3> HIDE DEF t
      <3>5. /\ \A n \in Due' : \E o \in ToSet(t) : n.code = o.code /\ n.arg = o.arg
            /\ \A o \in ToSet(t) : \E n \in Due' : n.code = o.code /\ n.arg = o.arg
            /\ Then(Command, D, Coming')
        BY <1>4, <1>5, <3>2, <3>3, <3>4, PutsSet
      <3>6. COMMAND_FAILED # COMMAND_SUCCESSFUL /\ COMMAND_FAILED # ADDED_STREAM_BUFFER
        BY DEF COMMAND_FAILED, COMMAND_SUCCESSFUL, ADDED_STREAM_BUFFER
      <3>7. \A n \in Due' : n.code # COMMAND_SUCCESSFUL
        BY <2>6, <3>1, <3>3, <3>5, <3>6 DEF Command
      <3>8. arg \in bufs' <=> \E n \in Due' : n.code = ADDED_STREAM_BUFFER
        BY <2>5, <3>1, <3>3, <3>5, <3>6
      <3>9. StreamInv'
        BY <1>2, <1>4, <2>2, <3>2, <3>5, <3>7, <3>8, <3>d DEF StreamInv
      <3> QED
        BY <1>6, <1>7, <1>8, <2>8, <3>9 DEF AgreeInv
    <2> QED
      BY <2>9, <2>10
  <1> QED
    BY <1>5, <1>9, <1>10

\* Ios activates only a query that is in no driver; one that is not in the free
\* pool either could not be loaded and is refused.
LEMMA AgreeActivate ==
    ASSUME BaseInv, TypeInv', AgreeInv, HandleActivate PROVE AgreeInv'
  <1>1. PICK m \in ToSet(qBuf) : HandleActivate!(m)
    BY DEF HandleActivate
  <1>2. /\ Takes(m, ACTIVATE_QUERY) /\ ioBuf' = ioBuf
        /\ UNCHANGED <<ipc, arg, got, batch, known, isActive, streams, connected, spc>>
    BY <1>1 DEF iosVars
  <1>3. IsCommand(m)
    BY <1>2 DEF Takes, IsCommand, ACTIVATE_QUERY, DROP_QUERY, ADDED_BUFFER, DEACTIVATE_QUERY
  <1>4. /\ <<ipc, ACTIVATE_QUERY>> \in Requests /\ m.arg = arg /\ Sent
        /\ spc = "main" /\ Queue' = {} /\ OneLast(qBuf') /\ ~Sent'
        /\ \A q : ~Dropping(q) /\ ~Dropping(q)'
        /\ Due' = ToSet(pend') /\ m \in Message
    BY <1>2, <1>3, CommandTaken DEF BaseInv, AgreeInv
  <1>5. ipc = "activate" /\ arg \in known /\ arg \in Query /\ m.mine \in BOOLEAN /\ TypeInv
        /\ arg \in Names
    BY <1>4 DEF Requests, ADD_QUERY, ACTIVATE_QUERY, DEACTIVATE_QUERY, ADD_DECLARE,
       DROP_DECLARE, GET_COMPONENTS, BaseInv, TypeInv, TypeOK, ArgOK, Message, Names
  <1>6. arg \notin active /\ arg \notin isActive
        /\ (arg \in freeStmts <=> arg \notin Unloadable)
    <2>1. arg \notin active /\ arg \notin isActive
      BY <1>4, <1>5 DEF AgreeInv, ActivatingInv
    <2>2. ~Adds(arg)
      BY <1>5 DEF Adds
    <2> QED
      BY <1>4, <1>5, <2>1, <2>2 DEF AgreeInv, StmtInv
  <1>7. PICK out \in IF arg \in freeStmts THEN {NoCompile(arg)} ELSE Outcomes(arg, bufs) :
           /\ bufs' = bufs \cup (IF arg \in freeStmts THEN {} ELSE Created(out))
           /\ IF out.ok
                THEN /\ active' = active \cup {arg} /\ freeStmts' = freeStmts \ {arg}
                     /\ Puts(out.msgs \o <<Msg(ACTIVATED_QUERY, arg), Verdict(TRUE)>>, m.mine)
                ELSE /\ Puts(Append(out.msgs, Verdict(FALSE)), m.mine)
                     /\ UNCHANGED <<active, freeStmts>>
    BY <1>1, <1>4
  <1>8. bufs' = bufs
    BY <1>5, <1>7, NothingCreated
  <1>9. QueueInv'
    BY <1>2, <1>4, AgreeAnswered
  <1>10. AddingInv' /\ DeactivatingInv' /\ StreamInv' /\ BufsInv'
    BY <1>2, <1>5, <1>8 DEF AgreeInv, AddingInv, DeactivatingInv, StreamInv, BufsInv
  <1>11. \A q \in Query : /\ ~Adds(q) /\ ~Adds(q)'
                          /\ Switches(q) <=> q = arg
                          /\ Switches(q)' <=> q = arg
    BY <1>2, <1>5 DEF Adds, Switches
  <1>c. /\ ACTIVATED_QUERY \in 0 .. 21 /\ COMMAND_FAILED \in 0 .. 21
        /\ COMMAND_SUCCESSFUL \in 0 .. 21 /\ ACTIVATED_QUERY \notin Command
        /\ COMMAND_FAILED # COMMAND_SUCCESSFUL /\ None \in Names
    BY DEF ACTIVATED_QUERY, COMMAND_FAILED, COMMAND_SUCCESSFUL, Command, Names
  <1>v. /\ Verdict(TRUE) \in Message /\ Verdict(TRUE).code = COMMAND_SUCCESSFUL
        /\ Verdict(FALSE) \in Message /\ Verdict(FALSE).code = COMMAND_FAILED
        /\ Msg(ACTIVATED_QUERY, arg) \in Message
        /\ Msg(ACTIVATED_QUERY, arg).code = ACTIVATED_QUERY
        /\ Msg(ACTIVATED_QUERY, arg).arg = arg
    BY <1>c, <1>5, MsgType DEF Verdict
  <1>12. CASE out.ok
    <2>1. arg \in freeStmts
      <3>1. SUFFICES ASSUME arg \notin freeStmts PROVE FALSE
        OBVIOUS
      <3>2. out \in Outcomes(arg, bufs) /\ arg \in Query \cup {None}
        BY <1>5, <1>7, <3>1
      <3>3. out.ok => arg \notin Unloadable
        BY <1>5, <3>2, OutcomeSays
      <3> QED
        BY <1>6, <1>12, <3>1, <3>3
    <2>s. PICK a \in Message : /\ a = Msg(ACTIVATED_QUERY, arg)
                               /\ a.code = ACTIVATED_QUERY /\ a.arg = arg
      BY <1>v
    <2>w. PICK w \in Message : w = Verdict(TRUE) /\ w.code = COMMAND_SUCCESSFUL
      BY <1>v
    <2>o. out = NoCompile(arg)
      BY <1>7, <2>1
    <2>p. out.msgs = << >>
      BY <2>o DEF NoCompile
    <2>2. /\ active' = active \cup {arg} /\ freeStmts' = freeStmts \ {arg}
          /\ Puts(out.msgs \o <<a, w>>, m.mine)
      BY <1>7, <1>12, <2>s, <2>w
    <2>3. <<a, w>> \in Seq(Message) /\ ToSet(<<a, w>>) = {a, w}
      BY ShortSeq DEF ToSet
    <2>4. Puts(<<a, w>>, m.mine)
      <3>1. << >> \o <<a, w>> = <<a, w>>
        BY <2>3, ConcatEmptySeq
      <3> QED
        BY <2>2, <2>p, <3>1
    <2>5. \A n \in Due' : \/ n.code = ACTIVATED_QUERY /\ n.arg = arg
                          \/ n.code = COMMAND_SUCCESSFUL
      <3> DEFINE t == <<a, w>>
      <3>1. t \in Seq(Message) /\ ToSet(t) = {a, w} /\ Puts(t, m.mine)
        BY <2>3, <2>4
      <3> HIDE DEF t
      <3>2. \A n \in ToSet(pend') : \E o \in ToSet(t) : n.code = o.code /\ n.arg = o.arg
        BY <1>5, <3>1, PutsSet
      <3> QED
        BY <1>4, <2>s, <2>w, <3>1, <3>2
    <2>6. ActivatingInv'
      BY <1>2, <1>4, <1>c, <2>2, <2>5 DEF ActivatingInv, Command
    <2>7. StmtInv'
      BY <1>2, <1>4, <1>11, <2>1, <2>2 DEF AgreeInv, StmtInv
    <2> QED
      BY <1>9, <1>10, <2>6, <2>7 DEF AgreeInv
  <1>13. CASE ~out.ok
    <2> DEFINE v == Verdict(FALSE)
               t == Append(out.msgs, v)
    <2>1. /\ Puts(t, m.mine) /\ UNCHANGED <<active, freeStmts>>
      BY <1>7, <1>13
    <2>2. /\ out.msgs \in Seq(Message)
          /\ \A n \in ToSet(out.msgs) : n.code \notin Command \cup {ACTIVATED_QUERY}
      <3>1. CASE arg \in freeStmts
        <4>1. out.msgs = << >>
          BY <1>7, <3>1 DEF NoCompile
        <4> QED
          BY <4>1 DEF ToSet
      <3>2. CASE arg \notin freeStmts
        <4>1. out \in Outcomes(arg, bufs) /\ arg \in Query \cup {None}
          BY <1>5, <1>7, <3>2
        <4>2. /\ out.msgs \in Seq(Message)
              /\ \A n \in ToSet(out.msgs) : n.code \in Announced \cup Compiler
          BY <1>5, <4>1, OutcomeSays
        <4>3. \A c \in Announced \cup Compiler : c \notin Command \cup {ACTIVATED_QUERY}
          BY DEF Announced, Compiler, Command, ADDED_BUFFER, ADDED_STREAM_BUFFER,
             CONNECT_IOMODULE, USES_LIBRARY, COMPILE_SUCCESS, COMPILE_FAILURE,
             COMMAND_SUCCESSFUL, COMMAND_FAILED, ACTIVATED_QUERY
        <4> QED
          BY <4>2, <4>3
      <3> QED
        BY <3>1, <3>2
    <2>3. v \in Message /\ v.code = COMMAND_FAILED
      BY <1>v
    <2> HIDE DEF v
    <2>4. t \in Seq(Message) /\ ToSet(t) = ToSet(out.msgs) \cup {v}
      BY ONLY <2>2, <2>3, AppendAt, ToSetAppend
    <2> HIDE DEF t
    <2>5. \A n \in Due' : n.code \notin {ACTIVATED_QUERY, COMMAND_SUCCESSFUL}
      BY <1>4, <1>5, <1>c, <2>1, <2>2, <2>3, <2>4, PutsSet DEF Command
    <2>6. ActivatingInv'
      BY <1>2, <1>4, <1>6, <2>1, <2>5 DEF ActivatingInv
    <2>7. StmtInv'
      BY <1>2, <1>4, <1>11, <2>1 DEF AgreeInv, StmtInv
    <2> QED
      BY <1>9, <1>10, <2>6, <2>7 DEF AgreeInv
  <1> QED
    BY <1>12, <1>13

\* One message as an answer.
LEMMA OneAnswer ==
    ASSUME NEW c \in 0 .. 21, NEW x \in Names, NEW b \in BOOLEAN, Puts(<<Msg(c, x)>>, b)
    PROVE  \A n \in ToSet(pend') : n.code = c
  <1> DEFINE m == Msg(c, x)
  <1>1. m \in Message /\ m.code = c
    BY MsgType
  <1>2. Puts(<<m>>, b)
    OBVIOUS
  <1> HIDE DEF m
  <1>3. <<m>> \in Seq(Message) /\ ToSet(<<m>>) = {m}
    BY <1>1, ShortSeq DEF ToSet
  <1> QED
    BY ZenonT(60), <1>1, <1>2, <1>3, PutsSet

LEMMA AgreeDeactivate ==
    ASSUME BaseInv, TypeInv', AgreeInv, HandleDeactivate PROVE AgreeInv'
  <1>1. PICK m \in ToSet(qBuf) : HandleDeactivate!(m)
    BY DEF HandleDeactivate
  <1>2. /\ Takes(m, DEACTIVATE_QUERY) /\ ioBuf' = ioBuf /\ active' = active \ {m.arg}
        /\ freeStmts' = freeStmts \cup (active \cap {m.arg})
        /\ Puts(<<Verdict(m.arg \in active)>>, m.mine)
        /\ UNCHANGED <<ipc, arg, got, batch, known, isActive, streams, connected, spc, bufs,
                       iosVars>>
    BY <1>1 DEF iosVars
  <1>t. TypeInv /\ QueueInv /\ active \subseteq Query
    BY DEF BaseInv, AgreeInv, TypeInv, TypeOK
  <1>3. CASE IsCommand(m)
    <2>1. /\ <<ipc, DEACTIVATE_QUERY>> \in Requests /\ m.arg = arg /\ Sent
          /\ spc = "main" /\ Queue' = {} /\ OneLast(qBuf') /\ ~Sent'
          /\ \A q : ~Dropping(q) /\ ~Dropping(q)'
          /\ Due' = ToSet(pend') /\ m \in Message
      BY <1>2, <1>3, <1>t, CommandTaken
    <2>2. ipc = "deactivate" /\ m.mine \in BOOLEAN
      BY <2>1 DEF Requests, ADD_QUERY, ACTIVATE_QUERY, DEACTIVATE_QUERY, ADD_DECLARE,
         DROP_DECLARE, GET_COMPONENTS, Message
    <2>3. arg \in active
      BY <2>1, <2>2 DEF AgreeInv, DeactivatingInv
    <2>4. Puts(<<Msg(COMMAND_SUCCESSFUL, None)>>, m.mine)
      BY <1>2, <2>1, <2>3 DEF Verdict
    <2>5. COMMAND_SUCCESSFUL \in 0 .. 21 /\ None \in Names
      BY DEF COMMAND_SUCCESSFUL, Names
    <2>6. \A n \in Due' : n.code = COMMAND_SUCCESSFUL
      BY <2>1, <2>2, <2>4, <2>5, OneAnswer
    <2>7. DeactivatingInv'
      BY <1>2, <2>1, <2>6 DEF DeactivatingInv
    <2>8. QueueInv'
      BY <1>2, <2>1, AgreeAnswered
    <2>9. \A q \in Query : /\ ~Adds(q) /\ ~Adds(q)'
                           /\ Switches(q) <=> q = arg
                           /\ Switches(q)' <=> q = arg
      BY <1>2, <2>2 DEF Adds, Switches
    <2>10. StmtInv'
      BY <1>2, <2>1, <2>3, <2>9 DEF AgreeInv, StmtInv
    <2>11. AddingInv' /\ ActivatingInv' /\ StreamInv' /\ BufsInv'
      BY <1>2, <2>2 DEF AgreeInv, AddingInv, ActivatingInv, StreamInv, BufsInv
    <2> QED
      BY <2>7, <2>8, <2>10, <2>11 DEF AgreeInv
  <1>4. CASE ~IsCommand(m)
    <2>1. m.code = DEACTIVATE_QUERY /\ m = Head(qBuf) /\ qBuf # << >> /\ qBuf' = Tail(qBuf)
      BY <1>2 DEF Takes
    <2>2. DEACTIVATE_QUERY \notin {DROP_QUERY, ADDED_BUFFER}
      BY DEF DEACTIVATE_QUERY, DROP_QUERY, ADDED_BUFFER
    <2>3. m.arg = None /\ None \notin Query
      BY <1>4, <2>1, <2>2, CommandAssumption DEF IsCommand
    <2>4. ipc \notin Awaits
      <3>1. m \in Queue
        BY <1>t, <2>1, QueueTakes
      <3> QED
        BY <1>4, <1>t, <2>1, <2>2, <3>1 DEF QueueInv
    <2>5. QueueInv' /\ \A q : Dropping(q)' <=> Dropping(q)
      BY <1>2, <1>4, <1>t, <2>1, <2>2, <2>4, OtherTaken
    <2>6. active' = active /\ freeStmts' = freeStmts
      BY <1>2, <1>t, <2>3
    <2>7. StmtInv'
      BY <1>2, <2>5, <2>6, StmtSame
    <2> QED
      BY <1>2, <2>4, <2>5, <2>7, AgreeUnawaited
  <1> QED
    BY <1>3, <1>4

\* Nobody waits for the answer to DROP_QUERY.
LEMMA AgreeDropQuery ==
    ASSUME BaseInv, AgreeInv, HandleDropQuery PROVE AgreeInv'
  <1>1. PICK m \in ToSet(qBuf) : HandleDropQuery!(m)
    BY DEF HandleDropQuery
  <1>2. /\ m = Head(qBuf) /\ m.code = DROP_QUERY /\ qBuf # << >> /\ qBuf' = Tail(qBuf)
        /\ active' = active \ (IF m.arg \in freeStmts THEN {} ELSE {m.arg})
        /\ freeStmts' = freeStmts \ {m.arg}
        /\ UNCHANGED <<ipc, arg, batch, known, isActive, streams, connected, spc, bufs>>
    BY <1>1 DEF iosVars, Takes
  <1>3. /\ TypeInv /\ QueueInv /\ StmtInv
        /\ active \cap freeStmts = {} /\ isActive \subseteq known
    BY DEF BaseInv, AgreeInv, TypeInv, TypeOK
  <1>4. ~IsCommand(m) /\ DROP_QUERY # ADDED_BUFFER
    BY <1>2 DEF IsCommand, DROP_QUERY, ADDED_BUFFER
  <1>5. ipc \notin Awaits
    <2>1. m \in Queue
      BY <1>2, <1>3, QueueTakes
    <2> QED
      BY <1>2, <1>3, <1>4, <2>1 DEF QueueInv
  <1>6. /\ QueueInv' /\ Dropping(m.arg)
        /\ \A q : q # m.arg => (Dropping(q)' <=> Dropping(q))
        /\ \A q : Dropping(q)' => Dropping(q)
    BY <1>2, <1>3, <1>4, <1>5, OtherTaken
  <1>7. \A q \in Query : ~Adds(q) /\ ~Adds(q)' /\ ~Switches(q) /\ ~Switches(q)'
    BY <1>2, <1>5 DEF Adds, Switches, Awaits
  <1>8. StmtInv'
    <2> SUFFICES ASSUME NEW q \in Query PROVE StmtInv!(q)'
      BY DEF StmtInv
    <2>1. CASE q # m.arg
      <3>1. (q \in active' <=> q \in active) /\ (q \in freeStmts' <=> q \in freeStmts)
        BY <1>2, <2>1
      <3> QED
        BY <1>2, <1>3, <1>6, <1>7, <2>1, <3>1 DEF StmtInv
    <2>2. CASE q = m.arg
      <3>1. q \notin active' /\ q \notin freeStmts'
        BY <1>2, <1>3, <2>2
      <3>2. q \notin known \cup ToSet(batch) /\ q \notin isActive
        BY <1>3, <1>6, <2>2 DEF StmtInv
      <3> QED
        BY <1>2, <1>7, <3>1, <3>2
    <2> QED
      BY <2>1, <2>2
  <1> QED
    BY <1>2, <1>5, <1>6, <1>8, AgreeUnawaited

\* DROP_DECLARE: SUCCESS says that the buffer is gone, FAILURE that there was
\* none or that it is still in use, and connected.
LEMMA AgreeDropDeclare ==
    ASSUME BaseInv, TypeInv', AgreeInv, HandleDropDeclare PROVE AgreeInv'
  <1>1. PICK m \in ToSet(qBuf) : HandleDropDeclare!(m)
    BY DEF HandleDropDeclare
  <1> DEFINE done == m.arg \in bufs /\ \A q \in active : Reads[q] # m.arg
             code == IF done THEN SUCCESS ELSE FAILURE
  <1>2. /\ Takes(m, DROP_DECLARE) /\ ioBuf' = ioBuf
        /\ Puts(<<Msg(code, None)>>, m.mine)
        /\ bufs' = IF done THEN bufs \ {m.arg} ELSE bufs
        /\ connected' = IF done THEN connected \ {m.arg} ELSE connected
        /\ UNCHANGED <<ipc, arg, got, batch, known, isActive, streams, spc, freeStmts, active,
                       iosVars>>
    BY <1>1 DEF iosVars
  <1>3. IsCommand(m)
    BY <1>2 DEF Takes, IsCommand, DROP_DECLARE, DROP_QUERY, ADDED_BUFFER, DEACTIVATE_QUERY
  <1>4. /\ <<ipc, DROP_DECLARE>> \in Requests /\ m.arg = arg /\ Sent
        /\ spc = "main" /\ Queue' = {} /\ OneLast(qBuf') /\ ~Sent'
        /\ \A q : ~Dropping(q) /\ ~Dropping(q)'
        /\ Due' = ToSet(pend') /\ m \in Message
    BY <1>2, <1>3, CommandTaken DEF BaseInv, AgreeInv
  <1>5. ipc \in {"undo", "undeclare"} /\ m.mine \in BOOLEAN
    BY <1>4 DEF Requests, ADD_QUERY, ACTIVATE_QUERY, DEACTIVATE_QUERY, ADD_DECLARE,
       DROP_DECLARE, GET_COMPONENTS, Message
  <1>6. QueueInv'
    BY <1>2, <1>4, AgreeAnswered
  <1>7. StmtInv'
    BY <1>2, <1>4, StmtSame
  <1>8. AddingInv' /\ ActivatingInv' /\ DeactivatingInv' /\ StreamInv'
    BY <1>2, <1>5 DEF AddingInv, ActivatingInv, DeactivatingInv, StreamInv
  <1>9. SUCCESS \in 0 .. 21 /\ FAILURE \in 0 .. 21 /\ None \in Names /\ SUCCESS # FAILURE
    BY DEF SUCCESS, FAILURE, Names
  <1>10. code \in 0 .. 21 /\ (code = FAILURE <=> ~done)
    BY <1>9
  <1>11. \A n \in Due' : n.code = FAILURE <=> ~done
    <2> HIDE DEF code, done
    <2>1. \A n \in ToSet(pend') : n.code = code
      BY <1>2, <1>5, <1>9, <1>10, OneAnswer
    <2> QED
      BY <1>4, <1>10, <2>1
  <1>12. BufsInv'
    <2>1. CASE ipc = "undo"
      <3>1. arg \notin bufs' /\ bufs' \subseteq bufs
        BY <1>2, <1>4, <2>1 DEF AgreeInv, BufsInv
      <3>2. ToSet(streams) \subseteq connected'
        BY <1>2, <1>4, <2>1 DEF AgreeInv, BufsInv
      <3> QED
        BY <1>2, <2>1, <3>1, <3>2 DEF AgreeInv, BufsInv
    <2>2. CASE ipc = "undeclare"
      <3>1. arg \in connected /\ connected \subseteq bufs
        BY <1>4, <2>2 DEF AgreeInv, BufsInv, BaseInv, TypeInv, TypeOK
      <3>2. IF done THEN arg \notin bufs' ELSE arg \in connected'
        BY <1>2, <1>4, <3>1
      <3>3. bufs' \subseteq bufs /\ connected \subseteq connected' \cup {arg}
        BY <1>2, <1>4
      <3> QED
        BY <1>2, <1>4, <1>11, <2>2, <3>2, <3>3 DEF AgreeInv, BufsInv
    <2> QED
      BY <1>5, <2>1, <2>2
  <1> QED
    BY <1>6, <1>7, <1>8, <1>12 DEF AgreeInv

LEMMA AgreeGetComponents ==
    ASSUME BaseInv, TypeInv', AgreeInv, HandleGetComponents PROVE AgreeInv'
  <1>1. PICK m \in ToSet(qBuf) : HandleGetComponents!(m)
    BY DEF HandleGetComponents
  <1>2. /\ Takes(m, GET_COMPONENTS) /\ ioBuf' = ioBuf
        /\ UNCHANGED <<ipc, arg, got, batch, known, isActive, streams, connected, spc, bufs,
                       freeStmts, active, iosVars>>
    BY <1>1 DEF iosVars, schVars
  <1>3. IsCommand(m)
    BY <1>2 DEF Takes, IsCommand, GET_COMPONENTS, DROP_QUERY, ADDED_BUFFER, DEACTIVATE_QUERY
  <1>4. /\ <<ipc, GET_COMPONENTS>> \in Requests
        /\ spc = "main" /\ Queue' = {} /\ OneLast(qBuf')
        /\ \A q : ~Dropping(q) /\ ~Dropping(q)'
    BY <1>2, <1>3, CommandTaken DEF BaseInv, AgreeInv
  <1>5. ipc = "components"
    BY <1>4 DEF Requests, ADD_QUERY, ACTIVATE_QUERY, DEACTIVATE_QUERY, ADD_DECLARE,
       DROP_DECLARE, GET_COMPONENTS
  <1>6. QueueInv' /\ StmtInv'
    BY <1>2, <1>4, AgreeAnswered, StmtSame
  <1> QED
    BY <1>2, <1>5, <1>6 DEF AgreeInv, AddingInv, ActivatingInv, DeactivatingInv, StreamInv,
       BufsInv

\* A message for nobody, and a message on its way to Ios.
LEMMA AgreeSameDue ==
    ASSUME AgreeInv, QueueInv', StmtInv', Sent' <=> Sent, Due' = Due, Coming' = Coming,
           UNCHANGED <<ipc, arg, got, batch, isActive, streams, connected, bufs, active,
                       freeStmts, spc>>
    PROVE  AgreeInv'
  <1>1. AddingInv' /\ ActivatingInv' /\ DeactivatingInv'
    BY DEF AgreeInv, AddingInv, AddedInv, ActivatingInv, DeactivatingInv
  <1>2. BufsInv'
    BY DEF AgreeInv, BufsInv
  <1>3. StreamInv'
    BY DEF AgreeInv, StreamInv
  <1> QED
    BY <1>1, <1>2, <1>3 DEF AgreeInv

LEMMA AgreeUnknown ==
    ASSUME BaseInv, AgreeInv, HandleUnknown PROVE AgreeInv'
  <1>1. PICK m \in ToSet(qBuf) : HandleUnknown!(m)
    BY DEF HandleUnknown
  <1>2. /\ m = Head(qBuf) /\ m.code = ADDED_BUFFER /\ qBuf # << >> /\ qBuf' = Tail(qBuf)
        /\ UNCHANGED <<ipc, arg, got, batch, known, isActive, streams, connected, bufs,
                       active, freeStmts, spc, ioBuf, pend, iosVars>>
    BY <1>1 DEF iosVars, schVars, Takes
  <1>3. ~IsCommand(m) /\ ADDED_BUFFER # DROP_QUERY
    BY <1>2 DEF IsCommand, DROP_QUERY, ADDED_BUFFER
  <1>4. Due' = Due /\ Coming' = Coming
    BY <1>2 DEF Due, Coming
  <1>5. QueueInv' /\ (Sent' <=> Sent) /\ \A q : Dropping(q)' <=> Dropping(q)
    BY <1>2, <1>3, <1>4, OtherTaken DEF BaseInv, AgreeInv
  <1>6. StmtInv'
    BY <1>2, <1>5, StmtSame
  <1> QED
    BY <1>2, <1>4, <1>5, <1>6, AgreeSameDue

LEMMA AgreePutReply ==
    ASSUME BaseInv, AgreeInv, PutReply PROVE AgreeInv'
  <1>1. UNCHANGED <<qBuf, ipc, arg, got, batch, known, isActive, streams, connected, bufs,
                    active, freeStmts, spc, iosVars>>
    BY DEF PutReply, iosVars, schVars
  <1>2. Due' = Due /\ Coming' = Coming
    BY DuePuts DEF BaseInv
  <1>3. Queue' = Queue /\ (Sent' <=> Sent) /\ \A q : Dropping(q)' <=> Dropping(q)
    BY <1>1 DEF Queue, Sent, Dropping
  <1>4. QueueInv'
    BY <1>1, <1>2, <1>3 DEF AgreeInv, QueueInv
  <1>5. StmtInv'
    BY <1>1, <1>3, StmtSame
  <1> QED
    BY <1>1, <1>2, <1>3, <1>4, <1>5, AgreeSameDue

\* The compiler's verdict after a declaration: Ios waits for nothing any more.
LEMMA AgreeDeclareEnds ==
    ASSUME BaseInv, AgreeInv, DeclareEnds PROVE AgreeInv'
  <1>1. /\ spc = "wait" /\ qBuf # << >> /\ Head(qBuf).code # ADDED_BUFFER
        /\ qBuf' = Tail(qBuf) /\ spc' = "main"
        /\ UNCHANGED <<ipc, arg, batch, known, isActive, streams, connected, bufs, active,
                       freeStmts, iosVars>>
    BY DEF DeclareEnds, iosVars
  <1>2. TypeInv /\ QueueInv
    BY DEF BaseInv, AgreeInv
  <1>3. Head(qBuf) \in Queue
    BY <1>1, <1>2, QueueTakes
  <1>4. ~Sent /\ ~IsCommand(Head(qBuf))
    BY <1>1, <1>2, <1>3 DEF QueueInv, Sent
  <1>5. ipc \notin Awaits
    BY <1>1, <1>2, <1>3, <1>4 DEF QueueInv
  <1>6. QueueInv' /\ (\A q : q # Head(qBuf).arg \/ Head(qBuf).code # DROP_QUERY =>
                                (Dropping(q)' <=> Dropping(q)))
    BY <1>1, <1>2, <1>4, <1>5, OtherTaken
  <1>7. Head(qBuf).arg = None
    BY <1>1 DEF BaseInv, PairInv, Awaited, Second, IsVerdict
  <1>8. \A q \in Query : Dropping(q)' <=> Dropping(q)
    BY <1>6, <1>7, CommandAssumption
  <1>9. StmtInv'
    BY <1>1, <1>8, StmtSame
  <1> QED
    BY <1>1, <1>5, <1>6, <1>9, AgreeUnawaited

-----------------------------------------------------------------------------
(* The second message of a declaration                                      *)

\* Every declared stream has its buffer by then: the compilations that follow
\* create none, and end with the one verdict of the scheduler.
LEMMA AgreeDeclareAdded ==
    ASSUME BaseInv, TypeInv', AgreeInv, DeclareAdded PROVE AgreeInv'
  <1>1. PICK m \in ToSet(qBuf) : \E users \in SetToSeqs(Users(m.arg)) : DeclareAdded!(m)!(users)
    BY DEF DeclareAdded
  <1>2. PICK users \in SetToSeqs(Users(m.arg)) : DeclareAdded!(m)!(users)
    BY <1>1
  <1>3. /\ spc = "wait" /\ pend = << >> /\ m = Head(qBuf) /\ m.code = ADDED_BUFFER
        /\ qBuf' = Tail(qBuf) /\ spc' = "main" /\ ioBuf' = ioBuf
        /\ UNCHANGED <<ipc, arg, got, batch, known, isActive, streams, connected, active,
                       freeStmts, iosVars>>
    BY <1>2 DEF iosVars
  <1>4. TypeInv /\ QueueInv /\ connected \subseteq bufs /\ streams \in Seq(Stream)
        /\ smine \in BOOLEAN
    BY DEF BaseInv, AgreeInv, TypeInv, TypeOK
  <1>5. qBuf # << >>
    BY <1>4, QueueTypes DEF Queue
  <1>6. ~Sent /\ ~IsCommand(m) /\ ADDED_BUFFER # DROP_QUERY
    BY <1>3, <1>4 DEF QueueInv, Sent, IsCommand, ADDED_BUFFER, DROP_QUERY
  <1>7. ipc \notin Awaits \/ ipc \in {"table", "stream"}
    BY <1>3, <1>4 DEF QueueInv
  <1>8. QueueInv' /\ (Sent' <=> Sent) /\ \A q : Dropping(q)' <=> Dropping(q)
    BY <1>3, <1>4, <1>5, <1>6, OtherTaken
  <1>9. StmtInv'
    BY <1>3, <1>8, StmtSame
  <1>10. ToSet(SystemDcl) \subseteq bufs
    <2>1. CASE ipc = "stream"
      <3>1. arg \in bufs /\ ToSet(streams) \subseteq connected /\ arg \in Stream
        BY <1>3, <1>4, <2>1 DEF AgreeInv, BufsInv, StreamInv, TypeInv, ArgOK
      <3>2. ToSet(Append(streams, arg)) = ToSet(streams) \cup {arg}
        BY ONLY <1>4, <3>1, ToSetAppend
      <3> QED
        BY <1>4, <2>1, <3>1, <3>2 DEF SystemDcl
    <2>2. CASE ipc # "stream"
      <3>1. ipc \notin {"stream", "undo", "undeclare"}
        BY <1>7, <2>2 DEF Awaits
      <3> QED
        BY <3>1 DEF AgreeInv, BufsInv, SystemDcl
    <2> QED
      BY <2>1, <2>2
  <1>11. users \in Seq(Query) /\ Len(users) \in Nat
    BY <1>4, UsersSeq
  <1>12. \A i \in Nat : BufsAfter(i) = bufs
    BY <1>10 DEF BufsAfter
  <1>v. \A b \in BOOLEAN : Verdict(b) \in Message /\ Verdict(b).code \in Command
    <2>1. /\ COMMAND_FAILED \in 0 .. 21 /\ COMMAND_SUCCESSFUL \in 0 .. 21 /\ None \in Names
          /\ COMMAND_FAILED \in Command /\ COMMAND_SUCCESSFUL \in Command
      BY DEF COMMAND_FAILED, COMMAND_SUCCESSFUL, Names, Command
    <2>2. \A b \in BOOLEAN : Verdict(b) \in {Msg(COMMAND_FAILED, None), Msg(COMMAND_SUCCESSFUL, None)}
      BY DEF Verdict
    <2> QED
      BY <2>1, <2>2, MsgType
  <1>13. /\ bufs' = bufs
         /\ \E s \in Seq(Silent), v \in Message : Puts(Append(s, v), smine)
    <2>1. CASE /\ Puts(Append(Recompiled(users, Len(users)), Verdict(TRUE)), smine)
               /\ bufs' = BufsAfter(Len(users))
      <3>1. Recompiled(users, Len(users)) \in Seq(Silent)
        BY <1>4, <1>11, RecompiledSilent
      <3>2. Verdict(TRUE) \in Message
        BY <1>v
      <3> QED
        BY <1>11, <1>12, <2>1, <3>1, <3>2
    <2>2. CASE \E i \in DOMAIN users : \E out \in Refused(users[i], BufsAfter(i - 1)) :
                 /\ Puts(Recompiled(users, i - 1) \o out.msgs \o <<Verdict(FALSE)>>, smine)
                 /\ bufs' = BufsAfter(i - 1) \cup Created(out)
      <3>1. PICK i \in DOMAIN users : \E out \in Refused(users[i], BufsAfter(i - 1)) :
                 /\ Puts(Recompiled(users, i - 1) \o out.msgs \o <<Verdict(FALSE)>>, smine)
                 /\ bufs' = BufsAfter(i - 1) \cup Created(out)
        BY <2>2
      <3>2. i - 1 \in Nat /\ i - 1 \in 0 .. Len(users) /\ users[i] \in Query
        BY <1>11
      <3>3. BufsAfter(i - 1) = bufs
        BY <1>12, <3>2
      <3>4. PICK out \in Refused(users[i], bufs) :
                 /\ Puts(Recompiled(users, i - 1) \o out.msgs \o <<Verdict(FALSE)>>, smine)
                 /\ bufs' = bufs \cup Created(out)
        BY <3>1, <3>3
      <3>5. out \in Outcomes(users[i], bufs) /\ users[i] \in Query \cup {None}
        BY <3>2, <3>4 DEF Outcomes
      <3>6. /\ out.msgs \in Seq(Message) /\ Created(out) \subseteq ToSet(SystemDcl)
            /\ \A n \in ToSet(out.msgs) : n.code \in Announced \cup Compiler
        BY <1>4, <3>5, OutcomeSays
      <3>7. out.msgs \in Seq(Silent)
        <4>1. \A n \in ToSet(out.msgs) : n.code \notin Command
          BY <3>6 DEF Announced, Compiler, Command, ADDED_BUFFER, ADDED_STREAM_BUFFER,
             CONNECT_IOMODULE, USES_LIBRARY, COMPILE_SUCCESS, COMPILE_FAILURE,
             COMMAND_SUCCESSFUL, COMMAND_FAILED
        <4>2. ToSet(out.msgs) \subseteq Message
          BY <3>6, ToSetSeq
        <4>3. ToSet(out.msgs) \subseteq Silent
          BY <4>1, <4>2 DEF Silent
        <4> QED
          BY <3>6, <4>3, SeqOfAll DEF ToSet
      <3>8. Recompiled(users, i - 1) \in Seq(Silent)
        BY <1>4, <1>11, <3>2, RecompiledSilent
      <3>9. PICK r \in Seq(Silent) : r = Recompiled(users, i - 1)
        BY <3>8
      <3>10. PICK o \in Seq(Silent) : o = out.msgs
        BY <3>7
      <3>11. PICK v \in Message : v = Verdict(FALSE)
        BY <1>v
      <3>12. Puts(r \o o \o <<v>>, smine)
        BY <3>4, <3>9, <3>10, <3>11
      <3>13. PICK s \in Seq(Silent) : s = r \o o
        <4>1. r \o o \in Seq(Silent)
          BY ONLY <3>9, <3>10, ConcatAt
        <4> QED
          BY <4>1
      <3>14. s \in Seq(Message) /\ s \o <<v>> = Append(s, v)
        <4>1. Silent \subseteq Message
          BY DEF Silent
        <4>2. s \in Seq(Message)
          BY <4>1, WiderSeq
        <4> QED
          BY <4>2
      <3>15. Puts(Append(s, v), smine)
        BY <3>12, <3>13, <3>14
      <3> QED
        BY <1>10, <3>4, <3>6, <3>15
    <2> QED
      BY <1>2, <2>1, <2>2
  <1>14. Due \subseteq Due' /\ Coming' = Coming \o pend' /\ pend' \in Seq(Message)
         /\ Coming \in Seq(Message)
    BY <1>3, <1>4, DueAnswers, QueueTypes DEF TypeInv, TypeOK
  <1>15. CASE ipc = "stream"
    <2>1. \A n \in Due : n.code \notin Command
      BY <1>3, <1>15 DEF AgreeInv, StreamInv
    <2>d. PICK D : D = {}
      OBVIOUS
    <2>2. Then(Command, D, pend')
      <3>1. PICK s \in Seq(Silent) : \E v \in Message : Puts(Append(s, v), smine)
        BY <1>13
      <3>2. PICK v \in Message : Puts(Append(s, v), smine)
        BY <3>1
      <3>3. s \in Seq(Message) /\ \A i \in DOMAIN s : s[i].code \notin Command
        <4>1. Silent \subseteq Message /\ \A n \in Silent : n.code \notin Command
          BY DEF Silent
        <4>2. s \in Seq(Message)
          BY <4>1, WiderSeq
        <4>3. \A i \in DOMAIN s : s[i] \in Silent
          OBVIOUS
        <4> QED
          BY <4>1, <4>2, <4>3
      <3>4. Then(Command, D, s)
        BY <3>3 DEF Then
      <3>5. Then(Command, D, Append(s, v))
        BY <3>3, <3>4, ThenAppend
      <3> DEFINE t == Append(s, v)
      <3>6. t \in Seq(Message)
        BY <3>3
      <3>7. Puts(t, smine) /\ Then(Command, D, t)
        BY <3>2, <3>5
      <3> HIDE DEF t
      <3> QED
        BY <1>4, <3>6, <3>7, PutsSet
    <2>3. \A i \in DOMAIN Coming : Coming[i].code \notin Command
      <3> HIDE DEF Coming
      <3> QED
        BY <2>1 DEF Due, ToSet
    <2>4. Then(Command, D, Coming')
      <3>1. \A s, r \in Seq(Message) : Then(Command, D, r) /\ (\A i \in DOMAIN s : s[i].code \notin Command)
              => Then(Command, D, s \o r)
        BY ThenConcat
      <3> HIDE DEF Coming
      <3>2. Then(Command, D, Coming \o pend')
        BY <1>14, <2>2, <2>3, <3>1
      <3> QED
        BY <1>14, <3>2
    <2>5. StreamInv'
      <3>1. /\ arg \in bufs
            /\ arg \in connected \/ \E n \in Due : n.code = CONNECT_IOMODULE /\ n.arg = arg
            /\ arg \in bufs <=> got \/ \E n \in Due : n.code = ADDED_STREAM_BUFFER
        BY <1>3, <1>15 DEF AgreeInv, StreamInv
      <3> QED
        BY <1>3, <1>6, <1>8, <1>13, <1>14, <2>4, <2>d, <3>1 DEF StreamInv
    <2>6. BufsInv'
      BY <1>3, <1>13, <1>15 DEF AgreeInv, BufsInv
    <2>7. AddingInv' /\ ActivatingInv' /\ DeactivatingInv'
      BY <1>3, <1>15 DEF AddingInv, ActivatingInv, DeactivatingInv
    <2> QED
      BY <1>8, <1>9, <2>5, <2>6, <2>7 DEF AgreeInv
  <1>16. CASE ipc = "table"
    BY <1>3, <1>8, <1>9, <1>13, <1>16 DEF AgreeInv, BufsInv, AddingInv, ActivatingInv,
       DeactivatingInv, StreamInv
  <1>17. CASE ipc \notin Awaits
    BY <1>3, <1>8, <1>9, <1>13, <1>17, AgreeUnawaited
  <1> QED
    BY <1>7, <1>15, <1>16, <1>17

\* A step of the scheduler.
LEMMA AgreeScheduler ==
    ASSUME BaseInv, TypeInv', AgreeInv, Scheduler PROVE AgreeInv'
  BY AgreePutReply, AgreeAddQuery, AgreeAddDeclare, AgreeDeclareAdded, AgreeDeclareEnds,
     AgreeActivate, AgreeDeactivate, AgreeDropQuery, AgreeDropDeclare, AgreeGetComponents,
     AgreeUnknown DEF Scheduler

-----------------------------------------------------------------------------
(* Agreement                                                                *)

LEMMA AgreeInit == Init => AgreeInv
  <1> SUFFICES ASSUME Init PROVE AgreeInv
    OBVIOUS
  <1>1. /\ qBuf = << >> /\ ipc = "ready" /\ batch = << >> /\ known = {} /\ isActive = {}
        /\ streams = << >> /\ connected = {} /\ freeStmts = {} /\ active = {} /\ bufs = {}
    BY DEF Init
  <1>2. Queue = {} /\ ToSet(batch) = {} /\ ToSet(streams) = {} /\ IsInjective(streams)
    BY <1>1 DEF Queue, ToSet, IsInjective
  <1>3. QueueInv
    BY <1>1, <1>2 DEF QueueInv, OneLast, Awaits
  <1>4. StmtInv
    BY <1>1, <1>2 DEF StmtInv, Dropping
  <1>5. BufsInv
    BY <1>1, <1>2 DEF BufsInv
  <1> QED
    BY <1>1, <1>3, <1>4, <1>5 DEF AgreeInv, AddingInv, ActivatingInv, DeactivatingInv, StreamInv

LEMMA FreshInit == Init => FreshInv
  <1> SUFFICES ASSUME Init PROVE FreshInv
    OBVIOUS
  <1>1. batch = << >> /\ known = {} /\ ipc = "ready"
    BY DEF Init
  <1>2. IsInjective(batch) /\ ToSet(batch) = {}
    BY <1>1 DEF IsInjective, ToSet
  <1> QED
    BY <1>1, <1>2 DEF FreshInv

LEMMA FreshNext ==
    ASSUME TypeInv, FreshInv, [Next]_vars PROVE FreshInv'
  <1>1. CASE Scheduler
    <2>1. UNCHANGED iosVars
      BY <1>1 DEF Scheduler, PutReply, HandleAddQuery, HandleAddDeclare, DeclareAdded,
         DeclareEnds, HandleActivate, HandleDeactivate, HandleDropQuery, HandleDropDeclare,
         HandleGetComponents, HandleUnknown
    <2> QED
      BY <2>1 DEF FreshInv, iosVars
  <1>2. CASE UNCHANGED vars
    BY <1>2 DEF FreshInv, vars
  <1> QED
    BY <1>1, <1>2, FreshSteps DEF Next

LEMMA BaseNext ==
    ASSUME Paced, BaseInv, [Next]_vars PROVE BaseInv'
  BY TypeNext, FreshNext, PairNext, InputsNext, MineNext DEF BaseInv

LEMMA AgreeStutters ==
    ASSUME AgreeInv, UNCHANGED vars PROVE AgreeInv'
  <1>1. UNCHANGED <<qBuf, ioBuf, pend, ipc, arg, got, batch, known, isActive, streams,
                    connected, spc, freeStmts, active, bufs, iosVars>>
    BY DEF vars, iosVars
  <1>2. Queue' = Queue /\ Due' = Due /\ Coming' = Coming
    BY <1>1 DEF Queue, Due, Coming
  <1>3. (Sent' <=> Sent) /\ \A q : Dropping(q)' <=> Dropping(q)
    BY <1>2 DEF Sent, Dropping
  <1>4. QueueInv'
    BY <1>1, <1>2, <1>3 DEF AgreeInv, QueueInv
  <1>5. StmtInv'
    BY <1>1, <1>3, StmtSame
  <1> QED
    BY <1>1, <1>2, <1>3, <1>4, <1>5, AgreeSameDue

LEMMA AgreeNext ==
    ASSUME Paced, Again = {}, BaseInv, AgreeInv, [Next]_vars PROVE AgreeInv'
  <1>1. TypeInv'
    BY TypeNext DEF BaseInv
  <1> QED
    BY <1>1, AgreeClient, AgreeIos, AgreeScheduler, AgreeStutters DEF Next

\* Nothing is in flight: no statement is being added, switched or dropped.
LEMMA AgreeRest ==
    ASSUME BaseInv, AgreeInv PROVE Agreement
  <1> SUFFICES ASSUME ipc = "ready", Quiet
               PROVE  /\ active \cup freeStmts = known \ Unloadable
                      /\ isActive = active
                      /\ ToSet(streams) = bufs
                      /\ ToSet(streams) \subseteq connected
    BY DEF Agreement
  <1>1. /\ Queue = {} /\ ToSet(batch) = {} /\ \A q \in Query : ~Adds(q) /\ ~Switches(q)
    BY QuietFacts DEF BaseInv
  <1>2. \A q \in Query : ~Dropping(q)
    BY <1>1 DEF Dropping
  <1>3. /\ active \subseteq Query /\ freeStmts \subseteq Query /\ known \subseteq Query
        /\ isActive \subseteq Query
    BY DEF BaseInv, TypeInv, TypeOK
  <1>4. \A q \in Query : /\ q \in active \cup freeStmts <=> q \in known \ Unloadable
                         /\ q \in active <=> q \in isActive
    BY <1>1, <1>2 DEF AgreeInv, StmtInv
  <1>5. ToSet(streams) = bufs /\ ToSet(streams) \subseteq connected
    BY DEF AgreeInv, BufsInv
  <1> QED
    BY <1>3, <1>4, <1>5

\* When nothing is in flight the scheduler has the statements Ios knows, the same
\* ones active, and the declared streams have their buffers and are connected
\* (Agreement): for any statements and any sequence of requests, if the client
\* waits until nothing is in flight and declares no stream that exists.
THEOREM Agrees == ASSUME Paced, Again = {} PROVE Spec => []Agreement
  <1>1. Init => BaseInv /\ AgreeInv
    BY TypeInit, FreshInit, PairInit, InputsInit, MineInit, AgreeInit DEF BaseInv
  <1>2. BaseInv /\ AgreeInv /\ [Next]_vars => (BaseInv /\ AgreeInv)'
    BY BaseNext, AgreeNext
  <1>3. BaseInv /\ AgreeInv => Agreement
    BY AgreeRest
  <1> QED
    BY <1>1, <1>2, <1>3, PTL DEF Spec

-----------------------------------------------------------------------------
(* Requests about modules                                                   *)

\* What such a request waits for; a deactivation is never refused.
ModeInv ==
    /\ mode = "activate" => ipc \in {"clear", "activate"}
    /\ mode = "deactivate" => ipc \in {"clear", "deactivate"} /\ ok
    /\ mode = "undo" => ipc \in {"clear", "deactivate"} /\ undoing = "activate"

LoopBase == ModuleInv /\ PairInv /\ InputsInv /\ MineInv /\ LoopQuiet

LEMMA LoopBaseNext ==
    ASSUME Paced, LoopBase, [MNext]_allvars PROVE LoopBase'
  BY ModuleNext, ModulePair, ModuleInputs, ModuleMine, ModuleQuiet DEF LoopBase

LEMMA LoopBaseHas ==
    ASSUME LoopBase PROVE BaseInv /\ TypeInv /\ FreshInv /\ isActive \subseteq known
  BY DEF LoopBase, ModuleInv, BaseInv, TypeInv, TypeOK

\* The next query is asked to be what it is not.
LEMMA LoopSwitches ==
    ASSUME LoopBase, ModeInv, Each \/ TakesBack
    PROVE  \/ UNCHANGED vars
           \/ \E k \in {"activate", "deactivate"} :
                 /\ Sends(k, Head(rest), Code(k))
                 /\ Head(rest) \in isActive <=> k = "deactivate"
                 /\ isActive' = isActive \/ (k = "deactivate" /\ isActive' = isActive \ {Head(rest)})
                 /\ UNCHANGED <<batch, known, streams, connected, spc, freeStmts, active, bufs>>
                 /\ mode = "undo" => k = "deactivate"
                 /\ mode # "undo" => k = mode
  <1>1. CASE Each
    <2>1. mode \in {"activate", "deactivate"}
      BY <1>1 DEF Each
    <2>2. \/ UNCHANGED vars
          \/ /\ ~((Head(rest) \in isActive) = (mode = "activate"))
             /\ Sends(mode, Head(rest), Code(mode))
             /\ UNCHANGED <<isActive, batch, known, streams, connected, schVars, bufs>>
      BY <1>1 DEF Each, Start
    <2> QED
      BY <2>1, <2>2 DEF schVars
  <1>2. CASE TakesBack
    <2>1. mode = "undo" /\ undoing = "activate"
      BY <1>2 DEF TakesBack, ModeInv
    <2>2. \/ UNCHANGED vars
          \/ /\ Head(rest) \in isActive
             /\ Sends("deactivate", Head(rest), Code("deactivate"))
             /\ isActive' = isActive \ {Head(rest)}
             /\ UNCHANGED <<batch, known, streams, connected, schVars, bufs>>
      BY <1>2, <2>1 DEF TakesBack, Start
    <2> QED
      BY <2>1, <2>2 DEF schVars
  <1> QED
    BY <1>1, <1>2

\* A module is forgotten before its queries are dropped.
LEMMA AgreeDeletes ==
    ASSUME Paced, LoopBase, AgreeInv, NEW m \in modules, DeleteModule(m) PROVE AgreeInv'
  <1>1. /\ ipc = "ready" /\ Quiet /\ known' = known \ ToSet(m) /\ isActive' = isActive \ ToSet(m)
        /\ batch' = m /\ ipc' = "rollback"
        /\ UNCHANGED <<qBuf, streams, connected, spc, freeStmts, active, bufs>>
    BY DEF DeleteModule, MayStart, schVars
  <1>2. TypeInv /\ FreshInv /\ ToSet(m) \subseteq known /\ QueueInv
    BY LoopBaseHas DEF LoopBase, ModuleInv, GroupInv, AgreeInv
  <1>3. Queue = {} /\ ToSet(batch) = {} /\ \A q \in Query : ~Adds(q) /\ ~Switches(q)
    BY <1>1, <1>2, QuietFacts
  <1>4. Queue' = {}
    BY <1>1, <1>3 DEF Queue
  <1>5. \A q \in Query : ~Dropping(q) /\ ~Dropping(q)' /\ ~Adds(q)' /\ ~Switches(q)'
    BY <1>1, <1>3, <1>4 DEF Dropping, Adds, Switches
  <1>6. StmtInv'
    BY <1>1, <1>2, <1>3, <1>5 DEF AgreeInv, StmtInv
  <1>7. BufsInv'
    BY <1>1 DEF AgreeInv, BufsInv
  <1>8. ~Sent /\ ipc' \notin Awaits
    BY <1>1, <1>3 DEF Sent, Awaits
  <1> QED
    BY <1>1, <1>2, <1>6, <1>7, <1>8, AgreeEnds

LEMMA AgreeModules ==
    ASSUME Paced, Again = {}, LoopBase, ModeInv, AgreeInv, [MNext]_allvars PROVE AgreeInv'
  <1>1. BaseInv /\ TypeInv /\ FreshInv /\ isActive \subseteq known
    BY LoopBaseHas
  <1>2. TypeInv'
    BY ModuleNext DEF LoopBase, ModuleInv
  <1>3. CASE Asks \/ Works \/ Schedules
    BY <1>1, <1>2, <1>3, AgreeClient, AgreeIos, AgreeScheduler DEF Asks, Works, Schedules
  <1>4. CASE Waits
    BY <1>1, <1>2, <1>4, AgreeSwitchLoop DEF Waits
  <1>5. CASE Each \/ TakesBack
    <2>1. /\ Head(rest) \in known /\ ipc = "clear" /\ Quiet
      BY <1>1, <1>5, ModuleSwitches DEF LoopBase, ModuleInv, LoopQuiet
    <2> QED
      BY <1>1, <1>5, <2>1, LoopSwitches, AgreeSwitches, AgreeStutters
  <1>6. CASE Refuses \/ ModuleDone \/ UNCHANGED allvars
    BY <1>6, AgreeStutters DEF Refuses, ModuleDone, allvars
  <1>7. CASE \E m \in modules : ModuleRequest("activate", m) \/ ModuleRequest("deactivate", m)
    <2>1. /\ ipc = "ready" /\ ipc' = "clear"
          /\ UNCHANGED <<qBuf, ioBuf, pend, arg, got, batch, known, isActive, streams, connected,
                         spc, freeStmts, active, bufs>>
      BY <1>7 DEF ModuleRequest, MayStart, schVars
    <2>2. ipc \notin Awaits /\ ipc' \notin Awaits
      BY <2>1 DEF Awaits
    <2>3. ~Sent
      BY <1>1, <2>2, NoneSent DEF AgreeInv
    <2>4. \A q \in Query : Dropping(q)' <=> Dropping(q)
      BY <1>1, <2>1, DroppingKeeps
    <2>5. \A q \in Query : (Adds(q)' <=> Adds(q)) /\ (Switches(q)' <=> Switches(q))
      BY <2>1 DEF Adds, Switches
    <2>6. StmtInv'
      BY <2>1, <2>4, <2>5, StmtKeeps DEF AgreeInv
    <2>7. BufsInv'
      BY <2>1 DEF AgreeInv, BufsInv
    <2> QED
      BY <1>1, <2>1, <2>2, <2>3, <2>6, <2>7, AgreeEnds DEF AgreeInv
  <1> QED
    BY <1>3, <1>4, <1>5, <1>6, <1>7, AgreeDeletes DEF MNext, ModuleSteps

\* A step of the scheduler changes nothing of Ios.
LEMMA SchedulerIos ==
    ASSUME Scheduler PROVE UNCHANGED iosVars
  BY DEF Scheduler, PutReply, HandleAddQuery, HandleAddDeclare, DeclareAdded,
     DeclareEnds, HandleActivate, HandleDeactivate, HandleDropQuery, HandleDropDeclare,
     HandleGetComponents, HandleUnknown

\* What activateQuery and deactivateQuery return is what the scheduler has done.
LEMMA WaitTells ==
    ASSUME LoopBase, AgreeInv, Waits
    PROVE  /\ UNCHANGED <<active, modules, mode, undoing, did, rest, before, arg>>
           /\ \/ ipc' = ipc /\ (ok' <=> ok) /\ ipc \in {"activate", "deactivate"}
              \/ ipc' = "clear" /\ ipc = "activate" /\ (ok' <=> arg \in active)
              \/ ipc' = "clear" /\ ipc = "deactivate" /\ ok' /\ arg \notin active
  <1>1. PICK m \in ToSet(ioBuf) : ActivateLoop!(m) \/ DeactivateLoop!(m)
    BY DEF Waits, ActivateLoop, DeactivateLoop
  <1>2. /\ UNCHANGED <<active, modules, mode, undoing, did, rest, before, pend>>
        /\ ok' = IF ipc' = "clear" THEN Head(ioBuf).code = COMMAND_SUCCESSFUL ELSE ok
    BY DEF Waits, schVars
  <1>3. /\ ioBuf # << >> /\ m = Head(ioBuf) /\ ioBuf' = Tail(ioBuf) /\ arg' = arg
        /\ ipc \in {"activate", "deactivate"}
        /\ \/ ipc' = ipc
           \/ ipc' = "clear" /\ m.code \in {COMMAND_FAILED, COMMAND_SUCCESSFUL}
    BY <1>1 DEF Sees, Reply, Other, iosVars
  <1>4. m \in Due
    BY <1>2, <1>3, LoopBaseHas, DueReads
  <1>5. COMMAND_FAILED # COMMAND_SUCCESSFUL
    BY DEF COMMAND_FAILED, COMMAND_SUCCESSFUL
  <1>6. CASE ipc' = ipc
    BY <1>2, <1>3, <1>6
  <1>7. CASE ipc' = "clear" /\ ipc = "activate"
    <2>1. m.code = COMMAND_SUCCESSFUL <=> arg \in active
      BY <1>3, <1>4, <1>5, <1>7 DEF AgreeInv, ActivatingInv
    <2> QED
      BY <1>2, <1>3, <1>7, <2>1
  <1>8. CASE ipc' = "clear" /\ ipc = "deactivate"
    <2>1. m.code = COMMAND_SUCCESSFUL /\ arg \notin active
      BY <1>4, <1>8 DEF AgreeInv, DeactivatingInv
    <2> QED
      BY <1>2, <1>3, <1>8, <2>1
  <1> QED
    BY <1>3, <1>6, <1>7, <1>8

LEMMA ModeNext ==
    ASSUME LoopBase, AgreeInv, ModeInv, [MNext]_allvars PROVE ModeInv'
  <1>1. CASE Asks \/ Works
    BY <1>1 DEF Asks, Works, ModeInv
  <1>2. CASE Schedules
    BY <1>2, SchedulerIos DEF Schedules, ModeInv, iosVars, mvars
  <1>3. CASE Waits
    BY <1>3, WaitTells DEF ModeInv
  <1>4. CASE Each \/ TakesBack
    <2>1. /\ ipc = "clear" /\ UNCHANGED <<mode, undoing, ok>>
          /\ mode \in {"activate", "deactivate", "undo"}
      BY <1>4 DEF Each, TakesBack
    <2>2. ipc' = ipc \/ ipc' = (IF mode = "undo" THEN "deactivate" ELSE mode)
      BY <1>4, LoopSwitches DEF vars, Sends
    <2> QED
      BY <2>1, <2>2 DEF ModeInv
  <1>5. CASE Refuses
    BY <1>5 DEF Refuses, ModeInv, vars
  <1>6. CASE ModuleDone \/ UNCHANGED allvars
    BY <1>6 DEF ModuleDone, ModeInv, vars, allvars, mvars
  <1>7. CASE \E m \in modules : \/ ModuleRequest("activate", m)
                                \/ ModuleRequest("deactivate", m)
                                \/ DeleteModule(m)
    BY <1>7 DEF ModuleRequest, DeleteModule, ModeInv
  <1> QED
    BY <1>1, <1>2, <1>3, <1>4, <1>5, <1>6, <1>7 DEF MNext, ModuleSteps

LEMMA LoopInit == MInit => LoopBase /\ ModeInv /\ AgreeInv
  <1> SUFFICES ASSUME MInit PROVE LoopBase /\ ModeInv /\ AgreeInv
    OBVIOUS
  <1>1. Init /\ mode = "none"
    BY DEF MInit
  <1> QED
    BY <1>1, ModuleInit, PairInit, InputsInit, MineInit, AgreeInit DEF LoopBase, LoopQuiet, ModeInv

\* The same (Agreement) with requests about whole modules, of which Ios may have
\* to take back a part.
THEOREM ModulesAgree == ASSUME Paced, Again = {} PROVE MSpec => []Agreement
  <1> DEFINE I == LoopBase /\ ModeInv /\ AgreeInv
  <1>1. MInit => I
    BY LoopInit
  <1>2. I /\ [MNext]_allvars => I'
    BY LoopBaseNext, ModeNext, AgreeModules
  <1>3. I => Agreement
    BY LoopBaseHas, AgreeRest
  <1> QED
    BY <1>1, <1>2, <1>3, PTL DEF MSpec

-----------------------------------------------------------------------------
(* A request about a module is done whole or taken back                     *)

\* While Ios waits for one query, the scheduler switches no other.
LEMMA SchedulerSwitches ==
    ASSUME BaseInv, TypeInv', AgreeInv, ipc \in {"activate", "deactivate"}, Scheduler
    PROVE  /\ ipc = "activate" => active \subseteq active' /\ active' \subseteq active \cup {arg}
           /\ ipc = "deactivate" => active' \subseteq active
  <1>1. TypeInv /\ QueueInv /\ ipc \in Awaits
    BY DEF BaseInv, AgreeInv, Awaits
  <1>2. CASE HandleActivate
    <2>1. PICK m \in ToSet(qBuf) : HandleActivate!(m)
      BY <1>2 DEF HandleActivate
    <2>2. Takes(m, ACTIVATE_QUERY) /\ ioBuf' = ioBuf /\ (active' = active \/ active' = active \cup {m.arg})
      BY <2>1
    <2>3. IsCommand(m)
      BY <2>2 DEF Takes, IsCommand, ACTIVATE_QUERY, DROP_QUERY, ADDED_BUFFER, DEACTIVATE_QUERY
    <2>4. <<ipc, ACTIVATE_QUERY>> \in Requests /\ m.arg = arg
      BY <1>1, <2>2, <2>3, CommandTaken
    <2>5. ipc = "activate"
      BY <2>4 DEF Requests, ADD_QUERY, ACTIVATE_QUERY, DEACTIVATE_QUERY, ADD_DECLARE,
         DROP_DECLARE, GET_COMPONENTS
    <2> QED
      BY <2>2, <2>4, <2>5
  <1>3. CASE HandleDeactivate
    <2>1. PICK m \in ToSet(qBuf) : HandleDeactivate!(m)
      BY <1>3 DEF HandleDeactivate
    <2>2. Takes(m, DEACTIVATE_QUERY) /\ ioBuf' = ioBuf /\ active' = active \ {m.arg}
      BY <2>1
    <2>3. IsCommand(m)
      <3>1. m \in Queue /\ m.code = DEACTIVATE_QUERY
        BY <2>2 DEF Takes, Queue
      <3>2. DEACTIVATE_QUERY # ADDED_BUFFER
        BY DEF DEACTIVATE_QUERY, ADDED_BUFFER
      <3> QED
        BY <1>1, <3>1, <3>2 DEF QueueInv
    <2>4. <<ipc, DEACTIVATE_QUERY>> \in Requests
      BY <1>1, <2>2, <2>3, CommandTaken
    <2>5. ipc = "deactivate"
      BY <2>4 DEF Requests, ADD_QUERY, ACTIVATE_QUERY, DEACTIVATE_QUERY, ADD_DECLARE,
         DROP_DECLARE, GET_COMPONENTS
    <2> QED
      BY <2>2, <2>5
  <1>4. CASE HandleDropQuery
    <2>1. PICK m \in ToSet(qBuf) : Takes(m, DROP_QUERY)
      BY <1>4 DEF HandleDropQuery
    <2>2. m \in Queue /\ ~IsCommand(m) /\ m.code # ADDED_BUFFER
      BY <2>1 DEF Takes, Queue, IsCommand, DROP_QUERY, ADDED_BUFFER
    <2> QED
      BY <1>1, <2>2 DEF QueueInv
  <1>5. CASE ~HandleActivate /\ ~HandleDeactivate /\ ~HandleDropQuery
    BY <1>5 DEF Scheduler, PutReply, HandleAddQuery, HandleAddDeclare, DeclareAdded, DeclareEnds,
       HandleDropDeclare, HandleGetComponents, HandleUnknown, schVars
  <1> QED
    BY <1>2, <1>3, <1>4, <1>5

\* The queries that are done are as they should be, but for the one Ios waits
\* for; what has to be taken back is still to come.
WholeInv ==
    /\ mode = "activate" =>
         /\ active \subseteq before \cup ToSet(did)
         /\ ipc = "clear" /\ ok => ToSet(did) \subseteq active
         /\ ipc = "activate" => /\ ok /\ did # << >> /\ Last(did) = arg
                                /\ ToSet(Front(did)) \subseteq active
         /\ ~ok => did # << >> /\ active \subseteq before \cup ToSet(Front(did))
    /\ mode = "deactivate" =>
         ToSet(did) \cap active \subseteq IF ipc = "clear" THEN {} ELSE {arg}
    /\ mode = "undo" =>
         active \subseteq before \cup ToSet(rest) \cup IF ipc = "clear" THEN {} ELSE {arg}

\* Between two commands Ios knows which queries are active.
LEMMA LoopKnows ==
    ASSUME LoopBase, AgreeInv, mode # "none", ipc = "clear"
    PROVE  isActive = active
  <1>1. TypeInv /\ FreshInv /\ Quiet
    BY LoopBaseHas DEF LoopBase, LoopQuiet
  <1>2. Queue = {} /\ ToSet(batch) = {} /\ \A q \in Query : ~Adds(q) /\ ~Switches(q)
    BY <1>1, QuietFacts
  <1>3. \A q \in Query : q \in active <=> q \in isActive
    BY <1>2 DEF AgreeInv, StmtInv, Dropping
  <1>4. active \subseteq Query /\ isActive \subseteq Query
    BY <1>1 DEF TypeInv, TypeOK
  <1> QED
    BY <1>3, <1>4

LEMMA WholeSchedules ==
    ASSUME LoopBase, LoopBase', ModeInv, AgreeInv, WholeInv, Schedules PROVE WholeInv'
  <1>1. Scheduler /\ UNCHANGED <<mode, ok, did, rest, before, ipc, arg>>
    BY SchedulerIos DEF Schedules, mvars, iosVars
  <1>2. CASE mode = "none"
    BY <1>1, <1>2 DEF WholeInv
  <1>3. CASE mode # "none"
    <2>1. ipc \in {"activate", "deactivate"} /\ mode \in {"activate", "deactivate", "undo"}
      BY <1>1, <1>3, QuietRests DEF LoopBase, LoopQuiet, ModuleInv, LoopInv
    <2>2. /\ ipc = "activate" => active \subseteq active' /\ active' \subseteq active \cup {arg}
          /\ ipc = "deactivate" => active' \subseteq active
      BY <1>1, <2>1, LoopBaseHas, SchedulerSwitches DEF LoopBase, ModuleInv
    <2>3. CASE mode = "activate"
      <3>1. /\ ipc = "activate" /\ ok /\ did # << >> /\ Last(did) = arg /\ did \in Seq(Query)
            /\ ToSet(Front(did)) \subseteq active /\ active \subseteq before \cup ToSet(did)
        BY <2>1, <2>3 DEF ModeInv, WholeInv, LoopBase, ModuleInv, LoopInv
      <3>2. arg \in ToSet(did)
        BY <3>1, FrontSeq
      <3> QED
        BY <1>1, <2>2, <2>3, <3>1, <3>2 DEF WholeInv
    <2>4. CASE mode = "deactivate"
      BY <1>1, <2>1, <2>2, <2>4 DEF ModeInv, WholeInv
    <2>5. CASE mode = "undo"
      BY <1>1, <2>1, <2>2, <2>5 DEF ModeInv, WholeInv
    <2> QED
      BY <2>1, <2>3, <2>4, <2>5
  <1> QED
    BY <1>2, <1>3

LEMMA WholeWaits ==
    ASSUME LoopBase, ModeInv, AgreeInv, WholeInv, Waits PROVE WholeInv'
  <1>1. /\ UNCHANGED <<active, mode, did, rest, before, arg>>
        /\ \/ ipc' = ipc /\ (ok' <=> ok) /\ ipc \in {"activate", "deactivate"}
           \/ ipc' = "clear" /\ ipc = "activate" /\ (ok' <=> arg \in active)
           \/ ipc' = "clear" /\ ipc = "deactivate" /\ ok' /\ arg \notin active
    BY WaitTells
  <1>2. did \in Seq(Query) /\ mode \in {"activate", "deactivate", "undo"}
    BY DEF Waits, LoopBase, ModuleInv, LoopInv
  <1>3. CASE mode = "activate"
    <2>1. /\ ipc = "activate" /\ ok /\ did # << >> /\ Last(did) = arg
          /\ ToSet(Front(did)) \subseteq active /\ active \subseteq before \cup ToSet(did)
      BY <1>1, <1>3 DEF ModeInv, WholeInv
    <2>2. ToSet(did) = ToSet(Front(did)) \cup {arg}
      BY <1>2, <2>1, FrontSeq
    <2> QED
      BY <1>1, <1>3, <2>1, <2>2 DEF WholeInv
  <1>4. CASE mode = "deactivate"
    BY <1>1, <1>4 DEF ModeInv, WholeInv
  <1>5. CASE mode = "undo"
    BY <1>1, <1>5 DEF ModeInv, WholeInv
  <1> QED
    BY <1>2, <1>3, <1>4, <1>5

LEMMA WholeEach ==
    ASSUME LoopBase, ModeInv, AgreeInv, WholeInv, Each PROVE WholeInv'
  <1> DEFINE q == Head(rest)
  <1>1. /\ mode \in {"activate", "deactivate"} /\ ipc = "clear" /\ ok /\ rest # << >>
        /\ did' = Append(did, q) /\ UNCHANGED <<mode, ok, before>>
        /\ \/ UNCHANGED vars /\ ((q \in isActive) = (mode = "activate"))
           \/ Sends(mode, q, Code(mode)) /\ active' = active
    BY DEF Each, Start, schVars
  <1>2. isActive = active
    BY <1>1, LoopKnows
  <1>3. did \in Seq(Query) /\ q \in Query
    <2>1. rest \in Seq(Query)
      BY DEF LoopBase, ModuleInv, LoopInv
    <2> QED
      BY <1>1, <2>1 DEF LoopBase, ModuleInv, LoopInv
  <1> HIDE DEF q
  <1>4. /\ ToSet(Append(did, q)) = ToSet(did) \cup {q} /\ Append(did, q) # << >>
        /\ Front(Append(did, q)) = did /\ Last(Append(did, q)) = q
    BY <1>3, ToSetAppend, FrontAppend
  <1>5. /\ ToSet(did') = ToSet(did) \cup {q} /\ did' # << >>
        /\ Front(did') = did /\ Last(did') = q
    BY <1>1, <1>4
  <1>6. CASE UNCHANGED vars /\ ((q \in isActive) = (mode = "activate"))
    <2>1. active' = active /\ ipc' = ipc
      BY <1>6 DEF vars
    <2>2. q \in active <=> mode = "activate"
      BY <1>2, <1>6
    <2> QED
      BY <1>1, <1>5, <2>1, <2>2 DEF WholeInv
  <1>7. CASE Sends(mode, q, Code(mode)) /\ active' = active
    <2>1. ipc' = mode /\ arg' = q
      BY <1>7 DEF Sends
    <2> QED
      BY <1>1, <1>5, <1>7, <2>1 DEF WholeInv
  <1> QED
    BY <1>1, <1>6, <1>7

LEMMA WholeTakesBack ==
    ASSUME LoopBase, ModeInv, AgreeInv, WholeInv, TakesBack PROVE WholeInv'
  <1> DEFINE q == Head(rest)
  <1>1. mode = "undo" /\ ipc = "clear" /\ rest # << >> /\ rest' = Tail(rest)
        /\ UNCHANGED <<mode, before>> /\ undoing = "activate"
    BY DEF TakesBack, ModeInv
  <1>2. \/ UNCHANGED vars /\ q \notin isActive
        \/ ipc' = "deactivate" /\ arg' = q /\ active' = active
    BY <1>1 DEF TakesBack, Start, Sends, schVars
  <1>3. isActive = active
    BY <1>1, LoopKnows
  <1>4. rest \in Seq(Query)
    BY DEF LoopBase, ModuleInv, LoopInv
  <1>5. ToSet(rest) = ToSet(rest') \cup {q}
    BY <1>1, <1>4, ToSetTail
  <1> HIDE DEF q
  <1>6. active \subseteq before \cup ToSet(rest)
    BY <1>1 DEF WholeInv
  <1> QED
    BY <1>1, <1>2, <1>3, <1>5, <1>6 DEF WholeInv, vars

LEMMA WholeNext ==
    ASSUME LoopBase, LoopBase', ModeInv, AgreeInv, WholeInv, [MNext]_allvars PROVE WholeInv'
  <1>1. CASE Asks \/ Works \/ ModuleDone \/ \E m \in modules : DeleteModule(m)
    BY <1>1 DEF Asks, Works, ModuleDone, DeleteModule, WholeInv
  <1>2. CASE \E m \in modules : ModuleRequest("activate", m) \/ ModuleRequest("deactivate", m)
    <2>1. /\ mode' \in {"activate", "deactivate"} /\ did' = << >> /\ ok' = TRUE
          /\ before' = active /\ active' = active /\ ipc' = "clear"
      BY <1>2 DEF ModuleRequest, schVars
    <2>2. ToSet(did') = {}
      BY <2>1 DEF ToSet
    <2> QED
      BY <2>1, <2>2 DEF WholeInv
  <1>3. CASE Refuses
    <2>1. /\ mode = "activate" /\ ~ok /\ mode' = "undo" /\ rest' = Front(did) /\ ipc = "clear"
          /\ UNCHANGED <<ipc, active, before>>
      BY <1>3 DEF Refuses, ModeInv, vars
    <2> QED
      BY <2>1 DEF WholeInv
  <1>4. CASE UNCHANGED allvars
    BY <1>4 DEF allvars, vars, mvars, WholeInv
  <1> QED
    BY <1>1, <1>2, <1>3, <1>4, WholeSchedules, WholeWaits, WholeEach, WholeTakesBack
       DEF MNext, ModuleSteps

\* A request about a module ends with all of its queries active in the scheduler,
\* or none of them, or, when one was refused, none active that was not active
\* before (ModuleWhole), for modules of any size.
THEOREM ModulesWhole == ASSUME Paced, Again = {} PROVE MSpec => []ModuleWhole
  <1> DEFINE I == LoopBase /\ ModeInv /\ AgreeInv /\ WholeInv
  <1>1. MInit => I
    BY LoopInit DEF MInit, WholeInv
  <1>2. I /\ [MNext]_allvars => I'
    BY LoopBaseNext, ModeNext, AgreeModules, WholeNext
  <1>3. I => ModuleWhole
    <2> SUFFICES ASSUME I, ipc = "clear", rest = << >>
                 PROVE  ModuleWhole
      BY DEF ModuleWhole
    <2>1. ToSet(rest) = {}
      BY DEF ToSet
    <2> QED
      BY <2>1 DEF ModuleWhole, WholeInv
  <1> QED
    BY <1>1, <1>2, <1>3, PTL DEF MSpec

-----------------------------------------------------------------------------
(* Restart, for all statements and any number of crashes, of the whole     *)
(* system or of the scheduler alone, at any step.                          *)

\* The statement Ios is adding.
Adding == IF ipc \in {"query", "table", "stream"} THEN {arg} ELSE {}

\* No stream is declared twice.
Once == \A i, j \in DOMAIN streams : streams[i] = streams[j] => i = j

\* A record is in memory, or was given up, or waits to be read, or is a ghost:
\* no two of the first three, and a ghost is not in memory.
RecordsInv ==
    /\ disk \subseteq Query \cup Stream \cup Table
    /\ ghosts \subseteq disk \ InMemory
    /\ refused \subseteq disk \ InMemory
    /\ todo \subseteq disk \ (InMemory \cup refused)
    /\ InMemory \subseteq disk
    /\ Once

\* In the main loop what is being added has no record yet.
MainInv == ~recovering =>
    /\ todo = {}
    /\ (Adding \cup ToSet(batch)) \cap disk = {}
    /\ disk \subseteq ghosts \cup InMemory \cup refused

\* During recovery every record is accounted for, ghosts are never passed, and
\* when the first query is read no table or stream is left.
RecoveryInv == recovering =>
    /\ ipc \in {"clear", "table", "stream", "query"}
    /\ batch = << >> /\ active = {}
    /\ \A i \in DOMAIN qBuf : qBuf[i].code # ACTIVATE_QUERY
    /\ Adding \subseteq disk \ (InMemory \cup refused \cup todo)
    /\ ghosts \subseteq todo
    /\ disk \subseteq InMemory \cup refused \cup todo \cup Adding
    /\ ipc = "query" => todo \subseteq Query

HistoryOK ==
    recovering \in BOOLEAN /\ apart \in BOOLEAN /\ cut \in BOOLEAN
    /\ crashes \in 0 .. MaxCrashes

RestartInv == TypeInv /\ RecordsInv /\ MainInv /\ RecoveryInv /\ HistoryOK

-----------------------------------------------------------------------------
\* What a step of Ios outside recovery does to its lists.
IosKeeps ==
    /\ UNCHANGED <<known, streams, tables>>
    /\ Adding' \cup ToSet(batch') \subseteq Adding \cup ToSet(batch)
IosAddsQueries ==
    /\ known' = known \cup ToSet(batch) /\ batch' = << >> /\ ipc' = "clear"
    /\ UNCHANGED <<streams, tables>>
IosAddsTable ==
    /\ ipc = "table" /\ tables' = Append(tables, arg) /\ ipc' = "clear"
    /\ UNCHANGED <<known, streams, batch>>
IosAddsStream ==
    /\ ipc = "stream" /\ streams' = Append(streams, arg) /\ ipc' = "clear"
    /\ UNCHANGED <<known, tables, batch>>
IosDropsStream ==
    /\ ipc = "undeclare" /\ streams' = RemoveFirst(streams, arg)
    /\ ipc' = "clear" /\ UNCHANGED <<known, tables, batch>>

LEMMA IosLists ==
    ASSUME TypeInv, Ios
    PROVE  \/ IosKeeps \/ IosAddsQueries \/ IosAddsTable \/ IosAddsStream
           \/ IosDropsStream
  <1>1. CASE NoRequest \/ ClearOne \/ ClearDone \/ PollStdout
    BY <1>1 DEF NoRequest, ClearOne, ClearDone, PollStdout, iosVars, IosKeeps, Adding
  <1>2. ASSUME NEW k, NEW m, Forward(k, m) PROVE IosKeeps
    BY <1>2 DEF Forward, IosKeeps, Adding
  <1>3. ASSUME NEW k, NEW m, NEW C, Other(k, m, C) PROVE IosKeeps
    BY <1>3 DEF Other, iosVars, IosKeeps, Adding
  <1>4. CASE QueryLoop
    <2>1. PICK m \in ToSet(ioBuf) : QueryLoop!(m)
      BY <1>4 DEF QueryLoop
    <2>2. CASE QueryLoop!(m)!1
      <3>1. ipc = "query" /\ arg \in Query /\ batch \in Seq(Query)
        BY <2>2 DEF Sees, TypeInv, TypeOK, ArgOK
      <3>2. ToSet(Append(batch, arg)) = ToSet(batch) \cup {arg}
        BY <3>1, ToSetAppend
      <3> QED
        BY <2>2, <3>1, <3>2 DEF IosKeeps, Adding
    <2>3. CASE QueryLoop!(m)!2 \/ QueryLoop!(m)!3
      BY <2>3 DEF IosKeeps, Adding
    <2> QED
      BY <1>2, <1>3, <2>1, <2>2, <2>3
  <1>5. CASE QueriesAdded
    BY <1>5 DEF QueriesAdded, IosAddsQueries
  <1>6. CASE QueriesDropped
    <2>1. batch # << >> => ToSet(Tail(batch)) \subseteq ToSet(batch)
      <3>1. batch \in Seq(Query)
        BY DEF TypeInv, TypeOK
      <3>2. ASSUME batch # << >>, NEW i \in DOMAIN Tail(batch)
            PROVE  i + 1 \in DOMAIN batch /\ Tail(batch)[i] = batch[i + 1]
        BY <3>1, <3>2
      <3> QED
        BY <3>2 DEF ToSet
    <2>2. ToSet(batch') \subseteq ToSet(batch) /\ ipc' \in {"clear", "rollback"}
      BY <1>6, <2>1 DEF QueriesDropped
    <2> QED
      BY <1>6, <2>2 DEF QueriesDropped, IosKeeps, Adding
  <1>7. CASE ActivateLoop \/ DeactivateLoop
    <2>1. UNCHANGED <<known, streams, tables, batch, arg>> /\ ipc' \in {ipc, "clear"}
      BY <1>7 DEF ActivateLoop, DeactivateLoop, Other, iosVars
    <2> QED
      BY <2>1 DEF IosKeeps, Adding
  <1>8. CASE TableLoop
    <2>1. PICK m \in ToSet(ioBuf) : TableLoop!(m)
      BY <1>8 DEF TableLoop
    <2>2. CASE TableLoop!(m)!1
      BY <2>2 DEF IosKeeps, IosAddsTable, Adding, Sees
    <2> QED
      BY <1>2, <1>3, <2>1, <2>2
  <1>9. CASE StreamLoop
    <2>1. PICK m \in ToSet(ioBuf) : StreamLoop!(m)
      BY <1>9 DEF StreamLoop
    <2>2. CASE StreamLoop!(m)!1
      BY <2>2 DEF IosAddsStream, Sees
    <2>3. CASE StreamLoop!(m)!2
      BY <2>3 DEF IosKeeps, Adding
    <2> QED
      BY <1>2, <1>3, <2>1, <2>2, <2>3
  <1>10. CASE StreamUndo \/ ComponentsReply
    BY <1>10 DEF StreamUndo, ComponentsReply, Glance, IosKeeps, Adding
  <1>11. CASE DeleteReply
    <2>1. PICK m \in ToSet(ioBuf) : DeleteReply!(m)
      BY <1>11 DEF DeleteReply
    <2> QED
      BY <2>1 DEF Glance, Sees, IosKeeps, IosDropsStream, Adding
  <1> QED
    BY <1>1, <1>4, <1>5, <1>6, <1>7, <1>8, <1>9, <1>10, <1>11 DEF Ios, IosReads

-----------------------------------------------------------------------------
(* Between crashes                                                          *)

\* The records and the lists after a step of Ios in its main loop.
LEMMA MainLists ==
    ASSUME RestartInv, TypeInv', ~recovering, Saved \/ Outlived,
           UNCHANGED <<recovering, todo, past>>,
           \/ IosKeeps \/ IosAddsQueries \/ IosAddsTable \/ IosAddsStream
           \/ IosDropsStream
    PROVE  RestartInv'
  <1>1. /\ batch \in Seq(Query) /\ streams \in Seq(Stream) /\ tables \in Seq(Table)
        /\ known \subseteq Query /\ ToSet(streams) \subseteq Stream
        /\ ToSet(tables) \subseteq Table /\ ToSet(batch) \subseteq Query
        /\ ArgOK
    BY ToSetSeq DEF RestartInv, TypeInv, TypeOK
  <1>2. /\ todo = {} /\ (Adding \cup ToSet(batch)) \cap disk = {}
        /\ disk \subseteq ghosts \cup InMemory \cup refused
        /\ RecordsInv
    BY DEF RestartInv, MainInv
  <1>3. HistoryOK' /\ ~recovering' /\ todo' = {} /\ refused' = refused
    BY <1>2 DEF RestartInv, HistoryOK, past
  <1>4. SUFFICES RecordsInv' /\ (Adding' \cup ToSet(batch')) \cap disk' = {}
                 /\ disk' \subseteq ghosts' \cup InMemory' \cup refused
    BY <1>3 DEF RestartInv, MainInv, RecoveryInv
  <1>d. Query \cap Stream = {} /\ Query \cap Table = {} /\ Stream \cap Table = {}
    BY RestartAssumption
  <1>5. CASE IosKeeps
    <2>1. InMemory' = InMemory /\ UNCHANGED <<streams, disk, ghosts>>
      BY <1>2, <1>5 DEF IosKeeps, InMemory, Saved, Outlived, RecordsInv
    <2>2. Once'
      BY <1>2, <2>1 DEF RecordsInv, Once
    <2> QED
      BY <1>2, <1>3, <1>5, <2>1, <2>2 DEF RecordsInv, IosKeeps
  <1>6. CASE IosAddsQueries
    <2>1. InMemory' = InMemory \cup ToSet(batch) /\ Adding' = {} /\ ToSet(batch') = {}
      BY <1>6 DEF IosAddsQueries, InMemory, Adding, ToSet
    <2>2. ToSet(batch) \cap InMemory = {}
      BY <1>2 DEF RecordsInv
    <2>3. disk' = disk \cup ToSet(batch) /\ ghosts' = ghosts
      BY <1>6, <2>1, <2>2 DEF IosAddsQueries, Saved, Outlived
    <2>4. Once'
      BY <1>2, <1>6 DEF RecordsInv, Once, IosAddsQueries
    <2> QED
      BY <1>1, <1>2, <1>3, <2>1, <2>2, <2>3, <2>4 DEF RecordsInv
  <1>7. CASE IosAddsTable
    <2>1. arg \in Table /\ Adding = {arg} /\ Adding' = {} /\ batch' = batch
      BY <1>1, <1>7 DEF IosAddsTable, ArgOK, Adding
    <2>2. ToSet(tables') = ToSet(tables) \cup {arg}
      BY <1>1, <1>7, <2>1, ToSetAppend DEF IosAddsTable
    <2>3. InMemory' = InMemory \cup {arg} /\ arg \notin disk /\ arg \notin InMemory
      BY <1>2, <1>7, <2>1, <2>2 DEF IosAddsTable, InMemory, RecordsInv
    <2>4. disk' = disk \cup {arg} /\ ghosts' = ghosts
      BY <1>7, <2>3 DEF IosAddsTable, Saved, Outlived
    <2>5. Once'
      BY <1>2, <1>7 DEF RecordsInv, Once, IosAddsTable
    <2> QED
      BY <1>1, <1>2, <1>3, <1>d, <2>1, <2>3, <2>4, <2>5 DEF RecordsInv
  <1>8. CASE IosAddsStream
    <2>1. arg \in Stream /\ Adding = {arg} /\ Adding' = {} /\ batch' = batch
      BY <1>1, <1>8 DEF IosAddsStream, ArgOK, Adding
    <2>2. ToSet(streams') = ToSet(streams) \cup {arg}
      BY <1>1, <1>8, <2>1, ToSetAppend DEF IosAddsStream
    <2>3. InMemory' = InMemory \cup {arg} /\ arg \notin disk /\ arg \notin InMemory
          /\ arg \notin ToSet(streams)
      BY <1>2, <1>8, <2>1, <2>2 DEF IosAddsStream, InMemory, RecordsInv
    <2>4. disk' = disk \cup {arg} /\ ghosts' = ghosts
      BY <1>8, <2>3 DEF IosAddsStream, Saved, Outlived
    <2>5. Once'
      <3>1. \A i, j \in DOMAIN streams : streams[i] = streams[j] => i = j
        BY <1>2 DEF RecordsInv, Once
      <3>2. \A i, j \in DOMAIN Append(streams, arg) :
               Append(streams, arg)[i] = Append(streams, arg)[j] => i = j
        BY <1>1, <2>1, <2>3, <3>1, OnceAppend
      <3> QED
        BY <1>8, <3>2 DEF Once, IosAddsStream
    <2> QED
      BY <1>1, <1>2, <1>3, <1>d, <2>1, <2>3, <2>4, <2>5 DEF RecordsInv
  <1>9. CASE IosDropsStream
    <2>1. \A i, j \in DOMAIN streams : streams[i] = streams[j] => i = j
      BY <1>2 DEF RecordsInv, Once
    <2>2. ToSet(streams') = ToSet(streams) \ {arg} /\ Once'
      BY <1>1, <1>9, <2>1, RemoveFirstSeq DEF IosDropsStream, Once
    <2>3. Adding = {} /\ Adding' = {} /\ batch' = batch
      BY <1>9 DEF IosDropsStream, Adding
    <2>4. CASE arg \in ToSet(streams)
      <3>1. InMemory' = InMemory \ {arg} /\ arg \in InMemory
        BY <1>1, <1>9, <1>d, <2>2, <2>4 DEF IosDropsStream, InMemory
      <3>2. \/ disk' = disk \ {arg} /\ ghosts' = ghosts
            \/ disk' = disk /\ ghosts' = ghosts \cup {arg}
        BY <3>1 DEF Saved, Outlived
      <3> QED
        BY <1>2, <1>3, <2>2, <2>3, <3>1, <3>2 DEF RecordsInv
    <2>5. CASE arg \notin ToSet(streams)
      <3>1. streams' = streams
        <4>1. ~ \E i \in 1 .. Len(streams) : streams[i] = arg
          BY <1>1, <2>5 DEF ToSet
        <4> QED
          BY <1>9, <4>1 DEF IosDropsStream, RemoveFirst
      <3>2. InMemory' = InMemory /\ UNCHANGED <<disk, ghosts>>
        BY <1>2, <1>9, <3>1 DEF IosDropsStream, InMemory, Saved, Outlived, RecordsInv
      <3> QED
        BY <1>2, <1>3, <2>2, <2>3, <3>2 DEF RecordsInv
    <2> QED
      BY <2>4, <2>5
  <1> QED
    BY <1>5, <1>6, <1>7, <1>8, <1>9

LEMMA RestartWorks ==
    ASSUME RestartInv, RWorks PROVE RestartInv'
  <1>1. TypeInv'
    BY TypeReads, TypeIdle DEF RestartInv, RWorks, Ios
  <1>2. \/ IosKeeps \/ IosAddsQueries \/ IosAddsTable \/ IosAddsStream
        \/ IosDropsStream
    BY IosLists DEF RestartInv, RWorks
  <1> QED
    BY <1>1, <1>2, MainLists DEF RWorks

LEMMA RestartAsks ==
    ASSUME RestartInv, RAsks PROVE RestartInv'
  <1>1. TypeInv' /\ ~recovering /\ Client /\ NewName
    BY TypeClient DEF RestartInv, RAsks
  <1>2. /\ ipc \in {"ready", "more"} /\ UNCHANGED <<streams, tables, batch>>
        /\ UNCHANGED known \/ (\E q \in known : known' = known \ {q} /\ ipc' = "clear")
    BY <1>1 DEF Client, AddQueries, ActivateQuery, DeactivateQuery, DeleteQuery,
           AddTable, AddStream, DeleteStream, ViewComponents, MayStart
  <1>3. Saved /\ Adding' \cap disk = {}
    BY <1>1, <1>2 DEF RAsks, Outlived, NewName, Adding
  <1>4. /\ todo = {} /\ ToSet(batch) \cap disk = {}
        /\ disk \subseteq ghosts \cup InMemory \cup refused
        /\ RecordsInv
    BY <1>1 DEF RestartInv, MainInv
  <1>5. HistoryOK' /\ ~recovering' /\ todo' = {} /\ refused' = refused
    BY <1>1, <1>4 DEF RestartInv, HistoryOK, past, RAsks
  <1>6. InMemory' \subseteq InMemory /\ disk' = disk \ (InMemory \ InMemory')
        /\ ghosts' = ghosts
    BY <1>2, <1>3 DEF InMemory, Saved
  <1>7. Once'
    BY <1>2, <1>4 DEF RecordsInv, Once
  <1>8. RecordsInv'
    BY <1>4, <1>5, <1>6, <1>7 DEF RecordsInv
  <1>9. (Adding' \cup ToSet(batch')) \cap disk' = {}
    BY <1>2, <1>3, <1>4, <1>6
  <1>10. disk' \subseteq ghosts' \cup InMemory' \cup refused'
    BY <1>4, <1>5, <1>6
  <1> QED
    BY <1>1, <1>5, <1>8, <1>9, <1>10 DEF RestartInv, MainInv, RecoveryInv

\* The scheduler touches no record, and activates nothing during recovery.
LEMMA RestartSchedules ==
    ASSUME RestartInv, RSchedules PROVE RestartInv'
  <1>1. TypeInv'
    BY TypeScheduler DEF RestartInv, RSchedules
  <1>2. UNCHANGED <<iosVars, disk, ghosts, recovering, todo, past>>
    BY DEF RSchedules, Scheduler, PutReply, HandleAddQuery, HandleAddDeclare,
           DeclareAdded, DeclareEnds, HandleActivate, HandleDeactivate,
           HandleDropQuery, HandleDropDeclare, HandleGetComponents, HandleUnknown
  <1>3. UNCHANGED <<ipc, arg, got, batch, known, isActive, streams, tables>>
    BY <1>2 DEF iosVars
  <1>4. RecordsInv' /\ MainInv' /\ HistoryOK'
    BY <1>2, <1>3 DEF RestartInv, RecordsInv, MainInv, HistoryOK, past, InMemory,
                      Adding, Once
  <1>5. ASSUME recovering
        PROVE  active' = {} /\ \A i \in DOMAIN qBuf' : qBuf'[i].code # ACTIVATE_QUERY
    <2>1. /\ qBuf \in Seq(Message) /\ active = {}
          /\ \A i \in DOMAIN qBuf : qBuf[i].code # ACTIVATE_QUERY
      BY <1>5 DEF RestartInv, TypeInv, TypeOK, RecoveryInv
    <2>2. qBuf' \in {qBuf, Tail(qBuf)} /\ (qBuf' = qBuf \/ qBuf # << >>)
      <3>1. CASE PutReply \/ DeclareEnds
        BY <3>1 DEF PutReply, DeclareEnds
      <3>2. ASSUME NEW m, NEW c, Takes(m, c) PROVE qBuf' = Tail(qBuf) /\ qBuf # << >>
        BY <3>2 DEF Takes
      <3>3. CASE DeclareAdded
        <4>1. PICK m \in ToSet(qBuf) : qBuf' = Tail(qBuf)
          BY <3>3 DEF DeclareAdded
        <4>2. qBuf # << >>
          BY <4>1 DEF ToSet
        <4> QED
          BY <4>1, <4>2
      <3>4. CASE HandleAddQuery \/ HandleAddDeclare \/ HandleActivate
                 \/ HandleDeactivate
        BY <3>2, <3>4 DEF HandleAddQuery, HandleAddDeclare, HandleActivate,
                          HandleDeactivate
      <3>5. CASE HandleDropQuery \/ HandleDropDeclare \/ HandleGetComponents
                 \/ HandleUnknown
        BY <3>2, <3>5 DEF HandleDropQuery, HandleDropDeclare, HandleGetComponents,
                          HandleUnknown
      <3> QED
        BY <3>1, <3>3, <3>4, <3>5 DEF RSchedules, Scheduler
    <2>3. \A i \in DOMAIN qBuf' : qBuf'[i].code # ACTIVATE_QUERY
      <3>1. CASE qBuf' = qBuf
        BY <2>1, <3>1
      <3>2. CASE qBuf # << >> /\ qBuf' = Tail(qBuf)
        <4>1. \A i \in DOMAIN Tail(qBuf) :
                 i + 1 \in DOMAIN qBuf /\ Tail(qBuf)[i] = qBuf[i + 1]
          BY <2>1, <3>2
        <4> QED
          BY <2>1, <3>2, <4>1
      <3> QED
        BY <2>2, <3>1, <3>2
    <2>4. ~ HandleActivate
      <3>1. qBuf # << >> => Head(qBuf).code # ACTIVATE_QUERY
        BY <2>1
      <3> QED
        BY <3>1 DEF HandleActivate, Takes
    <2>5. active' \subseteq active
      BY <2>4 DEF RSchedules, Scheduler, PutReply, HandleAddQuery, HandleAddDeclare,
           DeclareAdded, DeclareEnds, HandleDeactivate,
           HandleDropQuery, HandleDropDeclare, HandleGetComponents, HandleUnknown,
           schVars
    <2> QED
      BY <2>1, <2>3, <2>5
  <1>6. RecoveryInv'
    BY <1>2, <1>3, <1>5 DEF RestartInv, RecoveryInv, past, InMemory, Adding
  <1> QED
    BY <1>1, <1>4, <1>6 DEF RestartInv

-----------------------------------------------------------------------------
(* Recovery                                                                 *)

LEMMA NoActivate ==
    ASSUME NEW s \in Seq(Message), NEW c \in 0 .. 21, NEW x \in Names,
           c # ACTIVATE_QUERY, \A i \in DOMAIN s : s[i].code # ACTIVATE_QUERY
    PROVE  \A i \in DOMAIN Append(s, Msg(c, x)) :
              Append(s, Msg(c, x))[i].code # ACTIVATE_QUERY
  <1> DEFINE m == Msg(c, x)
  <1>1. m \in Message /\ m.code = c
    BY MsgType
  <1> HIDE DEF m
  <1> DEFINE t == Append(s, m)
  <1>2. /\ DOMAIN t = 1 .. Len(s) + 1 /\ DOMAIN s = 1 .. Len(s)
        /\ \A i \in 1 .. Len(s) : t[i] = s[i]
        /\ t[Len(s) + 1] = m /\ Len(s) \in Nat
    BY <1>1, AppendAt
  <1> HIDE DEF t
  <1>3. \A i \in DOMAIN t : i \in DOMAIN s \/ i = Len(s) + 1
    BY <1>2
  <1>4. \A i \in DOMAIN t : t[i].code # ACTIVATE_QUERY
    BY <1>1, <1>2, <1>3
  <1> QED
    BY <1>4 DEF t, m

\* A step of recovery that gets no further than the statement being added.
LEMMA RecoveryKeeps ==
    ASSUME RestartInv, recovering, TypeInv',
           UNCHANGED <<ipc, arg, batch, known, streams, tables, active, disk, ghosts,
                       recovering, todo, past>>,
           \A i \in DOMAIN qBuf' : qBuf'[i].code # ACTIVATE_QUERY
    PROVE  RestartInv'
  <1>1. RecordsInv' /\ HistoryOK' /\ MainInv'
    BY DEF RestartInv, RecordsInv, HistoryOK, past, InMemory, Once, MainInv
  <1>2. RecoveryInv'
    BY DEF RestartInv, RecoveryInv, past, InMemory, Adding
  <1> QED
    BY <1>1, <1>2 DEF RestartInv

\* The statement being added is in memory now or was refused.
LEMMA RecoveryAdds ==
    ASSUME RestartInv, recovering, TypeInv',
           UNCHANGED <<batch, active, disk, ghosts, recovering, todo, apart, cut,
                       crashes>>,
           ipc' = "clear", Once',
           \/ InMemory' = InMemory \cup Adding /\ refused' = refused
           \/ InMemory' = InMemory /\ refused' = refused \cup Adding,
           \A i \in DOMAIN qBuf' : qBuf'[i].code # ACTIVATE_QUERY
    PROVE  RestartInv'
  <1>1. RecordsInv /\ RecoveryInv!2 /\ Adding' = {}
    BY DEF RestartInv, RecoveryInv, Adding
  <1>2. RecordsInv'
    BY <1>1 DEF RecordsInv
  <1>3. HistoryOK' /\ MainInv'
    BY DEF RestartInv, HistoryOK, MainInv
  <1>4. RecoveryInv'
    BY <1>1 DEF RecoveryInv
  <1> QED
    BY <1>2, <1>3, <1>4 DEF RestartInv

\* Forward and Other get no further.
LEMMA RecoveryLoops ==
    ASSUME RestartInv, recovering, NEW k, NEW m \in ToSet(ioBuf), NEW C,
           Forward(k, m) \/ Other(k, m, C),
           UNCHANGED <<schVars, pend, bufs, smine, lost, disk, ghosts, recovering,
                       todo, past>>
    PROVE  RestartInv'
  <1>1. TypeInv /\ qBuf \in Seq(Message) /\ m.arg \in Names
        /\ \A i \in DOMAIN qBuf : qBuf[i].code # ACTIVATE_QUERY
    BY SeenType DEF RestartInv, RecoveryInv, TypeInv, TypeOK
  <1>2. TypeInv'
    BY <1>1, TypeForward, TypeOther
  <1>3. UNCHANGED <<ipc, arg, batch, known, streams, tables, active>>
    BY DEF Forward, Other, iosVars, schVars
  <1>4. 20 \in 0 .. 21
    OBVIOUS
  <1>5. \A i \in DOMAIN Append(qBuf, Msg(ADDED_BUFFER, m.arg)) :
           Append(qBuf, Msg(ADDED_BUFFER, m.arg))[i].code # ACTIVATE_QUERY
    BY SMTT(60), <1>1, <1>4, NoActivate DEF ADDED_BUFFER, ACTIVATE_QUERY
  <1>6. qBuf' = qBuf \/ qBuf' = Append(qBuf, Msg(ADDED_BUFFER, m.arg))
    BY DEF Forward, Other
  <1>7. \A i \in DOMAIN qBuf' : qBuf'[i].code # ACTIVATE_QUERY
    BY <1>1, <1>5, <1>6
  <1> QED
    BY <1>2, <1>3, <1>7, RecoveryKeeps

\* A statement that ends with a COMPILE_ code.
LEMMA RecoveryReplies ==
    ASSUME RestartInv, recovering, NEW m \in ToSet(ioBuf), Reply(m),
           ipc \in {"query", "table", "stream"}, ipc' = "clear",
           NEW c \in {COMPILE_SUCCESS, COMPILE_FAILURE}, NEW x \in Names,
           qBuf' \in {qBuf, Append(qBuf, Msg(c, x))},
           UNCHANGED <<schVars, pend, bufs, smine, lost, disk, ghosts, recovering,
                       todo, apart, cut, crashes, arg, got, batch, isActive,
                       connected>>,
           \/ /\ \/ ipc = "query" /\ known' = known \cup {arg}
                    /\ UNCHANGED <<streams, tables>>
                 \/ ipc = "table" /\ tables' = Append(tables, arg)
                    /\ UNCHANGED <<known, streams>>
                 \/ ipc = "stream" /\ streams' = Append(streams, arg)
                    /\ UNCHANGED <<known, tables>>
              /\ refused' = refused
           \/ UNCHANGED <<known, streams, tables>> /\ refused' = refused \cup {arg}
    PROVE  RestartInv'
  <1>1. /\ TypeInv /\ TypeOK /\ qBuf \in Seq(Message) /\ ArgOK /\ batch = << >>
        /\ \A i \in DOMAIN qBuf : qBuf[i].code # ACTIVATE_QUERY
        /\ Adding = {arg} /\ arg \notin InMemory
    BY DEF RestartInv, RecoveryInv, TypeInv, TypeOK, Adding
  <1>2. c \in 0 .. 21 /\ c # ACTIVATE_QUERY /\ c \in Plain
    BY DEF COMPILE_SUCCESS, COMPILE_FAILURE, ACTIVATE_QUERY, ADD_QUERY, Plain
  <1>3. \A i \in DOMAIN qBuf' : qBuf'[i].code # ACTIVATE_QUERY
    BY <1>1, <1>2, NoActivate
  <1>4. /\ ipc = "query" => arg \in Query
        /\ ipc = "table" => arg \in Table
        /\ ipc = "stream" => arg \in Stream
    BY <1>1 DEF ArgOK
  <1>5. ipc = "table" => /\ Append(tables, arg) \in Seq(Table)
                         /\ ToSet(Append(tables, arg)) = ToSet(tables) \cup {arg}
    BY <1>1, <1>4, ToSetAppend, AppendAt DEF TypeOK
  <1>6. ipc = "stream" => /\ Append(streams, arg) \in Seq(Stream)
                          /\ ToSet(Append(streams, arg)) = ToSet(streams) \cup {arg}
    BY <1>1, <1>4, ToSetAppend, AppendAt DEF TypeOK
  <1>7. known' \subseteq Query /\ isActive' \subseteq known'
        /\ streams' \in Seq(Stream) /\ tables' \in Seq(Table)
    BY <1>1, <1>4, <1>5, <1>6 DEF TypeOK
  <1>8. ioBuf' \in Seq(Message) /\ misread' \in BOOLEAN
    <2>1. m \in Message /\ Tail(ioBuf) \in Seq(Message)
      BY <1>1, SeenType
    <2>2. misread' \in BOOLEAN
      BY DEF Reply
    <2> QED
      BY <2>1, <2>2 DEF Reply
  <1>9. Queued(qBuf')
    BY <1>1, <1>2, PlainQueued
  <1>10. ArgOK' /\ ipc' \in IosSteps
    BY DEF ArgOK, IosSteps
  <1>11. TypeInv'
    BY <1>1, <1>7, <1>8, <1>9, <1>10, TypeIos DEF TypeOK
  <1>12. \/ InMemory' = InMemory \cup Adding /\ refused' = refused
         \/ InMemory' = InMemory /\ refused' = refused \cup Adding
    BY <1>1, <1>5, <1>6 DEF InMemory
  <1>13. Once'
    <2>1. \A i, j \in DOMAIN streams : streams[i] = streams[j] => i = j
      BY DEF RestartInv, RecordsInv, Once
    <2>2. CASE streams' = streams
      BY <2>1, <2>2 DEF Once
    <2>3. CASE ipc = "stream" /\ streams' = Append(streams, arg)
      <3>1. arg \notin ToSet(streams) /\ arg \in Stream /\ streams \in Seq(Stream)
        BY <1>1, <1>4, <2>3 DEF InMemory, TypeOK
      <3>2. \A i, j \in DOMAIN Append(streams, arg) :
               Append(streams, arg)[i] = Append(streams, arg)[j] => i = j
        BY <2>1, <3>1, OnceAppend
      <3> QED
        BY <2>3, <3>2 DEF Once
    <2> QED
      BY <2>2, <2>3
  <1> QED
    BY <1>3, <1>11, <1>12, <1>13, RecoveryAdds DEF schVars

\* When the first query is read no stream or table is left to read.
LEMMA QueriesLast ==
    ASSUME RestartInv, NEW x \in todo, \A y \in todo : Phase(x) <= Phase(y),
           x \in Query
    PROVE  todo \subseteq Query
  <1>1. todo \subseteq Query \cup Stream \cup Table
    BY DEF RestartInv, RecordsInv
  <1>2. Phase(x) = 3
    BY RestartAssumption DEF Phase
  <1>3. \A y \in todo : Phase(y) \in {1, 2, 3} /\ (y \notin Query => Phase(y) < 3)
    BY <1>1 DEF Phase
  <1> QED
    BY <1>2, <1>3

LEMMA RestartNext ==
    ASSUME RestartInv, NEW x \in todo, RecoverNext(x)
    PROVE  RestartInv'
  <1>1. /\ TypeInv /\ TypeOK /\ QueueOK(qBuf, active) /\ qBuf \in Seq(Message)
        /\ recovering /\ ipc = "clear" /\ Adding = {} /\ batch = << >>
        /\ active = {} /\ ghosts \subseteq todo /\ x \notin ghosts
        /\ \A i \in DOMAIN qBuf : qBuf[i].code # ACTIVATE_QUERY
    BY DEF RestartInv, RecoveryInv, TypeInv, TypeOK, RecoverNext, Adding
  <1>2. x \in disk /\ x \in Query \cup Stream \cup Table /\ x \in Names
        /\ x \notin InMemory \cup refused
    BY DEF RestartInv, RecordsInv, Names
  <1>d. Query \cap Stream = {} /\ Query \cap Table = {} /\ Stream \cap Table = {}
    BY RestartAssumption
  <1>3. /\ Kind(x) \in {"query", "table", "stream"} /\ Kind(x) \in IosSteps
        /\ (Kind(x) = "query") = (x \in Query)
        /\ (Kind(x) = "table") = (x \in Table)
        /\ (Kind(x) = "stream") = (x \in Stream)
    BY <1>2, <1>d DEF Kind, IosSteps
  <1> DEFINE c == IF x \in Query THEN ADD_QUERY ELSE ADD_DECLARE
  <1>4. c \in 0 .. 21 /\ c # ACTIVATE_QUERY /\ (c = ADD_QUERY => x \in Query)
    BY DEF ADD_QUERY, ADD_DECLARE, ACTIVATE_QUERY
  <1>5. Sends(Kind(x), x, c)
    BY DEF RecoverNext
  <1> HIDE DEF c
  <1>6. /\ qBuf' \in Seq(Message) /\ QueueOK(qBuf', active)
        /\ ioBuf' \in Seq(Message) /\ pend' \in Seq(Message)
        /\ ipc' = Kind(x) /\ arg' = x /\ got' = FALSE /\ smine' = FALSE
        /\ ipc' \in IosSteps /\ arg' \in Names
    BY <1>1, <1>2, <1>3, <1>4, <1>5, SendsType
  <1>7. UNCHANGED <<batch, known, isActive, streams, tables, connected, spc,
                    freeStmts, invalid, active, bufs, misread, lost, disk, ghosts,
                    recovering, past>>
        /\ todo' = todo \ {x}
    BY DEF RecoverNext, schVars
  <1>8. ArgOK'
    BY <1>3, <1>6 DEF ArgOK
  <1>9. TypeInv'
    BY <1>1, <1>6, <1>7, <1>8 DEF TypeInv, TypeOK
  <1>10. InMemory' = InMemory /\ Adding' = {x} /\ refused' = refused
    BY <1>3, <1>6, <1>7 DEF InMemory, Adding, past
  <1>11. RecordsInv' /\ MainInv' /\ HistoryOK'
    BY <1>1, <1>7, <1>10 DEF RestartInv, RecordsInv, MainInv, HistoryOK, past, Once
  <1>12. \A i \in DOMAIN qBuf' : qBuf'[i].code # ACTIVATE_QUERY
    <2>1. qBuf' = Append(Stale(qBuf), Msg(c, x))
      BY <1>5 DEF Sends
    <2>2. Stale(qBuf) \in Seq(Message)
          /\ \A i \in DOMAIN Stale(qBuf) : Stale(qBuf)[i].code # ACTIVATE_QUERY
      BY <1>1, StaleSeq
    <2> QED
      BY <1>2, <1>4, <2>1, <2>2, NoActivate
  <1>13. ipc' = "query" => todo' \subseteq Query
    BY <1>3, <1>6, <1>7, QueriesLast DEF RecoverNext
  <1>14. RecoveryInv'
    BY <1>1, <1>2, <1>3, <1>6, <1>7, <1>10, <1>12, <1>13 DEF RestartInv, RecoveryInv
  <1> QED
    BY <1>9, <1>11, <1>14 DEF RestartInv

LEMMA RestartTable ==
    ASSUME RestartInv, RecoverTable PROVE RestartInv'
  <1>1. PICK m \in ToSet(ioBuf) : TableLoop!(m)
    BY DEF RecoverTable, TableLoop
  <1>2. CASE TableLoop!(m)!1
    <2>1. ipc = "table" /\ ipc' = "clear" /\ m.code \in {COMPILE_SUCCESS, COMPILE_FAILURE}
          /\ Reply(m) /\ None \in Names
      BY <1>2 DEF Sees, Names
    <2>2. tables' = tables \/ tables' = Append(tables, arg)
      BY <1>2
    <2>3. Append(tables, arg) # tables
      <3>1. tables \in Seq(Table) /\ arg \in Table
        BY <2>1 DEF RestartInv, TypeInv, TypeOK, ArgOK
      <3>2. Len(Append(tables, arg)) # Len(tables)
        BY <3>1
      <3> QED
        BY <3>2
    <2>4. refused' = IF tables' = tables THEN refused \cup {arg} ELSE refused
      BY <2>1 DEF RecoverTable
    <2> QED
      BY <1>2, <2>1, <2>2, <2>3, <2>4, RecoveryReplies DEF RecoverTable
  <1>3. CASE Forward("table", m)
    <2>1. ipc' = "table"
      BY <1>3 DEF Forward, Sees
    <2> QED
      BY <1>3, <2>1, RecoveryLoops DEF RecoverTable, past
  <1>4. CASE Other("table", m, {COMPILE_FAILURE, COMPILE_SUCCESS, ADDED_BUFFER})
    <2>1. ipc' = "table"
      BY <1>4 DEF Other, Sees, iosVars
    <2> QED
      BY <1>4, <2>1, RecoveryLoops DEF RecoverTable, past
  <1> QED
    BY <1>1, <1>2, <1>3, <1>4

LEMMA RestartStream ==
    ASSUME RestartInv, RecoverStream PROVE RestartInv'
  <1>1. PICK m \in ToSet(ioBuf) : RecoverStream!(m)
    BY DEF RecoverStream
  <1>2. CASE RecoverStream!(m)!2!1
    <2>1. ipc = "stream" /\ m.code \in {COMPILE_SUCCESS, COMPILE_FAILURE}
          /\ None \in Names /\ COMPILE_SUCCESS # COMPILE_FAILURE
      BY <1>2 DEF Sees, Names, COMPILE_SUCCESS, COMPILE_FAILURE
    <2> QED
      BY <1>1, <1>2, <2>1, RecoveryReplies
  <1>3. CASE RecoverStream!(m)!2!2 \/ RecoverStream!(m)!2!3
    BY <1>1, <1>3, RecoveryLoops DEF past
  <1> QED
    BY <1>1, <1>2, <1>3

\* A query that the compiler refuses had a reason: all streams were read.
LEMMA RefusalJustified ==
    ASSUME RestartInv, recovering, ipc = "query" PROVE Justified
  <1>1. /\ arg \in Query /\ known \subseteq Query /\ ToSet(tables) \subseteq Table
        /\ Reads[arg] \in Stream
    BY CommandAssumption, ToSetSeq DEF RestartInv, TypeInv, TypeOK, ArgOK
  <1>2. disk \subseteq InMemory \cup refused \cup todo \cup {arg} /\ todo \subseteq Query
    BY DEF RestartInv, RecoveryInv, Adding
  <1>3. SUFFICES ASSUME Reads[arg] \in disk \ refused PROVE Reads[arg] \in ToSet(streams)
    BY DEF Justified, Compiles, SystemDcl
  <1> QED
    BY <1>1, <1>2, <1>3, RestartAssumption DEF InMemory

LEMMA RestartQuery ==
    ASSUME RestartInv, RecoverQuery PROVE RestartInv'
  <1>1. PICK m \in ToSet(ioBuf) : RecoverQuery!(m)
    BY DEF RecoverQuery
  <1>2. CASE RecoverQuery!(m)!2!1
    <2>1. ipc = "query" /\ arg \in Names /\ DROP_QUERY = COMPILE_FAILURE
      BY <1>2 DEF Sees, DROP_QUERY, COMPILE_FAILURE, RestartInv, TypeInv, TypeOK
    <2> QED
      BY <1>1, <1>2, <2>1, RecoveryReplies
  <1>3. CASE RecoverQuery!(m)!2!2
    <2>1. ipc = "query" /\ arg \in Names
      BY <1>3 DEF Sees, RestartInv, TypeInv, TypeOK
    <2>2. Justified
      BY <1>1, <2>1, RefusalJustified
    <2> QED
      BY <1>1, <1>3, <2>1, <2>2, RecoveryReplies
  <1>4. CASE RecoverQuery!(m)!2!3
    BY <1>1, <1>4, RecoveryLoops DEF past
  <1> QED
    BY <1>1, <1>2, <1>3, <1>4

LEMMA RestartRecovered ==
    ASSUME RestartInv, Recovered PROVE RestartInv'
  <1>1. /\ recovering /\ todo = {} /\ ~recovering' /\ ipc' = "ready" /\ Adding = {}
        /\ Adding' = {} /\ InMemory' = InMemory /\ batch' = << >>
        /\ UNCHANGED <<disk, ghosts, todo, past, streams>>
    BY DEF RestartInv, RecoveryInv, Recovered, Adding, InMemory
  <1>2. ToSet(batch') = {}
    BY <1>1 DEF ToSet
  <1>3. RecordsInv'
    BY <1>1 DEF RestartInv, RecordsInv, past, Once
  <1>h. HistoryOK'
    <2>1. recovering' \in BOOLEAN
      BY DEF Recovered
    <2> QED
      BY <1>1, <2>1 DEF RestartInv, HistoryOK, past
  <1>4. MainInv' /\ RecoveryInv'
    BY <1>1, <1>2 DEF RestartInv, RecoveryInv, MainInv, past
  <1>5. TypeInv'
    BY DEF Recovered, RestartInv, TypeInv, TypeOK, ArgOK, IosSteps, schVars
  <1> QED
    BY <1>3, <1>h, <1>4, <1>5 DEF RestartInv

-----------------------------------------------------------------------------
(* Crashes                                                                  *)

LEMMA RestartSystemCrash ==
    ASSUME RestartInv, SystemCrash PROVE RestartInv'
  <1>1. /\ ToSet(streams') = {} /\ ToSet(tables') = {} /\ known' = {}
        /\ DOMAIN streams' = {} /\ DOMAIN qBuf' = {}
    BY DEF SystemCrash, ToSet
  <1>2. InMemory' = {} /\ Adding' = {} /\ Once'
    BY <1>1 DEF InMemory, Adding, SystemCrash, Once
  <1>3. RecordsInv' /\ MainInv' /\ RecoveryInv'
    BY <1>1, <1>2 DEF SystemCrash, RestartInv, RecordsInv, MainInv, RecoveryInv
  <1>4. HistoryOK'
    <2>1. recovering' \in BOOLEAN /\ apart' \in BOOLEAN /\ cut' \in BOOLEAN
      BY DEF SystemCrash
    <2>2. crashes' \in 0 .. MaxCrashes
      BY RestartAssumption DEF SystemCrash, RestartInv, HistoryOK
    <2> QED
      BY <2>1, <2>2 DEF HistoryOK
  <1>5. TypeInv'
    <2>1. ArgOK' /\ QueueOK(qBuf', active')
      BY <1>1 DEF SystemCrash, ArgOK, QueueOK
    <2>2. /\ qBuf' \in Seq(Message) /\ ioBuf' \in Seq(Message) /\ pend' \in Seq(Message)
          /\ batch' \in Seq(Query) /\ streams' \in Seq(Stream) /\ tables' \in Seq(Table)
      BY DEF SystemCrash
    <2>3. /\ got' \in BOOLEAN /\ smine' \in BOOLEAN /\ misread' \in BOOLEAN
          /\ lost' \in BOOLEAN
      BY DEF SystemCrash
    <2>4. TypeOK'
      BY <2>2, <2>3 DEF SystemCrash, TypeOK, IosSteps, Names
    <2> QED
      BY <2>1, <2>4 DEF TypeInv
  <1> QED
    BY <1>3, <1>4, <1>5 DEF RestartInv

LEMMA RestartSchedulerCrash ==
    ASSUME RestartInv, SchedulerCrash PROVE RestartInv'
  <1>1. /\ qBuf \in Seq(Message) /\ QueueOK(qBuf, active) /\ TypeOK
    BY DEF RestartInv, TypeInv, TypeOK
  <1>2. qBuf' = qBuf \/ (qBuf # << >> /\ qBuf' = Tail(qBuf))
    BY DEF SchedulerCrash
  <1>3. qBuf' \in Seq(Message) /\ QueueOK(qBuf', active')
    <2>1. CASE qBuf' = qBuf
      BY <1>1, <2>1 DEF QueueOK, SchedulerCrash
    <2>2. CASE qBuf # << >> /\ qBuf' = Tail(qBuf)
      <3>1. {} \subseteq active \cup
                 (IF Head(qBuf).code = ACTIVATE_QUERY THEN {Head(qBuf).arg} ELSE {})
        OBVIOUS
      <3>2. Tail(qBuf) \in Seq(Message) /\ QueueOK(Tail(qBuf), {})
        BY <1>1, <2>2, <3>1, TailQueue
      <3> QED
        BY <2>2, <3>2 DEF SchedulerCrash
    <2> QED
      BY <1>2, <2>1, <2>2
  <1>4. bufs' \subseteq bufs /\ connected' \subseteq bufs'
    BY DEF SchedulerCrash
  <1>5. UNCHANGED <<ipc, arg, got, batch, known, isActive, streams, tables>>
    BY DEF SchedulerCrash, iosVars
  <1>6. pend' \in Seq(Message)
    BY DEF SchedulerCrash
  <1>7. TypeInv'
    <2>1. /\ smine' = smine /\ misread' = misread /\ lost' = lost /\ ioBuf' = ioBuf
          /\ spc' = "main" /\ freeStmts' = {} /\ invalid' = {} /\ active' = {}
      BY DEF SchedulerCrash
    <2>2. ArgOK'
      BY <1>5 DEF RestartInv, TypeInv, ArgOK
    <2>3. TypeOK'
      BY <1>1, <1>3, <1>4, <1>5, <1>6, <2>1 DEF TypeOK
    <2> QED
      BY <1>3, <2>2, <2>3 DEF TypeInv
  <1>8. UNCHANGED <<disk, ghosts, recovering, todo, refused>> /\ InMemory' = InMemory
        /\ Adding' = Adding
    BY <1>5 DEF SchedulerCrash, InMemory, Adding
  <1>9. RecordsInv' /\ MainInv'
    BY <1>5, <1>8 DEF RestartInv, RecordsInv, MainInv, Once
  <1>10. HistoryOK'
    BY RestartAssumption, <1>8 DEF SchedulerCrash, RestartInv, HistoryOK
  <1>11. recovering => \A i \in DOMAIN qBuf' : qBuf'[i].code # ACTIVATE_QUERY
    <2>1. SUFFICES ASSUME recovering
                   PROVE  \A i \in DOMAIN qBuf' : qBuf'[i].code # ACTIVATE_QUERY
      OBVIOUS
    <2>2. \A i \in DOMAIN qBuf : qBuf[i].code # ACTIVATE_QUERY
      BY <2>1 DEF RestartInv, RecoveryInv
    <2>3. qBuf # << >> => \A i \in DOMAIN Tail(qBuf) :
                             i + 1 \in DOMAIN qBuf /\ Tail(qBuf)[i] = qBuf[i + 1]
      BY <1>1
    <2> QED
      BY <1>2, <2>2, <2>3
  <1>12. RecoveryInv'
    BY <1>5, <1>8, <1>11 DEF RestartInv, RecoveryInv, SchedulerCrash
  <1> QED
    BY <1>7, <1>9, <1>10, <1>12 DEF RestartInv

-----------------------------------------------------------------------------
LEMMA RestartInit == RInit => RestartInv
  <1> SUFFICES ASSUME RInit PROVE RestartInv
    OBVIOUS
  <1>1. TypeInv
    BY TypeInit DEF RInit
  <1>2. ToSet(streams) = {} /\ ToSet(tables) = {} /\ known = {} /\ ToSet(batch) = {}
        /\ DOMAIN streams = {}
    BY DEF RInit, Init, ToSet
  <1>3. InMemory = {} /\ Adding = {}
    BY <1>2 DEF RInit, Init, InMemory, Adding
  <1>4. RecordsInv /\ MainInv /\ RecoveryInv
    BY <1>2, <1>3 DEF RInit, RecordsInv, MainInv, RecoveryInv, Once
  <1>5. HistoryOK
    <2>1. recovering \in BOOLEAN /\ apart \in BOOLEAN /\ cut \in BOOLEAN
      BY DEF RInit
    <2>2. crashes \in 0 .. MaxCrashes
      BY RestartAssumption DEF RInit
    <2> QED
      BY <2>1, <2>2 DEF HistoryOK
  <1> QED
    BY <1>1, <1>4, <1>5 DEF RestartInv

LEMMA RestartStep == RestartInv /\ [RNext]_rvars => RestartInv'
  <1> SUFFICES ASSUME RestartInv, [RNext]_rvars PROVE RestartInv'
    OBVIOUS
  <1>1. CASE UNCHANGED rvars
    <2>1. UNCHANGED <<qBuf, ioBuf, ipc, arg, got, batch, known, isActive, streams,
                      tables, connected, spc, pend, freeStmts, invalid, active, bufs,
                      smine, misread, lost, disk, ghosts, recovering, todo, refused,
                      apart, cut, crashes>>
      BY <1>1 DEF rvars, vars, past
    <2>2. TypeInv'
      BY <2>1 DEF RestartInv, TypeInv, TypeOK, ArgOK, QueueOK
    <2>3. InMemory' = InMemory /\ Adding' = Adding
      BY <2>1 DEF InMemory, Adding
    <2> QED
      BY <2>1, <2>2, <2>3 DEF RestartInv, RecordsInv, MainInv, RecoveryInv, HistoryOK,
                              Once
  <1>2. CASE RNext
    BY <1>2, RestartAsks, RestartWorks, RestartSchedules, RestartNext, RestartTable,
       RestartStream, RestartQuery, RestartRecovered, RestartSystemCrash,
       RestartSchedulerCrash DEF RNext, Recovers
  <1> QED
    BY <1>1, <1>2

\* Through any number of crashes the state of both processes is of its type and
\* everything Ios has in memory has a record (addModule, Ios::run).
THEOREM RestartTypes == RSpec => []RTypeOK
  <1>1. RestartInv => RTypeOK
    BY DEF RestartInv, RTypeOK, TypeInv, RecordsInv, HistoryOK
  <1> QED
    BY <1>1, RestartInit, RestartStep, PTL DEF RSpec

\* Nothing acknowledged is forgotten: when Ios is back in its main loop, every
\* record is in memory unless recovery had a reason to give it up, however often
\* and wherever the system or the scheduler alone went down (Ios::run).
THEOREM RecordsRemembered == RSpec => []Remembered
  <1>1. RestartInv => Remembered
    BY DEF RestartInv, MainInv, Remembered
  <1> QED
    BY <1>1, RestartInit, RestartStep, PTL DEF RSpec

-----------------------------------------------------------------------------
(* Whose replies Ios reads during recovery                                  *)

\* The commands that have an answer Ios waits for during recovery.
Given == {ADD_QUERY, ADD_DECLARE}

\* A verdict of the scheduler, which nothing waits for during recovery.
Late == {m \in Message : m.code \in Command}
Readable == {m \in Message : m.mine = TRUE \/ m.code \in Command}

\* At most one such command is in the queue, that of the conversation; the rest
\* is what earlier ones sent last.
QueueMine(s, k) == \A i \in DOMAIN s :
    /\ s[i].code \in Given \cup {DEACTIVATE_QUERY, DROP_QUERY, ADDED_BUFFER}
    /\ s[i].code \in Given =>
         /\ s[i].mine = TRUE /\ k \in {"query", "table", "stream"}
         /\ s[i].code = IF k = "query" THEN ADD_QUERY ELSE ADD_DECLARE
         /\ \A j \in DOMAIN s : s[j].code \in Given => i = j

\* Nothing that Ios could take for an answer is in front of the answer.
Before(s, k) == k = "clear" \/ \E i \in DOMAIN s : s[i].code \in Given

RecoverMine ==
    /\ ReplyIsMine
    /\ Coming \in Seq(Readable) /\ Then(Compiler, Command, Coming)
    /\ Before(qBuf, ipc) => Coming \in Seq(Late)
    /\ QueueMine(qBuf, ipc)
    /\ freeStmts # {} =>
          spc = "main" /\ todo \subseteq Query /\ ipc \in {"clear", "query"}

\* The scheduler did not die while Ios waited for it.
RestartMine == cut \/ IF recovering THEN RecoverMine ELSE MineInv

LEMMA CodesApart ==
    /\ Compiler \cap Command = {}
    /\ \A c \in Given : c \notin {DEACTIVATE_QUERY, DROP_QUERY, ADDED_BUFFER}
    /\ \A c \in {ACTIVATE_QUERY, DROP_DECLARE, GET_COMPONENTS} :
          c \notin Given \cup {DEACTIVATE_QUERY, DROP_QUERY, ADDED_BUFFER}
    /\ ADD_QUERY # ADD_DECLARE
    /\ Compiler = {DEACTIVATE_QUERY, DROP_QUERY}
  BY DEF Compiler, Command, Given, ADD_QUERY, ADD_DECLARE, DEACTIVATE_QUERY,
         DROP_QUERY, ADDED_BUFFER, ACTIVATE_QUERY, DROP_DECLARE, GET_COMPONENTS,
         COMPILE_SUCCESS, COMPILE_FAILURE, COMMAND_SUCCESSFUL, COMMAND_FAILED

LEMMA LateThen ==
    ASSUME NEW s \in Seq(Late)
    PROVE  s \in Seq(Readable) /\ Then(Compiler, Command, s)
           /\ \A i \in DOMAIN s : s[i].code \in Command /\ s[i].code \notin Compiler
  <1>1. \A i \in DOMAIN s : s[i] \in Late
    OBVIOUS
  <1>2. \A i \in DOMAIN s : s[i].code \in Command /\ s[i].code \notin Compiler
    BY <1>1, CodesApart DEF Late
  <1>3. s \in Seq(Readable)
    BY WiderSeq DEF Late, Readable
  <1> QED
    BY <1>2, <1>3 DEF Then

LEMMA QueueTail ==
    ASSUME NEW s \in Seq(Message), s # << >>, NEW k, QueueMine(s, k)
    PROVE  /\ QueueMine(Tail(s), k)
           /\ Before(Tail(s), k) => Before(s, k)
           /\ Head(s).code \in Given \cup {DEACTIVATE_QUERY, DROP_QUERY, ADDED_BUFFER}
           /\ Head(s).code \in Given =>
                 /\ Head(s).mine = TRUE /\ Before(s, k)
                 /\ k \in {"query", "table", "stream"}
                 /\ Head(s).code = IF k = "query" THEN ADD_QUERY ELSE ADD_DECLARE
                 /\ ~Before(Tail(s), k)
  <1> DEFINE t == Tail(s)
  <1>1. /\ Head(s) = s[1] /\ DOMAIN s = 1 .. Len(s) /\ 1 \in DOMAIN s
        /\ Len(s) \in Nat /\ Len(s) >= 1
        /\ DOMAIN t = 1 .. Len(s) - 1
        /\ \A i \in 1 .. Len(s) - 1 : t[i] = s[i + 1]
    BY TailAt
  <1> HIDE DEF t
  <1>2. \A i \in DOMAIN t : i + 1 \in DOMAIN s /\ t[i] = s[i + 1] /\ i + 1 # 1
    BY <1>1
  <1>3. \A i, j \in DOMAIN t : i + 1 = j + 1 => i = j
    BY <1>1
  <1>4. QueueMine(t, k)
    BY <1>2, <1>3 DEF QueueMine
  <1>5. Before(t, k) => Before(s, k)
    BY <1>2 DEF Before
  <1>6. /\ Head(s).code \in Given \cup {DEACTIVATE_QUERY, DROP_QUERY, ADDED_BUFFER}
        /\ Head(s).code \in Given =>
              /\ Head(s).mine = TRUE /\ Before(s, k)
              /\ k \in {"query", "table", "stream"}
              /\ Head(s).code = IF k = "query" THEN ADD_QUERY ELSE ADD_DECLARE
    BY <1>1 DEF QueueMine, Before
  <1>7. Head(s).code \in Given => ~Before(t, k)
    BY <1>1, <1>2, <1>6 DEF QueueMine, Before
  <1> QED
    BY <1>4, <1>5, <1>6, <1>7 DEF t

\* Something that has no answer is appended, maybe at the end of a conversation.
LEMMA QueueAppend ==
    ASSUME NEW s \in Seq(Message), NEW k, NEW l, QueueMine(s, k), l = k \/ ~Before(s, k),
           NEW c \in {DEACTIVATE_QUERY, DROP_QUERY, ADDED_BUFFER}, NEW x \in Names
    PROVE  /\ QueueMine(Append(s, Msg(c, x)), l)
           /\ Before(Append(s, Msg(c, x)), l) => Before(s, l)
           /\ QueueMine(s, l)
  <1> DEFINE m == Msg(c, x)
             t == Append(s, m)
  <1>1. c \in 0 .. 21 /\ c \notin Given
    BY CodesApart DEF DEACTIVATE_QUERY, DROP_QUERY, ADDED_BUFFER
  <1>2. m \in Message /\ m.code = c
    BY <1>1, MsgType
  <1> HIDE DEF m
  <1>3. /\ DOMAIN t = 1 .. Len(s) + 1 /\ DOMAIN s = 1 .. Len(s)
        /\ \A i \in 1 .. Len(s) : t[i] = s[i]
        /\ t[Len(s) + 1] = m /\ Len(s) \in Nat
    BY <1>2, AppendAt
  <1> HIDE DEF t
  <1>4. \A i \in DOMAIN t : i \in DOMAIN s \/ i = Len(s) + 1
    BY <1>3
  <1>5. \A i \in DOMAIN t : t[i].code \in Given => i \in DOMAIN s /\ t[i] = s[i]
    BY <1>1, <1>2, <1>3, <1>4
  <1>6. QueueMine(s, l)
    BY DEF QueueMine, Before
  <1>7. \A i \in DOMAIN t : t[i].code \in Given \cup {DEACTIVATE_QUERY, DROP_QUERY, ADDED_BUFFER}
    BY <1>2, <1>3, <1>4 DEF QueueMine
  <1>8. QueueMine(t, l)
    BY <1>5, <1>6, <1>7 DEF QueueMine
  <1>9. Before(t, l) => Before(s, l)
    BY <1>5 DEF Before
  <1> QED
    BY <1>6, <1>8, <1>9 DEF t, m

\* The next statement is sent.
LEMMA QueueSends ==
    ASSUME NEW s \in Seq(Message), QueueMine(s, "clear"),
           NEW k \in {"query", "table", "stream"}, NEW x \in Names
    PROVE  LET c == IF k = "query" THEN ADD_QUERY ELSE ADD_DECLARE IN
           QueueMine(Append(Stale(s), Msg(c, x)), k)
  <1> DEFINE c == IF k = "query" THEN ADD_QUERY ELSE ADD_DECLARE
             m == Msg(c, x)
             r == Stale(s)
             t == Append(r, m)
  <1>1. m \in Message /\ m.code = c /\ m.mine = TRUE /\ c \in Given
    <2>1. c \in 0 .. 21
      BY DEF ADD_QUERY, ADD_DECLARE
    <2> QED
      BY <2>1, MsgType DEF Given, Msg
  <1>2. r \in Seq(Message) /\ DOMAIN r = DOMAIN s /\ \A i \in DOMAIN s : r[i].code = s[i].code
    BY StaleSeq
  <1> HIDE DEF m, c, r
  <1>3. /\ DOMAIN t = 1 .. Len(r) + 1 /\ DOMAIN r = 1 .. Len(r)
        /\ \A i \in 1 .. Len(r) : t[i] = r[i]
        /\ t[Len(r) + 1] = m /\ Len(r) \in Nat
    BY <1>1, <1>2, AppendAt
  <1> HIDE DEF t
  <1>4. \A i \in DOMAIN s : s[i].code \in {DEACTIVATE_QUERY, DROP_QUERY, ADDED_BUFFER}
                            /\ s[i].code \notin Given
    BY CodesApart DEF QueueMine
  <1>5. \A i \in DOMAIN t : \/ i = Len(r) + 1 /\ t[i] = m
                            \/ t[i].code \in {DEACTIVATE_QUERY, DROP_QUERY, ADDED_BUFFER}
                               /\ t[i].code \notin Given
    BY <1>2, <1>3, <1>4
  <1>6. QueueMine(t, k)
    BY <1>1, <1>5 DEF QueueMine, c
  <1> QED
    BY <1>6 DEF t, r, m, c

\* The scheduler takes a message that has at most a verdict for an answer.
LEMMA RecoverVerdict ==
    ASSUME TypeInv, RecoverMine, qBuf # << >>, qBuf' = Tail(qBuf), pend = << >>,
           pend' \in Seq(Late), UNCHANGED <<ioBuf, ipc, todo, misread>>,
           freeStmts' \subseteq freeStmts, spc' = "main"
    PROVE  RecoverMine'
  <1>1. qBuf \in Seq(Message) /\ ioBuf \in Seq(Message)
    BY DEF TypeInv, TypeOK
  <1>2. QueueMine(qBuf', ipc) /\ (Before(qBuf', ipc) => Before(qBuf, ipc))
    BY <1>1, QueueTail DEF RecoverMine
  <1>3. Coming = ioBuf /\ Coming' = Coming \o pend'
    BY ComingEmpty DEF Coming
  <1>4. /\ pend' \in Seq(Readable) /\ pend' \in Seq(Message)
        /\ \A i \in DOMAIN pend' : pend'[i].code \in Command
    BY LateThen, WiderSeq DEF Readable
  <1>5. Coming' \in Seq(Readable)
    BY <1>3, <1>4, ConcatAt DEF RecoverMine
  <1>6. Then(Compiler, Command, Coming')
    BY <1>1, <1>3, <1>4, ThenLate DEF RecoverMine
  <1>7. Before(qBuf', ipc) => Coming' \in Seq(Late)
    BY <1>2, <1>3, ConcatAt DEF RecoverMine
  <1>8. freeStmts' # {} =>
          spc' = "main" /\ todo' \subseteq Query /\ ipc' \in {"clear", "query"}
    BY DEF RecoverMine
  <1>9. ReplyIsMine'
    BY DEF RecoverMine, ReplyIsMine
  <1> HIDE DEF Coming
  <1> QED
    BY <1>2, <1>5, <1>6, <1>7, <1>8, <1>9 DEF RecoverMine

\* The scheduler takes the statement that Ios is adding.
LEMMA RecoverCompiles ==
    ASSUME TypeInv, RecoverMine, qBuf # << >>, qBuf' = Tail(qBuf), pend = << >>,
           Head(qBuf).code \in Given,
           pend' \in Seq(Own), Then(Compiler, Command, pend'),
           UNCHANGED <<ioBuf, ipc, todo, misread>>,
           freeStmts' # {} =>
              spc' = "main" /\ todo \subseteq Query /\ ipc \in {"clear", "query"}
    PROVE  RecoverMine'
  <1>1. qBuf \in Seq(Message) /\ ioBuf \in Seq(Message)
    BY DEF TypeInv, TypeOK
  <1>2. QueueMine(qBuf', ipc) /\ Before(qBuf, ipc) /\ ~Before(qBuf', ipc)
    BY <1>1, QueueTail DEF RecoverMine
  <1>3. Coming = ioBuf /\ Coming' = Coming \o pend' /\ Coming \in Seq(Late)
    BY <1>2, ComingEmpty DEF Coming, RecoverMine
  <1>4. pend' \in Seq(Readable) /\ pend' \in Seq(Message)
    BY WiderSeq DEF Readable, Own
  <1>5. Coming' \in Seq(Readable)
    BY <1>3, <1>4, LateThen, ConcatAt
  <1>6. Then(Compiler, Command, Coming')
    BY <1>1, <1>3, <1>4, LateThen, ThenConcat
  <1>7. ReplyIsMine'
    BY DEF RecoverMine, ReplyIsMine
  <1> HIDE DEF Coming
  <1> QED
    BY <1>2, <1>5, <1>6, <1>7 DEF RecoverMine

LEMMA VerdictLate ==
    ASSUME NEW found, NEW b \in BOOLEAN, Puts(<<Verdict(found)>>, b), pend' \in Seq(Message)
    PROVE  pend' \in Seq(Late)
  <1>1. DOMAIN pend' = {1} /\ pend'[1] = [Verdict(found) EXCEPT !.mine = b]
    BY DEF Puts
  <1>2. pend'[1].code \in Command
    BY <1>1 DEF Verdict, Msg, Command
  <1>3. \A i \in DOMAIN pend' : pend'[i] \in Message /\ i = 1
    BY <1>1
  <1>4. \A i \in DOMAIN pend' : pend'[i] \in Late
    BY <1>2, <1>3 DEF Late
  <1> QED
    BY <1>4, SeqOfAll

LEMMA PutsCodes ==
    ASSUME NEW out \in Seq(Message), NEW b, Puts(out, b)
    PROVE  DOMAIN pend' = DOMAIN out /\ \A i \in DOMAIN out : pend'[i].code = out[i].code
  <1>1. \A i \in DOMAIN out : out[i] \in Message
    OBVIOUS
  <1> QED
    BY <1>1 DEF Puts, Message

\* The answer to the statement that Ios is adding.
LEMMA AnswerOwn ==
    ASSUME NEW out \in Seq(Message), Puts(out, TRUE), Then(Compiler, Command, out),
           pend' \in Seq(Message)
    PROVE  pend' \in Seq(Own) /\ Then(Compiler, Command, pend')
  <1>1. \A i \in DOMAIN pend' : pend'[i].mine = TRUE
    BY PutsMine
  <1>2. \A i \in DOMAIN pend' : pend'[i] \in Own
    BY <1>1 DEF Own
  <1>3. pend' \in Seq(Own)
    BY <1>2, SeqOfAll
  <1>4. Then(Compiler, Command, pend')
    BY PutsCodes, ThenSame
  <1> QED
    BY <1>3, <1>4

\* During recovery nothing is active, so that the scheduler's part of a
\* conversation is never more than the compilation of one statement.
LEMMA RecoverScheduler ==
    ASSUME RestartInv, RecoverMine, recovering, Scheduler, UNCHANGED todo
    PROVE  RecoverMine'
  <1>1. TypeInv /\ TypeInv' /\ UNCHANGED <<ipc, misread>>
    BY TypeScheduler
    DEF RestartInv, Scheduler, PutReply, HandleAddQuery, HandleAddDeclare, DeclareAdded,
        DeclareEnds, HandleActivate, HandleDeactivate, HandleDropQuery,
        HandleDropDeclare, HandleGetComponents, HandleUnknown, iosVars
  <1>2. /\ qBuf \in Seq(Message) /\ ioBuf \in Seq(Message) /\ pend \in Seq(Message)
        /\ pend' \in Seq(Message)
    BY <1>1 DEF TypeInv, TypeOK
  <1>b. smine \in BOOLEAN /\ smine' \in BOOLEAN
    BY <1>1 DEF TypeInv, TypeOK
  <1>3. active = {} /\ (ipc = "query" => todo \subseteq Query)
    BY DEF RestartInv, RecoveryInv
  <1>4. qBuf # << >> =>
          /\ Head(qBuf).code \in Given \cup {DEACTIVATE_QUERY, DROP_QUERY, ADDED_BUFFER}
          /\ Head(qBuf).code \in Given =>
               /\ Head(qBuf).mine = TRUE /\ ipc \in {"query", "table", "stream"}
               /\ Head(qBuf).code = IF ipc = "query" THEN ADD_QUERY ELSE ADD_DECLARE
    BY <1>2, QueueTail DEF RecoverMine
  <1>5. CASE PutReply
    <2>1. Coming' = Coming
      BY <1>2, <1>5, ShiftConcat DEF PutReply, Coming
    <2>2. UNCHANGED <<qBuf, freeStmts, spc>>
      BY <1>5 DEF PutReply, schVars
    <2> HIDE DEF Coming
    <2> QED
      BY <1>1, <2>1, <2>2 DEF RecoverMine, ReplyIsMine
  <1>6. CASE HandleAddQuery
    <2>1. PICK m \in ToSet(qBuf) : HandleAddQuery!(m)
      BY <1>6 DEF HandleAddQuery
    <2>2. PICK out \in Outcomes(m.arg, bufs) : Puts(out.msgs, m.mine)
      BY <2>1
    <2>3. /\ spc = "main" /\ pend = << >> /\ qBuf # << >> /\ m = Head(qBuf)
          /\ m.code = ADD_QUERY /\ qBuf' = Tail(qBuf) /\ UNCHANGED <<ioBuf, spc>>
      BY <2>1 DEF Takes
    <2>4. m.mine = TRUE /\ m.code \in Given /\ ipc = "query"
      BY <1>4, <2>3, CodesApart DEF Given
    <2>5. m.arg \in Query
      BY <1>1, <1>2, <2>3, <2>4 DEF TypeInv, QueueOK
    <2>6. out.msgs \in Seq(Message) /\ Then(Compiler, Command, out.msgs)
      BY <1>1, <2>5, OutcomeForm
    <2>7. pend' \in Seq(Own) /\ Then(Compiler, Command, pend')
      BY <1>2, <2>2, <2>4, <2>6, AnswerOwn
    <2> QED
      BY <1>1, <1>3, <2>3, <2>4, <2>7, RecoverCompiles
  <1>7. CASE HandleAddDeclare
    <2>1. PICK m \in ToSet(qBuf) : \E out \in Outcomes(None, bufs) : HandleAddDeclare!(m)!(out)
      BY <1>7 DEF HandleAddDeclare
    <2>2. PICK out \in Outcomes(None, bufs) : HandleAddDeclare!(m)!(out)
      BY <2>1
    <2>3. /\ spc = "main" /\ pend = << >> /\ qBuf # << >> /\ m = Head(qBuf)
          /\ m.code = ADD_DECLARE /\ qBuf' = Tail(qBuf) /\ UNCHANGED <<ioBuf, freeStmts>>
      BY <2>2 DEF Takes
    <2>4. m.mine = TRUE /\ m.code \in Given /\ ipc \in {"table", "stream"}
      BY <1>4, <2>3, CodesApart DEF Given
    <2>5. freeStmts' = {}
      BY <2>3, <2>4 DEF RecoverMine
    <2>6. out.msgs \in Seq(Message) /\ Then(Compiler, Command, out.msgs)
      BY <1>1, OutcomeForm
    <2>7. Verdict(FALSE) \in Message /\ Verdict(FALSE).code \in Command
      BY MsgType DEF Verdict, Command, COMMAND_FAILED, Names
    <2>8. /\ Append(out.msgs, Verdict(FALSE)) \in Seq(Message)
          /\ Then(Compiler, Command, Append(out.msgs, Verdict(FALSE)))
      BY <2>6, <2>7, AppendAt, ThenAppend
    <2>9. Puts(out.msgs, TRUE) \/ Puts(Append(out.msgs, Verdict(FALSE)), TRUE)
      BY <2>2, <2>4
    <2>10. pend' \in Seq(Own) /\ Then(Compiler, Command, pend')
      BY <1>2, <2>6, <2>8, <2>9, AnswerOwn
    <2> QED
      BY <1>1, <2>3, <2>4, <2>5, <2>10, RecoverCompiles
  <1>8. CASE DeclareAdded
    <2>1. PICK m \in ToSet(qBuf) : \E users \in SetToSeqs(Users(m.arg)) :
             DeclareAdded!(m)!(users)
      BY <1>8 DEF DeclareAdded
    <2>2. PICK users \in SetToSeqs(Users(m.arg)) : DeclareAdded!(m)!(users)
      BY <2>1
    <2>3. /\ spc = "wait" /\ pend = << >> /\ qBuf' = Tail(qBuf) /\ spc' = "main"
          /\ UNCHANGED <<ioBuf, freeStmts>>
      BY <2>2
    <2>4. freeStmts = {} /\ Users(m.arg) = {}
      BY <2>3 DEF RecoverMine, Users
    <2>5. users \in Seq(Query) /\ Len(users) = 0 /\ DOMAIN users = {}
      <3>1. users \in Seq(Query) /\ Len(users) = Cardinality(Users(m.arg))
        BY <1>1, UsersSeq
      <3>2. Cardinality({}) = 0
        BY FS_EmptySet
      <3>3. Len(users) = 0
        BY <2>4, <3>1, <3>2
      <3> QED
        BY <3>1, <3>3
    <2>6. Recompiled(users, Len(users)) = << >>
      <3> DEFINE f == [j \in 1 .. 0 |-> Compiled(users[j], BufsAfter(j - 1)).msgs]
      <3>1. Recompiled(users, Len(users)) = FlattenSeq(f)
        BY <2>5 DEF Recompiled
      <3>2. f = [j \in 1 .. 0 |-> f[j]] /\ DOMAIN f = 1 .. 0
        OBVIOUS
      <3> HIDE DEF f
      <3>3. f \in [1 .. 0 -> Seq(Message)]
        BY <3>2
      <3>4. f \in Seq(Seq(Message)) /\ Len(f) = 0
        BY <3>3, FunSeq
      <3> QED
        BY <3>1, <3>4 DEF FlattenSeq
    <2>7. Puts(<<Verdict(TRUE)>>, smine)
      <3>1. Puts(Append(Recompiled(users, Len(users)), Verdict(TRUE)), smine)
        BY <2>2, <2>5
      <3>2. Append(<< >>, Verdict(TRUE)) = <<Verdict(TRUE)>>
        OBVIOUS
      <3> QED
        BY <2>6, <3>1, <3>2
    <2>8. qBuf # << >>
      BY <1>2, <2>1 DEF ToSet
    <2> QED
      BY <1>1, <1>2, <1>b, <2>3, <2>7, <2>8, VerdictLate, RecoverVerdict
  <1>9. CASE DeclareEnds
    <2>1. << >> \in Seq(Late)
      OBVIOUS
    <2> QED
      BY <1>1, <1>9, <2>1, RecoverVerdict DEF DeclareEnds
  <1>10. CASE HandleUnknown
    <2>1. << >> \in Seq(Late)
      OBVIOUS
    <2> QED
      BY <1>1, <1>10, <2>1, RecoverVerdict DEF HandleUnknown, Takes, schVars
  <1>11. CASE HandleDeactivate
    <2>1. PICK m \in ToSet(qBuf) : HandleDeactivate!(m)
      BY <1>11 DEF HandleDeactivate
    <2>2. smine' = m.mine
      BY <2>1 DEF Takes
    <2>3. pend' \in Seq(Late)
      BY <1>2, <1>b, <2>1, <2>2, VerdictLate
    <2> QED
      BY <1>1, <1>3, <2>1, <2>3, RecoverVerdict DEF Takes
  <1>12. CASE HandleDropQuery
    <2>1. PICK m \in ToSet(qBuf) : HandleDropQuery!(m)
      BY <1>12 DEF HandleDropQuery
    <2>2. smine' = m.mine
      BY <2>1 DEF Takes
    <2>3. pend' \in Seq(Late)
      BY <1>2, <1>b, <2>1, <2>2, VerdictLate
    <2> QED
      BY <1>1, <1>3, <2>1, <2>3, RecoverVerdict DEF Takes
  <1>13. ~(HandleActivate \/ HandleDropDeclare \/ HandleGetComponents)
    BY <1>4, CodesApart DEF HandleActivate, HandleDropDeclare, HandleGetComponents, Takes
  <1> QED
    BY <1>5, <1>6, <1>7, <1>8, <1>9, <1>10, <1>11, <1>12, <1>13 DEF Scheduler

\* Ios sees the head of what is coming; only what it takes for a reply must be
\* its own.
LEMMA RecoverHead ==
    ASSUME RestartInv, RecoverMine, recovering, ioBuf # << >>
    PROVE  /\ Head(ioBuf) \in Message
           /\ Head(ioBuf).code \notin Command => Head(ioBuf).mine = TRUE
           /\ Coming # << >> /\ Tail(ioBuf) \o pend = Tail(Coming)
           /\ Tail(Coming) \in Seq(Readable) /\ Then(Compiler, Command, Tail(Coming))
           /\ Coming \in Seq(Late) => Tail(Coming) \in Seq(Late)
           /\ Head(ioBuf).code \in Compiler =>
                 ~Before(qBuf, ipc) /\ Tail(Coming) \in Seq(Late)
  <1>1. /\ ioBuf \in Seq(Message) /\ pend \in Seq(Message)
        /\ Coming \in Seq(Readable) /\ Then(Compiler, Command, Coming)
    BY DEF RestartInv, TypeInv, TypeOK, RecoverMine
  <1>2. /\ Tail(ioBuf) \o pend = Tail(Coming) /\ Coming # << >>
        /\ Head(Coming) = Head(ioBuf) /\ Coming \in Seq(Message)
    BY <1>1, TailConcat, ConcatAt DEF Coming
  <1> HIDE DEF Coming
  <1>3. Head(Coming) \in Readable /\ Tail(Coming) \in Seq(Readable)
        /\ Tail(Coming) \in Seq(Message)
        /\ (Coming \in Seq(Late) => Tail(Coming) \in Seq(Late) /\ Head(Coming) \in Late)
    BY <1>1, <1>2, TailAt
  <1>4. Then(Compiler, Command, Tail(Coming))
    BY <1>1, <1>2, ThenTail
  <1>5. ASSUME Head(Coming).code \in Compiler
        PROVE  Tail(Coming) \in Seq(Late) /\ ~Before(qBuf, ipc)
    <2>1. \A i \in DOMAIN Tail(Coming) : Tail(Coming)[i].code \in Command
      BY <1>1, <1>2, <1>5, ThenTail
    <2> DEFINE t == Tail(Coming)
    <2>2. t \in Seq(Message) /\ \A i \in DOMAIN t : t[i].code \in Command
      BY <1>3, <2>1
    <2> HIDE DEF t
    <2>3. \A i \in DOMAIN t : t[i] \in Late
      BY <2>2 DEF Late
    <2>4. t \in Seq(Late)
      BY <2>2, <2>3, SeqOfAll
    <2>5. ~Before(qBuf, ipc)
      BY <1>3, <1>5, CodesApart DEF RecoverMine, Late
    <2> QED
      BY <2>4, <2>5 DEF t
  <1> QED
    BY <1>2, <1>3, <1>4, <1>5 DEF Readable

\* Ios reads a message that ends nothing, and maybe tells the scheduler.
LEMMA RecoverPass ==
    ASSUME RestartInv, RecoverMine, recovering, ioBuf # << >>, ioBuf' = Tail(ioBuf),
           UNCHANGED <<pend, spc, freeStmts, todo, ipc, misread>>,
           qBuf' = qBuf \/ \E x \in Names : qBuf' = Append(qBuf, Msg(ADDED_BUFFER, x))
    PROVE  RecoverMine'
  <1>1. qBuf \in Seq(Message)
    BY DEF RestartInv, TypeInv, TypeOK
  <1>2. QueueMine(qBuf', ipc') /\ (Before(qBuf', ipc') => Before(qBuf, ipc))
    <2>1. QueueMine(qBuf, ipc) /\ ADDED_BUFFER \in {DEACTIVATE_QUERY, DROP_QUERY, ADDED_BUFFER}
      BY DEF RecoverMine
    <2>2. \A x \in Names : /\ QueueMine(Append(qBuf, Msg(ADDED_BUFFER, x)), ipc)
                           /\ Before(Append(qBuf, Msg(ADDED_BUFFER, x)), ipc) =>
                                 Before(qBuf, ipc)
      BY <1>1, <2>1, QueueAppend
    <2> QED
      BY <2>1, <2>2
  <1>3. Coming' = Tail(Coming)
    BY RecoverHead DEF Coming
  <1>4. /\ Coming' \in Seq(Readable) /\ Then(Compiler, Command, Coming')
        /\ Coming \in Seq(Late) => Coming' \in Seq(Late)
    BY <1>3, RecoverHead
  <1> HIDE DEF Coming
  <1>5. Before(qBuf', ipc') => Coming' \in Seq(Late)
    BY <1>2, <1>4 DEF RecoverMine
  <1> QED
    BY <1>2, <1>4, <1>5 DEF RecoverMine, ReplyIsMine

\* The compiler's verdict ends a statement's part of recovery.
LEMMA RecoverEnds ==
    ASSUME RestartInv, RecoverMine, recovering, ioBuf # << >>, Reply(Head(ioBuf)),
           Head(ioBuf).code \in Compiler, ipc' = "clear",
           UNCHANGED <<pend, spc, freeStmts, todo>>,
           \/ qBuf' = qBuf
           \/ \E c \in {DEACTIVATE_QUERY, DROP_QUERY, ADDED_BUFFER}, x \in Names :
                 qBuf' = Append(qBuf, Msg(c, x))
    PROVE  RecoverMine'
  <1>1. qBuf \in Seq(Message) /\ QueueMine(qBuf, ipc)
    BY DEF RestartInv, TypeInv, TypeOK, RecoverMine
  <1>2. /\ ~Before(qBuf, ipc) /\ Tail(Coming) \in Seq(Late)
        /\ Tail(ioBuf) \o pend = Tail(Coming)
        /\ Head(ioBuf).code \notin Command => Head(ioBuf).mine = TRUE
    BY RecoverHead
  <1>3. Coming' = Tail(Coming) /\ ioBuf' = Tail(ioBuf)
    BY <1>2 DEF Coming, Reply
  <1>4. QueueMine(qBuf', "clear")
    <2>1. CASE qBuf' = qBuf
      <3>1. None \in Names /\ ADDED_BUFFER \in {DEACTIVATE_QUERY, DROP_QUERY, ADDED_BUFFER}
        BY DEF Names
      <3>2. QueueMine(qBuf, "clear")
        BY <1>1, <1>2, <3>1, QueueAppend
      <3> QED
        BY <2>1, <3>2
    <2>2. CASE \E c \in {DEACTIVATE_QUERY, DROP_QUERY, ADDED_BUFFER}, x \in Names :
                  qBuf' = Append(qBuf, Msg(c, x))
      <3>1. PICK c \in {DEACTIVATE_QUERY, DROP_QUERY, ADDED_BUFFER} : \E x \in Names :
               qBuf' = Append(qBuf, Msg(c, x))
        BY <2>2
      <3>2. PICK x \in Names : qBuf' = Append(qBuf, Msg(c, x))
        BY <3>1
      <3>3. QueueMine(Append(qBuf, Msg(c, x)), "clear")
        BY <1>1, <1>2, QueueAppend
      <3> QED
        BY <3>2, <3>3
    <2> QED
      BY <2>1, <2>2
  <1>5. Coming' \in Seq(Late)
    BY <1>2, <1>3
  <1>6. Coming' \in Seq(Readable) /\ Then(Compiler, Command, Coming')
    BY <1>5, LateThen
  <1>7. ReplyIsMine'
    <2>1. Head(ioBuf).mine = TRUE
      BY <1>2, CodesApart
    <2> QED
      BY <2>1 DEF Reply, ReplyIsMine, RecoverMine
  <1> HIDE DEF Coming
  <1>8. freeStmts' # {} =>
          spc' = "main" /\ todo' \subseteq Query /\ ipc' \in {"clear", "query"}
    BY DEF RecoverMine
  <1> QED
    BY <1>4, <1>5, <1>6, <1>7, <1>8 DEF RecoverMine

LEMMA RecoverNextMine ==
    ASSUME RestartInv, RecoverMine, NEW x \in todo, RecoverNext(x) PROVE RecoverMine'
  <1> DEFINE k == Kind(x)
             c == IF k = "query" THEN ADD_QUERY ELSE ADD_DECLARE
  <1>1. /\ x \in Names /\ k \in {"query", "table", "stream"}
        /\ (x \in Query <=> k = "query")
    <2>1. x \in Query \cup Stream \cup Table
      BY DEF RestartInv, RecordsInv
    <2> QED
      BY <2>1, RestartAssumption DEF Kind, Names
  <1>2. Sends(k, x, c) /\ ipc = "clear" /\ todo' \subseteq todo
        /\ UNCHANGED <<spc, freeStmts, misread>>
    BY <1>1 DEF RecoverNext, schVars
  <1>3. qBuf \in Seq(Message) /\ ioBuf \in Seq(Message) /\ pend \in Seq(Message)
    BY DEF RestartInv, TypeInv, TypeOK
  <1>4. /\ qBuf' = Append(Stale(qBuf), Msg(c, x)) /\ ioBuf' = Stale(ioBuf)
        /\ pend' = Stale(pend) /\ ipc' = k
    BY <1>2 DEF Sends
  <1>5. QueueMine(qBuf', k)
    BY <1>1, <1>2, <1>3, <1>4, QueueSends DEF RecoverMine
  <1>6. Coming \in Seq(Late)
    BY <1>2 DEF RecoverMine, Before
  <1> HIDE DEF k, c
  <1>7. ioBuf' \in Seq(Late) /\ pend' \in Seq(Late)
    <2>1. \A i \in DOMAIN ioBuf : ioBuf[i].code \in Command
      <3>1. \A i \in DOMAIN ioBuf : i \in DOMAIN Coming /\ Coming[i] = ioBuf[i]
        BY <1>3, ConcatAt DEF Coming
      <3> QED
        BY <1>6, <3>1, LateThen
    <2>2. \A i \in DOMAIN pend : pend[i].code \in Command
      <3>1. \A i \in DOMAIN pend : Len(ioBuf) + i \in DOMAIN Coming
                                   /\ Coming[Len(ioBuf) + i] = pend[i]
        BY <1>3, ConcatAt DEF Coming
      <3> QED
        BY <1>6, <3>1, LateThen
    <2>3. ASSUME NEW s \in Seq(Message), \A i \in DOMAIN s : s[i].code \in Command
          PROVE  Stale(s) \in Seq(Late)
      <3>1. Stale(s) \in Seq(Message) /\ \A i \in DOMAIN Stale(s) : Stale(s)[i].code \in Command
        BY <2>3, StaleSeq
      <3> DEFINE t == Stale(s)
      <3>2. t \in Seq(Message) /\ \A i \in DOMAIN t : t[i].code \in Command
        BY <3>1
      <3> HIDE DEF t
      <3>3. \A i \in DOMAIN t : t[i] \in Late
        BY <3>2 DEF Late
      <3>4. t \in Seq(Late)
        BY <3>2, <3>3, SeqOfAll
      <3> QED
        BY <3>4 DEF t
    <2> QED
      BY <1>3, <1>4, <2>1, <2>2, <2>3
  <1>8. Coming' \in Seq(Late)
    BY <1>7, ConcatAt DEF Coming
  <1>9. Coming' \in Seq(Readable) /\ Then(Compiler, Command, Coming')
    BY <1>8, LateThen
  <1> HIDE DEF Coming
  <1>10. ReplyIsMine'
    BY <1>2 DEF RecoverMine, ReplyIsMine
  <1>11. freeStmts' # {} =>
           spc' = "main" /\ todo' \subseteq Query /\ ipc' \in {"clear", "query"}
    <2>1. freeStmts # {} => spc = "main" /\ todo \subseteq Query
      BY DEF RecoverMine
    <2> QED
      BY <1>1, <1>2, <1>4, <2>1
  <1> QED
    BY <1>4, <1>5, <1>8, <1>9, <1>10, <1>11 DEF RecoverMine

\* The loops of recovery.
LEMMA RecoverLoops ==
    ASSUME RestartInv, RecoverMine, RecoverTable \/ RecoverStream \/ RecoverQuery
    PROVE  RecoverMine'
  <1>1. recovering /\ UNCHANGED <<pend, spc, freeStmts, todo>>
    BY DEF RecoverTable, RecoverStream, RecoverQuery, schVars
  <1>2. /\ arg \in Names /\ None \in Names
        /\ \A m \in ToSet(ioBuf) : m.arg \in Names
    BY SeenType DEF RestartInv, TypeInv, TypeOK, Names, Message
  <1>3. ASSUME NEW k, NEW m \in ToSet(ioBuf), Forward(k, m) PROVE RecoverMine'
    BY <1>1, <1>2, <1>3, RecoverPass DEF Forward, Sees
  <1>4. ASSUME NEW k, NEW m, NEW C, Other(k, m, C) PROVE RecoverMine'
    BY <1>1, <1>4, RecoverPass DEF Other, Sees, iosVars
  <1>5. ASSUME NEW k, NEW m \in ToSet(ioBuf), Sees(k, m),
               m.code \in {COMPILE_FAILURE, COMPILE_SUCCESS}, Reply(m), ipc' = "clear",
               \/ qBuf' = qBuf
               \/ qBuf' = Append(qBuf, Msg(m.code, None))
               \/ qBuf' = Append(qBuf, Msg(DROP_QUERY, arg))
        PROVE  RecoverMine'
    <2>1. /\ m.code \in Compiler /\ ioBuf # << >> /\ m = Head(ioBuf)
          /\ m.code \in {DEACTIVATE_QUERY, DROP_QUERY, ADDED_BUFFER}
          /\ DROP_QUERY \in {DEACTIVATE_QUERY, DROP_QUERY, ADDED_BUFFER}
      BY <1>5 DEF Compiler, Sees, COMPILE_SUCCESS, COMPILE_FAILURE,
                  DEACTIVATE_QUERY, DROP_QUERY
    <2>2. \/ qBuf' = qBuf
          \/ \E c \in {DEACTIVATE_QUERY, DROP_QUERY, ADDED_BUFFER}, x \in Names :
                qBuf' = Append(qBuf, Msg(c, x))
      BY <1>2, <1>5, <2>1
    <2> QED
      BY <1>1, <1>5, <2>1, <2>2, RecoverEnds
  <1>6. CASE RecoverTable
    <2>1. PICK m \in ToSet(ioBuf) : TableLoop!(m)
      BY <1>6 DEF RecoverTable, TableLoop
    <2>2. CASE TableLoop!(m)!1
      BY <1>5, <2>2
    <2> QED
      BY <1>3, <1>4, <2>1, <2>2
  <1>7. CASE RecoverStream
    <2>1. PICK m \in ToSet(ioBuf) : RecoverStream!(m)
      BY <1>7 DEF RecoverStream
    <2> QED
      BY <1>3, <1>4, <1>5, <2>1
  <1>8. CASE RecoverQuery
    <2>1. PICK m \in ToSet(ioBuf) : RecoverQuery!(m)
      BY <1>8 DEF RecoverQuery
    <2> QED
      BY <1>3, <1>4, <1>5, <2>1
  <1> QED
    BY <1>6, <1>7, <1>8

-----------------------------------------------------------------------------
LEMMA OwnInit == RInit => RestartMine
  BY MineInit DEF RInit, RestartMine

LEMMA OwnStep ==
    ASSUME Paced, RestartInv, RestartMine, [RNext]_rvars PROVE RestartMine'
  <1>1. CASE UNCHANGED rvars
    BY <1>1 DEF rvars, past, vars, RestartMine, MineInv, OwnInv, BatchInv, OneInv,
                RecoverMine, ReplyIsMine, Coming
  <1>2. CASE SystemCrash
    <2>1. recovering' = TRUE /\ qBuf' = << >> /\ ioBuf' = << >> /\ pend' = << >>
          /\ freeStmts' = {} /\ misread' = FALSE
      BY <1>2 DEF SystemCrash
    <2>2. Coming' = << >>
      BY <2>1 DEF Coming
    <2> QED
      BY <2>1, <2>2 DEF RestartMine, RecoverMine, QueueMine, Then, ReplyIsMine
  <1>3. CASE SchedulerCrash
    <2>1. SUFFICES ASSUME ~cut' PROVE RestartMine'
      BY DEF RestartMine
    <2>2. ~cut /\ ~recovering /\ ipc \in {"ready", "clear", "poll"}
      BY <1>3, <2>1 DEF SchedulerCrash, Waiting
    <2>3. UNCHANGED <<recovering, misread, ipc>>
      BY <1>3 DEF SchedulerCrash, iosVars
    <2> QED
      BY <2>2, <2>3 DEF RestartMine, MineInv, OwnInv, BatchInv, OneInv, ReplyIsMine,
                        Awaits
  <1>4. ASSUME RAsks \/ RWorks \/ RSchedules \/ Recovers PROVE RestartMine'
    <2>1. cut' = cut
      BY <1>4 DEF RAsks, RWorks, RSchedules, Recovers, RecoverNext, RecoverTable,
                  RecoverStream, RecoverQuery, Recovered, past
    <2>2. SUFFICES ASSUME ~cut PROVE RestartMine'
      BY <2>1 DEF RestartMine
    <2>3. TypeInv
      BY DEF RestartInv
    <2>4. CASE ~recovering /\ (RAsks \/ RWorks)
      <3>1. MineInv /\ ~recovering'
        BY <2>2, <2>4 DEF RestartMine, RAsks, RWorks
      <3> QED
        BY <2>3, <2>4, <3>1, MineClient, MineReads, MineIdle
        DEF RestartMine, RAsks, RWorks, Ios
    <2>5. CASE RSchedules
      <3>1. Scheduler /\ UNCHANGED <<recovering, todo>>
        BY <2>5 DEF RSchedules
      <3>2. CASE recovering
        BY <2>2, <3>1, <3>2, RecoverScheduler DEF RestartMine
      <3>3. CASE ~recovering
        BY <2>2, <2>3, <3>1, <3>3, MineScheduler DEF RestartMine
      <3> QED
        BY <3>2, <3>3
    <2>6. CASE \E x \in todo : RecoverNext(x)
      <3>1. PICK x \in todo : RecoverNext(x)
        BY <2>6
      <3>2. recovering /\ recovering'
        BY <3>1 DEF RecoverNext
      <3> QED
        BY <2>2, <3>1, <3>2, RecoverNextMine DEF RestartMine
    <2>7. CASE RecoverTable \/ RecoverStream \/ RecoverQuery
      <3>1. recovering /\ recovering'
        BY <2>7 DEF RecoverTable, RecoverStream, RecoverQuery
      <3> QED
        BY <2>2, <2>7, <3>1, RecoverLoops DEF RestartMine
    <2>8. CASE Recovered
      <3>1. recovering /\ ~recovering' /\ ipc' = "ready" /\ misread' = misread
        BY <2>8 DEF Recovered
      <3>2. ReplyIsMine
        BY <2>2, <3>1 DEF RestartMine, RecoverMine
      <3> QED
        BY <3>1, <3>2 DEF RestartMine, MineInv, OwnInv, BatchInv, OneInv, ReplyIsMine,
                          Awaits
    <2> QED
      BY <1>4, <2>4, <2>5, <2>6, <2>7, <2>8 DEF RAsks, RWorks, Recovers
  <1> QED
    BY <1>1, <1>2, <1>3, <1>4 DEF RNext

\* With a client that waits, no request and no recovered statement ends with
\* another one's answer, whatever crashes and however often, unless the scheduler
\* dies while Ios waits for it: Ios goes on to the next record while verdicts of
\* the last one are still under way, but those never look like the answer it is
\* waiting for.
THEOREM RestartReplies == ASSUME Paced PROVE RSpec => []OwnReplies
  <1>1. RInit => RestartInv /\ RestartMine
    BY RestartInit, OwnInit
  <1>2. RestartInv /\ RestartMine /\ [RNext]_rvars => (RestartInv /\ RestartMine)'
    BY RestartStep, OwnStep
  <1>3. RestartMine => OwnReplies
    BY DEF RestartMine, OwnReplies, RecoverMine, MineInv
  <1> QED
    BY <1>1, <1>2, <1>3, PTL DEF RSpec
=============================================================================
