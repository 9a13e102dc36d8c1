-------------------------- MODULE QueryPoolProofs --------------------------
(***************************************************************************)
(* Proofs about QueryPool, for any statements, buffers and queries, on top *)
(* of DriverGraphProofs: the graph stays right (PoolInv), and queries that *)
(* are no collections are in the driver as a whole (WholeInv) and leave no *)
(* trace when they are refused (UndoInv).                                  *)
(***************************************************************************)
EXTENDS QueryPool, DriverGraphProofs

-----------------------------------------------------------------------------
\* A call of addStmt that an activation has to make.
JobRec == [stmt : Stmt, as : Stmt \cup Coll, must : BOOLEAN, note : SUBSET Buffer]

\* No collection has a join among its statements.
NoJoins == \A c \in Coll : \A p \in ToSet(Parts[c]) : Type[p] # "join"

\* The parts of every statement that is added are there or are added before it;
\* without them the activation ends.
Supplied(jobs, S) ==
    \A i \in DOMAIN jobs : \A p \in ToSet(Parts[jobs[i].stmt]) :
       p \in S \/ \E j \in DOMAIN jobs : j < i /\ jobs[j].must /\ jobs[j].stmt = p

\* The same for jobs of known length.
Met(js, S, n) ==
    \A i \in 1 .. n : \A p \in ToSet(Parts[js[i].stmt]) :
       p \in S \/ \E j \in 1 .. n : j < i /\ js[j].must /\ js[j].stmt = p

\* Supplied and Met are the same.
LEMMA SuppliedIs ==
  ASSUME NEW js, NEW S, NEW n, DOMAIN js = 1 .. n
  PROVE  Supplied(js, S) <=> Met(js, S, n)
  BY ZenonT(40) DEF Supplied, Met

\* The parts of a query are statements, and have no parts themselves.
LEMMA PartsHave ==
  ASSUME NEW s \in Stmt \cup Coll
  PROVE  /\ Parts[s] \in Seq(Stmt) /\ ToSet(Parts[s]) \subseteq Stmt
         /\ DOMAIN Parts[s] = 1 .. Len(Parts[s]) /\ Len(Parts[s]) \in Nat
         /\ s \in Stmt => \A p \in ToSet(Parts[s]) : ToSet(Parts[p]) = {}
         /\ s \in Stmt /\ Type[s] = "normal" => ToSet(Parts[s]) = {}
  <1>1. Parts[s] \in Seq(Stmt) /\ DOMAIN Parts[s] = 1 .. Len(Parts[s]) /\ Len(Parts[s]) \in Nat
    BY PoolAssumption
  <1>2. ToSet(Parts[s]) \subseteq Stmt
    BY <1>1 DEF ToSet
  <1>3. ASSUME NEW p \in Stmt, Type[p] = "normal" PROVE ToSet(Parts[p]) = {}
    BY <1>3, PoolAssumption, EmptyHas
  <1>4. s \in Stmt => \A p \in ToSet(Parts[s]) : Type[p] = "normal"
    BY PartsAssumption
  <1>5. s \in Stmt => \A p \in ToSet(Parts[s]) : ToSet(Parts[p]) = {}
    BY <1>2, <1>3, <1>4
  <1> QED
    BY <1>1, <1>2, <1>3, <1>5

\* The calls for the parts of a statement, in their order.
LEMMA PartJobsHave ==
  ASSUME NEW s \in Stmt, NEW js, js = PartJobs(s)
  PROVE  /\ js \in Seq(JobRec) /\ DOMAIN js = DOMAIN Parts[s]
         /\ \A i \in DOMAIN js : /\ js[i].stmt = Parts[s][i] /\ js[i].as = Parts[s][i]
                                 /\ js[i].must
         /\ Supplied(js, {})
  <1>1. /\ Parts[s] \in Seq(Stmt) /\ DOMAIN Parts[s] = 1 .. Len(Parts[s])
        /\ Len(Parts[s]) \in Nat
        /\ \A p \in ToSet(Parts[s]) : ToSet(Parts[p]) = {}
    BY PartsHave
  <1>2. DOMAIN js = DOMAIN Parts[s]
    BY DEF PartJobs
  <1>3. ASSUME NEW i \in DOMAIN Parts[s]
        PROVE  /\ js[i] \in JobRec /\ js[i].stmt = Parts[s][i] /\ js[i].as = Parts[s][i]
               /\ js[i].must /\ Parts[s][i] \in ToSet(Parts[s])
    <2>1. PICK p : p = Parts[s][i]
      OBVIOUS
    <2>2. p \in Stmt /\ p \in ToSet(Parts[s])
      BY <1>1, <2>1 DEF ToSet
    <2>3. js[i] = Job(p, p, TRUE, Reads(p))
      BY <2>1 DEF PartJobs
    <2>4. Reads(p) \subseteq Buffer
      BY <2>2, LastRead
    <2>5. js[i] \in JobRec /\ js[i].stmt = p /\ js[i].as = p /\ js[i].must
      BY <2>2, <2>3, <2>4 DEF Job, JobRec
    <2> QED
      BY <2>1, <2>2, <2>5
  <1>4. js \in Seq(JobRec)
    <2>1. js = [i \in 1 .. Len(Parts[s]) |-> js[i]]
      BY <1>1 DEF PartJobs
    <2> QED
      BY <1>1, <1>3, <2>1
  <1>5. Supplied(js, {})
    BY <1>1, <1>2, <1>3 DEF Supplied
  <1> QED
    BY <1>2, <1>3, <1>4, <1>5

\* A statement after its parts.
LEMMA WithParts ==
  ASSUME NEW s \in Stmt, NEW as \in Stmt \cup Coll, NEW must \in BOOLEAN,
         NEW note \in SUBSET Buffer, NEW js, js = Append(PartJobs(s), Job(s, as, must, note))
  PROVE  js \in Seq(JobRec) /\ Supplied(js, {})
  <1>1. PICK ps, k : ps = PartJobs(s) /\ k = Job(s, as, must, note)
    OBVIOUS
  <1>2. /\ ps \in Seq(JobRec) /\ DOMAIN ps = DOMAIN Parts[s]
        /\ \A i \in DOMAIN ps : ps[i].stmt = Parts[s][i] /\ ps[i].must
        /\ Supplied(ps, {})
    BY <1>1, PartJobsHave
  <1>3. k \in JobRec /\ k.stmt = s
    BY <1>1 DEF Job, JobRec
  <1>4. js = Append(ps, k)
    BY <1>1
  <1>5. PICK n : n = Len(ps)
    OBVIOUS
  <1>6. /\ n \in Nat /\ DOMAIN ps = 1 .. n /\ js \in Seq(JobRec) /\ DOMAIN js = 1 .. n + 1
        /\ js[n + 1] = k /\ \A i \in 1 .. n : js[i] = ps[i] /\ i < n + 1 /\ i \in 1 .. n + 1
    BY <1>2, <1>3, <1>4, <1>5
  <1>7. \A i \in 1 .. n + 1 : i \in 1 .. n \/ i = n + 1
    BY <1>6
  <1>8. ASSUME NEW i \in 1 .. n + 1, NEW p \in ToSet(Parts[js[i].stmt])
        PROVE  \E j \in 1 .. n + 1 : j < i /\ js[j].must /\ js[j].stmt = p
    <2>1. CASE i \in 1 .. n
      <3>1. p \in ToSet(Parts[ps[i].stmt])
        BY <1>6, <1>8, <2>1
      <3>2. PICK j \in 1 .. n : j < i /\ ps[j].must /\ ps[j].stmt = p
        <4>1. Met(ps, {}, n)
          BY <1>2, <1>6, SuppliedIs
        <4> QED
          BY <2>1, <3>1, <4>1 DEF Met
      <3> QED
        BY <1>6, <3>2
    <2>2. CASE i = n + 1
      <3>1. p \in ToSet(Parts[s])
        BY <1>3, <1>6, <1>8, <2>2
      <3>2. PICK j \in 1 .. n : Parts[s][j] = p
        BY <1>2, <1>6, <3>1 DEF ToSet
      <3> QED
        BY <1>2, <1>6, <2>2, <3>2
    <2> QED
      BY <1>7, <2>1, <2>2
  <1>9. Supplied(js, {})
    <2>1. Met(js, {}, n + 1)
      BY <1>8 DEF Met
    <2> QED
      BY <1>6, <2>1, SuppliedIs
  <1> QED
    BY <1>6, <1>9

\* Two lists of calls that need nothing else, one after the other.
LEMMA SuppliedConcat ==
  ASSUME NEW a \in Seq(JobRec), NEW b \in Seq(JobRec), Supplied(a, {}), Supplied(b, {})
  PROVE  Supplied(a \o b, {})
  <1>1. PICK r, m, n : r = a \o b /\ m = Len(a) /\ n = Len(b)
    OBVIOUS
  <1>2. /\ r \in Seq(JobRec) /\ m \in Nat /\ n \in Nat /\ DOMAIN r = 1 .. m + n
        /\ DOMAIN a = 1 .. m /\ DOMAIN b = 1 .. n
        /\ \A i \in 1 .. m + n : r[i] = IF i <= m THEN a[i] ELSE b[i - m]
    BY <1>1
  <1>3. \A i \in 1 .. m : i \in 1 .. m + n /\ r[i] = a[i]
    BY <1>2
  <1>4. \A i \in 1 .. n : i + m \in 1 .. m + n /\ r[i + m] = b[i]
    BY <1>2
  <1>5. \A i \in 1 .. m + n : i \in 1 .. m \/ \E k \in 1 .. n : i = k + m
    <2>1. \A i \in 1 .. m + n : i \notin 1 .. m => i - m \in 1 .. n /\ i = (i - m) + m
      BY <1>2
    <2> QED
      BY <2>1
  <1>6. ASSUME NEW i \in 1 .. m + n, NEW p \in ToSet(Parts[r[i].stmt])
        PROVE  \E j \in 1 .. m + n : j < i /\ r[j].must /\ r[j].stmt = p
    <2>1. CASE i \in 1 .. m
      <3>1. p \in ToSet(Parts[a[i].stmt])
        BY <1>3, <1>6, <2>1
      <3>2. PICK j \in 1 .. m : j < i /\ a[j].must /\ a[j].stmt = p
        <4>1. Met(a, {}, m)
          BY <1>2, SuppliedIs
        <4> QED
          BY <2>1, <3>1, <4>1 DEF Met
      <3> QED
        BY <1>3, <3>2
    <2>2. CASE \E k \in 1 .. n : i = k + m
      <3>1. PICK k \in 1 .. n : i = k + m
        BY <2>2
      <3>2. r[i] = b[k]
        BY <1>4, <3>1
      <3>3. PICK j \in 1 .. n : j < k /\ b[j].must /\ b[j].stmt = p
        <4>1. p \in ToSet(Parts[b[k].stmt])
          BY <1>6, <3>2
        <4>2. Met(b, {}, n)
          BY <1>2, SuppliedIs
        <4> QED
          BY <3>1, <4>1, <4>2 DEF Met
      <3>4. j + m < i
        BY <1>2, <3>1, <3>3
      <3> QED
        BY <1>4, <3>3, <3>4
    <2> QED
      BY <1>5, <2>1, <2>2
  <1>7. Supplied(r, {})
    <2>1. Met(r, {}, m + n)
      BY <1>6 DEF Met
    <2> QED
      BY <1>2, <2>1, SuppliedIs
  <1> QED
    BY <1>1, <1>7

\* The calls for a query of the list.
LEMMA JobsHave ==
  ASSUME NEW q \in Query, NoJoins, NEW js, js = Jobs(q)
  PROVE  js \in Seq(JobRec) /\ Supplied(js, {})
  <1>1. CASE q \in Stmt
    <2>1. PICK note : note = IF Type[q] = "normal" THEN Reads(q) ELSE {}
      OBVIOUS
    <2>2. note \in SUBSET Buffer
      BY <1>1, <2>1, LastRead
    <2>3. js = Append(PartJobs(q), Job(q, q, TRUE, note))
      BY <1>1, <2>1 DEF Jobs
    <2>4. TRUE \in BOOLEAN /\ q \in Stmt \cup Coll
      BY <1>1
    <2> QED
      BY ONLY <1>1, <2>2, <2>3, <2>4, WithParts
  <1>2. CASE q \notin Stmt
    <2>0. q \in Coll /\ q \in Stmt \cup Coll
      BY <1>2 DEF Coll
    <2> DEFINE one(i) == LET p == Parts[q][i] IN
                         IF Type[p] = "union"
                           THEN Append(PartJobs(p), Job(p, q, FALSE, {}))
                           ELSE <<Job(p, p, TRUE, {Last(Ins[p])})>>
               ss == [i \in DOMAIN Parts[q] |-> one(i)]
               G == {t \in Seq(JobRec) : Supplied(t, {})}
    <2>1. js = FlattenSeq(ss)
      BY <1>2 DEF Jobs
    <2>2. /\ Parts[q] \in Seq(Stmt) /\ DOMAIN Parts[q] = 1 .. Len(Parts[q])
          /\ Len(Parts[q]) \in Nat
      BY <2>0, PartsHave
    <2>3. ASSUME NEW i \in DOMAIN Parts[q] PROVE one(i) \in G
      <3>1. PICK p : p = Parts[q][i]
        OBVIOUS
      <3>2. p \in Stmt /\ Type[p] # "join"
        BY <2>0, <2>2, <3>1 DEF NoJoins, ToSet
      <3>3. CASE Type[p] = "union"
        <4>1. one(i) = Append(PartJobs(p), Job(p, q, FALSE, {}))
          BY <3>1, <3>3
        <4>2. FALSE \in BOOLEAN /\ {} \in SUBSET Buffer
          OBVIOUS
        <4>3. one(i) \in Seq(JobRec) /\ Supplied(one(i), {})
          BY ONLY <2>0, <3>2, <4>1, <4>2, WithParts
        <4> QED
          BY <4>3
      <3>4. CASE Type[p] # "union"
        <4>1. PICK k : k = Job(p, p, TRUE, {Last(Ins[p])})
          OBVIOUS
        <4>2. one(i) = <<k>>
          BY <3>1, <3>4, <4>1
        <4>3. {Last(Ins[p])} \subseteq Buffer /\ Type[p] = "normal"
          BY <3>2, <3>4, LastRead, GraphAssumption
        <4>4. k \in JobRec /\ k.stmt = p
          BY <3>2, <4>1, <4>3 DEF Job, JobRec
        <4>5. ToSet(Parts[p]) = {}
          BY <3>2, <4>3, PartsHave
        <4>6. Supplied(<<k>>, {})
          BY <4>4, <4>5 DEF Supplied
        <4>7. <<k>> \in Seq(JobRec)
          BY <4>4
        <4> QED
          BY <4>2, <4>6, <4>7
      <3> QED
        BY <3>3, <3>4
    <2> HIDE DEF one
    <2>4. ss \in Seq(Seq(JobRec)) /\ DOMAIN ss = DOMAIN Parts[q]
          /\ \A i \in DOMAIN ss : ss[i] \in G
      <3>1. \A i \in 1 .. Len(Parts[q]) : one(i) \in Seq(JobRec)
        BY <2>2, <2>3
      <3> QED
        BY <2>2, <2>3, <3>1
    <2> HIDE DEF ss
    <2>5. << >> \in G
      BY DEF Supplied
    <2>6. \A a, b \in G : a \o b \in G
      BY SuppliedConcat
    <2> HIDE DEF G
    <2>7. FlattenSeq(ss) \in G
      BY <2>4, <2>5, <2>6, FlattenKeeps
    <2> QED
      BY <2>1, <2>7 DEF G
  <1> QED
    BY <1>1, <1>2

\* Once the first call is made the others are supplied.
LEMMA SuppliedTail ==
  ASSUME NEW js \in Seq(JobRec), js # << >>, NEW S, Supplied(js, S), NEW T, S \subseteq T,
         Head(js).must => Head(js).stmt \in T
  PROVE  /\ Head(js) \in JobRec /\ Tail(js) \in Seq(JobRec) /\ Supplied(Tail(js), T)
         /\ ToSet(Parts[Head(js).stmt]) \subseteq S
  <1>1. PICK h, t, n : h = Head(js) /\ t = Tail(js) /\ n = Len(js)
    OBVIOUS
  <1>2. /\ n \in Nat /\ n >= 1 /\ DOMAIN js = 1 .. n /\ DOMAIN t = 1 .. n - 1 /\ js[1] = h
        /\ h \in JobRec /\ t \in Seq(JobRec)
        /\ \A i \in 1 .. n - 1 : t[i] = js[i + 1] /\ i + 1 \in 1 .. n
    BY <1>1
  <1>3. ToSet(Parts[h.stmt]) \subseteq S
    <2>1. 1 \in 1 .. n /\ \A j \in 1 .. n : ~ (j < 1)
      BY <1>2
    <2>2. Met(js, S, n)
      BY <1>2, SuppliedIs
    <2> QED
      BY <1>2, <2>1, <2>2 DEF Met
  <1>4. \A j \in 1 .. n : j = 1 \/ \E k \in 1 .. n - 1 : j = k + 1
    <2>1. \A j \in 1 .. n : j # 1 => j - 1 \in 1 .. n - 1 /\ j = (j - 1) + 1
      BY <1>2
    <2> QED
      BY <2>1
  <1>5. ASSUME NEW i \in 1 .. n - 1, NEW p \in ToSet(Parts[t[i].stmt]), p \notin T
        PROVE  \E j \in 1 .. n - 1 : j < i /\ t[j].must /\ t[j].stmt = p
    <2>1. PICK j \in 1 .. n : j < i + 1 /\ js[j].must /\ js[j].stmt = p
      <3>1. PICK k : k = i + 1
        OBVIOUS
      <3>2. k \in 1 .. n /\ p \in ToSet(Parts[js[k].stmt]) /\ p \notin S
        BY <1>2, <1>5, <3>1
      <3>3. Met(js, S, n)
        BY <1>2, SuppliedIs
      <3> QED
        BY <3>1, <3>2, <3>3 DEF Met
    <2>2. j # 1
      BY <1>1, <1>2, <1>5, <2>1
    <2>3. PICK k \in 1 .. n - 1 : j = k + 1
      BY <1>4, <2>2
    <2>4. k < i /\ t[k] = js[j]
      BY <1>2, <2>1, <2>3
    <2> QED
      BY <2>1, <2>4
  <1>6. Supplied(t, T)
    <2>1. Met(t, T, n - 1)
      BY <1>5 DEF Met
    <2> QED
      BY <1>2, <2>1, SuppliedIs
  <1> QED
    BY <1>1, <1>2, <1>3, <1>6

\* What AddRight needs to know of a statement whose parts are there.
LEMMA PartsReady ==
  ASSUME NEW h, Right(h), NEW s \in Stmt, ToSet(Parts[s]) \subseteq h.stmts
  PROVE  Ready(h, s)
  <1>1. /\ Apt(h.stmts) /\ h.stmts \subseteq Stmt /\ DOMAIN h.tab = InUse(h.stmts, h.stmts)
    BY DEF Right, Apt, Tabled
  <1>2. ASSUME NEW p \in ToSet(Parts[s]) PROVE Out[p] \in DOMAIN h.tab
    BY <1>1, LastRead DEF InUse, Writers
  <1>3. Type[s] = "union" => Reads(s) \subseteq DOMAIN h.tab
    BY <1>2, PartsAssumption
  <1>4. ASSUME Type[s] = "join", NEW i \in 1 .. Len(Ins[s]), i < Len(Ins[s])
        PROVE  Ins[s][i] \in DOMAIN h.tab /\ Readers(h.stmts, Ins[s][i]) \subseteq {s}
    <2>1. i \in 1 .. Len(Ins[s]) - 1
      <3>1. Len(Ins[s]) \in Nat
        BY GraphAssumption
      <3> QED
        BY <1>4, <3>1
    <2>2. /\ \E p \in ToSet(Parts[s]) : Out[p] = Ins[s][i]
          /\ \A r \in Stmt : Ins[s][i] \in Reads(r) => r = s
      BY <1>4, <2>1, PartsAssumption
    <2> QED
      BY <1>1, <1>2, <2>2 DEF Readers
  <1> QED
    BY <1>3, <1>4 DEF Ready

\* What needs no statement to be there needs none of S.
LEMMA SuppliedMore ==
  ASSUME NEW js, NEW S, Supplied(js, {}) PROVE Supplied(js, S)
  BY DEF Supplied

-----------------------------------------------------------------------------
(* The graph under the handlers                                             *)

\* What is known of the graph and of the lists of the handlers.
PoolInv ==
    /\ Right(g)
    /\ pc \in {"idle", "next", "add", "undo", "deactivate", "drop"}
    /\ free \in Seq(Query) /\ work \in Seq(Query)
    /\ pc \in {"deactivate", "drop"} => cmd \in Query
    /\ pc = "add" => todo \in Seq(JobRec) /\ Supplied(todo, g.stmts)

\* The search looks at a part of the pool.
LEMMA SearchedIn ==
  ASSUME free \in Seq(Query)
  PROVE  Searched \in Seq(Query) /\ ToSet(Searched) \subseteq ToSet(free)
  <1> DEFINE at == {i \in DOMAIN free : free[i] \in ToSet(added)}
             m == CHOOSE i \in at : \A j \in at : i <= j
  <1>1. CASE at = {}
    BY <1>1 DEF Searched
  <1>2. CASE at # {}
    <2>1. at \subseteq Nat /\ at \subseteq 1 .. Len(free)
      OBVIOUS
    <2>2. \E i \in at : \A j \in at : i <= j
      BY <1>2, <2>1, LeastNat
    <2>3. m \in 1 .. Len(free)
      BY <2>1, <2>2
    <2>4. Searched = SubSeq(free, 1, m - 1)
      BY <1>2 DEF Searched
    <2> HIDE DEF m
    <2>5. PICK t, n : t = Searched /\ n = m - 1
      OBVIOUS
    <2>6. /\ n \in Nat /\ n < Len(free) /\ t \in Seq(Query) /\ DOMAIN t = 1 .. n
          /\ \A i \in 1 .. n : t[i] = free[i] /\ i \in DOMAIN free
      BY <2>3, <2>4, <2>5
    <2> QED
      BY <2>5, <2>6 DEF ToSet
  <1> QED
    BY <1>1, <1>2

\* PoolInv holds initially.
LEMMA PoolInit == Init => PoolInv
  <1> SUFFICES ASSUME Init PROVE PoolInv
    OBVIOUS
  <1>1. << >> \in Seq(Query)
    OBVIOUS
  <1> QED
    BY <1>1, EmptyRight DEF Init, PoolInv

\* Every step of a handler keeps PoolInv.
LEMMA PoolNext ==
  ASSUME NoJoins, PoolInv, [Next]_vars
  PROVE  PoolInv'
  <1>0. /\ Right(g)
        /\ pc \in {"idle", "next", "add", "undo", "deactivate", "drop"}
        /\ free \in Seq(Query) /\ work \in Seq(Query)
        /\ pc \in {"deactivate", "drop"} => cmd \in Query
        /\ pc = "add" => todo \in Seq(JobRec) /\ Supplied(todo, g.stmts)
    BY DEF PoolInv
  <1>e. << >> \in Seq(Query)
    OBVIOUS
  <1>1. ASSUME NEW q \in Query, AddQuery(q) PROVE PoolInv'
    <2>1. Append(free, q) \in Seq(Query)
      BY <1>0
    <2> QED
      BY <1>0, <1>1, <2>1 DEF AddQuery, handler, PoolInv
  <1>2. ASSUME NEW q \in Query, Activate(q) PROVE PoolInv'
    <2>1. <<q>> \in Seq(Query)
      BY OneHas
    <2> QED
      BY <1>0, <1>2, <2>1 DEF Activate, PoolInv
  <1>3. ASSUME NEW q \in Query, Deactivate(q) PROVE PoolInv'
    BY <1>0, <1>3 DEF Deactivate, PoolInv
  <1>4. ASSUME NEW q \in Query, DropQuery(q) PROVE PoolInv'
    <2>1. Without(free, {q}) \in Seq(Query)
      BY <1>0, WithoutHas
    <2> QED
      BY <1>0, <1>4, <2>1 DEF DropQuery, PoolInv
  <1>5. ASSUME NEW x \in Stream, DropDeclare(x) PROVE PoolInv'
    BY <1>0, <1>5 DEF DropDeclare, handler, PoolInv
  <1>6. ASSUME NEW x \in Stream, Declare(x) PROVE PoolInv'
    <2> DEFINE users == {q \in ToSet(free) : x \in Watched(q)}
    <2>1. Without(free, users) \o Only(free, users) \in Seq(Query)
      BY <1>0, WithoutHas, OnlyHas
    <2>2. free' \in Seq(Query)
      BY <1>0, <1>6, <2>1 DEF Declare
    <2> QED
      BY <1>0, <1>6, <2>2 DEF Declare, handler, PoolInv
  <1>7. ASSUME TakeStmt PROVE PoolInv'
    <2>1. Front(work) \in Seq(Query) /\ Last(work) \in Query
      BY <1>0, <1>7, FrontLast DEF TakeStmt
    <2>2. Jobs(Last(work)) \in Seq(JobRec) /\ Supplied(Jobs(Last(work)), {})
      BY <2>1, JobsHave
    <2>3. todo' \in Seq(JobRec) /\ Supplied(todo', g.stmts)
      BY <1>7, <2>2, SuppliedMore DEF TakeStmt
    <2> QED
      BY <1>0, <1>7, <2>1, <2>3 DEF TakeStmt, PoolInv
  <1>8. ASSUME AddOne PROVE PoolInv'
    <2> DEFINE job == Head(todo)
               r == AddStmt(g, job.stmt, job.stmt \notin invalid)
    <2>1. /\ todo \in Seq(JobRec) /\ todo # << >> /\ Supplied(todo, g.stmts)
      BY <1>0, <1>8 DEF AddOne
    <2>2. job \in JobRec /\ job.stmt \in Stmt /\ ToSet(Parts[job.stmt]) \subseteq g.stmts
      <3>0. PICK S, T : S = g.stmts /\ T = g.stmts \cup {job.stmt}
        OBVIOUS
      <3>1. /\ job \in JobRec /\ ToSet(Parts[job.stmt]) \subseteq S
        <4>1. todo \in Seq(JobRec) /\ todo # << >> /\ Supplied(todo, S)
          BY <2>1, <3>0
        <4>2. S \subseteq T /\ (Head(todo).must => Head(todo).stmt \in T)
          BY <3>0
        <4> QED
          BY ONLY <4>1, <4>2, SuppliedTail
      <3> HIDE DEF job
      <3> QED
        BY <3>0, <3>1 DEF JobRec
    <2>3. Ready(g, job.stmt)
      BY <1>0, <2>2, PartsReady
    <2>4. /\ Right(r.g) /\ r.ok \in BOOLEAN
          /\ r.ok => r.g.stmts = g.stmts \cup {job.stmt}
          /\ ~ r.ok => r.g.stmts = g.stmts
      BY <1>0, <2>2, <2>3, AddRight
    <2>5. /\ g' = r.g
          /\ \/ (r.ok \/ ~job.must) /\ todo' = Tail(todo) /\ pc' = "add"
             \/ ~ (r.ok \/ ~job.must) /\ pc' = "undo"
          /\ UNCHANGED <<free, work>>
      BY <1>8 DEF AddOne
    <2>6. ASSUME r.ok \/ ~job.must
          PROVE  Tail(todo) \in Seq(JobRec) /\ Supplied(Tail(todo), r.g.stmts)
      <3>1. g.stmts \subseteq r.g.stmts /\ (job.must => job.stmt \in r.g.stmts)
        BY <2>4, <2>6
      <3> HIDE DEF r
      <3> QED
        BY <2>1, <3>1, SuppliedTail
    <2> HIDE DEF r, job
    <2> QED
      BY <1>0, <2>4, <2>5, <2>6 DEF PoolInv
  <1>9. ASSUME Search PROVE PoolInv'
    <2> DEFINE S == {q \in ToSet(free) : OutOf(q) \in bufs}
    <2>1. work \o Only(Searched, S) \in Seq(Query)
      BY <1>0, SearchedIn, OnlyHas
    <2>2. work' \in Seq(Query)
      BY <1>9, <2>1 DEF Search
    <2> QED
      BY <1>0, <1>9, <2>2 DEF Search, PoolInv
  <1>10. ASSUME Activated PROVE PoolInv'
    <2>1. Without(free, ToSet(added)) \in Seq(Query)
      BY <1>0, WithoutHas
    <2> QED
      BY <1>0, <1>e, <1>10, <2>1 DEF Activated, Ends, PoolInv
  <1>11. ASSUME Undo PROVE PoolInv'
    <2>1. Right(DropStmt(g, Head(added)).g)
      BY <1>0, DropRight
    <2> QED
      BY <1>0, <1>e, <1>11, <2>1 DEF Undo, Ends, PoolInv
  <1>12. ASSUME DropOne PROVE PoolInv'
    <2>1. Right(DropStmt(g, Head(todo)).g)
      BY <1>0, DropRight
    <2> QED
      BY <1>0, <1>12, <2>1 DEF DropOne, PoolInv
  <1>13. ASSUME Deactivated PROVE PoolInv'
    <2>1. cmd \in Query
      BY <1>0, <1>13 DEF Deactivated
    <2>2. Append(free, cmd) \in Seq(Query)
      BY <1>0, <2>1
    <2> QED
      BY <1>0, <1>e, <1>13, <2>2 DEF Deactivated, Ends, PoolInv
  <1>14. ASSUME Dropped PROVE PoolInv'
    BY <1>0, <1>e, <1>14 DEF Dropped, Ends, PoolInv
  <1>15. ASSUME UNCHANGED vars PROVE PoolInv'
    BY <1>0, <1>15 DEF vars, PoolInv
  <1> QED
    BY <1>1, <1>2, <1>3, <1>4, <1>5, <1>6, <1>7, <1>8, <1>9, <1>10, <1>11, <1>12,
       <1>13, <1>14, <1>15 DEF Next

\* For any statements, queries and streams, and collections without joins, after
\* every call of Driver::addStmt and Driver::dropStmt, refused ones included, the
\* buffer state table is the one the statements call for (TableExact).
THEOREM TableCorrect ==
  ASSUME NoJoins PROVE Spec => []TableExact
  <1>1. PoolInv => TableExact
    BY RightIs DEF PoolInv, TableExact
  <1>2. Spec => []PoolInv
    BY PoolInit, PoolNext, PTL DEF Spec
  <1> QED
    BY <1>1, <1>2, PTL

\* DrvMgr::bufToDrvMap has exactly the buffers of the table (MapExact): a stream is
\* refused to be dropped just when a driver uses it.
THEOREM MapCorrect ==
  ASSUME NoJoins PROVE Spec => []MapExact
  <1>1. PoolInv => MapExact
    BY DEF PoolInv, MapExact, Right
  <1>2. Spec => []PoolInv
    BY PoolInit, PoolNext, PTL DEF Spec
  <1> QED
    BY <1>1, <1>2, PTL
-----------------------------------------------------------------------------
(* Whole queries                                                            *)

\* Every query is one statement with its parts, which are its own.
OwnParts ==
    /\ Query \subseteq Stmt
    /\ \A q \in Query : IsInjective(Parts[q])
    /\ \A p, q \in Query : p # q => Members(p) \cap Members(q) = {}

\* The statements of a list of calls.
Called(js) == {js[i].stmt : i \in DOMAIN js}

\* The queries of A are in S with all their statements, the others with none.
Whole(S, A) ==
    \A q \in Query : IF q \in A THEN Members(q) \subseteq S ELSE Members(q) \cap S = {}

\* The pool has what is known and not active, once; what is not valid is there.
Pooled ==
    /\ IsInjective(free) /\ ToSet(free) \subseteq known \ isActive
    /\ isActive \subseteq known /\ known \subseteq Query
    /\ stale \subseteq invalid /\ invalid \subseteq ToSet(free)

Resting == pc = "idle" => Whole(g.stmts, isActive) /\ added = << >>

\* What is left of the query that is taken out.
Leaving ==
    pc \in {"deactivate", "drop"} =>
      /\ cmd \in Query
      /\ IF pc = "drop" THEN cmd \notin known ELSE cmd \in isActive
      /\ \A q \in Query \ {cmd} : IF q \in isActive THEN Members(q) \subseteq g.stmts
                                  ELSE Members(q) \cap g.stmts = {}
      /\ todo \in Seq(Stmt) /\ IsInjective(todo)
      /\ ToSet(todo) = Members(cmd) \cap g.stmts

\* The graph has what it had when the activation began and what was added.
Entering ==
    pc \in {"next", "add", "undo"} =>
      /\ cmd \in known \ isActive
      /\ Whole(before.stmts, isActive)
      /\ added \in Seq(Stmt)
      /\ before.stmts \subseteq g.stmts
      /\ g.stmts \subseteq before.stmts \cup ToSet(added)
      /\ before.stmts \cap ToSet(added) = {}

\* The statements an activation has added and has still to add in this round.
Pending == IF pc = "add" THEN Called(todo) ELSE {}

\* They are whole queries of the pool, the one of the command among them, in
\* the end.
Planning ==
    pc \in {"next", "add"} =>
      LET plan == ToSet(added) \cup Pending
          from == ToSet(free) \cup {cmd} IN
      /\ ToSet(added) \subseteq g.stmts
      /\ ToSet(added) \cap invalid = {}
      /\ ToSet(work) \subseteq from
      /\ cmd \in plan \cup ToSet(work)
      /\ \A q \in Query \cap plan : Members(q) \subseteq plan
      /\ \A a \in plan : \E q \in from \cap plan : a \in Members(q)

\* The calls of a query that is no collection.
Calling ==
    pc = "add" => \A i \in DOMAIN todo : todo[i].must /\ todo[i].as = todo[i].stmt

WholeInv == Pooled /\ Resting /\ Leaving /\ Entering /\ Planning /\ Calling

\* The statements of a query that is no collection.
LEMMA OwnHas ==
  ASSUME OwnParts, NEW q \in Query
  PROVE  /\ q \in Stmt /\ Members(q) = ToSet(Parts[q]) \cup {q} /\ Watched(q) = Uses(q)
         /\ Members(q) \subseteq Stmt
         /\ \A p \in Query : \A s \in Members(q) : s \in Members(p) => p = q
         /\ Append(Parts[q], q) \in Seq(Stmt) /\ IsInjective(Append(Parts[q], q))
         /\ ToSet(Append(Parts[q], q)) = Members(q)
  <1>1. q \in Stmt /\ IsInjective(Parts[q])
    BY DEF OwnParts
  <1>2. Members(q) = ToSet(Parts[q]) \cup {q} /\ Watched(q) = Uses(q)
    BY <1>1 DEF Members, PartsOf, Watched
  <1>3. /\ Parts[q] \in Seq(Stmt) /\ ToSet(Parts[q]) \subseteq Stmt
        /\ Type[q] = "normal" => ToSet(Parts[q]) = {}
    BY <1>1, PartsHave
  <1>4. q \notin ToSet(Parts[q])
    BY <1>1, <1>3, PartsAssumption
  <1>5. /\ Append(Parts[q], q) \in Seq(Stmt) /\ IsInjective(Append(Parts[q], q))
        /\ ToSet(Append(Parts[q], q)) = ToSet(Parts[q]) \cup {q}
    BY <1>1, <1>3, <1>4, AppendHas
  <1>6. \A p \in Query : \A s \in Members(q) : s \in Members(p) => p = q
    BY DEF OwnParts
  <1> QED
    BY <1>1, <1>2, <1>3, <1>5, <1>6

\* The calls for such a query are for its statements, and none may fail.
LEMMA OwnJobs ==
  ASSUME OwnParts, NEW q \in Query, NEW js, js = Jobs(q)
  PROVE  /\ Called(js) = Members(q)
         /\ \A i \in DOMAIN js : js[i].must /\ js[i].as = js[i].stmt
  <1>1. q \in Stmt /\ Members(q) = ToSet(Parts[q]) \cup {q}
    BY OwnHas
  <1>2. PICK ps, k : /\ ps = PartJobs(q)
                     /\ k = Job(q, q, TRUE, IF Type[q] = "normal" THEN Reads(q) ELSE {})
    OBVIOUS
  <1>3. js = Append(ps, k)
    BY <1>1, <1>2 DEF Jobs
  <1>4. /\ ps \in Seq(JobRec) /\ DOMAIN ps = DOMAIN Parts[q]
        /\ \A i \in DOMAIN ps : /\ ps[i].stmt = Parts[q][i] /\ ps[i].as = Parts[q][i]
                                /\ ps[i].must
    BY <1>1, <1>2, PartJobsHave
  <1>5. k.stmt = q /\ k.as = q /\ k.must
    BY <1>2 DEF Job
  <1>6. PICK n : n = Len(ps)
    OBVIOUS
  <1>7. /\ n \in Nat /\ DOMAIN ps = 1 .. n /\ DOMAIN js = 1 .. n + 1
        /\ js[n + 1] = k /\ \A i \in 1 .. n : js[i] = ps[i]
    BY <1>3, <1>4, <1>6
  <1>8. 1 .. n + 1 = 1 .. n \cup {n + 1}
    BY <1>7
  <1>9. ToSet(Parts[q]) = {Parts[q][i] : i \in 1 .. n}
    BY <1>4, <1>7 DEF ToSet
  <1>10. Called(js) = {Parts[q][i] : i \in 1 .. n} \cup {q}
    BY <1>4, <1>5, <1>7, <1>8 DEF Called
  <1>11. \A i \in 1 .. n + 1 : js[i].must /\ js[i].as = js[i].stmt
    BY <1>4, <1>5, <1>7, <1>8
  <1> QED
    BY <1>1, <1>7, <1>9, <1>10, <1>11

\* The first call and the others.
LEMMA CalledHas ==
  ASSUME NEW js \in Seq(JobRec), js # << >>
  PROVE  /\ Called(js) = {Head(js).stmt} \cup Called(Tail(js))
         /\ \A i \in DOMAIN Tail(js) : \E j \in DOMAIN js : Tail(js)[i] = js[j]
         /\ \E j \in DOMAIN js : Head(js) = js[j]
  <1>1. PICK h, t, n : h = Head(js) /\ t = Tail(js) /\ n = Len(js)
    OBVIOUS
  <1>2. /\ n \in Nat /\ n >= 1 /\ DOMAIN js = 1 .. n /\ DOMAIN t = 1 .. n - 1 /\ js[1] = h
        /\ \A i \in 1 .. n - 1 : t[i] = js[i + 1] /\ i + 1 \in 1 .. n
    BY <1>1
  <1>3. \A j \in 1 .. n : j = 1 \/ \E k \in 1 .. n - 1 : j = k + 1
    <2>1. \A j \in 1 .. n : j # 1 => j - 1 \in 1 .. n - 1 /\ j = (j - 1) + 1
      BY <1>2
    <2> QED
      BY <2>1
  <1>4. \A i \in 1 .. n - 1 : \E j \in 1 .. n : t[i] = js[j]
    BY <1>2
  <1>5. \E j \in 1 .. n : h = js[j]
    BY <1>2
  <1>6. \A x : x \in Called(js) <=> \E j \in 1 .. n : x = js[j].stmt
    BY <1>2 DEF Called
  <1>7. \A x : x \in Called(t) <=> \E j \in 1 .. n - 1 : x = t[j].stmt
    BY <1>2 DEF Called
  <1>8. \A x : x \in Called(js) <=> x = h.stmt \/ x \in Called(t)
    <2>1. ASSUME NEW j \in 1 .. n PROVE js[j].stmt = h.stmt \/ js[j].stmt \in Called(t)
      BY <1>2, <1>3, <1>7
    <2>2. ASSUME NEW i \in 1 .. n - 1 PROVE t[i].stmt \in Called(js)
      BY <1>4, <1>6
    <2>3. h.stmt \in Called(js)
      BY <1>5, <1>6
    <2> QED
      BY <1>6, <1>7, <2>1, <2>2, <2>3
  <1> QED
    BY <1>1, <1>2, <1>4, <1>5, <1>8

\* ADD_QUERY keeps WholeInv.
LEMMA WholeAddQuery ==
  ASSUME OwnParts, PoolInv, WholeInv, NEW q \in Query, AddQuery(q) PROVE WholeInv'
  <1>1. /\ pc = "idle" /\ pc' = "idle" /\ q \notin known /\ q \notin ToSet(free)
        /\ known' = known \cup {q} /\ (free' = Append(free, q) \/ free' = free)
        /\ UNCHANGED <<g, invalid, stale, isActive, added>>
    BY DEF AddQuery, handler
  <1>2. /\ Pooled /\ Resting /\ free \in Seq(Query)
    BY DEF WholeInv, PoolInv
  <1>3. IsInjective(free') /\ ToSet(free) \subseteq ToSet(free') /\ ToSet(free') \subseteq ToSet(free) \cup {q}
    <2>1. /\ ToSet(Append(free, q)) = ToSet(free) \cup {q}
          /\ IsInjective(Append(free, q))
      BY <1>1, <1>2, AppendHas DEF Pooled
    <2> QED
      BY <1>1, <1>2, <2>1 DEF Pooled
  <1>4. Pooled'
    BY <1>1, <1>2, <1>3 DEF Pooled
  <1>5. Resting'
    BY <1>1, <1>2 DEF Resting
  <1> QED
    BY <1>1, <1>4, <1>5 DEF WholeInv, Leaving, Entering, Planning, Calling

\* DROP_DECLARE keeps WholeInv: what it leaves stale it makes invalid.
LEMMA WholeDropDeclare ==
  ASSUME OwnParts, PoolInv, WholeInv, NEW x \in Stream, DropDeclare(x) PROVE WholeInv'
  <1>1. /\ pc = "idle" /\ pc' = "idle"
        /\ UNCHANGED <<g, free, known, isActive, added>>
        /\ \/ UNCHANGED <<invalid, stale>>
           \/ /\ invalid' = invalid \cup {q \in ToSet(free) : x \in Watched(q)}
              /\ stale' = stale \cup {q \in ToSet(free) : x \in Uses(q)}
    BY DEF DropDeclare, handler
  <1>2. Pooled /\ Resting
    BY DEF WholeInv
  <1>3. \A q \in ToSet(free) : Watched(q) = Uses(q)
    BY <1>2, OwnHas DEF Pooled
  <1>4. Pooled'
    BY <1>1, <1>2, <1>3 DEF Pooled
  <1>5. Resting'
    BY <1>1, <1>2 DEF Resting
  <1> QED
    BY <1>1, <1>4, <1>5 DEF WholeInv, Leaving, Entering, Planning, Calling

\* ADD_DECLARE keeps WholeInv: it changes the order of the pool only.
LEMMA WholeDeclare ==
  ASSUME OwnParts, PoolInv, WholeInv, NEW x \in Stream, Declare(x) PROVE WholeInv'
  <1> DEFINE users == {q \in ToSet(free) : x \in Watched(q)}
  <1>1. /\ pc = "idle" /\ pc' = "idle" /\ UNCHANGED <<g, known, isActive, added>>
        /\ \/ UNCHANGED <<free, invalid, stale>>
           \/ /\ free' = Without(free, users) \o Only(free, users)
              /\ invalid' = invalid \ users /\ stale' = stale \ users
    BY DEF Declare, handler
  <1>2. Pooled /\ Resting /\ free \in Seq(Query)
    BY DEF WholeInv, PoolInv
  <1>3. PICK a, b : a = Without(free, users) /\ b = Only(free, users)
    OBVIOUS
  <1>4. /\ a \in Seq(Query) /\ ToSet(a) = ToSet(free) \ users /\ IsInjective(a)
        /\ b \in Seq(Query) /\ ToSet(b) = ToSet(free) \cap users /\ IsInjective(b)
    BY <1>2, <1>3, WithoutHas, OnlyHas DEF Pooled
  <1> HIDE DEF users
  <1>5. ToSet(a) \cap ToSet(b) = {}
    BY <1>4
  <1>6. ToSet(a \o b) = ToSet(free) /\ IsInjective(a \o b)
    <2>1. ToSet(a \o b) = ToSet(a) \cup ToSet(b) /\ IsInjective(a \o b)
      BY <1>4, <1>5, ConcatHas
    <2> QED
      BY <1>4, <2>1
  <1>7. Pooled'
    BY <1>1, <1>2, <1>3, <1>6 DEF Pooled
  <1>8. Resting'
    BY <1>1, <1>2 DEF Resting
  <1> QED
    BY <1>1, <1>7, <1>8 DEF WholeInv, Leaving, Entering, Planning, Calling

\* The begin of ACTIVATE keeps WholeInv.
LEMMA WholeActivate ==
  ASSUME OwnParts, PoolInv, WholeInv, NEW q \in Query, Activate(q) PROVE WholeInv'
  <1>1. /\ pc = "idle" /\ q \in known \ isActive
        /\ UNCHANGED <<g, free, invalid, stale, known, isActive, added>>
        /\ \/ pc' = "idle"
           \/ pc' = "next" /\ cmd' = q /\ work' = <<q>> /\ before' = g
    BY DEF Activate
  <1>2. Pooled /\ Resting
    BY DEF WholeInv
  <1>3. Pooled'
    BY <1>1, <1>2 DEF Pooled
  <1>4. CASE pc' = "idle"
    <2>1. Resting'
      BY <1>1, <1>2 DEF Resting
    <2> QED
      BY <1>3, <1>4, <2>1 DEF WholeInv, Leaving, Entering, Planning, Calling
  <1>5. CASE pc' = "next" /\ cmd' = q /\ work' = <<q>> /\ before' = g
    <2>1. Whole(g.stmts, isActive) /\ added' = << >> /\ ToSet(added') = {}
      BY <1>1, <1>2, EmptyHas DEF Resting
    <2>2. << >> \in Seq(Stmt) /\ ToSet(<<q>>) = {q}
      BY OneHas
    <2>3. Entering'
      BY <1>1, <1>5, <2>1, <2>2 DEF Entering
    <2>4. Planning'
      <3>1. Pending' = {}
        BY <1>5 DEF Pending
      <3> QED
        BY <1>1, <1>5, <2>1, <2>2, <3>1 DEF Planning
    <2> QED
      BY <1>3, <1>5, <2>3, <2>4 DEF WholeInv, Resting, Leaving, Calling
  <1> QED
    BY <1>1, <1>4, <1>5

\* Taking a query from the list keeps WholeInv.
LEMMA WholeTakeStmt ==
  ASSUME OwnParts, PoolInv, WholeInv, TakeStmt PROVE WholeInv'
  <1>1. /\ pc = "next" /\ pc' = "add" /\ work # << >> /\ work' = Front(work)
        /\ todo' = Jobs(Last(work))
        /\ UNCHANGED <<g, free, invalid, stale, known, isActive, cmd, before>>
        /\ Last(work) \notin Coll => added' = added
    BY DEF TakeStmt
  <1>2. /\ Pooled /\ Entering /\ Planning /\ work \in Seq(Query)
    BY DEF WholeInv, PoolInv
  <1>3. PICK q \in Query : q = Last(work)
    BY <1>1, <1>2, FrontLast
  <1>4. ToSet(work) = ToSet(work') \cup {q}
    BY <1>1, <1>2, <1>3, FrontLast
  <1>5. /\ q \in Stmt /\ q \in Members(q)
        /\ \A p \in Query : \A s \in Members(q) : s \in Members(p) => p = q
        /\ \A p \in Query : p \in Members(p)
    BY OwnHas
  <1>6. added' = added
    BY <1>1, <1>3, <1>5 DEF Coll
  <1>7. /\ Called(todo') = Members(q)
        /\ \A i \in DOMAIN todo' : todo'[i].must /\ todo'[i].as = todo'[i].stmt
    BY <1>1, <1>3, OwnJobs
  <1>8. Pooled'
    BY <1>1, <1>2 DEF Pooled
  <1>9. Entering'
    BY <1>1, <1>2, <1>6 DEF Entering
  <1>10. Planning'
    <2>1. PICK A, from : A = ToSet(added) /\ from = ToSet(free) \cup {cmd}
      OBVIOUS
    <2>2. /\ A \subseteq g.stmts /\ A \cap invalid = {}
          /\ ToSet(work) \subseteq from /\ cmd \in A \cup ToSet(work)
          /\ \A p \in Query \cap A : Members(p) \subseteq A
          /\ \A a \in A : \E p \in from \cap A : a \in Members(p)
      <3>1. Pending = {}
        BY <1>1 DEF Pending
      <3> QED
        BY <1>1, <1>2, <2>1, <3>1 DEF Planning
    <2>3. PICK B : B = A \cup Members(q)
      OBVIOUS
    <2>4. q \in from /\ q \in B
      BY <1>4, <1>5, <2>2, <2>3
    <2>5. ASSUME NEW p \in Query \cap B PROVE Members(p) \subseteq B
      BY <1>5, <2>2, <2>3, <2>5
    <2>6. ASSUME NEW a \in B PROVE \E p \in from \cap B : a \in Members(p)
      <3>1. CASE a \in A
        BY <2>2, <2>3, <3>1
      <3>2. CASE a \in Members(q)
        BY <2>4, <3>2
      <3> QED
        BY <2>3, <3>1, <3>2
    <2>7. cmd \in B \cup ToSet(work')
      BY <1>4, <2>2, <2>3, <2>4
    <2>8. ToSet(work') \subseteq from
      BY <1>4, <2>2
    <2>9. ToSet(added') \cup Pending' = B /\ ToSet(free') \cup {cmd'} = from /\ ToSet(added') = A
      BY <1>1, <1>6, <1>7, <2>1, <2>3 DEF Pending
    <2>10. UNCHANGED <<g, invalid, cmd>>
      BY <1>1
    <2> QED
      BY <2>2, <2>5, <2>6, <2>7, <2>8, <2>9, <2>10 DEF Planning
  <1>11. Calling'
    BY <1>7 DEF Calling
  <1> QED
    BY <1>1, <1>8, <1>9, <1>10, <1>11 DEF WholeInv, Resting, Leaving

\* What addStmt does to the set of statements.
LEMMA AddCalled ==
  ASSUME PoolInv, pc = "add", todo # << >>, NEW s, s = Head(todo).stmt,
         NEW r, r = AddStmt(g, s, s \notin invalid)
  PROVE  /\ s \in Stmt /\ Head(todo) \in JobRec /\ r.ok \in BOOLEAN
         /\ r.ok => r.g.stmts = g.stmts \cup {s} /\ (s \notin invalid \/ s \in g.stmts)
         /\ ~ r.ok => r.g.stmts = g.stmts
         /\ Keeps(g, r.g)
  <1>1. Right(g) /\ todo \in Seq(JobRec) /\ Supplied(todo, g.stmts)
    BY DEF PoolInv
  <1>2. PICK S, T : S = g.stmts /\ T = g.stmts \cup {s}
    OBVIOUS
  <1>3. /\ todo \in Seq(JobRec) /\ todo # << >> /\ Supplied(todo, S)
        /\ S \subseteq T /\ (Head(todo).must => Head(todo).stmt \in T)
    BY <1>1, <1>2
  <1>4. Head(todo) \in JobRec /\ ToSet(Parts[Head(todo).stmt]) \subseteq S
    BY ONLY <1>3, SuppliedTail
  <1>5. s \in Stmt
    BY <1>4 DEF JobRec
  <1>6. Ready(g, s)
    BY <1>1, <1>2, <1>4, <1>5, PartsReady
  <1>7. /\ r.ok \in BOOLEAN
        /\ r.ok => r.g.stmts = g.stmts \cup {s} /\ ((s \notin invalid) \/ s \in g.stmts)
        /\ ~ r.ok => r.g.stmts = g.stmts
        /\ Keeps(g, r.g)
    <2>1. PICK valid : valid = (s \notin invalid)
      OBVIOUS
    <2>2. r = AddStmt(g, s, valid)
      BY <2>1
    <2>3. /\ r.ok \in BOOLEAN
          /\ r.ok => r.g.stmts = g.stmts \cup {s} /\ (valid \/ s \in g.stmts)
          /\ ~ r.ok => r.g.stmts = g.stmts
          /\ Keeps(g, r.g)
      BY <1>1, <1>5, <1>6, <2>2, AddRight
    <2> QED
      BY <2>1, <2>3
  <1> QED
    BY <1>4, <1>5, <1>7

\* One call of addStmt keeps WholeInv.
LEMMA WholeAddOne ==
  ASSUME OwnParts, PoolInv, WholeInv, AddOne PROVE WholeInv'
  <1>1. /\ pc = "add" /\ todo # << >> /\ todo \in Seq(JobRec)
        /\ UNCHANGED <<free, invalid, stale, known, isActive, cmd, work, before>>
    BY DEF AddOne, PoolInv
  <1>2. Pooled /\ Entering /\ Planning /\ Calling
    BY DEF WholeInv
  <1>3. PICK job, s, r : /\ job = Head(todo) /\ s = job.stmt
                         /\ r = AddStmt(g, s, s \notin invalid)
    OBVIOUS
  <1>4. /\ s \in Stmt /\ r.ok \in BOOLEAN
        /\ r.ok => r.g.stmts = g.stmts \cup {s} /\ (s \notin invalid \/ s \in g.stmts)
        /\ ~ r.ok => r.g.stmts = g.stmts
    BY <1>1, <1>3, AddCalled
  <1>5. /\ Called(todo) = {s} \cup Called(Tail(todo)) /\ job.must /\ job.as = s
        /\ \A i \in DOMAIN Tail(todo) : Tail(todo)[i].must /\ Tail(todo)[i].as = Tail(todo)[i].stmt
    <2>1. /\ Called(todo) = {s} \cup Called(Tail(todo))
          /\ \A i \in DOMAIN Tail(todo) : \E j \in DOMAIN todo : Tail(todo)[i] = todo[j]
          /\ \E j \in DOMAIN todo : job = todo[j]
      BY <1>1, <1>3, CalledHas
    <2>2. \A j \in DOMAIN todo : todo[j].must /\ todo[j].as = todo[j].stmt
      BY <1>1, <1>2 DEF Calling
    <2> QED
      BY <1>3, <2>1, <2>2
  <1>6. /\ g' = r.g
        /\ \/ r.ok /\ added' = Append(added, s) /\ todo' = Tail(todo) /\ pc' = "add"
           \/ ~ r.ok /\ added' = added /\ pc' = "undo"
    BY <1>1, <1>3, <1>4, <1>5 DEF AddOne
  <1>7. Pooled'
    BY <1>1, <1>2 DEF Pooled
  <1>8. PICK A, P, from : /\ A = ToSet(added) /\ P = A \cup Called(todo)
                          /\ from = ToSet(free) \cup {cmd}
    OBVIOUS
  <1>9. /\ A \subseteq g.stmts /\ A \cap invalid = {}
        /\ ToSet(work) \subseteq from /\ cmd \in P \cup ToSet(work)
        /\ \A q \in Query \cap P : Members(q) \subseteq P
        /\ \A a \in P : \E q \in from \cap P : a \in Members(q)
    <2>1. Pending = Called(todo)
      BY <1>1 DEF Pending
    <2> QED
      BY <1>1, <1>2, <1>8, <2>1 DEF Planning
  <1>10. /\ added \in Seq(Stmt) /\ cmd \in known \ isActive /\ Whole(before.stmts, isActive)
         /\ before.stmts \subseteq g.stmts /\ g.stmts \subseteq before.stmts \cup A
         /\ before.stmts \cap A = {}
    BY <1>1, <1>2, <1>8 DEF Entering
  <1>11. CASE r.ok
    <2>1. /\ added' \in Seq(Stmt) /\ ToSet(added') = A \cup {s}
      <3>1. Append(added, s) \in Seq(Stmt) /\ ToSet(Append(added, s)) = ToSet(added) \cup {s}
        BY <1>4, <1>10, AppendHas
      <3> QED
        BY <1>4, <1>6, <1>8, <1>11, <3>1
    <2>2. g'.stmts = g.stmts \cup {s} /\ pc' = "add" /\ todo' = Tail(todo)
      BY <1>4, <1>6, <1>11
    <2>3. s \in P /\ P = ToSet(added') \cup Called(todo')
      BY <1>5, <1>8, <2>1, <2>2
    <2>4. s \notin before.stmts
      <3>1. PICK q \in from : s \in Members(q)
        BY <1>9, <2>3
      <3>2. q \in Query /\ q \notin isActive
        BY <1>2, <1>8, <1>10, <3>1 DEF Pooled
      <3> QED
        BY <1>10, <3>1, <3>2 DEF Whole
    <2>5. s \notin invalid
      BY <1>4, <1>9, <1>10, <1>11, <2>4
    <2>6. Entering'
      BY <1>1, <1>10, <2>1, <2>2, <2>4 DEF Entering
    <2>7. Planning'
      <3>1. ToSet(added') \cup Pending' = P
        BY <2>2, <2>3 DEF Pending
      <3>2. ToSet(added') \subseteq g'.stmts /\ ToSet(added') \cap invalid' = {}
        BY <1>1, <1>9, <2>1, <2>2, <2>5
      <3>3. ToSet(free') \cup {cmd'} = from /\ UNCHANGED <<cmd, work>>
        BY <1>1, <1>8
      <3> QED
        BY <1>9, <3>1, <3>2, <3>3 DEF Planning
    <2>8. Calling'
      BY <1>5, <2>2 DEF Calling
    <2> QED
      BY <1>7, <2>2, <2>6, <2>7, <2>8 DEF WholeInv, Resting, Leaving
  <1>12. CASE ~ r.ok
    <2>1. g'.stmts = g.stmts /\ added' = added /\ pc' = "undo"
      BY <1>4, <1>6, <1>12
    <2>2. Entering'
      BY <1>1, <1>8, <1>10, <2>1 DEF Entering
    <2> QED
      BY <1>7, <2>1, <2>2 DEF WholeInv, Resting, Leaving, Planning, Calling
  <1> QED
    BY <1>11, <1>12

\* Looking for upstream queries keeps WholeInv.
LEMMA WholeSearch ==
  ASSUME OwnParts, PoolInv, WholeInv, Search PROVE WholeInv'
  <1> DEFINE S == {q \in ToSet(free) : OutOf(q) \in bufs}
  <1>1. /\ pc = "add" /\ todo = << >> /\ pc' = "next"
        /\ work' = work \o Only(Searched, S)
        /\ UNCHANGED <<g, free, invalid, stale, known, isActive, cmd, todo, added, before>>
    BY DEF Search
  <1>2. Pooled /\ Entering /\ Planning /\ free \in Seq(Query) /\ work \in Seq(Query)
    BY DEF WholeInv, PoolInv
  <1> HIDE DEF S
  <1>3. ToSet(work') \subseteq ToSet(work) \cup ToSet(free) /\ ToSet(work) \subseteq ToSet(work')
    <2>1. PICK t : t = Only(Searched, S)
      OBVIOUS
    <2>2. t \in Seq(Query) /\ ToSet(t) \subseteq ToSet(free)
      BY <1>2, <2>1, SearchedIn, OnlyHas
    <2>3. ToSet(work \o t) = ToSet(work) \cup ToSet(t)
      BY <1>2, <2>2, ConcatHas
    <2> QED
      BY <1>1, <2>1, <2>2, <2>3
  <1>4. Pooled'
    BY <1>1, <1>2 DEF Pooled
  <1>5. Entering'
    BY <1>1, <1>2 DEF Entering
  <1>6. Planning'
    <2>1. Pending = {} /\ Pending' = {}
      BY <1>1 DEF Pending, Called
    <2> QED
      BY <1>1, <1>2, <1>3, <2>1 DEF Planning
  <1> QED
    BY <1>1, <1>4, <1>5, <1>6 DEF WholeInv, Resting, Leaving, Calling

\* The end of ACTIVATE keeps WholeInv: the queries whose statements were added
\* are the ones that Ios is told of.
LEMMA WholeActivated ==
  ASSUME OwnParts, PoolInv, WholeInv, Activated PROVE WholeInv'
  <1>1. /\ pc = "next" /\ pc' = "idle" /\ work = << >> /\ added' = << >>
        /\ free' = Without(free, ToSet(added))
        /\ isActive' = isActive \cup (known \cap (ToSet(added) \cup {cmd}))
        /\ UNCHANGED <<g, invalid, stale, known>>
    BY DEF Activated, Ends
  <1>2. Pooled /\ Entering /\ Planning /\ free \in Seq(Query)
    BY DEF WholeInv, PoolInv
  <1>3. PICK A, from : A = ToSet(added) /\ from = ToSet(free) \cup {cmd}
    OBVIOUS
  <1>4. /\ A \subseteq g.stmts /\ A \cap invalid = {} /\ cmd \in A
        /\ \A q \in Query \cap A : Members(q) \subseteq A
        /\ \A a \in A : \E q \in from \cap A : a \in Members(q)
    <2>1. Pending = {} /\ ToSet(work) = {}
      BY <1>1, EmptyHas DEF Pending
    <2> QED
      BY <1>1, <1>2, <1>3, <2>1 DEF Planning
  <1>5. /\ cmd \in known \ isActive /\ Whole(before.stmts, isActive)
        /\ before.stmts \subseteq g.stmts /\ g.stmts \subseteq before.stmts \cup A
    BY <1>1, <1>2, <1>3 DEF Entering
  <1>6. isActive' = isActive \cup (known \cap A)
    BY <1>1, <1>3, <1>4
  <1>7. ToSet(free') = ToSet(free) \ A /\ IsInjective(free')
    BY <1>1, <1>2, <1>3, WithoutHas DEF Pooled
  <1>8. Pooled'
    BY <1>1, <1>2, <1>4, <1>6, <1>7 DEF Pooled
  <1>9. Whole(g.stmts, isActive')
    <2>1. ASSUME NEW q \in Query, q \in isActive' PROVE Members(q) \subseteq g.stmts
      BY <1>4, <1>5, <1>6, <2>1 DEF Whole
    <2>2. ASSUME NEW q \in Query, q \notin isActive', NEW a \in Members(q), a \in g.stmts
          PROVE  FALSE
      <3>1. a \notin before.stmts
        BY <1>5, <1>6, <2>2 DEF Whole
      <3>2. PICK c \in from \cap A : a \in Members(c)
        BY <1>4, <1>5, <2>2, <3>1
      <3>3. c \in known /\ c \in Query
        BY <1>2, <1>3, <1>5, <3>2 DEF Pooled
      <3>4. c = q
        BY <2>2, <3>2, <3>3, OwnHas
      <3> QED
        BY <1>6, <2>2, <3>2, <3>3, <3>4
    <2> QED
      BY <2>1, <2>2 DEF Whole
  <1>10. Resting'
    BY <1>1, <1>9 DEF Resting
  <1> QED
    BY <1>1, <1>8, <1>10 DEF WholeInv, Leaving, Entering, Planning, Calling

\* Undoing what was added keeps WholeInv.
LEMMA WholeUndo ==
  ASSUME OwnParts, PoolInv, WholeInv, Undo PROVE WholeInv'
  <1>1. /\ pc = "undo" /\ UNCHANGED <<free, invalid, stale, known, isActive>>
        /\ \/ added = << >> /\ pc' = "idle" /\ added' = << >> /\ g' = g
           \/ /\ added # << >> /\ g' = DropStmt(g, Head(added)).g /\ added' = Tail(added)
              /\ pc' = "undo" /\ UNCHANGED <<cmd, before>>
    BY DEF Undo, Ends
  <1>2. Pooled /\ Entering /\ Right(g)
    BY DEF WholeInv, PoolInv
  <1>3. Pooled'
    BY <1>1, <1>2 DEF Pooled
  <1>4. /\ cmd \in known \ isActive /\ Whole(before.stmts, isActive) /\ added \in Seq(Stmt)
        /\ before.stmts \subseteq g.stmts /\ g.stmts \subseteq before.stmts \cup ToSet(added)
        /\ before.stmts \cap ToSet(added) = {}
    BY <1>1, <1>2 DEF Entering
  <1>5. CASE added = << >> /\ pc' = "idle" /\ added' = << >> /\ g' = g
    <2>1. g.stmts = before.stmts
      BY <1>4, <1>5, EmptyHas
    <2>2. Resting'
      BY <1>1, <1>4, <1>5, <2>1 DEF Resting
    <2> QED
      BY <1>3, <1>5, <2>2 DEF WholeInv, Leaving, Entering, Planning, Calling
  <1>6. CASE /\ added # << >> /\ g' = DropStmt(g, Head(added)).g /\ added' = Tail(added)
             /\ pc' = "undo" /\ UNCHANGED <<cmd, before>>
    <2>1. g'.stmts = g.stmts \ {Head(added)}
      BY <1>2, <1>6, DropRight
    <2>2. added' \in Seq(Stmt) /\ ToSet(added) = {Head(added)} \cup ToSet(added')
      BY <1>4, <1>6, HeadTail
    <2>3. Entering'
      BY <1>1, <1>4, <1>6, <2>1, <2>2 DEF Entering
    <2> QED
      BY <1>3, <1>6, <2>3 DEF WholeInv, Resting, Leaving, Planning, Calling
  <1> QED
    BY <1>1, <1>5, <1>6

\* The begin of DEACTIVATE keeps WholeInv.
LEMMA WholeDeactivate ==
  ASSUME OwnParts, PoolInv, WholeInv, NEW q \in Query, Deactivate(q) PROVE WholeInv'
  <1>1. /\ pc = "idle" /\ q \in isActive
        /\ UNCHANGED <<g, free, invalid, stale, known, isActive, added>>
        /\ \/ pc' = "idle"
           \/ pc' = "deactivate" /\ cmd' = q /\ todo' = Append(Parts[q], q)
    BY DEF Deactivate
  <1>2. Pooled /\ Whole(g.stmts, isActive) /\ added = << >>
    BY <1>1 DEF WholeInv, Resting
  <1>3. Pooled'
    BY <1>1, <1>2 DEF Pooled
  <1>4. CASE pc' = "idle"
    <2>1. Resting'
      BY <1>1, <1>2 DEF Resting
    <2> QED
      BY <1>3, <1>4, <2>1 DEF WholeInv, Leaving, Entering, Planning, Calling
  <1>5. CASE pc' = "deactivate" /\ cmd' = q /\ todo' = Append(Parts[q], q)
    <2>1. todo' \in Seq(Stmt) /\ IsInjective(todo') /\ ToSet(todo') = Members(q)
      BY <1>5, OwnHas
    <2>2. Members(q) \subseteq g.stmts
      BY <1>1, <1>2 DEF Whole
    <2>3. Leaving'
      BY <1>1, <1>2, <1>5, <2>1, <2>2 DEF Leaving, Whole
    <2> QED
      BY <1>3, <1>5, <2>3 DEF WholeInv, Resting, Entering, Planning, Calling
  <1> QED
    BY <1>1, <1>4, <1>5

\* DROP_QUERY keeps WholeInv.
LEMMA WholeDropQuery ==
  ASSUME OwnParts, PoolInv, WholeInv, NEW q \in Query, DropQuery(q) PROVE WholeInv'
  <1>1. /\ pc = "idle" /\ q \in known
        /\ known' = known \ {q} /\ isActive' = isActive \ {q}
        /\ invalid' = invalid \ {q} /\ stale' = stale \ {q}
        /\ UNCHANGED <<g, added>>
        /\ \/ q \in ToSet(free) /\ free' = Without(free, {q}) /\ pc' = "idle"
           \/ /\ q \notin ToSet(free) /\ free' = free /\ q \in g.stmts
              /\ pc' = "drop" /\ cmd' = q /\ todo' = Append(Parts[q], q)
           \/ q \notin ToSet(free) /\ free' = free /\ q \notin g.stmts /\ pc' = "idle"
    BY DEF DropQuery
  <1>2. /\ Pooled /\ Whole(g.stmts, isActive) /\ added = << >> /\ free \in Seq(Query)
    BY <1>1 DEF WholeInv, PoolInv, Resting
  <1>3. ToSet(free') = ToSet(free) \ {q} /\ IsInjective(free')
    <2>1. /\ ToSet(Without(free, {q})) = ToSet(free) \ {q}
          /\ IsInjective(Without(free, {q}))
      BY <1>2, WithoutHas DEF Pooled
    <2> QED
      BY <1>1, <1>2, <2>1 DEF Pooled
  <1>4. Pooled'
    BY <1>1, <1>2, <1>3 DEF Pooled
  <1>5. q \in Members(q) /\ todo' = todo'
    BY OwnHas
  <1>6. CASE pc' = "idle"
    <2>1. q \notin isActive
      BY <1>1, <1>2, <1>5, <1>6 DEF Pooled, Whole
    <2>2. Resting'
      BY <1>1, <1>2, <2>1 DEF Resting
    <2> QED
      BY <1>4, <1>6, <2>2 DEF WholeInv, Leaving, Entering, Planning, Calling
  <1>7. CASE q \in g.stmts /\ pc' = "drop" /\ cmd' = q /\ todo' = Append(Parts[q], q)
    <2>1. todo' \in Seq(Stmt) /\ IsInjective(todo') /\ ToSet(todo') = Members(q)
      BY <1>7, OwnHas
    <2>2. Members(q) \subseteq g.stmts
      BY <1>2, <1>5, <1>7 DEF Whole
    <2>3. Leaving'
      BY <1>1, <1>2, <1>7, <2>1, <2>2 DEF Leaving, Whole
    <2> QED
      BY <1>4, <1>7, <2>3 DEF WholeInv, Resting, Entering, Planning, Calling
  <1> QED
    BY <1>1, <1>6, <1>7

\* One call of dropStmt keeps WholeInv.
LEMMA WholeDropOne ==
  ASSUME OwnParts, PoolInv, WholeInv, DropOne PROVE WholeInv'
  <1>1. /\ pc \in {"deactivate", "drop"} /\ todo # << >>
        /\ g' = DropStmt(g, Head(todo)).g /\ todo' = Tail(todo)
        /\ UNCHANGED <<free, invalid, stale, known, isActive, pc, cmd, added>>
    BY DEF DropOne
  <1>2. Pooled /\ Leaving /\ Right(g)
    BY DEF WholeInv, PoolInv
  <1>3. Pooled'
    BY <1>1, <1>2 DEF Pooled
  <1>4. g'.stmts = g.stmts \ {Head(todo)}
    BY <1>1, <1>2, DropRight
  <1>5. /\ cmd \in Query
        /\ IF pc = "drop" THEN cmd \notin known ELSE cmd \in isActive
        /\ \A q \in Query \ {cmd} : IF q \in isActive THEN Members(q) \subseteq g.stmts
                                    ELSE Members(q) \cap g.stmts = {}
        /\ todo \in Seq(Stmt) /\ IsInjective(todo)
        /\ ToSet(todo) = Members(cmd) \cap g.stmts
    BY <1>1, <1>2 DEF Leaving
  <1>6. PICK h : h = Head(todo)
    OBVIOUS
  <1>7. /\ todo' \in Seq(Stmt) /\ IsInjective(todo') /\ h \notin ToSet(todo')
        /\ ToSet(todo) = {h} \cup ToSet(todo')
    BY <1>1, <1>5, <1>6, HeadTail
  <1>8. h \in Members(cmd) /\ \A q \in Query \ {cmd} : h \notin Members(q)
    BY <1>5, <1>7, OwnHas
  <1>9. \A q \in Query \ {cmd} : IF q \in isActive THEN Members(q) \subseteq g'.stmts
                                 ELSE Members(q) \cap g'.stmts = {}
    BY <1>4, <1>5, <1>6, <1>8
  <1>10. ToSet(todo') = Members(cmd) \cap g'.stmts
    BY <1>4, <1>5, <1>6, <1>7
  <1>11. Leaving'
    BY <1>1, <1>5, <1>7, <1>9, <1>10 DEF Leaving
  <1> QED
    BY <1>1, <1>3, <1>11 DEF WholeInv, Resting, Entering, Planning, Calling

\* The end of DEACTIVATE keeps WholeInv.
LEMMA WholeDeactivated ==
  ASSUME OwnParts, PoolInv, WholeInv, Deactivated PROVE WholeInv'
  <1>1. /\ pc = "deactivate" /\ todo = << >> /\ pc' = "idle" /\ added' = << >>
        /\ free' = Append(free, cmd) /\ isActive' = isActive \ {cmd}
        /\ UNCHANGED <<g, invalid, stale, known>>
    BY DEF Deactivated, Ends
  <1>2. Pooled /\ Leaving /\ free \in Seq(Query)
    BY DEF WholeInv, PoolInv
  <1>3. /\ cmd \in Query /\ cmd \in isActive /\ Members(cmd) \cap g.stmts = {}
        /\ \A q \in Query \ {cmd} : IF q \in isActive THEN Members(q) \subseteq g.stmts
                                    ELSE Members(q) \cap g.stmts = {}
    BY <1>1, <1>2, EmptyHas DEF Leaving
  <1>4. ToSet(free') = ToSet(free) \cup {cmd} /\ IsInjective(free')
    <2>1. cmd \notin ToSet(free)
      BY <1>2, <1>3 DEF Pooled
    <2> QED
      BY <1>1, <1>2, <1>3, <2>1, AppendHas DEF Pooled
  <1>5. Pooled'
    BY <1>1, <1>2, <1>3, <1>4 DEF Pooled
  <1>6. Resting'
    BY <1>1, <1>3 DEF Resting, Whole
  <1> QED
    BY <1>1, <1>5, <1>6 DEF WholeInv, Leaving, Entering, Planning, Calling

\* The end of DROP_QUERY keeps WholeInv.
LEMMA WholeDropped ==
  ASSUME OwnParts, PoolInv, WholeInv, Dropped PROVE WholeInv'
  <1>1. /\ pc = "drop" /\ todo = << >> /\ pc' = "idle" /\ added' = << >>
        /\ UNCHANGED <<g, free, invalid, stale, known, isActive>>
    BY DEF Dropped, Ends
  <1>2. Pooled /\ Leaving
    BY DEF WholeInv
  <1>3. /\ cmd \in Query /\ cmd \notin isActive /\ Members(cmd) \cap g.stmts = {}
        /\ \A q \in Query \ {cmd} : IF q \in isActive THEN Members(q) \subseteq g.stmts
                                    ELSE Members(q) \cap g.stmts = {}
    BY <1>1, <1>2, EmptyHas DEF Leaving, Pooled
  <1>4. Pooled'
    BY <1>1, <1>2 DEF Pooled
  <1>5. Resting'
    BY <1>1, <1>3 DEF Resting, Whole
  <1> QED
    BY <1>1, <1>4, <1>5 DEF WholeInv, Leaving, Entering, Planning, Calling

\* Every step keeps WholeInv.
LEMMA WholeNext ==
  ASSUME OwnParts, PoolInv, WholeInv, [Next]_vars PROVE WholeInv'
  <1>1. ASSUME UNCHANGED vars PROVE WholeInv'
    <2>1. UNCHANGED <<g, free, invalid, stale, known, isActive, pc, cmd, work, todo,
                      added, before>>
      BY <1>1 DEF vars
    <2>2. Pooled' /\ Resting' /\ Leaving'
      BY <2>1 DEF WholeInv, Pooled, Resting, Leaving
    <2>3. Entering' /\ Calling'
      BY <2>1 DEF WholeInv, Entering, Calling
    <2>4. Planning'
      BY <2>1 DEF WholeInv, Planning, Pending
    <2> QED
      BY <2>2, <2>3, <2>4 DEF WholeInv
  <1> QED
    BY <1>1, WholeAddQuery, WholeActivate, WholeDeactivate, WholeDropQuery,
       WholeDropDeclare, WholeDeclare, WholeTakeStmt, WholeAddOne, WholeSearch,
       WholeActivated, WholeUndo, WholeDropOne, WholeDeactivated, WholeDropped
       DEF Next

\* WholeInv holds initially.
LEMMA WholeInit == Init => WholeInv
  <1> SUFFICES ASSUME Init PROVE WholeInv
    OBVIOUS
  <1>1. Pooled
    BY EmptyHas DEF Init, Pooled
  <1>2. Whole(g.stmts, isActive)
    BY EmptyRight DEF Init, Whole
  <1> QED
    BY <1>1, <1>2 DEF Init, WholeInv, Resting, Leaving, Entering, Planning, Calling

\* The two invariants together.
LEMMA BothInv == ASSUME OwnParts PROVE Spec => [](PoolInv /\ WholeInv)
  <1>1. NoJoins
    BY DEF OwnParts, NoJoins, Coll
  <1>2. Init => PoolInv /\ WholeInv
    BY PoolInit, WholeInit
  <1>3. PoolInv /\ WholeInv /\ [Next]_vars => (PoolInv /\ WholeInv)'
    BY <1>1, PoolNext, WholeNext
  <1> QED
    BY <1>2, <1>3, PTL DEF Spec

\* Between commands a query is in the driver with all its statements, if Ios has it
\* as active, and else with none of them, whatever was activated upstream, refused
\* and undone (WholeQueries).
THEOREM QueriesWhole == ASSUME OwnParts PROVE Spec => []WholeQueries
  <1>1. WholeInv => WholeQueries
    BY DEF WholeInv, Pooled, Resting, Whole, WholeQueries
  <1> QED
    BY <1>1, BothInv, PTL

\* No query in the driver points to a buffer that DROP_DECLARE has killed
\* (NoDeadBuffer): the `valid' flag catches them all.
THEOREM NoneStale == ASSUME OwnParts PROVE Spec => []NoDeadBuffer
  <1>1. WholeInv => NoDeadBuffer
    BY DEF WholeInv, Pooled, Resting, Whole, NoDeadBuffer
  <1> QED
    BY <1>1, BothInv, PTL

\* dropStmt never reports "wrong buffer state type" when a query is deactivated,
\* dropped or undone (DropsSucceed), so the code that would put the statements back
\* is never needed.
THEOREM DropsRight == ASSUME OwnParts PROVE Spec => []DropsSucceed
  <1>1. PoolInv /\ WholeInv => DropsSucceed
    <2> SUFFICES ASSUME PoolInv, WholeInv PROVE DropsSucceed
      OBVIOUS
    <2>1. \A s \in g.stmts : ~ Misplaced(g, s)
      BY DropRight DEF PoolInv
    <2>2. ASSUME pc \in {"deactivate", "drop"}, todo # << >> PROVE Head(todo) \in g.stmts
      <3>1. todo \in Seq(Stmt) /\ ToSet(todo) \subseteq g.stmts
        BY <2>2 DEF WholeInv, Leaving
      <3> QED
        BY <2>2, <3>1, HeadTail
    <2> QED
      BY <2>1, <2>2 DEF DropsSucceed
  <1> QED
    BY <1>1, BothInv, PTL

-----------------------------------------------------------------------------
(* Refused activations                                                      *)

\* The forks of gr name the same statements in h, where they are forks as well.
Recalled(gr, h) ==
    \A b \in InUse(gr.stmts, gr.stmts) : Count(gr.stmts, b) > 1 => h.tab[b].stmt = gr.tab[b].stmt

\* What is known of the graph when ACTIVATE began.
UndoInv ==
    /\ IsMap(g.dummies)
    /\ pc \in {"next", "add", "undo"} =>
         Right(before) /\ IsMap(before.dummies) /\ Recalled(before, g)

\* A step of addStmt or dropStmt that leaves what was there at first.
LEMMA RecalledStill ==
  ASSUME NEW old, NEW gr, NEW h, Right(gr), Right(h), Keeps(gr, h), Recalled(old, gr),
         old.stmts \subseteq gr.stmts, old.stmts \subseteq h.stmts
  PROVE  Recalled(old, h)
  <1> SUFFICES ASSUME NEW b \in InUse(old.stmts, old.stmts), Count(old.stmts, b) > 1
               PROVE  h.tab[b].stmt = old.tab[b].stmt
    BY DEF Recalled
  <1>1. IsFiniteSet(gr.stmts) /\ IsFiniteSet(h.stmts)
    BY DEF Right, Apt
  <1>2. Count(gr.stmts, b) > 1 /\ b \in InUse(gr.stmts, gr.stmts)
    <2>1. /\ Count(old.stmts, b) \in Nat /\ Count(gr.stmts, b) \in Nat
          /\ Count(old.stmts, b) <= Count(gr.stmts, b)
          /\ InUse(old.stmts, old.stmts) \subseteq InUse(gr.stmts, gr.stmts)
      BY <1>1, MoreReaders
    <2> QED
      BY <2>1
  <1>3. Count(h.stmts, b) > 1
    <2>1. /\ Count(old.stmts, b) \in Nat /\ Count(h.stmts, b) \in Nat
          /\ Count(old.stmts, b) <= Count(h.stmts, b)
      BY <1>1, MoreReaders
    <2> QED
      BY <2>1
  <1> QED
    BY <1>2, <1>3 DEF Keeps, Recalled

\* An entry without its way back, if it has one that is not told by the statements.
Bare(e) == IF e.type \in Merges THEN [e EXCEPT !.back = Nil] ELSE e

\* Two right graphs of the same statements differ in nothing but what the forks'
\* entries name and merge buffers look back to.
LEMMA BareSame ==
  ASSUME NEW S, Apt(S), NEW tab, Tabled(tab, S, S), NEW tbl, Tabled(tbl, S, S),
         NEW b \in InUse(S, S), Count(S, b) > 1 => tbl[b].stmt = tab[b].stmt
  PROVE  Bare(tbl[b]) = Bare(tab[b])
  <1>0. IsFiniteSet(S) /\ Count(S, b) \in Nat
    BY Counts DEF Apt
  <1>1. PICK t, st, bk, fwd :
          /\ tab[b] = Entry(t, st, bk, fwd) /\ t = tab[b].type /\ st = tab[b].stmt
          /\ t = TypeOf(How(S, b), Count(S, b))
          /\ Forth(S, b, st, fwd) /\ Back(S, S, b, bk)
    BY DEF Tabled, Fits
  <1>2. PICK t2, st2, bk2, fwd2 :
          /\ tbl[b] = Entry(t2, st2, bk2, fwd2) /\ t2 = tbl[b].type /\ st2 = tbl[b].stmt
          /\ t2 = TypeOf(How(S, b), Count(S, b))
          /\ Forth(S, b, st2, fwd2) /\ Back(S, S, b, bk2)
    BY DEF Tabled, Fits
  <1>3. t2 = t
    BY <1>1, <1>2
  <1>4. st2 = st /\ fwd2 = fwd
    <2>1. CASE Count(S, b) = 0
      BY <1>0, <1>1, <1>2, <2>1, Counts DEF Forth
    <2>2. CASE Count(S, b) = 1
      <3>1. PICK r : Readers(S, b) = {r}
        BY <1>0, <2>2, Counts
      <3>2. r \in S
        BY <3>1 DEF Readers
      <3> QED
        BY <1>1, <1>2, <3>1, <3>2 DEF Forth
    <2>3. CASE Count(S, b) > 1
      BY <1>1, <1>2, <2>3 DEF Forth
    <2> QED
      BY <1>0, <2>1, <2>2, <2>3
  <1>5. t \in Merges \/ bk2 = bk
    <2>1. CASE Writers(S, b) = {}
      BY <1>1, <1>2, <2>1 DEF Back
    <2>2. CASE \E w \in Writers(S, b) : Type[w] # "normal"
      BY <1>0, <1>1, <2>2, TypeIs
    <2>3. CASE Writers(S, b) # {} /\ \A w \in Writers(S, b) : Type[w] = "normal"
      BY <1>1, <1>2, <2>3 DEF Back
    <2> QED
      BY <2>1, <2>2, <2>3
  <1>6. CASE t \in Merges
    <2>1. Bare(tab[b]) = Entry(t, st, Nil, fwd)
      <3>1. Bare(tab[b]) = [tab[b] EXCEPT !.back = Nil] /\ tab[b] = Entry(t, st, bk, fwd)
        BY <1>1, <1>6 DEF Bare
      <3> QED
        BY ONLY <3>1 DEF Entry
    <2>2. Bare(tbl[b]) = Entry(t2, st2, Nil, fwd2)
      <3>1. Bare(tbl[b]) = [tbl[b] EXCEPT !.back = Nil] /\ tbl[b] = Entry(t2, st2, bk2, fwd2)
        BY <1>2, <1>3, <1>6 DEF Bare
      <3> QED
        BY ONLY <3>1 DEF Entry
    <2> QED
      BY <1>3, <1>4, <2>1, <2>2
  <1>7. CASE t \notin Merges
    <2>1. tab[b] = tbl[b]
      BY <1>1, <1>2, <1>3, <1>4, <1>5, <1>7
    <2> QED
      BY <2>1
  <1> QED
    BY <1>6, <1>7

\* The dummies are told by the statements.
LEMMA DummiesSame ==
  ASSUME NEW S, Apt(S), NEW d, Dummied(d, S), IsMap(d), NEW e, Dummied(e, S), IsMap(e)
  PROVE  e = d
  <1>1. ASSUME NEW x \in DOMAIN d PROVE x \in DOMAIN e /\ e[x] = d[x]
    <2>1. PICK r \in S : \E b \in Reads(r) : Count(S, b) > 1 /\ x = <<b, Out[r]>>
      BY <1>1 DEF Dummied
    <2>2. PICK b \in Reads(r) : Count(S, b) > 1 /\ x = <<b, Out[r]>>
      BY <2>1
    <2>3. d[x] = r /\ x \in DOMAIN e /\ e[x] = r
      BY <2>2 DEF Dummied
    <2> QED
      BY <2>3
  <1>2. ASSUME NEW x \in DOMAIN e PROVE x \in DOMAIN d
    <2>1. PICK r \in S : \E b \in Reads(r) : Count(S, b) > 1 /\ x = <<b, Out[r]>>
      BY <1>2 DEF Dummied
    <2>2. PICK b \in Reads(r) : Count(S, b) > 1 /\ x = <<b, Out[r]>>
      BY <2>1
    <2> QED
      BY <2>2 DEF Dummied
  <1>3. DOMAIN d = DOMAIN e
    BY <1>1, <1>2
  <1> QED
    BY <1>1, <1>3 DEF IsMap

\* What is compared is the same for two such graphs.
LEMMA SameGraph ==
  ASSUME NEW gr, Right(gr), IsMap(gr.dummies), NEW h, Right(h), IsMap(h.dummies),
         h.stmts = gr.stmts, Recalled(gr, h)
  PROVE  Apart(h) = Apart(gr)
  <1>1. PICK S : S = gr.stmts /\ S = h.stmts
    OBVIOUS
  <1>2. /\ IsGraph(gr) /\ IsGraph(h) /\ Apt(S)
        /\ Tabled(gr.tab, S, S) /\ Tabled(h.tab, S, S)
        /\ Dummied(gr.dummies, S) /\ Dummied(h.dummies, S)
        /\ gr.map = DOMAIN gr.tab /\ h.map = DOMAIN h.tab
        /\ DOMAIN gr.tab = InUse(S, S) /\ DOMAIN h.tab = InUse(S, S)
    BY <1>1 DEF Right, Tabled
  <1>3. h.dummies = gr.dummies
    BY <1>2, DummiesSame
  <1>4. \A b \in InUse(S, S) : Bare(h.tab[b]) = Bare(gr.tab[b])
    BY <1>1, <1>2, BareSame DEF Recalled
  <1>5. PICK tab, tbl : /\ tab = [b \in DOMAIN gr.tab |-> Bare(gr.tab[b])]
                        /\ tbl = [b \in DOMAIN h.tab |-> Bare(h.tab[b])]
    OBVIOUS
  <1>6. tbl = tab
    BY <1>2, <1>4, <1>5
  <1>7. Apart(gr) = [gr EXCEPT !.tab = tab] /\ Apart(h) = [h EXCEPT !.tab = tbl]
    BY <1>5 DEF Apart, Bare
  <1>8. PICK D : D = {"tab", "dummies", "map", "stmts"}
    OBVIOUS
  <1>9. /\ Apart(gr) = [x \in D |-> IF x = "tab" THEN tab ELSE gr[x]]
        /\ Apart(h) = [x \in D |-> IF x = "tab" THEN tab ELSE h[x]]
    BY <1>2, <1>6, <1>7, <1>8 DEF IsGraph
  <1>10. \A x \in D : x = "tab" \/ h[x] = gr[x]
    BY <1>1, <1>2, <1>3, <1>8
  <1> QED
    BY ONLY <1>9, <1>10

\* UndoInv holds initially.
LEMMA UndoInit == Init => UndoInv
  BY DEF Init, UndoInv, EmptyGraph, IsMap

\* Every step keeps UndoInv.
LEMMA UndoNext ==
  ASSUME PoolInv, WholeInv, UndoInv, PoolInv', WholeInv', [Next]_vars
  PROVE  UndoInv'
  <1> DEFINE busy == {"next", "add", "undo"}
  <1>0. /\ Right(g) /\ Right(g') /\ IsMap(g.dummies)
        /\ pc \in busy => /\ Right(before) /\ IsMap(before.dummies) /\ Recalled(before, g)
                          /\ before.stmts \subseteq g.stmts
        /\ pc' \in busy => before'.stmts \subseteq g'.stmts
    BY DEF PoolInv, WholeInv, UndoInv, Entering
  <1>1. ASSUME UNCHANGED <<g, pc, before>> PROVE UndoInv'
    BY <1>1 DEF UndoInv
  <1>2. ASSUME g' = g, pc' \notin busy PROVE UndoInv'
    BY <1>0, <1>2 DEF UndoInv
  <1>3. ASSUME NEW q \in Query, Activate(q) PROVE UndoInv'
    <2>1. CASE before' = g /\ g' = g
      BY <1>0, <2>1 DEF UndoInv, Recalled
    <2>2. CASE UNCHANGED <<g, pc, before>>
      BY <1>1, <2>2
    <2> QED
      BY <1>3, <2>1, <2>2 DEF Activate
  <1>4. ASSUME pc \in busy, pc' \in busy, before' = before, Keeps(g, g') PROVE UndoInv'
    <2>1. Recalled(before, g')
      BY <1>0, <1>4, RecalledStill
    <2>2. IsMap(g'.dummies)
      BY <1>0, <1>4 DEF Keeps
    <2> QED
      BY <1>0, <1>4, <2>1, <2>2 DEF UndoInv
  <1>5. ASSUME AddOne PROVE UndoInv'
    <2>1. PICK s, r : s = Head(todo).stmt /\ r = AddStmt(g, s, s \notin invalid)
      OBVIOUS
    <2>2. /\ pc = "add" /\ todo # << >> /\ g' = r.g /\ pc' \in {"add", "undo"}
          /\ before' = before
      BY <1>5, <2>1 DEF AddOne
    <2>3. Keeps(g, r.g)
      BY <2>1, <2>2, AddCalled
    <2> QED
      BY <1>4, <2>2, <2>3
  <1>6. ASSUME Undo PROVE UndoInv'
    <2>1. CASE g' = g /\ pc' = "idle"
      BY <1>2, <2>1
    <2>2. CASE g' = DropStmt(g, Head(added)).g /\ pc = "undo" /\ pc' = pc /\ before' = before
      <3>1. Keeps(g, g')
        BY <1>0, <2>2, DropRight
      <3> QED
        BY <1>4, <2>2, <3>1
    <2> QED
      BY <1>6, <2>1, <2>2 DEF Undo, Ends
  <1>7. ASSUME DropOne PROVE UndoInv'
    <2>1. g' = DropStmt(g, Head(todo)).g /\ pc' \notin busy
      BY <1>7 DEF DropOne
    <2>2. Keeps(g, g')
      BY <1>0, <2>1, DropRight
    <2> QED
      BY <1>0, <2>1, <2>2 DEF UndoInv, Keeps
  <1>8. ASSUME TakeStmt \/ Search PROVE UndoInv'
    <2>1. pc \in busy /\ pc' \in busy /\ before' = before /\ g' = g
      BY <1>8 DEF TakeStmt, Search
    <2> QED
      BY <1>4, <2>1, KeepsSame
  <1>9. ASSUME NEW q \in Query, AddQuery(q) \/ Deactivate(q) \/ DropQuery(q) PROVE UndoInv'
    BY <1>0, <1>9 DEF AddQuery, Deactivate, DropQuery, handler, UndoInv
  <1>10. ASSUME NEW x \in Stream, DropDeclare(x) \/ Declare(x) PROVE UndoInv'
    BY <1>1, <1>10 DEF DropDeclare, Declare, handler
  <1>11. ASSUME Activated \/ Deactivated \/ Dropped PROVE UndoInv'
    BY <1>2, <1>11 DEF Activated, Deactivated, Dropped, Ends
  <1>12. ASSUME UNCHANGED vars PROVE UndoInv'
    BY <1>1, <1>12 DEF vars
  <1> QED
    BY <1>3, <1>5, <1>6, <1>7, <1>8, <1>9, <1>10, <1>11, <1>12 DEF Next

\* An activation that is refused leaves the graph as it was (RefusedUndone): the
\* table, its dummies and the map, after any number of statements added, upstream
\* ones included, and taken out again.
THEOREM RefusedActivations == ASSUME OwnParts PROVE Spec => RefusedUndone
  <1>1. ASSUME PoolInv, WholeInv, UndoInv, [Next]_vars, pc = "undo", pc' = "idle"
        PROVE  Apart(g') = Apart(before)
    <2>1. added = << >> /\ g' = g
      BY <1>1 DEF Next, vars, AddQuery, Activate, Deactivate, DropQuery, DropDeclare,
                  Declare, TakeStmt, AddOne, Search, Activated, Undo, DropOne,
                  Deactivated, Dropped, Ends
    <2>2. g.stmts = before.stmts
      BY <1>1, <2>1, EmptyHas DEF WholeInv, Entering
    <2>3. /\ Right(g) /\ IsMap(g.dummies) /\ Right(before) /\ IsMap(before.dummies)
          /\ Recalled(before, g)
      BY <1>1 DEF PoolInv, UndoInv
    <2> QED
      BY <2>1, <2>2, <2>3, SameGraph
  <1>2. Spec => [](PoolInv /\ WholeInv)
    BY BothInv
  <1>3. PoolInv /\ WholeInv /\ UndoInv /\ PoolInv' /\ WholeInv' /\ [Next]_vars => UndoInv'
    BY UndoNext
  <1>4. PoolInv /\ WholeInv /\ UndoInv /\ [Next]_vars
          => [pc = "undo" /\ pc' = "idle" => Apart(g') = Apart(before)]_vars
    BY <1>1
  <1> QED
    BY <1>2, <1>3, <1>4, UndoInit, PTL DEF Spec, RefusedUndone
=============================================================================
