-------------------------- MODULE DriverGraphProofs --------------------------
(***************************************************************************)
(* Proofs about the operators of DriverGraph, for any statements and       *)
(* buffers: addStmt and dropStmt turn a graph that is the one its          *)
(* statements call for (Right) into one that is (AddRight, DropRight).  At *)
(* the end, what the operators on sequences do.                            *)
(***************************************************************************)
EXTENDS DriverGraph, FiniteSetTheorems, SequenceTheorems, WellFoundedInduction, TLAPS

-----------------------------------------------------------------------------
(* The types of buffers                                                     *)

\* How a buffer is written, and the type of one with n readers.
Hows == {"source", "normal", "merge"}
TypeOf(how, n) ==
    IF n = 0 THEN Ended[how] ELSE IF n = 1 THEN how ELSE Forked[how]

\* A buffer that nobody writes has a reader.
HasUse(how, n) == how \in Hows /\ n \in Nat /\ (n = 0 => how # "source")

\* The types each of the changes of an entry is for.
LEMMA Domains ==
  /\ DOMAIN Forked = Hows
  /\ DOMAIN Unforked = Forks
  /\ DOMAIN Extended = Sinks
  /\ DOMAIN Ended = {"normal", "merge"}
  BY DEF Forked, Unforked, Extended, Ended, Hows, Forks, Sinks

\* What the changes make of each type.
LEMMA Lookups ==
  /\ Forked["source"] = "source_fork" /\ Forked["normal"] = "fork" /\ Forked["merge"] = "merge_fork"
  /\ Unforked["source_fork"] = "source" /\ Unforked["fork"] = "normal" /\ Unforked["merge_fork"] = "merge"
  /\ Extended["sink"] = "normal" /\ Extended["merge_sink"] = "merge"
  /\ Ended["normal"] = "sink" /\ Ended["merge"] = "merge_sink"
  /\ Fed["source"] = "normal" /\ Fed["source_fork"] = "fork"
  /\ Merged["source"] = "merge" /\ Merged["source_fork"] = "merge_fork"
  /\ Unfed["normal"] = "source" /\ Unfed["merge"] = "source"
  /\ Unfed["fork"] = "source_fork" /\ Unfed["merge_fork"] = "source_fork"
  BY DEF Forked, Unforked, Extended, Ended, Fed, Merged, Unfed

\* A type says whether anybody writes the buffer, how, and how many read it.
LEMMA Types ==
  ASSUME NEW how, NEW n, HasUse(how, n)
  PROVE  /\ TypeOf(how, n) \in Forks <=> n > 1
         /\ TypeOf(how, n) \in Hows <=> n = 1
         /\ TypeOf(how, n) \in Sinks <=> n = 0
         /\ TypeOf(how, n) \in Sources <=> how = "source"
         /\ TypeOf(how, n) \in Merges <=> how = "merge"
         /\ TypeOf(how, n) = "source" <=> how = "source" /\ n = 1
         /\ n = 1 => TypeOf(how, n) = how
<1>1. CASE n = 0
  BY <1>1, Lookups DEF TypeOf, HasUse, Hows, Forks, Sinks, Sources, Merges
<1>2. CASE n = 1
  BY <1>2, Lookups DEF TypeOf, HasUse, Hows, Forks, Sinks, Sources, Merges
<1>3. CASE n > 1
  BY <1>3, Lookups DEF TypeOf, HasUse, Hows, Forks, Sinks, Sources, Merges
<1> QED
  BY <1>1, <1>2, <1>3 DEF HasUse

\* One reader more, one reader less, a writer comes, the writer goes.
LEMMA Changes ==
  ASSUME NEW how, NEW n, HasUse(how, n)
  PROVE  /\ n = 0 => Extended[TypeOf(how, n)] = TypeOf(how, 1)
         /\ n = 1 => Forked[TypeOf(how, n)] = TypeOf(how, 2)
         /\ n > 1 => TypeOf(how, n + 1) = TypeOf(how, n)
         /\ n > 2 => TypeOf(how, n - 1) = TypeOf(how, n)
         /\ n = 2 => Unforked[TypeOf(how, n)] = TypeOf(how, 1)
         /\ n = 1 => Ended[TypeOf(how, n)] = TypeOf(how, 0)
         /\ how = "source" => Fed[TypeOf(how, n)] = TypeOf("normal", n)
         /\ how = "source" => Merged[TypeOf(how, n)] = TypeOf("merge", n)
         /\ how # "source" /\ n > 0 => Unfed[TypeOf(how, n)] = TypeOf("source", n)
<1>1. CASE n = 0
  BY <1>1, Lookups DEF TypeOf, HasUse, Hows
<1>2. CASE n = 1
  BY <1>2, Lookups DEF TypeOf, HasUse, Hows
<1>3. CASE n > 1
  BY <1>3, Lookups DEF TypeOf, HasUse, Hows
<1> QED
  BY <1>1, <1>2, <1>3 DEF HasUse

-----------------------------------------------------------------------------
(* Readers and writers                                                      *)

Count(R, b) == Cardinality(Readers(R, b))
How(W, b) == IF Writers(W, b) = {} THEN "source"
             ELSE IF \A w \in Writers(W, b) : Type[w] = "normal" THEN "normal"
             ELSE "merge"

\* The type of a buffer, from who writes it and how many read it.
LEMMA BufTypes ==
  ASSUME NEW S, NEW b PROVE BufType(S, b) = TypeOf(How(S, b), Count(S, b))
  BY DEF BufType, TypeOf, How, Count

\* No reader, one reader, several.
LEMMA Counts ==
  ASSUME NEW R, IsFiniteSet(R), NEW b
  PROVE  /\ Count(R, b) \in Nat
         /\ IsFiniteSet(Readers(R, b))
         /\ Count(R, b) = 0 <=> Readers(R, b) = {}
         /\ Count(R, b) = 1 <=> \E r : Readers(R, b) = {r}
<1>1. IsFiniteSet(Readers(R, b))
  BY FS_Subset DEF Readers
<1> QED
  BY <1>1, FS_CardinalityType, FS_EmptySet, FS_Singleton DEF Count

\* Q has one statement more than R.
Adds(R, s, Q) == IsFiniteSet(R) /\ s \notin R /\ Q = R \cup {s}

\* The readers and writers of a buffer with one statement more.
LEMMA OneMore ==
  ASSUME NEW R, NEW s, NEW Q, Adds(R, s, Q), NEW b
  PROVE  /\ IsFiniteSet(R) /\ IsFiniteSet(Q) /\ Count(R, b) \in Nat
         /\ s \notin Readers(R, b) /\ Readers(R, b) \subseteq R
         /\ b \in Reads(s) => Readers(Q, b) = Readers(R, b) \cup {s}
         /\ b \in Reads(s) => Count(Q, b) = Count(R, b) + 1
         /\ b \notin Reads(s) => Readers(Q, b) = Readers(R, b)
         /\ b \notin Reads(s) => Count(Q, b) = Count(R, b)
<1>1. b \in Reads(s) => Readers(Q, b) = Readers(R, b) \cup {s}
  BY DEF Readers, Adds
<1>2. b \notin Reads(s) => Readers(Q, b) = Readers(R, b)
  BY DEF Readers, Adds
<1>3. s \notin Readers(R, b) /\ IsFiniteSet(Readers(R, b)) /\ Readers(R, b) \subseteq R
      /\ IsFiniteSet(R)
  BY Counts DEF Readers, Adds
<1>4. Cardinality(Readers(R, b) \cup {s}) = Cardinality(Readers(R, b)) + 1
  BY <1>3, FS_AddElement
<1>5. Count(R, b) \in Nat
  BY <1>3, Counts
<1>6. IsFiniteSet(Q)
  BY FS_AddElement DEF Adds
<1>7. b \in Reads(s) => Count(Q, b) = Count(R, b) + 1
  BY <1>1, <1>4 DEF Count
<1>8. b \notin Reads(s) => Count(Q, b) = Count(R, b)
  BY <1>2 DEF Count
<1> QED
  BY ONLY <1>1, <1>2, <1>3, <1>5, <1>6, <1>7, <1>8

\* Two readers of a buffer that are told apart by what they write.
LEMMA TwoReaders ==
  ASSUME NEW R, IsFiniteSet(R), NEW b, NEW r, NEW s, r # s, r \in Readers(R, b), s \in Readers(R, b)
  PROVE  Count(R, b) > 1
  BY Counts

-----------------------------------------------------------------------------
(* The table of the readers R and the writers W                             *)

InUse(R, W) == {b \in Buffer : Readers(R, b) # {} \/ Writers(W, b) # {}}

\* The way back from what i's reader writes into b.
Via(R, i, b) == IF Count(R, i) > 1 THEN <<i, b>> ELSE i

Forth(R, b, st, fwd) ==
    /\ Readers(R, b) = {} => st = Nil /\ fwd = Nil
    /\ \A r \in R : Readers(R, b) = {r} => st = r /\ fwd = Out[r]
    /\ Count(R, b) > 1 => fwd = Count(R, b)

Back(R, W, b, back) ==
    /\ Writers(W, b) = {} => back = Nil
    /\ \A w \in Writers(W, b) : Type[w] = "normal" => back = Via(R, Last(Ins[w]), b)

Fits(R, W, b, e) ==
    /\ e = Entry(e.type, e.stmt, e.back, e.fwd)
    /\ e.type = TypeOf(How(W, b), Count(R, b))
    /\ Forth(R, b, e.stmt, e.fwd)
    /\ Back(R, W, b, e.back)

Tabled(tab, R, W) ==
    /\ DOMAIN tab = InUse(R, W)
    /\ \A b \in InUse(R, W) : Fits(R, W, b, tab[b])

Dummied(dummies, R) ==
    /\ \A d \in DOMAIN dummies : \E r \in R : \E b \in Reads(r) :
          Count(R, b) > 1 /\ d = <<b, Out[r]>>
    /\ \A r \in R : \A b \in Reads(r) :
          Count(R, b) > 1 => <<b, Out[r]>> \in DOMAIN dummies /\ dummies[<<b, Out[r]>>] = r

\* Statements with outputs of their own.
Apt(S) == /\ S \subseteq Stmt /\ IsFiniteSet(S)
          /\ \A r, s \in S : Out[r] = Out[s] => r = s

IsMap(f) == f = [x \in DOMAIN f |-> f[x]]

\* What a change leaves alone: the statement named in the entry of a buffer that
\* has been and stays a fork.
Keeps(gr, h) ==
    /\ IsMap(gr.dummies) => IsMap(h.dummies)
    /\ \A b \in InUse(gr.stmts, gr.stmts) :
          Count(gr.stmts, b) > 1 /\ Count(h.stmts, b) > 1 => h.tab[b].stmt = gr.tab[b].stmt

LEMMA KeepsSame == ASSUME NEW gr PROVE Keeps(gr, gr)
  BY DEF Keeps

\* A buffer has as many readers among more statements.
LEMMA MoreReaders ==
  ASSUME NEW S, NEW R, S \subseteq R, IsFiniteSet(R), NEW b
  PROVE  /\ Count(S, b) \in Nat /\ Count(R, b) \in Nat /\ Count(S, b) <= Count(R, b)
         /\ InUse(S, S) \subseteq InUse(R, R)
  <1>1. IsFiniteSet(S) /\ Readers(S, b) \subseteq Readers(R, b)
    BY FS_Subset DEF Readers
  <1>2. IsFiniteSet(Readers(R, b)) /\ Count(S, b) \in Nat /\ Count(R, b) \in Nat
    BY <1>1, Counts
  <1>3. Count(S, b) <= Count(R, b)
    BY <1>1, <1>2, FS_Subset DEF Count
  <1>4. InUse(S, S) \subseteq InUse(R, R)
    BY DEF InUse, Readers, Writers
  <1> QED
    BY <1>2, <1>3, <1>4

\* A buffer in use has a type.
LEMMA UsedHas ==
  ASSUME NEW R, IsFiniteSet(R), NEW W, NEW b \in InUse(R, W)
  PROVE  HasUse(How(W, b), Count(R, b))
<1>1. How(W, b) \in Hows
  BY DEF How, Hows
<1>2. Count(R, b) \in Nat /\ (Count(R, b) = 0 => Readers(R, b) = {})
  BY Counts
<1>3. Writers(W, b) # {} => How(W, b) # "source"
  BY DEF How
<1> QED
  BY <1>1, <1>2, <1>3 DEF HasUse, InUse

\* The fields of an entry.
LEMMA EntryHas ==
  ASSUME NEW t, NEW s, NEW b, NEW f
  PROVE  /\ Entry(t, s, b, f).type = t /\ Entry(t, s, b, f).stmt = s
         /\ Entry(t, s, b, f).back = b /\ Entry(t, s, b, f).fwd = f
  BY DEF Entry

-----------------------------------------------------------------------------
(* Driver::addStmt                                                          *)

\* What is known of the inputs and the output of a statement.
LEMMA LastRead ==
  ASSUME NEW s \in Stmt
  PROVE  /\ Last(Ins[s]) \in Reads(s) /\ Reads(s) \subseteq Buffer
         /\ Type[s] = "normal" => Reads(s) = {Last(Ins[s])}
         /\ Out[s] \in Buffer /\ Out[s] \notin Reads(s)
<1>1. Ins[s] \in Seq(Buffer) /\ Ins[s] # << >> /\ Len(Ins[s]) \in Nat \ {0}
  BY GraphAssumption
<1>2. Reads(s) = {Ins[s][i] : i \in 1 .. Len(Ins[s])}
  BY <1>1 DEF Reads, ToSet
<1>3. Type[s] = "normal" => Len(Ins[s]) = 1
  BY GraphAssumption
<1> QED
  BY <1>1, <1>2, <1>3, GraphAssumption DEF Last, Reads

\* What it is to be read, for a type in the table.
LEMMA TypeIs ==
  ASSUME NEW R, IsFiniteSet(R), NEW W, NEW tab, Tabled(tab, R, W), NEW b \in InUse(R, W)
  PROVE  /\ tab[b].type \in Forks <=> Count(R, b) > 1
         /\ tab[b].type \in DOMAIN Forked <=> Count(R, b) = 1
         /\ tab[b].type \in Sinks <=> Readers(R, b) = {}
         /\ tab[b].type \in Sources <=> Writers(W, b) = {}
         /\ tab[b].type \in Merges <=> \E w \in Writers(W, b) : Type[w] # "normal"
         /\ tab[b].type = "source" <=> Writers(W, b) = {} /\ Count(R, b) = 1
<1>1. HasUse(How(W, b), Count(R, b)) /\ tab[b].type = TypeOf(How(W, b), Count(R, b))
  BY UsedHas DEF Tabled, Fits
<1>2. Count(R, b) = 0 <=> Readers(R, b) = {}
  BY Counts
<1>3. /\ How(W, b) = "source" <=> Writers(W, b) = {}
      /\ How(W, b) = "merge" <=> \E w \in Writers(W, b) : Type[w] # "normal"
  BY DEF How
<1> QED
  BY <1>1, <1>2, <1>3, Types, Domains

\* A reader is counted.
LEMMA EnteredFits ==
  ASSUME NEW R, IsFiniteSet(R), NEW W, NEW b \in InUse(R, W), NEW s \in Stmt, NEW Q, Adds(R, s, Q),
         b \in Reads(s), NEW e, Fits(R, W, b, e)
  PROVE  LET h == Entered(e, s) IN
         /\ h = Entry(h.type, h.stmt, h.back, h.fwd)
         /\ h.type = TypeOf(How(W, b), Count(Q, b))
         /\ Forth(Q, b, h.stmt, h.fwd)
         /\ h.back = e.back
<1> DEFINE n == Count(R, b)
           how == How(W, b)
           h == Entered(e, s)
<1>1. HasUse(how, n)
  BY UsedHas
<1>2. /\ n \in Nat /\ (n = 0 <=> Readers(R, b) = {})
      /\ Readers(Q, b) = Readers(R, b) \cup {s}
      /\ Count(Q, b) = n + 1 /\ IsFiniteSet(Q)
  BY Counts, OneMore
<1>3. PICK t, st, back, fwd :
         /\ e = Entry(t, st, back, fwd) /\ e.type = t /\ e.back = back
         /\ t = TypeOf(how, n) /\ Forth(R, b, st, fwd)
  BY DEF Fits
<1>4. /\ Readers(Q, b) # {}
      /\ n + 1 > 1 => \A r : Readers(Q, b) # {r}
  <2>1. Count(Q, b) = 1 <=> \E r : Readers(Q, b) = {r}
    BY <1>2, Counts
  <2>2. Readers(Q, b) # {}
    BY <1>2
  <2>3. ASSUME n + 1 > 1 PROVE Count(Q, b) # 1
    BY <1>2, <2>3
  <2>4. ASSUME n + 1 > 1, NEW r, Readers(Q, b) = {r} PROVE FALSE
    BY ONLY <2>1, <2>3, <2>4
  <2> QED
    BY <2>2, <2>4
<1>5. /\ t \in Forks <=> n > 1
      /\ t \in DOMAIN Forked <=> n = 1
      /\ t \in Sinks <=> n = 0
  BY <1>1, <1>3, Types, Domains
<1> HIDE DEF n, how
<1>6. CASE n = 0
  <2>1. PICK x, o : x = Extended[t] /\ o = Out[s]
    OBVIOUS
  <2>2. h = [e EXCEPT !.type = x, !.stmt = s, !.fwd = o]
    BY <1>3, <1>5, <1>6, <2>1 DEF Entered
  <2> HIDE DEF h
  <2>3. h = Entry(x, s, back, o)
    BY ONLY <1>3, <2>2 DEF Entry
  <2>4. x = TypeOf(how, 1)
    BY <1>1, <1>3, <1>6, <2>1, Changes
  <2>5. Readers(Q, b) = {s} /\ Count(Q, b) = 1
    BY <1>2, <1>6
  <2>6. Forth(Q, b, s, o)
    BY <2>1, <2>5 DEF Forth
  <2> QED
    BY <1>3, <2>3, <2>4, <2>5, <2>6, EntryHas DEF h, how
<1>7. CASE n = 1
  <2>1. PICK x : x = Forked[t]
    OBVIOUS
  <2>2. h = [e EXCEPT !.type = x, !.fwd = 2]
    BY <1>3, <1>5, <1>7, <2>1 DEF Entered
  <2> HIDE DEF h
  <2>3. h = Entry(x, st, back, 2)
    BY ONLY <1>3, <2>2 DEF Entry
  <2>4. x = TypeOf(how, 2)
    BY <1>1, <1>3, <1>7, <2>1, Changes
  <2>5. Count(Q, b) = 2
    BY <1>2, <1>7
  <2>6. Forth(Q, b, st, 2)
    <3>1. Readers(Q, b) # {} /\ \A r : Readers(Q, b) # {r}
      <4>1. n + 1 > 1
        BY <1>7
      <4> QED
        BY <4>1, <1>4
    <3> QED
      BY ONLY <3>1, <2>5, Zenon DEF Forth
  <2> QED
    BY <1>3, <2>3, <2>4, <2>5, <2>6, EntryHas DEF h, how
<1>8. CASE n > 1
  <2>1. PICK f : f = fwd + 1
    OBVIOUS
  <2>2. h = [e EXCEPT !.fwd = f]
    <3>1. h = [e EXCEPT !.fwd = @ + 1] /\ e.fwd = fwd
      BY <1>3, <1>5, <1>8, EntryHas DEF Entered
    <3> QED
      BY <2>1, <3>1
  <2> HIDE DEF h
  <2>3. h = Entry(t, st, back, f)
    BY ONLY <1>3, <2>2 DEF Entry
  <2>4. TypeOf(how, n + 1) = t
    BY <1>1, <1>3, <1>8, Changes
  <2>5. f = n + 1
    BY <1>3, <1>8, <2>1 DEF Forth, n
  <2>6. Forth(Q, b, st, f)
    <3>1. Readers(Q, b) # {} /\ \A r : Readers(Q, b) # {r}
      <4>1. n + 1 > 1
        BY <1>8, <1>2
      <4> QED
        BY <4>1, <1>4
    <3>2. Count(Q, b) = f
      BY <1>2, <2>5
    <3> QED
      BY ONLY <3>1, <3>2, Zenon DEF Forth
  <2> QED
    BY <1>2, <1>3, <2>3, <2>4, <2>5, <2>6, EntryHas DEF h, how
<1> QED
  BY <1>2, <1>6, <1>7, <1>8

\* The only writer.
LEMMA Author ==
  ASSUME NEW S, Apt(S), NEW w \in S
  PROVE  Writers(S, Out[w]) = {w} /\ w \in Stmt
  BY DEF Apt, Writers

\* The inputs of s that become forks, and those whose reader writes into c.
Split(tab, s) == {b \in Reads(s) \cap DOMAIN tab : tab[b].type \in DOMAIN Forked}
Moved(tab, s, c) ==
    {b \in Split(tab, s) : tab[b].fwd = c /\ tab[c].type \notin Merges}

\* The entry that is told of a new dummy: the output of the only reader so far.
LEMMA MovedIs ==
  ASSUME NEW S, Apt(S), NEW tab, Tabled(tab, S, S), NEW s \in Stmt,
         NEW c \in InUse(S, S), NEW b
  PROVE  b \in Moved(tab, s, c)
           <=> /\ b \in Reads(s) /\ Count(S, b) = 1
               /\ \E w \in S : Out[w] = c /\ Type[w] = "normal" /\ b = Last(Ins[w])
<1>1. IsFiniteSet(S) /\ S \subseteq Stmt /\ DOMAIN tab = InUse(S, S)
  BY DEF Apt, Tabled
<1>2. ASSUME b \in Moved(tab, s, c)
      PROVE  /\ b \in Reads(s) /\ Count(S, b) = 1
             /\ \E w \in S : Out[w] = c /\ Type[w] = "normal" /\ b = Last(Ins[w])
  <2>1. /\ b \in Reads(s) /\ b \in InUse(S, S) /\ tab[b].type \in DOMAIN Forked
        /\ tab[b].fwd = c /\ tab[c].type \notin Merges
    BY <1>1, <1>2 DEF Moved, Split
  <2>2. Count(S, b) = 1
    BY <1>1, <2>1, TypeIs
  <2>3. PICK r : Readers(S, b) = {r}
    BY <1>1, <2>2, Counts
  <2>4. r \in S /\ b \in Reads(r)
    BY <2>3 DEF Readers
  <2>5. c = Out[r]
    BY <2>1, <2>3, <2>4 DEF Tabled, Fits, Forth
  <2>6. ~ \E w \in Writers(S, c) : Type[w] # "normal"
    BY <1>1, <2>1, TypeIs
  <2>7. r \in Writers(S, c)
    BY <2>4, <2>5 DEF Writers
  <2>8. Type[r] = "normal"
    BY <2>6, <2>7
  <2>9. b = Last(Ins[r])
    BY <1>1, <2>4, <2>8, LastRead
  <2> QED
    BY <2>1, <2>2, <2>4, <2>5, <2>8, <2>9
<1>3. ASSUME b \in Reads(s), Count(S, b) = 1,
             NEW w \in S, Out[w] = c, Type[w] = "normal", b = Last(Ins[w])
      PROVE  b \in Moved(tab, s, c)
  <2>1. w \in Readers(S, b) /\ b \in Buffer
    BY <1>1, <1>3, LastRead DEF Readers
  <2>2. Readers(S, b) = {w}
    BY <1>1, <1>3, <2>1, Counts
  <2>3. b \in InUse(S, S)
    BY <2>1 DEF InUse
  <2>4. tab[b].type \in DOMAIN Forked
    BY <1>1, <1>3, <2>3, TypeIs
  <2>5. tab[b].fwd = c
    BY <1>3, <2>2, <2>3 DEF Tabled, Fits, Forth
  <2>6. Writers(S, c) = {w}
    BY <1>3, Author
  <2>7. tab[c].type \notin Merges
    BY <1>1, <1>3, <2>6, TypeIs
  <2> QED
    BY <1>1, <1>3, <2>3, <2>4, <2>5, <2>7 DEF Moved, Split
<1> QED
  BY <1>2, <1>3

\* What follows when s is one more reader: who writes into c is reached through
\* another branch only if its input is moved.
LEMMA BackMoved ==
  ASSUME NEW S, Apt(S), NEW tab, Tabled(tab, S, S), NEW s \in Stmt, 
         NEW Q, Adds(S, s, Q), NEW c \in InUse(S, S), NEW back, Back(S, S, c, back)
  PROVE  /\ Moved(tab, s, c) = {} => Back(Q, S, c, back)
         /\ \A b \in Moved(tab, s, c) : Back(Q, S, c, <<b, c>>)
<1>1. IsFiniteSet(S) /\ S \subseteq Stmt
  BY DEF Apt
<1>2. \A i : /\ i \in Reads(s) => Count(Q, i) = Count(S, i) + 1
             /\ i \notin Reads(s) => Count(Q, i) = Count(S, i)
             /\ Count(S, i) \in Nat
  <2> TAKE i
  <2>1. Count(S, i) \in Nat
    BY <1>1, Counts
  <2> QED
    BY <1>1, <2>1, OneMore
<1>3. ASSUME Moved(tab, s, c) = {} PROVE Back(Q, S, c, back)
  <2>1. ASSUME NEW w \in Writers(S, c), Type[w] = "normal"
        PROVE  back = Via(Q, Last(Ins[w]), c)
    <3>1. w \in S /\ w \in Stmt /\ Out[w] = c /\ back = Via(S, Last(Ins[w]), c)
      BY <1>1, <2>1 DEF Writers, Back
    <3>2. PICK i : i = Last(Ins[w])
      OBVIOUS
    <3>3. w \in Readers(S, i)
      BY <3>1, <3>2, LastRead DEF Readers
    <3>4. Count(S, i) # 0
      BY <1>1, <3>3, Counts
    <3>5. ~ (i \in Reads(s) /\ Count(S, i) = 1)
      BY <1>3, <2>1, <3>1, <3>2, MovedIs
    <3>6. Count(Q, i) > 1 <=> Count(S, i) > 1
      BY <1>2, <3>4, <3>5
    <3> QED
      BY <3>1, <3>2, <3>6 DEF Via
  <2> QED
    BY <2>1 DEF Back
<1>4. ASSUME NEW b \in Moved(tab, s, c) PROVE Back(Q, S, c, <<b, c>>)
  <2>1. PICK w \in S : Out[w] = c /\ Type[w] = "normal" /\ b = Last(Ins[w])
    BY <1>4, MovedIs
  <2>2. b \in Reads(s) /\ Count(S, b) = 1
    BY <1>4, MovedIs
  <2>3. Writers(S, c) = {w}
    BY <2>1, Author
  <2>4. Count(Q, b) > 1
    BY <1>2, <2>2
  <2> QED
    BY <2>1, <2>3, <2>4 DEF Back, Via
<1> QED
  BY <1>3, <1>4

IsGraph(gr) == DOMAIN gr = {"tab", "dummies", "map", "stmts"}

\* The entry of c as s reads it too, but for its way back.
Read(tab, s, c) ==
    IF c \in Reads(s) \cap DOMAIN tab THEN Entered(tab[c], s) ELSE tab[c]

\* The table with s as one more reader.
TabRead(old, s) ==
    [c \in DOMAIN old \cup Reads(s) |->
       IF c \notin DOMAIN old THEN Entry("source", s, Nil, Out[s])
       ELSE IF Moved(old, s, c) = {} THEN Read(old, s, c)
       ELSE [Read(old, s, c) EXCEPT
               !.back = <<CHOOSE b \in Moved(old, s, c) : TRUE, c>>]]

\* What Enter makes of the table when all inputs of s are entered.
LEMMA EnterIs ==
  ASSUME NEW gr, IsGraph(gr), NEW s \in Stmt, NEW h, h = Enter(gr, s, Reads(s))
  PROVE  /\ IsGraph(h) /\ h.map = gr.map /\ h.stmts = gr.stmts
         /\ h.tab = TabRead(gr.tab, s)
         /\ DOMAIN h.tab = DOMAIN gr.tab \cup Reads(s)
<1> DEFINE there == Reads(s) \cap DOMAIN gr.tab
           split == {b \in there : gr.tab[b].type \in DOMAIN Forked}
           forks == {b \in there : gr.tab[b].type \in DOMAIN Forked \cup Forks}
           moved(c) == {b \in split : gr.tab[b].fwd = c /\ gr.tab[c].type \notin Merges}
           entry(c) == IF c \in there THEN Entered(gr.tab[c], s) ELSE gr.tab[c]
           old == {<<b, gr.tab[b].fwd>> : b \in split}
           new == {<<b, Out[s]>> : b \in forks}
           tab == [c \in DOMAIN gr.tab \cup Reads(s) |->
                    IF c \notin DOMAIN gr.tab THEN Entry("source", s, Nil, Out[s])
                    ELSE IF moved(c) = {} THEN entry(c)
                    ELSE [entry(c) EXCEPT !.back = <<CHOOSE b \in moved(c) : TRUE, c>>]]
           dummies == [d \in DOMAIN gr.dummies \cup old \cup new |->
                        IF d \in new THEN s
                        ELSE IF d \in old THEN gr.tab[d[1]].stmt ELSE gr.dummies[d]]
<1>1. h = [gr EXCEPT !.tab = tab, !.dummies = dummies]
  BY DEF Enter
<1>4. tab = TabRead(gr.tab, s)
  BY Zenon DEF TabRead, Moved, Split, Read
<1>6. DOMAIN tab = DOMAIN gr.tab \cup Reads(s)
  OBVIOUS
<1> HIDE DEF tab, dummies
<1>5. /\ IsGraph(h) /\ h.map = gr.map /\ h.stmts = gr.stmts
      /\ h.tab = tab
  BY <1>1 DEF IsGraph
<1> QED
  BY <1>4, <1>5, <1>6

\* An entry that was there.
LEMMA ReadFits ==
  ASSUME NEW S, Apt(S), NEW tab, Tabled(tab, S, S), NEW s \in Stmt, 
         NEW Q, Adds(S, s, Q), NEW c \in InUse(S, S), NEW h, h = Read(tab, s, c)
  PROVE  /\ h = Entry(h.type, h.stmt, h.back, h.fwd)
         /\ h.type = TypeOf(How(S, c), Count(Q, c))
         /\ Forth(Q, c, h.stmt, h.fwd)
         /\ Back(S, S, c, h.back)
<1>1. IsFiniteSet(S) /\ c \in DOMAIN tab /\ Fits(S, S, c, tab[c])
  BY DEF Apt, Tabled
<1>2. CASE c \in Reads(s)
  <2>1. h = Entered(tab[c], s)
    BY <1>1, <1>2 DEF Read
  <2>2. Back(S, S, c, tab[c].back)
    BY <1>1 DEF Fits
  <2>3. PICK e : e = tab[c]
    OBVIOUS
  <2>4. h = Entered(e, s) /\ Fits(S, S, c, e) /\ Back(S, S, c, e.back)
    BY <1>1, <2>1, <2>2, <2>3
  <2> QED
    BY ONLY <2>4, <1>1, <1>2, s \in Stmt, Adds(S, s, Q), c \in InUse(S, S), EnteredFits
<1>3. CASE c \notin Reads(s)
  <2>1. h = tab[c]
    BY <1>3 DEF Read
  <2>2. Readers(Q, c) = Readers(S, c) /\ Count(Q, c) = Count(S, c)
    BY <1>1, <1>3, OneMore
  <2>3. Readers(S, c) \subseteq S /\ S \subseteq Q
    BY DEF Readers, Adds
  <2>4. PICK st, fwd : st = h.stmt /\ fwd = h.fwd /\ Forth(S, c, st, fwd)
    BY <1>1, <2>1 DEF Fits
  <2>5. Forth(Q, c, st, fwd)
    <3>1. \A r \in Q : Readers(Q, c) = {r} => r \in S
      BY <2>2, <2>3
    <3> QED
      BY <2>2, <2>4, <3>1 DEF Forth
  <2> QED
    BY <1>1, <2>1, <2>2, <2>4, <2>5 DEF Fits
<1> QED
  BY <1>2, <1>3

\* s reads all its inputs.
LEMMA EnterTab ==
  ASSUME NEW gr, IsGraph(gr), NEW S, Apt(S), Tabled(gr.tab, S, S), NEW s \in Stmt, 
         NEW Q, Adds(S, s, Q), NEW h, h = Enter(gr, s, Reads(s))
  PROVE  Tabled(h.tab, Q, S)
<1> DEFINE tab == gr.tab
<1>1. IsFiniteSet(S) /\ DOMAIN tab = InUse(S, S)
  BY DEF Apt, Tabled
<1>2. InUse(Q, S) = DOMAIN tab \cup Reads(s)
  <2>1. \A b : Readers(Q, b) = IF b \in Reads(s) THEN Readers(S, b) \cup {s} ELSE Readers(S, b)
    BY DEF Readers, Adds
  <2> QED
    BY <1>1, <2>1, LastRead DEF InUse
<1>3. h.tab = TabRead(tab, s)
  BY EnterIs
<1>4. ASSUME NEW c \in InUse(Q, S), c \notin DOMAIN tab PROVE Fits(Q, S, c, h.tab[c])
  <2>1. h.tab[c] = Entry("source", s, Nil, Out[s]) /\ c \in Reads(s)
    BY <1>2, <1>3, <1>4 DEF TabRead
  <2>2. c \in Buffer
    BY <2>1, LastRead
  <2>3. Readers(S, c) = {} /\ Writers(S, c) = {}
    BY <1>1, <1>4, <2>2 DEF InUse
  <2>4. Count(S, c) = 0
    BY <1>1, <2>3, Counts
  <2>5. Readers(Q, c) = {s} /\ Count(Q, c) = 1
    <3>1. c \in Reads(s)
      BY <2>1
    <3>2. Readers(Q, c) = Readers(S, c) \cup {s} /\ Count(Q, c) = Count(S, c) + 1
      BY ONLY <3>1, Adds(S, s, Q), OneMore
    <3> QED
      BY <2>3, <2>4, <3>2
  <2>6. TypeOf(How(S, c), Count(Q, c)) = "source"
    BY <2>3, <2>5 DEF TypeOf, How
  <2>7. PICK o, w : o = Out[s] /\ w = "source"
    OBVIOUS
  <2>8. Forth(Q, c, s, o)
    BY <2>5, <2>7 DEF Forth
  <2>9. Back(Q, S, c, Nil)
    BY <2>3 DEF Back
  <2>10. h.tab[c] = Entry(w, s, Nil, o)
    BY <2>1, <2>7
  <2> QED
    BY <2>6, <2>7, <2>8, <2>9, <2>10, EntryHas DEF Fits
<1>5. ASSUME NEW c \in DOMAIN tab PROVE Fits(Q, S, c, h.tab[c])
  <2>1. PICK r : r = Read(tab, s, c)
    OBVIOUS
  <2>2. /\ r = Entry(r.type, r.stmt, r.back, r.fwd)
        /\ r.type = TypeOf(How(S, c), Count(Q, c))
        /\ Forth(Q, c, r.stmt, r.fwd)
        /\ Back(S, S, c, r.back)
    BY <1>1, <2>1, ReadFits
  <2>3. CASE Moved(tab, s, c) = {}
    <3>1. h.tab[c] = r
      BY <1>3, <2>1, <2>3 DEF TabRead
    <3>2. Back(Q, S, c, r.back)
      <4>1. PICK back : back = r.back /\ Back(S, S, c, back)
        BY <2>2
      <4> QED
        BY <1>1, <2>3, <4>1, BackMoved
    <3> QED
      BY <2>2, <3>1, <3>2 DEF Fits
  <2>4. CASE Moved(tab, s, c) # {}
    <3>1. PICK b : b = CHOOSE x \in Moved(tab, s, c) : TRUE
      OBVIOUS
    <3>2. b \in Moved(tab, s, c)
      BY <2>4, <3>1
    <3>3. PICK p : p = <<b, c>>
      OBVIOUS
    <3>4. h.tab[c] = [r EXCEPT !.back = p]
      BY <1>3, <2>1, <2>4, <3>1, <3>3 DEF TabRead
    <3>5. PICK t, st, bk, fwd : /\ t = r.type /\ st = r.stmt /\ fwd = r.fwd
                                /\ r = Entry(t, st, bk, fwd) /\ bk = r.back
      BY <2>2
    <3>6. h.tab[c] = Entry(t, st, p, fwd)
      BY ONLY <3>4, <3>5 DEF Entry
    <3>7. Back(Q, S, c, p)
      BY <1>1, <2>2, <3>2, <3>3, BackMoved
    <3> QED
      BY <2>2, <3>5, <3>6, <3>7, EntryHas DEF Fits
  <2> QED
    BY <2>3, <2>4
<1> QED
  BY <1>2, <1>3, <1>4, <1>5 DEF Tabled, TabRead

\* The dummies after s has entered its inputs.
LEMMA EnterDummies ==
  ASSUME NEW gr, IsGraph(gr), NEW S, Apt(S), Tabled(gr.tab, S, S), Dummied(gr.dummies, S),
         NEW s \in Stmt, \A r \in S : Out[r] # Out[s],
         NEW Q, Adds(S, s, Q), NEW h, h = Enter(gr, s, Reads(s))
  PROVE  Dummied(h.dummies, Q)
<1> DEFINE tab == gr.tab
           split == Split(tab, s)
           forks == {b \in Reads(s) \cap DOMAIN tab : tab[b].type \in DOMAIN Forked \cup Forks}
           old == {<<b, tab[b].fwd>> : b \in split}
           new == {<<b, Out[s]>> : b \in forks}
<1>1. IsFiniteSet(S) /\ S \subseteq Stmt /\ DOMAIN tab = InUse(S, S)
  BY DEF Apt, Tabled
<1>2. h.dummies = [d \in DOMAIN gr.dummies \cup old \cup new |->
                        IF d \in new THEN s
                        ELSE IF d \in old THEN tab[d[1]].stmt ELSE gr.dummies[d]]
  BY DEF Enter, IsGraph, Split
<1>3. ASSUME NEW b
      PROVE  /\ Count(S, b) \in Nat
             /\ b \in Reads(s) => Count(Q, b) = Count(S, b) + 1
             /\ b \notin Reads(s) => Count(Q, b) = Count(S, b)
             /\ Count(S, b) > 1 => Count(Q, b) > 1
             /\ Count(S, b) > 0 /\ b \in Reads(s) => Count(Q, b) > 1
  <2>1. Count(S, b) \in Nat
    BY <1>1, Counts
  <2>2. /\ b \in Reads(s) => Count(Q, b) = Count(S, b) + 1
        /\ b \notin Reads(s) => Count(Q, b) = Count(S, b)
    BY <1>1, OneMore
  <2> QED
    BY ONLY <2>1, <2>2
<1>4. ASSUME NEW b \in split
      PROVE  /\ b \in Reads(s) /\ Count(S, b) = 1
             /\ \A r \in S : b \in Reads(r) => tab[b].stmt = r /\ tab[b].fwd = Out[r]
             /\ \E r \in S : b \in Reads(r)
  <2>1. b \in Reads(s) /\ b \in InUse(S, S) /\ tab[b].type \in DOMAIN Forked
    BY <1>1, <1>4 DEF Split
  <2>2. Count(S, b) = 1
    BY <1>1, <2>1, TypeIs
  <2>3. PICK q : Readers(S, b) = {q}
    BY <1>1, <2>2, Counts
  <2>4. q \in S /\ tab[b].stmt = q /\ tab[b].fwd = Out[q]
    <3>1. q \in S
      BY <2>3 DEF Readers
    <3> QED
      BY <2>1, <2>3, <3>1 DEF Tabled, Fits, Forth
  <2> QED
    BY <2>1, <2>2, <2>3, <2>4 DEF Readers
<1>5. ASSUME NEW b
      PROVE  b \in forks <=> b \in Reads(s) /\ Count(S, b) > 0
  <2>1. ASSUME b \in InUse(S, S)
        PROVE  tab[b].type \in DOMAIN Forked \cup Forks <=> Count(S, b) > 0
    <3>1. Count(S, b) \in Nat
      BY <1>3
    <3>2. /\ tab[b].type \in Forks <=> Count(S, b) > 1
          /\ tab[b].type \in DOMAIN Forked <=> Count(S, b) = 1
      BY <1>1, <2>1, TypeIs
    <3> QED
      BY ONLY <3>1, <3>2
  <2>2. b \in Reads(s) /\ Count(S, b) > 0 => b \in InUse(S, S)
    <3>1. Count(S, b) > 0 => Readers(S, b) # {}
      BY <1>1, Counts
    <3> QED
      BY <3>1, LastRead DEF InUse
  <2> QED
    BY <1>1, <2>1, <2>2
<1> HIDE DEF split, forks
<1>6. ASSUME NEW d \in DOMAIN h.dummies
      PROVE  \E r \in Q : \E b \in Reads(r) : Count(Q, b) > 1 /\ d = <<b, Out[r]>>
  <2>1. CASE d \in DOMAIN gr.dummies
    <3>1. PICK r \in S : \E b \in Reads(r) : Count(S, b) > 1 /\ d = <<b, Out[r]>>
      BY <2>1 DEF Dummied
    <3>2. PICK b \in Reads(r) : Count(S, b) > 1 /\ d = <<b, Out[r]>>
      BY <3>1
    <3>3. Count(Q, b) > 1
      BY <1>3, <3>2
    <3> QED
      BY <3>2, <3>3 DEF Adds
  <2>2. CASE d \in old
    <3>1. PICK b \in split : d = <<b, tab[b].fwd>>
      BY <2>2
    <3>2. PICK r \in S : b \in Reads(r)
      BY <1>4
    <3>3. d = <<b, Out[r]>>
      BY <1>4, <3>1, <3>2
    <3>4. Count(Q, b) > 1
      <4>1. b \in Reads(s) /\ Count(S, b) > 0
        BY <1>4
      <4> QED
        BY <1>3, <4>1
    <3> QED
      BY <3>2, <3>3, <3>4 DEF Adds
  <2>3. CASE d \in new
    <3>1. PICK b \in forks : d = <<b, Out[s]>>
      BY <2>3
    <3>2. b \in Reads(s) /\ Count(S, b) > 0
      BY <1>5
    <3>3. Count(Q, b) > 1
      BY <1>3, <3>2
    <3> QED
      BY <3>1, <3>2, <3>3 DEF Adds
  <2> HIDE DEF old, new
  <2> QED
    BY <1>2, <1>6, <2>1, <2>2, <2>3
<1>7. ASSUME NEW r \in Q, NEW b \in Reads(r), Count(Q, b) > 1
      PROVE  <<b, Out[r]>> \in DOMAIN h.dummies /\ h.dummies[<<b, Out[r]>>] = r
  <2>1. CASE r = s
    <3>1. Count(S, b) > 0
      BY <1>3, <1>7, <2>1
    <3>2. b \in forks
      BY <1>5, <2>1, <3>1
    <3>3. PICK d : d = <<b, Out[r]>>
      OBVIOUS
    <3>4. d \in new
      BY <2>1, <3>2, <3>3
    <3> HIDE DEF old, new
    <3>5. d \in DOMAIN h.dummies /\ h.dummies[d] = s
      BY <1>2, <3>4
    <3> QED
      BY <2>1, <3>3, <3>5
  <2>2. CASE r \in S
    <3>1. PICK d : d = <<b, Out[r]>>
      OBVIOUS
    <3>2. d \notin new
      BY <2>2, <3>1
    <3>3. CASE Count(S, b) > 1
      <4>1. d \in DOMAIN gr.dummies /\ gr.dummies[d] = r
        BY <2>2, <3>1, <3>3 DEF Dummied
      <4>2. d \notin old
        <5> SUFFICES ASSUME NEW x \in split, d = <<x, tab[x].fwd>> PROVE FALSE
          OBVIOUS
        <5>1. x = b
          BY <3>1
        <5> QED
          BY <1>4, <3>3, <5>1
      <4> HIDE DEF old, new
      <4>3. d \in DOMAIN h.dummies /\ h.dummies[d] = r
        BY <1>2, <3>2, <4>1, <4>2
      <4> QED
        BY <3>1, <4>3
    <3>4. CASE ~ (Count(S, b) > 1)
      <4>1. r \in Readers(S, b)
        BY <2>2 DEF Readers
      <4>2. Count(S, b) # 0
        BY <1>1, <4>1, Counts
      <4>3. Count(S, b) = 1 /\ b \in Reads(s)
        BY <1>3, <1>7, <3>4, <4>2
      <4>4. b \in InUse(S, S)
        BY <2>2, <4>1, <1>1, LastRead DEF InUse
      <4>5. b \in split
        BY <1>1, <4>3, <4>4, TypeIs DEF split, Split
      <4>6. tab[b].stmt = r /\ tab[b].fwd = Out[r]
        BY <1>4, <2>2, <4>5
      <4>7. d \in old /\ d[1] = b
        BY <3>1, <4>5, <4>6
      <4> HIDE DEF old, new
      <4>8. d \in DOMAIN h.dummies /\ h.dummies[d] = tab[d[1]].stmt
        BY <1>2, <3>2, <4>7
      <4> QED
        BY <3>1, <4>6, <4>7, <4>8
    <3> QED
      BY <3>3, <3>4
  <2> QED
    BY <2>1, <2>2 DEF Adds
<1> QED
  BY <1>6, <1>7 DEF Dummied

\* The statement in the entry of a fork stays when s reads it too.
LEMMA EnterKeeps ==
  ASSUME NEW gr, IsGraph(gr), NEW S, S = gr.stmts, Apt(S), Tabled(gr.tab, S, S),
         NEW s \in Stmt, NEW Q, Adds(S, s, Q), NEW h, h = Enter(gr, s, Reads(s))
  PROVE  /\ IsMap(h.dummies)
         /\ \A b \in InUse(S, S) : Count(S, b) > 1 => h.tab[b].stmt = gr.tab[b].stmt
  <1>1. IsMap(h.dummies)
    <2> DEFINE there == Reads(s) \cap DOMAIN gr.tab
               split == {b \in there : gr.tab[b].type \in DOMAIN Forked}
               forks == {b \in there : gr.tab[b].type \in DOMAIN Forked \cup Forks}
               old == {<<b, gr.tab[b].fwd>> : b \in split}
               new == {<<b, Out[s]>> : b \in forks}
               dummies == [d \in DOMAIN gr.dummies \cup old \cup new |->
                            IF d \in new THEN s
                            ELSE IF d \in old THEN gr.tab[d[1]].stmt ELSE gr.dummies[d]]
    <2>1. \E tab : h = [gr EXCEPT !.tab = tab, !.dummies = dummies]
      BY DEF Enter
    <2>2. IsMap(dummies)
      BY DEF IsMap
    <2> HIDE DEF dummies
    <2>3. h.dummies = dummies
      BY <2>1 DEF IsGraph
    <2> QED
      BY <2>2, <2>3
  <1>2. ASSUME NEW b \in InUse(S, S), Count(S, b) > 1 PROVE h.tab[b].stmt = gr.tab[b].stmt
    <2>1. PICK tab : tab = gr.tab
      OBVIOUS
    <2>2. /\ DOMAIN tab = InUse(S, S) /\ IsFiniteSet(S) /\ Tabled(tab, S, S)
          /\ h.tab = TabRead(tab, s)
      BY <2>1, EnterIs DEF Tabled, Apt
    <2>3. PICK e : e = Read(tab, s, b)
      OBVIOUS
    <2>4. e = Entry(e.type, e.stmt, e.back, e.fwd)
      BY <2>2, <2>3, ReadFits
    <2>5. tab[b].type \in Forks /\ tab[b].type \notin DOMAIN Forked /\ tab[b].type \notin Sinks
      BY <1>2, <2>2, TypeIs, Domains DEF Forks, Hows, Sinks
    <2>6. PICK t, st, back, fwd : tab[b] = Entry(t, st, back, fwd)
      BY <2>2 DEF Tabled, Fits
    <2>7. e.stmt = tab[b].stmt
      <3>1. CASE b \in Reads(s)
        <4>1. e = [tab[b] EXCEPT !.fwd = @ + 1]
          BY <2>2, <2>3, <2>5, <3>1 DEF Read, Entered
        <4>2. PICK n : n = tab[b].fwd + 1
          OBVIOUS
        <4>3. e = [tab[b] EXCEPT !.fwd = n]
          BY <4>1, <4>2
        <4> QED
          BY ONLY <2>6, <4>3 DEF Entry
      <3>2. CASE b \notin Reads(s)
        BY <2>3, <3>2 DEF Read
      <3> QED
        BY <3>1, <3>2
    <2>8. h.tab[b] = e \/ \E x : h.tab[b] = [e EXCEPT !.back = x]
      BY <2>2, <2>3 DEF TabRead
    <2>9. h.tab[b].stmt = e.stmt
      <3>1. PICK et, es, eb, ef : e = Entry(et, es, eb, ef)
        BY <2>4
      <3> QED
        BY ONLY <2>8, <3>1 DEF Entry
    <2> QED
      BY <2>1, <2>7, <2>9
  <1> QED
    BY <1>1, <1>2

\* Who writes what, once s does too.
LEMMA WriterMore ==
  ASSUME NEW S, NEW s, NEW Q, Adds(S, s, Q), NEW c
  PROVE  /\ c # Out[s] => Writers(Q, c) = Writers(S, c) /\ How(Q, c) = How(S, c)
         /\ c = Out[s] => s \in Writers(Q, c)
         /\ c = Out[s] /\ Writers(S, c) = {} =>
              /\ Writers(Q, c) = {s}
              /\ How(Q, c) = IF Type[s] = "normal" THEN "normal" ELSE "merge"
<1>1. c # Out[s] => Writers(Q, c) = Writers(S, c)
  BY DEF Adds, Writers
<1>2. c = Out[s] => s \in Writers(Q, c)
  BY DEF Adds, Writers
<1>3. c = Out[s] /\ Writers(S, c) = {} => Writers(Q, c) = {s}
  BY DEF Adds, Writers
<1>4. c # Out[s] => How(Q, c) = How(S, c)
  BY <1>1 DEF How
<1>5. c = Out[s] /\ Writers(S, c) = {} =>
        How(Q, c) = IF Type[s] = "normal" THEN "normal" ELSE "merge"
  BY <1>3 DEF How
<1> QED
  BY <1>1, <1>2, <1>3, <1>4, <1>5

\* The entry of another buffer does not change.
LEMMA OtherFits ==
  ASSUME NEW R, NEW S, NEW s, NEW Q, Adds(S, s, Q), NEW c, c # Out[s], NEW e
  PROVE  Fits(R, S, c, e) <=> Fits(R, Q, c, e)
<1>1. Writers(Q, c) = Writers(S, c) /\ How(Q, c) = How(S, c)
  BY WriterMore
<1>2. PICK b : b = e.back
  OBVIOUS
<1>3. Back(R, S, c, b) <=> Back(R, Q, c, b)
  BY <1>1 DEF Back
<1> QED
  BY <1>1, <1>2, <1>3 DEF Fits

\* s writes its output.
LEMMA ProduceTab ==
  ASSUME NEW gr, IsGraph(gr), NEW S, NEW s \in Stmt, NEW Q, Adds(S, s, Q),
         Tabled(gr.tab, Q, S), Writers(S, Out[s]) = {}, NEW h, h = Produce(gr, s)
  PROVE  /\ IsGraph(h) /\ Tabled(h.tab, Q, Q) /\ h.dummies = gr.dummies
         /\ h.map = gr.map /\ h.stmts = gr.stmts \cup {s}
         /\ InUse(Q, Q) = InUse(Q, S) \cup {Out[s]}
<1> DEFINE merge == Type[s] # "normal"
<1>1. PICK o : o = Out[s] /\ o \in Buffer
  BY LastRead
<1>2. PICK back : back = IF merge THEN s ELSE Branch(gr, Last(Ins[s]), o)
  OBVIOUS
<1>3. PICK entry :
        entry = IF o \notin DOMAIN gr.tab
                   THEN Entry(IF merge THEN "merge_sink" ELSE "sink", Nil, back, Nil)
                   ELSE [gr.tab[o] EXCEPT
                           !.type = (IF merge THEN Merged ELSE Fed)[@],
                           !.back = back]
  OBVIOUS
<1>4. h = [gr EXCEPT !.tab = [c \in DOMAIN @ \cup {o} |-> IF c = o THEN entry ELSE @[c]],
                    !.stmts = @ \cup {s}]
  BY <1>1, <1>2, <1>3, Zenon DEF Produce
<1>5. /\ IsGraph(h) /\ h.dummies = gr.dummies
      /\ h.map = gr.map /\ h.stmts = gr.stmts \cup {s}
      /\ h.tab = [c \in DOMAIN gr.tab \cup {o} |-> IF c = o THEN entry ELSE gr.tab[c]]
  BY ONLY <1>4, IsGraph(gr) DEF IsGraph
<1>6. IsFiniteSet(Q) /\ DOMAIN gr.tab = InUse(Q, S)
  BY OneMore DEF Tabled
<1>7. /\ Writers(S, o) = {} /\ Writers(Q, o) = {s}
      /\ How(Q, o) = IF merge THEN "merge" ELSE "normal"
      /\ How(S, o) = "source"
  BY <1>1, WriterMore DEF How
<1>8. InUse(Q, Q) = InUse(Q, S) \cup {o}
  <2>1. ASSUME NEW c, c # o PROVE Writers(Q, c) = Writers(S, c)
    BY <1>1, <2>1, WriterMore
  <2> QED
    BY <1>1, <1>7, <2>1 DEF InUse
<1>9. ASSUME NEW c \in InUse(Q, S), c # o PROVE Fits(Q, Q, c, h.tab[c])
  <2>1. PICK e : e = h.tab[c] /\ Fits(Q, S, c, e)
    BY <1>5, <1>6, <1>9 DEF Tabled
  <2> QED
    BY <1>1, <1>9, <2>1, OtherFits
<1>10. Back(Q, Q, o, back)
  <2>1. ASSUME Type[s] = "normal" PROVE back = Via(Q, Last(Ins[s]), o)
    <3>1. PICK i : i = Last(Ins[s])
      OBVIOUS
    <3>2. i \in Reads(s) /\ i \in Buffer
      BY <3>1, LastRead
    <3>3. Readers(Q, i) # {}
      BY <3>2 DEF Readers, Adds
    <3>4. i \in InUse(Q, S)
      BY <3>2, <3>3 DEF InUse
    <3>5. gr.tab[i].type \in Forks <=> Count(Q, i) > 1
      BY <1>6, <3>4, TypeIs
    <3> QED
      BY <1>2, <2>1, <3>1, <3>5 DEF Branch, Via
  <2> QED
    BY <1>7, <2>1 DEF Back
<1>11. CASE o \notin InUse(Q, S)
  <2>1. Readers(Q, o) = {}
    BY <1>1, <1>11 DEF InUse
  <2>2. Count(Q, o) = 0
    BY <1>6, <2>1, Counts
  <2>3. PICK t : t = IF merge THEN "merge_sink" ELSE "sink"
    OBVIOUS
  <2>4. t = TypeOf(How(Q, o), Count(Q, o))
    BY <1>7, <2>2, <2>3, Lookups DEF TypeOf
  <2>5. h.tab[o] = Entry(t, Nil, back, Nil)
    BY <1>3, <1>5, <1>6, <1>11, <2>3
  <2>6. Forth(Q, o, Nil, Nil)
    BY <2>1, <2>2 DEF Forth
  <2>7. Fits(Q, Q, o, h.tab[o])
    BY <1>10, <2>4, <2>5, <2>6, EntryHas DEF Fits
  <2> QED
    BY <1>1, <1>5, <1>6, <1>8, <1>9, <2>7 DEF Tabled
<1>12. CASE o \in InUse(Q, S)
  <2>1. PICK e : e = gr.tab[o] /\ Fits(Q, S, o, e)
    BY <1>12 DEF Tabled
  <2>2. PICK t, st, bk, fwd : /\ e = Entry(t, st, bk, fwd) /\ e.type = t
                              /\ t = TypeOf("source", Count(Q, o)) /\ Forth(Q, o, st, fwd)
    BY <1>7, <2>1 DEF Fits
  <2>3. PICK x : x = (IF merge THEN Merged ELSE Fed)[t]
    OBVIOUS
  <2>4. h.tab[o] = [e EXCEPT !.type = x, !.back = back]
    BY <1>3, <1>5, <1>6, <1>12, <2>1, <2>2, <2>3
  <2>5. h.tab[o] = Entry(x, st, back, fwd)
    BY ONLY <2>2, <2>4 DEF Entry
  <2>6. HasUse("source", Count(Q, o))
    BY <1>6, <1>7, <1>12, UsedHas
  <2>7. x = TypeOf(How(Q, o), Count(Q, o))
    BY <1>7, <2>2, <2>3, <2>6, Changes
  <2>8. Fits(Q, Q, o, h.tab[o])
    BY <1>10, <2>2, <2>5, <2>7, EntryHas DEF Fits
  <2> QED
    BY <1>1, <1>5, <1>6, <1>8, <1>9, <2>8 DEF Tabled
<1> QED
  BY <1>1, <1>5, <1>8, <1>11, <1>12

\* The statement in the entry of a fork stays when s writes its output.
LEMMA ProduceKeeps ==
  ASSUME NEW gr, IsGraph(gr), NEW s, NEW Q, NEW S, Tabled(gr.tab, Q, S),
         NEW h, h = Produce(gr, s)
  PROVE  \A b \in InUse(Q, S) : h.tab[b].stmt = gr.tab[b].stmt
  <1> SUFFICES ASSUME NEW b \in InUse(Q, S) PROVE h.tab[b].stmt = gr.tab[b].stmt
    OBVIOUS
  <1>1. PICK t, st, bk, fwd : gr.tab[b] = Entry(t, st, bk, fwd)
    BY DEF Tabled, Fits
  <1>2. DOMAIN gr.tab = InUse(Q, S)
    BY DEF Tabled
  <1> DEFINE o == Out[s]
             merge == Type[s] # "normal"
             back == IF merge THEN s ELSE Branch(gr, Last(Ins[s]), o)
             type == IF merge THEN Merged ELSE Fed
             entry == IF o \notin DOMAIN gr.tab
                        THEN Entry(IF merge THEN "merge_sink" ELSE "sink", Nil, back, Nil)
                        ELSE [gr.tab[o] EXCEPT !.type = type[@], !.back = back]
  <1>3. h = [gr EXCEPT !.tab = [c \in DOMAIN @ \cup {o} |-> IF c = o THEN entry ELSE @[c]],
                      !.stmts = @ \cup {s}]
    BY Zenon DEF Produce
  <1>4. h.tab[b] = IF b = o THEN entry ELSE gr.tab[b]
    <2> HIDE DEF entry, o
    <2> QED
      BY <1>2, <1>3 DEF IsGraph
  <1>5. b = o => entry = [gr.tab[b] EXCEPT !.type = type[@], !.back = back]
    BY <1>2
  <1>6. PICK x, y : b = o => entry = [gr.tab[b] EXCEPT !.type = x, !.back = y]
    <2>1. PICK x : x = type[gr.tab[b].type]
      OBVIOUS
    <2> HIDE DEF entry, back, type
    <2>2. b = o => entry = [gr.tab[b] EXCEPT !.type = x, !.back = back]
      BY <1>5, <2>1
    <2> QED
      BY <2>2
  <1> HIDE DEF entry, o
  <1>7. h.tab[b] = gr.tab[b] \/ h.tab[b] = [gr.tab[b] EXCEPT !.type = x, !.back = y]
    BY <1>4, <1>6
  <1> QED
    BY ONLY <1>1, <1>7 DEF Entry

\* The graph is the one its statements call for.
Right(gr) ==
    /\ IsGraph(gr) /\ Apt(gr.stmts)
    /\ Tabled(gr.tab, gr.stmts, gr.stmts)
    /\ Dummied(gr.dummies, gr.stmts)
    /\ gr.map = DOMAIN gr.tab

\* What is known of the inputs of a union or join when it is added: its sub
\* statements are there, and nobody else reads a window.
Ready(gr, s) ==
    /\ Type[s] = "union" => Reads(s) \subseteq DOMAIN gr.tab
    /\ Type[s] = "join" =>
         \A i \in 1 .. Len(Ins[s]) : i < Len(Ins[s]) =>
            Ins[s][i] \in DOMAIN gr.tab /\ Readers(gr.stmts, Ins[s][i]) \subseteq {s}

\* A call that gives up at the first input changes nothing.
LEMMA EnterNone ==
  ASSUME NEW gr, Right(gr), NEW s, NEW h, h = Enter(gr, s, {})
  PROVE  Right(h) /\ h.stmts = gr.stmts /\ Keeps(gr, h)
<1>1. IsGraph(gr)
  BY DEF Right
<1> DEFINE tab == [c \in DOMAIN gr.tab |-> gr.tab[c]]
           dummies == [d \in DOMAIN gr.dummies |-> gr.dummies[d]]
<1>2. h = [gr EXCEPT !.tab = tab, !.dummies = dummies]
  BY DEF Enter
<1> HIDE DEF tab, dummies
<1>3. /\ IsGraph(h) /\ h.stmts = gr.stmts /\ h.map = gr.map
      /\ h.tab = tab /\ h.dummies = dummies
  BY <1>1, <1>2 DEF IsGraph
<1>4. /\ DOMAIN tab = DOMAIN gr.tab /\ \A c \in DOMAIN gr.tab : tab[c] = gr.tab[c]
      /\ DOMAIN dummies = DOMAIN gr.dummies
      /\ \A d \in DOMAIN gr.dummies : dummies[d] = gr.dummies[d]
  BY DEF tab, dummies
<1>5. Tabled(h.tab, gr.stmts, gr.stmts)
  BY <1>3, <1>4 DEF Right, Tabled
<1>6. Dummied(h.dummies, gr.stmts)
  BY <1>3, <1>4 DEF Right, Dummied
<1>7. IsMap(h.dummies)
  BY <1>3 DEF dummies, IsMap
<1>8. Keeps(gr, h)
  BY <1>3, <1>4, <1>7 DEF Right, Tabled, Keeps
<1> QED
  BY <1>3, <1>4, <1>5, <1>6, <1>8 DEF Right

\* The statement is added.
LEMMA DriverAdds ==
  ASSUME NEW gr, Right(gr), NEW s \in Stmt, s \notin gr.stmts, Writers(gr.stmts, Out[s]) = {},
         NEW h, h = Produce(Enter(gr, s, Reads(s)), s)
  PROVE  /\ IsGraph(h) /\ h.stmts = gr.stmts \cup {s} /\ Apt(h.stmts)
         /\ Tabled(h.tab, h.stmts, h.stmts) /\ Dummied(h.dummies, h.stmts)
         /\ h.map = gr.map /\ Keeps(gr, h)
         /\ DOMAIN h.tab = DOMAIN gr.tab \cup Reads(s) \cup {Out[s]}
<1>1. PICK S : S = gr.stmts
  OBVIOUS
<1>2. /\ IsGraph(gr) /\ Apt(S) /\ Tabled(gr.tab, S, S) /\ Dummied(gr.dummies, S)
      /\ IsFiniteSet(S)
  BY <1>1 DEF Right, Apt
<1>3. PICK Q : Q = S \cup {s} /\ Adds(S, s, Q)
  BY <1>1, <1>2 DEF Adds
<1>4. PICK k : k = Enter(gr, s, Reads(s))
  OBVIOUS
<1>5. \A r \in S : Out[r] # Out[s]
  BY <1>1 DEF Writers
<1>6. IsGraph(k) /\ k.map = gr.map /\ k.stmts = S /\ DOMAIN k.tab = DOMAIN gr.tab \cup Reads(s)
  BY ONLY <1>1, <1>2, <1>4, s \in Stmt, EnterIs
<1>7. Tabled(k.tab, Q, S)
  BY <1>2, <1>3, <1>4, EnterTab
<1>8. Dummied(k.dummies, Q)
  BY <1>2, <1>3, <1>4, <1>5, EnterDummies
<1>9. h = Produce(k, s) /\ Writers(S, Out[s]) = {}
  BY <1>1, <1>4
<1>10. /\ IsGraph(h) /\ Tabled(h.tab, Q, Q) /\ h.dummies = k.dummies
       /\ h.map = k.map /\ h.stmts = k.stmts \cup {s}
       /\ InUse(Q, Q) = InUse(Q, S) \cup {Out[s]}
  <2>1. IsGraph(k) /\ s \in Stmt /\ Adds(S, s, Q) /\ Tabled(k.tab, Q, S)
        /\ Writers(S, Out[s]) = {} /\ h = Produce(k, s)
    BY <1>3, <1>6, <1>7, <1>9
  <2> QED
    BY ONLY <2>1, ProduceTab
<1>11. Apt(Q)
  BY <1>2, <1>3, <1>5, OneMore DEF Apt
<1>12. DOMAIN h.tab = DOMAIN k.tab \cup {Out[s]}
  BY <1>7, <1>10 DEF Tabled
<1>13. Keeps(gr, h)
  <2>1. /\ IsMap(k.dummies)
        /\ \A b \in InUse(S, S) : Count(S, b) > 1 => k.tab[b].stmt = gr.tab[b].stmt
    BY <1>1, <1>2, <1>3, <1>4, EnterKeeps
  <2>2. \A b \in InUse(Q, S) : h.tab[b].stmt = k.tab[b].stmt
    BY <1>6, <1>7, <1>9, ProduceKeeps
  <2>3. InUse(S, S) \subseteq InUse(Q, S)
    BY <1>3 DEF InUse, Readers, Adds
  <2> QED
    BY <1>1, <1>10, <2>1, <2>2, <2>3 DEF Keeps
<1> QED
  BY <1>1, <1>3, <1>6, <1>8, <1>10, <1>11, <1>12, <1>13

\* The inputs before the one at which addStmt gives up.
LEMMA InputPrefixes ==
  ASSUME NEW s \in Stmt
  PROVE  /\ ToSet(SubSeq(Ins[s], 1, Len(Ins[s]))) = Reads(s)
         /\ ToSet(SubSeq(Ins[s], 1, 0)) = {}
         /\ Len(Ins[s]) \in Nat /\ Len(Ins[s]) > 0
<1>1. Ins[s] \in Seq(Buffer) /\ Ins[s] # << >>
  BY GraphAssumption
<1>2. SubSeq(Ins[s], 1, Len(Ins[s])) = Ins[s]
  BY <1>1
<1>3. SubSeq(Ins[s], 1, 0) = << >>
  BY <1>1
<1>4. ToSet(<< >>) = {}
  BY DEF ToSet
<1>5. Len(Ins[s]) \in Nat /\ Len(Ins[s]) > 0
  BY <1>1
<1> QED
  BY ONLY <1>2, <1>3, <1>4, <1>5 DEF Reads

\* AddStmt, with the result of Driver::addStmt named.
LEMMA AddStmtIs ==
  ASSUME NEW gr, NEW s, s \notin gr.stmts, NEW valid, NEW d, d = DriverAdd(gr, s, valid)
  PROVE  AddStmt(gr, s, valid) =
           IF MapIns(s) \cap gr.map = {} /\ Out[s] \in gr.map /\ Occupied(gr, s)
             THEN [ok |-> FALSE, g |-> gr]
           ELSE IF d.ok THEN [d EXCEPT !.g.map = @ \cup MapIns(s) \cup {Out[s]}]
           ELSE d
  BY Zenon DEF AddStmt

\* addStmt keeps the graph right, whether it succeeds or not.
LEMMA AddRight ==
  ASSUME NEW gr, Right(gr), NEW s \in Stmt, Ready(gr, s), NEW valid,
         NEW r, r = AddStmt(gr, s, valid)
  PROVE  /\ Right(r.g) /\ r.ok \in BOOLEAN /\ Keeps(gr, r.g)
         /\ r.ok => r.g.stmts = gr.stmts \cup {s} /\ (valid \/ s \in gr.stmts)
         /\ ~ r.ok => r.g.stmts = gr.stmts
<1> DEFINE at == GivesUp(gr, s)
           n == IF at = {} THEN Len(Ins[s]) ELSE (CHOOSE i \in at : \A j \in at : i <= j) - 1
           in == Enter(gr, s, ToSet(SubSeq(Ins[s], 1, n)))
           d == DriverAdd(gr, s, valid)
<1>1. CASE s \in gr.stmts
  BY <1>1, KeepsSame DEF AddStmt
<1>2. CASE s \notin gr.stmts /\ MapIns(s) \cap gr.map = {} /\ Out[s] \in gr.map /\ Occupied(gr, s)
  BY <1>2, KeepsSame DEF AddStmt
<1>3. CASE s \notin gr.stmts /\ ~ valid
  <2>1. d = [ok |-> FALSE, g |-> gr]
    BY <1>3 DEF DriverAdd
  <2> HIDE DEF d
  <2>2. r = [ok |-> FALSE, g |-> gr]
    <3>1. AddStmt(gr, s, valid) =
           IF MapIns(s) \cap gr.map = {} /\ Out[s] \in gr.map /\ Occupied(gr, s)
             THEN [ok |-> FALSE, g |-> gr]
           ELSE IF d.ok THEN [d EXCEPT !.g.map = @ \cup MapIns(s) \cup {Out[s]}]
           ELSE d
      BY <1>3, AddStmtIs DEF d
    <3>2. ~ d.ok
      BY <2>1
    <3> QED
      BY <2>1, <3>1, <3>2
  <2> QED
    BY <2>2, KeepsSame
<1>4. CASE /\ s \notin gr.stmts /\ valid /\ Occupied(gr, s)
           /\ ~ (MapIns(s) \cap gr.map = {} /\ Out[s] \in gr.map)
  <2>1. gr.map = DOMAIN gr.tab /\ Out[s] \in gr.map
    BY <1>4 DEF Right, Occupied
  <2>2. PICK b : b \in MapIns(s) /\ b \in DOMAIN gr.tab
    BY <1>4, <2>1
  <2>3. Ins[s][1] \in DOMAIN gr.tab
    <3>1. Ins[s] \in Seq(Buffer) /\ Len(Ins[s]) \in Nat /\ Len(Ins[s]) > 0
      BY InputPrefixes, GraphAssumption
    <3>2. Ins[s][1] \in Reads(s)
      BY <3>1 DEF Reads, ToSet
    <3>3. CASE Type[s] = "union"
      BY <3>2, <3>3 DEF Ready
    <3>4. CASE Type[s] = "normal"
      BY <2>2, <3>2, <3>4, LastRead DEF MapIns
    <3>5. CASE Type[s] = "join" /\ Len(Ins[s]) > 1
      BY <3>1, <3>5 DEF Ready
    <3>6. CASE Type[s] = "join" /\ ~ (Len(Ins[s]) > 1)
      <4>1. Len(Ins[s]) = 1
        <5>1. \A l \in Nat : l > 0 /\ ~ (l > 1) => l = 1
          OBVIOUS
        <5> QED
          BY ONLY <3>1, <3>6, <5>1
      <4> QED
        BY <2>2, <3>6, <4>1 DEF MapIns, Last
    <3> QED
      BY <3>3, <3>4, <3>5, <3>6, GraphAssumption
  <2>4. 1 \in at /\ at \subseteq Nat \ {0}
    BY <1>4, <2>3, InputPrefixes DEF GivesUp
  <2>5. (CHOOSE i \in at : \A j \in at : i <= j) = 1
    BY <2>4
  <2>6. n = 0
    BY <2>4, <2>5
  <2>7. in = Enter(gr, s, {})
    BY <2>6, InputPrefixes
  <2>8. d = [ok |-> FALSE, g |-> in]
    BY <1>4, <2>4 DEF DriverAdd
  <2> HIDE DEF d, in
  <2>9. r = [ok |-> FALSE, g |-> in]
    <3>1. AddStmt(gr, s, valid) =
           IF MapIns(s) \cap gr.map = {} /\ Out[s] \in gr.map /\ Occupied(gr, s)
             THEN [ok |-> FALSE, g |-> gr]
           ELSE IF d.ok THEN [d EXCEPT !.g.map = @ \cup MapIns(s) \cup {Out[s]}]
           ELSE d
      BY <1>4, AddStmtIs DEF d
    <3>2. ~ d.ok
      BY <2>8
    <3> QED
      BY <1>4, <2>8, <3>1, <3>2
  <2>10. Right(in) /\ in.stmts = gr.stmts /\ Keeps(gr, in)
    BY <2>7, EnterNone
  <2> QED
    BY <2>9, <2>10
<1>5. CASE s \notin gr.stmts /\ valid /\ ~ Occupied(gr, s)
  <2>1. at = {}
    <3> SUFFICES ASSUME NEW i \in at PROVE FALSE
      OBVIOUS
    <3>1. /\ i \in 1 .. Len(Ins[s]) /\ i < Len(Ins[s]) /\ Type[s] = "join"
          /\ Ins[s][i] \in DOMAIN gr.tab /\ gr.tab[Ins[s][i]].type \in DOMAIN Forked
      BY <1>5 DEF GivesUp
    <3>2. PICK b : b = Ins[s][i]
      OBVIOUS
    <3>3. Readers(gr.stmts, b) = {}
      BY <1>5, <3>1, <3>2 DEF Ready, Readers
    <3>4. Count(gr.stmts, b) = 1 /\ IsFiniteSet(gr.stmts)
      <4>1. b \in InUse(gr.stmts, gr.stmts) /\ IsFiniteSet(gr.stmts)
        BY <3>1, <3>2 DEF Right, Tabled, Apt
      <4> QED
        BY <3>1, <3>2, <4>1, TypeIs DEF Right
    <3> QED
      BY <3>3, <3>4, Counts
  <2>2. in = Enter(gr, s, Reads(s))
    BY <2>1, InputPrefixes
  <2>3. d = [ok |-> TRUE, g |-> Produce(in, s)]
    BY <1>5, <2>1 DEF DriverAdd
  <2>4. Writers(gr.stmts, Out[s]) = {}
    <3>1. /\ DOMAIN gr.tab = InUse(gr.stmts, gr.stmts) /\ IsFiniteSet(gr.stmts)
          /\ Tabled(gr.tab, gr.stmts, gr.stmts)
      BY DEF Right, Tabled, Apt
    <3>2. CASE Out[s] \notin DOMAIN gr.tab
      BY <3>1, <3>2, LastRead DEF InUse
    <3>3. CASE Out[s] \in DOMAIN gr.tab
      <4>1. gr.tab[Out[s]].type \in Sources
        BY <1>5, <3>3 DEF Occupied
      <4> QED
        BY <3>1, <3>3, <4>1, TypeIs
    <3> QED
      BY <3>2, <3>3
  <2> HIDE DEF d, in
  <2>5. PICK h : h = Produce(in, s)
    OBVIOUS
  <2>6. /\ IsGraph(h) /\ h.stmts = gr.stmts \cup {s} /\ Apt(h.stmts)
        /\ Tabled(h.tab, h.stmts, h.stmts) /\ Dummied(h.dummies, h.stmts)
        /\ h.map = gr.map /\ Keeps(gr, h)
        /\ DOMAIN h.tab = DOMAIN gr.tab \cup Reads(s) \cup {Out[s]}
    BY <1>5, <2>2, <2>4, <2>5, DriverAdds
  <2>7. PICK m : m = h.map \cup MapIns(s) \cup {Out[s]}
    OBVIOUS
  <2>8. r = [ok |-> TRUE, g |-> [h EXCEPT !.map = m]]
    <3>1. d = [ok |-> TRUE, g |-> h]
      BY <2>3, <2>5
    <3>2. r = [d EXCEPT !.g.map = @ \cup MapIns(s) \cup {Out[s]}]
      <4>1. AddStmt(gr, s, valid) =
           IF MapIns(s) \cap gr.map = {} /\ Out[s] \in gr.map /\ Occupied(gr, s)
             THEN [ok |-> FALSE, g |-> gr]
           ELSE IF d.ok THEN [d EXCEPT !.g.map = @ \cup MapIns(s) \cup {Out[s]}]
           ELSE d
        BY <1>5, AddStmtIs DEF d
      <4>2. d.ok
        BY <3>1
      <4> QED
        BY <1>5, <4>1, <4>2
    <3> QED
      BY <2>7, <3>1, <3>2
  <2>9. m = DOMAIN h.tab
    <3>1. Reads(s) \subseteq DOMAIN gr.tab \cup MapIns(s) /\ MapIns(s) \subseteq Reads(s)
      <4>1. CASE Type[s] # "join"
        BY <4>1 DEF MapIns
      <4>2. CASE Type[s] = "join"
        <5>1. Ins[s] \in Seq(Buffer) /\ Len(Ins[s]) \in Nat /\ Len(Ins[s]) > 0
          BY InputPrefixes, GraphAssumption
        <5>2. MapIns(s) = {Ins[s][Len(Ins[s])]}
          BY <4>2 DEF MapIns, Last
        <5>3. \A i \in 1 .. Len(Ins[s]) : i < Len(Ins[s]) => Ins[s][i] \in DOMAIN gr.tab
          BY <4>2 DEF Ready
        <5>4. Reads(s) = {Ins[s][i] : i \in 1 .. Len(Ins[s])}
          BY <5>1 DEF Reads, ToSet
        <5> QED
          BY <5>1, <5>2, <5>3, <5>4
      <4> QED
        BY <4>1, <4>2
    <3> QED
      BY <2>6, <2>7, <3>1 DEF Right
  <2>10. PICK k : k = [h EXCEPT !.map = m]
    OBVIOUS
  <2>11. /\ IsGraph(k) /\ k.stmts = h.stmts /\ k.tab = h.tab /\ k.dummies = h.dummies
         /\ k.map = m
    BY <2>6, <2>10 DEF IsGraph
  <2>12. Right(k)
    BY <2>6, <2>9, <2>11 DEF Right
  <2>13. r = [ok |-> TRUE, g |-> k]
    BY <2>8, <2>10
  <2>14. k.stmts = gr.stmts \cup {s} /\ valid
    BY <1>5, <2>6, <2>11
  <2>15. Keeps(gr, k)
    BY <2>6, <2>11 DEF Keeps
  <2> QED
    BY ONLY <2>12, <2>13, <2>14, <2>15
<1>6. valid \/ ~ valid
  OBVIOUS
<1> HIDE DEF at, n, in, d
<1> QED
  BY <1>1, <1>2, <1>3, <1>4, <1>5

-----------------------------------------------------------------------------
(* Driver::dropStmt                                                         *)

\* The forks that s reads, those it leaves with one reader, and the sources
\* that disappear with it.
Shared(gr, s) == {b \in Reads(s) : gr.tab[b].type \in Forks}
Joined(gr, s) == {b \in Shared(gr, s) : gr.tab[b].fwd = 2}
Gone(gr, s) == {b \in Reads(s) : gr.tab[b].type = "source"}

\* Those whose last reader writes into c.
Rejoins(gr, s, c) == {b \in Joined(gr, s) : Rest(gr, s, b)[2] = c}

\* The entry e of b as s has left it, but for its way back.
Alone(gr, s, b, e) ==
    [e EXCEPT !.type = Unforked[@], !.stmt = gr.dummies[Rest(gr, s, b)],
              !.fwd = Rest(gr, s, b)[2]]
Fewer(e) == [e EXCEPT !.fwd = @ - 1]
Remains(gr, s, b) ==
    LET e == gr.tab[b] IN
    CASE b \in Joined(gr, s) -> Alone(gr, s, b, e)
      [] b \in Shared(gr, s) \ Joined(gr, s) -> Fewer(e)
      [] e.type \in DOMAIN Ended ->
           [e EXCEPT !.type = Ended[@], !.stmt = Nil, !.fwd = Nil]
      [] OTHER -> e

TabLeft(gr, s) ==
    [c \in DOMAIN gr.tab \ Gone(gr, s) |->
       IF Rejoins(gr, s, c) = {} THEN IF c \in Reads(s) THEN Remains(gr, s, c) ELSE gr.tab[c]
       ELSE [IF c \in Reads(s) THEN Remains(gr, s, c) ELSE gr.tab[c]
               EXCEPT !.back = CHOOSE b \in Rejoins(gr, s, c) : TRUE]]

\* What Leave makes of the table, the dummies and the map.
LEMMA LeaveIs ==
  ASSUME NEW gr, IsGraph(gr), NEW s, NEW h, h = Leave(gr, s)
  PROVE  /\ IsGraph(h) /\ h.map = gr.map \ Gone(gr, s) /\ h.stmts = gr.stmts
         /\ h.tab = TabLeft(gr, s) /\ DOMAIN h.tab = DOMAIN gr.tab \ Gone(gr, s)
         /\ DOMAIN h.dummies = DOMAIN gr.dummies
              \ ({<<b, Out[s]>> : b \in Shared(gr, s)} \cup {Rest(gr, s, b) : b \in Joined(gr, s)})
         /\ \A d \in DOMAIN h.dummies : h.dummies[d] = gr.dummies[d]
<1> DEFINE left == {<<b, Out[s]>> : b \in Shared(gr, s)} \cup {Rest(gr, s, b) : b \in Joined(gr, s)}
           dummies == [d \in DOMAIN gr.dummies \ left |-> gr.dummies[d]]
           tab == TabLeft(gr, s)
           map == gr.map \ Gone(gr, s)
<1>1. h = [gr EXCEPT !.tab = tab, !.dummies = dummies, !.map = map]
  BY Zenon DEF Leave, TabLeft, Shared, Joined, Gone, Rejoins, Remains, Alone, Fewer
<1>2. DOMAIN tab = DOMAIN gr.tab \ Gone(gr, s)
  BY DEF TabLeft
<1>3. DOMAIN dummies = DOMAIN gr.dummies \ left /\ \A d \in DOMAIN dummies : dummies[d] = gr.dummies[d]
  OBVIOUS
<1> HIDE DEF tab, dummies, map
<1>4. IsGraph(h) /\ h.map = map /\ h.stmts = gr.stmts /\ h.tab = tab /\ h.dummies = dummies
  BY <1>1 DEF IsGraph
<1>5. map = gr.map \ Gone(gr, s) /\ tab = TabLeft(gr, s)
  BY DEF map, tab
<1> HIDE DEF left
<1>6. DOMAIN h.dummies = DOMAIN gr.dummies \ left /\ \A d \in DOMAIN h.dummies : h.dummies[d] = gr.dummies[d]
  BY <1>3, <1>4
<1> QED
  BY <1>2, <1>4, <1>5, <1>6 DEF left

\* What is known of a graph that s leaves to the statements P.
Quits(gr, s, P) == Right(gr) /\ s \in gr.stmts /\ Adds(P, s, gr.stmts)

\* What is known of the statements that stay.
LEMMA QuitsHas ==
  ASSUME NEW gr, NEW s, NEW P, Quits(gr, s, P)
  PROVE  /\ Apt(gr.stmts) /\ IsFiniteSet(gr.stmts) /\ IsFiniteSet(P) /\ Apt(P)
         /\ s \in gr.stmts /\ s \notin P /\ s \in Stmt /\ P \subseteq gr.stmts
         /\ \A r \in P : Out[r] # Out[s] /\ r \in Stmt
         /\ Tabled(gr.tab, gr.stmts, gr.stmts) /\ Dummied(gr.dummies, gr.stmts)
         /\ DOMAIN gr.tab = InUse(gr.stmts, gr.stmts) /\ gr.map = DOMAIN gr.tab /\ IsGraph(gr)
<1>1. /\ Apt(gr.stmts) /\ Adds(P, s, gr.stmts) /\ s \in gr.stmts
      /\ Tabled(gr.tab, gr.stmts, gr.stmts) /\ Dummied(gr.dummies, gr.stmts)
      /\ gr.map = DOMAIN gr.tab /\ IsGraph(gr)
  BY DEF Quits, Right
<1>2. s \notin P /\ P \subseteq gr.stmts /\ IsFiniteSet(P)
  BY <1>1 DEF Adds
<1> QED
  BY <1>1, <1>2 DEF Apt, Tabled

\* The counts, in the terms of the code.
LEMMA LeaveCounts ==
  ASSUME NEW gr, NEW s, NEW P, Quits(gr, s, P), NEW b \in Reads(s)
  PROVE  /\ b \in InUse(gr.stmts, gr.stmts) /\ b \in DOMAIN gr.tab
         /\ Count(gr.stmts, b) \in Nat /\ Count(P, b) \in Nat
         /\ Count(gr.stmts, b) = Count(P, b) + 1
         /\ b \in Shared(gr, s) <=> Count(gr.stmts, b) > 1
         /\ b \in Joined(gr, s) <=> Count(gr.stmts, b) = 2
         /\ b \in Gone(gr, s) <=> Readers(P, b) = {} /\ Writers(gr.stmts, b) = {}
<1>1. PICK S : S = gr.stmts
  OBVIOUS
<1>2. Adds(P, s, S) /\ s \in S /\ IsFiniteSet(S) /\ IsFiniteSet(P)
      /\ Tabled(gr.tab, S, S) /\ DOMAIN gr.tab = InUse(S, S) /\ s \in Stmt
  BY <1>1, QuitsHas DEF Quits
<1>3. b \in InUse(S, S)
  BY <1>2, LastRead DEF InUse, Readers
<1>4. Count(S, b) = Count(P, b) + 1 /\ Count(P, b) \in Nat
  BY <1>2, OneMore
<1>5. Count(S, b) \in Nat
  BY <1>4
<1>6. /\ gr.tab[b].type \in Forks <=> Count(S, b) > 1
      /\ gr.tab[b].type = "source" <=> Writers(S, b) = {} /\ Count(S, b) = 1
  BY <1>2, <1>3, TypeIs
<1>7. b \in Shared(gr, s) <=> Count(S, b) > 1
  BY <1>6 DEF Shared
<1>8. b \in Joined(gr, s) <=> Count(S, b) = 2
  <2>1. Count(S, b) > 1 => gr.tab[b].fwd = Count(S, b)
    BY <1>2, <1>3 DEF Tabled, Fits, Forth
  <2>2. Count(S, b) = 2 => Count(S, b) > 1
    OBVIOUS
  <2> QED
    BY <1>7, <2>1, <2>2 DEF Joined
<1>9. Count(P, b) = 0 <=> Readers(P, b) = {}
  BY <1>2, Counts
<1>10. Count(S, b) = 1 <=> Count(P, b) = 0
  BY <1>4
<1>11. b \in Gone(gr, s) <=> Readers(P, b) = {} /\ Writers(S, b) = {}
  BY <1>6, <1>9, <1>10 DEF Gone
<1> QED
  BY ONLY <1>1, <1>2, <1>3, <1>4, <1>5, <1>7, <1>8, <1>11

\* The branch that remains.
LEMMA RestIs ==
  ASSUME NEW gr, NEW s, NEW P, Quits(gr, s, P), NEW b \in Joined(gr, s)
  PROVE  \E r \in P : /\ Readers(P, b) = {r} /\ Rest(gr, s, b) = <<b, Out[r]>>
                      /\ Rest(gr, s, b) \in DOMAIN gr.dummies
                      /\ gr.dummies[Rest(gr, s, b)] = r
<1>1. PICK S : S = gr.stmts
  OBVIOUS
<1>2. /\ Adds(P, s, S) /\ s \in S /\ IsFiniteSet(S) /\ IsFiniteSet(P)
      /\ s \notin P /\ P \subseteq S /\ \A r \in P : Out[r] # Out[s]
      /\ Dummied(gr.dummies, S)
  BY <1>1, QuitsHas DEF Quits
<1>3. b \in Reads(s)
  BY DEF Joined, Shared
<1>4. Count(S, b) = 2 /\ Count(S, b) = Count(P, b) + 1 /\ Count(P, b) \in Nat
  BY <1>1, <1>3, LeaveCounts
<1>5. Count(P, b) = 1 /\ Count(S, b) > 1
  BY <1>4
<1>6. PICK r : Readers(P, b) = {r}
  BY <1>2, <1>5, Counts
<1>7. r \in P /\ b \in Reads(r)
  BY <1>6 DEF Readers
<1>8. Readers(S, b) = {r, s}
  <2>1. Readers(S, b) = Readers(P, b) \cup {s}
    BY <1>2, <1>3, OneMore
  <2> QED
    BY <1>6, <2>1
<1>9. PICK x : x = <<b, Out[r]>>
  OBVIOUS
<1>10. x \in DOMAIN gr.dummies /\ gr.dummies[x] = r
  BY <1>2, <1>5, <1>7, <1>9 DEF Dummied
<1>11. x[1] = b /\ x[2] # Out[s]
  BY <1>2, <1>7, <1>9
<1>12. ASSUME NEW d \in DOMAIN gr.dummies, d[1] = b, d[2] # Out[s] PROVE d = x
  <2>1. PICK q \in S : \E c \in Reads(q) : d = <<c, Out[q]>>
    BY <1>2 DEF Dummied
  <2>2. PICK c \in Reads(q) : d = <<c, Out[q]>>
    BY <2>1
  <2>3. c = b /\ q # s
    BY <1>12, <2>2
  <2>4. q \in Readers(S, b)
    BY <2>3 DEF Readers
  <2> QED
    BY <1>8, <1>9, <2>2, <2>3, <2>4
<1>13. Rest(gr, s, b) = x
  BY <1>10, <1>11, <1>12 DEF Rest
<1> QED
  BY <1>6, <1>7, <1>9, <1>10, <1>13

\* An input that stays is read by one statement less.
LEMMA RemainsFits ==
  ASSUME NEW gr, NEW s, NEW P, Quits(gr, s, P), NEW S, S = gr.stmts,
         NEW b \in Reads(s), b \notin Gone(gr, s), NEW h, h = Remains(gr, s, b)
  PROVE  /\ h = Entry(h.type, h.stmt, h.back, h.fwd)
         /\ h.type = TypeOf(How(S, b), Count(P, b))
         /\ Forth(P, b, h.stmt, h.fwd)
         /\ Back(S, S, b, h.back)
<1>1. /\ IsFiniteSet(S) /\ IsFiniteSet(P) /\ Tabled(gr.tab, S, S) /\ b \in InUse(S, S)
      /\ Count(S, b) = Count(P, b) + 1 /\ Count(P, b) \in Nat /\ Count(S, b) \in Nat
      /\ b \in Shared(gr, s) <=> Count(S, b) > 1
      /\ b \in Joined(gr, s) <=> Count(S, b) = 2
      /\ P \subseteq S
  BY QuitsHas, LeaveCounts
<1>2. PICK n, how : n = Count(S, b) /\ how = How(S, b)
  OBVIOUS
<1>3. HasUse(how, n) /\ n \in Nat /\ n > 0
  BY <1>1, <1>2, UsedHas
<1>4. PICK e, t, st, back, fwd :
         /\ e = gr.tab[b] /\ e = Entry(t, st, back, fwd) /\ e.type = t /\ e.fwd = fwd
         /\ t = TypeOf(how, n) /\ Forth(S, b, st, fwd) /\ Back(S, S, b, back)
  BY <1>1, <1>2, EntryHas DEF Tabled, Fits
<1>9. b \in Shared(gr, s) => gr.tab[b].type \notin DOMAIN Ended
  BY Domains DEF Shared, Forks
<1>5. CASE n = 2
  <2>1. b \in Joined(gr, s) /\ b \in Shared(gr, s)
    BY <1>1, <1>2, <1>5 DEF Joined
  <2>2. PICK d, x, q, f : /\ d = Rest(gr, s, b) /\ x = Unforked[t] /\ q = gr.dummies[d] /\ f = d[2]
    OBVIOUS
  <2>3. h = [e EXCEPT !.type = x, !.stmt = q, !.fwd = f]
    <3>1. h = Alone(gr, s, b, gr.tab[b])
      BY <1>9, <2>1 DEF Remains
    <3>2. h = Alone(gr, s, b, e)
      BY <1>4, <3>1
    <3>3. h = [e EXCEPT !.type = Unforked[e.type], !.stmt = q, !.fwd = f]
      BY <2>2, <3>2 DEF Alone
    <3> QED
      BY <1>4, <2>2, <3>3
  <2>4. h = Entry(x, q, back, f)
    <3>1. e = Entry(t, st, back, fwd)
      BY <1>4
    <3> QED
      BY ONLY <2>3, <3>1 DEF Entry
  <2>5. PICK r \in P : Readers(P, b) = {r} /\ d = <<b, Out[r]>> /\ q = r
    BY <2>1, <2>2, RestIs
  <2>6. f = Out[r]
    BY <2>2, <2>5
  <2>7. Count(P, b) = 1
    BY <1>1, <1>2, <1>5
  <2>8. Forth(P, b, q, f)
    BY <2>5, <2>6, <2>7 DEF Forth
  <2>9. x = TypeOf(how, 1)
    BY <1>3, <1>4, <1>5, <2>2, Changes
  <2> QED
    BY <1>2, <1>4, <2>4, <2>7, <2>8, <2>9, EntryHas
<1>6. CASE n > 2
  <2>1. b \in Shared(gr, s) \ Joined(gr, s)
    BY <1>1, <1>2, <1>6
  <2>2. PICK f : f = fwd - 1
    OBVIOUS
  <2>3. h = [e EXCEPT !.fwd = f]
    <3>1. h = Fewer(gr.tab[b])
      BY <1>9, <2>1 DEF Remains
    <3> QED
      BY <1>4, <2>2, <3>1 DEF Fewer
  <2>4. h = Entry(t, st, back, f)
    <3>1. e = Entry(t, st, back, fwd)
      BY <1>4
    <3> QED
      BY ONLY <2>3, <3>1 DEF Entry
  <2>5. f = Count(P, b) /\ Count(P, b) > 1
    BY <1>1, <1>2, <1>4, <1>6, <2>2 DEF Forth
  <2>6. Readers(P, b) # {} /\ \A r : Readers(P, b) # {r}
    <3>1. /\ Count(P, b) = 0 <=> Readers(P, b) = {}
          /\ Count(P, b) = 1 <=> \E r : Readers(P, b) = {r}
      BY <1>1, Counts
    <3>2. Count(P, b) # 0 /\ Count(P, b) # 1
      BY <2>5
    <3> QED
      BY ONLY <3>1, <3>2
  <2>7. Forth(P, b, st, f)
    BY ONLY <2>5, <2>6, Zenon DEF Forth
  <2>8. t = TypeOf(how, Count(P, b))
    <3>1. TypeOf(how, n - 1) = TypeOf(how, n) /\ n - 1 = Count(P, b)
      BY <1>1, <1>2, <1>3, <1>6, Changes
    <3> QED
      BY <1>4, <3>1
  <2> QED
    BY <1>2, <1>4, <2>4, <2>7, <2>8, EntryHas
<1>7. CASE n = 1
  <2>1. b \notin Shared(gr, s) /\ b \notin Joined(gr, s)
    BY <1>1, <1>2, <1>7
  <2>2. t \in DOMAIN Ended
    <3>1. t = how /\ how \in Hows
      BY <1>3, <1>4, <1>7, Types DEF HasUse
    <3>2. t # "source"
      BY <1>4 DEF Gone
    <3> QED
      BY <3>1, <3>2, Domains DEF Hows
  <2>3. PICK x : x = Ended[t]
    OBVIOUS
  <2>4. h = [e EXCEPT !.type = x, !.stmt = Nil, !.fwd = Nil]
    BY <1>4, <2>1, <2>2, <2>3 DEF Remains
  <2>5. h = Entry(x, Nil, back, Nil)
    <3>1. e = Entry(t, st, back, fwd)
      BY <1>4
    <3> QED
      BY ONLY <2>4, <3>1 DEF Entry
  <2>6. Count(P, b) = 0 /\ Readers(P, b) = {}
    BY <1>1, <1>2, <1>7, Counts
  <2>7. Forth(P, b, Nil, Nil)
    BY <2>6 DEF Forth
  <2>8. x = TypeOf(how, 0)
    BY <1>3, <1>4, <1>7, <2>3, Changes
  <2> QED
    BY <1>2, <1>4, <2>5, <2>6, <2>7, <2>8, EntryHas
<1>8. n = 2 \/ n > 2 \/ n = 1
  BY <1>3
<1> QED
  BY <1>5, <1>6, <1>7, <1>8

\* Who writes into c, no merge buffer and not what s writes, is reached through
\* another branch only if its input is joined.
LEMMA BackLeft ==
  ASSUME NEW gr, NEW s, NEW P, Quits(gr, s, P), NEW S, S = gr.stmts,
         NEW c, NEW back, Back(S, S, c, back)
  PROVE  /\ Rejoins(gr, s, c) = {} /\ c # Out[s] => Back(P, S, c, back)
         /\ \A b \in Rejoins(gr, s, c) : Back(P, S, c, b)
<1>1. /\ IsFiniteSet(S) /\ IsFiniteSet(P) /\ P \subseteq S /\ s \in S /\ Adds(P, s, S)
      /\ Apt(S) /\ S \subseteq Stmt
  <2>1. /\ IsFiniteSet(S) /\ IsFiniteSet(P) /\ P \subseteq S /\ s \in S /\ Adds(P, s, S)
        /\ Apt(S)
    BY QuitsHas DEF Quits
  <2> QED
    BY <2>1 DEF Apt
<1>2. \A i : /\ i \in Reads(s) => Count(S, i) = Count(P, i) + 1
             /\ i \notin Reads(s) => Count(S, i) = Count(P, i)
             /\ Count(P, i) \in Nat
  <2> TAKE i
  <2> QED
    BY <1>1, OneMore
<1>3. ASSUME Rejoins(gr, s, c) = {}, c # Out[s] PROVE Back(P, S, c, back)
  <2>1. ASSUME NEW w \in Writers(S, c), Type[w] = "normal"
        PROVE  back = Via(P, Last(Ins[w]), c)
    <3>1. /\ w \in S /\ w \in Stmt /\ Out[w] = c /\ w # s
          /\ back = Via(S, Last(Ins[w]), c)
      BY <1>1, <1>3, <2>1 DEF Writers, Back
    <3>2. PICK i : i = Last(Ins[w])
      OBVIOUS
    <3>3. w \in P
      BY <1>1, <3>1 DEF Adds
    <3>4. w \in Readers(P, i) /\ i \in Reads(w)
      BY <3>1, <3>2, <3>3, LastRead DEF Readers
    <3>5. Count(P, i) # 0
      BY <1>1, <3>4, Counts
    <3>6. ~ (i \in Reads(s) /\ Count(S, i) = 2)
      <4> SUFFICES ASSUME i \in Reads(s), Count(S, i) = 2 PROVE FALSE
        OBVIOUS
      <4>1. i \in Joined(gr, s)
        BY LeaveCounts
      <4>2. PICK r \in P : Readers(P, i) = {r} /\ Rest(gr, s, i) = <<i, Out[r]>>
        BY <4>1, RestIs
      <4>3. r = w
        BY <3>4, <4>2
      <4>4. i \in Rejoins(gr, s, c)
        BY <3>1, <4>1, <4>2, <4>3 DEF Rejoins
      <4> QED
        BY <1>3, <4>4
    <3>7. Count(S, i) > 1 <=> Count(P, i) > 1
      <4>1. PICK m, n : m = Count(S, i) /\ n = Count(P, i)
        OBVIOUS
      <4>2. n \in Nat /\ n # 0 /\ (m = n \/ (m = n + 1 /\ m # 2))
        BY <1>2, <3>5, <3>6, <4>1
      <4>3. m > 1 <=> n > 1
        BY ONLY <4>2
      <4> QED
        BY <4>1, <4>3
    <3> QED
      BY <3>1, <3>2, <3>7 DEF Via
  <2>2. Writers(S, c) = {} => back = Nil
    BY DEF Back
  <2> QED
    BY <2>1, <2>2 DEF Back
<1>4. ASSUME NEW b \in Rejoins(gr, s, c) PROVE Back(P, S, c, b)
  <2>1. b \in Joined(gr, s) /\ Rest(gr, s, b)[2] = c
    BY <1>4 DEF Rejoins
  <2>2. PICK r \in P : Readers(P, b) = {r} /\ Rest(gr, s, b) = <<b, Out[r]>>
    BY <2>1, RestIs
  <2>3. Out[r] = c /\ r \in S /\ r \in Stmt /\ b \in Reads(r)
    BY <1>1, <2>1, <2>2 DEF Readers
  <2>4. Writers(S, c) = {r}
    BY <1>1, <2>3, Author
  <2>5. Count(P, b) = 1
    BY <1>1, <2>2, Counts
  <2>6. Type[r] = "normal" => Last(Ins[r]) = b
    BY <2>3, LastRead
  <2>7. Type[r] = "normal" => b = Via(P, Last(Ins[r]), c)
    BY <2>5, <2>6 DEF Via
  <2> QED
    BY <2>4, <2>7 DEF Back
<1> QED
  BY <1>3, <1>4

\* The buffers left, but for what s writes.
LEMMA LeftInUse ==
  ASSUME NEW gr, NEW s, NEW P, Quits(gr, s, P), NEW S, S = gr.stmts
  PROVE  /\ InUse(P, P) = IF Readers(S, Out[s]) = {}
                            THEN (InUse(S, S) \ Gone(gr, s)) \ {Out[s]}
                            ELSE InUse(S, S) \ Gone(gr, s)
         /\ Out[s] \in InUse(S, S) \ Gone(gr, s)
         /\ Readers(P, Out[s]) = Readers(S, Out[s]) /\ Count(P, Out[s]) = Count(S, Out[s])
         /\ Writers(P, Out[s]) = {} /\ Writers(S, Out[s]) = {s}
<1>1. /\ s \in Stmt /\ s \in S /\ P \subseteq S /\ Adds(P, s, S) /\ Apt(S)
      /\ \A r \in P : Out[r] # Out[s]
  BY QuitsHas DEF Quits
<1>2. PICK o : o = Out[s] /\ o \in Buffer /\ o \notin Reads(s)
  BY <1>1, LastRead
<1>3. Writers(P, o) = {} /\ Writers(S, o) = {s}
  BY <1>1, <1>2, Author DEF Writers
<1>4. Readers(P, o) = Readers(S, o) /\ Count(P, o) = Count(S, o)
  BY <1>1, <1>2, OneMore
<1>5. o \in InUse(S, S) /\ o \notin Gone(gr, s)
  BY <1>2, <1>3 DEF InUse, Gone
<1>6. ASSUME NEW b, b # o PROVE b \in InUse(P, P) <=> b \in InUse(S, S) \ Gone(gr, s)
  <2>1. Writers(S, b) = Writers(P, b)
    BY <1>1, <1>2, <1>6, WriterMore
  <2>2. CASE b \in Reads(s)
    <3>1. b \in InUse(S, S) /\ b \in Buffer
          /\ (b \in Gone(gr, s) <=> Readers(P, b) = {} /\ Writers(S, b) = {})
      BY <1>1, <2>2, LeaveCounts, LastRead
    <3> QED
      BY <2>1, <3>1 DEF InUse
  <2>3. CASE b \notin Reads(s)
    <3>1. Readers(S, b) = Readers(P, b) /\ b \notin Gone(gr, s)
      BY <1>1, <2>3, OneMore DEF Gone
    <3> QED
      BY <2>1, <3>1 DEF InUse
  <2> QED
    BY <2>2, <2>3
<1>7. o \in InUse(P, P) <=> Readers(S, o) # {}
  BY <1>2, <1>3, <1>4 DEF InUse
<1>8. InUse(P, P) = IF Readers(S, o) = {}
                      THEN (InUse(S, S) \ Gone(gr, s)) \ {o}
                      ELSE InUse(S, S) \ Gone(gr, s)
  BY <1>5, <1>6, <1>7
<1> QED
  BY <1>2, <1>3, <1>4, <1>5, <1>8

\* The entries once s has left its inputs.
LEMMA LeaveTab ==
  ASSUME NEW gr, NEW s, NEW P, Quits(gr, s, P), NEW S, S = gr.stmts, NEW h, h = Leave(gr, s)
  PROVE  /\ DOMAIN h.tab = InUse(S, S) \ Gone(gr, s)
         /\ \A c \in DOMAIN h.tab : c # Out[s] => Fits(P, P, c, h.tab[c])
         /\ h.tab[Out[s]] = gr.tab[Out[s]]
<1>1. /\ s \in Stmt /\ s \in S /\ P \subseteq S /\ Adds(P, s, S) /\ Apt(S)
      /\ \A r \in P : Out[r] # Out[s]
      /\ IsGraph(gr) /\ Tabled(gr.tab, S, S) /\ DOMAIN gr.tab = InUse(S, S)
  BY QuitsHas DEF Quits
<1>2. h.tab = TabLeft(gr, s) /\ DOMAIN h.tab = InUse(S, S) \ Gone(gr, s)
  BY <1>1, LeaveIs
<1>3. ASSUME NEW c \in DOMAIN h.tab, c # Out[s] PROVE Fits(P, P, c, h.tab[c])
  <2>1. c \in InUse(S, S) /\ c \notin Gone(gr, s) /\ Fits(S, S, c, gr.tab[c])
    BY <1>1, <1>2 DEF Tabled
  <2>2. PICK r : r = IF c \in Reads(s) THEN Remains(gr, s, c) ELSE gr.tab[c]
    OBVIOUS
  <2>3. /\ r = Entry(r.type, r.stmt, r.back, r.fwd)
        /\ r.type = TypeOf(How(S, c), Count(P, c))
        /\ Forth(P, c, r.stmt, r.fwd)
        /\ Back(S, S, c, r.back)
    <3>1. CASE c \in Reads(s)
      <4>1. r = Remains(gr, s, c)
        BY <2>2, <3>1
      <4> QED
        BY <2>1, <3>1, <4>1, RemainsFits
    <3>2. CASE c \notin Reads(s)
      <4>1. Readers(P, c) = Readers(S, c) /\ Count(P, c) = Count(S, c)
        BY <1>1, <3>2, OneMore
      <4>2. PICK st, fwd : st = r.stmt /\ fwd = r.fwd
        OBVIOUS
      <4>3. r = gr.tab[c] /\ Forth(S, c, st, fwd)
        BY <2>1, <2>2, <3>2, <4>2 DEF Fits
      <4>4. Forth(P, c, st, fwd)
        BY <1>1, <4>1, <4>3 DEF Forth
      <4> QED
        BY <2>1, <4>1, <4>2, <4>3, <4>4 DEF Fits
    <3> QED
      BY <3>1, <3>2
  <2>4. Fits(P, S, c, h.tab[c])
    <3>1. PICK t, st, bk, fwd : /\ t = r.type /\ st = r.stmt /\ fwd = r.fwd
                                /\ r = Entry(t, st, bk, fwd) /\ bk = r.back
      BY <2>3
    <3>2. CASE Rejoins(gr, s, c) = {}
      <4>1. h.tab[c] = r
        BY <1>1, <1>2, <2>2, <3>2 DEF TabLeft
      <4>2. Back(P, S, c, bk)
        BY <1>3, <2>3, <3>1, <3>2, BackLeft
      <4> QED
        BY <2>3, <3>1, <4>1, <4>2 DEF Fits
    <3>3. CASE Rejoins(gr, s, c) # {}
      <4>1. PICK p : p = CHOOSE b \in Rejoins(gr, s, c) : TRUE
        OBVIOUS
      <4>2. p \in Rejoins(gr, s, c)
        BY <3>3, <4>1
      <4>3. h.tab[c] = [r EXCEPT !.back = p]
        BY <1>1, <1>2, <2>2, <3>3, <4>1 DEF TabLeft
      <4>4. h.tab[c] = Entry(t, st, p, fwd)
        BY ONLY <3>1, <4>3 DEF Entry
      <4>5. Back(P, S, c, p)
        BY <2>3, <3>1, <4>2, BackLeft
      <4> QED
        BY <2>3, <3>1, <4>4, <4>5, EntryHas DEF Fits
    <3> QED
      BY <3>2, <3>3
  <2> QED
    BY <1>1, <1>3, <2>4, OtherFits
<1>4. h.tab[Out[s]] = gr.tab[Out[s]]
  <2>1. Out[s] \notin Reads(s) /\ Out[s] \in DOMAIN gr.tab \ Gone(gr, s)
    BY <1>1, LeftInUse, LastRead
  <2>2. Rejoins(gr, s, Out[s]) = {}
    <3> SUFFICES ASSUME NEW b \in Rejoins(gr, s, Out[s]) PROVE FALSE
      OBVIOUS
    <3>1. b \in Joined(gr, s) /\ Rest(gr, s, b)[2] = Out[s]
      BY DEF Rejoins
    <3>2. PICK r \in P : Rest(gr, s, b) = <<b, Out[r]>>
      BY <3>1, RestIs
    <3> QED
      BY <1>1, <3>1, <3>2
  <2> QED
    BY <1>2, <2>1, <2>2 DEF TabLeft
<1> QED
  BY <1>2, <1>3, <1>4

\* The dummies after s has left its inputs.
LEMMA LeaveDummies ==
  ASSUME NEW gr, NEW s, NEW P, Quits(gr, s, P), NEW h, h = Leave(gr, s)
  PROVE  Dummied(h.dummies, P)
<1>1. PICK S : S = gr.stmts
  OBVIOUS
<1>2. /\ s \in Stmt /\ s \in S /\ P \subseteq S /\ Adds(P, s, S) /\ s \notin P
      /\ \A r \in P : Out[r] # Out[s]
      /\ IsGraph(gr) /\ Dummied(gr.dummies, S) /\ IsFiniteSet(P)
  BY <1>1, QuitsHas DEF Quits
<1>3. PICK a, z : /\ a = {<<b, Out[s]>> : b \in Shared(gr, s)}
                  /\ z = {Rest(gr, s, b) : b \in Joined(gr, s)}
  OBVIOUS
<1>4. /\ DOMAIN h.dummies = DOMAIN gr.dummies \ (a \cup z)
      /\ \A d \in DOMAIN h.dummies : h.dummies[d] = gr.dummies[d]
  BY <1>2, <1>3, LeaveIs
<1>5. \A b : /\ b \in Reads(s) => Count(S, b) = Count(P, b) + 1
             /\ b \notin Reads(s) => Count(S, b) = Count(P, b)
             /\ Count(P, b) \in Nat
  <2> TAKE b
  <2> QED
    BY <1>2, OneMore
<1>6. ASSUME NEW d \in DOMAIN h.dummies
      PROVE  \E r \in P : \E b \in Reads(r) : Count(P, b) > 1 /\ d = <<b, Out[r]>>
  <2>1. d \in DOMAIN gr.dummies /\ d \notin a /\ d \notin z
    BY <1>4
  <2>2. PICK r \in S : \E b \in Reads(r) : Count(S, b) > 1 /\ d = <<b, Out[r]>>
    BY <1>2, <2>1 DEF Dummied
  <2>3. PICK b \in Reads(r) : Count(S, b) > 1 /\ d = <<b, Out[r]>>
    BY <2>2
  <2>4. r # s
    <3> SUFFICES ASSUME r = s PROVE FALSE
      OBVIOUS
    <3>1. b \in Shared(gr, s)
      BY <1>1, <2>3, LeaveCounts
    <3> QED
      BY <1>3, <2>1, <2>3, <3>1
  <2>5. r \in P
    BY <1>2, <2>4 DEF Adds
  <2>6. b \in Reads(s) => Count(S, b) # 2
    <3> SUFFICES ASSUME b \in Reads(s), Count(S, b) = 2 PROVE FALSE
      OBVIOUS
    <3>1. b \in Joined(gr, s)
      BY <1>1, LeaveCounts
    <3>2. PICK q \in P : Readers(P, b) = {q} /\ Rest(gr, s, b) = <<b, Out[q]>>
      BY <3>1, RestIs
    <3>3. q = r
      BY <2>3, <2>5, <3>2 DEF Readers
    <3> QED
      BY <1>3, <2>1, <2>3, <3>1, <3>2, <3>3
  <2>7. Count(P, b) > 1
    <3>1. PICK m, n : m = Count(S, b) /\ n = Count(P, b)
      OBVIOUS
    <3>2. n \in Nat /\ m > 1 /\ (m = n \/ (m = n + 1 /\ m # 2))
      BY <1>5, <2>3, <2>6, <3>1
    <3>3. n > 1
      BY ONLY <3>2
    <3> QED
      BY <3>1, <3>3
  <2> QED
    BY <2>3, <2>5, <2>7
<1>7. ASSUME NEW r \in P, NEW b \in Reads(r), Count(P, b) > 1
      PROVE  <<b, Out[r]>> \in DOMAIN h.dummies /\ h.dummies[<<b, Out[r]>>] = r
  <2>1. PICK d : d = <<b, Out[r]>>
    OBVIOUS
  <2>2. Count(S, b) > 1
    BY <1>5, <1>7
  <2>3. d \in DOMAIN gr.dummies /\ gr.dummies[d] = r
    BY <1>2, <2>1, <2>2 DEF Dummied
  <2>4. d \notin a
    BY <1>2, <1>3, <2>1
  <2>5. d \notin z
    <3> SUFFICES ASSUME NEW x \in Joined(gr, s), d = Rest(gr, s, x) PROVE FALSE
      BY <1>3
    <3>1. PICK q \in P : Readers(P, x) = {q} /\ Rest(gr, s, x) = <<x, Out[q]>>
      BY RestIs
    <3>2. x = b
      <4>1. <<x, Out[q]>> = <<b, Out[r]>>
        BY <2>1, <3>1
      <4> QED
        BY <4>1
    <3>3. Count(P, b) = 1
      BY <1>2, <3>1, <3>2, Counts
    <3> QED
      BY <1>7, <3>3
  <2> QED
    BY <1>4, <2>1, <2>3, <2>4, <2>5
<1> QED
  BY <1>6, <1>7 DEF Dummied

\* s no longer writes its output.
LEMMA WithdrawTab ==
  ASSUME NEW gr, NEW s, NEW P, Quits(gr, s, P), NEW S, S = gr.stmts, NEW h, h = Leave(gr, s),
         NEW k, k = Withdraw(h, s)
  PROVE  Right(k) /\ k.stmts = P
<1>1. /\ s \in Stmt /\ s \in S /\ Adds(P, s, S) /\ IsFiniteSet(P) /\ Apt(P) /\ IsFiniteSet(S)
      /\ IsGraph(gr) /\ Tabled(gr.tab, S, S) /\ gr.map = InUse(S, S)
  BY QuitsHas DEF Quits
<1>2. PICK o : o = Out[s]
  OBVIOUS
<1>3. PICK D : D = InUse(S, S) \ Gone(gr, s)
  OBVIOUS
<1>4. /\ IsGraph(h) /\ h.stmts = S /\ DOMAIN h.tab = D /\ h.map = D
      /\ \A c \in D : c # o => Fits(P, P, c, h.tab[c])
      /\ h.tab[o] = gr.tab[o] /\ Dummied(h.dummies, P)
  BY <1>1, <1>2, <1>3, LeaveIs, LeaveTab, LeaveDummies
<1>5. /\ InUse(P, P) = IF Readers(S, o) = {} THEN D \ {o} ELSE D
      /\ o \in D /\ o \in InUse(S, S)
      /\ Readers(P, o) = Readers(S, o) /\ Count(P, o) = Count(S, o)
      /\ Writers(P, o) = {} /\ Writers(S, o) = {s}
  BY <1>2, <1>3, LeftInUse
<1>6. S \ {s} = P
  BY <1>1 DEF Adds
<1>7. h.tab[o].type \in Sinks <=> Readers(S, o) = {}
  BY <1>1, <1>4, <1>5, TypeIs
<1>8. CASE Readers(S, o) = {}
  <2>1. PICK tab, map, st : /\ tab = [c \in D \ {o} |-> h.tab[c]] /\ map = D \ {o} /\ st = S \ {s}
    OBVIOUS
  <2>2. k = [h EXCEPT !.tab = [c \in DOMAIN @ \ {o} |-> @[c]],
                     !.map = @ \ {o}, !.stmts = @ \ {s}]
    BY <1>2, <1>7, <1>8, Zenon DEF Withdraw
  <2>3. k = [h EXCEPT !.tab = tab, !.map = map, !.stmts = st]
    BY <1>4, <2>1, <2>2
  <2>4. /\ IsGraph(k) /\ k.tab = tab /\ k.map = map /\ k.stmts = st /\ k.dummies = h.dummies
    BY <1>4, <2>3 DEF IsGraph
  <2>5. InUse(P, P) = D \ {o}
    BY <1>5, <1>8
  <2>6. Tabled(tab, P, P)
    <3>1. DOMAIN tab = D \ {o} /\ \A c \in D \ {o} : tab[c] = h.tab[c]
      BY <2>1
    <3> QED
      BY <1>4, <2>5, <3>1 DEF Tabled
  <2>7. k.map = DOMAIN k.tab /\ k.stmts = P
    BY <1>6, <2>1, <2>4
  <2> QED
    BY <1>1, <1>4, <2>4, <2>6, <2>7 DEF Right
<1>9. CASE Readers(S, o) # {}
  <2>1. PICK e, t, st, bk, fwd :
           /\ e = h.tab[o] /\ e = Entry(t, st, bk, fwd) /\ e.type = t
           /\ t = TypeOf(How(S, o), Count(S, o)) /\ Forth(S, o, st, fwd)
    BY <1>1, <1>4, <1>5, EntryHas DEF Tabled, Fits
  <2>2. PICK x : x = Unfed[t]
    OBVIOUS
  <2>3. PICK f, tab, sts : /\ f = [e EXCEPT !.type = x, !.back = Nil]
                           /\ tab = [h.tab EXCEPT ![o] = f]
                           /\ sts = S \ {s}
    OBVIOUS
  <2>4. k = [h EXCEPT !.tab[o] = [h.tab[o] EXCEPT !.type = Unfed[@], !.back = Nil],
                      !.stmts = @ \ {s}]
    BY <1>2, <1>7, <1>9, Zenon DEF Withdraw
  <2>5. k = [h EXCEPT !.tab = tab, !.stmts = sts]
    <3>1. f = [h.tab[o] EXCEPT !.type = Unfed[@], !.back = Nil]
      BY <2>1, <2>2, <2>3
    <3>2. sts = S \ {s} /\ S = h.stmts
      BY <1>4, <2>3
    <3>3. k = [h EXCEPT !.tab[o] = f, !.stmts = @ \ {s}]
      BY ONLY <2>4, <3>1, Zenon
    <3>4. k = [h EXCEPT !.tab[o] = f, !.stmts = sts]
      BY <3>2, <3>3
    <3> QED
      BY <2>3, <3>4
  <2>6. /\ IsGraph(k) /\ k.tab = tab /\ k.stmts = sts /\ k.dummies = h.dummies /\ k.map = h.map
    BY <1>4, <2>5 DEF IsGraph
  <2>7. f = Entry(x, st, Nil, fwd)
    <3>1. e = Entry(t, st, bk, fwd) /\ f = [e EXCEPT !.type = x, !.back = Nil]
      BY <2>1, <2>3
    <3> QED
      BY ONLY <3>1 DEF Entry
  <2>8. DOMAIN tab = D /\ tab[o] = f /\ \A c \in D : c # o => tab[c] = h.tab[c]
    BY <1>4, <1>5, <2>3
  <2>9. Fits(P, P, o, f)
    <3>1. Forth(P, o, st, fwd)
      <4>1. P \subseteq S
        BY <1>1 DEF Adds
      <4> QED
        BY <1>5, <2>1, <4>1 DEF Forth
    <3>2. Back(P, P, o, Nil)
      BY <1>5 DEF Back
    <3>3. HasUse(How(S, o), Count(S, o)) /\ How(S, o) # "source" /\ Count(S, o) > 0
      <4>1. HasUse(How(S, o), Count(S, o))
        BY <1>1, <1>5, UsedHas
      <4>2. How(S, o) # "source"
        BY <1>5 DEF How
      <4>3. Count(S, o) \in Nat /\ Count(S, o) # 0
        BY <1>1, <1>9, Counts
      <4>4. \A n \in Nat : n # 0 => n > 0
        OBVIOUS
      <4> QED
        BY <4>1, <4>2, <4>3, <4>4
    <3>4. How(P, o) = "source"
      BY <1>5 DEF How
    <3>5. x = TypeOf(How(P, o), Count(P, o))
      BY <1>5, <2>1, <2>2, <3>3, <3>4, Changes
    <3> QED
      BY <2>7, <3>1, <3>2, <3>5, EntryHas DEF Fits
  <2>10. InUse(P, P) = D
    BY <1>5, <1>9
  <2>11. Tabled(tab, P, P)
    BY <1>4, <2>8, <2>9, <2>10 DEF Tabled
  <2>12. k.map = DOMAIN k.tab /\ k.stmts = P
    BY <1>4, <1>6, <2>3, <2>6, <2>8
  <2> QED
    BY <1>1, <1>4, <2>6, <2>11, <2>12 DEF Right
<1> QED
  BY <1>8, <1>9

\* The statement in the entry of a fork stays when s no longer reads it.
LEMMA LeaveKeeps ==
  ASSUME NEW gr, NEW s, NEW P, Quits(gr, s, P), NEW S, S = gr.stmts, NEW h, h = Leave(gr, s)
  PROVE  /\ IsMap(h.dummies)
         /\ \A b \in InUse(S, S) : Count(S, b) > 1 /\ Count(P, b) > 1 =>
              /\ b \in DOMAIN h.tab
              /\ \E back, fwd : h.tab[b] = Entry(gr.tab[b].type, gr.tab[b].stmt, back, fwd)
  <1>0. /\ IsGraph(gr) /\ IsFiniteSet(S) /\ IsFiniteSet(P) /\ Tabled(gr.tab, S, S)
        /\ DOMAIN gr.tab = InUse(S, S)
    BY QuitsHas
  <1>1. IsMap(h.dummies)
    <2> DEFINE left == {<<b, Out[s]>> : b \in Shared(gr, s)}
                       \cup {Rest(gr, s, b) : b \in Joined(gr, s)}
               dummies == [d \in DOMAIN gr.dummies \ left |-> gr.dummies[d]]
    <2>1. h = [gr EXCEPT !.tab = TabLeft(gr, s), !.dummies = dummies,
                         !.map = gr.map \ Gone(gr, s)]
      BY Zenon DEF Leave, TabLeft, Shared, Joined, Gone, Rejoins, Remains, Alone, Fewer
    <2>2. IsMap(dummies)
      BY DEF IsMap
    <2> HIDE DEF dummies
    <2>3. h.dummies = dummies
      BY <1>0, <2>1 DEF IsGraph
    <2> QED
      BY <2>2, <2>3
  <1>2. ASSUME NEW b \in InUse(S, S), Count(S, b) > 1, Count(P, b) > 1
        PROVE  /\ b \in DOMAIN h.tab
               /\ \E back, fwd :
                    h.tab[b] = Entry(gr.tab[b].type, gr.tab[b].stmt, back, fwd)
    <2>1. PICK t, st, back, fwd : gr.tab[b] = Entry(t, st, back, fwd)
      BY <1>0 DEF Tabled, Fits
    <2>2. PICK e : e = IF b \in Reads(s) THEN Remains(gr, s, b) ELSE gr.tab[b]
      OBVIOUS
    <2>3. e = gr.tab[b] \/ \E n : e = [gr.tab[b] EXCEPT !.fwd = n]
      <3>1. CASE b \in Reads(s)
        <4>1. b \in Shared(gr, s)
          BY <1>2, <3>1, LeaveCounts
        <4>2. b \notin Joined(gr, s)
          <5>1. Count(S, b) = Count(P, b) + 1 /\ Count(P, b) \in Nat
            BY <3>1, LeaveCounts
          <5>2. Count(S, b) # 2
            BY <1>2, <5>1
          <5> QED
            BY <3>1, <5>2, LeaveCounts
        <4>3. Remains(gr, s, b) = Fewer(gr.tab[b])
          <5>1. PICK J, H, a : J = Joined(gr, s) /\ H = Shared(gr, s) /\ a = gr.tab[b]
            OBVIOUS
          <5>2. Remains(gr, s, b) =
                  CASE b \in J -> Alone(gr, s, b, a)
                    [] b \in H \ J -> Fewer(a)
                    [] a.type \in DOMAIN Ended ->
                         [a EXCEPT !.type = Ended[@], !.stmt = Nil, !.fwd = Nil]
                    [] OTHER -> a
            BY <5>1, Zenon DEF Remains
          <5>3. b \notin J /\ b \in H /\ a.type \notin DOMAIN Ended
            BY <4>1, <4>2, <5>1, Domains DEF Shared, Forks
          <5> QED
            BY <5>1, <5>2, <5>3
        <4>4. Fewer(gr.tab[b]) = [gr.tab[b] EXCEPT !.fwd = @ - 1]
          BY Zenon DEF Fewer
        <4> QED
          BY <2>2, <3>1, <4>3, <4>4
      <3>2. CASE b \notin Reads(s)
        BY <2>2, <3>2
      <3> QED
        BY <3>1, <3>2
    <2>4. b \in DOMAIN gr.tab \ Gone(gr, s)
      <3>1. ASSUME b \in Gone(gr, s) PROVE FALSE
        <4>1. b \in Reads(s)
          BY <3>1 DEF Gone
        <4>2. Readers(P, b) = {}
          BY <3>1, <4>1, LeaveCounts
        <4>3. Count(P, b) = 0
          BY <1>0, <4>2, Counts
        <4> QED
          BY <1>2, <4>3
      <3> QED
        BY <1>0, <3>1
    <2>5. h.tab = TabLeft(gr, s)
      BY <1>0, LeaveIs
    <2>6. h.tab[b] = e \/ \E x : h.tab[b] = [e EXCEPT !.back = x]
      BY <2>2, <2>4, <2>5 DEF TabLeft
    <2>7. PICK f : e = Entry(t, st, back, f)
      <3>1. e = gr.tab[b] \/ \E n : e = [gr.tab[b] EXCEPT !.fwd = n]
        BY <2>3
      <3> QED
        BY ONLY <2>1, <3>1 DEF Entry
    <2>8. \E bk : h.tab[b] = Entry(t, st, bk, f)
      BY ONLY <2>6, <2>7 DEF Entry
    <2>9. gr.tab[b].type = t /\ gr.tab[b].stmt = st
      BY <2>1, EntryHas
    <2>10. b \in DOMAIN h.tab
      BY <1>0, <2>4, LeaveIs
    <2> QED
      BY <2>8, <2>9, <2>10
  <1> QED
    BY <1>1, <1>2

\* Withdraw leaves the dummies alone.
LEMMA WithdrawDummies ==
  ASSUME NEW gr, IsGraph(gr), NEW s PROVE Withdraw(gr, s).dummies = gr.dummies
  BY DEF Withdraw, IsGraph

\* Withdraw changes the type and the way back of one entry, or takes it out.
LEMMA WithdrawKeeps ==
  ASSUME NEW gr, IsGraph(gr), NEW s, NEW k, k = Withdraw(gr, s),
         NEW b \in DOMAIN gr.tab, gr.tab[b].type \notin Sinks,
         NEW t, NEW st, NEW back, NEW fwd, gr.tab[b] = Entry(t, st, back, fwd)
  PROVE  k.tab[b].stmt = gr.tab[b].stmt
  <1>1. PICK o : o = Out[s]
    OBVIOUS
  <1>2. CASE gr.tab[o].type \in Sinks
    <2>1. k = [gr EXCEPT !.tab = [c \in DOMAIN @ \ {o} |-> @[c]],
                         !.map = @ \ {o}, !.stmts = @ \ {s}]
      BY <1>1, <1>2, Zenon DEF Withdraw
    <2>2. k.tab = [c \in DOMAIN gr.tab \ {o} |-> gr.tab[c]]
      BY <2>1 DEF IsGraph
    <2>3. b # o
      BY <1>2
    <2> QED
      BY <2>2, <2>3
  <1>3. CASE gr.tab[o].type \notin Sinks
    <2>1. PICK x, f, tab, sts : /\ x = Unfed[gr.tab[o].type]
                                /\ f = [gr.tab[o] EXCEPT !.type = x, !.back = Nil]
                                /\ tab = [gr.tab EXCEPT ![o] = f]
                                /\ sts = gr.stmts \ {s}
      OBVIOUS
    <2>2. f = [gr.tab[o] EXCEPT !.type = Unfed[@], !.back = Nil]
      BY <2>1
    <2>3. k = [gr EXCEPT !.tab[o] = [gr.tab[o] EXCEPT !.type = Unfed[@], !.back = Nil],
                         !.stmts = @ \ {s}]
      BY <1>1, <1>3, Zenon DEF Withdraw
    <2>4. k = [gr EXCEPT !.tab[o] = f, !.stmts = @ \ {s}]
      BY ONLY <2>2, <2>3, Zenon
    <2>5. k = [gr EXCEPT !.tab = tab, !.stmts = sts]
      BY <2>1, <2>4
    <2>6. k.tab = tab
      BY <2>5 DEF IsGraph
    <2>7. k.tab[b] = gr.tab[b] \/ k.tab[b] = [gr.tab[b] EXCEPT !.type = x, !.back = Nil]
      BY <2>1, <2>6
    <2>8. k.tab[b].stmt = st
      <3>1. PICK e, f2 : e = gr.tab[b] /\ f2 = k.tab[b]
        OBVIOUS
      <3>2. e = Entry(t, st, back, fwd) /\ (f2 = e \/ f2 = [e EXCEPT !.type = x, !.back = Nil])
        BY <2>7, <3>1
      <3>3. CASE f2 = e
        BY <3>1, <3>2, <3>3, EntryHas
      <3>4. CASE f2 = [e EXCEPT !.type = x, !.back = Nil]
        <4>1. f2 = Entry(x, st, Nil, fwd)
          BY ONLY <3>2, <3>4 DEF Entry
        <4> QED
          BY <3>1, <4>1, EntryHas
      <3> QED
        BY <3>1, <3>2, <3>3, <3>4
    <2>9. gr.tab[b].stmt = st
      BY EntryHas
    <2> QED
      BY <2>8, <2>9
  <1> QED
    BY <1>2, <1>3

\* dropStmt finds the statement where it belongs, and keeps the graph right.
LEMMA DropRight ==
  ASSUME NEW gr, Right(gr), NEW s, NEW r, r = DropStmt(gr, s)
  PROVE  /\ r.ok /\ Right(r.g) /\ r.g.stmts = gr.stmts \ {s} /\ Keeps(gr, r.g)
         /\ s \in gr.stmts => ~ Misplaced(gr, s)
<1>1. CASE s \notin gr.stmts
  <2>1. r = [ok |-> TRUE, g |-> gr] /\ gr.stmts \ {s} = gr.stmts
    BY <1>1 DEF DropStmt
  <2> QED
    BY <1>1, <2>1, KeepsSame
<1>2. CASE s \in gr.stmts
  <2>1. PICK S, P : S = gr.stmts /\ P = S \ {s}
    OBVIOUS
  <2>2. Apt(S) /\ IsFiniteSet(S) /\ Tabled(gr.tab, S, S) /\ s \in Stmt
    BY <1>2, <2>1 DEF Right, Apt
  <2>3. Quits(gr, s, P)
    <3>1. IsFiniteSet(P) /\ s \notin P /\ S = P \cup {s}
      BY <1>2, <2>1, <2>2, FS_Subset
    <3> QED
      BY <1>2, <2>1, <3>1 DEF Quits, Adds
  <2>4. ~ Misplaced(gr, s)
    <3>1. ASSUME NEW b \in Reads(s) PROVE b \in DOMAIN gr.tab /\ gr.tab[b].type \notin Sinks
      <4>1. b \in InUse(S, S) /\ b \in DOMAIN gr.tab
        BY <2>1, <2>3, LeaveCounts
      <4>2. Readers(S, b) # {}
        BY <1>2, <2>1 DEF Readers
      <4> QED
        BY <2>2, <4>1, <4>2, TypeIs
    <3>2. Out[s] \in DOMAIN gr.tab /\ gr.tab[Out[s]].type \notin Sources
      <4>1. Out[s] \in InUse(S, S) /\ Writers(S, Out[s]) # {}
        BY <2>1, <2>3, LeftInUse
      <4> QED
        BY <2>2, <4>1, TypeIs DEF Tabled
    <3> QED
      BY <3>1, <3>2 DEF Misplaced
  <2>5. PICK h, k : h = Leave(gr, s) /\ k = Withdraw(h, s)
    OBVIOUS
  <2>6. r = [ok |-> TRUE, g |-> k]
    BY <1>2, <2>4, <2>5 DEF DropStmt, DriverDrop
  <2>7. Right(k) /\ k.stmts = P
    BY <2>1, <2>3, <2>5, WithdrawTab
  <2>8. Keeps(gr, k)
    <3>1. IsGraph(gr) /\ IsGraph(h)
      BY <2>5, LeaveIs DEF Right
    <3>2. IsMap(k.dummies)
      BY <2>1, <2>3, <2>5, <3>1, LeaveKeeps, WithdrawDummies
    <3>3. ASSUME NEW b \in InUse(S, S), Count(S, b) > 1, Count(P, b) > 1
          PROVE  k.tab[b].stmt = gr.tab[b].stmt
      <4>1. PICK t, st : t = gr.tab[b].type /\ st = gr.tab[b].stmt
        OBVIOUS
      <4>2. /\ b \in DOMAIN h.tab
            /\ \E back, fwd : h.tab[b] = Entry(t, st, back, fwd)
        BY <2>1, <2>3, <2>5, <3>3, <4>1, LeaveKeeps
      <4>3. PICK back, fwd : h.tab[b] = Entry(t, st, back, fwd)
        BY <4>2
      <4>4. t \notin Sinks
        BY <2>2, <3>3, <4>1, TypeIs DEF Forks, Sinks
      <4>5. h.tab[b].type \notin Sinks /\ h.tab[b].stmt = st
        BY <4>3, <4>4, EntryHas
      <4>6. k.tab[b].stmt = h.tab[b].stmt
        BY <2>5, <3>1, <4>2, <4>3, <4>5, WithdrawKeeps
      <4> QED
        BY <4>1, <4>5, <4>6
    <3> QED
      BY <2>1, <2>7, <3>2, <3>3 DEF Keeps
  <2> QED
    BY <2>1, <2>4, <2>6, <2>7, <2>8
<1> QED
  BY <1>1, <1>2

\* The graph without statements.
LEMMA EmptyRight == Right(EmptyGraph) /\ EmptyGraph.stmts = {}
<1>1. /\ IsGraph(EmptyGraph) /\ EmptyGraph.stmts = {} /\ EmptyGraph.tab = << >>
      /\ EmptyGraph.dummies = << >> /\ EmptyGraph.map = {}
  BY DEF IsGraph, EmptyGraph
<1>2. Apt({})
  BY FS_EmptySet DEF Apt
<1>3. DOMAIN << >> = {}
  OBVIOUS
<1>4. InUse({}, {}) = {}
  BY DEF InUse, Readers, Writers
<1>5. Tabled(<< >>, {}, {}) /\ Dummied(<< >>, {})
  BY <1>3, <1>4 DEF Tabled, Dummied
<1> QED
  BY <1>1, <1>2, <1>3, <1>5 DEF Right

-----------------------------------------------------------------------------
(* The table the statements call for                                        *)

\* Who reads or writes a buffer.
LEMMA UsedIs ==
  ASSUME NEW S, Apt(S) PROVE Used(S) = InUse(S, S)
<1>1. S \subseteq Stmt
  BY DEF Apt
<1>2. ASSUME NEW b PROVE b \in Used(S) <=> b \in InUse(S, S)
  <2>1. b \in Used(S) <=> \E s \in S : b \in Reads(s) \/ b = Out[s]
    BY DEF Used
  <2>2. \A s \in S : Reads(s) \subseteq Buffer /\ Out[s] \in Buffer
    BY <1>1, LastRead
  <2> QED
    BY <2>1, <2>2 DEF InUse, Readers, Writers
<1> QED
  BY <1>2

\* A fork has several readers.
LEMMA BufForks ==
  ASSUME NEW S, Apt(S), NEW b \in InUse(S, S)
  PROVE  BufType(S, b) \in Forks <=> Count(S, b) > 1
<1>1. IsFiniteSet(S)
  BY DEF Apt
<1>2. HasUse(How(S, b), Count(S, b))
  BY <1>1, UsedHas
<1> QED
  BY <1>2, BufTypes, Types

\* The dummies are those the statements call for.
LEMMA DummiesAre ==
  ASSUME NEW S, Apt(S), NEW dummies, Dummied(dummies, S)
  PROVE  /\ DOMAIN dummies = ForkDummies(S)
         /\ \A d \in DOMAIN dummies : d[1] \in Reads(dummies[d])
                                      /\ d[2] = Out[dummies[d]]
                                      /\ dummies[d] \in S
<1>1. ASSUME NEW s \in S, NEW b \in Reads(s)
      PROVE  BufType(S, b) \in Forks <=> Count(S, b) > 1
  <2>1. s \in Stmt /\ b \in Buffer
    BY LastRead DEF Apt
  <2>2. b \in InUse(S, S)
    BY <2>1 DEF InUse, Readers
  <2> QED
    BY <2>2, BufForks
<1>2. ASSUME NEW d
      PROVE  d \in ForkDummies(S) <=>
               \E s \in S : \E b \in Reads(s) : Count(S, b) > 1 /\ d = <<b, Out[s]>>
  <2>1. d \in ForkDummies(S) <=>
          \E s \in S : d \in {b \in Reads(s) : BufType(S, b) \in Forks} \X {Out[s]}
    BY DEF ForkDummies
  <2>2. ASSUME NEW s \in S
        PROVE  d \in {b \in Reads(s) : BufType(S, b) \in Forks} \X {Out[s]}
                 <=> \E b \in Reads(s) : BufType(S, b) \in Forks /\ d = <<b, Out[s]>>
    OBVIOUS
  <2> QED
    BY <1>1, <2>1, <2>2
<1>3. DOMAIN dummies \subseteq ForkDummies(S)
  BY <1>2 DEF Dummied
<1>4. ASSUME NEW d \in ForkDummies(S)
      PROVE  /\ d \in DOMAIN dummies /\ dummies[d] \in S
             /\ d[1] \in Reads(dummies[d]) /\ d[2] = Out[dummies[d]]
  <2>1. PICK s \in S, b \in Buffer :
          b \in Reads(s) /\ Count(S, b) > 1 /\ d = <<b, Out[s]>>
    <3>1. PICK s \in S : \E b \in Reads(s) : Count(S, b) > 1 /\ d = <<b, Out[s]>>
      BY <1>2
    <3>2. Reads(s) \subseteq Buffer
      BY LastRead DEF Apt
    <3> QED
      BY <3>1, <3>2
  <2>2. d \in DOMAIN dummies /\ dummies[d] = s
    BY <2>1 DEF Dummied
  <2> QED
    BY <2>1, <2>2
<1> QED
  BY <1>3, <1>4

\* A right graph has the table, the dummies and the map that its statements call
\* for.
LEMMA RightIs ==
  ASSUME NEW h, Right(h), NEW S, S = h.stmts
  PROVE  /\ DOMAIN h.tab = Used(S)
         /\ \A b \in DOMAIN h.tab : /\ h.tab[b].type = BufType(S, b)
                                    /\ LooksForward(S, b, h.tab[b])
                                    /\ \/ h.tab[b].type \in Merges
                                       \/ LooksBack(S, b, h.tab[b])
         /\ DOMAIN h.dummies = ForkDummies(S)
         /\ \A d \in DOMAIN h.dummies : d[1] \in Reads(h.dummies[d])
                                        /\ d[2] = Out[h.dummies[d]]
                                        /\ h.dummies[d] \in S
         /\ h.map = DOMAIN h.tab
<1>1. /\ Apt(S) /\ IsFiniteSet(S) /\ S \subseteq Stmt /\ Tabled(h.tab, S, S)
      /\ DOMAIN h.tab = InUse(S, S) /\ Dummied(h.dummies, S) /\ h.map = DOMAIN h.tab
  BY DEF Right, Apt, Tabled
<1>2. DOMAIN h.tab = Used(S)
  BY <1>1, UsedIs
<1>3. ASSUME NEW b \in InUse(S, S)
      PROVE  /\ h.tab[b].type = BufType(S, b)
             /\ LooksForward(S, b, h.tab[b])
             /\ h.tab[b].type \in Merges \/ LooksBack(S, b, h.tab[b])
  <2>1. PICK t, st, back, fwd :
           /\ t = h.tab[b].type /\ st = h.tab[b].stmt /\ back = h.tab[b].back /\ fwd = h.tab[b].fwd
           /\ t = TypeOf(How(S, b), Count(S, b)) /\ Forth(S, b, st, fwd) /\ Back(S, S, b, back)
    BY <1>1 DEF Tabled, Fits
  <2>2. t = BufType(S, b)
    BY <2>1, BufTypes
  <2>3. /\ t \in Forks <=> Count(S, b) > 1
        /\ t \in Sinks <=> Readers(S, b) = {}
        /\ t \in Sources <=> Writers(S, b) = {}
        /\ t \in Merges <=> \E w \in Writers(S, b) : Type[w] # "normal"
        /\ Count(S, b) = 0 <=> Readers(S, b) = {}
        /\ Count(S, b) = 1 <=> \E r : Readers(S, b) = {r}
        /\ Count(S, b) \in Nat
    <3>1. /\ t \in Forks <=> Count(S, b) > 1
          /\ t \in Sinks <=> Readers(S, b) = {}
          /\ t \in Sources <=> Writers(S, b) = {}
          /\ t \in Merges <=> \E w \in Writers(S, b) : Type[w] # "normal"
      <4>1. /\ h.tab[b].type \in Forks <=> Count(S, b) > 1
            /\ h.tab[b].type \in Sinks <=> Readers(S, b) = {}
            /\ h.tab[b].type \in Sources <=> Writers(S, b) = {}
            /\ h.tab[b].type \in Merges <=> \E w \in Writers(S, b) : Type[w] # "normal"
        BY <1>1, TypeIs
      <4> QED
        BY <2>1, <4>1
    <3>2. /\ Count(S, b) = 0 <=> Readers(S, b) = {}
          /\ Count(S, b) = 1 <=> \E r : Readers(S, b) = {r}
          /\ Count(S, b) \in Nat
      BY <1>1, Counts
    <3> QED
      BY ONLY <3>1, <3>2
  <2>4. t \notin Forks \/ t \notin Sinks
    BY DEF Forks, Sinks
  <2>5. LooksForward(S, b, h.tab[b])
    <3>1. CASE t \in Forks
      <4>1. fwd = Cardinality(Readers(S, b))
        BY <2>1, <2>3, <3>1 DEF Forth, Count
      <4> QED
        BY <2>1, <2>4, <3>1, <4>1 DEF LooksForward
    <3>2. CASE t \in Sinks
      <4>1. st = Nil /\ fwd = Nil
        BY <2>1, <2>3, <3>2 DEF Forth
      <4> QED
        BY <2>1, <2>4, <3>2, <4>1 DEF LooksForward
    <3>3. CASE t \notin Forks /\ t \notin Sinks
      <4>1. Count(S, b) = 1
        BY <2>3, <3>3
      <4>2. PICK r : Readers(S, b) = {r}
        BY <2>3, <4>1
      <4>3. r \in S
        BY <4>2 DEF Readers
      <4>4. st = r /\ fwd = Out[r]
        BY <2>1, <4>2, <4>3 DEF Forth
      <4> QED
        BY <2>1, <3>3, <4>2, <4>4 DEF LooksForward
    <3> QED
      BY <3>1, <3>2, <3>3
  <2>6. t \in Merges \/ LooksBack(S, b, h.tab[b])
    <3>1. CASE t \in Sources
      <4>1. back = Nil
        BY <2>1, <2>3, <3>1 DEF Back
      <4> QED
        BY <2>1, <3>1, <4>1 DEF LooksBack
    <3>2. CASE t \notin Sources /\ t \notin Merges
      <4>1. PICK w \in Writers(S, b) : Type[w] = "normal"
        BY <2>3, <3>2
      <4>2. w \in Stmt /\ w \in S
        BY <1>1 DEF Writers
      <4>3. PICK i : i = Last(Ins[w])
        OBVIOUS
      <4>4. i \in InUse(S, S)
        BY <4>2, <4>3, LastRead DEF InUse, Readers
      <4>5. back = IF BufType(S, i) \in Forks THEN <<i, b>> ELSE i
        BY <1>1, <2>1, <4>1, <4>3, <4>4, BufForks DEF Back, Via
      <4> QED
        BY <2>1, <3>2, <4>1, <4>3, <4>5 DEF LooksBack
    <3> QED
      BY <3>1, <3>2
  <2> QED
    BY <2>1, <2>2, <2>5, <2>6
<1>4. /\ DOMAIN h.dummies = ForkDummies(S)
      /\ \A d \in DOMAIN h.dummies : d[1] \in Reads(h.dummies[d])
                                     /\ d[2] = Out[h.dummies[d]]
                                     /\ h.dummies[d] \in S
  BY <1>1, DummiesAre
<1> QED
  BY <1>1, <1>2, <1>3, <1>4

-----------------------------------------------------------------------------
\* A set of natural numbers that is not empty has a least element.
LEMMA LeastNat ==
    ASSUME NEW T, T \subseteq Nat, T # {}
    PROVE  \E x \in T : \A y \in T : x <= y
  <1> DEFINE R == OpToRel(<, Nat)
  <1>1. IsWellFoundedOn(R, Nat)
    BY NatLessThanWellFounded
  <1>2. \A x, y \in Nat : <<x, y>> \in R <=> x < y
    BY DEF OpToRel
  <1> HIDE DEF R
  <1>3. PICK x \in T : \A y \in T : ~ (<<y, x>> \in R)
    BY <1>1, WFMin
  <1>4. ASSUME NEW y \in T PROVE x <= y
    <2>1. x \in Nat /\ y \in Nat /\ ~ (y < x)
      BY <1>2, <1>3
    <2> QED
      BY <2>1
  <1> QED
    BY <1>4

\* Induction: a set that has 0 and with every number its successor has them
\* all.
LEMMA NatInd ==
    ASSUME NEW P, 0 \in P, \A n \in Nat : n \in P => n + 1 \in P
    PROVE  \A n \in Nat : n \in P
  <1> SUFFICES ASSUME Nat \ P # {} PROVE FALSE
    OBVIOUS
  <1>1. PICK x \in Nat \ P : \A y \in Nat \ P : x <= y
    BY LeastNat
  <1>2. x # 0 /\ x - 1 \in Nat /\ x - 1 \in P
    BY <1>1
  <1>3. (x - 1) + 1 \in P
    BY <1>2
  <1> QED
    BY <1>1, <1>2, <1>3

\* f is what FlattenSeq computes for the first n sequences of ss.
Flattens(f, ss, n) ==
    f = [i \in 1 .. n |-> IF i = 1 THEN ss[i] ELSE f[i - 1] \o ss[i]]

\* The function defined inside FlattenSeq, at one argument.
LEMMA FlattensAt ==
    ASSUME NEW f, NEW ss, NEW n, Flattens(f, ss, n), NEW i \in 1 .. n
    PROVE  f[i] = IF i = 1 THEN ss[i] ELSE f[i - 1] \o ss[i]
  <1> DEFINE k == [j \in 1 .. n |-> IF j = 1 THEN ss[j] ELSE f[j - 1] \o ss[j]]
  <1>1. f = k
    BY DEF Flattens
  <1>2. k[i] = IF i = 1 THEN ss[i] ELSE f[i - 1] \o ss[i]
    OBVIOUS
  <1> HIDE DEF k
  <1> QED
    BY <1>1, <1>2

\* The recursive definition inside FlattenSeq defines a function.
LEMMA FlattenExists ==
    ASSUME NEW ss PROVE \A n \in Nat : \E f : Flattens(f, ss, n)
  <1> DEFINE P == {n \in Nat : \E f : Flattens(f, ss, n)}
  <1>1. 0 \in P
    <2>1. Flattens([i \in 1 .. 0 |-> {}], ss, 0)
      BY DEF Flattens
    <2> QED
      BY <2>1
  <1>2. ASSUME NEW n \in Nat, n \in P PROVE n + 1 \in P
    <2>1. PICK f : Flattens(f, ss, n)
      BY <1>2
    <2> DEFINE k == [i \in 1 .. n + 1 |->
                       IF i = 1 THEN ss[i] ELSE f[i - 1] \o ss[i]]
    <2>2. \A i \in 1 .. n : k[i] = f[i]
      BY <2>1, FlattensAt
    <2>3. \A i \in 1 .. n + 1 : i # 1 => i - 1 \in 1 .. n
      OBVIOUS
    <2>4. Flattens(k, ss, n + 1)
      BY <2>2, <2>3 DEF Flattens
    <2> QED
      BY <2>4
  <1> HIDE DEF P
  <1>3. \A n \in Nat : n \in P
    BY <1>1, <1>2, NatInd
  <1> QED
    BY <1>3 DEF P

\* What holds of the parts and of the concatenation of two that have it holds of
\* FlattenSeq: G is closed under concatenation.
LEMMA FlattenKeeps ==
    ASSUME NEW S, NEW G, NEW ss \in Seq(Seq(S)), << >> \in G,
           \A i \in DOMAIN ss : ss[i] \in G, \A a, b \in G : a \o b \in G
    PROVE  FlattenSeq(ss) \in G
  <1>1. CASE Len(ss) = 0
    BY <1>1 DEF FlattenSeq
  <1>2. CASE Len(ss) # 0
    <2> DEFINE N == Len(ss)
               f == CHOOSE f : Flattens(f, ss, N)
    <2>0. N \in Nat /\ N >= 1
      BY <1>2
    <2>1. Flattens(f, ss, N)
      BY <2>0, FlattenExists
    <2>2. FlattenSeq(ss) = f[N]
      BY <1>2 DEF FlattenSeq, Flattens
    <2> HIDE DEF f
    <2> DEFINE P == {n \in Nat : n \in 1 .. N => f[n] \in G}
    <2>3. 0 \in P
      OBVIOUS
    <2>4. ASSUME NEW n \in Nat, n \in P PROVE n + 1 \in P
      <3> SUFFICES ASSUME n + 1 \in 1 .. N PROVE f[n + 1] \in G
        BY <2>4
      <3>1. ss[n + 1] \in G
        OBVIOUS
      <3>2. f[n + 1] = IF n + 1 = 1 THEN ss[n + 1] ELSE f[n] \o ss[n + 1]
        BY <2>1, FlattensAt
      <3>3. n # 0 => f[n] \in G
        BY <2>4
      <3> QED
        BY <3>1, <3>2, <3>3
    <2> HIDE DEF P
    <2>5. N \in P
      BY <2>0, <2>3, <2>4, NatInd
    <2> QED
      BY <2>0, <2>2, <2>5 DEF P
  <1> QED
    BY <1>1, <1>2

-----------------------------------------------------------------------------
(* Sequences                                                                *)

\* The elements of a sequence with one more at its end.
LEMMA AppendHas ==
    ASSUME NEW A, NEW s \in Seq(A), NEW e \in A
    PROVE  /\ Append(s, e) \in Seq(A) /\ ToSet(Append(s, e)) = ToSet(s) \cup {e}
           /\ IsInjective(s) /\ e \notin ToSet(s) => IsInjective(Append(s, e))
  <1>1. /\ Append(s, e) \in Seq(A) /\ Len(Append(s, e)) = Len(s) + 1 /\ Len(s) \in Nat
        /\ \A i \in 1 .. Len(s) : Append(s, e)[i] = s[i]
        /\ Append(s, e)[Len(s) + 1] = e
    OBVIOUS
  <1>2. PICK t, n : t = Append(s, e) /\ n = Len(s)
    OBVIOUS
  <1>3. /\ DOMAIN t = 1 .. n + 1 /\ DOMAIN s = 1 .. n /\ n \in Nat
        /\ t[n + 1] = e /\ \A i \in 1 .. n : t[i] = s[i]
    BY <1>1, <1>2
  <1>4. 1 .. n + 1 = 1 .. n \cup {n + 1}
    BY <1>3
  <1>5. ToSet(t) = ToSet(s) \cup {e}
    BY <1>3, <1>4 DEF ToSet
  <1>6. IsInjective(s) /\ e \notin ToSet(s) => IsInjective(t)
    BY <1>3, <1>4 DEF IsInjective, ToSet
  <1> QED
    BY <1>1, <1>2, <1>5, <1>6

\* The empty sequence has no elements.
LEMMA EmptyHas == ToSet(<< >>) = {} /\ IsInjective(<< >>)
  <1>1. DOMAIN << >> = {}
    OBVIOUS
  <1> QED
    BY <1>1 DEF ToSet, IsInjective

\* The elements of two sequences, one after the other.
LEMMA ConcatHas ==
    ASSUME NEW A, NEW s \in Seq(A), NEW t \in Seq(A)
    PROVE  /\ s \o t \in Seq(A) /\ ToSet(s \o t) = ToSet(s) \cup ToSet(t)
           /\ IsInjective(s) /\ IsInjective(t) /\ ToSet(s) \cap ToSet(t) = {}
                => IsInjective(s \o t)
  <1>1. PICK r, m, n : r = s \o t /\ m = Len(s) /\ n = Len(t)
    OBVIOUS
  <1>2. /\ r \in Seq(A) /\ m \in Nat /\ n \in Nat /\ DOMAIN r = 1 .. m + n
        /\ DOMAIN s = 1 .. m /\ DOMAIN t = 1 .. n
        /\ \A i \in 1 .. m + n : r[i] = IF i <= m THEN s[i] ELSE t[i - m]
    BY <1>1
  <1>3. \A i \in 1 .. m : i \in 1 .. m + n /\ r[i] = s[i]
    BY <1>2
  <1>4. \A i \in 1 .. n : i + m \in 1 .. m + n /\ r[i + m] = t[i]
    BY <1>2
  <1>5. \A i \in 1 .. m + n : i \in 1 .. m \/ i - m \in 1 .. n
    BY <1>2
  <1>6. \A i \in 1 .. m + n :
           (i \in 1 .. m /\ r[i] = s[i]) \/ (i - m \in 1 .. n /\ r[i] = t[i - m])
    BY <1>2
  <1>7. ToSet(r) = ToSet(s) \cup ToSet(t)
    <2>1. ToSet(r) \subseteq ToSet(s) \cup ToSet(t)
      <3>1. \A i \in 1 .. m : s[i] \in ToSet(s)
        BY <1>2 DEF ToSet
      <3>2. ASSUME NEW i \in 1 .. m + n, i - m \in 1 .. n PROVE t[i - m] \in ToSet(t)
        BY <1>2, <3>2 DEF ToSet
      <3>3. \A i \in 1 .. m + n : r[i] \in ToSet(s) \cup ToSet(t)
        BY <1>6, <3>1, <3>2
      <3> QED
        BY <1>2, <3>3 DEF ToSet
    <2>2. ToSet(s) \subseteq ToSet(r)
      BY <1>2, <1>3 DEF ToSet
    <2>3. ToSet(t) \subseteq ToSet(r)
      <3>1. ToSet(t) = {t[i] : i \in 1 .. n}
        BY <1>2 DEF ToSet
      <3>2. \A i \in 1 .. n : r[i + m] \in ToSet(r)
        BY <1>2, <1>4 DEF ToSet
      <3> QED
        BY <1>4, <3>1, <3>2
    <2> QED
      BY <2>1, <2>2, <2>3
  <1>8. ASSUME IsInjective(s), IsInjective(t), ToSet(s) \cap ToSet(t) = {}
        PROVE  IsInjective(r)
    <2>1. ASSUME NEW i \in 1 .. m + n, NEW j \in 1 .. m + n, r[i] = r[j] PROVE i = j
      <3>1. CASE i \in 1 .. m /\ j \in 1 .. m
        BY <1>2, <1>3, <1>8, <2>1, <3>1 DEF IsInjective
      <3>2. CASE i - m \in 1 .. n /\ j - m \in 1 .. n /\ i \notin 1 .. m /\ j \notin 1 .. m
        <4>1. t[i - m] = t[j - m]
          BY <1>6, <2>1, <3>2
        <4>2. i - m = j - m
          BY <1>2, <1>8, <3>2, <4>1 DEF IsInjective
        <4> QED
          BY <1>2, <4>2
      <3>3. ASSUME NEW k \in 1 .. m, NEW l \in 1 .. m + n, l \notin 1 .. m, r[k] = r[l]
            PROVE  FALSE
        <4>1. r[k] \in ToSet(s)
          BY <1>2, <1>3 DEF ToSet
        <4>2. r[l] \in ToSet(t)
          BY <1>2, <1>6, <3>3 DEF ToSet
        <4> QED
          BY <1>8, <3>3, <4>1, <4>2
      <3> QED
        BY <1>5, <2>1, <3>1, <3>2, <3>3
    <2> QED
      BY <1>2, <2>1 DEF IsInjective
  <1> QED
    BY <1>1, <1>2, <1>7, <1>8

\* The first element and the others.
LEMMA HeadTail ==
    ASSUME NEW A, NEW s \in Seq(A), s # << >>
    PROVE  /\ Head(s) \in A /\ Tail(s) \in Seq(A) /\ ToSet(s) = {Head(s)} \cup ToSet(Tail(s))
           /\ IsInjective(s) => IsInjective(Tail(s)) /\ Head(s) \notin ToSet(Tail(s))
  <1>1. PICK h, t, n : h = Head(s) /\ t = Tail(s) /\ n = Len(s)
    OBVIOUS
  <1>2. /\ n \in Nat /\ n >= 1 /\ DOMAIN s = 1 .. n /\ DOMAIN t = 1 .. n - 1 /\ s[1] = h
        /\ h \in A /\ t \in Seq(A) /\ \A i \in 1 .. n - 1 : t[i] = s[i + 1]
    BY <1>1
  <1>3. /\ \A i \in 1 .. n : i = 1 \/ i - 1 \in 1 .. n - 1
        /\ \A i \in 1 .. n - 1 : i + 1 \in 1 .. n /\ i + 1 # 1
        /\ \A i \in 1 .. n : i # 1 => s[i] = t[i - 1]
    BY <1>2
  <1>4. ToSet(s) = {h} \cup ToSet(t)
    <2>1. ASSUME NEW i \in 1 .. n PROVE s[i] \in {h} \cup ToSet(t)
      <3>1. CASE i = 1
        BY <1>2, <3>1
      <3>2. CASE i # 1
        <4>1. PICK j : j = i - 1
          OBVIOUS
        <4>2. j \in 1 .. n - 1 /\ s[i] = t[j]
          BY <1>3, <3>2, <4>1
        <4> QED
          BY <1>2, <4>2 DEF ToSet
      <3> QED
        BY <3>1, <3>2
    <2>2. ASSUME NEW i \in 1 .. n - 1 PROVE t[i] \in ToSet(s)
      <3>1. PICK j : j = i + 1
        OBVIOUS
      <3>2. j \in 1 .. n /\ t[i] = s[j]
        BY <1>2, <1>3, <3>1
      <3> QED
        BY <1>2, <3>2 DEF ToSet
    <2>3. h \in ToSet(s)
      BY <1>2 DEF ToSet
    <2>4. ToSet(s) \subseteq {h} \cup ToSet(t) /\ ToSet(t) \subseteq ToSet(s)
      BY <1>2, <2>1, <2>2 DEF ToSet
    <2> QED
      BY <2>3, <2>4
  <1>5. ASSUME IsInjective(s) PROVE IsInjective(t) /\ h \notin ToSet(t)
    <2>1. ASSUME NEW i \in 1 .. n - 1, NEW j \in 1 .. n - 1, t[i] = t[j] PROVE i = j
      <3>1. s[i + 1] = s[j + 1] /\ i + 1 \in 1 .. n /\ j + 1 \in 1 .. n
        BY <1>2, <2>1
      <3>2. i + 1 = j + 1
        BY <1>2, <1>5, <3>1 DEF IsInjective
      <3> QED
        BY <3>2
    <2>2. ASSUME NEW i \in 1 .. n - 1, t[i] = h PROVE FALSE
      <3>1. s[i + 1] = s[1] /\ i + 1 \in 1 .. n /\ 1 \in 1 .. n /\ i + 1 # 1
        BY <1>2, <2>2
      <3> QED
        BY <1>2, <1>5, <3>1 DEF IsInjective
    <2> QED
      BY <1>2, <2>1, <2>2 DEF IsInjective, ToSet
  <1> QED
    BY <1>1, <1>2, <1>4, <1>5

\* The last element and the others.
LEMMA FrontLast ==
    ASSUME NEW A, NEW s \in Seq(A), s # << >>
    PROVE  /\ Front(s) \in Seq(A) /\ Last(s) \in A /\ ToSet(s) = ToSet(Front(s)) \cup {Last(s)}
  <1>1. PICK t, n : t = Front(s) /\ n = Len(s)
    OBVIOUS
  <1>2. /\ n \in Nat /\ n >= 1 /\ DOMAIN s = 1 .. n /\ t \in Seq(A) /\ DOMAIN t = 1 .. n - 1
        /\ Last(s) = s[n] /\ s[n] \in A /\ \A i \in 1 .. n - 1 : t[i] = s[i]
    BY <1>1 DEF Front, Last
  <1>3. 1 .. n = 1 .. n - 1 \cup {n}
    BY <1>2
  <1> QED
    BY <1>1, <1>2, <1>3 DEF ToSet

\* A sequence of one element.
LEMMA OneHas ==
    ASSUME NEW A, NEW e \in A PROVE << e >> \in Seq(A) /\ ToSet(<< e >>) = {e}
  <1>1. DOMAIN << e >> = {1} /\ << e >>[1] = e
    OBVIOUS
  <1> QED
    BY <1>1 DEF ToSet

\* f is what Only computes for the first n elements of seq.
Picks(f, seq, S, n) ==
    f = [i \in 0 .. n |-> IF i = 0 THEN << >>
                          ELSE IF seq[i] \in S THEN Append(f[i - 1], seq[i])
                          ELSE f[i - 1]]

\* The function defined inside Only, at one argument.
LEMMA PicksAt ==
    ASSUME NEW f, NEW seq, NEW S, NEW n, Picks(f, seq, S, n), NEW i \in 0 .. n
    PROVE  f[i] = IF i = 0 THEN << >>
                  ELSE IF seq[i] \in S THEN Append(f[i - 1], seq[i])
                  ELSE f[i - 1]
  <1> DEFINE k == [j \in 0 .. n |-> IF j = 0 THEN << >>
                                    ELSE IF seq[j] \in S THEN Append(f[j - 1], seq[j])
                                    ELSE f[j - 1]]
  <1>1. f = k
    BY DEF Picks
  <1>2. k[i] = IF i = 0 THEN << >>
               ELSE IF seq[i] \in S THEN Append(f[i - 1], seq[i])
               ELSE f[i - 1]
    OBVIOUS
  <1> HIDE DEF k
  <1> QED
    BY <1>1, <1>2

\* The recursive definition inside Only defines a function.
LEMMA PicksExists ==
    ASSUME NEW seq, NEW S PROVE \A n \in Nat : \E f : Picks(f, seq, S, n)
  <1> DEFINE P == {n \in Nat : \E f : Picks(f, seq, S, n)}
  <1>1. 0 \in P
    <2> DEFINE k == [i \in 0 .. 0 |-> << >>]
    <2>1. Picks(k, seq, S, 0)
      BY DEF Picks
    <2> QED
      BY <2>1
  <1>2. ASSUME NEW n \in Nat, n \in P PROVE n + 1 \in P
    <2>1. PICK f : Picks(f, seq, S, n)
      BY <1>2
    <2> DEFINE k == [i \in 0 .. n + 1 |->
                       IF i = 0 THEN << >>
                       ELSE IF seq[i] \in S THEN Append(f[i - 1], seq[i])
                       ELSE f[i - 1]]
    <2>2. \A i \in 0 .. n : k[i] = f[i]
      BY <2>1, PicksAt
    <2>3. \A i \in 0 .. n + 1 : i # 0 => i - 1 \in 0 .. n
      OBVIOUS
    <2>4. Picks(k, seq, S, n + 1)
      BY <2>2, <2>3 DEF Picks
    <2> QED
      BY <2>4
  <1> HIDE DEF P
  <1>3. \A n \in Nat : n \in P
    BY <1>1, <1>2, NatInd
  <1> QED
    BY <1>3 DEF P

\* Only keeps the elements that are in S, each as often as it was there.
LEMMA OnlyHas ==
    ASSUME NEW A, NEW seq \in Seq(A), NEW S
    PROVE  /\ Only(seq, S) \in Seq(A) /\ ToSet(Only(seq, S)) = ToSet(seq) \cap S
           /\ IsInjective(seq) => IsInjective(Only(seq, S))
  <1> DEFINE N == Len(seq)
             f == CHOOSE f : Picks(f, seq, S, N)
  <1>1. N \in Nat /\ DOMAIN seq = 1 .. N /\ \A i \in 1 .. N : seq[i] \in A
    OBVIOUS
  <1>2. Picks(f, seq, S, N)
    BY <1>1, PicksExists
  <1>3. Only(seq, S) = f[N]
    BY DEF Only, Picks
  <1> HIDE DEF f
  <1> DEFINE First(n) == {seq[i] : i \in 1 .. n}
             P == {n \in Nat : n \in 0 .. N =>
                      /\ f[n] \in Seq(A) /\ ToSet(f[n]) = First(n) \cap S
                      /\ IsInjective(seq) => IsInjective(f[n])}
  <1>4. 0 \in P
    <2>1. f[0] = << >>
      BY <1>1, <1>2, PicksAt
    <2>2. First(0) = {}
      OBVIOUS
    <2>3. /\ f[0] \in Seq(A) /\ ToSet(f[0]) = First(0) \cap S
          /\ IsInjective(seq) => IsInjective(f[0])
      <3>1. << >> \in Seq(A)
        OBVIOUS
      <3> QED
        BY <2>1, <2>2, <3>1, EmptyHas
    <2> HIDE DEF First
    <2>4. 0 \in Nat
      OBVIOUS
    <2> QED
      BY <2>3, <2>4
  <1>5. ASSUME NEW n \in Nat, n \in P PROVE n + 1 \in P
    <2> SUFFICES ASSUME n + 1 \in 0 .. N
                 PROVE  /\ f[n + 1] \in Seq(A) /\ ToSet(f[n + 1]) = First(n + 1) \cap S
                        /\ IsInjective(seq) => IsInjective(f[n + 1])
      BY <1>5
    <2>1. PICK e, t : e = seq[n + 1] /\ t = f[n] /\ e \in A
      BY <1>1
    <2>2. /\ t \in Seq(A) /\ ToSet(t) = First(n) \cap S
          /\ IsInjective(seq) => IsInjective(t)
      BY <1>5, <2>1
    <2>3. f[n + 1] = IF e \in S THEN Append(t, e) ELSE t
      <3>1. n + 1 # 0 /\ (n + 1) - 1 = n
        OBVIOUS
      <3> QED
        BY <1>2, <2>1, <3>1, PicksAt
    <2>4. First(n + 1) = First(n) \cup {e}
      <3>1. 1 .. n + 1 = 1 .. n \cup {n + 1}
        OBVIOUS
      <3> QED
        BY <2>1, <3>1
    <2>5. IsInjective(seq) => e \notin First(n)
      <3>1. ASSUME IsInjective(seq), NEW i \in 1 .. n, seq[i] = seq[n + 1] PROVE FALSE
        <4>1. i \in 1 .. N /\ n + 1 \in 1 .. N /\ i # n + 1
          BY <1>1
        <4> QED
          BY <1>1, <3>1, <4>1 DEF IsInjective
      <3> QED
        BY <2>1, <3>1
    <2> HIDE DEF First
    <2>6. CASE e \in S
      <3>1. /\ Append(t, e) \in Seq(A) /\ ToSet(Append(t, e)) = ToSet(t) \cup {e}
            /\ IsInjective(t) /\ e \notin ToSet(t) => IsInjective(Append(t, e))
        BY <2>1, <2>2, AppendHas
      <3> QED
        BY <2>2, <2>3, <2>4, <2>5, <2>6, <3>1
    <2>7. CASE e \notin S
      BY <2>2, <2>3, <2>4, <2>7
    <2> QED
      BY <2>6, <2>7
  <1> HIDE DEF P
  <1>6. N \in P
    BY <1>1, <1>4, <1>5, NatInd
  <1>7. First(N) = ToSet(seq)
    BY <1>1 DEF ToSet
  <1> HIDE DEF First
  <1>8. /\ f[N] \in Seq(A) /\ ToSet(f[N]) = First(N) \cap S
        /\ IsInjective(seq) => IsInjective(f[N])
    BY <1>1, <1>6 DEF P
  <1> QED
    BY <1>3, <1>7, <1>8

\* Without keeps the elements that are not in S.
LEMMA WithoutHas ==
    ASSUME NEW A, NEW seq \in Seq(A), NEW S
    PROVE  /\ Without(seq, S) \in Seq(A) /\ ToSet(Without(seq, S)) = ToSet(seq) \ S
           /\ IsInjective(seq) => IsInjective(Without(seq, S))
  <1>1. PICK T : T = ToSet(seq) \ S
    OBVIOUS
  <1>2. Without(seq, S) = Only(seq, T)
    BY <1>1 DEF Without
  <1> QED
    BY <1>1, <1>2, OnlyHas

-----------------------------------------------------------------------------
(* Several statements                                                       *)

\* f is what AddAll computes for the first n statements of seq.
AddsTo(f, r, seq, n) ==
    f = [i \in 0 .. n |-> IF i = 0 THEN r ELSE AddAfter(f[i - 1], seq[i])]

\* The function defined inside AddAll, at one argument.
LEMMA AddsToAt ==
    ASSUME NEW f, NEW r, NEW seq, NEW n, AddsTo(f, r, seq, n), NEW i \in 0 .. n
    PROVE  f[i] = IF i = 0 THEN r ELSE AddAfter(f[i - 1], seq[i])
  <1> DEFINE k == [j \in 0 .. n |-> IF j = 0 THEN r ELSE AddAfter(f[j - 1], seq[j])]
  <1>1. f = k
    BY DEF AddsTo
  <1>2. k[i] = IF i = 0 THEN r ELSE AddAfter(f[i - 1], seq[i])
    OBVIOUS
  <1> HIDE DEF k
  <1> QED
    BY <1>1, <1>2

\* The recursive definition inside AddAll defines a function.
LEMMA AddsToExists ==
    ASSUME NEW r, NEW seq PROVE \A n \in Nat : \E f : AddsTo(f, r, seq, n)
  <1> DEFINE P == {n \in Nat : \E f : AddsTo(f, r, seq, n)}
  <1>1. 0 \in P
    <2> DEFINE k == [i \in 0 .. 0 |-> r]
    <2>1. AddsTo(k, r, seq, 0)
      BY DEF AddsTo
    <2> QED
      BY <2>1
  <1>2. ASSUME NEW n \in Nat, n \in P PROVE n + 1 \in P
    <2>1. PICK f : AddsTo(f, r, seq, n)
      BY <1>2
    <2> DEFINE k == [i \in 0 .. n + 1 |->
                       IF i = 0 THEN r ELSE AddAfter(f[i - 1], seq[i])]
    <2>2. \A i \in 0 .. n : k[i] = f[i]
      BY <2>1, AddsToAt
    <2>3. \A i \in 0 .. n + 1 : i # 0 => i - 1 \in 0 .. n
      OBVIOUS
    <2>4. AddsTo(k, r, seq, n + 1)
      BY <2>2, <2>3 DEF AddsTo
    <2> QED
      BY <2>4
  <1> HIDE DEF P
  <1>3. \A n \in Nat : n \in P
    BY <1>1, <1>2, NatInd
  <1> QED
    BY <1>3 DEF P

\* addStmt for a valid statement.
LEMMA AddValid ==
    ASSUME NEW gr, Right(gr), NEW s \in Stmt, Ready(gr, s),
           NEW t, t = AddStmt(gr, s, TRUE)
    PROVE  /\ Right(t.g) /\ t.ok \in BOOLEAN
           /\ t.ok => t.g.stmts = gr.stmts \cup {s}
  <1>1. PICK v : v = TRUE
    OBVIOUS
  <1>2. t = AddStmt(gr, s, v)
    BY <1>1
  <1>3. /\ Right(t.g) /\ t.ok \in BOOLEAN
        /\ t.ok => t.g.stmts = gr.stmts \cup {s} /\ (v \/ s \in gr.stmts)
    BY <1>2, AddRight
  <1> QED
    BY <1>3

\* Adding several statements keeps the graph right, if each is ready once those
\* before it are there.
LEMMA AddAllRight ==
    ASSUME NEW gr, Right(gr), NEW seq \in Seq(Stmt),
           \A i \in DOMAIN seq : \A h :
              /\ Right(h) /\ gr.stmts \subseteq h.stmts
              /\ \A j \in DOMAIN seq : j < i => seq[j] \in h.stmts
              => Ready(h, seq[i]),
           NEW r, r = AddAll(gr, seq), r.ok
    PROVE  Right(r.g) /\ r.g.stmts = gr.stmts \cup ToSet(seq)
  <1> DEFINE N == Len(seq)
             r0 == [ok |-> TRUE, g |-> gr]
             f == CHOOSE f : AddsTo(f, r0, seq, N)
  <1>1. N \in Nat /\ DOMAIN seq = 1 .. N /\ \A i \in 1 .. N : seq[i] \in Stmt
    OBVIOUS
  <1>2. AddsTo(f, r0, seq, N)
    BY <1>1, AddsToExists
  <1>3. r = f[N]
    BY DEF AddAll, AddsTo
  <1>r. r0.ok = TRUE /\ r0.g = gr
    OBVIOUS
  <1> HIDE DEF f, r0
  <1> DEFINE To(n) == {seq[i] : i \in 1 .. n}
             P == {n \in Nat : n \in 0 .. N =>
                      /\ f[n].ok \in BOOLEAN
                      /\ f[n].ok => Right(f[n].g) /\ f[n].g.stmts = gr.stmts \cup To(n)}
  <1>4. 0 \in P
    <2>1. f[0] = r0
      BY <1>1, <1>2, AddsToAt
    <2>2. f[0].ok = TRUE /\ f[0].g = gr
      BY <1>r, <2>1
    <2>3. To(0) = {}
      OBVIOUS
    <2> HIDE DEF To
    <2> QED
      BY <2>2, <2>3
  <1>5. ASSUME NEW n \in Nat, n \in P PROVE n + 1 \in P
    <2> SUFFICES ASSUME n + 1 \in 0 .. N
                 PROVE  /\ f[n + 1].ok \in BOOLEAN
                        /\ f[n + 1].ok => /\ Right(f[n + 1].g)
                                          /\ f[n + 1].g.stmts = gr.stmts \cup To(n + 1)
      BY <1>5
    <2>1. /\ n \in 0 .. N /\ n + 1 \in 1 .. N /\ f[n].ok \in BOOLEAN
          /\ f[n].ok => Right(f[n].g) /\ f[n].g.stmts = gr.stmts \cup To(n)
      BY <1>1, <1>5
    <2>2. f[n + 1] = AddAfter(f[n], seq[n + 1])
      <3>1. PICK m : m = n + 1 /\ m \in 0 .. N /\ m # 0 /\ m - 1 = n
        OBVIOUS
      <3>2. f[m] = IF m = 0 THEN r0 ELSE AddAfter(f[m - 1], seq[m])
        BY <1>2, <3>1, AddsToAt
      <3> QED
        BY <3>1, <3>2
    <2>3. CASE ~ f[n].ok
      <3>1. f[n + 1] = f[n]
        BY <2>2, <2>3 DEF AddAfter
      <3> QED
        BY <2>1, <2>3, <3>1
    <2>4. CASE f[n].ok
      <3>1. PICK h, s : h = f[n].g /\ s = seq[n + 1] /\ s \in Stmt
        BY <1>1, <2>1
      <3>2. Right(h) /\ h.stmts = gr.stmts \cup To(n)
        BY <2>1, <2>4, <3>1
      <3>3. \A j \in DOMAIN seq : j < n + 1 => seq[j] \in h.stmts
        BY <1>1, <3>2
      <3>4. Ready(h, s)
        BY <1>1, <2>1, <3>1, <3>2, <3>3
      <3>5. PICK t : t = AddStmt(h, s, TRUE)
        OBVIOUS
      <3>6. /\ Right(t.g) /\ t.ok \in BOOLEAN
            /\ t.ok => t.g.stmts = h.stmts \cup {s}
        BY ONLY <3>1, <3>2, <3>4, <3>5, AddValid
      <3>7. To(n + 1) = To(n) \cup {s}
        <4>1. 1 .. n + 1 = 1 .. n \cup {n + 1}
          OBVIOUS
        <4> QED
          BY <3>1, <4>1
      <3>8. f[n + 1] = t
        BY <2>2, <2>4, <3>1, <3>5 DEF AddAfter
      <3> HIDE DEF To
      <3> QED
        BY <3>2, <3>6, <3>7, <3>8
    <2> QED
      BY <2>1, <2>3, <2>4
  <1> HIDE DEF P
  <1>6. N \in P
    BY <1>1, <1>4, <1>5, NatInd
  <1>7. To(N) = ToSet(seq)
    BY <1>1 DEF ToSet
  <1> HIDE DEF To
  <1>8. N \in 0 .. N
    BY <1>1
  <1>9. f[N].ok => Right(f[N].g) /\ f[N].g.stmts = gr.stmts \cup To(N)
    BY <1>6, <1>8 DEF P
  <1> QED
    BY <1>3, <1>7, <1>9

\* f is what DropAll computes for the first n statements of seq.
DropsFrom(f, gr, seq, n) ==
    f = [i \in 0 .. n |-> IF i = 0 THEN gr ELSE DropStmt(f[i - 1], seq[i]).g]

\* The function defined inside DropAll, at one argument.
LEMMA DropsFromAt ==
    ASSUME NEW f, NEW gr, NEW seq, NEW n, DropsFrom(f, gr, seq, n), NEW i \in 0 .. n
    PROVE  f[i] = IF i = 0 THEN gr ELSE DropStmt(f[i - 1], seq[i]).g
  <1> DEFINE k == [j \in 0 .. n |-> IF j = 0 THEN gr ELSE DropStmt(f[j - 1], seq[j]).g]
  <1>1. f = k
    BY DEF DropsFrom
  <1>2. k[i] = IF i = 0 THEN gr ELSE DropStmt(f[i - 1], seq[i]).g
    OBVIOUS
  <1> HIDE DEF k
  <1> QED
    BY <1>1, <1>2

\* The recursive definition inside DropAll defines a function.
LEMMA DropsFromExists ==
    ASSUME NEW gr, NEW seq PROVE \A n \in Nat : \E f : DropsFrom(f, gr, seq, n)
  <1> DEFINE P == {n \in Nat : \E f : DropsFrom(f, gr, seq, n)}
  <1>1. 0 \in P
    <2> DEFINE k == [i \in 0 .. 0 |-> gr]
    <2>1. DropsFrom(k, gr, seq, 0)
      BY DEF DropsFrom
    <2> QED
      BY <2>1
  <1>2. ASSUME NEW n \in Nat, n \in P PROVE n + 1 \in P
    <2>1. PICK f : DropsFrom(f, gr, seq, n)
      BY <1>2
    <2> DEFINE k == [i \in 0 .. n + 1 |->
                       IF i = 0 THEN gr ELSE DropStmt(f[i - 1], seq[i]).g]
    <2>2. \A i \in 0 .. n : k[i] = f[i]
      BY <2>1, DropsFromAt
    <2>3. \A i \in 0 .. n + 1 : i # 0 => i - 1 \in 0 .. n
      OBVIOUS
    <2>4. DropsFrom(k, gr, seq, n + 1)
      BY <2>2, <2>3 DEF DropsFrom
    <2> QED
      BY <2>4
  <1> HIDE DEF P
  <1>3. \A n \in Nat : n \in P
    BY <1>1, <1>2, NatInd
  <1> QED
    BY <1>3 DEF P

\* Dropping several statements keeps the graph right.
LEMMA DropAllRight ==
    ASSUME NEW gr, Right(gr), NEW seq \in Seq(Stmt), NEW h, h = DropAll(gr, seq)
    PROVE  Right(h) /\ h.stmts = gr.stmts \ ToSet(seq)
  <1> DEFINE N == Len(seq)
             f == CHOOSE f : DropsFrom(f, gr, seq, N)
  <1>1. N \in Nat /\ DOMAIN seq = 1 .. N
    OBVIOUS
  <1>2. DropsFrom(f, gr, seq, N)
    BY <1>1, DropsFromExists
  <1>3. h = f[N]
    BY DEF DropAll, DropsFrom
  <1> HIDE DEF f
  <1> DEFINE To(n) == {seq[i] : i \in 1 .. n}
             P == {n \in Nat : n \in 0 .. N =>
                      Right(f[n]) /\ f[n].stmts = gr.stmts \ To(n)}
  <1>4. 0 \in P
    <2>1. f[0] = gr
      BY <1>1, <1>2, DropsFromAt
    <2>2. To(0) = {}
      OBVIOUS
    <2> HIDE DEF To
    <2> QED
      BY <2>1, <2>2
  <1>5. ASSUME NEW n \in Nat, n \in P PROVE n + 1 \in P
    <2> SUFFICES ASSUME n + 1 \in 0 .. N
                 PROVE  Right(f[n + 1]) /\ f[n + 1].stmts = gr.stmts \ To(n + 1)
      BY <1>5
    <2>1. Right(f[n]) /\ f[n].stmts = gr.stmts \ To(n)
      BY <1>1, <1>5
    <2>2. f[n + 1] = DropStmt(f[n], seq[n + 1]).g
      <3>1. n + 1 # 0 /\ (n + 1) - 1 = n
        OBVIOUS
      <3> QED
        BY <1>2, <3>1, DropsFromAt
    <2>3. PICK s, t : s = seq[n + 1] /\ t = DropStmt(f[n], s)
      OBVIOUS
    <2>4. Right(t.g) /\ t.g.stmts = f[n].stmts \ {s}
      BY <2>1, <2>3, DropRight
    <2>5. To(n + 1) = To(n) \cup {s}
      <3>1. 1 .. n + 1 = 1 .. n \cup {n + 1}
        OBVIOUS
      <3> QED
        BY <2>3, <3>1
    <2> HIDE DEF To
    <2> QED
      BY <2>1, <2>2, <2>3, <2>4, <2>5
  <1> HIDE DEF P
  <1>6. N \in P
    BY <1>1, <1>4, <1>5, NatInd
  <1>7. To(N) = ToSet(seq)
    BY <1>1 DEF ToSet
  <1> HIDE DEF To
  <1>8. N \in 0 .. N
    BY <1>1
  <1>9. Right(f[N]) /\ f[N].stmts = gr.stmts \ To(N)
    BY <1>6, <1>8 DEF P
  <1> QED
    BY <1>3, <1>7, <1>9
=============================================================================
