----------------------------- MODULE ExecProofs -----------------------------
(***************************************************************************)
(* Proofs about Exec, for any queries, streams and budget: the output of a *)
(* timed union is in order (SortInv), and every reader of a fork gets each *)
(* tuple once while queries come and go (FlagInv), because the graph is    *)
(* the one its statements call for (Right of DriverGraphProofs).           *)
(***************************************************************************)
EXTENDS Exec, DriverGraphProofs

-----------------------------------------------------------------------------
(* Types                                                                    *)

Bufs == [Buffer -> Seq(Nat)]

\* The types of what ExecInv needs.
TypeInv ==
    /\ buf \in Bufs /\ clock \in Nat
    /\ order \in Seq(Stmt) /\ pos \in 0 .. Len(order)
    /\ ahead \in [Stmt -> Int]

\* The statements of a query.
LEMMA FlowHas ==
  ASSUME NEW q \in Query
  PROVE  /\ Flow(q) \in Seq(Stmt) /\ ToSet(Flow(q)) = ToSet(Parts[q]) \cup {q}
         /\ q \in Stmt /\ Parts[q] \in Seq(Stmt)
  <1>1. q \in Stmt /\ Parts[q] \in Seq(Stmt)
    BY ExecAssumption
  <1> QED
    BY <1>1, AppendHas DEF Flow

\* The input a statement is visited for.
LEMMA InputHas ==
  ASSUME NEW s \in Stmt
  PROVE  InOf(s) \in Reads(s) /\ InOf(s) \in Buffer /\ Out[s] \in Buffer /\ Out[s] \notin Reads(s)
  <1>1. Ins[s] \in Seq(Buffer) /\ Ins[s] # << >>
    BY GraphAssumption
  <1>2. 1 \in DOMAIN Ins[s]
    BY <1>1
  <1>3. InOf(s) \in Reads(s)
    BY <1>2 DEF InOf, Reads, ToSet
  <1> QED
    BY <1>3, LastRead

\* Whose turn it is.
LEMMA TurnHas ==
  ASSUME TypeInv, pos > 0
  PROVE  Turn \in ToSet(order) /\ Turn \in Stmt
  <1>1. order \in Seq(Stmt) /\ pos \in 1 .. Len(order)
    BY DEF TypeInv
  <1>2. pos \in DOMAIN order /\ order[pos] \in Stmt
    BY <1>1
  <1> QED
    BY <1>2 DEF Turn, ToSet

\* The next turn.
LEMMA OnwardHas ==
  ASSUME TypeInv, pos > 0, Onward PROVE pos' \in 0 .. Len(order)
  BY DEF TypeInv, Onward

\* The buffer b has one tuple less.
LEMMA PopHas ==
  ASSUME NEW B \in Bufs, NEW b \in Buffer, B[b] # << >>, NEW C, C = Pop(B, b)
  PROVE  /\ C \in Bufs /\ Head(B[b]) \in Nat /\ C[b] = Tail(B[b])
         /\ \A c \in Buffer : c # b => C[c] = B[c]
  <1>1. B[b] \in Seq(Nat) /\ Head(B[b]) \in Nat /\ Tail(B[b]) \in Seq(Nat)
    BY DEF Bufs
  <1> QED
    BY <1>1 DEF Pop, Bufs

\* The output of s may have a tuple more.
LEMMA EmitHas ==
  ASSUME NEW B \in Bufs, NEW s \in Stmt, NEW x \in Nat, NEW C, C \in Outputs(s, B, x)
  PROVE  /\ C \in Bufs
         /\ \/ C = B
            \/ C[Out[s]] = Append(B[Out[s]], x) /\ \A c \in Buffer : c # Out[s] => C[c] = B[c]
         /\ \A c \in Buffer : B[c] # << >> => C[c] # << >>
  <1>1. Out[s] \in Buffer
    BY InputHas
  <1>2. B[Out[s]] \in Seq(Nat)
    BY <1>1 DEF Bufs
  <1>3. PICK y : y = Append(B[Out[s]], x)
    OBVIOUS
  <1>4. y \in Seq(Nat) /\ y # << >>
    <2>1. Len(y) = Len(B[Out[s]]) + 1 /\ Len(B[Out[s]]) \in Nat /\ Len(<< >>) = 0
      BY <1>2, <1>3
    <2>2. y # << >>
      BY <2>1
    <2> QED
      BY <1>2, <1>3, <2>2
  <1>5. C = B \/ C = [B EXCEPT ![Out[s]] = y]
    BY <1>3 DEF Outputs, Emit
  <1> QED
    BY <1>1, <1>3, <1>4, <1>5 DEF Bufs

LEMMA EmitOne ==
  ASSUME NEW B, NEW s, NEW x PROVE Emit(s, B, x) \in Outputs(s, B, x)
  BY DEF Outputs

\* The least of a set of numbers.
LEMMA FirstHas ==
  ASSUME NEW S, S \subseteq Nat, S # {} PROVE First(S) \in S
  BY LeastNat DEF First

\* utStmt takes the tuple with the smallest timestamp.
LEMMA EarliestHas ==
  ASSUME NEW ins \in Seq(Buffer), ins # << >>, NEW B \in Bufs, NEW r, r = Earliest(ins, B),
         r.rc # "no_input"
  PROVE  /\ r.in \in ToSet(ins)
         /\ \A b \in ToSet(ins) : B[b] # << >> /\ Head(B[r.in]) <= Head(B[b])
  <1> DEFINE idle == {i \in DOMAIN ins : B[ins[i]] = << >>}
             least == {i \in DOMAIN ins : \A j \in DOMAIN ins :
                         Head(B[ins[i]]) <= Head(B[ins[j]])}
  <1>1. DOMAIN ins \subseteq Nat /\ 1 \in DOMAIN ins /\ \A i \in DOMAIN ins : ins[i] \in Buffer
    OBVIOUS
  <1>2. r = IF idle # {} THEN [rc |-> "no_input", in |-> ins[First(idle)]]
            ELSE [rc |-> "success", in |-> ins[First(least)]]
    BY DEF Earliest
  <1>3. idle = {} /\ r.in = ins[First(least)]
    <2> HIDE DEF idle, least
    <2> QED
      BY <1>2
  <1>4. \A i \in DOMAIN ins : B[ins[i]] # << >> /\ Head(B[ins[i]]) \in Nat
    <2>1. \A i \in DOMAIN ins : B[ins[i]] \in Seq(Nat) /\ B[ins[i]] # << >>
      BY <1>1, <1>3 DEF Bufs
    <2> QED
      BY <2>1
  <1>5. least # {}
    <2> DEFINE T == {Head(B[ins[i]]) : i \in DOMAIN ins}
    <2>1. T \subseteq Nat /\ T # {}
      BY <1>1, <1>4
    <2>2. PICK x \in T : \A y \in T : x <= y
      BY <2>1, LeastNat
    <2> QED
      BY <2>2
  <1>6. First(least) \in least
    <2>1. least \subseteq Nat
      BY <1>1
    <2> HIDE DEF least
    <2> QED
      BY <1>5, <2>1, FirstHas
  <1>7. PICK k \in DOMAIN ins : r.in = ins[k] /\ \A j \in DOMAIN ins :
                                   Head(B[ins[k]]) <= Head(B[ins[j]])
    BY <1>3, <1>6
  <1> QED
    BY <1>4, <1>7 DEF ToSet

\* utlStmt takes a tuple of the next input that has one.
LEMMA InTurnHas ==
  ASSUME NEW ins \in Seq(Buffer), ins # << >>, NEW B, NEW at, NEW r, r = InTurn(ins, B, at),
         r.rc # "no_input"
  PROVE  r.in \in ToSet(ins) /\ B[r.in] # << >>
  <1>1. PICK from : from = StartsAt(ins, at)
    OBVIOUS
  <1>2. PICK n : n = Len(ins) /\ n \in Nat \ {0} /\ DOMAIN ins = 1 .. n
    <2>1. Len(ins) \in Nat /\ DOMAIN ins = 1 .. Len(ins) /\ (Len(ins) = 0 => ins = << >>)
      OBVIOUS
    <2> QED
      BY <2>1
  <1>3. from \in 1 .. n
    <2> DEFINE S == {i \in DOMAIN ins : ins[i] = at}
    <2>1. CASE S # {}
      <3>1. S \subseteq Nat
        BY <1>2
      <3>2. First(S) \in S
        BY <2>1, <3>1, FirstHas
      <3> QED
        BY <1>1, <1>2, <2>1, <3>2 DEF StartsAt
    <2>2. CASE S = {}
      BY <1>1, <1>2, <2>2 DEF StartsAt
    <2> QED
      BY <2>1, <2>2
  <1>4. PICK round : round = Rotation(ins, from)
    OBVIOUS
  <1>5. round = [k \in 1 .. n |-> ins[((from + k - 2) % n) + 1]]
    BY <1>2, <1>4 DEF Rotation
  <1>6. \A k \in 1 .. n : ((from + k - 2) % n) + 1 \in 1 .. n
    BY <1>2, <1>3
  <1>7. \A k \in DOMAIN round : round[k] \in ToSet(ins)
    BY <1>2, <1>5, <1>6 DEF ToSet
  <1> DEFINE full == {k \in DOMAIN round : B[round[k]] # << >>}
  <1>8. r = IF full = {} THEN [rc |-> "no_input", in |-> round[1]]
            ELSE [rc |-> "success", in |-> round[First(full)]]
    BY <1>1, <1>4 DEF InTurn
  <1>9. full # {} /\ r.in = round[First(full)]
    <2> HIDE DEF full
    <2> QED
      BY <1>8
  <1>10. First(full) \in full
    <2>1. full \subseteq Nat
      BY <1>5
    <2> HIDE DEF full
    <2> QED
      BY <1>9, <2>1, FirstHas
  <1> QED
    BY <1>7, <1>9, <1>10

\* What a union takes its next tuple from.
Chosen(s) == IF s \in Timed THEN Earliest(Ins[s], buf) ELSE InTurn(Ins[s], buf, in[s])

LEMMA ChosenHas ==
  ASSUME NEW s \in Stmt, buf \in Bufs, NEW r, r = Chosen(s), r.rc # "no_input"
  PROVE  /\ r.in \in Reads(s) /\ buf[r.in] # << >>
         /\ s \in Timed => \A b \in Reads(s) : buf[b] # << >> /\ Head(buf[r.in]) <= Head(buf[b])
  <1>1. Ins[s] \in Seq(Buffer) /\ Ins[s] # << >>
    BY GraphAssumption
  <1>2. CASE s \in Timed
    <2>1. r = Earliest(Ins[s], buf)
      BY <1>2 DEF Chosen
    <2> QED
      BY <1>1, <2>1, EarliestHas DEF Reads
  <1>3. CASE s \notin Timed
    <2>1. r = InTurn(Ins[s], buf, in[s])
      BY <1>3 DEF Chosen
    <2> QED
      BY <1>1, <1>3, <2>1, InTurnHas DEF Reads
  <1> QED
    BY <1>2, <1>3

\* What RunFork does: the buffers B and counts a once the tuple has been popped, if
\* all branches are finished, and then those after s has run, if it does.
ForkStep(s, finished, B, a) ==
    LET b == InOf(s)
        own == <<b, Out[s]>>
        all == {d \in DOMAIN g.dummies : d[1] = b}
        marks == IF finished THEN done \ all ELSE done
    IN
    /\ finished \in BOOLEAN /\ (finished <=> all \subseteq done)
    /\ \/ finished /\ buf[b] # << >> /\ B = Pop(buf, b) /\ a = Passed(ahead, b)
       \/ ~ (finished /\ buf[b] # << >>) /\ B = buf /\ a = ahead
    /\ \/ /\ own \in marks \/ B[b] = << >>
          /\ buf' = B /\ done' = marks /\ ahead' = a
       \/ /\ own \notin marks /\ B[b] # << >>
          /\ buf' \in Outputs(s, B, Head(B[b])) /\ done' = marks \cup {own}
          /\ ahead' = [a EXCEPT ![s] = 1]

LEMMA ForkSteps ==
  ASSUME NEW s, RunFork(s) PROVE \E finished, B, a : ForkStep(s, finished, B, a)
  <1> DEFINE b == InOf(s)
             own == <<b, Out[s]>>
             all == {d \in DOMAIN g.dummies : d[1] = b}
             finished == all \subseteq done
             B == IF finished /\ buf[b] # << >> THEN Pop(buf, b) ELSE buf
             a == IF finished /\ buf[b] # << >> THEN Passed(ahead, b) ELSE ahead
             marks == IF finished THEN done \ all ELSE done
  <1>1. IF own \in marks \/ B[b] = << >>
         THEN buf' = B /\ done' = marks /\ ahead' = a
         ELSE /\ buf' \in Outputs(s, B, Head(B[b]))
              /\ done' = marks \cup {own}
              /\ ahead' = [a EXCEPT ![s] = 1]
    BY DEF RunFork
  <1>2. ForkStep(s, finished, B, a)
    BY <1>1 DEF ForkStep
  <1> QED
    BY <1>2

\* The counts of one buffer's readers go down.
LEMMA PassedHas ==
  ASSUME NEW a \in [Stmt -> Int], NEW b
  PROVE  /\ Passed(a, b) \in [Stmt -> Int]
         /\ \A s \in Stmt : Passed(a, b)[s] = IF s \in g.stmts /\ b = InOf(s) THEN a[s] - 1 ELSE a[s]
  <1>1. \A s \in Stmt : a[s] \in Int /\ a[s] - 1 \in Int
    OBVIOUS
  <1> QED
    BY <1>1 DEF Passed

\* Every step keeps the types.
LEMMA TypeNext ==
  ASSUME TypeInv, [Next]_vars PROVE TypeInv'
  <1>0. /\ buf \in Bufs /\ clock \in Nat /\ order \in Seq(Stmt) /\ pos \in 0 .. Len(order)
        /\ ahead \in [Stmt -> Int] /\ Len(order) \in Nat
    BY DEF TypeInv
  <1>1. ASSUME Start PROVE TypeInv'
    <2>1. 1 \in 0 .. Len(order)
      <3>1. Len(order) # 0
        BY <1>0, <1>1 DEF Start
      <3> QED
        BY <1>0, <3>1
    <2> QED
      BY <1>0, <1>1, <2>1 DEF Start, TypeInv
  <1>2. ASSUME NEW b \in Buffer, Arrive(b) PROVE TypeInv'
    <2>1. clock' \in Nat /\ buf' = [buf EXCEPT ![b] = Append(@, clock')]
      BY <1>0, <1>2 DEF Arrive
    <2>2. Append(buf[b], clock') \in Seq(Nat)
      BY <1>0, <2>1 DEF Bufs
    <2>3. buf' \in Bufs
      BY <1>0, <2>1, <2>2 DEF Bufs
    <2> QED
      BY <1>0, <1>2, <2>1, <2>3 DEF Arrive, TypeInv
  <1>3. ASSUME NEW q \in Query, Activate(q) PROVE TypeInv'
    <2>1. order \o Flow(q) \in Seq(Stmt)
      BY <1>0, FlowHas, ConcatHas
    <2>2. order' \in Seq(Stmt) /\ pos' = 0 /\ UNCHANGED <<buf, clock, ahead>>
      BY <1>3, <2>1 DEF Activate
    <2>3. Len(order') \in Nat
      BY <2>2
    <2> QED
      BY <1>0, <2>2, <2>3 DEF TypeInv
  <1>4. ASSUME NEW q \in Query, Deactivate(q) PROVE TypeInv'
    <2>1. Without(order, ToSet(Flow(q))) \in Seq(Stmt)
      BY <1>0, WithoutHas
    <2>2. /\ order' \in Seq(Stmt) /\ pos' = 0 /\ UNCHANGED <<buf, clock>>
          /\ ahead' = [s \in Stmt |-> IF s \in ToSet(Flow(q)) THEN 0 ELSE ahead[s]]
      BY <1>4, <2>1 DEF Deactivate
    <2>3. Len(order') \in Nat /\ ahead' \in [Stmt -> Int]
      BY <1>0, <2>2
    <2> QED
      BY <1>0, <2>2, <2>3 DEF TypeInv
  <1>5. ASSUME pos > 0, Leaves(Turn) PROVE TypeInv'
    BY <1>0, <1>5 DEF Leaves, TypeInv
  <1>6. ASSUME pos > 0, Onward, UNCHANGED <<order, clock>>, buf' \in Bufs, ahead' \in [Stmt -> Int]
        PROVE  TypeInv'
    BY <1>0, <1>6, OnwardHas DEF TypeInv
  <1>7. ASSUME pos > 0, RunPlain(Turn) PROVE TypeInv'
    <2>1. PICK s, b : s = Turn /\ s \in Stmt /\ b = InOf(s) /\ b \in Buffer
      BY <1>7, TurnHas, InputHas
    <2>2. CASE buf[b] = << >>
      BY <1>0, <1>6, <1>7, <2>1, <2>2 DEF RunPlain
    <2>3. CASE buf[b] # << >>
      <3>1. PICK B, x, a : B = Pop(buf, b) /\ x = Head(buf[b]) /\ a = [ahead EXCEPT ![s] = 1]
        OBVIOUS
      <3>2. B \in Bufs /\ x \in Nat /\ a \in [Stmt -> Int]
        BY <1>0, <2>1, <2>3, <3>1, PopHas
      <3>3. buf' \in Outputs(s, B, x) /\ ahead' = Passed(a, b)
        BY <1>7, <2>1, <2>3, <3>1 DEF RunPlain
      <3>4. buf' \in Bufs /\ ahead' \in [Stmt -> Int]
        BY <2>1, <3>2, <3>3, EmitHas, PassedHas
      <3> QED
        BY <1>6, <1>7, <3>4 DEF RunPlain
    <2> QED
      BY <2>2, <2>3
  <1>8. ASSUME pos > 0, RunFork(Turn) PROVE TypeInv'
    <2>1. PICK s : s = Turn /\ s \in Stmt
      BY <1>8, TurnHas
    <2>2. PICK finished, B, a : ForkStep(s, finished, B, a)
      BY <1>8, <2>1, ForkSteps
    <2>3. B \in Bufs /\ a \in [Stmt -> Int] /\ InOf(s) \in Buffer
      BY <1>0, <2>1, <2>2, PopHas, PassedHas, InputHas DEF ForkStep
    <2>4. buf' \in Bufs /\ ahead' \in [Stmt -> Int]
      <3>1. CASE buf' = B /\ ahead' = a
        BY <2>3, <3>1
      <3>2. CASE B[InOf(s)] # << >> /\ buf' \in Outputs(s, B, Head(B[InOf(s)])) /\ ahead' = [a EXCEPT ![s] = 1]
        <4>1. Head(B[InOf(s)]) \in Nat
          BY <2>3, <3>2, PopHas
        <4> QED
          BY <2>1, <2>3, <3>2, <4>1, EmitHas
      <3> QED
        BY <2>2, <3>1, <3>2 DEF ForkStep
    <2> QED
      BY <1>6, <1>8, <2>4 DEF RunFork
  <1>9. ASSUME pos > 0, RunUnion(Turn) PROVE TypeInv'
    <2>1. PICK s, r : s = Turn /\ s \in Stmt /\ r = Chosen(s)
      BY <1>9, TurnHas
    <2>2. CASE r.rc = "no_input"
      BY <1>0, <1>6, <1>9, <2>1, <2>2 DEF RunUnion, Chosen
    <2>3. CASE r.rc # "no_input"
      <3>1. PICK B, x : B = Pop(buf, r.in) /\ x = Head(buf[r.in])
        OBVIOUS
      <3>2. r.in \in Buffer /\ buf[r.in] # << >>
        BY <1>0, <2>1, <2>3, ChosenHas, LastRead
      <3>3. B \in Bufs /\ x \in Nat
        BY <1>0, <3>1, <3>2, PopHas
      <3>4. buf' = Emit(s, B, x)
        BY <1>9, <2>1, <2>3, <3>1 DEF RunUnion, Chosen
      <3>5. buf' \in Bufs
        BY <2>1, <3>3, <3>4, EmitOne, EmitHas
      <3> QED
        BY <1>0, <1>6, <1>9, <3>5 DEF RunUnion
    <2> QED
      BY <2>2, <2>3
  <1>10. ASSUME UNCHANGED vars PROVE TypeInv'
    BY <1>0, <1>10 DEF vars, TypeInv
  <1> QED
    BY <1>1, <1>2, <1>3, <1>4, <1>5, <1>7, <1>8, <1>9, <1>10 DEF Next, Visit

LEMMA TypeInit == Init => TypeInv
  <1> SUFFICES ASSUME Init PROVE TypeInv
    OBVIOUS
  <1>1. << >> \in Seq(Nat) /\ << >> \in Seq(Stmt) /\ Len(<< >>) = 0
    OBVIOUS
  <1>2. buf \in Bufs /\ ahead \in [Stmt -> Int]
    BY <1>1 DEF Init, Bufs
  <1> QED
    BY <1>1, <1>2 DEF Init, TypeInv

-----------------------------------------------------------------------------
(* The order of tuples                                                      *)

\* In the buffers of O tuples are in order, by the way they come about: what is
\* upstream of a timed union is in O, no I/O module writes where a statement does,
\* nobody else writes there, and timeless unions are elsewhere.
InOrder(O) ==
    /\ O \subseteq Buffer /\ \A s \in Timed : Out[s] \in O
    /\ \A s \in Stmt : Out[s] \in O =>
         /\ Reads(s) \subseteq O /\ Out[s] \notin Input
         /\ Type[s] = "union" => s \in Timed
         /\ \A r \in Stmt : Out[r] = Out[s] => r = s

Rising(q) == \A i \in DOMAIN q, j \in DOMAIN q : i <= j => q[i] <= q[j]
Below(q, x) == \A i \in DOMAIN q : q[i] <= x
Above(q, x) == \A i \in DOMAIN q : x <= q[i]

LEMMA RisingTail ==
  ASSUME NEW q \in Seq(Nat), q # << >>, Rising(q), NEW x, NEW t, x = Head(q), t = Tail(q)
  PROVE  /\ Rising(t) /\ Above(t, x) /\ Above(q, x) /\ x \in Nat /\ t \in Seq(Nat)
         /\ \A y \in Nat : Below(q, y) => Below(t, y) /\ x <= y
         /\ \A y \in Nat : Above(q, y) => Above(t, y) /\ y <= x
  <1>1. PICK n : n = Len(q) /\ n \in Nat /\ n >= 1
    <2>1. Len(q) \in Nat /\ (Len(q) = 0 => q = << >>)
      OBVIOUS
    <2> QED
      BY <2>1
  <1>2. /\ DOMAIN q = 1 .. n /\ DOMAIN t = 1 .. n - 1 /\ q[1] = x /\ x \in Nat /\ t \in Seq(Nat)
        /\ \A i \in 1 .. n : q[i] \in Nat
        /\ \A i \in 1 .. n - 1 : t[i] = q[i + 1] /\ i + 1 \in 1 .. n
    BY <1>1
  <1>3. 1 \in 1 .. n
    BY <1>1
  <1>4. Rising(t)
    <2>1. ASSUME NEW i \in 1 .. n - 1, NEW j \in 1 .. n - 1, i <= j PROVE t[i] <= t[j]
      <3>1. i + 1 <= j + 1
        BY <1>1, <2>1
      <3> QED
        BY <1>2, <3>1 DEF Rising
    <2> QED
      BY <1>2, <2>1 DEF Rising
  <1>5. Above(q, x)
    <2>1. \A i \in 1 .. n : 1 <= i
      BY <1>1
    <2> QED
      BY <1>2, <1>3, <2>1 DEF Rising, Above
  <1>6. Above(t, x)
    BY <1>2, <1>5 DEF Above
  <1>7. \A y \in Nat : Below(q, y) => Below(t, y) /\ x <= y
    BY <1>2, <1>3 DEF Below
  <1>8. \A y \in Nat : Above(q, y) => Above(t, y) /\ y <= x
    BY <1>2, <1>3 DEF Above
  <1> QED
    BY <1>2, <1>4, <1>5, <1>6, <1>7, <1>8

LEMMA RisingAppend ==
  ASSUME NEW q \in Seq(Nat), NEW x \in Nat, NEW t, t = Append(q, x)
  PROVE  /\ Rising(q) /\ Below(q, x) => Rising(t)
         /\ Below(q, x) => Below(t, x)
         /\ \A y \in Nat : y <= x /\ Below(q, y) => Below(q, x)
         /\ \A y \in Nat : y <= x /\ Above(q, y) => Above(t, y)
  <1>1. PICK n : n = Len(q) /\ n \in Nat
    OBVIOUS
  <1>2. /\ DOMAIN q = 1 .. n /\ DOMAIN t = 1 .. n + 1 /\ t[n + 1] = x
        /\ \A i \in 1 .. n : t[i] = q[i] /\ q[i] \in Nat
    BY <1>1
  <1>3. \A i \in 1 .. n + 1 : i \in 1 .. n \/ i = n + 1
    BY <1>1
  <1>4. ASSUME Rising(q), Below(q, x) PROVE Rising(t)
    <2>1. ASSUME NEW i \in 1 .. n + 1, NEW j \in 1 .. n + 1, i <= j PROVE t[i] <= t[j]
      <3>1. CASE j \in 1 .. n
        <4>1. i \in 1 .. n
          BY <1>1, <2>1, <3>1
        <4> QED
          BY <1>2, <1>4, <2>1, <3>1, <4>1 DEF Rising
      <3>2. CASE j = n + 1 /\ i \in 1 .. n
        BY <1>2, <1>4, <3>2 DEF Below
      <3>3. CASE j = n + 1 /\ i = n + 1
        BY <1>2, <3>3
      <3> QED
        BY <1>3, <3>1, <3>2, <3>3
    <2> QED
      BY <1>2, <2>1 DEF Rising
  <1>5. Below(q, x) => Below(t, x)
    <2>1. ASSUME Below(q, x), NEW i \in 1 .. n + 1 PROVE t[i] <= x
      <3>1. CASE i \in 1 .. n
        BY <1>2, <2>1, <3>1 DEF Below
      <3>2. CASE i = n + 1
        BY <1>2, <3>2
      <3> QED
        BY <1>3, <3>1, <3>2
    <2> QED
      BY <1>2, <2>1 DEF Below
  <1>6. \A y \in Nat : y <= x /\ Below(q, y) => Below(q, x)
    BY <1>2 DEF Below
  <1>7. \A y \in Nat : y <= x /\ Above(q, y) => Above(t, y)
    BY <1>2, <1>3 DEF Above
  <1> QED
    BY <1>4, <1>5, <1>6, <1>7

\* m[b] is at least what has come into b, and at most what will come: everything
\* a reader has put out is at most what it has still to read.
Sorted(B, m, O) ==
    /\ \A b \in O : Rising(B[b]) /\ Below(B[b], m[b])
    /\ \A s \in Stmt : Out[s] \in O =>
         \A b \in Reads(s) : m[Out[s]] <= m[b] /\ Above(B[b], m[Out[s]])

\* The first tuple of b is popped.
LEMMA SortPop ==
  ASSUME NEW O, InOrder(O), NEW m \in [Buffer -> Nat], NEW B \in Bufs, Sorted(B, m, O),
         NEW b \in Buffer, B[b] # << >>, NEW C, C = Pop(B, b), NEW x, x = Head(B[b])
  PROVE  /\ Sorted(C, m, O)
         /\ b \in O => x <= m[b] /\ Above(C[b], x) /\ Above(B[b], x)
         /\ \A s \in Stmt : Out[s] \in O /\ b \in Reads(s) => m[Out[s]] <= x
  <1>1. /\ B[b] \in Seq(Nat) /\ C[b] = Tail(B[b]) /\ \A c \in Buffer : c # b => C[c] = B[c]
        /\ m[b] \in Nat /\ O \subseteq Buffer
    <2>1. C[b] = Tail(B[b]) /\ \A c \in Buffer : c # b => C[c] = B[c]
      BY PopHas
    <2>2. B[b] \in Seq(Nat)
      BY DEF Bufs
    <2> QED
      BY <2>1, <2>2 DEF InOrder
  <1>2. b \in O => /\ Rising(B[b]) /\ Below(B[b], m[b])
                   /\ Rising(C[b]) /\ Below(C[b], m[b]) /\ x <= m[b]
                   /\ Above(C[b], x) /\ Above(B[b], x)
                   /\ \A y \in Nat : Above(B[b], y) => Above(C[b], y) /\ y <= x
    BY <1>1, RisingTail DEF Sorted
  <1>3. ASSUME NEW s \in Stmt, Out[s] \in O, NEW c \in Reads(s)
        PROVE  /\ m[Out[s]] <= m[c] /\ Above(C[c], m[Out[s]])
               /\ c = b => m[Out[s]] <= x
    <2>1. /\ c \in O /\ c \in Buffer /\ m[Out[s]] \in Nat /\ m[Out[s]] <= m[c]
          /\ Above(B[c], m[Out[s]])
      BY <1>3, InputHas, LastRead DEF InOrder, Sorted
    <2> QED
      BY <1>1, <1>2, <2>1
  <1>4. \A c \in O : Rising(C[c]) /\ Below(C[c], m[c])
    BY <1>1, <1>2 DEF Sorted
  <1> QED
    BY <1>2, <1>3, <1>4 DEF Sorted

\* s puts x out.
LEMMA SortEmit ==
  ASSUME NEW O, InOrder(O), NEW m \in [Buffer -> Nat], NEW B \in Bufs, Sorted(B, m, O),
         NEW s \in Stmt, NEW x \in Nat,
         Out[s] \in O => /\ m[Out[s]] <= x
                         /\ \A b \in Reads(s) : x <= m[b] /\ Above(B[b], x),
         NEW C, C \in Outputs(s, B, x)
  PROVE  \E n \in [Buffer -> Nat] : Sorted(C, n, O) /\ \A b \in O \cap Input : n[b] = m[b]
  <1>1. PICK o : o = Out[s] /\ o \in Buffer
    BY InputHas
  <1>2. CASE C = B
    BY <1>2
  <1>3. CASE C # B
    <2>1. /\ C \in Bufs /\ C[o] = Append(B[o], x) /\ B[o] \in Seq(Nat)
          /\ \A c \in Buffer : c # o => C[c] = B[c]
      <3>1. /\ C \in Bufs /\ C[o] = Append(B[o], x)
            /\ \A c \in Buffer : c # o => C[c] = B[c]
        BY <1>1, <1>3, EmitHas
      <3>2. B[o] \in Seq(Nat)
        BY <1>1 DEF Bufs
      <3> QED
        BY <3>1, <3>2
    <2>2. CASE o \notin O
      <3>1. \A b \in O : C[b] = B[b]
        BY <2>1, <2>2 DEF InOrder
      <3>2. \A r \in Stmt : Out[r] \in O => \A b \in Reads(r) : b \in O
        BY DEF InOrder
      <3>3. Sorted(C, m, O)
        BY <3>1, <3>2 DEF Sorted
      <3> QED
        BY <3>3
    <2>3. CASE o \in O
      <3>1. PICK n : n = [m EXCEPT ![o] = x]
        OBVIOUS
      <3>2. /\ n \in [Buffer -> Nat] /\ n[o] = x /\ \A b \in Buffer : b # o => n[b] = m[b]
            /\ m[o] \in Nat /\ m[o] <= x
        BY <1>1, <2>3, <3>1
      <3>3. \A b \in O \cap Input : n[b] = m[b]
        BY <1>1, <2>3, <3>2 DEF InOrder
      <3>4. /\ Rising(B[o]) /\ Below(B[o], x)
            /\ Rising(C[o]) /\ Below(C[o], x)
            /\ \A y \in Nat : y <= x /\ Above(B[o], y) => Above(C[o], y)
        <4>1. Rising(B[o]) /\ Below(B[o], m[o])
          BY <2>3 DEF Sorted
        <4> QED
          BY <2>1, <3>2, <4>1, RisingAppend
      <3>5. ASSUME NEW b \in O PROVE Rising(C[b]) /\ Below(C[b], n[b])
        <4>1. b \in Buffer /\ Rising(B[b]) /\ Below(B[b], m[b])
          BY DEF InOrder, Sorted
        <4> QED
          BY <2>1, <3>2, <3>4, <4>1
      <3>6. ASSUME NEW r \in Stmt, Out[r] \in O, NEW b \in Reads(r)
            PROVE  n[Out[r]] <= n[b] /\ Above(C[b], n[Out[r]])
        <4>1. /\ b \in Buffer /\ Out[r] \in Buffer /\ Out[r] # b
              /\ m[Out[r]] \in Nat /\ m[b] \in Nat
              /\ m[Out[r]] <= m[b] /\ Above(B[b], m[Out[r]])
          BY <3>6, InputHas, LastRead DEF Sorted
        <4>2. CASE r = s
          <5>1. x <= m[b] /\ Above(B[b], x) /\ b # o
            BY <1>1, <2>3, <3>6, <4>1, <4>2
          <5> QED
            BY <1>1, <2>1, <3>2, <4>1, <4>2, <5>1
        <4>3. CASE r # s
          <5>1. Out[r] # o /\ n[Out[r]] = m[Out[r]]
            <6>1. Out[r] # o
              BY <1>1, <2>3, <4>3 DEF InOrder
            <6> QED
              BY <3>2, <4>1, <6>1
          <5>2. CASE b = o
            <6>1. m[Out[r]] <= x
              BY <3>2, <4>1, <5>2
            <6> QED
              BY <3>2, <3>4, <4>1, <5>1, <5>2, <6>1
          <5>3. CASE b # o
            BY <2>1, <3>2, <4>1, <5>1, <5>3
          <5> QED
            BY <5>2, <5>3
        <4> QED
          BY <4>2, <4>3
      <3>7. Sorted(C, n, O)
        BY <3>5, <3>6 DEF Sorted
      <3> QED
        BY <3>2, <3>3, <3>7
    <2> QED
      BY <2>2, <2>3
  <1> QED
    BY <1>2, <1>3

\* What has come into a buffer that I/O modules write is not from the future.
SortInv(O) ==
    \E m \in [Buffer -> Nat] : Sorted(buf, m, O) /\ \A b \in O \cap Input : m[b] <= clock

LEMMA SortInit ==
  ASSUME NEW O, InOrder(O), Init PROVE SortInv(O)
  <1> DEFINE m == [b \in Buffer |-> 0]
  <1>1. O \subseteq Buffer /\ buf = [b \in Buffer |-> << >>]
    BY DEF InOrder, Init
  <1>2. \A x : Rising(<< >>) /\ Below(<< >>, x) /\ Above(<< >>, x)
    <2>1. DOMAIN << >> = {}
      OBVIOUS
    <2> QED
      BY <2>1 DEF Rising, Below, Above
  <1>3. \A s \in Stmt : Out[s] \in Buffer /\ Reads(s) \subseteq Buffer
    BY LastRead
  <1>4. \A b \in Buffer : m[b] = 0 /\ buf[b] = << >>
    BY <1>1
  <1>5. m \in [Buffer -> Nat]
    OBVIOUS
  <1> HIDE DEF m
  <1>6. Sorted(buf, m, O)
    <2>1. \A b \in O : Rising(buf[b]) /\ Below(buf[b], m[b])
      BY <1>1, <1>2, <1>4
    <2>2. \A s \in Stmt : \A b \in Reads(s) : m[Out[s]] <= m[b] /\ Above(buf[b], m[Out[s]])
      BY <1>2, <1>3, <1>4
    <2> QED
      BY <2>1, <2>2 DEF Sorted
  <1>7. clock = 0 /\ \A b \in O \cap Input : m[b] <= clock
    BY <1>1, <1>4 DEF Init
  <1> QED
    BY <1>5, <1>6, <1>7 DEF SortInv

\* A tuple that arrives is later than all others.
LEMMA SortArrive ==
  ASSUME NEW O, InOrder(O), TypeInv, SortInv(O), NEW b \in Buffer, Arrive(b)
  PROVE  SortInv(O)'
  <1>1. PICK m \in [Buffer -> Nat] :
          Sorted(buf, m, O) /\ \A c \in O \cap Input : m[c] <= clock
    BY DEF SortInv
  <1>2. PICK x : x = clock' /\ x = clock + 1 /\ clock \in Nat /\ x \in Nat
    BY DEF Arrive, TypeInv
  <1>3. /\ buf \in Bufs /\ b \in Input /\ buf[b] \in Seq(Nat) /\ buf'[b] = Append(buf[b], x)
        /\ \A c \in Buffer : c # b => buf'[c] = buf[c]
    BY <1>2 DEF Arrive, TypeInv, Bufs
  <1>4. O \subseteq Buffer
    BY DEF InOrder
  <1>5. CASE b \notin O
    <2>1. \A c \in O : buf'[c] = buf[c]
      BY <1>3, <1>4, <1>5
    <2>2. \A r \in Stmt : Out[r] \in O => \A c \in Reads(r) : c \in O
      BY DEF InOrder
    <2>3. Sorted(buf', m, O)
      BY <1>1, <2>1, <2>2 DEF Sorted
    <2>4. \A c \in O \cap Input : m[c] <= clock'
      BY <1>1, <1>2, <1>4
    <2> QED
      BY <2>3, <2>4 DEF SortInv
  <1>6. CASE b \in O
    <2>1. PICK n : n = [m EXCEPT ![b] = x]
      OBVIOUS
    <2>2. /\ n \in [Buffer -> Nat] /\ n[b] = x /\ \A c \in Buffer : c # b => n[c] = m[c]
          /\ m[b] \in Nat /\ m[b] <= x
      BY <1>1, <1>2, <1>3, <1>6, <2>1
    <2>3. /\ Rising(buf'[b]) /\ Below(buf'[b], x)
          /\ \A y \in Nat : y <= x /\ Above(buf[b], y) => Above(buf'[b], y)
      <3>1. Rising(buf[b]) /\ Below(buf[b], m[b])
        BY <1>1, <1>6 DEF Sorted
      <3> QED
        BY <1>2, <1>3, <2>2, <3>1, RisingAppend
    <2>4. ASSUME NEW c \in O PROVE Rising(buf'[c]) /\ Below(buf'[c], n[c])
      <3>1. c \in Buffer /\ Rising(buf[c]) /\ Below(buf[c], m[c])
        BY <1>1, <1>4 DEF Sorted
      <3> QED
        BY <1>3, <2>2, <2>3, <3>1
    <2>5. ASSUME NEW r \in Stmt, Out[r] \in O, NEW c \in Reads(r)
          PROVE  n[Out[r]] <= n[c] /\ Above(buf'[c], n[Out[r]])
      <3>1. /\ c \in Buffer /\ Out[r] \in Buffer /\ Out[r] # b
            /\ m[Out[r]] \in Nat /\ m[c] \in Nat
            /\ m[Out[r]] <= m[c] /\ Above(buf[c], m[Out[r]])
        BY <1>1, <1>3, <2>5, LastRead DEF Sorted, InOrder
      <3>2. n[Out[r]] = m[Out[r]]
        BY <2>2, <3>1
      <3>3. CASE c = b
        <4>1. m[Out[r]] <= x
          BY <1>2, <2>2, <3>1, <3>3
        <4> QED
          BY <2>2, <2>3, <3>1, <3>2, <3>3, <4>1
      <3>4. CASE c # b
        BY <1>3, <2>2, <3>1, <3>2, <3>4
      <3> QED
        BY <3>3, <3>4
    <2>6. Sorted(buf', n, O)
      BY <2>4, <2>5 DEF Sorted
    <2>7. ASSUME NEW c \in O \cap Input PROVE n[c] <= clock'
      <3>1. c \in Buffer /\ m[c] \in Nat /\ m[c] <= clock
        BY <1>1, <1>4
      <3> QED
        BY <1>2, <2>2, <3>1
    <2> QED
      BY <2>2, <2>6, <2>7 DEF SortInv
  <1> QED
    BY <1>5, <1>6

\* A visit of s takes tuples as m allows.
LEMMA SortPuts ==
  ASSUME NEW O, InOrder(O), NEW m \in [Buffer -> Nat], \A b \in O \cap Input : m[b] <= clock,
         UNCHANGED clock, NEW B \in Bufs, Sorted(B, m, O), NEW s \in Stmt, NEW x \in Nat,
         Out[s] \in O => /\ m[Out[s]] <= x
                         /\ \A b \in Reads(s) : x <= m[b] /\ Above(B[b], x),
         buf' \in Outputs(s, B, x)
  PROVE  SortInv(O)'
  <1>1. PICK n \in [Buffer -> Nat] :
          Sorted(buf', n, O) /\ \A b \in O \cap Input : n[b] = m[b]
    BY SortEmit
  <1>2. \A b \in O \cap Input : n[b] <= clock'
    BY <1>1
  <1> QED
    BY <1>1, <1>2 DEF SortInv

LEMMA SortSame ==
  ASSUME NEW O, SortInv(O), UNCHANGED <<buf, clock>> PROVE SortInv(O)'
  BY DEF SortInv

LEMMA SortPlain ==
  ASSUME NEW O, InOrder(O), TypeInv, SortInv(O), pos > 0, Type[Turn] = "normal", RunPlain(Turn)
  PROVE  SortInv(O)'
  <1>1. PICK s, b : s = Turn /\ s \in Stmt /\ b = InOf(s) /\ b \in Buffer /\ b \in Reads(s)
    BY TurnHas, InputHas
  <1>2. Reads(s) = {b}
    BY <1>1, LastRead
  <1>3. CASE buf[b] = << >>
    BY <1>1, <1>3, SortSame DEF RunPlain
  <1>4. CASE buf[b] # << >>
    <2>1. PICK m \in [Buffer -> Nat] :
            Sorted(buf, m, O) /\ \A c \in O \cap Input : m[c] <= clock
      BY DEF SortInv
    <2>2. PICK B, x : B = Pop(buf, b) /\ x = Head(buf[b])
      OBVIOUS
    <2>3. buf \in Bufs /\ B \in Bufs /\ x \in Nat
      <3>1. buf \in Bufs
        BY DEF TypeInv
      <3> QED
        BY <1>1, <1>4, <2>2, <3>1, PopHas
    <2>4. /\ Sorted(B, m, O)
          /\ b \in O => x <= m[b] /\ Above(B[b], x)
          /\ \A r \in Stmt : Out[r] \in O /\ b \in Reads(r) => m[Out[r]] <= x
      BY <1>1, <1>4, <2>1, <2>2, <2>3, SortPop
    <2>5. Out[s] \in O => /\ m[Out[s]] <= x
                          /\ \A c \in Reads(s) : x <= m[c] /\ Above(B[c], x)
      BY <1>1, <1>2, <2>4 DEF InOrder
    <2>6. buf' \in Outputs(s, B, x) /\ UNCHANGED clock
      BY <1>1, <1>4, <2>2 DEF RunPlain
    <2> QED
      BY <1>1, <2>1, <2>3, <2>4, <2>5, <2>6, SortPuts
  <1> QED
    BY <1>3, <1>4

LEMMA SortFork ==
  ASSUME NEW O, InOrder(O), TypeInv, SortInv(O), pos > 0, Type[Turn] = "normal", RunFork(Turn)
  PROVE  SortInv(O)'
  <1>1. PICK s, b : s = Turn /\ s \in Stmt /\ b = InOf(s) /\ b \in Buffer /\ b \in Reads(s)
    BY TurnHas, InputHas
  <1>2. Reads(s) = {b}
    BY <1>1, LastRead
  <1>3. PICK finished, B, a : ForkStep(s, finished, B, a)
    BY <1>1, ForkSteps
  <1>4. PICK m \in [Buffer -> Nat] :
          Sorted(buf, m, O) /\ \A c \in O \cap Input : m[c] <= clock
    BY DEF SortInv
  <1>5. buf \in Bufs /\ UNCHANGED clock
    BY DEF TypeInv, RunFork
  <1>6. B \in Bufs /\ Sorted(B, m, O)
    BY <1>1, <1>3, <1>4, <1>5, PopHas, SortPop DEF ForkStep
  <1>7. CASE buf' = B
    BY <1>4, <1>5, <1>6, <1>7 DEF SortInv
  <1>8. CASE buf' # B
    <2>1. PICK x : x = Head(B[b]) /\ B[b] # << >> /\ buf' \in Outputs(s, B, x)
      BY <1>1, <1>3, <1>8 DEF ForkStep
    <2>2. /\ b \in O => x <= m[b] /\ Above(B[b], x)
          /\ \A r \in Stmt : Out[r] \in O /\ b \in Reads(r) => m[Out[r]] <= x
      BY <1>1, <1>4, <1>6, <2>1, SortPop
    <2>3. x \in Nat
      BY <1>1, <1>6, <2>1, PopHas
    <2>4. Out[s] \in O => /\ m[Out[s]] <= x
                          /\ \A c \in Reads(s) : x <= m[c] /\ Above(B[c], x)
      BY <1>1, <1>2, <2>2 DEF InOrder
    <2> QED
      BY <1>1, <1>4, <1>5, <1>6, <2>1, <2>3, <2>4, SortPuts
  <1> QED
    BY <1>7, <1>8

\* A timed union takes the earliest tuple of all.
LEMMA SortUnion ==
  ASSUME NEW O, InOrder(O), TypeInv, SortInv(O), pos > 0, RunUnion(Turn)
  PROVE  SortInv(O)'
  <1>1. PICK s, r : s = Turn /\ s \in Stmt /\ r = Chosen(s)
    BY TurnHas
  <1>2. CASE r.rc = "no_input"
    BY <1>1, <1>2, SortSame DEF RunUnion, Chosen
  <1>3. CASE r.rc # "no_input"
    <2>1. PICK m \in [Buffer -> Nat] :
            Sorted(buf, m, O) /\ \A c \in O \cap Input : m[c] <= clock
      BY DEF SortInv
    <2>2. PICK b, B, x : b = r.in /\ B = Pop(buf, b) /\ x = Head(buf[b])
      OBVIOUS
    <2>3. /\ buf \in Bufs /\ b \in Reads(s) /\ b \in Buffer /\ buf[b] # << >>
          /\ s \in Timed => \A c \in Reads(s) : buf[c] # << >> /\ x <= Head(buf[c])
      <3>1. buf \in Bufs
        BY DEF TypeInv
      <3> QED
        BY <1>1, <1>3, <2>2, <3>1, ChosenHas, LastRead
    <2>4. /\ B \in Bufs /\ x \in Nat /\ B[b] = Tail(buf[b])
          /\ \A c \in Buffer : c # b => B[c] = buf[c]
      BY <2>2, <2>3, PopHas
    <2>5. /\ Sorted(B, m, O)
          /\ b \in O => Above(B[b], x)
          /\ \A q \in Stmt : Out[q] \in O /\ b \in Reads(q) => m[Out[q]] <= x
      BY <2>1, <2>2, <2>3, SortPop
    <2>6. ASSUME Out[s] \in O, NEW c \in Reads(s) PROVE x <= m[c] /\ Above(B[c], x)
      <3>1. s \in Timed /\ c \in O /\ c \in Buffer /\ b \in O
        <4>1. Type[s] = "union"
          BY <1>1 DEF RunUnion
        <4> QED
          BY <1>1, <2>3, <2>6, <4>1 DEF InOrder
      <3>2. PICK y : y = Head(buf[c]) /\ buf[c] # << >> /\ x <= y
        BY <2>3, <3>1
      <3>3. y \in Nat /\ y <= m[c] /\ Above(buf[c], y) /\ m[c] \in Nat
        <4>1. y \in Nat
          BY <2>3, <3>1, <3>2, PopHas
        <4>2. y <= m[c] /\ Above(buf[c], y)
          BY <2>1, <2>3, <3>1, <3>2, SortPop
        <4> QED
          BY <3>1, <4>1, <4>2
      <3>4. x <= m[c]
        BY <2>4, <3>2, <3>3
      <3>5. CASE c = b
        BY <2>5, <3>1, <3>4, <3>5
      <3>6. CASE c # b
        <4>1. B[c] = buf[c] /\ buf[c] \in Seq(Nat)
          BY <2>3, <2>4, <3>1, <3>6 DEF Bufs
        <4>2. \A i \in DOMAIN buf[c] : buf[c][i] \in Nat
          BY <4>1
        <4>3. Above(buf[c], x)
          BY <2>4, <3>2, <3>3, <4>2 DEF Above
        <4> QED
          BY <3>4, <4>1, <4>3
      <3> QED
        BY <3>5, <3>6
    <2>7. Out[s] \in O => m[Out[s]] <= x
      BY <1>1, <2>3, <2>5
    <2>8. buf' = Emit(s, B, x) /\ UNCHANGED clock
      BY <1>1, <1>3, <2>2 DEF RunUnion, Chosen
    <2> QED
      BY <1>1, <2>1, <2>4, <2>5, <2>6, <2>7, <2>8, EmitOne, SortPuts
  <1> QED
    BY <1>2, <1>3

LEMMA SortNext ==
  ASSUME NEW O, InOrder(O), TypeInv, SortInv(O), [Next]_vars PROVE SortInv(O)'
  <1>1. CASE Start \/ UNCHANGED vars
    BY <1>1, SortSame DEF Start, vars
  <1>2. ASSUME NEW q \in Query, Activate(q) \/ Deactivate(q) PROVE SortInv(O)'
    BY <1>2, SortSame DEF Activate, Deactivate
  <1>3. ASSUME NEW b \in Buffer, Arrive(b) PROVE SortInv(O)'
    BY <1>3, SortArrive
  <1>4. CASE Visit
    <2>1. CASE Leaves(Turn)
      BY <2>1, SortSame DEF Leaves
    <2>2. CASE RunPlain(Turn)
      BY <1>4, <2>2, SortPlain DEF Visit, RunPlain
    <2>3. CASE RunFork(Turn)
      BY <1>4, <2>3, SortFork DEF Visit, RunFork
    <2>4. CASE RunUnion(Turn)
      BY <1>4, <2>4, SortUnion DEF Visit
    <2> QED
      BY <1>4, <2>1, <2>2, <2>3, <2>4 DEF Visit
  <1> QED
    BY <1>1, <1>2, <1>3, <1>4 DEF Next

\* The output of a timed union is in order (Ordered), whatever its branches filter,
\* however they lag and whenever queries come and go; with no timeless union and no
\* second writer upstream of it.
THEOREM UnionsOrdered ==
  ASSUME NEW O, InOrder(O) PROVE Spec => []Ordered
  <1>1. TypeInv /\ SortInv(O) => Ordered
    <2> SUFFICES ASSUME SortInv(O), NEW s \in Timed PROVE Rising(buf[Out[s]])
      BY DEF Ordered, Rising
    <2>1. PICK m \in [Buffer -> Nat] : Sorted(buf, m, O)
      BY DEF SortInv
    <2> QED
      BY <2>1 DEF Sorted, InOrder
  <1>2. Init => TypeInv /\ SortInv(O)
    BY TypeInit, SortInit
  <1>3. TypeInv /\ SortInv(O) /\ [Next]_vars => (TypeInv /\ SortInv(O))'
    BY TypeNext, SortNext
  <1> QED
    BY <1>1, <1>2, <1>3, PTL DEF Spec

-----------------------------------------------------------------------------
(* Each reader gets each tuple once                                         *)

\* Where the flags can tell: a union alone reads its inputs, which it pops without
\* looking at flags, and a merge_fork, which is read without them, does not come up.
Unshared ==
    /\ \A s, r \in Stmt : Type[s] = "union" /\ Reads(s) \cap Reads(r) # {} => r = s
    /\ \A u, s, r \in Stmt :
         Type[u] = "union" /\ Out[u] \in Reads(s) /\ Out[u] \in Reads(r) => r = s

\* A flag is that of a branch of a fork whose first tuple is still there, and a
\* statement that is not active has processed nothing of what is in its input.
Flagged(gr, D, B) == \A d \in D : d \in DOMAIN gr.dummies /\ d[1] \in Buffer /\ B[d[1]] # << >>
Exact(S, D, a) ==
    \A s \in S : Type[s] = "normal" => a[s] = IF <<InOf(s), Out[s]>> \in D THEN 1 ELSE 0
FlagInv ==
    /\ Right(g) /\ ToSet(order) = g.stmts
    /\ Flagged(g, done, buf) /\ Exact(g.stmts, done, ahead)
    /\ \A s \in Stmt \ g.stmts : ahead[s] = 0

\* The dummies of a right graph are those of its forks' branches.
LEMMA DummyHas ==
  ASSUME NEW gr, Right(gr)
  PROVE  /\ \A d \in DOMAIN gr.dummies : Count(gr.stmts, d[1]) > 1 /\ d[1] \in Buffer
         /\ \A s \in gr.stmts : \A b \in Reads(s) : Count(gr.stmts, b) > 1 =>
              <<b, Out[s]>> \in DOMAIN gr.dummies /\ gr.dummies[<<b, Out[s]>>] = s
         /\ \A s \in Stmt : \A b : <<b, Out[s]>> \in DOMAIN gr.dummies =>
              \E r \in gr.stmts : Out[r] = Out[s] /\ b \in Reads(r)
  <1>1. Dummied(gr.dummies, gr.stmts) /\ gr.stmts \subseteq Stmt
    BY DEF Right, Apt
  <1>2. \A d \in DOMAIN gr.dummies : \E r \in gr.stmts : \E b \in Reads(r) :
          Count(gr.stmts, b) > 1 /\ d = <<b, Out[r]>>
    BY <1>1 DEF Dummied
  <1>3. \A r \in Stmt : Reads(r) \subseteq Buffer
    BY LastRead
  <1> QED
    BY <1>1, <1>2, <1>3 DEF Dummied

\* A buffer that is read by s alone, or by several.
LEMMA ReadByOne ==
  ASSUME NEW gr, Right(gr), NEW s \in gr.stmts, NEW b \in Reads(s), ~ (Count(gr.stmts, b) > 1)
  PROVE  \A r \in gr.stmts : b \in Reads(r) => r = s
  <1>1. IsFiniteSet(gr.stmts)
    BY DEF Right, Apt
  <1> QED
    BY <1>1, TwoReaders DEF Readers

LEMMA ReadBySeveral ==
  ASSUME NEW gr, Right(gr), NEW b, Count(gr.stmts, b) > 1, NEW s
  PROVE  \E r \in gr.stmts : b \in Reads(r) /\ r # s
  <1>1. IsFiniteSet(gr.stmts)
    BY DEF Right, Apt
  <1>2. Readers(gr.stmts, b) # {} /\ Readers(gr.stmts, b) # {s}
    BY <1>1, Counts
  <1> QED
    BY <1>2 DEF Readers

\* What an input is, for a statement in the graph.
LEMMA ReadEntry ==
  ASSUME NEW gr, Right(gr), NEW s \in gr.stmts, NEW b \in Reads(s)
  PROVE  /\ b \in DOMAIN gr.tab
         /\ gr.tab[b].type \in Forks <=> Count(gr.stmts, b) > 1
         /\ gr.tab[b].type = "merge_fork" =>
              \E u \in Stmt : Type[u] = "union" /\ Out[u] = b
  <1>1. /\ gr.stmts \subseteq Stmt /\ IsFiniteSet(gr.stmts)
        /\ Tabled(gr.tab, gr.stmts, gr.stmts)
    BY DEF Right, Apt
  <1>2. b \in InUse(gr.stmts, gr.stmts)
    BY <1>1, LastRead DEF InUse, Readers
  <1>3. /\ gr.tab[b].type \in Forks <=> Count(gr.stmts, b) > 1
        /\ gr.tab[b].type \in Merges <=> \E w \in Writers(gr.stmts, b) : Type[w] # "normal"
    BY <1>1, <1>2, TypeIs
  <1>4. \A w \in Writers(gr.stmts, b) : w \in Stmt /\ Out[w] = b /\ Type[w] \in {"normal", "union"}
    BY <1>1, GraphAssumption, ExecAssumption DEF Writers
  <1>5. "merge_fork" \in Merges
    BY DEF Merges
  <1> QED
    BY <1>1, <1>2, <1>3, <1>4, <1>5 DEF Tabled

LEMMA FlagInit == Init => FlagInv
  <1> SUFFICES ASSUME Init PROVE FlagInv
    OBVIOUS
  <1>1. Right(g) /\ g.stmts = {}
    BY EmptyRight DEF Init
  <1>2. ToSet(order) = {}
    BY EmptyHas DEF Init
  <1>3. Flagged(g, done, buf) /\ Exact(g.stmts, done, ahead)
    BY <1>1 DEF Init, Flagged, Exact
  <1>4. \A s \in Stmt : ahead[s] = 0
    BY DEF Init
  <1> QED
    BY <1>1, <1>2, <1>3, <1>4 DEF FlagInv

\* Steps that touch neither the graph nor the flags, and pop nothing.
LEMMA FlagSame ==
  ASSUME FlagInv, UNCHANGED <<g, order, done, ahead>>,
         \A b \in Buffer : buf[b] # << >> => buf'[b] # << >>
  PROVE  FlagInv'
  BY DEF FlagInv, Flagged, Exact, InOf

\* New statements find no flags of their own, and none is lost.
LEMMA FlagActivate ==
  ASSUME TypeInv, FlagInv, NEW q \in Query, Activate(q) PROVE FlagInv'
  <1>1. PICK F : F = Flow(q) /\ F \in Seq(Stmt)
    BY FlowHas
  <1>2. PICK r : r = AddAll(g, F) /\ r.ok /\ g' = r.g /\ order' = order \o F
    BY <1>1 DEF Activate
  <1>3. /\ Right(g) /\ ToSet(order) = g.stmts /\ UNCHANGED <<buf, done, ahead>>
        /\ Flagged(g, done, buf) /\ Exact(g.stmts, done, ahead)
        /\ \A s \in Stmt \ g.stmts : ahead[s] = 0
    BY DEF FlagInv, Activate
  <1>4. ASSUME NEW i \in DOMAIN F, NEW h, Right(h),
               \A j \in DOMAIN F : j < i => F[j] \in h.stmts
        PROVE  Ready(h, F[i])
    <2>1. PICK m : m = Len(Parts[q]) /\ m \in Nat /\ DOMAIN Parts[q] = 1 .. m
                   /\ DOMAIN F = 1 .. m + 1 /\ F[m + 1] = q /\ \A j \in 1 .. m : F[j] = Parts[q][j]
      <3>1. Parts[q] \in Seq(Stmt) /\ q \in Stmt
        BY FlowHas
      <3>2. F = Append(Parts[q], q)
        BY <1>1 DEF Flow
      <3>3. Len(Parts[q]) \in Nat /\ DOMAIN Parts[q] = 1 .. Len(Parts[q])
        BY <3>1
      <3>4. DOMAIN F = 1 .. Len(Parts[q]) + 1 /\ F[Len(Parts[q]) + 1] = q
        BY <3>1, <3>2
      <3>5. \A j \in 1 .. Len(Parts[q]) : F[j] = Parts[q][j]
        BY <3>1, <3>2
      <3> QED
        BY <3>3, <3>4, <3>5
    <2>2. \A p \in ToSet(Parts[q]) : Type[p] = "normal"
      BY ExecAssumption
    <2>3. CASE i # m + 1
      <3>1. F[i] \in ToSet(Parts[q])
        BY <2>1, <2>3 DEF ToSet
      <3> QED
        BY <2>2, <3>1 DEF Ready
    <2>4. CASE i = m + 1
      <3>1. F[i] = q /\ q \in Stmt /\ Type[q] # "join"
        BY <2>1, <2>4, ExecAssumption
      <3>2. ToSet(Parts[q]) \subseteq h.stmts
        BY <1>4, <2>1, <2>4 DEF ToSet
      <3>3. ASSUME Type[q] = "union", NEW b \in Reads(q) PROVE b \in DOMAIN h.tab
        <4>1. PICK p \in ToSet(Parts[q]) : b = Out[p]
          BY <3>3, ExecAssumption
        <4>2. p \in h.stmts /\ b \in Buffer
          BY <3>1, <3>2, LastRead
        <4>3. b \in InUse(h.stmts, h.stmts)
          BY <4>1, <4>2 DEF InUse, Writers
        <4> QED
          BY <1>4, <4>3 DEF Right, Tabled
      <3> QED
        BY <3>1, <3>3 DEF Ready
    <2> QED
      BY <2>3, <2>4
  <1>5. Right(g') /\ g'.stmts = g.stmts \cup ToSet(F)
    BY <1>1, <1>2, <1>3, <1>4, AddAllRight
  <1>6. ToSet(order') = g'.stmts
    <2>1. order \in Seq(Stmt)
      BY DEF TypeInv
    <2> QED
      BY <1>1, <1>2, <1>3, <1>5, <2>1, ConcatHas
  <1>7. DOMAIN g.dummies \subseteq DOMAIN g'.dummies
    <2> SUFFICES ASSUME NEW d \in DOMAIN g.dummies PROVE d \in DOMAIN g'.dummies
      OBVIOUS
    <2>1. PICK r1 \in g.stmts : \E b \in Reads(r1) : Count(g.stmts, b) > 1 /\ d = <<b, Out[r1]>>
      BY <1>3 DEF Right, Dummied
    <2>2. PICK b \in Reads(r1) : Count(g.stmts, b) > 1 /\ d = <<b, Out[r1]>>
      BY <2>1
    <2>3. IsFiniteSet(g'.stmts) /\ g.stmts \subseteq g'.stmts
      BY <1>5 DEF Right, Apt
    <2>4. Count(g'.stmts, b) > 1
      <3>1. PICK S, R : S = g.stmts /\ R = g'.stmts
        OBVIOUS
      <3>2. /\ Count(S, b) \in Nat /\ Count(R, b) \in Nat /\ Count(S, b) <= Count(R, b)
            /\ Count(S, b) > 1
        BY ONLY <2>2, <2>3, <3>1, MoreReaders
      <3>3. Count(R, b) > 1
        BY ONLY <3>2
      <3> QED
        BY ONLY <3>1, <3>3
    <2> QED
      BY <1>5, <2>2, <2>3, <2>4, DummyHas
  <1>8. Flagged(g', done', buf')
    BY <1>3, <1>7 DEF Flagged
  <1>9. ASSUME NEW s \in g'.stmts, Type[s] = "normal"
        PROVE  ahead'[s] = IF <<InOf(s), Out[s]>> \in done' THEN 1 ELSE 0
    <2>1. CASE s \in g.stmts
      BY <1>3, <1>9, <2>1 DEF Exact
    <2>2. CASE s \notin g.stmts
      <3>1. s \in Stmt /\ ahead[s] = 0
        BY <1>3, <1>5, <2>2 DEF Right, Apt
      <3>2. ASSUME <<InOf(s), Out[s]>> \in done PROVE FALSE
        <4>1. PICK r1 \in g.stmts : Out[r1] = Out[s]
          BY <1>3, <3>1, <3>2, DummyHas DEF Flagged
        <4> QED
          BY <1>5, <1>9, <2>2, <4>1 DEF Right, Apt
      <3> QED
        BY <1>3, <3>1, <3>2
    <2> QED
      BY <2>1, <2>2
  <1>10. Exact(g'.stmts, done', ahead')
    BY <1>9 DEF Exact
  <1>11. \A s \in Stmt \ g'.stmts : ahead'[s] = 0
    BY <1>3, <1>5
  <1> QED
    BY <1>5, <1>6, <1>8, <1>10, <1>11 DEF FlagInv, Exact, InOf

\* Flags are lost with their dummies; those of branches that stay were not set.
LEMMA FlagDeactivate ==
  ASSUME ~ Midway, TypeInv, FlagInv, NEW q \in Query, Deactivate(q) PROVE FlagInv'
  <1>1. PICK F : F = Flow(q) /\ F \in Seq(Stmt)
    BY FlowHas
  <1>2. /\ g' = DropAll(g, F) /\ order' = Without(order, ToSet(F))
        /\ done' = done \cap DOMAIN g'.dummies /\ UNCHANGED buf
        /\ \A d \in done \ done' : g.dummies[d] \in ToSet(F)
        /\ ahead' = [s \in Stmt |-> IF s \in ToSet(F) THEN 0 ELSE ahead[s]]
    BY <1>1 DEF Deactivate
  <1>3. /\ Right(g) /\ ToSet(order) = g.stmts /\ order \in Seq(Stmt)
        /\ Flagged(g, done, buf) /\ Exact(g.stmts, done, ahead)
        /\ \A s \in Stmt \ g.stmts : ahead[s] = 0
    BY DEF FlagInv, TypeInv
  <1>4. Right(g') /\ g'.stmts = g.stmts \ ToSet(F)
    BY <1>1, <1>2, <1>3, DropAllRight
  <1>5. ToSet(order') = g'.stmts
    BY <1>2, <1>3, <1>4, WithoutHas
  <1>6. Flagged(g', done', buf')
    BY <1>2, <1>3 DEF Flagged
  <1>7. ASSUME NEW s \in g'.stmts, Type[s] = "normal"
        PROVE  ahead'[s] = IF <<InOf(s), Out[s]>> \in done' THEN 1 ELSE 0
    <2>1. s \in g.stmts /\ s \in Stmt /\ s \notin ToSet(F)
      BY <1>3, <1>4 DEF Right, Apt
    <2>2. ahead'[s] = ahead[s]
      BY <1>2, <2>1
    <2>3. PICK own : own = <<InOf(s), Out[s]>>
      OBVIOUS
    <2>4. ASSUME own \in done PROVE own \in done'
      <3>1. own \in DOMAIN g.dummies /\ own[1] = InOf(s)
        BY <1>3, <2>3, <2>4 DEF Flagged
      <3>2. Count(g.stmts, InOf(s)) > 1 /\ InOf(s) \in Reads(s)
        BY <1>3, <2>1, <3>1, DummyHas, InputHas
      <3>3. g.dummies[own] = s
        BY <1>3, <2>1, <2>3, <3>2, DummyHas
      <3> QED
        BY <1>2, <2>1, <2>4, <3>3
    <2>5. own \in done <=> own \in done'
      BY <1>2, <2>4
    <2> QED
      BY <1>3, <1>7, <2>1, <2>2, <2>3, <2>5 DEF Exact
  <1>8. Exact(g'.stmts, done', ahead')
    BY <1>7 DEF Exact
  <1>9. \A s \in Stmt \ g'.stmts : ahead'[s] = 0
    BY <1>2, <1>3, <1>4
  <1> QED
    BY <1>4, <1>5, <1>6, <1>8, <1>9 DEF FlagInv, Exact, InOf

\* A statement that is not on a fork is the only reader of what it pops.
LEMMA FlagPlain ==
  ASSUME Unshared, TypeInv, FlagInv, NEW s \in g.stmts, RunPlain(s) PROVE FlagInv'
  <1>1. /\ Right(g) /\ ToSet(order) = g.stmts /\ buf \in Bufs /\ ahead \in [Stmt -> Int]
        /\ Flagged(g, done, buf) /\ Exact(g.stmts, done, ahead)
        /\ \A r \in Stmt \ g.stmts : ahead[r] = 0
    BY DEF FlagInv, TypeInv
  <1>2. g.stmts \subseteq Stmt /\ s \in Stmt
    BY <1>1 DEF Right, Apt
  <1>3. PICK b : b = InOf(s) /\ b \in Reads(s) /\ b \in Buffer
    BY <1>2, InputHas
  <1>4. Type[s] = "normal" /\ g.tab[b].type \notin {"fork", "source_fork"}
        /\ UNCHANGED <<g, order, done>>
    BY <1>3 DEF RunPlain, EntryOf
  <1>5. ~ (Count(g.stmts, b) > 1)
    <2> SUFFICES ASSUME Count(g.stmts, b) > 1 PROVE FALSE
      OBVIOUS
    <2>1. g.tab[b].type = "merge_fork"
      BY <1>1, <1>3, <1>4, ReadEntry DEF Forks
    <2>2. PICK u \in Stmt : Type[u] = "union" /\ Out[u] = b
      BY <1>1, <1>3, <2>1, ReadEntry
    <2>3. PICK r \in g.stmts : b \in Reads(r) /\ r # s
      BY <1>1, ReadBySeveral
    <2> QED
      BY <1>2, <1>3, <2>2, <2>3 DEF Unshared
  <1>6. \A r \in g.stmts : b \in Reads(r) => r = s
    BY <1>1, <1>3, <1>5, ReadByOne
  <1>7. \A d \in done : d[1] # b
    BY <1>1, <1>5, DummyHas DEF Flagged
  <1>8. CASE buf[b] = << >>
    <2>1. UNCHANGED <<buf, ahead>>
      BY <1>3, <1>8 DEF RunPlain
    <2> QED
      BY <1>4, <2>1, FlagSame
  <1>9. CASE buf[b] # << >>
    <2>1. PICK B, x, a : B = Pop(buf, b) /\ x = Head(buf[b]) /\ a = [ahead EXCEPT ![s] = 1]
      OBVIOUS
    <2>2. /\ B \in Bufs /\ x \in Nat /\ \A c \in Buffer : c # b => B[c] = buf[c]
          /\ a \in [Stmt -> Int] /\ a[s] = 1 /\ \A r \in Stmt : r # s => a[r] = ahead[r]
      BY <1>1, <1>2, <1>3, <1>9, <2>1, PopHas
    <2>3. buf' \in Outputs(s, B, x) /\ ahead' = Passed(a, b)
      BY <1>3, <1>9, <2>1 DEF RunPlain
    <2>4. \A c \in Buffer : B[c] # << >> => buf'[c] # << >>
      BY <1>2, <2>2, <2>3, EmitHas
    <2>5. \A r \in Stmt : ahead'[r] = IF r \in g.stmts /\ b = InOf(r) THEN a[r] - 1 ELSE a[r]
      BY <2>2, <2>3, PassedHas
    <2>6. \A r \in Stmt : r # s => ahead'[r] = ahead[r]
      <3>1. \A r \in g.stmts : InOf(r) \in Reads(r)
        BY <1>2, InputHas
      <3> QED
        BY <1>6, <2>2, <2>5, <3>1
    <2>7. ahead'[s] = 0
      BY <1>2, <1>3, <2>2, <2>5
    <2>8. <<InOf(s), Out[s]>> \notin done
      BY <1>3, <1>7
    <2>9. Exact(g.stmts, done, ahead')
      BY <1>1, <1>2, <2>6, <2>7, <2>8 DEF Exact
    <2>10. Flagged(g, done, buf')
      BY <1>1, <1>7, <2>2, <2>4 DEF Flagged
    <2>11. \A r \in Stmt \ g.stmts : ahead'[r] = 0
      BY <1>1, <2>6
    <2> QED
      BY <1>1, <1>4, <2>9, <2>10, <2>11 DEF FlagInv, Exact, InOf
  <1> QED
    BY <1>8, <1>9

\* The tuple is popped when all branches have their flags, which go with it.
LEMMA FlagFork ==
  ASSUME TypeInv, FlagInv, NEW s \in g.stmts, RunFork(s) PROVE FlagInv'
  <1>1. /\ Right(g) /\ ToSet(order) = g.stmts /\ buf \in Bufs /\ ahead \in [Stmt -> Int]
        /\ Flagged(g, done, buf) /\ Exact(g.stmts, done, ahead)
        /\ \A r \in Stmt \ g.stmts : ahead[r] = 0
    BY DEF FlagInv, TypeInv
  <1>2. g.stmts \subseteq Stmt /\ s \in Stmt /\ \A p, r \in g.stmts : Out[p] = Out[r] => p = r
    BY <1>1 DEF Right, Apt
  <1>3. PICK b : b = InOf(s) /\ b \in Reads(s) /\ b \in Buffer
    BY <1>2, InputHas
  <1>4. /\ Type[s] = "normal" /\ g.tab[b].type \in {"fork", "source_fork"}
        /\ UNCHANGED <<g, order>>
    BY <1>3 DEF RunFork, EntryOf
  <1>5. Count(g.stmts, b) > 1
    BY <1>1, <1>3, <1>4, ReadEntry DEF Forks
  <1>6. PICK own, all : own = <<b, Out[s]>> /\ all = {d \in DOMAIN g.dummies : d[1] = b}
    OBVIOUS
  <1>7. \A r \in g.stmts : InOf(r) = b =>
          <<b, Out[r]>> \in all /\ (r # s => <<b, Out[r]>> # own)
    <2>1. \A r \in g.stmts : InOf(r) \in Reads(r)
      BY <1>2, InputHas
    <2>2. \A r \in g.stmts : InOf(r) = b => <<b, Out[r]>> \in DOMAIN g.dummies
      BY <1>1, <1>5, <2>1, DummyHas
    <2> QED
      BY <1>2, <1>6, <2>2
  <1>8. own \in all
    BY <1>3, <1>6, <1>7
  <1>9. PICK finished, B, a : ForkStep(s, finished, B, a)
    BY ForkSteps
  <1>10. PICK marks : marks = IF finished THEN done \ all ELSE done
    OBVIOUS
  <1>11. /\ finished \in BOOLEAN /\ (finished <=> all \subseteq done)
         /\ \/ finished /\ buf[b] # << >> /\ B = Pop(buf, b) /\ a = Passed(ahead, b)
            \/ ~ (finished /\ buf[b] # << >>) /\ B = buf /\ a = ahead
         /\ \/ buf' = B /\ done' = marks /\ ahead' = a
            \/ /\ own \notin marks /\ B[b] # << >>
               /\ buf' \in Outputs(s, B, Head(B[b])) /\ done' = marks \cup {own}
               /\ ahead' = [a EXCEPT ![s] = 1]
    BY <1>3, <1>6, <1>9, <1>10 DEF ForkStep
  \* What the pop leaves.
  <1>12. /\ B \in Bufs /\ a \in [Stmt -> Int]
         /\ Flagged(g, marks, B) /\ Exact(g.stmts, marks, a)
         /\ \A r \in Stmt \ g.stmts : a[r] = 0
    <2>1. CASE finished
      <3>1. buf[b] # << >>
        BY <1>1, <1>6, <1>8, <1>11, <2>1 DEF Flagged
      <3>2. B = Pop(buf, b) /\ a = Passed(ahead, b) /\ marks = done \ all /\ all \subseteq done
        BY <1>10, <1>11, <2>1, <3>1
      <3>3. B \in Bufs /\ \A c \in Buffer : c # b => B[c] = buf[c]
        BY <1>1, <1>3, <3>1, <3>2, PopHas
      <3>4. /\ a \in [Stmt -> Int]
            /\ \A r \in Stmt : a[r] = IF r \in g.stmts /\ b = InOf(r) THEN ahead[r] - 1 ELSE ahead[r]
        BY <1>1, <3>2, PassedHas
      <3>5. Flagged(g, marks, B)
        BY <1>1, <1>6, <3>2, <3>3 DEF Flagged
      <3>6. ASSUME NEW r \in g.stmts, Type[r] = "normal"
            PROVE  a[r] = IF <<InOf(r), Out[r]>> \in marks THEN 1 ELSE 0
        <4>1. ahead[r] = IF <<InOf(r), Out[r]>> \in done THEN 1 ELSE 0
          BY <1>1, <3>6 DEF Exact
        <4>2. CASE InOf(r) = b
          <5>1. <<InOf(r), Out[r]>> \in done /\ <<InOf(r), Out[r]>> \notin marks
            BY <1>7, <3>2, <4>2
          <5>2. a[r] = ahead[r] - 1
            BY <1>2, <3>4, <4>2
          <5> QED
            BY <4>1, <5>1, <5>2
        <4>3. CASE InOf(r) # b
          <5>1. <<InOf(r), Out[r]>> \notin all
            BY <1>6, <4>3
          <5>2. a[r] = ahead[r]
            BY <1>2, <3>4, <4>3
          <5> QED
            BY <3>2, <4>1, <5>1, <5>2
        <4> QED
          BY <4>2, <4>3
      <3>7. \A r \in Stmt \ g.stmts : a[r] = 0
        BY <1>1, <3>4
      <3> QED
        BY <3>3, <3>4, <3>5, <3>6, <3>7 DEF Exact
    <2>2. CASE ~ finished
      <3>1. B = buf /\ a = ahead /\ marks = done
        BY <1>10, <1>11, <2>2
      <3> QED
        BY <1>1, <3>1
    <2> QED
      BY <2>1, <2>2
  <1>13. Flagged(g, done', buf') /\ Exact(g.stmts, done', ahead')
         /\ \A r \in Stmt \ g.stmts : ahead'[r] = 0
    <2>1. CASE buf' = B /\ done' = marks /\ ahead' = a
      BY <1>12, <2>1
    <2>2. CASE /\ own \notin marks /\ B[b] # << >>
               /\ buf' \in Outputs(s, B, Head(B[b])) /\ done' = marks \cup {own}
               /\ ahead' = [a EXCEPT ![s] = 1]
      <3>1. Head(B[b]) \in Nat
        BY <1>3, <1>12, <2>2, PopHas
      <3>2. \A c \in Buffer : B[c] # << >> => buf'[c] # << >>
        BY <1>2, <1>12, <2>2, <3>1, EmitHas
      <3>3. own[1] = b /\ own \in DOMAIN g.dummies
        BY <1>6, <1>8
      <3>4. Flagged(g, done', buf')
        BY <1>3, <1>12, <2>2, <3>2, <3>3 DEF Flagged
      <3>5. ahead'[s] = 1 /\ \A r \in Stmt : r # s => ahead'[r] = a[r]
        BY <1>2, <1>12, <2>2
      <3>6. ASSUME NEW r \in g.stmts, Type[r] = "normal"
            PROVE  ahead'[r] = IF <<InOf(r), Out[r]>> \in done' THEN 1 ELSE 0
        <4>1. CASE r = s
          BY <1>3, <1>6, <2>2, <3>5, <4>1
        <4>2. CASE r # s
          <5>1. <<InOf(r), Out[r]>> # own
            BY <1>2, <1>6, <4>2
          <5> QED
            BY <1>2, <1>12, <2>2, <3>5, <3>6, <4>2, <5>1 DEF Exact
        <4> QED
          BY <4>1, <4>2
      <3> QED
        BY <1>2, <1>12, <3>4, <3>5, <3>6 DEF Exact
    <2> QED
      BY <1>11, <2>1, <2>2
  <1> QED
    BY <1>1, <1>4, <1>13 DEF FlagInv, Exact, InOf

\* A union pops what it alone reads: no fork.
LEMMA FlagUnion ==
  ASSUME Unshared, TypeInv, FlagInv, NEW s \in g.stmts, RunUnion(s) PROVE FlagInv'
  <1>1. Right(g) /\ buf \in Bufs /\ Flagged(g, done, buf)
    BY DEF FlagInv, TypeInv
  <1>2. g.stmts \subseteq Stmt /\ s \in Stmt
    BY <1>1 DEF Right, Apt
  <1>3. Type[s] = "union" /\ UNCHANGED <<g, order, done, ahead>>
    BY DEF RunUnion
  <1>4. PICK r : r = Chosen(s)
    OBVIOUS
  <1>5. CASE r.rc = "no_input"
    <2>1. UNCHANGED buf
      BY <1>4, <1>5 DEF RunUnion, Chosen
    <2> QED
      BY <1>3, <2>1, FlagSame
  <1>6. CASE r.rc # "no_input"
    <2>1. PICK b, B, x : b = r.in /\ B = Pop(buf, b) /\ x = Head(buf[b])
      OBVIOUS
    <2>2. b \in Reads(s) /\ b \in Buffer /\ buf[b] # << >>
      BY <1>1, <1>2, <1>4, <1>6, <2>1, ChosenHas, LastRead
    <2>3. B \in Bufs /\ x \in Nat /\ \A c \in Buffer : c # b => B[c] = buf[c]
      BY <1>1, <2>1, <2>2, PopHas
    <2>4. buf' = Emit(s, B, x)
      BY <1>4, <1>6, <2>1 DEF RunUnion, Chosen
    <2>5. \A c \in Buffer : B[c] # << >> => buf'[c] # << >>
      BY <1>2, <2>3, <2>4, EmitOne, EmitHas
    <2>6. ~ (Count(g.stmts, b) > 1)
      <3> SUFFICES ASSUME Count(g.stmts, b) > 1 PROVE FALSE
        OBVIOUS
      <3>1. PICK p \in g.stmts : b \in Reads(p) /\ p # s
        BY <1>1, ReadBySeveral
      <3> QED
        BY <1>2, <1>3, <2>2, <3>1 DEF Unshared
    <2>7. \A d \in done : d[1] # b
      BY <1>1, <2>6, DummyHas DEF Flagged
    <2>8. Flagged(g', done', buf')
      BY <1>1, <1>3, <2>3, <2>5, <2>7 DEF Flagged
    <2> QED
      BY <1>3, <2>8 DEF FlagInv, Exact, InOf
  <1> QED
    BY <1>5, <1>6

LEMMA FlagNext ==
  ASSUME Unshared, ~ Midway, TypeInv, FlagInv, [Next]_vars PROVE FlagInv'
  <1>1. CASE Start \/ UNCHANGED vars
    BY <1>1, FlagSame DEF Start, vars
  <1>2. ASSUME NEW b \in Buffer, Arrive(b) PROVE FlagInv'
    <2>1. PICK x : x = clock' /\ x \in Nat /\ buf' = [buf EXCEPT ![b] = Append(@, x)]
      <3>1. clock' \in Nat
        BY <1>2 DEF Arrive, TypeInv
      <3> QED
        BY <1>2, <3>1 DEF Arrive
    <2>2. buf \in Bufs /\ buf[b] \in Seq(Nat)
      BY DEF TypeInv, Bufs
    <2>3. Append(buf[b], x) # << >>
      <3>1. /\ Len(Append(buf[b], x)) = Len(buf[b]) + 1
            /\ Len(buf[b]) \in Nat /\ Len(<< >>) = 0
        BY <2>1, <2>2
      <3>2. Len(Append(buf[b], x)) # 0
        BY <3>1
      <3> QED
        BY <3>1, <3>2
    <2>4. \A c \in Buffer : buf[c] # << >> => buf'[c] # << >>
      BY <2>1, <2>2, <2>3 DEF Bufs
    <2> QED
      BY <1>2, <2>4, FlagSame DEF Arrive
  <1>3. ASSUME NEW q \in Query, Activate(q) PROVE FlagInv'
    BY <1>3, FlagActivate
  <1>4. ASSUME NEW q \in Query, Deactivate(q) PROVE FlagInv'
    BY <1>4, FlagDeactivate
  <1>5. CASE Visit
    <2>1. PICK s : s = Turn /\ s \in g.stmts
      BY <1>5, TurnHas DEF Visit, FlagInv
    <2>2. CASE Leaves(s)
      BY <2>2, FlagSame DEF Leaves
    <2> QED
      BY <1>5, <2>1, <2>2, FlagPlain, FlagFork, FlagUnion DEF Visit
  <1> QED
    BY <1>1, <1>2, <1>3, <1>4, <1>5 DEF Next

\* Each reader of a fork has processed the tuples popped from it, and the first one in
\* it if the reader's dummy is marked (ProcessedExact): it gets each tuple once while
\* queries come and go, if none goes while a fork is half processed.
THEOREM ProcessedOnce ==
  ASSUME Unshared, ~ Midway PROVE Spec => []ProcessedExact
  <1>1. FlagInv => ProcessedExact
    BY DEF FlagInv, Exact, ProcessedExact, Normal
  <1>2. Init => TypeInv /\ FlagInv
    BY TypeInit, FlagInit
  <1>3. TypeInv /\ FlagInv /\ [Next]_vars => (TypeInv /\ FlagInv)'
    BY TypeNext, FlagNext
  <1> QED
    BY <1>1, <1>2, <1>3, PTL DEF Spec
=============================================================================
