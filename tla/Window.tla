------------------------------- MODULE Window -------------------------------
(***************************************************************************)
(* A window over a stream, and the code the compiler generates around it:  *)
(*   view    INSERT INTO a windowed view (trans2C.cc);                     *)
(*   join    the window manager of a window join and the join (semant.cc); *)
(*   sum, count, min, max                                                  *)
(*           built-in aggregates, transCallBuiltInAggr (semant_aggr.cc);   *)
(*   base    a user-defined aggregate whose slide is at least its window,  *)
(*           called through its base version, transCallUDA.                *)
(* The row list is windowBuf or winbuf; a row is its value and its         *)
(* tuple_id.  Each action is the code that runs for one tuple of one group *)
(* (or for one turn of a join).  Timestamps do not go back.                *)
(***************************************************************************)
EXTENDS TupleId, SequencesExt

CONSTANTS Configs,  \* [use, wtype, size, slide, vals]: the windows that are
                    \* declared; vals: what their streams bring, integers
          MaxGap,   \* bound: milliseconds between two tuples
          MaxRows,  \* bound: tuples in a window at a time
          Horizon   \* bound: the tuple_id up to which a sliding window is run

Aggregates == {"sum", "count", "min", "max"}

ASSUME WindowAssumption ==
    /\ \A c \in Configs :
         /\ c.use \in {"view", "join", "base"} \cup Aggregates
         /\ c.wtype \in {"row", "time"}
         /\ c.size \in 1..(M - 1) /\ c.slide \in 1..(M - 1)
         /\ c.vals \subseteq Int
         /\ c.use = "base" => c.wtype = "row" /\ c.slide >= c.size
    /\ MaxGap \in Nat /\ MaxRows \in Nat /\ Horizon \in Ids

VARIABLES
    conf,       \* the arguments of the constructor and the kind of its user
    tuple_id,
    fresh,      \* no tuple so far: `first', and no gbstatus
    rows,       \* the row list, oldest first: [id, v], and age as history
    value,      \* _baggr_value, or the state of the base aggregate
    last_out, slide_out,
    iterate, init,  \* flags of the base version
    recent,     \* history: [v, age] of the tuples that may be in the window
    since,      \* history: how much later than the last output it is
    trimmed     \* history: no tuple came since the join trimmed the window

vars == <<conf, tuple_id, fresh, rows, value, last_out, slide_out, iterate,
          init, recent, since, trimmed>>

Init ==
    /\ conf \in Configs
    /\ tuple_id = 0 /\ fresh = TRUE /\ rows = << >> /\ value = 0
    /\ last_out = 0 /\ slide_out = 1 /\ iterate = FALSE /\ init = TRUE
    /\ recent = << >> /\ since = 0 /\ trimmed = TRUE

-----------------------------------------------------------------------------
(* The row list                                                             *)

\* Everything is d older.
Aged(s, d) == [k \in DOMAIN s |-> [s[k] EXCEPT !.age = @ + d]]

\* What is left of s when everything before the first of the places K is gone.
From(s, K) == IF K = {} THEN << >> ELSE SubSeq(s, Min(K), Len(s))

\* while (hasExpired()) pop(): the first row is tested, and popped.
Kept(s, id) == From(s, {k \in DOMAIN s : ~Expired(id, s[k].id, conf.size)})

Popped(s, id) == SubSeq(s, 1, Len(s) - Len(Kept(s, id)))

Row(v) == [id |-> tuple_id', v |-> v, age |-> 0]

\* How much tuple_id grows: by one row, or by d milliseconds, but a first
\* tuple sets first_ts.
Gap(d) == IF conf.wtype = "row" THEN 1 ELSE IF fresh THEN 0 ELSE d

\* A tuple with value v arrives d after the one before: updateTupleID, and
\* the history.  Bounds: no row gets so old that its number comes back, a
\* window has at most MaxRows rows (an untrimmed one too), and a sliding window
\* stops at the horizon.
Tuple(d, v) ==
    LET all == Aged(recent, Gap(d))
        old == From(all, {k \in DOMAIN all : all[k].age <= conf.size})
    IN
    /\ conf.wtype = "row" => d = 1
    /\ \A k \in DOMAIN rows : rows[k].age + Gap(d) < M
    /\ Len(old) < MaxRows
    /\ conf.use # "base" => Len(rows) < MaxRows
    /\ conf.slide > 1 => tuple_id + Gap(d) <= Horizon
    /\ tuple_id' = Later(tuple_id, Gap(d))
    /\ fresh' = FALSE
    /\ recent' = Append(old, [v |-> v, age |-> 0])

-----------------------------------------------------------------------------
(* Views and joins                                                          *)

ViewInsert(d, v) ==
    /\ conf.use = "view"
    /\ Tuple(d, v)
    /\ rows' = Append(Kept(Aged(rows, Gap(d)), tuple_id'), Row(v))
    /\ UNCHANGED <<conf, value, last_out, slide_out, iterate, init, since,
                   trimmed>>

\* The window manager of a join only puts.
WmPut(d, v) ==
    /\ conf.use = "join"
    /\ Tuple(d, v)
    /\ rows' = Append(Aged(rows, Gap(d)), Row(v))
    /\ trimmed' = FALSE
    /\ UNCHANGED <<conf, value, last_out, slide_out, iterate, init, since>>

\* The join trims the window before it reads it.
JoinTrim ==
    /\ conf.use = "join"
    /\ rows' = Kept(rows, tuple_id)
    /\ trimmed' = TRUE
    /\ UNCHANGED <<conf, tuple_id, fresh, value, last_out, slide_out, iterate,
                   init, recent, since>>

-----------------------------------------------------------------------------
(* Built-in aggregates                                                      *)

\* The cast (int)getTupleID().
Signed(id) == IF id >= M \div 2 THEN id - M ELSE id

\* Is an output due for the tuple numbered id?
Due(id) ==
    \/ conf.slide <= 1
    \/ id = 0 /\ last_out # 0
    \/ Signed(id) >= last_out + conf.slide

\* last_out += slide, and again while it is less than id - slide.  With a
\* slide of 1 it decides nothing and is left out.
CaughtUp(id) ==
    IF conf.slide = 1 THEN 0
    ELSE LET Done(k) == id = 0 \/ last_out + k * conf.slide >= id - conf.slide
         IN last_out + conf.slide * Min({k \in 1..M : Done(k)})

\* Mutant: last_out becomes the number of the tuple of the output, so that
\* slides drift.
SlideDrift(d) ==
    /\ slide_out' = IF Due(tuple_id') THEN 1 ELSE 0
    /\ last_out' = IF Due(tuple_id') THEN tuple_id' + 1 ELSE last_out
    /\ since' = IF Due(tuple_id') THEN 0 ELSE since + Gap(d)

\* The output decision of one tuple.  A slide given as a time for heartbeats
\* (HEARTBEAT_TIME_SLIDE), whose branch moves last_out first, is not modelled.
Slide(d) ==
    /\ slide_out' = IF Due(tuple_id') THEN 1 ELSE 0
    /\ last_out' = IF Due(tuple_id') THEN CaughtUp(tuple_id') ELSE last_out
    /\ since' = IF Due(tuple_id') THEN 0 ELSE since + Gap(d)

Total(s) ==
    LET sum[k \in 0..Len(s)] == IF k = 0 THEN 0 ELSE sum[k - 1] + s[k].v
    IN sum[Len(s)]

\* AGGR_INIT, for a new group: whether it puts out is decided at number 0.
AggrInit(d, v) ==
    /\ conf.use \in Aggregates /\ fresh
    /\ Tuple(d, v)
    /\ rows' = <<Row(v)>>
    /\ value' = IF conf.use = "count" THEN 1 ELSE v
    /\ slide_out' = IF Due(0) THEN 1 ELSE 0
    /\ since' = IF Due(0) THEN 0 ELSE since + Gap(d)
    /\ UNCHANGED <<conf, last_out, iterate, init, trimmed>>

\* Is x, for the minimum or the maximum, as good as y?
Beats(x, y) == IF conf.use = "min" THEN x <= y ELSE x >= y

\* deleteGreater and deleteLesser go through the rows: one that a later one
\* beats will never be the minimum or the maximum again.
Undominated(s, v) ==
    LET left[k \in 0..Len(s)] ==
          IF k = 0 THEN << >>
          ELSE IF Beats(s[k].v, v) THEN Append(left[k - 1], s[k])
          ELSE left[k - 1]
    IN IF conf.use \in {"min", "max"} THEN left[Len(s)] ELSE s

\* Mutant: the expired rows are not subtracted.
ResultKeepsOld(v, gone, rest) ==
    CASE conf.use = "sum" -> value + v
      [] conf.use = "count" -> value + 1 - Len(gone)
      [] OTHER -> Head(rest).v

Result(v, gone, rest) ==
    CASE conf.use = "sum" -> value - Total(gone) + v
      [] conf.use = "count" -> value - Len(gone) + 1
      [] OTHER -> Head(rest).v

\* AGGR_ITERATE.
AggrIterate(d, v) ==
    /\ conf.use \in Aggregates /\ ~fresh
    /\ Tuple(d, v)
    /\ LET all == Append(Aged(rows, Gap(d)), Row(v))
           rest == Undominated(Kept(all, tuple_id'), v)
       IN /\ rows' = rest
          /\ value' = Result(v, Popped(all, tuple_id'), rest)
    /\ Slide(d)
    /\ UNCHANGED <<conf, iterate, init, trimmed>>

-----------------------------------------------------------------------------
(* The base version of a user-defined aggregate, here a sum                 *)

\* The last number before the part of the slide that the window covers.
Skipped == last_out + conf.slide - conf.size

\* What every branch does first.  The rows are never popped.
BasePut(d, v) ==
    /\ conf.use = "base"
    /\ Tuple(d, v)
    /\ rows' = IF tuple_id' > Skipped THEN Append(Aged(rows, Gap(d)), Row(v))
               ELSE Aged(rows, Gap(d))
    /\ UNCHANGED <<conf, since, trimmed>>

BaseSkip(d, v) ==
    /\ BasePut(d, v)
    /\ tuple_id' <= Skipped
    /\ slide_out' = 0 /\ init' = TRUE
    /\ UNCHANGED <<value, last_out, iterate>>

Ends(id) == id >= last_out + conf.slide /\ ~init

\* Mutant: the tuple that ends the window is not aggregated.
BaseOutputEarly(d, v) ==
    /\ BasePut(d, v)
    /\ tuple_id' > Skipped /\ Ends(tuple_id')
    /\ last_out' = last_out + conf.slide
    /\ iterate' = FALSE /\ init' = TRUE
    /\ slide_out' = 1
    /\ UNCHANGED value

\* iterate, then terminate.
BaseOutput(d, v) ==
    /\ BasePut(d, v)
    /\ tuple_id' > Skipped /\ Ends(tuple_id')
    /\ last_out' = last_out + conf.slide
    /\ iterate' = FALSE /\ init' = TRUE
    /\ value' = value + v
    /\ slide_out' = 1

BaseInit(d, v) ==
    /\ BasePut(d, v)
    /\ tuple_id' > Skipped /\ ~Ends(tuple_id') /\ ~iterate /\ init
    /\ iterate' = TRUE /\ init' = FALSE
    /\ value' = v
    /\ slide_out' = 0
    /\ UNCHANGED last_out

BaseIterate(d, v) ==
    /\ BasePut(d, v)
    /\ tuple_id' > Skipped /\ ~Ends(tuple_id') /\ iterate
    /\ value' = value + v
    /\ slide_out' = 0
    /\ UNCHANGED <<last_out, iterate, init>>

-----------------------------------------------------------------------------
Next ==
    \/ \E d \in 0..MaxGap, v \in conf.vals :
         \/ ViewInsert(d, v) \/ WmPut(d, v)
         \/ AggrInit(d, v) \/ AggrIterate(d, v)
         \/ BaseSkip(d, v) \/ BaseOutput(d, v)
         \/ BaseInit(d, v) \/ BaseIterate(d, v)
    \/ JoinTrim

Spec == Init /\ [][Next]_vars

-----------------------------------------------------------------------------
(* Properties                                                               *)

\* The tuples of a window: those that are younger than its edge, which is its
\* size except just after the numbers have wrapped.  Later ones are younger.
Young(s) == {k \in DOMAIN s : s[k].age < Edge(tuple_id, conf.size)}
Present(s) == From(s, Young(s))

Shown(s) == [k \in DOMAIN s |-> [v |-> s[k].v, age |-> s[k].age]]

\* A view and the window of a sum or a count hold exactly the tuples of the
\* window, also after tuple_id has wrapped (windowBuf.cc, getExpired); a
\* join's window holds them all, and no others when it has just been trimmed.
WindowExact ==
    /\ conf.use \in {"view", "sum", "count"} => Shown(rows) = Present(recent)
    /\ conf.use = "join" =>
         /\ Shown(Present(rows)) = Present(recent)
         /\ trimmed => Present(rows) = rows

\* A windowed aggregate is that of the tuples in the window, although sum and
\* count only add and subtract, and min and max keep only some of the rows
\* (semant_aggr.cc, AGGR_ITERATE).
AggregateExact ==
    LET w == Present(recent)
        vals == {w[k].v : k \in DOMAIN w}
    IN conf.use \in Aggregates /\ ~fresh =>
         value = CASE conf.use = "sum" -> Total(w)
                   [] conf.use = "count" -> Len(w)
                   [] conf.use = "min" -> Min(vals)
                   [] conf.use = "max" -> Max(vals)

\* No slide of a sliding window goes by without an output; a row window puts out
\* exactly at the end of each.  A time window may put out twice in one slide.
\* (semant_aggr.cc: "the correct number of tuples when sliding window is used")
SlideKept ==
    conf.use \in Aggregates /\ conf.slide > 1 =>
      /\ since < conf.slide
      /\ conf.wtype = "row" /\ ~fresh =>
           (slide_out = 1 <=> tuple_id % conf.slide = 0)

\* The base version aggregates exactly the last `size' tuples of each slide and
\* puts out at its end: its flags never make it miss, or count twice, a tuple
\* (transCallUDA).
BaseExact ==
    conf.use = "base" /\ ~fresh =>
      /\ slide_out = 1 <=> tuple_id % conf.slide = 0
      /\ slide_out = 1 =>
           value = Total(From(recent, {k \in DOMAIN recent :
                                      recent[k].age < conf.size}))
=============================================================================
