------------------------------- MODULE ImRel --------------------------------
(***************************************************************************)
(* The in-memory relations of im_db: im_rel.c, im_cursor.c, buffer.c and   *)
(* hash-arbitrary.c.  Rows live in cells of a pool, on a circular doubly   *)
(* linked list; an index maps a key to a chain through the cells with that *)
(* key.  A freed cell keeps its contents until it is given out again, and  *)
(* cursors rely on it.                                                     *)
(*                                                                         *)
(* Modelled as the generated code uses them (trans2C.cc): put with         *)
(* DB_APPEND, cursors with DB_FIRST/DB_NEXT or DB_SET/DB_NEXT_DUP, c_put   *)
(* with DB_CURRENT, and c_del.  No relation is created with IM_OID.        *)
(***************************************************************************)
EXTENDS Naturals, SequencesExt

CONSTANTS Keys, Cursors, All,
          MaxCells,     \* bound: cells of the pool
          MaxPuts,      \* bound: rows put
          MaxUpdates    \* bound: changes of a row

NULL == 0
Cells == 1..MaxCells

ASSUME ImRelAssumption ==
    MaxCells \in Nat /\ MaxPuts \in Nat /\ MaxUpdates \in Nat /\ All \notin Keys

VARIABLES
    indexed,    \* created with IM_REL_INDEXED
    head,
    cell,       \* [next, prev, hchain, key, id, d]; id and d are the data
    free,       \* the free pages of the pool, a stack
    fresh,      \* the first cell never given out (page_offset)
    hidx,       \* per key its slot: [cell: hash_value, keyat: the cell that
                \* hash_key points into], NULL when there is none
    cur, nextaccess,    \* of each cursor
    scan,       \* what the generated code does with each cursor; see Table
    puts,
    emptied     \* history: how often the last row was deleted

vars == <<indexed, head, cell, free, fresh, hidx, cur, nextaccess, scan, puts,
          emptied>>

NoSlot == [cell |-> NULL, keyat |-> NULL]

Closed == [on |-> FALSE, key |-> All, at |-> 0, here |-> FALSE,
           eof |-> FALSE]
AtEnd == [Closed EXCEPT !.on = TRUE, !.eof = TRUE]

Init ==
    /\ indexed \in BOOLEAN
    /\ head = NULL
    /\ cell = [x \in Cells |-> [next |-> NULL, prev |-> NULL, hchain |-> NULL,
                                key |-> All, id |-> 0, d |-> 0]]
    /\ free = << >> /\ fresh = 1
    /\ hidx = [k \in Keys |-> NoSlot]
    /\ cur = [c \in Cursors |-> NULL] /\ nextaccess = [c \in Cursors |-> NULL]
    /\ scan = [c \in Cursors |-> Closed]
    /\ puts = 0 /\ emptied = 0

-----------------------------------------------------------------------------
(* The list, the pool and the index                                         *)

\* The cells that f leads through from x on, until a NULL.
Path(f, x) ==
    LET step[n \in 0..MaxCells] ==
          IF n = 0 THEN x
          ELSE IF step[n - 1] = NULL THEN NULL ELSE f[step[n - 1]]
        length == Min({n \in 0..MaxCells : step[n] = NULL} \cup {MaxCells + 1})
    IN [n \in 1..length |-> step[n - 1]]

\* The list, from the head until the head comes again.
List ==
    IF head = NULL THEN << >>
    ELSE Path([x \in Cells |-> IF cell[x].next = head THEN NULL
                               ELSE cell[x].next], head)

OnList == Range(List)

RowAt(x) == [id |-> cell[x].id, key |-> cell[x].key, d |-> cell[x].d]

\* allocateBuffer: the cell freed last, or else a new one.
Allocated == IF free # << >> THEN Last(free) ELSE fresh

\* hash_find compares the key with what hash_key points to.
Find(cl, k) ==
    IF hidx[k] # NoSlot /\ cl[hidx[k].keyat].key = k THEN hidx[k].cell ELSE NULL

\* Mutant: the slot goes on pointing to the old row's copy of the key.
SlotSetKeepsKey(k, x) ==
    [cell |-> x, keyat |-> IF hidx[k] = NoSlot THEN x ELSE hidx[k].keyat]

\* hash_insert and hash_replace: the slot points to the key in the row itself.
SlotSet(k, x) == [cell |-> x, keyat |-> x]

-----------------------------------------------------------------------------
(* Operations                                                               *)

\* im_rel_put with DB_APPEND: a cell, its place behind the last row, the front
\* of its key's chain.  (Without an index hchain links duplicates too, but
\* nothing follows it.)
Put(k) ==
    LET x == Allocated
        last == IF head = NULL THEN x ELSE cell[head].prev
        first == IF head = NULL THEN x ELSE head
        row == [next |-> first, prev |-> last, hchain |-> NULL,
                key |-> k, id |-> puts + 1, d |-> 0]
        linked == [[cell EXCEPT ![x] = row] EXCEPT ![last].next = x,
                                                   ![first].prev = x]
    IN
    /\ puts < MaxPuts
    /\ x \in Cells
    /\ IF free # << >> THEN free' = Front(free) /\ UNCHANGED fresh
                       ELSE fresh' = fresh + 1 /\ UNCHANGED free
    /\ head' = first
    /\ puts' = puts + 1
    /\ IF indexed
         THEN /\ cell' = [linked EXCEPT ![x].hchain = Find(linked, k)]
              /\ hidx' = [hidx EXCEPT ![k] = SlotSet(k, x)]
         ELSE cell' = linked /\ UNCHANGED hidx
    /\ UNCHANGED <<indexed, cur, nextaccess, scan, emptied>>

\* A statement opens a cursor to go through all rows or, with an index, those
\* of a key.
Open(c, k) ==
    /\ ~scan[c].on
    /\ k \in Keys => indexed
    /\ scan' = [scan EXCEPT ![c] = [Closed EXCEPT !.on = TRUE, !.key = k]]
    /\ UNCHANGED <<indexed, head, cell, free, fresh, hidx, cur, nextaccess,
                   puts, emptied>>

Close(c) ==
    /\ scan[c].on
    /\ scan' = [scan EXCEPT ![c] = Closed]
    /\ cur' = [cur EXCEPT ![c] = NULL]
    /\ nextaccess' = [nextaccess EXCEPT ![c] = NULL]
    /\ UNCHANGED <<indexed, head, cell, free, fresh, hidx, puts, emptied>>

\* Mutant: DB_NEXT goes to nextaccess.
NextCellSaved(c) ==
    IF scan[c].at = 0 THEN head ELSE nextaccess[c]

\* Where DB_FIRST and DB_NEXT move cur to.  Without a cur DB_NEXT starts at
\* the head: after the first row has been deleted that is the next one.
NextCell(c) ==
    IF scan[c].at = 0 \/ cur[c] = NULL THEN head
    ELSE IF cell[cur[c]].next = head THEN NULL ELSE cell[cur[c]].next

\* DB_SET and DB_NEXT_DUP.
NextDup(c) == IF scan[c].at = 0 THEN Find(cell, scan[c].key) ELSE nextaccess[c]

\* What nextaccess becomes when cur is x.
Following(c, x) ==
    IF x = NULL THEN NULL
    ELSE IF scan[c].key # All THEN cell[x].hchain
    ELSE IF cell[x].next = head THEN NULL ELSE cell[x].next

\* c_get.  The statement fetches no more after DB_NOTFOUND.
Fetch(c) ==
    LET x == IF head = NULL THEN NULL
             ELSE IF scan[c].key = All THEN NextCell(c) ELSE NextDup(c)
    IN
    /\ scan[c].on /\ ~scan[c].eof
    /\ IF head = NULL THEN UNCHANGED <<cur, nextaccess>>
       ELSE /\ cur' = [cur EXCEPT ![c] = x]
            /\ nextaccess' = [nextaccess EXCEPT ![c] = Following(c, x)]
    /\ scan' = [scan EXCEPT ![c] =
                  IF x = NULL THEN AtEnd
                  ELSE [@ EXCEPT !.at = cell[x].id, !.here = TRUE]]
    /\ UNCHANGED <<indexed, head, cell, free, fresh, hidx, puts, emptied>>

\* c_put with DB_CURRENT.
Update(c) ==
    /\ scan[c].on /\ scan[c].here
    /\ cell[cur[c]].d < MaxUpdates
    /\ cell' = [cell EXCEPT ![cur[c]].d = @ + 1]
    /\ UNCHANGED <<indexed, head, free, fresh, hidx, cur, nextaccess, scan,
                   puts, emptied>>

\* The row at x leaves its chain: the slot moves on to the next row, or goes,
\* or the row before it in the chain skips it.  (A key that is not found ends
\* the program; by ChainExact there is none.)
Unchain(cl, x) ==
    LET k == cl[x].key
        old == Find(cl, k)
    IN
    IF ~indexed THEN cell' = cl /\ UNCHANGED hidx
    ELSE IF old = x
      THEN /\ cell' = cl
           /\ hidx' = [hidx EXCEPT ![k] = IF cl[x].hchain = NULL THEN NoSlot
                                          ELSE SlotSet(k, cl[x].hchain)]
      ELSE /\ \E y \in Range(Path([z \in Cells |-> cl[z].hchain], old)) :
                /\ cl[y].hchain = x
                /\ cell' = [cl EXCEPT ![y].hchain = cl[x].hchain]
           /\ UNCHANGED hidx

\* Mutant: the backward link is forgotten.
CutForward(x) == [cell EXCEPT ![cell[x].prev].next = cell[x].next]

\* The row at x leaves the list; its own links stay.
Cut(x) == [cell EXCEPT ![cell[x].prev].next = cell[x].next,
                       ![cell[x].next].prev = cell[x].prev]

\* Mutant: the cursor stays at the deleted row when it was the first one.
DeleteKeepsCur(c) ==
    LET x == cur[c]
        next == cell[x].next
        sole == x = head /\ next = head
    IN
    /\ scan[c].on /\ scan[c].here
    /\ Unchain(IF sole THEN cell ELSE Cut(x), x)
    /\ free' = IF sole THEN free ELSE Append(free, x)
    /\ head' = IF sole THEN NULL ELSE IF x = head THEN next ELSE head
    /\ scan' = [scan EXCEPT ![c].here = FALSE]
    /\ emptied' = IF sole THEN emptied + 1 ELSE emptied
    /\ UNCHANGED <<indexed, fresh, cur, nextaccess, puts>>

\* c_del.  The cell of the only row is not freed.
Delete(c) ==
    LET x == cur[c]
        next == cell[x].next
        sole == x = head /\ next = head
    IN
    /\ scan[c].on /\ scan[c].here
    /\ Unchain(IF sole THEN cell ELSE Cut(x), x)
    /\ free' = IF sole THEN free ELSE Append(free, x)
    /\ head' = IF sole THEN NULL ELSE IF x = head THEN next ELSE head
    /\ cur' = [cur EXCEPT ![c] = IF x = head /\ ~sole THEN NULL ELSE x]
    /\ scan' = [scan EXCEPT ![c].here = FALSE]
    /\ emptied' = IF sole THEN emptied + 1 ELSE emptied
    /\ UNCHANGED <<indexed, fresh, nextaccess, puts>>

-----------------------------------------------------------------------------
(* Assumptions on the statements, which im_db does not check.  Without any   *)
(* one of these conditions TypeOK or Refines fails.                         *)

\* A full scan stands on a cell that has left the list.
Adrift(c) ==
    /\ scan[c].on /\ ~scan[c].eof /\ scan[c].key = All
    /\ cur[c] \notin OnList \cup {NULL}

\* No row is put into the cell that a scan stands on, nor behind the last row
\* when the scan has only the end of the list before it.
MayPut == \A c \in Cursors : Adrift(c) =>
            Allocated # cur[c] /\ head # NULL /\ cell[cur[c]].next # head

\* No statement deletes the row that another scan is at, or the one it goes to
\* next, or makes that one the first of the list.
MayDelete(c) ==
    \A o \in Cursors \ {c} : scan[o].on /\ ~scan[o].eof =>
      /\ cur[o] # cur[c]
      /\ scan[o].key # All => nextaccess[o] # cur[c]
      /\ Adrift(o) => /\ cell[cur[o]].next # cur[c]
                      /\ cur[c] = head => cell[cur[o]].next # cell[head].next

Next ==
    \/ \E k \in Keys : Put(k) /\ MayPut
    \/ \E c \in Cursors :
         \/ \E k \in Keys \cup {All} : Open(c, k)
         \/ Close(c) \/ Fetch(c) \/ Update(c)
         \/ Delete(c) /\ MayDelete(c)

Spec == Init /\ [][Next]_vars

-----------------------------------------------------------------------------
(* Properties                                                               *)

\* The variables have their types, and while nobody deletes the row of another
\* (MayDelete) a statement that has a row has its cursor at a row of the list,
\* which c_put and c_del then write to.
TypeOK ==
    /\ \A c \in Cursors : scan[c].here => cur[c] \in OnList
    /\ indexed \in BOOLEAN /\ head \in Cells \cup {NULL}
    /\ cell \in [Cells -> [next : Cells \cup {NULL}, prev : Cells \cup {NULL},
                           hchain : Cells \cup {NULL}, key : Keys \cup {All},
                           id : 0..MaxPuts, d : 0..MaxUpdates]]
    /\ free \in Seq(Cells) /\ fresh \in 1..(MaxCells + 1)
    /\ hidx \in [Keys -> [cell : Cells \cup {NULL}, keyat : Cells \cup {NULL}]]
    /\ cur \in [Cursors -> Cells \cup {NULL}]
    /\ nextaccess \in [Cursors -> Cells \cup {NULL}]
    /\ scan \in [Cursors -> [on : BOOLEAN, key : Keys \cup {All},
                             at : 0..MaxPuts, here : BOOLEAN,
                             eof : BOOLEAN]]
    /\ puts \in 0..MaxPuts /\ emptied \in Nat

\* The cells of the pool: each one given out holds a row or has been freed
\* once, except those of rows that were the only one when they were deleted,
\* and prev is next backwards (buffer.c, im_cursor.c).
PoolExact ==
    /\ OnList \cap Range(free) = {} /\ IsInjective(free)
    /\ fresh - 1 = Cardinality(OnList) + Len(free) + emptied
    /\ \A x \in OnList : cell[cell[x].next].prev = x

\* With an index the chain of a key holds exactly the rows with that key,
\* newest first, and its slot points into a row of the list, never into a
\* freed cell (hash-arbitrary.c, hash_replace).
ChainExact ==
    indexed => \A k \in Keys :
      LET chain == Path([x \in Cells |-> cell[x].hchain], Find(cell, k)) IN
      /\ hidx[k] # NoSlot => hidx[k].keyat \in OnList
      /\ Range(chain) = {x \in OnList : cell[x].key = k}
      /\ \A i, j \in DOMAIN chain :
           i < j => cell[chain[i]].id > cell[chain[j]].id

\* A relation is a table: the list is in the order of the puts, and every
\* fetch returns the row the table promises, whatever was changed, put or
\* deleted in the meantime as far as MayPut and MayDelete let it; also from a
\* freed cell (im_cursor.c, DB_NEXT).
T == INSTANCE Table WITH table <- {RowAt(x) : x \in OnList}

Refines == T!TSpec
=============================================================================
