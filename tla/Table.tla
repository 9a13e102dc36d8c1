------------------------------- MODULE Table --------------------------------
(***************************************************************************)
(* What a table with cursors promises to the code generated for a query:   *)
(* rows in the order they were put, and scans that meet every row that is  *)
(* there when its turn comes exactly once, although rows are put, changed  *)
(* and deleted while they run.                                             *)
(***************************************************************************)
EXTENDS Naturals, FiniteSetsExt

CONSTANTS Keys, Cursors,
          All   \* the "key" of a scan of the whole table

VARIABLES
    table,  \* the rows [id, key, d]: put number, key, and how often changed
    puts,   \* rows put so far
    scan    \* the scans: [on, key, at (the row the last fetch returned, 0:
            \* none yet), here (the scan has not deleted it), eof (the last
            \* fetch returned DB_NOTFOUND)]

tvars == <<table, puts, scan>>

Closed == [on |-> FALSE, key |-> All, at |-> 0, here |-> FALSE,
           eof |-> FALSE]

TInit == /\ table = {} /\ puts = 0
         /\ scan = [c \in Cursors |-> Closed]

Put(k) ==
    /\ puts' = puts + 1
    /\ table' = table \cup {[id |-> puts + 1, key |-> k, d |-> 0]}
    /\ UNCHANGED scan

Open(c, k) ==
    /\ ~scan[c].on
    /\ scan' = [scan EXCEPT ![c] = [Closed EXCEPT !.on = TRUE, !.key = k]]
    /\ UNCHANGED <<table, puts>>

Close(c) == /\ scan[c].on
            /\ scan' = [scan EXCEPT ![c] = Closed]
            /\ UNCHANGED <<table, puts>>

\* The rows a scan has still to meet: a full scan goes through the table from
\* the oldest row on, a scan for a key from the newest row back.
Ahead(c) ==
    LET s == scan[c] IN
    IF s.key = All THEN {r \in table : r.id > s.at}
    ELSE {r \in table : r.key = s.key /\ (s.at = 0 \/ r.id < s.at)}

NextId(c) ==
    LET ids == {r.id : r \in Ahead(c)}
    IN IF scan[c].key = All THEN Min(ids) ELSE Max(ids)

AtEnd == [Closed EXCEPT !.on = TRUE, !.eof = TRUE]

Fetch(c) ==
    /\ scan[c].on /\ ~scan[c].eof
    /\ IF Ahead(c) = {}
         THEN scan' = [scan EXCEPT ![c] = AtEnd]
         ELSE scan' = [scan EXCEPT ![c].at = NextId(c), ![c].here = TRUE]
    /\ UNCHANGED <<table, puts>>

\* A scan changes or deletes the row it is at.
Update(c) ==
    /\ scan[c].on /\ scan[c].here
    /\ table' = {IF r.id = scan[c].at THEN [r EXCEPT !.d = @ + 1] ELSE r :
                 r \in table}
    /\ UNCHANGED <<puts, scan>>

Delete(c) ==
    /\ scan[c].on /\ scan[c].here
    /\ table' = {r \in table : r.id # scan[c].at}
    /\ scan' = [scan EXCEPT ![c].here = FALSE]
    /\ UNCHANGED puts

TNext ==
    \/ \E k \in Keys : Put(k)
    \/ \E c \in Cursors :
         \/ \E k \in Keys \cup {All} : Open(c, k)
         \/ Close(c) \/ Fetch(c) \/ Update(c) \/ Delete(c)

TSpec == TInit /\ [][TNext]_tvars
=============================================================================
