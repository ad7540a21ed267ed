------------------------------- MODULE Tables -------------------------------
(***************************************************************************)
(* One custom table: its columns, its JSON rows, the storage limit, and a  *)
(* client that lists the rows page by page, under concurrent requests.     *)
(*                                                                         *)
(* column and row are committed; newColumn and newRow are what a request   *)
(* has flushed and holds locked.  A row is a partial function from column  *)
(* names to values; types and the validation of values are left out, as    *)
(* are required columns and defaults: a request they refuse is an aborted  *)
(* one, and a default is a value like any other.                           *)
(***************************************************************************)
EXTENDS Naturals, FiniteSets

CONSTANTS
    Column,       \* custom_columns rows that may be inserted
    Name,         \* column names
    Row,          \* ids of the rows that may be inserted, in the order of their UUIDs
    Value,        \* values, in the order of the sort
    Worker,
    First,        \* the columns the table is created with, and their names
    Stored,       \* pg_column_size of each payload, compression included
    Estimate,     \* the length of its JSON (_payload_size)
    Margin,       \* what the estimate of a write's growth may be short of
    StorageLimit, \* custom_tables_storage_limit_bytes
    MaxRows,      \* MAX_ROWS_PER_TABLE
    Page,         \* limit of a listing
    Payload,      \* bound: the data requests carry
    Ops,          \* bound: operations of a run
    Null, Unused, Gone, NoName, NoRow, NoColumn, NoCursor

RowOps == {"insert", "update", "delete"}
SchemaOps == {"rename", "drop"}
AllOps == RowOps \union SchemaOps \union {"add", "deltable", "list"}

\* Payloads of rows; {} is the row without values.
Data == UNION {[N -> Value \union {Null}] : N \in SUBSET Name}

ASSUME TablesAssumption ==
    /\ Row \subseteq Nat /\ IsFiniteSet(Row)
    /\ Value \subseteq Nat /\ IsFiniteSet(Name)
    /\ First \in [Column -> Name \union {Unused}]
    /\ Stored \in [Data -> Nat] /\ Estimate \in [Data -> Nat \ {0}]
    /\ StorageLimit \in Nat /\ MaxRows \in Nat \ {0} /\ Page \in Nat \ {0}
    /\ Payload \subseteq Data
    /\ Ops \subseteq AllOps
    /\ Null \notin Value /\ {Unused, Gone} \intersect Data = {}
    /\ NoName \notin Name /\ NoRow \notin Row /\ NoColumn \notin Column
    /\ NoCursor \notin [value: Value \union {Null}, id: Row]
    /\ Unused \notin Name /\ Gone \notin Name /\ Unused # Gone

ASSUME MarginAssumption ==
    /\ Margin \in Nat
    /\ \A d \in Data : Stored[d] <= Estimate[d] + Margin
    /\ \A d, e \in Data : Stored[d] + Estimate[e] <= Stored[e] + Estimate[d] + Margin

VARIABLES
    column,     \* committed custom_columns: the name of each
    row,        \* committed custom_rows: the data of each
    table,      \* the table has not been deleted
    pc,         \* where each request is
    req,        \* what it was asked
    names,      \* column names it has loaded
    base,       \* the row it has read
    merged,     \* the row it is going to write
    cand,       \* rows the UPDATE of a rename or drop picked
    newColumn,  \* columns it has flushed
    newRow,     \* rows it has flushed
    app,        \* requests that hold the application row
    excused,    \* overlaps after which a promise below is not kept
    listing,    \* a client's listing: the query and the cursor it was given
    steady,     \* rows there since its first page and not written since
    listed,     \* rows it has been given
    again       \* steady rows it has been given twice

committed == <<column, row, table>>
session == <<pc, req, names, base, merged, cand, newColumn, newRow, app>>
client == <<listing, steady, listed, again>>
vars == <<column, row, table, pc, req, names, base, merged, cand, newColumn, newRow,
          app, excused, listing, steady, listed, again>>

Request == [op: AllOps \union {"none"}, row: Row \union {NoRow},
            column: Column \union {NoColumn},
            name: Name \union {NoName}, to: Name \union {NoName}]

NoRequest == [op |-> "none", row |-> NoRow, column |-> NoColumn,
              name |-> NoName, to |-> NoName]

NoListing == [stage |-> "none", field |-> NoName, desc |-> FALSE, cursor |-> NoCursor]

Live == {r \in Row : row[r] \notin {Unused, Gone}}
Columns == {c \in Column : column[c] \notin {Unused, Gone}}
Names == {column[c] : c \in Columns}

\* SUM(pg_column_size(data)) over the rows, counted byte by byte.
Used == Cardinality(UNION {{r} \X (1..Stored[row[r]]) : r \in Live})

Init ==
    /\ column = First
    /\ row = [r \in Row |-> Unused]
    /\ table = TRUE
    /\ pc = [w \in Worker |-> "idle"]
    /\ req = [w \in Worker |-> NoRequest]
    /\ names = [w \in Worker |-> {}]
    /\ base = [w \in Worker |-> Unused]
    /\ merged = [w \in Worker |-> Unused]
    /\ cand = [w \in Worker |-> {}]
    /\ newColumn = [w \in Worker |-> <<>>]
    /\ newRow = [w \in Worker |-> <<>>]
    /\ app = {}
    /\ excused = {}
    /\ listing = NoListing /\ steady = {} /\ listed = {} /\ again = {}

-----------------------------------------------------------------------------
(* Requests and locks.                                                     *)

Doing(w, stage, op) == pc[w] = stage /\ req[w].op = op

\* A rename or drop has seen the rows it will write.
Past(w) == req[w].op \in SchemaOps /\ pc[w] \in {"rewrite", "done"}

\* Row writes between the look at the columns and the commit overlap a rename
\* or drop between the look at the rows and the commit; two of the latter
\* overlap from the start.
Mixes(w, op, past) ==
    \E v \in Worker \ {w} :
        \/ op \in SchemaOps /\ req[v].op \in SchemaOps
        \/ op \in SchemaOps /\ past /\ req[v].op \in {"insert", "update"}
        \/ op \in {"insert", "update"} /\ Past(v)

Excuse(kind, condition) == excused' = excused \union (IF condition THEN {kind} ELSE {})

Begin(w, r, stage, seen, old) ==
    /\ pc[w] = "idle"
    /\ r.op \in Ops
    /\ req' = [req EXCEPT ![w] = r]
    /\ pc' = [pc EXCEPT ![w] = stage]
    /\ names' = [names EXCEPT ![w] = seen]
    /\ base' = [base EXCEPT ![w] = old]
    /\ Excuse("mixed", Mixes(w, r.op, FALSE))
    /\ UNCHANGED <<committed, merged, cand, newColumn, newRow, app, client>>

Advance(w, stage) ==
    /\ pc' = [pc EXCEPT ![w] = stage]
    /\ UNCHANGED <<committed, req, names, base, client>>

RowsUnlocked(w, S) == TRUE                                          \* (fault)

RowsFree(w, S) == \A v \in Worker \ {w} : DOMAIN newRow[v] \intersect S = {}
ColumnFree(w, c) == \A v \in Worker \ {w} : c \notin DOMAIN newColumn[v]

\* A row or column refers to its table: its insertion waits for a deletion of
\* the table, and fails if that was committed.
TableThere(w) == table /\ \A v \in Worker \ {w} : ~Doing(v, "done", "deltable")

-----------------------------------------------------------------------------
(* Rows.                                                                   *)

\* Counted before the lock: concurrent insertions may pass the limit together.
Room == Cardinality(Live) < MaxRows

BeginInsert(w) ==
    /\ table
    /\ Room
    /\ Begin(w, [NoRequest EXCEPT !.op = "insert"], "write", Names, Unused)

BeginUpdate(w, r) ==
    /\ r \in Live
    /\ Begin(w, [NoRequest EXCEPT !.op = "update", !.row = r], "reserve", Names, row[r])

BeginDelete(w, r) ==
    /\ r \in Live
    /\ Begin(w, [NoRequest EXCEPT !.op = "delete", !.row = r], "write", {}, Unused)

\* What is added is an estimate of its own: the JSON text grows.
Grows(before, d) == Estimate[d] > before

\* _reserve_storage without the lock of the application row.
ReserveUnlocked(w, before, d) ==                                    \* (fault)
    /\ Grows(before, d) => Used + Estimate[d] - before <= StorageLimit
    /\ app' = app

\* _reserve_storage: nothing to do unless the data grows; else take the lock of
\* the application row, then add the growth to what is stored.
Reserve(w, before, d) ==
    IF ~Grows(before, d)
      THEN app' = app
      ELSE /\ app \subseteq {w}
           /\ Used + Estimate[d] - before <= StorageLimit
           /\ app' = app \union {w}

Insert(w) ==
    /\ Doing(w, "write", "insert")
    /\ TableThere(w)
    /\ \E d \in Payload, r \in Row :
          /\ DOMAIN d \subseteq names[w]
          /\ row[r] = Unused /\ \A v \in Worker : r \notin DOMAIN newRow[v]
          /\ Reserve(w, 0, d)
          /\ newRow' = [newRow EXCEPT ![w] = [x \in {r} |-> d]]
    /\ Advance(w, "done")
    /\ UNCHANGED <<merged, cand, newColumn, excused>>

\* The row as it was read, with the values of the request over it.
Merged(w, d) == [n \in DOMAIN base[w] \union DOMAIN d |->
                    IF n \in DOMAIN d THEN d[n] ELSE base[w][n]]

\* An update that changes nothing writes nothing.
Patch(w) ==
    /\ Doing(w, "reserve", "update")
    /\ \E d \in Payload :
          /\ DOMAIN d \subseteq names[w]
          /\ Reserve(w, Estimate[base[w]], Merged(w, d))
          /\ merged' = [merged EXCEPT ![w] = Merged(w, d)]
          /\ Advance(w, IF Merged(w, d) = base[w] THEN "done" ELSE "write")
    /\ UNCHANGED <<cand, newColumn, newRow, excused>>

\* An UPDATE by primary key that finds no row fails; a DELETE does not mind.
Found(r) == r \in Live

Update(w) ==
    LET r == req[w].row IN
    /\ Doing(w, "write", "update")
    /\ RowsFree(w, {r})
    /\ Found(r)
    /\ newRow' = [newRow EXCEPT ![w] = [x \in {r} |-> merged[w]]]
    /\ excused' = excused
          \union (IF row[r] # base[w] THEN {"stale"} ELSE {})
          \union (IF w \notin app /\ Stored[merged[w]] > Stored[row[r]] THEN {"grown"} ELSE {})
    /\ Advance(w, "done")
    /\ UNCHANGED <<merged, cand, newColumn, app>>

Delete(w) ==
    LET r == req[w].row IN
    /\ Doing(w, "write", "delete")
    /\ RowsFree(w, {r})
    /\ newRow' = [newRow EXCEPT ![w] = [x \in {r} \intersect Live |-> Gone]]
    /\ Advance(w, "done")
    /\ UNCHANGED <<merged, cand, newColumn, app, excused>>

-----------------------------------------------------------------------------
(* Columns.                                                                *)

BeginAdd(w, n) ==
    /\ table
    /\ n \notin Names
    /\ Begin(w, [NoRequest EXCEPT !.op = "add", !.to = n], "flush", {}, Unused)

BeginRename(w, c, n) ==
    /\ c \in Columns /\ n \notin Names
    /\ Begin(w, [NoRequest EXCEPT !.op = "rename", !.column = c,
                                  !.name = column[c], !.to = n], "flush", {}, Unused)

BeginDrop(w, c) ==
    /\ c \in Columns
    /\ Begin(w, [NoRequest EXCEPT !.op = "drop", !.column = c, !.name = column[c]],
             "flush", {}, Unused)

\* The unique index on (table_id, name), which waits for insertions, renames and
\* deletions under way.
NameFree(w, n) ==
    /\ n \notin Names
    /\ \A v \in Worker \ {w} : \A c \in DOMAIN newColumn[v] : newColumn[v][c] # n

FlushColumn(w, c, n) ==
    /\ ColumnFree(w, c)
    /\ newColumn' = [newColumn EXCEPT ![w] = [x \in {c} |-> n]]
    /\ UNCHANGED <<merged, cand, newRow, app, excused>>

Add(w) ==
    /\ Doing(w, "flush", "add")
    /\ TableThere(w)
    /\ NameFree(w, req[w].to)
    /\ \E c \in Column : column[c] = Unused /\ FlushColumn(w, c, req[w].to)
    /\ Advance(w, "done")

Rename(w) ==
    LET c == req[w].column IN
    /\ Doing(w, "flush", "rename")
    /\ c \in Columns
    /\ NameFree(w, req[w].to)
    /\ FlushColumn(w, c, req[w].to)
    /\ Advance(w, "pick")

\* A column that was dropped meanwhile does not stop the request.
Drop(w) ==
    LET c == req[w].column IN
    /\ Doing(w, "flush", "drop")
    /\ IF c \in Columns
         THEN FlushColumn(w, c, Gone)
         ELSE UNCHANGED <<merged, cand, newColumn, newRow, app, excused>>
    /\ Advance(w, "pick")

\* The rows an UPDATE over the whole table starts from, and those that still
\* have the key when their locks are free.
Having(S, n) == {r \in S \intersect Live : n \in DOMAIN row[r]}

PickRows(w) ==
    /\ pc[w] = "pick"
    /\ cand' = [cand EXCEPT ![w] = Having(Row, req[w].name)]
    /\ Excuse("mixed", Mixes(w, req[w].op, TRUE))
    /\ Advance(w, "rewrite")
    /\ UNCHANGED <<merged, newColumn, newRow, app>>

Without(d, old) == [n \in DOMAIN d \ {old} |-> d[n]]

Kept(d, old, new) == d                                              \* (fault)

\* The row's value under its new name, or without the dropped one.
Rewritten(d, old, new) ==
    IF new = NoName
      THEN Without(d, old)
      ELSE [n \in (DOMAIN d \ {old}) \union {new} |-> IF n = new THEN d[old] ELSE d[n]]

Rewrite(w) ==
    LET rows == Having(cand[w], req[w].name)
        new  == [r \in rows |-> Rewritten(row[r], req[w].name, req[w].to)]
    IN  /\ pc[w] = "rewrite"
        /\ RowsFree(w, cand[w])
        /\ newRow' = [newRow EXCEPT ![w] = new]
        /\ Excuse("grown", \E r \in rows : Stored[new[r]] > Stored[row[r]])
        /\ Advance(w, "done")
        /\ UNCHANGED <<merged, cand, newColumn, app>>

BeginDeleteTable(w) ==
    /\ table
    /\ Begin(w, [NoRequest EXCEPT !.op = "deltable"], "flush", {}, Unused)

\* Columns and rows go with their table, once nobody holds one of them.
DeleteTable(w) ==
    /\ Doing(w, "flush", "deltable")
    /\ \A v \in Worker \ {w} : newRow[v] = <<>> /\ newColumn[v] = <<>>
    /\ TableThere(w) \/ ~table
    /\ newRow' = [newRow EXCEPT ![w] = [r \in Live |-> Gone]]
    /\ newColumn' = [newColumn EXCEPT ![w] = [c \in Columns |-> Gone]]
    /\ Advance(w, "done")
    /\ UNCHANGED <<merged, cand, app, excused>>

-----------------------------------------------------------------------------
(* The end of a request.                                                   *)

EndRequest(w) ==
    /\ pc' = [pc EXCEPT ![w] = "idle"]
    /\ req' = [req EXCEPT ![w] = NoRequest]
    /\ names' = [names EXCEPT ![w] = {}]
    /\ base' = [base EXCEPT ![w] = Unused]
    /\ merged' = [merged EXCEPT ![w] = Unused]
    /\ cand' = [cand EXCEPT ![w] = {}]
    /\ newColumn' = [newColumn EXCEPT ![w] = <<>>]
    /\ newRow' = [newRow EXCEPT ![w] = <<>>]
    /\ app' = app \ {w}

Over(f, g) == [x \in DOMAIN f |-> IF x \in DOMAIN g THEN g[x] ELSE f[x]]

Commit(w) ==
    /\ pc[w] = "done"
    /\ row' = Over(row, newRow[w])
    /\ column' = Over(column, newColumn[w])
    /\ table' = (table /\ req[w].op # "deltable")
    /\ steady' = {r \in steady : row'[r] = row[r]}
    /\ again' = again \intersect steady'
    /\ EndRequest(w)
    /\ UNCHANGED <<excused, listing, listed>>

\* A refusal, an error or a crash.
Abort(w) ==
    /\ pc[w] # "idle"
    /\ EndRequest(w)
    /\ UNCHANGED <<committed, excused, client>>

-----------------------------------------------------------------------------
(* Listing.                                                                *)

\* What a row sorts by: a missing key and a JSON null are both SQL NULL.
SortValue(r, n) == IF n \in DOMAIN row[r] THEN row[r][n] ELSE Null

\* PostgreSQL sorts NULL after every value, and so first when descending.
Less(n, r, s) ==
    LET x == SortValue(r, n)  y == SortValue(s, n) IN
    \/ x = y /\ r < s
    \/ x # Null /\ (y = Null \/ x < y)

AfterNoNulls(x, id, v, k, desc) ==                                  \* (fault)
    IF v = Null THEN x = Null /\ (IF desc THEN id < k ELSE id > k)
                ELSE x # Null /\ IF desc THEN x < v \/ (x = v /\ id < k)
                                         ELSE x > v \/ (x = v /\ id > k)

\* _keyset_predicate: the row with sort value x comes after the cursor (v, k).
After(x, id, v, k, desc) ==
    IF desc
      THEN IF v = Null
             THEN x # Null \/ id < k
             ELSE x # Null /\ (x < v \/ (x = v /\ id < k))
      ELSE IF v = Null
             THEN x = Null /\ id > k
             ELSE x = Null \/ x > v \/ (x = v /\ id > k)

\* query_rows: one page, and the cursor of its last row if there are more.
NextPage(query, start) ==
    LET cursor == query.cursor
        found == {r \in Live : \/ cursor = NoCursor
                               \/ After(SortValue(r, query.field), r, cursor.value,
                                        cursor.id, query.desc)}
        first == {r \in found :
                    Cardinality({s \in found : IF query.desc THEN Less(query.field, r, s)
                                               ELSE Less(query.field, s, r)}) < Page}
        last == CHOOSE r \in first :
                    \A s \in first \ {r} : IF query.desc THEN Less(query.field, r, s)
                                           ELSE Less(query.field, s, r)
    IN  /\ listing' = IF found = first
                        THEN [query EXCEPT !.stage = "ended", !.cursor = NoCursor]
                        ELSE [query EXCEPT !.cursor =
                                [value |-> SortValue(last, query.field), id |-> last]]
        /\ steady' = IF start THEN Live ELSE steady
        /\ listed' = listed \union first
        /\ again' = again \union (listed \intersect steady \intersect first)
        /\ UNCHANGED <<committed, session, excused>>

BeginListing(n, desc) ==
    /\ "list" \in Ops
    /\ listing.stage = "none"
    /\ n \in Names
    /\ NextPage([stage |-> "paging", field |-> n, desc |-> desc, cursor |-> NoCursor],
                TRUE)

ListMore ==
    /\ listing.stage = "paging"
    /\ listing.field \in Names
    /\ NextPage(listing, FALSE)

\* The client has what it asked for, or its sort column has gone.
EndListing ==
    /\ listing.stage = "ended" \/ (listing.stage = "paging" /\ listing.field \notin Names)
    /\ listing' = NoListing
    /\ steady' = {} /\ listed' = {} /\ again' = {}
    /\ UNCHANGED <<committed, session, excused>>

-----------------------------------------------------------------------------
Start(w) ==
    \/ BeginInsert(w)
    \/ \E r \in Row : BeginUpdate(w, r) \/ BeginDelete(w, r)
    \/ \E n \in Name : BeginAdd(w, n)
    \/ \E c \in Column, n \in Name : BeginRename(w, c, n)
    \/ \E c \in Column : BeginDrop(w, c)
    \/ BeginDeleteTable(w)

Work(w) ==
    \/ Insert(w) \/ Patch(w) \/ Update(w) \/ Delete(w)
    \/ Add(w) \/ Rename(w) \/ Drop(w) \/ PickRows(w) \/ Rewrite(w)
    \/ DeleteTable(w)

Next ==
    \/ \E w \in Worker : Start(w) \/ Work(w) \/ Commit(w) \/ Abort(w)
    \/ \E n \in Name, desc \in BOOLEAN : BeginListing(n, desc)
    \/ ListMore \/ EndListing

Spec == Init /\ [][Next]_vars

-----------------------------------------------------------------------------
\* Types of all variables (the columns of the custom_* tables, and requests).
TypeOK ==
    /\ column \in [Column -> Name \union {Unused, Gone}]
    /\ row \in [Row -> Data \union {Unused, Gone}]
    /\ table \in BOOLEAN
    /\ pc \in [Worker -> {"idle", "reserve", "write", "flush", "pick", "rewrite", "done"}]
    /\ req \in [Worker -> Request]
    /\ names \in [Worker -> SUBSET Name]
    /\ base \in [Worker -> Data \union {Unused}]
    /\ merged \in [Worker -> Data \union {Unused}]
    /\ cand \in [Worker -> SUBSET Row]
    /\ \A w \in Worker : \A c \in DOMAIN newColumn[w] :
          c \in Column /\ newColumn[w][c] \in Name \union {Gone}
    /\ \A w \in Worker : \A r \in DOMAIN newRow[w] :
          r \in Row /\ newRow[w][r] \in Data \union {Gone}
    /\ app \in SUBSET Worker
    /\ excused \in SUBSET {"mixed", "stale", "grown"}
    /\ listing.stage \in {"none", "paging", "ended"}
    /\ steady \in SUBSET Row /\ listed \in SUBSET Row /\ again \in SUBSET Row

\* tables.py: "stored data always matches the declared schema".  It does as long
\* as no rename or drop overlaps another one, or a write of a row that has read
\* the columns before and is not committed when the rename picks its rows.
RowsMatchColumns ==
    "mixed" \notin excused => \A r \in Live : DOMAIN row[r] \subseteq Names

\* "concurrent writes cannot both pass the same check" (tables.py): what is
\* stored passes the limit by what the estimate of one write falls short of
\* (Margin) and no more, however many writes are admitted at once, for each is
\* checked against all that was stored before it (_reserve_storage).  Not so
\* after an update that wrote over a row changed since it was read, whose growth
\* was taken against another size, or a write that reserved nothing and grew
\* what is stored: a rename to a longer name, or a shorter JSON text that takes
\* more bytes.
WithinLimit == excused \intersect {"stale", "grown"} = {} => Used <= StorageLimit + Margin

\* A row there from the first page to the last and not written meanwhile is
\* listed exactly once, whatever else is inserted, changed or deleted, with
\* equal and missing sort values and in both directions (query_rows).
ListedOnce ==
    /\ again = {}
    /\ listing.stage = "ended" => steady \subseteq listed

=============================================================================
