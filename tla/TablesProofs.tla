---------------------------- MODULE TablesProofs ----------------------------
(***************************************************************************)
(* What a custom table promises under concurrent requests, for any number  *)
(* of requests, columns, rows and values: stored rows match the declared   *)
(* columns, the storage limit holds, and a listing gives every row that    *)
(* nobody touches exactly once.  The overlaps these need excused are in    *)
(* the properties.                                                         *)
(***************************************************************************)
EXTENDS Tables, FiniteSetTheorems, WellFoundedInduction, TLAPS

SchemaOp(w) == req[w].op \in SchemaOps

\* The stages of a request, and what it has flushed by then.
Stages(op) ==
    CASE op = "none" -> {"idle"}
      [] op = "update" -> {"reserve", "write", "done"}
      [] op \in {"insert", "delete"} -> {"write", "done"}
      [] op \in {"add", "deltable"} -> {"flush", "done"}
      [] op \in SchemaOps -> {"flush", "pick", "rewrite", "done"}
      [] OTHER -> {}

Shape(w) ==
    /\ pc[w] \in Stages(req[w].op)
    /\ pc[w] # "done" \/ req[w].op = "add" => DOMAIN newRow[w] = {}
    /\ req[w].op = "insert" => \A r, s \in DOMAIN newRow[w] : r = s
    /\ DOMAIN newColumn[w] # {} =>
          \/ SchemaOp(w) /\ pc[w] \in {"pick", "rewrite", "done"}
          \/ req[w].op \in {"add", "deltable"} /\ pc[w] = "done"
    /\ SchemaOp(w) => /\ req[w].column \in Column /\ req[w].name \in Name
                      /\ req[w].op = "rename" => req[w].to \in Name
                      /\ req[w].op = "drop" => req[w].to = NoName
    /\ req[w].op = "add" => req[w].to \in Name
    /\ req[w].op = "update" =>
          /\ req[w].row \in Row /\ base[w] \in Data
          /\ pc[w] # "reserve" => merged[w] \in Data

\* Types of all variables, and what a request has flushed by when.
Types ==
    /\ TypeOK
    /\ newColumn = [w \in Worker |-> newColumn[w]]
    /\ newRow = [w \in Worker |-> newRow[w]]
    /\ listing = [stage |-> listing.stage, field |-> listing.field,
                  desc |-> listing.desc, cursor |-> listing.cursor]
    /\ \A w \in Worker : Shape(w)

\* Nobody else has flushed a row or a column that a request has flushed, and it
\* is still what the request found: a free one for an insertion, else one in use.
HeldRow(w, r) ==
    /\ IF req[w].op = "insert" THEN row[r] = Unused ELSE r \in Live
    /\ IF req[w].op \in {"delete", "deltable"} THEN newRow[w][r] = Gone
                                               ELSE newRow[w][r] \in Data
    /\ req[w].op \in {"update", "delete"} => r = req[w].row
HeldColumn(w, c) ==
    IF req[w].op = "add" THEN column[c] = Unused ELSE c \in Columns

Locks ==
    /\ \A v, w \in Worker : v # w =>
          /\ DOMAIN newRow[v] \intersect DOMAIN newRow[w] = {}
          /\ DOMAIN newColumn[v] \intersect DOMAIN newColumn[w] = {}
    /\ \A w \in Worker :
          /\ \A r \in DOMAIN newRow[w] : HeldRow(w, r)
          /\ \A c \in DOMAIN newColumn[w] : HeldColumn(w, c)

\* A deletion of the table leaves the rows of nobody else, and ends them all.
Deleting(w) == Doing(w, "done", "deltable")
TableInv ==
    /\ \A w \in Worker : Deleting(w) /\ table =>
          /\ DOMAIN newRow[w] = Live
          /\ \A v \in Worker \ {w} : DOMAIN newRow[v] = {}
    /\ ~table => Live = {} /\ \A w \in Worker : DOMAIN newRow[w] = {}

\* Each write of a row has read the columns there are.
Written(w) ==
    req[w].op \in {"insert", "update"} =>
        /\ names[w] \subseteq Names
        /\ req[w].op = "update" =>
              /\ DOMAIN base[w] \subseteq Names
              /\ pc[w] # "reserve" => DOMAIN merged[w] \subseteq Names
        /\ \A r \in DOMAIN newRow[w] : DOMAIN newRow[w][r] \subseteq Names

NewName(w) == IF req[w].op = "rename" THEN req[w].to ELSE Gone

\* A rename or drop has the column to itself, and once it has seen the rows no
\* row is written but by it.
Changing(w) ==
    SchemaOp(w) =>
        /\ column[req[w].column] = req[w].name
        /\ pc[w] # "flush" => /\ DOMAIN newColumn[w] = {req[w].column}
                              /\ newColumn[w][req[w].column] = NewName(w)
        /\ \A v \in Worker \ {w} :
              /\ ~SchemaOp(v)
              /\ Past(w) => req[v].op \notin {"insert", "update"}
        /\ \A r \in Live :
              /\ pc[w] = "rewrite" /\ req[w].name \in DOMAIN row[r] => r \in cand[w]
              /\ pc[w] = "done" =>
                    IF r \in DOMAIN newRow[w]
                      THEN /\ req[w].name \in DOMAIN row[r]
                           /\ newRow[w][r] = Rewritten(row[r], req[w].name, req[w].to)
                      ELSE req[w].name \notin DOMAIN row[r]

Matching ==
    /\ \A r \in Live : DOMAIN row[r] \subseteq Names
    /\ \A w \in Worker : Written(w) /\ Changing(w)

MatchInv == table /\ "mixed" \notin excused => Matching

\* A request that holds the application row has compared what is stored and the
\* growth of its text with the limit.
Reserved(w, new, old) == w \in app /\ Used + new <= StorageLimit + old
OldSize(r) == IF r \in Live THEN Stored[row[r]] ELSE 0
OldText(r) == IF r \in Live THEN Estimate[row[r]] ELSE 0

\* A row it is about to write takes no more than it does, or is reserved.
Fits(w) ==
    /\ pc[w] \in {"idle", "reserve"} => w \notin app
    /\ Doing(w, "write", "update") =>
          w \notin app \/ Reserved(w, Estimate[merged[w]], Estimate[base[w]])
    /\ \A r \in DOMAIN newRow[w] : newRow[w][r] # Gone =>
          /\ \/ Stored[newRow[w][r]] <= OldSize(r)
             \/ Reserved(w, Estimate[newRow[w][r]], OldText(r))
          /\ SchemaOp(w) => Stored[newRow[w][r]] <= OldSize(r)

Limited ==
    /\ Used <= StorageLimit + Margin
    /\ \A v, w \in app : v = w
    /\ \A w \in Worker : Fits(w)

LimitInv == excused \intersect {"stale", "grown"} = {} => Limited

\* The rows a listing owes are those after its cursor.
ListInv ==
    /\ again = {}
    /\ steady \subseteq Live
    /\ listing.stage = "none" => listed = {} /\ steady = {}
    /\ listing.stage = "ended" => steady \subseteq listed
    /\ listing.stage = "paging" =>
          /\ listing.cursor \in [value: Value \union {Null}, id: Row]
          /\ listing.desc \in BOOLEAN
          /\ \A r \in steady : r \in listed <=>
                ~After(SortValue(r, listing.field), r, listing.cursor.value,
                       listing.cursor.id, listing.desc)

-----------------------------------------------------------------------------
(* The data of rows.                                                       *)

LEMMA DataIs ==
  ASSUME NEW N \in SUBSET Name, NEW d \in [N -> Value \union {Null}]
  PROVE  d \in Data
  BY DEF Data

LEMMA DataHas ==
  ASSUME NEW d \in Data
  PROVE  DOMAIN d \in SUBSET Name /\ d \in [DOMAIN d -> Value \union {Null}]
  <1>1. PICK N \in SUBSET Name : d \in [N -> Value \union {Null}]
    BY DEF Data
  <1> QED
    BY <1>1

LEMMA RewrittenIs ==
  ASSUME NEW d \in Data, NEW old \in DOMAIN d, NEW new \in Name \union {NoName}
  PROVE  /\ Rewritten(d, old, new) \in Data
         /\ DOMAIN Rewritten(d, old, new) =
               (DOMAIN d \ {old}) \union (IF new = NoName THEN {} ELSE {new})
  <1> DEFINE x == Rewritten(d, old, new)
             N == (DOMAIN d \ {old}) \union (IF new = NoName THEN {} ELSE {new})
  <1>1. N \in SUBSET Name
    BY DataHas
  <1>2. x \in [N -> Value \union {Null}]
    BY DataHas DEF Rewritten, Without
  <1>3. x \in Data
    BY <1>1, <1>2, DataIs
  <1> QED
    BY <1>2, <1>3

LEMMA MergedIs ==
  ASSUME NEW w \in Worker, base[w] \in Data, NEW d \in Data
  PROVE  /\ Merged(w, d) \in Data
         /\ DOMAIN Merged(w, d) = DOMAIN base[w] \union DOMAIN d
  <1> DEFINE x == Merged(w, d)
             N == DOMAIN base[w] \union DOMAIN d
  <1>1. N \in SUBSET Name
    BY DataHas
  <1>2. x \in [N -> Value \union {Null}]
    BY DataHas DEF Merged
  <1>3. x \in Data
    BY <1>1, <1>2, DataIs
  <1> QED
    BY <1>2, <1>3

LEMMA LiveIs ==
  ASSUME Types, NEW r \in Live
  PROVE  r \in Row /\ row[r] \in Data
  BY DEF Live, Types, TypeOK

-----------------------------------------------------------------------------
(* Types.                                                                  *)

LEMMA TypesInit == Init => Types
  <1> SUFFICES ASSUME Init PROVE Types
    OBVIOUS
  <1> USE DEF Init
  <1>1. DOMAIN << >> = {}
    OBVIOUS
  <1>2. TypeOK
    BY <1>1, TablesAssumption DEF TypeOK, TablesAssumption, NoRequest, Request, NoListing
  <1>3. ASSUME NEW w \in Worker PROVE Shape(w)
    BY <1>1, <1>3 DEF Shape, Stages, SchemaOp, SchemaOps, NoRequest
  <1> QED
    BY <1>2, <1>3 DEF Types, NoListing

\* What a request begins with.
Requested(r, stage, seen, old) ==
    /\ r \in Request /\ seen \in SUBSET Name /\ old \in Data \union {Unused}
    /\ stage \in Stages(r.op) \ {"idle", "done", "pick", "rewrite"}
    /\ r.op \in {"insert", "update"} => seen = Names
    /\ r.op = "update" => stage = "reserve" /\ r.row \in Live /\ old = row[r.row]
    /\ r.op = "add" => r.to \in Name
    /\ r.op \in SchemaOps =>
          /\ stage = "flush" /\ r.column \in Columns /\ r.name = column[r.column]
          /\ r.op = "rename" => r.to \in Name
          /\ r.op = "drop" => r.to = NoName

LEMMA StartIs ==
  ASSUME Types, NEW w \in Worker, Start(w)
  PROVE  \E r, stage, seen, old : Requested(r, stage, seen, old) /\ Begin(w, r, stage, seen, old)
  <1> USE DEF Types, TypeOK
  <1> DEFINE Goal == \E r, stage, seen, old :
                        Requested(r, stage, seen, old) /\ Begin(w, r, stage, seen, old)
  <1>1. Names \in SUBSET Name /\ \A c \in Columns : c \in Column /\ column[c] \in Name
    BY DEF Names, Columns
  <1>2. ASSUME NEW r, NEW stage, NEW seen, NEW old,
               Requested(r, stage, seen, old), Begin(w, r, stage, seen, old)
        PROVE  Goal
    BY <1>2
  <1> HIDE DEF Goal
  <1>3. CASE BeginInsert(w)
    <2> DEFINE r == [NoRequest EXCEPT !.op = "insert"]
    <2>1. r \in Request /\ r.op = "insert"
      BY DEF NoRequest, Request, AllOps, RowOps
    <2> HIDE DEF r
    <2>2. Requested(r, "write", Names, Unused)
      BY <1>1, <2>1 DEF Requested, Stages, SchemaOps
    <2>3. Begin(w, r, "write", Names, Unused)
      BY <1>3 DEF BeginInsert, r
    <2> QED
      BY <1>2, <2>2, <2>3
  <1>4. ASSUME NEW x \in Row, BeginUpdate(w, x) PROVE Goal
    <2> DEFINE r == [NoRequest EXCEPT !.op = "update", !.row = x]
    <2>1. r \in Request /\ r.op = "update" /\ r.row = x
      BY DEF NoRequest, Request, AllOps, RowOps
    <2> HIDE DEF r
    <2>2. x \in Live /\ row[x] \in Data
      BY <1>4, LiveIs DEF BeginUpdate
    <2>3. Requested(r, "reserve", Names, row[x])
      BY <1>1, <2>1, <2>2 DEF Requested, Stages, SchemaOps
    <2>4. Begin(w, r, "reserve", Names, row[x])
      BY <1>4 DEF BeginUpdate, r
    <2> QED
      BY <1>2, <2>3, <2>4
  <1>5. ASSUME NEW x \in Row, BeginDelete(w, x) PROVE Goal
    <2> DEFINE r == [NoRequest EXCEPT !.op = "delete", !.row = x]
    <2>1. r \in Request /\ r.op = "delete"
      BY DEF NoRequest, Request, AllOps, RowOps
    <2> HIDE DEF r
    <2>2. Requested(r, "write", {}, Unused)
      BY <2>1 DEF Requested, Stages, SchemaOps
    <2>3. Begin(w, r, "write", {}, Unused)
      BY <1>5 DEF BeginDelete, r
    <2> QED
      BY <1>2, <2>2, <2>3
  <1>6. ASSUME NEW n \in Name, BeginAdd(w, n) PROVE Goal
    <2> DEFINE r == [NoRequest EXCEPT !.op = "add", !.to = n]
    <2>1. r \in Request /\ r.op = "add" /\ r.to = n
      BY DEF NoRequest, Request, AllOps, RowOps
    <2> HIDE DEF r
    <2>2. Requested(r, "flush", {}, Unused)
      BY <2>1 DEF Requested, Stages, SchemaOps
    <2>3. Begin(w, r, "flush", {}, Unused)
      BY <1>6 DEF BeginAdd, r
    <2> QED
      BY <1>2, <2>2, <2>3
  <1>7. ASSUME NEW c \in Column, NEW n \in Name, BeginRename(w, c, n) PROVE Goal
    <2> DEFINE r == [NoRequest EXCEPT !.op = "rename", !.column = c, !.name = column[c], !.to = n]
    <2>1. c \in Columns
      BY <1>7 DEF BeginRename
    <2>2. r \in Request /\ r.op = "rename" /\ r.column = c /\ r.name = column[c] /\ r.to = n
      BY <1>1, <2>1 DEF NoRequest, Request, AllOps, SchemaOps
    <2> HIDE DEF r
    <2>3. Requested(r, "flush", {}, Unused)
      BY <2>1, <2>2 DEF Requested, Stages, SchemaOps
    <2>4. Begin(w, r, "flush", {}, Unused)
      BY <1>7 DEF BeginRename, r
    <2> QED
      BY <1>2, <2>3, <2>4
  <1>8. ASSUME NEW c \in Column, BeginDrop(w, c) PROVE Goal
    <2> DEFINE r == [NoRequest EXCEPT !.op = "drop", !.column = c, !.name = column[c]]
    <2>1. c \in Columns
      BY <1>8 DEF BeginDrop
    <2>2. r \in Request /\ r.op = "drop" /\ r.column = c /\ r.name = column[c] /\ r.to = NoName
      BY <1>1, <2>1 DEF NoRequest, Request, AllOps, SchemaOps
    <2> HIDE DEF r
    <2>3. Requested(r, "flush", {}, Unused)
      BY <2>1, <2>2 DEF Requested, Stages, SchemaOps
    <2>4. Begin(w, r, "flush", {}, Unused)
      BY <1>8 DEF BeginDrop, r
    <2> QED
      BY <1>2, <2>3, <2>4
  <1>9. CASE BeginDeleteTable(w)
    <2> DEFINE r == [NoRequest EXCEPT !.op = "deltable"]
    <2>1. r \in Request /\ r.op = "deltable"
      BY DEF NoRequest, Request, AllOps, RowOps
    <2> HIDE DEF r
    <2>2. Requested(r, "flush", {}, Unused)
      BY <2>1 DEF Requested, Stages, SchemaOps
    <2>3. Begin(w, r, "flush", {}, Unused)
      BY <1>9 DEF BeginDeleteTable, r
    <2> QED
      BY <1>2, <2>2, <2>3
  <1> QED
    BY <1>3, <1>4, <1>5, <1>6, <1>7, <1>8, <1>9 DEF Start, Goal

\* What a step of one request leaves alone.
LEMMA Frame ==
  ASSUME Types, NEW w \in Worker, Start(w) \/ Work(w) \/ Abort(w)
  PROVE  /\ UNCHANGED <<column, row, table>>
         /\ UNCHANGED <<listing, steady, listed, again>>
         /\ \A v \in Worker \ {w} :
               /\ pc'[v] = pc[v] /\ req'[v] = req[v] /\ names'[v] = names[v]
               /\ base'[v] = base[v] /\ merged'[v] = merged[v] /\ cand'[v] = cand[v]
               /\ newColumn'[v] = newColumn[v] /\ newRow'[v] = newRow[v]
         /\ pc' = [v \in Worker |-> pc'[v]] /\ req' = [v \in Worker |-> req'[v]]
         /\ names' = [v \in Worker |-> names'[v]] /\ base' = [v \in Worker |-> base'[v]]
         /\ merged' = [v \in Worker |-> merged'[v]] /\ cand' = [v \in Worker |-> cand'[v]]
         /\ newColumn' = [v \in Worker |-> newColumn'[v]]
         /\ newRow' = [v \in Worker |-> newRow'[v]]
  <1> USE DEF Types, TypeOK, committed, client
  <1>1. CASE Start(w)
    <2>1. PICK r, stage, seen, old : Begin(w, r, stage, seen, old)
      BY <1>1, StartIs
    <2> QED
      BY <2>1, ZenonT(30) DEF Begin
  <1>2. CASE Abort(w)
    BY <1>2, ZenonT(30) DEF Abort, EndRequest
  <1>3. CASE Insert(w) \/ Patch(w) \/ Update(w) \/ Delete(w)
    <2>1. CASE Insert(w)
      BY <2>1 DEF Insert, Advance
    <2>2. CASE Patch(w)
      BY <2>2, ZenonT(30) DEF Patch, Advance
    <2>3. CASE Update(w)
      BY <2>3 DEF Update, Advance
    <2>4. CASE Delete(w)
      BY <2>4 DEF Delete, Advance
    <2> QED
      BY <1>3, <2>1, <2>2, <2>3, <2>4
  <1>4. CASE Add(w) \/ Rename(w) \/ Drop(w)
    <2>1. CASE Add(w)
      BY <2>1, ZenonT(30) DEF Add, Advance, FlushColumn
    <2>2. CASE Rename(w)
      BY <2>2 DEF Rename, Advance, FlushColumn
    <2>3. CASE Drop(w)
      BY <2>3 DEF Drop, Advance, FlushColumn
    <2> QED
      BY <1>4, <2>1, <2>2, <2>3
  <1>5. CASE PickRows(w) \/ Rewrite(w) \/ DeleteTable(w)
    <2>1. CASE PickRows(w)
      BY <2>1 DEF PickRows, Advance
    <2>2. CASE Rewrite(w)
      BY <2>2 DEF Rewrite, Advance
    <2>3. CASE DeleteTable(w)
      BY <2>3 DEF DeleteTable, Advance
    <2> QED
      BY <1>5, <2>1, <2>2, <2>3
  <1> QED
    BY <1>1, <1>2, <1>3, <1>4, <1>5 DEF Work
\* The part of the types that is about one request.
SelfTyped(w) ==
    /\ pc[w] \in {"idle", "reserve", "write", "flush", "pick", "rewrite", "done"}
    /\ req[w] \in Request
    /\ names[w] \in SUBSET Name /\ cand[w] \in SUBSET Row
    /\ base[w] \in Data \union {Unused} /\ merged[w] \in Data \union {Unused}
    /\ \A c \in DOMAIN newColumn[w] : c \in Column /\ newColumn[w][c] \in Name \union {Gone}
    /\ \A r \in DOMAIN newRow[w] : r \in Row /\ newRow[w][r] \in Data \union {Gone}
    /\ Shape(w)

LEMMA OneTyped ==
  ASSUME Types, NEW w \in Worker, Start(w) \/ Work(w) \/ Abort(w), SelfTyped(w)',
         app' \in SUBSET Worker, excused' \in SUBSET {"mixed", "stale", "grown"}
  PROVE  Types'
  <1>1. ASSUME NEW v \in Worker \ {w} PROVE SelfTyped(v)'
    BY <1>1, Frame DEF SelfTyped, Shape, SchemaOp, Types, TypeOK
  <1>2. \A v \in Worker : SelfTyped(v)'
    BY <1>1
  <1>3. /\ pc' = [v \in Worker |-> pc'[v]] /\ req' = [v \in Worker |-> req'[v]]
        /\ names' = [v \in Worker |-> names'[v]] /\ base' = [v \in Worker |-> base'[v]]
        /\ merged' = [v \in Worker |-> merged'[v]] /\ cand' = [v \in Worker |-> cand'[v]]
        /\ newColumn' = [v \in Worker |-> newColumn'[v]]
        /\ newRow' = [v \in Worker |-> newRow'[v]]
        /\ UNCHANGED <<column, row, table, listing, steady, listed, again>>
    BY Frame
  <1>4. TypeOK'
    BY <1>2, <1>3 DEF SelfTyped, Types, TypeOK
  <1> QED
    BY <1>2, <1>3, <1>4 DEF SelfTyped, Types

LEMMA EmptyDomain == DOMAIN << >> = {}
  OBVIOUS

LEMMA ExcusedTyped ==
  ASSUME Types, NEW kind \in {"mixed", "stale", "grown"}, NEW condition \in BOOLEAN,
         Excuse(kind, condition)
  PROVE  excused' \in SUBSET {"mixed", "stale", "grown"}
  BY DEF Excuse, Types, TypeOK

LEMMA StartTyped ==
  ASSUME Types, NEW w \in Worker, Start(w)
  PROVE  Types'
  <1>1. PICK r, stage, seen, old : Requested(r, stage, seen, old) /\ Begin(w, r, stage, seen, old)
    BY StartIs
  <1>2. SelfTyped(w)
    BY DEF Types, TypeOK, SelfTyped
  <1>3. /\ pc'[w] = stage /\ req'[w] = r /\ names'[w] = seen /\ base'[w] = old
        /\ UNCHANGED <<merged, cand, newColumn, newRow, app>>
        /\ Excuse("mixed", Mixes(w, r.op, FALSE))
    BY <1>1 DEF Begin, Types, TypeOK
  <1>4. pc[w] = "idle"
    BY <1>1 DEF Begin
  <1>5. req[w].op = "none"
    BY <1>2, <1>4 DEF SelfTyped, Shape, Stages, Request, AllOps, RowOps, SchemaOps
  <1>6. DOMAIN newRow[w] = {} /\ DOMAIN newColumn[w] = {}
    BY <1>2, <1>4, <1>5 DEF SelfTyped, Shape, SchemaOp, SchemaOps
  <1>7. /\ r.op \in SchemaOps => r.column \in Column /\ r.name \in Name
        /\ r.op = "update" => r.row \in Row /\ old \in Data
    BY <1>1, LiveIs DEF Requested, Columns, Types, TypeOK
  <1>8. Shape(w)'
    BY <1>1, <1>3, <1>6, <1>7 DEF Shape, SchemaOp, Requested
  <1>9. stage \in {"reserve", "write", "flush"}
    BY <1>1 DEF Requested, Stages, SchemaOps, Request, AllOps, RowOps
  <1>10. SelfTyped(w)'
    BY <1>1, <1>2, <1>3, <1>6, <1>8, <1>9 DEF SelfTyped, Requested
  <1> QED
    BY <1>3, <1>10, OneTyped, ExcusedTyped DEF Mixes, Types, TypeOK

LEMMA AbortTyped ==
  ASSUME Types, NEW w \in Worker, Abort(w)
  PROVE  Types'
  <1>1. /\ pc'[w] = "idle" /\ req'[w] = NoRequest /\ names'[w] = {} /\ base'[w] = Unused
        /\ merged'[w] = Unused /\ cand'[w] = {} /\ newColumn'[w] = << >> /\ newRow'[w] = << >>
        /\ app' = app \ {w} /\ UNCHANGED excused
    BY DEF Abort, EndRequest, Types, TypeOK
  <1>2. NoRequest.op = "none" /\ NoRequest \in Request
    BY DEF NoRequest, Request
  <1>3. SelfTyped(w)'
    BY <1>1, <1>2, EmptyDomain DEF SelfTyped, Shape, SchemaOp, SchemaOps, Stages
  <1> QED
    BY <1>1, <1>3, OneTyped DEF Types, TypeOK
LEMMA ReserveTyped ==
  ASSUME Types, NEW w \in Worker, NEW before, NEW d, Reserve(w, before, d)
  PROVE  app' \in SUBSET Worker
  BY DEF Reserve, Types, TypeOK

LEMMA InsertTyped ==
  ASSUME Types, NEW w \in Worker, Insert(w)
  PROVE  Types'
  <1>1. PICK d \in Payload, r \in Row :
          /\ Reserve(w, 0, d)
          /\ newRow' = [newRow EXCEPT ![w] = [x \in {r} |-> d]]
    BY DEF Insert
  <1>2. SelfTyped(w) /\ d \in Data
    BY TablesAssumption DEF Types, TypeOK, SelfTyped, TablesAssumption
  <1>3. /\ pc'[w] = "done" /\ req[w].op = "insert"
        /\ UNCHANGED <<req, names, base, merged, cand, newColumn, excused>>
        /\ newRow'[w] = [x \in {r} |-> d]
    BY <1>1 DEF Insert, Advance, Doing, Types, TypeOK
  <1>4. SelfTyped(w)'
    BY <1>2, <1>3 DEF SelfTyped, Shape, SchemaOp, SchemaOps, Stages
  <1> QED
    BY <1>1, <1>3, <1>4, OneTyped, ReserveTyped DEF Work, Types, TypeOK

LEMMA PatchTyped ==
  ASSUME Types, NEW w \in Worker, Patch(w)
  PROVE  Types'
  <1>1. PICK d \in Payload :
          /\ Reserve(w, Estimate[base[w]], Merged(w, d))
          /\ merged' = [merged EXCEPT ![w] = Merged(w, d)]
          /\ Advance(w, IF Merged(w, d) = base[w] THEN "done" ELSE "write")
    BY DEF Patch
  <1>2. SelfTyped(w) /\ d \in Data
    BY TablesAssumption DEF Types, TypeOK, SelfTyped, TablesAssumption
  <1>3. /\ pc[w] = "reserve" /\ req[w].op = "update" /\ pc'[w] \in {"write", "done"}
        /\ UNCHANGED <<req, names, base, cand, newColumn, newRow, excused>>
        /\ merged'[w] = Merged(w, d)
    BY <1>1 DEF Patch, Advance, Doing, Types, TypeOK
  <1>4. base[w] \in Data
    BY <1>2, <1>3 DEF SelfTyped, Shape
  <1>5. Merged(w, d) \in Data
    BY <1>2, <1>4, MergedIs
  <1>6. SelfTyped(w)'
    BY <1>2, <1>3, <1>5 DEF SelfTyped, Shape, SchemaOp, SchemaOps, Stages
  <1> QED
    BY <1>1, <1>3, <1>6, OneTyped, ReserveTyped DEF Work, Types, TypeOK

LEMMA UpdateTyped ==
  ASSUME Types, NEW w \in Worker, Update(w)
  PROVE  Types'
  <1>1. SelfTyped(w)
    BY DEF Types, TypeOK, SelfTyped
  <1>2. /\ pc[w] = "write" /\ req[w].op = "update" /\ pc'[w] = "done"
        /\ UNCHANGED <<req, names, base, merged, cand, newColumn, app>>
        /\ newRow'[w] = [x \in {req[w].row} |-> merged[w]]
    BY DEF Update, Advance, Doing, Types, TypeOK
  <1>5. /\ excused \in SUBSET {"mixed", "stale", "grown"}
        /\ excused' = excused
              \union (IF row[req[w].row] # base[w] THEN {"stale"} ELSE {})
              \union (IF w \notin app /\ Stored[merged[w]] > Stored[row[req[w].row]]
                       THEN {"grown"} ELSE {})
    BY DEF Update, Types, TypeOK
  <1>6. excused' \in SUBSET {"mixed", "stale", "grown"}
    BY <1>5
  <1>3. req[w].row \in Row /\ merged[w] \in Data
    BY <1>1, <1>2 DEF SelfTyped, Shape
  <1>4. SelfTyped(w)'
    BY <1>1, <1>2, <1>3 DEF SelfTyped, Shape, SchemaOp, SchemaOps, Stages
  <1> QED
    BY <1>2, <1>4, <1>6, OneTyped DEF Work, Types, TypeOK

LEMMA DeleteTyped ==
  ASSUME Types, NEW w \in Worker, Delete(w)
  PROVE  Types'
  <1>1. SelfTyped(w)
    BY DEF Types, TypeOK, SelfTyped
  <1>2. /\ pc[w] = "write" /\ req[w].op = "delete" /\ pc'[w] = "done"
        /\ UNCHANGED <<req, names, base, merged, cand, newColumn, app, excused>>
        /\ newRow'[w] = [x \in {req[w].row} \intersect Live |-> Gone]
    BY DEF Delete, Advance, Doing, Types, TypeOK
  <1>3. SelfTyped(w)'
    BY <1>1, <1>2 DEF SelfTyped, Shape, SchemaOp, SchemaOps, Stages, Live
  <1> QED
    BY <1>2, <1>3, OneTyped DEF Work, Types, TypeOK

LEMMA ColumnsTyped ==
  ASSUME Types, NEW w \in Worker, Add(w) \/ Rename(w) \/ Drop(w)
  PROVE  Types'
  <1>1. SelfTyped(w)
    BY DEF Types, TypeOK, SelfTyped
  <1>2. /\ UNCHANGED <<req, names, base, merged, cand, newRow, app, excused>>
        /\ pc[w] = "flush"
    BY DEF Add, Rename, Drop, Advance, FlushColumn, Doing
  <1>3. CASE Add(w)
    <2>1. PICK c \in Column : FlushColumn(w, c, req[w].to)
      BY <1>3 DEF Add
    <2>2. newColumn'[w] = [x \in {c} |-> req[w].to] /\ pc'[w] = "done" /\ req[w].op = "add"
      BY <1>3, <2>1 DEF Add, FlushColumn, Advance, Doing, Types, TypeOK
    <2>3. SelfTyped(w)'
      BY <1>1, <1>2, <2>2 DEF SelfTyped, Shape, SchemaOp, SchemaOps, Stages
    <2> QED
      BY <1>2, <1>3, <2>3, OneTyped DEF Work, Types, TypeOK
  <1>4. CASE Rename(w)
    <2>1. newColumn'[w] = [x \in {req[w].column} |-> req[w].to] /\ pc'[w] = "pick"
          /\ req[w].op = "rename"
      BY <1>4 DEF Rename, FlushColumn, Advance, Doing, Types, TypeOK
    <2>2. SelfTyped(w)'
      BY <1>1, <1>2, <2>1 DEF SelfTyped, Shape, SchemaOp, SchemaOps, Stages
    <2> QED
      BY <1>2, <1>4, <2>2, OneTyped DEF Work, Types, TypeOK
  <1>5. CASE Drop(w)
    <2>1. \/ newColumn'[w] = [x \in {req[w].column} |-> Gone]
          \/ newColumn'[w] = newColumn[w]
      BY <1>5 DEF Drop, FlushColumn, Types, TypeOK
    <2>2. pc'[w] = "pick" /\ req[w].op = "drop"
      BY <1>5 DEF Drop, Advance, Doing, Types, TypeOK
    <2>3. SelfTyped(w)'
      BY <1>1, <1>2, <2>1, <2>2 DEF SelfTyped, Shape, SchemaOp, SchemaOps, Stages
    <2> QED
      BY <1>2, <1>5, <2>3, OneTyped DEF Work, Types, TypeOK
  <1> QED
    BY <1>3, <1>4, <1>5

LEMMA PickTyped ==
  ASSUME Types, NEW w \in Worker, PickRows(w)
  PROVE  Types'
  <1>1. SelfTyped(w)
    BY DEF Types, TypeOK, SelfTyped
  <1>2. /\ pc[w] = "pick" /\ pc'[w] = "rewrite"
        /\ UNCHANGED <<req, names, base, merged, newColumn, newRow, app>>
        /\ cand'[w] = Having(Row, req[w].name)
        /\ excused' \in SUBSET {"mixed", "stale", "grown"}
    BY ExcusedTyped DEF PickRows, Advance, Mixes, Types, TypeOK
  <1>3. req[w].op \in SchemaOps
    BY <1>1, <1>2 DEF SelfTyped, Shape, Stages, Request, AllOps, RowOps, SchemaOps
  <1>4. SelfTyped(w)'
    BY <1>1, <1>2, <1>3 DEF SelfTyped, Shape, SchemaOp, SchemaOps, Stages, Having
  <1> QED
    BY <1>2, <1>4, OneTyped DEF Work, Types, TypeOK

\* What a rename or drop makes of the rows it has locked.
LEMMA RewriteIs ==
  ASSUME Types, NEW w \in Worker, Rewrite(w)
  PROVE  /\ pc[w] = "rewrite" /\ pc'[w] = "done" /\ SchemaOp(w)
         /\ UNCHANGED <<req, names, base, merged, cand, newColumn, app>>
         /\ DOMAIN newRow'[w] = Having(cand[w], req[w].name)
         /\ \A r \in DOMAIN newRow'[w] :
               /\ r \in Live /\ req[w].name \in DOMAIN row[r]
               /\ newRow'[w][r] = Rewritten(row[r], req[w].name, req[w].to)
               /\ newRow'[w][r] \in Data
         /\ req[w].to \in Name \union {NoName}
  <1>1. SelfTyped(w)
    BY DEF Types, TypeOK, SelfTyped
  <1>2. /\ pc[w] = "rewrite" /\ pc'[w] = "done"
        /\ UNCHANGED <<req, names, base, merged, cand, newColumn, app>>
        /\ newRow'[w] = [r \in Having(cand[w], req[w].name) |->
                            Rewritten(row[r], req[w].name, req[w].to)]
    BY DEF Rewrite, Advance, Types, TypeOK
  <1>3. SchemaOp(w)
    BY <1>1, <1>2 DEF SelfTyped, Shape, Stages, Request, AllOps, RowOps, SchemaOps, SchemaOp
  <1>4. req[w].to \in Name \union {NoName}
    BY <1>1 DEF SelfTyped, Request
  <1>5. ASSUME NEW r \in Having(cand[w], req[w].name)
        PROVE  /\ r \in Live /\ req[w].name \in DOMAIN row[r]
               /\ newRow'[w][r] = Rewritten(row[r], req[w].name, req[w].to)
               /\ newRow'[w][r] \in Data
    <2>1. r \in Live /\ req[w].name \in DOMAIN row[r]
      BY <1>5 DEF Having
    <2>2. row[r] \in Data
      BY <2>1, LiveIs
    <2>3. Rewritten(row[r], req[w].name, req[w].to) \in Data
      BY <1>4, <2>1, <2>2, RewrittenIs
    <2> QED
      BY <1>2, <2>1, <2>3
  <1> QED
    BY <1>2, <1>3, <1>4, <1>5

LEMMA RewriteTyped ==
  ASSUME Types, NEW w \in Worker, Rewrite(w)
  PROVE  Types'
  <1>1. SelfTyped(w)
    BY DEF Types, TypeOK, SelfTyped
  <1>2. SelfTyped(w)'
    BY <1>1, RewriteIs, LiveIs DEF SelfTyped, Shape, SchemaOp, SchemaOps, Stages
  <1>3. excused' \in SUBSET {"mixed", "stale", "grown"}
    BY ExcusedTyped DEF Rewrite
  <1> QED
    BY <1>2, <1>3, OneTyped, RewriteIs DEF Work, Types, TypeOK

LEMMA DeleteTableTyped ==
  ASSUME Types, NEW w \in Worker, DeleteTable(w)
  PROVE  Types'
  <1>1. SelfTyped(w)
    BY DEF Types, TypeOK, SelfTyped
  <1>2. /\ pc[w] = "flush" /\ pc'[w] = "done" /\ req[w].op = "deltable"
        /\ UNCHANGED <<req, names, base, merged, cand, app, excused>>
        /\ newRow'[w] = [r \in Live |-> Gone]
        /\ newColumn'[w] = [c \in Columns |-> Gone]
    BY DEF DeleteTable, Advance, Doing, Types, TypeOK
  <1>3. SelfTyped(w)'
    BY <1>1, <1>2 DEF SelfTyped, Shape, SchemaOp, SchemaOps, Stages, Live, Columns
  <1> QED
    BY <1>2, <1>3, OneTyped DEF Work, Types, TypeOK
\* What a commit writes, and how it ends the request.
LEMMA CommitIs ==
  ASSUME Types, NEW w \in Worker, Commit(w)
  PROVE  /\ \A r \in Row : row'[r] = IF r \in DOMAIN newRow[w] THEN newRow[w][r] ELSE row[r]
         /\ \A c \in Column : column'[c] = IF c \in DOMAIN newColumn[w] THEN newColumn[w][c]
                                                                      ELSE column[c]
         /\ pc[w] = "done" /\ table' = (table /\ req[w].op # "deltable")
         /\ pc'[w] = "idle" /\ req'[w].op = "none" /\ names'[w] = {} /\ base'[w] = Unused
         /\ merged'[w] = Unused /\ cand'[w] = {}
         /\ DOMAIN newColumn'[w] = {} /\ DOMAIN newRow'[w] = {}
         /\ app' = app \ {w} /\ UNCHANGED <<excused, listing, listed>>
         /\ \A v \in Worker \ {w} :
               /\ pc'[v] = pc[v] /\ req'[v] = req[v] /\ names'[v] = names[v]
               /\ base'[v] = base[v] /\ merged'[v] = merged[v] /\ cand'[v] = cand[v]
               /\ newColumn'[v] = newColumn[v] /\ newRow'[v] = newRow[v]
         /\ SelfTyped(w)'
  <1>1. /\ \A r \in Row : row'[r] = IF r \in DOMAIN newRow[w] THEN newRow[w][r] ELSE row[r]
        /\ \A c \in Column : column'[c] = IF c \in DOMAIN newColumn[w] THEN newColumn[w][c]
                                                                     ELSE column[c]
    BY DEF Commit, Over, Types, TypeOK
  <1>2. /\ pc'[w] = "idle" /\ req'[w] = NoRequest /\ names'[w] = {} /\ base'[w] = Unused
        /\ merged'[w] = Unused /\ cand'[w] = {} /\ newColumn'[w] = << >> /\ newRow'[w] = << >>
        /\ app' = app \ {w} /\ UNCHANGED <<excused, listing, listed>>
        /\ pc[w] = "done" /\ table' = (table /\ req[w].op # "deltable")
    BY DEF Commit, EndRequest, Types, TypeOK
  <1>3. NoRequest.op = "none" /\ NoRequest \in Request
    BY DEF NoRequest, Request
  <1>4. SelfTyped(w)'
    BY <1>2, <1>3, EmptyDomain DEF SelfTyped, Shape, SchemaOp, SchemaOps, Stages
  <1>5. \A v \in Worker \ {w} :
               /\ pc'[v] = pc[v] /\ req'[v] = req[v] /\ names'[v] = names[v]
               /\ base'[v] = base[v] /\ merged'[v] = merged[v] /\ cand'[v] = cand[v]
               /\ newColumn'[v] = newColumn[v] /\ newRow'[v] = newRow[v]
    BY ZenonT(30) DEF Commit, EndRequest, Types, TypeOK
  <1> QED
    BY <1>1, <1>2, <1>3, <1>4, <1>5, EmptyDomain

LEMMA CommitTyped ==
  ASSUME Types, NEW w \in Worker, Commit(w)
  PROVE  Types'
  <1>1. ASSUME NEW v \in Worker PROVE SelfTyped(v)'
    BY CommitIs DEF SelfTyped, Shape, SchemaOp, Types, TypeOK
  <1>2. /\ pc' = [v \in Worker |-> pc'[v]] /\ req' = [v \in Worker |-> req'[v]]
        /\ names' = [v \in Worker |-> names'[v]] /\ base' = [v \in Worker |-> base'[v]]
        /\ merged' = [v \in Worker |-> merged'[v]] /\ cand' = [v \in Worker |-> cand'[v]]
        /\ newColumn' = [v \in Worker |-> newColumn'[v]]
        /\ newRow' = [v \in Worker |-> newRow'[v]]
    BY DEF Commit, EndRequest, Types, TypeOK
  <1>3. /\ row' = [r \in Row |-> row'[r]] /\ column' = [c \in Column |-> column'[c]]
        /\ steady' \subseteq steady /\ again' \subseteq again
        /\ UNCHANGED <<excused, listing, listed>> /\ app' = app \ {w}
    BY DEF Commit, Over, Types, TypeOK, EndRequest
  <1>4. /\ \A r \in Row : row'[r] \in Data \union {Unused, Gone}
        /\ \A c \in Column : column'[c] \in Name \union {Unused, Gone}
        /\ table' \in BOOLEAN
    <2>1. \A r \in Row : row'[r] \in Data \union {Unused, Gone}
      BY CommitIs DEF Types, TypeOK
    <2>2. \A c \in Column : column'[c] \in Name \union {Unused, Gone}
      BY CommitIs DEF Types, TypeOK
    <2>3. table' \in BOOLEAN
      BY DEF Commit
    <2> QED
      BY <2>1, <2>2, <2>3
  <1>5. TypeOK'
    BY <1>1, <1>2, <1>3, <1>4 DEF SelfTyped, Types, TypeOK
  <1> QED
    BY <1>1, <1>2, <1>3, <1>5 DEF SelfTyped, Types

\* One step of the client that lists.
Lists == (\E n \in Name, desc \in BOOLEAN : BeginListing(n, desc)) \/ ListMore \/ EndListing

\* The query a page is asked with.
Query(q, start) ==
    \/ /\ start /\ listing.stage = "none"
       /\ \E n \in Names, desc \in BOOLEAN :
             q = [stage |-> "paging", field |-> n, desc |-> desc, cursor |-> NoCursor]
    \/ ~start /\ listing.stage = "paging" /\ listing.field \in Names /\ q = listing

LEMMA ListsIs ==
  ASSUME Lists
  PROVE  EndListing \/ \E q : \E start \in BOOLEAN : Query(q, start) /\ NextPage(q, start)
  <1>1. ASSUME NEW n \in Name, NEW desc \in BOOLEAN, BeginListing(n, desc)
        PROVE  \E q : \E start \in BOOLEAN : Query(q, start) /\ NextPage(q, start)
    <2> DEFINE q == [stage |-> "paging", field |-> n, desc |-> desc, cursor |-> NoCursor]
    <2>1. NextPage(q, TRUE) /\ Query(q, TRUE)
      BY <1>1 DEF BeginListing, Query
    <2> HIDE DEF q
    <2> QED
      BY <2>1
  <1>2. CASE ListMore
    <2>1. NextPage(listing, FALSE) /\ Query(listing, FALSE)
      BY <1>2 DEF ListMore, Query
    <2> QED
      BY <2>1
  <1> QED
    BY <1>1, <1>2 DEF Lists

LEMMA ListsTyped ==
  ASSUME Types, Lists
  PROVE  Types'
  <1>1. UNCHANGED <<committed, session, excused>>
    <2>1. CASE EndListing
      BY <2>1 DEF EndListing
    <2>2. ASSUME NEW q, NEW start, NextPage(q, start)
          PROVE  UNCHANGED <<committed, session, excused>>
      BY <2>2 DEF NextPage
    <2> QED
      BY <2>1, <2>2, ListsIs
  <1>2. /\ listing' = [stage |-> listing'.stage, field |-> listing'.field,
                       desc |-> listing'.desc, cursor |-> listing'.cursor]
        /\ listing'.stage \in {"none", "paging", "ended"}
        /\ steady' \in SUBSET Row /\ listed' \in SUBSET Row /\ again' \in SUBSET Row
    <2>1. CASE EndListing
      BY <2>1 DEF EndListing, NoListing
    <2>2. ASSUME NEW q, NEW start \in BOOLEAN, Query(q, start), NextPage(q, start)
          PROVE  /\ listing' = [stage |-> listing'.stage, field |-> listing'.field,
                                desc |-> listing'.desc, cursor |-> listing'.cursor]
                 /\ listing'.stage \in {"none", "paging", "ended"}
                 /\ steady' \in SUBSET Row /\ listed' \in SUBSET Row /\ again' \in SUBSET Row
      <3>1. q = [stage |-> q.stage, field |-> q.field, desc |-> q.desc, cursor |-> q.cursor]
            /\ q.stage = "paging"
        BY <2>2 DEF Query, Types
      <3>2. \/ listing' = [q EXCEPT !.stage = "ended", !.cursor = NoCursor]
            \/ \E k : listing' = [q EXCEPT !.cursor = k]
        BY <2>2 DEF NextPage
      <3>3. /\ listing' = [stage |-> listing'.stage, field |-> listing'.field,
                           desc |-> listing'.desc, cursor |-> listing'.cursor]
            /\ listing'.stage \in {"none", "paging", "ended"}
        BY <3>1, <3>2
      <3>4. steady' \in SUBSET Row /\ listed' \in SUBSET Row /\ again' \in SUBSET Row
        BY <2>2 DEF NextPage, Live, Types, TypeOK
      <3> QED
        BY <3>3, <3>4
    <2> QED
      BY <2>1, <2>2, ListsIs
  <1> QED
    BY <1>1, <1>2 DEF committed, session, Types, TypeOK, Shape, SchemaOp

LEMMA TypesStep == Types /\ [Next]_vars => Types'
  <1> SUFFICES ASSUME Types, [Next]_vars PROVE Types'
    OBVIOUS
  <1>1. CASE UNCHANGED vars
    BY <1>1 DEF vars, Types, TypeOK, Shape, SchemaOp
  <1>2. ASSUME NEW w \in Worker, Work(w) PROVE Types'
    BY <1>2, InsertTyped, PatchTyped, UpdateTyped, DeleteTyped, ColumnsTyped, PickTyped,
       RewriteTyped, DeleteTableTyped DEF Work
  <1> QED
    BY <1>1, <1>2, StartTyped, CommitTyped, AbortTyped, ListsTyped DEF Next, Lists

-----------------------------------------------------------------------------
(* Locks, and the deletion of the table.                                   *)

RowInv == Types /\ Locks /\ TableInv

Disjoint(w) ==
    \A v \in Worker \ {w} : /\ DOMAIN newRow[v] \intersect DOMAIN newRow[w] = {}
                            /\ DOMAIN newColumn[v] \intersect DOMAIN newColumn[w] = {}
HeldBy(w) ==
    /\ \A r \in DOMAIN newRow[w] : HeldRow(w, r)
    /\ \A c \in DOMAIN newColumn[w] : HeldColumn(w, c)

LEMMA LocksInit == Init => Locks /\ TableInv
  <1> SUFFICES ASSUME Init PROVE Locks /\ TableInv
    OBVIOUS
  <1>1. \A w \in Worker : DOMAIN newRow[w] = {} /\ DOMAIN newColumn[w] = {} /\ pc[w] = "idle"
    BY EmptyDomain DEF Init
  <1> QED
    BY <1>1 DEF Locks, TableInv, Deleting, Doing, Init

LEMMA OneLocks ==
  ASSUME Types, Locks, NEW w \in Worker, Start(w) \/ Work(w) \/ Abort(w),
         Disjoint(w)', HeldBy(w)'
  PROVE  Locks'
  <1>1. \A v \in Worker \ {w} : HeldBy(v)'
    BY Frame DEF Locks, HeldBy, HeldRow, HeldColumn, Live, Columns
  <1>2. \A v \in Worker : HeldBy(v)'
    BY <1>1
  <1>3. \A u, v \in Worker : u # v =>
          /\ DOMAIN newRow'[u] \intersect DOMAIN newRow'[v] = {}
          /\ DOMAIN newColumn'[u] \intersect DOMAIN newColumn'[v] = {}
    BY Frame DEF Locks, Disjoint
  <1> QED
    BY <1>2, <1>3 DEF Locks, HeldBy

\* A step that flushes nothing, and the rows of one that does.
LEMMA QuietLocks ==
  ASSUME RowInv, NEW w \in Worker, Start(w) \/ Abort(w) \/ Patch(w) \/ PickRows(w)
  PROVE  /\ DOMAIN newRow'[w] = {}
         /\ \/ DOMAIN newColumn'[w] = {}
            \/ newColumn'[w] = newColumn[w] /\ req'[w] = req[w] /\ PickRows(w)
  <1> USE DEF RowInv, Types, TypeOK
  <1>1. CASE Start(w)
    <2>1. PICK r, stage, seen, old : Requested(r, stage, seen, old) /\ Begin(w, r, stage, seen, old)
      BY <1>1, StartIs
    <2>2. pc[w] = "idle" /\ UNCHANGED <<newRow, newColumn>>
      BY <2>1 DEF Begin
    <2> QED
      BY <2>2 DEF Shape
  <1>2. CASE Abort(w)
    BY <1>2, EmptyDomain DEF Abort, EndRequest
  <1>3. CASE Patch(w)
    <2>1. pc[w] = "reserve" /\ req[w].op = "update" /\ UNCHANGED <<newRow, newColumn>>
      BY <1>3 DEF Patch, Doing
    <2> QED
      BY <2>1 DEF Shape, SchemaOp, SchemaOps
  <1>4. CASE PickRows(w)
    <2>1. pc[w] = "pick" /\ UNCHANGED <<newRow, newColumn, req>>
      BY <1>4 DEF PickRows, Advance
    <2> QED
      BY <1>4, <2>1 DEF Shape
  <1> QED
    BY <1>1, <1>2, <1>3, <1>4

\* What each step that writes has flushed.
LEMMA InsertIs ==
  ASSUME RowInv, NEW w \in Worker, Insert(w)
  PROVE  /\ pc[w] = "write" /\ req[w].op = "insert" /\ pc'[w] = "done" /\ TableThere(w)
         /\ UNCHANGED <<req, names, base, merged, cand, newColumn, excused>>
         /\ DOMAIN newColumn[w] = {}
         /\ \E d \in Payload, r \in Row :
               /\ DOMAIN d \subseteq names[w] /\ Reserve(w, 0, d)
               /\ row[r] = Unused /\ \A v \in Worker : r \notin DOMAIN newRow[v]
               /\ newRow'[w] = [x \in {r} |-> d]
  <1>1. Types
    BY DEF RowInv
  <1>2. pc[w] = "write" /\ req[w].op = "insert" /\ pc'[w] = "done" /\ TableThere(w)
        /\ UNCHANGED <<req, names, base, merged, cand, newColumn, excused>>
    BY <1>1 DEF Insert, Advance, Doing, Types, TypeOK
  <1>3. DOMAIN newColumn[w] = {}
    BY <1>1, <1>2 DEF Types, Shape, SchemaOp, SchemaOps
  <1>4. \E d \in Payload, r \in Row :
               /\ DOMAIN d \subseteq names[w] /\ Reserve(w, 0, d)
               /\ row[r] = Unused /\ \A v \in Worker : r \notin DOMAIN newRow[v]
               /\ newRow'[w] = [x \in {r} |-> d]
    BY <1>1 DEF Insert, Types
  <1> QED
    BY <1>2, <1>3, <1>4

LEMMA UpdateIs ==
  ASSUME RowInv, NEW w \in Worker, Update(w)
  PROVE  /\ pc[w] = "write" /\ req[w].op = "update" /\ pc'[w] = "done"
         /\ UNCHANGED <<req, names, base, merged, cand, newColumn, app>>
         /\ DOMAIN newColumn[w] = {}
         /\ req[w].row \in Live /\ RowsFree(w, {req[w].row})
         /\ newRow'[w] = [x \in {req[w].row} |-> merged[w]] /\ merged[w] \in Data
         /\ excused' = excused
               \union (IF row[req[w].row] # base[w] THEN {"stale"} ELSE {})
               \union (IF w \notin app /\ Stored[merged[w]] > Stored[row[req[w].row]]
                        THEN {"grown"} ELSE {})
  <1>1. Types
    BY DEF RowInv
  <1>2. pc[w] = "write" /\ req[w].op = "update" /\ pc'[w] = "done"
        /\ UNCHANGED <<req, names, base, merged, cand, newColumn, app>>
        /\ req[w].row \in Live /\ RowsFree(w, {req[w].row})
        /\ newRow'[w] = [x \in {req[w].row} |-> merged[w]]
        /\ excused' = excused
              \union (IF row[req[w].row] # base[w] THEN {"stale"} ELSE {})
              \union (IF w \notin app /\ Stored[merged[w]] > Stored[row[req[w].row]]
                       THEN {"grown"} ELSE {})
    BY <1>1 DEF Update, Advance, Doing, Found, Types, TypeOK
  <1> QED
    BY <1>1, <1>2 DEF Types, Shape, SchemaOp, SchemaOps

LEMMA DeleteIs ==
  ASSUME RowInv, NEW w \in Worker, Delete(w)
  PROVE  /\ pc[w] = "write" /\ req[w].op = "delete" /\ pc'[w] = "done"
         /\ UNCHANGED <<req, names, base, merged, cand, newColumn, app, excused>>
         /\ DOMAIN newColumn[w] = {} /\ RowsFree(w, {req[w].row})
         /\ newRow'[w] = [x \in {req[w].row} \intersect Live |-> Gone]
  <1>1. Types
    BY DEF RowInv
  <1>2. pc[w] = "write" /\ req[w].op = "delete" /\ pc'[w] = "done"
        /\ UNCHANGED <<req, names, base, merged, cand, newColumn, app, excused>>
        /\ RowsFree(w, {req[w].row})
        /\ newRow'[w] = [x \in {req[w].row} \intersect Live |-> Gone]
    BY <1>1 DEF Delete, Advance, Doing, Types, TypeOK
  <1> QED
    BY <1>1, <1>2 DEF Types, Shape, SchemaOp, SchemaOps

\* A step that flushes a column, or finds none to flush.
LEMMA FlushIs ==
  ASSUME RowInv, NEW w \in Worker, Add(w) \/ Rename(w) \/ Drop(w)
  PROVE  /\ UNCHANGED <<req, names, base, merged, cand, newRow, app, excused>>
         /\ pc[w] = "flush" /\ DOMAIN newRow[w] = {}
         /\ \/ /\ req[w].op = "add" /\ pc'[w] = "done" /\ TableThere(w)
               /\ \E c \in Column : /\ column[c] = Unused /\ ColumnFree(w, c)
                                    /\ newColumn'[w] = [x \in {c} |-> req[w].to]
            \/ /\ req[w].op \in SchemaOps /\ pc'[w] = "pick"
               /\ req[w].column \in Columns /\ ColumnFree(w, req[w].column)
               /\ newColumn'[w] = [x \in {req[w].column} |-> NewName(w)]
            \/ /\ req[w].op = "drop" /\ pc'[w] = "pick"
               /\ req[w].column \notin Columns /\ DOMAIN newColumn'[w] = {}
  <1>1. Types
    BY DEF RowInv
  <1>2. pc[w] = "flush" /\ UNCHANGED <<req, names, base, merged, cand, newRow, app, excused>>
    BY DEF Add, Rename, Drop, Advance, FlushColumn, Doing
  <1>3. DOMAIN newRow[w] = {} /\ DOMAIN newColumn[w] = {}
    BY <1>1, <1>2 DEF Types, Shape
  <1>4. CASE Add(w)
    <2>1. PICK c \in Column : column[c] = Unused /\ FlushColumn(w, c, req[w].to)
      BY <1>4 DEF Add
    <2>2. /\ req[w].op = "add" /\ pc'[w] = "done" /\ TableThere(w)
          /\ ColumnFree(w, c) /\ newColumn'[w] = [x \in {c} |-> req[w].to]
      BY <1>1, <1>4, <2>1 DEF Add, FlushColumn, Advance, Doing, Types, TypeOK
    <2> QED
      BY <1>2, <1>3, <2>1, <2>2
  <1>5. CASE Rename(w)
    <2>1. /\ req[w].op = "rename" /\ pc'[w] = "pick"
          /\ req[w].column \in Columns /\ ColumnFree(w, req[w].column)
          /\ newColumn'[w] = [x \in {req[w].column} |-> req[w].to]
      BY <1>1, <1>5 DEF Rename, FlushColumn, Advance, Doing, Types, TypeOK
    <2> QED
      BY <1>2, <1>3, <2>1 DEF NewName, SchemaOps
  <1>6. CASE Drop(w)
    <2>1. req[w].op = "drop" /\ pc'[w] = "pick"
      BY <1>1, <1>6 DEF Drop, Advance, Doing, Types, TypeOK
    <2>2. CASE req[w].column \in Columns
      <3>1. /\ ColumnFree(w, req[w].column)
            /\ newColumn'[w] = [x \in {req[w].column} |-> Gone]
        BY <1>1, <1>6, <2>2 DEF Drop, FlushColumn, Types, TypeOK
      <3> QED
        BY <1>2, <1>3, <2>1, <2>2, <3>1 DEF NewName, SchemaOps
    <2>3. CASE req[w].column \notin Columns
      <3>1. newColumn' = newColumn
        BY <1>6, <2>3 DEF Drop
      <3> QED
        BY <1>2, <1>3, <2>1, <2>3, <3>1
    <2> QED
      BY <2>2, <2>3
  <1> QED
    BY <1>4, <1>5, <1>6

LEMMA DeleteTableIs ==
  ASSUME RowInv, NEW w \in Worker, DeleteTable(w)
  PROVE  /\ pc[w] = "flush" /\ req[w].op = "deltable" /\ pc'[w] = "done"
         /\ UNCHANGED <<req, names, base, merged, cand, app, excused>>
         /\ \A v \in Worker \ {w} : DOMAIN newRow[v] = {} /\ DOMAIN newColumn[v] = {}
         /\ TableThere(w) \/ ~table
         /\ newRow'[w] = [r \in Live |-> Gone]
         /\ newColumn'[w] = [c \in Columns |-> Gone]
  <1>1. Types
    BY DEF RowInv
  <1>2. \A v \in Worker \ {w} : DOMAIN newRow[v] = {} /\ DOMAIN newColumn[v] = {}
    BY EmptyDomain DEF DeleteTable
  <1> QED
    BY <1>1, <1>2 DEF DeleteTable, Advance, Doing, Types, TypeOK

LEMMA LocksWork ==
  ASSUME RowInv, NEW w \in Worker, Start(w) \/ Work(w) \/ Abort(w)
  PROVE  Locks'
  <1> USE DEF RowInv
  <1>1. UNCHANGED <<column, row>> /\ Live' = Live /\ Columns' = Columns
    BY Frame DEF Live, Columns
  <1>2. SUFFICES Disjoint(w)' /\ HeldBy(w)'
    BY OneLocks
  <1>3. \A v \in Worker \ {w} : newRow'[v] = newRow[v] /\ newColumn'[v] = newColumn[v]
    BY Frame
  <1>4. \A v \in Worker \ {w} : DOMAIN newRow[v] \intersect DOMAIN newRow[w] = {}
                             /\ DOMAIN newColumn[v] \intersect DOMAIN newColumn[w] = {}
    BY DEF Locks
  <1> USE DEF Disjoint, HeldBy, HeldRow, HeldColumn
  <1>5. CASE Start(w) \/ Abort(w) \/ Patch(w) \/ PickRows(w)
    BY <1>1, <1>3, <1>4, <1>5, QuietLocks DEF Locks, Columns
  <1>6. CASE Insert(w)
    <2>1. PICK d \in Payload, r \in Row :
               /\ row[r] = Unused /\ \A v \in Worker : r \notin DOMAIN newRow[v]
               /\ newRow'[w] = [x \in {r} |-> d]
      BY <1>6, InsertIs
    <2>2. d \in Data
      BY TablesAssumption DEF TablesAssumption
    <2> QED
      BY <1>1, <1>3, <1>6, <2>1, <2>2, InsertIs
  <1>7. CASE Update(w)
    <2>1. Disjoint(w)'
      BY <1>3, <1>7, UpdateIs DEF RowsFree
    <2>2. HeldBy(w)'
      <3>1. \A r \in DOMAIN newRow'[w] :
               r = req[w].row /\ r \in Live /\ newRow'[w][r] = merged[w] /\ merged[w] \in Data
        <4>1. /\ newRow'[w] = [x \in {req[w].row} |-> merged[w]]
              /\ req[w].row \in Live /\ merged[w] \in Data
          BY <1>7, UpdateIs
        <4> QED
          BY <4>1
      <3>2. req'[w].op = "update" /\ req'[w] = req[w] /\ DOMAIN newColumn'[w] = {}
        BY <1>7, UpdateIs
      <3> QED
        BY <1>1, <3>1, <3>2
    <2> QED
      BY <2>1, <2>2
  <1>8. CASE Delete(w)
    <2>1. Disjoint(w)'
      BY <1>3, <1>8, DeleteIs DEF RowsFree
    <2>2. HeldBy(w)'
      <3>1. \A r \in DOMAIN newRow'[w] : r = req[w].row /\ r \in Live /\ newRow'[w][r] = Gone
        BY <1>8, DeleteIs, ZenonT(30)
      <3>2. req'[w].op = "delete" /\ req'[w] = req[w] /\ DOMAIN newColumn'[w] = {}
        BY <1>8, DeleteIs
      <3> QED
        BY <1>1, <3>1, <3>2
    <2> QED
      BY <2>1, <2>2
  <1>9. CASE Add(w) \/ Rename(w) \/ Drop(w)
    <2>1. DOMAIN newRow'[w] = {}
      BY <1>9, FlushIs
    <2> DEFINE Flushed == DOMAIN newColumn'[w]
    <2>2. /\ req'[w] = req[w]
          /\ \A c \in Flushed : /\ ColumnFree(w, c)
                                /\ IF req[w].op = "add" THEN column[c] = Unused
                                                        ELSE c \in Columns
      BY <1>9, FlushIs DEF SchemaOps
    <2>3. \A v \in Worker \ {w} : DOMAIN newColumn'[v] \intersect Flushed = {}
      BY <1>3, <2>2 DEF ColumnFree
    <2>4. \A c \in Flushed : HeldColumn(w, c)'
      BY <1>1, <2>2
    <2> QED
      BY <1>3, <2>1, <2>3, <2>4
  <1>10. CASE Rewrite(w)
    <2>1. DOMAIN newColumn'[w] = DOMAIN newColumn[w] /\ req'[w] = req[w]
      BY <1>10, RewriteIs
    <2>2. \A v \in Worker \ {w} : DOMAIN newRow'[v] \intersect DOMAIN newRow'[w] = {}
      BY <1>3, <1>10, RewriteIs DEF RowsFree, Having, Rewrite
    <2>3. \A r \in DOMAIN newRow'[w] : HeldRow(w, r)'
      BY <1>1, <1>10, RewriteIs DEF Live, SchemaOp, SchemaOps
    <2>4. \A c \in DOMAIN newColumn'[w] : HeldColumn(w, c)'
      BY <1>1, <2>1 DEF Columns, Locks
    <2> QED
      BY <1>3, <1>4, <2>1, <2>2, <2>3, <2>4
  <1>11. CASE DeleteTable(w)
    <2>1. Disjoint(w)'
      BY <1>3, <1>11, DeleteTableIs
    <2>2. HeldBy(w)'
      BY <1>1, <1>11, DeleteTableIs
    <2> QED
      BY <2>1, <2>2
  <1> QED
    BY <1>5, <1>6, <1>7, <1>8, <1>9, <1>10, <1>11 DEF Work

\* A commit leaves alone what others hold.
LEMMA CommitHeld ==
  ASSUME RowInv, NEW w \in Worker, Commit(w), NEW v \in Worker \ {w}
  PROVE  /\ \A r \in DOMAIN newRow[v] : row'[r] = row[r] /\ (r \in Live <=> r \in Live')
         /\ \A c \in DOMAIN newColumn[v] : column'[c] = column[c]
         /\ newRow'[v] = newRow[v] /\ newColumn'[v] = newColumn[v] /\ req'[v] = req[v]
  <1> USE DEF RowInv
  <1>1. \A r \in DOMAIN newRow[v] : r \in Row /\ r \notin DOMAIN newRow[w]
    BY DEF Types, TypeOK, Locks
  <1>2. \A c \in DOMAIN newColumn[v] : c \in Column /\ c \notin DOMAIN newColumn[w]
    BY DEF Types, TypeOK, Locks
  <1> QED
    BY <1>1, <1>2, CommitIs DEF Live

LEMMA LocksCommit ==
  ASSUME RowInv, NEW w \in Worker, Commit(w)
  PROVE  Locks'
  <1>1. \A v \in Worker \ {w} : HeldBy(v)'
    <2> TAKE v \in Worker \ {w}
    <2>1. HeldBy(v)
      BY DEF RowInv, Locks, HeldBy
    <2>2. \A c \in DOMAIN newColumn[v] : c \in Columns => c \in Columns'
      BY CommitHeld DEF Columns
    <2> QED
      BY <2>1, <2>2, CommitHeld DEF HeldBy, HeldRow, HeldColumn
  <1>2. DOMAIN newRow'[w] = {} /\ DOMAIN newColumn'[w] = {}
    BY CommitIs DEF RowInv
  <1>3. \A v \in Worker : HeldBy(v)'
    BY <1>1, <1>2 DEF HeldBy
  <1>4. \A u, v \in Worker : u # v =>
          /\ DOMAIN newRow'[u] \intersect DOMAIN newRow'[v] = {}
          /\ DOMAIN newColumn'[u] \intersect DOMAIN newColumn'[v] = {}
    BY <1>2, CommitIs DEF RowInv, Locks
  <1> QED
    BY <1>3, <1>4 DEF Locks, HeldBy

LEMMA TableWork ==
  ASSUME RowInv, NEW w \in Worker, Start(w) \/ Work(w) \/ Abort(w)
  PROVE  TableInv'
  <1> USE DEF RowInv
  <1>1. UNCHANGED <<row, table>> /\ Live' = Live
    BY Frame DEF Live
  <1>2. \A v \in Worker \ {w} : newRow'[v] = newRow[v] /\ (Deleting(v)' <=> Deleting(v))
    BY Frame DEF Deleting, Doing
  <1>3. ASSUME ~Deleting(w)', DOMAIN newRow'[w] = {} PROVE TableInv'
    BY <1>1, <1>2, <1>3 DEF TableInv
  <1>4. ASSUME ~Deleting(w)', table, \A v \in Worker \ {w} : ~Deleting(v) PROVE TableInv'
    BY <1>1, <1>2, <1>4 DEF TableInv
  <1>5. CASE Start(w)
    <2>1. PICK r, stage, seen, old : Requested(r, stage, seen, old) /\ Begin(w, r, stage, seen, old)
      BY <1>5, StartIs
    <2>2. pc'[w] = stage /\ stage # "done"
      BY <2>1 DEF Begin, Requested, Types, TypeOK
    <2> QED
      BY <1>3, <1>5, <2>2, QuietLocks DEF Deleting, Doing
  <1>6. CASE Abort(w)
    <2>1. pc'[w] = "idle"
      BY <1>6 DEF Abort, EndRequest, Types, TypeOK
    <2> QED
      BY <1>3, <1>6, <2>1, QuietLocks DEF Deleting, Doing
  <1>7. CASE Patch(w)
    <2>1. req'[w].op = "update"
      BY <1>7 DEF Patch, Advance, Doing
    <2> QED
      BY <1>3, <1>7, <2>1, QuietLocks DEF Deleting, Doing
  <1>8. CASE PickRows(w)
    <2>1. pc'[w] = "rewrite"
      BY <1>8 DEF PickRows, Advance, Types, TypeOK
    <2> QED
      BY <1>3, <1>8, <2>1, QuietLocks DEF Deleting, Doing
  <1>9. CASE Insert(w)
    BY <1>4, <1>9, InsertIs DEF TableThere, Deleting, Doing
  <1>10. CASE Update(w)
    <2>1. req[w].row \in Live /\ \A v \in Worker \ {w} : req[w].row \notin DOMAIN newRow[v]
      BY <1>10, UpdateIs DEF RowsFree
    <2>2. table /\ \A v \in Worker \ {w} : ~Deleting(v)
      BY <2>1 DEF TableInv
    <2> QED
      BY <1>4, <1>10, <2>2, UpdateIs DEF Deleting, Doing
  <1>11. CASE Delete(w)
    <2>1. ~Deleting(w)'
      BY <1>11, DeleteIs DEF Deleting, Doing
    <2>2. \A v \in Worker \ {w} : req[w].row \notin DOMAIN newRow[v]
      BY <1>11, DeleteIs DEF RowsFree
    <2>3. CASE req[w].row \in Live
      BY <1>4, <2>1, <2>2, <2>3 DEF TableInv
    <2>4. CASE req[w].row \notin Live
      BY <1>3, <1>11, <2>1, <2>4, DeleteIs
    <2> QED
      BY <2>3, <2>4
  <1>12. CASE Add(w) \/ Rename(w) \/ Drop(w)
    <2>1. ~Deleting(w)' /\ DOMAIN newRow'[w] = {}
      BY <1>12, FlushIs DEF Deleting, Doing, SchemaOps
    <2> QED
      BY <1>3, <2>1
  <1>13. CASE Rewrite(w)
    <2>1. ~Deleting(w)'
      BY <1>13, RewriteIs DEF Deleting, Doing, SchemaOp, SchemaOps
    <2>2. \A v \in Worker \ {w} : DOMAIN newRow[v] \intersect DOMAIN newRow'[w] = {}
      BY <1>13, RewriteIs DEF RowsFree, Having, Rewrite
    <2>3. DOMAIN newRow'[w] \subseteq Live
      BY <1>13, RewriteIs
    <2>4. CASE table /\ \A v \in Worker \ {w} : ~Deleting(v)
      BY <1>4, <2>1, <2>4
    <2>5. CASE ~table \/ \E v \in Worker \ {w} : Deleting(v)
      <3>1. DOMAIN newRow'[w] = {}
        BY <2>2, <2>3, <2>5 DEF TableInv
      <3> QED
        BY <1>3, <2>1, <3>1
    <2> QED
      BY <2>4, <2>5
  <1>14. CASE DeleteTable(w)
    <2>1. \A v \in Worker \ {w} : table => ~Deleting(v)
      BY <1>14, DeleteTableIs DEF TableThere, Deleting
    <2>2. DOMAIN newRow'[w] = Live /\ \A v \in Worker \ {w} : DOMAIN newRow[v] = {}
      BY <1>14, DeleteTableIs
    <2> QED
      BY <1>1, <1>2, <2>1, <2>2 DEF TableInv
  <1> QED
    BY <1>5, <1>6, <1>7, <1>8, <1>9, <1>10, <1>11, <1>12, <1>13, <1>14 DEF Work

LEMMA TableCommit ==
  ASSUME RowInv, NEW w \in Worker, Commit(w)
  PROVE  TableInv'
  <1> USE DEF RowInv
  <1>1. \A r \in Row : row'[r] = IF r \in DOMAIN newRow[w] THEN newRow[w][r] ELSE row[r]
    BY CommitIs
  <1>2. \A v \in Worker \ {w} : newRow'[v] = newRow[v] /\ (Deleting(v)' <=> Deleting(v))
    BY CommitIs DEF Deleting, Doing
  <1>3. ~Deleting(w)' /\ DOMAIN newRow'[w] = {}
    BY CommitIs DEF Deleting, Doing
  <1>4. table' = (table /\ req[w].op # "deltable") /\ pc[w] = "done"
    BY CommitIs
  <1>5. CASE ~table \/ (table /\ ~Deleting(w) /\ \E v \in Worker : Deleting(v))
    <2>1. DOMAIN newRow[w] = {}
      BY <1>5 DEF TableInv
    <2>2. Live' = Live
      BY <1>1, <2>1 DEF Live
    <2>3. CASE ~table
      BY <1>2, <1>3, <1>4, <2>2, <2>3 DEF TableInv
    <2>4. CASE table
      <3>1. req[w].op # "deltable"
        BY <1>4, <1>5, <2>4 DEF Deleting, Doing
      <3>2. table'
        BY <1>4, <2>4, <3>1
      <3>3. \A v \in Worker : Deleting(v)' =>
               /\ DOMAIN newRow'[v] = Live'
               /\ \A u \in Worker \ {v} : DOMAIN newRow'[u] = {}
        BY <1>2, <1>3, <2>2, <2>4 DEF TableInv
      <3> QED
        BY <3>2, <3>3 DEF TableInv
    <2> QED
      BY <2>3, <2>4
  <1>6. CASE table /\ Deleting(w)
    <2>1. DOMAIN newRow[w] = Live /\ \A v \in Worker \ {w} : DOMAIN newRow[v] = {}
      BY <1>6 DEF TableInv
    <2>2. \A r \in DOMAIN newRow[w] : newRow[w][r] = Gone
      BY <1>6 DEF Locks, HeldRow, Deleting, Doing
    <2>3. Live' = {}
      BY <1>1, <2>1, <2>2 DEF Live
    <2>4. ~table'
      BY <1>4, <1>6 DEF Deleting, Doing
    <2> QED
      BY <1>2, <1>3, <2>1, <2>3, <2>4 DEF TableInv
  <1>7. CASE table /\ \A v \in Worker : ~Deleting(v)
    <2>1. table'
      BY <1>4, <1>7 DEF Deleting, Doing
    <2> QED
      BY <1>2, <1>3, <1>7, <2>1 DEF TableInv
  <1> QED
    BY <1>5, <1>6, <1>7

LEMMA RowStep == RowInv /\ [Next]_vars => RowInv'
  <1> SUFFICES ASSUME RowInv, [Next]_vars PROVE RowInv'
    OBVIOUS
  <1>1. Types'
    BY TypesStep DEF RowInv
  <1>2. ASSUME UNCHANGED <<committed, session, excused>> PROVE Locks' /\ TableInv'
    BY <1>2 DEF committed, session, RowInv, Locks, TableInv, HeldRow, HeldColumn, Live, Columns,
                Deleting, Doing
  <1>3. CASE UNCHANGED vars
    BY <1>1, <1>2, <1>3 DEF vars, committed, session, RowInv
  <1>4. CASE Lists
    BY <1>1, <1>2, <1>4, ListsIs DEF EndListing, NextPage, RowInv
  <1> QED
    BY <1>1, <1>3, <1>4, LocksWork, TableWork, LocksCommit, TableCommit DEF Next, Lists, RowInv

-----------------------------------------------------------------------------
(* Stored rows match the declared columns.                                 *)

LEMMA MatchInit == Init => MatchInv
  <1> SUFFICES ASSUME Init PROVE Matching
    BY DEF MatchInv
  <1>1. Live = {}
    BY DEF Init, Live
  <1>2. \A w \in Worker : req[w].op = "none"
    BY DEF Init, NoRequest
  <1> QED
    BY <1>1, <1>2 DEF Matching, Written, Changing, SchemaOp, SchemaOps

\* A request does not disturb a rename or drop under way.
Beside(w) ==
    \A v \in Worker \ {w} :
        SchemaOp(v) => ~SchemaOp(w) /\ (Past(v) => req[w].op \notin {"insert", "update"})

LEMMA OneMatches ==
  ASSUME RowInv, Matching, NEW w \in Worker, Start(w) \/ Work(w) \/ Abort(w),
         Written(w)', Changing(w)', Beside(w)'
  PROVE  Matching'
  <1>1. UNCHANGED <<column, row>> /\ Live' = Live /\ Names' = Names
    BY Frame DEF RowInv, Live, Names, Columns
  <1>2. \A v \in Worker \ {w} :
               /\ pc'[v] = pc[v] /\ req'[v] = req[v] /\ names'[v] = names[v]
               /\ base'[v] = base[v] /\ merged'[v] = merged[v] /\ cand'[v] = cand[v]
               /\ newColumn'[v] = newColumn[v] /\ newRow'[v] = newRow[v]
    BY Frame DEF RowInv
  <1>3. ASSUME NEW v \in Worker \ {w} PROVE Written(v)'
    BY <1>1, <1>2, <1>3 DEF Matching, Written
  <1>4. ASSUME NEW v \in Worker \ {w} PROVE Changing(v)'
    <2> SUFFICES ASSUME SchemaOp(v)' PROVE Changing(v)'
      BY DEF Changing
    <2>1. SchemaOp(v) /\ Changing(v)
      BY <1>2 DEF SchemaOp, Matching
    <2>2. \A u \in Worker \ {v} :
             ~SchemaOp(u)' /\ (Past(v)' => req'[u].op \notin {"insert", "update"})
      <3>1. ~SchemaOp(w)' /\ (Past(v)' => req'[w].op \notin {"insert", "update"})
        BY DEF Beside
      <3>2. \A u \in Worker \ {v, w} :
             ~SchemaOp(u)' /\ (Past(v)' => req'[u].op \notin {"insert", "update"})
        BY <1>2, <2>1 DEF Changing, SchemaOp, Past
      <3> QED
        BY <3>1, <3>2
    <2> QED
      BY <1>1, <1>2, <2>1, <2>2 DEF Changing, NewName
  <1>5. \A r \in Live' : DOMAIN row'[r] \subseteq Names'
    BY <1>1 DEF Matching
  <1> QED
    BY <1>3, <1>4, <1>5 DEF Matching

\* The request stays the one it was.
LEMMA SameBeside ==
  ASSUME RowInv, Matching, NEW w \in Worker, Work(w), req'[w] = req[w]
  PROVE  Beside(w)'
  BY Frame DEF RowInv, Matching, Changing, Beside, SchemaOp, Past

LEMMA StartMatches ==
  ASSUME RowInv, Matching, NEW w \in Worker, Start(w), "mixed" \notin excused'
  PROVE  Matching'
  <1>1. PICK r, stage, seen, old : Requested(r, stage, seen, old) /\ Begin(w, r, stage, seen, old)
    BY StartIs DEF RowInv
  <1>2. UNCHANGED <<column, row>> /\ Live' = Live /\ Names' = Names
    BY Frame DEF RowInv, Live, Names, Columns
  <1>3. \A v \in Worker \ {w} : pc'[v] = pc[v] /\ req'[v] = req[v]
    BY Frame DEF RowInv
  <1>4. pc'[w] = stage /\ req'[w] = r /\ names'[w] = seen /\ base'[w] = old
    BY <1>1 DEF Begin, RowInv, Types, TypeOK
  <1>5. ~Mixes(w, r.op, FALSE)
    BY <1>1 DEF Begin, Excuse
  <1>6. Beside(w)'
    BY <1>3, <1>4, <1>5 DEF Beside, Mixes, SchemaOp, Past
  <1>7. DOMAIN newRow'[w] = {}
    BY QuietLocks
  <1>8. Written(w)'
    BY <1>1, <1>2, <1>4, <1>7 DEF Written, Requested, Matching
  <1>9. Changing(w)'
    <2>1. SchemaOp(w)' => stage = "flush" /\ column'[r.column] = r.name
      BY <1>1, <1>2, <1>4 DEF Requested, SchemaOp
    <2>2. SchemaOp(w)' => \A v \in Worker \ {w} : ~SchemaOp(v)'
      BY <1>3, <1>4, <1>5 DEF Mixes, SchemaOp
    <2> QED
      BY <1>4, <2>1, <2>2 DEF Changing, Past
  <1> QED
    BY <1>6, <1>8, <1>9, OneMatches

LEMMA WorkMatches ==
  ASSUME RowInv, Matching, NEW w \in Worker, Work(w), "mixed" \notin excused'
  PROVE  Matching'
  <1> USE DEF RowInv
  <1>1. UNCHANGED <<column, row>> /\ Live' = Live /\ Names' = Names
    BY Frame DEF Live, Names, Columns
  <1>2. \A v \in Worker \ {w} : pc'[v] = pc[v] /\ req'[v] = req[v]
    BY Frame
  <1>3. Written(w) /\ Changing(w)
    BY DEF Matching
  <1>4. ASSUME req'[w] = req[w], Written(w)', Changing(w)' PROVE Matching'
    BY <1>4, SameBeside, OneMatches
  <1>5. ASSUME req'[w] = req[w], ~SchemaOp(w) PROVE Changing(w)'
    BY <1>5 DEF Changing, SchemaOp
  <1>6. ASSUME req'[w] = req[w], req[w].op \notin {"insert", "update"} PROVE Written(w)'
    BY <1>6 DEF Written
  <1>7. CASE Insert(w)
    <2>1. PICK d \in Payload, r \in Row :
             DOMAIN d \subseteq names[w] /\ newRow'[w] = [x \in {r} |-> d]
      BY <1>7, InsertIs
    <2>2. req'[w] = req[w] /\ names'[w] = names[w] /\ req[w].op = "insert"
      BY <1>7, InsertIs
    <2>3. Written(w)'
      BY <1>1, <1>3, <2>1, <2>2 DEF Written
    <2> QED
      BY <1>4, <1>5, <2>2, <2>3 DEF SchemaOp, SchemaOps
  <1>8. CASE Patch(w)
    <2>1. PICK d \in Payload : DOMAIN d \subseteq names[w] /\ merged'[w] = Merged(w, d)
      BY <1>8 DEF Patch, Types, TypeOK
    <2>2. /\ req'[w] = req[w] /\ names'[w] = names[w] /\ base'[w] = base[w]
          /\ req[w].op = "update" /\ DOMAIN newRow'[w] = {}
      BY <1>8, QuietLocks DEF Patch, Advance, Doing
    <2>3. base[w] \in Data /\ d \in Data
      BY <2>2, TablesAssumption DEF Types, Shape, TablesAssumption
    <2>4. DOMAIN merged'[w] = DOMAIN base[w] \union DOMAIN d
      BY <2>1, <2>3, MergedIs
    <2>5. Written(w)'
      BY <1>1, <1>3, <2>1, <2>2, <2>4 DEF Written
    <2> QED
      BY <1>4, <1>5, <2>2, <2>5 DEF SchemaOp, SchemaOps
  <1>9. CASE Update(w)
    <2>1. /\ req'[w] = req[w] /\ names'[w] = names[w] /\ base'[w] = base[w]
          /\ merged'[w] = merged[w] /\ req[w].op = "update" /\ pc[w] = "write"
          /\ newRow'[w] = [x \in {req[w].row} |-> merged[w]]
      BY <1>9, UpdateIs
    <2>2. Written(w)'
      BY <1>1, <1>3, <2>1 DEF Written
    <2> QED
      BY <1>4, <1>5, <2>1, <2>2 DEF SchemaOp, SchemaOps
  <1>10. CASE Delete(w)
    <2>1. req'[w] = req[w] /\ req[w].op = "delete"
      BY <1>10, DeleteIs
    <2> QED
      BY <1>4, <1>5, <1>6, <2>1 DEF SchemaOp, SchemaOps
  <1>11. CASE DeleteTable(w)
    <2>1. req'[w] = req[w] /\ req[w].op = "deltable"
      BY <1>11, DeleteTableIs
    <2> QED
      BY <1>4, <1>5, <1>6, <2>1 DEF SchemaOp, SchemaOps
  <1>12. CASE Add(w) \/ Rename(w) \/ Drop(w)
    <2>1. req'[w] = req[w] /\ req[w].op \in {"add"} \union SchemaOps
      BY <1>12, FlushIs DEF SchemaOps
    <2>2. CASE req[w].op = "add"
      BY <1>4, <1>5, <1>6, <2>1, <2>2 DEF SchemaOp, SchemaOps
    <2>3. CASE SchemaOp(w)
      <3>1. req[w].column \in Columns
        <4>1. req[w].column \in Column /\ column[req[w].column] \in Name
          BY <1>3, <2>3 DEF Changing, Types, Shape
        <4> QED
          BY <4>1, TablesAssumption DEF Columns, TablesAssumption
      <3>2. /\ pc'[w] = "pick"
            /\ newColumn'[w] = [x \in {req[w].column} |-> NewName(w)]
        BY <1>12, <2>3, <3>1, FlushIs DEF SchemaOp, SchemaOps
      <3>3. Changing(w)'
        BY <1>1, <1>2, <1>3, <2>1, <2>3, <3>2 DEF Changing, SchemaOp, Past, NewName
      <3> QED
        BY <1>4, <1>6, <2>1, <2>3, <3>3 DEF SchemaOp, SchemaOps
    <2> QED
      BY <2>1, <2>2, <2>3 DEF SchemaOp
  <1>13. CASE PickRows(w)
    <2>1. /\ req'[w] = req[w] /\ pc[w] = "pick" /\ pc'[w] = "rewrite"
          /\ newColumn'[w] = newColumn[w] /\ cand'[w] = Having(Row, req[w].name)
          /\ ~Mixes(w, req[w].op, TRUE)
      BY <1>13 DEF PickRows, Advance, Excuse, Types, TypeOK
    <2>2. SchemaOp(w)
      BY <2>1 DEF Types, TypeOK, Shape, Stages, Request, AllOps, RowOps, SchemaOps, SchemaOp
    <2>3. \A v \in Worker \ {w} : ~SchemaOp(v)' /\ req'[v].op \notin {"insert", "update"}
      BY <1>2, <2>1, <2>2 DEF Mixes, SchemaOp
    <2>4. \A r \in Live : req[w].name \in DOMAIN row[r] => r \in cand'[w]
      BY <2>1 DEF Having, Live
    <2>5. Changing(w)'
      BY <1>1, <1>3, <2>1, <2>2, <2>3, <2>4 DEF Changing, SchemaOp, NewName
    <2> QED
      BY <1>4, <1>6, <2>1, <2>2, <2>5 DEF SchemaOp, SchemaOps
  <1>14. CASE Rewrite(w)
    <2>1. /\ req'[w] = req[w] /\ pc[w] = "rewrite" /\ pc'[w] = "done"
          /\ newColumn'[w] = newColumn[w] /\ SchemaOp(w)
          /\ DOMAIN newRow'[w] = Having(cand[w], req[w].name)
          /\ \A r \in DOMAIN newRow'[w] :
                /\ req[w].name \in DOMAIN row[r]
                /\ newRow'[w][r] = Rewritten(row[r], req[w].name, req[w].to)
      BY <1>14, RewriteIs
    <2>2. \A r \in Live : r \notin DOMAIN newRow'[w] => req[w].name \notin DOMAIN row[r]
      BY <1>3, <2>1 DEF Changing, Having, Live
    <2>3. \A v \in Worker \ {w} : ~SchemaOp(v)' /\ req'[v].op \notin {"insert", "update"}
      BY <1>2, <1>3, <2>1 DEF Changing, Past, SchemaOp
    <2>4. Changing(w)'
      BY <1>1, <1>3, <2>1, <2>2, <2>3 DEF Changing, SchemaOp, NewName
    <2> QED
      BY <1>4, <1>6, <2>1, <2>4 DEF SchemaOp, SchemaOps
  <1> QED
    BY <1>7, <1>8, <1>9, <1>10, <1>11, <1>12, <1>13, <1>14 DEF Work

LEMMA AbortMatches ==
  ASSUME RowInv, Matching, NEW w \in Worker, Abort(w)
  PROVE  Matching'
  <1>1. req'[w].op = "none"
    BY DEF Abort, EndRequest, NoRequest, RowInv, Types, TypeOK
  <1>2. Written(w)' /\ Changing(w)' /\ Beside(w)'
    BY <1>1 DEF Written, Changing, Beside, SchemaOp, SchemaOps
  <1> QED
    BY <1>2, OneMatches

\* The names a commit leaves, and what it does to columns in use.
LEMMA CommitNames ==
  ASSUME RowInv, Matching, NEW w \in Worker, Commit(w), table'
  PROVE  /\ ~SchemaOp(w) => Names \subseteq Names'
         /\ SchemaOp(w) => \A n \in Names : n # req[w].name => n \in Names'
         /\ req[w].op = "rename" => req[w].to \in Names'
         /\ ~SchemaOp(w) => \A c \in Columns : column'[c] = column[c]
  <1> USE DEF RowInv
  <1>1. \A c \in Column : column'[c] = IF c \in DOMAIN newColumn[w] THEN newColumn[w][c]
                                                                   ELSE column[c]
    BY CommitIs
  <1>2. req[w].op # "deltable" /\ pc[w] = "done"
    BY CommitIs
  <1>3. \A c \in Columns : c \in Column /\ column[c] \in Name
    BY DEF Columns, Types, TypeOK
  <1>4. ASSUME NEW c \in Columns, column'[c] = column[c] PROVE column[c] \in Names'
    BY <1>3, <1>4 DEF Names, Columns
  <1>5. ASSUME ~SchemaOp(w), NEW c \in Columns PROVE column'[c] = column[c]
    <2>1. c \notin DOMAIN newColumn[w]
      <3>1. CASE req[w].op = "add"
        BY <3>1, <1>5 DEF Locks, HeldColumn, Columns
      <3>2. CASE req[w].op # "add"
        BY <1>2, <1>5, <3>2 DEF Types, Shape
      <3> QED
        BY <3>1, <3>2
    <2> QED
      BY <1>1, <1>3, <2>1
  <1>6. ASSUME SchemaOp(w), NEW n \in Names, n # req[w].name PROVE n \in Names'
    <2>1. PICK c \in Columns : n = column[c]
      BY <1>6 DEF Names
    <2>2. /\ DOMAIN newColumn[w] = {req[w].column} /\ column[req[w].column] = req[w].name
      BY <1>2, <1>6 DEF Matching, Changing
    <2>3. column'[c] = column[c]
      BY <1>1, <1>3, <1>6, <2>1, <2>2
    <2> QED
      BY <1>4, <2>1, <2>3
  <1>7. ASSUME req[w].op = "rename" PROVE req[w].to \in Names'
    <2>1. SchemaOp(w)
      BY <1>7 DEF SchemaOp, SchemaOps
    <2>2. /\ DOMAIN newColumn[w] = {req[w].column}
          /\ newColumn[w][req[w].column] = req[w].to
      BY <1>2, <1>7, <2>1 DEF Matching, Changing, NewName
    <2>3. req[w].column \in Column /\ req[w].to \in Name
      BY <1>7, <2>1 DEF Types, Shape
    <2>4. column'[req[w].column] = req[w].to
      BY <1>1, <2>2, <2>3
    <2>5. req[w].to # Unused /\ req[w].to # Gone
      BY <2>3, TablesAssumption DEF TablesAssumption
    <2> QED
      BY <2>3, <2>4, <2>5 DEF Names, Columns
  <1> QED
    BY <1>4, <1>5, <1>6, <1>7 DEF Names

LEMMA CommitMatches ==
  ASSUME RowInv, Matching, NEW w \in Worker, Commit(w), table'
  PROVE  Matching'
  <1> USE DEF RowInv
  <1>1. \A r \in Row : row'[r] = IF r \in DOMAIN newRow[w] THEN newRow[w][r] ELSE row[r]
    BY CommitIs
  <1>2. req[w].op # "deltable" /\ pc[w] = "done" /\ req'[w].op = "none"
    BY CommitIs
  <1>3. \A v \in Worker \ {w} :
               /\ pc'[v] = pc[v] /\ req'[v] = req[v] /\ names'[v] = names[v]
               /\ base'[v] = base[v] /\ merged'[v] = merged[v] /\ cand'[v] = cand[v]
               /\ newColumn'[v] = newColumn[v] /\ newRow'[v] = newRow[v]
    BY CommitIs
  <1>4. Written(w) /\ Changing(w)
    BY DEF Matching
  <1>5. ASSUME NEW r \in Live' PROVE DOMAIN row'[r] \subseteq Names'
    <2>1. r \in Row /\ row'[r] \notin {Unused, Gone}
      BY <1>5, CommitTyped DEF Live
    <2>2. CASE r \notin DOMAIN newRow[w]
      <3>1. row'[r] = row[r] /\ r \in Live
        BY <1>1, <2>1, <2>2 DEF Live
      <3>2. DOMAIN row[r] \subseteq Names
        BY <3>1 DEF Matching
      <3>3. CASE SchemaOp(w)
        BY <1>2, <1>4, <2>2, <3>1, <3>2, <3>3, CommitNames DEF Changing
      <3>4. CASE ~SchemaOp(w)
        BY <3>1, <3>2, <3>4, CommitNames
      <3> QED
        BY <3>3, <3>4
    <2>3. CASE r \in DOMAIN newRow[w]
      <3>1. row'[r] = newRow[w][r] /\ HeldRow(w, r)
        BY <1>1, <2>1, <2>3 DEF Locks
      <3>2. CASE SchemaOp(w)
        <4>1. /\ r \in Live /\ req[w].name \in DOMAIN row[r]
              /\ newRow[w][r] = Rewritten(row[r], req[w].name, req[w].to)
          BY <1>2, <1>4, <2>3, <3>1, <3>2 DEF Changing, HeldRow, SchemaOp, SchemaOps
        <4>2. row[r] \in Data /\ DOMAIN row[r] \subseteq Names
          BY <4>1, LiveIs DEF Matching
        <4>3. req[w].to \in Name \union {NoName}
          BY DEF Types, TypeOK, Request
        <4>4. DOMAIN newRow[w][r] = (DOMAIN row[r] \ {req[w].name})
                                       \union (IF req[w].to = NoName THEN {} ELSE {req[w].to})
          <5> DEFINE d == row[r]  old == req[w].name  new == req[w].to
          <5>1. d \in Data /\ old \in DOMAIN d /\ new \in Name \union {NoName}
            BY <4>1, <4>2, <4>3
          <5> HIDE DEF d, old, new
          <5>2. DOMAIN Rewritten(d, old, new) =
                   (DOMAIN d \ {old}) \union (IF new = NoName THEN {} ELSE {new})
            BY <5>1, RewrittenIs, SMTT(30)
          <5> QED
            BY <4>1, <5>2 DEF d, old, new
        <4>5. req[w].to # NoName => req[w].op = "rename"
          BY <3>2 DEF Types, Shape, SchemaOp, SchemaOps
        <4>6. DOMAIN newRow[w][r] \subseteq Names'
          BY <3>2, <4>2, <4>4, <4>5, CommitNames
        <4> QED
          BY <3>1, <4>6
      <3>3. CASE ~SchemaOp(w)
        <4>1. req[w].op \in {"insert", "update"}
          <5>1. req[w].op # "delete"
            BY <2>1, <3>1 DEF HeldRow
          <5>2. pc[w] \in Stages(req[w].op) /\ req[w] \in Request
            BY DEF Types, TypeOK, Shape
          <5>3. req[w].op # "add"
            BY <2>3 DEF Types, Shape
          <5> QED
            BY <1>2, <3>3, <5>1, <5>2, <5>3
               DEF Stages, SchemaOp, SchemaOps, Request, AllOps, RowOps
        <4>2. DOMAIN newRow[w][r] \subseteq Names
          BY <1>4, <2>3, <4>1 DEF Written
        <4> QED
          BY <3>1, <3>3, <4>2, CommitNames
      <3> QED
        BY <3>2, <3>3
    <2> QED
      BY <2>2, <2>3
  <1>6. ASSUME NEW v \in Worker \ {w} PROVE Written(v)'
    <2> SUFFICES ASSUME req[v].op \in {"insert", "update"} PROVE Written(v)'
      BY <1>3 DEF Written
    <2>1. ~SchemaOp(w)
      BY <1>2, <1>4 DEF Changing, Past, SchemaOp
    <2>2. Written(v) /\ Names \subseteq Names'
      BY <2>1, CommitNames DEF Matching
    <2> QED
      BY <1>3, <2>2 DEF Written
  <1>7. ASSUME NEW v \in Worker \ {w} PROVE Changing(v)'
    <2> SUFFICES ASSUME SchemaOp(v) PROVE Changing(v)'
      BY <1>3 DEF Changing, SchemaOp
    <2>1. Changing(v) /\ ~SchemaOp(w)
          /\ (Past(v) => req[w].op \notin {"insert", "update"})
      BY DEF Matching, Changing
    <2>2. req[v].column \in Columns
      <3>1. req[v].column \in Column /\ column[req[v].column] \in Name
        BY <2>1 DEF Changing, Types, Shape
      <3> QED
        BY <3>1, TablesAssumption DEF Columns, TablesAssumption
    <2>3. column'[req[v].column] = column[req[v].column]
      BY <2>1, <2>2, CommitNames
    <2>4. ASSUME Past(v), NEW r \in Live' PROVE r \in Live /\ row'[r] = row[r]
      <3>1. r \in Row /\ row'[r] \notin {Unused, Gone}
        BY <2>4, CommitTyped DEF Live
      <3>2. r \notin DOMAIN newRow[w]
        <4> SUFFICES ASSUME r \in DOMAIN newRow[w] PROVE FALSE
          OBVIOUS
        <4>1. newRow[w][r] # Gone
          BY <1>1, <3>1
        <4>2. req[w].op # "delete" /\ req[w].op # "add"
          BY <4>1 DEF Locks, HeldRow, Types, Shape
        <4>3. pc[w] \in Stages(req[w].op) /\ req[w] \in Request
          BY DEF Types, TypeOK, Shape
        <4> QED
          BY <1>2, <2>1, <2>4, <4>2, <4>3
             DEF Stages, SchemaOp, SchemaOps, Request, AllOps, RowOps
      <3> QED
        BY <1>1, <3>1, <3>2 DEF Live
    <2>5. \A u \in Worker \ {v} :
             ~SchemaOp(u)' /\ (Past(v)' => req'[u].op \notin {"insert", "update"})
      BY <1>2, <1>3, <2>1 DEF Changing, SchemaOp, SchemaOps, Past
    <2>6. \A r \in Live' :
              /\ pc'[v] = "rewrite" /\ req'[v].name \in DOMAIN row'[r] => r \in cand'[v]
              /\ pc'[v] = "done" =>
                    IF r \in DOMAIN newRow'[v]
                      THEN /\ req'[v].name \in DOMAIN row'[r]
                           /\ newRow'[v][r] = Rewritten(row'[r], req'[v].name, req'[v].to)
                      ELSE req'[v].name \notin DOMAIN row'[r]
      BY <1>3, <2>1, <2>4 DEF Changing, Past, SchemaOp
    <2> QED
      BY <1>3, <2>1, <2>3, <2>5, <2>6 DEF Changing, NewName
  <1>8. Written(w)' /\ Changing(w)'
    BY <1>2 DEF Written, Changing, SchemaOp, SchemaOps
  <1> QED
    BY <1>5, <1>6, <1>7, <1>8 DEF Matching

LEMMA MatchStep == RowInv /\ MatchInv /\ [Next]_vars => MatchInv'
  <1> SUFFICES ASSUME RowInv, MatchInv, [Next]_vars, table', "mixed" \notin excused'
               PROVE  Matching'
    BY DEF MatchInv
  <1>1. ASSUME UNCHANGED <<committed, session, excused>> PROVE Matching'
    BY <1>1 DEF committed, session, MatchInv, Matching, Written, Changing, Live, Names, Columns,
                SchemaOp, Past, NewName
  <1>2. CASE UNCHANGED vars
    BY <1>1, <1>2 DEF vars, committed, session
  <1>3. CASE Lists
    BY <1>1, <1>3, ListsIs DEF EndListing, NextPage
  <1>4. ASSUME NEW w \in Worker, Start(w) \/ Work(w) \/ Abort(w) PROVE Matching'
    <2>1. table
      BY <1>4, Frame DEF RowInv
    <2>2. "mixed" \notin excused
      <3>1. CASE Start(w)
        BY <3>1, StartIs DEF Begin, Excuse, RowInv
      <3>2. CASE Abort(w)
        BY <3>2 DEF Abort
      <3>3. CASE Work(w)
        BY <3>3 DEF Work, Insert, Patch, Update, Delete, Add, Rename, Drop, PickRows, Rewrite,
                    DeleteTable, FlushColumn, Excuse
      <3> QED
        BY <1>4, <3>1, <3>2, <3>3
    <2> QED
      BY <1>4, <2>1, <2>2, StartMatches, WorkMatches, AbortMatches DEF MatchInv
  <1>5. ASSUME NEW w \in Worker, Commit(w) PROVE Matching'
    <2>1. table /\ "mixed" \notin excused
      BY <1>5 DEF Commit
    <2> QED
      BY <1>5, <2>1, CommitMatches DEF MatchInv
  <1> QED
    BY <1>2, <1>3, <1>4, <1>5 DEF Next, Lists

LEMMA MatchImplies == RowInv /\ MatchInv => RowsMatchColumns
  BY DEF RowInv, TableInv, MatchInv, Matching, RowsMatchColumns

-----------------------------------------------------------------------------
(* The storage limit.                                                      *)

\* The bytes of rows of given sizes.
Cells(z) == UNION {{r} \X (1..z[r]) : r \in Row}
Weight(z) == Cardinality(Cells(z))

LEMMA CellsFinite ==
  ASSUME NEW z \in [Row -> Nat]
  PROVE  IsFiniteSet(Cells(z)) /\ Weight(z) \in Nat
  <1> DEFINE f == [r \in Row |-> {r} \X (1..z[r])]
             T == {{r} \X (1..z[r]) : r \in Row}
  <1>1. f \in Surjection(Row, T)
    BY DEF Surjection
  <1>2. IsFiniteSet(T)
    BY <1>1, FS_Surjection, TablesAssumption DEF TablesAssumption
  <1>3. ASSUME NEW r \in Row PROVE IsFiniteSet({r} \X (1..z[r]))
    <2>1. IsFiniteSet(1..z[r])
      BY FS_Interval
    <2> QED
      BY <2>1, FS_Singleton, FS_Product
  <1>4. \A t \in T : IsFiniteSet(t)
    BY <1>3
  <1>5. IsFiniteSet(UNION T)
    BY <1>2, <1>4, FS_UNION
  <1> QED
    BY <1>5, FS_CardinalityType DEF Cells, Weight

LEMMA WeightLess ==
  ASSUME NEW y \in [Row -> Nat], NEW z \in [Row -> Nat], \A r \in Row : y[r] <= z[r]
  PROVE  Weight(y) <= Weight(z)
  <1>1. ASSUME NEW p \in Cells(y) PROVE p \in Cells(z)
    <2>1. PICK r \in Row : p \in {r} \X (1..y[r])
      BY DEF Cells
    <2>2. p \in {r} \X (1..z[r])
      BY <2>1
    <2> QED
      BY <2>2 DEF Cells
  <1> QED
    BY <1>1, CellsFinite, FS_Subset DEF Weight

\* The weight when the size of one row changes.
LEMMA WeightChange ==
  ASSUME NEW y \in [Row -> Nat], NEW z \in [Row -> Nat], NEW x \in Row,
         \A r \in Row \ {x} : y[r] = z[r]
  PROVE  Weight(y) + z[x] = Weight(z) + y[x]
  <1> DEFINE rest == [r \in Row |-> IF r = x THEN 0 ELSE z[r]]
  <1>1. rest \in [Row -> Nat]
    OBVIOUS
  <1>2. ASSUME NEW f \in [Row -> Nat], \A r \in Row \ {x} : f[r] = z[r]
        PROVE  Weight(f) = Weight(rest) + f[x]
    <2> DEFINE mine == {x} \X (1..f[x])
    <2>1. Cells(f) = Cells(rest) \union mine
      <3>1. ASSUME NEW p \in Cells(f) PROVE p \in Cells(rest) \union mine
        <4>1. PICK r \in Row : p \in {r} \X (1..f[r])
          BY DEF Cells
        <4>2. CASE r = x
          BY <4>1, <4>2
        <4>3. CASE r # x
          <5>1. rest[r] = f[r]
            BY <1>2, <4>3
          <5> QED
            BY <4>1, <5>1 DEF Cells
        <4> QED
          BY <4>2, <4>3
      <3>2. ASSUME NEW p \in Cells(rest) PROVE p \in Cells(f)
        <4>1. PICK r \in Row : p \in {r} \X (1..rest[r])
          BY DEF Cells
        <4>2. rest[r] = f[r]
          <5>1. r # x
            <6> SUFFICES ASSUME r = x PROVE FALSE
              OBVIOUS
            <6>1. rest[r] = 0
              OBVIOUS
            <6> QED
              BY <4>1, <6>1
          <5> QED
            BY <1>2, <5>1
        <4> QED
          BY <4>1, <4>2 DEF Cells
      <3>3. mine \subseteq Cells(f)
        BY DEF Cells
      <3> QED
        BY <3>1, <3>2, <3>3
    <2>2. Cells(rest) \intersect mine = {}
      <3> SUFFICES ASSUME NEW p \in Cells(rest), p \in mine PROVE FALSE
        OBVIOUS
      <3>1. PICK r \in Row : p \in {r} \X (1..rest[r])
        BY DEF Cells
      <3>2. r = x
        BY <3>1
      <3>3. rest[r] = 0
        BY <3>2
      <3> QED
        BY <3>1, <3>3
    <2>3. IsFiniteSet(mine) /\ Cardinality(mine) = f[x]
      <3>1. f[x] \in Nat
        OBVIOUS
      <3>2. IsFiniteSet(1..f[x]) /\ Cardinality(1..f[x]) = f[x]
        BY <3>1, FS_Interval
      <3>3. IsFiniteSet({x}) /\ Cardinality({x}) = 1
        BY FS_Singleton
      <3>4. /\ IsFiniteSet({x} \X (1..f[x]))
            /\ Cardinality({x} \X (1..f[x])) = Cardinality({x}) * Cardinality(1..f[x])
        BY <3>2, <3>3, FS_Product
      <3> QED
        BY <3>1, <3>2, <3>3, <3>4
    <2>4. IsFiniteSet(Cells(rest)) /\ Cardinality(Cells(rest)) \in Nat
      BY <1>1, CellsFinite DEF Weight
    <2> HIDE DEF mine, rest
    <2>5. Cardinality(Cells(rest) \union mine) =
             Cardinality(Cells(rest)) + Cardinality(mine) - Cardinality(Cells(rest) \intersect mine)
      BY <2>3, <2>4, FS_Union
    <2>6. Cardinality(Cells(rest) \intersect mine) = 0
      BY <2>2, FS_EmptySet
    <2> QED
      BY <2>1, <2>3, <2>4, <2>5, <2>6 DEF Weight
  <1>3. Weight(rest) \in Nat
    BY <1>1, CellsFinite
  <1> HIDE DEF rest
  <1>4. Weight(y) = Weight(rest) + y[x] /\ Weight(z) = Weight(rest) + z[x]
    BY <1>2
  <1> QED
    BY <1>3, <1>4

LEMMA SizeIs ==
  ASSUME NEW d \in Data
  PROVE  Stored[d] \in Nat /\ Estimate[d] \in Nat /\ Estimate[d] > 0
  BY TablesAssumption DEF TablesAssumption

\* The sizes of the rows of a table.
Sizes(f) == [r \in Row |-> IF f[r] \notin {Unused, Gone} THEN Stored[f[r]] ELSE 0]

LEMMA SizesAre ==
  ASSUME NEW f \in [Row -> Data \union {Unused, Gone}]
  PROVE  /\ Sizes(f) \in [Row -> Nat]
         /\ Weight(Sizes(f)) =
               Cardinality(UNION {{r} \X (1..Stored[f[r]]) :
                                  r \in {r \in Row : f[r] \notin {Unused, Gone}}})
  <1> DEFINE live == {r \in Row : f[r] \notin {Unused, Gone}}
  <1>1. Sizes(f) \in [Row -> Nat]
    <2>1. ASSUME NEW r \in Row, f[r] \notin {Unused, Gone} PROVE Stored[f[r]] \in Nat
      BY <2>1, SizeIs
    <2> QED
      BY <2>1 DEF Sizes
  <1>2. UNION {{r} \X (1..Stored[f[r]]) : r \in live} = Cells(Sizes(f))
    <2>1. ASSUME NEW r \in Row, NEW p \in {r} \X (1..Sizes(f)[r])
          PROVE  r \in live /\ p \in {r} \X (1..Stored[f[r]])
      <3>1. Sizes(f)[r] # 0
        <4> SUFFICES ASSUME Sizes(f)[r] = 0 PROVE FALSE
          OBVIOUS
        <4> QED
          BY <2>1
      <3> QED
        BY <2>1, <3>1 DEF Sizes
    <2>2. ASSUME NEW r \in live PROVE r \in Row /\ Sizes(f)[r] = Stored[f[r]]
      BY <2>2 DEF Sizes
    <2> QED
      BY <2>1, <2>2 DEF Cells
  <1> QED
    BY <1>1, <1>2 DEF Weight

LEMMA UsedIs ==
  ASSUME Types
  PROVE  /\ Sizes(row) \in [Row -> Nat] /\ Used = Weight(Sizes(row)) /\ Used \in Nat
         /\ \A r \in Row : OldSize(r) = Sizes(row)[r] /\ OldSize(r) \in Nat
  <1>1. row \in [Row -> Data \union {Unused, Gone}]
    BY DEF Types, TypeOK
  <1>2. Sizes(row) \in [Row -> Nat] /\ Used = Weight(Sizes(row))
    BY <1>1, SizesAre DEF Used, Live
  <1>3. \A r \in Row : OldSize(r) = Sizes(row)[r]
    BY DEF OldSize, Sizes, Live
  <1> QED
    BY <1>2, <1>3, CellsFinite

LEMMA LimitInit == Init => LimitInv
  <1> SUFFICES ASSUME Init PROVE Limited
    BY DEF LimitInv
  <1>1. Live = {}
    BY DEF Init, Live
  <1>2. UNION {{r} \X (1..Stored[row[r]]) : r \in Live} = {}
    BY <1>1
  <1>3. Used = 0
    BY <1>2, FS_EmptySet DEF Used
  <1>4. \A w \in Worker : DOMAIN newRow[w] = {} /\ pc[w] = "idle"
    BY EmptyDomain DEF Init
  <1>5. app = {}
    BY DEF Init
  <1>6. StorageLimit + Margin \in Nat
    BY TablesAssumption, MarginAssumption DEF TablesAssumption, MarginAssumption
  <1> QED
    BY <1>3, <1>4, <1>5, <1>6 DEF Limited, Fits, Doing

LEMMA OneLimited ==
  ASSUME RowInv, Limited, NEW w \in Worker, Start(w) \/ Work(w) \/ Abort(w),
         \A v \in Worker \ {w} : v \in app' <=> v \in app, \A u, v \in app' : u = v, Fits(w)'
  PROVE  Limited'
  <1>1. UNCHANGED row /\ Live' = Live
    BY Frame DEF RowInv, Live
  <1>2. /\ Used' = Used
        /\ \A r \in Row : OldSize(r)' = OldSize(r) /\ OldText(r)' = OldText(r)
    BY <1>1 DEF Used, OldSize, OldText
  <1>3. ASSUME NEW v \in Worker \ {w} PROVE Fits(v)'
    <2>1. /\ pc'[v] = pc[v] /\ req'[v] = req[v] /\ base'[v] = base[v]
          /\ merged'[v] = merged[v] /\ newRow'[v] = newRow[v]
      BY Frame DEF RowInv
    <2>2. /\ v \in app' <=> v \in app
          /\ \A new, old : Reserved(v, new, old) => Reserved(v, new, old)'
      BY <1>2 DEF Reserved
    <2>3. \A r \in DOMAIN newRow[v] : r \in Row
      BY DEF RowInv, Types, TypeOK
    <2>4. Fits(v)
      BY DEF Limited
    <2>5. (pc[v] \in {"idle", "reserve"} => v \notin app)'
      BY <2>1, <2>2, <2>4 DEF Fits
    <2>6. (Doing(v, "write", "update") =>
             v \notin app \/ Reserved(v, Estimate[merged[v]], Estimate[base[v]]))'
      BY <2>1, <2>2, <2>4 DEF Fits, Doing, Reserved
    <2>7. ASSUME NEW r \in DOMAIN newRow[v], newRow[v][r] # Gone
          PROVE  /\ \/ Stored[newRow[v][r]] <= OldSize(r)'
                    \/ Reserved(v, Estimate[newRow[v][r]], OldText(r))'
                 /\ SchemaOp(v) => Stored[newRow[v][r]] <= OldSize(r)'
      <3>1. OldSize(r)' = OldSize(r) /\ OldText(r)' = OldText(r)
        BY <1>2, <2>3
      <3>2. /\ \/ Stored[newRow[v][r]] <= OldSize(r)
               \/ Reserved(v, Estimate[newRow[v][r]], OldText(r))
            /\ SchemaOp(v) => Stored[newRow[v][r]] <= OldSize(r)
        BY <2>4, <2>7 DEF Fits
      <3> QED
        BY <1>2, <2>1, <2>2, <3>1, <3>2 DEF Reserved
    <2> QED
      BY <2>1, <2>5, <2>6, <2>7 DEF Fits, SchemaOp, Reserved
  <1> QED
    BY <1>2, <1>3 DEF Limited

LEMMA StartLimited ==
  ASSUME RowInv, Limited, NEW w \in Worker, Start(w) \/ Abort(w)
  PROVE  Limited'
  <1>1. DOMAIN newRow'[w] = {}
    BY QuietLocks
  <1>2. CASE Start(w)
    <2>1. PICK r, stage, seen, old :
             Requested(r, stage, seen, old) /\ Begin(w, r, stage, seen, old)
      BY <1>2, StartIs DEF RowInv
    <2>2. pc[w] = "idle" /\ pc'[w] = stage /\ req'[w] = r /\ app' = app
      BY <2>1 DEF Begin, RowInv, Types, TypeOK
    <2>3. ~(Doing(w, "write", "update")') /\ w \notin app
      BY <2>1, <2>2 DEF Doing, Requested, Limited, Fits
    <2>4. Fits(w)'
      BY <1>1, <2>2, <2>3 DEF Fits
    <2> QED
      BY <1>2, <2>2, <2>4, OneLimited DEF Limited
  <1>3. CASE Abort(w)
    <2>1. pc'[w] = "idle" /\ app' = app \ {w}
      BY <1>3 DEF Abort, EndRequest, RowInv, Types, TypeOK
    <2>2. Fits(w)'
      BY <1>1, <2>1 DEF Fits, Doing
    <2> QED
      BY <1>3, <2>1, <2>2, OneLimited DEF Limited
  <1> QED
    BY <1>2, <1>3

\* What a reservation gives.
LEMMA ReserveIs ==
  ASSUME RowInv, Limited, NEW w \in Worker, NEW before \in Nat, NEW d \in Data,
         Reserve(w, before, d)
  PROVE  /\ \A v \in Worker \ {w} : v \in app' <=> v \in app
         /\ \A u, v \in app' : u = v
         /\ \/ ~Grows(before, d) /\ app' = app
            \/ w \in app' /\ Used + Estimate[d] <= StorageLimit + before
  <1>1. Estimate[d] \in Nat /\ Used \in Nat /\ StorageLimit \in Nat
    BY SizeIs, UsedIs, TablesAssumption DEF RowInv, TablesAssumption
  <1>2. CASE ~Grows(before, d)
    BY <1>2 DEF Reserve, Limited
  <1>3. CASE Grows(before, d)
    BY <1>1, <1>3 DEF Reserve
  <1> QED
    BY <1>2, <1>3

LEMMA WorkLimited ==
  ASSUME RowInv, Limited, NEW w \in Worker, Work(w), excused' \intersect {"stale", "grown"} = {}
  PROVE  Limited'
  <1>1. UNCHANGED row /\ Live' = Live
    BY Frame DEF RowInv, Live
  <1>2. /\ Used' = Used
        /\ \A r \in Row : OldSize(r)' = OldSize(r) /\ OldText(r)' = OldText(r)
    BY <1>1 DEF Used, OldSize, OldText
  <1>3. Used \in Nat /\ \A r \in Row : OldSize(r) \in Nat
    BY UsedIs DEF RowInv
  <1>4. Fits(w)
    BY DEF Limited
  <1>5. ASSUME app' = app, Fits(w)' PROVE Limited'
    BY <1>5, OneLimited DEF Limited
  <1>6. CASE Insert(w)
    <2>1. PICK d \in Payload, r \in Row :
             /\ Reserve(w, 0, d) /\ row[r] = Unused /\ newRow'[w] = [x \in {r} |-> d]
      BY <1>6, InsertIs, ZenonT(30)
    <2>2. d \in Data /\ OldText(r) = 0
      BY <2>1, TablesAssumption DEF TablesAssumption, OldText, Live
    <2>3. /\ \A v \in Worker \ {w} : v \in app' <=> v \in app
          /\ \A u, v \in app' : u = v
          /\ ~Grows(0, d) \/ (w \in app' /\ Used + Estimate[d] <= StorageLimit + 0)
      BY <2>1, <2>2, ReserveIs
    <2>4. Grows(0, d)
      BY <2>2, SizeIs DEF Grows
    <2>5. req'[w].op = "insert" /\ pc'[w] = "done"
      BY <1>6, InsertIs DEF Insert, Advance, RowInv, Types, TypeOK
    <2>6. Reserved(w, Estimate[d], 0)'
      BY <1>2, <2>3, <2>4 DEF Reserved
    <2>7. Fits(w)'
      BY <1>2, <2>1, <2>2, <2>5, <2>6 DEF Fits, Doing, SchemaOp, SchemaOps, Reserved
    <2> QED
      BY <1>6, <2>3, <2>7, OneLimited
  <1>7. CASE Patch(w)
    <2>1. PICK d \in Payload : /\ Reserve(w, Estimate[base[w]], Merged(w, d))
                               /\ merged'[w] = Merged(w, d)
                               /\ pc'[w] \in {"done", "write"}
      BY <1>7 DEF Patch, Advance, RowInv, Types, TypeOK
    <2>2. /\ req'[w] = req[w] /\ base'[w] = base[w] /\ req[w].op = "update"
          /\ DOMAIN newRow'[w] = {} /\ pc[w] = "reserve"
      BY <1>7, QuietLocks DEF Patch, Advance, Doing
    <2>3. base[w] \in Data /\ d \in Data
      BY <2>2, TablesAssumption DEF RowInv, Types, Shape, TablesAssumption
    <2>4. Merged(w, d) \in Data /\ Estimate[base[w]] \in Nat
      BY <2>3, MergedIs, SizeIs
    <2>5. /\ \A v \in Worker \ {w} : v \in app' <=> v \in app
          /\ \A u, v \in app' : u = v
          /\ \/ app' = app
             \/ w \in app' /\ Used + Estimate[Merged(w, d)] <= StorageLimit + Estimate[base[w]]
      BY <2>1, <2>4, ReserveIs
    <2>6. w \notin app
      BY <1>4, <2>2 DEF Fits
    <2>7. w \notin app' \/ Reserved(w, Estimate[merged[w]], Estimate[base[w]])'
      BY <1>2, <2>1, <2>2, <2>5, <2>6 DEF Reserved
    <2>8. Fits(w)'
      BY <2>1, <2>2, <2>7 DEF Fits
    <2> QED
      BY <1>7, <2>5, <2>8, OneLimited
  <1>8. CASE Update(w)
    <2>1. /\ Doing(w, "write", "update") /\ pc'[w] = "done" /\ req'[w] = req[w]
          /\ newRow'[w] = [x \in {req[w].row} |-> merged[w]]
          /\ req[w].row \in Live /\ app' = app /\ merged' = merged
          /\ excused' = excused
                \union (IF row[req[w].row] # base[w] THEN {"stale"} ELSE {})
                \union (IF w \notin app /\ Stored[merged[w]] > Stored[row[req[w].row]]
                          THEN {"grown"} ELSE {})
      BY <1>8, UpdateIs DEF Doing
    <2>2. row[req[w].row] = base[w]
      BY <2>1
    <2>3. PICK r, d : r = req[w].row /\ d = merged[w]
      OBVIOUS
    <2>4. w \in app \/ ~(Stored[merged[w]] > Stored[base[w]])
      BY <2>1, <2>2
    <2>5. OldSize(r)' = Stored[base[w]] /\ OldText(r)' = Estimate[base[w]]
      BY <1>1, <2>1, <2>2, <2>3 DEF OldSize, OldText
    <2>6. merged[w] \in Data /\ base[w] \in Data
      BY <2>1 DEF Doing, RowInv, Types, Shape
    <2>7. w \notin app \/ Reserved(w, Estimate[merged[w]], Estimate[base[w]])
      BY <1>4, <2>1 DEF Fits
    <2>8. \/ Stored[d] <= OldSize(r)'
          \/ w \in app' /\ Used' + Estimate[d] <= StorageLimit + OldText(r)'
      <3>1. CASE w \in app
        <4>1. Used + Estimate[d] <= StorageLimit + Estimate[base[w]]
          BY <2>7, <2>3, <3>1 DEF Reserved
        <4>2. Used' + Estimate[d] <= StorageLimit + OldText(r)'
          BY <1>2, <2>5, <2>3, <4>1
        <4> QED
          BY <2>1, <3>1, <4>2
      <3>2. CASE w \notin app
        BY <2>4, <2>5, <2>6, <2>3, <3>2, SizeIs
      <3> QED
        BY <3>1, <3>2
    <2>9. Fits(w)'
      <3>1. newRow'[w] = [x \in {r} |-> d] /\ pc'[w] = "done" /\ req'[w].op = "update"
        BY <2>1, <2>3 DEF Doing
      <3>2. ASSUME NEW x \in DOMAIN newRow'[w] PROVE x = r /\ newRow'[w][x] = d
        BY <3>1
      <3> QED
        BY <2>8, <3>1, <3>2 DEF Fits, Reserved, Doing, SchemaOp, SchemaOps
    <2> QED
      BY <1>5, <2>1, <2>9
  <1>9. CASE Delete(w)
    <2>1. pc'[w] = "done" /\ app' = app /\ \A r \in DOMAIN newRow'[w] : newRow'[w][r] = Gone
      BY <1>9, DeleteIs
    <2> QED
      BY <1>5, <2>1 DEF Fits, Doing
  <1>10. CASE DeleteTable(w)
    <2>1. pc'[w] = "done" /\ app' = app /\ \A r \in DOMAIN newRow'[w] : newRow'[w][r] = Gone
      BY <1>10, DeleteTableIs
    <2> QED
      BY <1>5, <2>1 DEF Fits, Doing
  <1>11. CASE Add(w) \/ Rename(w) \/ Drop(w)
    <2>1. /\ pc'[w] \notin {"write", "idle", "reserve"} /\ app' = app
          /\ DOMAIN newRow'[w] = {}
      BY <1>11, FlushIs DEF Add, Rename, Drop, Advance, RowInv, Types, TypeOK
    <2> QED
      BY <1>5, <2>1 DEF Fits, Doing
  <1>12. CASE PickRows(w)
    <2>1. /\ pc'[w] \notin {"write", "idle", "reserve"} /\ app' = app
          /\ DOMAIN newRow'[w] = {}
      BY <1>12, QuietLocks DEF PickRows, Advance, RowInv, Types, TypeOK
    <2> QED
      BY <1>5, <2>1 DEF Fits, Doing
  <1>13. CASE Rewrite(w)
    <2>1. /\ pc'[w] = "done" /\ app' = app
          /\ \A r \in DOMAIN newRow'[w] :
                r \in Live /\ newRow'[w][r] = Rewritten(row[r], req[w].name, req[w].to)
          /\ DOMAIN newRow'[w] = Having(cand[w], req[w].name)
      BY <1>13, RewriteIs DEF RowInv
    <2>2. \A r \in Having(cand[w], req[w].name) :
             ~(Stored[Rewritten(row[r], req[w].name, req[w].to)] > Stored[row[r]])
      BY <1>13 DEF Rewrite, Excuse
    <2>3. ASSUME NEW r \in DOMAIN newRow'[w] PROVE Stored[newRow'[w][r]] <= OldSize(r)'
      <3>1. r \in Live /\ r \in Row
        BY <2>1, <2>3 DEF Live
      <3>2. newRow'[w][r] \in Data /\ row[r] \in Data
        BY <1>13, <2>3, <3>1, RewriteIs, LiveIs DEF RowInv
      <3>3. Stored[newRow'[w][r]] \in Nat /\ Stored[row[r]] \in Nat
        BY <3>2, SizeIs
      <3>4. ~(Stored[newRow'[w][r]] > Stored[row[r]])
        BY <2>1, <2>2, <2>3
      <3>5. OldSize(r)' = Stored[row[r]]
        BY <1>1, <3>1 DEF OldSize
      <3> QED
        BY <3>3, <3>4, <3>5
    <2>4. Fits(w)'
      BY <2>1, <2>3 DEF Fits, Doing
    <2> QED
      BY <1>5, <2>1, <2>4
  <1> QED
    BY <1>6, <1>7, <1>8, <1>9, <1>10, <1>11, <1>12, <1>13 DEF Work

\* The size a flushed row will have.
NewSize(x) == IF x = Gone THEN 0 ELSE Stored[x]

LEMMA CommitSizes ==
  ASSUME RowInv, NEW w \in Worker, Commit(w)
  PROVE  /\ Used \in Nat /\ Used' \in Nat
         /\ \A r \in Row : OldSize(r) \in Nat /\ OldSize(r)' \in Nat
         /\ \A r \in DOMAIN newRow[w] : r \in Row /\ OldSize(r)' = NewSize(newRow[w][r])
         /\ \A r \in Row \ DOMAIN newRow[w] : OldSize(r)' = OldSize(r)
         /\ (\A r \in DOMAIN newRow[w] : OldSize(r)' <= OldSize(r)) => Used' <= Used
         /\ \A x \in Row : (\A r \in DOMAIN newRow[w] : r = x) =>
                Used' + OldSize(x) = Used + OldSize(x)'
  <1> USE DEF RowInv
  <1>1. row' \in [Row -> Data \union {Unused, Gone}]
    BY CommitTyped DEF Types, TypeOK
  <1>2. Sizes(row') \in [Row -> Nat] /\ Used' = Weight(Sizes(row'))
    BY <1>1, SizesAre DEF Used, Live
  <1>3. \A r \in Row : OldSize(r)' = Sizes(row')[r]
    BY DEF OldSize, Sizes, Live
  <1>4. Used \in Nat /\ Used' \in Nat
    BY <1>2, UsedIs, CellsFinite
  <1>5. ASSUME NEW r \in DOMAIN newRow[w]
        PROVE  r \in Row /\ OldSize(r)' = NewSize(newRow[w][r])
    <2>1. r \in Row /\ newRow[w][r] \in Data \union {Gone}
      BY DEF Types, TypeOK
    <2>2. row'[r] = newRow[w][r]
      BY <2>1, CommitIs
    <2>3. {Unused, Gone} \intersect Data = {} /\ Unused # Gone
      BY TablesAssumption DEF TablesAssumption
    <2> QED
      BY <1>3, <2>1, <2>2, <2>3 DEF Sizes, NewSize
  <1>6. ASSUME NEW r \in Row, r \notin DOMAIN newRow[w] PROVE OldSize(r)' = OldSize(r)
    <2>1. row'[r] = row[r]
      BY <1>6, CommitIs
    <2> QED
      BY <2>1 DEF OldSize, Live
  <1>7. ASSUME \A r \in DOMAIN newRow[w] : OldSize(r)' <= OldSize(r) PROVE Used' <= Used
    <2>1. \A r \in Row : Sizes(row')[r] <= Sizes(row)[r]
      BY <1>2, <1>3, <1>6, <1>7, UsedIs
    <2> QED
      BY <1>2, <2>1, UsedIs, WeightLess
  <1>8. ASSUME NEW x \in Row, \A r \in DOMAIN newRow[w] : r = x
        PROVE  Used' + OldSize(x) = Used + OldSize(x)'
    <2>1. \A r \in Row \ {x} : Sizes(row')[r] = Sizes(row)[r]
      BY <1>3, <1>6, <1>8, UsedIs
    <2>2. Weight(Sizes(row')) + Sizes(row)[x] = Weight(Sizes(row)) + Sizes(row')[x]
      BY <1>2, <2>1, UsedIs, WeightChange
    <2> QED
      BY <1>2, <1>3, <2>2, UsedIs
  <1> QED
    BY <1>2, <1>3, <1>4, <1>5, <1>6, <1>7, <1>8, UsedIs

LEMMA CommitLimited ==
  ASSUME RowInv, Limited, NEW w \in Worker, Commit(w)
  PROVE  Limited'
  <1> USE DEF RowInv
  <1>1. Fits(w)
    BY DEF Limited
  <1>2. StorageLimit \in Nat /\ Margin \in Nat
    BY TablesAssumption, MarginAssumption DEF TablesAssumption, MarginAssumption
  <1>3. ASSUME NEW r \in DOMAIN newRow[w], ~(OldSize(r)' <= OldSize(r))
        PROVE  /\ w \in app
               /\ Used + OldSize(r)' <= StorageLimit + Margin + OldSize(r)
               /\ \A s \in DOMAIN newRow[w] : s = r
    <2>1. r \in Row /\ OldSize(r) \in Nat /\ OldSize(r)' = NewSize(newRow[w][r])
      BY <1>3, CommitSizes
    <2>2. newRow[w][r] # Gone
      BY <1>3, <2>1 DEF NewSize
    <2>3. OldSize(r)' = Stored[newRow[w][r]] /\ newRow[w][r] \in Data
      BY <2>1, <2>2 DEF NewSize, Types, TypeOK
    <2>4. ~SchemaOp(w) /\ Reserved(w, Estimate[newRow[w][r]], OldText(r))
      BY <1>1, <1>3, <2>2, <2>3 DEF Fits
    <2>5. req[w].op \in {"insert", "update"}
      <3>1. pc[w] \in Stages(req[w].op) /\ req[w] \in Request /\ pc[w] = "done"
        BY CommitIs DEF Types, TypeOK, Shape
      <3>2. req[w].op \notin {"delete", "deltable", "add"}
        BY <1>3, <2>2 DEF Locks, HeldRow, Types, Shape
      <3> QED
        BY <2>4, <3>1, <3>2 DEF Stages, SchemaOp, SchemaOps, Request, AllOps, RowOps
    <2>6. \A s \in DOMAIN newRow[w] : s = r
      BY <1>3, <2>5 DEF Locks, HeldRow, Types, Shape
    <2>7. /\ OldText(r) \in Nat
          /\ Stored[newRow[w][r]] + OldText(r) <= OldSize(r) + Estimate[newRow[w][r]] + Margin
      <3>1. CASE r \in Live
        <4>1. row[r] \in Data
          BY <3>1, LiveIs
        <4> QED
          BY <2>3, <3>1, <4>1, SizeIs, MarginAssumption DEF MarginAssumption, OldText, OldSize
      <3>2. CASE r \notin Live
        BY <1>2, <2>3, <3>2, SizeIs, MarginAssumption DEF MarginAssumption, OldText, OldSize
      <3> QED
        BY <3>1, <3>2
    <2>8. Used \in Nat /\ Stored[newRow[w][r]] \in Nat /\ Estimate[newRow[w][r]] \in Nat
      BY <2>3, SizeIs, UsedIs
    <2>9. w \in app /\ Used + Estimate[newRow[w][r]] <= StorageLimit + OldText(r)
      BY <2>4 DEF Reserved
    <2>10. Used + Stored[newRow[w][r]] <= StorageLimit + Margin + OldSize(r)
      BY <1>2, <2>1, <2>7, <2>8, <2>9
    <2> QED
      BY <2>3, <2>6, <2>9, <2>10
  <1>4. Used' <= StorageLimit + Margin /\ (Used' <= Used \/ w \in app)
    <2>1. CASE \A r \in DOMAIN newRow[w] : OldSize(r)' <= OldSize(r)
      BY <1>2, <2>1, CommitSizes DEF Limited
    <2>2. ASSUME NEW r \in DOMAIN newRow[w], ~(OldSize(r)' <= OldSize(r))
          PROVE  Used' <= StorageLimit + Margin /\ (Used' <= Used \/ w \in app)
      <3>1. w \in app /\ Used + OldSize(r)' <= StorageLimit + Margin + OldSize(r)
            /\ \A s \in DOMAIN newRow[w] : s = r
        BY <1>3, <2>2
      <3>2. r \in Row /\ OldSize(r) \in Nat /\ OldSize(r)' \in Nat
        BY <2>2, CommitSizes
      <3>3. Used' + OldSize(r) = Used + OldSize(r)'
        BY <3>1, <3>2, CommitSizes
      <3> QED
        BY <1>2, <3>1, <3>2, <3>3, CommitSizes
    <2> QED
      BY <2>1, <2>2
  <1>5. app' = app \ {w} /\ pc'[w] = "idle" /\ DOMAIN newRow'[w] = {}
    BY CommitIs
  <1>6. ASSUME NEW v \in Worker \ {w} PROVE Fits(v)'
    <2>1. /\ pc'[v] = pc[v] /\ req'[v] = req[v] /\ base'[v] = base[v]
          /\ merged'[v] = merged[v] /\ newRow'[v] = newRow[v] /\ (v \in app' <=> v \in app)
      BY <1>5, CommitIs
    <2>2. ASSUME NEW new \in Nat, NEW old \in Nat, Reserved(v, new, old)
          PROVE  Reserved(v, new, old)'
      <3>1. w \notin app
        BY <2>2 DEF Limited, Reserved
      <3>2. Used' <= Used /\ v \in app'
        BY <1>4, <2>1, <2>2, <3>1 DEF Reserved
      <3> QED
        BY <1>2, <2>2, <3>2, CommitSizes DEF Reserved
    <2>3. \A r \in DOMAIN newRow[v] : /\ r \in Row /\ OldSize(r)' = OldSize(r)
                                      /\ OldText(r)' = OldText(r) /\ OldText(r) \in Nat
      <3> TAKE r \in DOMAIN newRow[v]
      <3>1. r \in Row /\ r \notin DOMAIN newRow[w]
        BY DEF Types, TypeOK, Locks
      <3>2. row'[r] = row[r]
        BY <3>1, CommitIs
      <3>3. OldText(r) \in Nat
        BY <3>1, LiveIs, SizeIs DEF OldText
      <3> QED
        BY <3>1, <3>2, <3>3, CommitSizes DEF OldText, Live
    <2>4. \A r \in DOMAIN newRow[v] : newRow[v][r] # Gone => Estimate[newRow[v][r]] \in Nat
      BY SizeIs DEF Types, TypeOK
    <2>5. Doing(v, "write", "update") => Estimate[merged[v]] \in Nat /\ Estimate[base[v]] \in Nat
      BY SizeIs DEF Doing, Types, Shape
    <2>6. Fits(v)
      BY DEF Limited
    <2>7. (/\ pc[v] \in {"idle", "reserve"} => v \notin app
           /\ Doing(v, "write", "update") =>
                v \notin app \/ Reserved(v, Estimate[merged[v]], Estimate[base[v]]))'
      <3>1. pc'[v] \in {"idle", "reserve"} => v \notin app'
        BY <2>1, <2>6 DEF Fits
      <3>2. ASSUME Doing(v, "write", "update")', v \in app'
            PROVE  Reserved(v, Estimate[merged[v]], Estimate[base[v]])'
        <4>1. Reserved(v, Estimate[merged[v]], Estimate[base[v]]) /\ Doing(v, "write", "update")
          BY <2>1, <2>6, <3>2 DEF Fits, Doing
        <4> QED
          BY <2>1, <2>2, <2>5, <4>1 DEF Reserved
      <3> QED
        BY <3>1, <3>2
    <2>8. ASSUME NEW r \in DOMAIN newRow[v], newRow[v][r] # Gone
          PROVE  /\ \/ Stored[newRow[v][r]] <= OldSize(r)'
                    \/ Reserved(v, Estimate[newRow[v][r]], OldText(r))'
                 /\ SchemaOp(v) => Stored[newRow[v][r]] <= OldSize(r)'
      <3>1. /\ \/ Stored[newRow[v][r]] <= OldSize(r)
               \/ Reserved(v, Estimate[newRow[v][r]], OldText(r))
            /\ SchemaOp(v) => Stored[newRow[v][r]] <= OldSize(r)
        BY <2>6, <2>8 DEF Fits
      <3>2. CASE Reserved(v, Estimate[newRow[v][r]], OldText(r))
        BY <2>1, <2>2, <2>3, <2>4, <2>8, <3>1, <3>2 DEF Reserved
      <3>3. CASE ~Reserved(v, Estimate[newRow[v][r]], OldText(r))
        BY <2>3, <3>1, <3>3
      <3> QED
        BY <3>2, <3>3
    <2> QED
      BY <2>1, <2>7, <2>8 DEF Fits, SchemaOp, Reserved
  <1>7. Fits(w)'
    BY <1>5 DEF Fits, Doing
  <1>8. \A u, v \in app' : u = v
    BY <1>5 DEF Limited
  <1> QED
    BY <1>4, <1>6, <1>7, <1>8 DEF Limited

LEMMA LimitStep == RowInv /\ LimitInv /\ [Next]_vars => LimitInv'
  <1> SUFFICES ASSUME RowInv, LimitInv, [Next]_vars, excused' \intersect {"stale", "grown"} = {}
               PROVE  Limited'
    BY DEF LimitInv
  <1>1. excused \subseteq excused'
    <2>1. ASSUME NEW w \in Worker, Start(w) PROVE excused \subseteq excused'
      BY <2>1, StartIs DEF Begin, Excuse, RowInv
    <2>2. ASSUME NEW w \in Worker, Work(w) PROVE excused \subseteq excused'
      BY <2>2 DEF Work, Insert, Patch, Update, Delete, Add, Rename, Drop, PickRows, Rewrite,
                  DeleteTable, FlushColumn, Excuse
    <2>3. ASSUME Lists PROVE excused \subseteq excused'
      BY <2>3, ListsIs DEF EndListing, NextPage
    <2> QED
      BY <2>1, <2>2, <2>3 DEF Next, Commit, Abort, vars, Lists
  <1>2. Limited
    BY <1>1 DEF LimitInv
  <1>3. ASSUME UNCHANGED <<committed, session>> PROVE Limited'
    BY <1>2, <1>3 DEF committed, session, Limited, Fits, Doing, Reserved, OldSize, OldText,
                      Used, Live, SchemaOp
  <1>4. CASE UNCHANGED vars
    BY <1>3, <1>4 DEF vars, committed, session
  <1>5. CASE Lists
    BY <1>3, <1>5, ListsIs DEF EndListing, NextPage
  <1> QED
    BY <1>2, <1>4, <1>5, StartLimited, WorkLimited, CommitLimited DEF Next, Lists

-----------------------------------------------------------------------------
(* Listing.                                                                *)

SortKey == Value \union {Null}

\* Value x of row i sorts before value y of row j, in the order asked for.
Lower(x, i, y, j) == (x = y /\ i < j) \/ (x # Null /\ (y = Null \/ x < y))
Prior(x, i, y, j, desc) == IF desc THEN Lower(y, j, x, i) ELSE Lower(x, i, y, j)

LEMMA SortKeys == \A x \in SortKey : x # Null => x \in Nat
  BY TablesAssumption DEF TablesAssumption, SortKey

LEMMA AfterIs ==
  ASSUME NEW x \in SortKey, NEW i \in Row, NEW v \in SortKey, NEW k \in Row, NEW desc \in BOOLEAN
  PROVE  After(x, i, v, k, desc) <=> Prior(v, k, x, i, desc)
  <1>1. i \in Nat /\ k \in Nat /\ (x # Null => x \in Nat) /\ (v # Null => v \in Nat)
    BY SortKeys, TablesAssumption DEF TablesAssumption
  <1>2. CASE desc
    BY <1>1, <1>2 DEF After, Prior, Lower
  <1>3. CASE ~desc
    BY <1>1, <1>3 DEF After, Prior, Lower
  <1> QED
    BY <1>2, <1>3

\* The order of a listing is a strict total order.
LEMMA PriorOrder ==
  ASSUME NEW desc \in BOOLEAN, NEW x \in SortKey, NEW y \in SortKey, NEW z \in SortKey,
         NEW i \in Row, NEW j \in Row, NEW k \in Row
  PROVE  /\ ~Prior(x, i, x, i, desc)
         /\ Prior(x, i, y, j, desc) /\ Prior(y, j, z, k, desc) => Prior(x, i, z, k, desc)
         /\ i # j => Prior(x, i, y, j, desc) \/ Prior(y, j, x, i, desc)
  <1>1. /\ i \in Nat /\ j \in Nat /\ k \in Nat
        /\ (x # Null => x \in Nat) /\ (y # Null => y \in Nat) /\ (z # Null => z \in Nat)
    BY SortKeys, TablesAssumption DEF TablesAssumption
  <1>2. ~Lower(x, i, x, i)
    BY <1>1 DEF Lower
  <1>3. ASSUME NEW a \in SortKey, NEW b \in SortKey, NEW c \in SortKey,
               NEW l \in Row, NEW m \in Row, NEW n \in Row,
               Lower(a, l, b, m), Lower(b, m, c, n)
        PROVE  Lower(a, l, c, n)
    <2>1. /\ l \in Nat /\ m \in Nat /\ n \in Nat
          /\ (a # Null => a \in Nat) /\ (b # Null => b \in Nat) /\ (c # Null => c \in Nat)
      BY SortKeys, TablesAssumption DEF TablesAssumption
    <2> QED
      BY <1>3, <2>1 DEF Lower
  <1>4. i # j => Lower(x, i, y, j) \/ Lower(y, j, x, i)
    BY <1>1 DEF Lower
  <1> QED
    BY <1>2, <1>3, <1>4 DEF Prior

\* A finite set with a strict total order has a last element.
LEMMA LastExists ==
  ASSUME NEW S, IsFiniteSet(S), S # {}, NEW R,
         \A s \in S : <<s, s>> \notin R,
         \A s, t, u \in S : <<s, t>> \in R /\ <<t, u>> \in R => <<s, u>> \in R,
         \A s, t \in S : s # t => <<s, t>> \in R \/ <<t, s>> \in R
  PROVE  \E m \in S : \A s \in S \ {m} : <<s, m>> \in R
  <1> DEFINE later(s) == {t \in S : <<s, t>> \in R}
             T == {later(s) : s \in S}
  <1>1. IsWellFoundedOn(StrictSubsetOrdering(S), SUBSET S)
    BY FS_StrictSubsetOrderingWellFounded, FS_FiniteSubsetsOfFinite
  <1>2. T \subseteq SUBSET S /\ T # {}
    <2>1. \A s \in S : later(s) \subseteq S
      OBVIOUS
    <2>2. PICK s \in S : TRUE
      OBVIOUS
    <2>3. later(s) \in T
      OBVIOUS
    <2> HIDE DEF later
    <2>4. \A X \in T : \E t \in S : X = later(t)
      OBVIOUS
    <2> HIDE DEF T
    <2> QED
      BY <2>1, <2>3, <2>4
  <1>3. PICK X \in T : \A Y \in T : <<Y, X>> \notin StrictSubsetOrdering(S)
    BY <1>1, <1>2, WFMin
  <1>4. PICK m \in S : X = later(m)
    OBVIOUS
  <1>5. ASSUME NEW s \in S \ {m}, <<m, s>> \in R PROVE FALSE
    <2>1. later(s) \subseteq later(m)
      BY <1>5
    <2>2. s \in later(m) /\ s \notin later(s)
      BY <1>5
    <2>3. later(s) \in SUBSET S /\ later(m) \in SUBSET S /\ later(s) # later(m)
      BY <2>2
    <2>4. <<later(s), later(m)>> \in StrictSubsetOrdering(S)
      BY <2>1, <2>3 DEF StrictSubsetOrdering
    <2> QED
      BY <1>3, <1>4, <2>4
  <1> QED
    BY <1>5

\* Row s comes before row r in a listing.
Ahead(q, s, r) == Prior(SortValue(s, q.field), s, SortValue(r, q.field), r, q.desc)

LEMMA SortValueIs ==
  ASSUME Types, NEW r \in Live, NEW n
  PROVE  SortValue(r, n) \in SortKey
  BY LiveIs, DataHas DEF SortValue, SortKey

LEMMA AheadOrder ==
  ASSUME Types, NEW q, q.desc \in BOOLEAN
  PROVE  /\ \A r \in Live : ~Ahead(q, r, r)
         /\ \A r, s, t \in Live : Ahead(q, r, s) /\ Ahead(q, s, t) => Ahead(q, r, t)
         /\ \A r, s \in Live : r # s => Ahead(q, r, s) \/ Ahead(q, s, r)
         /\ \A r, s \in Live : Ahead(q, s, r) <=> (IF q.desc THEN Less(q.field, r, s)
                                                            ELSE Less(q.field, s, r))
  <1>1. \A r \in Live : r \in Row /\ SortValue(r, q.field) \in SortKey
    BY SortValueIs DEF Live
  <1>2. \A r, s \in Live : Ahead(q, s, r) <=> (IF q.desc THEN Less(q.field, r, s)
                                                        ELSE Less(q.field, s, r))
    BY DEF Ahead, Prior, Lower, Less
  <1>3. \A r \in Live : ~Ahead(q, r, r)
    BY <1>1, PriorOrder DEF Ahead
  <1>4. \A r, s, t \in Live : Ahead(q, r, s) /\ Ahead(q, s, t) => Ahead(q, r, t)
    BY <1>1, PriorOrder DEF Ahead
  <1>5. \A r, s \in Live : r # s => Ahead(q, r, s) \/ Ahead(q, s, r)
    BY <1>1, PriorOrder DEF Ahead
  <1> QED
    BY <1>2, <1>3, <1>4, <1>5

LEMMA LastOfRows ==
  ASSUME Types, NEW q, q.desc \in BOOLEAN, NEW S \in SUBSET Live, S # {}
  PROVE  /\ \E m \in S : \A s \in S \ {m} : Ahead(q, s, m)
         /\ \E m \in S : \A s \in S \ {m} : Ahead(q, m, s)
  <1>1. IsFiniteSet(S)
    <2>1. S \in SUBSET Row
      BY DEF Live
    <2> QED
      BY <2>1, FS_Subset, TablesAssumption DEF TablesAssumption
  <1>2. \E m \in S : \A s \in S \ {m} : Ahead(q, s, m)
    <2> DEFINE R == {p \in S \X S : Ahead(q, p[1], p[2])}
    <2>1. \A s, t \in S : <<s, t>> \in R <=> Ahead(q, s, t)
      OBVIOUS
    <2> HIDE DEF R
    <2>2. /\ \A s \in S : <<s, s>> \notin R
          /\ \A s, t, u \in S : <<s, t>> \in R /\ <<t, u>> \in R => <<s, u>> \in R
          /\ \A s, t \in S : s # t => <<s, t>> \in R \/ <<t, s>> \in R
      BY <2>1, AheadOrder
    <2>3. S # {}
      OBVIOUS
    <2>4. \E m \in S : \A s \in S \ {m} : <<s, m>> \in R
      BY ONLY <1>1, <2>2, <2>3, LastExists
    <2> QED
      BY <2>1, <2>4
  <1>3. \E m \in S : \A s \in S \ {m} : Ahead(q, m, s)
    <2> DEFINE R == {p \in S \X S : Ahead(q, p[2], p[1])}
    <2>1. \A s, t \in S : <<s, t>> \in R <=> Ahead(q, t, s)
      OBVIOUS
    <2> HIDE DEF R
    <2>2. /\ \A s \in S : <<s, s>> \notin R
          /\ \A s, t, u \in S : <<s, t>> \in R /\ <<t, u>> \in R => <<s, u>> \in R
          /\ \A s, t \in S : s # t => <<s, t>> \in R \/ <<t, s>> \in R
      BY <2>1, AheadOrder
    <2>3. S # {}
      OBVIOUS
    <2>4. \E m \in S : \A s \in S \ {m} : <<s, m>> \in R
      BY ONLY <1>1, <2>2, <2>3, LastExists
    <2> QED
      BY <2>1, <2>4
  <1> QED
    BY <1>2, <1>3
\* The rows from a cursor on, and those of them that fit on a page.
From(q) ==
    {r \in Live : \/ q.cursor = NoCursor
                  \/ After(SortValue(r, q.field), r, q.cursor.value, q.cursor.id, q.desc)}
Fit(q) == {r \in From(q) : Cardinality({s \in From(q) : Ahead(q, s, r)}) < Page}

\* The rows that fit are the first ones, up to a last one.
LEMMA FitIs ==
  ASSUME Types, NEW q, q.desc \in BOOLEAN, From(q) # Fit(q)
  PROVE  \E m \in Fit(q) :
            /\ \A s \in Fit(q) \ {m} : Ahead(q, s, m)
            /\ \A r \in From(q) : r \in Fit(q) <=> ~Ahead(q, m, r)
  <1> DEFINE before(r) == {s \in From(q) : Ahead(q, s, r)}
  <1>1. From(q) \in SUBSET Live /\ Fit(q) \in SUBSET Live /\ Fit(q) \subseteq From(q)
    BY DEF From, Fit
  <1>2. \A r : IsFiniteSet(before(r)) /\ Cardinality(before(r)) \in Nat
    <2>1. \A r : before(r) \in SUBSET Row
      BY <1>1 DEF Live
    <2> HIDE DEF before
    <2> QED
      BY <2>1, FS_Subset, FS_CardinalityType, TablesAssumption DEF TablesAssumption
  <1>3. \A r \in From(q) : r \in Fit(q) <=> Cardinality(before(r)) < Page
    BY DEF Fit
  <1>4. Fit(q) # {}
    <2>1. From(q) # {}
      BY <1>1
    <2>2. PICK m \in From(q) : \A s \in From(q) \ {m} : Ahead(q, m, s)
      BY <1>1, <2>1, LastOfRows
    <2>3. before(m) = {}
      BY <1>1, <2>2, AheadOrder
    <2>4. Cardinality(before(m)) = 0
      BY <2>3, FS_EmptySet
    <2> HIDE DEF before
    <2> QED
      BY <1>3, <2>4, TablesAssumption DEF TablesAssumption
  <1>5. PICK m \in Fit(q) : \A s \in Fit(q) \ {m} : Ahead(q, s, m)
    BY <1>1, <1>4, LastOfRows
  <1>6. ASSUME NEW r \in From(q), r \in Fit(q) PROVE ~Ahead(q, m, r)
    <2>1. m \in Live /\ r \in Live
      BY <1>1
    <2> QED
      BY <1>5, <1>6, <2>1, AheadOrder
  <1>7. ASSUME NEW r \in From(q), ~Ahead(q, m, r) PROVE r \in Fit(q)
    <2>1. m \in Live /\ r \in Live /\ m \in From(q)
      BY <1>1
    <2>2. CASE Ahead(q, r, m)
      <3>1. before(r) \subseteq before(m)
        BY <1>1, <2>1, <2>2, AheadOrder
      <3> HIDE DEF before
      <3>2. Cardinality(before(r)) <= Cardinality(before(m))
        BY <1>2, <3>1, FS_Subset
      <3>3. Cardinality(before(m)) < Page
        BY <1>3, <2>1
      <3> QED
        BY <1>2, <1>3, <3>2, <3>3, TablesAssumption DEF TablesAssumption
    <2> QED
      BY <1>7, <2>1, <2>2, AheadOrder
  <1> QED
    BY <1>5, <1>6, <1>7

\* What a page gives, and where the next one goes on.
Given(q, start) ==
    /\ \/ /\ From(q) = Fit(q)
          /\ listing' = [q EXCEPT !.stage = "ended", !.cursor = NoCursor]
       \/ \E m \in Fit(q) :
             /\ listing' = [q EXCEPT !.cursor = [value |-> SortValue(m, q.field), id |-> m]]
             /\ \A r \in From(q) : r \in Fit(q) <=> ~Ahead(q, m, r)
    /\ steady' = IF start THEN Live ELSE steady
    /\ listed' = listed \union Fit(q)
    /\ again' = again \union (listed \intersect steady \intersect Fit(q))
    /\ row' = row

LEMMA NextPageIs ==
  ASSUME Types, NEW q, q.desc \in BOOLEAN, NEW start \in BOOLEAN, NextPage(q, start)
  PROVE  Given(q, start)
  <1> DEFINE comes(s, r) == IF q.desc THEN Less(q.field, r, s) ELSE Less(q.field, s, r)
             first == {r \in From(q) : Cardinality({s \in From(q) : comes(s, r)}) < Page}
             last == CHOOSE r \in first : \A s \in first \ {r} : comes(s, r)
  <1>1. From(q) \subseteq Live /\ Fit(q) \subseteq Live
    BY DEF From, Fit
  <1>2. \A r, s \in Live : comes(s, r) <=> Ahead(q, s, r)
    BY AheadOrder
  <1>3. /\ listing' = IF From(q) = first
                        THEN [q EXCEPT !.stage = "ended", !.cursor = NoCursor]
                        ELSE [q EXCEPT !.cursor =
                                 [value |-> SortValue(last, q.field), id |-> last]]
        /\ steady' = IF start THEN Live ELSE steady
        /\ listed' = listed \union first
        /\ again' = again \union (listed \intersect steady \intersect first)
        /\ row' = row
    BY DEF NextPage, From, committed
  <1> HIDE DEF comes
  <1>4. first = Fit(q)
    <2>1. \A r \in From(q) : {s \in From(q) : comes(s, r)} = {s \in From(q) : Ahead(q, s, r)}
      BY <1>1, <1>2
    <2> QED
      BY <2>1 DEF Fit
  <1>5. ASSUME From(q) # Fit(q)
        PROVE  last \in Fit(q) /\ \A r \in From(q) : r \in Fit(q) <=> ~Ahead(q, last, r)
    <2>1. PICK m \in Fit(q) : /\ \A s \in Fit(q) \ {m} : Ahead(q, s, m)
                              /\ \A r \in From(q) : r \in Fit(q) <=> ~Ahead(q, m, r)
      BY <1>5, FitIs
    <2>2. last \in first /\ \A s \in first \ {last} : comes(s, last)
      <3>1. m \in first /\ \A s \in first \ {m} : comes(s, m)
        BY <1>1, <1>2, <1>4, <2>1
      <3> HIDE DEF first
      <3> QED
        BY <3>1
    <2> HIDE DEF last
    <2>3. last \in Fit(q) /\ \A s \in Fit(q) \ {last} : Ahead(q, s, last)
      BY <1>1, <1>2, <1>4, <2>2
    <2>4. last = m
      BY <1>1, <2>1, <2>3, AheadOrder
    <2> QED
      BY <2>1, <2>4
  <1> HIDE DEF first, last
  <1>6. CASE From(q) = Fit(q)
    BY <1>3, <1>4, <1>6 DEF Given
  <1>7. CASE From(q) # Fit(q)
    BY <1>3, <1>4, <1>5, <1>7 DEF Given
  <1> QED
    BY <1>6, <1>7
LEMMA ListInit == Init => ListInv
  BY DEF Init, ListInv, NoListing

\* A page keeps the promise of a listing.
LEMMA PageLists ==
  ASSUME Types, ListInv, NEW q, NEW start \in BOOLEAN, Query(q, start), NextPage(q, start)
  PROVE  ListInv'
  <1>1. q.desc \in BOOLEAN /\ q.stage = "paging"
    BY DEF Query, ListInv
  <1>2. q = [stage |-> q.stage, field |-> q.field, desc |-> q.desc, cursor |-> q.cursor]
    BY DEF Query, Types
  <1>3. /\ \/ /\ From(q) = Fit(q)
              /\ listing' = [q EXCEPT !.stage = "ended", !.cursor = NoCursor]
           \/ \E m \in Fit(q) :
                 /\ listing' = [q EXCEPT !.cursor = [value |-> SortValue(m, q.field), id |-> m]]
                 /\ \A r \in From(q) : r \in Fit(q) <=> ~Ahead(q, m, r)
        /\ steady' = IF start THEN Live ELSE steady
        /\ listed' = listed \union Fit(q)
        /\ again' = again \union (listed \intersect steady \intersect Fit(q))
        /\ row' = row
    <2>1. Given(q, start)
      BY <1>1, NextPageIs
    <2> QED
      BY <2>1 DEF Given
  <1>4. /\ Live' = Live
        /\ \A r, n : SortValue(r, n)' = SortValue(r, n)
    BY <1>3 DEF Live, SortValue
  <1>5. Fit(q) \subseteq From(q) /\ From(q) \subseteq Live
    BY DEF From, Fit
  <1>6. \A r \in Live : r \in Row /\ SortValue(r, q.field) \in SortKey
    BY SortValueIs DEF Live
  \* What has been listed already, and what the page is taken from.
  <1>7. steady' \subseteq Live /\ \A r \in steady' : r \in listed <=> r \notin From(q)
    <2>1. CASE start
      BY <1>3, <2>1 DEF Query, ListInv, From
    <2>2. CASE ~start
      <3>1. /\ q = listing /\ listing.stage = "paging" /\ steady' = steady
            /\ listing.cursor \in [value: Value \union {Null}, id: Row]
        BY <1>3, <2>2 DEF Query, ListInv
      <3>2. listing.cursor # NoCursor
        BY <3>1, TablesAssumption DEF TablesAssumption
      <3> QED
        BY <3>1, <3>2 DEF ListInv, From
    <2> QED
      BY <2>1, <2>2
  <1>8. again' = {}
    <2>1. start => listed = {} /\ steady = {}
      BY DEF Query, ListInv
    <2>2. ~start => steady' = steady
      BY <1>3
    <2> QED
      BY <1>3, <1>5, <1>7, <2>1, <2>2 DEF ListInv
  <1>9. CASE From(q) = Fit(q) /\ listing' = [q EXCEPT !.stage = "ended", !.cursor = NoCursor]
    <2>1. listing'.stage = "ended"
      BY <1>2, <1>9
    <2>2. steady' \subseteq listed'
      BY <1>3, <1>7, <1>9
    <2> QED
      BY <1>4, <1>7, <1>8, <2>1, <2>2 DEF ListInv
  <1>10. ASSUME NEW m \in Fit(q),
                listing' = [q EXCEPT !.cursor = [value |-> SortValue(m, q.field), id |-> m]],
                \A r \in From(q) : r \in Fit(q) <=> ~Ahead(q, m, r)
         PROVE  ListInv'
    <2>1. /\ listing'.stage = "paging" /\ listing'.field = q.field /\ listing'.desc = q.desc
          /\ listing'.cursor = [value |-> SortValue(m, q.field), id |-> m]
      BY <1>1, <1>2, <1>10
    <2>2. /\ listing'.cursor.value = SortValue(m, q.field) /\ listing'.cursor.id = m
          /\ listing'.cursor \in [value: Value \union {Null}, id: Row]
      BY <1>5, <1>6, <2>1 DEF SortKey
    <2>3. ASSUME NEW r \in steady'
          PROVE  After(SortValue(r, q.field), r, SortValue(m, q.field), m, q.desc)
                    <=> Ahead(q, m, r)
      <3>1. r \in Live /\ m \in Live
        BY <1>5, <1>7
      <3> QED
        BY <1>1, <1>6, <3>1, AfterIs DEF Ahead
    <2>4. ASSUME NEW r \in steady' PROVE r \in listed' <=> ~Ahead(q, m, r)
      <3>1. CASE r \in From(q)
        BY <1>3, <1>7, <1>10, <3>1
      <3>2. CASE r \notin From(q)
        <4>1. r \in Live /\ m \in Live /\ m \in From(q)
          BY <1>5, <1>7
        <4>2. /\ q.cursor # NoCursor /\ q = listing /\ listing.stage = "paging"
              /\ q.cursor \in [value: Value \union {Null}, id: Row]
          BY <3>2, <4>1 DEF From, Query, ListInv
        <4>3. /\ ~After(SortValue(r, q.field), r, q.cursor.value, q.cursor.id, q.desc)
              /\ After(SortValue(m, q.field), m, q.cursor.value, q.cursor.id, q.desc)
          BY <3>2, <4>1, <4>2 DEF From
        <4>4. q.cursor.value \in SortKey /\ q.cursor.id \in Row
          BY <4>2 DEF SortKey
        <4>5. /\ ~Prior(q.cursor.value, q.cursor.id, SortValue(r, q.field), r, q.desc)
              /\ Prior(q.cursor.value, q.cursor.id, SortValue(m, q.field), m, q.desc)
          BY <1>1, <1>6, <4>1, <4>3, <4>4, AfterIs
        <4>6. ~Ahead(q, m, r)
          BY <1>1, <1>6, <4>1, <4>4, <4>5, PriorOrder DEF Ahead
        <4> QED
          BY <1>3, <1>7, <3>2, <4>6
      <3> QED
        BY <3>1, <3>2
    <2>5. \A r \in steady' : r \in listed' <=>
             ~After(SortValue(r, listing.field)', r, listing'.cursor.value,
                    listing'.cursor.id, listing'.desc)
      BY <1>4, <2>1, <2>2, <2>3, <2>4
    <2> QED
      BY <1>1, <1>4, <1>7, <1>8, <2>1, <2>2, <2>5 DEF ListInv
  <1> QED
    BY <1>3, <1>9, <1>10

LEMMA ListStep == Types /\ ListInv /\ [Next]_vars => ListInv'
  <1> SUFFICES ASSUME Types, ListInv, [Next]_vars PROVE ListInv'
    OBVIOUS
  <1>1. ASSUME row' = row, UNCHANGED client PROVE ListInv'
    <2>1. Live' = Live /\ \A r, n : SortValue(r, n)' = SortValue(r, n)
      BY <1>1 DEF Live, SortValue
    <2> QED
      BY <1>1, <2>1 DEF ListInv, client
  <1>2. CASE UNCHANGED vars
    BY <1>1, <1>2 DEF vars, client
  <1>3. ASSUME NEW w \in Worker, Start(w) \/ Work(w) \/ Abort(w) PROVE ListInv'
    BY <1>1, <1>3, Frame DEF client
  \* The rows that stay are where they were.
  <1>4. ASSUME NEW w \in Worker, Commit(w) PROVE ListInv'
    <2>1. /\ steady' = {r \in steady : row'[r] = row[r]}
          /\ again' = again \intersect steady' /\ UNCHANGED <<listing, listed>>
      BY <1>4 DEF Commit
    <2>2. steady' \subseteq Live'
      BY <2>1 DEF ListInv, Live
    <2>3. \A r \in steady' : \A n : SortValue(r, n)' = SortValue(r, n)
      BY <2>1 DEF SortValue
    <2>4. steady' \subseteq steady /\ again' = {}
      BY <2>1 DEF ListInv
    <2> QED
      BY <2>1, <2>2, <2>3, <2>4 DEF ListInv
  <1>5. CASE Lists
    <2>1. CASE EndListing
      BY <2>1 DEF EndListing, NoListing, ListInv
    <2> QED
      BY <1>5, <2>1, ListsIs, PageLists
  <1> QED
    BY <1>2, <1>3, <1>4, <1>5 DEF Next, Lists

-----------------------------------------------------------------------------
(* The promises.                                                           *)

\* All variables keep their types.
THEOREM TypeCorrect == Spec => []TypeOK
  <1>1. Types => TypeOK
    BY DEF Types
  <1> QED
    BY <1>1, TypesInit, TypesStep, PTL DEF Spec

\* Requests write rows and columns nobody else has flushed, and only what they
\* found, and the deletion of a table leaves no row behind.
THEOREM RowsLocked == Spec => []RowInv
  <1>1. Init => RowInv
    BY TypesInit, LocksInit DEF RowInv
  <1> QED
    BY <1>1, RowStep, PTL DEF Spec

\* Stored data matches the declared columns, unless a rename or drop overlapped
\* another one or a row write that had read the columns before (tables.py).
THEOREM RowsAlwaysMatch == Spec => []RowsMatchColumns
  <1>1. Spec => [](RowInv /\ MatchInv)
    <2>1. Init => RowInv /\ MatchInv
      BY TypesInit, LocksInit, MatchInit DEF RowInv
    <2> QED
      BY <2>1, RowStep, MatchStep, PTL DEF Spec
  <1> QED
    BY <1>1, MatchImplies, PTL

\* However many insertions and updates grow rows at once, the bytes in use stay
\* within the limit (_reserve_storage), but for the two overlaps it names.
THEOREM LimitHolds == Spec => []WithinLimit
  <1>1. LimitInv => WithinLimit
    BY DEF LimitInv, Limited, WithinLimit
  <1>2. Init => RowInv /\ LimitInv
    BY TypesInit, LocksInit, LimitInit DEF RowInv
  <1> QED
    BY <1>1, <1>2, RowStep, LimitStep, PTL DEF Spec

\* Whatever is written meanwhile, a listing gives a row nobody touches exactly
\* once, on pages of any size, by any column and in both directions (query_rows).
THEOREM ListedExactlyOnce == Spec => []ListedOnce
  <1>1. ListInv => ListedOnce
    BY DEF ListInv, ListedOnce
  <1>2. Init => Types /\ ListInv
    BY TypesInit, ListInit
  <1> QED
    BY <1>1, <1>2, TypesStep, ListStep, PTL DEF Spec

=============================================================================
