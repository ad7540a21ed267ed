\* Row writes, schema changes and a listing overlap.  The table may be deleted,
\* after which nothing happens to it.
CONSTANTS
    a = a
    b = b
    c1 = c1
    Column = {c1, c2}
    Name = {a, b}
    Row = {1, 2}
    Value = {1, 2}
    Worker = {w1, w2}
    First <- FirstColumn
    Stored <- StoredSizes
    Estimate <- Estimates
    Margin = 2
    StorageLimit = 5
    MaxRows = 2
    Page = 1
    Payload <- Payloads
    Ops = {"insert", "update", "delete", "add", "rename", "drop", "deltable", "list"}
    Null = Null
    Unused = Unused
    Gone = Gone
    NoName = NoName
    NoRow = NoRow
    NoColumn = NoColumn
    NoCursor = NoCursor
CHECK_DEADLOCK FALSE
SPECIFICATION Spec
SYMMETRY Workers
CONSTRAINT Bounds
INVARIANTS RowsMatchColumns WithinLimit ListedOnce
