\* Uploads and deletions of objects beside every operation on buckets.
\* Once both buckets are deleted nothing is left to ask for.
CONSTANTS
    s1 = s1
    s2 = s2
    s3 = s3
    b1 = b1
    b2 = b2
    u1 = u1
    u2 = u2
    w1 = w1
    w2 = w2
    Slot = {s1, s2, s3}
    Bucket = {b1, b2}
    User = {u1, u2}
    Worker = {w1, w2}
    BucketOf <- Buckets
    UserOf <- Users
    Size <- Sizes
    AppLimit = 2
    Limits <- LimitsOf
    MaxParted = 1
    Ops <- Roles
    NoLimit = NoLimit
    NoRow = NoRow
    NoBlob = NoBlob
    NoWorker = NoWorker
    NoSlot = NoSlot
    NoBucket = NoBucket
    Unused = Unused
    Gone = Gone
SPECIFICATION Spec
INVARIANTS StoreMatchesRows
PROPERTIES QuotaKept
CHECK_DEADLOCK FALSE
