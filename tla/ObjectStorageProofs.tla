------------------------ MODULE ObjectStorageProofs ------------------------
(***************************************************************************)
(* What object storage promises under concurrent requests, for any number  *)
(* of requests, buckets, users and objects: what is listed is what can be  *)
(* downloaded, and an upload that was admitted leaves its limits kept.     *)
(* The accidents and overlaps these need excused are in the properties.    *)
(***************************************************************************)
EXTENDS ObjectStorage, FiniteSetTheorems, TLAPS

Op(w) == req[w].op

\* The stages of each operation.
Stages(op) ==
    CASE op = "none" -> {"idle"}
      [] op = "update" -> {"flush", "commit"}
      [] op = "deletebucket" -> {"count", "sweep", "rows", "drop", "commit"}
      [] op = "put" -> {"lock", "replaced", "app", "bucket", "user", "upsert", "s3", "commit"}
      [] op = "delete" -> {"load", "flush", "s3", "commit"}
      [] OTHER -> {}

Levels == {"app", "bucket", "user"}

Request == [op: AllOps \union {"none"}, bucket: Bucket \union {NoBucket},
            slot: Slot \union {NoSlot}, size: Nat, delta: Int,
            limits: (UNION {Limits[b] : b \in Bucket}) \union {Unused},
            found: BOOLEAN, missed: SUBSET Levels, late: BOOLEAN]

Shape(w) ==
    /\ pc[w] \in Stages(Op(w))
    /\ Op(w) \in {"put", "delete"} => req[w].slot \in Slot
    /\ Op(w) = "put" => req[w].size \in Size[req[w].slot]
    /\ Op(w) \in {"update", "deletebucket"} => req[w].bucket \in Bucket
    /\ Op(w) = "update" => req[w].limits \in Limits[req[w].bucket]

\* Types of all variables, and what a request of each kind knows.
Types ==
    /\ bucket = [b \in Bucket |-> bucket[b]]
    /\ \A b \in Bucket : bucket[b] \in Limits[b] \union {Unused, Gone}
    /\ row = [s \in Slot |-> row[s]]
    /\ \A s \in Slot : row[s] \in Size[s] \union {NoRow}
    /\ blob = [s \in Slot |-> blob[s]]
    /\ \A s \in Slot : blob[s] \in Size[s] \union {NoBlob}
    /\ pc \in [Worker -> UNION {Stages(op) : op \in AllOps \union {"none"}}]
    /\ req \in [Worker -> Request]
    /\ bucketLock \in [Bucket -> Worker \union {NoWorker}]
    /\ rowLock \in [Slot -> Worker \union {NoWorker}]
    /\ parted \subseteq Slot
    /\ \A w \in Worker : Shape(w)

\* The bucket whose row a request has locked, and the objects whose rows.
HoldsBucket(w, b) ==
    \/ Op(w) = "put" /\ pc[w] # "lock" /\ BucketOf[req[w].slot] = b
    \/ Op(w) \in {"update", "deletebucket"} /\ pc[w] = "commit" /\ req[w].bucket = b
HoldsRow(w, s) ==
    /\ Op(w) \in {"put", "delete"} /\ pc[w] \in {"s3", "commit"} /\ req[w].slot = s
    /\ Op(w) = "delete" => req[w].found
Deletes(w, s) ==
    Op(w) = "deletebucket" /\ pc[w] \in {"drop", "commit"} /\ req[w].bucket = BucketOf[s]

Locks ==
    /\ \A w \in Worker, b \in Bucket : HoldsBucket(w, b) =>
          bucketLock[b] = w /\ (Op(w) # "deletebucket" => b \in Live)
    /\ \A w \in Worker, s \in Slot : HoldsRow(w, s) => rowLock[s] = w
    /\ \A w \in Worker, s \in Slot : rowLock[s] = w => HoldsRow(w, s) \/ Deletes(w, s)
    /\ \A w \in Worker, s \in Slot :
          Deletes(w, s) /\ pc[w] = "commit" /\ row[s] # NoRow => rowLock[s] = w
    /\ \A w \in Worker : Op(w) = "delete" /\ req[w].found => row[req[w].slot] # NoRow
    /\ \A s \in Slot : row[s] # NoRow => BucketOf[s] \in Live

LockInv == Types /\ Locks

\* The payload there has to be for a slot: what a request has just stored or
\* removed and not committed, else what the row says.
Due(s) ==
    LET w == rowLock[s] IN
    IF w # NoWorker /\ pc[w] = "commit"
      THEN IF Op(w) = "put" THEN req[w].size ELSE NoBlob
      ELSE IF row[s] = NoRow THEN NoBlob ELSE row[s]

\* Nothing may be there any more once a deletion has swept the bucket.
StoreInv ==
    \A s \in Slot \ parted : blob[s] = IF Swept(BucketOf[s]) THEN NoBlob ELSE Due(s)

\* What a sum was made of and compared with still holds, unless the row replaced
\* had gone before or an upload elsewhere was admitted after.
Beside(w, level) == Usage(Counted(level, req[w].slot) \ {req[w].slot})
Summed(w, level) ==
    \/ level \in req[w].missed
    \/ level = "app" /\ req[w].late
    \/ Within(Beside(w, level) + req[w].size, LimitOf(level, BucketOf[req[w].slot]))
Quota(w) ==
    /\ \A level \in ToSum(pc[w]) :
          level \in req[w].missed \/ req[w].delta = req[w].size - Usage({req[w].slot})
    /\ pc[w] \notin {"lock", "replaced"} =>
          \A level \in Levels \ ToSum(pc[w]) : Summed(w, level)
QuotaInv == \A w \in Worker : Op(w) = "put" => Quota(w)
-----------------------------------------------------------------------------
(* Sums.                                                                   *)

\* The bytes of some objects of given sizes.
Sizes == [Slot -> Nat \union {NoRow}]
Bytes(f, S) == UNION {{s} \X (1..f[s]) : s \in {t \in S : f[t] # NoRow}}
Sum(f, S) == Cardinality(Bytes(f, S))
Weight(f, s) == IF f[s] = NoRow THEN 0 ELSE f[s]

LEMMA SumOne ==
  ASSUME NEW f \in Sizes, NEW s \in Slot
  PROVE  IsFiniteSet(Bytes(f, {s})) /\ Sum(f, {s}) = Weight(f, s)
  <1>1. CASE f[s] = NoRow
    <2>1. Bytes(f, {s}) = {}
      BY <1>1 DEF Bytes
    <2> QED
      BY <1>1, <2>1, FS_EmptySet DEF Sum, Weight
  <1>2. CASE f[s] # NoRow
    <2>1. f[s] \in Nat
      BY <1>2 DEF Sizes
    <2>2. Bytes(f, {s}) = {s} \X (1..f[s])
      BY <1>2 DEF Bytes
    <2>3. IsFiniteSet(1..f[s]) /\ Cardinality(1..f[s]) = f[s]
      BY <2>1, FS_Interval
    <2>4. IsFiniteSet({s}) /\ Cardinality({s}) = 1
      BY FS_Singleton
    <2>5. /\ IsFiniteSet({s} \X (1..f[s]))
          /\ Cardinality({s} \X (1..f[s])) = Cardinality({s}) * Cardinality(1..f[s])
      BY <2>3, <2>4, FS_Product
    <2>6. 1 * f[s] = f[s]
      BY <2>1
    <2>7. Cardinality({s} \X (1..f[s])) = f[s]
      BY <2>3, <2>4, <2>5, <2>6
    <2> QED
      BY <1>2, <2>2, <2>5, <2>7 DEF Sum, Weight
  <1> QED
    BY <1>1, <1>2

LEMMA SumTyped ==
  ASSUME NEW f \in Sizes, NEW S \in SUBSET Slot
  PROVE  IsFiniteSet(Bytes(f, S)) /\ Sum(f, S) \in Nat
  <1> DEFINE part == [s \in S |-> Bytes(f, {s})]
             T == {Bytes(f, {s}) : s \in S}
  <1>1. IsFiniteSet(S)
    BY FS_Subset, ObjectStorageAssumption DEF ObjectStorageAssumption
  <1>2. part \in Surjection(S, T)
    BY DEF Surjection
  <1>3. IsFiniteSet(T)
    BY <1>1, <1>2, FS_Surjection
  <1>4. \A t \in T : IsFiniteSet(t)
    BY SumOne
  <1>5. IsFiniteSet(UNION T)
    BY <1>3, <1>4, FS_UNION
  <1>6. Bytes(f, S) = UNION T
    BY DEF Bytes
  <1> QED
    BY <1>5, <1>6, FS_CardinalityType DEF Sum

\* One object counts beside the others.
LEMMA SumSplit ==
  ASSUME NEW f \in Sizes, NEW S \in SUBSET Slot, NEW s \in S
  PROVE  Sum(f, S) = Sum(f, S \ {s}) + Sum(f, {s})
  <1>1. Bytes(f, S) = Bytes(f, S \ {s}) \union Bytes(f, {s})
    BY DEF Bytes
  <1>2. Bytes(f, S \ {s}) \intersect Bytes(f, {s}) = {}
    <2> SUFFICES ASSUME NEW p \in Bytes(f, S \ {s}), p \in Bytes(f, {s}) PROVE FALSE
      OBVIOUS
    <2>1. PICK t \in S \ {s} : p \in {t} \X (1..f[t])
      BY DEF Bytes
    <2>2. p \in {s} \X (1..f[s])
      BY DEF Bytes
    <2> QED
      BY <2>1, <2>2
  <1>3. IsFiniteSet(Bytes(f, S \ {s})) /\ IsFiniteSet(Bytes(f, {s}))
    BY SumTyped
  <1>4. /\ Cardinality(Bytes(f, S \ {s})) \in Nat
        /\ Cardinality(Bytes(f, {s})) \in Nat
        /\ Cardinality(Bytes(f, S \ {s}) \intersect Bytes(f, {s})) = 0
    BY <1>2, <1>3, FS_CardinalityType, FS_EmptySet
  <1>5. Cardinality(Bytes(f, S \ {s}) \union Bytes(f, {s})) =
           Cardinality(Bytes(f, S \ {s})) + Cardinality(Bytes(f, {s}))
              - Cardinality(Bytes(f, S \ {s}) \intersect Bytes(f, {s}))
    BY <1>3, FS_Union
  <1> QED
    BY <1>1, <1>4, <1>5 DEF Sum

LEMMA SumLess ==
  ASSUME NEW f \in Sizes, NEW g \in Sizes, NEW S \in SUBSET Slot,
         \A s \in S : Weight(f, s) <= Weight(g, s)
  PROVE  Sum(f, S) <= Sum(g, S)
  <1>1. ASSUME NEW p \in Bytes(f, S) PROVE p \in Bytes(g, S)
    <2>1. PICK s \in S : f[s] # NoRow /\ p \in {s} \X (1..f[s])
      BY DEF Bytes
    <2>2. f[s] \in Nat /\ 1 <= f[s] /\ g[s] \in Nat \union {NoRow}
      BY <2>1 DEF Sizes
    <2>3. g[s] # NoRow /\ g[s] \in Nat /\ f[s] <= g[s]
      BY <2>1, <2>2 DEF Weight
    <2>4. p \in {s} \X (1..g[s])
      BY <2>1, <2>2, <2>3
    <2> QED
      BY <2>3, <2>4 DEF Bytes
  <1> QED
    BY <1>1, SumTyped, FS_Subset DEF Sum

LEMMA UsageIs == \A S : Usage(S) = Sum(row, S)
  BY DEF Usage, Sum, Bytes

LEMMA RowSizes == Types => row \in Sizes
  BY ObjectStorageAssumption DEF ObjectStorageAssumption, Types, Sizes

-----------------------------------------------------------------------------
(* Types.                                                                  *)

AllStages == UNION {Stages(op) : op \in AllOps \union {"none"}}

LEMMA StagesAre == \A op \in AllOps \union {"none"} : Stages(op) \subseteq AllStages
  BY DEF AllStages

LEMMA NoRequestTyped ==
  /\ NoRequest \in Request /\ NoRequest.op = "none" /\ "idle" \in Stages("none")
  /\ NoRequest.slot = NoSlot /\ NoRequest.bucket = NoBucket /\ NoRequest.found = FALSE
  <1>1. NoRequest \in Request
    BY DEF NoRequest, Request
  <1> QED
    BY <1>1 DEF NoRequest, Stages

LEMMA TypesInit == Init => Types
  <1> SUFFICES ASSUME Init PROVE Types
    OBVIOUS
  <1>1. \A w \in Worker : req[w] = NoRequest /\ pc[w] = "idle"
    BY DEF Init
  <1>2. \A w \in Worker : Shape(w)
    BY <1>1, NoRequestTyped DEF Shape, Op
  <1>3. pc \in [Worker -> AllStages] /\ req \in [Worker -> Request]
    BY <1>1, NoRequestTyped, StagesAre DEF Init
  <1> QED
    BY <1>2, <1>3 DEF Init, Types, AllStages

\* What the end of a request makes of it, and of the others.
Ended(w, deleted, grown) ==
    /\ pc' \in [Worker -> AllStages] /\ req' \in [Worker -> Request]
    /\ pc'[w] = "idle" /\ req'[w] = NoRequest
    /\ \A v \in Worker \ {w} :
          /\ pc'[v] = pc[v]
          /\ req'[v].op = req[v].op /\ req'[v].bucket = req[v].bucket
          /\ req'[v].slot = req[v].slot /\ req'[v].size = req[v].size
          /\ req'[v].delta = req[v].delta /\ req'[v].limits = req[v].limits
          /\ req'[v].found = (req[v].found /\ req[v].slot \notin deleted)
          /\ req'[v].missed = req[v].missed \union
                (IF req[v].slot \in deleted THEN ToSum(pc[v]) ELSE {})
          /\ req'[v].late = (req[v].late \/ (grown /\ req[v].op = "put"
                                /\ pc[v] \notin {"lock", "replaced", "app"}))
    /\ bucketLock' = [b \in Bucket |-> IF bucketLock[b] = w THEN NoWorker ELSE bucketLock[b]]
    /\ rowLock' = [s \in Slot |-> IF rowLock[s] = w THEN NoWorker ELSE rowLock[s]]

LEMMA EndIs ==
  ASSUME Types, NEW w \in Worker, NEW deleted \in SUBSET Slot, NEW grown \in BOOLEAN,
         End(w, deleted, grown)
  PROVE  Ended(w, deleted, grown)
  <1>1. pc' \in [Worker -> AllStages] /\ pc'[w] = "idle" /\ \A v \in Worker \ {w} : pc'[v] = pc[v]
    BY NoRequestTyped, StagesAre DEF End, Go, Types, AllStages
  <1>2. \A stage : ToSum(stage) \subseteq Levels
    BY DEF ToSum, Levels
  <1> DEFINE told(v) == [req[v] EXCEPT
                   !.found = @ /\ req[v].slot \notin deleted,
                   !.missed = @ \union
                       (IF req[v].slot \in deleted THEN ToSum(pc[v]) ELSE {}),
                   !.late = @ \/ (grown /\ req[v].op = "put"
                                  /\ pc[v] \notin {"lock", "replaced", "app"})]
  <1>3. req' = [v \in Worker |-> IF v = w THEN NoRequest ELSE told(v)]
    BY DEF End
  <1>4. ASSUME NEW v \in Worker
        PROVE  /\ told(v) \in Request
               /\ told(v).op = req[v].op /\ told(v).bucket = req[v].bucket
               /\ told(v).slot = req[v].slot /\ told(v).size = req[v].size
               /\ told(v).delta = req[v].delta /\ told(v).limits = req[v].limits
               /\ told(v).found = (req[v].found /\ req[v].slot \notin deleted)
               /\ told(v).missed = req[v].missed \union
                     (IF req[v].slot \in deleted THEN ToSum(pc[v]) ELSE {})
               /\ told(v).late = (req[v].late \/ (grown /\ req[v].op = "put"
                                     /\ pc[v] \notin {"lock", "replaced", "app"}))
    <2>1. req[v] \in Request
      BY DEF Types
    <2> QED
      BY <1>2, <2>1 DEF Request
  <1> HIDE DEF told
  <1>5. req' \in [Worker -> Request]
    BY <1>3, <1>4, NoRequestTyped
  <1>6. req'[w] = NoRequest /\ \A v \in Worker \ {w} : req'[v] = told(v)
    BY <1>3
  <1>7. \A v \in Worker \ {w} :
          /\ req'[v].op = req[v].op /\ req'[v].bucket = req[v].bucket
          /\ req'[v].slot = req[v].slot /\ req'[v].size = req[v].size
          /\ req'[v].delta = req[v].delta /\ req'[v].limits = req[v].limits
          /\ req'[v].found = (req[v].found /\ req[v].slot \notin deleted)
          /\ req'[v].missed = req[v].missed \union
                (IF req[v].slot \in deleted THEN ToSum(pc[v]) ELSE {})
          /\ req'[v].late = (req[v].late \/ (grown /\ req[v].op = "put"
                                /\ pc[v] \notin {"lock", "replaced", "app"}))
    BY <1>4, <1>6
  <1> QED
    BY <1>1, <1>5, <1>6, <1>7 DEF End, Ended

\* The part of the types that is about requests.
Asked ==
    /\ pc \in [Worker -> AllStages] /\ req \in [Worker -> Request]
    /\ bucketLock \in [Bucket -> Worker \union {NoWorker}]
    /\ rowLock \in [Slot -> Worker \union {NoWorker}]
    /\ \A w \in Worker : Shape(w)

LEMMA EndTyped ==
  ASSUME Types, NEW w \in Worker, NEW deleted \in SUBSET Slot, NEW grown \in BOOLEAN,
         End(w, deleted, grown)
  PROVE  Asked'
  <1>1. Ended(w, deleted, grown)
    BY EndIs
  <1>2. ASSUME NEW v \in Worker PROVE Shape(v)'
    <2>1. CASE v = w
      BY <1>1, <2>1, NoRequestTyped DEF Ended, Shape, Op
    <2>2. CASE v # w
      BY <1>1, <2>2 DEF Ended, Types, Shape, Op
    <2> QED
      BY <2>1, <2>2
  <1> QED
    BY <1>1, <1>2 DEF Ended, Asked, Types

LEMMA StepTyped ==
  ASSUME Types, NEW w \in Worker, NEW r \in Request, NEW stage \in Stages(r.op),
         req' = [req EXCEPT ![w] = r], Go(w, stage),
         r.op \in {"put", "delete"} => r.slot \in Slot,
         r.op = "put" => r.size \in Size[r.slot],
         r.op \in {"update", "deletebucket"} => r.bucket \in Bucket,
         r.op = "update" => r.limits \in Limits[r.bucket],
         bucketLock' \in [Bucket -> Worker \union {NoWorker}],
         rowLock' \in [Slot -> Worker \union {NoWorker}]
  PROVE  Asked'
  <1>1. r.op \in AllOps \union {"none"}
    BY DEF Request
  <1>2. stage \in AllStages
    BY <1>1, StagesAre
  <1>3. /\ req' \in [Worker -> Request] /\ pc' \in [Worker -> AllStages]
        /\ req'[w] = r /\ pc'[w] = stage
        /\ \A v \in Worker \ {w} : req'[v] = req[v] /\ pc'[v] = pc[v]
    BY <1>2 DEF Types, Go, AllStages
  <1>4. \A v \in Worker : Shape(v)'
    BY <1>3 DEF Types, Shape, Op
  <1> QED
    BY <1>3, <1>4 DEF Asked
\* The request changes its stage only.
LEMMA GoTyped ==
  ASSUME Types, NEW w \in Worker, NEW stage \in Stages(Op(w)), Go(w, stage), req' = req,
         bucketLock' \in [Bucket -> Worker \union {NoWorker}],
         rowLock' \in [Slot -> Worker \union {NoWorker}]
  PROVE  Asked'
  <1>1. req[w] \in Request /\ req' = [req EXCEPT ![w] = req[w]] /\ stage \in Stages(req[w].op)
    BY DEF Types, Op
  <1>2. Shape(w)
    BY DEF Types
  <1> QED
    BY <1>1, <1>2, StepTyped DEF Shape, Op

\* A request that arrives.
Arrives(r, stage) ==
    /\ r \in Request /\ r.found = FALSE /\ r.missed = {}
    /\ <<r.op, stage>> \in {<<"update", "flush">>, <<"deletebucket", "count">>,
                            <<"put", "lock">>, <<"delete", "load">>}
    /\ r.op \in {"put", "delete"} => r.slot \in Slot
    /\ r.op = "put" => r.size \in Size[r.slot]
    /\ r.op \in {"update", "deletebucket"} => r.bucket \in Bucket
    /\ r.op = "update" => r.limits \in Limits[r.bucket]

Begins(w) == BeginUpdate(w) \/ BeginDeleteBucket(w) \/ BeginPut(w) \/ BeginDelete(w)

LEMMA BeginIs ==
  ASSUME Types, NEW w \in Worker, Begins(w)
  PROVE  \E r, stage : Arrives(r, stage) /\ Begin(w, r, stage)
  <1> DEFINE Goal == \E r, stage : Arrives(r, stage) /\ Begin(w, r, stage)
  <1>1. ASSUME NEW r, NEW stage, Arrives(r, stage), Begin(w, r, stage) PROVE Goal
    BY <1>1
  <1>2. /\ NoRequest \in Request /\ NoRequest.found = FALSE /\ NoRequest.missed = {}
        /\ NoRequest.op = "none"
    BY NoRequestTyped DEF NoRequest
  <1> HIDE DEF Goal
  <1>3. CASE BeginUpdate(w)
    <2>0. PICK b \in Live : \E l \in Limits[b] \ {bucket[b]} :
             Begin(w, [NoRequest EXCEPT !.op = "update", !.bucket = b, !.limits = l], "flush")
      BY <1>3 DEF BeginUpdate
    <2>1. PICK l \in Limits[b] \ {bucket[b]} :
             Begin(w, [NoRequest EXCEPT !.op = "update", !.bucket = b, !.limits = l], "flush")
      BY <2>0
    <2> DEFINE r == [NoRequest EXCEPT !.op = "update", !.bucket = b, !.limits = l]
    <2>2. b \in Bucket /\ l \in UNION {Limits[c] : c \in Bucket}
      BY DEF Live
    <2>3. r \in Request
      BY <1>2, <2>2 DEF Request, AllOps
    <2>4. /\ r.op = "update" /\ r.bucket = b /\ r.limits = l
          /\ r.found = FALSE /\ r.missed = {}
      BY DEF NoRequest
    <2> HIDE DEF r
    <2>5. Arrives(r, "flush")
      BY <2>2, <2>3, <2>4 DEF Arrives
    <2> QED
      BY <1>1, <2>1, <2>5 DEF r
  <1>4. CASE BeginDeleteBucket(w)
    <2>1. PICK b \in Live :
             Begin(w, [NoRequest EXCEPT !.op = "deletebucket", !.bucket = b], "count")
      BY <1>4 DEF BeginDeleteBucket
    <2> DEFINE r == [NoRequest EXCEPT !.op = "deletebucket", !.bucket = b]
    <2>2. b \in Bucket
      BY DEF Live
    <2>3. r \in Request
      BY <1>2, <2>2 DEF Request, AllOps
    <2>4. r.op = "deletebucket" /\ r.bucket = b /\ r.found = FALSE /\ r.missed = {}
      BY DEF NoRequest
    <2> HIDE DEF r
    <2>5. Arrives(r, "count")
      BY <2>2, <2>3, <2>4 DEF Arrives
    <2> QED
      BY <1>1, <2>1, <2>5 DEF r
  <1>5. CASE BeginPut(w)
    <2>0. PICK s \in Slot : \E n \in Size[s] :
             Begin(w, [NoRequest EXCEPT !.op = "put", !.slot = s, !.size = n], "lock")
      BY <1>5 DEF BeginPut
    <2>1. PICK n \in Size[s] :
             Begin(w, [NoRequest EXCEPT !.op = "put", !.slot = s, !.size = n], "lock")
      BY <2>0
    <2> DEFINE r == [NoRequest EXCEPT !.op = "put", !.slot = s, !.size = n]
    <2>2. n \in Nat
      BY ObjectStorageAssumption DEF ObjectStorageAssumption
    <2>3. r \in Request
      BY <1>2, <2>2 DEF Request, AllOps
    <2>4. r.op = "put" /\ r.slot = s /\ r.size = n /\ r.found = FALSE /\ r.missed = {}
      BY DEF NoRequest
    <2> HIDE DEF r
    <2>5. Arrives(r, "lock")
      BY <2>3, <2>4 DEF Arrives
    <2> QED
      BY <1>1, <2>1, <2>5 DEF r
  <1>6. CASE BeginDelete(w)
    <2>1. PICK s \in Slot : Begin(w, [NoRequest EXCEPT !.op = "delete", !.slot = s], "load")
      BY <1>6 DEF BeginDelete
    <2> DEFINE r == [NoRequest EXCEPT !.op = "delete", !.slot = s]
    <2>3. r \in Request
      BY <1>2 DEF Request, AllOps
    <2>4. r.op = "delete" /\ r.slot = s /\ r.found = FALSE /\ r.missed = {}
      BY DEF NoRequest
    <2> HIDE DEF r
    <2>5. Arrives(r, "load")
      BY <2>3, <2>4 DEF Arrives
    <2> QED
      BY <1>1, <2>1, <2>5 DEF r
  <1> QED
    BY <1>3, <1>4, <1>5, <1>6 DEF Begins, Goal

\* The types of what is stored.
Stored ==
    /\ bucket = [b \in Bucket |-> bucket[b]]
    /\ \A b \in Bucket : bucket[b] \in Limits[b] \union {Unused, Gone}
    /\ row = [s \in Slot |-> row[s]]
    /\ \A s \in Slot : row[s] \in Size[s] \union {NoRow}
    /\ blob = [s \in Slot |-> blob[s]]
    /\ \A s \in Slot : blob[s] \in Size[s] \union {NoBlob}
    /\ parted \subseteq Slot

LEMMA TypesAre == Types <=> Stored /\ Asked
  BY DEF Types, Stored, Asked, AllStages

LEMMA TypesArePrimed == Types' <=> Stored' /\ Asked'
  BY DEF Types, Stored, Asked, AllStages

LEMMA StoredKept ==
  ASSUME Types, UNCHANGED <<bucket, row>>, blob' = [s \in Slot |-> blob'[s]],
         \A s \in Slot : blob'[s] \in Size[s] \union {NoBlob}, parted' \subseteq Slot
  PROVE  Stored'
  BY DEF Types, Stored

LEMMA PartTyped ==
  ASSUME Types, NEW S \in SUBSET Slot, Part(S)
  PROVE  parted' \subseteq Slot
  BY DEF Types, Part

LEMMA TouchedIs == ASSUME Types, NEW w \in Worker PROVE Touched(w) \in SUBSET Slot
  BY DEF Types, Shape, Op, Touched, SlotsOf

\* Requests that do not touch what is stored.
LEMMA QuietTyped ==
  ASSUME Types, NEW w \in Worker,
         \/ Begins(w) \/ FlushUpdate(w) \/ FlushRows(w) \/ FlushDrop(w) \/ LockBucket(w)
         \/ ReadReplaced(w) \/ CheckLimit(w) \/ Upsert(w) \/ Load(w) \/ FlushDelete(w)
  PROVE  Types'
  <1>1. UNCHANGED <<bucket, row, blob, parted>>
    <2>1. CASE Begins(w)
      BY <2>1, BeginIs DEF Begin, database
    <2> QED
      BY <2>1 DEF FlushUpdate, FlushRows, FlushDrop, LockBucket, ReadReplaced, CheckLimit,
                  Upsert, Load, FlushDelete, database
  <1>2. Stored'
    BY <1>1 DEF Types, Stored
  <1>3. ASSUME Asked' PROVE Types'
    BY <1>2, <1>3, TypesArePrimed
  <1>4. /\ req[w] \in Request /\ Shape(w)
        /\ bucketLock \in [Bucket -> Worker \union {NoWorker}]
        /\ rowLock \in [Slot -> Worker \union {NoWorker}]
    BY DEF Types
  <1>5. CASE Begins(w)
    <2>1. PICK r, stage : Arrives(r, stage) /\ Begin(w, r, stage)
      BY <1>5, BeginIs
    <2>2. stage \in Stages(r.op)
      BY <2>1 DEF Arrives, Stages
    <2> QED
      BY <1>3, <1>4, <2>1, <2>2, StepTyped DEF Arrives, Begin, locks
  <1>6. CASE FlushUpdate(w)
    <2>1. "commit" \in Stages(Op(w)) /\ Go(w, "commit") /\ UNCHANGED <<req, rowLock>>
      BY <1>6 DEF FlushUpdate, At, Op, Stages
    <2>2. bucketLock' \in [Bucket -> Worker \union {NoWorker}]
      BY <1>4, <1>6 DEF FlushUpdate
    <2> QED
      BY <1>3, <1>4, <2>1, <2>2, GoTyped
  <1>7. CASE FlushRows(w)
    <2>1. "drop" \in Stages(Op(w)) /\ Go(w, "drop") /\ UNCHANGED <<req, bucketLock>>
      BY <1>7 DEF FlushRows, At, Op, Stages
    <2>2. rowLock' \in [Slot -> Worker \union {NoWorker}]
      BY <1>4, <1>7 DEF FlushRows
    <2> QED
      BY <1>3, <1>4, <2>1, <2>2, GoTyped
  <1>8. CASE FlushDrop(w)
    <2>1. "commit" \in Stages(Op(w)) /\ Go(w, "commit") /\ req' = req
      BY <1>8 DEF FlushDrop, At, Op, Stages
    <2>2. /\ rowLock' \in [Slot -> Worker \union {NoWorker}]
          /\ bucketLock' \in [Bucket -> Worker \union {NoWorker}]
      BY <1>4, <1>8 DEF FlushDrop
    <2> QED
      BY <1>3, <2>1, <2>2, GoTyped
  <1>9. CASE LockBucket(w)
    <2>1. "replaced" \in Stages(Op(w)) /\ Go(w, "replaced") /\ UNCHANGED <<req, rowLock>>
      BY <1>9 DEF LockBucket, At, Op, Stages
    <2>2. bucketLock' \in [Bucket -> Worker \union {NoWorker}]
      BY <1>4, <1>9 DEF LockBucket
    <2> QED
      BY <1>3, <1>4, <2>1, <2>2, GoTyped
  <1>10. CASE ReadReplaced(w)
    <2>1. req[w].op = "put" /\ req[w].slot \in Slot /\ req[w].size \in Nat
      BY <1>4, <1>10 DEF ReadReplaced, At, Shape, Op, Request
    <2>2. Usage({req[w].slot}) \in Nat
      BY <2>1, UsageIs, RowSizes, SumTyped
    <2> DEFINE d == req[w].size - Usage({req[w].slot})
               r == [req[w] EXCEPT !.delta = d]
    <2>3. d \in Int
      BY <2>1, <2>2
    <2>4. req' = [req EXCEPT ![w] = r] /\ Go(w, "app") /\ UNCHANGED locks
      BY <1>10 DEF ReadReplaced
    <2> HIDE DEF d
    <2>5. r \in Request /\ r.op = "put" /\ r.slot = req[w].slot /\ r.size = req[w].size
      BY <1>4, <2>1, <2>3 DEF Request
    <2>6. "app" \in Stages(r.op) /\ r.slot \in Slot /\ r.size \in Size[r.slot]
      BY <1>4, <2>1, <2>5 DEF Stages, Shape, Op
    <2> HIDE DEF r
    <2> QED
      BY <1>3, <1>4, <2>4, <2>5, <2>6, StepTyped DEF locks
  <1>11. CASE CheckLimit(w)
    <2>1. PICK stage \in {"bucket", "user", "upsert"} : Go(w, stage)
      BY <1>11 DEF CheckLimit
    <2>2. stage \in Stages(Op(w)) /\ UNCHANGED <<req, locks>>
      BY <1>11 DEF CheckLimit, Op, Stages
    <2> QED
      BY <1>3, <1>4, <2>1, <2>2, GoTyped DEF locks
  <1>12. CASE Upsert(w)
    <2>1. "s3" \in Stages(Op(w)) /\ Go(w, "s3") /\ UNCHANGED <<req, bucketLock>>
      BY <1>12 DEF Upsert, At, Op, Stages
    <2>2. rowLock' \in [Slot -> Worker \union {NoWorker}]
      BY <1>4, <1>12 DEF Upsert
    <2> QED
      BY <1>3, <1>4, <2>1, <2>2, GoTyped
  <1>13. CASE Load(w)
    <2> DEFINE r == [req[w] EXCEPT !.found = TRUE]
    <2>1. r \in Request /\ r.op = "delete" /\ r.slot = req[w].slot
      BY <1>4, <1>13 DEF Request, Load, At
    <2>2. req' = [req EXCEPT ![w] = r] /\ Go(w, "flush") /\ UNCHANGED locks
      BY <1>13 DEF Load
    <2>3. "flush" \in Stages(r.op) /\ r.slot \in Slot
      BY <1>4, <1>13, <2>1 DEF Stages, Shape, Op, Load, At
    <2> HIDE DEF r
    <2> QED
      BY <1>3, <1>4, <2>1, <2>2, <2>3, StepTyped DEF locks
  <1>14. CASE FlushDelete(w)
    <2>1. "s3" \in Stages(Op(w)) /\ Go(w, "s3") /\ UNCHANGED <<req, bucketLock>>
      BY <1>14 DEF FlushDelete, At, Op, Stages
    <2>2. rowLock' \in [Slot -> Worker \union {NoWorker}]
      BY <1>4, <1>14 DEF FlushDelete
    <2> QED
      BY <1>3, <1>4, <2>1, <2>2, GoTyped
  <1> QED
    BY <1>5, <1>6, <1>7, <1>8, <1>9, <1>10, <1>11, <1>12, <1>13, <1>14
LEMMA StoringTyped ==
  ASSUME Types, NEW w \in Worker,
         \/ CreateBucket(w) \/ Count(w) \/ Sweep(w) \/ Store(w) \/ Remove(w) \/ Abort(w)
         \/ CommitUpdate(w) \/ CommitDeleteBucket(w) \/ CommitPut(w) \/ CommitDelete(w)
  PROVE  Types'
  <1>1. Stored /\ Asked /\ Shape(w) /\ req[w] \in Request
    BY TypesAre DEF Types
  <1>2. /\ bucketLock \in [Bucket -> Worker \union {NoWorker}]
        /\ rowLock \in [Slot -> Worker \union {NoWorker}]
    BY DEF Types
  <1>3. ASSUME NEW deleted \in SUBSET Slot, NEW grown \in BOOLEAN, End(w, deleted, grown)
        PROVE  Asked'
    BY <1>3, EndTyped
  <1>4. ASSUME NEW stage \in Stages(Op(w)), Go(w, stage), UNCHANGED <<req, locks>>
        PROVE  Asked'
    BY <1>2, <1>4, GoTyped DEF locks
  <1>5. ASSUME Stored', Asked' PROVE Types'
    BY <1>5, TypesArePrimed
  <1>6. CASE CreateBucket(w)
    <2>1. Asked'
      BY <1>1, <1>6 DEF CreateBucket, Asked, locks, Shape, Op
    <2>2. Stored'
      BY <1>1, <1>6 DEF CreateBucket, Stored
    <2> QED
      BY <1>5, <2>1, <2>2
  <1>7. CASE Count(w)
    <2> DEFINE S == SlotsOf(req[w].bucket)
               empty == \A s \in S : row[s] = NoRow
               left == IF empty THEN {s \in S : blob[s] # NoBlob} ELSE {}
    <2>1. left \in SUBSET Slot
      BY DEF SlotsOf
    <2>2. Part(left) /\ UNCHANGED <<database, blob, req, locks>>
      BY <1>7 DEF Count
    <2>3. "rows" \in Stages(Op(w)) /\ "sweep" \in Stages(Op(w))
      BY <1>7 DEF Count, At, Op, Stages
    <2>4. Go(w, "rows") \/ Go(w, "sweep")
      BY <1>7 DEF Count
    <2>5. Asked'
      BY <1>4, <2>2, <2>3, <2>4
    <2> HIDE DEF left
    <2>6. Stored'
      BY <1>1, <2>1, <2>2, PartTyped DEF Stored, database
    <2> QED
      BY <1>5, <2>5, <2>6
  <1>8. CASE Sweep(w)
    <2> DEFINE S == {s \in SlotsOf(req[w].bucket) : blob[s] # NoBlob}
    <2>1. PICK left \in SUBSET S :
             /\ blob' = [s \in Slot |-> IF s \in S \ left THEN NoBlob ELSE blob[s]]
             /\ \/ Go(w, "rows") /\ Part(left) /\ UNCHANGED <<req, locks>>
                \/ Part(S \ left) /\ End(w, {}, FALSE)
      BY <1>8 DEF Sweep
    <2>2. S \in SUBSET Slot
      BY DEF SlotsOf
    <2>3. "rows" \in Stages(Op(w)) /\ UNCHANGED database
      BY <1>8 DEF Sweep, At, Op, Stages
    <2> HIDE DEF S
    <2>4. Asked'
      BY <1>3, <1>4, <2>1, <2>3
    <2>5. parted' \subseteq Slot
      BY <2>1, <2>2, PartTyped
    <2>6. Stored'
      BY <1>1, <2>1, <2>3, <2>5 DEF Stored, database
    <2> QED
      BY <1>5, <2>4, <2>6
  <1>9. CASE Store(w)
    <2> DEFINE s == req[w].slot
    <2>1. s \in Slot /\ req[w].size \in Size[s] /\ "commit" \in Stages(Op(w))
      BY <1>1, <1>9 DEF Store, At, Shape, Op, Stages
    <2>2. /\ blob' = [blob EXCEPT ![s] = req[w].size] /\ UNCHANGED database
          /\ \/ /\ Go(w, "commit") /\ UNCHANGED <<req, locks>>
                /\ Part({s}) \/ parted' = parted \ {s}
             \/ Part({s}) /\ End(w, {}, FALSE)
      BY <1>9 DEF Store
    <2> HIDE DEF s
    <2>3. Asked'
      BY <1>3, <1>4, <2>1, <2>2
    <2>4. parted' \subseteq Slot
      BY <1>1, <2>1, <2>2, PartTyped DEF Stored
    <2>5. Stored'
      BY <1>1, <2>1, <2>2, <2>4 DEF Stored, database
    <2> QED
      BY <1>5, <2>3, <2>5
  <1>10. CASE Remove(w)
    <2> DEFINE s == req[w].slot
               S == IF req[w].found \/ blob[s] = NoBlob THEN {} ELSE {s}
    <2>1. s \in Slot /\ S \in SUBSET Slot /\ "commit" \in Stages(Op(w))
      BY <1>1, <1>10 DEF Remove, At, Shape, Op, Stages
    <2>2. /\ blob' = [blob EXCEPT ![s] = NoBlob] /\ UNCHANGED database
          /\ \/ Go(w, "commit") /\ UNCHANGED <<req, locks>> /\ Part(S)
             \/ Part({s}) /\ End(w, {}, FALSE)
      BY <1>10 DEF Remove
    <2> HIDE DEF s, S
    <2>3. Asked'
      BY <1>3, <1>4, <2>1, <2>2
    <2>4. parted' \subseteq Slot
      BY <1>1, <2>1, <2>2, PartTyped
    <2>5. Stored'
      BY <1>1, <2>1, <2>2, <2>4 DEF Stored, database
    <2> QED
      BY <1>5, <2>3, <2>5
  <1>11. CASE Abort(w)
    <2>1. Asked'
      BY <1>3, <1>11 DEF Abort
    <2>2. parted' \subseteq Slot
      BY <1>11, TouchedIs, PartTyped DEF Abort
    <2>3. Stored'
      BY <1>1, <1>11, <2>2 DEF Stored, Abort, database
    <2> QED
      BY <1>5, <2>1, <2>3
  <1>12. CASE CommitUpdate(w)
    <2>1. Asked'
      BY <1>3, <1>12 DEF CommitUpdate
    <2>2. Stored'
      BY <1>1, <1>12 DEF Stored, CommitUpdate, At, Shape, Op
    <2> QED
      BY <1>5, <2>1, <2>2
  <1>13. CASE CommitDeleteBucket(w)
    <2>1. SlotsOf(req[w].bucket) \in SUBSET Slot /\ End(w, SlotsOf(req[w].bucket), FALSE)
      BY <1>13 DEF CommitDeleteBucket, SlotsOf
    <2>2. Asked'
      BY <1>3, <2>1
    <2>3. Stored'
      BY <1>1, <1>13 DEF Stored, CommitDeleteBucket, At, Shape, Op
    <2> QED
      BY <1>5, <2>2, <2>3
  <1>14. CASE CommitPut(w)
    <2> DEFINE grown == req[w].size > Usage({req[w].slot})
    <2>1. grown \in BOOLEAN /\ End(w, {}, grown)
      BY <1>14 DEF CommitPut
    <2> HIDE DEF grown
    <2>2. Asked'
      BY <1>3, <2>1
    <2>3. Stored'
      BY <1>1, <1>14 DEF Stored, CommitPut, At, Shape, Op
    <2> QED
      BY <1>5, <2>2, <2>3
  <1>15. CASE CommitDelete(w)
    <2> DEFINE S == IF req[w].found THEN {req[w].slot} ELSE {}
    <2>1. S \in SUBSET Slot
      BY <1>1, <1>15 DEF CommitDelete, At, Shape, Op
    <2>2. End(w, S, FALSE) /\ row' = [s \in Slot |-> IF s \in S THEN NoRow ELSE row[s]]
      BY <1>15 DEF CommitDelete
    <2> HIDE DEF S
    <2>3. Asked'
      BY <1>3, <2>1, <2>2
    <2>4. Stored'
      BY <1>1, <1>15, <2>2 DEF Stored, CommitDelete
    <2> QED
      BY <1>5, <2>3, <2>4
  <1> QED
    BY <1>6, <1>7, <1>8, <1>9, <1>10, <1>11, <1>12, <1>13, <1>14, <1>15

LEMMA TypesStep == Types /\ [Next]_vars => Types'
  <1> SUFFICES ASSUME Types, [Next]_vars PROVE Types'
    OBVIOUS
  <1>1. CASE UNCHANGED vars
    BY <1>1, TypesAre, TypesArePrimed DEF vars, database, locks, Stored, Asked, Shape, Op
  <1>2. CASE Next
    BY <1>2, QuietTyped, StoringTyped DEF Next, Begins
  <1> QED
    BY <1>1, <1>2

-----------------------------------------------------------------------------
(* Locks.                                                                  *)

LEMMA LocksInit == Init => Locks
  <1> SUFFICES ASSUME Init PROVE Locks
    OBVIOUS
  <1>1. \A w \in Worker : Op(w) = "none"
    BY NoRequestTyped DEF Init, Op
  <1>2. \A s \in Slot : rowLock[s] \notin Worker /\ row[s] = NoRow
    BY ObjectStorageAssumption DEF ObjectStorageAssumption, Init
  <1>3. \A w \in Worker :
           /\ \A b : ~HoldsBucket(w, b)
           /\ \A s : ~HoldsRow(w, s) /\ ~Deletes(w, s)
    BY <1>1 DEF HoldsBucket, HoldsRow, Deletes
  <1> QED
    BY <1>1, <1>2, <1>3 DEF Locks

\* What a request may have after one of its steps.
Fair(w) ==
    /\ \A b \in Bucket : HoldsBucket(w, b)' =>
          bucketLock'[b] = w /\ (Op(w)' # "deletebucket" => b \in Live')
    /\ \A s \in Slot : HoldsRow(w, s)' => rowLock'[s] = w
    /\ \A s \in Slot : rowLock'[s] = w => HoldsRow(w, s)' \/ Deletes(w, s)'
    /\ \A s \in Slot :
          Deletes(w, s)' /\ pc'[w] = "commit" /\ row'[s] # NoRow => rowLock'[s] = w
    /\ Op(w)' = "delete" /\ req'[w].found => row'[req'[w].slot] # NoRow

\* A step that writes no row and takes no lock of others.
LEMMA OneLocks ==
  ASSUME LockInv, Types', NEW w \in Worker, Fair(w), UNCHANGED <<bucket, row>>,
         \A v \in Worker \ {w} : pc'[v] = pc[v] /\ req'[v] = req[v],
         \A b \in Bucket, v \in Worker \ {w} : bucketLock[b] = v => bucketLock'[b] = v,
         \A s \in Slot, v \in Worker \ {w} : rowLock[s] = v <=> rowLock'[s] = v
  PROVE  Locks'
  <1> USE DEF LockInv
  <1>0. \A b \in Bucket : b \in Live <=> b \in Live'
    BY DEF Live
  <1>1. \A v \in Worker, b \in Bucket : HoldsBucket(v, b)' =>
           bucketLock'[b] = v /\ (Op(v)' # "deletebucket" => b \in Live')
    <2> SUFFICES ASSUME NEW v \in Worker, NEW b \in Bucket, HoldsBucket(v, b)', v # w
                 PROVE  bucketLock'[b] = v /\ (Op(v)' # "deletebucket" => b \in Live')
      BY DEF Fair
    <2>1. HoldsBucket(v, b) /\ Op(v)' = Op(v)
      BY DEF HoldsBucket, Op
    <2> QED
      BY <1>0, <2>1 DEF Locks
  <1>2. \A v \in Worker, s \in Slot : HoldsRow(v, s)' => rowLock'[s] = v
    <2> SUFFICES ASSUME NEW v \in Worker, NEW s \in Slot, HoldsRow(v, s)', v # w
                 PROVE  rowLock'[s] = v
      BY DEF Fair
    <2>1. HoldsRow(v, s)
      BY DEF HoldsRow, Op
    <2> QED
      BY <2>1 DEF Locks
  <1>3. \A v \in Worker, s \in Slot : rowLock'[s] = v => HoldsRow(v, s)' \/ Deletes(v, s)'
    <2> SUFFICES ASSUME NEW v \in Worker, NEW s \in Slot, rowLock'[s] = v, v # w
                 PROVE  HoldsRow(v, s)' \/ Deletes(v, s)'
      BY DEF Fair
    <2>1. HoldsRow(v, s) \/ Deletes(v, s)
      BY DEF Locks
    <2> QED
      BY <2>1 DEF HoldsRow, Deletes, Op
  <1>4. \A v \in Worker, s \in Slot :
           Deletes(v, s)' /\ pc'[v] = "commit" /\ row'[s] # NoRow => rowLock'[s] = v
    <2> SUFFICES ASSUME NEW v \in Worker, NEW s \in Slot, Deletes(v, s)', pc'[v] = "commit",
                        row'[s] # NoRow, v # w
                 PROVE  rowLock'[s] = v
      BY DEF Fair
    <2>1. Deletes(v, s) /\ pc[v] = "commit" /\ row[s] # NoRow
      BY DEF Deletes, Op
    <2> QED
      BY <2>1 DEF Locks
  <1>5. \A v \in Worker : Op(v)' = "delete" /\ req'[v].found => row'[req'[v].slot] # NoRow
    BY DEF Fair, Locks, Op
  <1>6. \A s \in Slot : row'[s] # NoRow => BucketOf[s] \in Live'
    BY <1>0, ObjectStorageAssumption DEF ObjectStorageAssumption, Locks
  <1> QED
    BY <1>1, <1>2, <1>3, <1>4, <1>5, <1>6 DEF Locks

\* The end of a request, with what it deletes and writes.
LEMMA EndLocks ==
  ASSUME LockInv, Types', NEW w \in Worker, NEW deleted \in SUBSET Slot, NEW grown \in BOOLEAN,
         End(w, deleted, grown),
         \A b \in Live, v \in Worker \ {w} : HoldsBucket(v, b) => b \in Live',
         \A s \in deleted, v \in Worker \ {w} : ~HoldsRow(v, s),
         \A s \in Slot \ deleted : row[s] # NoRow => row'[s] # NoRow,
         \A s \in Slot : row'[s] # NoRow => BucketOf[s] \in Live',
         \A s \in Slot : row'[s] # NoRow => \/ row[s] # NoRow
                                            \/ \A v \in Worker \ {w} : ~HoldsBucket(v, BucketOf[s])
  PROVE  Locks'
  <1> USE DEF LockInv
  <1>1. Ended(w, deleted, grown)
    BY EndIs
  <1>2. /\ \A b \in Bucket, v \in Worker \ {w} : bucketLock[b] = v => bucketLock'[b] = v
        /\ \A s \in Slot, v \in Worker \ {w} : rowLock[s] = v <=> rowLock'[s] = v
        /\ \A s \in Slot : rowLock'[s] # w
    BY <1>1, ObjectStorageAssumption DEF Ended, ObjectStorageAssumption
  <1>3. Op(w)' = "none"
    BY <1>1, NoRequestTyped DEF Ended, Op
  <1>4. \A v \in Worker \ {w} :
           /\ Op(v)' = Op(v) /\ pc'[v] = pc[v] /\ req'[v].slot = req[v].slot
           /\ req'[v].bucket = req[v].bucket
           /\ req'[v].found <=> req[v].found /\ req[v].slot \notin deleted
    BY <1>1 DEF Ended, Op
  <1>5. ASSUME NEW v \in Worker, NEW b \in Bucket, HoldsBucket(v, b)'
        PROVE  bucketLock'[b] = v /\ (Op(v)' # "deletebucket" => b \in Live')
    <2>1. v # w
      BY <1>3, <1>5 DEF HoldsBucket
    <2>2. HoldsBucket(v, b) /\ Op(v)' = Op(v)
      BY <1>4, <1>5, <2>1 DEF HoldsBucket
    <2>3. bucketLock[b] = v /\ (Op(v) # "deletebucket" => b \in Live)
      BY <2>2 DEF Locks
    <2> QED
      BY <1>2, <2>1, <2>2, <2>3
  <1>6. ASSUME NEW v \in Worker, NEW s \in Slot, HoldsRow(v, s)' PROVE rowLock'[s] = v
    <2>1. v # w
      BY <1>3, <1>6 DEF HoldsRow
    <2>2. HoldsRow(v, s)
      BY <1>4, <1>6, <2>1 DEF HoldsRow
    <2> QED
      BY <1>2, <2>1, <2>2 DEF Locks
  <1>7. ASSUME NEW v \in Worker, NEW s \in Slot, rowLock'[s] = v
        PROVE  HoldsRow(v, s)' \/ Deletes(v, s)'
    <2>1. v # w /\ rowLock[s] = v
      BY <1>2, <1>7
    <2>2. CASE HoldsRow(v, s)
      BY <1>4, <2>1, <2>2 DEF HoldsRow
    <2>3. CASE Deletes(v, s)
      BY <1>4, <2>1, <2>3 DEF Deletes
    <2> QED
      BY <2>1, <2>2, <2>3 DEF Locks
  <1>8. ASSUME NEW v \in Worker, NEW s \in Slot, Deletes(v, s)', pc'[v] = "commit",
               row'[s] # NoRow
        PROVE  rowLock'[s] = v
    <2>1. v # w
      BY <1>3, <1>8 DEF Deletes
    <2>2. Deletes(v, s) /\ pc[v] = "commit" /\ HoldsBucket(v, BucketOf[s])
      BY <1>4, <1>8, <2>1 DEF Deletes, HoldsBucket
    <2>3. row[s] # NoRow
      BY <1>8, <2>1, <2>2
    <2> QED
      BY <1>2, <2>1, <2>2, <2>3 DEF Locks
  <1>9. ASSUME NEW v \in Worker, Op(v)' = "delete", req'[v].found
        PROVE  row'[req'[v].slot] # NoRow
    <2>1. v # w
      BY <1>3, <1>9
    <2>2. /\ Op(v) = "delete" /\ req[v].found
          /\ req'[v].slot = req[v].slot /\ req[v].slot \notin deleted
      BY <1>4, <1>9, <2>1
    <2>3. req[v].slot \in Slot /\ row[req[v].slot] # NoRow
      BY <2>2 DEF Locks, Types, Shape
    <2> QED
      BY <2>2, <2>3
  <1> QED
    BY <1>5, <1>6, <1>7, <1>8, <1>9 DEF Locks

\* Requests do not lock what another has locked.
LEMMA Exclusive ==
  ASSUME LockInv, NEW v \in Worker, NEW w \in Worker, v # w
  PROVE  /\ \A b \in Bucket : HoldsBucket(v, b) => ~HoldsBucket(w, b)
         /\ \A s \in Slot : HoldsRow(v, s) => ~HoldsRow(w, s)
  BY DEF LockInv, Locks

\* A request that goes on.
LEMMA GoIs ==
  ASSUME Types, NEW w \in Worker, NEW stage, Go(w, stage), UNCHANGED req
  PROVE  /\ pc'[w] = stage /\ req'[w] = req[w]
         /\ \A v \in Worker \ {w} : pc'[v] = pc[v] /\ req'[v] = req[v]
  BY DEF Types, Go

LEMMA AskIs ==
  ASSUME Types, NEW w \in Worker, NEW stage, Go(w, stage), NEW r, req' = [req EXCEPT ![w] = r]
  PROVE  /\ pc'[w] = stage /\ req'[w] = r
         /\ \A v \in Worker \ {w} : pc'[v] = pc[v] /\ req'[v] = req[v]
  BY DEF Types, Go

\* Steps that take no lock and have none more to show.
LEMMA CalmLocks ==
  ASSUME LockInv, Types', NEW w \in Worker, UNCHANGED <<bucket, row, bucketLock, rowLock>>,
         \A v \in Worker \ {w} : pc'[v] = pc[v] /\ req'[v] = req[v],
         \A b \in Bucket : HoldsBucket(w, b)' => HoldsBucket(w, b) /\ Op(w)' = Op(w),
         \A s \in Slot : HoldsRow(w, s)' <=> HoldsRow(w, s),
         \A s \in Slot : Deletes(w, s)' <=> Deletes(w, s),
         pc'[w] = "commit" => Op(w)' # "deletebucket",
         Op(w)' = "delete" /\ req'[w].found => row[req'[w].slot] # NoRow
  PROVE  Locks'
  <1>1. \A b \in Bucket : b \in Live <=> b \in Live'
    BY DEF Live
  <1>2. Fair(w)
    BY <1>1 DEF LockInv, Locks, Fair, Deletes
  <1> QED
    BY <1>2, OneLocks

LEMMA CalmSteps ==
  ASSUME LockInv, Types', NEW w \in Worker,
         \/ Begins(w) \/ Count(w) \/ ReadReplaced(w) \/ CheckLimit(w) \/ Load(w)
  PROVE  Locks'
  <1> USE DEF LockInv
  <1>1. Shape(w) /\ pc[w] \in Stages(Op(w))
    BY DEF Types, Shape
  <1>2. CASE Begins(w)
    <2>1. PICK r, stage : Arrives(r, stage) /\ Begin(w, r, stage)
      BY <1>2, BeginIs
    <2>2. /\ pc'[w] = stage /\ req'[w] = r
          /\ \A v \in Worker \ {w} : pc'[v] = pc[v] /\ req'[v] = req[v]
      BY <2>1, AskIs DEF Begin
    <2>3. Op(w) = "none"
      BY <1>1, <2>1 DEF Begin, Types, Shape, Stages
    <2>4. \A b : ~HoldsBucket(w, b)' /\ \A s : ~HoldsRow(w, s)' /\ ~Deletes(w, s)'
      BY <2>1, <2>2 DEF Arrives, HoldsBucket, HoldsRow, Deletes, Op
    <2>5. \A s : ~HoldsRow(w, s) /\ ~Deletes(w, s)
      BY <2>3 DEF HoldsRow, Deletes
    <2> QED
      BY <2>1, <2>2, <2>4, <2>5, CalmLocks DEF Begin, database, locks, Op, Arrives
  <1>3. CASE Count(w)
    <2>1. PICK stage \in {"rows", "sweep"} : Go(w, stage)
      BY <1>3 DEF Count
    <2>2. Op(w) = "deletebucket" /\ pc[w] = "count" /\ UNCHANGED <<database, req, locks>>
      BY <1>3 DEF Count, At, Op
    <2>3. /\ pc'[w] = stage /\ req'[w] = req[w]
          /\ \A v \in Worker \ {w} : pc'[v] = pc[v] /\ req'[v] = req[v]
      BY <2>1, <2>2, GoIs
    <2> QED
      BY <2>2, <2>3, CalmLocks DEF HoldsBucket, HoldsRow, Deletes, Op, database, locks
  <1>4. CASE ReadReplaced(w)
    <2> DEFINE r == [req[w] EXCEPT !.delta = req[w].size - Usage({req[w].slot})]
    <2>1. Op(w) = "put" /\ pc[w] = "replaced" /\ UNCHANGED <<database, locks>>
      BY <1>4 DEF ReadReplaced, At, Op
    <2>2. Go(w, "app") /\ req' = [req EXCEPT ![w] = r]
      BY <1>4 DEF ReadReplaced
    <2>3. /\ r.op = req[w].op /\ r.slot = req[w].slot
          /\ r.bucket = req[w].bucket /\ r.found = req[w].found
      BY DEF Types, Request
    <2> HIDE DEF r
    <2>4. /\ pc'[w] = "app" /\ req'[w] = r
          /\ \A v \in Worker \ {w} : pc'[v] = pc[v] /\ req'[v] = req[v]
      BY <2>2, AskIs
    <2> QED
      BY <2>1, <2>3, <2>4, CalmLocks DEF HoldsBucket, HoldsRow, Deletes, Op, database, locks
  <1>5. CASE CheckLimit(w)
    <2>1. PICK stage \in {"bucket", "user", "upsert"} : Go(w, stage)
      BY <1>5 DEF CheckLimit
    <2>2. Op(w) = "put" /\ pc[w] \in {"app", "bucket", "user"} /\ UNCHANGED <<database, req, locks>>
      BY <1>5 DEF CheckLimit, Op
    <2>3. /\ pc'[w] = stage /\ req'[w] = req[w]
          /\ \A v \in Worker \ {w} : pc'[v] = pc[v] /\ req'[v] = req[v]
      BY <2>1, <2>2, GoIs
    <2> QED
      BY <2>2, <2>3, CalmLocks DEF HoldsBucket, HoldsRow, Deletes, Op, database, locks
  <1>6. CASE Load(w)
    <2> DEFINE r == [req[w] EXCEPT !.found = TRUE]
    <2>1. /\ Op(w) = "delete" /\ pc[w] = "load" /\ UNCHANGED <<database, locks>>
          /\ row[req[w].slot] # NoRow
      BY <1>6 DEF Load, At, Op
    <2>2. Go(w, "flush") /\ req' = [req EXCEPT ![w] = r]
      BY <1>6 DEF Load
    <2>3. r.op = req[w].op /\ r.slot = req[w].slot
      BY DEF Types, Request
    <2> HIDE DEF r
    <2>4. /\ pc'[w] = "flush" /\ req'[w] = r
          /\ \A v \in Worker \ {w} : pc'[v] = pc[v] /\ req'[v] = req[v]
      BY <2>2, AskIs
    <2> QED
      BY <2>1, <2>3, <2>4, CalmLocks DEF HoldsBucket, HoldsRow, Deletes, Op, database, locks
  <1> QED
    BY <1>2, <1>3, <1>4, <1>5, <1>6

LEMMA LockSteps ==
  ASSUME LockInv, Types', NEW w \in Worker,
         \/ FlushUpdate(w) \/ FlushRows(w) \/ FlushDrop(w) \/ LockBucket(w)
         \/ Upsert(w) \/ FlushDelete(w)
  PROVE  Locks'
  <1> USE DEF LockInv
  <1>1. PICK stage : Go(w, stage) /\ UNCHANGED req
    BY DEF FlushUpdate, FlushRows, FlushDrop, LockBucket, Upsert, FlushDelete
  <1>2. /\ pc'[w] = stage /\ req'[w] = req[w]
        /\ \A v \in Worker \ {w} : pc'[v] = pc[v] /\ req'[v] = req[v]
    BY <1>1, GoIs
  <1>3. UNCHANGED <<bucket, row>> /\ \A b \in Bucket : b \in Live <=> b \in Live'
    BY DEF FlushUpdate, FlushRows, FlushDrop, LockBucket, Upsert, FlushDelete, database, Live
  <1>4. /\ bucketLock \in [Bucket -> Worker \union {NoWorker}]
        /\ rowLock \in [Slot -> Worker \union {NoWorker}]
        /\ NoWorker \notin Worker /\ BucketOf \in [Slot -> Bucket] /\ Shape(w)
    BY ObjectStorageAssumption DEF ObjectStorageAssumption, Types
  <1>5. ASSUME Fair(w),
               \A b \in Bucket, v \in Worker \ {w} : bucketLock[b] = v => bucketLock'[b] = v,
               \A s \in Slot, v \in Worker \ {w} : rowLock[s] = v <=> rowLock'[s] = v
        PROVE  Locks'
    BY <1>2, <1>3, <1>5, OneLocks
  <1>6. CASE FlushUpdate(w)
    <2> DEFINE b == req[w].bucket
    <2>1. /\ Op(w) = "update" /\ pc[w] = "flush" /\ pc'[w] = "commit" /\ b \in Live
          /\ bucketLock[b] \in {NoWorker, w} /\ b \in Bucket
          /\ bucketLock' = [bucketLock EXCEPT ![b] = w] /\ UNCHANGED rowLock
      BY <1>6, <1>2, <1>4 DEF FlushUpdate, At, Op, BucketFree, Go, Types, Live
    <2>2. Fair(w)
      BY <1>2, <1>3, <1>4, <2>1 DEF Fair, HoldsBucket, HoldsRow, Deletes, Op, Locks
    <2> QED
      BY <1>4, <1>5, <2>1, <2>2
  <1>7. CASE LockBucket(w)
    <2> DEFINE b == BucketOf[req[w].slot]
    <2>1. /\ Op(w) = "put" /\ pc[w] = "lock" /\ pc'[w] = "replaced" /\ b \in Live
          /\ bucketLock[b] \in {NoWorker, w} /\ b \in Bucket
          /\ bucketLock' = [bucketLock EXCEPT ![b] = w] /\ UNCHANGED rowLock
      BY <1>7, <1>2, <1>4 DEF LockBucket, At, Op, BucketFree, Go, Types, Live
    <2>2. Fair(w)
      BY <1>2, <1>3, <1>4, <2>1 DEF Fair, HoldsBucket, HoldsRow, Deletes, Op, Locks
    <2> QED
      BY <1>4, <1>5, <2>1, <2>2
  <1>8. CASE FlushRows(w)
    <2> DEFINE S == {s \in SlotsOf(req[w].bucket) : row[s] # NoRow}
    <2>1. /\ Op(w) = "deletebucket" /\ pc[w] = "rows" /\ pc'[w] = "drop"
          /\ \A s \in S : rowLock[s] \in {NoWorker, w}
          /\ rowLock' = [s \in Slot |-> IF s \in S THEN w ELSE rowLock[s]]
          /\ UNCHANGED bucketLock
      BY <1>8, <1>2 DEF FlushRows, At, Op, RowFree, Go, Types
    <2>2. \A s \in Slot : s \in S => BucketOf[s] = req[w].bucket
      BY DEF SlotsOf
    <2> HIDE DEF S
    <2>3. Fair(w)
      BY <1>2, <1>3, <1>4, <2>1, <2>2 DEF Fair, HoldsBucket, HoldsRow, Deletes, Op, Locks
    <2> QED
      BY <1>4, <1>5, <2>1, <2>3
  <1>9. CASE FlushDrop(w)
    <2> DEFINE b == req[w].bucket
               S == {s \in SlotsOf(b) : row[s] # NoRow}
    <2>1. /\ Op(w) = "deletebucket" /\ pc[w] = "drop" /\ pc'[w] = "commit" /\ b \in Bucket
          /\ bucketLock[b] \in {NoWorker, w}
          /\ \A s \in S : rowLock[s] \in {NoWorker, w}
          /\ rowLock' = [s \in Slot |-> IF s \in S THEN w ELSE rowLock[s]]
          /\ bucketLock' = [bucketLock EXCEPT ![b] = w]
      BY <1>9, <1>2, <1>4 DEF FlushDrop, At, Op, RowFree, BucketFree, Go, Types, Shape
    <2>2. \A s \in Slot : s \in S <=> (BucketOf[s] = b /\ row[s] # NoRow)
      BY DEF SlotsOf
    <2> HIDE DEF S
    <2>3. \A s \in Slot : rowLock[s] = w => Deletes(w, s)
      BY <2>1 DEF Locks, HoldsRow
    <2>4. Fair(w)
      BY <1>2, <1>3, <1>4, <2>1, <2>2, <2>3 DEF Fair, HoldsBucket, HoldsRow, Deletes, Op
    <2> QED
      BY <1>4, <1>5, <2>1, <2>4
  <1>10. CASE Upsert(w)
    <2> DEFINE t == req[w].slot
    <2>1. /\ Op(w) = "put" /\ pc[w] = "upsert" /\ pc'[w] = "s3" /\ t \in Slot
          /\ rowLock[t] \in {NoWorker, w}
          /\ rowLock' = [rowLock EXCEPT ![t] = w] /\ UNCHANGED bucketLock
      BY <1>10, <1>2, <1>4 DEF Upsert, At, Op, RowFree, Go, Types, Shape
    <2>2. Fair(w)
      BY <1>2, <1>3, <1>4, <2>1 DEF Fair, HoldsBucket, HoldsRow, Deletes, Op, Locks
    <2> QED
      BY <1>4, <1>5, <2>1, <2>2
  <1>11. CASE FlushDelete(w)
    <2> DEFINE t == req[w].slot
    <2>1. /\ Op(w) = "delete" /\ pc[w] = "flush" /\ pc'[w] = "s3" /\ t \in Slot
          /\ req[w].found => rowLock[t] \in {NoWorker, w}
          /\ rowLock' = IF req[w].found THEN [rowLock EXCEPT ![t] = w] ELSE rowLock
          /\ UNCHANGED bucketLock
      BY <1>11, <1>2, <1>4 DEF FlushDelete, At, Op, RowFree, Go, Types, Shape
    <2>2. Fair(w)
      BY <1>2, <1>3, <1>4, <2>1 DEF Fair, HoldsBucket, HoldsRow, Deletes, Op, Locks
    <2> QED
      BY <1>4, <1>5, <2>1, <2>2
  <1> QED
    BY <1>6, <1>7, <1>8, <1>9, <1>10, <1>11

LEMMA EndSteps ==
  ASSUME LockInv, Types', NEW w \in Worker,
         \/ CreateBucket(w) \/ Sweep(w) \/ Store(w) \/ Remove(w) \/ Abort(w)
         \/ CommitUpdate(w) \/ CommitDeleteBucket(w) \/ CommitPut(w) \/ CommitDelete(w)
  PROVE  Locks'
  <1> USE DEF LockInv
  <1>1. Shape(w) /\ BucketOf \in [Slot -> Bucket]
    BY ObjectStorageAssumption DEF ObjectStorageAssumption, Types
  <1>2. ASSUME Live \subseteq Live', row' = row, End(w, {}, FALSE) PROVE Locks'
    <2> DEFINE none == {}
               grown == FALSE
    <2>1. none \in SUBSET Slot /\ grown \in BOOLEAN /\ End(w, none, grown)
      BY <1>2
    <2>2. \A s \in Slot : row[s] # NoRow => BucketOf[s] \in Live
      BY DEF Locks
    <2>3. \A s \in none, v \in Worker \ {w} : ~HoldsRow(v, s)
      OBVIOUS
    <2> HIDE DEF none, grown
    <2> QED
      BY <1>2, <2>1, <2>2, <2>3, EndLocks
  <1>3. CASE CreateBucket(w)
    <2>1. Live \subseteq Live'
      BY <1>3 DEF CreateBucket, Live, Types
    <2>2. UNCHANGED <<row, pc, req, bucketLock, rowLock>>
      BY <1>3 DEF CreateBucket, locks
    <2> QED
      BY <2>1, <2>2 DEF Locks, HoldsBucket, HoldsRow, Deletes, Op
  <1>4. CASE Sweep(w)
    <2>1. CASE End(w, {}, FALSE)
      BY <1>2, <1>4, <2>1 DEF Sweep, database, Live
    <2>2. CASE Go(w, "rows") /\ UNCHANGED <<req, locks>>
      <3>1. /\ pc'[w] = "rows" /\ req'[w] = req[w]
            /\ \A v \in Worker \ {w} : pc'[v] = pc[v] /\ req'[v] = req[v]
        BY <2>2, GoIs
      <3>2. Op(w) = "deletebucket" /\ pc[w] = "sweep" /\ UNCHANGED <<database, locks>>
        BY <1>4, <2>2 DEF Sweep, At, Op
      <3> QED
        BY <3>1, <3>2, CalmLocks DEF HoldsBucket, HoldsRow, Deletes, Op, database, locks
    <2> QED
      BY <1>4, <2>1, <2>2 DEF Sweep
  <1>5. CASE Store(w) \/ Remove(w)
    <2>1. CASE End(w, {}, FALSE)
      BY <1>2, <1>5, <2>1 DEF Store, Remove, database, Live
    <2>2. CASE Go(w, "commit") /\ UNCHANGED <<req, locks>>
      <3>1. /\ pc'[w] = "commit" /\ req'[w] = req[w]
            /\ \A v \in Worker \ {w} : pc'[v] = pc[v] /\ req'[v] = req[v]
        BY <2>2, GoIs
      <3>2. Op(w) \in {"put", "delete"} /\ pc[w] = "s3" /\ UNCHANGED <<database, locks>>
        BY <1>5, <2>2 DEF Store, Remove, At, Op
      <3>3. Op(w)' = "delete" /\ req'[w].found => row[req'[w].slot] # NoRow
        BY <3>1 DEF Locks, Op
      <3> QED
        BY <3>1, <3>2, <3>3, CalmLocks DEF HoldsBucket, HoldsRow, Deletes, Op, database, locks
    <2> QED
      BY <1>5, <2>1, <2>2 DEF Store, Remove
  <1>6. CASE Abort(w)
    BY <1>2, <1>6 DEF Abort, database, Live
  <1>7. CASE CommitUpdate(w)
    <2>1. Live \subseteq Live'
      BY <1>1, <1>7 DEF CommitUpdate, Live, Types, Shape, At, Op
    <2>2. End(w, {}, FALSE) /\ row' = row
      BY <1>7 DEF CommitUpdate
    <2> QED
      BY <1>2, <2>1, <2>2
  <1>8. CASE CommitDeleteBucket(w)
    <2> DEFINE b == req[w].bucket
    <2>1. /\ Op(w) = "deletebucket" /\ pc[w] = "commit" /\ b \in Bucket
          /\ bucket' = [bucket EXCEPT ![b] = Gone]
          /\ row' = [s \in Slot |-> IF s \in SlotsOf(b) THEN NoRow ELSE row[s]]
          /\ End(w, SlotsOf(b), FALSE)
      BY <1>1, <1>8 DEF CommitDeleteBucket, At, Op, Shape
    <2>2. HoldsBucket(w, b) /\ \A s \in SlotsOf(b) : s \in Slot /\ BucketOf[s] = b
      BY <2>1 DEF HoldsBucket, SlotsOf
    <2>3. \A s \in Slot : BucketOf[s] = b <=> s \in SlotsOf(b)
      BY DEF SlotsOf
    <2>4. \A c \in Bucket \ {b} : c \in Live <=> c \in Live'
      BY <2>1 DEF Live, Types
    <2>5. \A v \in Worker \ {w} : ~HoldsBucket(v, b)
      BY <2>1, <2>2, Exclusive
    <2>6. ASSUME NEW s \in SlotsOf(b), NEW v \in Worker \ {w} PROVE ~HoldsRow(v, s)
      <3> SUFFICES ASSUME HoldsRow(v, s) PROVE FALSE
        OBVIOUS
      <3>1. CASE Op(v) = "put"
        BY <2>2, <2>5, <3>1 DEF HoldsRow, HoldsBucket
      <3>2. CASE Op(v) = "delete"
        <4>1. row[s] # NoRow /\ rowLock[s] = v
          BY <2>2, <3>2 DEF HoldsRow, Locks
        <4>2. rowLock[s] = w
          BY <2>1, <2>2, <4>1 DEF Locks, Deletes
        <4> QED
          BY <4>1, <4>2
      <3> QED
        BY <3>1, <3>2 DEF HoldsRow
    <2>7. \A c \in Live, v \in Worker \ {w} : HoldsBucket(v, c) => c \in Live'
      <3>1. \A c \in Live : c \in Bucket
        BY DEF Live
      <3> QED
        BY <2>4, <2>5, <3>1
    <2>8. \A s \in Slot : /\ s \notin SlotsOf(b) => row'[s] = row[s]
                          /\ s \in SlotsOf(b) => row'[s] = NoRow
      BY <2>1
    <2>9. \A s \in Slot : row'[s] # NoRow => BucketOf[s] \in Live' /\ row[s] # NoRow
      BY <1>1, <2>3, <2>4, <2>8 DEF Locks
    <2>10. SlotsOf(b) \in SUBSET Slot
      BY <2>2
    <2> HIDE DEF b
    <2> QED
      BY <2>1, <2>6, <2>7, <2>8, <2>9, <2>10, EndLocks
  <1>9. CASE CommitPut(w)
    <2> DEFINE t == req[w].slot
               grown == req[w].size > Usage({t})
    <2>1. /\ Op(w) = "put" /\ pc[w] = "commit" /\ t \in Slot /\ bucket' = bucket
          /\ row' = [row EXCEPT ![t] = req[w].size] /\ End(w, {}, grown) /\ grown \in BOOLEAN
      BY <1>1, <1>9 DEF CommitPut, At, Op, Shape
    <2>2. HoldsBucket(w, BucketOf[t]) /\ BucketOf[t] \in Live /\ Live' = Live
      BY <1>1, <2>1 DEF HoldsBucket, Locks, Live
    <2>3. req[w].size # NoRow
      BY <1>1, <2>1, ObjectStorageAssumption DEF ObjectStorageAssumption, Shape
    <2>4. \A s \in Slot : row'[s] = IF s = t THEN req[w].size ELSE row[s]
      BY <2>1 DEF Types
    <2>5. \A v \in Worker \ {w} : ~HoldsBucket(v, BucketOf[t])
      BY <1>1, <2>1, <2>2, Exclusive
    <2>6. \A s \in Slot : row'[s] # NoRow => BucketOf[s] \in Live'
      BY <2>2, <2>4 DEF Locks
    <2> HIDE DEF t, grown
    <2> QED
      BY <2>1, <2>2, <2>3, <2>4, <2>5, <2>6, EndLocks
  <1>10. CASE CommitDelete(w)
    <2> DEFINE t == req[w].slot
               S == IF req[w].found THEN {t} ELSE {}
    <2>1. /\ Op(w) = "delete" /\ pc[w] = "commit" /\ t \in Slot /\ bucket' = bucket
          /\ row' = [s \in Slot |-> IF s \in S THEN NoRow ELSE row[s]]
          /\ End(w, S, FALSE) /\ S \in SUBSET Slot
      BY <1>1, <1>10 DEF CommitDelete, At, Op, Shape
    <2>2. Live' = Live
      BY <2>1 DEF Live
    <2>3. \A s \in S : HoldsRow(w, s)
      BY <2>1 DEF HoldsRow
    <2>4. \A s \in S, v \in Worker \ {w} : ~HoldsRow(v, s)
      BY <2>1, <2>3, Exclusive
    <2>5. \A s \in Slot : row'[s] = IF s \in S THEN NoRow ELSE row[s]
      BY <2>1
    <2>6. \A s \in Slot : row[s] # NoRow => BucketOf[s] \in Live
      BY DEF Locks
    <2> HIDE DEF t, S
    <2> QED
      BY <2>1, <2>2, <2>4, <2>5, <2>6, EndLocks
  <1> QED
    BY <1>3, <1>4, <1>5, <1>6, <1>7, <1>8, <1>9, <1>10

LEMMA LockStep == LockInv /\ [Next]_vars => LockInv'
  <1> SUFFICES ASSUME LockInv, [Next]_vars PROVE Locks'
    BY TypesStep DEF LockInv
  <1>1. Types'
    BY TypesStep DEF LockInv
  <1>2. CASE UNCHANGED vars
    BY <1>2 DEF LockInv, vars, database, locks, Locks, HoldsBucket, HoldsRow, Deletes, Live, Op
  <1>3. CASE Next
    BY <1>1, <1>3, CalmSteps, LockSteps, EndSteps DEF Next, Begins
  <1> QED
    BY <1>2, <1>3

-----------------------------------------------------------------------------
(* Rows and payloads.                                                      *)

LEMMA StoreInit == Init => StoreInv
  <1> SUFFICES ASSUME Init PROVE StoreInv
    OBVIOUS
  <1>1. \A w \in Worker : req[w].op = "none"
    BY NoRequestTyped DEF Init
  <1> QED
    BY <1>1 DEF Init, StoreInv, Swept, Due

\* One request that has swept a bucket.
Sweeps(v, b) ==
    Op(v) = "deletebucket" /\ req[v].bucket = b /\ pc[v] \in {"rows", "drop", "commit"}

LEMMA SweptIs == \A b : Swept(b) <=> \E v \in Worker : Sweeps(v, b)
  BY DEF Swept, Sweeps, Op

LEMMA SweptIsPrimed == \A b : Swept(b)' <=> \E v \in Worker : Sweeps(v, b)'
  BY DEF Swept, Sweeps, Op

LEMMA HoldsNothing ==
  ASSUME LockInv, NEW w \in Worker, pc[w] \notin {"s3", "drop", "commit"}, NEW s \in Slot
  PROVE  rowLock[s] # w
  BY DEF LockInv, Locks, HoldsRow, Deletes

\* What is due for a slot only changes by who has its row.
LEMMA SameDue ==
  ASSUME LockInv, NEW w \in Worker, NEW s \in Slot,
         \A v \in Worker \ {w} : /\ pc'[v] = pc[v] /\ Op(v)' = Op(v)
                                 /\ req'[v].size = req[v].size,
         rowLock[s] # w, rowLock'[s] = rowLock[s], row'[s] = row[s]
  PROVE  Due(s)' = Due(s)
  <1>1. rowLock[s] \in Worker \union {NoWorker}
    BY DEF LockInv, Types
  <1> QED
    BY <1>1 DEF Due

LEMMA SameSwept ==
  ASSUME NEW w \in Worker, NEW b,
         \A v \in Worker \ {w} : /\ pc'[v] = pc[v] /\ Op(v)' = Op(v)
                                 /\ req'[v].bucket = req[v].bucket,
         Sweeps(w, b)' <=> Sweeps(w, b)
  PROVE  Swept(b)' <=> Swept(b)
  <1>1. \A v \in Worker : Sweeps(v, b)' <=> Sweeps(v, b)
    BY DEF Sweeps
  <1> QED
    BY <1>1, SweptIs, SweptIsPrimed

\* Steps that write neither rows nor payloads and take or keep locks only.
LEMMA CalmStore ==
  ASSUME LockInv, StoreInv, NEW w \in Worker, UNCHANGED <<row, blob>>, parted \subseteq parted',
         \A v \in Worker \ {w} : pc'[v] = pc[v] /\ req'[v] = req[v],
         \A b : Sweeps(w, b)' <=> Sweeps(w, b),
         pc[w] \notin {"s3", "drop", "commit"},
         \A s \in Slot : \/ rowLock'[s] = rowLock[s]
                         \/ Swept(BucketOf[s])
                         \/ rowLock[s] = NoWorker /\ rowLock'[s] = w /\ pc'[w] # "commit"
  PROVE  StoreInv'
  <1> SUFFICES ASSUME NEW s \in Slot \ parted'
               PROVE  blob'[s] = IF Swept(BucketOf[s])' THEN NoBlob ELSE Due(s)'
    BY DEF StoreInv
  <1>1. Swept(BucketOf[s])' <=> Swept(BucketOf[s])
    BY SameSwept DEF Op
  <1>2. blob'[s] = IF Swept(BucketOf[s]) THEN NoBlob ELSE Due(s)
    BY DEF StoreInv
  <1>3. CASE Swept(BucketOf[s])
    BY <1>1, <1>2, <1>3
  <1>4. CASE rowLock'[s] = rowLock[s]
    <2>1. Due(s)' = Due(s)
      BY <1>4, HoldsNothing, SameDue DEF Op
    <2> QED
      BY <1>1, <1>2, <2>1
  <1>5. CASE rowLock[s] = NoWorker /\ rowLock'[s] = w /\ pc'[w] # "commit"
    <2>1. Due(s)' = Due(s)
      BY <1>5 DEF Due
    <2> QED
      BY <1>1, <1>2, <2>1
  <1> QED
    BY <1>3, <1>4, <1>5

LEMMA CalmStoreSteps ==
  ASSUME LockInv, StoreInv, NEW w \in Worker,
         \/ Begins(w) \/ FlushUpdate(w) \/ LockBucket(w) \/ ReadReplaced(w) \/ CheckLimit(w)
         \/ Upsert(w) \/ Load(w) \/ FlushDelete(w) \/ FlushRows(w)
  PROVE  StoreInv'
  <1> USE DEF LockInv
  <1>1. Shape(w) /\ NoWorker \notin Worker
    BY ObjectStorageAssumption DEF ObjectStorageAssumption, Types
  <1>2. UNCHANGED <<row, blob, parted>>
    <2>1. CASE Begins(w)
      BY <2>1, BeginIs DEF Begin, database
    <2> QED
      BY <2>1 DEF FlushUpdate, LockBucket, ReadReplaced, CheckLimit, Upsert, Load,
                  FlushDelete, FlushRows, database
  <1>3. CASE Begins(w)
    <2>1. PICK r, stage : Arrives(r, stage) /\ Begin(w, r, stage)
      BY <1>3, BeginIs
    <2>2. /\ pc'[w] = stage /\ req'[w] = r /\ pc[w] = "idle"
          /\ \A v \in Worker \ {w} : pc'[v] = pc[v] /\ req'[v] = req[v]
      BY <2>1, AskIs DEF Begin
    <2>3. \A b : ~Sweeps(w, b)' /\ ~Sweeps(w, b)
      BY <2>1, <2>2 DEF Arrives, Sweeps, Op
    <2>4. rowLock' = rowLock
      BY <2>1 DEF Begin, locks
    <2> QED
      BY <1>2, <2>2, <2>3, <2>4, CalmStore
  <1>4. CASE FlushUpdate(w) \/ LockBucket(w) \/ CheckLimit(w)
    <2>1. PICK stage : Go(w, stage) /\ UNCHANGED <<req, rowLock>>
      BY <1>4 DEF FlushUpdate, LockBucket, CheckLimit, locks
    <2>2. /\ req'[w] = req[w]
          /\ \A v \in Worker \ {w} : pc'[v] = pc[v] /\ req'[v] = req[v]
      BY <2>1, GoIs
    <2>3. Op(w) # "deletebucket" /\ pc[w] \notin {"s3", "drop", "commit"}
      BY <1>4 DEF FlushUpdate, LockBucket, CheckLimit, At, Op
    <2> QED
      BY <1>2, <2>1, <2>2, <2>3, CalmStore DEF Sweeps, Op
  <1>5. CASE ReadReplaced(w)
    <2> DEFINE r == [req[w] EXCEPT !.delta = req[w].size - Usage({req[w].slot})]
    <2>1. /\ Op(w) = "put" /\ pc[w] = "replaced" /\ UNCHANGED locks
          /\ Go(w, "app") /\ req' = [req EXCEPT ![w] = r]
      BY <1>5 DEF ReadReplaced, At, Op
    <2>2. r.op = req[w].op
      BY DEF Types, Request
    <2> HIDE DEF r
    <2>3. /\ req'[w] = r
          /\ \A v \in Worker \ {w} : pc'[v] = pc[v] /\ req'[v] = req[v]
      BY <2>1, AskIs
    <2> QED
      BY <1>2, <2>1, <2>2, <2>3, CalmStore DEF Sweeps, Op, locks
  <1>6. CASE Load(w)
    <2> DEFINE r == [req[w] EXCEPT !.found = TRUE]
    <2>1. /\ Op(w) = "delete" /\ pc[w] = "load" /\ UNCHANGED locks
          /\ Go(w, "flush") /\ req' = [req EXCEPT ![w] = r]
      BY <1>6 DEF Load, At, Op
    <2>2. r.op = req[w].op
      BY DEF Types, Request
    <2> HIDE DEF r
    <2>3. /\ req'[w] = r
          /\ \A v \in Worker \ {w} : pc'[v] = pc[v] /\ req'[v] = req[v]
      BY <2>1, AskIs
    <2> QED
      BY <1>2, <2>1, <2>2, <2>3, CalmStore DEF Sweeps, Op, locks
  <1>7. CASE Upsert(w) \/ FlushDelete(w)
    <2> DEFINE t == req[w].slot
    <2>1. /\ Op(w) \in {"put", "delete"} /\ pc[w] \in {"upsert", "flush"} /\ t \in Slot
          /\ Go(w, "s3") /\ req' = req
          /\ \/ rowLock' = rowLock
             \/ rowLock[t] \in {NoWorker, w} /\ rowLock' = [rowLock EXCEPT ![t] = w]
      BY <1>1, <1>7 DEF Upsert, FlushDelete, At, Op, RowFree, Shape
    <2>2. /\ req'[w] = req[w] /\ pc'[w] = "s3"
          /\ \A v \in Worker \ {w} : pc'[v] = pc[v] /\ req'[v] = req[v]
      BY <2>1, GoIs
    <2>3. \A b : ~Sweeps(w, b)' /\ ~Sweeps(w, b)
      BY <2>1, <2>2 DEF Sweeps, Op
    <2>4. \A s \in Slot : rowLock[s] # w
      BY <2>1, HoldsNothing
    <2>5. \A s \in Slot : \/ rowLock'[s] = rowLock[s]
                          \/ rowLock[s] = NoWorker /\ rowLock'[s] = w
      BY <2>1, <2>4 DEF Types
    <2> HIDE DEF t
    <2> QED
      BY <1>2, <2>1, <2>2, <2>3, <2>5, CalmStore
  <1>8. CASE FlushRows(w)
    <2> DEFINE S == {s \in SlotsOf(req[w].bucket) : row[s] # NoRow}
    <2>1. /\ Op(w) = "deletebucket" /\ pc[w] = "rows" /\ Go(w, "drop") /\ req' = req
          /\ rowLock' = [s \in Slot |-> IF s \in S THEN w ELSE rowLock[s]]
      BY <1>8 DEF FlushRows, At, Op
    <2>2. /\ req'[w] = req[w] /\ pc'[w] = "drop"
          /\ \A v \in Worker \ {w} : pc'[v] = pc[v] /\ req'[v] = req[v]
      BY <2>1, GoIs
    <2>3. \A b : Sweeps(w, b)' <=> Sweeps(w, b)
      BY <2>1, <2>2 DEF Sweeps, Op
    <2>4. Sweeps(w, req[w].bucket)
      BY <2>1 DEF Sweeps
    <2>5. Swept(req[w].bucket)
      BY <2>4, SweptIs
    <2>6. \A s \in S : BucketOf[s] = req[w].bucket
      BY DEF SlotsOf
    <2>7. \A s \in Slot : rowLock'[s] = rowLock[s] \/ Swept(BucketOf[s])
      BY <2>1, <2>5, <2>6
    <2> HIDE DEF S
    <2> QED
      BY <1>2, <2>1, <2>2, <2>3, <2>7, CalmStore
  <1> QED
    BY <1>3, <1>4, <1>5, <1>6, <1>7, <1>8
\* What the end of a request makes due for a slot.
LEMMA EndDue ==
  ASSUME LockInv, NEW w \in Worker, NEW deleted, NEW grown, Ended(w, deleted, grown),
         NEW s \in Slot
  PROVE  /\ rowLock[s] # w /\ row'[s] = row[s] => Due(s)' = Due(s)
         /\ rowLock[s] = w => Due(s)' = IF row'[s] = NoRow THEN NoBlob ELSE row'[s]
         /\ ~Sweeps(w, BucketOf[s]) => (Swept(BucketOf[s])' <=> Swept(BucketOf[s]))
  <1>1. \A v \in Worker \ {w} :
           /\ pc'[v] = pc[v] /\ Op(v)' = Op(v)
           /\ req'[v].size = req[v].size /\ req'[v].bucket = req[v].bucket
    BY DEF Ended, Op
  <1>2. rowLock'[s] = IF rowLock[s] = w THEN NoWorker ELSE rowLock[s]
    BY DEF Ended
  <1>3. ASSUME rowLock[s] # w, row'[s] = row[s] PROVE Due(s)' = Due(s)
    BY <1>1, <1>2, <1>3, SameDue
  <1>4. ASSUME rowLock[s] = w
        PROVE  Due(s)' = IF row'[s] = NoRow THEN NoBlob ELSE row'[s]
    BY <1>2, <1>4 DEF Due
  <1>5. ASSUME ~Sweeps(w, BucketOf[s]) PROVE Swept(BucketOf[s])' <=> Swept(BucketOf[s])
    <2>1. ~Sweeps(w, BucketOf[s])'
      BY NoRequestTyped DEF Ended, Sweeps, Op
    <2> QED
      BY <1>1, <1>5, <2>1, SameSwept
  <1> QED
    BY <1>3, <1>4, <1>5

\* A request ends that has changed no row and no payload, accidents set aside.
LEMMA EndStore ==
  ASSUME LockInv, StoreInv, NEW w \in Worker, End(w, {}, FALSE), row' = row,
         parted \subseteq parted',
         \A s \in Slot \ parted' : /\ blob'[s] = blob[s]
                                   /\ ~Sweeps(w, BucketOf[s])
                                   /\ rowLock[s] = w => pc[w] # "commit"
  PROVE  StoreInv'
  <1> SUFFICES ASSUME NEW s \in Slot \ parted'
               PROVE  blob'[s] = IF Swept(BucketOf[s])' THEN NoBlob ELSE Due(s)'
    BY DEF StoreInv
  <1> DEFINE none == {}
             grown == FALSE
  <1>1. none \in SUBSET Slot /\ grown \in BOOLEAN /\ End(w, none, grown)
    OBVIOUS
  <1> HIDE DEF none, grown
  <1>2. Ended(w, none, grown)
    BY <1>1, EndIs DEF LockInv
  <1>3. blob[s] = IF Swept(BucketOf[s]) THEN NoBlob ELSE Due(s)
    BY DEF StoreInv
  <1>4. CASE rowLock[s] # w
    BY <1>2, <1>3, <1>4, EndDue
  <1>5. CASE rowLock[s] = w
    <2>1. Due(s) = IF row[s] = NoRow THEN NoBlob ELSE row[s]
      BY <1>5 DEF Due
    <2> QED
      BY <1>2, <1>3, <1>5, <2>1, EndDue
  <1> QED
    BY <1>4, <1>5

LEMMA PartIs == ASSUME NEW S, Part(S) PROVE parted' = parted \union S
  BY DEF Part

LEMMA EndStoreSteps ==
  ASSUME LockInv, StoreInv, NEW w \in Worker,
         \/ Abort(w) \/ CommitUpdate(w)
         \/ (Sweep(w) \/ Store(w) \/ Remove(w)) /\ End(w, {}, FALSE)
  PROVE  StoreInv'
  <1> USE DEF LockInv
  <1>1. Shape(w) /\ pc \in [Worker -> AllStages] /\ NoWorker \notin Worker
    BY ObjectStorageAssumption DEF ObjectStorageAssumption, Types, AllStages
  <1>2. CASE Abort(w)
    <2>1. /\ End(w, {}, FALSE) /\ row' = row /\ blob' = blob
          /\ parted' = parted \union Touched(w)
      BY <1>2, PartIs DEF Abort, database
    <2>2. ASSUME NEW s \in Slot \ parted'
          PROVE  ~Sweeps(w, BucketOf[s]) /\ (rowLock[s] = w => pc[w] # "commit")
      <3>1. s \notin Touched(w)
        BY <2>1
      <3>2. ~Sweeps(w, BucketOf[s])
        BY <3>1 DEF Sweeps, Touched, SlotsOf, Op
      <3>3. ASSUME rowLock[s] = w, pc[w] = "commit" PROVE FALSE
        <4>1. CASE HoldsRow(w, s)
          BY <3>1, <3>3, <4>1 DEF HoldsRow, Touched, Op
        <4>2. CASE Deletes(w, s)
          BY <3>2, <3>3, <4>2 DEF Deletes, Sweeps
        <4> QED
          BY <3>3, <4>1, <4>2 DEF Locks
      <3> QED
        BY <3>2, <3>3
    <2> QED
      BY <2>1, <2>2, EndStore
  <1>3. CASE CommitUpdate(w)
    <2>1. /\ End(w, {}, FALSE) /\ row' = row /\ blob' = blob /\ parted' = parted
          /\ Op(w) = "update"
      BY <1>3 DEF CommitUpdate, At, Op
    <2>2. \A s \in Slot : ~Sweeps(w, BucketOf[s]) /\ rowLock[s] # w
      BY <2>1 DEF Sweeps, Locks, HoldsRow, Deletes
    <2> QED
      BY <2>1, <2>2, EndStore
  <1>4. CASE Sweep(w) /\ End(w, {}, FALSE)
    <2> DEFINE S == {s \in SlotsOf(req[w].bucket) : blob[s] # NoBlob}
    <2>1. PICK left \in SUBSET S :
             /\ blob' = [s \in Slot |-> IF s \in S \ left THEN NoBlob ELSE blob[s]]
             /\ (Part(left) /\ Go(w, "rows")) \/ Part(S \ left)
      BY <1>4 DEF Sweep
    <2>2. row' = row /\ pc[w] = "sweep"
      BY <1>4 DEF Sweep, At, database
    <2>3. ~Go(w, "rows")
      BY <1>1, <1>4 DEF End, Go
    <2> HIDE DEF S
    <2>4. parted' = parted \union (S \ left)
      BY <2>1, <2>3, PartIs
    <2>5. \A s \in Slot : ~Sweeps(w, BucketOf[s]) /\ rowLock[s] # w
      BY <2>2, HoldsNothing DEF Sweeps
    <2>6. \A s \in Slot \ parted' : blob'[s] = blob[s]
      BY <2>1, <2>4
    <2> QED
      BY <1>4, <2>2, <2>4, <2>5, <2>6, EndStore
  <1>5. CASE (Store(w) \/ Remove(w)) /\ End(w, {}, FALSE)
    <2> DEFINE t == req[w].slot
    <2>1. /\ Op(w) \in {"put", "delete"} /\ pc[w] = "s3" /\ t \in Slot /\ row' = row
          /\ Go(w, "commit") \/ Part({t})
          /\ \E n : blob' = [blob EXCEPT ![t] = n]
      BY <1>1, <1>5 DEF Store, Remove, At, Op, Shape, database
    <2>2. ~Go(w, "commit")
      BY <1>1, <1>5 DEF End, Go
    <2> HIDE DEF t
    <2>3. parted' = parted \union {t}
      BY <2>1, <2>2, PartIs
    <2>4. \A s \in Slot : ~Sweeps(w, BucketOf[s])
      BY <2>1 DEF Sweeps
    <2>5. \A s \in Slot \ parted' : blob'[s] = blob[s]
      BY <2>1, <2>3 DEF Types
    <2> QED
      BY <1>5, <2>1, <2>3, <2>4, <2>5, EndStore
  <1> QED
    BY <1>2, <1>3, <1>4, <1>5
LEMMA CommitStoreSteps ==
  ASSUME LockInv, StoreInv, NEW w \in Worker,
         CommitDeleteBucket(w) \/ CommitPut(w) \/ CommitDelete(w)
  PROVE  StoreInv'
  <1> USE DEF LockInv
  <1>1. Shape(w) /\ NoWorker \notin Worker /\ BucketOf \in [Slot -> Bucket]
    BY ObjectStorageAssumption DEF ObjectStorageAssumption, Types
  <1>2. blob' = blob /\ parted' = parted
    BY DEF CommitDeleteBucket, CommitPut, CommitDelete
  <1>3. SUFFICES ASSUME NEW s \in Slot \ parted
                 PROVE  blob[s] = IF Swept(BucketOf[s])' THEN NoBlob ELSE Due(s)'
    BY <1>2 DEF StoreInv
  <1>4. blob[s] = IF Swept(BucketOf[s]) THEN NoBlob ELSE Due(s)
    BY DEF StoreInv
  <1>5. CASE CommitDeleteBucket(w)
    <2> DEFINE b == req[w].bucket
               gone == SlotsOf(b)
               grown == FALSE
    <2>1. /\ Op(w) = "deletebucket" /\ pc[w] = "commit" /\ b \in Bucket
          /\ row' = [t \in Slot |-> IF t \in gone THEN NoRow ELSE row[t]]
          /\ End(w, gone, grown) /\ gone \in SUBSET Slot /\ grown \in BOOLEAN
      BY <1>1, <1>5 DEF CommitDeleteBucket, At, Op, Shape, SlotsOf
    <2>2. s \in gone <=> BucketOf[s] = b
      BY DEF SlotsOf
    <2>3. HoldsBucket(w, b) /\ Sweeps(w, b) /\ Swept(b)
      BY <2>1, SweptIs DEF HoldsBucket, Sweeps
    <2> HIDE DEF b, gone, grown
    <2>4. Ended(w, gone, grown)
      BY <2>1, EndIs
    <2>5. CASE BucketOf[s] # b
      <3>1. ~Sweeps(w, BucketOf[s]) /\ row'[s] = row[s]
        BY <2>1, <2>2, <2>5 DEF Sweeps, b
      <3>2. rowLock[s] # w
        BY <2>1, <2>5 DEF Locks, HoldsRow, Deletes, b
      <3> QED
        BY <1>4, <2>4, <3>1, <3>2, EndDue
    <2>6. CASE BucketOf[s] = b
      <3>1. blob[s] = NoBlob /\ row'[s] = NoRow
        BY <1>4, <2>1, <2>2, <2>3, <2>6
      <3>2. Due(s)' = NoBlob
        <4>1. CASE rowLock[s] \in {w, NoWorker}
          BY <2>4, <3>1, <4>1 DEF Ended, Due
        <4>2. CASE rowLock[s] \notin {w, NoWorker}
          <5>0. PICK v \in Worker : v = rowLock[s]
            BY <4>2 DEF Types
          <5>1. v \in Worker \ {w} /\ rowLock'[s] = v /\ pc'[v] = pc[v] /\ Op(v)' = Op(v)
            BY <2>4, <4>2, <5>0 DEF Ended, Op
          <5>2. HoldsRow(v, s) \/ Deletes(v, s)
            BY <5>0, <5>1 DEF Locks
          <5>3. Op(v) # "put"
            <6> SUFFICES ASSUME Op(v) = "put" PROVE FALSE
              OBVIOUS
            <6>1. HoldsBucket(v, b)
              BY <2>6, <5>2 DEF HoldsRow, HoldsBucket, Deletes
            <6> QED
              BY <2>1, <2>3, <5>1, <6>1, Exclusive
          <5> QED
            BY <3>1, <5>1, <5>3 DEF Due, Op
        <4> QED
          BY <4>1, <4>2
      <3> QED
        BY <3>1, <3>2
    <2> QED
      BY <2>5, <2>6
  <1>6. CASE CommitPut(w)
    <2> DEFINE t == req[w].slot
               none == {}
               grown == req[w].size > Usage({t})
    <2>1. /\ Op(w) = "put" /\ pc[w] = "commit" /\ t \in Slot
          /\ row' = [row EXCEPT ![t] = req[w].size]
          /\ End(w, none, grown) /\ none \in SUBSET Slot /\ grown \in BOOLEAN
      BY <1>1, <1>6 DEF CommitPut, At, Op, Shape
    <2>2. req[w].size # NoRow
      BY <1>1, <2>1, ObjectStorageAssumption DEF ObjectStorageAssumption, Shape
    <2>3. rowLock[t] = w /\ \A u \in Slot : rowLock[u] = w => u = t
      BY <2>1 DEF Locks, HoldsRow, Deletes
    <2> HIDE DEF t, none, grown
    <2>4. Ended(w, none, grown)
      BY <2>1, EndIs
    <2>5. Swept(BucketOf[s])' <=> Swept(BucketOf[s])
      BY <2>1, <2>4, EndDue DEF Sweeps
    <2>6. CASE s = t
      <3>1. Due(s) = req[w].size
        BY <1>1, <2>1, <2>3, <2>6 DEF Due
      <3>2. row'[s] = req[w].size
        BY <2>1, <2>6 DEF Types
      <3>3. Due(s)' = req[w].size
        BY <2>2, <2>3, <2>4, <2>6, <3>2, EndDue
      <3> QED
        BY <1>4, <2>5, <3>1, <3>3
    <2>7. CASE s # t
      <3>1. row'[s] = row[s] /\ rowLock[s] # w
        BY <2>1, <2>3, <2>7 DEF Types
      <3> QED
        BY <1>4, <2>4, <2>5, <3>1, EndDue
    <2> QED
      BY <2>6, <2>7
  <1>7. CASE CommitDelete(w)
    <2> DEFINE t == req[w].slot
               gone == IF req[w].found THEN {t} ELSE {}
               grown == FALSE
    <2>1. /\ Op(w) = "delete" /\ pc[w] = "commit" /\ t \in Slot
          /\ row' = [u \in Slot |-> IF u \in gone THEN NoRow ELSE row[u]]
          /\ End(w, gone, grown) /\ gone \in SUBSET Slot /\ grown \in BOOLEAN
      BY <1>1, <1>7 DEF CommitDelete, At, Op, Shape
    <2>2. \A u \in Slot : rowLock[u] = w <=> u \in gone
      BY <2>1 DEF Locks, HoldsRow, Deletes
    <2> HIDE DEF t, gone, grown
    <2>3. Ended(w, gone, grown)
      BY <2>1, EndIs
    <2>4. Swept(BucketOf[s])' <=> Swept(BucketOf[s])
      BY <2>1, <2>3, EndDue DEF Sweeps
    <2>5. CASE s \in gone
      <3>1. Due(s) = NoBlob
        BY <1>1, <2>1, <2>2, <2>5 DEF Due
      <3>2. Due(s)' = NoBlob
        BY <2>1, <2>2, <2>3, <2>5, EndDue
      <3> QED
        BY <1>4, <2>4, <3>1, <3>2
    <2>6. CASE s \notin gone
      <3>1. row'[s] = row[s] /\ rowLock[s] # w
        BY <2>1, <2>2, <2>6
      <3> QED
        BY <1>4, <2>3, <2>4, <3>1, EndDue
    <2> QED
      BY <2>5, <2>6
  <1> QED
    BY <1>5, <1>6, <1>7
\* Steps that touch S3, the count, and the locks on what has been stored since.
LEMMA SweepStoreSteps ==
  ASSUME LockInv, StoreInv, NEW w \in Worker,
         CreateBucket(w) \/ Count(w) \/ FlushDrop(w) \/ Sweep(w)
  PROVE  StoreInv'
  <1> USE DEF LockInv
  <1>1. Shape(w) /\ BucketOf \in [Slot -> Bucket]
    BY ObjectStorageAssumption DEF ObjectStorageAssumption, Types
  <1>2. CASE CreateBucket(w)
    <2>1. UNCHANGED <<row, blob, pc, req, bucketLock, rowLock, parted>>
      BY <1>2 DEF CreateBucket, locks
    <2> QED
      BY <2>1 DEF StoreInv, Swept, Due, Op
  <1>3. CASE Count(w)
    <2> DEFINE b == req[w].bucket
               S == SlotsOf(b)
               empty == \A s \in S : row[s] = NoRow
               set == IF empty THEN {s \in S : blob[s] # NoBlob} ELSE {}
               stage == IF empty THEN "rows" ELSE "sweep"
    <2>1. /\ Op(w) = "deletebucket" /\ pc[w] = "count" /\ Go(w, stage) /\ Part(set)
          /\ UNCHANGED <<row, blob, req, rowLock>>
      BY <1>3 DEF Count, At, Op, database, locks
    <2>2. parted' = parted \union set
      BY <2>1, PartIs
    <2>3. /\ pc'[w] = stage /\ req'[w] = req[w]
          /\ \A v \in Worker \ {w} : pc'[v] = pc[v] /\ req'[v] = req[v]
      BY <2>1, GoIs
    <2>4. ASSUME ~empty PROVE StoreInv'
      <3>1. \A c : Sweeps(w, c)' <=> Sweeps(w, c)
        BY <2>1, <2>3, <2>4 DEF Sweeps, Op
      <3> HIDE DEF set
      <3> QED
        BY <2>1, <2>2, <2>3, <3>1, CalmStore
    <2>5. ASSUME empty PROVE StoreInv'
      <3>1. SUFFICES ASSUME NEW s \in Slot \ parted'
                     PROVE  blob[s] = IF Swept(BucketOf[s])' THEN NoBlob ELSE Due(s)'
        BY <2>1 DEF StoreInv
      <3>2. blob[s] = (IF Swept(BucketOf[s]) THEN NoBlob ELSE Due(s)) /\ s \notin set
        BY <2>2 DEF StoreInv
      <3>3. Due(s)' = Due(s)
        BY <2>1, <2>3, HoldsNothing, SameDue DEF Op
      <3>4. CASE BucketOf[s] = b
        BY <2>5, <3>2, <3>4, <2>3, <2>1, SweptIsPrimed DEF Sweeps, SlotsOf, Op
      <3>5. CASE BucketOf[s] # b
        <4>1. Sweeps(w, BucketOf[s])' <=> Sweeps(w, BucketOf[s])
          BY <2>1, <2>3, <3>5 DEF Sweeps, Op
        <4>2. Swept(BucketOf[s])' <=> Swept(BucketOf[s])
          BY <2>3, <4>1, SameSwept DEF Op
        <4> QED
          BY <3>2, <3>3, <4>2
      <3> QED
        BY <3>4, <3>5
    <2> QED
      BY <2>4, <2>5
  <1>4. CASE FlushDrop(w)
    <2> DEFINE b == req[w].bucket
               S == {s \in SlotsOf(b) : row[s] # NoRow}
    <2>1. /\ Op(w) = "deletebucket" /\ pc[w] = "drop" /\ Go(w, "commit")
          /\ UNCHANGED <<row, blob, req, parted>>
          /\ rowLock' = [s \in Slot |-> IF s \in S THEN w ELSE rowLock[s]]
      BY <1>4 DEF FlushDrop, At, Op, database
    <2>2. /\ pc'[w] = "commit" /\ req'[w] = req[w]
          /\ \A v \in Worker \ {w} : pc'[v] = pc[v] /\ req'[v] = req[v]
      BY <2>1, GoIs
    <2>3. \A c : Sweeps(w, c)' <=> Sweeps(w, c)
      BY <2>1, <2>2 DEF Sweeps, Op
    <2>4. \A c : Swept(c)' <=> Swept(c)
      BY <2>2, <2>3, SameSwept DEF Op
    <2>5. Swept(b)
      BY <2>1, SweptIs DEF Sweeps
    <2>6. \A s \in S : BucketOf[s] = b
      BY DEF SlotsOf
    <2>7. \A s \in Slot : rowLock[s] = w => BucketOf[s] = b
      BY <2>1 DEF Locks, HoldsRow, Deletes
    <2> HIDE DEF b, S
    <2>8. ASSUME NEW s \in Slot, ~Swept(BucketOf[s]) PROVE Due(s)' = Due(s)
      <3>1. rowLock[s] # w /\ rowLock'[s] = rowLock[s]
        BY <2>1, <2>5, <2>6, <2>7, <2>8
      <3> QED
        BY <2>1, <2>2, <3>1, SameDue DEF Op
    <2> QED
      BY <2>1, <2>4, <2>8 DEF StoreInv
  <1>5. CASE Sweep(w)
    <2> DEFINE b == req[w].bucket
               S == {s \in SlotsOf(b) : blob[s] # NoBlob}
    <2>1. CASE End(w, {}, FALSE)
      BY <1>5, <2>1, EndStoreSteps
    <2>2. CASE ~End(w, {}, FALSE)
      <3>1. PICK left \in SUBSET S :
               /\ blob' = [s \in Slot |-> IF s \in S \ left THEN NoBlob ELSE blob[s]]
               /\ Go(w, "rows") /\ Part(left) /\ UNCHANGED <<req, locks>>
        BY <1>5, <2>2 DEF Sweep
      <3>2. /\ Op(w) = "deletebucket" /\ pc[w] = "sweep" /\ row' = row /\ rowLock' = rowLock
            /\ req' = req /\ parted' = parted \union left
        BY <1>5, <3>1, PartIs DEF Sweep, At, Op, database, locks
      <3>3. /\ pc'[w] = "rows" /\ req'[w] = req[w]
            /\ \A v \in Worker \ {w} : pc'[v] = pc[v] /\ req'[v] = req[v]
        BY <3>1, <3>2, GoIs
      <3>4. SUFFICES ASSUME NEW s \in Slot \ parted'
                     PROVE  blob'[s] = IF Swept(BucketOf[s])' THEN NoBlob ELSE Due(s)'
        BY DEF StoreInv
      <3>5. blob[s] = (IF Swept(BucketOf[s]) THEN NoBlob ELSE Due(s)) /\ s \notin left
        BY <3>2 DEF StoreInv
      <3>6. CASE BucketOf[s] = b
        <4>1. Swept(BucketOf[s])'
          BY <3>2, <3>3, <3>6, SweptIsPrimed DEF Sweeps, Op
        <4>2. s \in SlotsOf(b)
          BY <3>6 DEF SlotsOf
        <4>3. blob'[s] = NoBlob
          BY <3>1, <3>5, <4>2
        <4> QED
          BY <4>1, <4>3
      <3>7. CASE BucketOf[s] # b
        <4>1. Sweeps(w, BucketOf[s])' <=> Sweeps(w, BucketOf[s])
          BY <3>2, <3>3, <3>7 DEF Sweeps, Op
        <4>2. Swept(BucketOf[s])' <=> Swept(BucketOf[s])
          BY <3>3, <4>1, SameSwept DEF Op
        <4>3. Due(s)' = Due(s)
          BY <3>2, <3>3, HoldsNothing, SameDue DEF Op
        <4>4. blob'[s] = blob[s]
          BY <3>1, <3>7 DEF SlotsOf
        <4> QED
          BY <3>5, <4>2, <4>3, <4>4
      <3> QED
        BY <3>6, <3>7
    <2> QED
      BY <2>1, <2>2
  <1> QED
    BY <1>2, <1>3, <1>4, <1>5

LEMMA PayloadStoreSteps ==
  ASSUME LockInv, StoreInv, NEW w \in Worker, Store(w) \/ Remove(w)
  PROVE  StoreInv'
  <1> USE DEF LockInv
  <1>1. Shape(w) /\ NoWorker \notin Worker
    BY ObjectStorageAssumption DEF ObjectStorageAssumption, Types
  <1>2. PICK t \in Slot : t = req[w].slot
    BY <1>1 DEF Store, Remove, At, Shape, Op
  <1>3. CASE End(w, {}, FALSE)
    BY <1>3, EndStoreSteps
  <1>4. CASE ~End(w, {}, FALSE)
    <2>1. /\ Op(w) \in {"put", "delete"} /\ pc[w] = "s3"
          /\ Go(w, "commit") /\ UNCHANGED <<row, req, rowLock>>
      BY <1>4 DEF Store, Remove, At, Op, database, locks
    <2>2. /\ pc'[w] = "commit" /\ req'[w] = req[w]
          /\ \A v \in Worker \ {w} : pc'[v] = pc[v] /\ req'[v] = req[v]
      BY <2>1, GoIs
    <2>3. \A c : Sweeps(w, c)' <=> Sweeps(w, c)
      BY <2>1, <2>2 DEF Sweeps, Op
    <2>4. \A c : Swept(c)' <=> Swept(c)
      BY <2>2, <2>3, SameSwept DEF Op
    <2>5. \A s \in Slot \ {t} : rowLock[s] # w
      BY <1>2, <2>1 DEF Locks, HoldsRow, Deletes
    <2>6. \A s \in Slot \ {t} : Due(s)' = Due(s)
      BY <2>1, <2>2, <2>5, SameDue DEF Op
    <2>7. ASSUME t \notin parted',
                 NEW n, blob' = [blob EXCEPT ![t] = n], parted \subseteq parted' \union {t},
                 n = IF Swept(BucketOf[t]) THEN NoBlob ELSE Due(t)'
          PROVE  StoreInv'
      <3>1. blob'[t] = n /\ \A s \in Slot \ {t} : blob'[s] = blob[s]
        BY <2>1, <2>7 DEF Types
      <3> QED
        BY <2>4, <2>6, <2>7, <3>1 DEF StoreInv
    <2>8. ASSUME t \in parted',
                 NEW n, blob' = [blob EXCEPT ![t] = n], parted \subseteq parted' \union {t}
          PROVE  StoreInv'
      <3>1. \A s \in Slot \ {t} : blob'[s] = blob[s]
        BY <2>1, <2>8 DEF Types
      <3> QED
        BY <2>4, <2>6, <2>8, <3>1 DEF StoreInv
    <2>9. CASE Store(w)
      <3>1. /\ Op(w) = "put" /\ blob' = [blob EXCEPT ![t] = req[w].size]
            /\ IF Swept(BucketOf[t]) THEN Part({t}) ELSE parted' = parted \ {t}
        BY <1>2, <1>4, <2>9 DEF Store, At, Op
      <3>2. CASE Swept(BucketOf[t])
        <4>1. parted' = parted \union {t}
          BY <3>1, <3>2, PartIs
        <4> QED
          BY <2>8, <3>1, <4>1
      <3>3. CASE ~Swept(BucketOf[t])
        <4>1. rowLock[t] = w
          BY <1>2, <2>1, <3>1 DEF Locks, HoldsRow
        <4>2. Due(t)' = req[w].size
          BY <1>1, <2>1, <2>2, <3>1, <4>1 DEF Due, Op
        <4> QED
          BY <2>7, <3>1, <3>3, <4>2
      <3> QED
        BY <3>2, <3>3
    <2>10. CASE Remove(w)
      <3>1. /\ Op(w) = "delete" /\ blob' = [blob EXCEPT ![t] = NoBlob]
            /\ Part(IF req[w].found \/ blob[t] = NoBlob THEN {} ELSE {t})
        BY <1>2, <1>4, <2>10 DEF Remove, At, Op
      <3>2. parted' = parted \union (IF req[w].found \/ blob[t] = NoBlob THEN {} ELSE {t})
        BY <3>1, PartIs
      <3>3. CASE t \in parted'
        BY <2>8, <3>1, <3>2, <3>3
      <3>4. CASE t \notin parted' /\ req[w].found
        <4>1. rowLock[t] = w
          BY <1>2, <2>1, <3>1, <3>4 DEF Locks, HoldsRow
        <4>2. Due(t)' = NoBlob
          BY <1>1, <2>1, <2>2, <3>1, <4>1 DEF Due, Op
        <4> QED
          BY <2>7, <3>1, <3>2, <3>4, <4>2
      <3>5. CASE t \notin parted' /\ ~req[w].found
        <4>1. blob[t] = NoBlob /\ t \notin parted
          BY <3>2, <3>5
        <4>2. NoBlob = IF Swept(BucketOf[t]) THEN NoBlob ELSE Due(t)
          BY <2>1, <4>1 DEF StoreInv
        <4>3. rowLock[t] # w
          BY <1>2, <2>1, <3>1, <3>5 DEF Locks, HoldsRow, Deletes
        <4>4. Due(t)' = Due(t)
          BY <2>1, <2>2, <4>3, SameDue DEF Op
        <4> QED
          BY <2>7, <3>1, <3>2, <3>5, <4>2, <4>4
      <3> QED
        BY <3>3, <3>4, <3>5
    <2> QED
      BY <2>9, <2>10
  <1> QED
    BY <1>3, <1>4

LEMMA StoreStep == LockInv /\ StoreInv /\ [Next]_vars => StoreInv'
  <1> SUFFICES ASSUME LockInv, StoreInv, [Next]_vars PROVE StoreInv'
    OBVIOUS
  <1>1. CASE UNCHANGED vars
    BY <1>1 DEF vars, database, locks, StoreInv, Swept, Due, Op
  <1>2. CASE Next
    BY <1>2, CalmStoreSteps, EndStoreSteps, CommitStoreSteps, SweepStoreSteps,
       PayloadStoreSteps DEF Next, Begins
  <1> QED
    BY <1>1, <1>2

LEMMA StoreMatches == LockInv /\ StoreInv => StoreMatchesRows
  <1> SUFFICES ASSUME LockInv, StoreInv, NEW s \in Slot, rowLock[s] = NoWorker,
                      s \notin parted, ~Swept(BucketOf[s])
               PROVE  \/ Download(s) = [stated |-> NoRow, body |-> NoBlob]
                      \/ row[s] # NoRow /\ Download(s).stated = Download(s).body
    BY DEF StoreMatchesRows
  <1>1. blob[s] = IF row[s] = NoRow THEN NoBlob ELSE row[s]
    BY DEF StoreInv, Due
  <1> QED
    BY <1>1 DEF Download

LEMMA LockTypes == LockInv => TypeOK
  <1> SUFFICES ASSUME LockInv PROVE TypeOK
    OBVIOUS
  <1> USE DEF LockInv
  <1>1. \A s \in Slot : row[s] # NoRow => BucketOf[s] \in Live
    BY DEF Locks
  <1>2. ASSUME NEW w \in Worker
        PROVE  /\ pc[w] \in {"idle", "load", "flush", "count", "sweep", "rows", "drop",
                             "lock", "replaced", "app", "bucket", "user", "upsert", "s3",
                             "commit"}
               /\ At(w, "put", pc[w]) /\ pc[w] # "lock" => bucketLock[BucketOf[req[w].slot]] = w
               /\ pc[w] = "idle" => \A s \in Slot : rowLock[s] # w
    <2>1. Shape(w) /\ BucketOf \in [Slot -> Bucket]
      BY ObjectStorageAssumption DEF ObjectStorageAssumption, Types
    <2>2. pc[w] \in {"idle", "load", "flush", "count", "sweep", "rows", "drop",
                     "lock", "replaced", "app", "bucket", "user", "upsert", "s3", "commit"}
      BY <2>1 DEF Shape, Stages
    <2>3. At(w, "put", pc[w]) /\ pc[w] # "lock" => bucketLock[BucketOf[req[w].slot]] = w
      BY <2>1 DEF At, Shape, Locks, HoldsBucket, Op
    <2>4. pc[w] = "idle" => \A s \in Slot : rowLock[s] # w
      BY HoldsNothing
    <2> QED
      BY <2>2, <2>3, <2>4
  <1>3. \A s \in Slot : row[s] \in Size[s] \union {NoRow} /\ blob[s] \in Size[s] \union {NoBlob}
    BY DEF Types
  <1> QED
    BY <1>1, <1>2, <1>3 DEF TypeOK, Types

-----------------------------------------------------------------------------
(* Limits.                                                                 *)

LEMMA QuotaInit == Init => QuotaInv
  <1> SUFFICES ASSUME Init, NEW w \in Worker PROVE Op(w) # "put"
    BY DEF QuotaInv
  <1> QED
    BY NoRequestTyped DEF Init, Op

LEMMA CountedIs ==
  ASSUME NEW s \in Slot, NEW level \in Levels
  PROVE  /\ Counted(level, s) \in SUBSET Slot /\ s \in Counted(level, s)
         /\ level # "app" => Counted(level, s) \subseteq SlotsOf(BucketOf[s])
  BY DEF Levels, Counted, SlotsOf

LEMMA LimitIs ==
  ASSUME Types, NEW b \in Live, NEW level \in Levels
  PROVE  LimitOf(level, b) \in Nat \union {NoLimit}
  <1>1. AppLimit \in Nat
    BY ObjectStorageAssumption DEF ObjectStorageAssumption
  <1>2. bucket[b].max \in Nat \union {NoLimit} /\ bucket[b].user \in Nat \union {NoLimit}
    <2>1. b \in Bucket /\ bucket[b] \in Limits[b]
      BY DEF Live
    <2>2. {bucket[b].max, bucket[b].user} \subseteq (Nat \ {0}) \union {NoLimit}
      BY <2>1, ObjectStorageAssumption DEF ObjectStorageAssumption
    <2> QED
      BY <2>2
  <1> QED
    BY <1>1, <1>2 DEF LimitOf, Levels

LEMMA BesideIs ==
  ASSUME Types, NEW w \in Worker, req[w].slot \in Slot, NEW level \in Levels
  PROVE  /\ Beside(w, level) = Sum(row, Counted(level, req[w].slot) \ {req[w].slot})
         /\ Beside(w, level) \in Nat
         /\ Usage(Counted(level, req[w].slot)) = Beside(w, level) + Usage({req[w].slot})
         /\ Usage({req[w].slot}) = Weight(row, req[w].slot)
         /\ Usage({req[w].slot}) \in Nat
  <1> DEFINE t == req[w].slot
             S == Counted(level, t)
  <1>1. t \in Slot /\ S \in SUBSET Slot /\ t \in S /\ S \ {t} \in SUBSET Slot
    BY CountedIs
  <1>2. row \in Sizes
    BY RowSizes
  <1>3. Beside(w, level) = Sum(row, S \ {t}) /\ Usage(S) = Sum(row, S)
        /\ Usage({t}) = Sum(row, {t})
    BY UsageIs DEF Beside
  <1> HIDE DEF t, S
  <1>4. Sum(row, S) = Sum(row, S \ {t}) + Sum(row, {t})
    BY <1>1, <1>2, SumSplit
  <1>5. Sum(row, S \ {t}) \in Nat /\ Sum(row, {t}) = Weight(row, t)
    BY <1>1, <1>2, SumTyped, SumOne
  <1>6. Weight(row, t) \in Nat
    BY <1>1, <1>2 DEF Sizes, Weight
  <1> QED
    BY <1>3, <1>4, <1>5, <1>6 DEF S, t

LEMMA BesideIsPrimed ==
  ASSUME Types', NEW w \in Worker, NEW t \in Slot, req'[w].slot = t, NEW level \in Levels
  PROVE  /\ Beside(w, level)' = Sum(row', Counted(level, t) \ {t})
         /\ Usage({req[w].slot})' = Weight(row', t)
  <1>1. row' \in Sizes
    BY ObjectStorageAssumption DEF ObjectStorageAssumption, Types, Sizes
  <1>2. Sum(row', {t}) = Weight(row', t)
    BY <1>1, SumOne
  <1>3. Usage({req[w].slot})' = Sum(row', {t})
    BY DEF Usage, Sum, Bytes
  <1>4. Beside(w, level)' = Sum(row', Counted(level, t) \ {t})
    BY DEF Beside, Usage, Sum, Bytes
  <1> QED
    BY <1>2, <1>3, <1>4

\* A put that has not moved keeps what it has summed up, if the rows beside its own
\* have not grown, its limits stay, and what changed is noted.
LEMMA QuotaBeside ==
  ASSUME LockInv, Types', NEW w \in Worker, Op(w) = "put", Quota(w),
         NEW t \in Slot, req[w].slot = t, req'[w].slot = t,
         pc'[w] = pc[w], req'[w].size = req[w].size, req'[w].delta = req[w].delta,
         req[w].missed \subseteq req'[w].missed, req[w].late => req'[w].late,
         pc[w] \notin {"lock", "replaced"} => bucket'[BucketOf[t]] = bucket[BucketOf[t]],
         row'[t] = row[t] \/ ToSum(pc[w]) \subseteq req'[w].missed,
         pc[w] \notin {"lock", "replaced"} =>
            \A s \in SlotsOf(BucketOf[t]) \ {t} : Weight(row', s) <= Weight(row, s),
         pc[w] \notin {"lock", "replaced", "app"} =>
            \/ req'[w].late
            \/ \A s \in Slot \ {t} : Weight(row', s) <= Weight(row, s)
  PROVE  Quota(w)'
  <1> USE DEF LockInv
  <1>1. row \in Sizes /\ row' \in Sizes /\ BucketOf[t] \in Bucket
    BY RowSizes, ObjectStorageAssumption DEF ObjectStorageAssumption, Types, Sizes
  <1>2. Shape(w) /\ req[w].size \in Nat /\ req[w].missed \subseteq Levels
    BY DEF Types, Request
  <1>3. ASSUME NEW level \in ToSum(pc[w])
        PROVE  level \in req'[w].missed
               \/ req'[w].delta = req'[w].size - Usage({req[w].slot})'
    <2>1. CASE ToSum(pc[w]) \subseteq req'[w].missed
      BY <2>1
    <2>2. CASE row'[t] = row[t]
      <3>1. level \in Levels
        BY DEF ToSum, Levels
      <3>2. Usage({req[w].slot})' = Weight(row', t) /\ Usage({req[w].slot}) = Weight(row, t)
        BY <3>1, BesideIs, BesideIsPrimed
      <3>3. Weight(row', t) = Weight(row, t)
        BY <2>2 DEF Weight
      <3> QED
        BY <3>2, <3>3 DEF Quota
    <2> QED
      BY <2>1, <2>2
  <1>4. ASSUME pc[w] \notin {"lock", "replaced"}, NEW level \in Levels \ ToSum(pc[w])
        PROVE  Summed(w, level)'
    <2>1. Summed(w, level)
      BY <1>4 DEF Quota
    <2>2. CASE level \in req[w].missed \/ (level = "app" /\ req[w].late)
      BY <2>2 DEF Summed
    <2>3. CASE Within(Beside(w, level) + req[w].size, LimitOf(level, BucketOf[t]))
      <3>1. LimitOf(level, BucketOf[req[w].slot])' = LimitOf(level, BucketOf[t])
        BY <1>4 DEF LimitOf
      <3>2. BucketOf[t] \in Live
        BY <1>1, <1>4 DEF Locks, HoldsBucket
      <3>3. LimitOf(level, BucketOf[t]) \in Nat \union {NoLimit}
        BY <3>2, LimitIs
      <3>4. CASE level = "app" /\ req'[w].late
        BY <3>4 DEF Summed
      <3>5. CASE ~(level = "app" /\ req'[w].late)
        <4> DEFINE S == Counted(level, t) \ {t}
        <4>1. S \in SUBSET Slot /\ (level # "app" => S \subseteq SlotsOf(BucketOf[t]) \ {t})
          BY CountedIs
        <4>2. \A s \in S : Weight(row', s) <= Weight(row, s)
          <5>1. CASE level # "app"
            BY <1>4, <4>1, <5>1
          <5>2. CASE level = "app"
            <6>1. pc[w] # "app"
              BY <1>4, <5>2 DEF ToSum
            <6> QED
              BY <1>4, <3>5, <4>1, <5>2, <6>1
          <5> QED
            BY <5>1, <5>2
        <4>3. Beside(w, level) = Sum(row, S) /\ Beside(w, level)' = Sum(row', S)
          BY BesideIs, BesideIsPrimed
        <4> HIDE DEF S
        <4>4. Sum(row', S) <= Sum(row, S) /\ Sum(row', S) \in Nat /\ Sum(row, S) \in Nat
          BY <1>1, <4>1, <4>2, SumLess, SumTyped
        <4>5. Within(Beside(w, level)' + req'[w].size, LimitOf(level, BucketOf[t]))
          BY <1>2, <2>3, <3>3, <4>3, <4>4 DEF Within
        <4> QED
          BY <3>1, <4>5 DEF Summed, Within
      <3> QED
        BY <3>4, <3>5
    <2> QED
      BY <2>1, <2>2, <2>3 DEF Summed
  <1> QED
    BY <1>3, <1>4 DEF Quota

\* What a step of one request may not do to the puts of others, if it writes no row
\* but by deletion.
LEMMA QuotaOthers ==
  ASSUME LockInv, Types', QuotaInv, NEW w \in Worker, Op(w)' = "put" => Quota(w)',
         \A v \in Worker \ {w} :
            /\ pc'[v] = pc[v] /\ Op(v)' = Op(v)
            /\ req'[v].slot = req[v].slot /\ req'[v].size = req[v].size
            /\ req'[v].delta = req[v].delta
            /\ req[v].missed \subseteq req'[v].missed /\ (req[v].late => req'[v].late)
            /\ Op(v) = "put" /\ row'[req[v].slot] # row[req[v].slot] =>
                  ToSum(pc[v]) \subseteq req'[v].missed,
         \A v \in Worker \ {w}, b \in Bucket :
            HoldsBucket(v, b) /\ Op(v) = "put" => bucket'[b] = bucket[b],
         \A s \in Slot : row'[s] \in {row[s], NoRow}
  PROVE  QuotaInv'
  <1> USE DEF LockInv
  <1> SUFFICES ASSUME NEW v \in Worker, Op(v)' = "put" PROVE Quota(v)'
    BY DEF QuotaInv
  <1>1. CASE v = w
    BY <1>1
  <1>2. CASE v # w
    <2>1. /\ v \in Worker \ {w} /\ Op(v) = "put" /\ Quota(v) /\ Shape(v)
          /\ BucketOf \in [Slot -> Bucket] /\ row \in Sizes
      BY <1>2, RowSizes, ObjectStorageAssumption DEF ObjectStorageAssumption, QuotaInv, Types
    <2>2. PICK t \in Slot : t = req[v].slot
      BY <2>1 DEF Shape
    <2>3. \A s \in Slot : Weight(row', s) <= Weight(row, s)
      BY <2>1 DEF Weight, Sizes
    <2>4. pc[v] \notin {"lock", "replaced"} => bucket'[BucketOf[t]] = bucket[BucketOf[t]]
      BY <2>1, <2>2 DEF HoldsBucket
    <2>5. row'[t] = row[t] \/ ToSum(pc[v]) \subseteq req'[v].missed
      BY <2>1, <2>2
    <2>6. \A s \in SlotsOf(BucketOf[t]) \ {t} : Weight(row', s) <= Weight(row, s)
      BY <2>3 DEF SlotsOf
    <2> QED
      BY <2>1, <2>2, <2>3, <2>4, <2>5, <2>6, QuotaBeside
  <1> QED
    BY <1>1, <1>2

\* Steps that write neither rows nor the limits of buckets that are there.
LEMMA CalmQuota ==
  ASSUME LockInv, Types', QuotaInv, NEW w \in Worker, Op(w)' = "put" => Quota(w)',
         \A v \in Worker \ {w} : pc'[v] = pc[v] /\ req'[v] = req[v],
         row' = row, \A b \in Live : bucket'[b] = bucket[b]
  PROVE  QuotaInv'
  <1>1. \A v \in Worker \ {w}, b \in Bucket :
           HoldsBucket(v, b) /\ Op(v) = "put" => bucket'[b] = bucket[b]
    BY DEF LockInv, Locks
  <1>2. \A v \in Worker \ {w} :
            /\ pc'[v] = pc[v] /\ Op(v)' = Op(v)
            /\ req'[v].slot = req[v].slot /\ req'[v].size = req[v].size
            /\ req'[v].delta = req[v].delta
            /\ req[v].missed \subseteq req'[v].missed /\ (req[v].late => req'[v].late)
            /\ Op(v) = "put" /\ row'[req[v].slot] # row[req[v].slot] =>
                  ToSum(pc[v]) \subseteq req'[v].missed
    BY DEF Op
  <1> QED
    BY <1>1, <1>2, QuotaOthers

\* Requests that end without having stored anything.
LEMMA EndQuota ==
  ASSUME LockInv, Types', QuotaInv, NEW w \in Worker, NEW deleted \in SUBSET Slot,
         NEW grown \in BOOLEAN, End(w, deleted, grown),
         \A v \in Worker \ {w}, b \in Bucket :
            HoldsBucket(v, b) /\ Op(v) = "put" => bucket'[b] = bucket[b],
         \A s \in Slot : row'[s] = row[s] \/ (s \in deleted /\ row'[s] = NoRow)
  PROVE  QuotaInv'
  <1>1. Ended(w, deleted, grown)
    BY EndIs DEF LockInv
  <1>2. Op(w)' = "none"
    BY <1>1, NoRequestTyped DEF Ended, Op
  <1>3. ASSUME NEW v \in Worker \ {w}
        PROVE  /\ pc'[v] = pc[v] /\ Op(v)' = Op(v)
               /\ req'[v].slot = req[v].slot /\ req'[v].size = req[v].size
               /\ req'[v].delta = req[v].delta
               /\ req[v].missed \subseteq req'[v].missed /\ (req[v].late => req'[v].late)
               /\ Op(v) = "put" /\ row'[req[v].slot] # row[req[v].slot] =>
                     ToSum(pc[v]) \subseteq req'[v].missed
    <2>1. Op(v) = "put" => req[v].slot \in Slot
      BY DEF LockInv, Types, Shape
    <2> QED
      BY <1>1, <2>1 DEF Ended, Op
  <1>4. \A s \in Slot : row'[s] \in {row[s], NoRow}
    OBVIOUS
  <1> QED
    BY <1>2, <1>3, <1>4, QuotaOthers

LEMMA CommitQuota ==
  ASSUME LockInv, Types', QuotaInv, NEW w \in Worker, CommitPut(w)
  PROVE  QuotaInv'
  <1> USE DEF LockInv
  <1> DEFINE none == {}
  <1>1. Op(w) = "put" /\ pc[w] = "commit" /\ Shape(w) /\ bucket' = bucket
    BY DEF CommitPut, At, Op, Types
  <1>2. PICK t \in Slot : t = req[w].slot
    BY <1>1 DEF Shape
  <1> DEFINE grown == req[w].size > Usage({t})
  <1>3. grown <=> req[w].size > Usage({t})
    OBVIOUS
  <1>4. row' = [row EXCEPT ![t] = req[w].size] /\ End(w, none, grown) /\ none \in SUBSET Slot
        /\ grown \in BOOLEAN
    BY <1>2 DEF CommitPut
  <1>5. HoldsBucket(w, BucketOf[t]) /\ BucketOf \in [Slot -> Bucket]
    BY <1>1, <1>2, ObjectStorageAssumption DEF ObjectStorageAssumption, HoldsBucket
  <1> HIDE DEF none, grown
  <1>6. Ended(w, none, grown)
    BY <1>4, EndIs
  <1>7. row \in Sizes /\ req[w].size \in Nat /\ req[w].size # NoRow
    BY <1>1, <1>2, RowSizes, ObjectStorageAssumption
    DEF ObjectStorageAssumption, Shape, Types, Request
  <1>8. \A s \in Slot : row'[s] = IF s = t THEN req[w].size ELSE row[s]
    BY <1>4 DEF Types
  <1>9. \A s \in Slot \ {t} : Weight(row', s) <= Weight(row, s)
    BY <1>7, <1>8 DEF Weight, Sizes
  <1>10. ~grown => Weight(row', t) <= Weight(row, t)
    <2>1. Usage({t}) = Weight(row, t) /\ Weight(row, t) \in Nat
      BY <1>7, UsageIs, SumOne DEF Weight, Sizes
    <2>2. Weight(row', t) = req[w].size
      BY <1>7, <1>8 DEF Weight
    <2> QED
      BY <1>3, <1>7, <2>1, <2>2
  <1>11. Op(w)' = "none"
    BY <1>6, NoRequestTyped DEF Ended, Op
  <1> SUFFICES ASSUME NEW v \in Worker, Op(v)' = "put" PROVE Quota(v)'
    BY DEF QuotaInv
  <1>12. v \in Worker \ {w}
    BY <1>11
  <1>13. Op(v) = "put" /\ Quota(v) /\ Shape(v)
    BY <1>6, <1>12 DEF Ended, QuotaInv, Types, Op
  <1>14. PICK u \in Slot : u = req[v].slot
    BY <1>13 DEF Shape
  <1>15. /\ req'[v].slot = u /\ pc'[v] = pc[v]
         /\ req'[v].size = req[v].size /\ req'[v].delta = req[v].delta
         /\ req[v].missed \subseteq req'[v].missed /\ (req[v].late => req'[v].late)
         /\ grown /\ pc[v] \notin {"lock", "replaced", "app"} => req'[v].late
    BY <1>6, <1>12, <1>13, <1>14 DEF Ended, Op
  <1>16. pc[v] \notin {"lock", "replaced"} => BucketOf[u] # BucketOf[t]
    <2> SUFFICES ASSUME pc[v] \notin {"lock", "replaced"}, BucketOf[u] = BucketOf[t]
                 PROVE  FALSE
      OBVIOUS
    <2>1. HoldsBucket(v, BucketOf[t])
      BY <1>13, <1>14 DEF HoldsBucket
    <2> QED
      BY <1>5, <1>12, <2>1, Exclusive
  <1>17. row'[u] = row[u] \/ ToSum(pc[v]) \subseteq req'[v].missed
    <2>1. CASE pc[v] \in {"lock", "replaced"}
      BY <2>1 DEF ToSum
    <2>2. CASE pc[v] \notin {"lock", "replaced"}
      BY <1>8, <1>16, <2>2
    <2> QED
      BY <2>1, <2>2
  <1>18. pc[v] \notin {"lock", "replaced"} =>
            \A s \in SlotsOf(BucketOf[u]) \ {u} : Weight(row', s) <= Weight(row, s)
    BY <1>9, <1>16 DEF SlotsOf
  <1>19. pc[v] \notin {"lock", "replaced", "app"} =>
            req'[v].late \/ \A s \in Slot \ {u} : Weight(row', s) <= Weight(row, s)
    BY <1>9, <1>10, <1>15
  <1> QED
    BY <1>1, <1>13, <1>14, <1>15, <1>17, <1>18, <1>19, QuotaBeside

LEMMA CalmQuotaSteps ==
  ASSUME LockInv, Types', QuotaInv, NEW w \in Worker,
         \/ CreateBucket(w) \/ Begins(w) \/ FlushUpdate(w) \/ Count(w) \/ FlushRows(w)
         \/ FlushDrop(w) \/ Load(w) \/ FlushDelete(w) \/ LockBucket(w)
         \/ (Sweep(w) \/ Remove(w)) /\ ~End(w, {}, FALSE)
  PROVE  QuotaInv'
  <1> USE DEF LockInv
  <1>1. Shape(w) /\ pc \in [Worker -> AllStages] /\ req \in [Worker -> Request]
    BY DEF Types, AllStages
  <1>2. CASE CreateBucket(w)
    <2>1. UNCHANGED <<row, pc, req>> /\ pc[w] = "idle"
      BY <1>2 DEF CreateBucket
    <2>2. Op(w)' # "put"
      BY <1>1, <2>1 DEF Shape, Stages, Op
    <2>3. \A b \in Live : b \in Bucket /\ bucket[b] # Unused
      BY ObjectStorageAssumption DEF ObjectStorageAssumption, Live
    <2>4. \A b \in Live : bucket'[b] = bucket[b]
      BY <1>2, <2>3 DEF CreateBucket, Types
    <2> QED
      BY <2>1, <2>2, <2>4, CalmQuota
  <1>3. CASE Begins(w)
    <2>1. PICK r, stage : Arrives(r, stage) /\ Begin(w, r, stage)
      BY <1>3, BeginIs
    <2>2. /\ pc'[w] = stage /\ req'[w] = r /\ row' = row /\ bucket' = bucket
          /\ \A v \in Worker \ {w} : pc'[v] = pc[v] /\ req'[v] = req[v]
      BY <2>1, AskIs DEF Begin, database
    <2>3. Op(w)' = "put" => pc'[w] = "lock"
      BY <2>1, <2>2 DEF Arrives, Op
    <2>4. Op(w)' = "put" => Quota(w)'
      BY <2>3 DEF Quota, ToSum
    <2> QED
      BY <2>2, <2>4, CalmQuota
  <1>4. CASE LockBucket(w)
    <2>1. Go(w, "replaced") /\ req' = req /\ row' = row /\ bucket' = bucket
      BY <1>4 DEF LockBucket, database
    <2>2. pc'[w] = "replaced" /\ \A v \in Worker \ {w} : pc'[v] = pc[v] /\ req'[v] = req[v]
      BY <2>1, GoIs
    <2>3. Quota(w)'
      BY <2>2 DEF Quota, ToSum
    <2> QED
      BY <2>1, <2>2, <2>3, CalmQuota
  <1>5. CASE \/ FlushUpdate(w) \/ Count(w) \/ FlushRows(w) \/ FlushDrop(w) \/ FlushDelete(w)
             \/ (Sweep(w) \/ Remove(w)) /\ ~End(w, {}, FALSE)
    <2>1. PICK stage : Go(w, stage) /\ req' = req /\ row' = row /\ bucket' = bucket
      BY <1>5 DEF FlushUpdate, Count, FlushRows, FlushDrop, FlushDelete, Sweep, Remove, database
    <2>2. Op(w) # "put"
      BY <1>5 DEF FlushUpdate, Count, FlushRows, FlushDrop, FlushDelete, Sweep, Remove, At, Op
    <2>3. req'[w] = req[w] /\ \A v \in Worker \ {w} : pc'[v] = pc[v] /\ req'[v] = req[v]
      BY <2>1, GoIs
    <2> QED
      BY <2>1, <2>2, <2>3, CalmQuota DEF Op
  <1>6. CASE Load(w)
    <2> DEFINE r == [req[w] EXCEPT !.found = TRUE]
    <2>1. /\ Op(w) = "delete" /\ row' = row /\ bucket' = bucket
          /\ Go(w, "flush") /\ req' = [req EXCEPT ![w] = r]
      BY <1>6 DEF Load, At, Op, database
    <2>2. r.op = req[w].op
      BY DEF Types, Request
    <2> HIDE DEF r
    <2>3. req'[w] = r /\ \A v \in Worker \ {w} : pc'[v] = pc[v] /\ req'[v] = req[v]
      BY <2>1, AskIs
    <2> QED
      BY <2>1, <2>2, <2>3, CalmQuota DEF Op
  <1> QED
    BY <1>2, <1>3, <1>4, <1>5, <1>6

\* The sums a put makes, and what it does with them.
LEMMA PutQuotaSteps ==
  ASSUME LockInv, Types', QuotaInv, NEW w \in Worker,
         \/ ReadReplaced(w) \/ CheckLimit(w) \/ Upsert(w)
         \/ Store(w) /\ ~End(w, {}, FALSE)
  PROVE  QuotaInv'
  <1> USE DEF LockInv
  <1>1. Op(w) = "put" /\ row' = row /\ bucket' = bucket
    BY DEF ReadReplaced, CheckLimit, Upsert, Store, At, Op, database
  <1>2. PICK t \in Slot : t = req[w].slot
    BY <1>1 DEF Types, Shape
  <1>3. Quota(w) /\ req[w] \in Request
    BY <1>1 DEF QuotaInv, Types
  <1>4. ASSUME Quota(w)', \A v \in Worker \ {w} : pc'[v] = pc[v] /\ req'[v] = req[v]
        PROVE  QuotaInv'
    BY <1>1, <1>4, CalmQuota
  <1>5. CASE ReadReplaced(w)
    <2> DEFINE r == [req[w] EXCEPT !.delta = req[w].size - Usage({req[w].slot})]
    <2>1. Go(w, "app") /\ req' = [req EXCEPT ![w] = r]
      BY <1>5 DEF ReadReplaced
    <2>2. /\ r.delta = req[w].size - Usage({req[w].slot})
          /\ r.size = req[w].size /\ r.slot = req[w].slot
      BY <1>3 DEF Request
    <2> HIDE DEF r
    <2>3. /\ req'[w] = r /\ pc'[w] = "app"
          /\ \A v \in Worker \ {w} : pc'[v] = pc[v] /\ req'[v] = req[v]
      BY <2>1, AskIs
    <2>4. Usage({req[w].slot})' = Usage({req[w].slot})
      BY <1>1, <2>2, <2>3 DEF Usage
    <2>5. req'[w].delta = req'[w].size - Usage({req[w].slot})'
      BY <2>2, <2>3, <2>4
    <2>6. Levels \ ToSum(pc'[w]) = {}
      BY <2>3 DEF Levels, ToSum
    <2> QED
      BY <1>4, <2>3, <2>5, <2>6 DEF Quota
  <1>6. ASSUME NEW level \in Levels, UNCHANGED req, Summed(w, level) PROVE Summed(w, level)'
    BY <1>1, <1>6 DEF Summed, Beside, Usage, Within, LimitOf
  <1>7. UNCHANGED req => Usage({req[w].slot})' = Usage({req[w].slot})
    BY <1>1 DEF Usage
  <1>8. CASE CheckLimit(w)
    <2> DEFINE level == pc[w]
               stage == CASE level = "app" -> "bucket" [] level = "bucket" -> "user"
                          [] level = "user" -> "upsert"
    <2>1. /\ level \in Levels /\ Go(w, stage) /\ req' = req
          /\ Within(Usage(Counted(level, t)) + req[w].delta, LimitOf(level, BucketOf[t]))
      BY <1>2, <1>8 DEF CheckLimit, Levels
    <2>2. pc'[w] = stage /\ \A v \in Worker \ {w} : pc'[v] = pc[v] /\ req'[v] = req[v]
      BY <2>1, GoIs
    <2>3. /\ level \in ToSum(pc[w]) /\ ToSum(stage) \subseteq ToSum(pc[w])
          /\ ToSum(pc[w]) \ ToSum(stage) = {level} /\ pc[w] \notin {"lock", "replaced"}
      BY <2>1 DEF Levels, ToSum
    <2> HIDE DEF stage
    <2>4. Summed(w, level)
      <3>1. CASE level \in req[w].missed
        BY <3>1 DEF Summed
      <3>2. CASE req[w].delta = req[w].size - Usage({req[w].slot})
        <4>1. /\ Usage(Counted(level, t)) = Beside(w, level) + Usage({t})
              /\ Beside(w, level) \in Nat /\ Usage({t}) \in Nat
          BY <1>2, <2>1, BesideIs
        <4>2. req[w].size \in Nat
          BY <1>3 DEF Request
        <4>3. Usage(Counted(level, t)) + req[w].delta = Beside(w, level) + req[w].size
          BY <1>2, <3>2, <4>1, <4>2
        <4> QED
          BY <1>2, <2>1, <4>3 DEF Summed
      <3> QED
        BY <1>3, <2>3, <3>1, <3>2 DEF Quota
    <2>5. \A l \in Levels \ ToSum(stage) : Summed(w, l)
      BY <1>3, <2>3, <2>4 DEF Quota
    <2>6. \A l \in Levels \ ToSum(stage) : Summed(w, l)'
      BY <1>6, <2>1, <2>5
    <2>7. \A l \in ToSum(stage) :
             l \in req'[w].missed \/ req'[w].delta = req'[w].size - Usage({req[w].slot})'
      BY <1>3, <1>7, <2>1, <2>3 DEF Quota
    <2>8. Quota(w)'
      BY <2>2, <2>6, <2>7 DEF Quota
    <2> QED
      BY <1>4, <2>2, <2>8
  <1>9. CASE Upsert(w) \/ (Store(w) /\ ~End(w, {}, FALSE))
    <2>1. PICK stage \in {"s3", "commit"} : Go(w, stage) /\ req' = req
      BY <1>9 DEF Upsert, Store
    <2>2. pc'[w] = stage /\ \A v \in Worker \ {w} : pc'[v] = pc[v] /\ req'[v] = req[v]
      BY <2>1, GoIs
    <2>3. ToSum(stage) = {} /\ ToSum(pc[w]) = {} /\ pc[w] \notin {"lock", "replaced"}
      BY <1>9, <2>1 DEF ToSum, Upsert, Store, At
    <2>4. \A l \in Levels : Summed(w, l)'
      BY <1>3, <1>6, <2>1, <2>3 DEF Quota
    <2>5. Quota(w)'
      BY <2>2, <2>3, <2>4 DEF Quota
    <2> QED
      BY <1>4, <2>2, <2>5
  <1> QED
    BY <1>5, <1>8, <1>9

LEMMA EndQuotaSteps ==
  ASSUME LockInv, Types', QuotaInv, NEW w \in Worker,
         \/ Abort(w) \/ CommitUpdate(w) \/ CommitDelete(w) \/ CommitDeleteBucket(w)
         \/ (Sweep(w) \/ Store(w) \/ Remove(w)) /\ End(w, {}, FALSE)
  PROVE  QuotaInv'
  <1> USE DEF LockInv
  <1>1. Shape(w)
    BY DEF Types
  <1>2. CASE \/ Abort(w) \/ CommitUpdate(w)
             \/ (Sweep(w) \/ Store(w) \/ Remove(w)) /\ End(w, {}, FALSE)
    <2> DEFINE none == {}
               grown == FALSE
    <2>1. none \in SUBSET Slot /\ grown \in BOOLEAN /\ End(w, none, grown) /\ row' = row
      BY <1>2 DEF Abort, CommitUpdate, Sweep, Store, Remove, database
    <2> HIDE DEF none, grown
    <2>2. ASSUME NEW v \in Worker \ {w}, NEW b \in Bucket, HoldsBucket(v, b), Op(v) = "put"
          PROVE  bucket'[b] = bucket[b]
      <3>1. CASE CommitUpdate(w)
        <4>1. Op(w) = "update" /\ pc[w] = "commit" /\ req[w].bucket \in Bucket
              /\ bucket' = [bucket EXCEPT ![req[w].bucket] = req[w].limits]
          BY <1>1, <3>1 DEF CommitUpdate, At, Op, Shape
        <4>2. HoldsBucket(w, req[w].bucket)
          BY <4>1 DEF HoldsBucket
        <4>3. b # req[w].bucket
          BY <2>2, <4>1, <4>2, Exclusive
        <4> QED
          BY <4>1, <4>3 DEF Types
      <3>2. CASE ~CommitUpdate(w)
        BY <1>2, <3>2 DEF Abort, Sweep, Store, Remove, database
      <3> QED
        BY <3>1, <3>2
    <2> QED
      BY <2>1, <2>2, EndQuota
  <1>3. CASE CommitDelete(w)
    <2> DEFINE gone == IF req[w].found THEN {req[w].slot} ELSE {}
               grown == FALSE
    <2>1. /\ End(w, gone, grown) /\ grown \in BOOLEAN /\ bucket' = bucket
          /\ row' = [s \in Slot |-> IF s \in gone THEN NoRow ELSE row[s]]
          /\ gone \in SUBSET Slot
      BY <1>1, <1>3 DEF CommitDelete, At, Op, Shape
    <2> HIDE DEF gone, grown
    <2>2. \A s \in Slot : row'[s] = row[s] \/ (s \in gone /\ row'[s] = NoRow)
      BY <2>1
    <2> QED
      BY <2>1, <2>2, EndQuota
  <1>4. CASE CommitDeleteBucket(w)
    <2> DEFINE b == req[w].bucket
               gone == SlotsOf(b)
               grown == FALSE
    <2>1. /\ End(w, gone, grown) /\ grown \in BOOLEAN /\ gone \in SUBSET Slot
          /\ b \in Bucket /\ bucket' = [bucket EXCEPT ![b] = Gone]
          /\ row' = [s \in Slot |-> IF s \in gone THEN NoRow ELSE row[s]]
          /\ HoldsBucket(w, b)
      BY <1>1, <1>4 DEF CommitDeleteBucket, At, Op, Shape, SlotsOf, HoldsBucket
    <2> HIDE DEF b, gone, grown
    <2>2. \A s \in Slot : row'[s] = row[s] \/ (s \in gone /\ row'[s] = NoRow)
      BY <2>1
    <2>3. \A v \in Worker \ {w}, c \in Bucket : HoldsBucket(v, c) => bucket'[c] = bucket[c]
      BY <2>1, Exclusive DEF Types
    <2> QED
      BY <2>1, <2>2, <2>3, EndQuota
  <1> QED
    BY <1>2, <1>3, <1>4

LEMMA QuotaStep == LockInv /\ QuotaInv /\ [Next]_vars => QuotaInv'
  <1> SUFFICES ASSUME LockInv, QuotaInv, [Next]_vars PROVE QuotaInv'
    OBVIOUS
  <1>1. Types'
    BY TypesStep DEF LockInv
  <1>2. CASE UNCHANGED vars
    <2>1. UNCHANGED <<bucket, row, pc, req>>
      BY <1>2 DEF vars, database
    <2>2. \A w \in Worker, level \in Levels : Summed(w, level) => Summed(w, level)'
      BY <2>1 DEF Summed, Beside, Usage, Within, LimitOf
    <2>3. \A w \in Worker : Usage({req[w].slot})' = Usage({req[w].slot})
      BY <2>1 DEF Usage
    <2>4. ASSUME NEW w \in Worker, Op(w) = "put", Quota(w) PROVE Quota(w)'
      BY <2>1, <2>2, <2>3, <2>4 DEF Quota
    <2> QED
      BY <2>1, <2>4 DEF QuotaInv, Op
  <1>3. CASE Next
    BY <1>1, <1>3, CalmQuotaSteps, PutQuotaSteps, EndQuotaSteps, CommitQuota DEF Next, Begins
  <1> QED
    BY <1>2, <1>3

\* Only its own commit changes the row of a put that has uploaded.
LEMMA OnlyCommitStores ==
  ASSUME LockInv, NEW w \in Worker, NEW s \in Slot, Next,
         At(w, "put", "commit"), req[w].slot = s, row'[s] # row[s]
  PROVE  CommitPut(w)
  <1> USE DEF LockInv
  <1>1. HoldsRow(w, s) /\ HoldsBucket(w, BucketOf[s]) /\ BucketOf[s] \in Bucket
    BY ObjectStorageAssumption DEF ObjectStorageAssumption, HoldsRow, HoldsBucket, At, Op
  <1>2. PICK v \in Worker :
           /\ row' # row
           /\ CommitPut(v) \/ CommitDelete(v) \/ CommitDeleteBucket(v)
    <2>1. PICK v \in Worker :
       \/ CreateBucket(v)
       \/ BeginUpdate(v) \/ FlushUpdate(v) \/ CommitUpdate(v)
       \/ BeginDeleteBucket(v) \/ Count(v) \/ Sweep(v) \/ FlushRows(v) \/ FlushDrop(v)
       \/ CommitDeleteBucket(v)
       \/ BeginPut(v) \/ LockBucket(v) \/ ReadReplaced(v) \/ CheckLimit(v)
       \/ Upsert(v) \/ Store(v) \/ CommitPut(v)
       \/ BeginDelete(v) \/ Load(v) \/ FlushDelete(v) \/ Remove(v) \/ CommitDelete(v)
       \/ Abort(v)
      BY DEF Next
    <2>2. Begins(v) => row' = row
      BY BeginIs DEF Begin, database
    <2> QED
      BY <2>1, <2>2 DEF Begins, CreateBucket, FlushUpdate, CommitUpdate, Count, Sweep, FlushRows,
         FlushDrop, LockBucket, ReadReplaced, CheckLimit, Upsert, Store, Load, FlushDelete,
         Remove, Abort, database
  <1>3. CASE v = w
    BY <1>2, <1>3 DEF CommitDelete, CommitDeleteBucket, At
  <1>4. CASE v # w
    <2>1. ~HoldsRow(v, s) /\ ~HoldsBucket(v, BucketOf[s])
      BY <1>1, <1>4, Exclusive
    <2>2. CASE CommitPut(v)
      BY <2>1, <2>2 DEF CommitPut, HoldsRow, At, Op, Types
    <2>3. CASE CommitDelete(v)
      BY <2>1, <2>3 DEF CommitDelete, HoldsRow, At, Op
    <2>4. CASE CommitDeleteBucket(v)
      BY <2>1, <2>4 DEF CommitDeleteBucket, HoldsBucket, SlotsOf, At, Op
    <2> QED
      BY <1>2, <2>2, <2>3, <2>4
  <1> QED
    BY <1>3, <1>4

LEMMA QuotaHolds ==
  LockInv /\ QuotaInv /\ Types' /\ [Next]_vars =>
     \A w \in Worker, s \in Slot :
        At(w, "put", "commit") /\ req[w].slot = s /\ row'[s] # row[s] =>
           \A level \in {"app", "bucket", "user"} :
              \/ Within(Usage(Counted(level, s))', LimitOf(level, BucketOf[s]))
              \/ level \in req[w].missed
              \/ level = "app" /\ req[w].late
  <1> SUFFICES ASSUME LockInv, QuotaInv, Types', [Next]_vars, NEW w \in Worker, NEW s \in Slot,
                      At(w, "put", "commit"), req[w].slot = s, row'[s] # row[s],
                      NEW level \in Levels
               PROVE  \/ Within(Usage(Counted(level, s))', LimitOf(level, BucketOf[s]))
                      \/ level \in req[w].missed
                      \/ level = "app" /\ req[w].late
    BY DEF Levels
  <1> USE DEF LockInv
  <1>1. CommitPut(w)
    BY OnlyCommitStores DEF vars, database
  <1>2. row' = [row EXCEPT ![s] = req[w].size]
    BY <1>1 DEF CommitPut
  <1>3. Summed(w, level)
    BY DEF QuotaInv, Quota, ToSum, Levels, At, Op
  <1>4. row \in Sizes /\ row' \in Sizes /\ req[w].size \in Nat /\ req[w].size # NoRow
    <2>1. Shape(w) /\ req[w] \in Request
      BY DEF Types
    <2> QED
      BY <2>1, RowSizes, ObjectStorageAssumption
      DEF ObjectStorageAssumption, Sizes, Types, Shape, Request, At, Op
  <1> DEFINE S == Counted(level, s)
             beside == Beside(w, level)
  <1>5. S \in SUBSET Slot /\ s \in S /\ S \ {s} \in SUBSET Slot
    BY CountedIs
  <1>6. beside = Sum(row, S \ {s}) /\ beside \in Nat
    BY BesideIs
  <1>7. Usage(S)' = Sum(row', S)
    BY DEF Usage, Sum, Bytes
  <1> HIDE DEF S, beside
  <1>8. Sum(row', S) = Sum(row', S \ {s}) + Sum(row', {s})
    BY <1>4, <1>5, SumSplit
  <1>9. Sum(row', {s}) = req[w].size
    BY <1>2, <1>4, SumOne DEF Weight, Types
  <1>10. Sum(row', S \ {s}) = Sum(row, S \ {s})
    <2>1. \A t \in S \ {s} : row'[t] = row[t]
      BY <1>2, <1>5 DEF Types
    <2>2. Bytes(row', S \ {s}) = Bytes(row, S \ {s})
      BY <2>1 DEF Bytes
    <2> QED
      BY <2>2 DEF Sum
  <1>11. Usage(S)' = beside + req[w].size
    BY <1>4, <1>6, <1>7, <1>8, <1>9, <1>10
  <1> QED
    BY <1>3, <1>11 DEF Summed, S, beside

-----------------------------------------------------------------------------
(* Theorems.                                                               *)

\* Every request keeps its locks from the flush to the end of its transaction, and no
\* two hold a bucket or an object at once: _lock_bucket, the flushes and the commits.
THEOREM LocksHeld == Spec => []LockInv
  <1>1. Init => LockInv
    BY TypesInit, LocksInit DEF LockInv
  <1>2. LockInv /\ [Next]_vars => LockInv'
    BY LockStep
  <1> QED
    BY <1>1, <1>2, PTL DEF Spec

\* The state has its types: the variables, and the locks of TypeOK.
THEOREM TypeCorrect == Spec => []TypeOK
  <1>1. LockInv => TypeOK
    BY LockTypes
  <1> QED
    BY <1>1, LocksHeld, PTL

\* services/objects.py:8-11: once nobody holds an object, its row and its payload in
\* S3 are both there and of one size, or neither is, except after the accidents that
\* parted records, whatever requests ran beside each other and wherever they failed.
THEOREM StoreAlwaysMatches == Spec => []StoreMatchesRows
  <1>1. Init => StoreInv
    BY StoreInit
  <1>2. LockInv /\ StoreInv /\ [Next]_vars => StoreInv'
    BY StoreStep
  <1>3. LockInv /\ StoreInv => StoreMatchesRows
    BY StoreMatches
  <1> QED
    BY <1>1, <1>2, <1>3, LocksHeld, PTL DEF Spec

\* services/objects.py:11-15: an upload that changes the usage leaves the application,
\* the bucket and the user within their limits, because puts to a bucket queue for its
\* row, except where missed and late record what was read before others committed.
THEOREM QuotaAlwaysKept == Spec => QuotaKept
  <1>1. Init => QuotaInv
    BY QuotaInit
  <1>2. LockInv /\ QuotaInv /\ [Next]_vars => QuotaInv'
    BY QuotaStep
  <1>3. LockInv => Types
    BY DEF LockInv
  <1>4. LockInv /\ QuotaInv /\ Types' /\ [Next]_vars =>
           [\A w \in Worker, s \in Slot :
              At(w, "put", "commit") /\ req[w].slot = s /\ row'[s] # row[s] =>
                 \A level \in {"app", "bucket", "user"} :
                    \/ Within(Usage(Counted(level, s))', LimitOf(level, BucketOf[s]))
                    \/ level \in req[w].missed
                    \/ level = "app" /\ req[w].late]_vars
    BY QuotaHolds
  <1> QED
    BY <1>1, <1>2, <1>3, <1>4, LocksHeld, PTL DEF Spec, QuotaKept

=============================================================================
