------------------------- MODULE SigningKeysProofs -------------------------
(***************************************************************************)
(* Proofs about SigningKeys: whatever rotations, adoptions and drops       *)
(* overlap, the application keeps an active key on its row, and a retired  *)
(* key stays retired.                                                      *)
(***************************************************************************)
EXTENDS SigningKeys, TLAPS

\* What every action assumes: types and the invariant before it.
Before == TypeOK /\ KeysInv

-----------------------------------------------------------------------------
(* Types.                                                                  *)

LEMMA InitTyped == Init => TypeOK
  BY SigningAssumption DEF Init, TypeOK, NoKeys, KeyState

LEMMA EndTyped ==
  ASSUME TypeOK, NEW w \in Worker, EndRequest(w)
  PROVE  /\ pc' \in [Worker -> Ops \union {"idle", "adopt", "done"}]
         /\ op' \in [Worker -> Ops \union {"none", "admin"}]
         /\ \A v \in Worker : pc'[v] = "adopt" => op'[v] \in Ops
         /\ seen' \in [Worker -> [Key -> KeyState]]
         /\ copy' \in [Worker -> [Key -> KeyState]]
         /\ fresh' \in [Worker -> Key \union {NoKey}]
         /\ signer' \in [Worker -> Key \union {NoKey}]
         /\ early' \in [Worker -> SUBSET Key]
  BY DEF TypeOK, EndRequest, NoKeys, KeyState

LEMMA ReadTyped ==
  ASSUME TypeOK, NEW w \in Worker, NEW o \in Ops, Read(w, o),
         early' \in [Worker -> SUBSET Key]
  PROVE  TypeOK'
  BY DEF TypeOK, Read, committed, Ops

LEMMA NextTyped == TypeOK /\ [Next]_vars => TypeOK'
<1> SUFFICES ASSUME TypeOK, [Next]_vars PROVE TypeOK'
  OBVIOUS
<1> USE SigningAssumption
<1>1. ASSUME NEW w \in Worker, BeginList(w) \/ BeginMint(w) \/ BeginRotate(w) \/ BeginDrop(w)
      PROVE  TypeOK'
  <2>1. early' \in [Worker -> SUBSET Key]
    BY <1>1 DEF BeginList, BeginMint, BeginRotate, BeginDrop, TypeOK, RetiredIn
  <2> QED
    BY <1>1, <2>1, ReadTyped DEF BeginList, BeginMint, BeginRotate, BeginDrop, Ops
<1>2. ASSUME NEW w \in Worker, Adopt(w) PROVE TypeOK'
  <2>1. copy' \in [Worker -> [Key -> KeyState]] /\ seen' \in [Worker -> [Key -> KeyState]]
    BY <1>2 DEF Adopt, TypeOK, KeyState
  <2>2. pc' \in [Worker -> Ops \union {"idle", "adopt", "done"}]
    <3>1. op[w] \in Ops
      BY <1>2 DEF Adopt, TypeOK
    <3> QED
      BY <1>2, <3>1 DEF Adopt, TypeOK
  <2>3. \A v \in Worker : pc'[v] = "adopt" => op'[v] \in Ops
    BY <1>2 DEF Adopt, TypeOK, Ops
  <2> QED
    BY <1>2, <2>1, <2>2, <2>3 DEF Adopt, TypeOK, committed, drops
<1>3. ASSUME NEW w \in Worker, List(w) \/ MintAdmin(w) PROVE TypeOK'
  <2>1. CASE List(w)
    BY <2>1 DEF List, TypeOK, committed, drops
  <2>2. CASE MintAdmin(w)
    <3>1. \A v \in Worker : pc'[v] = "adopt" => op'[v] \in Ops
      BY <2>2 DEF MintAdmin, TypeOK
    <3>2. op' \in [Worker -> Ops \union {"none", "admin"}]
      BY <2>2 DEF MintAdmin, TypeOK
    <3> QED
      BY <2>2, <3>1, <3>2 DEF MintAdmin, TypeOK, committed, drops
  <2> QED
    BY <1>3, <2>1, <2>2
<1>4. ASSUME NEW w \in Worker, Mint(w) PROVE TypeOK'
  BY <1>4 DEF Mint, TypeOK, committed, drops, ActiveIn, Listed
<1>5. ASSUME NEW w \in Worker, Rotate(w) PROVE TypeOK'
  <2>1. copy' \in [Worker -> [Key -> KeyState]]
    BY <1>5 DEF Rotate, TypeOK, KeyState, RetiredState
  <2> QED
    BY <1>5, <2>1 DEF Rotate, TypeOK, committed, drops
<1>6. ASSUME NEW w \in Worker, Drop(w) PROVE TypeOK'
  <2>1. copy' \in [Worker -> [Key -> KeyState]]
    BY <1>6 DEF Drop, TypeOK, KeyState
  <2> QED
    BY <1>6, <2>1 DEF Drop, TypeOK, committed, drops
<1>7. ASSUME NEW w \in Worker, Commit(w) PROVE TypeOK'
  <2>1. key' \in [Key -> KeyState]
    BY <1>7 DEF Commit, TypeOK
  <2>2. inline' \in Key
    BY <1>7 DEF Commit, TypeOK, InlineAfter
  <2>3. token' \in [Token -> SUBSET Signed]
    <3>1. CASE signer[w] = NoKey
      BY <1>7, <3>1 DEF Commit, TypeOK
    <3>2. CASE signer[w] # NoKey
      <4> DEFINE t == [kind |-> IF op[w] = "admin" THEN "admin" ELSE "access",
                       key |-> signer[w]]
      <4>1. t \in Signed
        BY <3>2 DEF TypeOK, Signed, Kinds
      <4>2. PICK x \in Token : token' = [token EXCEPT ![x] = {t}]
        BY <1>7, <3>2 DEF Commit
      <4> QED
        BY <4>1, <4>2 DEF TypeOK
    <3> QED
      BY <3>1, <3>2
  <2> QED
    BY <1>7, <2>1, <2>2, <2>3, EndTyped DEF Commit, TypeOK
<1>8. ASSUME NEW w \in Worker, Abort(w) PROVE TypeOK'
  BY <1>8, EndTyped DEF Abort, TypeOK, committed
<1>9. ASSUME NEW x \in Token, Expire(x) PROVE TypeOK'
  BY <1>9 DEF Expire, TypeOK, committed, session
<1>10. CASE UNCHANGED vars
  BY <1>10 DEF vars, TypeOK
<1> QED
  BY <1>1, <1>2, <1>3, <1>4, <1>5, <1>6, <1>7, <1>8, <1>9, <1>10 DEF Next

\* Every variable has its type, for any number of keys, tokens and requests.
THEOREM TypeCorrect == Spec => []TypeOK
  BY InitTyped, NextTyped, PTL DEF Spec

-----------------------------------------------------------------------------
(* The invariant.                                                          *)

LEMMA InitKeys == Init => KeysInv
  BY SigningAssumption
     DEF Init, KeysInv, NoKeys, InlineIsActive, Unadopted, Adopted, Listed, RequestFine,
         Adopter, CopyFine, Apart, Flushed, Ops

\* A step of request w that writes no row: it keeps the invariant if w is fine
\* after it and has not flushed a row or a new key that another request holds.
LEMMA RequestStep ==
  ASSUME KeysInv, NEW w \in Worker, UNCHANGED committed,
         \A v \in Worker \ {w} :
            /\ pc'[v] = pc[v] /\ seen'[v] = seen[v]
            /\ copy'[v] = copy[v] /\ fresh'[v] = fresh[v],
         Adopter(w)', \A k \in Key : CopyFine(w, k)',
         \A v \in Worker \ {w} : Apart(v, w)'
  PROVE  KeysInv'
<1>1. InlineIsActive' /\ Unadopted'
  BY DEF KeysInv, InlineIsActive, Unadopted, Adopted, committed
<1>2. ASSUME NEW v \in Worker \ {w} PROVE RequestFine(v)'
  <2>1. RequestFine(v)
    BY DEF KeysInv
  <2>2. Adopter(v)'
    BY <2>1 DEF RequestFine, Adopter, Listed, committed
  <2>3. \A k \in Key : CopyFine(v, k)'
    BY <2>1 DEF RequestFine, CopyFine, committed
  <2>4. \A u \in Worker \ {v} : Apart(u, v)'
    <3>1. Apart(v, w)'
      OBVIOUS
    <3>2. Apart(w, v)'
      BY <3>1 DEF Apart
    <3>3. ASSUME NEW u \in Worker \ {v}, u # w PROVE Apart(u, v)'
      BY <2>1, <3>3 DEF RequestFine, Apart, Flushed
    <3> QED
      BY <3>2, <3>3
  <2> QED
    BY <2>2, <2>3, <2>4 DEF RequestFine
<1>3. RequestFine(w)'
  BY DEF RequestFine
<1> QED
  BY <1>1, <1>2, <1>3 DEF KeysInv

LEMMA ReadKeeps ==
  ASSUME Before, TypeOK', NEW w \in Worker, NEW o \in Ops, Read(w, o)
  PROVE  KeysInv'
<1>0. RequestFine(w) /\ pc[w] = "idle"
  BY DEF Before, KeysInv, Read
<1>1. Adopter(w)'
  BY <1>0 DEF Before, TypeOK, Read, Adopter, Listed, Ops, RequestFine, committed
<1>2. \A k \in Key : CopyFine(w, k)'
  BY <1>0 DEF Before, TypeOK, Read, RequestFine, CopyFine, committed, Ops
<1>3. \A v \in Worker \ {w} : Apart(v, w)'
  BY <1>0 DEF Read, RequestFine, Apart, Flushed
<1> QED
  BY <1>1, <1>2, <1>3, RequestStep DEF Before, Read, TypeOK

LEMMA AdoptKeeps ==
  ASSUME Before, TypeOK', NEW w \in Worker, Adopt(w)
  PROVE  KeysInv'
<1> USE SigningAssumption
<1>0. RequestFine(w) /\ pc[w] = "adopt" /\ key[inline] = "absent"
  BY DEF Before, KeysInv, Adopt
<1>1. /\ Listed(key) = {} /\ inline = FirstKey
      /\ \A k \in Key : key[k] = "absent"
  BY <1>0 DEF Before, KeysInv, InlineIsActive, Unadopted, Adopted, Listed
<1>2. /\ copy'[w] = [copy[w] EXCEPT ![FirstKey] = "active"]
      /\ seen'[w] = [seen[w] EXCEPT ![FirstKey] = "active"]
      /\ UNCHANGED <<committed, fresh>>
  BY <1>1 DEF Adopt, Before, TypeOK
<1>3. Adopter(w)'
  BY <1>1, <1>2 DEF Before, TypeOK, Adopter, Listed
<1>4. fresh[w] = NoKey
  BY <1>0 DEF RequestFine, CopyFine, Before, TypeOK
<1>5. \A k \in Key : CopyFine(w, k)'
  BY <1>0, <1>1, <1>2, <1>4 DEF RequestFine, CopyFine, Before, TypeOK, committed
<1>6. \A v \in Worker \ {w} : Apart(v, w)'
  BY <1>0, <1>1, <1>2, <1>4
     DEF Adopt, RowsFree, RequestFine, Apart, Flushed, Before, TypeOK
<1> QED
  BY <1>2, <1>3, <1>5, <1>6, RequestStep DEF Before, Adopt, TypeOK

LEMMA SignKeeps ==
  ASSUME Before, TypeOK', NEW w \in Worker, List(w) \/ Mint(w) \/ MintAdmin(w)
  PROVE  KeysInv'
<1>0. /\ RequestFine(w) /\ pc'[w] = "done"
      /\ UNCHANGED <<committed, seen, copy, fresh>>
  BY DEF Before, KeysInv, TypeOK, List, Mint, MintAdmin
<1>1. Adopter(w)'
  BY <1>0 DEF RequestFine, Adopter, Listed, Ops, committed
<1>2. \A k \in Key : CopyFine(w, k)'
  BY <1>0 DEF RequestFine, CopyFine, committed
<1>3. \A v \in Worker \ {w} : Apart(v, w)'
  BY <1>0 DEF RequestFine, Apart, Flushed
<1>4. \A v \in Worker \ {w} : pc'[v] = pc[v]
  BY DEF Before, TypeOK, List, Mint, MintAdmin
<1> QED
  BY <1>0, <1>1, <1>2, <1>3, <1>4, RequestStep DEF Before

LEMMA RotateKeeps ==
  ASSUME Before, TypeOK', NEW w \in Worker, Rotate(w)
  PROVE  KeysInv'
<1> USE SigningAssumption
<1> DEFINE old == ActiveIn(seen[w])
<1>0. RequestFine(w) /\ pc[w] = "rotate" /\ pc'[w] = "done"
  BY DEF Before, KeysInv, TypeOK, Rotate
<1>1. PICK new \in Key \ {FirstKey} :
        /\ key[new] = "absent" /\ fresh' = [fresh EXCEPT ![w] = new]
        /\ copy' = [copy EXCEPT ![w] = [j \in Key |->
                      IF j = new THEN "active"
                        ELSE IF j \in old THEN RetiredState ELSE @[j]]]
  BY DEF Rotate
<1>2. /\ \A k \in Key : copy'[w][k] = IF k = new THEN "active"
                                        ELSE IF k \in old THEN "retired" ELSE copy[w][k]
      /\ fresh'[w] = new
      /\ UNCHANGED <<committed, seen>>
      /\ \A v \in Worker \ {w} : /\ pc'[v] = pc[v] /\ seen'[v] = seen[v]
                                  /\ copy'[v] = copy[v] /\ fresh'[v] = fresh[v]
  BY <1>1 DEF Rotate, RetiredState, Before, TypeOK
<1>3. fresh[w] = NoKey
  BY <1>0 DEF RequestFine, CopyFine, Before, TypeOK
<1>4. \A v \in Worker \ {w} : fresh[v] = NoKey /\ Flushed(v) \intersect old = {}
  BY DEF Rotate, RowsFree
<1>5. Adopter(w)'
  BY <1>0, <1>2 DEF RequestFine, Adopter, Listed, Ops, committed
<1>6. ASSUME NEW k \in Key PROVE CopyFine(w, k)'
  <2>1. k \in old => key[k] # "dropped"
    BY DEF Rotate, StillListed
  <2>2. CopyFine(w, k)
    BY <1>0 DEF RequestFine
  <2> QED
    BY <1>0, <1>1, <1>2, <1>3, <2>1, <2>2 DEF CopyFine, committed
<1>7. ASSUME NEW v \in Worker \ {w} PROVE Apart(v, w)'
  <2>1. new \notin Flushed(v)
    <3>1. RequestFine(v) /\ fresh[v] = NoKey
      BY <1>4 DEF Before, KeysInv
    <3>2. CopyFine(v, new) /\ copy[v][new] \in KeyState
      BY <3>1 DEF RequestFine, Before, TypeOK
    <3> QED
      BY <1>1, <3>1, <3>2 DEF CopyFine, KeyState, Flushed
  <2>2. Flushed(w)' \subseteq Flushed(w) \union old \union {new}
    BY <1>2 DEF Flushed
  <2>3. Flushed(v)' = Flushed(v) /\ fresh'[v] = NoKey
    BY <1>2, <1>4 DEF Flushed
  <2>4. Flushed(v) \intersect Flushed(w) = {}
    BY <1>0 DEF RequestFine, Apart
  <2> QED
    BY <1>4, <2>1, <2>2, <2>3, <2>4 DEF Apart
<1> QED
  BY <1>2, <1>5, <1>6, <1>7, RequestStep DEF Before

LEMMA DropKeeps ==
  ASSUME Before, TypeOK', NEW w \in Worker, Drop(w)
  PROVE  KeysInv'
<1> DEFINE gone == RetiredIn(seen[w])
<1>0. RequestFine(w) /\ pc[w] = "drop" /\ pc'[w] = "done"
  BY DEF Before, KeysInv, TypeOK, Drop
<1>1. /\ \A k \in Key : copy'[w][k] = IF k \in gone THEN "dropped" ELSE copy[w][k]
      /\ UNCHANGED <<committed, seen, fresh>>
      /\ \A v \in Worker \ {w} : pc'[v] = pc[v] /\ copy'[v] = copy[v]
  BY DEF Drop, Condemned, Before, TypeOK
<1>2. \A v \in Worker \ {w} : Flushed(v) \intersect gone = {}
  BY DEF Drop, RowsFree, Condemned
<1>3. Adopter(w)'
  BY <1>0, <1>1, SigningAssumption DEF RequestFine, Adopter, Listed, Ops, committed
<1>4. ASSUME NEW k \in Key PROVE CopyFine(w, k)'
  <2>1. CopyFine(w, k)
    BY <1>0 DEF RequestFine
  <2>2. k \in gone => key[k] \in {"retired", "dropped"}
    BY <2>1 DEF CopyFine, RetiredIn
  <2>3. k # fresh[w]
    BY <1>0, <2>1 DEF CopyFine
  <2> QED
    BY <1>1, <2>1, <2>2, <2>3 DEF CopyFine, committed
<1>5. ASSUME NEW v \in Worker \ {w} PROVE Apart(v, w)'
  <2>1. Apart(v, w)
    BY <1>0 DEF RequestFine
  <2>2. Flushed(w)' \subseteq Flushed(w) \union gone
    BY <1>1 DEF Flushed
  <2>3. Flushed(v)' = Flushed(v)
    BY <1>1 DEF Flushed
  <2> QED
    BY <1>1, <1>2, <2>1, <2>2, <2>3 DEF Apart
<1> QED
  BY <1>1, <1>3, <1>4, <1>5, RequestStep DEF Before

LEMMA EndKeeps ==
  ASSUME TypeOK, NEW w \in Worker, EndRequest(w)
  PROVE  /\ Adopter(w)' /\ \A k \in Key : CopyFine(w, k)'
         /\ Flushed(w)' = {} /\ fresh'[w] = NoKey
         /\ \A v \in Worker \ {w} : /\ pc'[v] = pc[v] /\ seen'[v] = seen[v]
                                     /\ copy'[v] = copy[v] /\ fresh'[v] = fresh[v]
<1>1. /\ pc'[w] = "idle" /\ seen'[w] = NoKeys /\ copy'[w] = NoKeys
      /\ fresh'[w] = NoKey
      /\ \A v \in Worker \ {w} : /\ pc'[v] = pc[v] /\ seen'[v] = seen[v]
                                  /\ copy'[v] = copy[v] /\ fresh'[v] = fresh[v]
  BY DEF EndRequest, TypeOK
<1>2. \A k \in Key : seen'[w][k] = "absent" /\ copy'[w][k] = "absent"
  BY <1>1 DEF NoKeys
<1>3. Adopter(w)' /\ Flushed(w)' = {}
  BY <1>1, <1>2 DEF Adopter, Listed, Flushed, Ops
<1>4. \A k \in Key : CopyFine(w, k)'
  BY <1>1, <1>2, SigningAssumption DEF CopyFine
<1> QED
  BY <1>1, <1>3, <1>4

LEMMA AbortKeeps ==
  ASSUME Before, NEW w \in Worker, Abort(w)
  PROVE  KeysInv'
<1>1. \A v \in Worker \ {w} : Apart(v, w)'
  BY EndKeeps DEF Abort, Apart, Before
<1> QED
  BY <1>1, EndKeeps, RequestStep DEF Abort, Before

\* What a commit does to the keys, and to the key on the application row.
LEMMA CommitWrites ==
  ASSUME Before, NEW w \in Worker, Commit(w)
  PROVE  /\ \A k \in Key :
               /\ k \notin Flushed(w) => key'[k] = key[k]
               /\ key[k] \in {"retired", "dropped"} => key'[k] \in {"retired", "dropped"}
               /\ key[k] = "dropped" => key'[k] = "dropped"
               /\ key[k] # "absent" => key'[k] # "absent"
         /\ InlineIsActive' /\ Unadopted'
         /\ Listed(key) # {} => Listed(key)' # {}
<1> USE SigningAssumption
<1>0. RequestFine(w)
  BY DEF Before, KeysInv
<1>1. \A k \in Key : key'[k] = IF copy[w][k] # "absent" THEN copy[w][k] ELSE key[k]
  BY DEF Commit, Flushed
<1>2. \A k \in Key : CopyFine(w, k) /\ copy[w][k] \in KeyState /\ key[k] \in KeyState
  BY <1>0 DEF RequestFine, Before, TypeOK
<1>3. \A k \in Key :
         /\ k \notin Flushed(w) => key'[k] = key[k]
         /\ key[k] \in {"retired", "dropped"} => key'[k] \in {"retired", "dropped"}
         /\ key[k] = "dropped" => key'[k] = "dropped"
         /\ key[k] # "absent" => key'[k] # "absent"
  BY <1>1, <1>2 DEF CopyFine, KeyState, Flushed
<1>4. CASE fresh[w] # NoKey
  <2>1. fresh[w] \in Key /\ inline' = fresh[w] /\ key'[fresh[w]] = "active"
    BY <1>1, <1>2, <1>4 DEF Before, TypeOK, CopyFine, Commit, InlineAfter
  <2>2. Listed(key)' # {}
    BY <2>1 DEF Listed
  <2> QED
    BY <1>3, <2>1, <2>2 DEF InlineIsActive, Unadopted, Adopted
<1>5. CASE fresh[w] = NoKey
  <2>1. inline' = inline /\ inline \in Key
    BY <1>5 DEF Commit, InlineAfter, Before, TypeOK
  <2>2. CASE Adopted
    <3>1. key[inline] = "active"
      BY <2>2 DEF Before, KeysInv, InlineIsActive
    <3>2. key'[inline] = "active"
      BY <1>1, <1>2, <1>5, <2>1, <3>1 DEF CopyFine, KeyState
    <3>3. Listed(key)' # {} /\ Adopted'
      BY <2>1, <3>2 DEF Listed, Adopted
    <3> QED
      BY <1>3, <2>1, <3>2, <3>3 DEF InlineIsActive, Unadopted
  <2>3. CASE ~Adopted
    <3>1. inline = FirstKey /\ \A k \in Key : key[k] = "absent"
      BY <2>3 DEF Before, KeysInv, Unadopted, Adopted
    <3>2. \A k \in Key : key'[k] = "absent" \/ (k = FirstKey /\ key'[k] = "active")
      BY <1>1, <1>2, <1>5, <3>1 DEF CopyFine, KeyState
    <3>3. InlineIsActive' /\ Unadopted'
      BY <2>1, <3>1, <3>2 DEF InlineIsActive, Unadopted, Adopted
    <3>4. Listed(key) = {}
      BY <3>1 DEF Listed
    <3> QED
      BY <1>3, <3>3, <3>4
  <2> QED
    BY <2>2, <2>3
<1> QED
  BY <1>3, <1>4, <1>5

LEMMA CommitKeeps ==
  ASSUME Before, TypeOK', NEW w \in Worker, Commit(w)
  PROVE  KeysInv'
<1> USE SigningAssumption
<1>1. EndRequest(w)
  BY DEF Commit
<1>2. RequestFine(w)'
  <2>1. \A v \in Worker \ {w} : Apart(v, w)'
    BY <1>1, EndKeeps DEF Before, Apart
  <2> QED
    BY <1>1, <2>1, EndKeeps DEF Before, RequestFine
<1>3. ASSUME NEW v \in Worker \ {w} PROVE RequestFine(v)'
  <2>0. RequestFine(v) /\ Apart(v, w)
    BY DEF Before, KeysInv, RequestFine
  <2>1. /\ pc'[v] = pc[v] /\ seen'[v] = seen[v]
        /\ copy'[v] = copy[v] /\ fresh'[v] = fresh[v]
    BY <1>1, EndKeeps DEF Before
  <2>2. Adopter(v)'
    BY <2>0, <2>1, CommitWrites DEF RequestFine, Adopter, Listed
  <2>3. ASSUME NEW k \in Key PROVE CopyFine(v, k)'
    <3>1. CopyFine(v, k)
      BY <2>0 DEF RequestFine
    <3>2. copy[v][k] # "absent" => key'[k] = key[k]
      BY <2>0, CommitWrites DEF Apart, Flushed
    <3>3. key[k] \in {"retired", "dropped"} => key'[k] \in {"retired", "dropped"}
      BY CommitWrites
    <3> QED
      BY <2>1, <3>1, <3>2, <3>3 DEF CopyFine
  <2>4. ASSUME NEW u \in Worker \ {v} PROVE Apart(u, v)'
    <3>1. CASE u = w
      BY <1>1, <3>1, EndKeeps DEF Before, Apart
    <3>2. CASE u # w
      <4>1. Apart(u, v)
        BY <2>0 DEF RequestFine
      <4>2. copy'[u] = copy[u] /\ fresh'[u] = fresh[u]
        BY <1>1, <3>2, EndKeeps DEF Before
      <4> QED
        BY <2>1, <4>1, <4>2 DEF Apart, Flushed
    <3> QED
      BY <3>1, <3>2
  <2> QED
    BY <2>2, <2>3, <2>4 DEF RequestFine
<1> QED
  BY <1>2, <1>3, CommitWrites DEF KeysInv

LEMMA NextKeys == TypeOK /\ TypeOK' /\ KeysInv /\ [Next]_vars => KeysInv'
<1> SUFFICES ASSUME Before, TypeOK', [Next]_vars PROVE KeysInv'
  BY DEF Before
<1>1. ASSUME NEW w \in Worker, BeginList(w) \/ BeginMint(w) \/ BeginRotate(w) \/ BeginDrop(w)
      PROVE  KeysInv'
  BY <1>1, ReadKeeps DEF BeginList, BeginMint, BeginRotate, BeginDrop, Ops
<1>2. ASSUME NEW w \in Worker, Adopt(w) PROVE KeysInv'
  BY <1>2, AdoptKeeps
<1>3. ASSUME NEW w \in Worker, List(w) \/ Mint(w) \/ MintAdmin(w) PROVE KeysInv'
  BY <1>3, SignKeeps
<1>4. ASSUME NEW w \in Worker, Rotate(w) PROVE KeysInv'
  BY <1>4, RotateKeeps
<1>5. ASSUME NEW w \in Worker, Drop(w) PROVE KeysInv'
  BY <1>5, DropKeeps
<1>6. ASSUME NEW w \in Worker, Commit(w) PROVE KeysInv'
  BY <1>6, CommitKeeps
<1>7. ASSUME NEW w \in Worker, Abort(w) PROVE KeysInv'
  BY <1>7, AbortKeeps
<1>8. CASE \/ UNCHANGED vars \/ \E x \in Token : Expire(x)
  <2>1. UNCHANGED <<key, inline, pc, seen, copy, fresh>>
    BY <1>8 DEF vars, Expire, committed, session
  <2>2. InlineIsActive' /\ Unadopted'
    BY <2>1 DEF Before, KeysInv, InlineIsActive, Unadopted, Adopted
  <2>3. ASSUME NEW w \in Worker PROVE RequestFine(w)'
    BY <2>1 DEF Before, KeysInv, RequestFine, Adopter, Listed, CopyFine, Apart, Flushed
  <2> QED
    BY <2>2, <2>3 DEF KeysInv
<1> QED
  BY <1>1, <1>2, <1>3, <1>4, <1>5, <1>6, <1>7, <1>8 DEF Next

\* The inductive invariant: what a request has listed or flushed stays true to
\* the committed keys until it ends.
THEOREM KeysConsistent == Spec => []KeysInv
<1>1. Init => TypeOK /\ KeysInv
  BY InitTyped, InitKeys
<1>2. TypeOK /\ KeysInv /\ [Next]_vars => TypeOK' /\ KeysInv'
  BY NextTyped, NextKeys
<1> QED
  BY <1>1, <1>2, PTL DEF Spec

\* An application that has keys has an active one on its row, so it can sign in
\* users and owners, however many rotations, adoptions and drops overlap.
THEOREM InlineAlwaysActive == Spec => []InlineIsActive
<1>1. KeysInv => InlineIsActive
  BY DEF KeysInv
<1> QED
  BY <1>1, KeysConsistent, PTL

\* A retired key never signs again, and a dropped key never comes back.
THEOREM RetiredStays == Spec => RetiredIsFinal
<1> DEFINE Final == \A k \in Key :
             /\ key[k] = "retired" => key'[k] \in {"retired", "dropped"}
             /\ key[k] = "dropped" => key'[k] = "dropped"
<1>1. TypeOK /\ KeysInv /\ [Next]_vars => [Final]_vars
  <2> SUFFICES ASSUME Before, [Next]_vars PROVE Final
    BY DEF Before
  <2>1. CASE \E w \in Worker : Commit(w)
    BY <2>1, CommitWrites
  <2>2. CASE key' = key
    BY <2>2
  <2> QED
    BY <2>1, <2>2
       DEF Next, vars, BeginList, BeginMint, BeginRotate, BeginDrop, Read, Adopt,
           List, Mint, MintAdmin, Rotate, Drop, Abort, Expire, committed
<1> QED
  BY <1>1, TypeCorrect, KeysConsistent, PTL DEF Spec, RetiredIsFinal

-----------------------------------------------------------------------------
(* The tokens.                                                             *)

\* A request that deletes key k, or is going to, found it in use.
Spares(d, k) ==
    /\ copy[d][k] = "dropped" => k \in early[d]
    /\ op[d] = "drop" /\ seen[d][k] = "retired" => k \in early[d]

\* A key that is published, or was deleted too early, and that no request is
\* about to delete otherwise.
Reliable(k) ==
    /\ key[k] \in {"active", "retired"} \/ (k = FirstKey /\ ~Adopted) \/ k \in cut
    /\ \A d \in Worker : Spares(d, k)

\* A key with which a token of the kinds awaited was signed, or may yet be.
ReliedOn(k) ==
    \/ \E x \in Token : \E t \in token[x] : t.key = k /\ t.kind \in Awaited
    \/ \E w \in Worker : signer[w] = k
    \/ \E w \in Worker : op[w] = "mint" /\ seen[w][k] = "active"

Staged(w) ==
    /\ pc[w] = "idle" => Flushed(w) = {}
    /\ pc[w] \in Ops => op[w] = pc[w]
    /\ pc[w] = "mint" => ActiveIn(seen[w]) # {}
    /\ Flushed(w) # {} => Listed(seen[w]) # {}

TokensInv == /\ \A k \in Key : ReliedOn(k) => Reliable(k)
             /\ \A w \in Worker : Staged(w)

LEMMA InitTokens == Init => TokensInv
<1> SUFFICES ASSUME Init PROVE TokensInv
  OBVIOUS
<1> USE SigningAssumption
<1>1. \A k \in Key : ~ReliedOn(k)
  BY DEF Init, ReliedOn
<1>2. \A w \in Worker : Staged(w)
  BY DEF Init, Staged, Flushed, NoKeys, Ops
<1> QED
  BY <1>1, <1>2 DEF TokensInv

\* The keys that sign now.
LEMMA CurrentReliable ==
  ASSUME Before, NEW k \in Key, key[k] = "active" \/ (k = FirstKey /\ ~Adopted)
  PROVE  Reliable(k)
<1>1. \A d \in Worker : CopyFine(d, k)
  BY DEF Before, KeysInv, RequestFine
<1>2. key[k] \notin {"retired", "dropped"}
  BY DEF Adopted
<1> QED
  BY <1>1, <1>2 DEF Reliable, Spares, CopyFine

LEMMA InlineReliable == Before => Reliable(inline)
  BY CurrentReliable DEF Before, KeysInv, InlineIsActive, Unadopted, TypeOK

\* The tokens' invariant after a step of w that commits nothing, from what it
\* makes of its own request.
LEMMA OwnTokens ==
  ASSUME TokensInv, NEW w \in Worker, UNCHANGED <<key, token, cut>>,
         \A v \in Worker \ {w} : /\ pc'[v] = pc[v] /\ op'[v] = op[v] /\ seen'[v] = seen[v]
                                 /\ copy'[v] = copy[v] /\ signer'[v] = signer[v]
                                 /\ early'[v] = early[v],
         Staged(w)',
         \A k \in Key : signer'[w] = k \/ (op'[w] = "mint" /\ seen'[w][k] = "active")
                           => Reliable(k),
         \A k \in Key : Reliable(k) /\ (ReliedOn(k) \/ ReliedOn(k)') => Spares(w, k)'
  PROVE  TokensInv'
<1>1. ASSUME NEW k \in Key, ReliedOn(k)' PROVE Reliable(k)'
  <2>1. Reliable(k)
    BY <1>1 DEF ReliedOn, TokensInv
  <2> QED
    BY <1>1, <2>1 DEF Reliable, Spares, Adopted
<1>2. \A v \in Worker \ {w} : Staged(v)'
  BY DEF TokensInv, Staged, ActiveIn, Listed, Flushed
<1> QED
  BY <1>1, <1>2 DEF TokensInv

LEMMA ReadTokens ==
  ASSUME Before, TokensInv, NEW w \in Worker, NEW o \in Ops, Read(w, o),
         o = "drop" => BeginDrop(w), o # "drop" => UNCHANGED early
  PROVE  TokensInv'
<1> USE SigningAssumption
<1>1. /\ op'[w] = o /\ seen'[w] = key /\ copy'[w] = copy[w] /\ signer'[w] = signer[w]
      /\ pc'[w] = IF Listed(key) = {} THEN "adopt" ELSE o
      /\ \A v \in Worker \ {w} : /\ pc'[v] = pc[v] /\ op'[v] = op[v] /\ seen'[v] = seen[v]
                                 /\ copy'[v] = copy[v] /\ signer'[v] = signer[v]
                                 /\ early'[v] = early[v]
      /\ UNCHANGED <<key, token, inline, copy, signer, cut>>
  BY DEF Read, Before, TypeOK, committed, BeginDrop
<1>2. Listed(key) # {} => ActiveIn(key) # {}
  BY DEF Before, TypeOK, KeysInv, InlineIsActive, Adopted, Listed, ActiveIn
<1>3. Flushed(w) = {}
  BY DEF Read, TokensInv, Staged
<1>4. Staged(w)'
  BY <1>1, <1>2, <1>3 DEF Staged, ActiveIn, Listed, Flushed, Ops
<1>5. \A k \in Key : signer'[w] = k \/ (op'[w] = "mint" /\ seen'[w][k] = "active")
                        => Reliable(k)
  BY <1>1, CurrentReliable DEF TokensInv, ReliedOn
<1>6. ASSUME NEW k \in Key, ReliedOn(k) \/ ReliedOn(k)', o = "drop", key[k] = "retired"
      PROVE  k \in early'[w]
  <2>1. ReliedOn(k)
    BY <1>1, <1>6 DEF ReliedOn
  <2>2. InUse(k) /\ k \in RetiredIn(key)
    BY <1>6, <2>1 DEF ReliedOn, InUse, RetiredIn, ActiveIn
  <2> QED
    BY <1>6, <2>2 DEF BeginDrop, Before, TypeOK
<1>7. \A k \in Key : copy'[w][k] # "dropped"
  BY <1>1, <1>3 DEF Flushed
<1>8. \A k \in Key : Reliable(k) /\ (ReliedOn(k) \/ ReliedOn(k)') => Spares(w, k)'
  BY <1>1, <1>6, <1>7 DEF Spares
<1> QED
  BY <1>1, <1>4, <1>5, <1>8, OwnTokens

LEMMA AdoptTokens ==
  ASSUME Before, TokensInv, NEW w \in Worker, Adopt(w)
  PROVE  TokensInv'
<1> USE SigningAssumption
<1>1. ~Adopted /\ inline = FirstKey
  BY DEF Before, KeysInv, InlineIsActive, Unadopted, Adopt
<1>2. /\ copy'[w] = [copy[w] EXCEPT ![FirstKey] = "active"]
      /\ seen'[w] = [seen[w] EXCEPT ![FirstKey] = "active"]
      /\ op'[w] = op[w] /\ signer'[w] = signer[w] /\ pc'[w] = op[w]
      /\ \A v \in Worker \ {w} : /\ pc'[v] = pc[v] /\ op'[v] = op[v] /\ seen'[v] = seen[v]
                                 /\ copy'[v] = copy[v] /\ signer'[v] = signer[v]
                                 /\ early'[v] = early[v]
      /\ UNCHANGED <<key, token, early, cut>>
  BY <1>1 DEF Adopt, Before, TypeOK, committed, drops
<1>3. seen'[w][FirstKey] = "active" /\ op[w] \in Ops
  BY <1>2 DEF Before, TypeOK, Adopt
<1>4. Staged(w)'
  BY <1>2, <1>3 DEF Staged, ActiveIn, Listed, Ops
<1>5. \A k \in Key : signer'[w] = k \/ (op'[w] = "mint" /\ seen'[w][k] = "active")
                        => Reliable(k)
  BY <1>1, <1>2, CurrentReliable DEF TokensInv, ReliedOn, Before, TypeOK
<1>6. \A k \in Key : Reliable(k) => Spares(w, k)'
  BY <1>2 DEF Reliable, Spares, Before, TypeOK
<1> QED
  BY <1>2, <1>4, <1>5, <1>6, OwnTokens

LEMMA SignTokens ==
  ASSUME Before, TokensInv, NEW w \in Worker, List(w) \/ Mint(w) \/ MintAdmin(w)
  PROVE  TokensInv'
<1>1. /\ seen'[w] = seen[w] /\ copy'[w] = copy[w] /\ pc'[w] = "done"
      /\ op'[w] \in {op[w], "admin"}
      /\ \A v \in Worker \ {w} : /\ pc'[v] = pc[v] /\ op'[v] = op[v] /\ seen'[v] = seen[v]
                                 /\ copy'[v] = copy[v] /\ signer'[v] = signer[v]
                                 /\ early'[v] = early[v]
      /\ UNCHANGED <<key, token, early, cut>>
  BY DEF List, Mint, MintAdmin, Before, TypeOK, committed, drops
<1>2. Staged(w)'
  BY <1>1 DEF Staged, Listed, Flushed, TokensInv, Ops
<1>3. ASSUME NEW k \in Key, signer'[w] = k PROVE Reliable(k)
  <2>1. CASE List(w)
    BY <1>3, <2>1 DEF List, TokensInv, ReliedOn
  <2>2. CASE MintAdmin(w)
    BY <1>3, <2>2, InlineReliable DEF MintAdmin, Before, TypeOK
  <2>3. CASE Mint(w)
    <3>1. op[w] = "mint" /\ ActiveIn(seen[w]) # {}
      BY <2>3 DEF Mint, TokensInv, Staged, Ops
    <3>2. k \in ActiveIn(seen[w])
      BY <1>3, <2>3, <3>1 DEF Mint, Before, TypeOK
    <3> QED
      BY <3>1, <3>2 DEF TokensInv, ReliedOn, ActiveIn
  <2> QED
    BY <2>1, <2>2, <2>3
<1>4. \A k \in Key : signer'[w] = k \/ (op'[w] = "mint" /\ seen'[w][k] = "active")
                        => Reliable(k)
  BY <1>1, <1>3 DEF TokensInv, ReliedOn
<1>5. \A k \in Key : Reliable(k) => Spares(w, k)'
  BY <1>1 DEF Reliable, Spares
<1> QED
  BY <1>1, <1>2, <1>4, <1>5, OwnTokens

\* A rotation and a drop flush rows; neither reads nor signs.
LEMMA FlushTokens ==
  ASSUME Before, TokensInv, NEW w \in Worker, Rotate(w) \/ Drop(w)
  PROVE  TokensInv'
<1>1. /\ seen'[w] = seen[w] /\ op'[w] = op[w] /\ signer'[w] = signer[w] /\ pc'[w] = "done"
      /\ op[w] \in {"rotate", "drop"} /\ Listed(seen[w]) # {}
      /\ \A v \in Worker \ {w} : /\ pc'[v] = pc[v] /\ op'[v] = op[v] /\ seen'[v] = seen[v]
                                 /\ copy'[v] = copy[v] /\ signer'[v] = signer[v]
                                 /\ early'[v] = early[v]
      /\ UNCHANGED <<key, token, early, cut>>
  BY DEF Rotate, Drop, Before, TypeOK, committed, drops, TokensInv, Staged, Ops, KeysInv, RequestFine,
         Adopter
<1>2. Staged(w)'
  BY <1>1 DEF Staged, Listed, Ops
<1>3. \A k \in Key : signer'[w] = k \/ (op'[w] = "mint" /\ seen'[w][k] = "active")
                        => Reliable(k)
  BY <1>1 DEF TokensInv, ReliedOn
<1>4. ASSUME NEW k \in Key, Reliable(k)
      PROVE  Spares(w, k)'
  <2>1. CASE Rotate(w)
    BY <1>1, <1>4, <2>1 DEF Reliable, Spares, Rotate, RetiredState, Before, TypeOK
  <2>2. CASE Drop(w)
    <3>1. op[w] = "drop"
      BY <2>2 DEF Drop, TokensInv, Staged, Ops
    <3>2. k \in Condemned(w) => k \in early[w]
      BY <1>4, <3>1 DEF Reliable, Spares, Condemned, RetiredIn
    <3> QED
      BY <1>1, <1>4, <2>2, <3>2 DEF Reliable, Spares, Drop, Before, TypeOK
  <2> QED
    BY <2>1, <2>2
<1> QED
  BY <1>1, <1>2, <1>3, <1>4, OwnTokens

LEMMA EndRequestTokens ==
  ASSUME Before, NEW w \in Worker, EndRequest(w)
  PROVE  /\ Staged(w)' /\ op'[w] = "none" /\ signer'[w] = NoKey
         /\ \A k \in Key : copy'[w][k] = "absent" /\ seen'[w][k] = "absent"
         /\ \A v \in Worker \ {w} : /\ pc'[v] = pc[v] /\ op'[v] = op[v] /\ seen'[v] = seen[v]
                                    /\ copy'[v] = copy[v] /\ signer'[v] = signer[v]
                                    /\ early'[v] = early[v]
<1>1. /\ pc'[w] = "idle" /\ op'[w] = "none" /\ signer'[w] = NoKey
      /\ seen'[w] = NoKeys /\ copy'[w] = NoKeys
      /\ \A v \in Worker \ {w} : /\ pc'[v] = pc[v] /\ op'[v] = op[v] /\ seen'[v] = seen[v]
                                 /\ copy'[v] = copy[v] /\ signer'[v] = signer[v]
                                 /\ early'[v] = early[v]
  BY DEF EndRequest, Before, TypeOK
<1>2. \A k \in Key : copy'[w][k] = "absent" /\ seen'[w][k] = "absent"
  BY <1>1 DEF NoKeys
<1>3. Staged(w)'
  BY <1>1, <1>2 DEF Staged, Flushed, Ops
<1> QED
  BY <1>1, <1>2, <1>3

LEMMA AbortTokens ==
  ASSUME Before, TokensInv, NEW w \in Worker, Abort(w)
  PROVE  TokensInv'
<1>1. EndRequest(w) /\ UNCHANGED <<key, token, cut>>
  BY DEF Abort, committed
<1>2. \A k \in Key : ~(signer'[w] = k \/ (op'[w] = "mint" /\ seen'[w][k] = "active"))
  BY <1>1, EndRequestTokens, SigningAssumption
<1>3. \A k \in Key : Spares(w, k)'
  BY <1>1, EndRequestTokens DEF Spares
<1> QED
  BY <1>1, <1>2, <1>3, EndRequestTokens, OwnTokens

LEMMA CommitTokens ==
  ASSUME Before, TokensInv, NEW w \in Worker, Commit(w)
  PROVE  TokensInv'
<1> USE SigningAssumption
<1>1. EndRequest(w)
  BY DEF Commit
<1>2. ASSUME NEW k \in Key, Reliable(k) PROVE Reliable(k)'
  <2>1. key[k] \in KeyState /\ copy[w][k] \in KeyState /\ CopyFine(w, k)
    BY DEF Before, TypeOK, KeysInv, RequestFine
  <2>2. key'[k] = IF copy[w][k] # "absent" THEN copy[w][k] ELSE key[k]
    BY DEF Commit, Flushed
  <2>4. cut \subseteq cut' /\ (copy[w][k] = "dropped" => k \in cut')
    BY <1>2 DEF Commit, Reliable, Spares
  <2>3. key'[k] \in {"active", "retired"} \/ (k = FirstKey /\ ~Adopted') \/ k \in cut'
    <3>1. CASE key[k] \in {"active", "retired"}
      BY <2>1, <2>2, <2>4, <3>1 DEF KeyState
    <3>2. CASE k = FirstKey /\ ~Adopted
      <4>1. Listed(key) = {} /\ \A j \in Key : key[j] = "absent"
        BY <3>2 DEF Adopted, Listed
      <4>2. CASE Flushed(w) = {}
        BY <3>2, <4>1, <4>2 DEF Commit, Adopted
      <4>3. CASE Flushed(w) # {}
        <5>1. copy[w][FirstKey] # "absent"
          BY <4>1, <4>3 DEF Before, KeysInv, RequestFine, Adopter, TokensInv, Staged
        <5> QED
          BY <2>1, <2>2, <2>4, <3>2, <5>1 DEF KeyState
      <4> QED
        BY <4>2, <4>3
    <3> QED
      BY <1>2, <2>4, <3>1, <3>2 DEF Reliable
  <2> QED
    BY <1>1, <1>2, <2>3, EndRequestTokens DEF Reliable, Spares
<1>3. ASSUME NEW k \in Key, ReliedOn(k)' PROVE ReliedOn(k)
  <2>1. CASE \E x \in Token : \E t \in token'[x] : t.key = k /\ t.kind \in Awaited
    <3>1. CASE signer[w] = NoKey
      BY <2>1, <3>1 DEF Commit, ReliedOn
    <3>2. CASE signer[w] # NoKey
      <4> DEFINE n == [kind |-> IF op[w] = "admin" THEN "admin" ELSE "access",
                       key |-> signer[w]]
      <4>1. PICK x \in Token : token' = [token EXCEPT ![x] = {n}]
        BY <3>2 DEF Commit
      <4>2. n.key = signer[w]
        OBVIOUS
      <4> HIDE DEF n
      <4>3. \A y \in Token : token'[y] = token[y] \/ token'[y] = {n}
        BY <4>1 DEF Before, TypeOK
      <4> QED
        BY <2>1, <4>2, <4>3 DEF ReliedOn
    <3> QED
      BY <3>1, <3>2
  <2>2. CASE ~\E x \in Token : \E t \in token'[x] : t.key = k /\ t.kind \in Awaited
    BY <1>1, <1>3, <2>2, EndRequestTokens DEF ReliedOn
  <2> QED
    BY <2>1, <2>2
<1>4. \A v \in Worker \ {w} : Staged(v)'
  BY <1>1, EndRequestTokens DEF TokensInv, Staged, ActiveIn, Listed, Flushed
<1> QED
  BY <1>1, <1>2, <1>3, <1>4, EndRequestTokens DEF TokensInv

LEMMA NextTokens == Before /\ TokensInv /\ [Next]_vars => TokensInv'
<1> SUFFICES ASSUME Before, TokensInv, [Next]_vars PROVE TokensInv'
  OBVIOUS
<1>1. ASSUME NEW w \in Worker, BeginList(w) \/ BeginMint(w) \/ BeginRotate(w) \/ BeginDrop(w)
      PROVE  TokensInv'
  BY <1>1, ReadTokens DEF BeginList, BeginMint, BeginRotate, BeginDrop, Ops, Read
<1>2. ASSUME NEW x \in Token, Expire(x) PROVE TokensInv'
  <2>1. UNCHANGED <<key, pc, op, seen, copy, signer, early, cut>>
    BY <1>2 DEF Expire, committed, session
  <2>2. \A k \in Key : ReliedOn(k)' => ReliedOn(k)
    BY <1>2, <2>1 DEF Expire, ReliedOn, Before, TypeOK
  <2> QED
    BY <2>1, <2>2 DEF TokensInv, Reliable, Spares, Adopted, Staged, ActiveIn, Listed, Flushed
<1>3. CASE UNCHANGED vars
  BY <1>3 DEF vars, TokensInv, ReliedOn, Reliable, Spares, Adopted, Staged, ActiveIn, Listed, Flushed
<1> QED
  BY <1>1, <1>2, <1>3, AdoptTokens, SignTokens, FlushTokens, CommitTokens, AbortTokens DEF Next

\* Whichever kinds of token operators wait for, a token of these kinds verifies
\* until it expires, whatever rotations, adoptions, drops and crashes overlap:
\* only a drop that began while its key was in use takes the key away.
THEOREM TokensAlwaysVerify == Spec => []TokensVerify
<1>1. Before /\ TokensInv => TokensVerify
  <2> SUFFICES ASSUME Before, TokensInv, NEW x \in Token, NEW t \in token[x],
                      t.kind \in Awaited
               PROVE  t.key \in Published \union cut
    BY DEF TokensVerify
  <2>1. t.key \in Key /\ Reliable(t.key)
    BY DEF Before, TypeOK, Signed, TokensInv, ReliedOn
  <2> QED
    BY <2>1 DEF Reliable, Published, Listed, Adopted, Before, KeysInv, Unadopted
<1>2. Spec => []Before
  BY TypeCorrect, KeysConsistent, PTL DEF Before
<1>3. Before /\ TokensInv /\ [Next]_vars => TokensInv'
  BY NextTokens
<1> QED
  BY <1>1, <1>2, <1>3, InitTokens, PTL DEF Spec
=============================================================================
