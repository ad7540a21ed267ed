---------------------------- MODULE SigningKeys ----------------------------
(***************************************************************************)
(* The RSA signing keys of one application: adopting the key on the        *)
(* application row, signing, rotating, and dropping retired keys, from     *)
(* concurrent requests, none of which locks the keys it lists.             *)
(*                                                                         *)
(* key and inline are committed; seen is the list a request has read, copy *)
(* the application_keys rows it has flushed and holds locked.              *)
(***************************************************************************)
EXTENDS Naturals, FiniteSets

CONSTANTS
    Key,          \* keys that may be generated
    FirstKey,     \* the key the application was created with
    Token,        \* signed tokens that may be issued
    Worker,
    Rotators,     \* bound: the workers that rotate
    Awaited,      \* kinds of token an operator waits for before a drop
    NoKey

Kinds == {"access", "admin"}
Ops == {"list", "mint", "rotate", "drop"}

ASSUME SigningAssumption ==
    /\ FirstKey \in Key /\ NoKey \notin Key
    /\ Rotators \subseteq Worker
    /\ Awaited \subseteq Kinds

VARIABLES
    key,       \* application_keys: each key's committed state
    inline,    \* applications.jwk_kid and jwk_private_pem
    token,     \* tokens answered to clients, and still unexpired
    pc,        \* where each request is
    op,        \* what it does
    seen,      \* the list of keys it read
    copy,      \* rows it has flushed
    fresh,     \* the key it generated, which its application row will carry
    signer,    \* the key it signed with
    early,     \* for the properties: keys in use when its drop began
    cut        \* for the properties: keys deleted by such an early drop

committed == <<key, inline>>
session == <<pc, op, seen, copy, fresh, signer, early>>
drops == <<early, cut>>
vars == <<key, inline, token, pc, op, seen, copy, fresh, signer, early, cut>>

KeyState == {"absent", "active", "retired", "dropped"}
Signed == [kind: Kinds, key: Key]

\* The keys in the table, as a list of states says.
Listed(states) == {k \in Key : states[k] \in {"active", "retired"}}
ActiveIn(states) == {k \in Key : states[k] = "active"}
RetiredIn(states) == {k \in Key : states[k] = "retired"}

NoKeys == [k \in Key |-> "absent"]

Init ==
    /\ key = NoKeys
    /\ inline = FirstKey
    /\ token = [x \in Token |-> {}]
    /\ pc = [w \in Worker |-> "idle"]
    /\ op = [w \in Worker |-> "none"]
    /\ seen = [w \in Worker |-> NoKeys]
    /\ copy = [w \in Worker |-> NoKeys]
    /\ fresh = [w \in Worker |-> NoKey]
    /\ signer = [w \in Worker |-> NoKey]
    /\ early = [w \in Worker |-> {}]
    /\ cut = {}

Flushed(w) == {k \in Key : copy[w][k] # "absent"}

RowsFree(w, S) == \A v \in Worker \ {w} : Flushed(v) \intersect S = {}

\* ensure_keys: list the keys; an application without any adopts its own.
Read(w, o) ==
    /\ pc[w] = "idle"
    /\ op' = [op EXCEPT ![w] = o]
    /\ seen' = [seen EXCEPT ![w] = key]
    /\ pc' = [pc EXCEPT ![w] = IF Listed(key) = {} THEN "adopt" ELSE o]
    /\ UNCHANGED <<committed, token, copy, fresh, signer, cut>>

\* GET /keys, JWKS, and the verification of a token.
BeginList(w) == Read(w, "list") /\ UNCHANGED early

BeginMint(w) == Read(w, "mint") /\ UNCHANGED early

BeginRotate(w) == w \in Rotators /\ Read(w, "rotate") /\ UNCHANGED early

\* What an operator who waits before a drop waits for: the tokens of the kinds
\* awaited, and the requests still about to answer a token.
InUse(k) ==
    \/ \E x \in Token : \E t \in token[x] : t.key = k /\ t.kind \in Awaited
    \/ \E v \in Worker : \/ signer[v] = k
                         \/ op[v] = "mint" /\ k \in ActiveIn(seen[v])

\* DELETE /keys/retired, at any time: the code waits for nothing.
BeginDrop(w) ==
    /\ Read(w, "drop")
    /\ early' = [early EXCEPT ![w] = {k \in RetiredIn(key) : InUse(k)}]

\* The unique index on kid: a second insertion waits, and fails (Abort) when
\* the first is committed.
Adopt(w) ==
    /\ pc[w] = "adopt"
    /\ key[inline] = "absent"
    /\ RowsFree(w, {inline})
    /\ copy' = [copy EXCEPT ![w][inline] = "active"]
    /\ seen' = [seen EXCEPT ![w][inline] = "active"]
    /\ pc' = [pc EXCEPT ![w] = op[w]]
    /\ UNCHANGED <<committed, token, op, fresh, signer, drops>>

List(w) ==
    /\ pc[w] = "list"
    /\ pc' = [pc EXCEPT ![w] = "done"]
    /\ UNCHANGED <<committed, token, op, seen, copy, fresh, signer, drops>>

\* active_key: the newest active key of the list (any key, had it none).
Mint(w) ==
    /\ pc[w] = "mint"
    /\ \E k \in (IF ActiveIn(seen[w]) # {} THEN ActiveIn(seen[w]) ELSE Listed(seen[w])) :
          signer' = [signer EXCEPT ![w] = k]
    /\ pc' = [pc EXCEPT ![w] = "done"]
    /\ UNCHANGED <<committed, token, op, seen, copy, fresh, drops>>

\* verify_admin_login_code signs with the key on the application row.
MintAdmin(w) ==
    /\ pc[w] = "idle"
    /\ op' = [op EXCEPT ![w] = "admin"]
    /\ signer' = [signer EXCEPT ![w] = inline]
    /\ pc' = [pc EXCEPT ![w] = "done"]
    /\ UNCHANGED <<committed, token, seen, copy, fresh, drops>>

\* (fault) a key deleted since it was listed is inserted again.
StillListedUnchecked(S) == TRUE

StillListed(S) == \A k \in S : key[k] # "dropped"

\* (fault) the previous key is replaced instead of retired.
ReplacedState == "dropped"

RetiredState == "retired"

\* rotate_key: the flush locks the application row, then the keys it retires.
\* A key that was deleted since makes it fail (Abort).
Rotate(w) ==
    LET old == ActiveIn(seen[w])
    IN  /\ pc[w] = "rotate"
        /\ \A v \in Worker \ {w} : fresh[v] = NoKey
        /\ RowsFree(w, old)
        /\ StillListed(old)
        /\ \E k \in Key \ {FirstKey} :
              /\ key[k] = "absent"
              /\ fresh' = [fresh EXCEPT ![w] = k]
              /\ copy' = [copy EXCEPT ![w] = [j \in Key |->
                            IF j = k THEN "active"
                              ELSE IF j \in old THEN RetiredState ELSE @[j]]]
        /\ pc' = [pc EXCEPT ![w] = "done"]
        /\ UNCHANGED <<committed, token, op, seen, signer, drops>>

\* (fault) the test for an active key is left out.
CondemnedAll(w) == Listed(seen[w])

Condemned(w) == RetiredIn(seen[w])

\* drop_retired_keys
Drop(w) ==
    /\ pc[w] = "drop"
    /\ RowsFree(w, Condemned(w))
    /\ copy' = [copy EXCEPT ![w] = [k \in Key |->
                  IF k \in Condemned(w) THEN "dropped" ELSE @[k]]]
    /\ pc' = [pc EXCEPT ![w] = "done"]
    /\ UNCHANGED <<committed, token, op, seen, fresh, signer, drops>>

EndRequest(w) ==
    /\ pc' = [pc EXCEPT ![w] = "idle"]
    /\ op' = [op EXCEPT ![w] = "none"]
    /\ seen' = [seen EXCEPT ![w] = NoKeys]
    /\ copy' = [copy EXCEPT ![w] = NoKeys]
    /\ fresh' = [fresh EXCEPT ![w] = NoKey]
    /\ signer' = [signer EXCEPT ![w] = NoKey]
    /\ early' = [early EXCEPT ![w] = {}]

InlineAfter(w) == IF fresh[w] = NoKey THEN inline ELSE fresh[w]

\* The rows are written and a signed token is answered.
Commit(w) ==
    /\ pc[w] = "done"
    /\ key' = [k \in Key |-> IF k \in Flushed(w) THEN copy[w][k] ELSE key[k]]
    /\ inline' = InlineAfter(w)
    /\ cut' = cut \union {k \in early[w] : copy[w][k] = "dropped"}
    /\ IF signer[w] = NoKey THEN UNCHANGED token
         ELSE \E x \in Token :
                /\ token[x] = {}
                /\ token' = [token EXCEPT ![x] =
                      {[kind |-> IF op[w] = "admin" THEN "admin" ELSE "access",
                        key |-> signer[w]]}]
    /\ EndRequest(w)

Abort(w) ==
    /\ pc[w] # "idle"
    /\ EndRequest(w)
    /\ UNCHANGED <<committed, token, cut>>

Expire(x) ==
    /\ token[x] # {}
    /\ token' = [token EXCEPT ![x] = {}]
    /\ UNCHANGED <<committed, session, cut>>

-----------------------------------------------------------------------------
Next ==
    \/ \E w \in Worker :
          \/ BeginList(w) \/ BeginMint(w) \/ BeginRotate(w) \/ BeginDrop(w)
          \/ Adopt(w) \/ List(w) \/ Mint(w) \/ MintAdmin(w) \/ Rotate(w) \/ Drop(w)
          \/ Commit(w) \/ Abort(w)
    \/ \E x \in Token : Expire(x)

Spec == Init /\ [][Next]_vars

-----------------------------------------------------------------------------
\* Every variable has its type.
TypeOK ==
    /\ key \in [Key -> KeyState]
    /\ inline \in Key
    /\ token \in [Token -> SUBSET Signed]
    /\ pc \in [Worker -> Ops \union {"idle", "adopt", "done"}]
    /\ op \in [Worker -> Ops \union {"none", "admin"}]
    /\ \A w \in Worker : pc[w] = "adopt" => op[w] \in Ops
    /\ seen \in [Worker -> [Key -> KeyState]]
    /\ copy \in [Worker -> [Key -> KeyState]]
    /\ fresh \in [Worker -> Key \union {NoKey}]
    /\ signer \in [Worker -> Key \union {NoKey}]
    /\ early \in [Worker -> SUBSET Key] /\ cut \subseteq Key

Adopted == \E k \in Key : key[k] # "absent"

\* Once the application's key is adopted, the key on its row, which signs
\* owners' tokens, is an active key: overlapping rotations and drops never
\* leave it without one (rotate_key writes both in one transaction).
InlineIsActive == Adopted => key[inline] = "active"

\* Why it holds: until its key is adopted an application has no other; rows are
\* held by one request each; whoever lists a key as retired may rely on it;
\* only one request at a time carries a new key, which nobody else has listed.
Unadopted == ~Adopted => inline = FirstKey

Adopter(w) ==
    /\ pc[w] \in Ops => Listed(seen[w]) # {}
    /\ Listed(seen[w]) # {} /\ Listed(key) = {} => copy[w][FirstKey] # "absent"

Apart(v, w) == /\ Flushed(v) \intersect Flushed(w) = {}
               /\ fresh[v] = NoKey \/ fresh[w] = NoKey

CopyFine(w, k) ==
    /\ seen[w][k] = "retired" => key[k] \in {"retired", "dropped"}
    /\ copy[w][k] = "dropped" => key[k] \in {"retired", "dropped"}
    /\ copy[w][k] = "retired" => key[k] # "dropped" /\ fresh[w] # NoKey
    /\ copy[w][k] = "active" =>
          k = fresh[w] \/ (k = FirstKey /\ key[k] = "absent")
    /\ k = fresh[w] => /\ pc[w] = "done" /\ k # FirstKey
                       /\ key[k] = "absent" /\ copy[w][k] = "active"

RequestFine(w) == /\ Adopter(w)
                  /\ \A k \in Key : CopyFine(w, k)
                  /\ \A v \in Worker \ {w} : Apart(v, w)

KeysInv == /\ InlineIsActive /\ Unadopted
           /\ \A w \in Worker : RequestFine(w)

\* What ensure_keys publishes: the table, or the key on the application row.
Published == IF Listed(key) = {} THEN {inline} ELSE Listed(key)

\* keys.py: "tokens signed seconds before a rotation must keep verifying until
\* they expire": the key of every unexpired token of the kinds awaited is
\* published, whatever rotations and drops overlap, unless an operator deleted
\* it without waiting: while such a token, or a request about to answer one,
\* still used it (drop_retired_keys deletes at once).
TokensVerify ==
    \A x \in Token : \A t \in token[x] :
        t.kind \in Awaited => t.key \in Published \union cut

\* A key that was retired does not sign again, and a dropped one does not come
\* back (a rotation that listed it earlier fails).
RetiredIsFinal ==
    [][\A k \in Key : /\ key[k] = "retired" => key'[k] \in {"retired", "dropped"}
                      /\ key[k] = "dropped" => key'[k] = "dropped"]_vars

=============================================================================
