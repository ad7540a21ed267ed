-------------------------- MODULE ComponentsProofs --------------------------
(***************************************************************************)
(* The protocols of MCComponents, for any number of requests, browsers,    *)
(* processes, applications and tenants: an inductive invariant of each,    *)
(* and the property it carries.  What is left in each protocol to a ghost  *)
(* (contested codes, crossed requests, bots made together) is in the       *)
(* property's statement.                                                   *)
(***************************************************************************)
EXTENDS MCComponents, FiniteSetTheorems, TLAPS

-----------------------------------------------------------------------------
(* The dashboard's log-in (DashboardLogin).  A guess writes back what it   *)
(* has read; the invariant says what is still true of the key while nothing *)
(* has crossed the guess.                                                  *)

LoginKey == [code: Nat, attempts: Nat, ttl: BOOLEAN]

LoginTypes ==
    /\ key \in LoginKey /\ key.code <= issued
    /\ issued \in Nat /\ issued <= MaxIssues
    /\ told \in [Login!Codes -> Nat] /\ logins \in [Login!Codes -> Nat]
    /\ loginPc \in [Worker -> {"idle", "revoke", "store", "decide", "enter"}]
    /\ seen \in [Worker -> LoginKey]

\* A guess has read a code that was issued, and while nothing crosses it, the
\* key is what it read and no other guess is under way.
Alone ==
    \A w \in Worker : loginPc[w] = "decide" =>
        /\ seen[w].code # 0 /\ seen[w].code <= issued
        /\ seen[w].code \notin contested =>
              key = seen[w] /\ \A v \in Worker \ {w} : loginPc[v] # "decide"

Fresh == \A c \in Login!Codes : c > issued => told[c] = 0 /\ logins[c] = 0

LoginInv == LoginTypes /\ Alone /\ Fresh /\ BurntWhenSpent

LEMMA LoginInit == Login!Init => LoginInv
<1> SUFFICES ASSUME Login!Init PROVE LoginInv
  OBVIOUS
<1> USE DEF Login!Init
<1>1. Login!NoEntry \in LoginKey /\ Login!NoEntry.code = 0
  BY DEF Login!NoEntry, LoginKey
<1>2. LoginTypes
  BY <1>1, ComponentsAssumption DEF LoginTypes
<1>3. Alone /\ Fresh
  BY DEF Alone, Fresh
<1>4. BurntWhenSpent
  BY <1>1, ComponentsAssumption DEF BurntWhenSpent, Login!BurntWhenSpent, Login!Codes
<1> QED BY <1>2, <1>3, <1>4 DEF LoginInv

\* Whom a command crosses.
LEMMA LoginCrosses ==
    ASSUME NEW w \in Worker, NEW c, Login!Crosses(w, c)
    PROVE  /\ contested \subseteq contested'
           /\ \A v \in Worker \ {w} : loginPc[v] = "decide" =>
                 seen[v].code \in contested' /\ (c # 0 => c \in contested')
<1>1. ASSUME NEW v \in Worker \ {w}, loginPc[v] = "decide"
      PROVE  /\ Login!Reading(w) # {}
             /\ seen[v].code \in {seen[u].code : u \in Login!Reading(w)}
  BY <1>1 DEF Login!Reading
<1>2. CASE Login!Reading(w) = {}
  BY <1>1, <1>2 DEF Login!Crosses
<1>3. CASE Login!Reading(w) # {}
  <2>1. contested' = contested \union ({c} \ {0})
                          \union {seen[v].code : v \in Login!Reading(w)}
    BY <1>3 DEF Login!Crosses
  <2> QED BY <1>1, <2>1
<1> QED BY <1>2, <1>3

\* A command on the key that ends a guess, or is no guess: the others it
\* crosses, and the key it leaves.
LEMMA LoginMoves ==
    ASSUME LoginInv, NEW w \in Worker, NEW c, Login!Crosses(w, c),
           LoginTypes', issued <= issued',
           \A v \in Worker \ {w} : loginPc'[v] = loginPc[v] /\ seen'[v] = seen[v],
           loginPc'[w] # "decide"
    PROVE  Alone'
<1>1. ASSUME NEW v \in Worker, loginPc'[v] = "decide"
      PROVE  /\ seen'[v].code # 0 /\ seen'[v].code <= issued'
             /\ seen'[v].code \in contested'
  <2>1. v # w /\ loginPc[v] = "decide" /\ seen'[v] = seen[v]
    BY <1>1
  <2>2. seen[v].code # 0 /\ seen[v].code <= issued /\ seen[v].code \in Nat
    BY <2>1 DEF LoginInv, Alone, LoginTypes, LoginKey
  <2>3. issued \in Nat /\ issued' \in Nat
    BY DEF LoginInv, LoginTypes
  <2> QED BY <2>1, <2>2, <2>3, LoginCrosses
<1> QED BY <1>1 DEF Alone

\* What BurntWhenSpent says of one code.
CodeKept(c) ==
    /\ logins[c] <= 1 /\ told[c] <= MaxGuesses
    /\ key.code = c => /\ c = issued /\ logins[c] = 0
                       /\ key.attempts = told[c] /\ key.ttl

LEMMA EachCode ==
    LoginInv => \A c \in Login!Codes : c \notin contested => CodeKept(c)
  BY DEF LoginInv, BurntWhenSpent, Login!BurntWhenSpent, CodeKept

LEMMA EachCodeAfter ==
    (\A c \in Login!Codes : c \notin contested' => CodeKept(c)') => BurntWhenSpent'
  BY DEF BurntWhenSpent, Login!BurntWhenSpent, CodeKept

LEMMA LoginForgets ==
    ASSUME LoginInv, NEW w \in Worker,
           \/ Login!BeginLogin(w) \/ Login!Fail(w)
           \/ \E s \in Session : Login!Enter(w, s)
    PROVE  LoginInv'
<1>1. /\ UNCHANGED <<key, issued, told, logins, contested>>
      /\ loginPc' = [loginPc EXCEPT ![w] = "revoke"] \/ loginPc' = [loginPc EXCEPT ![w] = "idle"]
      /\ seen' = seen \/ seen' = [seen EXCEPT ![w] = Login!NoEntry]
  BY DEF Login!BeginLogin, Login!Fail, Login!Enter, Login!Go, Login!Finish, Login!ghosts,
     Login!redis
<1>2. Login!NoEntry \in LoginKey
  BY DEF Login!NoEntry, LoginKey
<1>3. LoginTypes'
  BY <1>1, <1>2 DEF LoginInv, LoginTypes
<1>4. Alone'
  BY <1>1 DEF LoginInv, LoginTypes, Alone
<1>5. Fresh' /\ BurntWhenSpent'
  BY <1>1 DEF LoginInv, Fresh, BurntWhenSpent, Login!BurntWhenSpent
<1> QED BY <1>3, <1>4, <1>5 DEF LoginInv

\* The key goes: revoked, or burnt.
LEMMA LoginErases ==
    ASSUME LoginInv, NEW w \in Worker, Login!RevokeCode(w) \/ Login!BurnCode(w)
    PROVE  LoginInv'
<1>1. /\ key' = Login!NoEntry /\ Login!Crosses(w, 0)
      /\ loginPc' = [loginPc EXCEPT ![w] = "idle"] \/ loginPc' = [loginPc EXCEPT ![w] = "store"]
      /\ seen' = seen \/ seen' = [seen EXCEPT ![w] = Login!NoEntry]
      /\ UNCHANGED <<issued, told, logins>>
  BY DEF Login!RevokeCode, Login!BurnCode, Login!Go, Login!Finish
<1>2. Login!NoEntry \in LoginKey /\ Login!NoEntry.code = 0
  BY DEF Login!NoEntry, LoginKey
<1>3. LoginTypes'
  BY <1>1, <1>2 DEF LoginInv, LoginTypes
<1>4. Alone'
  <2>1. /\ loginPc'[w] # "decide" /\ issued <= issued'
        /\ \A v \in Worker \ {w} : loginPc'[v] = loginPc[v] /\ seen'[v] = seen[v]
    BY <1>1 DEF LoginInv, LoginTypes
  <2> QED BY <1>1, <1>3, <2>1, LoginMoves
<1>5. BurntWhenSpent'
  <2>1. ASSUME NEW c \in Login!Codes, c \notin contested'
        PROVE  CodeKept(c)'
    <3>1. c \notin contested /\ c # 0
      BY <1>1, <2>1, LoginCrosses, ComponentsAssumption DEF Login!Codes
    <3> QED BY <1>1, <1>2, <3>1, EachCode DEF CodeKept
  <2> QED BY <2>1, EachCodeAfter
<1> QED BY <1>1, <1>3, <1>4, <1>5 DEF LoginInv, Fresh

LEMMA LoginStores ==
    ASSUME LoginInv, NEW w \in Worker, Login!StoreCode(w)
    PROVE  LoginInv'
<1> DEFINE e == [code |-> issued + 1, attempts |-> 0, ttl |-> TRUE]
<1>0. issued \in Nat /\ issued < MaxIssues /\ MaxIssues \in Nat /\ issued' = issued + 1
  BY ComponentsAssumption DEF Login!StoreCode, LoginInv, LoginTypes
<1>1. /\ key' = e /\ Login!Crosses(w, issued + 1)
      /\ loginPc' = [loginPc EXCEPT ![w] = "idle"]
      /\ seen' = [seen EXCEPT ![w] = Login!NoEntry]
      /\ UNCHANGED <<told, logins>>
  BY DEF Login!StoreCode, Login!Go, Login!Finish
<1>2. /\ Login!NoEntry \in LoginKey /\ e \in LoginKey
      /\ e.code = issued + 1 /\ e.attempts = 0 /\ e.ttl
  BY <1>0 DEF Login!NoEntry, LoginKey
<1> HIDE DEF e
<1>3. LoginTypes'
  BY <1>0, <1>1, <1>2 DEF LoginInv, LoginTypes
<1>4. Alone'
  <2>1. /\ loginPc'[w] # "decide" /\ issued <= issued'
        /\ \A v \in Worker \ {w} : loginPc'[v] = loginPc[v] /\ seen'[v] = seen[v]
    BY <1>0, <1>1 DEF LoginInv, LoginTypes
  <2> QED BY <1>1, <1>3, <2>1, LoginMoves
<1>5. Fresh'
  BY <1>0, <1>1 DEF LoginInv, Fresh, Login!Codes
<1>6. BurntWhenSpent'
  <2>1. ASSUME NEW c \in Login!Codes, c \notin contested'
        PROVE  CodeKept(c)'
    <3>1. c \notin contested
      BY <1>1, <2>1, LoginCrosses
    <3>2. CASE c = issued + 1
      <4>1. told[c] = 0 /\ logins[c] = 0
        BY <1>0, <3>2 DEF LoginInv, Fresh
      <4> QED BY <1>0, <1>1, <1>2, <3>2, <4>1, ComponentsAssumption DEF CodeKept
    <3>3. CASE c # issued + 1
      BY <1>1, <1>2, <3>1, <3>3, EachCode DEF CodeKept
    <3> QED BY <3>2, <3>3
  <2> QED BY <2>1, EachCodeAfter
<1> QED BY <1>3, <1>4, <1>5, <1>6 DEF LoginInv

LEMMA LoginReads ==
    ASSUME LoginInv, NEW w \in Worker, NEW g, Login!BeginVerify(w, g)
    PROVE  LoginInv'
<1>1. /\ key.code # 0 /\ loginPc[w] = "idle" /\ Login!Crosses(w, key.code)
      /\ loginPc' = [loginPc EXCEPT ![w] = "decide"]
      /\ seen' = [seen EXCEPT ![w] = key]
      /\ UNCHANGED <<key, issued, told, logins>>
  BY DEF Login!BeginVerify, Login!Go, Login!redis
<1>2. LoginTypes'
  BY <1>1 DEF LoginInv, LoginTypes
<1>3. Alone'
  <2>1. ASSUME NEW v \in Worker, loginPc'[v] = "decide"
        PROVE  /\ seen'[v].code # 0 /\ seen'[v].code <= issued
               /\ seen'[v].code \notin contested' =>
                    key = seen'[v] /\ \A u \in Worker \ {v} : loginPc'[u] # "decide"
    <3>1. CASE v = w
      <4>1. seen'[v] = key
        BY <1>1, <3>1 DEF LoginInv, LoginTypes
      <4>2. \A u \in Worker \ {w} : loginPc'[u] = loginPc[u]
        BY <1>1 DEF LoginInv, LoginTypes
      <4> QED BY <1>1, <3>1, <4>1, <4>2, LoginCrosses DEF LoginInv, LoginTypes
    <3>2. CASE v # w
      BY <1>1, <2>1, <3>2, LoginCrosses DEF LoginInv, LoginTypes, Alone
    <3> QED BY <3>1, <3>2
  <2> QED BY <1>1, <2>1 DEF Alone
<1>4. BurntWhenSpent'
  BY <1>1, LoginCrosses DEF LoginInv, BurntWhenSpent, Login!BurntWhenSpent
<1> QED BY <1>1, <1>2, <1>3, <1>4 DEF LoginInv, Fresh

\* A guess that is decided: what it read, and what is counted.
LEMMA Decided ==
    ASSUME LoginInv, NEW w \in Worker, loginPc[w] = "decide"
    PROVE  /\ seen[w] \in LoginKey /\ seen[w].code \in Login!Codes
           /\ seen[w].code <= issued
           /\ seen[w].code \notin contested => key = seen[w]
  BY ComponentsAssumption DEF LoginInv, LoginTypes, LoginKey, Alone, Login!Codes

LEMMA Counts ==
    ASSUME NEW f \in [Login!Codes -> Nat], NEW c \in Login!Codes
    PROVE  /\ Login!Counted(f, c) \in [Login!Codes -> Nat]
           /\ \A d \in Login!Codes : d # c => Login!Counted(f, c)[d] = f[d]
           /\ Login!Counted(f, c)[c] = IF c \in contested THEN f[c] ELSE f[c] + 1
  BY DEF Login!Counted

LEMMA LoginAccepts ==
    ASSUME LoginInv, NEW w \in Worker, Login!AcceptCode(w)
    PROVE  LoginInv'
<1> DEFINE c == seen[w].code
<1>1. /\ loginPc[w] = "decide" /\ key' = Login!NoEntry /\ Login!Crosses(w, c)
      /\ logins' = Login!Counted(logins, c)
      /\ loginPc' = [loginPc EXCEPT ![w] = "enter"]
      /\ UNCHANGED <<issued, told, seen>>
  BY DEF Login!AcceptCode, Login!Go
<1>2. Login!NoEntry \in LoginKey /\ Login!NoEntry.code = 0
  BY DEF Login!NoEntry, LoginKey
<1>3. /\ c \in Login!Codes /\ c <= issued /\ (c \notin contested => key.code = c)
      /\ logins' \in [Login!Codes -> Nat]
      /\ \A d \in Login!Codes : d # c => logins'[d] = logins[d]
      /\ logins'[c] = IF c \in contested THEN logins[c] ELSE logins[c] + 1
  BY <1>1, Decided, Counts DEF LoginInv, LoginTypes
<1> HIDE DEF c
<1>4. LoginTypes'
  BY <1>1, <1>2, <1>3 DEF LoginInv, LoginTypes
<1>5. Alone'
  <2>1. /\ loginPc'[w] # "decide" /\ issued <= issued'
        /\ \A v \in Worker \ {w} : loginPc'[v] = loginPc[v] /\ seen'[v] = seen[v]
    BY <1>1 DEF LoginInv, LoginTypes
  <2> QED BY <1>1, <1>4, <2>1, LoginMoves
<1>6. Fresh'
  BY <1>1, <1>3 DEF LoginInv, LoginTypes, Fresh, Login!Codes
<1>7. BurntWhenSpent'
  <2>1. ASSUME NEW d \in Login!Codes, d \notin contested'
        PROVE  CodeKept(d)'
    <3>1. CodeKept(d) /\ d \notin contested /\ d # 0
      BY <1>1, <2>1, EachCode, LoginCrosses, ComponentsAssumption DEF Login!Codes
    <3>2. logins'[d] <= 1
      <4>1. CASE d = c
        BY <1>3, <3>1, <4>1 DEF CodeKept
      <4>2. CASE d # c
        BY <1>3, <3>1, <4>2 DEF CodeKept
      <4> QED BY <4>1, <4>2
    <3> QED BY <1>1, <1>2, <3>1, <3>2 DEF CodeKept
  <2> QED BY <2>1, EachCodeAfter
<1> QED BY <1>4, <1>5, <1>6, <1>7 DEF LoginInv

LEMMA LoginRejects ==
    ASSUME LoginInv, NEW w \in Worker, Login!RejectCode(w)
    PROVE  LoginInv'
<1> DEFINE c == seen[w].code
<1>1. /\ loginPc[w] = "decide" /\ key' = Login!CountedKey(w) /\ Login!Crosses(w, c)
      /\ told' = Login!Counted(told, c) /\ ~(seen[w].attempts + 1 > MaxGuesses)
      /\ loginPc' = [loginPc EXCEPT ![w] = "idle"]
      /\ seen' = [seen EXCEPT ![w] = Login!NoEntry]
      /\ UNCHANGED <<issued, logins>>
  BY DEF Login!RejectCode, Login!Go, Login!Finish, Login!Spent
<1>2. /\ key' \in LoginKey /\ key'.code = c /\ key'.attempts = seen[w].attempts + 1
      /\ key'.ttl = key.ttl /\ Login!NoEntry \in LoginKey /\ seen[w].attempts \in Nat
  <2>1. /\ key' = [seen[w] EXCEPT !.attempts = @ + 1, !.ttl = key.ttl]
        /\ seen[w] \in LoginKey /\ key.ttl \in BOOLEAN
    BY <1>1 DEF Login!CountedKey, LoginInv, LoginTypes, LoginKey
  <2>3. seen[w].attempts \in Nat /\ seen[w].attempts + 1 \in Nat
    BY <2>1 DEF LoginKey
  <2>2. Login!NoEntry \in LoginKey
    BY DEF Login!NoEntry, LoginKey
  <2> DEFINE n == seen[w].attempts + 1
         k == [seen[w] EXCEPT !.attempts = n, !.ttl = key.ttl]
  <2>4. key' = k /\ n \in Nat
    BY <2>1, <2>3
  <2> HIDE DEF n
  <2>5. k \in LoginKey /\ k.code = c /\ k.attempts = n /\ k.ttl = key.ttl
    BY <2>1, <2>4 DEF LoginKey
  <2> QED BY <2>2, <2>3, <2>4, <2>5 DEF n
<1>3. /\ c \in Login!Codes /\ c <= issued /\ (c \notin contested => key = seen[w])
      /\ told' \in [Login!Codes -> Nat]
      /\ \A d \in Login!Codes : d # c => told'[d] = told[d]
      /\ told'[c] = IF c \in contested THEN told[c] ELSE told[c] + 1
  BY <1>1, Decided, Counts DEF LoginInv, LoginTypes
<1>4. c \notin contested => key.code = c /\ key.attempts = seen[w].attempts
  BY <1>3
<1> HIDE DEF c
<1>5. LoginTypes'
  BY <1>1, <1>2, <1>3 DEF LoginInv, LoginTypes
<1>6. Alone'
  <2>1. /\ loginPc'[w] # "decide" /\ issued <= issued'
        /\ \A v \in Worker \ {w} : loginPc'[v] = loginPc[v] /\ seen'[v] = seen[v]
    BY <1>1 DEF LoginInv, LoginTypes
  <2> QED BY <1>1, <1>5, <2>1, LoginMoves
<1>7. Fresh'
  BY <1>1, <1>3 DEF LoginInv, LoginTypes, Fresh, Login!Codes
<1>8. BurntWhenSpent'
  <2>1. ASSUME NEW d \in Login!Codes, d \notin contested'
        PROVE  CodeKept(d)'
    <3>1. CodeKept(d) /\ d \notin contested
      BY <1>1, <2>1, EachCode, LoginCrosses
    <3>2. CASE d = c
      BY <1>1, <1>2, <1>3, <1>4, <3>1, <3>2, ComponentsAssumption DEF CodeKept
    <3>3. CASE d # c
      BY <1>1, <1>2, <1>3, <3>1, <3>3 DEF CodeKept
    <3> QED BY <3>2, <3>3
  <2> QED BY <2>1, EachCodeAfter
<1> QED BY <1>5, <1>6, <1>7, <1>8 DEF LoginInv

LEMMA LoginExpires == ASSUME LoginInv, Login!CodeExpires PROVE LoginInv'
<1>1. /\ key' = Login!NoEntry
      /\ contested' = contested \union
                      {seen[v].code : v \in {u \in Worker : loginPc[u] = "decide"}}
      /\ UNCHANGED <<issued, told, logins, loginPc, seen>>
  BY DEF Login!CodeExpires
<1>2. Login!NoEntry \in LoginKey /\ Login!NoEntry.code = 0
  BY DEF Login!NoEntry, LoginKey
<1>3. LoginTypes'
  BY <1>1, <1>2 DEF LoginInv, LoginTypes
<1>4. Alone'
  BY <1>1 DEF LoginInv, Alone
<1>5. BurntWhenSpent'
  <2>1. ASSUME NEW c \in Login!Codes, c \notin contested'
        PROVE  CodeKept(c)'
    <3>1. c \notin contested /\ c # 0
      BY <1>1, <2>1, ComponentsAssumption DEF Login!Codes
    <3> QED BY <1>1, <1>2, <3>1, EachCode DEF CodeKept
  <2> QED BY <2>1, EachCodeAfter
<1> QED BY <1>1, <1>3, <1>4, <1>5 DEF LoginInv, Fresh

LEMMA LoginStep == ASSUME LoginInv, [Login!Next]_loginVars PROVE LoginInv'
<1>1. CASE Login!Next
  <2>1. CASE \E w \in Worker :
                \/ Login!BeginLogin(w) \/ Login!Fail(w)
                \/ \E s \in Session : Login!Enter(w, s)
    BY <2>1, LoginForgets
  <2>2. CASE \E w \in Worker : Login!RevokeCode(w) \/ Login!BurnCode(w)
    BY <2>2, LoginErases
  <2>3. CASE \E w \in Worker : Login!StoreCode(w)
    BY <2>3, LoginStores
  <2>4. CASE \E w \in Worker, g \in 0..issued : Login!BeginVerify(w, g)
    BY <2>4, LoginReads
  <2>5. CASE \E w \in Worker : Login!AcceptCode(w) \/ Login!RejectCode(w)
    BY <2>5, LoginAccepts, LoginRejects
  <2>6. CASE Login!CodeExpires
    BY <2>6, LoginExpires
  <2>7. CASE \/ \E s \in Session :
                   Login!SessionExpires(s) \/ \E t \in Session : Login!Logout(s, t)
             \/ Login!CooldownExpires \/ Login!OwnsChanges
    <3>1. UNCHANGED <<key, issued, told, logins, contested, loginPc, seen>>
      BY <2>7 DEF Login!SessionExpires, Login!Logout, Login!CooldownExpires,
         Login!OwnsChanges, Login!ghosts, Login!redis
    <3> QED BY <3>1 DEF LoginInv, LoginTypes, Alone, Fresh, BurntWhenSpent, Login!BurntWhenSpent
  <2> QED BY <1>1, <2>1, <2>2, <2>3, <2>4, <2>5, <2>6, <2>7 DEF Login!Next
<1>2. CASE UNCHANGED loginVars
  BY <1>2 DEF loginVars, LoginInv, LoginTypes, Alone, Fresh, BurntWhenSpent, Login!BurntWhenSpent
<1> QED BY <1>1, <1>2

\* A code of the dashboard that nothing crosses opens one session, is compared
\* with MaxGuesses wrong guesses at most, and stays counted and expiring
\* (_consume_admin_code, _store_admin_code).
THEOREM SpentIsBurnt == Login!Spec => []BurntWhenSpent
<1>1. LoginInv /\ [Login!Next]_loginVars => LoginInv'
  BY LoginStep
<1>2. LoginInv => BurntWhenSpent
  BY DEF LoginInv
<1> QED BY <1>1, <1>2, LoginInit, PTL DEF Login!Spec, Login!vars, loginVars

-----------------------------------------------------------------------------
(* Host names (Domains).  A writer holds the row until it commits; the     *)
(* invariant says what it has written is still right when it does.         *)

HostRow == [id: Nat, app: App \union {NoApp}, verified: BOOLEAN]
HostRequest == [op: {"none", "insert", "transfer", "verify", "delete"},
                app: App \union {NoApp}, id: Nat]

HostTypes ==
    /\ domain \in HostRow /\ rows \in Nat /\ crossed \in BOOLEAN
    /\ hostPc \in [Worker -> {"idle", "look", "write", "done"}]
    /\ hostReq \in [Worker -> HostRequest] /\ hostCopy \in [Worker -> HostRow]

\* Rows are numbered as they are inserted; a request on a row has read one.
HostNumbers ==
    /\ domain.id <= rows
    /\ \A w \in Worker :
          /\ hostReq[w].id <= rows
          /\ hostReq[w].op \in {"transfer", "verify", "delete"} => hostReq[w].id # 0

\* The row, or the host name, is locked by whoever has written.
OneWriter == \A v, w \in Worker : hostPc[v] = "done" /\ hostPc[w] = "done" => v = w

\* An inserted row is one that no request has read.
NewRow(w) ==
    /\ domain.id = 0
    /\ hostCopy[w].id # 0 /\ hostCopy[w].id <= rows /\ ~hostCopy[w].verified
    /\ \A v \in Worker : hostReq[v].id < hostCopy[w].id

\* What has been written is still what the committed row becomes.
Written(w) ==
    hostPc[w] = "done" =>
        IF hostReq[w].op = "insert" THEN NewRow(w)
          ELSE /\ hostReq[w].op \in {"transfer", "verify", "delete"}
               /\ domain.id = hostReq[w].id
               /\ hostCopy[w] = Host!Changed(w)

About(w, op) == hostReq[w].op = op /\ hostReq[w].id = domain.id

\* Unless they cross, transfers and verifications of the row are under way at
\* different times, and what each was allowed on still holds.
Uncrossed ==
    ~crossed =>
        /\ \A v, w \in Worker : ~(About(v, "transfer") /\ About(w, "verify"))
        /\ \A w \in Worker : About(w, "verify") => hostReq[w].app = domain.app
        /\ \A w \in Worker : About(w, "transfer") => ~domain.verified

Writing == OneWriter /\ \A w \in Worker : Written(w)
HostInv == HostTypes /\ HostNumbers /\ Writing /\ Uncrossed /\ VerifiedByHolder

LEMMA HostInit == Host!Init => HostInv
<1> SUFFICES ASSUME Host!Init PROVE HostInv
  OBVIOUS
<1> USE DEF Host!Init, Host!NoDomain, Host!NoRequest
<1>1. HostTypes
  BY DEF HostTypes, HostRow, HostRequest
<1>2. HostNumbers
  BY DEF HostNumbers
<1>3. Writing
  BY DEF Writing, OneWriter, Written
<1>4. Uncrossed /\ VerifiedByHolder
  BY DEF Uncrossed, About, VerifiedByHolder, Host!VerifiedByHolder
<1> QED BY <1>1, <1>2, <1>3, <1>4 DEF HostInv

LEMMA HostBegins ==
    ASSUME HostInv, NEW w \in Worker, NEW p \in App, NEW op, NEW stage,
           Host!Begin(w, op, p, stage), op \in {"insert", "transfer", "verify", "delete"},
           stage \in {"look", "write"},
           op # "insert" => domain.id # 0,
           op = "transfer" => ~domain.verified,
           op = "verify" => domain.app = p
    PROVE  HostInv'
<1> USE DEF Host!Begin
<1>1. HostTypes'
  BY DEF HostInv, HostTypes, HostRow, HostRequest
<1>2. HostNumbers'
  BY DEF HostInv, HostTypes, HostNumbers, HostRow, HostRequest
<1>3. OneWriter'
  BY DEF HostInv, HostTypes, Writing, OneWriter
<1>6. ASSUME NEW v \in Worker, hostPc'[v] = "done" PROVE Written(v)'
  <2>1. /\ v # w /\ hostPc[v] = "done" /\ Written(v)
        /\ hostReq'[v] = hostReq[v] /\ hostCopy'[v] = hostCopy[v]
    BY <1>6 DEF HostInv, HostTypes, Writing
  <2>2. CASE hostReq[v].op = "insert"
    BY <2>1, <2>2, <1>1 DEF HostInv, HostTypes, HostRow, HostRequest, Written, NewRow
  <2>3. CASE hostReq[v].op # "insert"
    BY <2>1, <2>3 DEF Written, Host!Changed
  <2> QED BY <2>2, <2>3
<1>4. ASSUME ~crossed' PROVE Uncrossed'
  <2>1. /\ ~crossed /\ Uncrossed
        /\ \A v \in Worker \ {w} : ~(hostReq[v].id = domain.id /\ Host!Pair(hostReq[v].op, op))
    BY <1>4 DEF HostInv, HostTypes
  <2>2. /\ hostReq'[w] = [op |-> op, app |-> p, id |-> domain.id]
        /\ \A v \in Worker \ {w} : hostReq'[v] = hostReq[v]
    BY DEF HostInv, HostTypes
  <2>3. \A v \in Worker \ {w} : About(v, "transfer") => op # "verify"
    BY <2>1 DEF About, Host!Pair
  <2>4. \A v \in Worker \ {w} : About(v, "verify") => op # "transfer"
    BY <2>1 DEF About, Host!Pair
  <2>5. /\ \A v \in Worker : About(v, "transfer")' =>
              IF v = w THEN op = "transfer" ELSE About(v, "transfer")
        /\ \A v \in Worker : About(v, "verify")' =>
              IF v = w THEN op = "verify" ELSE About(v, "verify")
    BY <2>2 DEF About
  <2>6. \A v, u \in Worker : ~(About(v, "transfer") /\ About(u, "verify"))'
    BY <2>1, <2>3, <2>4, <2>5 DEF Uncrossed
  <2>7. \A v \in Worker : About(v, "verify")' => hostReq'[v].app = domain'.app
    BY <2>1, <2>2, <2>5 DEF Uncrossed
  <2>8. \A v \in Worker : About(v, "transfer")' => ~domain'.verified
    BY <2>1, <2>5 DEF Uncrossed
  <2> QED BY <2>6, <2>7, <2>8 DEF Uncrossed
<1>5. VerifiedByHolder'
  BY DEF HostInv, HostTypes, VerifiedByHolder, Host!VerifiedByHolder
<1> QED BY <1>1, <1>2, <1>3, <1>4, <1>5, <1>6 DEF HostInv, Writing, Written, Uncrossed

LEMMA HostEnds ==
    ASSUME HostInv, NEW w \in Worker, Host!Finish(w),
           UNCHANGED <<domain, rows, points, prover, crossed>>
    PROVE  HostInv'
<1> USE DEF Host!Finish, Host!NoRequest, Host!NoDomain
<1>1. HostTypes'
  BY DEF HostInv, HostTypes, HostRow, HostRequest
<1>2. HostNumbers'
  BY DEF HostInv, HostTypes, HostNumbers, HostRow, HostRequest
<1>3. OneWriter'
  BY DEF HostInv, HostTypes, Writing, OneWriter
<1>6. ASSUME NEW v \in Worker, hostPc'[v] = "done" PROVE Written(v)'
  <2>1. /\ v # w /\ hostPc[v] = "done" /\ Written(v)
        /\ hostReq'[v] = hostReq[v] /\ hostCopy'[v] = hostCopy[v]
    BY <1>6 DEF HostInv, HostTypes, Writing
  <2>2. CASE hostReq[v].op = "insert"
    BY <2>1, <2>2, <1>1 DEF HostInv, HostTypes, HostRow, HostRequest, Written, NewRow
  <2>3. CASE hostReq[v].op # "insert"
    BY <2>1, <2>3 DEF Written, Host!Changed
  <2> QED BY <2>2, <2>3
<1>4. Uncrossed'
  BY DEF HostInv, HostTypes, HostRow, HostRequest, Uncrossed, About
<1>5. VerifiedByHolder'
  BY DEF HostInv, HostTypes, VerifiedByHolder, Host!VerifiedByHolder
<1> QED BY <1>1, <1>2, <1>3, <1>4, <1>5, <1>6 DEF HostInv, Writing, Written

\* Requests that go on to write, or write, change nothing that is committed.
LEMMA HostGoesOn ==
    ASSUME HostInv, NEW w \in Worker, Host!LookUp(w)
    PROVE  HostInv'
<1>1. CASE points
  <2> USE <1>1 DEF Host!LookUp
  <2>1. HostTypes'
    BY DEF HostInv, HostTypes
  <2>2. HostNumbers' /\ Writing'
    BY DEF HostInv, HostTypes, HostNumbers, Writing, OneWriter, Written, NewRow, Host!Changed
  <2>3. Uncrossed' /\ VerifiedByHolder'
    BY DEF HostInv, HostTypes, Uncrossed, About, VerifiedByHolder, Host!VerifiedByHolder
  <2> QED BY <2>1, <2>2, <2>3 DEF HostInv
<1>2. CASE ~points
  BY <1>2, HostEnds DEF Host!LookUp
<1> QED BY <1>1, <1>2

LEMMA HostInserts ==
    ASSUME HostInv, NEW w \in Worker, Host!WriteInsert(w)
    PROVE  HostInv'
<1>1. CASE domain.id # 0
  BY <1>1, HostEnds DEF Host!WriteInsert
<1>2. CASE domain.id = 0
  <2> USE <1>2 DEF Host!WriteInsert
  <2>0. [id |-> rows + 1, app |-> hostReq[w].app, verified |-> FALSE] \in HostRow
    BY DEF HostInv, HostTypes, HostRow, HostRequest
  <2>1. HostTypes'
    <3>1. hostCopy' \in [Worker -> HostRow]
      BY <2>0 DEF HostInv, HostTypes
    <3> QED BY <3>1 DEF HostInv, HostTypes
  <2>2. HostNumbers'
    BY DEF HostInv, HostTypes, HostRow, HostRequest, HostNumbers
  <2>3. OneWriter'
    BY DEF HostInv, HostTypes, Writing, OneWriter, Host!Unlocked
  <2>4. ASSUME NEW v \in Worker, hostPc'[v] = "done" PROVE Written(v)'
    <3>1. v = w /\ hostReq'[w] = hostReq[w] /\ hostReq[w].op = "insert"
      BY <2>4 DEF HostInv, HostTypes, Host!Unlocked
    <3>2. hostCopy'[w] = [id |-> rows + 1, app |-> hostReq[w].app, verified |-> FALSE]
      BY DEF HostInv, HostTypes
    <3>3. NewRow(w)'
      BY <3>2 DEF HostInv, HostTypes, HostRow, HostRequest, HostNumbers, NewRow
    <3> QED BY <3>1, <3>3 DEF Written
  <2>5. Uncrossed' /\ VerifiedByHolder'
    BY DEF HostInv, HostTypes, Uncrossed, About, VerifiedByHolder, Host!VerifiedByHolder
  <2> QED BY <2>1, <2>2, <2>3, <2>4, <2>5 DEF HostInv, Writing, Written
<1> QED BY <1>1, <1>2

LEMMA HostWrites ==
    ASSUME HostInv, NEW w \in Worker, Host!WriteRow(w)
    PROVE  HostInv'
<1>1. CASE domain.id # hostReq[w].id
  BY <1>1, HostEnds DEF Host!WriteRow
<1>2. CASE domain.id = hostReq[w].id
  <2> USE <1>2 DEF Host!WriteRow
  <2>0. Host!Changed(w) \in HostRow
    BY DEF HostInv, HostTypes, HostRow, HostRequest, Host!Changed, Host!NoDomain
  <2>1. HostTypes'
    BY <2>0 DEF HostInv, HostTypes
  <2>2. HostNumbers'
    BY DEF HostInv, HostTypes, HostNumbers
  <2>3. OneWriter'
    BY DEF HostInv, HostTypes, Writing, OneWriter, Host!Unlocked
  <2>4. ASSUME NEW v \in Worker PROVE Written(v)'
    BY <2>4 DEF HostInv, HostTypes, HostRow, HostRequest, HostNumbers, Writing, Written,
       NewRow, Host!Unlocked, Host!Changed
  <2>5. Uncrossed' /\ VerifiedByHolder'
    BY DEF HostInv, HostTypes, Uncrossed, About, VerifiedByHolder, Host!VerifiedByHolder
  <2> QED BY <2>1, <2>2, <2>3, <2>4, <2>5 DEF HostInv, Writing
<1> QED BY <1>1, <1>2

LEMMA HostCommits ==
    ASSUME HostInv, NEW w \in Worker, Host!Commit(w)
    PROVE  HostInv'
<1> USE DEF Host!Commit, Host!Finish, Host!NoRequest, Host!NoDomain
<1>1. HostTypes'
  BY DEF HostInv, HostTypes, HostRow, HostRequest
<1>2. hostCopy[w].id <= rows
  BY DEF HostInv, HostTypes, HostRow, HostRequest, HostNumbers, Writing, Written, NewRow, Host!Changed
<1>3. HostNumbers'
  BY <1>2 DEF HostInv, HostTypes, HostRow, HostRequest, HostNumbers
<1>4. Writing'
  BY DEF HostInv, HostTypes, HostRow, HostRequest, Writing, OneWriter, Written
<1>5. Uncrossed' /\ VerifiedByHolder'
  <2> USE DEF HostInv, HostTypes, HostRow, HostRequest, HostNumbers, Writing, Written, Uncrossed, About,
          VerifiedByHolder, Host!VerifiedByHolder, NewRow, Host!Changed
  <2>1. CASE hostReq[w].op = "insert"
    BY <2>1
  <2>2. CASE hostReq[w].op = "delete"
    BY <2>2
  <2>3. CASE hostReq[w].op = "transfer"
    BY <2>3
  <2>4. CASE hostReq[w].op = "verify"
    BY <2>4
  <2> QED BY <2>1, <2>2, <2>3, <2>4
<1> QED BY <1>1, <1>3, <1>4, <1>5 DEF HostInv

LEMMA HostStep == HostInv /\ [Host!Next]_hostVars => HostInv'
<1> SUFFICES ASSUME HostInv, [Host!Next]_hostVars PROVE HostInv'
  OBVIOUS
<1>1. CASE UNCHANGED hostVars
  BY <1>1 DEF hostVars, HostInv, HostTypes, HostNumbers, Writing, OneWriter, Written, NewRow, Uncrossed, About,
     VerifiedByHolder, Host!VerifiedByHolder, Host!Changed
<1>2. CASE Host!Repoint
  BY <1>2 DEF Host!Repoint, HostInv, HostTypes, HostNumbers, Writing, OneWriter, Written, NewRow, Uncrossed, About,
     VerifiedByHolder, Host!VerifiedByHolder, Host!Changed
<1>3. ASSUME NEW w \in Worker, NEW p \in App,
             \/ Host!BeginInsert(w, p) \/ Host!BeginTransfer(w, p)
             \/ Host!BeginVerify(w, p) \/ Host!BeginDelete(w, p)
      PROVE  HostInv'
  BY <1>3, HostBegins DEF Host!BeginInsert, Host!BeginTransfer, Host!BeginVerify, Host!BeginDelete
<1>4. ASSUME NEW w \in Worker, Host!LookUp(w) PROVE HostInv'
  BY <1>4, HostGoesOn
<1>5. ASSUME NEW w \in Worker, Host!WriteInsert(w) \/ Host!WriteRow(w) PROVE HostInv'
  BY <1>5, HostInserts, HostWrites
<1>6. ASSUME NEW w \in Worker, Host!Commit(w) PROVE HostInv'
  BY <1>6, HostCommits
<1>7. ASSUME NEW w \in Worker, Host!Abort(w) PROVE HostInv'
  BY <1>7, HostEnds DEF Host!Abort
<1> QED BY <1>1, <1>2, <1>3, <1>4, <1>5, <1>6, <1>7 DEF Host!Next

\* The application that holds a verified host name is the one that verified
\* it, however requests on it overlap, unless a transfer and a verification of
\* the row crossed (dashboard/domains.py).
THEOREM HolderVerified == Host!Spec => []VerifiedByHolder
<1>1. Host!Init => HostInv
  BY HostInit
<1>2. HostInv /\ [Host!Next]_hostVars => HostInv'
  BY HostStep
<1>3. HostInv => VerifiedByHolder
  BY DEF HostInv
<1> QED BY <1>1, <1>2, <1>3, PTL DEF Host!Spec, Host!vars, hostVars

-----------------------------------------------------------------------------
(* The door (Admission).  A proof is consumed before it is answered, and the *)
(* unique indexes hold what has been inserted and not committed.           *)

DoorTypes ==
    /\ puzzle \in [Puzzle -> {"unasked", "open", "gone"}]
    /\ admitted \in [Puzzle -> Nat]
    /\ bot \subseteq Door!Bot
    /\ doorPc \in [Worker -> {"idle", "hash", "verify", "insert", "done"}]
    /\ doorReq \in [Worker -> Door!Bot \union {Door!NoBot}]
    /\ proof \in [Worker -> [puzzle: Puzzle \union {NoPuzzle}, holds: BOOLEAN]]

\* A challenge that has not been taken has admitted nobody, and one that has is
\* in the hands of one request.
ProofInv ==
    /\ \A z \in Puzzle : puzzle[z] # "gone" => admitted[z] = 0
    /\ \A w \in Worker : doorPc[w] = "hash" =>
          /\ proof[w].puzzle \in Puzzle
          /\ puzzle[proof[w].puzzle] = "gone"
          /\ admitted[proof[w].puzzle] = 0
    /\ \A v, w \in Worker : doorPc[v] = "hash" /\ doorPc[w] = "hash" /\ v # w =>
          proof[v].puzzle # proof[w].puzzle
    /\ ProofAdmitsOnce

Signing(w) == doorPc[w] \in {"verify", "insert", "done"}
SameKey(b, c) == c.app = b.app /\ c.key = b.key

\* A request has checked what its bot needs, and the index on challenge_id
\* keeps the donation of a written row to itself.
Checked ==
    \A w \in Worker :
        /\ Signing(w) => doorReq[w] \in Door!Bot
        /\ doorPc[w] \in {"insert", "done"} => doorReq[w].donation \in confirmed
        /\ doorPc[w] = "done" =>
              /\ doorReq[w].donation \notin Door!UsedDonations
              /\ \A v \in Worker \ {w} :
                    doorPc[v] = "done" => doorReq[v].donation # doorReq[w].donation

\* A key that two requests, or a request and a bot, have at the same time is
\* one that overlapping requests have presented.
Overlapping ==
    /\ \A v, w \in Worker :
          Signing(v) /\ Signing(w) /\ v # w /\ SameKey(doorReq[v], doorReq[w]) =>
              <<doorReq[w].app, doorReq[w].key>> \in together
    /\ \A w \in Worker, b \in bot :
          Signing(w) /\ SameKey(b, doorReq[w]) => <<b.app, b.key>> \in together

BotInv == Checked /\ Overlapping /\ OneBotEach
DoorInv == DoorTypes /\ ProofInv /\ BotInv

LEMMA DoorInit == Door!Init => DoorInv
<1> SUFFICES ASSUME Door!Init PROVE DoorInv
  OBVIOUS
<1> USE DEF Door!Init
<1>1. DoorTypes
  BY DEF DoorTypes, Door!NoProof
<1>2. ProofInv
  BY DEF ProofInv, ProofAdmitsOnce, Door!ProofAdmitsOnce
<1>3. BotInv
  BY DEF BotInv, Checked, Signing, Overlapping, OneBotEach, Door!OneBotEach
<1> QED BY <1>1, <1>2, <1>3 DEF DoorInv

\* A request that ends takes nothing with it.
LEMMA DoorEnds ==
    ASSUME DoorInv, NEW w \in Worker, Door!Finish(w),
           UNCHANGED <<puzzle, admitted, confirmed, bot, together>>
    PROVE  DoorInv'
<1> USE DEF Door!Finish, Door!Go, DoorInv, DoorTypes
<1>1. DoorTypes'
  BY DEF Door!NoProof
<1>2. ProofInv'
  BY DEF ProofInv, ProofAdmitsOnce, Door!ProofAdmitsOnce
<1>3. Checked' /\ OneBotEach'
  BY DEF BotInv, Checked, Signing, Door!UsedDonations, OneBotEach, Door!OneBotEach
<1>4. Overlapping'
  BY DEF BotInv, Overlapping, Signing, SameKey
<1> QED BY <1>1, <1>2, <1>3, <1>4 DEF BotInv

\* Proof of work.
LEMMA DoorAsks ==
    ASSUME DoorInv, NEW z \in Puzzle, Door!CreateChallenge(z) \/ Door!ChallengeExpires(z)
    PROVE  DoorInv'
<1> USE DEF Door!CreateChallenge, Door!ChallengeExpires, Door!bots, DoorInv, DoorTypes
<1>1. DoorTypes'
  OBVIOUS
<1>2. ProofInv'
  BY DEF ProofInv, ProofAdmitsOnce, Door!ProofAdmitsOnce
<1>3. BotInv'
  BY DEF BotInv, Checked, Overlapping, Signing, Door!UsedDonations, OneBotEach, Door!OneBotEach
<1> QED BY <1>1, <1>2, <1>3

LEMMA DoorTakes ==
    ASSUME DoorInv, NEW w \in Worker, NEW z \in Puzzle, NEW holds \in BOOLEAN,
           Door!TakeChallenge(w, z, holds)
    PROVE  DoorInv'
<1> USE DEF Door!TakeChallenge, Door!Taken, Door!Go, Door!bots, DoorInv, DoorTypes
<1>1. DoorTypes'
  OBVIOUS
<1>2. ProofInv'
  <2>1. /\ proof'[w].puzzle = z /\ puzzle[z] = "open" /\ puzzle'[z] = "gone"
        /\ \A v \in Worker \ {w} : proof'[v] = proof[v] /\ doorPc'[v] = doorPc[v]
        /\ \A y \in Puzzle \ {z} : puzzle'[y] = puzzle[y]
    OBVIOUS
  <2>2. \A v \in Worker \ {w} : doorPc[v] = "hash" => proof[v].puzzle # z
    BY <2>1 DEF ProofInv
  <2> QED BY <2>1, <2>2 DEF ProofInv, ProofAdmitsOnce, Door!ProofAdmitsOnce
<1>3. BotInv'
  BY DEF BotInv, Checked, Overlapping, Signing, Door!UsedDonations, OneBotEach, Door!OneBotEach
<1> QED BY <1>1, <1>2, <1>3

LEMMA DoorAdmits ==
    ASSUME DoorInv, NEW w \in Worker, Door!CheckProof(w)
    PROVE  DoorInv'
<1> USE DEF Door!CheckProof, Door!Finish, Door!Go, DoorInv, DoorTypes
<1>1. proof[w].puzzle \in Puzzle /\ admitted[proof[w].puzzle] = 0
  BY DEF ProofInv
<1>2. DoorTypes'
  <2>1. admitted' \in [Puzzle -> Nat]
    BY <1>1
  <2>2. doorReq' \in [Worker -> Door!Bot \union {Door!NoBot}]
    OBVIOUS
  <2> QED BY <2>1, <2>2 DEF Door!NoProof
<1>3. ProofInv'
  <2> DEFINE z == proof[w].puzzle
  <2>1. /\ admitted'[z] \in {0, 1} /\ puzzle[z] = "gone"
        /\ \A y \in Puzzle \ {z} : admitted'[y] = admitted[y]
    BY <1>1 DEF ProofInv
  <2>2. /\ doorPc'[w] # "hash"
        /\ \A v \in Worker \ {w} : proof'[v] = proof[v] /\ doorPc'[v] = doorPc[v]
    OBVIOUS
  <2>3. \A v \in Worker \ {w} : doorPc[v] = "hash" => proof[v].puzzle # z
    BY DEF ProofInv
  <2> QED BY <1>1, <2>1, <2>2, <2>3 DEF ProofInv, ProofAdmitsOnce, Door!ProofAdmitsOnce
<1>4. Checked' /\ OneBotEach'
  BY DEF BotInv, Checked, Signing, Door!UsedDonations, OneBotEach, Door!OneBotEach
<1>5. Overlapping'
  BY DEF BotInv, Overlapping, Signing, SameKey
<1> QED BY <1>2, <1>3, <1>4, <1>5 DEF BotInv

\* Bots.
LEMMA BotBegins ==
    ASSUME DoorInv, NEW w \in Worker, NEW b \in Door!Bot, Door!BeginSignup(w, b)
    PROVE  DoorInv'
<1> USE DEF Door!BeginSignup, Door!Go, DoorInv, DoorTypes
<1>1. DoorTypes'
  OBVIOUS
<1>2. ProofInv'
  BY DEF ProofInv, ProofAdmitsOnce, Door!ProofAdmitsOnce
<1>3. /\ doorReq'[w] = b /\ Signing(w)' /\ doorPc'[w] = "verify"
      /\ \A v \in Worker \ {w} : /\ doorReq'[v] = doorReq[v] /\ doorPc'[v] = doorPc[v]
                                 /\ Signing(v)' <=> Signing(v)
      /\ together \subseteq together'
  BY DEF Signing
<1>4. Checked'
  BY <1>3 DEF BotInv, Checked, Door!UsedDonations
<1>5. Overlapping'
  <2>1. \A v \in Worker \ {w} : SameKey(doorReq[v], b) => <<b.app, b.key>> \in together'
    BY DEF SameKey
  <2>2. \A c \in bot : ~SameKey(c, b)
    BY DEF Door!KeysOf, SameKey
  <2>3. ASSUME NEW u \in Worker, NEW v \in Worker, Signing(u)', Signing(v)', u # v,
               SameKey(doorReq'[u], doorReq'[v])
        PROVE  <<doorReq'[v].app, doorReq'[v].key>> \in together'
    BY <1>3, <2>1, <2>3 DEF BotInv, Overlapping, SameKey
  <2>4. ASSUME NEW v \in Worker, NEW c \in bot, Signing(v)', SameKey(c, doorReq'[v])
        PROVE  <<c.app, c.key>> \in together'
    BY <1>3, <2>2, <2>4 DEF BotInv, Overlapping
  <2> QED BY <2>3, <2>4 DEF Overlapping, SameKey
<1>6. OneBotEach'
  BY <1>3 DEF BotInv, OneBotEach, Door!OneBotEach
<1> QED BY <1>1, <1>2, <1>4, <1>5, <1>6 DEF BotInv

LEMMA BotGoesOn ==
    ASSUME DoorInv, NEW w \in Worker, Door!VerifyChallenge(w) \/ Door!InsertBot(w)
    PROVE  DoorInv'
<1> USE DEF Door!VerifyChallenge, Door!InsertBot, Door!IndexFree, Door!Go, Door!bots,
            DoorInv, DoorTypes
<1>1. DoorTypes'
  OBVIOUS
<1>2. ProofInv'
  BY DEF ProofInv, ProofAdmitsOnce, Door!ProofAdmitsOnce
<1>3. Checked'
  BY DEF BotInv, Checked, Signing, Door!UsedDonations
<1>4. Overlapping' /\ OneBotEach'
  BY DEF BotInv, Overlapping, Signing, OneBotEach, Door!OneBotEach
<1> QED BY <1>1, <1>2, <1>3, <1>4 DEF BotInv

LEMMA BotCommits ==
    ASSUME DoorInv, NEW w \in Worker, Door!Commit(w)
    PROVE  DoorInv'
<1> USE DEF Door!Commit, Door!Finish, Door!Go, DoorInv, DoorTypes
<1>1. DoorTypes'
  BY DEF Door!NoProof, BotInv, Checked, Signing
<1>2. ProofInv'
  BY DEF ProofInv, ProofAdmitsOnce, Door!ProofAdmitsOnce
<1>3. /\ doorPc'[w] = "idle" /\ ~Signing(w)' /\ Signing(w)
      /\ \A v \in Worker \ {w} : /\ doorReq'[v] = doorReq[v] /\ doorPc'[v] = doorPc[v]
                                 /\ Signing(v)' <=> Signing(v)
  BY DEF Signing
<1>4. Door!UsedDonations' = Door!UsedDonations \union {doorReq[w].donation}
  BY DEF Door!UsedDonations
<1>5. Checked'
  BY <1>3, <1>4 DEF BotInv, Checked
<1>6. Overlapping'
  BY <1>3 DEF BotInv, Overlapping, SameKey
<1>7. OneBotEach'
  <2>1. doorReq[w].donation \in confirmed /\ \A c \in bot : c.donation # doorReq[w].donation
    BY DEF BotInv, Checked, Door!UsedDonations
  <2>2. \A c \in bot : SameKey(c, doorReq[w]) => <<c.app, c.key>> \in together
    BY <1>3 DEF BotInv, Overlapping
  <2> QED BY <2>1, <2>2 DEF BotInv, OneBotEach, Door!OneBotEach, SameKey
<1> QED BY <1>1, <1>2, <1>5, <1>6, <1>7 DEF BotInv

LEMMA DonationConfirmed ==
    ASSUME DoorInv, NEW d \in Donation, Door!Confirm(d)
    PROVE  DoorInv'
<1> USE DEF Door!Confirm, DoorInv, DoorTypes
<1>1. DoorTypes'
  OBVIOUS
<1>2. ProofInv'
  BY DEF ProofInv, ProofAdmitsOnce, Door!ProofAdmitsOnce
<1>3. BotInv'
  BY DEF BotInv, Checked, Overlapping, Signing, Door!UsedDonations, OneBotEach, Door!OneBotEach
<1> QED BY <1>1, <1>2, <1>3

LEMMA DoorStep == DoorInv /\ [Door!Next]_doorVars => DoorInv'
<1> SUFFICES ASSUME DoorInv, [Door!Next]_doorVars PROVE DoorInv'
  OBVIOUS
<1>1. CASE UNCHANGED doorVars
  BY <1>1 DEF doorVars, DoorInv, DoorTypes, ProofInv, BotInv, Checked, Overlapping, Signing,
     Door!UsedDonations, ProofAdmitsOnce, Door!ProofAdmitsOnce, OneBotEach, Door!OneBotEach
<1>2. ASSUME NEW z \in Puzzle, Door!CreateChallenge(z) \/ Door!ChallengeExpires(z)
      PROVE  DoorInv'
  BY <1>2, DoorAsks
<1>3. ASSUME NEW w \in Worker, NEW z \in Puzzle, NEW holds \in BOOLEAN,
             Door!TakeChallenge(w, z, holds)
      PROVE  DoorInv'
  BY <1>3, DoorTakes
<1>4. ASSUME NEW w \in Worker, Door!CheckProof(w) PROVE DoorInv'
  BY <1>4, DoorAdmits
<1>5. ASSUME NEW w \in Worker, NEW b \in Door!Bot, Door!BeginSignup(w, b) PROVE DoorInv'
  BY <1>5, BotBegins
<1>6. ASSUME NEW w \in Worker, Door!VerifyChallenge(w) \/ Door!InsertBot(w) PROVE DoorInv'
  BY <1>6, BotGoesOn
<1>7. ASSUME NEW w \in Worker, Door!Commit(w) PROVE DoorInv'
  BY <1>7, BotCommits
<1>8. ASSUME NEW w \in Worker, Door!Abort(w) PROVE DoorInv'
  BY <1>8, DoorEnds DEF Door!Abort
<1>9. ASSUME NEW d \in Donation, Door!Confirm(d) PROVE DoorInv'
  BY <1>9, DonationConfirmed
<1> QED BY <1>1, <1>2, <1>3, <1>4, <1>5, <1>6, <1>7, <1>8, <1>9 DEF Door!Next

\* A proof of work admits one sign-up, although it is checked, consumed and
\* acted on in separate steps (verify_pow).
THEOREM AdmittedOnce == Door!Spec => []ProofAdmitsOnce
<1>1. Door!Init => DoorInv
  BY DoorInit
<1>2. DoorInv /\ [Door!Next]_doorVars => DoorInv'
  BY DoorStep
<1>3. DoorInv => ProofAdmitsOnce
  BY DEF DoorInv, ProofInv
<1> QED BY <1>1, <1>2, <1>3, PTL DEF Door!Spec, Door!vars, doorVars

\* A donation that was confirmed pays for one bot, and a key names one bot of
\* an application, unless two sign-ups presented it together (services/bots.py).
THEOREM BotsDistinct == Door!Spec => []OneBotEach
<1>1. Door!Init => DoorInv
  BY DoorInit
<1>2. DoorInv /\ [Door!Next]_doorVars => DoorInv'
  BY DoorStep
<1>3. DoorInv => OneBotEach
  BY DEF DoorInv, BotInv
<1> QED BY <1>1, <1>2, <1>3, PTL DEF Door!Spec, Door!vars, doorVars

-----------------------------------------------------------------------------
(* Metering (Metering).  A lease that has not run out is its holder's alone, *)
(* and a row that is written charges what has passed since the last charge. *)

MeterAccount == [last: (0..MaxTime) \union {NoTime}, accrued: Nat, charged: Nat]

MeterTypes ==
    /\ clock \in 0..MaxTime /\ lease \in Nat
    /\ rate \in [Tenant -> Nat] /\ account \in [Tenant -> MeterAccount]
    /\ hours \in [Tenant -> [0..MaxTime -> Nat]] /\ owed \in [Tenant -> Nat]
    /\ since \in [Tenant -> (0..MaxTime) \union {NoTime}]
    /\ meterPc \in [Process -> {"sleep", "pass", "lock", "written"}]
    /\ until \in [Process -> Nat]
    /\ todo \in [Process -> SUBSET Tenant]
    /\ at \in [Process -> Tenant \union {NoTenant}]
    /\ now \in [Process -> (0..MaxTime) \union {NoTime}]
    /\ DOMAIN meterCopy = Process

\* The lease in force is the one of the last pass that took it; no two passes
\* have time left.
LeaseInv ==
    /\ \A p \in Process : until[p] <= lease \/ until[p] <= clock
    /\ \A p, q \in Process : p # q => until[p] <= clock \/ until[q] <= clock

\* What a pass has flushed is still what the committed account becomes: it
\* holds the account's lock.
PassFine(p) ==
    /\ meterPc[p] \in {"lock", "written"} => at[p] \in Tenant /\ now[p] \in 0..MaxTime
    /\ meterPc[p] = "written" =>
          /\ meterCopy[p].cost \in Nat
          /\ meterCopy[p].row = Meter!Metered(account[at[p]], now[p], meterCopy[p].cost)
          /\ \A q \in Process \ {p} : meterPc[q] = "written" => at[q] # at[p]

SinceInv ==
    \A t \in Tenant : account[t].last # NoTime =>
        since[t] \in 0..MaxTime /\ since[t] <= account[t].last

MeterInv ==
    MeterTypes /\ LeaseInv /\ (\A p \in Process : PassFine(p)) /\ SinceInv /\ ChargedOnce

-----------------------------------------------------------------------------
(* Arithmetic.                                                             *)

\* Clamp keeps a number of units between none and the most a pass charges for.
LEMMA ClampNat ==
    ASSUME NEW n \in Int, NEW hi \in Nat
    PROVE  /\ Meter!Clamp(n, hi) \in Nat
           /\ Meter!Clamp(n, hi) <= hi
           /\ n >= 0 => Meter!Clamp(n, hi) <= n
           /\ n <= 0 => Meter!Clamp(n, hi) = 0
           /\ n >= 0 /\ n <= hi => Meter!Clamp(n, hi) = n
  BY DEF Meter!Clamp

\* Whole cents and the rest of a total are the total.
LEMMA WholeAndRest ==
    ASSUME NEW total \in Nat
    PROVE  total \div Cent \in Nat /\ total % Cent \in Nat
           /\ (total \div Cent) * Cent + (total % Cent) = total
  BY ComponentsAssumption

LEMMA Distributes ==
    ASSUME NEW a \in Int, NEW b \in Int, NEW c \in Int
    PROVE  (a + b) * c = a * c + b * c
  OBVIOUS

LEMMA ProductNat ==
    ASSUME NEW a \in Nat, NEW b \in Nat
    PROVE  a * b \in Nat
  OBVIOUS

\* Cardinality is the same operator in the module of metering.
LEMMA SameCount == ASSUME NEW S PROVE Meter!Cardinality(S) = Cardinality(S)
  BY Zenon DEF Cardinality, Meter!Cardinality

\* The units of time a metering charges for are as many as it multiplies the
\* cost with.
LEMMA UnitsCount ==
    ASSUME NEW a \in MeterAccount, a.last # NoTime, NEW time \in 0..MaxTime
    PROVE  LET n == Meter!Clamp(time - a.last, MaxElapsed)
           IN  /\ Meter!Units(a, time) = a.last .. (a.last + n - 1)
               /\ Cardinality(Meter!Units(a, time)) = n
<1> DEFINE n == Meter!Clamp(time - a.last, MaxElapsed)
<1>1. a.last \in 0..MaxTime /\ MaxTime \in Nat /\ MaxElapsed \in Nat
  BY ComponentsAssumption DEF MeterAccount
<1>2. time - a.last \in Int /\ time \in Int /\ a.last \in Int
  BY <1>1
<1>6. n \in Nat /\ (time >= a.last => n <= time - a.last) /\ (time <= a.last => n = 0)
  <2>1. /\ n \in Nat
        /\ time - a.last >= 0 => n <= time - a.last
        /\ time - a.last <= 0 => n = 0
    BY <1>2, <1>1, ClampNat
  <2> HIDE DEF n
  <2> QED BY <1>2, <2>1
<1> HIDE DEF n
<1>3. {u \in 0..MaxTime : u >= a.last /\ u < a.last + n} = a.last .. (a.last + n - 1)
  BY <1>1, <1>6
<1>4. Meter!Units(a, time) = a.last .. (a.last + n - 1)
  BY <1>3 DEF Meter!Units, Meter!Time, n
<1>5. Cardinality(a.last .. (a.last + n - 1)) = n
  <2> DEFINE hi == a.last + n - 1
  <2>1. hi \in Int /\ (a.last > hi => n = 0) /\ hi - a.last + 1 = n
    BY <1>2, <1>6
  <2> HIDE DEF hi
  <2>2. Cardinality(a.last .. hi) = IF a.last > hi THEN 0 ELSE hi - a.last + 1
    BY <1>2, <2>1, FS_Interval
  <2>3. Cardinality(a.last .. hi) = n
    BY <2>1, <2>2
  <2> QED BY <2>3 DEF hi
<1> QED BY <1>4, <1>5 DEF n

\* A metering moves what the units cost into the account, whole.
LEMMA MeteredAddsUp ==
    ASSUME NEW a \in MeterAccount, NEW time \in 0..MaxTime, NEW cost \in Nat
    PROVE  LET b == Meter!Metered(a, time, cost)
           IN  /\ b \in MeterAccount /\ b.last \in 0..MaxTime
               /\ a.last = NoTime => b.last = time
               /\ a.last # NoTime => b.last = Meter!Later(a.last, time)
               /\ b.charged * Cent + b.accrued =
                    a.charged * Cent + a.accrued
                      + (IF a.last = NoTime THEN 0
                         ELSE cost * Meter!Clamp(time - a.last, MaxElapsed))
<1> DEFINE n == Meter!Clamp(time - a.last, MaxElapsed)
           total == a.accrued + cost * n
<1> USE ComponentsAssumption, NullsAssumption
<1>1. CASE a.last = NoTime
  <2>1. Meter!Metered(a, time, cost) = [a EXCEPT !.last = time]
    BY <1>1 DEF Meter!Metered
  <2> QED BY <1>1, <2>1 DEF MeterAccount
<1>2. CASE a.last # NoTime
  <2>1. a.last \in 0..MaxTime /\ a.accrued \in Nat /\ a.charged \in Nat /\ time - a.last \in Int
    BY <1>2 DEF MeterAccount
  <2>2. n \in Nat
    BY <2>1, ClampNat
  <2>3. cost * n \in Nat
    BY <2>2, ProductNat
  <2>4. total \in Nat
    BY <2>1, <2>3
  <2>5. Meter!Metered(a, time, cost) =
          [last |-> Meter!Later(a.last, time), accrued |-> total % Cent,
           charged |-> a.charged + total \div Cent]
    BY <1>2 DEF Meter!Metered
  <2>6. total = a.accrued + cost * n
    OBVIOUS
  <2> HIDE DEF total, n
  <2>7. /\ total \div Cent \in Nat /\ total % Cent \in Nat
        /\ (total \div Cent) * Cent + (total % Cent) = total
    BY <2>4, WholeAndRest
  <2>8. (a.charged + total \div Cent) * Cent = a.charged * Cent + (total \div Cent) * Cent
    BY <2>1, <2>7, Distributes
  <2>9. Meter!Later(a.last, time) \in 0..MaxTime
    BY <2>1 DEF Meter!Later
  <2>10. (a.charged + total \div Cent) * Cent + (total % Cent)
            = a.charged * Cent + a.accrued + cost * n
    <3> DEFINE x == a.charged * Cent
               y == (total \div Cent) * Cent
               z == total % Cent
               c == cost * n
               e == (a.charged + total \div Cent) * Cent
    <3>1. x \in Nat /\ y \in Nat /\ z \in Nat /\ c \in Nat
      BY <2>1, <2>3, <2>7, ProductNat
    <3>2. y + z = a.accrued + c
      BY <2>6, <2>7
    <3>3. e = x + y
      BY <2>8
    <3> HIDE DEF x, y, z, c, e
    <3>4. e + z = x + a.accrued + c
      BY <2>1, <3>1, <3>2, <3>3
    <3> QED BY <3>4 DEF x, z, c, e
  <2>11. /\ Meter!Metered(a, time, cost) \in MeterAccount
         /\ Meter!Metered(a, time, cost).last = Meter!Later(a.last, time)
         /\ Meter!Metered(a, time, cost).accrued = total % Cent
         /\ Meter!Metered(a, time, cost).charged = a.charged + total \div Cent
    BY <2>1, <2>5, <2>7, <2>9 DEF MeterAccount
  <2> QED BY <1>2, <2>9, <2>10, <2>11 DEF n
<1> QED BY <1>1, <1>2

\* Charging n units from the last charged one on: what each unit has been
\* charged before and after.
LEMMA UnitByUnit ==
    ASSUME NEW first \in Nat, NEW last \in Nat, first <= last,
           NEW time \in Nat, NEW n \in Nat, NEW most \in Nat, NEW hi \in Nat,
           hi = IF last > time THEN last ELSE time,
           time >= last => n <= time - last,
           time <= last => n = 0,
           time >= last /\ time <= last + most => n = time - last,
           NEW u \in Nat, NEW x \in Nat, NEW y \in Nat,
           x <= (IF u \in first .. (last - 1) THEN 1 ELSE 0),
           y = IF u \in last .. (last + n - 1) THEN x + 1 ELSE x
    PROVE  /\ y <= (IF u \in first .. (hi - 1) THEN 1 ELSE 0)
           /\ \/ time > last + most
              \/ u \in first .. (last - 1) /\ x # 1
              \/ u \in first .. (hi - 1) => y = 1
  OBVIOUS

-----------------------------------------------------------------------------
(* The types.                                                              *)

LEMMA MeterInit == Meter!Init => MeterInv
<1> SUFFICES ASSUME Meter!Init PROVE MeterInv
  OBVIOUS
<1> USE ComponentsAssumption, NullsAssumption DEF Meter!Init, Meter!Time
<1>1. MeterTypes
  BY DEF MeterTypes, MeterAccount
<1>2. LeaseInv
  BY DEF LeaseInv
<1>3. (\A p \in Process : PassFine(p)) /\ SinceInv
  BY DEF PassFine, SinceInv
<1>4. ChargedOnce
  BY DEF ChargedOnce, Meter!ChargedOnce
<1> QED BY <1>1, <1>2, <1>3, <1>4 DEF MeterInv

\* A pass that moves does not touch what the others have flushed.
LEMMA OthersFine ==
    ASSUME MeterInv, NEW p \in Process,
           UNCHANGED account,
           \A q \in Process \ {p} :
               /\ meterPc'[q] = meterPc[q] /\ at'[q] = at[q] /\ now'[q] = now[q]
               /\ meterCopy'[q] = meterCopy[q],
           meterPc'[p] # "written",
           meterPc'[p] = "lock" => at'[p] \in Tenant /\ now'[p] \in 0..MaxTime
    PROVE  \A q \in Process : PassFine(q)'
<1> SUFFICES ASSUME NEW q \in Process PROVE PassFine(q)'
  OBVIOUS
<1>1. CASE q = p
  BY <1>1 DEF PassFine
<1>2. CASE q # p
  BY <1>2 DEF MeterInv, PassFine
<1> QED BY <1>1, <1>2

\* The lease is taken when nobody has any of it left.
LEMMA LeaseTaken ==
    ASSUME MeterInv, NEW p \in Process, Meter!TakeLease(p)
    PROVE  MeterInv'
<1> USE ComponentsAssumption
    DEF Meter!TakeLease, Meter!LeaseFree, Meter!Go, Meter!books, MeterInv
<1> DEFINE end == clock + (IF Interval > 1 THEN Interval - 1 ELSE 1)
<1>1. end \in Nat
  BY DEF MeterTypes
<1>2. lease' = end /\ until' = [until EXCEPT ![p] = end]
  OBVIOUS
<1> HIDE DEF end
<1>3. MeterTypes'
  BY <1>1, <1>2 DEF MeterTypes
<1>4. LeaseInv'
  <2>1. \A q \in Process : until[q] <= clock
    BY DEF LeaseInv, MeterTypes
  <2>2. /\ until'[p] = lease' /\ clock' = clock
        /\ \A q \in Process \ {p} : until'[q] = until[q]
    BY <1>2 DEF MeterTypes
  <2> QED BY <1>1, <1>2, <2>1, <2>2 DEF LeaseInv
<1>5. \A q \in Process : PassFine(q)'
  <2>1. meterPc'[p] = "pass"
    BY DEF MeterTypes
  <2>2. \A q \in Process \ {p} : meterPc'[q] = meterPc[q]
    BY DEF MeterTypes
  <2> QED BY <2>1, <2>2, OthersFine
<1>6. SinceInv' /\ ChargedOnce'
  BY DEF SinceInv, ChargedOnce, Meter!ChargedOnce
<1> QED BY <1>3, <1>4, <1>5, <1>6

\* A process that sleeps gives its time up.
LEMMA ProcessSleeps ==
    ASSUME MeterInv, NEW p \in Process, Meter!Sleep(p),
           UNCHANGED <<clock, lease, rate, account, hours, owed, since, lapsed>>
    PROVE  MeterInv'
<1> USE DEF Meter!Sleep, Meter!Go, MeterInv
<1>1. MeterTypes'
  BY DEF MeterTypes
<1>2. LeaseInv'
  BY DEF LeaseInv, MeterTypes
<1>3. \A q \in Process : PassFine(q)'
  <2>1. meterPc'[p] = "sleep"
    BY DEF MeterTypes
  <2>2. \A q \in Process \ {p} :
               /\ meterPc'[q] = meterPc[q] /\ at'[q] = at[q] /\ now'[q] = now[q]
               /\ meterCopy'[q] = meterCopy[q]
    BY DEF MeterTypes
  <2> QED BY <2>1, <2>2, OthersFine
<1>4. SinceInv' /\ ChargedOnce'
  BY DEF SinceInv, ChargedOnce, Meter!ChargedOnce
<1> QED BY <1>1, <1>2, <1>3, <1>4

LEMMA PassMoves ==
    ASSUME MeterInv, NEW p \in Process,
           Meter!FailTenant(p) \/ \E t \in Tenant : Meter!MeterTenant(p, t)
    PROVE  MeterInv'
<1> USE DEF Meter!FailTenant, Meter!MeterTenant, Meter!Leave, Meter!Go, Meter!world,
            Meter!books, MeterInv
<1>1. MeterTypes'
  <2>1. CASE Meter!FailTenant(p)
    BY <2>1, ComponentsAssumption DEF MeterTypes
  <2>2. ASSUME NEW t \in Tenant, Meter!MeterTenant(p, t) PROVE MeterTypes'
    BY <2>2 DEF MeterTypes
  <2> QED BY <2>1, <2>2
<1>2. LeaseInv'
  BY DEF LeaseInv, MeterTypes
<1>3. \A q \in Process : PassFine(q)'
  <2>1. /\ meterPc'[p] # "written"
        /\ meterPc'[p] = "lock" => at'[p] \in Tenant /\ now'[p] \in 0..MaxTime
    BY DEF MeterTypes
  <2>2. \A q \in Process \ {p} :
               /\ meterPc'[q] = meterPc[q] /\ at'[q] = at[q] /\ now'[q] = now[q]
               /\ meterCopy'[q] = meterCopy[q]
    BY DEF MeterTypes
  <2> QED BY <2>1, <2>2, OthersFine
<1>4. SinceInv' /\ ChargedOnce'
  BY DEF SinceInv, ChargedOnce, Meter!ChargedOnce
<1> QED BY <1>1, <1>2, <1>3, <1>4

\* The account is locked and read again.
LEMMA PassMeters ==
    ASSUME MeterInv, NEW p \in Process, Meter!Meter(p)
    PROVE  MeterInv'
<1> USE DEF Meter!Meter, Meter!LockedBy, Meter!Go, Meter!world, Meter!books, MeterInv
<1>1. MeterTypes'
  BY DEF MeterTypes
<1>2. LeaseInv'
  BY DEF LeaseInv, MeterTypes
<1>3. ASSUME NEW q \in Process PROVE PassFine(q)'
  <2>1. /\ at[p] \in Tenant /\ now[p] \in 0..MaxTime /\ rate[at[p]] \in Nat
        /\ \A r \in Process \ {p} : meterPc[r] = "written" => at[r] # at[p]
    BY DEF MeterTypes, PassFine
  <2>2. /\ meterCopy'[p].cost = rate[at[p]]
        /\ meterCopy'[p].row = Meter!Metered(account[at[p]], now[p], rate[at[p]])
        /\ meterPc'[p] = "written"
        /\ \A r \in Process \ {p} :
               meterPc'[r] = meterPc[r] /\ meterCopy'[r] = meterCopy[r]
    BY DEF MeterTypes
  <2>3. CASE q = p
    BY <2>1, <2>2, <2>3 DEF PassFine
  <2>4. CASE q # p
    BY <2>1, <2>2, <2>4 DEF PassFine
  <2> QED BY <2>3, <2>4
<1>4. SinceInv' /\ ChargedOnce'
  BY DEF SinceInv, ChargedOnce, Meter!ChargedOnce
<1> QED BY <1>1, <1>2, <1>3, <1>4

\* The units that are charged follow those charged before, and each of them is
\* now charged once.
LEMMA PassCommits ==
    ASSUME MeterInv, NEW p \in Process, Meter!Commit(p)
    PROVE  MeterInv'
<1> USE DEF MeterInv
<1> DEFINE t == at[p]
           a == account[t]
           b == meterCopy[p].row
           cost == meterCopy[p].cost
           n == Meter!Clamp(now[p] - a.last, MaxElapsed)
           units == Meter!Units(a, now[p])
<1>1. /\ t \in Tenant /\ now[p] \in 0..MaxTime /\ cost \in Nat
      /\ b = Meter!Metered(a, now[p], cost)
      /\ \A q \in Process \ {p} : meterPc[q] = "written" => at[q] # t
  BY DEF Meter!Commit, PassFine
<1>2. a \in MeterAccount
  BY <1>1 DEF MeterTypes
<1>3. /\ b \in MeterAccount /\ b.last \in 0..MaxTime
      /\ a.last = NoTime => b.last = now[p]
      /\ a.last # NoTime => b.last = Meter!Later(a.last, now[p])
      /\ b.charged * Cent + b.accrued =
           a.charged * Cent + a.accrued + (IF a.last = NoTime THEN 0 ELSE cost * n)
  <2> DEFINE time == now[p]
  <2>1. n = Meter!Clamp(time - a.last, MaxElapsed) /\ time \in 0..MaxTime /\ cost \in Nat
        /\ b = Meter!Metered(a, time, cost)
    BY <1>1
  <2> HIDE DEF a, b, cost, n, t, time
  <2>2. LET c == Meter!Metered(a, time, cost)
        IN  /\ c \in MeterAccount /\ c.last \in 0..MaxTime
            /\ a.last = NoTime => c.last = time
            /\ a.last # NoTime => c.last = Meter!Later(a.last, time)
            /\ c.charged * Cent + c.accrued =
                 a.charged * Cent + a.accrued
                   + (IF a.last = NoTime THEN 0
                      ELSE cost * Meter!Clamp(time - a.last, MaxElapsed))
    BY <1>2, <2>1, MeteredAddsUp
  <2> QED BY <2>1, <2>2 DEF time
<1>4. /\ account' = [account EXCEPT ![t] = b]
      /\ since' = IF a.last = NoTime THEN [since EXCEPT ![t] = now[p]] ELSE since
      /\ lapsed' = IF a.last # NoTime /\ now[p] > a.last + MaxElapsed
                     THEN lapsed \union {t} ELSE lapsed
      /\ meterPc' = [meterPc EXCEPT ![p] = "pass"]
      /\ at' = [at EXCEPT ![p] = NoTenant] /\ now' = [now EXCEPT ![p] = NoTime]
      /\ meterCopy' = [meterCopy EXCEPT ![p] = NoCopy]
      /\ UNCHANGED <<clock, lease, rate, wake, until, todo>>
  BY DEF Meter!Commit, Meter!Leave, Meter!Go, Meter!world
<1>15. hours' = [hours EXCEPT ![t] =
            [u \in Meter!Time |-> IF u \in units THEN hours[t][u] + 1 ELSE hours[t][u]]]
  BY DEF Meter!Commit
<1>16. owed' = [owed EXCEPT ![t] = owed[t] + cost * Cardinality(units)]
  <2>1. owed' = [owed EXCEPT ![at[p]] =
            @ + meterCopy[p].cost * Meter!Cardinality(Meter!Units(account[at[p]], now[p]))]
    BY DEF Meter!Commit
  <2> QED BY <2>1, SameCount
<1>5. a.last = NoTime => units = {}
  BY DEF Meter!Units
<1>6. a.last # NoTime => /\ units = a.last .. (a.last + n - 1)
                         /\ Cardinality(units) = n
  BY <1>1, <1>2, UnitsCount
<1>7. /\ a.last # NoTime => a.last \in 0..MaxTime
      /\ MaxTime \in Nat /\ MaxElapsed \in Nat /\ Cent \in Nat \ {0} /\ NoTime \notin Int
  BY <1>2, ComponentsAssumption, NullsAssumption DEF MeterAccount
<1>8. a.last # NoTime =>
         /\ n \in Nat /\ n <= MaxElapsed
         /\ now[p] >= a.last => n <= now[p] - a.last
         /\ now[p] <= a.last => n = 0
         /\ now[p] >= a.last /\ now[p] <= a.last + MaxElapsed => n = now[p] - a.last
  <2> SUFFICES ASSUME a.last # NoTime
               PROVE  /\ n \in Nat /\ n <= MaxElapsed
                      /\ now[p] >= a.last => n <= now[p] - a.last
                      /\ now[p] <= a.last => n = 0
                      /\ now[p] >= a.last /\ now[p] <= a.last + MaxElapsed
                           => n = now[p] - a.last
    OBVIOUS
  <2>1. now[p] - a.last \in Int /\ now[p] \in Int /\ a.last \in Int
    BY <1>1, <1>7
  <2>2. /\ n \in Nat
        /\ n <= MaxElapsed
        /\ now[p] - a.last >= 0 => n <= now[p] - a.last
        /\ now[p] - a.last <= 0 => n = 0
        /\ now[p] - a.last >= 0 /\ now[p] - a.last <= MaxElapsed => n = now[p] - a.last
    BY <1>7, <2>1, ClampNat
  <2> HIDE DEF n
  <2> QED BY <1>7, <2>1, <2>2
<1>9. Cardinality(units) \in Nat /\ cost * Cardinality(units) \in Nat
  <2>1. Cardinality(units) \in Nat
    BY <1>5, <1>6, <1>8, FS_EmptySet
  <2> QED BY <1>1, <2>1, ProductNat
<1> HIDE DEF t, a, b, cost, n, units
<1>10. MeterTypes'
  <2>1. account' \in [Tenant -> MeterAccount]
    BY <1>1, <1>3, <1>4 DEF MeterTypes
  <2>2. hours' \in [Tenant -> [0..MaxTime -> Nat]]
    <3> DEFINE h == [u \in Meter!Time |-> IF u \in units THEN hours[t][u] + 1 ELSE hours[t][u]]
    <3>1. h \in [0..MaxTime -> Nat]
      <4>1. hours[t] \in [0..MaxTime -> Nat]
        BY <1>1 DEF MeterTypes
      <4> DEFINE g == hours[t]
      <4> HIDE DEF g
      <4>2. \A u \in 0..MaxTime : g[u] \in Nat /\ g[u] + 1 \in Nat
        BY <1>7, <4>1 DEF g
      <4> QED BY <4>2 DEF Meter!Time, g
    <3>2. hours' = [hours EXCEPT ![t] = h]
      BY <1>15
    <3> HIDE DEF h
    <3> QED BY <3>1, <3>2 DEF MeterTypes
  <2>3. owed' \in [Tenant -> Nat]
    BY <1>1, <1>9, <1>16 DEF MeterTypes
  <2>4. since' \in [Tenant -> (0..MaxTime) \union {NoTime}]
    BY <1>1, <1>4 DEF MeterTypes
  <2>5. /\ meterPc' \in [Process -> {"sleep", "pass", "lock", "written"}]
        /\ at' \in [Process -> Tenant \union {NoTenant}]
        /\ now' \in [Process -> (0..MaxTime) \union {NoTime}]
        /\ DOMAIN meterCopy' = Process
    BY <1>4 DEF MeterTypes
  <2> QED BY <1>4, <2>1, <2>2, <2>3, <2>4, <2>5 DEF MeterTypes
<1>11. LeaseInv'
  BY <1>4 DEF LeaseInv
<1>12. ASSUME NEW q \in Process PROVE PassFine(q)'
  BY <1>1, <1>4 DEF PassFine, MeterTypes
<1>13. SinceInv'
  <2> SUFFICES ASSUME NEW s \in Tenant, account'[s].last # NoTime
               PROVE  since'[s] \in 0..MaxTime /\ since'[s] <= account'[s].last
    BY DEF SinceInv
  <2>1. CASE s # t
    <3>1. account'[s] = account[s] /\ since'[s] = since[s]
      BY <1>4, <2>1 DEF MeterTypes
    <3> QED BY <3>1 DEF SinceInv
  <2>2. CASE s = t /\ a.last = NoTime
    <3>1. account'[s].last = now[p] /\ since'[s] = now[p]
      BY <1>1, <1>3, <1>4, <2>2 DEF MeterTypes
    <3> QED BY <1>1, <1>7, <3>1
  <2>3. CASE s = t /\ a.last # NoTime
    <3>1. account'[s].last = Meter!Later(a.last, now[p]) /\ since'[s] = since[t]
      BY <1>1, <1>3, <1>4, <2>3 DEF MeterTypes
    <3>2. since[t] \in 0..MaxTime /\ since[t] <= a.last
      BY <1>1, <2>3 DEF SinceInv, a
    <3> QED BY <1>1, <1>7, <2>3, <3>1, <3>2 DEF Meter!Later
  <2> QED BY <2>1, <2>2, <2>3
<1>14. ChargedOnce'
  <2> SUFFICES ASSUME NEW s \in Tenant
               PROVE  LET due == IF account'[s].last = NoTime THEN {}
                                   ELSE since'[s] .. (account'[s].last - 1)
                      IN  /\ \A u \in Meter!Time : hours'[s][u] <= (IF u \in due THEN 1 ELSE 0)
                          /\ s \notin lapsed' => \A u \in due : hours'[s][u] = 1
                          /\ account'[s].charged * Cent + account'[s].accrued = owed'[s]
    BY DEF ChargedOnce, Meter!ChargedOnce
  <2>1. CASE s # t
    <3>1. /\ account'[s] = account[s] /\ since'[s] = since[s] /\ owed'[s] = owed[s]
          /\ hours'[s] = hours[s] /\ (s \in lapsed' <=> s \in lapsed)
      BY <1>4, <1>15, <1>16, <2>1 DEF MeterTypes
    <3> QED BY <3>1 DEF ChargedOnce, Meter!ChargedOnce
  <2>2. /\ account'[t] = b /\ owed'[t] = owed[t] + cost * Cardinality(units)
        /\ \A u \in Meter!Time :
              hours'[t][u] = IF u \in units THEN hours[t][u] + 1 ELSE hours[t][u]
        /\ \A u \in Meter!Time : hours[t][u] \in Nat
        /\ a.charged \in Nat /\ a.accrued \in Nat /\ owed[t] \in Nat
    <3>1. account'[t] = b /\ owed'[t] = owed[t] + cost * Cardinality(units)
      BY <1>1, <1>4, <1>16 DEF MeterTypes
    <3>2. hours'[t] = [u \in Meter!Time |-> IF u \in units THEN hours[t][u] + 1 ELSE hours[t][u]]
      BY <1>1, <1>15 DEF MeterTypes
    <3>3. \A u \in Meter!Time : hours[t][u] \in Nat
      BY <1>1 DEF MeterTypes, Meter!Time
    <3>4. a.charged \in Nat /\ a.accrued \in Nat /\ owed[t] \in Nat
      BY <1>1, <1>2 DEF MeterTypes, MeterAccount
    <3> QED BY <3>1, <3>2, <3>3, <3>4
  <2>3. LET due == IF a.last = NoTime THEN {} ELSE since[t] .. (a.last - 1)
        IN  /\ \A u \in Meter!Time : hours[t][u] <= (IF u \in due THEN 1 ELSE 0)
            /\ t \notin lapsed => \A u \in due : hours[t][u] = 1
            /\ a.charged * Cent + a.accrued = owed[t]
    BY <1>1 DEF ChargedOnce, Meter!ChargedOnce, a
  <2>4. CASE s = t /\ a.last = NoTime
    <3>1. /\ b.last = now[p] /\ since'[t] = now[p] /\ b.last # NoTime
          /\ b.charged * Cent + b.accrued = a.charged * Cent + a.accrued
          /\ units = {} /\ t \in DOMAIN since
      <4>1. b.last = now[p] /\ units = {} /\ since'[t] = now[p]
        BY <1>1, <1>3, <1>4, <1>5, <2>4 DEF MeterTypes
      <4>2. b.charged * Cent + b.accrued = a.charged * Cent + a.accrued + 0
        BY <1>3, <2>4
      <4>3. a.charged * Cent \in Nat
        BY <1>7, <2>2, ProductNat
      <4> QED BY <1>1, <1>7, <2>2, <4>1, <4>2, <4>3 DEF MeterTypes
    <3>2. now[p] .. (now[p] - 1) = {}
      BY <1>1, <1>7
    <3>3. cost * Cardinality(units) = 0
      BY <1>1, <3>1, FS_EmptySet
    <3> QED BY <2>2, <2>3, <2>4, <3>1, <3>2, <3>3
  <2>5. CASE s = t /\ a.last # NoTime
    <3> DEFINE hi == Meter!Later(a.last, now[p])
    <3>1. /\ b.last = hi /\ since'[t] = since[t] /\ b.last # NoTime
          /\ b.charged * Cent + b.accrued = a.charged * Cent + a.accrued + cost * n
          /\ units = a.last .. (a.last + n - 1) /\ Cardinality(units) = n
      BY <1>3, <1>4, <1>6, <1>7, <2>5
    <3>2. /\ hi = (IF a.last > now[p] THEN a.last ELSE now[p]) /\ hi \in Nat
          /\ a.last \in Nat /\ now[p] \in Nat
      BY <1>1, <1>7, <2>5 DEF Meter!Later
    <3>3. since[t] \in 0..MaxTime /\ since[t] \in Nat /\ since[t] <= a.last
      BY <1>1, <1>7, <2>5 DEF SinceInv, a
    <3> HIDE DEF hi
    <3>4. ASSUME NEW u \in Meter!Time
          PROVE  /\ hours'[t][u] <= (IF u \in since[t] .. (hi - 1) THEN 1 ELSE 0)
                 /\ t \notin lapsed' /\ u \in since[t] .. (hi - 1) => hours'[t][u] = 1
      <4> DEFINE first == since[t]
                 last == a.last
                 time == now[p]
                 x == hours[t][u]
                 y == hours'[t][u]
      <4>1. /\ u \in Nat /\ x \in Nat
            /\ y = IF u \in last .. (last + n - 1) THEN x + 1 ELSE x
        BY <1>7, <2>2, <3>1 DEF Meter!Time
      <4>2. x <= (IF u \in first .. (last - 1) THEN 1 ELSE 0)
        BY <2>3, <2>5
      <4>3. y \in Nat
        BY <4>1
      <4>4. /\ n \in Nat /\ MaxElapsed \in Nat
            /\ time >= last => n <= time - last
            /\ time <= last => n = 0
            /\ time >= last /\ time <= last + MaxElapsed => n = time - last
        BY <1>7, <1>8, <2>5
      <4>5. /\ first \in Nat /\ last \in Nat /\ first <= last /\ time \in Nat /\ hi \in Nat
            /\ hi = IF last > time THEN last ELSE time
        BY <3>2, <3>3
      <4>6. t \notin lapsed' =>
              /\ ~(time > last + MaxElapsed)
              /\ u \in first .. (last - 1) => x = 1
        BY <1>4, <2>3, <2>5
      <4> HIDE DEF first, last, time, x, y
      <4>7. /\ y <= (IF u \in first .. (hi - 1) THEN 1 ELSE 0)
            /\ \/ time > last + MaxElapsed
               \/ u \in first .. (last - 1) /\ x # 1
               \/ u \in first .. (hi - 1) => y = 1
        BY <4>1, <4>2, <4>3, <4>4, <4>5, UnitByUnit
      <4>8. /\ y <= (IF u \in first .. (hi - 1) THEN 1 ELSE 0)
            /\ t \notin lapsed' /\ u \in first .. (hi - 1) => y = 1
        BY <4>6, <4>7
      <4> QED BY <4>8 DEF first, y
    <3>5. \A u \in since[t] .. (hi - 1) : u \in Meter!Time
      BY <1>1, <1>7, <2>5, <3>2, <3>3 DEF Meter!Time
    <3>6. b.charged * Cent + b.accrued = owed'[t]
      BY <2>2, <2>3, <3>1
    <3> QED BY <2>2, <2>5, <3>1, <3>4, <3>5, <3>6
  <2> QED BY <2>1, <2>4, <2>5
<1> QED BY <1>10, <1>11, <1>12, <1>13, <1>14

\* Time, the loss of the lease and what the tenants use.
LEMMA WorldMoves ==
    ASSUME MeterInv,
           \/ Meter!Tick \/ Meter!LoseLease
           \/ \E t \in Tenant, r \in 0..MaxRate : Meter!UsageChanges(t, r)
    PROVE  MeterInv'
<1> USE DEF Meter!Tick, Meter!LoseLease, Meter!UsageChanges, Meter!books, Meter!process,
            MeterInv
<1>1. MeterTypes'
  <2>1. CASE Meter!Tick
    BY <2>1, ComponentsAssumption DEF MeterTypes
  <2>2. CASE Meter!LoseLease
    BY <2>2, ComponentsAssumption DEF MeterTypes
  <2>3. ASSUME NEW t \in Tenant, NEW r \in 0..MaxRate, Meter!UsageChanges(t, r)
        PROVE  MeterTypes'
    BY <2>3 DEF MeterTypes
  <2> QED BY <2>1, <2>2, <2>3
<1>2. LeaseInv'
  <2>1. clock \in Int /\ \A p \in Process : until[p] \in Int
    BY ComponentsAssumption DEF MeterTypes
  <2>2. CASE Meter!Tick
    BY <2>1, <2>2 DEF LeaseInv
  <2>3. CASE Meter!LoseLease
    BY <2>1, <2>3 DEF LeaseInv
  <2>4. ASSUME NEW t \in Tenant, NEW r \in 0..MaxRate, Meter!UsageChanges(t, r)
        PROVE  LeaseInv'
    BY <2>4 DEF LeaseInv
  <2> QED BY <2>2, <2>3, <2>4
<1>3. UNCHANGED <<meterPc, at, now, meterCopy, account, hours, owed, since, lapsed>>
  OBVIOUS
<1>4. ASSUME NEW p \in Process PROVE PassFine(p)'
  BY <1>3 DEF PassFine
<1>5. SinceInv' /\ ChargedOnce'
  BY <1>3 DEF SinceInv, ChargedOnce, Meter!ChargedOnce
<1> QED BY <1>1, <1>2, <1>4, <1>5

LEMMA MeterStep == MeterInv /\ [Meter!Next]_meterVars => MeterInv'
<1> SUFFICES ASSUME MeterInv, [Meter!Next]_meterVars PROVE MeterInv'
  OBVIOUS
<1>1. CASE UNCHANGED meterVars
  BY <1>1 DEF meterVars, MeterInv, MeterTypes, LeaseInv, PassFine, SinceInv, ChargedOnce,
     Meter!ChargedOnce
<1>2. ASSUME NEW p \in Process, Meter!TakeLease(p) PROVE MeterInv'
  BY <1>2, LeaseTaken
<1>3. ASSUME NEW p \in Process, Meter!SkipPass(p) \/ Meter!EndPass(p) \/ Meter!Restart(p)
      PROVE  MeterInv'
  BY <1>3, ProcessSleeps
     DEF Meter!SkipPass, Meter!EndPass, Meter!Restart, Meter!world, Meter!books
<1>4. ASSUME NEW p \in Process,
             Meter!FailTenant(p) \/ \E t \in Tenant : Meter!MeterTenant(p, t)
      PROVE  MeterInv'
  BY <1>4, PassMoves
<1>5. ASSUME NEW p \in Process, Meter!Meter(p) PROVE MeterInv'
  BY <1>5, PassMeters
<1>6. ASSUME NEW p \in Process, Meter!Commit(p) PROVE MeterInv'
  BY <1>6, PassCommits
<1>7. CASE \/ Meter!Tick \/ Meter!LoseLease
           \/ \E t \in Tenant, r \in 0..MaxRate : Meter!UsageChanges(t, r)
  BY <1>7, WorldMoves
<1> QED BY <1>1, <1>2, <1>3, <1>4, <1>5, <1>6, <1>7 DEF Meter!Next

\* Of two processes in a metering pass, one has outlasted the lease it was
\* given, or Redis has lost it (the lease of main.py's loops).
THEOREM OneMetersAtATime == Meter!Spec => []OnePassAtATime
<1>1. Meter!Init => MeterInv
  BY MeterInit
<1>2. MeterInv /\ [Meter!Next]_meterVars => MeterInv'
  BY MeterStep
<1>3. MeterInv => OnePassAtATime
  BY ComponentsAssumption
     DEF MeterInv, MeterTypes, LeaseInv, OnePassAtATime, Meter!OnePassAtATime
<1> QED BY <1>1, <1>2, <1>3, PTL DEF Meter!Spec, Meter!vars, meterVars

\* However passes overlap, fail or come late, every unit of time between a
\* tenant's first and last metering is charged once, unless the account lapsed,
\* and what is charged and accrued is what the units cost (meter_account).
THEOREM TimeChargedOnce == Meter!Spec => []ChargedOnce
<1>1. Meter!Init => MeterInv
  BY MeterInit
<1>2. MeterInv /\ [Meter!Next]_meterVars => MeterInv'
  BY MeterStep
<1>3. MeterInv => ChargedOnce
  BY DEF MeterInv
<1> QED BY <1>1, <1>2, <1>3, PTL DEF Meter!Spec, Meter!vars, meterVars

-----------------------------------------------------------------------------
(* Provider sign-in (Accounts).  A flow belongs to one callback or one     *)
(* session, and what a callback has inserted waits for its commit.         *)

AcctTypes ==
    /\ configured \subseteq Provider
    /\ flow \in [Flow -> Accts!Record]
    /\ cookie \in [Browser -> Flow \union {NoFlow}]
    /\ grant \in [Flow -> Sub \union {NoSub}]
    /\ user \in [Accts!UserId -> Accts!Row] /\ proven \subseteq Accts!UserId
    /\ identity \subseteq Sub \X Accts!UserId
    /\ opened \in Seq([flow: Flow, browser: Browser, sub: Sub, user: Accts!UserId])
    /\ acctPc \in [Worker -> {"idle", "configure", "find", "match", "create", "bind",
                              "reread", "enter"}]
    /\ acctReq \in [Worker -> Accts!Request]

InCallback(w) == acctPc[w] \notin {"idle", "configure"}

\* The flow has been consumed, and is what the browser and the account show.
Consumed(f, b, s) ==
    flow[f].status = "gone" /\ flow[f].browser = b /\ grant[f] = s

CookieInv ==
    \A b \in Browser : cookie[b] \in Flow =>
        flow[cookie[b]].status # "unasked" /\ flow[cookie[b]].browser = b

\* A flow belongs to one callback, or to the session it has opened.
CarriesFlow ==
    \A w \in Worker : InCallback(w) =>
        /\ acctReq[w].flow \in Flow /\ acctReq[w].browser \in Browser
        /\ acctReq[w].sub \in Sub
        /\ Consumed(acctReq[w].flow, acctReq[w].browser, acctReq[w].sub)
        /\ \A i \in DOMAIN opened : opened[i].flow # acctReq[w].flow
        /\ \A v \in Worker \ {w} : InCallback(v) => acctReq[v].flow # acctReq[w].flow
OpenedFlow ==
    \A i \in DOMAIN opened :
        /\ Consumed(opened[i].flow, opened[i].browser, opened[i].sub)
        /\ \A j \in DOMAIN opened : opened[i].flow = opened[j].flow => i = j
FlowInv == CookieInv /\ CarriesFlow /\ OpenedFlow

UserExists(u) == u \in Accts!UserId /\ user[u] # Accts!NoRow

\* A user registered with a password is joined to nothing but by a proof.
Joinable(u) == user[u].verified \/ user[u].password # "first"

\* The row a callback has inserted is its own, nobody sees it, and it ends with
\* its transaction or is entered with an identity.
MadeInv ==
    \A w \in Worker : acctReq[w].made # 0 =>
        /\ acctPc[w] \in {"bind", "enter"}
        /\ acctPc[w] = "enter" => acctReq[w].bound
        /\ acctReq[w].user = acctReq[w].made
        /\ user[acctReq[w].made] = Accts!NoRow
        /\ \A v \in Worker \ {w} : acctReq[v].made # acctReq[w].made

\* An inserted identity is the only one of its provider account.
BoundInv ==
    \A w \in Worker : acctReq[w].bound =>
        /\ acctPc[w] = "enter"
        /\ \A u \in Accts!UserId : <<acctReq[w].sub, u>> \notin identity
        /\ \A v \in Worker \ {w} : acctReq[v].bound => acctReq[v].sub # acctReq[w].sub

\* The user a callback is about to enter.
TargetInv ==
    \A w \in Worker :
        /\ acctPc[w] = "match" => acctReq[w].address # NoAddress
        /\ acctPc[w] = "enter" =>
              /\ acctReq[w].user \in Accts!UserId
              /\ acctReq[w].bound \/ <<acctReq[w].sub, acctReq[w].user>> \in identity
        /\ acctPc[w] = "bind" \/ acctReq[w].bound =>
              \/ acctReq[w].made # 0
              \/ UserExists(acctReq[w].user) /\ Joinable(acctReq[w].user)

IdentityInv ==
    /\ \A s \in Sub, u1, u2 \in Accts!UserId :
          <<s, u1>> \in identity /\ <<s, u2>> \in identity => u1 = u2
    /\ \A i \in DOMAIN opened : <<opened[i].sub, opened[i].user>> \in identity
    /\ \A u \in proven : UserExists(u)
    /\ \A s \in Sub, u \in Accts!UserId : <<s, u>> \in identity => UserExists(u)

VerifiedInv ==
    \A u \in Accts!UserId :
        user[u].password = "first" /\ user[u].verified => u \in proven

StageInv == MadeInv /\ BoundInv /\ TargetInv
UsersInv == IdentityInv /\ VerifiedInv /\ NothingHalfMade /\ PasswordProved
AcctInv == AcctTypes /\ FlowInv /\ StageInv /\ UsersInv

LEMMA AcctInit == Accts!Init => AcctInv
<1> SUFFICES ASSUME Accts!Init PROVE AcctInv
  OBVIOUS
<1> USE DEF Accts!Init
<1>0. opened = <<>> /\ DOMAIN opened = {}
  OBVIOUS
<1>1. AcctTypes
  <2>1. Accts!NoRequest \in Accts!Request
    BY ComponentsAssumption DEF Accts!NoRequest, Accts!Request
  <2>2. Accts!NoRow \in Accts!Row
    BY DEF Accts!NoRow, Accts!Row
  <2>3. opened \in Seq([flow: Flow, browser: Browser, sub: Sub, user: Accts!UserId])
    OBVIOUS
  <2>4. flow \in [Flow -> Accts!Record]
    BY DEF Accts!Record
  <2> QED BY <2>1, <2>2, <2>3, <2>4 DEF AcctTypes
<1>2. FlowInv
  BY <1>0, NullsAssumption DEF FlowInv, CookieInv, CarriesFlow, OpenedFlow, InCallback
<1>3. StageInv
  BY DEF StageInv, MadeInv, BoundInv, TargetInv, Accts!NoRequest
<1>4. UsersInv
  BY <1>0 DEF UsersInv, IdentityInv, VerifiedInv, NothingHalfMade, PasswordProved, Accts!NothingHalfMade,
     Accts!PasswordProved, Accts!NoRow
<1> QED BY <1>1, <1>2, <1>3, <1>4 DEF AcctInv

\* Requests that end, or that only configure, carry nothing.
LEMMA AcctEnds ==
    ASSUME AcctInv, NEW w \in Worker, Accts!Finish(w),
           UNCHANGED <<flow, grant, user, proven, identity, opened>>,
           configured' \subseteq Provider,
           cookie' = cookie \/ \E b \in Browser : cookie' = [cookie EXCEPT ![b] = NoFlow]
    PROVE  AcctInv'
<1> USE DEF Accts!Finish, Accts!Go, AcctInv
<1>1. /\ acctPc'[w] = "idle" /\ acctReq'[w] = Accts!NoRequest
      /\ \A v \in Worker \ {w} : acctPc'[v] = acctPc[v] /\ acctReq'[v] = acctReq[v]
  BY DEF AcctTypes
<1>2. /\ Accts!NoRequest.made = 0 /\ Accts!NoRequest.bound = FALSE
      /\ Accts!NoRequest \in Accts!Request
  BY ComponentsAssumption DEF Accts!NoRequest, Accts!Request
<1>3. AcctTypes'
  BY <1>2 DEF AcctTypes
<1>4. FlowInv'
  <2>1. \A b \in Browser : cookie'[b] \in Flow => cookie'[b] = cookie[b]
    BY NullsAssumption DEF AcctTypes
  <2>2. CookieInv'
    BY <2>1 DEF FlowInv, CookieInv
  <2>3. CarriesFlow' /\ OpenedFlow'
    BY <1>1 DEF FlowInv, CarriesFlow, OpenedFlow, InCallback, Consumed
  <2> QED BY <2>2, <2>3 DEF FlowInv
<1>5. StageInv'
  BY <1>1, <1>2 DEF StageInv, MadeInv, BoundInv, TargetInv, UserExists, Joinable
<1>6. UsersInv'
  BY DEF UsersInv, IdentityInv, VerifiedInv, NothingHalfMade, PasswordProved,
     Accts!NothingHalfMade, Accts!PasswordProved, UserExists
<1> QED BY <1>3, <1>4, <1>5, <1>6

\* What a step leaves alone stays in order.
LEMMA FlowsKept ==
    ASSUME AcctInv, NEW w \in Worker, UNCHANGED <<flow, grant, cookie, opened>>,
           \A v \in Worker \ {w} : acctPc'[v] = acctPc[v] /\ acctReq'[v] = acctReq[v],
           InCallback(w)' =>
               /\ InCallback(w) /\ acctReq'[w].flow = acctReq[w].flow
               /\ acctReq'[w].browser = acctReq[w].browser
               /\ acctReq'[w].sub = acctReq[w].sub
    PROVE  FlowInv'
<1>1. CookieInv' /\ OpenedFlow'
  BY DEF AcctInv, FlowInv, CookieInv, OpenedFlow, Consumed
<1>2. \A v \in Worker \ {w} : InCallback(v)' <=> InCallback(v)
  BY DEF InCallback
<1>3. CarriesFlow'
  BY <1>2 DEF AcctInv, FlowInv, CarriesFlow, Consumed
<1> QED BY <1>1, <1>3 DEF FlowInv

LEMMA UsersKept ==
    ASSUME AcctInv, UNCHANGED <<user, proven, identity, opened>>
    PROVE  UsersInv'
  BY DEF AcctInv, UsersInv, IdentityInv, VerifiedInv, NothingHalfMade, PasswordProved,
     Accts!NothingHalfMade, Accts!PasswordProved, UserExists

LEMMA StageKept ==
    ASSUME AcctInv, NEW w \in Worker, UNCHANGED <<user, identity>>,
           \A v \in Worker \ {w} : acctPc'[v] = acctPc[v] /\ acctReq'[v] = acctReq[v],
           acctReq'[w].made # 0 =>
               /\ acctPc'[w] \in {"bind", "enter"}
               /\ acctPc'[w] = "enter" => acctReq'[w].bound
               /\ acctReq'[w].user = acctReq'[w].made
               /\ user[acctReq'[w].made] = Accts!NoRow
               /\ \A v \in Worker \ {w} : acctReq[v].made # acctReq'[w].made,
           acctReq'[w].bound =>
               /\ acctPc'[w] = "enter"
               /\ \A u \in Accts!UserId : <<acctReq'[w].sub, u>> \notin identity
               /\ \A v \in Worker \ {w} : acctReq[v].bound => acctReq[v].sub # acctReq'[w].sub,
           acctPc'[w] = "match" => acctReq'[w].address # NoAddress,
           acctPc'[w] = "enter" =>
               /\ acctReq'[w].user \in Accts!UserId
               /\ acctReq'[w].bound \/ <<acctReq'[w].sub, acctReq'[w].user>> \in identity,
           acctPc'[w] = "bind" \/ acctReq'[w].bound =>
               \/ acctReq'[w].made # 0
               \/ UserExists(acctReq'[w].user) /\ Joinable(acctReq'[w].user)
    PROVE  StageInv'
<1>1. MadeInv'
  BY DEF AcctInv, StageInv, MadeInv
<1>2. BoundInv'
  BY DEF AcctInv, StageInv, BoundInv
<1>3. ASSUME NEW v \in Worker
      PROVE  /\ acctPc'[v] = "match" => acctReq'[v].address # NoAddress
             /\ acctPc'[v] = "enter" =>
                   /\ acctReq'[v].user \in Accts!UserId
                   /\ acctReq'[v].bound \/ <<acctReq'[v].sub, acctReq'[v].user>> \in identity
             /\ acctPc'[v] = "bind" \/ acctReq'[v].bound =>
                   \/ acctReq'[v].made # 0
                   \/ UserExists(acctReq'[v].user) /\ Joinable(acctReq'[v].user)
  BY DEF AcctInv, StageInv, TargetInv
<1>4. TargetInv'
  BY <1>3 DEF TargetInv, UserExists, Joinable
<1> QED BY <1>1, <1>2, <1>4 DEF StageInv

LEMMA AcctConfigures ==
    ASSUME AcctInv, NEW w \in Worker, NEW p \in Provider,
           Accts!BeginConfigure(w, p) \/ Accts!BeginRemove(w, p)
    PROVE  AcctInv'
<1> USE DEF Accts!BeginConfigure, Accts!BeginRemove, Accts!Go, Accts!flows, Accts!rows
<1> DEFINE r == acctReq[w]
<1>1. PICK q \in SUBSET Provider :
          /\ acctPc[w] = "idle" /\ acctReq' = [acctReq EXCEPT ![w].providers = q]
          /\ acctPc' = [acctPc EXCEPT ![w] = "configure"]
          /\ UNCHANGED <<configured, flow, cookie, grant, user, proven, identity, opened>>
  <2>1. configured \union {p} \in SUBSET Provider /\ configured \ {p} \in SUBSET Provider
    BY DEF AcctInv, AcctTypes
  <2>2. CASE Accts!BeginConfigure(w, p)
    BY <2>1, <2>2
  <2>3. CASE Accts!BeginRemove(w, p)
    BY <2>1, <2>3
  <2> QED BY <2>2, <2>3
<1>2. /\ acctPc'[w] = "configure" /\ acctReq'[w].made = acctReq[w].made
      /\ acctReq'[w].bound = acctReq[w].bound
      /\ \A v \in Worker \ {w} : acctPc'[v] = acctPc[v] /\ acctReq'[v] = acctReq[v]
      /\ acctReq' \in [Worker -> Accts!Request]
      /\ acctPc' \in [Worker -> {"idle", "configure", "find", "match", "create", "bind",
                              "reread", "enter"}]
  <2>1. acctReq[w] \in Accts!Request
    BY DEF AcctInv, AcctTypes
  <2>2. /\ [acctReq[w] EXCEPT !.providers = q] \in Accts!Request
        /\ [acctReq[w] EXCEPT !.providers = q].made = acctReq[w].made
        /\ [acctReq[w] EXCEPT !.providers = q].bound = acctReq[w].bound
    BY <2>1 DEF Accts!Request
  <2>3. acctReq' = [acctReq EXCEPT ![w] = [acctReq[w] EXCEPT !.providers = q]]
    BY <1>1
  <2> QED BY <1>1, <2>2, <2>3 DEF AcctInv, AcctTypes
<1>3. acctReq[w].made = 0 /\ ~acctReq[w].bound
  BY <1>1 DEF AcctInv, StageInv, MadeInv, BoundInv, AcctTypes, Accts!Request
<1>4. AcctTypes'
  BY <1>1, <1>2 DEF AcctInv, AcctTypes
<1>5. FlowInv'
  BY <1>1, <1>2, FlowsKept DEF InCallback
<1>6. StageInv'
  BY <1>1, <1>2, <1>3, StageKept
<1>7. UsersInv'
  BY <1>1, UsersKept
<1> QED BY <1>4, <1>5, <1>6, <1>7 DEF AcctInv

LEMMA AcctFinds ==
    ASSUME AcctInv, NEW w \in Worker, Accts!Find(w)
    PROVE  AcctInv'
<1> USE DEF Accts!Find, Accts!Go, Accts!flows, Accts!rows
<1>1. /\ acctPc[w] = "find" /\ acctReq[w].made = 0 /\ ~acctReq[w].bound
      /\ acctReq[w] \in Accts!Request
  BY DEF AcctInv, StageInv, MadeInv, BoundInv, AcctTypes, Accts!Request
<1>2. UNCHANGED <<configured, flow, cookie, grant, user, proven, identity, opened>>
  OBVIOUS
<1>3. CASE Accts!UsersOf(acctReq[w].sub) # {}
  <2>1. PICK u \in Accts!UsersOf(acctReq[w].sub) :
            acctReq' = [acctReq EXCEPT ![w].user = u] /\ acctPc' = [acctPc EXCEPT ![w] = "enter"]
    BY <1>3
  <2>2. u \in Accts!UserId /\ <<acctReq[w].sub, u>> \in identity
    BY <2>1 DEF Accts!UsersOf
  <2>3. /\ acctPc'[w] = "enter" /\ acctReq'[w] = [acctReq[w] EXCEPT !.user = u]
        /\ \A v \in Worker \ {w} : acctPc'[v] = acctPc[v] /\ acctReq'[v] = acctReq[v]
    BY <2>1 DEF AcctInv, AcctTypes
  <2>4. /\ acctReq'[w].user = u /\ acctReq'[w].made = 0 /\ ~acctReq'[w].bound
        /\ acctReq'[w].flow = acctReq[w].flow /\ acctReq'[w].browser = acctReq[w].browser
        /\ acctReq'[w].sub = acctReq[w].sub /\ acctReq'[w] \in Accts!Request
    BY <1>1, <2>2, <2>3, ComponentsAssumption DEF Accts!Request, Accts!UserId
  <2>5. AcctTypes'
    BY <1>2, <2>1, <2>3, <2>4 DEF AcctInv, AcctTypes
  <2>6. FlowInv'
    BY <1>1, <1>2, <2>3, <2>4, FlowsKept DEF InCallback
  <2>7. StageInv'
    BY <1>2, <2>2, <2>3, <2>4, StageKept
  <2> QED BY <1>2, <2>5, <2>6, <2>7, UsersKept DEF AcctInv
<1>4. CASE Accts!UsersOf(acctReq[w].sub) = {}
  <2>1. /\ acctPc'[w] \in {"create", "match"} /\ acctReq' = acctReq
        /\ acctPc'[w] = "match" => acctReq[w].address # NoAddress
        /\ \A v \in Worker \ {w} : acctPc'[v] = acctPc[v]
    BY <1>4 DEF AcctInv, AcctTypes
  <2>2. AcctTypes'
    BY <1>2, <1>4, <2>1 DEF AcctInv, AcctTypes
  <2>3. FlowInv'
    BY <1>1, <1>2, <2>1, FlowsKept DEF InCallback
  <2>4. StageInv'
    BY <1>1, <1>2, <2>1, StageKept
  <2> QED BY <1>2, <2>2, <2>3, <2>4, UsersKept DEF AcctInv
<1> QED BY <1>3, <1>4

\* A callback goes on to a stage, with what it needs there.
LEMMA CallbackMoves ==
    ASSUME AcctInv, NEW w \in Worker, NEW r \in Accts!Request,
           NEW stage \in {"find", "match", "create", "bind", "reread", "enter"},
           InCallback(w),
           acctReq' = [acctReq EXCEPT ![w] = r], acctPc' = [acctPc EXCEPT ![w] = stage],
           UNCHANGED <<configured, flow, cookie, grant, user, proven, identity, opened>>,
           r.flow = acctReq[w].flow, r.browser = acctReq[w].browser, r.sub = acctReq[w].sub,
           r.made # 0 =>
               /\ stage \in {"bind", "enter"} /\ (stage = "enter" => r.bound)
               /\ r.user = r.made /\ user[r.made] = Accts!NoRow
               /\ \A v \in Worker \ {w} : acctReq[v].made # r.made,
           r.bound =>
               /\ stage = "enter"
               /\ \A u \in Accts!UserId : <<r.sub, u>> \notin identity
               /\ \A v \in Worker \ {w} : acctReq[v].bound => acctReq[v].sub # r.sub,
           stage = "match" => r.address # NoAddress,
           stage = "enter" =>
               r.user \in Accts!UserId /\ (r.bound \/ <<r.sub, r.user>> \in identity),
           stage = "bind" \/ r.bound =>
               r.made # 0 \/ (UserExists(r.user) /\ Joinable(r.user))
    PROVE  AcctInv'
<1>1. /\ acctPc'[w] = stage /\ acctReq'[w] = r
      /\ \A v \in Worker \ {w} : acctPc'[v] = acctPc[v] /\ acctReq'[v] = acctReq[v]
  BY DEF AcctInv, AcctTypes
<1>2. AcctTypes'
  BY DEF AcctInv, AcctTypes
<1>3. FlowInv'
  BY <1>1, FlowsKept
<1>4. StageInv'
  BY <1>1, StageKept
<1> QED BY <1>2, <1>3, <1>4, UsersKept DEF AcctInv

\* What a callback has before it binds, and between.
LEMMA StageFacts ==
    ASSUME AcctInv, NEW w \in Worker
    PROVE  /\ acctReq[w] \in Accts!Request
           /\ acctPc[w] \notin {"bind", "enter"} => acctReq[w].made = 0
           /\ acctPc[w] # "enter" => ~acctReq[w].bound
           /\ acctPc[w] = "bind" =>
                 acctReq[w].made # 0 \/ (UserExists(acctReq[w].user) /\ Joinable(acctReq[w].user))
<1>1. /\ acctReq[w] \in Accts!Request
      /\ acctPc[w] \notin {"bind", "enter"} => acctReq[w].made = 0
      /\ acctPc[w] # "enter" => ~acctReq[w].bound
  BY DEF AcctInv, StageInv, MadeInv, BoundInv, AcctTypes, Accts!Request
<1>2. acctPc[w] = "bind" =>
          acctReq[w].made # 0 \/ (UserExists(acctReq[w].user) /\ Joinable(acctReq[w].user))
  BY DEF AcctInv, StageInv, TargetInv
<1> QED BY <1>1, <1>2

LEMMA AcctMatches ==
    ASSUME AcctInv, NEW w \in Worker, Accts!Match(w)
    PROVE  AcctInv'
<1> USE DEF Accts!Match, Accts!Go, Accts!flows, Accts!rows
<1>1. /\ acctPc[w] = "match" /\ acctReq[w].made = 0 /\ ~acctReq[w].bound
      /\ acctReq[w] \in Accts!Request /\ acctReq[w].address # NoAddress
  BY StageFacts DEF AcctInv, StageInv, TargetInv
<1>2. UNCHANGED <<configured, flow, grant, user, proven, identity, opened>>
  OBVIOUS
<1>3. CASE Accts!Registered(acctReq[w].address) = {}
  <2>1. /\ acctReq' = [acctReq EXCEPT ![w] = acctReq[w]] /\ UNCHANGED cookie
        /\ acctPc' = [acctPc EXCEPT ![w] = "create"]
    BY <1>3 DEF AcctInv, AcctTypes
  <2> QED BY <1>1, <1>2, <2>1, CallbackMoves DEF InCallback
<1>4. CASE Accts!Registered(acctReq[w].address) # {}
  <2>1. PICK u \in Accts!Registered(acctReq[w].address) :
            IF Accts!MayLink(w, u)
              THEN /\ acctReq' = [acctReq EXCEPT ![w].user = u]
                   /\ acctPc' = [acctPc EXCEPT ![w] = "bind"]
                   /\ UNCHANGED cookie
              ELSE /\ cookie' = [cookie EXCEPT ![acctReq[w].browser] = NoFlow]
                   /\ Accts!Finish(w)
    BY <1>4
  <2>2. u \in Accts!UserId /\ user[u].address = acctReq[w].address
    BY <2>1 DEF Accts!Registered
  <2>3. UserExists(u)
    BY <1>1, <2>2 DEF UserExists, Accts!NoRow
  <2>4. CASE Accts!MayLink(w, u)
    <3> DEFINE r == [acctReq[w] EXCEPT !.user = u]
    <3>1. /\ r \in Accts!Request /\ r.made = 0 /\ ~r.bound /\ r.user = u
          /\ r.flow = acctReq[w].flow /\ r.browser = acctReq[w].browser
          /\ r.sub = acctReq[w].sub
      BY <1>1, <2>2, ComponentsAssumption DEF Accts!Request, Accts!UserId
    <3>2. acctReq' = [acctReq EXCEPT ![w] = r] /\ acctPc' = [acctPc EXCEPT ![w] = "bind"]
          /\ UNCHANGED cookie
      BY <2>1, <2>4
    <3>3. Joinable(u)
      BY <2>4 DEF Accts!MayLink, Joinable
    <3> HIDE DEF r
    <3> QED BY <1>1, <1>2, <2>3, <3>1, <3>2, <3>3, CallbackMoves DEF InCallback
  <2>5. CASE ~Accts!MayLink(w, u)
    <3>1. acctReq[w].browser \in Browser
      BY <1>1 DEF AcctInv, FlowInv, CarriesFlow, InCallback
    <3>2. configured' \subseteq Provider
      BY <1>2 DEF AcctInv, AcctTypes
    <3> QED BY <1>2, <2>1, <2>5, <3>1, <3>2, AcctEnds
  <2> QED BY <2>4, <2>5
<1> QED BY <1>3, <1>4

LEMMA AcctCreates ==
    ASSUME AcctInv, NEW w \in Worker, Accts!CreateUser(w)
    PROVE  AcctInv'
<1> USE DEF Accts!CreateUser, Accts!Go, Accts!flows, Accts!rows
<1>1. PICK u \in Accts!Unused : acctReq' = [acctReq EXCEPT ![w].user = u, ![w].made = u]
  OBVIOUS
<1>2. /\ u \in Accts!UserId /\ u \in 0..MaxUsers /\ u # 0 /\ user[u] = Accts!NoRow
      /\ \A v \in Worker : acctReq[v].made # u
  BY <1>1, ComponentsAssumption DEF Accts!Unused, Accts!UserId
<1>3. /\ acctPc[w] = "create" /\ ~acctReq[w].bound /\ acctReq[w] \in Accts!Request
      /\ acctPc' = [acctPc EXCEPT ![w] = "bind"]
      /\ UNCHANGED <<configured, flow, cookie, grant, user, proven, identity, opened>>
  BY StageFacts
<1> DEFINE r == [acctReq[w] EXCEPT !.user = u, !.made = u]
<1>4. /\ r \in Accts!Request /\ r.made = u /\ r.user = u /\ ~r.bound
      /\ r.flow = acctReq[w].flow /\ r.browser = acctReq[w].browser
      /\ r.sub = acctReq[w].sub
  BY <1>2, <1>3 DEF Accts!Request
<1>5. acctReq' = [acctReq EXCEPT ![w] = r]
  BY <1>1 DEF AcctInv, AcctTypes
<1> HIDE DEF r, Accts!CreateUser
<1>6. /\ InCallback(w) /\ user[r.made] = Accts!NoRow /\ r.made # 0
      /\ \A v \in Worker \ {w} : acctReq[v].made # r.made
  BY <1>2, <1>3, <1>4 DEF InCallback
<1> QED BY <1>3, <1>4, <1>5, <1>6, CallbackMoves

LEMMA AcctBinds ==
    ASSUME AcctInv, NEW w \in Worker, Accts!Bind(w)
    PROVE  AcctInv'
<1> USE DEF Accts!Bind, Accts!Go, Accts!flows, Accts!rows
<1>1. /\ acctPc[w] = "bind" /\ ~acctReq[w].bound /\ acctReq[w] \in Accts!Request
      /\ UNCHANGED <<configured, flow, cookie, grant, user, proven, identity, opened>>
      /\ \A v \in Worker \ {w} : acctReq[v].bound => acctReq[v].sub # acctReq[w].sub
  BY StageFacts
<1>2. /\ acctReq[w].made # 0 =>
            /\ acctReq[w].user = acctReq[w].made /\ user[acctReq[w].made] = Accts!NoRow
            /\ \A v \in Worker \ {w} : acctReq[v].made # acctReq[w].made
      /\ acctReq[w].made # 0 \/ (UserExists(acctReq[w].user) /\ Joinable(acctReq[w].user))
  <2>1. acctReq[w].made # 0 =>
            /\ acctReq[w].user = acctReq[w].made /\ user[acctReq[w].made] = Accts!NoRow
            /\ \A v \in Worker \ {w} : acctReq[v].made # acctReq[w].made
    BY DEF AcctInv, StageInv, MadeInv
  <2>2. acctReq[w].made # 0 \/ (UserExists(acctReq[w].user) /\ Joinable(acctReq[w].user))
    BY <1>1, StageFacts
  <2> QED BY <2>1, <2>2
<1>3. CASE Accts!SubFree(w)
  <2> DEFINE r == [acctReq[w] EXCEPT !.bound = TRUE]
  <2>1. /\ r \in Accts!Request /\ r.made = acctReq[w].made /\ r.user = acctReq[w].user
        /\ r.bound /\ r.flow = acctReq[w].flow /\ r.browser = acctReq[w].browser
        /\ r.sub = acctReq[w].sub
    BY <1>1 DEF Accts!Request
  <2>2. acctReq' = [acctReq EXCEPT ![w] = r] /\ acctPc' = [acctPc EXCEPT ![w] = "enter"]
    BY <1>3
  <2>3. \A u \in Accts!UserId : <<r.sub, u>> \notin identity
    BY <1>3, <2>1 DEF Accts!SubFree, Accts!UsersOf
  <2>4. r.user \in Accts!UserId
    BY <1>1, <1>2, <2>1, ComponentsAssumption DEF Accts!Request, Accts!UserId, UserExists
  <2> HIDE DEF r
  <2>5. /\ r.made # 0 =>
              /\ r.user = r.made /\ user[r.made] = Accts!NoRow
              /\ \A v \in Worker \ {w} : acctReq[v].made # r.made
        /\ r.made # 0 \/ (UserExists(r.user) /\ Joinable(r.user))
        /\ \A v \in Worker \ {w} : acctReq[v].bound => acctReq[v].sub # r.sub
        /\ InCallback(w)
    BY <1>1, <1>2, <2>1 DEF InCallback
  <2> QED BY <1>1, <2>1, <2>2, <2>3, <2>4, <2>5, CallbackMoves
<1>4. CASE ~Accts!SubFree(w)
  <2> DEFINE r == [acctReq[w] EXCEPT !.user = 0, !.made = 0]
  <2>0. 0 \in 0..MaxUsers
    BY ComponentsAssumption
  <2>1. /\ r \in Accts!Request /\ r.made = 0 /\ ~r.bound
        /\ r.flow = acctReq[w].flow /\ r.browser = acctReq[w].browser
        /\ r.sub = acctReq[w].sub
    BY <1>1, <2>0 DEF Accts!Request
  <2>2. acctReq' = [acctReq EXCEPT ![w] = r] /\ acctPc' = [acctPc EXCEPT ![w] = "reread"]
    BY <1>4 DEF Accts!RolledBack
  <2> HIDE DEF r
  <2> QED BY <1>1, <2>1, <2>2, CallbackMoves DEF InCallback
<1> QED BY <1>3, <1>4

LEMMA AcctRereads ==
    ASSUME AcctInv, NEW w \in Worker, Accts!Reread(w)
    PROVE  AcctInv'
<1> USE DEF Accts!Reread, Accts!Go, Accts!flows, Accts!rows
<1>1. /\ acctPc[w] = "reread" /\ acctReq[w].made = 0 /\ ~acctReq[w].bound
      /\ acctReq[w] \in Accts!Request /\ acctPc' = [acctPc EXCEPT ![w] = "enter"]
      /\ UNCHANGED <<configured, flow, cookie, grant, user, proven, identity, opened>>
  BY StageFacts
<1>2. PICK u \in Accts!UsersOf(acctReq[w].sub) : acctReq' = [acctReq EXCEPT ![w].user = u]
  OBVIOUS
<1>3. u \in Accts!UserId /\ u \in 0..MaxUsers /\ <<acctReq[w].sub, u>> \in identity
  BY ComponentsAssumption DEF Accts!UsersOf, Accts!UserId
<1> DEFINE r == [acctReq[w] EXCEPT !.user = u]
<1>4. /\ r \in Accts!Request /\ r.made = 0 /\ ~r.bound /\ r.user = u
      /\ r.flow = acctReq[w].flow /\ r.browser = acctReq[w].browser
      /\ r.sub = acctReq[w].sub
  BY <1>1, <1>3 DEF Accts!Request
<1>5. acctReq' = [acctReq EXCEPT ![w] = r]
  BY <1>2
<1> HIDE DEF r
<1> QED BY <1>1, <1>3, <1>4, <1>5, CallbackMoves DEF InCallback

LEMMA SeqElement == ASSUME NEW S, NEW s \in Seq(S), NEW i \in DOMAIN s PROVE s[i] \in S
  OBVIOUS

LEMMA SeqAppend ==
    ASSUME NEW S, NEW s \in Seq(S), NEW e \in S, NEW i \in DOMAIN Append(s, e)
    PROVE  /\ Append(s, e) \in Seq(S)
           /\ \/ i \in DOMAIN s /\ Append(s, e)[i] = s[i]
              \/ i = Len(s) + 1 /\ i \notin DOMAIN s /\ Append(s, e)[i] = e
  OBVIOUS

\* A session that was opened names a flow, a provider account and a user.
LEMMA OpenedRow ==
    ASSUME AcctTypes, NEW i \in DOMAIN opened
    PROVE  /\ opened[i].flow \in Flow /\ opened[i].browser \in Browser
           /\ opened[i].sub \in Sub /\ opened[i].user \in Accts!UserId
<1> DEFINE S == [flow: Flow, browser: Browser, sub: Sub, user: Accts!UserId]
<1>1. opened \in Seq(S)
  BY DEF AcctTypes
<1>2. opened[i] \in S
  <2> HIDE DEF S
  <2> QED BY <1>1, SeqElement
<1> QED BY <1>2

\* A consumed flow stays what it was.
LEMMA ConsumedStays ==
    ASSUME AcctInv,
           \A f \in Flow : flow[f].status = "gone" =>
               flow'[f].status = "gone" /\ flow'[f].browser = flow[f].browser,
           \A f \in Flow : grant[f] \in Sub => grant'[f] = grant[f],
           UNCHANGED opened
    PROVE  /\ OpenedFlow'
           /\ \A w \in Worker : InCallback(w) =>
                /\ flow'[acctReq[w].flow].status = "gone"
                /\ flow'[acctReq[w].flow].browser = acctReq[w].browser
                /\ grant'[acctReq[w].flow] = acctReq[w].sub
<1>1. \A i \in DOMAIN opened : opened[i].flow \in Flow /\ opened[i].sub \in Sub
  BY OpenedRow DEF AcctInv
<1>2. OpenedFlow'
  BY <1>1 DEF AcctInv, FlowInv, OpenedFlow, Consumed
<1>3. ASSUME NEW w \in Worker, InCallback(w)
      PROVE  flow'[acctReq[w].flow].status = "gone"
             /\ flow'[acctReq[w].flow].browser = acctReq[w].browser
             /\ grant'[acctReq[w].flow] = acctReq[w].sub
  BY <1>3 DEF AcctInv, FlowInv, CarriesFlow, Consumed
<1> QED BY <1>2, <1>3

\* Steps on the flows, between a browser and its provider.
LEMMA FlowsMove ==
    ASSUME AcctInv, UNCHANGED <<configured, user, proven, identity, opened, acctPc, acctReq>>,
           flow' \in [Flow -> Accts!Record],
           cookie' \in [Browser -> Flow \union {NoFlow}],
           grant' \in [Flow -> Sub \union {NoSub}],
           \A f \in Flow : flow[f].status = "gone" =>
               flow'[f].status = "gone" /\ flow'[f].browser = flow[f].browser,
           \A f \in Flow : grant[f] \in Sub => grant'[f] = grant[f],
           CookieInv'
    PROVE  AcctInv'
<1>1. AcctTypes'
  BY DEF AcctInv, AcctTypes
<1>2. FlowInv'
  <2>1. CarriesFlow'
    BY ConsumedStays DEF AcctInv, FlowInv, CarriesFlow, Consumed, InCallback
  <2> QED BY <2>1, ConsumedStays DEF FlowInv
<1>3. StageInv'
  BY DEF AcctInv, StageInv, MadeInv, BoundInv, TargetInv, UserExists, Joinable
<1> QED BY <1>1, <1>2, <1>3, UsersKept DEF AcctInv

LEMMA AcctAuthorizes ==
    ASSUME AcctInv, NEW b \in Browser, NEW f \in Flow, NEW p \in Provider,
           Accts!Authorize(b, f, p)
    PROVE  AcctInv'
<1> USE DEF Accts!Authorize, Accts!rows
<1>1. flow' \in [Flow -> Accts!Record] /\ cookie' \in [Browser -> Flow \union {NoFlow}]
  BY DEF AcctInv, AcctTypes, Accts!Record
<1>2. /\ flow'[f].status = "open" /\ flow'[f].browser = b /\ flow[f].status = "unasked"
      /\ \A g \in Flow \ {f} : flow'[g] = flow[g]
      /\ cookie'[b] = f /\ \A c \in Browser \ {b} : cookie'[c] = cookie[c]
  BY DEF AcctInv, AcctTypes
<1>3. CookieInv'
  BY <1>2 DEF AcctInv, FlowInv, CookieInv
<1>4. grant' \in [Flow -> Sub \union {NoSub}]
  BY DEF AcctInv, AcctTypes
<1>5. UNCHANGED <<configured, grant, user, proven, identity, opened, acctPc, acctReq>>
  OBVIOUS
<1> HIDE DEF Accts!Authorize
<1> QED BY <1>1, <1>2, <1>3, <1>4, <1>5, FlowsMove

LEMMA AcctGrants ==
    ASSUME AcctInv, NEW f \in Flow, NEW s \in Sub, Accts!Grant(f, s)
    PROVE  AcctInv'
<1> USE DEF Accts!Grant, Accts!rows
<1>1. /\ flow' \in [Flow -> Accts!Record] /\ cookie' \in [Browser -> Flow \union {NoFlow}]
      /\ grant' \in [Flow -> Sub \union {NoSub}]
  BY DEF AcctInv, AcctTypes
<1>2. \A g \in Flow : grant[g] \in Sub => grant'[g] = grant[g]
  BY NullsAssumption DEF AcctInv, AcctTypes
<1>3. CookieInv'
  BY DEF AcctInv, FlowInv, CookieInv
<1>5. UNCHANGED <<configured, flow, user, proven, identity, opened, acctPc, acctReq>>
  OBVIOUS
<1> HIDE DEF Accts!Grant
<1> QED BY <1>1, <1>2, <1>3, <1>5, FlowsMove

\* The record goes, whoever brings it.
LEMMA FlowGoes ==
    ASSUME AcctInv, NEW f \in Flow, flow' = [flow EXCEPT ![f].status = "gone"],
           cookie' = cookie \/ \E b \in Browser : cookie' = [cookie EXCEPT ![b] = NoFlow]
    PROVE  /\ flow' \in [Flow -> Accts!Record]
           /\ cookie' \in [Browser -> Flow \union {NoFlow}]
           /\ \A g \in Flow : /\ flow'[g].browser = flow[g].browser
                              /\ flow'[g].status = IF g = f THEN "gone" ELSE flow[g].status
           /\ CookieInv'
<1>1. flow[f] \in Accts!Record
  BY DEF AcctInv, AcctTypes
<1> DEFINE r == [flow[f] EXCEPT !.status = "gone"]
<1>2. r \in Accts!Record /\ r.status = "gone" /\ r.browser = flow[f].browser
  BY <1>1 DEF Accts!Record
<1>3. flow' = [flow EXCEPT ![f] = r]
  OBVIOUS
<1> HIDE DEF r
<1>4. /\ flow' \in [Flow -> Accts!Record]
      /\ \A g \in Flow : /\ flow'[g].browser = flow[g].browser
                         /\ flow'[g].status = IF g = f THEN "gone" ELSE flow[g].status
  BY <1>2, <1>3 DEF AcctInv, AcctTypes
<1>5. /\ cookie' \in [Browser -> Flow \union {NoFlow}]
      /\ \A b \in Browser : cookie'[b] \in Flow => cookie'[b] = cookie[b]
  BY NullsAssumption DEF AcctInv, AcctTypes
<1>6. CookieInv'
  BY <1>4, <1>5 DEF AcctInv, FlowInv, CookieInv
<1> QED BY <1>4, <1>5, <1>6

LEMMA AcctLosesFlow ==
    ASSUME AcctInv, NEW f \in Flow,
           Accts!StateExpires(f) \/ \E b \in Browser : Accts!ProviderError(b, f)
    PROVE  AcctInv'
<1> USE DEF Accts!StateExpires, Accts!ProviderError, Accts!rows
<1>1. /\ flow' = [flow EXCEPT ![f].status = "gone"]
      /\ cookie' = cookie \/ \E b \in Browser : cookie' = [cookie EXCEPT ![b] = NoFlow]
      /\ UNCHANGED <<configured, grant, user, proven, identity, opened, acctPc, acctReq>>
  OBVIOUS
<1>2. grant' \in [Flow -> Sub \union {NoSub}]
  BY <1>1 DEF AcctInv, AcctTypes
<1> HIDE DEF Accts!StateExpires, Accts!ProviderError
<1> QED BY <1>1, <1>2, FlowGoes, FlowsMove

\* A callback that is accepted takes its flow, which nobody has used.
LEMMA AcctCallsBack ==
    ASSUME AcctInv, NEW w \in Worker, NEW b \in Browser, NEW f \in Flow, NEW c \in Flow,
           NEW address \in Address \union {NoAddress}, NEW asserted \in BOOLEAN,
           Accts!Callback(w, b, f, c, address, asserted)
    PROVE  AcctInv'
<1>1. /\ acctPc[w] = "idle" /\ flow[f].status = "open" /\ grant[c] \in Sub
      /\ flow' = [flow EXCEPT ![f].status = "gone"]
      /\ UNCHANGED <<configured, grant, user, proven, identity, opened>>
  BY DEF Accts!Callback, Accts!ConsumedState, Accts!rows, AcctInv, AcctTypes
<1>2. CASE ~Accts!Accepted(b, f, c)
  <2>1. cookie' = [cookie EXCEPT ![b] = NoFlow] /\ UNCHANGED <<acctPc, acctReq>>
    BY <1>2 DEF Accts!Callback
  <2>2. grant' \in [Flow -> Sub \union {NoSub}]
    BY <1>1 DEF AcctInv, AcctTypes
  <2> QED BY <1>1, <2>1, <2>2, FlowGoes, FlowsMove
<1>3. CASE Accts!Accepted(b, f, c)
  <2> DEFINE r == [Accts!NoRequest EXCEPT !.flow = f, !.browser = b, !.sub = grant[c],
                                          !.address = address, !.asserted = asserted]
  <2>1. /\ acctReq' = [acctReq EXCEPT ![w] = r] /\ acctPc' = [acctPc EXCEPT ![w] = "find"]
        /\ UNCHANGED cookie
    BY <1>3 DEF Accts!Callback, Accts!Go
  <2>2. /\ r \in Accts!Request /\ r.flow = f /\ r.browser = b /\ r.sub = grant[c]
        /\ r.made = 0 /\ ~r.bound
    <3>1. /\ Accts!NoRequest \in Accts!Request
          /\ Accts!NoRequest.made = 0 /\ Accts!NoRequest.bound = FALSE
      BY ComponentsAssumption DEF Accts!NoRequest, Accts!Request
    <3> QED BY <1>1, <3>1 DEF Accts!Request
  <2>3. cookie[b] = f /\ c = f
    BY <1>3 DEF Accts!Accepted, Accts!Redeems
  <2> HIDE DEF r
  <2>4. /\ acctPc'[w] = "find" /\ acctReq'[w] = r
        /\ \A v \in Worker \ {w} : acctPc'[v] = acctPc[v] /\ acctReq'[v] = acctReq[v]
    BY <2>1 DEF AcctInv, AcctTypes
  <2>5. /\ flow' \in [Flow -> Accts!Record]
        /\ \A g \in Flow : /\ flow'[g].browser = flow[g].browser
                           /\ flow'[g].status = IF g = f THEN "gone" ELSE flow[g].status
        /\ CookieInv'
    BY <1>1, <2>1, FlowGoes
  <2>6. AcctTypes'
    BY <1>1, <2>1, <2>2, <2>5 DEF AcctInv, AcctTypes
  <2>7. /\ OpenedFlow'
        /\ \A v \in Worker : InCallback(v) =>
              /\ flow'[acctReq[v].flow].status = "gone"
              /\ flow'[acctReq[v].flow].browser = acctReq[v].browser
              /\ grant'[acctReq[v].flow] = acctReq[v].sub
    BY <1>1, <2>5, ConsumedStays
  <2>8. /\ \A v \in Worker : InCallback(v) => acctReq[v].flow # f
        /\ \A i \in DOMAIN opened : opened[i].flow # f
    BY <1>1 DEF AcctInv, FlowInv, CarriesFlow, OpenedFlow, Consumed
  <2>9. flow[f].browser = b
    BY <2>3 DEF AcctInv, FlowInv, CookieInv
  <2>10. ASSUME NEW v \in Worker, InCallback(v)'
         PROVE  /\ acctReq'[v].flow \in Flow /\ acctReq'[v].browser \in Browser
                /\ acctReq'[v].sub \in Sub
                /\ Consumed(acctReq[v].flow, acctReq[v].browser, acctReq[v].sub)'
                /\ \A i \in DOMAIN opened : opened[i].flow # acctReq'[v].flow
                /\ \A u \in Worker \ {v} : InCallback(u)' => acctReq'[u].flow # acctReq'[v].flow
    <3>1. CASE v = w
      BY <1>1, <2>2, <2>3, <2>4, <2>5, <2>8, <2>9, <3>1 DEF Consumed, InCallback
    <3>2. CASE v # w
      <4>1. InCallback(v) /\ acctReq'[v] = acctReq[v]
        BY <2>4, <2>10, <3>2 DEF InCallback
      <4>2. \A u \in Worker \ {v} : InCallback(u)' => acctReq'[u].flow # acctReq[v].flow
        BY <2>2, <2>4, <2>8, <4>1 DEF AcctInv, FlowInv, CarriesFlow, InCallback
      <4> QED BY <2>7, <4>1, <4>2 DEF AcctInv, FlowInv, CarriesFlow, Consumed
    <3> QED BY <3>1, <3>2
  <2>11. FlowInv'
    BY <1>1, <2>5, <2>7, <2>10 DEF FlowInv, CarriesFlow
  <2>12. StageInv'
    BY <1>1, <2>2, <2>4, StageKept
  <2> QED BY <1>1, <2>6, <2>11, <2>12, UsersKept DEF AcctInv
<1> QED BY <1>2, <1>3

\* What a new row can be: the callback's own, or the one it is joined to.
LEMMA RowsEntered ==
    ASSUME AcctInv, NEW w \in Worker, Accts!Enter(w), NEW u \in Accts!UserId
    PROVE  /\ user'[u] \in Accts!Row
           /\ u = acctReq[w].made =>
                 /\ user'[u].origin = "callback" /\ user'[u].password = "none"
                 /\ user[u] = Accts!NoRow /\ u = acctReq[w].user /\ acctReq[w].bound
           /\ u # acctReq[w].made =>
                 /\ user'[u].origin = user[u].origin /\ user'[u].password = user[u].password
                 /\ user[u].verified => user'[u].verified
                 /\ ~(acctReq[w].bound /\ u = acctReq[w].user) => user'[u] = user[u]
           /\ UserExists(u) => UserExists(u)'
<1>1. /\ user'[u] = Accts!RowAfter(w, u) /\ user[u] \in Accts!Row
      /\ acctReq[w] \in Accts!Request /\ acctPc[w] = "enter"
  BY DEF Accts!Enter, AcctInv, AcctTypes
<1>2. CASE u = acctReq[w].made
  <2>1. user'[u] = [origin |-> "callback", address |-> acctReq[w].address,
                    verified |-> acctReq[w].asserted, password |-> "none"]
    BY <1>1, <1>2 DEF Accts!RowAfter, Accts!NoRow
  <2>2. user'[u] \in Accts!Row
    BY <1>1, <2>1 DEF Accts!Row, Accts!Request
  <2>3. user[u] = Accts!NoRow /\ u = acctReq[w].user /\ acctReq[w].bound
    BY <1>1, <1>2, ComponentsAssumption DEF AcctInv, StageInv, MadeInv, Accts!UserId
  <2> QED BY <1>2, <2>1, <2>2, <2>3 DEF UserExists
<1>3. CASE u # acctReq[w].made /\ acctReq[w].bound /\ u = acctReq[w].user
  <2>1. user'[u] = [user[u] EXCEPT !.verified = TRUE]
    BY <1>1, <1>3 DEF Accts!RowAfter
  <2>2. UserExists(u)
    <3>1. acctReq[w].made # 0 \/ (UserExists(u) /\ Joinable(u))
      BY <1>3 DEF AcctInv, StageInv, TargetInv
    <3>2. acctReq[w].made = 0
      BY <1>3 DEF AcctInv, StageInv, MadeInv
    <3> QED BY <3>1, <3>2
  <2>3. /\ user'[u] \in Accts!Row /\ user'[u].origin = user[u].origin
        /\ user'[u].password = user[u].password /\ user'[u].verified
    BY <1>1, <2>1 DEF Accts!Row
  <2>4. user'[u] # Accts!NoRow
    BY <2>3 DEF Accts!NoRow
  <2> QED BY <1>3, <2>3, <2>4 DEF UserExists
<1>4. CASE u # acctReq[w].made /\ ~(acctReq[w].bound /\ u = acctReq[w].user)
  <2>1. user'[u] = user[u]
    BY <1>1, <1>4 DEF Accts!RowAfter
  <2> QED BY <1>1, <1>4, <2>1 DEF UserExists
<1> QED BY <1>2, <1>3, <1>4

\* Who is entered, and what becomes of the identities.
LEMMA IdentitiesEntered ==
    ASSUME AcctInv, NEW w \in Worker, Accts!Enter(w)
    PROVE  /\ acctReq[w].sub \in Sub /\ acctReq[w].user \in Accts!UserId
           /\ <<acctReq[w].sub, acctReq[w].user>> \in identity'
           /\ identity \subseteq identity'
           /\ \A s \in Sub, u \in Accts!UserId : <<s, u>> \in identity' =>
                 \/ <<s, u>> \in identity
                 \/ acctReq[w].bound /\ s = acctReq[w].sub /\ u = acctReq[w].user
           /\ acctReq[w].bound => \A u \in Accts!UserId : <<acctReq[w].sub, u>> \notin identity
<1>1. /\ acctPc[w] = "enter"
      /\ identity' = identity \union (IF acctReq[w].bound
                                        THEN {<<acctReq[w].sub, acctReq[w].user>>} ELSE {})
  BY DEF Accts!Enter
<1>2. acctReq[w].sub \in Sub
  BY <1>1 DEF AcctInv, FlowInv, CarriesFlow, InCallback
<1>3. /\ acctReq[w].user \in Accts!UserId
      /\ acctReq[w].bound \/ <<acctReq[w].sub, acctReq[w].user>> \in identity
  BY <1>1 DEF AcctInv, StageInv, TargetInv
<1>4. acctReq[w].bound => \A u \in Accts!UserId : <<acctReq[w].sub, u>> \notin identity
  BY DEF AcctInv, StageInv, BoundInv
<1> QED BY <1>1, <1>2, <1>3, <1>4

\* The session is the last of those opened.
LEMMA SessionEntered ==
    ASSUME AcctInv, NEW w \in Worker, Accts!Enter(w)
    PROVE  /\ opened' \in Seq([flow: Flow, browser: Browser, sub: Sub, user: Accts!UserId])
           /\ \A i \in DOMAIN opened' :
                 \/ i \in DOMAIN opened /\ opened'[i] = opened[i]
                 \/ /\ i = Len(opened) + 1 /\ i \notin DOMAIN opened
                    /\ opened'[i].flow = acctReq[w].flow
                    /\ opened'[i].browser = acctReq[w].browser
                    /\ opened'[i].sub = acctReq[w].sub /\ opened'[i].user = acctReq[w].user
<1> DEFINE S == [flow: Flow, browser: Browser, sub: Sub, user: Accts!UserId]
           e == [flow |-> acctReq[w].flow, browser |-> acctReq[w].browser,
                 sub |-> acctReq[w].sub, user |-> acctReq[w].user]
<1>1. opened \in Seq(S) /\ opened' = Append(opened, e)
  BY DEF Accts!Enter, AcctInv, AcctTypes
<1>2. e \in S
  <2>1. acctReq[w].flow \in Flow /\ acctReq[w].browser \in Browser
    BY DEF Accts!Enter, AcctInv, FlowInv, CarriesFlow, InCallback
  <2> QED BY <2>1, IdentitiesEntered
<1>3. /\ e.flow = acctReq[w].flow /\ e.browser = acctReq[w].browser
      /\ e.sub = acctReq[w].sub /\ e.user = acctReq[w].user
  OBVIOUS
<1>4. Append(opened, e) \in Seq(S)
  <2> HIDE DEF S, e
  <2> QED BY <1>1, <1>2
<1>5. ASSUME NEW i \in DOMAIN opened'
      PROVE  \/ i \in DOMAIN opened /\ opened'[i] = opened[i]
             \/ i = Len(opened) + 1 /\ i \notin DOMAIN opened /\ opened'[i] = e
  <2> HIDE DEF S, e
  <2> QED BY <1>1, <1>2, SeqAppend
<1> HIDE DEF e
<1> QED BY <1>1, <1>3, <1>4, <1>5

LEMMA AcctEnters ==
    ASSUME AcctInv, NEW w \in Worker, Accts!Enter(w)
    PROVE  AcctInv'
<1>1. /\ acctPc[w] = "enter" /\ Accts!Finish(w)
      /\ cookie' = [cookie EXCEPT ![acctReq[w].browser] = NoFlow]
      /\ user' = [u \in Accts!UserId |-> Accts!RowAfter(w, u)]
      /\ identity' = identity \union (IF acctReq[w].bound
                                        THEN {<<acctReq[w].sub, acctReq[w].user>>} ELSE {})
      /\ UNCHANGED <<configured, flow, grant, proven>>
  BY DEF Accts!Enter
<1>2. /\ acctPc'[w] = "idle" /\ acctReq'[w] = Accts!NoRequest
      /\ Accts!NoRequest.made = 0 /\ Accts!NoRequest.bound = FALSE
      /\ \A v \in Worker \ {w} : acctPc'[v] = acctPc[v] /\ acctReq'[v] = acctReq[v]
      /\ acctPc' \in [Worker -> {"idle", "configure", "find", "match", "create", "bind",
                              "reread", "enter"}]
      /\ acctReq' \in [Worker -> Accts!Request]
  <2>1. Accts!NoRequest \in Accts!Request /\ Accts!NoRequest.made = 0
        /\ Accts!NoRequest.bound = FALSE
    BY ComponentsAssumption DEF Accts!NoRequest, Accts!Request
  <2> QED BY <1>1, <2>1 DEF Accts!Finish, Accts!Go, AcctInv, AcctTypes
<1>3. /\ acctReq[w].flow \in Flow /\ acctReq[w].browser \in Browser
      /\ Consumed(acctReq[w].flow, acctReq[w].browser, acctReq[w].sub)
      /\ \A i \in DOMAIN opened : opened[i].flow # acctReq[w].flow
      /\ \A v \in Worker \ {w} : InCallback(v) => acctReq[v].flow # acctReq[w].flow
  BY <1>1 DEF AcctInv, FlowInv, CarriesFlow, InCallback
<1>4. AcctTypes'
  <2>1. user' \in [Accts!UserId -> Accts!Row]
    BY <1>1, RowsEntered
  <2>2. identity' \subseteq Sub \X Accts!UserId
    BY <1>1, IdentitiesEntered DEF AcctInv, AcctTypes
  <2>3. cookie' \in [Browser -> Flow \union {NoFlow}]
    BY <1>1 DEF AcctInv, AcctTypes
  <2> QED BY <1>1, <1>2, <2>1, <2>2, <2>3, SessionEntered DEF AcctInv, AcctTypes
<1>5. FlowInv'
  <2>1. CookieInv'
    <3>1. \A b \in Browser : cookie'[b] \in Flow => cookie'[b] = cookie[b]
      BY <1>1, NullsAssumption DEF AcctInv, AcctTypes
    <3> QED BY <1>1, <3>1 DEF AcctInv, FlowInv, CookieInv
  <2>2. CarriesFlow'
    <3>1. ASSUME NEW v \in Worker, InCallback(v)'
          PROVE  v # w /\ InCallback(v) /\ acctReq'[v] = acctReq[v]
      BY <1>2, <3>1 DEF InCallback
    <3>2. ASSUME NEW v \in Worker, InCallback(v)'
          PROVE  \A i \in DOMAIN opened' : opened'[i].flow # acctReq[v].flow
      BY <1>3, <3>1, <3>2, SessionEntered DEF AcctInv, FlowInv, CarriesFlow
    <3> QED BY <1>1, <3>1, <3>2 DEF AcctInv, FlowInv, CarriesFlow, Consumed
  <2>3. OpenedFlow'
    <3>1. ASSUME NEW i \in DOMAIN opened'
          PROVE  Consumed(opened'[i].flow, opened'[i].browser, opened'[i].sub)
      BY <1>3, SessionEntered DEF AcctInv, FlowInv, OpenedFlow
    <3>2. ASSUME NEW i \in DOMAIN opened', NEW j \in DOMAIN opened',
                 opened'[i].flow = opened'[j].flow
          PROVE  i = j
      BY <1>3, <3>2, SessionEntered DEF AcctInv, FlowInv, OpenedFlow
    <3> QED BY <1>1, <3>1, <3>2 DEF OpenedFlow, Consumed
  <2> QED BY <2>1, <2>2, <2>3 DEF FlowInv
<1>6. StageInv'
  <2>1. ASSUME NEW v \in Worker, acctReq'[v].made # 0
        PROVE  /\ v # w /\ acctReq'[v] = acctReq[v] /\ acctPc'[v] = acctPc[v]
               /\ user'[acctReq[v].made] = Accts!NoRow
    <3>1. v # w /\ acctReq'[v] = acctReq[v] /\ acctPc'[v] = acctPc[v]
      BY <1>2, <2>1
    <3>2. /\ acctReq[v].made \in Accts!UserId /\ user[acctReq[v].made] = Accts!NoRow
          /\ acctReq[w].made # acctReq[v].made
      BY <2>1, <3>1, ComponentsAssumption
      DEF AcctInv, StageInv, MadeInv, AcctTypes, Accts!Request, Accts!UserId
    <3>3. ~(acctReq[w].bound /\ acctReq[v].made = acctReq[w].user)
      <4> SUFFICES ASSUME acctReq[w].bound, acctReq[v].made = acctReq[w].user PROVE FALSE
        OBVIOUS
      <4>1. acctReq[w].made # 0 \/ UserExists(acctReq[w].user)
        BY DEF AcctInv, StageInv, TargetInv
      <4>2. acctReq[w].made = 0
        BY <3>2 DEF AcctInv, StageInv, MadeInv
      <4> QED BY <3>2, <4>1, <4>2 DEF UserExists
    <3> QED BY <3>1, <3>2, <3>3, RowsEntered
  <2>2. MadeInv'
    BY <2>1 DEF AcctInv, StageInv, MadeInv
  <2>3. BoundInv'
    <3>1. ASSUME NEW v \in Worker, acctReq'[v].bound
          PROVE  /\ v # w /\ acctReq'[v] = acctReq[v] /\ acctPc'[v] = acctPc[v]
                 /\ \A u \in Accts!UserId : <<acctReq[v].sub, u>> \notin identity'
      <4>1. v # w /\ acctReq'[v] = acctReq[v] /\ acctPc'[v] = acctPc[v]
        BY <1>2, <3>1
      <4>2. acctReq[w].bound => acctReq[v].sub # acctReq[w].sub
        BY <3>1, <4>1 DEF AcctInv, StageInv, BoundInv
      <4>3. acctReq[v].sub \in Sub
        BY <3>1, <4>1 DEF AcctInv, StageInv, BoundInv, FlowInv, CarriesFlow, InCallback
      <4> QED BY <3>1, <4>1, <4>2, <4>3, IdentitiesEntered DEF AcctInv, StageInv, BoundInv
    <3> QED BY <3>1 DEF AcctInv, StageInv, BoundInv
  <2>4. TargetInv'
    <3>1. ASSUME NEW v \in Worker
          PROVE  /\ acctPc'[v] = "match" => acctReq'[v].address # NoAddress
                 /\ acctPc'[v] = "enter" =>
                       /\ acctReq'[v].user \in Accts!UserId
                       /\ acctReq'[v].bound
                             \/ <<acctReq'[v].sub, acctReq'[v].user>> \in identity'
                 /\ acctPc'[v] = "bind" \/ acctReq'[v].bound =>
                       \/ acctReq'[v].made # 0
                       \/ UserExists(acctReq[v].user)' /\ Joinable(acctReq[v].user)'
      <4>1. CASE v = w
        BY <1>2, <4>1
      <4>2. CASE v # w
        <5>1. acctReq'[v] = acctReq[v] /\ acctPc'[v] = acctPc[v]
          BY <1>2, <4>2
        <5>2. acctPc[v] = "bind" \/ acctReq[v].bound =>
                  acctReq[v].made # 0 \/ (UserExists(acctReq[v].user) /\ Joinable(acctReq[v].user))
          BY DEF AcctInv, StageInv, TargetInv
        <5>3. ASSUME UserExists(acctReq[v].user), Joinable(acctReq[v].user)
              PROVE  /\ acctReq[v].user \in Accts!UserId
                     /\ user'[acctReq[v].user] # Accts!NoRow
                     /\ user'[acctReq[v].user].verified
                           \/ user'[acctReq[v].user].password # "first"
          BY <5>3, RowsEntered DEF UserExists, Joinable
        <5>4. /\ acctPc[v] = "match" => acctReq[v].address # NoAddress
              /\ acctPc[v] = "enter" =>
                       /\ acctReq[v].user \in Accts!UserId
                       /\ acctReq[v].bound
                             \/ <<acctReq[v].sub, acctReq[v].user>> \in identity'
          BY IdentitiesEntered DEF AcctInv, StageInv, TargetInv
        <5> QED BY <5>1, <5>2, <5>3, <5>4 DEF UserExists, Joinable
      <4> QED BY <4>1, <4>2
    <3> QED BY <3>1 DEF TargetInv, UserExists, Joinable
  <2> QED BY <2>2, <2>3, <2>4 DEF StageInv
<1>7. UsersInv'
  <2>1. IdentityInv'
    <3>1. ASSUME NEW s \in Sub, NEW u1 \in Accts!UserId, NEW u2 \in Accts!UserId,
                 <<s, u1>> \in identity', <<s, u2>> \in identity'
          PROVE  u1 = u2
      <4>1. <<s, u1>> \in identity /\ <<s, u2>> \in identity => u1 = u2
        BY DEF AcctInv, UsersInv, IdentityInv
      <4> QED BY <3>1, <4>1, IdentitiesEntered
    <3>2. \A i \in DOMAIN opened' : <<opened'[i].sub, opened'[i].user>> \in identity'
      <4>1. \A i \in DOMAIN opened : <<opened[i].sub, opened[i].user>> \in identity
        BY DEF AcctInv, UsersInv, IdentityInv
      <4>2. <<acctReq[w].sub, acctReq[w].user>> \in identity' /\ identity \subseteq identity'
        BY IdentitiesEntered
      <4>3. ASSUME NEW i \in DOMAIN opened'
            PROVE  <<opened'[i].sub, opened'[i].user>> \in identity'
        <5>1. CASE i \in DOMAIN opened /\ opened'[i] = opened[i]
          BY <4>1, <4>2, <5>1
        <5>2. CASE opened'[i].sub = acctReq[w].sub /\ opened'[i].user = acctReq[w].user
          BY <4>2, <5>2
        <5> QED BY <5>1, <5>2, SessionEntered
      <4> QED BY <4>3
    <3>3. \A u \in proven : UserExists(u)'
      BY RowsEntered DEF AcctInv, AcctTypes, UsersInv, IdentityInv
    <3>4. ASSUME NEW s \in Sub, NEW u \in Accts!UserId, <<s, u>> \in identity'
          PROVE  UserExists(u)'
      <4>1. CASE <<s, u>> \in identity
        BY <4>1, RowsEntered DEF AcctInv, UsersInv, IdentityInv
      <4>2. CASE acctReq[w].bound /\ u = acctReq[w].user
        <5>1. CASE u = acctReq[w].made
          BY <5>1, RowsEntered DEF UserExists, Accts!NoRow
        <5>2. CASE u # acctReq[w].made
          BY <4>2, <5>2, RowsEntered DEF AcctInv, StageInv, TargetInv, MadeInv
        <5> QED BY <5>1, <5>2
      <4> QED BY <3>4, <4>1, <4>2, IdentitiesEntered
    <3> QED BY <1>1, <3>1, <3>2, <3>3, <3>4 DEF IdentityInv, UserExists
  <2>2. ASSUME NEW u \in Accts!UserId, user'[u].password = "first"
        PROVE  /\ user'[u].verified => u \in proven
               /\ \A s \in Sub : <<s, u>> \in identity' => u \in proven
    <3>1. /\ u # acctReq[w].made /\ user[u].password = "first"
          /\ ~(acctReq[w].bound /\ u = acctReq[w].user) => user'[u] = user[u]
      BY <2>2, RowsEntered
    <3>2. acctReq[w].bound /\ u = acctReq[w].user => Joinable(u)
      <4>1. acctReq[w].bound =>
                acctReq[w].made # 0 \/ (UserExists(acctReq[w].user) /\ Joinable(acctReq[w].user))
        BY DEF AcctInv, StageInv, TargetInv
      <4>2. acctReq[w].made # 0 => acctReq[w].user = acctReq[w].made
        BY DEF AcctInv, StageInv, MadeInv
      <4> QED BY <3>1, <4>1, <4>2
    <3>3. acctReq[w].bound /\ u = acctReq[w].user => u \in proven
      BY <3>1, <3>2 DEF Joinable, AcctInv, UsersInv, VerifiedInv
    <3>4. user[u].verified => u \in proven
      BY <3>1 DEF AcctInv, UsersInv, VerifiedInv
    <3>5. \A s \in Sub : <<s, u>> \in identity => u \in proven
      BY <3>1 DEF AcctInv, UsersInv, PasswordProved, Accts!PasswordProved
    <3> QED BY <3>1, <3>3, <3>4, <3>5, IdentitiesEntered
  <2>3. VerifiedInv' /\ PasswordProved'
    BY <1>1, <2>2 DEF VerifiedInv, PasswordProved, Accts!PasswordProved
  <2>4. NothingHalfMade'
    <3>1. ASSUME NEW u \in Accts!UserId, user'[u].origin = "callback"
          PROVE  \E s \in Sub : <<s, u>> \in identity'
      <4>1. CASE u = acctReq[w].made
        BY <4>1, RowsEntered, IdentitiesEntered
      <4>2. CASE u # acctReq[w].made
        BY <3>1, <4>2, RowsEntered, IdentitiesEntered
        DEF AcctInv, UsersInv, NothingHalfMade, Accts!NothingHalfMade
      <4> QED BY <4>1, <4>2
    <3> QED BY <3>1 DEF NothingHalfMade, Accts!NothingHalfMade
  <2> QED BY <2>1, <2>3, <2>4 DEF UsersInv
<1> QED BY <1>4, <1>5, <1>6, <1>7 DEF AcctInv

\* Rows of the users table that change outside the callbacks.
LEMMA AcctUserChanges ==
    ASSUME AcctInv, NEW u \in Accts!UserId, NEW row \in Accts!Row,
           user' = [user EXCEPT ![u] = row],
           UNCHANGED <<configured, flow, cookie, grant, identity, opened, acctPc, acctReq>>,
           proven' = proven \/ (proven' = proven \union {u} /\ row # Accts!NoRow),
           \A v \in Worker : acctReq[v].made # u,
           UserExists(u) => row # Accts!NoRow,
           UserExists(u) /\ Joinable(u) => row.verified \/ row.password # "first",
           UserExists(u) => row.origin = user[u].origin,
           ~UserExists(u) => row.origin # "callback",
           row.password = "first" /\ row.verified => u \in proven',
           row.password = "first" =>
               u \in proven' \/ \A s \in Sub : <<s, u>> \notin identity
    PROVE  AcctInv'
<1>1. /\ user'[u] = row /\ \A w \in Accts!UserId \ {u} : user'[w] = user[w]
      /\ user' \in [Accts!UserId -> Accts!Row] /\ proven' \subseteq Accts!UserId
      /\ proven \subseteq proven'
  BY DEF AcctInv, AcctTypes
<1>2. AcctTypes'
  BY <1>1 DEF AcctInv, AcctTypes
<1>3. FlowInv'
  BY DEF AcctInv, FlowInv, CookieInv, CarriesFlow, OpenedFlow, Consumed, InCallback
<1>4. StageInv'
  <2>1. MadeInv'
    BY <1>1, ComponentsAssumption
    DEF AcctInv, AcctTypes, StageInv, MadeInv, Accts!Request, Accts!UserId
  <2>2. BoundInv'
    BY DEF AcctInv, StageInv, BoundInv
  <2>3. TargetInv'
    <3>1. ASSUME NEW w, UserExists(w), Joinable(w)
          PROVE  /\ w \in Accts!UserId /\ user'[w] # Accts!NoRow
                 /\ user'[w].verified \/ user'[w].password # "first"
      BY <1>1, <3>1 DEF UserExists, Joinable
    <3> QED BY <3>1 DEF AcctInv, StageInv, TargetInv, UserExists, Joinable
  <2> QED BY <2>1, <2>2, <2>3 DEF StageInv
<1>5. UsersInv'
  <2>1. ASSUME NEW w, UserExists(w)
        PROVE  w \in Accts!UserId /\ user'[w] # Accts!NoRow
    BY <1>1, <2>1 DEF UserExists
  <2>2. IdentityInv'
    <3>1. \A w \in proven' : w \in Accts!UserId /\ user'[w] # Accts!NoRow
      BY <1>1, <2>1 DEF AcctInv, UsersInv, IdentityInv
    <3> QED BY <2>1, <3>1 DEF AcctInv, UsersInv, IdentityInv, UserExists
  <2>3. VerifiedInv'
    BY <1>1 DEF AcctInv, UsersInv, VerifiedInv
  <2>4. NothingHalfMade'
    <3>1. ASSUME NEW w \in Accts!UserId, user'[w].origin = "callback"
          PROVE  user[w].origin = "callback"
      BY <1>1, <3>1
    <3> QED BY <3>1 DEF AcctInv, UsersInv, NothingHalfMade, Accts!NothingHalfMade
  <2>5. PasswordProved'
    BY <1>1 DEF AcctInv, UsersInv, PasswordProved, Accts!PasswordProved
  <2> QED BY <2>2, <2>3, <2>4, <2>5 DEF UsersInv
<1> QED BY <1>2, <1>3, <1>4, <1>5 DEF AcctInv

LEMMA AcctRegisters ==
    ASSUME AcctInv, NEW address \in Address, NEW password \in {"none", "first"},
           Accts!Register(address, password)
    PROVE  AcctInv'
<1> DEFINE row == [origin |-> "registered", address |-> address, verified |-> FALSE,
                   password |-> password]
<1>1. PICK u \in Accts!Unused : user' = [user EXCEPT ![u] = row]
  BY DEF Accts!Register
<1>2. UNCHANGED <<configured, flow, cookie, grant, proven, identity, opened, acctPc, acctReq>>
  BY DEF Accts!Register, Accts!flows
<1>3. /\ u \in Accts!UserId /\ user[u] = Accts!NoRow
      /\ \A v \in Worker : acctReq[v].made # u
  BY DEF Accts!Unused
<1>4. row \in Accts!Row /\ row.origin = "registered" /\ ~row.verified
  BY DEF Accts!Row
<1>5. ~UserExists(u)
  BY <1>3 DEF UserExists
<1>6. \A s \in Sub : <<s, u>> \notin identity
  BY <1>3, <1>5 DEF AcctInv, UsersInv, IdentityInv
<1> HIDE DEF row
<1> QED BY <1>1, <1>2, <1>3, <1>4, <1>5, <1>6, AcctUserChanges

LEMMA AcctProves ==
    ASSUME AcctInv, NEW u \in Accts!UserId, Accts!VerifyEmail(u) \/ Accts!SetPassword(u)
    PROVE  AcctInv'
<1> DEFINE row == IF Accts!VerifyEmail(u) THEN [user[u] EXCEPT !.verified = TRUE]
                                          ELSE [user[u] EXCEPT !.password = "later"]
<1>0. user[u] \in Accts!Row
  BY DEF AcctInv, AcctTypes
<1>1. /\ user' = [user EXCEPT ![u] = row]
      /\ UNCHANGED <<configured, flow, cookie, grant, identity, opened, acctPc, acctReq>>
      /\ proven' = IF Accts!VerifyEmail(u) THEN proven \union {u} ELSE proven
  BY DEF Accts!VerifyEmail, Accts!SetPassword, Accts!flows
<1>2. UserExists(u)
  <2>1. CASE Accts!VerifyEmail(u)
    BY <2>1 DEF Accts!VerifyEmail, UserExists, Accts!NoRow
  <2>2. CASE Accts!SetPassword(u)
    <3>1. CASE u \in proven
      BY <3>1 DEF AcctInv, UsersInv, IdentityInv
    <3>2. CASE \E i \in DOMAIN opened : opened[i].user = u
      <4>1. PICK i \in DOMAIN opened : opened[i].user = u
        BY <3>2
      <4>2. opened[i].sub \in Sub /\ <<opened[i].sub, u>> \in identity
        BY <4>1, OpenedRow DEF AcctInv, UsersInv, IdentityInv
      <4> QED BY <4>2 DEF AcctInv, UsersInv, IdentityInv
    <3> QED BY <2>2, <3>1, <3>2 DEF Accts!SetPassword
  <2> QED BY <2>1, <2>2
<1>3. \A v \in Worker : acctReq[v].made # u
  BY <1>2, ComponentsAssumption
  DEF AcctInv, StageInv, MadeInv, UserExists, Accts!UserId
<1>4. CASE Accts!VerifyEmail(u)
  <2>1. row \in Accts!Row /\ row.verified /\ row.origin = user[u].origin
    BY <1>0, <1>4 DEF Accts!Row
  <2>2. row # Accts!NoRow
    BY <2>1 DEF Accts!NoRow
  <2> HIDE DEF row
  <2> QED BY <1>1, <1>2, <1>3, <1>4, <2>1, <2>2, AcctUserChanges
<1>5. CASE ~Accts!VerifyEmail(u)
  <2>1. row \in Accts!Row /\ row.password = "later" /\ row.origin = user[u].origin
    BY <1>0, <1>5 DEF Accts!Row
  <2>2. row # Accts!NoRow
    BY <2>1 DEF Accts!NoRow
  <2> HIDE DEF row
  <2> QED BY <1>1, <1>2, <1>3, <1>5, <2>1, <2>2, AcctUserChanges
<1> QED BY <1>4, <1>5

LEMMA AcctStep ==
    ASSUME AcctInv, [Accts!Next]_acctVars
    PROVE  AcctInv'
<1>1. CASE Accts!Next
  <2>1. CASE \E w \in Worker, p \in Provider :
                Accts!BeginConfigure(w, p) \/ Accts!BeginRemove(w, p)
    BY <2>1, AcctConfigures
  <2>2. CASE \E w \in Worker : Accts!CommitConfigure(w) \/ Accts!Abort(w)
    <3>1. PICK w \in Worker : Accts!CommitConfigure(w) \/ Accts!Abort(w)
      BY <2>2
    <3>2. configured' \subseteq Provider
      BY <3>1 DEF Accts!CommitConfigure, Accts!Abort, AcctInv, AcctTypes, Accts!Request
    <3>3. Accts!Finish(w) /\ UNCHANGED <<flow, cookie, grant, user, proven, identity, opened>>
      BY <3>1 DEF Accts!CommitConfigure, Accts!Abort, Accts!flows, Accts!rows
    <3> QED BY <3>2, <3>3, AcctEnds
  <2>3. CASE \E w \in Worker, b \in Browser, f \in Flow, c \in Flow,
                a \in Address \union {NoAddress}, asserted \in BOOLEAN :
                Accts!Callback(w, b, f, c, a, asserted)
    BY <2>3, AcctCallsBack
  <2>4. CASE \E w \in Worker :
                \/ Accts!Find(w) \/ Accts!Match(w) \/ Accts!CreateUser(w)
                \/ Accts!Bind(w) \/ Accts!Reread(w) \/ Accts!Enter(w)
    BY <2>4, AcctFinds, AcctMatches, AcctCreates, AcctBinds, AcctRereads, AcctEnters
  <2>5. CASE \E f \in Flow, b \in Browser, p \in Provider : Accts!Authorize(b, f, p)
    BY <2>5, AcctAuthorizes
  <2>6. CASE \E f \in Flow :
                Accts!StateExpires(f) \/ \E b \in Browser : Accts!ProviderError(b, f)
    BY <2>6, AcctLosesFlow
  <2>7. CASE \E f \in Flow, s \in Sub : Accts!Grant(f, s)
    BY <2>7, AcctGrants
  <2>8. CASE \E a \in Address, password \in {"none", "first"} : Accts!Register(a, password)
    BY <2>8, AcctRegisters
  <2>9. CASE \E u \in Accts!UserId : Accts!VerifyEmail(u) \/ Accts!SetPassword(u)
    BY <2>9, AcctProves
  <2> QED BY <1>1, <2>1, <2>2, <2>3, <2>4, <2>5, <2>6, <2>7, <2>8, <2>9 DEF Accts!Next
<1>2. CASE UNCHANGED acctVars
  <2> USE <1>2 DEF acctVars, AcctInv
  <2>1. AcctTypes'
    BY DEF AcctTypes
  <2>2. FlowInv'
    BY DEF FlowInv, CookieInv, CarriesFlow, OpenedFlow, Consumed, InCallback
  <2>3. StageInv'
    BY DEF StageInv, MadeInv, BoundInv, TargetInv, UserExists, Joinable
  <2> QED BY <2>1, <2>2, <2>3, UsersKept
<1> QED BY <1>1, <1>2

LEMMA AcctInvariant == Accts!Spec => []AcctInv
<1>1. AcctInv /\ [Accts!Next]_acctVars => AcctInv'
  BY AcctStep
<1> QED BY <1>1, AcctInit, PTL DEF Accts!Spec, Accts!vars, acctVars

\* Every session a provider account opens is one user's, whichever callbacks
\* overlap and whatever address the provider asserts (_find_or_create_user).
THEOREM SameUser == Accts!Spec => []SameAccount
<1>1. ASSUME AcctInv, NEW i \in DOMAIN opened, NEW j \in DOMAIN opened,
             opened[i].sub = opened[j].sub
      PROVE  opened[i].user = opened[j].user
  <2>1. /\ opened[i].sub \in Sub /\ opened[i].user \in Accts!UserId
        /\ opened[j].user \in Accts!UserId
    BY <1>1, OpenedRow DEF AcctInv
  <2>2. /\ <<opened[i].sub, opened[i].user>> \in identity
        /\ <<opened[i].sub, opened[j].user>> \in identity
    BY <1>1 DEF AcctInv, UsersInv, IdentityInv
  <2> QED BY <1>1, <2>1, <2>2 DEF AcctInv, UsersInv, IdentityInv
<1>2. AcctInv => SameAccount
  BY <1>1 DEF SameAccount, Accts!SameAccount
<1> QED BY <1>2, AcctInvariant, PTL

\* A user a callback creates is committed with its identity: the loser of the
\* race for it leaves nothing behind (the rollback in _find_or_create_user).
THEOREM NoOrphans == Accts!Spec => []NothingHalfMade
<1>1. AcctInv => NothingHalfMade
  BY DEF AcctInv, UsersInv
<1> QED BY <1>1, AcctInvariant, PTL

\* A flow opens one session at most, in the browser that began it and for the
\* account that was granted to it (consume_state, the cookie and PKCE).
THEOREM FlowOpensOnce == Accts!Spec => []FlowOnce
<1>1. AcctInv => FlowOnce
  BY DEF AcctInv, FlowInv, OpenedFlow, Consumed, FlowOnce, Accts!FlowOnce
<1> QED BY <1>1, AcctInvariant, PTL

\* No provider account enters a user that somebody registered with a password
\* before the address was verified here (_find_or_create_user's link rule).
THEOREM JoinedAfterProof == Accts!Spec => []PasswordProved
<1>1. AcctInv => PasswordProved
  BY DEF AcctInv, UsersInv
<1> QED BY <1>1, AcctInvariant, PTL

-----------------------------------------------------------------------------
(* Admission of requests (Access).  A request carries what was in force    *)
(* when it arrived, and nothing comes into force again.                    *)

CallTypes ==
    /\ apps \subseteq App /\ paused \subseteq App /\ second \in Nat
    /\ published \in [App -> SUBSET Nat]
    /\ claims \in [Call!Token -> [key: Nat, exp: Nat]]
    /\ deny \in [Call!Token -> Nat]
    /\ ended \subseteq SessionToken /\ out \subseteq AdminToken
    /\ callPc \in [Visitor -> {"idle", "secret", "token", "denied", "site", "pause",
                              "session", "active", "served"}]
    /\ call \in [Visitor -> Call!Request \union {Call!NoRequest}]
    /\ via \in [Visitor -> [token: Call!Token \union {NoToken, Secret},
                            app: App \union {NoApp}, role: {"none", "admin", "user"}]]
    /\ good \in [Visitor -> SUBSET Call!Token] /\ paid \in [Visitor -> SUBSET App]

\* The newest key of an application is newer than any that has signed.
NewestSigns(a) ==
    \E k \in published[a] :
        /\ k # 0 /\ \A j \in published[a] : j <= k
        /\ \A x \in Call!Token : AppOf[x] = a => claims[x].key <= k
KeysInv == \A a \in App : IF a \in apps THEN NewestSigns(a) ELSE published[a] = {}

OutInv == \A x \in out : claims[x] # Call!Unissued /\ deny[x] >= claims[x].exp

Presents(w, x) == x = call[w].bearer \/ x = call[w].cookie

\* A token that is in force now was so when the request arrived.
Arrived(w) ==
    callPc[w] # "idle" =>
        /\ call[w] \in Call!Request
        /\ \A x \in Call!Token : Presents(w, x) =>
              claims[x] # Call!Unissued /\ (Call!InForce(x) => x \in good[w])
        /\ App \ paused \subseteq paid[w]

\* An administrator's token has verified and is looked up on the deny-list.
LookedUp(w, x) == x \in AdminToken /\ (x \in good[w] \/ x \in out)

Staged(w) ==
    /\ callPc[w] = "token" => call[w].bearer \in Call!Token
    /\ callPc[w] = "denied" => LookedUp(w, call[w].bearer)
    /\ callPc[w] = "secret" => call[w].bearer = Secret
    /\ callPc[w] = "site" => call[w].need \in {"either", "user"}

AsAdmin(w) ==
    /\ callPc[w] \in {"pause", "served"}
    /\ via[w].token = call[w].bearer
    /\ via[w].token # Secret =>
          /\ via[w].token \in AdminToken /\ AppOf[via[w].token] = via[w].app
          /\ \/ via[w].token \in good[w]
             \/ via[w].token \in out /\ second >= claims[via[w].token].exp

AsUser(w) ==
    /\ via[w].role = "user" /\ call[w].need \in {"either", "user"}
    /\ callPc[w] \in {"active", "served"} =>
          /\ via[w].token \in SessionToken /\ AppOf[via[w].token] = via[w].app
          /\ via[w].token \in good[w]
                \/ (callPc[w] = "active" /\ via[w].token \in ended)

Through(w) ==
    callPc[w] \in {"pause", "session", "active", "served"} =>
        /\ via[w].app \in App
        /\ IF via[w].role = "admin" THEN AsAdmin(w) ELSE AsUser(w)
        /\ callPc[w] # "pause" /\ call[w].need # "billing" => via[w].app \in paid[w]

Visit(w) == Arrived(w) /\ Staged(w) /\ Through(w)
CallInv == CallTypes /\ KeysInv /\ OutInv /\ \A w \in Visitor : Visit(w)

LEMMA Nulls == NoToken \notin Call!Token /\ Secret \notin Call!Token /\ NoToken # Secret
  BY NullsAssumption DEF Call!Token

LEMMA RequestFacts ==
    ASSUME NEW r \in Call!Request
    PROVE  /\ r.bearer = Secret \/ r.bearer \in Call!Token
           /\ r.cookie = NoToken \/ r.cookie \in Call!Token
           /\ r.bearer = Secret => r.need \in {"admin", "billing", "either"} /\ r.site \in App
           /\ r.bearer \in Call!Token => r.need \in {"admin", "logout", "user", "either"}
           /\ r.need \in {"either", "user"} => r.site \in App
           /\ r.need = "logout" => r.bearer \in Call!Token
<1>1. Secret \notin Call!Token
  BY Nulls
<1>2. CASE r \in [need: {"admin", "billing", "either"}, bearer: {Secret},
                 cookie: {NoToken}, site: App]
  BY <1>1, <1>2
<1>3. CASE r \in [need: {"admin", "logout"}, bearer: Call!Token, cookie: {NoToken},
                 site: {NoApp}]
  BY <1>1, <1>3
<1>4. CASE r \in [need: {"user"}, bearer: Call!Token, cookie: {NoToken}, site: App]
  BY <1>1, <1>4
<1>5. CASE r \in [need: {"either"}, bearer: Call!Token,
                 cookie: Call!Token \union {NoToken}, site: App]
  BY <1>1, <1>5
<1> QED BY <1>2, <1>3, <1>4, <1>5 DEF Call!Request

LEMMA CallInit == Call!Init => CallInv
<1> SUFFICES ASSUME Call!Init PROVE CallInv
  OBVIOUS
<1> USE DEF Call!Init
<1>1. /\ Call!Unissued \in [key: Nat, exp: Nat] /\ Call!Unissued.key = 0
      /\ Call!Nobody \in [token: Call!Token \union {NoToken, Secret},
                          app: App \union {NoApp}, role: {"none", "admin", "user"}]
  BY DEF Call!Unissued, Call!Nobody
<1>2. CallTypes
  BY <1>1 DEF CallTypes
<1>3. KeysInv
  <2>1. ASSUME NEW a \in App PROVE NewestSigns(a)
    <3>1. 1 \in published[a] /\ \A j \in published[a] : j <= 1
      OBVIOUS
    <3>2. \A x \in Call!Token : claims[x].key <= 1
      BY <1>1
    <3> QED BY <3>1, <3>2 DEF NewestSigns
  <2> QED BY <2>1 DEF KeysInv
<1>4. OutInv /\ \A w \in Visitor : Visit(w)
  BY DEF OutInv, Visit, Arrived, Staged, Through
<1> QED BY <1>2, <1>3, <1>4 DEF CallInv

\* What others do leaves a request in order: tokens only lose their force.
LEMMA VisitKept ==
    ASSUME CallInv, NEW v \in Visitor,
           callPc'[v] = callPc[v], call'[v] = call[v], via'[v] = via[v], good'[v] = good[v],
           paid[v] \subseteq paid'[v],
           callPc[v] # "idle" => App \ paused' \subseteq paid'[v],
           second' \in Nat, second <= second', out \subseteq out', ended \subseteq ended',
           \A x \in Call!Token : claims[x] # Call!Unissued =>
               claims'[x] = claims[x] /\ (Call!InForce(x)' => Call!InForce(x))
    PROVE  Visit(v)'
<1>1. Visit(v) /\ CallTypes
  BY DEF CallInv
<1>2. Arrived(v)'
  BY <1>1 DEF Visit, Arrived, Presents
<1>3. Staged(v)'
  BY <1>1 DEF Visit, Staged, LookedUp
<1>4. AsAdmin(v) => AsAdmin(v)'
  <2>1. ASSUME NEW x, x \in out, second >= claims[x].exp
        PROVE  x \in out' /\ second' >= claims'[x].exp
    <3>1. /\ x \in Call!Token /\ claims[x] # Call!Unissued /\ claims[x].exp \in Nat
          /\ second \in Nat
      BY <1>1, <2>1 DEF CallInv, OutInv, CallTypes, Call!Token
    <3> QED BY <2>1, <3>1
  <2> QED BY <2>1 DEF AsAdmin
<1>5. AsUser(v) => AsUser(v)'
  BY DEF AsUser
<1>6. Through(v)'
  BY <1>1, <1>4, <1>5 DEF Visit, Through
<1> QED BY <1>2, <1>3, <1>6 DEF Visit

\* A request goes a step: only its own part changes.
LEMMA CallGoes ==
    ASSUME CallInv, NEW w \in Visitor,
           UNCHANGED <<apps, published, paused, claims, ended, deny, second, out>>,
           CallTypes', Visit(w)',
           \A v \in Visitor \ {w} :
               /\ callPc'[v] = callPc[v] /\ call'[v] = call[v] /\ via'[v] = via[v]
               /\ good'[v] = good[v] /\ paid'[v] = paid[v]
    PROVE  CallInv'
<1>1. \A x \in Call!Token : Call!InForce(x)' => Call!InForce(x)
  BY DEF Call!InForce, Call!Verifies
<1>2. \A v \in Visitor : callPc[v] # "idle" => App \ paused \subseteq paid[v]
  BY DEF CallInv, Visit, Arrived
<1>3. second \in Nat /\ second <= second
  BY DEF CallInv, CallTypes
<1>4. ASSUME NEW v \in Visitor \ {w} PROVE Visit(v)'
  BY <1>1, <1>2, <1>3, VisitKept
<1>5. KeysInv' /\ OutInv'
  BY DEF CallInv, KeysInv, NewestSigns, OutInv
<1> QED BY <1>4, <1>5 DEF CallInv

LEMMA CallEnds ==
    ASSUME CallInv, NEW w \in Visitor, Call!Refuse(w)
    PROVE  CallInv'
<1>1. /\ callPc' = [callPc EXCEPT ![w] = "idle"] /\ call' = [call EXCEPT ![w] = Call!NoRequest]
      /\ via' = [via EXCEPT ![w] = Call!Nobody] /\ good' = [good EXCEPT ![w] = {}]
      /\ paid' = [paid EXCEPT ![w] = {}]
      /\ UNCHANGED <<apps, published, paused, claims, ended, deny, second, out>>
  BY DEF Call!Refuse, Call!End, Call!Go, Call!world
<1>2. Call!Nobody \in [token: Call!Token \union {NoToken, Secret},
                       app: App \union {NoApp}, role: {"none", "admin", "user"}]
  BY DEF Call!Nobody
<1>3. CallTypes'
  BY <1>1, <1>2 DEF CallInv, CallTypes
<1>4. callPc'[w] = "idle"
  BY <1>1 DEF CallInv, CallTypes
<1>5. Visit(w)'
  BY <1>4 DEF Visit, Arrived, Staged, Through
<1>6. \A v \in Visitor \ {w} :
               /\ callPc'[v] = callPc[v] /\ call'[v] = call[v] /\ via'[v] = via[v]
               /\ good'[v] = good[v] /\ paid'[v] = paid[v]
  BY <1>1 DEF CallInv, CallTypes
<1> QED BY <1>1, <1>3, <1>5, <1>6, CallGoes

\* A request goes on, with nothing new but its stage.
LEMMA CallPasses ==
    ASSUME CallInv, NEW w \in Visitor, callPc[w] # "idle",
           NEW stage \in {"denied", "site", "session", "served"}, Call!Go(w, stage),
           UNCHANGED <<apps, published, paused, claims, ended, deny, second, call, via, out,
                       good, paid>>,
           stage = "denied" => LookedUp(w, call[w].bearer),
           stage = "site" => call[w].need \in {"either", "user"},
           stage \in {"session", "served"} =>
              /\ via[w].app \in App /\ (call[w].need # "billing" => via[w].app \in paid[w])
              /\ stage = "session" => via[w].role # "admin" /\ AsUser(w)
              /\ stage = "served" =>
                    \/ via[w].role = "admin" /\ AsAdmin(w)
                    \/ /\ via[w].role = "user" /\ call[w].need \in {"either", "user"}
                       /\ via[w].token \in SessionToken /\ AppOf[via[w].token] = via[w].app
                       /\ via[w].token \in good[w]
    PROVE  CallInv'
<1>1. /\ callPc'[w] = stage /\ \A v \in Visitor \ {w} : callPc'[v] = callPc[v]
      /\ CallTypes'
  BY DEF CallInv, CallTypes, Call!Go
<1>2. Arrived(w)'
  BY DEF CallInv, Visit, Arrived, Presents, Call!InForce, Call!Verifies
<1>3. Staged(w)'
  BY <1>1 DEF Staged, LookedUp
<1>4. Through(w)'
  <2>1. CASE stage \in {"session", "served"}
    BY <1>1, <2>1 DEF Through, AsAdmin, AsUser
  <2>2. CASE stage \notin {"session", "served"}
    BY <1>1, <2>2 DEF Through
  <2> QED BY <2>1, <2>2
<1> QED BY <1>1, <1>2, <1>3, <1>4, CallGoes DEF Visit

\* A request is admitted by a credential, or to an application.
LEMMA CallAdmits ==
    ASSUME CallInv, NEW w \in Visitor, callPc[w] # "idle",
           NEW x \in Call!Token \union {NoToken, Secret}, NEW a \in App,
           NEW role \in {"admin", "user"}, NEW stage \in {"pause", "active", "served"},
           Call!Admit(w, x, a, role, stage),
           UNCHANGED <<apps, published, paused, claims, ended, second>>,
           role = "admin" =>
              /\ stage \in {"pause", "served"} /\ x = call[w].bearer
              /\ x # Secret =>
                    /\ x \in AdminToken /\ AppOf[x] = a
                    /\ x \in good[w] \/ (x \in out /\ second >= claims[x].exp),
           role = "user" =>
              /\ call[w].need \in {"either", "user"} /\ stage \in {"pause", "active"}
              /\ stage = "active" =>
                    /\ x \in SessionToken /\ AppOf[x] = a
                    /\ x \in good[w] \/ x \in ended,
           stage # "pause" /\ call[w].need # "billing" => a \in paid[w]
    PROVE  CallInv'
<1> DEFINE e == [token |-> x, app |-> a, role |-> role]
<1>1. /\ callPc' = [callPc EXCEPT ![w] = stage] /\ via' = [via EXCEPT ![w] = e]
      /\ UNCHANGED <<deny, call, out, good, paid>>
  BY DEF Call!Admit, Call!Go
<1>2. /\ e \in [token: Call!Token \union {NoToken, Secret},
                app: App \union {NoApp}, role: {"none", "admin", "user"}]
      /\ e.token = x /\ e.app = a /\ e.role = role
  OBVIOUS
<1> HIDE DEF e
<1>3. /\ callPc'[w] = stage /\ via'[w] = e
      /\ \A v \in Visitor \ {w} : callPc'[v] = callPc[v] /\ via'[v] = via[v]
  BY <1>1 DEF CallInv, CallTypes
<1>4. CallTypes'
  BY <1>1, <1>2 DEF CallInv, CallTypes
<1>5. Arrived(w)'
  BY <1>1 DEF CallInv, Visit, Arrived, Presents, Call!InForce, Call!Verifies
<1>6. Staged(w)'
  BY <1>3 DEF Staged
<1>7. Through(w)'
  <2>1. CASE role = "admin"
    <3>1. AsAdmin(w)'
      BY <1>1, <1>2, <1>3, <2>1 DEF AsAdmin
    <3> QED BY <1>1, <1>2, <1>3, <2>1, <3>1 DEF Through
  <2>2. CASE role = "user"
    <3>1. AsUser(w)'
      BY <1>1, <1>2, <1>3, <2>2 DEF AsUser
    <3> QED BY <1>1, <1>2, <1>3, <2>2, <3>1 DEF Through
  <2> QED BY <2>1, <2>2
<1>8. Visit(w)'
  BY <1>5, <1>6, <1>7 DEF Visit
<1> HIDE DEF Call!Admit
<1> QED BY <1>1, <1>3, <1>4, <1>8, CallGoes

LEMMA CallBegins ==
    ASSUME CallInv, NEW w \in Visitor, Call!Begin(w)
    PROVE  CallInv'
<1>1. PICK r \in Call!Request :
          /\ \A x \in {r.bearer, r.cookie} \intersect Call!Token : claims[x] # Call!Unissued
          /\ call' = [call EXCEPT ![w] = r]
          /\ good' = [good EXCEPT ![w] =
                {x \in {r.bearer, r.cookie} \intersect Call!Token : Call!InForce(x)}]
          /\ Call!Go(w, CASE r.bearer = Secret -> "secret"
                     [] r.bearer \in Call!Token /\ r.need # "user" -> "token"
                     [] OTHER -> "site")
  BY DEF Call!Begin
<1>2. /\ callPc[w] = "idle" /\ paid' = [paid EXCEPT ![w] = App \ paused]
      /\ UNCHANGED <<apps, published, paused, claims, ended, deny, second, via, out>>
  BY DEF Call!Begin, Call!world
<1>3. PICK stage \in {"secret", "token", "site"} :
          /\ callPc' = [callPc EXCEPT ![w] = stage]
          /\ stage = "secret" => r.bearer = Secret
          /\ stage = "token" => r.bearer \in Call!Token
          /\ stage = "site" => r.need \in {"either", "user"}
  <2>1. CASE r.bearer = Secret
    <3>1. callPc' = [callPc EXCEPT ![w] = "secret"]
      BY <1>1, <2>1, Nulls DEF Call!Go
    <3> QED BY <2>1, <3>1
  <2>2. CASE r.bearer # Secret /\ r.bearer \in Call!Token /\ r.need # "user"
    <3>1. callPc' = [callPc EXCEPT ![w] = "token"]
      BY <1>1, <2>2 DEF Call!Go
    <3> QED BY <2>2, <3>1
  <2>3. CASE r.bearer # Secret /\ ~(r.bearer \in Call!Token /\ r.need # "user")
    <3>1. r.need = "user"
      BY <2>3, RequestFacts
    <3> QED BY <1>1, <2>3, <3>1 DEF Call!Go
  <2> QED BY <2>1, <2>2, <2>3
<1>4. CallTypes'
  <2>1. {x \in {r.bearer, r.cookie} \intersect Call!Token : Call!InForce(x)}
            \in SUBSET Call!Token
    OBVIOUS
  <2>2. App \ paused \in SUBSET App
    OBVIOUS
  <2> QED BY <1>1, <1>2, <1>3, <2>1, <2>2 DEF CallInv, CallTypes
<1>5. /\ callPc'[w] = stage /\ call'[w] = r /\ paid'[w] = App \ paused
      /\ good'[w] = {x \in {r.bearer, r.cookie} \intersect Call!Token : Call!InForce(x)}
  BY <1>1, <1>2, <1>3 DEF CallInv, CallTypes
<1>6. Arrived(w)'
  BY <1>1, <1>2, <1>5 DEF Arrived, Presents, Call!InForce, Call!Verifies
<1>7. Staged(w)'
  BY <1>3, <1>5 DEF Staged
<1>8. Through(w)'
  BY <1>5 DEF Through
<1>9. Visit(w)'
  BY <1>6, <1>7, <1>8 DEF Visit
<1>10. \A v \in Visitor \ {w} :
               /\ callPc'[v] = callPc[v] /\ call'[v] = call[v] /\ via'[v] = via[v]
               /\ good'[v] = good[v] /\ paid'[v] = paid[v]
  BY <1>1, <1>2, <1>3 DEF CallInv, CallTypes
<1> QED BY <1>2, <1>4, <1>9, <1>10, CallGoes

\* A request that is under way: what it presents, and who is solvent.
LEMMA UnderWay ==
    ASSUME CallInv, NEW w \in Visitor, callPc[w] # "idle"
    PROVE  /\ call[w] \in Call!Request
           /\ \A x \in Call!Token : Presents(w, x) =>
                 claims[x] # Call!Unissued /\ (Call!InForce(x) => x \in good[w])
           /\ App \ paused \subseteq paid[w]
           /\ Staged(w) /\ Through(w)
  BY DEF CallInv, Visit, Arrived

\* A token that verifies is in force, unless it has been withdrawn.
LEMMA VerifiedForce ==
    ASSUME CallInv, NEW x \in Call!Token, NEW a \in App, Call!Verifies(x, a)
    PROVE  AppOf[x] = a /\ a \in apps /\ (Call!InForce(x) \/ x \in ended \/ x \in out)
<1>1. AppOf[x] = a /\ claims[x].key \in published[a]
  BY DEF Call!Verifies
<1>2. a \in apps
  BY <1>1 DEF CallInv, KeysInv
<1> QED BY <1>1, <1>2 DEF Call!InForce

LEMMA CallNotAdmin ==
    ASSUME CallInv, NEW w \in Visitor, callPc[w] # "idle", Call!NotAdmin(w)
    PROVE  CallInv'
<1>1. CASE call[w].need = "either"
  <2>1. /\ Call!Go(w, "site")
        /\ UNCHANGED <<apps, published, paused, claims, ended, deny, second, call, via, out,
                       good, paid>>
    BY <1>1 DEF Call!NotAdmin, Call!world
  <2> QED BY <1>1, <2>1, CallPasses
<1>2. CASE call[w].need # "either"
  BY <1>2, CallEnds DEF Call!NotAdmin
<1> QED BY <1>1, <1>2

LEMMA CallChecksSecret ==
    ASSUME CallInv, NEW w \in Visitor, Call!CheckSecret(w)
    PROVE  CallInv'
<1>1. callPc[w] = "secret"
  BY DEF Call!CheckSecret
<1>2. call[w].bearer = Secret /\ call[w].site \in App
  BY <1>1, UnderWay, RequestFacts DEF Staged
<1>3. CASE call[w].site \in apps
  <2>1. PICK stage \in {"pause", "served"} :
            /\ Call!Admit(w, Secret, call[w].site, "admin", stage)
            /\ stage = "served" => call[w].need = "billing"
    BY <1>3 DEF Call!CheckSecret
  <2>2. UNCHANGED <<apps, published, paused, claims, ended, second>>
    BY <2>1 DEF Call!Admit, Call!world
  <2> QED BY <1>1, <1>2, <2>1, <2>2, CallAdmits
<1>4. CASE call[w].site \notin apps
  BY <1>4, CallEnds DEF Call!CheckSecret
<1> QED BY <1>3, <1>4

LEMMA CallChecksToken ==
    ASSUME CallInv, NEW w \in Visitor, Call!CheckToken(w)
    PROVE  CallInv'
<1> DEFINE x == call[w].bearer
<1>1. callPc[w] = "token"
  BY DEF Call!CheckToken
<1>2. x \in Call!Token /\ AppOf[x] \in App /\ (Call!InForce(x) => x \in good[w])
  BY <1>1, UnderWay, ComponentsAssumption DEF Staged, Presents, Call!Token
<1>3. CASE x \in AdminToken /\ Call!Verifies(x, AppOf[x])
  <2>1. /\ Call!Go(w, "denied")
        /\ UNCHANGED <<apps, published, paused, claims, ended, deny, second, call, via, out,
                       good, paid>>
    BY <1>3 DEF Call!CheckToken, Call!world
  <2>2. x \notin ended
    BY <1>3, ComponentsAssumption DEF CallInv, CallTypes
  <2>3. LookedUp(w, call[w].bearer)
    BY <1>2, <1>3, <2>2, VerifiedForce DEF LookedUp
  <2> QED BY <1>1, <2>1, <2>3, CallPasses
<1>4. CASE ~(x \in AdminToken /\ Call!Verifies(x, AppOf[x]))
  BY <1>1, <1>4, CallNotAdmin DEF Call!CheckToken
<1> QED BY <1>3, <1>4

LEMMA CallChecksDenied ==
    ASSUME CallInv, NEW w \in Visitor, Call!CheckDenied(w)
    PROVE  CallInv'
<1> DEFINE x == call[w].bearer
<1>1. callPc[w] = "denied"
  BY DEF Call!CheckDenied
<1>2. /\ x \in AdminToken /\ x \in Call!Token /\ AppOf[x] \in App
      /\ x \in good[w] \/ x \in out
  BY <1>1, UnderWay, ComponentsAssumption DEF Staged, LookedUp, Call!Token
<1>3. CASE Call!Outage(w)
  BY <1>3, CallEnds DEF Call!Outage
<1>4. CASE Call!NotAdmin(w)
  BY <1>1, <1>4, CallNotAdmin
<1>5. CASE deny[x] <= second /\ Call!Admit(w, x, AppOf[x], "admin", "pause")
  <2>1. UNCHANGED <<apps, published, paused, claims, ended, second>>
    BY <1>5 DEF Call!Admit, Call!world
  <2>2. x \in out => second >= claims[x].exp
    BY <1>2, <1>5 DEF CallInv, OutInv, CallTypes
  <2> HIDE DEF x
  <2> QED BY <1>1, <1>2, <1>5, <2>1, <2>2, CallAdmits DEF x
<1> QED BY <1>3, <1>4, <1>5 DEF Call!CheckDenied

LEMMA CallFindsSite ==
    ASSUME CallInv, NEW w \in Visitor, Call!FindSite(w)
    PROVE  CallInv'
<1>1. callPc[w] = "site"
  BY DEF Call!FindSite
<1>2. call[w].need \in {"either", "user"} /\ call[w].site \in App
  BY <1>1, UnderWay, RequestFacts DEF Staged
<1>3. CASE call[w].site \in apps
  <2>1. Call!Admit(w, NoToken, call[w].site, "user", "pause")
    BY <1>3 DEF Call!FindSite
  <2>2. UNCHANGED <<apps, published, paused, claims, ended, second>>
    BY <2>1 DEF Call!Admit, Call!world
  <2> QED BY <1>1, <1>2, <2>1, <2>2, CallAdmits
<1>4. CASE call[w].site \notin apps
  BY <1>4, CallEnds DEF Call!FindSite
<1> QED BY <1>3, <1>4

LEMMA CallChecksPaused ==
    ASSUME CallInv, NEW w \in Visitor, Call!CheckPaused(w)
    PROVE  CallInv'
<1>1. callPc[w] = "pause"
  BY DEF Call!CheckPaused
<1>2. /\ via[w].app \in App /\ App \ paused \subseteq paid[w]
      /\ IF via[w].role = "admin" THEN AsAdmin(w) ELSE AsUser(w)
  BY <1>1, UnderWay DEF Through
<1>3. CASE via[w].app \in paused
  BY <1>3, CallEnds DEF Call!CheckPaused
<1>4. CASE via[w].app \notin paused
  <2>1. /\ Call!Go(w, IF via[w].role = "admin" THEN "served" ELSE "session")
        /\ UNCHANGED <<apps, published, paused, claims, ended, deny, second, call, via, out,
                       good, paid>>
    BY <1>4 DEF Call!CheckPaused, Call!world
  <2>2. CASE via[w].role = "admin"
    BY <1>1, <1>2, <1>4, <2>1, <2>2, CallPasses
  <2>3. CASE via[w].role # "admin"
    BY <1>1, <1>2, <1>4, <2>1, <2>3, CallPasses
  <2> QED BY <2>2, <2>3
<1> QED BY <1>3, <1>4

LEMMA CallChecksSession ==
    ASSUME CallInv, NEW w \in Visitor, Call!CheckSession(w)
    PROVE  CallInv'
<1> DEFINE x == Call!Shown(w)
           a == via[w].app
<1>1. callPc[w] = "session"
  BY DEF Call!CheckSession
<1>2. /\ a \in App /\ (call[w].need # "billing" => a \in paid[w])
      /\ call[w].need \in {"either", "user"}
  BY <1>1, UnderWay DEF Through, AsAdmin, AsUser
<1>3. CASE x \in SessionToken /\ Call!Verifies(x, a)
  <2>1. Call!Admit(w, x, a, "user", "active")
    BY <1>3 DEF Call!CheckSession
  <2>2. UNCHANGED <<apps, published, paused, claims, ended, second>>
    BY <2>1 DEF Call!Admit, Call!world
  <2>3. x \in Call!Token /\ Presents(w, x)
    BY <1>3 DEF Call!Token, Call!Shown, Presents
  <2>4. x \notin out
    BY <1>3, ComponentsAssumption DEF CallInv, CallTypes
  <2> HIDE DEF x, a
  <2>5. AppOf[x] = a /\ (x \in good[w] \/ x \in ended)
    BY <1>1, <1>2, <1>3, <2>3, <2>4, VerifiedForce, UnderWay
  <2> QED BY <1>1, <1>2, <1>3, <2>1, <2>2, <2>3, <2>5, CallAdmits
<1>4. CASE ~(x \in SessionToken /\ Call!Verifies(x, a))
  BY <1>4, CallEnds DEF Call!CheckSession
<1> QED BY <1>3, <1>4

LEMMA CallChecksActive ==
    ASSUME CallInv, NEW w \in Visitor, Call!CheckActive(w)
    PROVE  CallInv'
<1>1. callPc[w] = "active"
  BY DEF Call!CheckActive
<1>2. /\ via[w].app \in App /\ (call[w].need # "billing" => via[w].app \in paid[w])
      /\ via[w].role # "admin" /\ AsUser(w)
  BY <1>1, UnderWay DEF Through, AsAdmin
<1>3. CASE via[w].token \notin ended /\ via[w].app \in apps
  <2>1. /\ Call!Go(w, "served")
        /\ UNCHANGED <<apps, published, paused, claims, ended, deny, second, call, via, out,
                       good, paid>>
    BY <1>3 DEF Call!CheckActive, Call!world
  <2>2. /\ via[w].role = "user" /\ call[w].need \in {"either", "user"}
        /\ via[w].token \in SessionToken /\ AppOf[via[w].token] = via[w].app
        /\ via[w].token \in good[w]
    BY <1>1, <1>2, <1>3 DEF AsUser
  <2> QED BY <1>1, <1>2, <2>1, <2>2, CallPasses
<1>4. CASE ~(via[w].token \notin ended /\ via[w].app \in apps)
  BY <1>4, CallEnds DEF Call!CheckActive
<1> QED BY <1>3, <1>4

\* An answer; a log-out puts its token on the deny-list for what is left of it.
LEMMA CallServes ==
    ASSUME CallInv, NEW w \in Visitor, Call!Serve(w)
    PROVE  CallInv'
<1> DEFINE x == call[w].bearer
<1>1. /\ callPc[w] = "served" /\ Call!End(w)
      /\ UNCHANGED <<apps, published, paused, claims, ended, second>>
  BY DEF Call!Serve, Call!world
<1>2. CASE call[w].need # "logout"
  BY <1>1, <1>2, CallEnds DEF Call!Serve, Call!Refuse
<1>3. CASE call[w].need = "logout"
  <2>1. deny' = [deny EXCEPT ![x] = Call!DenyUntil(x)] /\ out' = out \union {x}
    BY <1>3 DEF Call!Serve
  <2>2. x \in Call!Token /\ claims[x] # Call!Unissued
    BY <1>1, <1>3, UnderWay, RequestFacts DEF Presents
  <2>3. x \in AdminToken
    BY <1>1, <1>3, <2>2, UnderWay, Nulls DEF Through, AsAdmin, AsUser
  <2>4. claims[x].exp \in Nat /\ second \in Nat
    BY <2>2 DEF CallInv, CallTypes
  <2>5. Call!DenyUntil(x) \in Nat /\ Call!DenyUntil(x) >= claims[x].exp
    BY <2>4 DEF Call!DenyUntil
  <2>6. /\ callPc' = [callPc EXCEPT ![w] = "idle"] /\ call' = [call EXCEPT ![w] = Call!NoRequest]
        /\ via' = [via EXCEPT ![w] = Call!Nobody] /\ good' = [good EXCEPT ![w] = {}]
        /\ paid' = [paid EXCEPT ![w] = {}]
    BY <1>1 DEF Call!End, Call!Go
  <2>7. Call!Nobody \in [token: Call!Token \union {NoToken, Secret},
                         app: App \union {NoApp}, role: {"none", "admin", "user"}]
    BY DEF Call!Nobody
  <2> HIDE DEF x
  <2>8. CallTypes'
    BY <1>1, <2>1, <2>2, <2>3, <2>5, <2>6, <2>7 DEF CallInv, CallTypes
  <2>9. OutInv'
    BY <1>1, <2>1, <2>2, <2>5 DEF CallInv, CallTypes, OutInv
  <2>10. KeysInv'
    BY <1>1 DEF CallInv, KeysInv, NewestSigns
  <2>11. ASSUME NEW v \in Visitor PROVE Visit(v)'
    <3>1. CASE v = w
      <4>1. callPc'[v] = "idle"
        BY <2>6, <3>1 DEF CallInv, CallTypes
      <4> QED BY <4>1 DEF Visit, Arrived, Staged, Through
    <3>2. CASE v # w
      <4>1. /\ callPc'[v] = callPc[v] /\ call'[v] = call[v] /\ via'[v] = via[v]
            /\ good'[v] = good[v] /\ paid'[v] = paid[v]
        BY <2>6, <3>2 DEF CallInv, CallTypes
      <4>2. \A y \in Call!Token : Call!InForce(y)' => Call!InForce(y)
        BY <1>1, <2>1 DEF Call!InForce, Call!Verifies
      <4>3. out \subseteq out' /\ ended \subseteq ended' /\ second' \in Nat /\ second <= second'
        BY <1>1, <2>1, <2>4
      <4>4. callPc[v] # "idle" => App \ paused' \subseteq paid'[v]
        BY <1>1, <4>1, UnderWay
      <4> QED BY <1>1, <4>1, <4>2, <4>3, <4>4, VisitKept
    <3> QED BY <3>1, <3>2
  <2> QED BY <2>8, <2>9, <2>10, <2>11 DEF CallInv
<1> QED BY <1>2, <1>3

\* What goes on meanwhile, to the requests: tokens lose their force.
LEMMA CallWorldMoves ==
    ASSUME CallInv, UNCHANGED <<deny, callPc, call, via, out, good>>,
           CallTypes', KeysInv', second <= second', ended \subseteq ended',
           \A x \in Call!Token : claims[x] # Call!Unissued => claims'[x] = claims[x],
           \A x \in Call!Token : claims[x] # Call!Unissued =>
               (Call!InForce(x)' => Call!InForce(x)),
           \A v \in Visitor : callPc[v] # "idle" =>
               paid[v] \subseteq paid'[v] /\ App \ paused' \subseteq paid'[v]
    PROVE  CallInv'
<1>1. OutInv'
  BY DEF CallInv, CallTypes, OutInv, Call!Token
<1>2. ASSUME NEW v \in Visitor PROVE Visit(v)'
  <2>1. CASE callPc[v] = "idle"
    BY <2>1 DEF Visit, Arrived, Staged, Through
  <2>2. CASE callPc[v] # "idle"
    <3>1. second' \in Nat
      BY DEF CallTypes
    <3> QED BY <2>2, <3>1, VisitKept
  <2> QED BY <2>1, <2>2
<1> QED BY <1>1, <1>2 DEF CallInv

\* The key an application signs with.
LEMMA NewestKey ==
    ASSUME CallInv, NEW a \in apps
    PROVE  /\ a \in App /\ Call!Newest(a) \in published[a] /\ Call!Newest(a) \in Nat \ {0}
           /\ \A j \in published[a] : j <= Call!Newest(a)
           /\ \A x \in Call!Token : AppOf[x] = a => claims[x].key <= Call!Newest(a)
<1>1. a \in App /\ NewestSigns(a) /\ published[a] \subseteq Nat
  BY DEF CallInv, CallTypes, KeysInv
<1>2. PICK k \in published[a] :
          /\ k # 0 /\ \A j \in published[a] : j <= k
          /\ \A x \in Call!Token : AppOf[x] = a => claims[x].key <= k
  BY <1>1 DEF NewestSigns
<1>3. Call!Newest(a) \in published[a] /\ \A j \in published[a] : j <= Call!Newest(a)
  BY <1>2 DEF Call!Newest
<1>4. Call!Newest(a) = k
  BY <1>1, <1>2, <1>3
<1> QED BY <1>1, <1>2, <1>3, <1>4

LEMMA CallIssues ==
    ASSUME CallInv, NEW x \in Call!Token, Call!Issue(x)
    PROVE  CallInv'
<1> DEFINE a == AppOf[x]
           e == [key |-> Call!Newest(a), exp |-> second + Lifetime]
<1>1. /\ claims[x] = Call!Unissued /\ a \in apps /\ claims' = [claims EXCEPT ![x] = e]
      /\ UNCHANGED <<apps, published, paused, ended, second, deny, callPc, call, via, out, good,
                     paid>>
  BY DEF Call!Issue, Call!requests
<1>2. e \in [key: Nat, exp: Nat] /\ e.key = Call!Newest(a)
  BY <1>1, NewestKey, ComponentsAssumption DEF CallInv, CallTypes
<1> HIDE DEF e
<1>3. CallTypes'
  BY <1>1, <1>2 DEF CallInv, CallTypes
<1>4. /\ claims'[x] = e /\ \A y \in Call!Token \ {x} : claims'[y] = claims[y]
  BY <1>1 DEF CallInv, CallTypes
<1>5. KeysInv'
  <2>1. ASSUME NEW b \in apps PROVE NewestSigns(b)'
    <3>1. /\ Call!Newest(b) \in published[b] /\ Call!Newest(b) # 0
          /\ \A j \in published[b] : j <= Call!Newest(b)
          /\ \A y \in Call!Token : AppOf[y] = b => claims[y].key <= Call!Newest(b)
      BY NewestKey
    <3>2. ASSUME NEW y \in Call!Token, AppOf[y] = b
          PROVE  claims'[y].key <= Call!Newest(b)
      <4>1. CASE y = x
        BY <1>2, <1>4, <3>2, <4>1, NewestKey
      <4>2. CASE y # x
        BY <1>4, <3>1, <3>2, <4>2
      <4> QED BY <4>1, <4>2
    <3> QED BY <1>1, <3>1, <3>2 DEF NewestSigns
  <2> QED BY <1>1, <2>1 DEF CallInv, KeysInv
<1>6. \A y \in Call!Token : claims[y] # Call!Unissued => claims'[y] = claims[y]
  BY <1>1, <1>4
<1>7. \A y \in Call!Token : claims[y] # Call!Unissued =>
          (Call!InForce(y)' => Call!InForce(y))
  BY <1>1, <1>6 DEF Call!InForce, Call!Verifies
<1>8. \A v \in Visitor : callPc[v] # "idle" =>
               paid[v] \subseteq paid'[v] /\ App \ paused' \subseteq paid'[v]
  BY <1>1, UnderWay
<1>9. second <= second' /\ ended \subseteq ended'
  BY <1>1 DEF CallInv, CallTypes
<1> QED BY <1>1, <1>3, <1>5, <1>6, <1>7, <1>8, <1>9, CallWorldMoves

\* Sessions are revoked, accounts are paused and resumed, and time passes.
LEMMA CallAges ==
    ASSUME CallInv,
           \/ \E x \in Call!Token : Call!Revoke(x)
           \/ \E a \in App : Call!Pause(a) \/ Call!Resume(a)
           \/ Call!Tick
    PROVE  CallInv'
<1>1. /\ UNCHANGED <<apps, published, claims, deny, callPc, call, via, out, good>>
      /\ second' = second \/ second' = second + 1
      /\ ended' \subseteq SessionToken /\ ended \subseteq ended'
      /\ \/ paused \subseteq paused' /\ paused' \subseteq App /\ paid' = paid
         \/ \E a \in App :
               /\ paused' = paused \ {a}
               /\ paid' = [w \in Visitor |-> IF callPc[w] = "idle" THEN {} ELSE paid[w] \union {a}]
  BY DEF Call!Revoke, Call!Pause, Call!Resume, Call!Tick, Call!requests, CallInv, CallTypes
<1>2. CallTypes'
  <2>1. paused' \subseteq App /\ paid' \in [Visitor -> SUBSET App]
    BY <1>1 DEF CallInv, CallTypes
  <2> QED BY <1>1, <2>1 DEF CallInv, CallTypes
<1>3. KeysInv'
  BY <1>1 DEF CallInv, KeysInv, NewestSigns
<1>4. second <= second' /\ second \in Nat
  BY <1>1 DEF CallInv, CallTypes
<1>5. \A x \in Call!Token : Call!InForce(x)' => Call!InForce(x)
  <2>1. \A x \in Call!Token : claims[x].exp \in Nat
    BY DEF CallInv, CallTypes
  <2> QED BY <1>1, <1>4, <2>1 DEF Call!InForce, Call!Verifies
<1>6. ASSUME NEW v \in Visitor, callPc[v] # "idle"
      PROVE  paid[v] \subseteq paid'[v] /\ App \ paused' \subseteq paid'[v]
  BY <1>1, <1>6, UnderWay
<1> QED BY <1>1, <1>2, <1>3, <1>4, <1>5, <1>6, CallWorldMoves

\* Keys change: a new one is the newest, and signs nothing that was issued.
LEMMA CallRekeys ==
    ASSUME CallInv, NEW a \in App, Call!Rotate(a) \/ Call!Drop(a) \/ Call!DeleteApp(a)
    PROVE  CallInv'
<1>1. /\ a \in apps
      /\ UNCHANGED <<paused, claims, ended, second, deny, callPc, call, via, out, good, paid>>
  BY DEF Call!Rotate, Call!Drop, Call!DeleteApp, Call!KeysChange, Call!requests
<1> DEFINE n == Call!Newest(a)
<1>2. PICK keys \in SUBSET Nat :
          /\ published' = [published EXCEPT ![a] = keys]
          /\ \/ apps' = apps /\ keys = published[a] \union {n + 1}
             \/ apps' = apps /\ keys = {n}
             \/ apps' = apps \ {a} /\ keys = {}
  <2>1. n \in Nat /\ published[a] \subseteq Nat
    BY <1>1, NewestKey DEF CallInv, CallTypes
  <2>2. published[a] \union {n + 1} \in SUBSET Nat /\ {n} \in SUBSET Nat /\ {} \in SUBSET Nat
    BY <2>1
  <2>3. CASE Call!Rotate(a)
    BY <2>2, <2>3 DEF Call!Rotate, Call!KeysChange
  <2>4. CASE Call!Drop(a)
    BY <2>2, <2>4 DEF Call!Drop, Call!KeysChange
  <2>5. CASE Call!DeleteApp(a)
    BY <2>2, <2>5 DEF Call!DeleteApp
  <2> QED BY <2>3, <2>4, <2>5
<1>3. /\ n \in Nat \ {0} /\ n \in published[a] /\ \A j \in published[a] : j <= n
      /\ \A x \in Call!Token : AppOf[x] = a => claims[x].key <= n
      /\ \A x \in Call!Token : claims[x].key \in Nat
      /\ published[a] \subseteq Nat
  BY <1>1, NewestKey DEF CallInv, CallTypes
<1> HIDE DEF n
<1>4. CallTypes'
  BY <1>1, <1>2 DEF CallInv, CallTypes
<1>5. published'[a] = keys /\ \A b \in App \ {a} : published'[b] = published[b]
  BY <1>2 DEF CallInv, CallTypes
<1>6. KeysInv'
  <2>1. ASSUME NEW b \in App, b # a
        PROVE  IF b \in apps' THEN NewestSigns(b)' ELSE published'[b] = {}
    BY <1>1, <1>2, <1>5, <2>1 DEF CallInv, KeysInv, NewestSigns
  <2>2. CASE keys = {}
    <3>1. a \notin apps'
      BY <1>2, <1>3, <2>2
    <3> QED BY <1>5, <2>1, <2>2, <3>1 DEF KeysInv
  <2>3. CASE keys = {n}
    <3>1. NewestSigns(a)'
      BY <1>1, <1>3, <1>5, <2>3 DEF NewestSigns
    <3>2. a \in apps'
      BY <1>1, <1>2, <1>3, <2>3
    <3> QED BY <2>1, <3>1, <3>2 DEF KeysInv
  <2>4. CASE keys = published[a] \union {n + 1}
    <3>1. n + 1 \in keys /\ n + 1 # 0 /\ \A j \in keys : j <= n + 1
      BY <1>3, <2>4
    <3>2. \A x \in Call!Token : AppOf[x] = a => claims[x].key <= n + 1
      BY <1>3
    <3>3. NewestSigns(a)'
      BY <1>1, <1>5, <3>1, <3>2 DEF NewestSigns
    <3>4. a \in apps'
      BY <1>1, <1>2, <3>1
    <3> QED BY <2>1, <3>3, <3>4 DEF KeysInv
  <2> QED BY <1>2, <2>2, <2>3, <2>4
<1>7. ASSUME NEW x \in Call!Token, Call!InForce(x)' PROVE Call!InForce(x)
  <2>1. AppOf[x] \in App
    BY ComponentsAssumption DEF Call!Token
  <2>2. claims[x].key \in published'[AppOf[x]] => claims[x].key \in published[AppOf[x]]
    <3>1. CASE AppOf[x] = a
      BY <1>2, <1>3, <1>5, <3>1
    <3>2. CASE AppOf[x] # a
      BY <1>5, <2>1, <3>2
    <3> QED BY <3>1, <3>2
  <2>3. apps' \subseteq apps
    BY <1>2
  <2> QED BY <1>1, <1>7, <2>2, <2>3 DEF Call!InForce, Call!Verifies
<1>8. \A v \in Visitor : callPc[v] # "idle" =>
               paid[v] \subseteq paid'[v] /\ App \ paused' \subseteq paid'[v]
  BY <1>1, UnderWay
<1>9. second <= second' /\ ended \subseteq ended'
  BY <1>1 DEF CallInv, CallTypes
<1>10. \A x \in Call!Token : claims[x] # Call!Unissued => claims'[x] = claims[x]
  BY <1>1
<1> QED BY <1>1, <1>4, <1>6, <1>7, <1>8, <1>9, <1>10, CallWorldMoves

LEMMA CallStep == ASSUME CallInv, [Call!Next]_callVars PROVE CallInv'
<1>1. CASE Call!Next
  <2>1. CASE \E w \in Visitor :
                \/ Call!Begin(w) \/ Call!CheckSecret(w) \/ Call!CheckToken(w)
                \/ Call!CheckDenied(w) \/ Call!FindSite(w) \/ Call!CheckPaused(w)
                \/ Call!CheckSession(w) \/ Call!CheckActive(w) \/ Call!Serve(w)
    BY <2>1, CallBegins, CallChecksSecret, CallChecksToken, CallChecksDenied, CallFindsSite,
       CallChecksPaused, CallChecksSession, CallChecksActive, CallServes
  <2>2. CASE \E x \in Call!Token : Call!Issue(x)
    BY <2>2, CallIssues
  <2>3. CASE \/ \E x \in Call!Token : Call!Revoke(x)
             \/ \E a \in App : Call!Pause(a) \/ Call!Resume(a)
             \/ Call!Tick
    BY <2>3, CallAges
  <2>4. CASE \E a \in App : Call!Rotate(a) \/ Call!Drop(a) \/ Call!DeleteApp(a)
    BY <2>4, CallRekeys
  <2> QED BY <1>1, <2>1, <2>2, <2>3, <2>4 DEF Call!Next
<1>2. CASE UNCHANGED callVars
  <2>1. /\ CallTypes' /\ KeysInv' /\ OutInv'
    BY <1>2 DEF callVars, CallInv, CallTypes, KeysInv, NewestSigns, OutInv
  <2>2. ASSUME NEW w \in Visitor PROVE Visit(w)'
    BY <1>2 DEF callVars, CallInv, Visit, Arrived, Staged, Through, AsAdmin, AsUser, LookedUp,
       Presents, Call!InForce, Call!Verifies
  <2> QED BY <2>1, <2>2 DEF CallInv
<1> QED BY <1>1, <1>2

\* Whoever is served presented a credential that nothing had withdrawn when
\* the request arrived, for that application and role, and was solvent since
\* (require_secret_key, require_session, resolve_app_auth).
THEOREM ServedInForce == Call!Spec => []AdmittedInForce
<1>1. CallInv /\ [Call!Next]_(Call!vars) => CallInv'
  BY CallStep DEF Call!vars, Call!world, Call!requests, callVars
<1>2. CallInv => AdmittedInForce
  <2>1. ASSUME CallInv, NEW w \in Visitor, callPc[w] = "served"
        PROVE  /\ via[w].token # Secret =>
                    /\ \/ via[w].token \in good[w]
                       \/ via[w].token \in out /\ second >= claims[via[w].token].exp
                    /\ AppOf[via[w].token] = via[w].app
                    /\ via[w].token \in (IF via[w].role = "admin" THEN AdminToken
                                          ELSE SessionToken)
               /\ call[w].need # "billing" => via[w].app \in paid[w]
    BY <2>1 DEF CallInv, Visit, Through, AsAdmin, AsUser
  <2> QED BY <2>1 DEF AdmittedInForce, Call!AdmittedInForce
<1> QED BY <1>1, <1>2, CallInit, PTL DEF Call!Spec

-----------------------------------------------------------------------------
(* The composition.                                                        *)

\* MCComponents runs the protocols one at a time, and each as it is specified:
\* what is proved of a protocol holds of the composition that is checked.
THEOREM EachAsSpecified ==
    Spec => /\ Login!Spec /\ Host!Spec /\ Door!Spec
            /\ Meter!Spec /\ Accts!Spec /\ Call!Spec
<1>1. Init => /\ Login!Init /\ Host!Init /\ Door!Init
              /\ Meter!Init /\ Accts!Init /\ Call!Init
  BY DEF Init
<1>2. Next =>
        /\ [Login!Next]_loginVars /\ [Host!Next]_hostVars /\ [Door!Next]_doorVars
        /\ [Meter!Next]_meterVars /\ [Accts!Next]_acctVars /\ [Call!Next]_callVars
  BY DEF Next
<1>3. [Next]_<<part, loginVars, hostVars, doorVars, meterVars, acctVars, callVars>> =>
        /\ [Login!Next]_(Login!vars) /\ [Host!Next]_(Host!vars) /\ [Door!Next]_(Door!vars)
        /\ [Meter!Next]_(Meter!vars) /\ [Accts!Next]_(Accts!vars) /\ [Call!Next]_(Call!vars)
  BY <1>2 DEF loginVars, hostVars, doorVars, meterVars, acctVars, callVars, Login!vars,
     Host!vars, Door!vars, Meter!vars, Accts!vars, Call!vars, Call!world, Call!requests
<1> QED BY <1>1, <1>3, PTL DEF Spec, Login!Spec, Host!Spec, Door!Spec, Meter!Spec, Accts!Spec,
    Call!Spec
=============================================================================
