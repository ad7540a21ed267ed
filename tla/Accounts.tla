------------------------------ MODULE Accounts -------------------------------
(***************************************************************************)
(* Google and Apple sign-in of one application: the flow kept in Redis,    *)
(* the browser's cookie, and the callback that finds, links or creates the *)
(* local user.  A Worker is one request and its transaction.  The provider *)
(* is external: a person grants a flow one of its accounts, and the ID     *)
(* token the code is exchanged for carries any address, verified or not.   *)
(***************************************************************************)
EXTENDS Naturals, FiniteSets, Sequences

CONSTANTS
    Worker, Browser,
    Flow,          \* nonces of the flows that may be begun
    Provider,
    Sub,           \* provider accounts (the claim sub)
    ProviderOf,    \* the provider of each account
    Address,
    MaxUsers,      \* bound: users rows
    NoBrowser, NoFlow, NoProvider, NoSub, NoAddress

VARIABLES
    configured,    \* providers in settings_json of the applications row
    flow,          \* oauth_state:<nonce> records
    cookie,        \* the flow whose secret each browser holds
    grant,         \* the account granted to each flow
    user,          \* committed users rows
    proven,        \* users whose address a mailed code or link has verified
    identity,      \* committed oauth_identities rows
    opened,        \* sessions opened by callbacks, in order
    pc, req        \* where each request is, and what it carries

rows == <<user, proven, identity, opened>>
flows == <<flow, cookie, grant>>
vars == <<configured, flow, cookie, grant, user, proven, identity, opened, pc, req>>

UserId == 1..MaxUsers

Record == [status: {"unasked", "open", "gone"}, browser: Browser \union {NoBrowser},
           provider: Provider \union {NoProvider}]

\* password: set at registration ("first") or by somebody in a session.
Row == [origin: {"none", "registered", "callback"}, address: Address \union {NoAddress},
        verified: BOOLEAN, password: {"none", "first", "later"}]
NoRow == [origin |-> "none", address |-> NoAddress, verified |-> FALSE,
          password |-> "none"]

\* user: the row the callback works on; made: the row it has inserted; bound:
\* it has inserted an identity; providers: what a configuration writes back.
Request == [flow: Flow \union {NoFlow}, browser: Browser \union {NoBrowser},
            sub: Sub \union {NoSub}, address: Address \union {NoAddress},
            asserted: BOOLEAN, user: 0..MaxUsers, made: 0..MaxUsers, bound: BOOLEAN,
            providers: SUBSET Provider]
NoRequest == [flow |-> NoFlow, browser |-> NoBrowser, sub |-> NoSub,
              address |-> NoAddress, asserted |-> FALSE, user |-> 0,
              made |-> 0, bound |-> FALSE, providers |-> {}]

Init ==
    /\ configured = {}
    /\ flow = [f \in Flow |-> [status |-> "unasked", browser |-> NoBrowser,
                               provider |-> NoProvider]]
    /\ cookie = [b \in Browser |-> NoFlow]
    /\ grant = [f \in Flow |-> NoSub]
    /\ user = [u \in UserId |-> NoRow]
    /\ proven = {} /\ identity = {} /\ opened = <<>>
    /\ pc = [w \in Worker |-> "idle"]
    /\ req = [w \in Worker |-> NoRequest]

Go(w, stage) == pc' = [pc EXCEPT ![w] = stage]
Finish(w) == Go(w, "idle") /\ req' = [req EXCEPT ![w] = NoRequest]

-----------------------------------------------------------------------------
(* Configuration: settings_json is read with the application, changed and  *)
(* written back whole.                                                     *)

BeginConfigure(w, p) ==
    /\ pc[w] = "idle"
    /\ req' = [req EXCEPT ![w].providers = configured \union {p}]
    /\ Go(w, "configure")
    /\ UNCHANGED <<configured, flows, rows>>

BeginRemove(w, p) ==
    /\ pc[w] = "idle"
    /\ p \in configured
    /\ req' = [req EXCEPT ![w].providers = configured \ {p}]
    /\ Go(w, "configure")
    /\ UNCHANGED <<configured, flows, rows>>

CommitConfigure(w) ==
    /\ pc[w] = "configure"
    /\ configured' = req[w].providers
    /\ Finish(w)
    /\ UNCHANGED <<flows, rows>>

-----------------------------------------------------------------------------
(* A flow, from the authorization URL to the callback.                     *)

\* get_authorization_url; the browser's cookie is overwritten.
Authorize(b, f, p) ==
    /\ flow[f].status = "unasked"
    /\ p \in configured
    /\ flow' = [flow EXCEPT ![f] = [status |-> "open", browser |-> b, provider |-> p]]
    /\ cookie' = [cookie EXCEPT ![b] = f]
    /\ UNCHANGED <<configured, grant, rows, pc, req>>

\* Somebody signs in at the provider: a code bound to the flow by PKCE.
Grant(f, sub) ==
    /\ flow[f].status # "unasked" /\ grant[f] = NoSub
    /\ ProviderOf[sub] = flow[f].provider
    /\ grant' = [grant EXCEPT ![f] = sub]
    /\ UNCHANGED <<configured, flow, cookie, rows, pc, req>>

\* (fault) the record is read and left to expire.
StateKept(f) == "open"

\* consume_state: GET and DEL in one transaction, before anything is checked.
ConsumedState(f) == "gone"

\* The provider exchanges a code for the verifier of the flow it was granted
\* to, and its ID token carries that flow's nonce.
Redeems(f, c) == c = f

\* The browser holds the flow's secret, the provider is still configured, and
\* the code is good.
Accepted(b, f, c) ==
    /\ cookie[b] = f
    /\ flow[f].provider \in configured
    /\ Redeems(f, c)

\* A callback with the code of flow c; the token exchange is external, and
\* what it returns is settled here.
Callback(w, b, f, c, address, asserted) ==
    /\ pc[w] = "idle"
    /\ flow[f].status = "open" /\ grant[c] # NoSub
    /\ address = NoAddress => ~asserted
    /\ flow' = [flow EXCEPT ![f].status = ConsumedState(f)]
    /\ IF Accepted(b, f, c)
         THEN /\ req' = [req EXCEPT ![w] = [NoRequest EXCEPT
                   !.flow = f, !.browser = b, !.sub = grant[c],
                   !.address = address, !.asserted = asserted]]
              /\ Go(w, "find")
              /\ UNCHANGED cookie
         ELSE cookie' = [cookie EXCEPT ![b] = NoFlow] /\ UNCHANGED <<pc, req>>
    /\ UNCHANGED <<configured, grant, rows>>

\* The provider reports an error: the record goes whoever brings it.
ProviderError(b, f) ==
    /\ flow[f].status = "open"
    /\ flow' = [flow EXCEPT ![f].status = "gone"]
    /\ cookie' = [cookie EXCEPT ![b] = NoFlow]
    /\ UNCHANGED <<configured, grant, rows, pc, req>>

StateExpires(f) ==
    /\ flow[f].status = "open"
    /\ flow' = [flow EXCEPT ![f].status = "gone"]
    /\ UNCHANGED <<configured, cookie, grant, rows, pc, req>>

-----------------------------------------------------------------------------
(* _find_or_create_user: one statement, one step.                          *)

UsersOf(sub) == {u \in UserId : <<sub, u>> \in identity}
Registered(address) == {u \in UserId : user[u].address = address}

Unused == {u \in UserId : user[u] = NoRow /\ \A w \in Worker : req[w].made # u}

Find(w) ==
    /\ pc[w] = "find"
    /\ IF UsersOf(req[w].sub) # {}
         THEN /\ \E u \in UsersOf(req[w].sub) : req' = [req EXCEPT ![w].user = u]
              /\ Go(w, "enter")
         ELSE /\ Go(w, IF req[w].address = NoAddress THEN "create" ELSE "match")
              /\ UNCHANGED req
    /\ UNCHANGED <<configured, flows, rows>>

\* (fault) the password of an unverified user is not looked at.
MayLinkAny(w, u) == req[w].asserted

\* The provider vouches for the address, and nobody waits behind an unverified
\* password.
MayLink(w, u) ==
    /\ req[w].asserted
    /\ user[u].verified \/ user[u].password = "none"

Match(w) ==
    /\ pc[w] = "match"
    /\ IF Registered(req[w].address) = {}
         THEN Go(w, "create") /\ UNCHANGED <<cookie, req>>
         ELSE \E u \in Registered(req[w].address) :
                IF MayLink(w, u)
                  THEN /\ req' = [req EXCEPT ![w].user = u]
                       /\ Go(w, "bind")
                       /\ UNCHANGED cookie
                  ELSE /\ cookie' = [cookie EXCEPT ![req[w].browser] = NoFlow]
                       /\ Finish(w)
    /\ UNCHANGED <<configured, flow, grant, rows>>

\* The unique index on (app_id, email_lower): wait for another insertion, and
\* fail (Abort) when the address has been registered meanwhile.
AddressFree(address) ==
    address # NoAddress =>
        /\ Registered(address) = {}
        /\ \A w \in Worker : ~(req[w].made # 0 /\ req[w].address = address)

CreateUser(w) ==
    /\ pc[w] = "create"
    /\ AddressFree(req[w].address)
    /\ \E u \in Unused :
          /\ \A v \in Unused : u <= v
          /\ req' = [req EXCEPT ![w].user = u, ![w].made = u]
    /\ Go(w, "bind")
    /\ UNCHANGED <<configured, flows, rows>>

\* (fault) only the failed statement is rolled back.
RolledBackToSavepoint(w) == req[w]

\* db.rollback(): the whole transaction, a user it created included.
RolledBack(w) == [req[w] EXCEPT !.user = 0, !.made = 0]

\* (fault) nothing makes the provider account unique.
NoConstraint(w) == TRUE

\* uq_oauth_identity_app_provider_sub
SubFree(w) == UsersOf(req[w].sub) = {}

\* The unique index again, with a second chance: another insertion is waited
\* for, and when it has won its user is read.
Bind(w) ==
    /\ pc[w] = "bind"
    /\ \A v \in Worker \ {w} : req[v].bound => req[v].sub # req[w].sub
    /\ IF SubFree(w)
         THEN req' = [req EXCEPT ![w].bound = TRUE] /\ Go(w, "enter")
         ELSE req' = [req EXCEPT ![w] = RolledBack(w)] /\ Go(w, "reread")
    /\ UNCHANGED <<configured, flows, rows>>

Reread(w) ==
    /\ pc[w] = "reread"
    /\ \E u \in UsersOf(req[w].sub) : req' = [req EXCEPT ![w].user = u]
    /\ Go(w, "enter")
    /\ UNCHANGED <<configured, flows, rows>>

\* The row as the transaction leaves it: new, or verified by being linked.
RowAfter(w, u) ==
    LET r == req[w]
    IN  IF u = r.made
          THEN [NoRow EXCEPT !.origin = "callback", !.address = r.address,
                             !.verified = r.asserted]
          ELSE IF r.bound /\ u = r.user THEN [user[u] EXCEPT !.verified = TRUE]
          ELSE user[u]

\* The session, and the commit.
Enter(w) ==
    LET r == req[w]
    IN  /\ pc[w] = "enter"
        /\ opened' = Append(opened, [flow |-> r.flow, browser |-> r.browser,
                                     sub |-> r.sub, user |-> r.user])
        /\ user' = [u \in UserId |-> RowAfter(w, u)]
        /\ identity' = identity \union (IF r.bound THEN {<<r.sub, r.user>>} ELSE {})
        /\ cookie' = [cookie EXCEPT ![r.browser] = NoFlow]
        /\ Finish(w)
        /\ UNCHANGED <<configured, flow, grant, proven>>

\* Any exception: a lost connection, a registered address, the provider.
Abort(w) ==
    /\ pc[w] # "idle"
    /\ Finish(w)
    /\ UNCHANGED <<configured, flows, rows>>

-----------------------------------------------------------------------------
(* Users that come another way.                                            *)

\* Sign-up and the users API: the address unused, the password optional.
Register(address, password) ==
    /\ AddressFree(address)
    /\ \E u \in Unused :
          /\ \A v \in Unused : u <= v
          /\ user' = [user EXCEPT ![u] =
               [origin |-> "registered", address |-> address, verified |-> FALSE,
                password |-> password]]
    /\ UNCHANGED <<configured, flows, proven, identity, opened, pc, req>>

\* _complete_attempt: a code or link mailed to the address is redeemed.
VerifyEmail(u) ==
    /\ user[u].address # NoAddress
    /\ user' = [user EXCEPT ![u].verified = TRUE]
    /\ proven' = proven \union {u}
    /\ UNCHANGED <<configured, flows, identity, opened, pc, req>>

\* set_password, from any session of the user.
SetPassword(u) ==
    /\ u \in proven \/ \E i \in DOMAIN opened : opened[i].user = u
    /\ user' = [user EXCEPT ![u].password = "later"]
    /\ UNCHANGED <<configured, flows, proven, identity, opened, pc, req>>

Next ==
    \/ \E w \in Worker :
          \/ \E p \in Provider : BeginConfigure(w, p) \/ BeginRemove(w, p)
          \/ CommitConfigure(w)
          \/ \E b \in Browser, f, c \in Flow, a \in Address \union {NoAddress},
                asserted \in BOOLEAN : Callback(w, b, f, c, a, asserted)
          \/ Find(w) \/ Match(w) \/ CreateUser(w) \/ Bind(w) \/ Reread(w)
          \/ Enter(w) \/ Abort(w)
    \/ \E f \in Flow :
          \/ \E b \in Browser : \/ \E p \in Provider : Authorize(b, f, p)
                                \/ ProviderError(b, f)
          \/ \E sub \in Sub : Grant(f, sub)
          \/ StateExpires(f)
    \/ \E a \in Address, password \in {"none", "first"} : Register(a, password)
    \/ \E u \in UserId : VerifyEmail(u) \/ SetPassword(u)

Spec == Init /\ [][Next]_vars

-----------------------------------------------------------------------------
\* Every variable has its type.
TypeOK ==
    /\ configured \subseteq Provider
    /\ flow \in [Flow -> Record] /\ cookie \in [Browser -> Flow \union {NoFlow}]
    /\ grant \in [Flow -> Sub \union {NoSub}]
    /\ user \in [UserId -> Row] /\ proven \subseteq UserId
    /\ identity \subseteq Sub \X UserId
    /\ \A i \in DOMAIN opened :
          opened[i] \in [flow: Flow, browser: Browser, sub: Sub, user: UserId]
    /\ pc \in [Worker -> {"idle", "configure", "find", "match", "create", "bind",
                          "reread", "enter"}]
    /\ req \in [Worker -> Request]

\* oauth.py finds "the user for an OAuth identity": whatever addresses a
\* provider account asserts later, and whichever callbacks overlap, it enters
\* one local user.
SameAccount ==
    \A i, j \in DOMAIN opened :
        opened[i].sub = opened[j].sub => opened[i].user = opened[j].user

\* A callback that loses the race for the identity rolls its transaction back
\* before it reads the winner's: the user it had created does not stay behind
\* without an identity.
NothingHalfMade ==
    \A u \in UserId : user[u].origin = "callback" => \E sub \in Sub : <<sub, u>> \in identity

\* oauth.py: "The state cookie binds the callback to the browser that began
\* it", PKCE "binds the authorization code": a flow opens at most one session,
\* in its own browser, for the account that was granted to it.
FlowOnce ==
    \A i \in DOMAIN opened :
        /\ flow[opened[i].flow].browser = opened[i].browser
        /\ grant[opened[i].flow] = opened[i].sub
        /\ \A j \in DOMAIN opened : opened[i].flow = opened[j].flow => i = j

\* oauth.py: "registering an unverified password account for someone else's
\* address" does not capture their sign-in: a provider account is joined to a
\* user registered with a password only after the address was verified here.
PasswordProved ==
    \A u \in UserId :
        user[u].password = "first" /\ (\E sub \in Sub : <<sub, u>> \in identity)
            => u \in proven
=============================================================================
