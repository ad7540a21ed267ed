-------------------------------- MODULE Access --------------------------------
(***************************************************************************)
(* How a request is admitted (dependencies.py): by a secret key, by an     *)
(* administrator's token, or by a session's token.  A Worker is one        *)
(* request; between its look-ups others log out, keys and applications go, *)
(* and accounts are paused.  Time is counted in seconds, as tokens do.     *)
(***************************************************************************)
EXTENDS Naturals, FiniteSets

CONSTANTS
    Worker, App,
    AdminToken, SessionToken,
    AppOf,         \* the application each token is for
    Lifetime,      \* seconds a token is good for
    MaxKey,        \* bound: signing keys an application has over time
    MaxTime,       \* bound: the clock
    MaxEvents,     \* bound: withdrawals, resumptions and key changes
    NoToken, NoApp,
    Secret         \* the secret key of an application, as a bearer credential

VARIABLES
    apps,          \* the applications that exist
    published,     \* numbers of each application's signing keys, newest signs
    paused,        \* applications whose tenant's account is paused
    claims,        \* the key each token is signed with, and its expiry
    ended,         \* session tokens whose session is revoked
    deny,          \* when the deny-list's entry of a token ends
    clock,
    events,        \* such changes so far
    pc, req,       \* where each request is, what it presents and what for
    via,           \* the credential and the application it is admitted by
    out,           \* tokens whose log-out has been answered
    good,          \* the tokens presented that were then in force
    paid           \* applications not paused at some time since then

world == <<apps, published, paused, claims, ended, clock, events>>
requests == <<deny, pc, req, via, out, good, paid>>
vars == <<world, requests>>

Newest(a) == CHOOSE k \in published[a] : \A j \in published[a] : j <= k

Token == AdminToken \union SessionToken
Unissued == [key |-> 0, exp |-> 0]

\* What a request needs: an administrator (require_secret_key), also to log
\* out; a secret key but no credit (require_billing_secret_key); a session
\* (require_session); or any of them (resolve_app_auth).  Left out are those
\* refused before the first look-up, and a log-out with a secret key (400); where only a
\* session will do, a cookie and a bearer token are the same.
Request ==
    [need: {"admin", "billing", "either"}, bearer: {Secret}, cookie: {NoToken}, site: App]
    \union [need: {"admin", "logout"}, bearer: Token, cookie: {NoToken}, site: {NoApp}]
    \union [need: {"user"}, bearer: Token, cookie: {NoToken}, site: App]
    \union [need: {"either"}, bearer: Token, cookie: Token \union {NoToken}, site: App]
NoRequest == [need |-> "none", bearer |-> NoToken, cookie |-> NoToken, site |-> NoApp]
Nobody == [token |-> NoToken, app |-> NoApp, role |-> "none"]

Init ==
    /\ apps = App /\ paused = {} /\ ended = {} /\ out = {} /\ clock = 0 /\ events = 0
    /\ published = [a \in App |-> {1}]
    /\ claims = [x \in Token |-> Unissued]
    /\ deny = [x \in Token |-> 0]
    /\ pc = [w \in Worker |-> "idle"]
    /\ req = [w \in Worker |-> NoRequest]
    /\ via = [w \in Worker |-> Nobody]
    /\ good = [w \in Worker |-> {}] /\ paid = [w \in Worker |-> {}]

\* What decoding accepts: audience, a published key's signature, and an expiry
\* that has not passed: a token is still good in the second it names.
Verifies(x, a) ==
    /\ AppOf[x] = a
    /\ claims[x].key \in published[a]
    /\ clock <= claims[x].exp

\* Nothing has withdrawn the token so far.
InForce(x) ==
    /\ AppOf[x] \in apps
    /\ Verifies(x, AppOf[x])
    /\ x \notin ended \union out

-----------------------------------------------------------------------------
(* Requests.                                                               *)

Go(w, stage) == pc' = [pc EXCEPT ![w] = stage]

Begin(w) ==
    /\ pc[w] = "idle"
    /\ \E r \in Request :
          /\ \A x \in {r.bearer, r.cookie} \intersect Token : claims[x] # Unissued
          /\ req' = [req EXCEPT ![w] = r]
          /\ good' = [good EXCEPT ![w] =
                {x \in {r.bearer, r.cookie} \intersect Token : InForce(x)}]
          /\ Go(w, CASE r.bearer = Secret -> "secret"
                     [] r.bearer \in Token /\ r.need # "user" -> "token"
                     [] OTHER -> "site")
    /\ paid' = [paid EXCEPT ![w] = App \ paused]
    /\ UNCHANGED <<world, deny, via, out>>

End(w) ==
    /\ Go(w, "idle")
    /\ req' = [req EXCEPT ![w] = NoRequest]
    /\ via' = [via EXCEPT ![w] = Nobody]
    /\ good' = [good EXCEPT ![w] = {}]
    /\ paid' = [paid EXCEPT ![w] = {}]

Refuse(w) == End(w) /\ UNCHANGED <<world, deny, out>>

Admit(w, x, a, role, stage) ==
    /\ Go(w, stage)
    /\ via' = [via EXCEPT ![w] = [token |-> x, app |-> a, role |-> role]]
    /\ UNCHANGED <<world, deny, req, out, good, paid>>

\* Not an administrator's token, or no longer: resolve_app_auth goes on to
\* look for a session.
NotAdmin(w) ==
    IF req[w].need = "either"
    THEN Go(w, "site") /\ UNCHANGED <<world, deny, req, via, out, good, paid>>
    ELSE Refuse(w)

CheckSecret(w) ==
    /\ pc[w] = "secret"
    /\ IF req[w].site \in apps
       THEN Admit(w, Secret, req[w].site, "admin",
                  IF req[w].need = "billing" THEN "served" ELSE "pause")
       ELSE Refuse(w)

\* The application is the one the unverified claims name.
CheckToken(w) ==
    LET x == req[w].bearer IN
    /\ pc[w] = "token"
    /\ IF x \in AdminToken /\ Verifies(x, AppOf[x])
       THEN Go(w, "denied") /\ UNCHANGED <<world, deny, req, via, out, good, paid>>
       ELSE NotAdmin(w)

\* (fault) an outage of Redis counts as no entry.
OutagePasses(w) ==
    LET x == req[w].bearer IN Admit(w, x, AppOf[x], "admin", "pause")

\* "A Redis outage must not silently widen access": 503.
Outage(w) == Refuse(w)

CheckDenied(w) ==
    LET x == req[w].bearer IN
    /\ pc[w] = "denied"
    /\ \/ Outage(w)
       \/ deny[x] > clock /\ NotAdmin(w)
       \/ deny[x] <= clock /\ Admit(w, x, AppOf[x], "admin", "pause")

\* resolve_application: by publishable key, or by a verified host name.
FindSite(w) ==
    /\ pc[w] = "site"
    /\ IF req[w].site \in apps
       THEN Admit(w, NoToken, req[w].site, "user", "pause")
       ELSE Refuse(w)

\* ensure_billing_active
CheckPaused(w) ==
    /\ pc[w] = "pause"
    /\ IF via[w].app \in paused THEN Refuse(w)
       ELSE /\ Go(w, IF via[w].role = "admin" THEN "served" ELSE "session")
            /\ UNCHANGED <<world, deny, req, via, out, good, paid>>

\* The cookie goes before the bearer token.
Shown(w) == IF req[w].cookie # NoToken THEN req[w].cookie ELSE req[w].bearer

CheckSession(w) ==
    LET x == Shown(w) IN
    /\ pc[w] = "session"
    /\ IF x \in SessionToken /\ Verifies(x, via[w].app)
       THEN Admit(w, x, via[w].app, "user", "active")
       ELSE Refuse(w)

\* is_session_active; a session goes with its application.
CheckActive(w) ==
    /\ pc[w] = "active"
    /\ IF via[w].token \notin ended /\ via[w].app \in apps
       THEN Go(w, "served") /\ UNCHANGED <<world, deny, req, via, out, good, paid>>
       ELSE Refuse(w)

\* admin_logout keeps the token's id on the deny-list for the whole seconds left
\* of it, at least one; the entry may end at the beginning of the last.
DenyUntil(x) == IF claims[x].exp > clock THEN claims[x].exp ELSE clock + 1

Serve(w) ==
    LET x == req[w].bearer IN
    /\ pc[w] = "served"
    /\ IF req[w].need = "logout"
       THEN /\ deny' = [deny EXCEPT ![x] = DenyUntil(x)]
            /\ out' = out \union {x}
       ELSE UNCHANGED <<deny, out>>
    /\ End(w)
    /\ UNCHANGED world

-----------------------------------------------------------------------------
(* What goes on meanwhile.                                                 *)

\* A log-in answers a token; a paused application opens no sessions.
Issue(x) ==
    /\ claims[x] = Unissued
    /\ AppOf[x] \in apps
    /\ x \in SessionToken => AppOf[x] \notin paused
    /\ claims' = [claims EXCEPT ![x] =
          [key |-> Newest(AppOf[x]), exp |-> clock + Lifetime]]
    /\ UNCHANGED <<apps, published, paused, ended, clock, events, requests>>

Event == events < MaxEvents /\ events' = events + 1

Revoke(x) ==
    /\ Event
    /\ x \in SessionToken \ ended /\ claims[x] # Unissued
    /\ ended' = ended \union {x}
    /\ UNCHANGED <<apps, published, paused, claims, clock, requests>>

KeysChange(a, keys) ==
    /\ Event
    /\ published' = [published EXCEPT ![a] = keys]
    /\ UNCHANGED <<apps, paused, claims, ended, clock, requests>>

Rotate(a) ==
    /\ a \in apps /\ Newest(a) < MaxKey
    /\ KeysChange(a, published[a] \union {Newest(a) + 1})
Drop(a) ==
    /\ a \in apps /\ published[a] # {Newest(a)}
    /\ KeysChange(a, {Newest(a)})

\* Keys, sessions and attempts go with their application.
DeleteApp(a) ==
    /\ Event
    /\ a \in apps
    /\ apps' = apps \ {a}
    /\ published' = [published EXCEPT ![a] = {}]
    /\ UNCHANGED <<paused, claims, ended, clock, requests>>

Pause(a) ==
    /\ Event
    /\ a \notin paused
    /\ paused' = paused \union {a}
    /\ UNCHANGED <<apps, published, claims, ended, clock, requests>>

Resume(a) ==
    /\ Event
    /\ a \in paused
    /\ paused' = paused \ {a}
    /\ paid' = [w \in Worker |-> IF pc[w] = "idle" THEN {} ELSE paid[w] \union {a}]
    /\ UNCHANGED <<apps, published, claims, ended, clock, deny, pc, req, via, out, good>>

Tick ==
    /\ clock < MaxTime
    /\ clock' = clock + 1
    /\ UNCHANGED <<apps, published, paused, claims, ended, events, requests>>

Next ==
    \/ \E w \in Worker :
          \/ Begin(w) \/ CheckSecret(w) \/ CheckToken(w) \/ CheckDenied(w)
          \/ FindSite(w) \/ CheckPaused(w) \/ CheckSession(w) \/ CheckActive(w)
          \/ Serve(w)
    \/ \E x \in Token : Revoke(x) \/ Issue(x)
    \/ \E a \in App : Rotate(a) \/ Drop(a) \/ DeleteApp(a) \/ Pause(a) \/ Resume(a)
    \/ Tick

Spec == Init /\ [][Next]_vars

-----------------------------------------------------------------------------
\* dependencies.py: "logout and revocation take effect immediately", "a token
\* can be withdrawn" (admin_auth.py), and a paused tenant is blocked: whoever
\* is served presented, for this application and in this role, a credential
\* that nothing had withdrawn when the request arrived, and has been solvent
\* since; what is withdrawn later may or may not be noticed.  In the last second
\* of a token its log-out may be forgotten: the entry ends within that second.
AdmittedInForce ==
    \A w \in Worker : pc[w] = "served" =>
        /\ via[w].token # Secret =>
              /\ \/ via[w].token \in good[w]
                 \/ via[w].token \in out /\ clock >= claims[via[w].token].exp
              /\ AppOf[via[w].token] = via[w].app
              /\ via[w].token \in (IF via[w].role = "admin" THEN AdminToken
                                    ELSE SessionToken)
        /\ req[w].need # "billing" => via[w].app \in paid[w]
=============================================================================
