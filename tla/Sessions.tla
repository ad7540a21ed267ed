------------------------------ MODULE Sessions ------------------------------
(***************************************************************************)
(* User sessions: opening them by password or by a single sign-on ticket,  *)
(* rotating the refresh token, log-out, and the password change that ends  *)
(* the sessions of a user.                                                 *)
(*                                                                         *)
(* A Worker is one request and its transaction.  row, password and         *)
(* outdated are committed; copy and passwd are what a request has flushed, *)
(* on rows it holds locked until it ends.  A ticket lives in Redis, which  *)
(* no rollback undoes.  All applications belong to one tenant.             *)
(***************************************************************************)
EXTENDS Naturals, FiniteSets

CONSTANTS
    App, User, Worker,
    Home,         \* the application each user is registered with
    Session,      \* sessions rows that may be inserted
    Token,        \* refresh tokens that may be generated
    Ticket,       \* single sign-on tokens that may be generated
    Outdated,     \* users whose password hash has outdated parameters
    MaxChanges,   \* bound: password changes of a user
    Ops,          \* bound: operations of a run
    NoApp, NoUser, NoSession, NoToken, NoTicket, NoGrant, Unwritten

AllOps == {"signin", "refresh", "logout", "change", "bridge", "exchange"}

ASSUME SessionsAssumption ==
    /\ Home \in [User -> App]
    /\ Outdated \subseteq User
    /\ MaxChanges \in Nat
    /\ Ops \subseteq AllOps
    /\ NoApp \notin App /\ NoUser \notin User
    /\ NoSession \notin Session /\ NoToken \notin Token /\ NoTicket \notin Ticket
    /\ Unwritten \notin Nat

VARIABLES
    row,        \* committed sessions rows
    expired,    \* sessions past their expires_at
    password,   \* the password in force, numbered by the change that set it
    outdated,   \* users whose hash is to be upgraded at the next sign-in
    sso,        \* what Redis holds for each ticket
    generated,  \* refresh tokens generated so far
    changes,    \* password changes committed for each user
    based,      \* changes the credential behind a session had seen
    redeemed,   \* successful answers to each refresh token
    opened,     \* sessions opened with each ticket
    pc, req,    \* where each request is, and what it is about
    cand,       \* the rows its statement picked
    copy,       \* the sessions rows it has flushed
    passwd      \* the users row it has flushed

world == <<expired, sso, generated>>
committed == <<row, password, outdated, changes, based, redeemed, opened>>
flushed == <<cand, copy, passwd>>
vars == <<row, expired, password, outdated, sso, generated, changes, based,
          redeemed, opened, pc, req, cand, copy, passwd>>

Row == [state: {"absent", "live", "revoked", "gone"}, app: App \union {NoApp},
        user: User \union {NoUser}, token: Token \union {NoToken}]

NoRow == [state |-> "absent", app |-> NoApp, user |-> NoUser, token |-> NoToken]

Grant == [user: User, source: App, target: App, based: Nat]

\* based and known are kept for the properties: what the request's credential
\* had seen, and the live sessions of the user when it began.
Request == [op: AllOps \union {"none"}, user: User \union {NoUser},
            app: App \union {NoApp}, session: Session \union {NoSession},
            token: Token \union {NoToken}, ticket: Ticket \union {NoTicket},
            password: Nat, based: Nat, known: SUBSET Session]

NoRequest == [op |-> "none", user |-> NoUser, app |-> NoApp,
              session |-> NoSession, token |-> NoToken, ticket |-> NoTicket,
              password |-> 0, based |-> 0, known |-> {}]

Init ==
    /\ row = [s \in Session |-> NoRow]
    /\ expired = {}
    /\ password = [u \in User |-> 0]
    /\ outdated = Outdated
    /\ sso = [k \in Ticket |-> NoGrant]
    /\ generated = {}
    /\ changes = [u \in User |-> 0]
    /\ based = [s \in Session |-> 0]
    /\ redeemed = [t \in Token |-> 0]
    /\ opened = [k \in Ticket |-> 0]
    /\ pc = [w \in Worker |-> "idle"]
    /\ req = [w \in Worker |-> NoRequest]
    /\ cand = [w \in Worker |-> {}]
    /\ copy = [w \in Worker |-> <<>>]
    /\ passwd = [w \in Worker |-> Unwritten]

-----------------------------------------------------------------------------
(* Requests.                                                               *)

Begin(w, r, stage) ==
    /\ pc[w] = "idle"
    /\ r.op \in Ops
    /\ req' = [req EXCEPT ![w] = r]
    /\ pc' = [pc EXCEPT ![w] = stage]
    /\ UNCHANGED <<committed, flushed>>

Active(s) == row[s].state = "live" /\ s \notin expired

LiveIn(u, p) == {s \in Session : /\ row[s].state = "live"
                                 /\ row[s].user = u
                                 /\ row[s].app = p}

\* The hash is read and verified here; it may change before the commit.
BeginSignin(w, u) ==
    /\ Begin(w, [NoRequest EXCEPT !.op = "signin", !.user = u, !.app = Home[u],
                    !.password = password[u], !.based = changes[u]],
             IF u \in outdated THEN "rehash" ELSE "open")
    /\ UNCHANGED world

\* refresh_session selects the session without locking it.
BeginRefresh(w, s) ==
    /\ Active(s)
    /\ Begin(w, [NoRequest EXCEPT !.op = "refresh", !.session = s,
                    !.token = row[s].token], "rotate")
    /\ UNCHANGED world

\* Log-out of the session presented, or revocation by a backend, which need
\* not present it.
BeginLogout(w, s) ==
    /\ row[s].state = "live"
    /\ Begin(w, [NoRequest EXCEPT !.op = "logout", !.session = s], "pick")
    /\ UNCHANGED world

\* set_user_password finds the user in the application of the session only.
\* The hosted page does not ask for the current password.
BeginChange(w, s) ==
    LET u == row[s].user
    IN  /\ Active(s)
        /\ row[s].app = Home[u]
        /\ changes[u] + Cardinality({v \in Worker : req[v].op = "change"}) < MaxChanges
        /\ Begin(w, [NoRequest EXCEPT !.op = "change", !.session = s, !.user = u,
                        !.app = Home[u], !.known = LiveIn(u, Home[u])], "write")
        /\ UNCHANGED world

BeginBridge(w, s, p) ==
    /\ Active(s)
    /\ Begin(w, [NoRequest EXCEPT !.op = "bridge", !.session = s, !.app = p,
                    !.user = row[s].user, !.based = based[s]], "mint")
    /\ UNCHANGED world

\* (fault) the ticket is read and left in Redis.
BeginExchangeKept(w, k, p) ==
    /\ sso[k] # NoGrant
    /\ sso[k].target = p /\ sso[k].source = Home[sso[k].user]
    /\ Begin(w, [NoRequest EXCEPT !.op = "exchange", !.ticket = k, !.app = p,
                    !.user = sso[k].user, !.based = sso[k].based], "open")
    /\ UNCHANGED world

\* GET and DEL in one MULTI; a ticket for another application is spent too, and
\* so is one minted away from home, whose user is not found.
BeginExchange(w, k, p) ==
    /\ sso[k] # NoGrant
    /\ sso' = [sso EXCEPT ![k] = NoGrant]
    /\ UNCHANGED <<expired, generated>>
    /\ IF sso[k].target = p /\ sso[k].source = Home[sso[k].user]
         THEN Begin(w, [NoRequest EXCEPT !.op = "exchange", !.ticket = k, !.app = p,
                           !.user = sso[k].user, !.based = sso[k].based], "open")
         ELSE /\ pc[w] = "idle" /\ "exchange" \in Ops
              /\ UNCHANGED <<committed, flushed, pc, req>>

-----------------------------------------------------------------------------
(* Steps of a request.                                                     *)

UserFree(w, u) ==
    \A v \in Worker \ {w} : passwd[v] = Unwritten \/ req[v].user # u

RowsFree(w, S) ==
    \A v \in Worker \ {w} : \A s \in S : s \notin DOMAIN copy[v]

Advance(w, stage) ==
    /\ pc' = [pc EXCEPT ![w] = stage]
    /\ UNCHANGED <<committed, req>>

\* The parameters have hardened: the password just verified is hashed again.
Rehash(w) ==
    /\ pc[w] = "rehash"
    /\ UserFree(w, req[w].user)
    /\ passwd' = [passwd EXCEPT ![w] = req[w].password]
    /\ Advance(w, "open")
    /\ UNCHANGED <<world, cand, copy>>

\* create_session
Open(w) ==
    LET r == req[w]
    IN  /\ pc[w] = "open"
        /\ \E s \in Session, t \in Token \ generated :
              /\ row[s].state = "absent"
              /\ \A v \in Worker : s \notin DOMAIN copy[v]
              /\ generated' = generated \union {t}
              /\ copy' = [copy EXCEPT ![w] = [x \in {s} |->
                    [state |-> "live", app |-> r.app, user |-> r.user, token |-> t]]]
        /\ Advance(w, "done")
        /\ UNCHANGED <<expired, sso, cand, passwd>>

\* (fault) the whole row goes back as it was selected.
RotatedWhole(s, t) == [row[s] EXCEPT !.token = t, !.state = "live"]

\* (fault) the old token stays good.
RotatedNot(s, t) == row[s]

\* The flush writes the columns that changed, into the row as it is now.
Rotated(s, t) == [row[s] EXCEPT !.token = t]

Rotate(w) ==
    LET s == req[w].session
    IN  /\ pc[w] = "rotate"
        /\ RowsFree(w, {s})
        /\ row[s].state # "gone"
        /\ \E t \in Token \ generated :
              /\ generated' = generated \union {t}
              /\ copy' = [copy EXCEPT ![w] = [x \in {s} |-> Rotated(x, t)]]
        /\ Advance(w, "done")
        /\ UNCHANGED <<expired, sso, cand, passwd>>

WritePassword(w) ==
    LET u == req[w].user
    IN  /\ pc[w] = "write"
        /\ UserFree(w, u)
        /\ passwd' = [passwd EXCEPT ![w] = changes[u] + 1]
        /\ Advance(w, "pick")
        /\ UNCHANGED <<world, cand, copy>>

\* (fault) only the session that asked is ended.
EndsMine(w) == {s \in {req[w].session} : row[s].state = "live"}

\* revoke_session: the one; revoke_user_sessions: all of the user in this
\* application.
Ends(w) ==
    IF req[w].op = "change" THEN LiveIn(req[w].user, req[w].app)
      ELSE {s \in {req[w].session} : row[s].state = "live"}

Pick(w) ==
    /\ pc[w] = "pick"
    /\ cand' = [cand EXCEPT ![w] = Ends(w)]
    /\ Advance(w, "revoke")
    /\ UNCHANGED <<world, copy, passwd>>

\* The update waits for the rows and ends those that are still live.
Revoke(w) ==
    LET live == {s \in cand[w] : row[s].state = "live"}
    IN  /\ pc[w] = "revoke"
        /\ RowsFree(w, cand[w])
        /\ copy' = [copy EXCEPT ![w] =
                      [s \in live |-> [row[s] EXCEPT !.state = "revoked"]]]
        /\ Advance(w, "done")
        /\ UNCHANGED <<world, cand, passwd>>

\* sso_bridge writes nothing but the ticket.
Mint(w) ==
    /\ pc[w] = "mint"
    /\ \E k \in Ticket :
          /\ sso[k] = NoGrant /\ opened[k] = 0
          /\ \A v \in Worker : req[v].ticket # k
          /\ sso' = [sso EXCEPT ![k] =
                [user |-> req[w].user, source |-> row[req[w].session].app,
                 target |-> req[w].app, based |-> req[w].based]]
    /\ Advance(w, "done")
    /\ UNCHANGED <<expired, generated, flushed>>

-----------------------------------------------------------------------------
(* The end of a request, and the world.                                    *)

EndRequest(w) ==
    /\ pc' = [pc EXCEPT ![w] = "idle"]
    /\ req' = [req EXCEPT ![w] = NoRequest]
    /\ cand' = [cand EXCEPT ![w] = {}]
    /\ copy' = [copy EXCEPT ![w] = <<>>]
    /\ passwd' = [passwd EXCEPT ![w] = Unwritten]
    /\ UNCHANGED world

Opens(w) == {s \in DOMAIN copy[w] : row[s].state = "absent"}

Commit(w) ==
    LET r == req[w]
        Wrote(u) == passwd[w] # Unwritten /\ r.user = u
    IN  /\ pc[w] = "done"
        /\ row' = [s \in Session |-> IF s \in DOMAIN copy[w] THEN copy[w][s] ELSE row[s]]
        /\ password' = [u \in User |-> IF Wrote(u) THEN passwd[w] ELSE password[u]]
        /\ outdated' = {u \in outdated : ~Wrote(u)}
        /\ changes' = [u \in User |->
              changes[u] + IF r.op = "change" /\ r.user = u THEN 1 ELSE 0]
        /\ based' = [s \in Session |-> IF s \in Opens(w) THEN r.based ELSE based[s]]
        /\ redeemed' = [t \in Token |->
              redeemed[t] + IF r.op = "refresh" /\ r.token = t THEN 1 ELSE 0]
        /\ opened' = [k \in Ticket |->
              opened[k] + IF r.ticket = k /\ Opens(w) # {} THEN 1 ELSE 0]
        /\ EndRequest(w)

\* An exception, or a crash.
Abort(w) ==
    /\ pc[w] # "idle"
    /\ EndRequest(w)
    /\ UNCHANGED committed

Others == <<committed, flushed, pc, req>>

SessionExpires(s) ==
    /\ row[s].state = "live"
    /\ s \notin expired
    /\ expired' = expired \union {s}
    /\ UNCHANGED <<sso, generated, Others>>

TicketExpires(k) ==
    /\ sso[k] # NoGrant
    /\ sso' = [sso EXCEPT ![k] = NoGrant]
    /\ UNCHANGED <<expired, generated, Others>>

\* run_cleanup, days after the row was last of use to a request.
Clean(s) ==
    /\ row[s].state = "revoked" \/ (row[s].state = "live" /\ s \in expired)
    /\ \A w \in Worker : s \notin DOMAIN copy[w] \union cand[w]
    /\ row' = [row EXCEPT ![s].state = "gone"]
    /\ UNCHANGED <<world, password, outdated, changes, based, redeemed, opened,
                   flushed, pc, req>>

-----------------------------------------------------------------------------
Next ==
    \/ \E w \in Worker :
          \/ \E u \in User : BeginSignin(w, u)
          \/ \E s \in Session : BeginRefresh(w, s) \/ BeginLogout(w, s) \/ BeginChange(w, s)
          \/ \E s \in Session, p \in App : BeginBridge(w, s, p)
          \/ \E k \in Ticket, p \in App : BeginExchange(w, k, p)
          \/ Rehash(w) \/ Open(w) \/ Rotate(w) \/ WritePassword(w)
          \/ Pick(w) \/ Revoke(w) \/ Mint(w)
          \/ Commit(w) \/ Abort(w)
    \/ \E s \in Session : SessionExpires(s) \/ Clean(s)
    \/ \E k \in Ticket : TicketExpires(k)

Spec == Init /\ [][Next]_vars

-----------------------------------------------------------------------------
\* Every variable has its type; a live session has a token.
TypeOK ==
    /\ row \in [Session -> Row]
    /\ \A s \in Session : row[s].state = "live" => row[s].token # NoToken
    /\ expired \subseteq Session /\ outdated \subseteq User
    /\ password \in [User -> 0..MaxChanges] /\ changes \in [User -> 0..MaxChanges]
    /\ sso \in [Ticket -> Grant \union {NoGrant}]
    /\ generated \subseteq Token
    /\ based \in [Session -> 0..MaxChanges]
    /\ redeemed \in [Token -> Nat] /\ opened \in [Ticket -> Nat]
    /\ pc \in [Worker -> {"idle", "rehash", "open", "rotate", "write", "pick",
                          "revoke", "mint", "done"}]
    /\ req \in [Worker -> Request]
    /\ cand \in [Worker -> SUBSET Session]
    /\ \A w \in Worker : /\ DOMAIN copy[w] \subseteq Session
                         /\ \A s \in DOMAIN copy[w] : copy[w][s] \in Row
    /\ passwd \in [Worker -> 0..MaxChanges \union {Unwritten}]

\* A revoked session is never usable again, whatever refresh was under way
\* (refresh_session selects it without a lock and writes it later).
RevokedIsFinal ==
    [][\A s \in Session : row[s].state \in {"revoked", "gone"}
                             => row'[s].state \in {"revoked", "gone"}]_vars

\* sessions.py: "a captured refresh token stops working as soon as the
\* legitimate holder uses theirs": a token that was redeemed is never again
\* the one a session accepts.
RedeemedIsDead ==
    \A s \in Session : row[s].state = "live" => redeemed[row[s].token] = 0

\* A single sign-on ticket opens at most one session (sso_exchange deletes the
\* ticket as it reads it).
TicketOpensOne == \A k \in Ticket : opened[k] <= 1

Changes(w) ==
    req[w].op = "change" /\ pc[w] = "done" /\ pc'[w] = "idle" /\ changes' # changes

\* api/frontend/passwords.py: "every other device is signed out": when a
\* password change is committed, none of the other sessions the user had in
\* the application when it began is live, although they may be refreshed or
\* logged out meanwhile (set_password, revoke_user_sessions).
ChangeEndsOthers ==
    [][\A w \in Worker : Changes(w) =>
          \A s \in req[w].known \ {req[w].session} : row'[s].state # "live"]_vars

\* The password in force is the one the last change set: a sign-in that
\* upgrades the hash of the old password does not put it back.
LastPasswordHolds == \A u \in User : password[u] = changes[u]

=============================================================================
