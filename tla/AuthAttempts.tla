---------------------------- MODULE AuthAttempts ----------------------------
(***************************************************************************)
(* One-time sign-in credentials: auth_attempts rows issued by e-mail and   *)
(* redeemed by link or by six-digit code, from concurrent requests.        *)
(*                                                                         *)
(* A Worker is one request and its transaction.  A statement with a WHERE  *)
(* clause is two steps under READ COMMITTED: it picks its rows from the    *)
(* rows committed so far, then waits for their locks and looks at their    *)
(* status again.  Rows are locked all at once; a session that already      *)
(* held some would only delay others.  What is answered to the client is   *)
(* kept apart from what is committed.                                      *)
(***************************************************************************)
EXTENDS Naturals, FiniteSets

CONSTANTS
    App, Worker,
    Email,        \* addresses as they are typed
    Lower,        \* Lower[e]: users are told apart by the lower-cased address
    Attempt,      \* rows that may be inserted
    Code,         \* codes generate_code(6) may return
    UsesCode,     \* apps whose verification_method is "code"
    MaxGuesses,   \* settings.max_code_attempts
    Routes,       \* bound: entry points that take codes, "json" or "hosted"
    Issuers,      \* bound: the workers that issue credentials
    Ops,          \* bound: operations of a run
    NoApp, NoEmail, NoCode, NoToken

IssueOps == {"signup", "signin", "admin", "dashboard"}
GuessOps == {"guess", "adminguess", "link"}

ASSUME AttemptsAssumption ==
    /\ UsesCode \subseteq App
    /\ Lower \in [Email -> Email]
    /\ \A e \in Email : Lower[Lower[e]] = Lower[e]
    /\ MaxGuesses \in Nat \ {0}
    /\ Routes \subseteq {"json", "hosted"}
    /\ Issuers \subseteq Worker
    /\ Ops \subseteq IssueOps \union GuessOps
    /\ NoApp \notin App /\ NoEmail \notin Email
    /\ NoCode \notin Code /\ NoToken \notin Attempt

VARIABLES
    attempt,   \* committed auth_attempts rows
    user,      \* committed users row of each app and lower-cased address
    expired,   \* attempts past their expires_at
    opened,    \* sessions (or admin tokens) each attempt has opened
    told,      \* wrong guesses answered about each attempt
    pc, req,   \* where each request is, and what it asks
    cand,      \* the rows its statement picked
    copy,      \* rows it has locked or inserted, as it flushed them
    born,      \* it has inserted the users row
    beside     \* attempts others issued since it picked those it replaces

committed == <<attempt, user, opened, told>>
session == <<pc, req, cand, copy, born, beside>>
vars == <<attempt, user, expired, opened, told, pc, req, cand, copy, born, beside>>

CodeTypes == {"signin", "verify_email"}
Types == CodeTypes \union {"admin_login"}

Row == [status: {"absent", "pending", "consumed", "revoked"},
        type: Types \union {"none"}, app: App \union {NoApp},
        email: Email \union {NoEmail}, code: Code \union {NoCode},
        guesses: 0..MaxGuesses]

NoAttempt == [status |-> "absent", type |-> "none", app |-> NoApp,
              email |-> NoEmail, code |-> NoCode, guesses |-> 0]

\* apps: the applications a credential is still to be issued for.
Request == [op: IssueOps \union GuessOps \union {"none"},
            app: App \union {NoApp}, apps: SUBSET App,
            email: Email \union {NoEmail}, type: Types \union {"none"},
            code: Code \union {NoCode}, token: Attempt \union {NoToken},
            route: {"json", "hosted", "none"}]

Ask(op, app, apps, email, type, code, token, route) ==
    [type |-> type, app |-> app, email |-> email, code |-> code,
     op |-> op, apps |-> apps, token |-> token, route |-> route]

NoRequest == Ask("none", NoApp, {}, NoEmail, "none", NoCode, NoToken, "none")

Doing(w, stage, ops) == pc[w] = stage /\ req[w].op \in ops

Init ==
    /\ attempt = [a \in Attempt |-> NoAttempt]
    /\ user = [p \in App |-> [e \in Email |-> "none"]]
    /\ expired = {}
    /\ opened = [a \in Attempt |-> 0]
    /\ told = [a \in Attempt |-> 0]
    /\ pc = [w \in Worker |-> "idle"]
    /\ req = [w \in Worker |-> NoRequest]
    /\ cand = [w \in Worker |-> {}]
    /\ copy = [w \in Worker |-> <<>>]
    /\ born = [w \in Worker |-> FALSE]
    /\ beside = [w \in Worker |-> {}]

-----------------------------------------------------------------------------
(* Requests.                                                               *)

Begin(w, r, stage) ==
    /\ pc[w] = "idle"
    /\ r.op \in Ops
    /\ r.op \in IssueOps => w \in Issuers
    /\ req' = [req EXCEPT ![w] = r]
    /\ pc' = [pc EXCEPT ![w] = stage]
    /\ UNCHANGED <<committed, expired, cand, copy, born, beside>>

\* An address that is already registered is sent a sign-in credential.
BeginSignup(w, p, e, c) ==
    IF user[p][Lower[e]] = "none"
      THEN Begin(w, Ask("signup", p, {p}, e, "verify_email", c, NoToken, "none"),
                 "user")
      ELSE Begin(w, Ask("signup", p, {p}, e, "signin", c, NoToken, "none"),
                 "issue")

BeginSignin(w, p, e, c) ==
    /\ user[p][Lower[e]] # "none"
    /\ Begin(w, Ask("signin", p, {p}, e, "signin", c, NoToken, "none"), "issue")

\* An owner's login code, for the lower-cased address: the same digits for every
\* application it owns.
BeginAdmin(w, e, c) ==
    Begin(w, Ask("admin", NoApp, App, Lower[e], "admin_login", c, NoToken, "none"),
          "issue")

\* The dashboard's login code, recorded against the owner's first application;
\* a cooldown keeps a second request of the address away.
BeginDashboard(w, p, e, c) ==
    /\ \A v \in Worker : ~(req[v].op = "dashboard" /\ req[v].email = Lower[e])
    /\ Begin(w, Ask("dashboard", NoApp, {p}, Lower[e], "admin_login", c, NoToken,
                    "none"), "issue")

BeginGuess(w, p, e, c, route) ==
    Begin(w, Ask("guess", p, {}, e, "none", c, NoToken, route), "pick")

\* The API ("json") and the dashboard ("hosted") take the same codes.
BeginAdminGuess(w, e, c, route) ==
    Begin(w, Ask("adminguess", NoApp, {}, Lower[e], "none", c, NoToken, route), "pick")

\* Links are mailed by applications that do not use codes, and are posted to
\* the JSON route.
BeginLink(w, p, a) ==
    /\ attempt[a].status # "absent"
    /\ attempt[a].code = NoCode
    /\ Begin(w, Ask("link", p, {}, NoEmail, "none", NoCode, a, "json"), "pick")

\* The unique index on (app_id, email_lower): wait for another insertion, and
\* fail (Abort) when the address has been registered meanwhile.
InsertUser(w) ==
    LET r == req[w]
    IN  /\ pc[w] = "user"
        /\ user[r.app][Lower[r.email]] = "none"
        /\ \A v \in Worker \ {w} :
              ~(born[v] /\ req[v].app = r.app /\ Lower[req[v].email] = Lower[r.email])
        /\ born' = [born EXCEPT ![w] = TRUE]
        /\ pc' = [pc EXCEPT ![w] = "issue"]
        /\ UNCHANGED <<committed, expired, req, cand, copy, beside>>

-----------------------------------------------------------------------------
(* Statements over several rows.                                           *)

Holds(w, a) == a \in DOMAIN copy[w]

\* (fault) the rows are read without FOR UPDATE.
RowsUnlocked(w) == TRUE

RowsFree(w) == \A v \in Worker \ {w} : \A a \in cand[w] : ~Holds(v, a)

\* (fault) the rows keep the status they had when they were picked.
LiveStale(w) == cand[w]

\* The picked rows that still satisfy the WHERE clause once they are locked.
Live(w) == {a \in cand[w] : attempt[a].status = "pending"}

\* The session's rows after it writes f(a) to each a of S.
Written(w, S, f(_)) ==
    [copy EXCEPT ![w] = [a \in DOMAIN @ \union S |-> IF a \in S THEN f(a) ELSE @[a]]]

Outstanding(p, e, type) ==
    {a \in Attempt : /\ attempt[a].status = "pending"
                     /\ attempt[a].app = p
                     /\ attempt[a].email = e
                     /\ attempt[a].type = type}

OwnerCodes(e) == UNION {Outstanding(p, e, "admin_login") : p \in App}

\* (fault) a pending attempt is only replaced once it has expired.
ReplacedExpired(r, p) == Outstanding(p, r.email, r.type) \intersect expired

\* (fault) the dashboard replaces the codes of one application only.
ReplacedOfApp(r, p) == Outstanding(p, r.email, r.type)

\* The attempts a new one of application p replaces: the address's live ones
\* of its type, and for the dashboard those of all applications.
Replaced(r, p) ==
    IF r.op = "dashboard" THEN OwnerCodes(r.email)
      ELSE Outstanding(p, r.email, r.type)

\* revoke_pending_attempts, once for each application.
IssuePick(w) ==
    \E p \in req[w].apps :
        /\ Doing(w, "issue", IssueOps)
        /\ req' = [req EXCEPT ![w].app = p, ![w].apps = @ \ {p}]
        /\ cand' = [cand EXCEPT ![w] = Replaced(req[w], p)]
        /\ pc' = [pc EXCEPT ![w] = "revoke"]
        /\ UNCHANGED <<committed, expired, copy, born, beside>>

IssueRevoke(w) ==
    LET Revoked(a) == [attempt[a] EXCEPT !.status = "revoked"]
    IN  /\ pc[w] = "revoke"
        /\ RowsFree(w)
        /\ copy' = Written(w, Live(w), Revoked)
        /\ cand' = [cand EXCEPT ![w] = {}]
        /\ pc' = [pc EXCEPT ![w] = "insert"]
        /\ UNCHANGED <<committed, expired, req, born, beside>>

\* create_auth_attempt; an owner's code goes on to the next application.
IssueInsert(w) ==
    LET r == req[w]
        Fresh(a) == [status |-> "pending", type |-> r.type, app |-> r.app,
                     email |-> r.email, guesses |-> 0,
                     code |-> IF r.type = "admin_login" \/ r.app \in UsesCode
                                THEN r.code ELSE NoCode]
    IN  /\ pc[w] = "insert"
        /\ \E a \in Attempt :
              /\ attempt[a].status = "absent"
              /\ \A v \in Worker : ~Holds(v, a)
              /\ copy' = Written(w, {a}, Fresh)
        /\ pc' = [pc EXCEPT ![w] = IF r.apps = {} THEN "done" ELSE "issue"]
        /\ UNCHANGED <<committed, expired, req, cand, born, beside>>

-----------------------------------------------------------------------------
(* Redeeming.                                                              *)

Pick(w, S) ==
    /\ cand' = [cand EXCEPT ![w] = S]
    /\ pc' = [pc EXCEPT ![w] = "check"]
    /\ UNCHANGED <<committed, expired, req, copy, born, beside>>

\* consume_auth_attempt_by_code
GuessPick(w) ==
    LET r == req[w]
    IN  /\ Doing(w, "pick", {"guess"})
        /\ Pick(w, UNION {Outstanding(r.app, r.email, t) : t \in CodeTypes}
                       \ expired)

\* consume_admin_login_code
AdminPick(w) ==
    /\ Doing(w, "pick", {"adminguess"})
    /\ Pick(w, OwnerCodes(req[w].email) \ expired)

\* consume_auth_attempt, by token hash.
LinkPick(w) ==
    LET r == req[w]
    IN  /\ Doing(w, "pick", {"link"})
        /\ Pick(w, {a \in {r.token} \ expired :
                       /\ attempt[a].status = "pending"
                       /\ attempt[a].app = r.app
                       /\ attempt[a].type \in CodeTypes})

Consumed(a) == [attempt[a] EXCEPT !.status = "consumed"]

\* A wrong guess counts, and the last allowed one revokes the attempt.
Missed(a) ==
    [attempt[a] EXCEPT
        !.guesses = @ + 1,
        !.status = IF attempt[a].guesses + 1 >= MaxGuesses THEN "revoked" ELSE @]

Right(w) == {a \in Live(w) : attempt[a].code # NoCode /\ attempt[a].code = req[w].code}

Finish(w, S, f(_), stage) ==
    /\ copy' = Written(w, S, f)
    /\ cand' = [cand EXCEPT ![w] = {}]
    /\ pc' = [pc EXCEPT ![w] = stage]
    /\ UNCHANGED <<committed, expired, req, born, beside>>

\* The first matching attempt is consumed and becomes a session.
GuessRight(w) ==
    /\ Doing(w, "check", {"guess"})
    /\ RowsFree(w)
    /\ \E a \in Right(w) : Finish(w, {a}, Consumed, "done")

\* (fault) only the first application's attempt is consumed.
AdminRightOne(w) ==
    /\ Doing(w, "check", {"adminguess"})
    /\ RowsFree(w)
    /\ \E a \in Right(w) : Finish(w, {a}, Consumed, "done")

\* A matching owner's code is consumed for every application at once.
AdminRight(w) ==
    /\ Doing(w, "check", {"adminguess"})
    /\ RowsFree(w)
    /\ Right(w) # {}
    /\ Finish(w, Right(w), Consumed, "done")

LinkRight(w) ==
    /\ Doing(w, "check", {"link"})
    /\ RowsFree(w)
    /\ Live(w) # {}
    /\ Finish(w, Live(w), Consumed, "done")

\* No attempt matches: every live code of the address counts the guess.
Wrong(w) ==
    /\ Doing(w, "check", GuessOps)
    /\ RowsFree(w)
    /\ IF req[w].op = "link" THEN Live(w) = {} ELSE Right(w) = {}
    /\ Finish(w, {a \in Live(w) : attempt[a].code # NoCode}, Missed, "refused")

-----------------------------------------------------------------------------
(* The end of a request.                                                   *)

EndSession(w) ==
    /\ pc' = [pc EXCEPT ![w] = "idle"]
    /\ req' = [req EXCEPT ![w] = NoRequest]
    /\ cand' = [cand EXCEPT ![w] = {}]
    /\ copy' = [copy EXCEPT ![w] = <<>>]
    /\ born' = [born EXCEPT ![w] = FALSE]
    /\ UNCHANGED expired

CountTold(w) ==
    told' = [a \in Attempt |-> told[a] + IF Holds(w, a) THEN 1 ELSE 0]

Opens(w) == {a \in DOMAIN copy[w] : copy[w][a].status = "consumed"}

\* _complete_attempt verifies the address in the same transaction.
UserAfter(w, p, e) ==
    IF \E a \in Opens(w) : /\ copy[w][a].type \in CodeTypes
                           /\ copy[w][a].app = p
                           /\ Lower[copy[w][a].email] = e
      THEN "verified"
      ELSE IF born[w] /\ req[w].app = p /\ Lower[req[w].email] = e
             THEN "unverified" ELSE user[p][e]

Inserted(w) == {a \in Attempt : Holds(w, a) /\ attempt[a].status = "absent"}

\* An issuing request from its first pick on: its statement no longer sees what
\* others commit.
Replacing(v) ==
    /\ req[v].op \in IssueOps
    /\ pc[v] \in {"revoke", "insert", "done"} \/ \E a \in Attempt : Holds(v, a)

\* The hosted pages and the dashboard answer a refusal with a page, so its
\* transaction commits.
Commit(w) ==
    /\ pc[w] = "done" \/ (pc[w] = "refused" /\ req[w].route = "hosted")
    /\ attempt' = [a \in Attempt |-> IF Holds(w, a) THEN copy[w][a] ELSE attempt[a]]
    /\ user' = [p \in App |-> [e \in Email |-> UserAfter(w, p, e)]]
    /\ opened' = [a \in Attempt |-> opened[a] + IF a \in Opens(w) THEN 1 ELSE 0]
    /\ IF pc[w] = "refused" THEN CountTold(w) ELSE UNCHANGED told
    /\ beside' = [v \in Worker |-> IF v = w THEN {}
                                    ELSE IF Replacing(v) THEN beside[v] \union Inserted(w)
                                    ELSE beside[v]]
    /\ EndSession(w)

Parts(w) == beside' = [beside EXCEPT ![w] = {}]

\* The JSON routes answer a refusal with an HTTPException: get_db rolls back.
Refuse(w) ==
    /\ pc[w] = "refused"
    /\ req[w].route = "json"
    /\ CountTold(w)
    /\ EndSession(w)
    /\ Parts(w)
    /\ UNCHANGED <<attempt, user, opened>>

\* Any other exception, deadlock or crash, before anything is answered.
Abort(w) ==
    /\ pc[w] # "idle"
    /\ EndSession(w)
    /\ Parts(w)
    /\ UNCHANGED committed

Expire(a) ==
    /\ attempt[a].status = "pending"
    /\ expired' = expired \union {a}
    /\ a \notin expired
    /\ UNCHANGED <<committed, session>>

-----------------------------------------------------------------------------
Start(w) ==
    \/ \E p \in App, e \in Email, c \in Code :
          \/ BeginSignup(w, p, e, c) \/ BeginSignin(w, p, e, c)
          \/ BeginDashboard(w, p, e, c)
          \/ \E route \in Routes : BeginGuess(w, p, e, c, route)
    \/ \E e \in Email, c \in Code :
          \/ BeginAdmin(w, e, c)
          \/ \E route \in Routes : BeginAdminGuess(w, e, c, route)
    \/ \E p \in App, a \in Attempt : BeginLink(w, p, a)

Advance(w) ==
    \/ InsertUser(w)
    \/ IssuePick(w) \/ IssueRevoke(w) \/ IssueInsert(w)
    \/ GuessPick(w) \/ AdminPick(w) \/ LinkPick(w)
    \/ GuessRight(w) \/ AdminRight(w) \/ LinkRight(w) \/ Wrong(w)

Next ==
    \/ \E w \in Worker :
          Start(w) \/ Advance(w) \/ Commit(w) \/ Refuse(w) \/ Abort(w)
    \/ \E a \in Attempt : Expire(a)

Spec == Init /\ [][Next]_vars

-----------------------------------------------------------------------------
\* Every variable has its type, and no counter passes its limit.
TypeOK ==
    /\ attempt \in [Attempt -> Row]
    /\ user \in [App -> [Email -> {"none", "unverified", "verified"}]]
    /\ expired \subseteq Attempt
    /\ opened \in [Attempt -> Nat] /\ told \in [Attempt -> Nat]
    /\ pc \in [Worker -> {"idle", "user", "issue", "revoke", "insert", "pick",
                          "check", "done", "refused"}]
    /\ req \in [Worker -> Request]
    /\ cand \in [Worker -> SUBSET Attempt]
    /\ \A w \in Worker : /\ DOMAIN copy[w] \subseteq Attempt
                         /\ \A a \in DOMAIN copy[w] : copy[w][a] \in Row
    /\ born \in [Worker -> BOOLEAN]
    /\ beside \in [Worker -> SUBSET Attempt]

\* An attempt opens at most one session, and exactly when it is consumed,
\* however many requests present its link or code at the same time.
SingleUse ==
    \A a \in Attempt : opened[a] = IF attempt[a].status = "consumed" THEN 1 ELSE 0

\* tokens.py: "each surviving attempt carries an attempt counter that revokes
\* it once max_code_attempts wrong guesses have been made against it", and
\* concurrent guesses cannot race past the counter.
GuessesBounded ==
    \A a \in Attempt :
        /\ told[a] <= MaxGuesses
        /\ told[a] = MaxGuesses => attempt[a].status # "pending"

Same(a, b) == /\ attempt[a].app = attempt[b].app
              /\ attempt[a].type = attempt[b].type
              /\ attempt[a].email = attempt[b].email

Pending(a) == attempt[a].status = "pending"

\* When an issued credential is committed, every other attempt of the address
\* and type that was committed before it picked those to replace is dead
\* (revoke_pending_attempts), whatever was guessed, redeemed, rolled back or
\* issued between that statement and the commit.  What it cannot have seen, an
\* attempt issued in between, is all that stays live; tokens.py says "only the newest
\* code is live", which overlapping requests refute (_issue_credential takes no
\* lock that they would share).
NewestReplaces ==
    [][\A w \in Worker :
         (/\ Doing(w, "done", IssueOps)
          /\ pc'[w] = "idle" /\ attempt' # attempt)
         => \A b \in Inserted(w) : \A a \in Attempt \ beside[w] :
               Pending(a)' /\ Same(a, b)' => a = b]_vars

\* An attempt is a one-time secret, whoever presents its link or code and
\* whoever replaces it meanwhile: it opens one session, at the commit that
\* consumes it, and a guess that lost a race neither revokes a consumed attempt
\* nor revives a revoked one (its status is looked at again under the lock).
As == [absent |-> "unissued", pending |-> "live", consumed |-> "used",
       revoked |-> "void"]

OneTime == INSTANCE OneTimeSecret
             WITH Secret <- Attempt, uses <- opened,
                  state <- [a \in Attempt |-> As[attempt[a].status]]

\* (the refinement stated above)
ImplementsOneTime == OneTime!Spec

\* An owner's code is spent for every application at once: when the log-in it
\* opened is committed, none of its attempts is still live
\* (consume_admin_login_code).
OwnerCodeSpent ==
    [][\A w \in Worker :
         (/\ Doing(w, "done", {"adminguess"})
          /\ pc'[w] = "idle" /\ opened' # opened)
         => \A a \in Attempt \ expired :
               (/\ attempt'[a].type = "admin_login"
                /\ attempt'[a].email = req[w].email
                /\ attempt'[a].code = req[w].code)
               => attempt'[a].status # "pending"]_vars

\* dashboard/auth.py: "Issuing a code revokes every code previously issued to
\* that address", also those the API issued for other applications.
NewestOwnerCode ==
    [][\A w \in Worker :
         (/\ Doing(w, "done", {"dashboard"})
          /\ pc'[w] = "idle" /\ attempt' # attempt)
         => Cardinality({a \in Attempt : /\ attempt'[a].status = "pending"
                                          /\ attempt'[a].type = "admin_login"
                                          /\ attempt'[a].email = req[w].email}) = 1]_vars

=============================================================================
