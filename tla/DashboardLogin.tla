--------------------------- MODULE DashboardLogin ---------------------------
(***************************************************************************)
(* The dashboard's log-in of a superadministrator: the code, its counter,  *)
(* the cooldown and the sessions are keys in Redis, each command of which  *)
(* is atomic and nothing more: a guess reads the code with one command and *)
(* writes it back with another.  A request the rate limits refuse ends     *)
(* before it touches any of this, and is left out.                         *)
(*                                                                         *)
(* One address.  A code is the number of its issue; 0 is a wrong guess.    *)
(* A code is contested when another guess, a new issue or its expiry falls *)
(* between the two commands of a guess.                                    *)
(***************************************************************************)
EXTENDS Naturals

CONSTANTS
    Worker,
    Session,       \* session ids, each with a CSRF token of its own
    MaxGuesses,    \* settings.max_code_attempts
    MaxIssues      \* bound: codes sent

VARIABLES
    key,           \* dash:code:<address>
    cooldown,      \* dash:cooldown:<address> exists
    session,       \* dash:session:<id> that exist
    owns,          \* the address owns an application
    issued,        \* codes stored so far
    told, opened,  \* of each code: wrong guesses answered, sessions opened
    contested,     \* codes whose use another step has crossed
    pc, guess, seen  \* of each request: its next command, its code, what it read

redis == <<key, cooldown, session>>
ghosts == <<told, opened, contested>>
vars == <<key, cooldown, session, owns, issued, told, opened, contested,
          pc, guess, seen>>

Codes == 1..MaxIssues
NoEntry == [code |-> 0, attempts |-> 0, ttl |-> FALSE]
Key == [code: 0..MaxIssues, attempts: 0..MaxGuesses, ttl: BOOLEAN]

Init ==
    /\ key = NoEntry /\ cooldown = FALSE
    /\ session = {} /\ owns = FALSE /\ issued = 0
    /\ told = [c \in Codes |-> 0] /\ opened = [c \in Codes |-> 0]
    /\ contested = {}
    /\ pc = [w \in Worker |-> "idle"]
    /\ guess = [w \in Worker |-> 0]
    /\ seen = [w \in Worker |-> NoEntry]

Go(w, stage) == pc' = [pc EXCEPT ![w] = stage]
Finish(w) ==
    /\ Go(w, "idle")
    /\ guess' = [guess EXCEPT ![w] = 0]
    /\ seen' = [seen EXCEPT ![w] = NoEntry]

\* The guesses other than w's that have read a code and not acted on it yet.
Reading(w) == {v \in Worker \ {w} : pc[v] = "decide"}

\* A command of w, on code c or on none (0), crosses those guesses.
Crosses(w, c) ==
    contested' = IF Reading(w) = {} THEN contested
                   ELSE contested \union ({c} \ {0})
                          \union {seen[v].code : v \in Reading(w)}

\* What becomes of a contested code is not counted.
Counted(f, c) == IF c \in contested THEN f ELSE [f EXCEPT ![c] = @ + 1]

-----------------------------------------------------------------------------
(* Issuing a code: login.                                                  *)

\* SET NX EX: within the cooldown a request is answered and changes nothing.
BeginLogin(w) ==
    /\ pc[w] = "idle"
    /\ ~cooldown
    /\ cooldown' = TRUE
    /\ Go(w, "revoke")
    /\ UNCHANGED <<key, session, owns, issued, ghosts, guess, seen>>

\* _revoke_pending_codes.  The code of an address that owns an application is
\* a row of auth_attempts (see AuthAttempts): nothing is stored here for it.
RevokeCode(w) ==
    /\ pc[w] = "revoke"
    /\ key' = NoEntry
    /\ Crosses(w, 0)
    /\ IF owns THEN Finish(w)
               ELSE Go(w, "store") /\ UNCHANGED <<guess, seen>>
    /\ UNCHANGED <<cooldown, session, owns, issued, told, opened>>

\* _store_admin_code, SETEX.
StoreCode(w) ==
    /\ pc[w] = "store"
    /\ issued < MaxIssues
    /\ issued' = issued + 1
    /\ key' = [code |-> issued + 1, attempts |-> 0, ttl |-> TRUE]
    /\ Crosses(w, issued + 1)
    /\ Finish(w)
    /\ UNCHANGED <<cooldown, session, owns, told, opened>>

-----------------------------------------------------------------------------
(* Redeeming it: login_verify and _consume_admin_code.                     *)

\* GET; without a code the answer is the same and nothing has changed.
BeginVerify(w, g) ==
    /\ pc[w] = "idle"
    /\ key.code # 0
    /\ seen' = [seen EXCEPT ![w] = key]
    /\ guess' = [guess EXCEPT ![w] = g]
    /\ Go(w, "decide")
    /\ Crosses(w, key.code)
    /\ UNCHANGED <<redis, owns, issued, told, opened>>

\* The guess after the last allowed one deletes the code unread.
Spent(w) == seen[w].attempts + 1 > MaxGuesses

BurnCode(w) ==
    /\ pc[w] = "decide"
    /\ Spent(w)
    /\ key' = NoEntry
    /\ Crosses(w, 0)
    /\ Finish(w)
    /\ UNCHANGED <<cooldown, session, owns, issued, told, opened>>

AcceptCode(w) ==
    LET c == seen[w].code
    IN  /\ pc[w] = "decide"
        /\ ~Spent(w) /\ guess[w] = c
        /\ key' = NoEntry
        /\ opened' = Counted(opened, c)
        /\ Crosses(w, c)
        /\ Go(w, "enter")
        /\ UNCHANGED <<cooldown, session, owns, issued, told, guess, seen>>

\* (fault) the raised counter is written without KEEPTTL.
Recounted(w) == [seen[w] EXCEPT !.attempts = @ + 1, !.ttl = FALSE]

\* SET KEEPTTL writes the whole record that was read: a key that has gone in
\* the meantime is created anew, without an expiry.
CountedKey(w) == [seen[w] EXCEPT !.attempts = @ + 1, !.ttl = key.ttl]

RejectCode(w) ==
    LET c == seen[w].code
    IN  /\ pc[w] = "decide"
        /\ ~Spent(w) /\ guess[w] # c
        /\ key' = CountedKey(w)
        /\ told' = Counted(told, c)
        /\ Crosses(w, c)
        /\ Finish(w)
        /\ UNCHANGED <<cooldown, session, owns, issued, opened>>

\* create_dashboard_session.
Enter(w, s) ==
    /\ pc[w] = "enter"
    /\ s \notin session
    /\ session' = session \union {s}
    /\ Finish(w)
    /\ UNCHANGED <<key, cooldown, owns, issued, ghosts>>

\* logout behind require_dashboard_auth: the cookie's session exists, and the
\* CSRF token submitted (t names the session it was made for) is its own.
Logout(s, t) ==
    /\ s \in session
    /\ t = s
    /\ session' = session \ {s}
    /\ UNCHANGED <<key, cooldown, owns, issued, ghosts, pc, guess, seen>>

-----------------------------------------------------------------------------
(* Time, failures, and the rest of the system.                             *)

CodeExpires ==
    /\ key.ttl
    /\ key' = NoEntry
    /\ contested' = contested \union
                      {seen[v].code : v \in {u \in Worker : pc[u] = "decide"}}
    /\ UNCHANGED <<cooldown, session, owns, issued, told, opened, pc, guess, seen>>

CooldownExpires ==
    /\ cooldown
    /\ cooldown' = FALSE
    /\ UNCHANGED <<key, session, owns, issued, ghosts, pc, guess, seen>>

SessionExpires(s) ==
    /\ s \in session
    /\ session' = session \ {s}
    /\ UNCHANGED <<key, cooldown, owns, issued, ghosts, pc, guess, seen>>

\* An application is created for the address, or deleted.
OwnsChanges ==
    /\ owns' = ~owns
    /\ UNCHANGED <<redis, issued, ghosts, pc, guess, seen>>

\* Redis is lost, or the process dies: what was written stays written.
Fail(w) ==
    /\ pc[w] # "idle"
    /\ Finish(w)
    /\ UNCHANGED <<redis, owns, issued, ghosts>>

Next ==
    \/ \E w \in Worker :
          \/ BeginLogin(w) \/ RevokeCode(w) \/ StoreCode(w)
          \/ \E g \in 0..issued : BeginVerify(w, g)
          \/ BurnCode(w) \/ AcceptCode(w) \/ RejectCode(w)
          \/ \E s \in Session : Enter(w, s)
          \/ Fail(w)
    \/ \E s \in Session : SessionExpires(s) \/ \E t \in Session : Logout(s, t)
    \/ CodeExpires \/ CooldownExpires \/ OwnsChanges

Spec == Init /\ [][Next]_vars

-----------------------------------------------------------------------------
\* Every variable has its type.
TypeOK ==
    /\ key \in Key /\ cooldown \in BOOLEAN /\ owns \in BOOLEAN
    /\ session \subseteq Session /\ issued \in 0..MaxIssues
    /\ told \in [Codes -> Nat] /\ opened \in [Codes -> Nat]
    /\ contested \subseteq Codes
    /\ pc \in [Worker -> {"idle", "revoke", "store", "decide", "enter"}]
    /\ guess \in [Worker -> 0..MaxIssues] /\ seen \in [Worker -> Key]

\* auth.py: the "attempt counter [...] burns the code after
\* settings.max_code_attempts wrong guesses" and "Issuing a code revokes every
\* code previously issued to that address": a code whose guesses nothing has
\* crossed opens one session, is compared with at most MaxGuesses wrong
\* guesses, and while it is stored it is the newest, unused, counted, expiring.
BurntWhenSpent ==
    \A c \in Codes \ contested :
        /\ opened[c] <= 1
        /\ told[c] <= MaxGuesses
        /\ key.code = c =>
              /\ c = issued /\ opened[c] = 0
              /\ key.attempts = told[c] /\ key.ttl
=============================================================================
