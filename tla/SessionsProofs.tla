---------------------------- MODULE SessionsProofs ----------------------------
(***************************************************************************)
(* What survives every overlap of refreshes, log-outs and password         *)
(* changes, for any number of requests, users, sessions and tickets: a     *)
(* revoked session stays revoked, a redeemed token is dead, a ticket opens *)
(* one session, and a password change ends the sessions it found.          *)
(***************************************************************************)
EXTENDS Sessions, TLAPS

Holds(w, s) == s \in DOMAIN copy[w]

Issued(s) == row[s].state # "absent"

\* What a request may make of a row it has inserted or locked.
Follows(old, new) ==
    \/ old.state = "absent" /\ new.state = "live"
    \/ /\ \/ old.state = "live" /\ new.state \in {"live", "revoked"}
          \/ old.state = "revoked" /\ new.state = "revoked"
       /\ new.user = old.user /\ new.app = old.app

\* A row of the table, whatever its other columns hold.
Columns(r) ==
    /\ r = [state |-> r.state, app |-> r.app, user |-> r.user, token |-> r.token]
    /\ r.state \in {"absent", "live", "revoked", "gone"}

Shape ==
    /\ row = [s \in Session |-> row[s]]
    /\ \A s \in Session : Columns(row[s])
    /\ copy = [w \in Worker |-> copy[w]]
    /\ \A w \in Worker : DOMAIN copy[w] \subseteq Session
    /\ \A w \in Worker : \A s \in DOMAIN copy[w] : Columns(copy[w][s])

\* Row locks exclude each other.
Alone ==
    \A v, w \in Worker : \A s \in Session : Holds(v, s) /\ Holds(w, s) => v = w

HeldFollows ==
    \A w \in Worker : \A s \in Session : Holds(w, s) => Follows(row[s], copy[w][s])

\* The session a refresh is about was issued before it began.
Begun ==
    /\ pc = [w \in Worker |-> pc[w]] /\ req = [w \in Worker |-> req[w]]
    /\ \A w \in Worker : pc[w] = "rotate" => req[w].op = "refresh"
    /\ \A w \in Worker : req[w].op = "refresh" =>
          /\ pc[w] \in {"rotate", "done"}
          /\ req[w].session \in Session
          /\ Issued(req[w].session)

RowInv == Shape /\ Alone /\ HeldFollows /\ Begun

-----------------------------------------------------------------------------
(* The rows.                                                               *)

LEMMA EmptyCopy == DOMAIN << >> = {}
  OBVIOUS

LEMMA InitRows == Init => RowInv
  <1> SUFFICES ASSUME Init PROVE RowInv
    OBVIOUS
  <1>1. \A w \in Worker : DOMAIN copy[w] = {}
    BY EmptyCopy DEF Init
  <1>2. Columns(NoRow)
    BY DEF NoRow, Columns
  <1>3. Shape
    BY <1>1, <1>2 DEF Init, Shape
  <1>4. Alone /\ HeldFollows
    BY <1>1 DEF Alone, HeldFollows, Holds
  <1>5. Begun
    BY DEF Init, Begun, NoRequest
  <1> QED
    BY <1>3, <1>4, <1>5 DEF RowInv

\* A step that neither flushes nor commits a row.
LEMMA QuietRows ==
  ASSUME RowInv, UNCHANGED <<row, copy>>, Begun'
  PROVE  RowInv'
  BY DEF RowInv, Shape, Alone, HeldFollows, Holds

\* A statement that writes g[s] to rows nobody else has locked.
LEMMA FlushRows ==
  ASSUME RowInv, NEW w \in Worker, NEW S \in SUBSET Session, NEW g,
         copy' = [copy EXCEPT ![w] = [s \in S |-> g[s]]],
         UNCHANGED row, Begun',
         \A s \in S : /\ Columns(g[s]) /\ Follows(row[s], g[s])
                      /\ \A v \in Worker \ {w} : ~Holds(v, s)
  PROVE  RowInv'
  <1>1. /\ copy'[w] = [s \in S |-> g[s]]
        /\ \A v \in Worker \ {w} : copy'[v] = copy[v]
    BY DEF RowInv, Shape
  <1>2. Shape'
    BY <1>1 DEF RowInv, Shape
  <1>3. Alone'
    BY <1>1 DEF RowInv, Alone, Holds
  <1>4. HeldFollows'
    BY <1>1 DEF RowInv, HeldFollows, Holds
  <1> QED
    BY <1>2, <1>3, <1>4 DEF RowInv

LEMMA BegunAfter ==
  ASSUME RowInv, NEW w \in Worker, NEW r, NEW stage,
         UNCHANGED row,
         pc' = [pc EXCEPT ![w] = stage], req' = [req EXCEPT ![w] = r],
         stage = "rotate" => r.op = "refresh",
         r.op = "refresh" => /\ stage \in {"rotate", "done"}
                             /\ r.session \in Session /\ Issued(r.session)
  PROVE  Begun'
  BY DEF RowInv, Begun, Issued

LEMMA AdvanceBegun ==
  ASSUME RowInv, NEW w \in Worker, NEW stage, Advance(w, stage),
         stage # "rotate", req[w].op = "refresh" => stage = "done"
  PROVE  Begun'
  BY DEF RowInv, Begun, Issued, Advance, committed

\* The requests that begin.
BeginAny(w) ==
    \/ \E u \in User : BeginSignin(w, u)
    \/ \E s \in Session : BeginRefresh(w, s) \/ BeginLogout(w, s) \/ BeginChange(w, s)
    \/ \E s \in Session, p \in App : BeginBridge(w, s, p)
    \/ \E k \in Ticket, p \in App : BeginExchange(w, k, p)

LEMMA BeginRows ==
  ASSUME RowInv, NEW w \in Worker, BeginAny(w)
  PROVE  RowInv'
  <1>1. UNCHANGED <<row, copy>>
    BY DEF BeginAny, BeginSignin, BeginRefresh, BeginLogout, BeginChange, BeginBridge,
           BeginExchange, Begin, committed, flushed
  <1>2. ASSUME NEW r, NEW stage, Begin(w, r, stage),
               stage = "rotate" => r.op = "refresh",
               r.op = "refresh" => /\ stage = "rotate"
                                   /\ r.session \in Session /\ Issued(r.session)
        PROVE  Begun'
    BY <1>1, <1>2, BegunAfter DEF Begin
  <1>3. ASSUME NEW u \in User, BeginSignin(w, u) PROVE Begun'
    BY <1>2, <1>3 DEF BeginSignin, NoRequest
  <1>4. ASSUME NEW s \in Session, BeginRefresh(w, s) PROVE Begun'
    <2>1. Issued(s)
      BY <1>4 DEF BeginRefresh, Active, Issued
    <2> QED
      BY <1>2, <1>4, <2>1 DEF BeginRefresh, NoRequest
  <1>5. ASSUME NEW s \in Session, BeginLogout(w, s) \/ BeginChange(w, s) PROVE Begun'
    BY <1>2, <1>5 DEF BeginLogout, BeginChange, NoRequest
  <1>6. ASSUME NEW s \in Session, NEW p \in App, BeginBridge(w, s, p) PROVE Begun'
    BY <1>2, <1>6 DEF BeginBridge, NoRequest
  <1>7. ASSUME NEW k \in Ticket, NEW p \in App, BeginExchange(w, k, p) PROVE Begun'
    <2>1. CASE UNCHANGED <<pc, req>>
      BY <1>1, <2>1 DEF RowInv, Begun, Issued
    <2>2. CASE ~UNCHANGED <<pc, req>>
      BY <1>2, <1>7, <2>2 DEF BeginExchange, NoRequest
    <2> QED
      BY <2>1, <2>2
  <1> QED
    BY <1>1, <1>3, <1>4, <1>5, <1>6, <1>7, QuietRows DEF BeginAny

LEMMA QuietStepRows ==
  ASSUME RowInv, NEW w \in Worker, Rehash(w) \/ WritePassword(w) \/ Pick(w) \/ Mint(w)
  PROVE  RowInv'
  <1>1. UNCHANGED <<row, copy>>
    BY DEF Rehash, WritePassword, Pick, Mint, Advance, committed, flushed
  <1>2. req[w].op # "refresh"
    BY DEF Rehash, WritePassword, Pick, Mint, RowInv, Begun
  <1>3. Begun'
    BY <1>2, AdvanceBegun DEF Rehash, WritePassword, Pick, Mint
  <1> QED
    BY <1>1, <1>3, QuietRows

LEMMA OpenRows ==
  ASSUME RowInv, NEW w \in Worker, Open(w)
  PROVE  RowInv'
  <1>1. PICK s \in Session, t \in Token \ generated :
          /\ row[s].state = "absent"
          /\ \A v \in Worker : s \notin DOMAIN copy[v]
          /\ generated' = generated \union {t}
          /\ copy' = [copy EXCEPT ![w] = [x \in {s} |->
               [state |-> "live", app |-> req[w].app, user |-> req[w].user, token |-> t]]]
    BY DEF Open
  <1> DEFINE S == {s}
             n == [state |-> "live", app |-> req[w].app, user |-> req[w].user, token |-> t]
             g == [x \in S |-> n]
  <1>2. Columns(n) /\ n.state = "live"
    BY DEF Columns
  <1>3. /\ S \in SUBSET Session
        /\ copy' = [copy EXCEPT ![w] = [x \in S |-> g[x]]]
        /\ \A x \in S : g[x] = n /\ x = s
    BY <1>1
  <1> HIDE DEF S, g, n
  <1>4. UNCHANGED row /\ Begun'
    BY AdvanceBegun DEF Open, Advance, committed, RowInv, Begun
  <1>5. \A x \in S : /\ Columns(g[x]) /\ Follows(row[x], g[x])
                    /\ \A v \in Worker \ {w} : ~Holds(v, x)
    BY <1>1, <1>2, <1>3 DEF Follows, Holds
  <1> QED
    BY <1>3, <1>4, <1>5, FlushRows

LEMMA RotateRows ==
  ASSUME RowInv, NEW w \in Worker, Rotate(w)
  PROVE  RowInv'
  <1> DEFINE s == req[w].session
  <1>1. PICK t \in Token \ generated :
          copy' = [copy EXCEPT ![w] = [x \in {s} |-> Rotated(x, t)]]
    BY DEF Rotate
  <1> DEFINE S == {s}
             g == [x \in S |-> Rotated(x, t)]
  <1>2. s \in Session /\ Issued(s)
    BY DEF Rotate, RowInv, Begun
  <1>3. Columns(Rotated(s, t)) /\ Follows(row[s], Rotated(s, t))
    <2>1. Columns(row[s]) /\ row[s].state \in {"live", "revoked"}
      BY <1>2 DEF RowInv, Shape, Columns, Rotate, Issued
    <2> QED
      BY <2>1 DEF Columns, Rotated, Follows
  <1>4. /\ S \in SUBSET Session
        /\ copy' = [copy EXCEPT ![w] = [x \in S |-> g[x]]]
        /\ \A x \in S : g[x] = Rotated(s, t) /\ x = s
    BY <1>1, <1>2
  <1>5. UNCHANGED row /\ Begun'
    BY AdvanceBegun DEF Rotate, Advance, committed
  <1>6. \A v \in Worker \ {w} : ~Holds(v, s)
    BY DEF Rotate, RowsFree, Holds
  <1> HIDE DEF S, g, s
  <1> QED
    BY <1>3, <1>4, <1>5, <1>6, FlushRows

\* The statement's rows, and the session of its request, are in the table.
Picked ==
    /\ cand = [w \in Worker |-> cand[w]]
    /\ \A w \in Worker :
          /\ cand[w] \subseteq Session
          /\ pc[w] \in {"write", "pick"} => req[w].session \in Session

LEMMA RevokeRows ==
  ASSUME RowInv, Picked, NEW w \in Worker, Revoke(w)
  PROVE  RowInv'
  <1> DEFINE S == {s \in cand[w] : row[s].state = "live"}
             g == [s \in S |-> [row[s] EXCEPT !.state = "revoked"]]
  <1>1. S \in SUBSET Session
    BY DEF Picked
  <1>2. ASSUME NEW s \in S
        PROVE  Columns(g[s]) /\ Follows(row[s], g[s]) /\ \A v \in Worker \ {w} : ~Holds(v, s)
    <2>1. Columns(row[s]) /\ row[s].state = "live"
      BY <1>1 DEF RowInv, Shape
    <2>2. Columns([row[s] EXCEPT !.state = "revoked"]) /\ Follows(row[s], [row[s] EXCEPT !.state = "revoked"])
      BY <2>1 DEF Columns, Follows
    <2> QED
      BY <2>2 DEF Revoke, RowsFree, Holds
  <1>3. copy' = [copy EXCEPT ![w] = [s \in S |-> g[s]]]
    BY DEF Revoke
  <1>4. UNCHANGED row /\ Begun'
    BY AdvanceBegun DEF Revoke, Advance, committed
  <1> HIDE DEF S, g
  <1> QED
    BY <1>1, <1>2, <1>3, <1>4, FlushRows

LEMMA EndRows ==
  ASSUME RowInv, NEW w \in Worker, EndRequest(w), row' = [s \in Session |-> row'[s]],
         \A s \in Session : /\ Columns(row'[s])
                            /\ row'[s] # row[s] => Holds(w, s) /\ row'[s] = copy[w][s]
  PROVE  RowInv'
  <1>1. /\ copy' = [copy EXCEPT ![w] = <<>>]
        /\ DOMAIN copy'[w] = {}
        /\ \A v \in Worker \ {w} : copy'[v] = copy[v]
    BY EmptyCopy DEF EndRequest, RowInv, Shape
  <1>2. Shape'
    BY <1>1 DEF RowInv, Shape
  <1>3. Alone'
    BY <1>1 DEF RowInv, Alone, Holds
  <1>4. HeldFollows'
    BY <1>1 DEF RowInv, HeldFollows, Alone, Holds
  <1>5. Begun'
    <2>1. \A s \in Session : Issued(s) => Issued(s)'
      BY DEF Issued, RowInv, HeldFollows, Follows
    <2>2. /\ req' = [req EXCEPT ![w] = NoRequest] /\ pc' = [pc EXCEPT ![w] = "idle"]
          /\ NoRequest.op = "none"
      BY DEF EndRequest, NoRequest
    <2> QED
      BY <2>1, <2>2 DEF RowInv, Begun
  <1> QED
    BY <1>2, <1>3, <1>4, <1>5 DEF RowInv

LEMMA CommitRows ==
  ASSUME RowInv, NEW w \in Worker, Commit(w)
  PROVE  RowInv'
  <1>1. row' = [s \in Session |-> IF s \in DOMAIN copy[w] THEN copy[w][s] ELSE row[s]]
    BY DEF Commit
  <1>2. \A s \in Session : /\ Columns(row'[s])
                           /\ row'[s] # row[s] => Holds(w, s) /\ row'[s] = copy[w][s]
    BY <1>1 DEF RowInv, Shape, Holds
  <1> QED
    BY <1>1, <1>2, EndRows DEF Commit

LEMMA AbortRows ==
  ASSUME RowInv, NEW w \in Worker, Abort(w)
  PROVE  RowInv'
  BY EndRows DEF Abort, committed, RowInv, Shape

LEMMA CleanRows ==
  ASSUME RowInv, NEW s \in Session, Clean(s)
  PROVE  RowInv'
  <1>1. /\ row' = [row EXCEPT ![s] = [row[s] EXCEPT !.state = "gone"]]
        /\ \A v \in Worker : ~Holds(v, s)
        /\ UNCHANGED <<copy, pc, req>>
    BY DEF Clean, Holds, flushed
  <1>2. Columns([row[s] EXCEPT !.state = "gone"])
    BY DEF RowInv, Shape, Columns
  <1> DEFINE n == [row[s] EXCEPT !.state = "gone"]
  <1>3. n.state = "gone"
    BY DEF RowInv, Shape, Columns
  <1> HIDE DEF n
  <1>4. /\ row' = [z \in Session |-> row'[z]]
        /\ \A z \in Session : row'[z] = IF z = s THEN n ELSE row[z]
    BY <1>1 DEF RowInv, Shape, n
  <1>5. Shape' /\ Alone' /\ HeldFollows' /\ Begun'
    BY <1>1, <1>2, <1>3, <1>4 DEF RowInv, Shape, Alone, HeldFollows, Begun, Holds, Issued, n
  <1> QED
    BY <1>5 DEF RowInv

LEMMA BeginPicked ==
  ASSUME RowInv, Picked, NEW w \in Worker, BeginAny(w)
  PROVE  Picked'
  <1>1. ASSUME NEW r, NEW stage, Begin(w, r, stage),
               stage \in {"write", "pick"} => r.session \in Session
        PROVE  Picked'
    BY <1>1 DEF Begin, Picked, flushed, RowInv, Begun
  <1>2. ASSUME NEW u \in User, BeginSignin(w, u) PROVE Picked'
    BY <1>1, <1>2 DEF BeginSignin
  <1>3. ASSUME NEW s \in Session, BeginRefresh(w, s) \/ BeginLogout(w, s) \/ BeginChange(w, s)
        PROVE  Picked'
    BY <1>1, <1>3 DEF BeginRefresh, BeginLogout, BeginChange, NoRequest
  <1>4. ASSUME NEW s \in Session, NEW p \in App, BeginBridge(w, s, p) PROVE Picked'
    BY <1>1, <1>4 DEF BeginBridge
  <1>5. ASSUME NEW k \in Ticket, NEW p \in App, BeginExchange(w, k, p) PROVE Picked'
    <2>1. CASE UNCHANGED <<pc, req, cand>>
      BY <2>1 DEF Picked
    <2>2. CASE ~UNCHANGED <<pc, req, cand>>
      BY <1>1, <1>5, <2>2 DEF BeginExchange, flushed
    <2> QED
      BY <2>1, <2>2
  <1> QED
    BY <1>2, <1>3, <1>4, <1>5 DEF BeginAny

LEMMA StepPicked == RowInv /\ Picked /\ [Next]_vars => Picked'
  <1> SUFFICES ASSUME RowInv, Picked, [Next]_vars PROVE Picked'
    OBVIOUS
  <1>1. ASSUME UNCHANGED <<cand, pc, req>> PROVE Picked'
    BY <1>1 DEF Picked
  <1>2. ASSUME NEW w \in Worker, NEW stage, Advance(w, stage), UNCHANGED cand,
               stage = "pick" => pc[w] = "write", stage # "write"
        PROVE  Picked'
    BY <1>2 DEF Picked, Advance, RowInv, Begun
  <1>3. ASSUME NEW w \in Worker,
               \/ Rehash(w) \/ Open(w) \/ Rotate(w) \/ WritePassword(w) \/ Revoke(w) \/ Mint(w)
        PROVE  Picked'
    BY <1>2, <1>3 DEF Rehash, Open, Rotate, WritePassword, Revoke, Mint, flushed
  <1>4. ASSUME NEW w \in Worker, Pick(w) PROVE Picked'
    <2>1. Ends(w) \subseteq Session
      BY <1>4 DEF Ends, LiveIn, Pick, Picked
    <2> QED
      BY <1>4, <2>1 DEF Pick, Picked, Advance, RowInv, Begun
  <1>5. ASSUME NEW w \in Worker, Commit(w) \/ Abort(w) PROVE Picked'
    BY <1>5 DEF Commit, Abort, EndRequest, Picked, RowInv, Begun
  <1>6. ASSUME NEW s \in Session, SessionExpires(s) \/ Clean(s) PROVE UNCHANGED <<cand, pc, req>>
    BY <1>6 DEF SessionExpires, Clean, Others, flushed
  <1>7. ASSUME NEW k \in Ticket, TicketExpires(k) PROVE UNCHANGED <<cand, pc, req>>
    BY <1>7 DEF TicketExpires, Others, flushed
  <1> QED
    BY <1>1, <1>3, <1>4, <1>5, <1>6, <1>7, BeginPicked DEF Next, BeginAny, vars

LEMMA StepRows == RowInv /\ Picked /\ [Next]_vars => RowInv'
  <1> SUFFICES ASSUME RowInv, Picked, [Next]_vars PROVE RowInv'
    OBVIOUS
  <1>1. ASSUME UNCHANGED <<row, copy, pc, req>> PROVE RowInv'
    BY <1>1 DEF RowInv, Shape, Alone, HeldFollows, Begun, Holds, Issued
  <1>2. ASSUME NEW s \in Session, SessionExpires(s) PROVE RowInv'
    BY <1>1, <1>2 DEF SessionExpires, Others, committed, flushed
  <1>3. ASSUME NEW k \in Ticket, TicketExpires(k) PROVE RowInv'
    BY <1>1, <1>3 DEF TicketExpires, Others, committed, flushed
  <1>4. ASSUME UNCHANGED vars PROVE RowInv'
    BY <1>1, <1>4 DEF vars
  <1> QED
    BY <1>2, <1>3, <1>4, BeginRows, QuietStepRows, OpenRows, RotateRows, RevokeRows,
       CommitRows, AbortRows, CleanRows DEF Next, BeginAny

-----------------------------------------------------------------------------
(* The refresh tokens.                                                     *)

\* The token of a copy that no row, no other copy, no refresh under way and
\* no answer has seen.
Fresh(w, s) ==
    LET t == copy[w][s].token
    IN  /\ t \in generated
        /\ redeemed[t] = 0
        /\ \A z \in Session : Issued(z) => row[z].token # t
        /\ \A v \in Worker : \A z \in Session :
              Holds(v, z) /\ copy[v][z].token = t => z = s
        /\ \A v \in Worker : req[v].op = "refresh" => req[v].token # t

TokenTypes ==
    /\ generated \subseteq Token
    /\ redeemed \in [Token -> Nat]
    /\ \A t \in Token \ generated : redeemed[t] = 0
    /\ \A s \in Session : Issued(s) => row[s].token \in generated

OwnToken ==
    \A s, z \in Session : Issued(s) /\ Issued(z) /\ row[s].token = row[z].token => s = z

Kept(w, s) == Issued(s) /\ copy[w][s].token = row[s].token /\ copy[w][s].state = "revoked"

HeldToken ==
    \A w \in Worker : \A s \in Session : Holds(w, s) => Fresh(w, s) \/ Kept(w, s)

\* The token a refresh presents is its session's or nobody's; the answer waits
\* with a fresh one.
Presented ==
    \A w \in Worker : req[w].op = "refresh" =>
       /\ req[w].token \in generated
       /\ \A z \in Session :
             Issued(z) /\ row[z].token = req[w].token => z = req[w].session
       /\ pc[w] = "done" => /\ Holds(w, req[w].session)
                            /\ Fresh(w, req[w].session)

TokenInv == TokenTypes /\ OwnToken /\ HeldToken /\ Presented /\ RedeemedIsDead

LEMMA InitTokens == Init => TokenInv
  <1> SUFFICES ASSUME Init PROVE TokenInv
    OBVIOUS
  <1>1. \A s \in Session : row[s].state = "absent"
    BY DEF Init, NoRow
  <1>2. \A w \in Worker : DOMAIN copy[w] = {}
    BY EmptyCopy DEF Init
  <1>3. \A w \in Worker : req[w].op = "none"
    BY DEF Init, NoRequest
  <1>4. TokenTypes
    BY <1>1 DEF Init, TokenTypes, Issued
  <1> QED
    BY <1>1, <1>2, <1>3, <1>4 DEF TokenInv, OwnToken, HeldToken, Presented, RedeemedIsDead,
                                  Holds, Issued

\* A step that touches no token: refreshes go on, end, or begin with the token
\* of their session.
LEMMA QuietTokens ==
  ASSUME RowInv, TokenInv, UNCHANGED <<row, generated, redeemed, copy>>,
         \A v \in Worker : req'[v].op = "refresh" =>
            \/ req'[v] = req[v] /\ (pc'[v] = "done" => pc[v] = "done")
            \/ /\ pc'[v] # "done" /\ req'[v].session \in Session
               /\ Issued(req'[v].session) /\ req'[v].token = row[req'[v].session].token
  PROVE  TokenInv'
  <1>1. TokenTypes' /\ OwnToken' /\ RedeemedIsDead'
    BY DEF TokenInv, TokenTypes, OwnToken, RedeemedIsDead, Issued
  <1>2. ASSUME NEW w \in Worker, NEW s \in Session, Fresh(w, s) PROVE Fresh(w, s)'
    BY <1>2 DEF Fresh, Holds, Issued
  <1>3. HeldToken'
    BY <1>2 DEF TokenInv, HeldToken, Kept, Holds, Issued
  <1>4. ASSUME NEW w \in Worker, req'[w].op = "refresh", req'[w] = req[w],
               pc'[w] = "done" => pc[w] = "done"
        PROVE  /\ req'[w].token \in generated'
               /\ \A z \in Session :
                     Issued(z)' /\ row'[z].token = req'[w].token => z = req'[w].session
               /\ pc'[w] = "done" => /\ Holds(w, req[w].session)'
                                     /\ Fresh(w, req[w].session)'
    <2>1. req[w].session \in Session
      BY <1>4 DEF RowInv, Begun
    <2> QED
      BY <1>2, <1>4, <2>1 DEF TokenInv, Presented, Holds, Issued
  <1>5. ASSUME NEW w \in Worker, req'[w].session \in Session, Issued(req'[w].session),
               req'[w].token = row[req'[w].session].token
        PROVE  /\ req'[w].token \in generated'
               /\ \A z \in Session :
                     Issued(z)' /\ row'[z].token = req'[w].token => z = req'[w].session
    BY <1>5 DEF TokenInv, TokenTypes, OwnToken, Issued
  <1>6. Presented'
    BY <1>4, <1>5 DEF Presented
  <1> QED
    BY <1>1, <1>3, <1>6 DEF TokenInv

LEMMA BeginTokens ==
  ASSUME RowInv, TokenInv, NEW w \in Worker, BeginAny(w)
  PROVE  TokenInv'
  <1>1. UNCHANGED <<row, generated, redeemed, copy>>
    BY DEF BeginAny, BeginSignin, BeginRefresh, BeginLogout, BeginChange, BeginBridge,
           BeginExchange, Begin, committed, flushed, world
  <1>2. ASSUME NEW r, NEW stage, Begin(w, r, stage),
               r.op = "refresh" => /\ stage # "done" /\ r.session \in Session
                                   /\ Issued(r.session) /\ r.token = row[r.session].token
        PROVE  TokenInv'
    <2>1. /\ req'[w] = r /\ pc'[w] = stage
          /\ \A v \in Worker \ {w} : req'[v] = req[v] /\ pc'[v] = pc[v]
      BY <1>2 DEF Begin, RowInv, Begun
    <2> QED
      BY <1>1, <1>2, <2>1, QuietTokens
  <1>3. ASSUME NEW u \in User, BeginSignin(w, u) PROVE TokenInv'
    BY <1>2, <1>3 DEF BeginSignin, NoRequest
  <1>4. ASSUME NEW s \in Session, BeginRefresh(w, s) PROVE TokenInv'
    <2>1. Issued(s)
      BY <1>4 DEF BeginRefresh, Active, Issued
    <2> QED
      BY <1>2, <1>4, <2>1 DEF BeginRefresh, NoRequest
  <1>5. ASSUME NEW s \in Session, BeginLogout(w, s) \/ BeginChange(w, s) PROVE TokenInv'
    BY <1>2, <1>5 DEF BeginLogout, BeginChange, NoRequest
  <1>6. ASSUME NEW s \in Session, NEW p \in App, BeginBridge(w, s, p) PROVE TokenInv'
    BY <1>2, <1>6 DEF BeginBridge, NoRequest
  <1>7. ASSUME NEW k \in Ticket, NEW p \in App, BeginExchange(w, k, p) PROVE TokenInv'
    <2>1. CASE UNCHANGED <<pc, req>>
      BY <1>1, <2>1, QuietTokens
    <2>2. CASE ~UNCHANGED <<pc, req>>
      BY <1>2, <1>7, <2>2 DEF BeginExchange, NoRequest
    <2> QED
      BY <2>1, <2>2
  <1> QED
    BY <1>3, <1>4, <1>5, <1>6, <1>7 DEF BeginAny

LEMMA QuietStepTokens ==
  ASSUME RowInv, TokenInv, NEW w \in Worker,
         Rehash(w) \/ WritePassword(w) \/ Pick(w) \/ Mint(w)
  PROVE  TokenInv'
  <1>1. UNCHANGED <<row, generated, redeemed, copy, req>>
    BY DEF Rehash, WritePassword, Pick, Mint, Advance, committed, flushed, world
  <1>2. req[w].op # "refresh" /\ \A v \in Worker \ {w} : pc'[v] = pc[v]
    BY DEF Rehash, WritePassword, Pick, Mint, RowInv, Begun, Advance
  <1> QED
    BY <1>1, <1>2, QuietTokens

\* A statement that writes row s with the token it has just generated.
LEMMA IssueTokens ==
  ASSUME RowInv, TokenInv, NEW w \in Worker, NEW s \in Session, NEW t \in Token \ generated,
         NEW n, n.token = t,
         generated' = generated \union {t},
         copy' = [copy EXCEPT ![w] = [x \in {s} |-> n]],
         Advance(w, "done"), req[w].op = "refresh" => s = req[w].session
  PROVE  TokenInv'
  <1> DEFINE m == [x \in {s} |-> n]
  <1>1. DOMAIN m = {s} /\ m[s].token = t
    OBVIOUS
  <1>2. copy' = [copy EXCEPT ![w] = m]
    OBVIOUS
  <1> HIDE DEF m
  <1>3. /\ \A z \in Session : Holds(w, z)' <=> z = s
        /\ copy'[w][s].token = t
        /\ \A v \in Worker \ {w} : copy'[v] = copy[v] /\ pc'[v] = pc[v]
        /\ UNCHANGED <<row, req, redeemed>>
    BY <1>1, <1>2 DEF RowInv, Shape, Begun, Holds, Advance, committed
  <1>4. /\ \A z \in Session : Issued(z) => row[z].token \in generated
        /\ \A v \in Worker : \A z \in Session : Holds(v, z) => copy[v][z].token \in generated
        /\ \A v \in Worker : req[v].op = "refresh" => req[v].token \in generated
    BY DEF TokenInv, TokenTypes, HeldToken, Fresh, Kept, Presented
  <1>5. TokenTypes' /\ OwnToken' /\ RedeemedIsDead'
    BY <1>3 DEF TokenInv, TokenTypes, OwnToken, RedeemedIsDead, Issued
  <1>6. Fresh(w, s)'
    <2>1. redeemed'[t] = 0
      BY <1>3 DEF TokenInv, TokenTypes
    <2>2. \A v \in Worker : \A z \in Session :
             Holds(v, z)' /\ copy'[v][z].token = t => z = s
      BY <1>3, <1>4 DEF Holds
    <2> QED
      BY <1>3, <1>4, <2>1, <2>2 DEF Fresh, Issued
  <1>7. ASSUME NEW v \in Worker \ {w}, NEW z \in Session, Holds(v, z), Fresh(v, z)
        PROVE  Fresh(v, z)'
    <2>1. copy[v][z].token # t
      BY <1>4, <1>7
    <2>2. \A x \in Worker : \A y \in Session :
             Holds(x, y)' /\ copy'[x][y].token = copy[v][z].token => y = z
      BY <1>3, <1>7, <2>1 DEF Fresh, Holds
    <2> QED
      BY <1>3, <1>7, <2>2 DEF Fresh, Issued
  <1>8. HeldToken'
    BY <1>3, <1>6, <1>7 DEF TokenInv, HeldToken, Kept, Holds, Issued
  <1>9. Presented'
    BY <1>3, <1>6, <1>7 DEF TokenInv, Presented, Holds, Issued, RowInv, Begun
  <1> QED
    BY <1>5, <1>8, <1>9 DEF TokenInv

LEMMA OpenTokens ==
  ASSUME RowInv, TokenInv, NEW w \in Worker, Open(w)
  PROVE  TokenInv'
  <1>1. PICK s \in Session, t \in Token \ generated :
          /\ generated' = generated \union {t}
          /\ copy' = [copy EXCEPT ![w] = [x \in {s} |->
               [state |-> "live", app |-> req[w].app, user |-> req[w].user, token |-> t]]]
    BY DEF Open
  <1> DEFINE n == [state |-> "live", app |-> req[w].app, user |-> req[w].user, token |-> t]
  <1>2. n.token = t /\ copy' = [copy EXCEPT ![w] = [x \in {s} |-> n]]
    BY <1>1
  <1>3. Advance(w, "done") /\ req[w].op # "refresh"
    BY DEF Open, RowInv, Begun
  <1> HIDE DEF n
  <1> QED
    BY <1>1, <1>2, <1>3, IssueTokens

LEMMA RotateTokens ==
  ASSUME RowInv, TokenInv, NEW w \in Worker, Rotate(w)
  PROVE  TokenInv'
  <1> DEFINE s == req[w].session
  <1>1. PICK t \in Token \ generated :
          /\ generated' = generated \union {t}
          /\ copy' = [copy EXCEPT ![w] = [x \in {s} |-> Rotated(x, t)]]
    BY DEF Rotate
  <1> DEFINE n == Rotated(s, t)
  <1>2. s \in Session
    BY DEF Rotate, RowInv, Begun
  <1>3. n.token = t
    BY <1>2 DEF RowInv, Shape, Columns, Rotated
  <1>4. [x \in {s} |-> Rotated(x, t)] = [x \in {s} |-> n]
    OBVIOUS
  <1>5. Advance(w, "done")
    BY DEF Rotate
  <1> HIDE DEF n
  <1> QED
    BY <1>1, <1>2, <1>3, <1>4, <1>5, IssueTokens

LEMMA RevokeTokens ==
  ASSUME RowInv, Picked, TokenInv, NEW w \in Worker, Revoke(w)
  PROVE  TokenInv'
  <1> DEFINE S == {s \in cand[w] : row[s].state = "live"}
             m == [s \in S |-> [row[s] EXCEPT !.state = "revoked"]]
  <1>1. DOMAIN m = S /\ S \subseteq Session
    BY DEF Picked
  <1>2. ASSUME NEW s \in S
        PROVE  Issued(s) /\ m[s].token = row[s].token /\ m[s].state = "revoked"
    BY <1>1 DEF RowInv, Shape, Columns, Issued
  <1>3. copy' = [copy EXCEPT ![w] = m]
    BY DEF Revoke
  <1> HIDE DEF S, m
  <1>4. /\ \A z \in Session : Holds(w, z)' <=> z \in S
        /\ \A z \in S : copy'[w][z] = m[z]
        /\ \A v \in Worker \ {w} : copy'[v] = copy[v] /\ pc'[v] = pc[v]
        /\ UNCHANGED <<row, req, redeemed, generated>>
    BY <1>1, <1>3 DEF RowInv, Shape, Begun, Holds, Revoke, Advance, committed, world
  <1>5. req[w].op # "refresh"
    BY DEF RowInv, Begun, Revoke
  <1>6. TokenTypes' /\ OwnToken' /\ RedeemedIsDead'
    BY <1>4 DEF TokenInv, TokenTypes, OwnToken, RedeemedIsDead, Issued
  <1>7. ASSUME NEW v \in Worker \ {w}, NEW z \in Session, Holds(v, z), Fresh(v, z)
        PROVE  Fresh(v, z)'
    <2>1. \A x \in Worker : \A y \in Session :
             Holds(x, y)' /\ copy'[x][y].token = copy[v][z].token => y = z
      BY <1>2, <1>4, <1>7 DEF Fresh, Holds
    <2> QED
      BY <1>4, <1>7, <2>1 DEF Fresh, Issued
  <1>8. \A s \in S : Kept(w, s)'
    BY <1>2, <1>4 DEF Kept, Issued
  <1>9. HeldToken'
    BY <1>4, <1>7, <1>8 DEF TokenInv, HeldToken, Kept, Holds, Issued
  <1>10. Presented'
    BY <1>4, <1>5, <1>7 DEF TokenInv, Presented, Holds, Issued, RowInv, Begun
  <1> QED
    BY <1>6, <1>9, <1>10 DEF TokenInv

\* What the end of a request, and the clean-up of a row, leave of the copies
\* and of the refreshes.
LEMMA AbortTokens ==
  ASSUME RowInv, TokenInv, NEW w \in Worker, Abort(w)
  PROVE  TokenInv'
  <1>1. /\ DOMAIN copy'[w] = {} /\ req'[w].op = "none"
        /\ \A v \in Worker \ {w} : copy'[v] = copy[v] /\ req'[v] = req[v] /\ pc'[v] = pc[v]
        /\ UNCHANGED <<row, redeemed, generated>>
    BY EmptyCopy DEF Abort, EndRequest, NoRequest, RowInv, Shape, Begun, committed, world
  <1>2. TokenTypes' /\ OwnToken' /\ RedeemedIsDead'
    BY <1>1 DEF TokenInv, TokenTypes, OwnToken, RedeemedIsDead, Issued
  <1>3. ASSUME NEW v \in Worker \ {w}, NEW z \in Session, Fresh(v, z)
        PROVE  Fresh(v, z)'
    BY <1>1, <1>3 DEF Fresh, Holds, Issued
  <1>4. HeldToken'
    BY <1>1, <1>3 DEF TokenInv, HeldToken, Kept, Holds, Issued
  <1>5. Presented'
    BY <1>1, <1>3 DEF TokenInv, Presented, Holds, Issued, RowInv, Begun
  <1> QED
    BY <1>2, <1>4, <1>5 DEF TokenInv

LEMMA CommitTokens ==
  ASSUME RowInv, TokenInv, NEW w \in Worker, Commit(w)
  PROVE  TokenInv'
  <1>1. /\ DOMAIN copy'[w] = {} /\ req'[w].op = "none"
        /\ \A v \in Worker \ {w} : copy'[v] = copy[v] /\ req'[v] = req[v] /\ pc'[v] = pc[v]
        /\ UNCHANGED generated
    BY EmptyCopy DEF Commit, EndRequest, NoRequest, RowInv, Shape, Begun, world
  <1>2. \A s \in Session : row'[s] = IF Holds(w, s) THEN copy[w][s] ELSE row[s]
    BY DEF Commit, Holds
  <1>3. /\ redeemed' \in [Token -> Nat]
        /\ \A t \in Token : redeemed'[t] =
              redeemed[t] + IF req[w].op = "refresh" /\ req[w].token = t THEN 1 ELSE 0
    BY DEF Commit, TokenInv, TokenTypes
  <1>4. ASSUME NEW t \in Token, req[w].op = "refresh" => req[w].token # t
        PROVE  redeemed'[t] = redeemed[t]
    BY <1>3, <1>4 DEF TokenInv, TokenTypes
  <1>5. \A s \in Session : Issued(s)' <=> Issued(s) \/ Holds(w, s)
    BY <1>2 DEF Issued, RowInv, HeldFollows, Follows
  <1>6. \A s \in Session : Holds(w, s) => Fresh(w, s) \/ Kept(w, s)
    BY DEF TokenInv, HeldToken
  <1>7. \A s \in Session : Issued(s)' => row'[s].token \in generated
    BY <1>2, <1>5, <1>6 DEF TokenInv, TokenTypes, Fresh, Kept
  <1>8. TokenTypes'
    <2>1. \A t \in Token \ generated : redeemed'[t] = 0
      BY <1>4 DEF TokenInv, TokenTypes, Presented
    <2> QED
      BY <1>1, <1>3, <1>7, <2>1 DEF TokenInv, TokenTypes
  <1>9. \A s \in Session : Issued(s)' =>
           \/ Holds(w, s) /\ Fresh(w, s) /\ row'[s].token = copy[w][s].token
           \/ Issued(s) /\ row'[s].token = row[s].token
    BY <1>2, <1>5, <1>6 DEF Kept
  <1>10. OwnToken'
    BY <1>9 DEF TokenInv, OwnToken, Fresh, Issued
  <1>11. ASSUME NEW v \in Worker \ {w}, NEW z \in Session, Holds(v, z), Fresh(v, z)
         PROVE  Fresh(v, z)'
    <2> DEFINE t == copy[v][z].token
    <2>1. t \in Token /\ redeemed'[t] = 0
      BY <1>4, <1>11 DEF Fresh, TokenInv, TokenTypes
    <2>2. ~Holds(w, z)
      BY <1>11 DEF RowInv, Alone
    <2>3. \A x \in Session : Issued(x)' => row'[x].token # t
      BY <1>9, <1>11, <2>2 DEF Fresh
    <2>4. \A x \in Worker : \A y \in Session : Holds(x, y)' /\ copy'[x][y].token = t => y = z
      BY <1>1, <1>11 DEF Fresh, Holds
    <2>5. \A x \in Worker : req'[x].op = "refresh" => req'[x].token # t
      BY <1>1, <1>11 DEF Fresh
    <2> QED
      BY <1>1, <1>11, <2>1, <2>3, <2>4, <2>5 DEF Fresh
  <1>12. ASSUME NEW v \in Worker \ {w}, NEW z \in Session, Holds(v, z), Kept(v, z)
         PROVE  Kept(v, z)'
    BY <1>1, <1>2, <1>5, <1>12 DEF Kept, RowInv, Alone
  <1>13. HeldToken'
    BY <1>1, <1>11, <1>12 DEF TokenInv, HeldToken, Holds
  <1>14. Presented'
    <2> SUFFICES ASSUME NEW v \in Worker \ {w}, req[v].op = "refresh"
                 PROVE  /\ req[v].token \in generated
                        /\ \A z \in Session :
                              Issued(z)' /\ row'[z].token = req[v].token => z = req[v].session
                        /\ pc[v] = "done" => /\ Holds(v, req[v].session)'
                                             /\ Fresh(v, req[v].session)'
      BY <1>1 DEF Presented
    <2>1. \A z \in Session :
             Issued(z)' /\ row'[z].token = req[v].token => z = req[v].session
      BY <1>9 DEF TokenInv, Presented, Fresh
    <2>2. req[v].session \in Session
      BY DEF RowInv, Begun
    <2>3. pc[v] = "done" => /\ Holds(v, req[v].session)'
                            /\ Fresh(v, req[v].session)'
      BY <1>1, <1>11, <2>2 DEF TokenInv, Presented, Holds
    <2> QED
      BY <2>1, <2>3 DEF TokenInv, Presented
  <1>15. RedeemedIsDead'
    <2> SUFFICES ASSUME NEW s \in Session, row'[s].state = "live"
                 PROVE  redeemed'[row'[s].token] = 0
      BY DEF RedeemedIsDead
    <2>1. CASE Holds(w, s)
      <3>1. Fresh(w, s) /\ row'[s].token = copy[w][s].token
        BY <1>2, <1>6, <2>1 DEF Kept
      <3> QED
        BY <1>4, <3>1 DEF Fresh, TokenInv, TokenTypes
    <2>2. CASE ~Holds(w, s)
      <3>1. row'[s] = row[s] /\ Issued(s) /\ redeemed[row[s].token] = 0
        BY <1>2, <2>2 DEF TokenInv, RedeemedIsDead, Issued
      <3>2. req[w].op = "refresh" => req[w].token # row[s].token
        BY <2>2, <3>1 DEF Commit, TokenInv, Presented
      <3> QED
        BY <1>4, <3>1, <3>2 DEF TokenInv, TokenTypes
    <2> QED
      BY <2>1, <2>2
  <1> QED
    BY <1>8, <1>10, <1>13, <1>14, <1>15 DEF TokenInv

LEMMA CleanTokens ==
  ASSUME RowInv, TokenInv, NEW s \in Session, Clean(s)
  PROVE  TokenInv'
  <1>1. /\ row' = [row EXCEPT ![s] = [row[s] EXCEPT !.state = "gone"]]
        /\ Issued(s) /\ \A v \in Worker : ~Holds(v, s)
        /\ UNCHANGED <<copy, pc, req, redeemed, generated>>
    BY DEF Clean, Holds, Issued, flushed, world
  <1>2. \A z \in Session : /\ row'[z].token = row[z].token
                           /\ Issued(z)' <=> Issued(z)
                           /\ z # s => row'[z] = row[z]
                           /\ row'[z].state = "live" => row[z].state = "live"
    BY <1>1 DEF RowInv, Shape, Columns, Issued
  <1>3. TokenTypes' /\ OwnToken' /\ RedeemedIsDead'
    BY <1>1, <1>2 DEF TokenInv, TokenTypes, OwnToken, RedeemedIsDead
  <1>4. ASSUME NEW v \in Worker, NEW z \in Session, Fresh(v, z)
        PROVE  Fresh(v, z)'
    BY <1>1, <1>2, <1>4 DEF Fresh, Holds
  <1>5. HeldToken'
    BY <1>1, <1>2, <1>4 DEF TokenInv, HeldToken, Kept, Holds
  <1>6. Presented'
    BY <1>1, <1>2, <1>4 DEF TokenInv, Presented, Holds, RowInv, Begun
  <1> QED
    BY <1>3, <1>5, <1>6 DEF TokenInv

LEMMA StepTokens == RowInv /\ Picked /\ TokenInv /\ [Next]_vars => TokenInv'
  <1> SUFFICES ASSUME RowInv, Picked, TokenInv, [Next]_vars PROVE TokenInv'
    OBVIOUS
  <1>1. ASSUME UNCHANGED <<row, generated, redeemed, copy, pc, req>> PROVE TokenInv'
    BY <1>1, QuietTokens
  <1>2. ASSUME NEW s \in Session, SessionExpires(s) PROVE TokenInv'
    BY <1>1, <1>2 DEF SessionExpires, Others, committed, flushed
  <1>3. ASSUME NEW k \in Ticket, TicketExpires(k) PROVE TokenInv'
    BY <1>1, <1>3 DEF TicketExpires, Others, committed, flushed
  <1>4. ASSUME UNCHANGED vars PROVE TokenInv'
    BY <1>1, <1>4 DEF vars
  <1> QED
    BY <1>2, <1>3, <1>4, BeginTokens, QuietStepTokens, OpenTokens, RotateTokens, RevokeTokens,
       CommitTokens, AbortTokens, CleanTokens DEF Next, BeginAny

-----------------------------------------------------------------------------
(* The single sign-on tickets.                                             *)

TicketInv ==
    /\ sso = [k \in Ticket |-> sso[k]]
    /\ opened \in [Ticket -> Nat]
    /\ \A k \in Ticket :
          /\ opened[k] <= 1
          /\ sso[k] # NoGrant => opened[k] = 0 /\ \A w \in Worker : req[w].ticket # k
          /\ \A w \in Worker : req[w].ticket = k => opened[k] = 0
          /\ \A v, w \in Worker : req[v].ticket = k /\ req[w].ticket = k => v = w

LEMMA InitTickets == Init => TicketInv
  BY SessionsAssumption DEF Init, TicketInv, NoRequest, SessionsAssumption

LEMMA BeginTickets ==
  ASSUME RowInv, TicketInv, NEW w \in Worker, BeginAny(w)
  PROVE  TicketInv'
  <1>1. NoTicket \notin Ticket
    BY SessionsAssumption DEF SessionsAssumption
  <1>2. ASSUME NEW r, NEW stage, Begin(w, r, stage), r.ticket = NoTicket, UNCHANGED sso
        PROVE  TicketInv'
    <2>1. /\ req'[w].ticket \notin Ticket
          /\ \A v \in Worker \ {w} : req'[v] = req[v]
          /\ UNCHANGED opened
      BY <1>1, <1>2 DEF Begin, committed, RowInv, Begun
    <2> QED
      BY <1>2, <2>1 DEF TicketInv
  <1>3. ASSUME NEW u \in User, BeginSignin(w, u) PROVE TicketInv'
    BY <1>2, <1>3 DEF BeginSignin, NoRequest, world
  <1>4. ASSUME NEW s \in Session, BeginRefresh(w, s) \/ BeginLogout(w, s) \/ BeginChange(w, s)
        PROVE  TicketInv'
    BY <1>2, <1>4 DEF BeginRefresh, BeginLogout, BeginChange, NoRequest, world
  <1>5. ASSUME NEW s \in Session, NEW p \in App, BeginBridge(w, s, p) PROVE TicketInv'
    BY <1>2, <1>5 DEF BeginBridge, NoRequest, world
  <1>6. ASSUME NEW k \in Ticket, NEW p \in App, BeginExchange(w, k, p) PROVE TicketInv'
    <2>1. sso[k] # NoGrant /\ sso' = [sso EXCEPT ![k] = NoGrant]
      BY <1>6 DEF BeginExchange
    <2>2. CASE UNCHANGED <<req, opened>>
      BY <2>1, <2>2 DEF TicketInv
    <2>3. ASSUME NEW r, NEW stage, Begin(w, r, stage), r.ticket = k
          PROVE  TicketInv'
      <3>1. /\ req'[w].ticket = k
            /\ \A v \in Worker \ {w} : req'[v] = req[v]
            /\ UNCHANGED opened
        BY <2>3 DEF Begin, committed, RowInv, Begun
      <3> QED
        BY <2>1, <3>1 DEF TicketInv
    <2>4. CASE ~UNCHANGED <<req, opened>>
      BY <1>6, <2>3, <2>4 DEF BeginExchange, NoRequest, committed
    <2> QED
      BY <2>2, <2>4
  <1> QED
    BY <1>3, <1>4, <1>5, <1>6 DEF BeginAny

LEMMA MintTickets ==
  ASSUME TicketInv, NEW w \in Worker, Mint(w)
  PROVE  TicketInv'
  <1>1. PICK k \in Ticket :
          /\ opened[k] = 0
          /\ \A v \in Worker : req[v].ticket # k
          /\ sso' = [sso EXCEPT ![k] =
                [user |-> req[w].user, source |-> row[req[w].session].app,
                 target |-> req[w].app, based |-> req[w].based]]
    BY DEF Mint
  <1>2. /\ sso' = [x \in Ticket |-> sso'[x]]
        /\ \A x \in Ticket \ {k} : sso'[x] = sso[x]
    BY <1>1 DEF TicketInv
  <1> QED
    BY <1>1, <1>2 DEF TicketInv, Mint, Advance, committed

LEMMA EndTickets ==
  ASSUME RowInv, TicketInv, NEW w \in Worker, Commit(w) \/ Abort(w)
  PROVE  TicketInv'
  <1>1. /\ req'[w].ticket \notin Ticket
        /\ \A v \in Worker \ {w} : req'[v] = req[v]
        /\ UNCHANGED sso
    BY SessionsAssumption
       DEF SessionsAssumption, Commit, Abort, EndRequest, NoRequest, world, RowInv, Begun
  <1>2. CASE Abort(w)
    BY <1>1, <1>2 DEF TicketInv, Abort, committed
  <1>3. CASE Commit(w)
    <2>1. /\ opened' \in [Ticket -> Nat]
          /\ \A k \in Ticket : opened'[k] = opened[k] \/ (opened'[k] = opened[k] + 1
                                                            /\ req[w].ticket = k)
      BY <1>3 DEF Commit, TicketInv
    <2> QED
      BY <1>1, <2>1 DEF TicketInv
  <1> QED
    BY <1>2, <1>3

LEMMA StepTickets == RowInv /\ TicketInv /\ [Next]_vars => TicketInv'
  <1> SUFFICES ASSUME RowInv, TicketInv, [Next]_vars PROVE TicketInv'
    OBVIOUS
  <1>1. ASSUME UNCHANGED <<sso, opened, req>> PROVE TicketInv'
    BY <1>1 DEF TicketInv
  <1>2. ASSUME NEW w \in Worker,
               \/ Rehash(w) \/ Open(w) \/ Rotate(w) \/ WritePassword(w) \/ Pick(w) \/ Revoke(w)
        PROVE  UNCHANGED <<sso, opened, req>>
    BY <1>2 DEF Rehash, Open, Rotate, WritePassword, Pick, Revoke, Advance, committed, world
  <1>3. ASSUME NEW s \in Session, SessionExpires(s) \/ Clean(s)
        PROVE  UNCHANGED <<sso, opened, req>>
    BY <1>3 DEF SessionExpires, Clean, Others, committed, world
  <1>4. ASSUME NEW k \in Ticket, TicketExpires(k) PROVE TicketInv'
    BY <1>4 DEF TicketInv, TicketExpires, Others, committed
  <1>5. ASSUME UNCHANGED vars PROVE UNCHANGED <<sso, opened, req>>
    BY <1>5 DEF vars
  <1> QED
    BY <1>1, <1>2, <1>3, <1>4, <1>5, BeginTickets, MintTickets, EndTickets DEF Next, BeginAny

-----------------------------------------------------------------------------
(* The password change.                                                    *)

\* What a step may make of an issued row.
LEMMA RowsKeep ==
  ASSUME RowInv, [Next]_vars, NEW s \in Session, Issued(s)
  PROVE  /\ Issued(s)' /\ row'[s].user = row[s].user /\ row'[s].app = row[s].app
         /\ row'[s].state = "live" => row[s].state = "live"
         /\ row[s].state \in {"revoked", "gone"} => row'[s].state \in {"revoked", "gone"}
  <1>1. ASSUME UNCHANGED row
        PROVE  /\ Issued(s)' /\ row'[s].user = row[s].user /\ row'[s].app = row[s].app
               /\ row'[s].state = "live" => row[s].state = "live"
               /\ row[s].state \in {"revoked", "gone"} => row'[s].state \in {"revoked", "gone"}
    BY <1>1 DEF Issued
  <1>2. ASSUME NEW w \in Worker, BeginAny(w) PROVE UNCHANGED row
    BY <1>2 DEF BeginAny, BeginSignin, BeginRefresh, BeginLogout, BeginChange, BeginBridge,
                BeginExchange, Begin, committed
  <1>3. ASSUME NEW w \in Worker,
               \/ Rehash(w) \/ Open(w) \/ Rotate(w) \/ WritePassword(w) \/ Pick(w) \/ Revoke(w)
               \/ Mint(w) \/ Abort(w)
        PROVE  UNCHANGED row
    BY <1>3 DEF Rehash, Open, Rotate, WritePassword, Pick, Revoke, Mint, Abort, Advance,
                committed
  <1>4. ASSUME NEW w \in Worker, Commit(w)
        PROVE  row'[s] = row[s] \/ Follows(row[s], row'[s])
    BY <1>4 DEF Commit, RowInv, HeldFollows, Holds
  <1>5. ASSUME NEW z \in Session, Clean(z)
        PROVE  \/ row'[s] = row[s]
               \/ /\ row'[s].state = "gone"
                  /\ row'[s].user = row[s].user /\ row'[s].app = row[s].app
    <2>1. row' = [row EXCEPT ![z] = [row[z] EXCEPT !.state = "gone"]]
      BY <1>5 DEF Clean
    <2> QED
      BY <2>1 DEF RowInv, Shape, Columns
  <1>6. ASSUME NEW z \in Session, SessionExpires(z) PROVE UNCHANGED row
    BY <1>6 DEF SessionExpires, Others, committed
  <1>7. ASSUME NEW k \in Ticket, TicketExpires(k) PROVE UNCHANGED row
    BY <1>7 DEF TicketExpires, Others, committed
  <1>8. ASSUME UNCHANGED vars PROVE UNCHANGED row
    BY <1>8 DEF vars
  <1>9. row'[s] = row[s] \/ Follows(row[s], row'[s])
           \/ /\ row'[s].state = "gone"
              /\ row'[s].user = row[s].user /\ row'[s].app = row[s].app
    BY <1>2, <1>3, <1>4, <1>5, <1>6, <1>7, <1>8 DEF Next, BeginAny
  <1> QED
    BY <1>9 DEF Follows, Issued

\* A change under way: the sessions it found when it began are still the
\* user's, and once it has picked and flushed it has every live one of them.
Ending(w) ==
    req[w].op = "change" =>
       /\ pc[w] \in {"write", "pick", "revoke", "done"}
       /\ \A s \in req[w].known :
             /\ s \in Session /\ Issued(s)
             /\ row[s].user = req[w].user /\ row[s].app = req[w].app
             /\ pc[w] = "revoke" /\ row[s].state = "live" => s \in cand[w]
             /\ pc[w] = "done" /\ row[s].state = "live"
                   => Holds(w, s) /\ copy[w][s].state = "revoked"

ChangeInv == \A w \in Worker : Ending(w)

LEMMA InitChange == Init => ChangeInv
  BY DEF Init, ChangeInv, Ending, NoRequest

\* The step of another request, or of the world.
LEMMA OthersEnding ==
  ASSUME RowInv, [Next]_vars, NEW w \in Worker, Ending(w),
         pc'[w] = pc[w], req'[w] = req[w], cand'[w] = cand[w], copy'[w] = copy[w]
  PROVE  Ending(w)'
  BY RowsKeep DEF Ending, Holds

\* What a request's step leaves alone.
LEMMA OwnStep ==
  ASSUME RowInv, Picked, NEW w \in Worker,
         \/ BeginAny(w) \/ Rehash(w) \/ Open(w) \/ Rotate(w) \/ WritePassword(w)
         \/ Pick(w) \/ Revoke(w) \/ Mint(w) \/ Commit(w) \/ Abort(w),
         NEW v \in Worker \ {w}
  PROVE  pc'[v] = pc[v] /\ req'[v] = req[v] /\ cand'[v] = cand[v] /\ copy'[v] = copy[v]
  <1>1. CASE BeginAny(w)
    BY <1>1 DEF BeginAny, BeginSignin, BeginRefresh, BeginLogout, BeginChange, BeginBridge,
                BeginExchange, Begin, flushed, RowInv, Begun
  <1>2. CASE \/ Rehash(w) \/ Open(w) \/ Rotate(w) \/ WritePassword(w) \/ Pick(w) \/ Revoke(w)
             \/ Mint(w)
    BY <1>2 DEF Rehash, Open, Rotate, WritePassword, Pick, Revoke, Mint, Advance, flushed,
                RowInv, Begun, Picked, Shape
  <1>3. CASE Commit(w) \/ Abort(w)
    BY <1>3 DEF Commit, Abort, EndRequest, RowInv, Begun, Picked, Shape
  <1> QED
    BY <1>1, <1>2, <1>3

LEMMA BeginEnding ==
  ASSUME RowInv, NEW w \in Worker, BeginAny(w), Ending(w)
  PROVE  Ending(w)'
  <1>1. ASSUME NEW r, NEW stage, Begin(w, r, stage), r.op # "change"
        PROVE  Ending(w)'
    BY <1>1 DEF Begin, Ending, RowInv, Begun
  <1>2. ASSUME NEW u \in User, BeginSignin(w, u) PROVE Ending(w)'
    BY <1>1, <1>2 DEF BeginSignin, NoRequest
  <1>3. ASSUME NEW s \in Session, BeginRefresh(w, s) \/ BeginLogout(w, s) PROVE Ending(w)'
    BY <1>1, <1>3 DEF BeginRefresh, BeginLogout, NoRequest
  <1>4. ASSUME NEW s \in Session, BeginChange(w, s) PROVE Ending(w)'
    <2> DEFINE u == row[s].user
               r == [NoRequest EXCEPT !.op = "change", !.session = s, !.user = u,
                        !.app = Home[u], !.known = LiveIn(u, Home[u])]
    <2>1. Begin(w, r, "write")
      BY <1>4 DEF BeginChange
    <2>2. r.user = u /\ r.app = Home[u] /\ r.known = LiveIn(u, Home[u])
      BY DEF NoRequest
    <2>3. \A z \in LiveIn(u, Home[u]) : /\ z \in Session /\ Issued(z)
                                        /\ row[z].user = u /\ row[z].app = Home[u]
      BY DEF LiveIn, Issued
    <2> HIDE DEF u, r
    <2>4. req'[w] = r /\ pc'[w] = "write" /\ UNCHANGED row
      BY <2>1 DEF Begin, RowInv, Begun, committed
    <2> QED
      BY <2>2, <2>3, <2>4 DEF Ending, Issued
  <1>5. ASSUME NEW s \in Session, NEW p \in App, BeginBridge(w, s, p) PROVE Ending(w)'
    BY <1>1, <1>5 DEF BeginBridge, NoRequest
  <1>6. ASSUME NEW k \in Ticket, NEW p \in App, BeginExchange(w, k, p) PROVE Ending(w)'
    <2>1. CASE UNCHANGED <<row, pc, req, cand, copy>>
      BY <2>1 DEF Ending, Issued, Holds
    <2>2. CASE ~UNCHANGED <<row, pc, req, cand, copy>>
      BY <1>1, <1>6, <2>2 DEF BeginExchange, NoRequest, committed, flushed
    <2> QED
      BY <2>1, <2>2
  <1> QED
    BY <1>2, <1>3, <1>4, <1>5, <1>6 DEF BeginAny

LEMMA OwnEnding ==
  ASSUME RowInv, Picked, NEW w \in Worker, Ending(w),
         \/ Rehash(w) \/ Open(w) \/ Rotate(w) \/ WritePassword(w)
         \/ Pick(w) \/ Revoke(w) \/ Mint(w) \/ Commit(w) \/ Abort(w)
  PROVE  Ending(w)'
  <1>1. CASE Rehash(w) \/ Open(w) \/ Rotate(w) \/ Mint(w)
    <2>1. req'[w].op # "change"
      BY <1>1 DEF Ending, Rehash, Open, Rotate, Mint, Advance
    <2> QED
      BY <2>1 DEF Ending
  <1>2. CASE WritePassword(w)
    BY <1>2 DEF Ending, WritePassword, Advance, committed, Issued, RowInv, Begun
  <1>3. CASE Pick(w)
    <2>1. cand'[w] = Ends(w) /\ pc'[w] = "revoke" /\ UNCHANGED <<row, req>>
      BY <1>3 DEF Pick, Advance, committed, Picked, RowInv, Begun
    <2> QED
      BY <2>1 DEF Ending, Ends, LiveIn, Issued
  <1>4. CASE Revoke(w)
    <2> DEFINE S == {s \in cand[w] : row[s].state = "live"}
               m == [s \in S |-> [row[s] EXCEPT !.state = "revoked"]]
    <2>1. DOMAIN m = S /\ \A s \in S : m[s].state = "revoked"
      BY DEF Picked, RowInv, Shape, Columns
    <2>2. copy' = [copy EXCEPT ![w] = m]
      BY <1>4 DEF Revoke
    <2> HIDE DEF m
    <2>3. copy'[w] = m /\ pc[w] = "revoke" /\ pc'[w] = "done" /\ UNCHANGED <<row, req>>
      BY <1>4, <2>2 DEF Revoke, Advance, committed, RowInv, Begun, Shape
    <2> QED
      BY <2>1, <2>3 DEF Ending, Holds, Issued
  <1>5. CASE Commit(w) \/ Abort(w)
    BY <1>5 DEF Ending, Commit, Abort, EndRequest, NoRequest, RowInv, Begun
  <1> QED
    BY <1>1, <1>2, <1>3, <1>4, <1>5

LEMMA StepChange == RowInv /\ Picked /\ ChangeInv /\ [Next]_vars => ChangeInv'
  <1> SUFFICES ASSUME RowInv, Picked, ChangeInv, [Next]_vars, NEW w \in Worker
               PROVE  Ending(w)'
    BY DEF ChangeInv
  <1>1. Ending(w)
    BY DEF ChangeInv
  <1>2. ASSUME UNCHANGED <<pc, req, cand, copy>> PROVE Ending(w)'
    BY <1>1, <1>2, OthersEnding
  <1>3. ASSUME NEW v \in Worker,
               \/ BeginAny(v) \/ Rehash(v) \/ Open(v) \/ Rotate(v) \/ WritePassword(v)
               \/ Pick(v) \/ Revoke(v) \/ Mint(v) \/ Commit(v) \/ Abort(v)
        PROVE  Ending(w)'
    <2>1. CASE v = w
      BY <1>1, <1>3, <2>1, BeginEnding, OwnEnding
    <2>2. CASE v # w
      BY <1>1, <1>3, <2>2, OwnStep, OthersEnding
    <2> QED
      BY <2>1, <2>2
  <1>4. ASSUME NEW s \in Session, SessionExpires(s) \/ Clean(s)
        PROVE  UNCHANGED <<pc, req, cand, copy>>
    BY <1>4 DEF SessionExpires, Clean, Others, flushed
  <1>5. ASSUME NEW k \in Ticket, TicketExpires(k) PROVE UNCHANGED <<pc, req, cand, copy>>
    BY <1>5 DEF TicketExpires, Others, flushed
  <1> QED
    BY <1>2, <1>3, <1>4, <1>5 DEF Next, BeginAny, vars

-----------------------------------------------------------------------------
(* The theorems.                                                           *)

LEMMA InitPicked == Init => Picked
  BY DEF Init, Picked

LEMMA RowsAlways == Spec => [](RowInv /\ Picked)
  BY InitRows, InitPicked, StepRows, StepPicked, PTL DEF Spec

\* A refresh, which selects its session without a lock and writes it later,
\* never makes a revoked session usable again.
THEOREM RevokedStays == Spec => RevokedIsFinal
  <1>1. RowInv /\ [Next]_vars =>
           [\A s \in Session : row[s].state \in {"revoked", "gone"}
                                  => row'[s].state \in {"revoked", "gone"}]_vars
    BY RowsKeep DEF Issued
  <1> QED
    BY <1>1, RowsAlways, PTL DEF Spec, RevokedIsFinal

\* However many refreshes of however many sessions overlap, a refresh token
\* that was redeemed is never again the one a live session accepts.
THEOREM RedeemedStaysDead == Spec => []RedeemedIsDead
  <1>1. TokenInv => RedeemedIsDead
    BY DEF TokenInv
  <1> QED
    BY <1>1, RowsAlways, InitTokens, StepTokens, PTL DEF Spec

\* However exchanges of a ticket overlap, crash and are repeated, at most one
\* session is ever opened with it.
THEOREM TicketOpensOnce == Spec => []TicketOpensOne
  <1>1. TicketInv => TicketOpensOne
    BY DEF TicketInv, TicketOpensOne
  <1> QED
    BY <1>1, RowsAlways, InitTickets, StepTickets, PTL DEF Spec

\* The commit of a password change leaves none of the other sessions it found
\* live, however many refreshes, log-outs and changes overlap it.
THEOREM OthersAreEnded == Spec => ChangeEndsOthers
  <1>1. RowInv /\ ChangeInv /\ [Next]_vars =>
           [\A w \in Worker : Changes(w) =>
               \A s \in req[w].known \ {req[w].session} : row'[s].state # "live"]_vars
    <2> SUFFICES ASSUME RowInv, ChangeInv, [Next]_vars, NEW w \in Worker, Changes(w),
                        NEW s \in req[w].known \ {req[w].session}
                 PROVE  row'[s].state # "live"
      OBVIOUS
    <2>1. /\ s \in Session /\ Issued(s)
          /\ row[s].state = "live" => Holds(w, s) /\ copy[w][s].state = "revoked"
      BY DEF ChangeInv, Ending, Changes
    <2>2. row'[s].state = "live" => row[s].state = "live"
      BY <2>1, RowsKeep
    <2>3. ASSUME Commit(w) PROVE row'[s] = IF Holds(w, s) THEN copy[w][s] ELSE row[s]
      BY <2>1, <2>3 DEF Commit, Holds
    <2>4. Commit(w)
      <3>1. changes' # changes
        BY DEF Changes
      <3>2. PICK v \in Worker : Commit(v)
        <4>1. ASSUME NEW v \in Worker,
                     \/ BeginAny(v) \/ Rehash(v) \/ Open(v) \/ Rotate(v) \/ WritePassword(v)
                     \/ Pick(v) \/ Revoke(v) \/ Mint(v) \/ Abort(v)
              PROVE  UNCHANGED changes
          BY <4>1 DEF BeginAny, BeginSignin, BeginRefresh, BeginLogout, BeginChange,
                      BeginBridge, BeginExchange, Begin, Rehash, Open, Rotate, WritePassword,
                      Pick, Revoke, Mint, Abort, Advance, committed
        <4>2. ASSUME NEW z \in Session, SessionExpires(z) \/ Clean(z) PROVE UNCHANGED changes
          BY <4>2 DEF SessionExpires, Clean, Others, committed
        <4>3. ASSUME NEW k \in Ticket, TicketExpires(k) PROVE UNCHANGED changes
          BY <4>3 DEF TicketExpires, Others, committed
        <4> QED
          BY <3>1, <4>1, <4>2, <4>3 DEF Next, BeginAny, vars
      <3>3. pc'[v] = "idle" /\ \A x \in Worker \ {v} : pc'[x] = pc[x]
        BY <3>2 DEF Commit, EndRequest, RowInv, Begun
      <3> QED
        BY <3>2, <3>3 DEF Changes
    <2> QED
      BY <2>1, <2>2, <2>3, <2>4
  <1> QED
    BY <1>1, RowsAlways, InitChange, StepChange, PTL DEF Spec, ChangeEndsOthers
=============================================================================
