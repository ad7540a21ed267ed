-------------------------- MODULE AuthAttemptsProofs --------------------------
(***************************************************************************)
(* An attempt is a one-time secret, for any number of requests, codes,     *)
(* addresses and applications: what is written under a row lock follows    *)
(* from what is committed, and nobody else has written it meanwhile.  A    *)
(* new credential replaces all that its statement could see.               *)
(***************************************************************************)
EXTENDS AuthAttempts, FiniteSetTheorems, TLAPS

Status == {"absent", "pending", "consumed", "revoked"}

\* What one transaction may make of an attempt it has locked or inserted.
Follows(old, new) ==
    /\ "status" \in DOMAIN new
    /\ \/ old = "absent" /\ new.status = "pending"
       \/ old = "pending" /\ new.status \in {"pending", "consumed", "revoked"}

Shape ==
    /\ attempt = [a \in Attempt |-> attempt[a]]
    /\ \A a \in Attempt : "status" \in DOMAIN attempt[a] /\ attempt[a].status \in Status
    /\ opened = [a \in Attempt |-> opened[a]]
    /\ copy = [w \in Worker |-> copy[w]]

Alone ==
    \A v, w \in Worker : \A a \in Attempt : Holds(v, a) /\ Holds(w, a) => v = w

HeldFollows ==
    \A w \in Worker : \A a \in Attempt :
        Holds(w, a) => Follows(attempt[a].status, copy[w][a])

\* The strengthening of SingleUse that every step preserves.
LockInv == Shape /\ Alone /\ HeldFollows /\ SingleUse

-----------------------------------------------------------------------------
LEMMA InitLock == Init => LockInv
  <1> SUFFICES ASSUME Init PROVE LockInv
    OBVIOUS
  <1>1. \A w \in Worker : DOMAIN copy[w] = {}
    BY DEF Init
  <1>2. \A a \in Attempt : attempt[a].status = "absent" /\ "status" \in DOMAIN attempt[a]
    BY DEF Init, NoAttempt
  <1>3. Shape
    BY <1>2 DEF Init, Shape, Status
  <1>4. Alone /\ HeldFollows
    BY <1>1 DEF Alone, HeldFollows, Holds
  <1>5. SingleUse
    BY <1>2 DEF Init, SingleUse
  <1> QED
    BY <1>3, <1>4, <1>5 DEF LockInv

\* A statement that writes g[a] to rows nobody else has locked.
LEMMA FlushLock ==
  ASSUME LockInv, NEW w \in Worker, NEW S, NEW g,
         copy' = [copy EXCEPT ![w] = [a \in DOMAIN copy[w] \union S |->
                                        IF a \in S THEN g[a] ELSE copy[w][a]]],
         UNCHANGED <<attempt, opened>>,
         \A a \in S : a \in Attempt =>
             /\ \A v \in Worker \ {w} : ~Holds(v, a)
             /\ Follows(attempt[a].status, g[a])
  PROVE  LockInv'
  <1>1. /\ DOMAIN copy'[w] = DOMAIN copy[w] \union S
        /\ \A a \in DOMAIN copy[w] \union S :
              copy'[w][a] = IF a \in S THEN g[a] ELSE copy[w][a]
        /\ \A v \in Worker \ {w} : copy'[v] = copy[v]
    BY DEF LockInv, Shape
  <1>2. Shape'
    BY DEF LockInv, Shape
  <1>3. Alone'
    BY <1>1 DEF LockInv, Alone, Holds
  <1>4. HeldFollows'
    <2> SUFFICES ASSUME NEW v \in Worker, NEW a \in Attempt, Holds(v, a)'
                 PROVE  Follows(attempt[a].status, copy'[v][a])
      BY DEF HeldFollows
    <2>1. CASE v = w /\ a \in S
      BY <2>1, <1>1
    <2>2. CASE ~(v = w /\ a \in S)
      <3>1. Holds(v, a) /\ copy'[v][a] = copy[v][a]
        BY <2>2, <1>1 DEF Holds
      <3> QED
        BY <3>1 DEF LockInv, HeldFollows
    <2> QED
      BY <2>1, <2>2
  <1>5. SingleUse'
    BY DEF LockInv, SingleUse
  <1> QED
    BY <1>2, <1>3, <1>4, <1>5 DEF LockInv

\* A statement that picks its rows, locks them and writes those still pending.
LEMMA LiveFollows ==
  ASSUME LockInv, NEW w \in Worker, RowsFree(w), NEW a \in Live(w), a \in Attempt
  PROVE  /\ \A v \in Worker \ {w} : ~Holds(v, a)
         /\ attempt[a].status = "pending" /\ "status" \in DOMAIN attempt[a]
         /\ Follows(attempt[a].status, Consumed(a))
         /\ Follows(attempt[a].status, Missed(a))
         /\ Follows(attempt[a].status, [attempt[a] EXCEPT !.status = "revoked"])
  <1>1. a \in cand[w] /\ attempt[a].status = "pending"
    BY DEF Live
  <1>2. "status" \in DOMAIN attempt[a]
    BY DEF LockInv, Shape
  <1>3. \A v \in Worker \ {w} : ~Holds(v, a)
    BY <1>1 DEF RowsFree
  <1>4. Follows(attempt[a].status, Consumed(a))
    BY <1>1, <1>2 DEF Follows, Consumed
  <1>5. Follows(attempt[a].status, [attempt[a] EXCEPT !.status = "revoked"])
    BY <1>1, <1>2 DEF Follows
  <1>6. Follows(attempt[a].status, Missed(a))
    <2> DEFINE r == [attempt[a] EXCEPT !.guesses = @ + 1]
               s == IF attempt[a].guesses + 1 >= MaxGuesses THEN "revoked" ELSE r.status
    <2>1. Missed(a) = [r EXCEPT !.status = s]
      BY DEF Missed
    <2>2. "status" \in DOMAIN r /\ r.status = "pending"
      BY <1>1, <1>2
    <2>3. s \in {"pending", "revoked"}
      BY <2>2
    <2> HIDE DEF r, s
    <2> QED
      BY <1>1, <2>1, <2>2, <2>3 DEF Follows
  <1> QED
    BY <1>1, <1>2, <1>3, <1>4, <1>5, <1>6

\* What keeps the committed rows and everybody's flushed ones.
LEMMA IdleLock ==
  ASSUME LockInv, UNCHANGED <<attempt, opened, copy>>
  PROVE  LockInv'
  BY DEF LockInv, Shape, Alone, HeldFollows, Holds, SingleUse

LEMMA RevokeLock ==
  ASSUME LockInv, NEW w \in Worker, IssueRevoke(w)
  PROVE  LockInv'
  <1> DEFINE g == [a \in Live(w) |-> [attempt[a] EXCEPT !.status = "revoked"]]
  <1>1. RowsFree(w) /\ UNCHANGED <<attempt, opened>>
    BY DEF IssueRevoke, committed
  <1>2. copy' = [copy EXCEPT ![w] = [a \in DOMAIN copy[w] \union Live(w) |->
                                       IF a \in Live(w) THEN g[a] ELSE copy[w][a]]]
    BY DEF IssueRevoke, Written
  <1>3. \A a \in Live(w) : a \in Attempt =>
             /\ \A v \in Worker \ {w} : ~Holds(v, a)
             /\ Follows(attempt[a].status, g[a])
    BY <1>1, LiveFollows
  <1> HIDE DEF g
  <1> QED
    BY <1>1, <1>2, <1>3, FlushLock

LEMMA InsertLock ==
  ASSUME LockInv, NEW w \in Worker, IssueInsert(w)
  PROVE  LockInv'
  <1> DEFINE Fresh == [status |-> "pending", type |-> req[w].type, app |-> req[w].app,
                       email |-> req[w].email, guesses |-> 0,
                       code |-> IF req[w].type = "admin_login" \/ req[w].app \in UsesCode
                                THEN req[w].code ELSE NoCode]
  <1>1. PICK b \in Attempt :
           /\ attempt[b].status = "absent"
           /\ \A v \in Worker : ~Holds(v, b)
           /\ copy' = [copy EXCEPT ![w] = [a \in DOMAIN copy[w] \union {b} |->
                          IF a \in {b} THEN Fresh ELSE copy[w][a]]]
    BY DEF IssueInsert, Written
  <1> DEFINE S == {b}
             g == [a \in S |-> Fresh]
  <1>2. UNCHANGED <<attempt, opened>>
    BY DEF IssueInsert, committed
  <1>3. copy' = [copy EXCEPT ![w] = [a \in DOMAIN copy[w] \union S |->
                                       IF a \in S THEN g[a] ELSE copy[w][a]]]
    BY <1>1
  <1>4. \A a \in S : a \in Attempt =>
             /\ \A v \in Worker \ {w} : ~Holds(v, a)
             /\ Follows(attempt[a].status, g[a])
    BY <1>1 DEF Follows
  <1> HIDE DEF S, g, Fresh
  <1> QED
    BY <1>2, <1>3, <1>4, FlushLock

\* What the four ends of a redemption have in common.
LEMMA RedeemLock ==
  ASSUME LockInv, NEW w \in Worker, RowsFree(w), NEW S \in SUBSET Live(w), NEW g,
         UNCHANGED <<attempt, opened>>,
         copy' = [copy EXCEPT ![w] = [a \in DOMAIN copy[w] \union S |->
                                        IF a \in S THEN g[a] ELSE copy[w][a]]],
         \A a \in S : g[a] \in {Consumed(a), Missed(a)}
  PROVE  LockInv'
  <1>1. \A a \in S : a \in Attempt =>
             /\ \A v \in Worker \ {w} : ~Holds(v, a)
             /\ Follows(attempt[a].status, g[a])
    BY LiveFollows
  <1> QED
    BY <1>1, FlushLock

LEMMA ConsumeLock ==
  ASSUME LockInv, NEW w \in Worker, RowsFree(w), NEW S \in SUBSET Live(w),
         NEW stage, Finish(w, S, Consumed, stage)
  PROVE  LockInv'
  <1> DEFINE g == [a \in S |-> Consumed(a)]
  <1>1. copy' = [copy EXCEPT ![w] = [a \in DOMAIN copy[w] \union S |->
                                       IF a \in S THEN g[a] ELSE copy[w][a]]]
    BY DEF Finish, Written
  <1>2. UNCHANGED <<attempt, opened>>
    BY DEF Finish, committed
  <1>3. \A a \in S : g[a] \in {Consumed(a), Missed(a)}
    OBVIOUS
  <1> HIDE DEF g
  <1> QED
    BY <1>1, <1>2, <1>3, RedeemLock

LEMMA WrongLock ==
  ASSUME LockInv, NEW w \in Worker, Wrong(w)
  PROVE  LockInv'
  <1> DEFINE S == {a \in Live(w) : attempt[a].code # NoCode}
             g == [a \in S |-> Missed(a)]
  <1>1. copy' = [copy EXCEPT ![w] = [a \in DOMAIN copy[w] \union S |->
                                       IF a \in S THEN g[a] ELSE copy[w][a]]]
    BY DEF Wrong, Finish, Written
  <1>2. UNCHANGED <<attempt, opened>> /\ RowsFree(w)
    BY DEF Wrong, Finish, committed
  <1>3. S \in SUBSET Live(w) /\ \A a \in S : g[a] \in {Consumed(a), Missed(a)}
    OBVIOUS
  <1> HIDE DEF g, S
  <1> QED
    BY <1>1, <1>2, <1>3, RedeemLock

LEMMA RightLock ==
  ASSUME LockInv, NEW w \in Worker, GuessRight(w) \/ AdminRight(w) \/ LinkRight(w)
  PROVE  LockInv'
  <1>1. RowsFree(w) /\ Right(w) \subseteq Live(w)
    BY DEF GuessRight, AdminRight, LinkRight, Right
  <1>2. CASE GuessRight(w)
    <2>1. PICK a \in Right(w) : Finish(w, {a}, Consumed, "done")
      BY <1>2 DEF GuessRight
    <2>2. {a} \in SUBSET Live(w)
      BY <1>1
    <2> QED
      BY <1>1, <2>1, <2>2, ConsumeLock
  <1>3. CASE AdminRight(w)
    BY <1>1, <1>3, ConsumeLock DEF AdminRight
  <1>4. CASE LinkRight(w)
    BY <1>1, <1>4, ConsumeLock DEF LinkRight
  <1> QED
    BY <1>2, <1>3, <1>4

-----------------------------------------------------------------------------
(* The end of a request.                                                   *)

LEMMA LetGo ==
  ASSUME LockInv, NEW w \in Worker, EndSession(w)
  PROVE  /\ \A a \in Attempt : ~Holds(w, a)'
         /\ \A v \in Worker \ {w} : copy'[v] = copy[v]
         /\ copy' = [v \in Worker |-> copy'[v]]
  <1>1. DOMAIN << >> = {}
    OBVIOUS
  <1> QED
    BY <1>1 DEF EndSession, LockInv, Shape, Holds

\* What a commit makes of each attempt is a step of a one-time secret.
LEMMA CommitRow ==
  ASSUME LockInv, NEW w \in Worker, Commit(w), NEW a \in Attempt
  PROVE  /\ "status" \in DOMAIN attempt'[a]
         /\ \/ /\ attempt'[a].status = attempt[a].status /\ opened'[a] = opened[a]
               /\ ~Holds(w, a) => attempt'[a] = attempt[a]
            \/ /\ Holds(w, a) /\ opened'[a] = opened[a]
               /\ attempt[a].status = "absent" /\ attempt'[a].status = "pending"
            \/ /\ Holds(w, a) /\ opened'[a] = opened[a]
               /\ attempt[a].status = "pending" /\ attempt'[a].status = "revoked"
            \/ /\ Holds(w, a) /\ opened'[a] = opened[a] + 1
               /\ attempt[a].status = "pending" /\ attempt'[a].status = "consumed"
  <1>1. /\ attempt'[a] = IF Holds(w, a) THEN copy[w][a] ELSE attempt[a]
        /\ opened'[a] = opened[a] + (IF a \in Opens(w) THEN 1 ELSE 0)
    BY DEF Commit
  <1>2. opened[a] \in Nat /\ "status" \in DOMAIN attempt[a]
    BY DEF LockInv, SingleUse, Shape
  <1>3. CASE ~Holds(w, a)
    BY <1>1, <1>2, <1>3 DEF Opens, Holds
  <1>4. CASE Holds(w, a)
    <2>1. Follows(attempt[a].status, copy[w][a])
      BY <1>4 DEF LockInv, HeldFollows
    <2>2. a \in Opens(w) <=> copy[w][a].status = "consumed"
      BY <1>4 DEF Opens, Holds
    <2>3. attempt'[a] = copy[w][a]
      BY <1>1, <1>4
    <2> QED
      BY <1>1, <1>2, <1>4, <2>1, <2>2, <2>3 DEF Follows
  <1> QED
    BY <1>3, <1>4

LEMMA CommitLock ==
  ASSUME LockInv, NEW w \in Worker, Commit(w)
  PROVE  LockInv'
  <1>1. /\ \A a \in Attempt : ~Holds(w, a)'
        /\ \A v \in Worker \ {w} : copy'[v] = copy[v]
        /\ copy' = [v \in Worker |-> copy'[v]]
    BY LetGo DEF Commit
  <1>2. /\ attempt' = [a \in Attempt |-> attempt'[a]]
        /\ opened' = [a \in Attempt |-> opened'[a]]
    BY DEF Commit
  <1>3. \A a \in Attempt : "status" \in DOMAIN attempt'[a] /\ attempt'[a].status \in Status
    BY CommitRow DEF LockInv, Shape, Status
  <1>4. Shape'
    BY <1>1, <1>2, <1>3 DEF Shape
  <1>5. \A v \in Worker : \A a \in Attempt :
           Holds(v, a)' => v # w /\ Holds(v, a) /\ copy'[v] = copy[v]
    BY <1>1 DEF Holds
  <1>6. Alone'
    BY <1>5 DEF LockInv, Alone
  <1>7. HeldFollows'
    <2> SUFFICES ASSUME NEW v \in Worker, NEW a \in Attempt, Holds(v, a)'
                 PROVE  Follows(attempt'[a].status, copy'[v][a])
      BY DEF HeldFollows
    <2>1. v # w /\ Holds(v, a) /\ copy'[v] = copy[v]
      BY <1>5
    <2>2. ~Holds(w, a)
      BY <2>1 DEF LockInv, Alone
    <2>3. attempt'[a] = attempt[a]
      BY <2>2 DEF Commit
    <2> QED
      BY <2>1, <2>3 DEF LockInv, HeldFollows
  <1>8. SingleUse'
    <2> SUFFICES ASSUME NEW a \in Attempt
                 PROVE  opened'[a] = IF attempt'[a].status = "consumed" THEN 1 ELSE 0
      BY DEF SingleUse
    <2>1. opened[a] = IF attempt[a].status = "consumed" THEN 1 ELSE 0
      BY DEF LockInv, SingleUse
    <2> QED
      BY <2>1, CommitRow
  <1> QED
    BY <1>4, <1>6, <1>7, <1>8 DEF LockInv

LEMMA EndLock ==
  ASSUME LockInv, NEW w \in Worker, EndSession(w), UNCHANGED <<attempt, opened>>
  PROVE  LockInv'
  <1>1. /\ \A a \in Attempt : ~Holds(w, a)'
        /\ \A v \in Worker \ {w} : copy'[v] = copy[v]
        /\ copy' = [v \in Worker |-> copy'[v]]
    BY LetGo
  <1>2. \A v \in Worker : \A a \in Attempt :
           Holds(v, a)' => Holds(v, a) /\ copy'[v] = copy[v]
    BY <1>1 DEF Holds
  <1> QED
    BY <1>1, <1>2 DEF LockInv, Shape, Alone, HeldFollows, SingleUse

-----------------------------------------------------------------------------
\* A request that begins has written nothing.
LEMMA StartKeeps ==
  ASSUME NEW w \in Worker, Start(w)
  PROVE  UNCHANGED <<attempt, opened, copy>>
  <1>1. ASSUME NEW r, NEW stage, Begin(w, r, stage)
        PROVE  UNCHANGED <<attempt, opened, copy>>
    BY <1>1 DEF Begin, committed
  <1>2. ASSUME NEW p \in App, NEW e \in Email, NEW c \in Code,
               \/ BeginSignup(w, p, e, c) \/ BeginSignin(w, p, e, c)
               \/ BeginDashboard(w, p, e, c)
        PROVE  UNCHANGED <<attempt, opened, copy>>
    BY <1>1, <1>2 DEF BeginSignup, BeginSignin, BeginDashboard
  <1>3. ASSUME NEW p \in App, NEW e \in Email, NEW c \in Code, NEW route \in Routes,
               BeginGuess(w, p, e, c, route) \/ BeginAdminGuess(w, e, c, route)
        PROVE  UNCHANGED <<attempt, opened, copy>>
    BY <1>1, <1>3 DEF BeginGuess, BeginAdminGuess
  <1>4. ASSUME NEW e \in Email, NEW c \in Code,
               \/ BeginAdmin(w, e, c)
               \/ \E route \in Routes : BeginAdminGuess(w, e, c, route)
        PROVE  UNCHANGED <<attempt, opened, copy>>
    BY <1>1, <1>4 DEF BeginAdmin, BeginAdminGuess
  <1>5. ASSUME NEW p \in App, NEW a \in Attempt, BeginLink(w, p, a)
        PROVE  UNCHANGED <<attempt, opened, copy>>
    BY <1>1, <1>5 DEF BeginLink
  <1> QED
    BY <1>2, <1>3, <1>4, <1>5 DEF Start

\* Everything but Commit keeps the attempts and what they have opened.
LEMMA StepLock ==
  ASSUME LockInv, [Next]_vars
  PROVE  /\ LockInv'
         /\ (\E w \in Worker : Commit(w)) \/ UNCHANGED <<attempt, opened>>
  <1>1. CASE UNCHANGED vars
    BY <1>1, IdleLock DEF vars
  <1>2. ASSUME NEW w \in Worker, Start(w) PROVE UNCHANGED <<attempt, opened, copy>>
    BY <1>2, StartKeeps
  <1>3. ASSUME NEW w \in Worker, Advance(w)
        PROVE  LockInv' /\ UNCHANGED <<attempt, opened>>
    <2>1. CASE InsertUser(w)
      BY <2>1, IdleLock DEF InsertUser, committed
    <2>2. CASE IssuePick(w)
      BY <2>2, IdleLock DEF IssuePick, committed
    <2>3. CASE IssueRevoke(w)
      BY <2>3, RevokeLock DEF IssueRevoke, committed
    <2>4. CASE IssueInsert(w)
      BY <2>4, InsertLock DEF IssueInsert, committed
    <2>5. CASE GuessPick(w) \/ AdminPick(w) \/ LinkPick(w)
      BY <2>5, IdleLock DEF GuessPick, AdminPick, LinkPick, Pick, committed
    <2>6. CASE GuessRight(w) \/ AdminRight(w) \/ LinkRight(w)
      BY <2>6, RightLock DEF GuessRight, AdminRight, LinkRight, Finish, committed
    <2>7. CASE Wrong(w)
      BY <2>7, WrongLock DEF Wrong, Finish, committed
    <2> QED
      BY <1>3, <2>1, <2>2, <2>3, <2>4, <2>5, <2>6, <2>7 DEF Advance
  <1>4. ASSUME NEW w \in Worker, Commit(w) PROVE LockInv'
    BY <1>4, CommitLock
  <1>5. ASSUME NEW w \in Worker, Refuse(w) \/ Abort(w)
        PROVE  LockInv' /\ UNCHANGED <<attempt, opened>>
    BY <1>5, EndLock DEF Refuse, Abort, committed
  <1>6. ASSUME NEW a \in Attempt, Expire(a) PROVE UNCHANGED <<attempt, opened, copy>>
    BY <1>6 DEF Expire, committed, session
  <1> QED
    BY <1>1, <1>2, <1>3, <1>4, <1>5, <1>6, IdleLock DEF Next

\* For any number of requests and attempts, an attempt has opened one session
\* exactly when it is consumed (tokens.py: FOR UPDATE and the status again).
THEOREM AttemptsSingleUse == Spec => []SingleUse
  <1>1. LockInv /\ [Next]_vars => LockInv'
    BY StepLock
  <1>2. LockInv => SingleUse
    BY DEF LockInv
  <1> QED
    BY <1>1, <1>2, InitLock, PTL DEF Spec

-----------------------------------------------------------------------------
\* Each step is a step of a one-time secret or leaves it alone.
LEMMA StepOneTime ==
  ASSUME LockInv, [Next]_vars
  PROVE  [OneTime!Next]_OneTime!vars
  <1> DEFINE st == [a \in Attempt |-> As[attempt[a].status]]
             nst == [a \in Attempt |-> As[attempt'[a].status]]
  <1>1. CASE UNCHANGED <<attempt, opened>>
    BY <1>1 DEF OneTime!vars
  <1>2. ASSUME NEW w \in Worker, Commit(w) PROVE OneTime!Next
    <2>1. LockInv'
      BY StepLock
    <2>2. nst \in [Attempt -> {"unissued", "live", "used", "void"}]
      BY <2>1 DEF LockInv, Shape, Status, As
    <2>3. opened' \in [Attempt -> Nat]
      <3>1. \A a \in Attempt : opened'[a] \in Nat
        BY <2>1 DEF LockInv, SingleUse
      <3>2. opened' = [a \in Attempt |-> opened'[a]]
        BY <2>1 DEF LockInv, Shape
      <3> QED
        BY <3>1, <3>2
    <2>4. ASSUME NEW a \in Attempt
          PROVE  \/ OneTime!Stays(a) \/ OneTime!Issue(a) \/ OneTime!Use(a)
                 \/ OneTime!Void(a)
      <3>1. st[a] = As[attempt[a].status] /\ nst[a] = As[attempt'[a].status]
        OBVIOUS
      <3> QED
        BY <1>2, <3>1, CommitRow
        DEF OneTime!Stays, OneTime!Issue, OneTime!Use, OneTime!Void, As
    <2> QED
      BY <2>2, <2>3, <2>4 DEF OneTime!Next
  <1> QED
    BY <1>1, <1>2, StepLock

\* The rows, their locks and the statements over them implement one-time
\* secrets: no interleaving of sign-ups, sign-ins, guesses and log-ins, with
\* refusals rolled back and crashes, consumes an attempt twice, revokes a
\* consumed one or revives a revoked one.
THEOREM ImplementsOneTimeSecret == Spec => ImplementsOneTime
  <1>1. Init => OneTime!Init
    BY DEF Init, NoAttempt, OneTime!Init, As
  <1>2. LockInv /\ [Next]_vars => LockInv'
    BY StepLock
  <1>3. LockInv /\ [Next]_vars => [OneTime!Next]_OneTime!vars
    BY StepOneTime
  <1> QED
    BY <1>1, <1>2, <1>3, InitLock, PTL DEF Spec, ImplementsOneTime, OneTime!Spec

-----------------------------------------------------------------------------
(* Guesses: a transaction that is committed answers what it counts.        *)

Counted(old, new, n) ==
    /\ "guesses" \in DOMAIN new
    /\ new.guesses = old.guesses + n
    /\ new.guesses <= MaxGuesses
    /\ new.status = "pending" => new.guesses < MaxGuesses

RowCounts ==
    \A a \in Attempt :
        /\ "guesses" \in DOMAIN attempt[a]
        /\ told[a] = attempt[a].guesses
        /\ told[a] \in Nat /\ told[a] <= MaxGuesses
        /\ attempt[a].status = "pending" => told[a] < MaxGuesses
        /\ attempt[a].status = "absent" => told[a] = 0

Miss(w) == IF pc[w] = "refused" THEN 1 ELSE 0

HeldCounts ==
    \A w \in Worker : \A a \in Attempt :
        Holds(w, a) => Counted(attempt[a], copy[w][a], Miss(w))

HoldsNone(w) == \A a \in Attempt : ~Holds(w, a)

\* Only links are answered by the JSON routes, and they count nothing.
StageCounts ==
    \A w \in Worker :
        /\ pc[w] \in {"idle", "user", "pick", "check"} => HoldsNone(w)
        /\ pc[w] \in {"pick", "check", "refused"} /\ req[w].route = "json"
             => req[w].op = "link"
        /\ pc[w] = "refused" /\ req[w].op = "link" => HoldsNone(w)

CountShape == /\ pc = [w \in Worker |-> pc[w]]
              /\ req = [w \in Worker |-> req[w]]

CountInv == LockInv /\ CountShape /\ RowCounts /\ HeldCounts /\ StageCounts

LEMMA InitCount == Init => CountInv
  <1> SUFFICES ASSUME Init PROVE CountInv
    OBVIOUS
  <1>1. \A a \in Attempt : /\ attempt[a].status = "absent" /\ attempt[a].guesses = 0
                           /\ "guesses" \in DOMAIN attempt[a] /\ told[a] = 0
    BY DEF Init, NoAttempt
  <1>2. \A w \in Worker : pc[w] = "idle" /\ DOMAIN copy[w] = {}
    BY DEF Init
  <1>3. MaxGuesses \in Nat \ {0}
    BY AttemptsAssumption
  <1>4. RowCounts
    BY <1>1, <1>3 DEF RowCounts
  <1>5. HeldCounts /\ StageCounts
    BY <1>2 DEF HeldCounts, StageCounts, HoldsNone, Holds
  <1>6. CountShape
    BY DEF Init, CountShape
  <1> QED
    BY <1>4, <1>5, <1>6, InitLock DEF CountInv

\* A step that writes nothing: it begins, picks rows or ends.
LEMMA MoveCount ==
  ASSUME CountInv, LockInv', NEW w \in Worker, NEW stage,
         UNCHANGED <<attempt, told, copy>>,
         pc[w] # "refused", stage # "refused",
         pc' = [pc EXCEPT ![w] = stage],
         req' = [req EXCEPT ![w] = req'[w]],
         stage \in {"idle", "user", "pick", "check"} => HoldsNone(w),
         stage \in {"pick", "check"} /\ req'[w].route = "json" => req'[w].op = "link"
  PROVE  CountInv'
  <1>1. /\ pc'[w] = stage
        /\ \A v \in Worker \ {w} : pc'[v] = pc[v] /\ req'[v] = req[v]
    BY DEF CountInv, CountShape
  <1>2. CountShape' /\ RowCounts'
    BY DEF CountInv, CountShape, RowCounts
  <1>3. \A v \in Worker : Miss(v)' = Miss(v)
    BY <1>1 DEF Miss
  <1>4. HeldCounts'
    BY <1>3 DEF CountInv, HeldCounts, Holds
  <1>5. StageCounts'
    BY <1>1 DEF CountInv, StageCounts, HoldsNone, Holds
  <1> QED
    BY <1>2, <1>4, <1>5 DEF CountInv

\* A statement that writes g[a] to the rows of S.
LEMMA FlushCount ==
  ASSUME CountInv, LockInv', NEW w \in Worker, NEW S, NEW g, NEW stage, NEW n,
         copy' = [copy EXCEPT ![w] = [a \in DOMAIN copy[w] \union S |->
                                        IF a \in S THEN g[a] ELSE copy[w][a]]],
         UNCHANGED <<attempt, told, req>>,
         pc' = [pc EXCEPT ![w] = stage],
         pc[w] # "refused", stage \notin {"idle", "user", "pick", "check"},
         n = IF stage = "refused" THEN 1 ELSE 0,
         \A a \in S : a \in Attempt => Counted(attempt[a], g[a], n),
         stage = "refused" => /\ HoldsNone(w)
                              /\ req[w].route = "json" => req[w].op = "link"
                              /\ req[w].op = "link" => S = {}
  PROVE  CountInv'
  <1>1. /\ DOMAIN copy'[w] = DOMAIN copy[w] \union S
        /\ \A a \in DOMAIN copy[w] \union S :
              copy'[w][a] = IF a \in S THEN g[a] ELSE copy[w][a]
        /\ \A v \in Worker \ {w} : copy'[v] = copy[v]
    BY DEF CountInv, LockInv, Shape
  <1>2. /\ pc'[w] = stage /\ pc' = [v \in Worker |-> pc'[v]]
        /\ \A v \in Worker \ {w} : pc'[v] = pc[v]
    BY DEF CountInv, CountShape
  <1>3. CountShape' /\ RowCounts'
    BY <1>2 DEF CountInv, CountShape, RowCounts
  <1>4. HeldCounts'
    <2> SUFFICES ASSUME NEW v \in Worker, NEW a \in Attempt, Holds(v, a)'
                 PROVE  Counted(attempt[a], copy'[v][a], Miss(v)')
      BY DEF HeldCounts, Counted
    <2>1. CASE v = w /\ a \in S
      BY <2>1, <1>1, <1>2 DEF Miss
    <2>2. CASE ~(v = w /\ a \in S)
      <3>1. Holds(v, a) /\ copy'[v][a] = copy[v][a]
        BY <2>2, <1>1 DEF Holds
      <3>2. Miss(v)' = Miss(v)
        BY <3>1, <1>2 DEF Miss, HoldsNone
      <3> QED
        BY <3>1, <3>2 DEF CountInv, HeldCounts
    <2> QED
      BY <2>1, <2>2
  <1>5. StageCounts'
    <2> SUFFICES ASSUME NEW v \in Worker
                 PROVE  /\ pc'[v] \in {"idle", "user", "pick", "check"} => HoldsNone(v)'
                        /\ pc'[v] \in {"pick", "check", "refused"} /\ req[v].route = "json"
                             => req[v].op = "link"
                        /\ pc'[v] = "refused" /\ req[v].op = "link" => HoldsNone(v)'
      BY DEF StageCounts
    <2>1. CASE v = w
      BY <2>1, <1>1, <1>2 DEF HoldsNone, Holds
    <2>2. CASE v # w
      BY <2>2, <1>1, <1>2 DEF CountInv, StageCounts, HoldsNone, Holds
    <2> QED
      BY <2>1, <2>2
  <1> QED
    BY <1>3, <1>4, <1>5 DEF CountInv

\* What becomes of a row's count.
LEMMA RowsCounted ==
  ASSUME CountInv, NEW a \in Attempt, attempt[a].status = "pending"
  PROVE  /\ Counted(attempt[a], Consumed(a), 0)
         /\ Counted(attempt[a], [attempt[a] EXCEPT !.status = "revoked"], 0)
         /\ Counted(attempt[a], Missed(a), 1)
  <1>1. /\ "guesses" \in DOMAIN attempt[a] /\ "status" \in DOMAIN attempt[a]
        /\ attempt[a].guesses \in Nat /\ attempt[a].guesses < MaxGuesses
    BY DEF CountInv, RowCounts, LockInv, Shape
  <1>2. MaxGuesses \in Nat
    BY AttemptsAssumption
  <1>3. Counted(attempt[a], Consumed(a), 0)
    BY <1>1, <1>2 DEF Counted, Consumed
  <1>4. Counted(attempt[a], [attempt[a] EXCEPT !.status = "revoked"], 0)
    BY <1>1, <1>2 DEF Counted
  <1>5. Counted(attempt[a], Missed(a), 1)
    <2> DEFINE r == [attempt[a] EXCEPT !.guesses = @ + 1]
               s == IF attempt[a].guesses + 1 >= MaxGuesses THEN "revoked" ELSE r.status
    <2>1. Missed(a) = [r EXCEPT !.status = s]
      BY DEF Missed
    <2>2. /\ "status" \in DOMAIN r /\ "guesses" \in DOMAIN r
          /\ r.guesses = attempt[a].guesses + 1
      BY <1>1
    <2>3. s = "pending" => attempt[a].guesses + 1 < MaxGuesses
      BY <1>1, <1>2
    <2> HIDE DEF r, s
    <2>4. /\ "guesses" \in DOMAIN Missed(a) /\ Missed(a).status = s
          /\ Missed(a).guesses = attempt[a].guesses + 1
      BY <2>1, <2>2
    <2> QED
      BY <1>1, <1>2, <2>3, <2>4 DEF Counted
  <1> QED
    BY <1>3, <1>4, <1>5

LEMMA StartCount ==
  ASSUME CountInv, LockInv', NEW w \in Worker, Start(w), "json" \notin Routes
  PROVE  CountInv'
  <1>1. ASSUME NEW r, NEW stage, Begin(w, r, stage), stage \in {"user", "issue", "pick"},
               stage = "pick" /\ r.route = "json" => r.op = "link"
        PROVE  CountInv'
    <2>1. HoldsNone(w) /\ pc[w] # "refused"
      BY <1>1 DEF Begin, CountInv, StageCounts
    <2>2. req'[w] = r /\ req' = [req EXCEPT ![w] = req'[w]]
      BY <1>1 DEF Begin, CountInv, CountShape
    <2>3. pc' = [pc EXCEPT ![w] = stage] /\ UNCHANGED <<attempt, told, copy>>
      BY <1>1 DEF Begin, committed
    <2> QED
      BY <1>1, <2>1, <2>2, <2>3, MoveCount
  <1>2. ASSUME NEW p \in App, NEW e \in Email, NEW c \in Code,
               \/ BeginSignup(w, p, e, c) \/ BeginSignin(w, p, e, c)
               \/ BeginDashboard(w, p, e, c)
        PROVE  CountInv'
    BY <1>1, <1>2 DEF BeginSignup, BeginSignin, BeginDashboard
  <1>3. ASSUME NEW p \in App, NEW e \in Email, NEW c \in Code, NEW route \in Routes,
               BeginGuess(w, p, e, c, route)
        PROVE  CountInv'
    <2>1. Ask("guess", p, {}, e, "none", c, NoToken, route).route # "json"
      BY DEF Ask
    <2> QED
      BY <1>1, <1>3, <2>1 DEF BeginGuess
  <1>4. ASSUME NEW e \in Email, NEW c \in Code, NEW route \in Routes,
               BeginAdminGuess(w, e, c, route)
        PROVE  CountInv'
    <2>1. Ask("adminguess", NoApp, {}, Lower[e], "none", c, NoToken, route).route # "json"
      BY DEF Ask
    <2> QED
      BY <1>1, <1>4, <2>1 DEF BeginAdminGuess
  <1>5. ASSUME NEW e \in Email, NEW c \in Code, BeginAdmin(w, e, c) PROVE CountInv'
    BY <1>1, <1>5 DEF BeginAdmin
  <1>6. ASSUME NEW p \in App, NEW a \in Attempt, BeginLink(w, p, a) PROVE CountInv'
    <2>1. Ask("link", p, {}, NoEmail, "none", NoCode, a, "json").op = "link"
      BY DEF Ask
    <2> QED
      BY <1>1, <1>6, <2>1 DEF BeginLink
  <1> QED
    BY <1>2, <1>3, <1>4, <1>5, <1>6 DEF Start

LEMMA IssueCount ==
  ASSUME CountInv, LockInv', NEW w \in Worker,
         InsertUser(w) \/ IssuePick(w) \/ IssueRevoke(w) \/ IssueInsert(w)
  PROVE  CountInv'
  <1>1. CASE InsertUser(w)
    <2>1. /\ pc[w] # "refused" /\ pc' = [pc EXCEPT ![w] = "issue"]
          /\ UNCHANGED <<attempt, told, copy, req>>
      BY <1>1 DEF InsertUser, committed
    <2>2. req' = [req EXCEPT ![w] = req'[w]]
      BY <2>1 DEF CountInv, CountShape
    <2> QED
      BY <2>1, <2>2, MoveCount
  <1>2. CASE IssuePick(w)
    <2>1. /\ pc[w] # "refused" /\ pc' = [pc EXCEPT ![w] = "revoke"]
          /\ UNCHANGED <<attempt, told, copy>>
      BY <1>2 DEF IssuePick, Doing, committed
    <2>2. req' = [req EXCEPT ![w] = req'[w]]
      BY <1>2 DEF IssuePick, CountInv, CountShape
    <2> QED
      BY <2>1, <2>2, MoveCount
  <1>3. CASE IssueRevoke(w)
    <2> DEFINE g == [a \in Live(w) |-> [attempt[a] EXCEPT !.status = "revoked"]]
               S == Live(w)
    <2>1. /\ pc[w] # "refused" /\ pc' = [pc EXCEPT ![w] = "insert"]
          /\ UNCHANGED <<attempt, told, req>>
          /\ copy' = [copy EXCEPT ![w] = [a \in DOMAIN copy[w] \union S |->
                                            IF a \in S THEN g[a] ELSE copy[w][a]]]
      BY <1>3 DEF IssueRevoke, Written, committed
    <2>2. \A a \in S : a \in Attempt => Counted(attempt[a], g[a], 0)
      BY RowsCounted DEF Live
    <2> HIDE DEF g, S
    <2> QED
      BY <2>1, <2>2, FlushCount
  <1>4. CASE IssueInsert(w)
    <2> DEFINE Fresh == [status |-> "pending", type |-> req[w].type, app |-> req[w].app,
                         email |-> req[w].email, guesses |-> 0,
                         code |-> IF req[w].type = "admin_login" \/ req[w].app \in UsesCode
                                  THEN req[w].code ELSE NoCode]
               stage == IF req[w].apps = {} THEN "done" ELSE "issue"
    <2>1. PICK b \in Attempt :
             /\ attempt[b].status = "absent"
             /\ copy' = [copy EXCEPT ![w] = [a \in DOMAIN copy[w] \union {b} |->
                            IF a \in {b} THEN Fresh ELSE copy[w][a]]]
      BY <1>4 DEF IssueInsert, Written
    <2> DEFINE S == {b}
               g == [a \in S |-> Fresh]
    <2>2. /\ pc[w] # "refused" /\ pc' = [pc EXCEPT ![w] = stage]
          /\ UNCHANGED <<attempt, told, req>>
      BY <1>4 DEF IssueInsert, committed
    <2>3. copy' = [copy EXCEPT ![w] = [a \in DOMAIN copy[w] \union S |->
                                         IF a \in S THEN g[a] ELSE copy[w][a]]]
      BY <2>1
    <2>4. Counted(attempt[b], Fresh, 0)
      <3>1. attempt[b].guesses = 0
        BY <2>1 DEF CountInv, RowCounts
      <3> QED
        BY <3>1, AttemptsAssumption DEF Counted
    <2>5. \A a \in S : a \in Attempt => Counted(attempt[a], g[a], 0)
      BY <2>4
    <2>6. stage \in {"done", "issue"}
      OBVIOUS
    <2> HIDE DEF g, S, Fresh, stage
    <2> QED
      BY <2>2, <2>3, <2>5, <2>6, FlushCount
  <1> QED
    BY <1>1, <1>2, <1>3, <1>4

LEMMA PickCount ==
  ASSUME CountInv, LockInv', NEW w \in Worker,
         GuessPick(w) \/ AdminPick(w) \/ LinkPick(w)
  PROVE  CountInv'
  <1>1. PICK S : Pick(w, S) /\ pc[w] = "pick"
    BY DEF GuessPick, AdminPick, LinkPick, Doing
  <1>2. /\ pc' = [pc EXCEPT ![w] = "check"] /\ UNCHANGED <<attempt, told, copy, req>>
    BY <1>1 DEF Pick, committed
  <1>3. req' = [req EXCEPT ![w] = req'[w]]
    BY <1>2 DEF CountInv, CountShape
  <1>4. /\ HoldsNone(w)
        /\ req'[w].route = "json" => req'[w].op = "link"
    BY <1>1, <1>2 DEF CountInv, StageCounts
  <1> QED
    BY <1>1, <1>2, <1>3, <1>4, MoveCount

LEMMA ConsumeCount ==
  ASSUME CountInv, LockInv', NEW w \in Worker, pc[w] = "check",
         NEW S \in SUBSET Live(w), Finish(w, S, Consumed, "done")
  PROVE  CountInv'
  <1> DEFINE g == [a \in S |-> Consumed(a)]
  <1>1. /\ copy' = [copy EXCEPT ![w] = [a \in DOMAIN copy[w] \union S |->
                                         IF a \in S THEN g[a] ELSE copy[w][a]]]
        /\ pc' = [pc EXCEPT ![w] = "done"] /\ UNCHANGED <<attempt, told, req>>
    BY DEF Finish, Written, committed
  <1>2. \A a \in S : a \in Attempt => Counted(attempt[a], g[a], 0)
    BY RowsCounted DEF Live
  <1> HIDE DEF g
  <1> QED
    BY <1>1, <1>2, FlushCount

LEMMA RedeemCount ==
  ASSUME CountInv, LockInv', NEW w \in Worker,
         GuessRight(w) \/ AdminRight(w) \/ LinkRight(w) \/ Wrong(w)
  PROVE  CountInv'
  <1>1. pc[w] = "check" /\ Right(w) \subseteq Live(w)
    BY DEF GuessRight, AdminRight, LinkRight, Wrong, Doing, Right
  <1>2. CASE GuessRight(w)
    <2>1. PICK a \in Right(w) : Finish(w, {a}, Consumed, "done")
      BY <1>2 DEF GuessRight
    <2>2. {a} \in SUBSET Live(w)
      BY <1>1
    <2> QED
      BY <1>1, <2>1, <2>2, ConsumeCount
  <1>3. CASE AdminRight(w)
    BY <1>1, <1>3, ConsumeCount DEF AdminRight
  <1>4. CASE LinkRight(w)
    BY <1>1, <1>4, ConsumeCount DEF LinkRight
  <1>5. CASE Wrong(w)
    <2> DEFINE S == {a \in Live(w) : attempt[a].code # NoCode}
               g == [a \in S |-> Missed(a)]
    <2>1. /\ copy' = [copy EXCEPT ![w] = [a \in DOMAIN copy[w] \union S |->
                                           IF a \in S THEN g[a] ELSE copy[w][a]]]
          /\ pc' = [pc EXCEPT ![w] = "refused"] /\ UNCHANGED <<attempt, told, req>>
      BY <1>5 DEF Wrong, Finish, Written, committed
    <2>2. \A a \in S : a \in Attempt => Counted(attempt[a], g[a], 1)
      BY RowsCounted DEF Live
    <2>3. /\ HoldsNone(w)
          /\ req[w].route = "json" => req[w].op = "link"
      BY <1>1 DEF CountInv, StageCounts
    <2>4. req[w].op = "link" => S = {}
      BY <1>5 DEF Wrong
    <2> HIDE DEF S, g
    <2> QED
      BY <1>1, <2>1, <2>2, <2>3, <2>4, FlushCount
  <1> QED
    BY <1>2, <1>3, <1>4, <1>5

\* A request that ends leaves its rows as they are committed or forgotten.
LEMMA EndCount ==
  ASSUME CountInv, LockInv', NEW w \in Worker, EndSession(w), RowCounts',
         \A a \in Attempt : ~Holds(w, a) => attempt'[a] = attempt[a]
  PROVE  CountInv'
  <1>1. /\ HoldsNone(w)'
        /\ \A v \in Worker \ {w} : copy'[v] = copy[v]
    BY LetGo DEF CountInv, HoldsNone
  <1>2. /\ pc'[w] = "idle" /\ CountShape'
        /\ \A v \in Worker \ {w} : pc'[v] = pc[v] /\ req'[v] = req[v]
    BY DEF EndSession, CountInv, CountShape
  <1>3. ASSUME NEW v \in Worker, NEW a \in Attempt, Holds(v, a)'
        PROVE  Counted(attempt'[a], copy'[v][a], Miss(v)')
    <2>1. v # w /\ Holds(v, a) /\ copy'[v] = copy[v] /\ Miss(v)' = Miss(v)
      BY <1>1, <1>2, <1>3 DEF HoldsNone, Holds, Miss
    <2>2. attempt'[a] = attempt[a]
      BY <2>1 DEF CountInv, LockInv, Alone
    <2> QED
      BY <2>1, <2>2 DEF CountInv, HeldCounts
  <1>4. HeldCounts'
    BY <1>3 DEF HeldCounts, Counted
  <1>5. StageCounts'
    <2> SUFFICES ASSUME NEW v \in Worker
                 PROVE  /\ pc'[v] \in {"idle", "user", "pick", "check"} => HoldsNone(v)'
                        /\ pc'[v] \in {"pick", "check", "refused"} /\ req'[v].route = "json"
                             => req'[v].op = "link"
                        /\ pc'[v] = "refused" /\ req'[v].op = "link" => HoldsNone(v)'
      BY DEF StageCounts
    <2>1. CASE v = w
      BY <2>1, <1>1, <1>2
    <2>2. CASE v # w
      BY <2>2, <1>1, <1>2 DEF CountInv, StageCounts, HoldsNone, Holds
    <2> QED
      BY <2>1, <2>2
  <1> QED
    BY <1>2, <1>4, <1>5 DEF CountInv

LEMMA CommitCount ==
  ASSUME CountInv, LockInv', NEW w \in Worker, Commit(w)
  PROVE  CountInv'
  <1>1. EndSession(w)
    BY DEF Commit
  <1>2. \A a \in Attempt : attempt'[a] = IF Holds(w, a) THEN copy[w][a] ELSE attempt[a]
    BY DEF Commit
  <1>3. \A a \in Attempt : told'[a] = told[a] + IF Holds(w, a) THEN Miss(w) ELSE 0
    <2>1. \A a \in Attempt : told[a] \in Nat
      BY DEF CountInv, RowCounts
    <2>2. CASE pc[w] = "refused"
      BY <2>1, <2>2 DEF Commit, CountTold, Miss
    <2>3. CASE pc[w] # "refused"
      BY <2>1, <2>3 DEF Commit, Miss
    <2> QED
      BY <2>2, <2>3
  <1>4. RowCounts'
    <2> SUFFICES ASSUME NEW a \in Attempt
                 PROVE  /\ "guesses" \in DOMAIN attempt'[a]
                        /\ told'[a] = attempt'[a].guesses
                        /\ told'[a] \in Nat /\ told'[a] <= MaxGuesses
                        /\ attempt'[a].status = "pending" => told'[a] < MaxGuesses
                        /\ attempt'[a].status = "absent" => told'[a] = 0
      BY DEF RowCounts
    <2>1. told[a] = attempt[a].guesses /\ told[a] \in Nat
      BY DEF CountInv, RowCounts
    <2>2. CASE ~Holds(w, a)
      BY <1>2, <1>3, <2>1, <2>2 DEF CountInv, RowCounts
    <2>3. CASE Holds(w, a)
      <3>1. Counted(attempt[a], copy[w][a], Miss(w)) /\ Miss(w) \in Nat
        BY <2>3 DEF CountInv, HeldCounts, Miss
      <3>2. attempt'[a] = copy[w][a] /\ told'[a] = told[a] + Miss(w)
        BY <1>2, <1>3, <2>3
      <3>3. copy[w][a].status # "absent"
        BY <2>3 DEF CountInv, LockInv, HeldFollows, Follows
      <3> QED
        BY <2>1, <3>1, <3>2, <3>3 DEF Counted
    <2> QED
      BY <2>2, <2>3
  <1> QED
    BY <1>1, <1>2, <1>4, EndCount

LEMMA RefuseCount ==
  ASSUME CountInv, LockInv', NEW w \in Worker, Refuse(w) \/ Abort(w)
  PROVE  CountInv'
  <1>1. EndSession(w) /\ UNCHANGED attempt
    BY DEF Refuse, Abort, committed
  <1>2. CASE Refuse(w)
    <2>1. HoldsNone(w)
      BY <1>2 DEF Refuse, CountInv, StageCounts
    <2>2. \A a \in Attempt : told'[a] = told[a]
      <3>1. \A a \in Attempt : told[a] \in Nat
        BY DEF CountInv, RowCounts
      <3> QED
        BY <1>2, <2>1, <3>1 DEF Refuse, CountTold, HoldsNone
    <2>3. RowCounts'
      BY <1>1, <2>2 DEF CountInv, RowCounts
    <2> QED
      BY <1>1, <2>3, EndCount
  <1>3. CASE Abort(w)
    <2>1. RowCounts'
      BY <1>3 DEF Abort, committed, CountInv, RowCounts
    <2> QED
      BY <1>1, <2>1, EndCount
  <1> QED
    BY <1>2, <1>3

LEMMA StepCount ==
  ASSUME CountInv, [Next]_vars, "json" \notin Routes
  PROVE  CountInv'
  <1>1. LockInv'
    BY StepLock DEF CountInv
  <1>2. CASE UNCHANGED vars
    BY <1>1, <1>2 DEF vars, CountInv, CountShape, RowCounts, HeldCounts, StageCounts,
                      HoldsNone, Holds, Miss, Counted
  <1>3. ASSUME NEW w \in Worker, Start(w) PROVE CountInv'
    BY <1>1, <1>3, StartCount
  <1>4. ASSUME NEW w \in Worker, Advance(w) PROVE CountInv'
    BY <1>1, <1>4, IssueCount, PickCount, RedeemCount DEF Advance
  <1>5. ASSUME NEW w \in Worker, Commit(w) PROVE CountInv'
    BY <1>1, <1>5, CommitCount
  <1>6. ASSUME NEW w \in Worker, Refuse(w) \/ Abort(w) PROVE CountInv'
    BY <1>1, <1>6, RefuseCount
  <1>7. ASSUME NEW a \in Attempt, Expire(a) PROVE CountInv'
    BY <1>1, <1>7 DEF Expire, committed, session, CountInv, CountShape, RowCounts,
                      HeldCounts, StageCounts, HoldsNone, Holds, Miss, Counted
  <1> QED
    BY <1>2, <1>3, <1>4, <1>5, <1>6, <1>7 DEF Next

\* Where refusals are answered with a page, so that their transactions commit
\* (the hosted pages and the dashboard), no interleaving lets more wrong
\* guesses be answered about an attempt than the limit, nor leaves one at the
\* limit live.  Through the JSON routes it is not so (see the run json).
THEOREM HostedGuessesBounded ==
  ASSUME "json" \notin Routes
  PROVE  Spec => []GuessesBounded
  <1>1. CountInv /\ [Next]_vars => CountInv'
    BY StepCount
  <1>2. CountInv => GuessesBounded
    <2> SUFFICES ASSUME CountInv PROVE GuessesBounded
      OBVIOUS
    <2> QED
      BY AttemptsAssumption DEF CountInv, RowCounts, GuessesBounded
  <1> QED
    BY <1>1, <1>2, InitCount, PTL DEF Spec

-----------------------------------------------------------------------------
(* Types.                                                                  *)

Stages == {"idle", "user", "issue", "revoke", "insert", "pick", "check", "done", "refused"}

\* A row that may still be guessed at has guesses left.
Roomy(r) == r \in Row /\ (r.status = "pending" => r.guesses < MaxGuesses)

OwnerOps == {"admin", "dashboard"}

\* The requests that do arrive.
Proper == {r \in Request :
             /\ (r.op = "link") => r.token \in Attempt
             /\ (r.op = "adminguess") => r.code \in Code
             /\ (r.op \in IssueOps) =>
                   (r.type \in Types /\ (r.type = "admin_login" <=> r.op \in OwnerOps))}

Stored ==
    /\ attempt \in [Attempt -> Row] /\ \A a \in Attempt : Roomy(attempt[a])
    /\ user \in [App -> [Email -> {"none", "unverified", "verified"}]]
    /\ expired \subseteq Attempt /\ beside \in [Worker -> SUBSET Attempt]
    /\ opened \in [Attempt -> Nat] /\ told \in [Attempt -> Nat]
Asked ==
    /\ pc \in [Worker -> Stages] /\ req \in [Worker -> Proper]
    /\ cand \in [Worker -> SUBSET Attempt] /\ born \in [Worker -> BOOLEAN]
Flushed ==
    /\ copy = [w \in Worker |-> copy[w]]
    /\ \A w \in Worker : /\ DOMAIN copy[w] \subseteq Attempt
                         /\ \A a \in DOMAIN copy[w] : Roomy(copy[w][a])

\* The strengthening of TypeOK that every step preserves.
Typed == Stored /\ Asked /\ Flushed

LEMMA RowIs ==
  ASSUME NEW r \in Row
  PROVE  /\ r.status \in Status /\ r.guesses \in Nat /\ r.guesses <= MaxGuesses
         /\ r.type \in Types \union {"none"} /\ r.app \in App \union {NoApp}
         /\ r.email \in Email \union {NoEmail} /\ r.code \in Code \union {NoCode}
         /\ \A s \in Status : [r EXCEPT !.status = s] \in Row
  BY AttemptsAssumption DEF Row, AttemptsAssumption, Status

LEMMA TypedOK == Typed => TypeOK
  <1> SUFFICES ASSUME Typed PROVE TypeOK
    OBVIOUS
  <1> QED
    BY DEF Typed, Stored, Asked, Flushed, Roomy, Stages, Proper, TypeOK

LEMMA NothingAsked ==
  /\ NoRequest \in Proper /\ NoRequest.op = "none" /\ NoRequest.apps = {}
  BY DEF NoRequest, Ask, Request, Proper, IssueOps

LEMMA InitTyped == Init => Typed
  <1> SUFFICES ASSUME Init PROVE Typed
    OBVIOUS
  <1>1. NoAttempt \in Row /\ NoAttempt.status = "absent"
    BY AttemptsAssumption DEF AttemptsAssumption, NoAttempt, Row
  <1>2. Roomy(NoAttempt)
    BY <1>1 DEF Roomy
  <1>3. Stored
    BY <1>1, <1>2 DEF Init, Stored
  <1>4. Asked
    BY NothingAsked DEF Init, Asked, Stages
  <1>5. Flushed
    BY DEF Init, Flushed
  <1> QED
    BY <1>3, <1>4, <1>5 DEF Typed

\* A request that arrives, and the stage it starts at.
Arrives(r, stage) ==
    /\ r \in Proper /\ r.op \in IssueOps \union GuessOps
    /\ r.op \in IssueOps => stage \in {"user", "issue"}
    /\ r.op \in OwnerOps => stage = "issue"
    /\ r.op \in GuessOps => stage = "pick"
    /\ r.op = "admin" => r.apps = App
    /\ r.op = "dashboard" => \E p \in App : r.apps = {p}

LEMMA StartIs ==
  ASSUME NEW w \in Worker, Start(w)
  PROVE  \E r, stage : Arrives(r, stage) /\ Begin(w, r, stage)
  <1> DEFINE Goal == \E r, stage : Arrives(r, stage) /\ Begin(w, r, stage)
  <1>1. ASSUME NEW r, NEW stage, Arrives(r, stage), Begin(w, r, stage) PROVE Goal
    BY <1>1
  <1> HIDE DEF Goal
  <1>2. Lower \in [Email -> Email] /\ Routes \subseteq {"json", "hosted"}
    BY AttemptsAssumption DEF AttemptsAssumption
  <1>3. ASSUME NEW p \in App, NEW e \in Email, NEW c \in Code, NEW op \in {"signup", "signin"},
               NEW type \in CodeTypes, NEW stage \in {"user", "issue"},
               Begin(w, Ask(op, p, {p}, e, type, c, NoToken, "none"), stage)
        PROVE  Goal
    <2> DEFINE r == Ask(op, p, {p}, e, type, c, NoToken, "none")
    <2>1. Arrives(r, stage)
      BY DEF Arrives, Ask, Request, Proper, IssueOps, GuessOps, OwnerOps, Types, CodeTypes
    <2> HIDE DEF r
    <2> QED
      BY <1>1, <1>3, <2>1 DEF r
  <1>4. ASSUME NEW p \in App, NEW e \in Email, NEW c \in Code,
               BeginSignup(w, p, e, c) \/ BeginSignin(w, p, e, c)
        PROVE  Goal
    <2>1. PICK op \in {"signup", "signin"}, type \in CodeTypes, stage \in {"user", "issue"} :
             Begin(w, Ask(op, p, {p}, e, type, c, NoToken, "none"), stage)
      BY <1>4 DEF BeginSignup, BeginSignin, CodeTypes
    <2> QED
      BY <1>3, <2>1
  <1>5. ASSUME NEW e \in Email, NEW c \in Code, BeginAdmin(w, e, c) PROVE Goal
    <2> DEFINE r == Ask("admin", NoApp, App, Lower[e], "admin_login", c, NoToken, "none")
    <2>1. Lower[e] \in Email
      BY <1>2
    <2>2. Arrives(r, "issue")
      BY <2>1 DEF Arrives, Ask, Request, Proper, IssueOps, GuessOps, OwnerOps, Types, CodeTypes
    <2>3. Begin(w, r, "issue")
      BY <1>5 DEF BeginAdmin
    <2> HIDE DEF r
    <2> QED
      BY <1>1, <2>2, <2>3
  <1>6. ASSUME NEW p \in App, NEW e \in Email, NEW c \in Code, BeginDashboard(w, p, e, c)
        PROVE  Goal
    <2> DEFINE r == Ask("dashboard", NoApp, {p}, Lower[e], "admin_login", c, NoToken, "none")
    <2>1. Lower[e] \in Email
      BY <1>2
    <2>2. Arrives(r, "issue")
      BY <2>1 DEF Arrives, Ask, Request, Proper, IssueOps, GuessOps, OwnerOps, Types, CodeTypes
    <2>3. Begin(w, r, "issue")
      BY <1>6 DEF BeginDashboard
    <2> HIDE DEF r
    <2> QED
      BY <1>1, <2>2, <2>3
  <1>7. ASSUME NEW p \in App, NEW e \in Email, NEW c \in Code, NEW route \in Routes,
               BeginGuess(w, p, e, c, route)
        PROVE  Goal
    <2> DEFINE r == Ask("guess", p, {}, e, "none", c, NoToken, route)
    <2>1. Arrives(r, "pick")
      BY <1>2 DEF Arrives, Ask, Request, Proper, IssueOps, GuessOps, OwnerOps
    <2>2. Begin(w, r, "pick")
      BY <1>7 DEF BeginGuess
    <2> HIDE DEF r
    <2> QED
      BY <1>1, <2>1, <2>2
  <1>8. ASSUME NEW e \in Email, NEW c \in Code, NEW route \in Routes,
               BeginAdminGuess(w, e, c, route)
        PROVE  Goal
    <2> DEFINE r == Ask("adminguess", NoApp, {}, Lower[e], "none", c, NoToken, route)
    <2>1. Lower[e] \in Email
      BY <1>2
    <2>2. Arrives(r, "pick")
      BY <1>2, <2>1 DEF Arrives, Ask, Request, Proper, IssueOps, GuessOps, OwnerOps
    <2>3. Begin(w, r, "pick")
      BY <1>8 DEF BeginAdminGuess
    <2> HIDE DEF r
    <2> QED
      BY <1>1, <2>2, <2>3
  <1>9. ASSUME NEW p \in App, NEW a \in Attempt, BeginLink(w, p, a) PROVE Goal
    <2> DEFINE r == Ask("link", p, {}, NoEmail, "none", NoCode, a, "json")
    <2>1. Arrives(r, "pick")
      BY DEF Arrives, Ask, Request, Proper, IssueOps, GuessOps, OwnerOps
    <2>2. Begin(w, r, "pick")
      BY <1>9 DEF BeginLink
    <2> HIDE DEF r
    <2> QED
      BY <1>1, <2>1, <2>2
  <1>10. Goal
    BY <1>4, <1>5, <1>6, <1>7, <1>8, <1>9 DEF Start
  <1> QED
    BY <1>10 DEF Goal

\* A request that goes on to another stage.
LEMMA GoesOn ==
  ASSUME Typed, NEW w \in Worker, NEW stage \in Stages, pc' = [pc EXCEPT ![w] = stage]
  PROVE  /\ pc' \in [Worker -> Stages] /\ pc'[w] = stage
         /\ \A v \in Worker \ {w} : pc'[v] = pc[v]
  BY DEF Typed, Asked

LEMMA MoveTyped ==
  ASSUME Typed, UNCHANGED <<attempt, user, opened, told, expired, copy, beside>>, Asked'
  PROVE  Typed'
  BY DEF Typed, Stored, Flushed

LEMMA FlushTyped ==
  ASSUME Typed, NEW w \in Worker, NEW S \in SUBSET Attempt, NEW g,
         copy' = [copy EXCEPT ![w] = [a \in DOMAIN copy[w] \union S |->
                                        IF a \in S THEN g[a] ELSE copy[w][a]]],
         UNCHANGED <<attempt, user, opened, told, expired, beside>>, Asked',
         \A a \in S : Roomy(g[a])
  PROVE  Typed'
  <1>1. /\ DOMAIN copy'[w] = DOMAIN copy[w] \union S
        /\ \A a \in DOMAIN copy[w] \union S :
              copy'[w][a] = IF a \in S THEN g[a] ELSE copy[w][a]
        /\ \A v \in Worker \ {w} : copy'[v] = copy[v]
        /\ copy' = [v \in Worker |-> copy'[v]]
    BY DEF Typed, Flushed
  <1>2. ASSUME NEW v \in Worker
        PROVE  DOMAIN copy'[v] \subseteq Attempt /\ \A a \in DOMAIN copy'[v] : Roomy(copy'[v][a])
    <2>1. CASE v = w
      BY <1>1, <2>1 DEF Typed, Flushed
    <2>2. CASE v # w
      BY <1>1, <2>2 DEF Typed, Flushed
    <2> QED
      BY <2>1, <2>2
  <1>3. Flushed'
    BY <1>1, <1>2 DEF Flushed, Roomy
  <1> QED
    BY <1>3 DEF Typed, Stored

\* What a statement may write to a pending row leaves it a row with its key.
SameKey(old, new) ==
    new.app = old.app /\ new.type = old.type /\ new.email = old.email /\ new.code = old.code

LEMMA RowsWritten ==
  ASSUME Typed, NEW a \in Attempt, attempt[a].status = "pending"
  PROVE  /\ Roomy(Consumed(a)) /\ SameKey(attempt[a], Consumed(a))
         /\ Consumed(a).status = "consumed"
         /\ Roomy(Missed(a)) /\ SameKey(attempt[a], Missed(a))
         /\ Roomy([attempt[a] EXCEPT !.status = "revoked"])
         /\ SameKey(attempt[a], [attempt[a] EXCEPT !.status = "revoked"])
         /\ [attempt[a] EXCEPT !.status = "revoked"].status = "revoked"
  <1>1. attempt[a] \in Row /\ attempt[a].guesses \in Nat /\ attempt[a].guesses < MaxGuesses
    BY RowIs DEF Typed, Stored, Roomy
  <1>2. \A s \in {"consumed", "revoked"} :
           /\ Roomy([attempt[a] EXCEPT !.status = s])
           /\ SameKey(attempt[a], [attempt[a] EXCEPT !.status = s])
           /\ [attempt[a] EXCEPT !.status = s].status = s
    BY <1>1 DEF Roomy, SameKey, Row
  <1>3. Roomy(Missed(a)) /\ SameKey(attempt[a], Missed(a))
    <2> DEFINE n == attempt[a].guesses + 1
               r == [attempt[a] EXCEPT !.guesses = n]
               s == IF n >= MaxGuesses THEN "revoked" ELSE r.status
    <2>1. n \in 0..MaxGuesses /\ n <= MaxGuesses /\ (n < MaxGuesses \/ s = "revoked")
      BY <1>1, AttemptsAssumption DEF AttemptsAssumption
    <2>2. Missed(a) = [r EXCEPT !.status = s]
      BY DEF Missed
    <2> HIDE DEF n
    <2>3. r \in Row /\ SameKey(attempt[a], r) /\ r.guesses = n /\ r.status = "pending"
      BY <1>1, <2>1 DEF Row, SameKey
    <2>4. s \in {"pending", "revoked"}
      BY <2>3
    <2> HIDE DEF r, s
    <2> QED
      BY <2>1, <2>2, <2>3, <2>4 DEF Row, SameKey, Roomy
  <1> QED
    BY <1>2, <1>3 DEF Consumed

\* What a request inserts.
NewRow(w) ==
    [status |-> "pending", type |-> req[w].type, app |-> req[w].app, email |-> req[w].email,
     guesses |-> 0,
     code |-> IF req[w].type = "admin_login" \/ req[w].app \in UsesCode
                THEN req[w].code ELSE NoCode]

LEMMA NewRowIs ==
  ASSUME Typed, NEW w \in Worker
  PROVE  /\ Roomy(NewRow(w)) /\ NewRow(w).status = "pending"
         /\ NewRow(w).type = req[w].type /\ NewRow(w).app = req[w].app
         /\ NewRow(w).email = req[w].email
  <1>1. req[w] \in Request
    BY DEF Typed, Asked, Proper
  <1>2. NewRow(w) \in Row
    BY <1>1, AttemptsAssumption DEF AttemptsAssumption, NewRow, Request, Row
  <1> QED
    BY <1>2, AttemptsAssumption DEF AttemptsAssumption, NewRow, Roomy

\* The steps that write rows without committing them.
Writes(w, S, g, stage) ==
    /\ copy' = [copy EXCEPT ![w] = [a \in DOMAIN copy[w] \union S |->
                                      IF a \in S THEN g[a] ELSE copy[w][a]]]
    /\ UNCHANGED <<committed, expired, req, born, beside>>
    /\ pc' = [pc EXCEPT ![w] = stage] /\ stage \in Stages
    /\ cand' = cand \/ cand' = [cand EXCEPT ![w] = {}]
    /\ S \subseteq Attempt /\ \A a \in S : Roomy(g[a])

LEMMA LiveIs ==
  ASSUME Typed, NEW w \in Worker
  PROVE  Live(w) \subseteq Attempt /\ \A a \in Live(w) : attempt[a].status = "pending"
  BY DEF Live, Typed, Asked

LEMMA RevokeWrites ==
  ASSUME Typed, NEW w \in Worker, IssueRevoke(w)
  PROVE  \E g : /\ Writes(w, Live(w), g, "insert")
                /\ \A a \in Live(w) : g[a] = [attempt[a] EXCEPT !.status = "revoked"]
  <1> DEFINE g == [a \in Live(w) |-> [attempt[a] EXCEPT !.status = "revoked"]]
  <1>1. \A a \in Live(w) : Roomy(g[a])
    BY LiveIs, RowsWritten
  <1>2. Writes(w, Live(w), g, "insert")
    BY <1>1, LiveIs DEF IssueRevoke, Written, Writes, Stages
  <1>3. \A a \in Live(w) : g[a] = [attempt[a] EXCEPT !.status = "revoked"]
    OBVIOUS
  <1> HIDE DEF g
  <1> QED
    BY <1>2, <1>3

LEMMA InsertWrites ==
  ASSUME Typed, NEW w \in Worker, IssueInsert(w)
  PROVE  \E b \in Attempt : \E g :
            /\ Writes(w, {b}, g, IF req[w].apps = {} THEN "done" ELSE "issue")
            /\ g[b] = NewRow(w) /\ attempt[b].status = "absent"
            /\ \A v \in Worker : ~Holds(v, b)
  <1> DEFINE stage == IF req[w].apps = {} THEN "done" ELSE "issue"
  <1>1. PICK b \in Attempt :
           /\ attempt[b].status = "absent"
           /\ \A v \in Worker : ~Holds(v, b)
           /\ copy' = [copy EXCEPT ![w] = [a \in DOMAIN copy[w] \union {b} |->
                          IF a \in {b} THEN NewRow(w) ELSE copy[w][a]]]
    BY DEF IssueInsert, Written, NewRow
  <1> DEFINE S == {b}
             g == [a \in S |-> NewRow(w)]
  <1>2. copy' = [copy EXCEPT ![w] = [a \in DOMAIN copy[w] \union S |->
                                       IF a \in S THEN g[a] ELSE copy[w][a]]]
    BY <1>1
  <1>3. \A a \in S : Roomy(g[a])
    BY NewRowIs
  <1>4. S \subseteq Attempt /\ g[b] = NewRow(w)
    OBVIOUS
  <1>5. /\ UNCHANGED <<committed, expired, req, born, beside, cand>>
        /\ pc' = [pc EXCEPT ![w] = stage] /\ stage \in Stages
    BY DEF IssueInsert, Stages
  <1> HIDE DEF g, stage
  <1>6. Writes(w, {b}, g, stage)
    BY <1>2, <1>3, <1>4, <1>5 DEF Writes
  <1> QED
    BY <1>1, <1>4, <1>6 DEF stage

\* What the four ends of a redemption write: some live rows, all of the owner's
\* that match when one does.
Redeems(w, S, g, stage) ==
    /\ Writes(w, S, g, stage) /\ stage \in {"done", "refused"} /\ pc[w] = "check" /\ RowsFree(w)
    /\ S \subseteq Live(w) /\ \A a \in S : SameKey(attempt[a], g[a])
    /\ (stage = "done" => \A a \in S : g[a].status = "consumed")
    /\ (req[w].op = "adminguess" /\ stage = "done") => (S = Right(w) /\ S # {})

LEMMA RedeemWrites ==
  ASSUME Typed, NEW w \in Worker,
         GuessRight(w) \/ AdminRight(w) \/ LinkRight(w) \/ Wrong(w)
  PROVE  \E S, g, stage : Redeems(w, S, g, stage)
  <1>1. Right(w) \subseteq Live(w) /\ Live(w) \subseteq Attempt /\ pc[w] = "check" /\ RowsFree(w)
    BY LiveIs DEF Right, GuessRight, AdminRight, LinkRight, Wrong, Doing
  <1>2. ASSUME NEW S \in SUBSET Live(w), Finish(w, S, Consumed, "done"),
               req[w].op = "adminguess" => S = Right(w) /\ S # {}
        PROVE  \E g : Redeems(w, S, g, "done")
    <2> DEFINE g == [a \in S |-> Consumed(a)]
    <2>1. \A a \in S : /\ Roomy(g[a]) /\ SameKey(attempt[a], g[a])
                       /\ g[a].status = "consumed"
      BY LiveIs, RowsWritten
    <2>2. Writes(w, S, g, "done")
      BY <1>1, <1>2, <2>1 DEF Finish, Written, Writes, Stages
    <2> HIDE DEF g
    <2>3. Redeems(w, S, g, "done")
      BY <1>1, <1>2, <2>1, <2>2 DEF Redeems
    <2> QED
      BY <2>3
  <1>3. ASSUME Wrong(w)
        PROVE  \E S, g : Redeems(w, S, g, "refused")
    <2> DEFINE S == {a \in Live(w) : attempt[a].code # NoCode}
               g == [a \in S |-> Missed(a)]
    <2>1. \A a \in S : Roomy(g[a]) /\ SameKey(attempt[a], g[a])
      BY LiveIs, RowsWritten
    <2>2. Writes(w, S, g, "refused")
      BY <1>1, <1>3, <2>1 DEF Wrong, Finish, Written, Writes, Stages
    <2>3. S \subseteq Live(w)
      OBVIOUS
    <2> HIDE DEF g, S
    <2>4. Redeems(w, S, g, "refused")
      BY <1>1, <2>1, <2>2, <2>3 DEF Redeems
    <2> QED
      BY <2>4
  <1>4. CASE GuessRight(w)
    <2>1. PICK a \in Right(w) : Finish(w, {a}, Consumed, "done")
      BY <1>4 DEF GuessRight
    <2>2. {a} \in SUBSET Live(w) /\ req[w].op # "adminguess"
      BY <1>1, <1>4 DEF GuessRight, Doing
    <2> QED
      BY <1>2, <2>1, <2>2
  <1>5. CASE AdminRight(w)
    BY <1>1, <1>2, <1>5 DEF AdminRight
  <1>6. CASE LinkRight(w)
    <2>1. req[w].op # "adminguess" /\ Finish(w, Live(w), Consumed, "done")
      BY <1>6 DEF LinkRight, Doing
    <2> QED
      BY <1>2, <2>1
  <1> QED
    BY <1>3, <1>4, <1>5, <1>6
LEMMA AskedKept ==
  ASSUME Typed, NEW w \in Worker,
         pc' = pc \/ (\E stage \in Stages : pc' = [pc EXCEPT ![w] = stage]),
         req' = req \/ (\E r \in Proper : req' = [req EXCEPT ![w] = r]),
         cand' = cand \/ (\E S \in SUBSET Attempt : cand' = [cand EXCEPT ![w] = S]),
         born' = born \/ (\E b \in BOOLEAN : born' = [born EXCEPT ![w] = b])
  PROVE  Asked'
  BY DEF Typed, Asked

LEMMA WritesTyped ==
  ASSUME Typed, NEW w \in Worker, NEW S, NEW g, NEW stage, Writes(w, S, g, stage)
  PROVE  Typed'
  <1>1. Asked'
    BY AskedKept DEF Writes
  <1> QED
    BY <1>1, FlushTyped DEF Writes, committed

\* The rows a statement picks.
LEMMA PicksAttempts ==
  /\ \A p, e, t : Outstanding(p, e, t) \subseteq Attempt
  /\ \A e : OwnerCodes(e) \subseteq Attempt
  /\ \A r, p : Replaced(r, p) \subseteq Attempt
  BY DEF Outstanding, OwnerCodes, Replaced

LEMMA PickIs ==
  ASSUME Typed, NEW w \in Worker, GuessPick(w) \/ AdminPick(w) \/ LinkPick(w)
  PROVE  \E S \in SUBSET Attempt :
            /\ Pick(w, S) /\ pc[w] = "pick" /\ \A a \in S : attempt[a].status = "pending"
            /\ (req[w].op = "adminguess") => (S = OwnerCodes(req[w].email) \ expired)
  <1>1. CASE GuessPick(w)
    <2> DEFINE S == UNION {Outstanding(req[w].app, req[w].email, t) : t \in CodeTypes} \ expired
    <2>1. S \in SUBSET Attempt /\ \A a \in S : attempt[a].status = "pending"
      BY PicksAttempts DEF Outstanding
    <2>2. Pick(w, S) /\ pc[w] = "pick" /\ req[w].op # "adminguess"
      BY <1>1 DEF GuessPick, Doing
    <2> HIDE DEF S
    <2> QED
      BY <2>1, <2>2
  <1>2. CASE AdminPick(w)
    <2>1. \A a \in OwnerCodes(req[w].email) : attempt[a].status = "pending"
      BY DEF OwnerCodes, Outstanding
    <2> QED
      BY <1>2, <2>1, PicksAttempts DEF AdminPick, Doing
  <1>3. CASE LinkPick(w)
    <2> DEFINE S == {a \in {req[w].token} \ expired :
                       /\ attempt[a].status = "pending"
                       /\ attempt[a].app = req[w].app
                       /\ attempt[a].type \in CodeTypes}
    <2>1. PICK s : s = S
      OBVIOUS
    <2>2. Pick(w, s) /\ pc[w] = "pick" /\ req[w].op # "adminguess"
      BY <1>3, <2>1 DEF LinkPick, Doing
    <2>3. req[w].token \in Attempt
      BY <1>3 DEF Typed, Asked, Proper, LinkPick, Doing
    <2>4. s \subseteq Attempt /\ \A a \in s : attempt[a].status = "pending"
      BY <2>1, <2>3
    <2> QED
      BY <2>2, <2>4
  <1> QED
    BY <1>1, <1>2, <1>3
LEMMA StartTyped ==
  ASSUME Typed, NEW w \in Worker, Start(w)
  PROVE  Typed'
  <1>1. PICK r, stage : Arrives(r, stage) /\ Begin(w, r, stage)
    BY StartIs
  <1>2. r \in Proper /\ stage \in Stages
    BY <1>1 DEF Arrives, Stages
  <1>3. Asked'
    BY <1>1, <1>2, AskedKept DEF Begin
  <1> QED
    BY <1>1, <1>3, MoveTyped DEF Begin, committed

LEMMA IssuePickIs ==
  ASSUME Typed, NEW w \in Worker, IssuePick(w)
  PROVE  \E p \in req[w].apps : \E r \in Proper :
           /\ r.op = req[w].op /\ r.email = req[w].email /\ r.type = req[w].type
           /\ r.code = req[w].code /\ r.app = p /\ r.apps = req[w].apps \ {p} /\ p \in App
           /\ req' = [req EXCEPT ![w] = r] /\ Doing(w, "issue", IssueOps)
           /\ cand' = [cand EXCEPT ![w] = Replaced(req[w], p)]
           /\ pc' = [pc EXCEPT ![w] = "revoke"]
           /\ UNCHANGED <<committed, expired, copy, born, beside>>
  <1>1. PICK p \in req[w].apps :
           /\ Doing(w, "issue", IssueOps)
           /\ req' = [req EXCEPT ![w].app = p, ![w].apps = @ \ {p}]
           /\ cand' = [cand EXCEPT ![w] = Replaced(req[w], p)]
           /\ pc' = [pc EXCEPT ![w] = "revoke"]
           /\ UNCHANGED <<committed, expired, copy, born, beside>>
    BY DEF IssuePick
  <1>2. req[w] \in Proper /\ req[w] \in Request /\ p \in App
    BY DEF Typed, Asked, Proper, Request
  <1>3. PICK q : q = [req[w] EXCEPT !.app = p]
    OBVIOUS
  <1>4. PICK r : r = [q EXCEPT !.apps = @ \ {p}]
    OBVIOUS
  <1>5. q \in Request /\ q.op = req[w].op /\ q.email = req[w].email /\ q.type = req[w].type
        /\ q.code = req[w].code /\ q.app = p /\ q.apps = req[w].apps /\ q.token = req[w].token
    BY <1>2, <1>3 DEF Request
  <1>6. r \in Request /\ r.op = q.op /\ r.email = q.email /\ r.type = q.type
        /\ r.code = q.code /\ r.app = p /\ r.apps = req[w].apps \ {p} /\ r.token = q.token
    BY <1>5, <1>4 DEF Request
  <1>7. r \in Proper
    BY <1>2, <1>5, <1>6 DEF Proper
  <1>8. req' = [req EXCEPT ![w] = r]
    BY <1>1, <1>3, <1>4, <1>2 DEF Typed, Asked
  <1> QED
    BY <1>1, <1>2, <1>5, <1>6, <1>7, <1>8

LEMMA EndTyped ==
  ASSUME Typed, NEW w \in Worker, EndSession(w)
  PROVE  Asked' /\ Flushed'
  <1>1. Asked'
    BY NothingAsked DEF EndSession, Typed, Asked, Stages
  <1>2. Flushed'
    BY DEF EndSession, Typed, Flushed
  <1> QED
    BY <1>1, <1>2

LEMMA ToldTyped ==
  ASSUME Typed, NEW w \in Worker, CountTold(w)
  PROVE  told' \in [Attempt -> Nat]
  BY DEF CountTold, Typed, Stored

LEMMA CommitTyped ==
  ASSUME Typed, NEW w \in Worker, Commit(w)
  PROVE  Typed'
  <1>1. EndSession(w)
    BY DEF Commit
  <1>2. \A a \in Attempt : Roomy(IF Holds(w, a) THEN copy[w][a] ELSE attempt[a])
    BY DEF Typed, Stored, Flushed, Holds
  <1>3. attempt' \in [Attempt -> Row] /\ \A a \in Attempt : Roomy(attempt[a])'
    BY <1>2 DEF Commit, Roomy
  <1>4. \A p \in App : \A e \in Email : UserAfter(w, p, e) \in {"none", "unverified", "verified"}
    BY DEF Typed, Stored, UserAfter
  <1>5. user' \in [App -> [Email -> {"none", "unverified", "verified"}]]
    BY <1>4 DEF Commit
  <1>6. opened' \in [Attempt -> Nat]
    BY DEF Commit, Typed, Stored
  <1>7. told' \in [Attempt -> Nat]
    BY ToldTyped DEF Commit, Typed, Stored
  <1>8. expired' \subseteq Attempt
    BY <1>1 DEF EndSession, Typed, Stored
  <1>9. beside' \in [Worker -> SUBSET Attempt]
    BY DEF Commit, Inserted, Typed, Stored
  <1>10. Stored'
    BY <1>3, <1>5, <1>6, <1>7, <1>8, <1>9 DEF Stored
  <1> QED
    BY <1>1, <1>10, EndTyped DEF Typed

LEMMA RefuseTyped ==
  ASSUME Typed, NEW w \in Worker, Refuse(w) \/ Abort(w)
  PROVE  Typed'
  <1>1. EndSession(w) /\ UNCHANGED <<attempt, user, opened, expired>>
    BY DEF Refuse, Abort, committed, EndSession
  <1>2. told' \in [Attempt -> Nat]
    BY ToldTyped DEF Refuse, Abort, committed, Typed, Stored
  <1>3. beside' \in [Worker -> SUBSET Attempt]
    BY DEF Refuse, Abort, Parts, Typed, Stored
  <1>4. Stored'
    BY <1>1, <1>2, <1>3 DEF Typed, Stored
  <1> QED
    BY <1>1, <1>4, EndTyped DEF Typed

LEMMA StepTyped ==
  ASSUME Typed, [Next]_vars
  PROVE  Typed'
  <1>1. CASE UNCHANGED vars
    BY <1>1 DEF vars, Typed, Stored, Asked, Flushed
  <1>2. ASSUME NEW w \in Worker, Advance(w) PROVE Typed'
    <2>1. CASE InsertUser(w)
      <3>1. Asked'
        BY <2>1, AskedKept DEF InsertUser, Stages
      <3> QED
        BY <2>1, <3>1, MoveTyped DEF InsertUser, committed
    <2>2. CASE IssuePick(w)
      <3>1. PICK p \in req[w].apps, r \in Proper :
               /\ req' = [req EXCEPT ![w] = r]
               /\ cand' = [cand EXCEPT ![w] = Replaced(req[w], p)]
               /\ pc' = [pc EXCEPT ![w] = "revoke"]
               /\ UNCHANGED <<committed, expired, copy, born, beside>>
        BY <2>2, IssuePickIs
      <3>2. Replaced(req[w], p) \in SUBSET Attempt /\ "revoke" \in Stages
        BY PicksAttempts DEF Stages
      <3>3. Asked'
        BY <3>1, <3>2, AskedKept
      <3> QED
        BY <3>1, <3>3, MoveTyped DEF committed
    <2>3. CASE IssueRevoke(w)
      BY <2>3, RevokeWrites, WritesTyped
    <2>4. CASE IssueInsert(w)
      BY <2>4, InsertWrites, WritesTyped
    <2>5. CASE GuessPick(w) \/ AdminPick(w) \/ LinkPick(w)
      <3>1. PICK S \in SUBSET Attempt : Pick(w, S)
        BY <2>5, PickIs
      <3>2. Asked'
        BY <3>1, AskedKept DEF Pick, Stages
      <3> QED
        BY <3>1, <3>2, MoveTyped DEF Pick, committed
    <2>6. CASE GuessRight(w) \/ AdminRight(w) \/ LinkRight(w) \/ Wrong(w)
      BY <2>6, RedeemWrites, WritesTyped DEF Redeems
    <2> QED
      BY <1>2, <2>1, <2>2, <2>3, <2>4, <2>5, <2>6 DEF Advance
  <1>3. ASSUME NEW a \in Attempt, Expire(a) PROVE Typed'
    BY <1>3 DEF Expire, committed, session, Typed, Stored, Asked, Flushed
  <1> QED
    BY <1>1, <1>2, <1>3, StartTyped, CommitTyped, RefuseTyped DEF Next

\* Every variable has its type, for any number of requests and rows, and a row
\* that may still be guessed at is below max_code_attempts.
THEOREM AttemptsTyped == Spec => []TypeOK
  <1>1. Typed /\ [Next]_vars => Typed'
    BY StepTyped
  <1> QED
    BY <1>1, InitTyped, TypedOK, PTL DEF Spec

-----------------------------------------------------------------------------
(* What a request is doing at each stage, and the rows it has written.     *)

RequestIs(w) ==
    /\ (req[w].op \in IssueOps) => w \in Issuers
    /\ (pc[w] \in {"user", "issue", "revoke", "insert"}) => req[w].op \in IssueOps
    /\ (pc[w] \in {"pick", "check", "refused"}) => req[w].op \in GuessOps
    /\ (req[w].op \in OwnerOps) => pc[w] \in {"issue", "revoke", "insert", "done"}
    /\ (pc[w] \in {"revoke", "insert"}) => req[w].app \in App \ req[w].apps
    /\ (req[w].op = "dashboard") =>
          IF pc[w] = "issue" THEN \E p \in App : req[w].apps = {p} ELSE req[w].apps = {}
    /\ (pc[w] = "done" /\ req[w].op \in IssueOps) => req[w].apps = {}

\* A row it has inserted is one of its own; a row it has locked keeps its key.
HeldIs(w, a) ==
    IF attempt[a].status = "absent"
      THEN /\ req[w].op \in IssueOps
           /\ copy[w][a].type = req[w].type /\ copy[w][a].email = req[w].email
           /\ copy[w][a].app \in App \ req[w].apps
           /\ (pc[w] \in {"revoke", "insert"}) => copy[w][a].app # req[w].app
      ELSE SameKey(attempt[a], copy[w][a])

RowsAre(w) ==
    /\ (\/ pc[w] \in {"idle", "user", "pick", "check"}
        \/ req[w].op = "dashboard" /\ pc[w] = "issue") => HoldsNone(w)
    /\ \A a \in cand[w] : attempt[a].status # "absent"
    /\ \A a \in Attempt : Holds(w, a) => HeldIs(w, a)

Known(w) == RequestIs(w) /\ RowsAre(w)

OfApps == \A a \in Attempt : attempt[a].status # "absent" => attempt[a].app \in App

\* What is known of the rows and of every request.
Base == Typed /\ LockInv /\ OfApps /\ \A w \in Worker : Known(w)

LEMMA InitBase == Init => Base
  <1> SUFFICES ASSUME Init PROVE Base
    OBVIOUS
  <1>1. \A w \in Worker : /\ pc[w] = "idle" /\ req[w] = NoRequest /\ cand[w] = {}
                          /\ DOMAIN copy[w] = {}
    BY DEF Init
  <1>2. OfApps
    BY DEF Init, OfApps, NoAttempt
  <1>3. \A w \in Worker : RowsAre(w)
    BY <1>1 DEF RowsAre, HoldsNone, Holds
  <1>4. \A w \in Worker : RequestIs(w)
    BY <1>1, NothingAsked DEF RequestIs, IssueOps, OwnerOps
  <1> QED
    BY <1>2, <1>3, <1>4, InitTyped, InitLock DEF Base, Known

\* A step of v leaves the others' requests alone, and only its commit the rows.
Others(v) ==
    /\ \A w \in Worker \ {v} : /\ pc'[w] = pc[w] /\ req'[w] = req[w]
                               /\ cand'[w] = cand[w] /\ copy'[w] = copy[w]
    /\ UNCHANGED expired

LEMMA EndIs ==
  ASSUME Typed, NEW w \in Worker, EndSession(w)
  PROVE  /\ Others(w) /\ pc'[w] = "idle" /\ req'[w] = NoRequest /\ cand'[w] = {}
         /\ HoldsNone(w)'
  <1>1. DOMAIN << >> = {}
    OBVIOUS
  <1> QED
    BY <1>1 DEF EndSession, Others, Typed, Asked, Flushed, HoldsNone, Holds

LEMMA StepOthers ==
  ASSUME Typed, NEW w \in Worker,
         Start(w) \/ Advance(w) \/ Commit(w) \/ Refuse(w) \/ Abort(w)
  PROVE  /\ Others(w)
         /\ Commit(w) \/ UNCHANGED attempt
  <1>1. CASE Start(w)
    <2>1. PICK r, stage : Begin(w, r, stage)
      BY <1>1, StartIs
    <2> QED
      BY <2>1 DEF Begin, committed, Others, Typed, Asked
  <1>2. CASE Advance(w)
    <2>1. CASE InsertUser(w)
      BY <2>1 DEF InsertUser, committed, Others, Typed, Asked
    <2>2. CASE IssuePick(w)
      BY <2>2 DEF IssuePick, committed, Others, Typed, Asked
    <2>3. ASSUME NEW S, NEW g, NEW stage, Writes(w, S, g, stage)
          PROVE  Others(w) /\ UNCHANGED attempt
      BY <2>3 DEF Writes, committed, Others, Typed, Asked, Flushed
    <2>4. CASE IssueRevoke(w)
      BY <2>3, <2>4, RevokeWrites
    <2>5. CASE IssueInsert(w)
      BY <2>3, <2>5, InsertWrites
    <2>6. CASE GuessPick(w) \/ AdminPick(w) \/ LinkPick(w)
      <3>1. PICK S : Pick(w, S)
        BY <2>6, PickIs
      <3> QED
        BY <3>1 DEF Pick, committed, Others, Typed, Asked
    <2>7. CASE GuessRight(w) \/ AdminRight(w) \/ LinkRight(w) \/ Wrong(w)
      BY <2>3, <2>7, RedeemWrites DEF Redeems
    <2> QED
      BY <1>2, <2>1, <2>2, <2>4, <2>5, <2>6, <2>7 DEF Advance
  <1>3. CASE Commit(w) \/ Refuse(w) \/ Abort(w)
    BY <1>3, EndIs DEF Commit, Refuse, Abort, committed
  <1> QED
    BY <1>1, <1>2, <1>3

\* A request that goes on alone.
Stirs(w) == Start(w) \/ Advance(w) \/ Commit(w) \/ Refuse(w) \/ Abort(w)

\* What another's step makes of the rows: it keeps those w holds, it issues
\* what it has inserted, and changes the status of what it has locked.
LEMMA OtherRows ==
  ASSUME Base, NEW v \in Worker, NEW w \in Worker \ {v}, Stirs(v), NEW a \in Attempt
  PROVE  /\ Holds(w, a) => attempt'[a] = attempt[a]
         /\ \/ attempt'[a] = attempt[a]
            \/ /\ Commit(v) /\ Holds(v, a) /\ attempt'[a] = copy[v][a] /\ HeldIs(v, a)
               /\ Follows(attempt[a].status, copy[v][a])
  <1>1. CASE UNCHANGED attempt
    BY <1>1
  <1>2. CASE Commit(v)
    <2>1. attempt'[a] = IF Holds(v, a) THEN copy[v][a] ELSE attempt[a]
      BY <1>2 DEF Commit
    <2>2. Holds(w, a) => ~Holds(v, a)
      BY DEF Base, LockInv, Alone
    <2>3. Holds(v, a) => HeldIs(v, a) /\ Follows(attempt[a].status, copy[v][a])
      BY DEF Base, Known, RowsAre, LockInv, HeldFollows
    <2> QED
      BY <1>2, <2>1, <2>2, <2>3
  <1> QED
    BY <1>1, <1>2, StepOthers DEF Base, Stirs

LEMMA KnownOther ==
  ASSUME Base, NEW v \in Worker, NEW w \in Worker \ {v}, Stirs(v)
  PROVE  Known(w)'
  <1>1. /\ pc'[w] = pc[w] /\ req'[w] = req[w] /\ cand'[w] = cand[w] /\ copy'[w] = copy[w]
    BY StepOthers DEF Base, Stirs, Others
  <1>2. Known(w) /\ cand[w] \subseteq Attempt
    BY DEF Base, Typed, Asked
  <1>3. RequestIs(w)'
    BY <1>1, <1>2 DEF Known, RequestIs
  <1>4. \A a \in cand'[w] : attempt'[a].status # "absent"
    <2> SUFFICES ASSUME NEW a \in cand[w] PROVE attempt'[a].status # "absent"
      BY <1>1
    <2> QED
      BY <1>2, OtherRows DEF Known, RowsAre, Follows
  <1>5. \A a \in Attempt : Holds(w, a)' => HeldIs(w, a)'
    <2> SUFFICES ASSUME NEW a \in Attempt, Holds(w, a)' PROVE HeldIs(w, a)'
      OBVIOUS
    <2>1. Holds(w, a) /\ attempt'[a] = attempt[a]
      BY <1>1, OtherRows DEF Holds
    <2> QED
      BY <1>1, <1>2, <2>1 DEF Known, RowsAre, HeldIs, SameKey
  <1>6. HoldsNone(w) => HoldsNone(w)'
    BY <1>1 DEF HoldsNone, Holds
  <1> QED
    BY <1>1, <1>2, <1>3, <1>4, <1>5, <1>6 DEF Known, RowsAre

\* What a statement that writes g to S makes of the rows its request holds.
LEMMA WritesRows ==
  ASSUME Typed, NEW w \in Worker, NEW S, NEW g, NEW stage, Writes(w, S, g, stage)
  PROVE  /\ pc'[w] = stage /\ req'[w] = req[w] /\ attempt' = attempt
         /\ cand'[w] \subseteq cand[w]
         /\ \A a \in Attempt : /\ Holds(w, a)' <=> (Holds(w, a) \/ a \in S)
                               /\ a \in S => copy'[w][a] = g[a]
                               /\ (Holds(w, a) /\ a \notin S) => copy'[w][a] = copy[w][a]
  <1>1. /\ DOMAIN copy'[w] = DOMAIN copy[w] \union S
        /\ \A a \in DOMAIN copy[w] \union S :
              copy'[w][a] = IF a \in S THEN g[a] ELSE copy[w][a]
    BY DEF Writes, Typed, Flushed
  <1> QED
    BY <1>1 DEF Writes, committed, Typed, Asked, Holds

LEMMA KnownWrites ==
  ASSUME Base, NEW w \in Worker, NEW S, NEW g, NEW stage, Writes(w, S, g, stage),
         RequestIs(w)', stage \in {"insert", "done", "refused"} \/ req[w].op # "dashboard",
         stage \notin {"idle", "user", "pick", "check"},
         \A a \in S : HeldIs(w, a)',
         \A a \in Attempt : (Holds(w, a) /\ a \notin S /\ attempt[a].status = "absent") =>
             ((stage \in {"revoke", "insert"}) => copy[w][a].app # req[w].app)
  PROVE  Known(w)'
  <1>1. /\ pc'[w] = stage /\ req'[w] = req[w] /\ attempt' = attempt
        /\ cand'[w] \subseteq cand[w]
        /\ \A a \in Attempt : /\ Holds(w, a)' <=> (Holds(w, a) \/ a \in S)
                              /\ a \in S => copy'[w][a] = g[a]
                              /\ (Holds(w, a) /\ a \notin S) => copy'[w][a] = copy[w][a]
    BY WritesRows DEF Base
  <1>2. RowsAre(w)
    BY DEF Base, Known
  <1>3. \A a \in Attempt : Holds(w, a)' => HeldIs(w, a)'
    <2> SUFFICES ASSUME NEW a \in Attempt, Holds(w, a)', a \notin S PROVE HeldIs(w, a)'
      OBVIOUS
    <2>1. Holds(w, a) /\ copy'[w][a] = copy[w][a] /\ HeldIs(w, a)
      BY <1>1, <1>2 DEF RowsAre
    <2> QED
      BY <1>1, <2>1 DEF HeldIs, SameKey
  <1>4. RowsAre(w)'
    BY <1>1, <1>2, <1>3 DEF RowsAre
  <1> QED
    BY <1>4 DEF Known

\* A request that writes no rows.
LEMMA KnownMoves ==
  ASSUME Base, NEW w \in Worker, UNCHANGED <<attempt, copy>>, RequestIs(w)',
         \A a \in cand'[w] : attempt[a].status # "absent",
         (\/ pc'[w] \in {"idle", "user", "pick", "check"}
          \/ req'[w].op = "dashboard" /\ pc'[w] = "issue") => HoldsNone(w),
         \A a \in Attempt : Holds(w, a) => HeldIs(w, a)'
  PROVE  Known(w)'
  BY DEF Known, RowsAre, HoldsNone, Holds

LEMMA KnownStart ==
  ASSUME Base, NEW w \in Worker, Start(w)
  PROVE  Known(w)'
  <1>1. PICK r, stage : Arrives(r, stage) /\ Begin(w, r, stage)
    BY StartIs
  <1>2. /\ pc[w] = "idle" /\ pc'[w] = stage /\ req'[w] = r
        /\ (r.op \in IssueOps => w \in Issuers)
        /\ UNCHANGED <<attempt, copy, cand>>
    BY <1>1 DEF Begin, committed, Base, Typed, Asked
  <1>3. HoldsNone(w) /\ \A a \in cand[w] : attempt[a].status # "absent"
    BY <1>2 DEF Base, Known, RowsAre
  <1>4. RequestIs(w)'
    BY <1>1, <1>2 DEF RequestIs, Arrives, IssueOps, GuessOps, OwnerOps
  <1> QED
    BY <1>2, <1>3, <1>4, KnownMoves DEF HoldsNone

LEMMA KnownIssue ==
  ASSUME Base, NEW w \in Worker, InsertUser(w) \/ IssuePick(w)
  PROVE  Known(w)'
  <1>1. CASE InsertUser(w)
    <2>1. /\ pc[w] = "user" /\ pc'[w] = "issue" /\ UNCHANGED <<attempt, copy, cand, req>>
      BY <1>1 DEF InsertUser, committed, Base, Typed, Asked
    <2>2. Known(w) /\ HoldsNone(w) /\ req[w].op \notin OwnerOps
      BY <2>1 DEF Base, Known, RowsAre, RequestIs
    <2>3. RequestIs(w)'
      BY <2>1, <2>2 DEF RequestIs, Known, OwnerOps
    <2>4. \A a \in cand'[w] : attempt[a].status # "absent"
      BY <2>1, <2>2 DEF Known, RowsAre
    <2> QED
      BY <2>1, <2>2, <2>3, <2>4, KnownMoves DEF HoldsNone
  <1>2. CASE IssuePick(w)
    <2>1. PICK p \in req[w].apps, r \in Proper :
             /\ r.op = req[w].op /\ r.email = req[w].email /\ r.type = req[w].type
             /\ r.app = p /\ r.apps = req[w].apps \ {p} /\ p \in App
             /\ req' = [req EXCEPT ![w] = r] /\ Doing(w, "issue", IssueOps)
             /\ cand' = [cand EXCEPT ![w] = Replaced(req[w], p)]
             /\ pc' = [pc EXCEPT ![w] = "revoke"]
             /\ UNCHANGED <<committed, expired, copy, born, beside>>
      BY <1>2, IssuePickIs DEF Base
    <2>2. /\ pc[w] = "issue" /\ req[w].op \in IssueOps /\ pc'[w] = "revoke" /\ req'[w] = r
          /\ cand'[w] = Replaced(req[w], p) /\ UNCHANGED <<attempt, copy>>
      BY <2>1 DEF Doing, committed, Base, Typed, Asked
    <2>3. Known(w)
      BY DEF Base
    <2>4. RequestIs(w)'
      BY <2>1, <2>2, <2>3 DEF Known, RequestIs, OwnerOps
    <2>5. \A a \in cand'[w] : attempt[a].status # "absent"
      BY <2>2 DEF Replaced, OwnerCodes, Outstanding
    <2>6. ASSUME NEW a \in Attempt, Holds(w, a) PROVE HeldIs(w, a)'
      <3>1. HeldIs(w, a)
        BY <2>3, <2>6 DEF Known, RowsAre
      <3> QED
        BY <2>1, <2>2, <3>1 DEF HeldIs, SameKey
    <2> QED
      BY <2>2, <2>4, <2>5, <2>6, KnownMoves
  <1> QED
    BY <1>1, <1>2

LEMMA KnownRevoke ==
  ASSUME Base, NEW w \in Worker, IssueRevoke(w)
  PROVE  Known(w)'
  <1>1. PICK g : /\ Writes(w, Live(w), g, "insert")
                 /\ \A a \in Live(w) : g[a] = [attempt[a] EXCEPT !.status = "revoked"]
    BY RevokeWrites DEF Base
  <1>2. Known(w) /\ pc[w] = "revoke" /\ Typed
    BY DEF Base, IssueRevoke
  <1>3. /\ pc'[w] = "insert" /\ req'[w] = req[w] /\ attempt' = attempt
        /\ \A a \in Attempt : a \in Live(w) => copy'[w][a] = g[a]
    BY <1>1, <1>2, WritesRows
  <1>4. RequestIs(w)'
    BY <1>2, <1>3 DEF Known, RequestIs, OwnerOps
  <1>5. \A a \in Live(w) : HeldIs(w, a)'
    <2> SUFFICES ASSUME NEW a \in Live(w) PROVE HeldIs(w, a)'
      OBVIOUS
    <2>1. a \in Attempt /\ attempt[a].status = "pending"
      BY <1>2, LiveIs
    <2>2. SameKey(attempt[a], g[a])
      BY <1>1, <1>2, <2>1, RowsWritten
    <2> QED
      BY <1>3, <2>1, <2>2 DEF HeldIs, SameKey
  <1>6. ASSUME NEW a \in Attempt, Holds(w, a), attempt[a].status = "absent"
        PROVE  copy[w][a].app # req[w].app
    BY <1>2, <1>6 DEF Known, RowsAre, HeldIs
  <1> QED
    BY <1>1, <1>4, <1>5, <1>6, KnownWrites

LEMMA KnownInsert ==
  ASSUME Base, NEW w \in Worker, IssueInsert(w)
  PROVE  Known(w)'
  <1> DEFINE stage == IF req[w].apps = {} THEN "done" ELSE "issue"
  <1>1. PICK b \in Attempt : \E g : Writes(w, {b}, g, stage) /\ g[b] = NewRow(w)
                                   /\ attempt[b].status = "absent"
    BY InsertWrites DEF Base
  <1>2. PICK g : Writes(w, {b}, g, stage) /\ g[b] = NewRow(w) /\ attempt[b].status = "absent"
    BY <1>1
  <1>3. Known(w) /\ pc[w] = "insert" /\ Typed
    BY DEF Base, IssueInsert
  <1>4. /\ pc'[w] = stage /\ req'[w] = req[w] /\ attempt' = attempt /\ copy'[w][b] = g[b]
    BY <1>2, <1>3, WritesRows
  <1>5. /\ req[w].op \in IssueOps /\ req[w].app \in App \ req[w].apps
        /\ (req[w].op = "dashboard" => req[w].apps = {})
    BY <1>3 DEF Known, RequestIs
  <1>6. RequestIs(w)'
    BY <1>3, <1>4, <1>5 DEF Known, RequestIs, OwnerOps
  <1>7. HeldIs(w, b)'
    BY <1>2, <1>3, <1>4, <1>5, NewRowIs DEF HeldIs
  <1>8. /\ stage \in {"done", "issue"} /\ (stage = "done" \/ req[w].op # "dashboard")
    BY <1>5
  <1> HIDE DEF stage
  <1> QED
    BY <1>2, <1>6, <1>7, <1>8, KnownWrites

LEMMA KnownGuess ==
  ASSUME Base, NEW w \in Worker, GuessPick(w) \/ AdminPick(w) \/ LinkPick(w)
  PROVE  Known(w)'
  <1>1. PICK S \in SUBSET Attempt : Pick(w, S) /\ pc[w] = "pick"
                                    /\ \A a \in S : attempt[a].status = "pending"
    BY PickIs DEF Base
  <1>2. /\ pc'[w] = "check" /\ cand'[w] = S /\ UNCHANGED <<attempt, copy, req>>
    BY <1>1 DEF Pick, committed, Base, Typed, Asked
  <1>3. Known(w) /\ HoldsNone(w) /\ req[w].op \notin OwnerOps
    BY <1>1 DEF Base, Known, RowsAre, RequestIs
  <1>4. RequestIs(w)'
    BY <1>1, <1>2, <1>3 DEF Known, RequestIs, OwnerOps
  <1> QED
    BY <1>1, <1>2, <1>3, <1>4, KnownMoves DEF HoldsNone

LEMMA KnownRedeem ==
  ASSUME Base, NEW w \in Worker, GuessRight(w) \/ AdminRight(w) \/ LinkRight(w) \/ Wrong(w)
  PROVE  Known(w)'
  <1>1. PICK S, g, stage : Redeems(w, S, g, stage)
    BY RedeemWrites DEF Base
  <1>2. Known(w) /\ Typed
    BY DEF Base
  <1>3. /\ pc'[w] = stage /\ req'[w] = req[w] /\ attempt' = attempt
        /\ \A a \in Attempt : a \in S => copy'[w][a] = g[a]
    BY <1>1, <1>2, WritesRows DEF Redeems
  <1>4. req[w].op \in GuessOps /\ HoldsNone(w) /\ stage \in {"done", "refused"}
    BY <1>1, <1>2 DEF Redeems, Known, RequestIs, RowsAre
  <1>5. RequestIs(w)'
    BY <1>2, <1>3, <1>4 DEF Known, RequestIs, OwnerOps, GuessOps, IssueOps
  <1>6. \A a \in S : HeldIs(w, a)'
    <2> SUFFICES ASSUME NEW a \in S PROVE HeldIs(w, a)'
      OBVIOUS
    <2>1. a \in Attempt /\ attempt[a].status = "pending" /\ SameKey(attempt[a], g[a])
      BY <1>1, <1>2, LiveIs DEF Redeems
    <2> QED
      BY <1>3, <2>1 DEF HeldIs, SameKey
  <1>7. Writes(w, S, g, stage)
    BY <1>1 DEF Redeems
  <1> QED
    BY <1>4, <1>5, <1>6, <1>7, KnownWrites

LEMMA KnownEnd ==
  ASSUME Base, NEW w \in Worker, EndSession(w)
  PROVE  Known(w)'
  <1>1. pc'[w] = "idle" /\ req'[w] = NoRequest /\ cand'[w] = {} /\ HoldsNone(w)'
    BY EndIs DEF Base
  <1> QED
    BY <1>1, NothingAsked DEF Known, RequestIs, RowsAre, HoldsNone, IssueOps, OwnerOps

LEMMA OfAppsKept ==
  ASSUME Base, NEW v \in Worker, Stirs(v)
  PROVE  OfApps'
  <1> SUFFICES ASSUME NEW a \in Attempt, attempt'[a].status # "absent"
               PROVE  attempt'[a].app \in App
    BY DEF OfApps
  <1>1. CASE Commit(v) /\ Holds(v, a)
    <2>1. attempt'[a] = copy[v][a]
      BY <1>1 DEF Commit
    <2>2. HeldIs(v, a)
      BY <1>1 DEF Base, Known, RowsAre
    <2> QED
      BY <2>1, <2>2 DEF HeldIs, SameKey, Base, OfApps
  <1>2. CASE ~(Commit(v) /\ Holds(v, a))
    <2>1. attempt'[a] = attempt[a]
      BY <1>2, StepOthers DEF Stirs, Base, Commit
    <2> QED
      BY <2>1 DEF Base, OfApps
  <1> QED
    BY <1>1, <1>2

LEMMA StepBase ==
  ASSUME Base, [Next]_vars
  PROVE  Base'
  <1>1. Typed' /\ LockInv'
    BY StepTyped, StepLock DEF Base
  <1>2. ASSUME UNCHANGED <<attempt, pc, req, cand, copy>> PROVE Base'
    BY <1>1, <1>2 DEF Base, OfApps, Known, RequestIs, RowsAre, HeldIs, HoldsNone, Holds, SameKey
  <1>3. ASSUME NEW v \in Worker, Stirs(v) PROVE Base'
    <2>1. Known(v)'
      BY <1>3, KnownStart, KnownIssue, KnownRevoke, KnownInsert, KnownGuess, KnownRedeem,
         KnownEnd DEF Stirs, Advance, Commit, Refuse, Abort
    <2>2. \A w \in Worker \ {v} : Known(w)'
      BY <1>3, KnownOther
    <2> QED
      BY <1>1, <1>3, <2>1, <2>2, OfAppsKept DEF Base
  <1>4. ASSUME NEW a \in Attempt, Expire(a) PROVE UNCHANGED <<attempt, pc, req, cand, copy>>
    BY <1>4 DEF Expire, committed, session
  <1> QED
    BY <1>2, <1>3, <1>4 DEF Next, Stirs, vars

-----------------------------------------------------------------------------
(* Issuing: what a credential replaces, however issuing requests overlap.   *)

\* The rows as a request's session sees them.
Seen(w, a) == IF Holds(w, a) THEN copy[w][a] ELSE attempt[a]
Fresh(w, a) == Holds(w, a) /\ attempt[a].status = "absent"
SeenLive(w, a) == Seen(w, a).status = "pending"

Alike(r, s) == r.app = s.app /\ r.type = s.type /\ r.email = s.email

LEMMA SeenIs ==
  ASSUME Base, NEW w \in Worker, NEW a \in Attempt, SeenLive(w, a), ~Fresh(w, a)
  PROVE  Pending(a) /\ SameKey(attempt[a], Seen(w, a))
  <1>1. CASE ~Holds(w, a)
    BY <1>1 DEF SeenLive, Seen, Pending, SameKey
  <1>2. CASE Holds(w, a)
    <2>1. attempt[a].status # "absent" /\ HeldIs(w, a) /\ Seen(w, a) = copy[w][a]
          /\ Follows(attempt[a].status, copy[w][a])
      BY <1>2 DEF Fresh, Seen, Base, Known, RowsAre, LockInv, HeldFollows
    <2> QED
      BY <2>1 DEF HeldIs, Follows, SeenLive, Pending
  <1> QED
    BY <1>1, <1>2

LEMMA OnlyIssuersInsert ==
  ASSUME Base, NEW w \in Worker, NEW a \in Attempt, Fresh(w, a)
  PROVE  /\ w \in Issuers /\ req[w].op \in IssueOps
         /\ Seen(w, a).type = req[w].type /\ Seen(w, a).email = req[w].email
         /\ Seen(w, a).app \in App \ req[w].apps
         /\ (pc[w] \in {"revoke", "insert"}) => Seen(w, a).app # req[w].app
  BY DEF Fresh, Seen, Base, Known, RowsAre, RequestIs, HeldIs

\* No row becomes live, and what w has inserted stays so.
Shrinks(w) ==
    \A a \in Attempt :
        /\ SeenLive(w, a)' => (SeenLive(w, a) /\ SameKey(Seen(w, a), Seen(w, a)'))
        /\ Fresh(w, a)' <=> Fresh(w, a)

LEMMA SeenKept ==
  ASSUME NEW w, UNCHANGED <<attempt, copy>>
  PROVE  /\ Shrinks(w)
         /\ \A a \in Attempt : /\ Seen(w, a)' = Seen(w, a)
                               /\ SeenLive(w, a)' <=> SeenLive(w, a)
                               /\ Fresh(w, a)' <=> Fresh(w, a)
  BY DEF Shrinks, Seen, SeenLive, Fresh, Holds, SameKey

\* A statement over live rows makes none live.
LEMMA WritesShrink ==
  ASSUME Base, NEW w \in Worker, NEW S, NEW g, NEW stage, Writes(w, S, g, stage),
         \A a \in S : attempt[a].status = "pending" /\ ~Fresh(w, a) /\ SameKey(attempt[a], g[a]),
         HoldsNone(w) \/ \A a \in S : g[a].status # "pending"
  PROVE  Shrinks(w)
  <1>1. /\ attempt' = attempt
        /\ \A a \in Attempt : /\ Holds(w, a)' <=> (Holds(w, a) \/ a \in S)
                              /\ a \in S => copy'[w][a] = g[a]
                              /\ (Holds(w, a) /\ a \notin S) => copy'[w][a] = copy[w][a]
    BY WritesRows DEF Base
  <1> SUFFICES ASSUME NEW a \in Attempt
               PROVE  /\ SeenLive(w, a)' =>
                           (SeenLive(w, a) /\ SameKey(Seen(w, a), Seen(w, a)'))
                      /\ Fresh(w, a)' <=> Fresh(w, a)
    BY DEF Shrinks
  <1>2. CASE a \in S
    <2>1. Seen(w, a)' = g[a] /\ ~Fresh(w, a)' /\ ~Fresh(w, a)
      BY <1>1, <1>2 DEF Seen, Fresh
    <2>2. HoldsNone(w) => Seen(w, a) = attempt[a]
      BY DEF HoldsNone, Seen
    <2> QED
      BY <1>2, <2>1, <2>2 DEF SeenLive
  <1>3. CASE a \notin S
    <2>1. Seen(w, a)' = Seen(w, a) /\ (Fresh(w, a)' <=> Fresh(w, a))
      BY <1>1, <1>3 DEF Seen, Fresh
    <2> QED
      BY <2>1 DEF SeenLive, SameKey
  <1> QED
    BY <1>2, <1>3

\* Of the application a credential is being issued for, and of its type.
Rival(w, r) == r.type = req[w].type /\ r.email = req[w].email /\ r.app = req[w].app

\* Its statement has picked every live rival that it could see,
Picking(w) ==
    pc[w] = "revoke" => \A a \in Attempt \ beside[w] :
        Pending(a) /\ Rival(w, attempt[a]) => a \in cand[w]

\* and has revoked it,
Leaving(w) ==
    pc[w] = "insert" => \A a \in Attempt \ beside[w] : ~(SeenLive(w, a) /\ Rival(w, Seen(w, a)))

\* so that what is inserted has none.
Newest(w) ==
    \A b \in Attempt : \A a \in Attempt \ beside[w] :
        Fresh(w, b) /\ SeenLive(w, a) /\ Alike(Seen(w, a), Seen(w, b)) => a = b

Supersedes(w) == Picking(w) /\ Leaving(w) /\ Newest(w)

\* The strengthening of NewestReplaces that every step preserves.
NewInv == Base /\ \A w \in Worker : Supersedes(w)

\* What another's step can make live is what it has issued beside w.
LEMMA OtherSeen ==
  ASSUME Base, NEW v \in Worker, NEW w \in Worker \ {v}, Stirs(v), NEW a \in Attempt
  PROVE  /\ (Replacing(w) /\ Pending(a)' /\ a \notin beside'[w]) =>
               Pending(a) /\ SameKey(attempt[a], attempt'[a])
         /\ Holds(w, a) => attempt'[a] = attempt[a]
         /\ beside[w] \subseteq beside'[w]
  <1>1. CASE UNCHANGED <<attempt, beside>>
    BY <1>1 DEF Pending, SameKey
  <1>2. CASE Refuse(v) \/ Abort(v)
    BY <1>2 DEF Refuse, Abort, Parts, committed, Pending, SameKey, Base, Typed, Stored
  <1>3. CASE Commit(v)
    <2>1. beside'[w] = IF Replacing(w) THEN beside[w] \union Inserted(v) ELSE beside[w]
      BY <1>3 DEF Commit
    <2>2. /\ Holds(w, a) => attempt'[a] = attempt[a]
          /\ \/ attempt'[a] = attempt[a]
             \/ /\ Holds(v, a) /\ attempt'[a] = copy[v][a] /\ HeldIs(v, a)
                /\ Follows(attempt[a].status, copy[v][a])
      BY OtherRows
    <2>3. CASE attempt'[a] = attempt[a]
      BY <2>1, <2>2, <2>3 DEF Pending, SameKey
    <2>4. CASE /\ Holds(v, a) /\ attempt'[a] = copy[v][a] /\ HeldIs(v, a)
               /\ Follows(attempt[a].status, copy[v][a])
      <3>1. (Replacing(w) /\ a \notin beside'[w]) => attempt[a].status # "absent"
        BY <2>1, <2>4 DEF Inserted
      <3> QED
        BY <2>1, <2>2, <2>4, <3>1 DEF HeldIs, Follows, Pending
    <2> QED
      BY <2>2, <2>3, <2>4
  <1>4. CASE Start(v) \/ Advance(v)
    <2>1. UNCHANGED <<attempt, beside>>
      <3>1. CASE Start(v)
        <4>1. PICK r, stage : Begin(v, r, stage)
          BY <3>1, StartIs DEF Base
        <4> QED
          BY <4>1 DEF Begin, committed
      <3>2. CASE Advance(v)
        BY <3>2 DEF Advance, InsertUser, IssuePick, IssueRevoke, IssueInsert, GuessPick, AdminPick,
           LinkPick, Pick, GuessRight, AdminRight, LinkRight, Wrong, Finish, committed
      <3> QED
        BY <1>4, <3>1, <3>2
    <2> QED
      BY <1>1, <2>1
  <1> QED
    BY <1>2, <1>3, <1>4 DEF Stirs

LEMMA NewOther ==
  ASSUME NewInv, NEW v \in Worker, NEW w \in Worker \ {v}, Stirs(v)
  PROVE  Supersedes(w)'
  <1>1. Base /\ Supersedes(w) /\ RequestIs(w)
    BY DEF NewInv, Base, Known
  <1>2. pc'[w] = pc[w] /\ req'[w] = req[w] /\ cand'[w] = cand[w] /\ copy'[w] = copy[w]
    BY <1>1, StepOthers DEF Base, Stirs, Others
  <1>3. pc[w] \in {"revoke", "insert"} => Replacing(w)
    BY <1>1 DEF Replacing, RequestIs
  <1>4. ASSUME NEW a \in Attempt
        PROVE  /\ Fresh(w, a)' <=> Fresh(w, a)
               /\ Fresh(w, a) => Replacing(w) /\ Seen(w, a)' = Seen(w, a)
               /\ (Replacing(w) /\ SeenLive(w, a)' /\ a \notin beside'[w]) =>
                    (a \notin beside[w] /\ SeenLive(w, a) /\ SameKey(Seen(w, a), Seen(w, a)'))
    <2>1. /\ Holds(w, a)' <=> Holds(w, a)
          /\ Holds(w, a) => attempt'[a] = attempt[a]
          /\ (Replacing(w) /\ Pending(a)' /\ a \notin beside'[w]) =>
               (Pending(a) /\ SameKey(attempt[a], attempt'[a]))
          /\ beside[w] \subseteq beside'[w]
      BY <1>1, <1>2, OtherSeen DEF Holds
    <2>2. Fresh(w, a) => Replacing(w)
      BY <1>1, OnlyIssuersInsert DEF Fresh, Replacing
    <2>3. CASE Holds(w, a)
      BY <1>2, <2>1, <2>2, <2>3 DEF Fresh, SeenLive, Seen, SameKey
    <2>4. CASE ~Holds(w, a)
      BY <2>1, <2>4 DEF Fresh, SeenLive, Seen, Pending
    <2> QED
      BY <2>3, <2>4
  <1>5. Picking(w)'
    <2> SUFFICES ASSUME pc[w] = "revoke", NEW a \in Attempt, a \notin beside'[w], Pending(a)',
                        Rival(w, attempt[a])'
                 PROVE  a \in cand[w]
      BY <1>2 DEF Picking
    <2>1. a \notin beside[w] /\ Pending(a) /\ SameKey(attempt[a], attempt'[a])
      BY <1>1, <1>3, OtherSeen
    <2> QED
      BY <1>1, <1>2, <2>1 DEF Supersedes, Picking, Rival, SameKey
  <1>6. Leaving(w)'
    <2> SUFFICES ASSUME pc[w] = "insert", NEW a \in Attempt, a \notin beside'[w],
                        SeenLive(w, a)', Rival(w, Seen(w, a))'
                 PROVE  FALSE
      BY <1>2 DEF Leaving
    <2>1. a \notin beside[w] /\ SeenLive(w, a) /\ SameKey(Seen(w, a), Seen(w, a)')
      BY <1>3, <1>4
    <2> QED
      BY <1>1, <1>2, <2>1 DEF Supersedes, Leaving, Rival, SameKey
  <1>7. Newest(w)'
    <2> SUFFICES ASSUME NEW b \in Attempt, NEW a \in Attempt, a \notin beside'[w], Fresh(w, b)',
                        SeenLive(w, a)', Alike(Seen(w, a), Seen(w, b))'
                 PROVE  a = b
      BY DEF Newest
    <2>1. Fresh(w, b) /\ Seen(w, b)' = Seen(w, b) /\ Replacing(w)
      BY <1>4
    <2>2. a \notin beside[w] /\ SeenLive(w, a) /\ SameKey(Seen(w, a), Seen(w, a)')
      BY <1>4, <2>1
    <2>3. Alike(Seen(w, a), Seen(w, b))
      BY <2>1, <2>2 DEF Alike, SameKey
    <2> QED
      BY <1>1, <2>1, <2>2, <2>3 DEF Supersedes, Newest
  <1> QED
    BY <1>5, <1>6, <1>7 DEF Supersedes

\* A request that has inserted nothing, or is not at issuing.
LEMMA NewNothing ==
  ASSUME NEW w \in Worker, pc'[w] \notin {"revoke", "insert"},
         Base' /\ (HoldsNone(w)' \/ req'[w].op \notin IssueOps)
  PROVE  Supersedes(w)'
  <1>1. Picking(w)' /\ Leaving(w)'
    BY DEF Picking, Leaving
  <1>2. \A b \in Attempt : Fresh(w, b)' => req'[w].op \in IssueOps
    BY DEF Base, Known, RowsAre, HeldIs, Fresh
  <1>3. Newest(w)'
    BY <1>2 DEF Newest, HoldsNone, Fresh
  <1> QED
    BY <1>1, <1>3 DEF Supersedes

LEMMA NewQuiet ==
  ASSUME Base, Base', NEW w \in Worker,
         \/ Start(w) \/ InsertUser(w)
         \/ GuessPick(w) \/ AdminPick(w) \/ LinkPick(w)
         \/ GuessRight(w) \/ AdminRight(w) \/ LinkRight(w) \/ Wrong(w)
         \/ EndSession(w)
  PROVE  Supersedes(w)'
  <1>1. CASE Start(w)
    <2>1. PICK r, stage : Arrives(r, stage) /\ Begin(w, r, stage)
      BY <1>1, StartIs DEF Base
    <2>2. /\ pc[w] = "idle" /\ pc'[w] = stage /\ copy' = copy
          /\ stage \in {"user", "issue", "pick"}
      BY <2>1 DEF Begin, Arrives, Base, Typed, Asked
    <2>3. HoldsNone(w)'
      BY <2>2 DEF Base, Known, RowsAre, HoldsNone, Holds
    <2> QED
      BY <2>2, <2>3, NewNothing
  <1>2. CASE InsertUser(w)
    <2>1. pc[w] = "user" /\ pc'[w] = "issue" /\ copy' = copy
      BY <1>2 DEF InsertUser, Base, Typed, Asked
    <2>2. HoldsNone(w)'
      BY <2>1 DEF Base, Known, RowsAre, HoldsNone, Holds
    <2> QED
      BY <2>1, <2>2, NewNothing
  <1>3. CASE GuessPick(w) \/ AdminPick(w) \/ LinkPick(w)
    <2>1. PICK S : Pick(w, S)
      BY <1>3, PickIs DEF Base
    <2>2. pc'[w] = "check"
      BY <2>1 DEF Pick, Base, Typed, Asked
    <2>3. req'[w].op \notin IssueOps
      BY <2>2 DEF Base, Known, RequestIs, IssueOps, GuessOps
    <2> QED
      BY <2>2, <2>3, NewNothing
  <1>4. CASE GuessRight(w) \/ AdminRight(w) \/ LinkRight(w) \/ Wrong(w)
    <2>1. PICK S, g, stage : Redeems(w, S, g, stage)
      BY <1>4, RedeemWrites DEF Base
    <2>2. pc[w] = "check" /\ pc'[w] = stage /\ stage \in {"done", "refused"} /\ req'[w] = req[w]
      BY <2>1, WritesRows DEF Redeems, Base
    <2>3. req'[w].op \notin IssueOps
      BY <2>2 DEF Base, Known, RequestIs, IssueOps, GuessOps
    <2> QED
      BY <2>2, <2>3, NewNothing
  <1>5. CASE EndSession(w)
    BY <1>5, EndIs, NewNothing DEF Base
  <1> QED
    BY <1>1, <1>2, <1>3, <1>4, <1>5

LEMMA NewPick ==
  ASSUME NewInv, NEW w \in Worker, IssuePick(w)
  PROVE  Supersedes(w)'
  <1>1. Base /\ Supersedes(w) /\ Typed
    BY DEF NewInv, Base
  <1>2. PICK p \in req[w].apps, r \in Proper :
             /\ r.op = req[w].op /\ r.email = req[w].email /\ r.type = req[w].type
             /\ r.app = p /\ p \in App /\ req' = [req EXCEPT ![w] = r]
             /\ cand' = [cand EXCEPT ![w] = Replaced(req[w], p)]
             /\ pc' = [pc EXCEPT ![w] = "revoke"]
             /\ UNCHANGED <<committed, expired, copy, born, beside>>
    BY <1>1, IssuePickIs
  <1>3. /\ pc'[w] = "revoke" /\ req'[w] = r /\ cand'[w] = Replaced(req[w], p)
        /\ UNCHANGED <<attempt, copy, beside>>
    BY <1>1, <1>2 DEF committed, Typed, Asked
  <1>4. Picking(w)'
    <2> SUFFICES ASSUME NEW a \in Attempt, Pending(a)', Rival(w, attempt[a])'
                 PROVE  a \in cand'[w]
      BY DEF Picking
    <2>1. a \in Outstanding(p, req[w].email, req[w].type)
      BY <1>2, <1>3 DEF Outstanding, Pending, Rival
    <2>2. req[w].op = "dashboard" => req[w].type = "admin_login"
      BY <1>1 DEF Typed, Asked, Proper, IssueOps, OwnerOps
    <2>3. a \in Replaced(req[w], p)
      BY <1>2, <2>1, <2>2 DEF Replaced, OwnerCodes
    <2> QED
      BY <1>3, <2>3
  <1>5. Leaving(w)'
    BY <1>3 DEF Leaving
  <1>6. Newest(w)'
    BY <1>1, <1>3, SeenKept DEF Supersedes, Newest
  <1> QED
    BY <1>4, <1>5, <1>6 DEF Supersedes

LEMMA NewRevoke ==
  ASSUME NewInv, NEW w \in Worker, IssueRevoke(w)
  PROVE  Supersedes(w)'
  <1>1. Base /\ Supersedes(w) /\ Typed
    BY DEF NewInv, Base
  <1>2. PICK g : /\ Writes(w, Live(w), g, "insert")
                 /\ \A a \in Live(w) : g[a] = [attempt[a] EXCEPT !.status = "revoked"]
    BY <1>1, RevokeWrites
  <1>3. /\ pc[w] = "revoke" /\ pc'[w] = "insert" /\ req'[w] = req[w] /\ beside' = beside
        /\ attempt' = attempt
        /\ \A a \in Attempt : /\ Holds(w, a)' <=> (Holds(w, a) \/ a \in Live(w))
                              /\ a \in Live(w) => copy'[w][a] = g[a]
                              /\ (Holds(w, a) /\ a \notin Live(w)) => copy'[w][a] = copy[w][a]
    BY <1>1, <1>2, WritesRows DEF IssueRevoke
  <1>4. \A a \in Live(w) : /\ a \in Attempt /\ attempt[a].status = "pending"
                           /\ SameKey(attempt[a], g[a]) /\ g[a].status = "revoked"
    BY <1>1, <1>2, LiveIs, RowsWritten
  <1>5. Shrinks(w)
    BY <1>1, <1>2, <1>4, WritesShrink DEF Fresh
  <1>6. Leaving(w)'
    <2> SUFFICES ASSUME NEW a \in Attempt, a \notin beside[w], SeenLive(w, a)',
                        Rival(w, Seen(w, a))'
                 PROVE  FALSE
      BY <1>3 DEF Leaving
    <2>1. SeenLive(w, a) /\ SameKey(Seen(w, a), Seen(w, a)')
      BY <1>5 DEF Shrinks
    <2>2. Rival(w, Seen(w, a))
      BY <1>3, <2>1 DEF Rival, SameKey
    <2>3. ~Fresh(w, a)
      BY <1>1, <1>3, <2>2, OnlyIssuersInsert DEF Rival
    <2>4. Pending(a) /\ SameKey(attempt[a], Seen(w, a))
      BY <1>1, <2>1, <2>3, SeenIs
    <2>5. a \in cand[w]
      BY <1>1, <1>3, <2>2, <2>4 DEF Supersedes, Picking, Rival, SameKey
    <2>6. a \in Live(w)
      BY <2>4, <2>5 DEF Live, Pending
    <2>7. Seen(w, a)' = g[a]
      BY <1>3, <2>6 DEF Seen
    <2> QED
      BY <1>4, <2>6, <2>7 DEF SeenLive
  <1>7. Picking(w)'
    BY <1>3 DEF Picking
  <1>8. Newest(w)'
    <2> SUFFICES ASSUME NEW b \in Attempt, NEW a \in Attempt, a \notin beside[w], Fresh(w, b)',
                        SeenLive(w, a)', Alike(Seen(w, a), Seen(w, b))'
                 PROVE  a = b
      BY <1>3 DEF Newest
    <2>1. SeenLive(w, a) /\ SameKey(Seen(w, a), Seen(w, a)') /\ Fresh(w, b)
      BY <1>5 DEF Shrinks
    <2>2. Seen(w, b)' = Seen(w, b)
      BY <1>3, <1>4, <2>1 DEF Fresh, Seen
    <2>3. Alike(Seen(w, a), Seen(w, b))
      BY <2>1, <2>2 DEF Alike, SameKey
    <2> QED
      BY <1>1, <2>1, <2>3 DEF Supersedes, Newest
  <1> QED
    BY <1>6, <1>7, <1>8 DEF Supersedes

LEMMA NewInsert ==
  ASSUME NewInv, NEW w \in Worker, IssueInsert(w)
  PROVE  Supersedes(w)'
  <1> DEFINE stage == IF req[w].apps = {} THEN "done" ELSE "issue"
  <1>1. Base /\ Supersedes(w) /\ Typed /\ pc[w] = "insert" /\ beside' = beside
    BY DEF NewInv, Base, IssueInsert
  <1>2. PICK b \in Attempt : \E g : /\ Writes(w, {b}, g, stage) /\ g[b] = NewRow(w)
                                   /\ attempt[b].status = "absent" /\ ~Holds(w, b)
    BY <1>1, InsertWrites
  <1>3. PICK g : /\ Writes(w, {b}, g, stage) /\ g[b] = NewRow(w)
                 /\ attempt[b].status = "absent" /\ ~Holds(w, b)
    BY <1>2
  <1>4. /\ pc'[w] = stage /\ req'[w] = req[w] /\ attempt' = attempt /\ Holds(w, b)'
        /\ copy'[w][b] = NewRow(w)
        /\ \A a \in Attempt \ {b} : /\ Holds(w, a)' <=> Holds(w, a)
                                    /\ Holds(w, a) => copy'[w][a] = copy[w][a]
    BY <1>1, <1>3, WritesRows
  <1>5. stage \in {"done", "issue"}
    OBVIOUS
  <1> HIDE DEF stage
  <1>6. Picking(w)' /\ Leaving(w)'
    BY <1>4, <1>5 DEF Picking, Leaving
  <1>7. Seen(w, b)' = NewRow(w)
    BY <1>4 DEF Seen
  <1>8. \A a \in Attempt \ {b} : /\ Seen(w, a)' = Seen(w, a)
                                 /\ Fresh(w, a)' <=> Fresh(w, a)
                                 /\ SeenLive(w, a)' <=> SeenLive(w, a)
    BY <1>4 DEF Seen, Fresh, SeenLive
  <1>9. ASSUME NEW c \in Attempt, NEW a \in Attempt, a \notin beside[w], Fresh(w, c)',
               SeenLive(w, a)', Alike(Seen(w, a)', Seen(w, c)'), a # c
        PROVE  FALSE
    <2>1. CASE c = b
      <3>1. SeenLive(w, a) /\ Rival(w, Seen(w, a))
        BY <1>1, <1>7, <1>8, <1>9, <2>1, NewRowIs DEF Alike, Rival
      <3> QED
        BY <1>1, <1>9, <3>1 DEF Supersedes, Leaving
    <2>2. CASE a = b
      <3>1. Fresh(w, c) /\ Seen(w, c).app = req[w].app
        BY <1>1, <1>7, <1>8, <1>9, <2>2, NewRowIs DEF Alike
      <3> QED
        BY <1>1, <3>1, OnlyIssuersInsert
    <2>3. CASE a # b /\ c # b
      BY <1>1, <1>8, <1>9, <2>3 DEF Supersedes, Newest
    <2> QED
      BY <2>1, <2>2, <2>3
  <1>10. Newest(w)'
    BY <1>1, <1>9 DEF Newest, Alike
  <1> QED
    BY <1>6, <1>10 DEF Supersedes

LEMMA StepNew ==
  ASSUME NewInv, [Next]_vars
  PROVE  NewInv'
  <1>1. Base /\ Base'
    BY StepBase DEF NewInv
  <1>2. ASSUME UNCHANGED <<attempt, pc, req, cand, copy, beside>> PROVE NewInv'
    BY <1>1, <1>2 DEF NewInv, Supersedes, Picking, Leaving, Newest, Pending, Rival, SeenLive, Seen,
       Fresh, Holds, Alike
  <1>3. ASSUME NEW v \in Worker, Stirs(v) PROVE NewInv'
    <2>1. Supersedes(v)'
      BY <1>1, <1>3, NewQuiet, NewPick, NewRevoke, NewInsert
      DEF Stirs, Advance, Commit, Refuse, Abort
    <2>2. \A w \in Worker \ {v} : Supersedes(w)'
      BY <1>3, NewOther
    <2> QED
      BY <1>1, <2>1, <2>2 DEF NewInv
  <1>4. ASSUME NEW a \in Attempt, Expire(a)
        PROVE  UNCHANGED <<attempt, pc, req, cand, copy, beside>>
    BY <1>4 DEF Expire, committed, session
  <1> QED
    BY <1>2, <1>3, <1>4 DEF Next, Stirs, vars

LEMMA InitNew == Init => NewInv
  <1> SUFFICES ASSUME Init PROVE NewInv
    OBVIOUS
  <1>1. \A w \in Worker : pc[w] = "idle" /\ \A a \in Attempt : ~Holds(w, a)
    BY DEF Init, Holds
  <1>2. \A w \in Worker : Supersedes(w)
    BY <1>1 DEF Supersedes, Picking, Leaving, Newest, Fresh
  <1> QED
    BY <1>2, InitBase DEF NewInv

\* A request that ends its stage has taken a step; the rows change at a commit.
LEMMA CommitOf ==
  ASSUME Base, [Next]_vars, NEW w \in Worker, pc'[w] # pc[w],
         attempt' # attempt \/ opened' # opened
  PROVE  Commit(w)
  <1>1. PICK v \in Worker : Commit(v)
    BY StepLock DEF Base
  <1>2. Others(v)
    BY <1>1, StepOthers DEF Base
  <1> QED
    BY <1>1, <1>2 DEF Others

\* However many requests issue credentials at once, and whatever guesses,
\* crashes and refusals interleave: a new credential that is committed leaves
\* none alive that was committed before its statement picked the ones to
\* replace (revoke_pending_attempts and create_auth_attempt).
THEOREM NewestReplacesEarlier == Spec => NewestReplaces
  <1>1. NewInv /\ [Next]_vars => NewInv'
    BY StepNew
  <1>2. ASSUME NewInv, [Next]_vars, NEW w \in Worker, Doing(w, "done", IssueOps),
               pc'[w] = "idle", attempt' # attempt, NEW b \in Inserted(w),
               NEW a \in Attempt \ beside[w], Pending(a)', Same(a, b)'
        PROVE  a = b
    <2>1. pc[w] = "done" /\ Base /\ Commit(w) /\ Newest(w)
      BY <1>2, CommitOf DEF Doing, NewInv, Supersedes
    <2>2. \A c \in Attempt : attempt'[c] = Seen(w, c)
      BY <2>1 DEF Commit, Seen
    <2>3. b \in Attempt /\ Fresh(w, b)
      BY DEF Inserted, Fresh
    <2>4. SeenLive(w, a) /\ Alike(Seen(w, a), Seen(w, b))
      BY <1>2, <2>2, <2>3 DEF SeenLive, Pending, Same, Alike
    <2> QED
      BY <2>1, <2>3, <2>4 DEF Newest
  <1>3. NewInv /\ [Next]_vars =>
          [\A w \in Worker :
             (/\ Doing(w, "done", IssueOps)
              /\ pc'[w] = "idle" /\ attempt' # attempt)
             => \A b \in Inserted(w) : \A a \in Attempt \ beside[w] :
                   Pending(a)' /\ Same(a, b)' => a = b]_vars
    BY <1>2
  <1> QED
    BY <1>1, <1>3, InitNew, PTL DEF Spec, NewestReplaces

-----------------------------------------------------------------------------
(* One issuer: what it has written replaces what is live.                  *)

\* Issuing requests do not overlap: only one worker issues, one request after
\* another.
OneIssuer == \A v, w \in Issuers : v = w

OfOwner(r, e) == r.type = "admin_login" /\ r.email = e

\* The rows that the credential under way is to replace.
Target(w, r) ==
    /\ r.type = req[w].type /\ r.email = req[w].email
    /\ req[w].op = "dashboard" \/ r.app = req[w].app

OneSeen(w) ==
    \A a, b \in Attempt :
        SeenLive(w, a) /\ SeenLive(w, b) /\ Alike(Seen(w, a), Seen(w, b)) => a = b

Revoking(w) ==
    pc[w] = "revoke" => \A a \in Attempt :
        SeenLive(w, a) /\ Target(w, Seen(w, a)) => ~Fresh(w, a) /\ a \in cand[w]

Inserting(w) ==
    pc[w] = "insert" => \A a \in Attempt : ~(SeenLive(w, a) /\ Target(w, Seen(w, a)))

\* An owner's live codes are those the request has inserted: the dashboard's
\* single one, or the API's for the applications it is through with.
DashboardIssued(w) ==
    req[w].op = "dashboard" /\ pc[w] = "done" =>
        \E b \in Attempt : /\ Fresh(w, b)
           /\ \A a \in Attempt : SeenLive(w, a) /\ OfOwner(Seen(w, a), req[w].email) => a = b

Issued(w, r) ==
    r.app \notin req[w].apps /\ (pc[w] \in {"revoke", "insert"} => r.app # req[w].app)

AdminIssued(w) ==
    req[w].op = "admin" => \A a \in Attempt :
        SeenLive(w, a) /\ OfOwner(Seen(w, a), req[w].email) /\ Issued(w, Seen(w, a))
        => Fresh(w, a)

Replaces(w) == Revoking(w) /\ Inserting(w) /\ DashboardIssued(w) /\ AdminIssued(w)

LiveOf(w) == OneSeen(w) /\ Replaces(w)

\* While one worker issues at a time, an address has one live credential of a
\* type in an application: every step of a single issuer preserves it.
\* What revoke_pending_attempts is documented to bring about, and does as long as
\* issuing requests do not overlap.
OneLiveCode ==
    \A a, b \in Attempt : Pending(a) /\ Pending(b) /\ Same(a, b) => a = b

LiveInv == Base /\ OneLiveCode /\ \A w \in Issuers : LiveOf(w)

LEMMA IssuersWork == Issuers \subseteq Worker
  BY AttemptsAssumption DEF AttemptsAssumption

LEMMA OneSeenShrinks ==
  ASSUME NEW w, OneSeen(w), Shrinks(w)
  PROVE  OneSeen(w)'
  BY DEF OneSeen, Shrinks, Alike, SameKey

LEMMA ReplacesShrinks ==
  ASSUME NEW w, Replaces(w), Shrinks(w), pc'[w] = pc[w], req'[w] = req[w], cand'[w] = cand[w]
  PROVE  Replaces(w)'
  <1>1. Revoking(w)' /\ Inserting(w)'
    BY DEF Replaces, Revoking, Inserting, Shrinks, Target, SameKey
  <1>2. DashboardIssued(w)'
    BY DEF Replaces, DashboardIssued, Shrinks, OfOwner, SameKey
  <1>3. AdminIssued(w)'
    BY DEF Replaces, AdminIssued, Issued, Shrinks, OfOwner, SameKey
  <1> QED
    BY <1>1, <1>2, <1>3 DEF Replaces

LEMMA LiveOther ==
  ASSUME LiveInv, OneIssuer, NEW v \in Worker, NEW w \in Issuers, v # w, Stirs(v)
  PROVE  LiveOf(w)'
  <1>1. w \in Worker \ {v} /\ v \notin Issuers /\ Base
    BY IssuersWork DEF OneIssuer, LiveInv
  <1>2. pc'[w] = pc[w] /\ req'[w] = req[w] /\ cand'[w] = cand[w] /\ copy'[w] = copy[w]
    BY <1>1, StepOthers DEF Base, Stirs, Others
  <1>3. Shrinks(w)
    <2> SUFFICES ASSUME NEW a \in Attempt
                 PROVE  /\ SeenLive(w, a)' =>
                             (SeenLive(w, a) /\ SameKey(Seen(w, a), Seen(w, a)'))
                        /\ Fresh(w, a)' <=> Fresh(w, a)
      BY DEF Shrinks
    <2>1. CASE Holds(w, a)
      <3>1. attempt'[a] = attempt[a]
        BY <1>1, <2>1, OtherRows
      <3> QED
        BY <1>2, <2>1, <3>1 DEF SeenLive, Seen, Fresh, Holds, SameKey
    <2>2. CASE ~Holds(w, a)
      <3>1. /\ Seen(w, a) = attempt[a] /\ Seen(w, a)' = attempt'[a]
            /\ ~Fresh(w, a) /\ ~Fresh(w, a)'
        BY <1>2, <2>2 DEF Seen, Fresh, Holds
      <3>2. CASE attempt'[a] = attempt[a]
        BY <3>1, <3>2 DEF SeenLive, SameKey
      <3>3. CASE /\ attempt'[a] = copy[v][a] /\ HeldIs(v, a) /\ Holds(v, a)
                 /\ Follows(attempt[a].status, copy[v][a])
        <4>1. attempt[a].status # "absent"
          BY <1>1, <3>3, OnlyIssuersInsert DEF Fresh
        <4> QED
          BY <3>1, <3>3, <4>1 DEF SeenLive, HeldIs, Follows
      <3> QED
        BY <1>1, <3>2, <3>3, OtherRows
    <2> QED
      BY <2>1, <2>2
  <1>4. LiveOf(w)
    BY DEF LiveInv
  <1> QED
    BY <1>2, <1>3, <1>4, OneSeenShrinks, ReplacesShrinks DEF LiveOf

LEMMA OneLiveKept ==
  ASSUME LiveInv, NEW v \in Worker, Stirs(v)
  PROVE  OneLiveCode'
  <1>1. Base /\ OneLiveCode
    BY DEF LiveInv
  <1>2. CASE UNCHANGED attempt
    BY <1>1, <1>2 DEF OneLiveCode, Pending, Same
  <1>3. CASE Commit(v)
    <2>1. \A a \in Attempt : attempt'[a] = Seen(v, a)
      BY <1>3 DEF Commit, Seen
    <2>2. OneSeen(v)
      <3>1. CASE v \in Issuers
        BY <3>1 DEF LiveInv, LiveOf
      <3>2. CASE v \notin Issuers
        <4> SUFFICES ASSUME NEW a \in Attempt, NEW b \in Attempt, SeenLive(v, a), SeenLive(v, b),
                            Alike(Seen(v, a), Seen(v, b))
                     PROVE  a = b
          BY DEF OneSeen
        <4>1. ~Fresh(v, a) /\ ~Fresh(v, b)
          BY <1>1, <3>2, OnlyIssuersInsert
        <4>2. /\ Pending(a) /\ SameKey(attempt[a], Seen(v, a))
              /\ Pending(b) /\ SameKey(attempt[b], Seen(v, b))
          BY <1>1, <4>1, SeenIs
        <4> QED
          BY <1>1, <4>2 DEF OneLiveCode, Same, SameKey, Alike
      <3> QED
        BY <3>1, <3>2
    <2> QED
      BY <2>1, <2>2 DEF OneLiveCode, Pending, Same, OneSeen, SeenLive, Alike
  <1> QED
    BY <1>1, <1>2, <1>3, StepOthers DEF Base, Stirs

\* A request that begins or ends has written nothing: it sees what is committed.
LEMMA NothingSeen ==
  ASSUME NEW w, HoldsNone(w), OneLiveCode
  PROVE  /\ OneSeen(w)
         /\ \A a \in Attempt : ~Fresh(w, a) /\ Seen(w, a) = attempt[a]
  BY DEF HoldsNone, OneLiveCode, OneSeen, SeenLive, Seen, Fresh, Pending, Same, Alike

LEMMA LiveStart ==
  ASSUME LiveInv, NEW w \in Issuers, Start(w)
  PROVE  LiveOf(w)'
  <1>1. w \in Worker /\ Base /\ LiveOf(w)
    BY IssuersWork DEF LiveInv
  <1>2. PICK r, stage : Arrives(r, stage) /\ Begin(w, r, stage)
    BY <1>1, StartIs DEF Base
  <1>3. /\ pc[w] = "idle" /\ pc'[w] = stage /\ req'[w] = r /\ UNCHANGED <<attempt, copy>>
    BY <1>1, <1>2 DEF Begin, committed, Base, Typed, Asked
  <1>4. stage \in {"user", "issue", "pick"}
    BY <1>2 DEF Arrives
  <1>5. OneSeen(w)'
    BY <1>1, <1>3, SeenKept, OneSeenShrinks DEF LiveOf
  <1>6. Revoking(w)' /\ Inserting(w)' /\ DashboardIssued(w)'
    BY <1>3, <1>4 DEF Revoking, Inserting, DashboardIssued
  <1>7. AdminIssued(w)'
    <2> SUFFICES ASSUME r.op = "admin", NEW a \in Attempt, SeenLive(w, a)', Issued(w, Seen(w, a))'
                 PROVE  FALSE
      BY <1>3 DEF AdminIssued
    <2>1. HoldsNone(w)
      BY <1>1, <1>3 DEF Base, Known, RowsAre
    <2>2. Seen(w, a)' = attempt[a] /\ attempt[a].status = "pending"
      BY <1>3, <2>1, SeenKept DEF HoldsNone, SeenLive, Seen
    <2>3. attempt[a].app \in App
      BY <1>1, <2>2 DEF Base, OfApps
    <2> QED
      BY <1>2, <1>3, <2>2, <2>3 DEF Arrives, Issued
  <1> QED
    BY <1>5, <1>6, <1>7 DEF LiveOf, Replaces

LEMMA LiveUser ==
  ASSUME LiveInv, NEW w \in Issuers, InsertUser(w)
  PROVE  LiveOf(w)'
  <1>1. w \in Worker /\ Base /\ LiveOf(w)
    BY IssuersWork DEF LiveInv
  <1>2. /\ pc[w] = "user" /\ pc'[w] = "issue" /\ UNCHANGED <<attempt, copy, req>>
    BY <1>1 DEF InsertUser, committed, Base, Typed, Asked
  <1>3. req[w].op \notin OwnerOps
    BY <1>1, <1>2 DEF Base, Known, RequestIs
  <1>4. OneSeen(w)'
    BY <1>1, <1>2, SeenKept, OneSeenShrinks DEF LiveOf
  <1>5. Replaces(w)'
    BY <1>2, <1>3 DEF Replaces, Revoking, Inserting, DashboardIssued, AdminIssued, OwnerOps
  <1> QED
    BY <1>4, <1>5 DEF LiveOf

\* What it has picked to replace is what is live for the credential.
LEMMA LivePick ==
  ASSUME LiveInv, NEW w \in Issuers, IssuePick(w)
  PROVE  LiveOf(w)'
  <1>1. w \in Worker /\ Base /\ LiveOf(w) /\ Known(w)
    BY IssuersWork DEF LiveInv, Base
  <1>2. PICK p \in req[w].apps, r \in Proper :
             /\ r.op = req[w].op /\ r.email = req[w].email /\ r.type = req[w].type
             /\ r.app = p /\ r.apps = req[w].apps \ {p} /\ p \in App
             /\ req' = [req EXCEPT ![w] = r] /\ Doing(w, "issue", IssueOps)
             /\ cand' = [cand EXCEPT ![w] = Replaced(req[w], p)]
             /\ pc' = [pc EXCEPT ![w] = "revoke"]
             /\ UNCHANGED <<committed, expired, copy, born, beside>>
    BY <1>1, IssuePickIs DEF Base
  <1>3. /\ pc[w] = "issue" /\ req[w].op \in IssueOps /\ pc'[w] = "revoke" /\ req'[w] = r
        /\ cand'[w] = Replaced(req[w], p) /\ UNCHANGED <<attempt, copy>>
    BY <1>1, <1>2 DEF Doing, committed, Base, Typed, Asked
  <1>4. OneSeen(w)'
    BY <1>1, <1>3, SeenKept, OneSeenShrinks DEF LiveOf
  <1>5. Revoking(w)'
    <2> SUFFICES ASSUME NEW a \in Attempt, SeenLive(w, a)', Target(w, Seen(w, a))'
                 PROVE  ~Fresh(w, a)' /\ a \in cand'[w]
      BY DEF Revoking
    <2>1. /\ SeenLive(w, a) /\ (Fresh(w, a)' <=> Fresh(w, a))
          /\ Seen(w, a).type = req[w].type /\ Seen(w, a).email = req[w].email
          /\ req[w].op = "dashboard" \/ Seen(w, a).app = p
      BY <1>2, <1>3, SeenKept DEF Target
    <2>2. ~Fresh(w, a)
      <3>1. CASE req[w].op = "dashboard"
        BY <1>1, <1>3, <3>1 DEF Known, RowsAre, HoldsNone, Fresh
      <3>2. CASE Seen(w, a).app = p
        BY <1>1, <1>2, <3>2, OnlyIssuersInsert
      <3> QED
        BY <2>1, <3>1, <3>2
    <2>3. Pending(a) /\ SameKey(attempt[a], Seen(w, a))
      BY <1>1, <2>1, <2>2, SeenIs
    <2>4. a \in Outstanding(attempt[a].app, req[w].email, req[w].type)
      BY <2>1, <2>3 DEF Outstanding, Pending, SameKey
    <2>5. attempt[a].app \in App
      BY <1>1, <2>3 DEF Base, OfApps, Pending
    <2>6. req[w].op = "dashboard" => req[w].type = "admin_login"
      BY <1>1 DEF Base, Typed, Asked, Proper, IssueOps, OwnerOps
    <2>7. a \in Replaced(req[w], p)
      BY <2>1, <2>3, <2>4, <2>5, <2>6 DEF Replaced, OwnerCodes, SameKey
    <2> QED
      BY <1>3, <2>1, <2>2, <2>7
  <1>6. Inserting(w)' /\ DashboardIssued(w)'
    BY <1>3 DEF Inserting, DashboardIssued
  <1>7. AdminIssued(w)'
    <2> SUFFICES ASSUME r.op = "admin", NEW a \in Attempt, SeenLive(w, a)',
                        OfOwner(Seen(w, a), req[w].email)', Issued(w, Seen(w, a))'
                 PROVE  Fresh(w, a)'
      BY <1>2, <1>3 DEF AdminIssued
    <2>1. /\ SeenLive(w, a) /\ (Fresh(w, a)' <=> Fresh(w, a))
          /\ OfOwner(Seen(w, a), req[w].email) /\ Seen(w, a)' = Seen(w, a)
      BY <1>2, <1>3, SeenKept DEF OfOwner
    <2>2. Issued(w, Seen(w, a))
      BY <1>2, <1>3, <2>1 DEF Issued
    <2> QED
      BY <1>1, <1>2, <2>1, <2>2 DEF LiveOf, Replaces, AdminIssued
  <1> QED
    BY <1>4, <1>5, <1>6, <1>7 DEF LiveOf, Replaces

LEMMA LiveRevoke ==
  ASSUME LiveInv, NEW w \in Issuers, IssueRevoke(w)
  PROVE  LiveOf(w)'
  <1>1. w \in Worker /\ Base /\ LiveOf(w) /\ Typed
    BY IssuersWork DEF LiveInv, Base
  <1>2. PICK g : /\ Writes(w, Live(w), g, "insert")
                 /\ \A a \in Live(w) : g[a] = [attempt[a] EXCEPT !.status = "revoked"]
    BY <1>1, RevokeWrites
  <1>3. /\ pc[w] = "revoke" /\ pc'[w] = "insert" /\ req'[w] = req[w]
        /\ \A a \in Attempt : a \in Live(w) => Holds(w, a)' /\ copy'[w][a] = g[a]
    BY <1>1, <1>2, WritesRows DEF IssueRevoke
  <1>4. \A a \in Live(w) : /\ a \in Attempt /\ attempt[a].status = "pending"
                           /\ SameKey(attempt[a], g[a]) /\ g[a].status = "revoked"
    BY <1>1, <1>2, LiveIs, RowsWritten
  <1>5. Shrinks(w)
    BY <1>1, <1>2, <1>4, WritesShrink DEF Fresh
  <1>6. Inserting(w)'
    <2> SUFFICES ASSUME NEW a \in Attempt, SeenLive(w, a)', Target(w, Seen(w, a))'
                 PROVE  FALSE
      BY DEF Inserting
    <2>1. SeenLive(w, a) /\ SameKey(Seen(w, a), Seen(w, a)')
      BY <1>5 DEF Shrinks
    <2>2. Target(w, Seen(w, a))
      BY <1>3, <2>1 DEF Target, SameKey
    <2>3. ~Fresh(w, a) /\ a \in cand[w]
      BY <1>1, <1>3, <2>1, <2>2 DEF LiveOf, Replaces, Revoking
    <2>4. a \in Live(w)
      BY <1>1, <2>1, <2>3, SeenIs DEF Live, Pending
    <2>5. Seen(w, a)' = g[a]
      BY <1>3, <2>4 DEF Seen
    <2> QED
      BY <1>4, <2>4, <2>5 DEF SeenLive
  <1>7. Revoking(w)' /\ DashboardIssued(w)'
    BY <1>3 DEF Revoking, DashboardIssued
  <1>8. AdminIssued(w)'
    BY <1>1, <1>3, <1>5 DEF LiveOf, Replaces, AdminIssued, Issued, Shrinks, OfOwner, SameKey
  <1> QED
    BY <1>1, <1>5, <1>6, <1>7, <1>8, OneSeenShrinks DEF LiveOf, Replaces

LEMMA LiveInsert ==
  ASSUME LiveInv, NEW w \in Issuers, IssueInsert(w)
  PROVE  LiveOf(w)'
  <1> DEFINE stage == IF req[w].apps = {} THEN "done" ELSE "issue"
  <1>1. w \in Worker /\ Base /\ LiveOf(w) /\ Typed /\ pc[w] = "insert"
    BY IssuersWork DEF LiveInv, Base, IssueInsert
  <1>2. PICK b \in Attempt : \E g : /\ Writes(w, {b}, g, stage) /\ g[b] = NewRow(w)
                                   /\ attempt[b].status = "absent" /\ ~Holds(w, b)
    BY <1>1, InsertWrites
  <1>3. PICK g : /\ Writes(w, {b}, g, stage) /\ g[b] = NewRow(w)
                 /\ attempt[b].status = "absent" /\ ~Holds(w, b)
    BY <1>2
  <1>4. /\ pc'[w] = stage /\ req'[w] = req[w] /\ attempt' = attempt /\ Holds(w, b)'
        /\ copy'[w][b] = NewRow(w)
        /\ \A a \in Attempt \ {b} : /\ Holds(w, a)' <=> Holds(w, a)
                                    /\ Holds(w, a) => copy'[w][a] = copy[w][a]
    BY <1>1, <1>3, WritesRows
  <1>5. stage \in {"done", "issue"}
    OBVIOUS
  <1> HIDE DEF stage
  <1>6. Fresh(w, b)' /\ Seen(w, b)' = NewRow(w)
    BY <1>3, <1>4 DEF Fresh, Seen
  <1>7. \A a \in Attempt \ {b} : /\ Seen(w, a)' = Seen(w, a)
                                 /\ Fresh(w, a)' <=> Fresh(w, a)
                                 /\ SeenLive(w, a)' <=> SeenLive(w, a)
    BY <1>4 DEF Seen, Fresh, SeenLive
  <1>8. \A a \in Attempt : ~(SeenLive(w, a) /\ Target(w, Seen(w, a)))
    BY <1>1 DEF LiveOf, Replaces, Inserting
  <1>9. OneSeen(w)'
    <2>1. \A a \in Attempt \ {b} : SeenLive(w, a)' => ~Alike(Seen(w, a)', Seen(w, b)')
      BY <1>1, <1>6, <1>7, <1>8, NewRowIs DEF Alike, Target
    <2>2. \A a \in Attempt \ {b} : SeenLive(w, a)' => ~Alike(Seen(w, b)', Seen(w, a)')
      BY <2>1 DEF Alike
    <2>3. OneSeen(w)
      BY <1>1 DEF LiveOf
    <2> QED
      BY <1>7, <2>1, <2>2, <2>3 DEF OneSeen
  <1>10. Revoking(w)' /\ Inserting(w)'
    BY <1>4, <1>5 DEF Revoking, Inserting
  <1>11. DashboardIssued(w)'
    <2> SUFFICES ASSUME req[w].op = "dashboard", NEW a \in Attempt, a # b, SeenLive(w, a)',
                        OfOwner(Seen(w, a), req[w].email)'
                 PROVE  FALSE
      BY <1>4, <1>6 DEF DashboardIssued
    <2>1. req[w].type = "admin_login"
      BY <1>1 DEF Typed, Asked, Proper, IssueOps, OwnerOps
    <2>2. Target(w, Seen(w, a))
      BY <1>4, <1>7, <2>1 DEF Target, OfOwner
    <2> QED
      BY <1>7, <1>8, <2>2
  <1>12. AdminIssued(w)'
    <2> SUFFICES ASSUME req[w].op = "admin", NEW a \in Attempt, a # b, SeenLive(w, a)',
                        OfOwner(Seen(w, a), req[w].email)', Issued(w, Seen(w, a))'
                 PROVE  Fresh(w, a)
      BY <1>4, <1>6, <1>7 DEF AdminIssued
    <2>1. req[w].type = "admin_login"
      BY <1>1 DEF Typed, Asked, Proper, IssueOps, OwnerOps
    <2>2. OfOwner(Seen(w, a), req[w].email) /\ SeenLive(w, a) /\ ~Target(w, Seen(w, a))
      BY <1>4, <1>7, <1>8 DEF OfOwner
    <2>3. Issued(w, Seen(w, a))
      BY <1>4, <1>7, <2>1, <2>2 DEF Issued, Target, OfOwner
    <2> QED
      BY <1>1, <2>2, <2>3 DEF LiveOf, Replaces, AdminIssued
  <1> QED
    BY <1>9, <1>10, <1>11, <1>12 DEF LiveOf, Replaces

\* A request that redeems replaces nothing.
LEMMA LiveGuess ==
  ASSUME LiveInv, NEW w \in Issuers,
         \/ GuessPick(w) \/ AdminPick(w) \/ LinkPick(w)
         \/ GuessRight(w) \/ AdminRight(w) \/ LinkRight(w) \/ Wrong(w)
  PROVE  LiveOf(w)'
  <1>1. w \in Worker /\ Base /\ LiveOf(w) /\ Typed
    BY IssuersWork DEF LiveInv, Base
  <1>2. ASSUME pc[w] \in {"pick", "check"}, pc'[w] \in {"check", "done", "refused"},
               req'[w] = req[w]
        PROVE  Replaces(w)'
    <2>1. req[w].op \notin OwnerOps
      BY <1>1, <1>2 DEF Base, Known, RequestIs
    <2> QED
      BY <1>2, <2>1 DEF Replaces, Revoking, Inserting, DashboardIssued, AdminIssued, OwnerOps
  <1>3. CASE GuessPick(w) \/ AdminPick(w) \/ LinkPick(w)
    <2>1. PICK S : Pick(w, S) /\ pc[w] = "pick"
      BY <1>1, <1>3, PickIs
    <2>2. /\ pc'[w] = "check" /\ UNCHANGED <<attempt, copy, req>>
      BY <1>1, <2>1 DEF Pick, committed, Typed, Asked
    <2> QED
      BY <1>1, <1>2, <2>1, <2>2, SeenKept, OneSeenShrinks DEF LiveOf
  <1>4. CASE GuessRight(w) \/ AdminRight(w) \/ LinkRight(w) \/ Wrong(w)
    <2>1. PICK S, g, stage : Redeems(w, S, g, stage)
      BY <1>1, <1>4, RedeemWrites
    <2>2. Writes(w, S, g, stage) /\ pc[w] = "check" /\ stage \in {"done", "refused"}
          /\ S \subseteq Live(w) /\ \A a \in S : SameKey(attempt[a], g[a])
      BY <2>1 DEF Redeems
    <2>3. HoldsNone(w)
      BY <1>1, <2>2 DEF Base, Known, RowsAre
    <2>4. \A a \in S : attempt[a].status = "pending" /\ ~Fresh(w, a)
      BY <1>1, <2>2, LiveIs DEF Fresh
    <2>5. Shrinks(w)
      BY <1>1, <2>2, <2>3, <2>4, WritesShrink
    <2>6. pc'[w] = stage /\ req'[w] = req[w]
      BY <1>1, <2>2, WritesRows
    <2> QED
      BY <1>1, <1>2, <2>2, <2>5, <2>6, OneSeenShrinks DEF LiveOf
  <1> QED
    BY <1>3, <1>4

LEMMA LiveEnd ==
  ASSUME LiveInv, NEW w \in Issuers, EndSession(w), OneLiveCode'
  PROVE  LiveOf(w)'
  <1>1. pc'[w] = "idle" /\ req'[w] = NoRequest /\ HoldsNone(w)'
    BY EndIs, IssuersWork DEF LiveInv, Base
  <1>2. OneSeen(w)'
    BY <1>1 DEF HoldsNone, OneLiveCode, OneSeen, SeenLive, Seen, Pending, Same, Alike
  <1>3. Replaces(w)'
    BY <1>1, NothingAsked DEF Replaces, Revoking, Inserting, DashboardIssued, AdminIssued
  <1> QED
    BY <1>2, <1>3 DEF LiveOf

LEMMA StepLive ==
  ASSUME LiveInv, [Next]_vars, OneIssuer
  PROVE  LiveInv'
  <1>1. Base'
    BY StepBase DEF LiveInv
  <1>2. ASSUME UNCHANGED <<attempt, pc, req, cand, copy>> PROVE LiveInv'
    <2>1. OneLiveCode'
      BY <1>2 DEF LiveInv, OneLiveCode, Pending, Same
    <2>2. \A w \in Issuers : LiveOf(w)'
      BY <1>2, SeenKept, OneSeenShrinks, ReplacesShrinks DEF LiveInv, LiveOf
    <2> QED
      BY <1>1, <2>1, <2>2 DEF LiveInv
  <1>3. ASSUME NEW v \in Worker, Stirs(v) PROVE LiveInv'
    <2>1. OneLiveCode'
      BY <1>3, OneLiveKept
    <2>2. v \in Issuers => LiveOf(v)'
      BY <1>3, <2>1, LiveStart, LiveUser, LivePick, LiveRevoke, LiveInsert, LiveGuess, LiveEnd
      DEF Stirs, Advance, Commit, Refuse, Abort
    <2>3. \A w \in Issuers : w # v => LiveOf(w)'
      BY <1>3, LiveOther
    <2> QED
      BY <1>1, <2>1, <2>2, <2>3 DEF LiveInv
  <1>4. ASSUME NEW a \in Attempt, Expire(a) PROVE UNCHANGED <<attempt, pc, req, cand, copy>>
    BY <1>4 DEF Expire, committed, session
  <1> QED
    BY <1>2, <1>3, <1>4 DEF Next, Stirs, vars

LEMMA InitLive == Init => LiveInv
  <1> SUFFICES ASSUME Init PROVE LiveInv
    OBVIOUS
  <1>1. \A a \in Attempt : attempt[a].status = "absent"
    BY DEF Init, NoAttempt
  <1>2. OneLiveCode
    BY <1>1 DEF OneLiveCode, Pending
  <1>3. \A w \in Issuers : /\ pc[w] = "idle" /\ req[w] = NoRequest /\ DOMAIN copy[w] = {}
    BY IssuersWork DEF Init
  <1>4. \A w \in Issuers : HoldsNone(w) /\ req[w].op = "none"
    BY <1>3, NothingAsked DEF HoldsNone, Holds
  <1>5. \A w \in Issuers : LiveOf(w)
    BY <1>2, <1>3, <1>4, NothingSeen
    DEF LiveOf, Replaces, Revoking, Inserting, DashboardIssued, AdminIssued
  <1> QED
    BY <1>2, <1>5, InitBase DEF LiveInv

-----------------------------------------------------------------------------
(* An owner's codes.                                                       *)

\* A commit issues no code of an owner, or all its live codes are those issued.
LEMMA OwnerCommit ==
  ASSUME LiveInv, NEW v \in Worker, Commit(v), NEW e
  PROVE  LET Owned(a) == attempt'[a].status = "pending" /\ OfOwner(attempt'[a], e)
         IN  \/ \A a \in Attempt : Owned(a) => Pending(a) /\ SameKey(attempt[a], attempt'[a])
             \/ \A a \in Attempt : Owned(a) => Fresh(v, a)
  <1> DEFINE Owned(a) == attempt'[a].status = "pending" /\ OfOwner(attempt'[a], e)
  <1>1. Base /\ Known(v) /\ \A a \in Attempt : attempt'[a] = Seen(v, a)
    BY DEF LiveInv, Base, Commit, Seen
  <1>2. ASSUME NEW a \in Attempt, Owned(a), ~Fresh(v, a)
        PROVE  Pending(a) /\ SameKey(attempt[a], attempt'[a])
    BY <1>1, <1>2, SeenIs DEF SeenLive
  <1>3. CASE \A a \in Attempt : Owned(a) => ~Fresh(v, a)
    BY <1>2, <1>3
  <1>4. ASSUME NEW b \in Attempt, Owned(b), Fresh(v, b)
        PROVE  \A a \in Attempt : Owned(a) => Fresh(v, a)
    <2>1. /\ v \in Issuers /\ req[v].op \in IssueOps
          /\ req[v].type = "admin_login" /\ req[v].email = e
      BY <1>1, <1>4, OnlyIssuersInsert DEF OfOwner
    <2>2. req[v].op \in OwnerOps
      BY <1>1, <2>1 DEF Base, Typed, Asked, Proper
    <2>3. pc[v] = "done"
      BY <1>1, <2>1 DEF Commit, Known, RequestIs, IssueOps, GuessOps
    <2>4. req[v].apps = {}
      BY <1>1, <2>1, <2>3 DEF Known, RequestIs
    <2>5. DashboardIssued(v) /\ AdminIssued(v)
      BY <2>1 DEF LiveInv, LiveOf, Replaces
    <2>6. CASE req[v].op = "dashboard"
      BY <1>1, <2>1, <2>3, <2>5, <2>6 DEF DashboardIssued, SeenLive
    <2>7. CASE req[v].op = "admin"
      BY <1>1, <2>1, <2>3, <2>4, <2>5, <2>7 DEF AdminIssued, Issued, SeenLive
    <2> QED
      BY <2>2, <2>6, <2>7 DEF OwnerOps
  <1> QED
    BY <1>3, <1>4

\* While issuing requests do not overlap, the code the dashboard mails is the
\* owner's only live one when its request is committed, those of the API for
\* other applications included.
THEOREM DashboardCodeIsNewest ==
  ASSUME OneIssuer
  PROVE  Spec => NewestOwnerCode
  <1>1. LiveInv /\ [Next]_vars => LiveInv'
    BY StepLive
  <1>2. ASSUME LiveInv, [Next]_vars, NEW w \in Worker, Doing(w, "done", {"dashboard"}),
               pc'[w] = "idle", attempt' # attempt
        PROVE  Cardinality({a \in Attempt : /\ attempt'[a].status = "pending"
                                            /\ attempt'[a].type = "admin_login"
                                            /\ attempt'[a].email = req[w].email}) = 1
    <2>1. pc[w] = "done" /\ req[w].op = "dashboard" /\ Base /\ Commit(w)
      BY <1>2, CommitOf DEF Doing, LiveInv
    <2>2. \A a \in Attempt : attempt'[a] = Seen(w, a)
      BY <2>1 DEF Commit, Seen
    <2>3. w \in Issuers /\ req[w].type = "admin_login"
      BY <2>1 DEF Base, Known, RequestIs, Typed, Asked, Proper, IssueOps, OwnerOps
    <2>4. PICK b \in Attempt :
             /\ Fresh(w, b)
             /\ \A a \in Attempt : SeenLive(w, a) /\ OfOwner(Seen(w, a), req[w].email) => a = b
      BY <1>2, <2>1, <2>3 DEF LiveInv, LiveOf, Replaces, DashboardIssued
    <2>5. SeenLive(w, b)
      BY <2>1, <2>4 DEF Fresh, SeenLive, Seen, Base, LockInv, HeldFollows, Follows
    <2>6. OfOwner(Seen(w, b), req[w].email)
      BY <2>1, <2>3, <2>4, OnlyIssuersInsert DEF OfOwner
    <2>7. {a \in Attempt : /\ attempt'[a].status = "pending"
                           /\ attempt'[a].type = "admin_login"
                           /\ attempt'[a].email = req[w].email} = {b}
      BY <2>2, <2>4, <2>5, <2>6 DEF SeenLive, OfOwner
    <2> QED
      BY <2>7, FS_Singleton
  <1>3. LiveInv /\ [Next]_vars =>
          [\A w \in Worker :
             (/\ Doing(w, "done", {"dashboard"})
              /\ pc'[w] = "idle" /\ attempt' # attempt)
             => Cardinality({a \in Attempt : /\ attempt'[a].status = "pending"
                                              /\ attempt'[a].type = "admin_login"
                                              /\ attempt'[a].email = req[w].email}) = 1]_vars
    BY <1>2
  <1> QED
    BY <1>1, <1>3, InitLive, PTL DEF Spec, NewestOwnerCode

-----------------------------------------------------------------------------
\* A guess at an owner's code has picked all the owner's live codes, unless a
\* newer one has replaced them all meanwhile.
Picked(w) ==
    LET e == req[w].email
    IN  /\ \A a \in cand[w] : OfOwner(attempt[a], e)
        /\ Live(w) # {} => \A a \in Attempt \ expired :
              Pending(a) /\ OfOwner(attempt[a], e) => a \in cand[w]

\* Those that match are consumed together.
Spent(w) ==
    LET e == req[w].email
    IN  /\ \E a \in Attempt : Holds(w, a) /\ OfOwner(attempt[a], e)
        /\ \A a \in Attempt : Holds(w, a) => copy[w][a].status = "consumed"
        /\ \A a \in Attempt \ expired :
              Pending(a) /\ OfOwner(attempt[a], e) /\ attempt[a].code = req[w].code
                 => Holds(w, a)

Spends(w) ==
    req[w].op = "adminguess" => /\ pc[w] = "check" => Picked(w)
                                /\ pc[w] = "done" => Spent(w)

\* The strengthening of OwnerCodeSpent that every step of a single issuer preserves.
SpendInv == LiveInv /\ \A w \in Worker : Spends(w)

LEMMA SpendQuiet ==
  ASSUME NEW w, Spends(w), UNCHANGED attempt, expired \subseteq expired',
         pc'[w] = pc[w], req'[w] = req[w], cand'[w] = cand[w], copy'[w] = copy[w]
  PROVE  Spends(w)'
  <1>1. Picked(w) => Picked(w)'
    BY DEF Picked, Pending, Live
  <1>2. Spent(w) => Spent(w)'
    BY DEF Spent, Pending, Holds
  <1> QED
    BY <1>1, <1>2 DEF Spends

LEMMA SpendOther ==
  ASSUME SpendInv, NEW v \in Worker, NEW w \in Worker \ {v}, Stirs(v)
  PROVE  Spends(w)'
  <1>1. LiveInv /\ Base /\ Spends(w) /\ Known(w) /\ cand[w] \subseteq Attempt
    BY DEF SpendInv, LiveInv, Base, Typed, Asked
  <1>2. /\ pc'[w] = pc[w] /\ req'[w] = req[w] /\ cand'[w] = cand[w] /\ copy'[w] = copy[w]
        /\ expired' = expired /\ (Commit(v) \/ UNCHANGED attempt)
    BY <1>1, StepOthers DEF Base, Stirs, Others
  <1>3. CASE UNCHANGED attempt
    BY <1>1, <1>2, <1>3, SpendQuiet
  <1>4. CASE Commit(v)
    <2> DEFINE e == req[w].email
               Owned(a) == attempt'[a].status = "pending" /\ OfOwner(attempt'[a], e)
    <2>1. \/ \A a \in Attempt : Owned(a) => Pending(a) /\ SameKey(attempt[a], attempt'[a])
          \/ \A a \in Attempt : Owned(a) => Fresh(v, a)
      BY <1>1, <1>4, OwnerCommit
    <2>2. \A a \in Attempt : Holds(w, a) => attempt'[a] = attempt[a]
      BY <1>1, OtherRows
    <2>3. \A a \in Attempt : attempt[a].status # "absent" =>
             /\ SameKey(attempt[a], attempt'[a]) /\ ~Fresh(v, a)
      BY <1>1, OtherRows DEF HeldIs, SameKey, Fresh
    <2>4. \A a \in cand[w] : attempt[a].status # "absent"
      BY <1>1 DEF Known, RowsAre
    <2>5. Picked(w) => Picked(w)'
      <3> SUFFICES ASSUME Picked(w) PROVE Picked(w)'
        OBVIOUS
      <3>1. \A a \in cand[w] : OfOwner(attempt[a], e) /\ OfOwner(attempt'[a], e)
        BY <1>1, <2>3, <2>4 DEF Picked, OfOwner, SameKey
      <3>2. ASSUME NEW b \in cand[w], attempt'[b].status = "pending",
                   NEW a \in Attempt \ expired, Owned(a)
            PROVE  a \in cand[w]
        <4>1. b \in Attempt /\ Owned(b) /\ ~Fresh(v, b)
          BY <1>1, <2>3, <2>4, <3>1, <3>2
        <4>2. Pending(b) /\ Pending(a) /\ SameKey(attempt[a], attempt'[a])
          BY <2>1, <3>2, <4>1
        <4>3. b \in Live(w)
          BY <4>2 DEF Live, Pending
        <4> QED
          BY <3>2, <4>2, <4>3 DEF Picked, OfOwner, SameKey
      <3> QED
        BY <1>2, <3>1, <3>2 DEF Picked, Live, Pending
    <2>6. Spent(w) => Spent(w)'
      <3> SUFFICES ASSUME Spent(w) PROVE Spent(w)'
        OBVIOUS
      <3>1. PICK b \in Attempt : Holds(w, b) /\ OfOwner(attempt[b], e)
                                 /\ copy[w][b].status = "consumed"
        BY DEF Spent
      <3>2. attempt'[b] = attempt[b] /\ attempt[b].status = "pending"
        BY <1>1, <2>2, <3>1 DEF Base, LockInv, HeldFollows, Follows
      <3>3. Owned(b) /\ ~Fresh(v, b)
        BY <2>3, <3>1, <3>2
      <3>4. ASSUME NEW a \in Attempt \ expired, Owned(a), attempt'[a].code = req[w].code
            PROVE  Holds(w, a)
        <4>1. Pending(a) /\ SameKey(attempt[a], attempt'[a])
          BY <2>1, <3>3, <3>4
        <4> QED
          BY <3>4, <4>1 DEF Spent, OfOwner, SameKey
      <3> QED
        BY <1>2, <3>1, <3>2, <3>4 DEF Spent, Holds, Pending
    <2> QED
      BY <1>1, <1>2, <2>5, <2>6 DEF Spends
  <1> QED
    BY <1>2, <1>3, <1>4

LEMMA SpendPick ==
  ASSUME SpendInv, NEW w \in Worker, GuessPick(w) \/ AdminPick(w) \/ LinkPick(w)
  PROVE  Spends(w)'
  <1>1. Base /\ Typed
    BY DEF SpendInv, LiveInv, Base
  <1>2. PICK S \in SUBSET Attempt :
           /\ Pick(w, S) /\ pc[w] = "pick" /\ \A a \in S : attempt[a].status = "pending"
           /\ (req[w].op = "adminguess") => (S = OwnerCodes(req[w].email) \ expired)
    BY <1>1, PickIs
  <1>3. /\ pc'[w] = "check" /\ cand'[w] = S /\ UNCHANGED <<attempt, req, expired>>
    BY <1>1, <1>2 DEF Pick, committed, Typed, Asked
  <1>4. ASSUME S = OwnerCodes(req[w].email) \ expired PROVE Picked(w)'
    <2>1. \A a \in S : OfOwner(attempt[a], req[w].email)
      BY <1>4 DEF OwnerCodes, Outstanding, OfOwner
    <2>2. ASSUME NEW a \in Attempt \ expired, Pending(a), OfOwner(attempt[a], req[w].email)
          PROVE  a \in S
      <3>1. attempt[a].app \in App
        BY <1>1, <2>2 DEF Base, OfApps, Pending
      <3>2. a \in Outstanding(attempt[a].app, req[w].email, "admin_login")
        BY <2>2 DEF Outstanding, Pending, OfOwner
      <3> QED
        BY <1>4, <3>1, <3>2 DEF OwnerCodes
    <2> QED
      BY <1>3, <2>1, <2>2 DEF Picked, Pending
  <1> QED
    BY <1>2, <1>3, <1>4 DEF Spends

LEMMA SpendRedeem ==
  ASSUME SpendInv, NEW w \in Worker,
         GuessRight(w) \/ AdminRight(w) \/ LinkRight(w) \/ Wrong(w)
  PROVE  Spends(w)'
  <1>1. Base /\ Typed /\ Spends(w)
    BY DEF SpendInv, LiveInv, Base
  <1>2. PICK S, g, stage : Redeems(w, S, g, stage)
    BY <1>1, RedeemWrites
  <1>3. Writes(w, S, g, stage) /\ stage \in {"done", "refused"} /\ pc[w] = "check"
    BY <1>2 DEF Redeems
  <1>4. /\ pc'[w] = stage /\ req'[w] = req[w] /\ attempt' = attempt
        /\ \A a \in Attempt : /\ Holds(w, a)' <=> (Holds(w, a) \/ a \in S)
                              /\ a \in S => copy'[w][a] = g[a]
    BY <1>1, <1>3, WritesRows
  <1>5. expired' = expired
    BY <1>3 DEF Writes
  <1>6. ASSUME req[w].op = "adminguess", stage = "done" PROVE Spent(w)'
    <2>1. /\ S = Right(w) /\ S # {} /\ S \subseteq Live(w)
          /\ \A a \in S : g[a].status = "consumed"
      BY <1>2, <1>6 DEF Redeems
    <2>2. Picked(w) /\ HoldsNone(w) /\ cand[w] \subseteq Attempt
      BY <1>1, <1>3, <1>6 DEF Spends, Base, Known, RowsAre, Typed, Asked
    <2>3. req[w].code # NoCode
      BY <1>1, <1>6, AttemptsAssumption DEF AttemptsAssumption, Typed, Asked, Proper
    <2>4. \A a \in S : a \in Attempt /\ OfOwner(attempt[a], req[w].email)
      BY <2>1, <2>2 DEF Live, Picked
    <2>5. ASSUME NEW a \in Attempt \ expired, Pending(a), OfOwner(attempt[a], req[w].email),
                 attempt[a].code = req[w].code
          PROVE  a \in S
      <3>1. a \in cand[w]
        BY <2>1, <2>2, <2>5 DEF Picked
      <3> QED
        BY <2>1, <2>3, <2>5, <3>1 DEF Right, Live, Pending
    <2> QED
      BY <1>4, <1>5, <2>1, <2>2, <2>4, <2>5 DEF Spent, HoldsNone, Pending
  <1> QED
    BY <1>3, <1>4, <1>6 DEF Spends

LEMMA SpendOwn ==
  ASSUME SpendInv, NEW w \in Worker, Stirs(w)
  PROVE  Spends(w)'
  <1>1. Base /\ Typed
    BY DEF SpendInv, LiveInv, Base
  <1>2. ASSUME req'[w].op \in IssueOps \/ pc'[w] = "pick" \/ req'[w] = NoRequest
        PROVE  Spends(w)'
    BY <1>2, NothingAsked DEF Spends, IssueOps
  <1>3. CASE Start(w)
    <2>1. PICK r, stage : Arrives(r, stage) /\ Begin(w, r, stage)
      BY <1>1, <1>3, StartIs
    <2>2. pc'[w] = stage /\ req'[w] = r
      BY <1>1, <2>1 DEF Begin, Typed, Asked
    <2> QED
      BY <1>2, <2>1, <2>2 DEF Arrives
  <1>4. CASE InsertUser(w) \/ IssuePick(w) \/ IssueRevoke(w) \/ IssueInsert(w)
    <2>1. Known(w)' /\ pc'[w] \in {"issue", "revoke", "insert", "done"}
      BY <1>1, <1>4, KnownIssue, KnownRevoke, KnownInsert
      DEF InsertUser, IssuePick, IssueRevoke, IssueInsert, Typed, Asked
    <2>2. req[w].op \in IssueOps
      BY <1>1, <1>4
      DEF Base, Known, RequestIs, InsertUser, IssuePick, IssueRevoke, IssueInsert, Doing
    <2>3. req'[w].op = req[w].op
      <3>1. CASE IssuePick(w)
        <4>1. PICK r \in Proper : r.op = req[w].op /\ req' = [req EXCEPT ![w] = r]
          BY <1>1, <3>1, IssuePickIs
        <4> QED
          BY <1>1, <4>1 DEF Typed, Asked
      <3>2. CASE ~IssuePick(w)
        BY <1>4, <3>2 DEF InsertUser, IssueRevoke, IssueInsert
      <3> QED
        BY <3>1, <3>2
    <2> QED
      BY <1>2, <2>2, <2>3
  <1>5. CASE Commit(w) \/ Refuse(w) \/ Abort(w)
    BY <1>1, <1>2, <1>5, EndIs DEF Commit, Refuse, Abort
  <1> QED
    BY <1>3, <1>4, <1>5, SpendPick, SpendRedeem DEF Stirs, Advance

LEMMA StepSpend ==
  ASSUME SpendInv, [Next]_vars, OneIssuer
  PROVE  SpendInv'
  <1>1. LiveInv'
    BY StepLive DEF SpendInv
  <1>2. ASSUME UNCHANGED <<attempt, pc, req, cand, copy>>, expired \subseteq expired'
        PROVE  SpendInv'
    BY <1>1, <1>2, SpendQuiet DEF SpendInv
  <1>3. ASSUME NEW v \in Worker, Stirs(v) PROVE SpendInv'
    BY <1>1, <1>3, SpendOther, SpendOwn DEF SpendInv
  <1>4. ASSUME NEW a \in Attempt, Expire(a)
        PROVE  UNCHANGED <<attempt, pc, req, cand, copy>> /\ expired \subseteq expired'
    BY <1>4 DEF Expire, committed, session
  <1> QED
    BY <1>2, <1>3, <1>4 DEF Next, Stirs, vars

LEMMA InitSpend == Init => SpendInv
  <1> SUFFICES ASSUME Init PROVE SpendInv
    OBVIOUS
  <1>1. \A w \in Worker : pc[w] = "idle"
    BY DEF Init
  <1> QED
    BY <1>1, InitLive DEF SpendInv, Spends

\* While issuing requests do not overlap, the log-in that an owner's code opens
\* spends it for every application at once: no newer issue, and no other guess
\* at the same digits, leaves one of its attempts live.
THEOREM OwnerCodesAreSpent ==
  ASSUME OneIssuer
  PROVE  Spec => OwnerCodeSpent
  <1>1. SpendInv /\ [Next]_vars => SpendInv'
    BY StepSpend
  <1>2. ASSUME SpendInv, [Next]_vars, NEW w \in Worker, Doing(w, "done", {"adminguess"}),
               pc'[w] = "idle", opened' # opened, NEW a \in Attempt \ expired,
               attempt'[a].type = "admin_login", attempt'[a].email = req[w].email,
               attempt'[a].code = req[w].code
        PROVE  attempt'[a].status # "pending"
    <2>1. pc[w] = "done" /\ Spent(w) /\ Base
      BY <1>2 DEF Doing, SpendInv, Spends, LiveInv
    <2>2. Commit(w)
      BY <1>2, <2>1, CommitOf
    <2>3. attempt'[a] = IF Holds(w, a) THEN copy[w][a] ELSE attempt[a]
      BY <2>2 DEF Commit
    <2> QED
      BY <1>2, <2>1, <2>3 DEF Spent, Pending, OfOwner
  <1>3. SpendInv /\ [Next]_vars =>
          [\A w \in Worker :
             (/\ Doing(w, "done", {"adminguess"})
              /\ pc'[w] = "idle" /\ opened' # opened)
             => \A a \in Attempt \ expired :
                   (/\ attempt'[a].type = "admin_login"
                    /\ attempt'[a].email = req[w].email
                    /\ attempt'[a].code = req[w].code)
                   => attempt'[a].status # "pending"]_vars
    BY <1>2
  <1> QED
    BY <1>1, <1>3, InitSpend, PTL DEF Spec, OwnerCodeSpent

=============================================================================
