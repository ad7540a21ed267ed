----------------------------- MODULE MCComponents -----------------------------
(***************************************************************************)
(* Small instances of six protocols that share no state: the dashboard's   *)
(* log-in, host names, the admission of bots and sign-ups, metering,       *)
(* provider sign-in, and the admission of requests.  The part that runs is *)
(* chosen in the initial state; the others stay where they begin.          *)
(***************************************************************************)
EXTENDS Integers, FiniteSets, Sequences, TLC

CONSTANTS
    Worker, Visitor, Process, App, Tenant, Session, Browser,
    Puzzle, Donation, PublicKey, Flow, Provider, Sub, ProviderOf, Address,
    MaxGuesses, MaxIssues, MaxRows, MaxUsers,
    Interval, MaxElapsed, Cent, MaxRate, MaxTime,
    AdminToken, SessionToken, AppOf, Lifetime, MaxKey, MaxSecond, MaxEvents,
    NoApp, NoDonation, NoKey, NoPuzzle, NoTenant, NoTime, NoCopy,
    NoBrowser, NoFlow, NoProvider, NoSub, NoAddress,
    NoToken, Secret

ASSUME ComponentsAssumption ==
    /\ MaxGuesses \in Nat /\ MaxIssues \in Nat /\ MaxUsers \in Nat
    /\ Interval \in Nat /\ MaxElapsed \in Nat /\ Cent \in Nat \ {0} /\ MaxTime \in Nat
    /\ AppOf \in [AdminToken \union SessionToken -> App] /\ Lifetime \in Nat
    /\ AdminToken \intersect SessionToken = {}

\* The null values are of no other type.
ASSUME NullsAssumption ==
    /\ NoFlow \notin Flow /\ NoSub \notin Sub
    /\ NoTenant \notin Tenant /\ NoTime \notin Int
    /\ {Secret, NoToken} \intersect (AdminToken \union SessionToken) = {}
    /\ Secret # NoToken

VARIABLES
    part,
    key, cooldown, session, owns, issued, told, logins, contested, loginPc,
    guess, seen,
    domain, rows, points, prover, crossed, hostPc, hostReq, hostCopy,
    puzzle, admitted, confirmed, bot, together, doorPc, doorReq, proof,
    clock, lease, rate, account, hours, owed, since, lapsed, meterPc, wake,
    until, todo, at, now, meterCopy,
    configured, flow, cookie, grant, user, proven, identity, opened, acctPc,
    acctReq,
    apps, published, paused, claims, ended, deny, second, events, callPc, call, via,
    out, good, paid

loginVars == <<key, cooldown, session, owns, issued, told, logins, contested, loginPc,
               guess, seen>>
hostVars == <<domain, rows, points, prover, crossed, hostPc, hostReq, hostCopy>>
doorVars == <<puzzle, admitted, confirmed, bot, together, doorPc, doorReq, proof>>
meterVars == <<clock, lease, rate, account, hours, owed, since, lapsed, meterPc, wake,
               until, todo, at, now, meterCopy>>
acctVars == <<configured, flow, cookie, grant, user, proven, identity, opened, acctPc,
              acctReq>>
callVars == <<apps, published, paused, claims, ended, deny, second, events, callPc, call,
              via, out, good, paid>>

FirstApp == CHOOSE a \in App : TRUE
OfFirstApp == [x \in AdminToken \union SessionToken |-> FirstApp]
OneProvider == [s \in Sub |-> CHOOSE p \in Provider : TRUE]

Login == INSTANCE DashboardLogin WITH pc <- loginPc, opened <- logins
Host == INSTANCE Domains WITH pc <- hostPc, req <- hostReq, copy <- hostCopy
Door == INSTANCE Admission WITH pc <- doorPc, req <- doorReq
Meter == INSTANCE Metering WITH pc <- meterPc, copy <- meterCopy
Accts == INSTANCE Accounts WITH pc <- acctPc, req <- acctReq
Call == INSTANCE Access WITH Worker <- Visitor, MaxTime <- MaxSecond,
                             pc <- callPc, req <- call, clock <- second

Init ==
    /\ part \in {"login", "host", "door", "meter", "accounts", "call"}
    /\ Login!Init /\ Host!Init /\ Door!Init /\ Meter!Init /\ Accts!Init /\ Call!Init

Next ==
    /\ UNCHANGED part
    /\ \/ /\ part = "login" /\ Login!Next
          /\ UNCHANGED <<hostVars, doorVars, meterVars, acctVars, callVars>>
       \/ /\ part = "host" /\ Host!Next
          /\ UNCHANGED <<loginVars, doorVars, meterVars, acctVars, callVars>>
       \/ /\ part = "door" /\ Door!Next
          /\ UNCHANGED <<loginVars, hostVars, meterVars, acctVars, callVars>>
       \/ /\ part = "meter" /\ Meter!Next
          /\ UNCHANGED <<loginVars, hostVars, doorVars, acctVars, callVars>>
       \/ /\ part = "accounts" /\ Accts!Next
          /\ UNCHANGED <<loginVars, hostVars, doorVars, meterVars, callVars>>
       \/ /\ part = "call" /\ Call!Next
          /\ UNCHANGED <<loginVars, hostVars, doorVars, meterVars, acctVars>>

Spec ==
    Init /\ [][Next]_<<part, loginVars, hostVars, doorVars, meterVars, acctVars, callVars>>

Alike == Permutations(Worker) \union Permutations(Browser)

\* bound: of the applications requests are made to, only the first changes.
OthersKept == \A a \in App \ {FirstApp} : a \in apps /\ a \notin paused /\ published[a] = {1}

-----------------------------------------------------------------------------
\* dashboard/auth.py: a code that its guesses have spent opens no session
\* (DashboardLogin).
BurntWhenSpent == Login!BurntWhenSpent

\* dashboard/domains.py: a verified host name belongs to the application that
\* verified it (Domains).
VerifiedByHolder == Host!VerifiedByHolder

\* services/bots.py: a donation pays for one bot and a key names one (Admission).
OneBotEach == Door!OneBotEach

\* services/hashcash.py: a proof of work admits one sign-up (Admission).
ProofAdmitsOnce == Door!ProofAdmitsOnce

\* services/billing.py: every unit of time is charged at most once (Metering).
ChargedOnce == Meter!ChargedOnce

\* main.py and billing.py: the lease keeps a second metering pass away
\* (Metering).
OnePassAtATime == Meter!OnePassAtATime

\* services/oauth.py: a provider account enters one user (Accounts).
SameAccount == Accts!SameAccount

\* services/oauth.py: a callback that lost the race leaves no user behind
\* (Accounts).
NothingHalfMade == Accts!NothingHalfMade

\* services/oauth.py: a flow opens one session, where it began (Accounts).
FlowOnce == Accts!FlowOnce

\* services/oauth.py: no provider account is joined to a user registered with
\* a password and not verified (Accounts).
PasswordProved == Accts!PasswordProved

\* dependencies.py: who is served presented something that was in force when
\* the request arrived (Access).
AdmittedInForce == Call!AdmittedInForce
=============================================================================
