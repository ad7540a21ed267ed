------------------------------ MODULE Admission ------------------------------
(***************************************************************************)
(* What an account costs: a proof of work for a sign-up, a confirmed       *)
(* donation and a key pair for a bot.  A Worker is one request.  A bot's   *)
(* sign-up looks at the committed rows, asks the confirmations service,    *)
(* and inserts its row without looking again: the unique index on          *)
(* challenge_id is all that stands against another sign-up meanwhile.      *)
(***************************************************************************)
EXTENDS Naturals, FiniteSets

CONSTANTS
    App, Worker,
    Puzzle,        \* hashcash challenges
    Donation,      \* challenges of the confirmations service
    PublicKey,
    NoApp, NoDonation, NoKey, NoPuzzle

VARIABLES
    puzzle,        \* hashcash:<challenge>: unasked, open (the key exists), gone
    admitted,      \* sign-ups each proof of work has let through
    confirmed,     \* donations the service reports as CONFIRMED
    bot,           \* committed users rows with is_bot
    together,      \* keys presented to an application by overlapping sign-ups
    pc, req, proof \* where each request is; its bot; its proof of work

bots == <<confirmed, bot, together, req>>
vars == <<puzzle, admitted, confirmed, bot, together, pc, req, proof>>

Bot == [app: App, key: PublicKey, donation: Donation]
NoBot == [app |-> NoApp, key |-> NoKey, donation |-> NoDonation]
NoProof == [puzzle |-> NoPuzzle, holds |-> FALSE]

Init ==
    /\ puzzle = [z \in Puzzle |-> "unasked"]
    /\ admitted = [z \in Puzzle |-> 0]
    /\ confirmed = {} /\ bot = {} /\ together = {}
    /\ pc = [w \in Worker |-> "idle"]
    /\ req = [w \in Worker |-> NoBot]
    /\ proof = [w \in Worker |-> NoProof]

Go(w, stage) == pc' = [pc EXCEPT ![w] = stage]
Finish(w) ==
    /\ Go(w, "idle")
    /\ req' = [req EXCEPT ![w] = NoBot]
    /\ proof' = [proof EXCEPT ![w] = NoProof]

-----------------------------------------------------------------------------
(* Proof of work.                                                          *)

\* create_challenge: random, SET EX.
CreateChallenge(z) ==
    /\ puzzle[z] = "unasked"
    /\ puzzle' = [puzzle EXCEPT ![z] = "open"]
    /\ UNCHANGED <<admitted, bots, pc, proof>>

ChallengeExpires(z) ==
    /\ puzzle[z] = "open"
    /\ puzzle' = [puzzle EXCEPT ![z] = "gone"]
    /\ UNCHANGED <<admitted, bots, pc, proof>>

\* (fault) the challenge is read and left to expire.
ReadOnly(z) == puzzle[z]

\* GET and DEL in one transaction, whatever the proof is worth.
Taken(z) == "gone"

\* verify_proof; without the key the sign-up is refused at once.
TakeChallenge(w, z, holds) ==
    /\ pc[w] = "idle"
    /\ puzzle[z] = "open"
    /\ puzzle' = [puzzle EXCEPT ![z] = Taken(z)]
    /\ proof' = [proof EXCEPT ![w] = [puzzle |-> z, holds |-> holds]]
    /\ Go(w, "hash")
    /\ UNCHANGED <<admitted, bots>>

\* The hash is computed in a thread; the sign-up goes on in AuthAttempts.
CheckProof(w) ==
    LET z == proof[w].puzzle
    IN  /\ pc[w] = "hash"
        /\ admitted' = [admitted EXCEPT ![z] = IF proof[w].holds THEN @ + 1 ELSE @]
        /\ Finish(w)
        /\ UNCHANGED <<puzzle, confirmed, bot, together>>

-----------------------------------------------------------------------------
(* Bots: signup_bot.                                                       *)

UsedDonations == {b.donation : b \in bot}
KeysOf(p) == {b.key : b \in {x \in bot : x.app = p}}

\* Both checks; neither locks anything.
BeginSignup(w, b) ==
    /\ pc[w] = "idle"
    /\ b.donation \notin UsedDonations
    /\ b.key \notin KeysOf(b.app)
    /\ req' = [req EXCEPT ![w] = b]
    /\ Go(w, "verify")
    /\ together' = IF \E v \in Worker \ {w} :
                        req[v].app = b.app /\ req[v].key = b.key
                     THEN together \union {<<b.app, b.key>>} ELSE together
    /\ UNCHANGED <<puzzle, admitted, confirmed, bot, proof>>

\* _verify_challenge; any other answer ends the request (Abort).
VerifyChallenge(w) ==
    /\ pc[w] = "verify"
    /\ req[w].donation \in confirmed
    /\ Go(w, "insert")
    /\ UNCHANGED <<puzzle, admitted, bots, proof>>

\* (fault) the column has no unique index.
NoIndex(w) == TRUE

\* The unique index on challenge_id, over all applications: wait for another
\* insertion, and fail (Abort) when it has been committed.
IndexFree(w) ==
    /\ req[w].donation \notin UsedDonations
    /\ \A v \in Worker \ {w} :
          ~(pc[v] = "done" /\ req[v].donation = req[w].donation)

InsertBot(w) ==
    /\ pc[w] = "insert"
    /\ IndexFree(w)
    /\ Go(w, "done")
    /\ UNCHANGED <<puzzle, admitted, bots, proof>>

Commit(w) ==
    /\ pc[w] = "done"
    /\ bot' = bot \union {req[w]}
    /\ Finish(w)
    /\ UNCHANGED <<puzzle, admitted, confirmed, together>>

Abort(w) ==
    /\ pc[w] # "idle"
    /\ Finish(w)
    /\ UNCHANGED <<puzzle, admitted, confirmed, bot, together>>

\* The donation reaches the confirmations service.
Confirm(d) ==
    /\ d \notin confirmed
    /\ confirmed' = confirmed \union {d}
    /\ UNCHANGED <<puzzle, admitted, bot, together, pc, req, proof>>

Next ==
    \/ \E z \in Puzzle : CreateChallenge(z) \/ ChallengeExpires(z)
    \/ \E w \in Worker :
          \/ \E z \in Puzzle, holds \in BOOLEAN : TakeChallenge(w, z, holds)
          \/ CheckProof(w)
          \/ \E b \in Bot : BeginSignup(w, b)
          \/ VerifyChallenge(w) \/ InsertBot(w) \/ Commit(w) \/ Abort(w)
    \/ \E d \in Donation : Confirm(d)

Spec == Init /\ [][Next]_vars

-----------------------------------------------------------------------------
\* Every variable has its type.
TypeOK ==
    /\ puzzle \in [Puzzle -> {"unasked", "open", "gone"}]
    /\ admitted \in [Puzzle -> Nat]
    /\ confirmed \subseteq Donation /\ bot \subseteq Bot
    /\ together \subseteq App \X PublicKey
    /\ pc \in [Worker -> {"idle", "hash", "verify", "insert", "done"}]
    /\ req \in [Worker -> Bot \union {NoBot}]
    /\ proof \in [Worker -> [puzzle: Puzzle \union {NoPuzzle}, holds: BOOLEAN]]

\* bots.py checks "challenge_id not already used" and "public key not already
\* registered for this app": a donation that was confirmed pays for one bot of
\* one application, and a key names one bot of an application unless two
\* sign-ups presented it to the application at the same time.
OneBotEach ==
    \A b \in bot :
        /\ b.donation \in confirmed
        /\ \A c \in bot \ {b} :
              /\ c.donation # b.donation
              /\ c.app = b.app /\ c.key = b.key => <<b.app, b.key>> \in together

\* hashcash.py: "Challenges are single use: the Redis key is read and deleted
\* in one round trip before any work is done": however many requests present a
\* challenge while its proof is being checked, it admits one sign-up.
ProofAdmitsOnce == \A z \in Puzzle : admitted[z] <= 1
=============================================================================
