------------------------------- MODULE Domains -------------------------------
(***************************************************************************)
(* Claiming and verifying one host name from the dashboard.  A Worker is   *)
(* one request and its transaction: it reads the row without a lock, then  *)
(* (for a verification, after a DNS look-up) writes the columns it changes *)
(* to whatever the row holds by then.                                      *)
(***************************************************************************)
EXTENDS Naturals

CONSTANTS
    App,           \* applications of different owners
    Worker,
    MaxRows,       \* bound: rows inserted for the host name
    NoApp

VARIABLES
    domain,        \* the committed row of the host name
    rows,          \* rows inserted so far
    points,        \* the DNS record points to the service
    prover,        \* the application whose verification the row carries
    crossed,       \* a transfer and a verification of this row overlapped
    pc, req,       \* where each request is; what it asks, with the row it read
    copy           \* the row it has written and not committed

vars == <<domain, rows, points, prover, crossed, pc, req, copy>>

NoDomain == [id |-> 0, app |-> NoApp, verified |-> FALSE]
Domain == [id: 0..MaxRows, app: App \union {NoApp}, verified: BOOLEAN]

Request == [op: {"none", "insert", "transfer", "verify", "delete"},
            app: App \union {NoApp}, id: 0..MaxRows]
NoRequest == [op |-> "none", app |-> NoApp, id |-> 0]

Init ==
    /\ domain = NoDomain /\ rows = 0 /\ points = FALSE
    /\ prover = NoApp /\ crossed = FALSE
    /\ pc = [w \in Worker |-> "idle"]
    /\ req = [w \in Worker |-> NoRequest]
    /\ copy = [w \in Worker |-> NoDomain]

Pair(op1, op2) == {op1, op2} = {"transfer", "verify"}

Begin(w, op, p, stage) ==
    /\ pc[w] = "idle"
    /\ pc' = [pc EXCEPT ![w] = stage]
    /\ req' = [req EXCEPT ![w] = [op |-> op, app |-> p, id |-> domain.id]]
    /\ crossed' = (crossed \/ \E v \in Worker \ {w} :
                                /\ req[v].id = domain.id
                                /\ Pair(req[v].op, op))
    /\ UNCHANGED <<domain, rows, points, prover, copy>>

Finish(w) ==
    /\ pc' = [pc EXCEPT ![w] = "idle"]
    /\ req' = [req EXCEPT ![w] = NoRequest]
    /\ copy' = [copy EXCEPT ![w] = NoDomain]

-----------------------------------------------------------------------------
(* create_domain.  A claim on the application's own row changes nothing.   *)

BeginInsert(w, p) ==
    /\ domain.id = 0
    /\ Begin(w, "insert", p, "write")

\* (fault) a verified row is transferred like any other.
BeginTransferAny(w, p) ==
    /\ domain.id # 0 /\ domain.app # p
    /\ Begin(w, "transfer", p, "write")

\* A row verified by another application is refused.
BeginTransfer(w, p) ==
    /\ domain.id # 0 /\ domain.app # p
    /\ ~domain.verified
    /\ Begin(w, "transfer", p, "write")

(* verify_domain and delete_domain, of a row the application owns.         *)

BeginVerify(w, p) ==
    /\ domain.id # 0 /\ domain.app = p
    /\ Begin(w, "verify", p, "look")

BeginDelete(w, p) ==
    /\ domain.id # 0 /\ domain.app = p
    /\ Begin(w, "delete", p, "write")

\* verify_cname: a record that does not match is answered, and that is all.
LookUp(w) ==
    /\ pc[w] = "look"
    /\ IF points
         THEN pc' = [pc EXCEPT ![w] = "write"] /\ UNCHANGED <<req, copy>>
         ELSE Finish(w)
    /\ UNCHANGED <<domain, rows, points, prover, crossed>>

-----------------------------------------------------------------------------
(* Writing.  The row, or the host name of a row being inserted, is locked  *)
(* from the statement to the end of the transaction.                       *)

Unlocked(w) == \A v \in Worker \ {w} : pc[v] # "done"

WriteInsert(w) ==
    /\ pc[w] = "write" /\ req[w].op = "insert"
    /\ Unlocked(w)
    /\ IF domain.id # 0        \* "claimed by another application a moment ago"
         THEN Finish(w) /\ UNCHANGED rows
         ELSE /\ rows < MaxRows
              /\ rows' = rows + 1
              /\ copy' = [copy EXCEPT ![w] =
                   [id |-> rows + 1, app |-> req[w].app, verified |-> FALSE]]
              /\ pc' = [pc EXCEPT ![w] = "done"]
              /\ UNCHANGED req
    /\ UNCHANGED <<domain, points, prover, crossed>>

\* A transfer does not write the column verified, a verification not app_id.
Changed(w) ==
    IF req[w].op = "transfer" THEN [domain EXCEPT !.app = req[w].app]
      ELSE IF req[w].op = "verify" THEN [domain EXCEPT !.verified = TRUE]
      ELSE NoDomain

\* The row read before must still exist for an update (StaleDataError); a
\* delete of a row that is gone goes through.
WriteRow(w) ==
    /\ pc[w] = "write" /\ req[w].op \in {"transfer", "verify", "delete"}
    /\ Unlocked(w)
    /\ IF domain.id = req[w].id
         THEN /\ copy' = [copy EXCEPT ![w] = Changed(w)]
              /\ pc' = [pc EXCEPT ![w] = "done"]
              /\ UNCHANGED req
         ELSE Finish(w)
    /\ UNCHANGED <<domain, rows, points, prover, crossed>>

Commit(w) ==
    /\ pc[w] = "done"
    /\ domain' = copy[w]
    /\ prover' = CASE req[w].op = "verify" -> req[w].app
                   [] req[w].op = "transfer" -> prover
                   [] OTHER -> NoApp
    /\ crossed' = (crossed /\ copy[w].id = domain.id)
    /\ Finish(w)
    /\ UNCHANGED <<rows, points>>

Abort(w) ==
    /\ pc[w] # "idle"
    /\ Finish(w)
    /\ UNCHANGED <<domain, rows, points, prover, crossed>>

\* The holder of the host name edits its DNS records.
Repoint ==
    /\ points' = ~points
    /\ UNCHANGED <<domain, rows, prover, crossed, pc, req, copy>>

Next ==
    \/ \E w \in Worker :
          \/ \E p \in App : \/ BeginInsert(w, p) \/ BeginTransfer(w, p)
                            \/ BeginVerify(w, p) \/ BeginDelete(w, p)
          \/ LookUp(w) \/ WriteInsert(w) \/ WriteRow(w)
          \/ Commit(w) \/ Abort(w)
    \/ Repoint

Spec == Init /\ [][Next]_vars

-----------------------------------------------------------------------------
\* Every variable has its type.
TypeOK ==
    /\ domain \in Domain /\ rows \in 0..MaxRows /\ points \in BOOLEAN
    /\ prover \in App \union {NoApp} /\ crossed \in BOOLEAN
    /\ pc \in [Worker -> {"idle", "look", "write", "done"}]
    /\ req \in [Worker -> Request] /\ copy \in [Worker -> Domain]

\* domains.py: "A hostname that another application has already verified is
\* refused": the application that holds a verified host name is the one that
\* verified it, unless a transfer and a verification of the row overlapped.
VerifiedByHolder ==
    domain.verified /\ ~crossed => prover = domain.app
=============================================================================
