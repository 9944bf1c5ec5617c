--------------------------- MODULE RefundHandlers ---------------------------
(***************************************************************************)
(* The refund paths that are not (yet) behind the coordinator.  Each keeps *)
(* its own order of reserve, pay and persist over the shared reservation:  *)
(*   refund, wallet  PaymentHandler.InitiateRefund, to the gateway or to   *)
(*                   store credit                                          *)
(*   goodwill        ChefOrderCancelHandler.RefundOrder, after delivery    *)
(*   chefcancel      ChefOrderCancelHandler.CancelOrder                    *)
(*   line            ChefOrderCancelHandler.CancelOrderItem                *)
(*   saga            CompensateOrderRefund, a Temporal activity            *)
(* and the customer's issue, which is refunded in one transaction.         *)
(* A request is one execution of a path; each step is one transaction or   *)
(* one call that leaves the process.                                       *)
(***************************************************************************)
EXTENDS OrderMoney, FiniteSetsExt

CONSTANTS
  Requests,
  Kind,        \* which path each request runs
  Amount,      \* what it asks for; 0 asks for all that remains
  Target,      \* the line a line cancel is about
  ClientKey,   \* the Idempotency-Key header it carries
  Issues,
  Affected,    \* the lines each issue names
  Grant        \* the amount the resolver of the issue grants

Kinds == {"refund", "wallet", "goodwill", "chefcancel", "line", "saga"}
Keyed == {"refund", "wallet", "goodwill"}   \* the paths behind ClaimRefundRequest

ASSUME RequestAssumption ==
  /\ Kind \in [Requests -> Kinds]
  /\ Amount \in [Requests -> Nat]
  /\ \A r \in Requests : Kind[r] = "line" => Target[r] \in Lines
  /\ \A r \in Requests : Kind[r] = "goodwill" => Amount[r] > 0
ASSUME IssueAssumption ==
  /\ Affected \in [Issues -> SUBSET Lines]
  /\ Grant \in [Issues -> Nat \ {0}]

VARIABLES
  req,     \* the requests in progress
  claims,  \* the client keys claimed in processed_events
  issue,   \* order_issues
  flow     \* the deferred-refund workflow of the order
handlerVars == <<req, claims, issue, flow>>

RequestPhases == {"idle", "reserve", "cancel", "pay", "persist", "swap",
                  "release", "unclaim", "done", "dead"}
Request == [pc: RequestPhases, amt: Int, prior: Int, full: BOOLEAN]
Issue   == [st: {"none", "pending", "resolved", "rejected"}, asked: Int, credit: Int,
            names: SUBSET Lines]
FlowStates == {"none", "running", "persist", "done"}

HandlersInit ==
  /\ req = [r \in Requests |-> [pc |-> "idle", amt |-> 0, prior |-> 0, full |-> FALSE]]
  /\ claims = {}
  /\ issue = [i \in Issues |-> [st |-> "none", asked |-> 0, credit |-> 0, names |-> {}]]
  /\ flow = "none"

In(r, phase) == req[r].pc = phase
Step(r, phase) == req' = [req EXCEPT ![r].pc = phase]
ValueOf(ls) == MapThenSumSet(LAMBDA l : LineValue[l], ls)

---------------------------------------------------------------------------
(* The checks a handler makes on the row it loads, before any lock.        *)
Accepts(r) ==
  CASE Kind[r] \in {"refund", "wallet"} ->
         /\ order.pay = "completed" /\ Remaining(order) > 0 /\ Amount[r] <= Remaining(order)
    [] Kind[r] = "goodwill" ->
         /\ order.status = "delivered" /\ Remaining(order) > 0
         /\ Amount[r] <= Remaining(order)
    [] Kind[r] = "chefcancel" -> order.status = "accepted"
    [] Kind[r] = "line" -> order.status = "accepted" /\ Target[r] \notin lines
    [] Kind[r] = "saga" -> order.status \in {"pending", "rejected", "cancelled"}

(* A request that passes them claims its client key, where it has one; a   *)
(* second request under a claimed key is answered as a duplicate.          *)
Submit(r) ==
  /\ In(r, "idle")
  /\ Accepts(r)
  /\ IF Kind[r] \in Keyed
     THEN /\ Step(r, IF ClientKey[r] \in claims THEN "done" ELSE "reserve")
          /\ claims' = claims \union {ClientKey[r]}
     ELSE Step(r, "reserve") /\ UNCHANGED claims
  /\ UNCHANGED <<tables, issue, flow>>

(* The order-level paths take the reservation.  Losing it ends the request *)
(* for all of them but the chef's cancel, which cancels without refunding. *)
ReserveOrder(r) ==
  LET intent == IF Kind[r] \in {"chefcancel", "saga"} THEN "full" ELSE "partial"
      amount == ReserveAmount(order, Amount[r], intent)
  IN /\ In(r, "reserve") /\ Kind[r] # "line"
     /\ IF Wins(order, intent)
        THEN /\ order' = Reserved(order, amount, intent)
             /\ req' = [req EXCEPT ![r] =
                  [pc |-> IF Kind[r] = "chefcancel" THEN "cancel" ELSE "pay",
                   amt |-> amount, prior |-> order.refundAmt,
                   full |-> amount >= Remaining(order)]]
        ELSE /\ UNCHANGED order
             /\ req' = [req EXCEPT ![r].amt = 0, ![r].pc =
                  CASE Kind[r] \in Keyed       -> "unclaim"
                    [] Kind[r] = "chefcancel" -> "cancel"
                    [] OTHER                  -> "done"]
     /\ UNCHANGED <<lines, ledger, paid, claims, issue, flow>>

(* A line cancel records its whole ledger effect under the order lock.  It *)
(* yields to an order-level refund in flight, to a finished one, and to an *)
(* issue that already refunded the line; it does not look at what remains. *)
RefundedViaIssue(l) == \E i \in Issues : issue[i].credit > 0 /\ l \in issue[i].names

ReserveLine(r) ==
  LET l == Target[r]
      open == /\ order.pay = "completed" /\ ~order.refundedAt
              /\ ~RefundedViaIssue(l) /\ l \notin lines
  IN /\ In(r, "reserve") /\ Kind[r] = "line"
     /\ IF open
        THEN /\ order' = LineReserved(order, LineValue[l])
             /\ lines' = lines \union {l}
             /\ req' = [req EXCEPT ![r].pc = "pay", ![r].amt = LineValue[l]]
        ELSE Step(r, "done") /\ UNCHANGED <<order, lines>>
     /\ UNCHANGED <<ledger, paid, claims, issue, flow>>

(* The chef's cancel writes the cancelled state, and the deferred sentinel *)
(* when money is owed, before it talks to the gateway.                     *)
PersistCancel(r) ==
  /\ In(r, "cancel")
  /\ \/ /\ order' = IF req[r].amt > 0
                    THEN [order EXCEPT !.status = "cancelled", !.refundID = "deferred",
                                       !.owed = req[r].amt]
                    ELSE [order EXCEPT !.status = "cancelled"]
        /\ Step(r, IF req[r].amt > 0 THEN "pay" ELSE "done")
     \/ "persist" \in Faults /\ Step(r, "done") /\ UNCHANGED order
  /\ UNCHANGED <<lines, ledger, paid, claims, issue, flow>>

(* The money move, outside any transaction and under the path's own key.   *)
Move(r, answer) ==
  CASE Kind[r] \in {"refund", "goodwill"} -> GatewayCall(PartialKey(req[r].prior), req[r].amt, answer)
    [] Kind[r] = "chefcancel" -> GatewayCall(FullKey, req[r].amt, answer)
    [] Kind[r] = "line"   -> GatewayCall(LineKey(Target[r]), req[r].amt, answer)
    [] Kind[r] = "wallet" -> WalletCredit(WalletKey("refund", req[r].prior), req[r].amt, answer)
    [] Kind[r] = "saga"   -> WalletCredit(WalletKey("saga", 0), req[r].amt, answer)

AfterPay(r, answer) ==
  CASE answer = "ok" -> (CASE Kind[r] = "chefcancel" -> "swap"
                           [] Kind[r] = "line" -> "done"
                           [] OTHER -> "persist")
    [] answer = "error" -> IF Kind[r] = "chefcancel" THEN "done" ELSE "release"

(* A chef's cancel that could not pay leaves the sentinel for the retries  *)
(* and starts the workflow that does them.                                 *)
Pay(r) ==
  /\ In(r, "pay")
  /\ \E answer \in {"ok", "error"} :
       /\ Move(r, answer)
       /\ Step(r, AfterPay(r, answer))
       /\ flow' = IF Kind[r] = "chefcancel" /\ answer = "error" /\ flow = "none"
                  THEN "running" ELSE flow
  /\ UNCHANGED <<order, lines, ledger, claims, issue>>

(* The sentinel gives way to the gateway's id only if it is still there.   *)
SwapSentinel(r) ==
  /\ In(r, "swap")
  /\ \/ order' = IF order.refundID = "deferred" THEN [order EXCEPT !.refundID = "settled"] ELSE order
     \/ "persist" \in Faults /\ UNCHANGED order
  /\ Step(r, "done")
  /\ UNCHANGED <<lines, ledger, paid, claims, issue, flow>>

(* Mutant: every refund stamps refunded_at, a partial one too.             *)
PersistedTerminal(r) == [order EXCEPT !.pay = "completed", !.refundedAt = TRUE, !.refundID = "settled"]

(* The terminal write.  Only a refund that exhausted the order ends it; a  *)
(* partial one hands the mutex back.  When it fails the row stays stuck,   *)
(* never reverted, for the reconciler; the saga's activity is retried.     *)
Persisted(r) ==
  CASE Kind[r] \in {"refund", "wallet"} /\ req[r].full ->
         [order EXCEPT !.pay = "refunded", !.status = "refunded",
                       !.refundedAt = TRUE, !.refundID = "settled"]
    [] Kind[r] = "goodwill" /\ req[r].full ->
         [order EXCEPT !.refundedAt = TRUE, !.refundID = "settled"]
    [] Kind[r] \in Keyed /\ ~req[r].full ->
         [order EXCEPT !.pay = "completed", !.refundID = "settled"]
    [] Kind[r] = "saga" -> [order EXCEPT !.status = "refunded"]

Persist(r) ==
  /\ In(r, "persist")
  /\ \/ order' = Persisted(r) /\ Step(r, "done")
     \/ /\ "persist" \in Faults /\ UNCHANGED order
        /\ Step(r, IF Kind[r] = "saga" THEN "reserve" ELSE "done")
  /\ UNCHANGED <<lines, ledger, paid, claims, issue, flow>>

(* Mutant: a refused refund stays reserved.                                *)
ReleaseOrderForgotten(r) ==
  /\ In(r, "release") /\ Kind[r] # "line"
  /\ order' = [order EXCEPT !.pay = "completed"]
  /\ Step(r, IF Kind[r] = "saga" THEN "done" ELSE "unclaim")
  /\ UNCHANGED <<lines, ledger, paid, claims, issue, flow>>

(* A refused payment undoes the reservation.  A line's is undone only      *)
(* while the order is as the reservation left it.                          *)
ReleaseOrder(r) ==
  /\ In(r, "release") /\ Kind[r] # "line"
  /\ \/ order' = Released(order, req[r].amt, IF Kind[r] = "saga" THEN "full" ELSE "partial")
     \/ "persist" \in Faults /\ UNCHANGED order
  /\ Step(r, IF Kind[r] = "saga" THEN "reserve" ELSE "unclaim")
  /\ UNCHANGED <<lines, ledger, paid, claims, issue, flow>>

ReleaseLine(r) ==
  LET l == Target[r]
  IN /\ In(r, "release") /\ Kind[r] = "line"
     /\ IF order.pay = "completed" /\ ~order.refundedAt /\ l \in lines
        THEN order' = LineReleased(order, req[r].amt) /\ lines' = lines \ {l}
        ELSE UNCHANGED <<order, lines>>
     /\ Step(r, "done")
     /\ UNCHANGED <<ledger, paid, claims, issue, flow>>

(* The client key is dropped last, so that a retry is tried afresh.        *)
Unclaim(r) ==
  /\ In(r, "unclaim")
  /\ claims' = claims \ {ClientKey[r]}
  /\ Step(r, "done")
  /\ UNCHANGED <<tables, issue, flow>>

(* A retried request of the client is another request; a Temporal activity *)
(* is run again by the server.                                             *)
RequestCrash(r) ==
  /\ "crash" \in Faults
  /\ req[r].pc \notin {"idle", "done", "dead"}
  /\ Step(r, IF Kind[r] = "saga" THEN "reserve" ELSE "dead")
  /\ UNCHANGED <<tables, claims, issue, flow>>

---------------------------------------------------------------------------
(* A customer's issue names live lines of a paid, open order; one open     *)
(* report per order.                                                       *)
ReportIssue(i) ==
  LET named == Affected[i] \ lines
      asked == Min({ValueOf(named), Max({0, order.total - order.refundAmt})})
  IN /\ issue[i].st = "none"
     /\ order.pay = "completed" /\ order.status \notin {"cancelled", "refunded"}
     /\ order.refundAmt < order.total
     /\ \A j \in Issues : issue[j].st \in {"none", "rejected"}
     /\ issue' = [issue EXCEPT ![i] = [st |-> "pending", asked |-> asked,
                                       credit |-> 0, names |-> named]]
     /\ UNCHANGED <<tables, req, claims, flow>>

(* Mutant: lines cancelled since the report still count.                   *)
CreditOfAll(i) == Min({Grant[i], Remaining(order)})

(* Refunding it is one transaction under the order lock: the cap, the      *)
(* claim on the issue, the wallet credit and the increment.  It neither    *)
(* reads nor writes payment_status.                                        *)
CreditOf(i) ==
  LET cancelled == ValueOf(issue[i].names \intersect lines)
      capped    == Min({Grant[i], Remaining(order)})
  IN IF cancelled > 0 THEN Min({capped, Max({0, issue[i].asked - cancelled})}) ELSE capped

ResolveIssue(i) ==
  LET credit == CreditOf(i)
  IN /\ issue[i].st = "pending" /\ credit > 0
     /\ issue' = [issue EXCEPT ![i].st = "resolved", ![i].credit = credit]
     /\ paid' = Credited(WalletKey("issue", i), credit)
     /\ order' = [order EXCEPT !.refundAmt = @ + credit,
                               !.refundedAt = @ \/ credit >= Remaining(order)]
     /\ UNCHANGED <<lines, ledger, req, claims, flow>>

RejectIssue(i) ==
  /\ issue[i].st = "pending"
  /\ issue' = [issue EXCEPT ![i].st = "rejected"]
  /\ UNCHANGED <<tables, req, claims, flow>>

---------------------------------------------------------------------------
(* Mutants: the sentinel is dropped on any answer; the retry looks for     *)
(* cancelled orders not yet stamped refunded.                              *)
RetryDeferredEager ==
  /\ order.status = "cancelled" /\ order.refundID = "deferred" /\ order.owed > 0
  /\ \E answer \in {"ok", "error"} : GatewayCall(FullKey, order.owed, answer)
  /\ order' = [order EXCEPT !.refundID = "settled"]
  /\ UNCHANGED <<lines, ledger, handlerVars>>

RetryDeferredUnstamped ==
  /\ order.status = "cancelled" /\ order.refundID = "deferred" /\ ~order.refundedAt
  /\ GatewayCall(FullKey, order.owed, "ok")
  /\ order' = [order EXCEPT !.refundID = "settled"]
  /\ UNCHANGED <<lines, ledger, handlerVars>>

(* The deferred refund, retried by the cron under the order's lock and by  *)
(* the workflow without it; both use the key of the cancel itself.         *)
RetryDeferred ==
  /\ order.status = "cancelled" /\ order.refundID = "deferred" /\ order.owed > 0
  /\ \E answer \in {"ok", "error"} :
       /\ GatewayCall(FullKey, order.owed, answer)
       /\ order' = IF answer = "ok" THEN [order EXCEPT !.refundID = "settled"] ELSE order
  /\ UNCHANGED <<lines, ledger, handlerVars>>

FlowPay ==
  /\ flow = "running"
  /\ \E answer \in {"ok", "error"} :
       /\ GatewayCall(FullKey, order.owed, answer)
       /\ flow' = IF answer = "ok" THEN "persist" ELSE flow
  /\ UNCHANGED <<order, lines, ledger, req, claims, issue>>

FlowPersist ==
  /\ flow = "persist"
  /\ order' = IF order.refundID = "deferred" THEN [order EXCEPT !.refundID = "settled"] ELSE order
  /\ flow' = "done"
  /\ UNCHANGED <<lines, ledger, paid, req, claims, issue>>

RequestStep(r) ==
  \/ ReserveOrder(r)
  \/ ReserveLine(r)
  \/ PersistCancel(r)
  \/ Pay(r)
  \/ SwapSentinel(r)
  \/ Persist(r)
  \/ ReleaseOrder(r)
  \/ ReleaseLine(r)
  \/ Unclaim(r)

(* Requests that hold the order's claim, alive: the line cancel never      *)
(* takes it.                                                               *)
RequestHolders ==
  {r \in Requests : Kind[r] # "line" /\ req[r].amt > 0
                    /\ req[r].pc \in {"cancel", "pay", "persist", "swap", "release"}}
RequestsIdle == \A r \in Requests : req[r].pc \in {"idle", "done", "dead"}

HandlersNext ==
  \/ \E r \in Requests : Submit(r) \/ RequestStep(r) \/ RequestCrash(r)
  \/ \E i \in Issues : ReportIssue(i) \/ ResolveIssue(i) \/ RejectIssue(i)
  \/ RetryDeferred
  \/ FlowPay
  \/ FlowPersist
=============================================================================
