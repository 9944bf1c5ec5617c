------------------------- MODULE CancellationRefund -------------------------
(***************************************************************************)
(* The customer's cancellation request and the refund it ends in           *)
(* (handlers/cancellation.go, handlers/admin_cancellation.go,              *)
(* services/cancellation_execute.go).  A request is decided automatically, *)
(* by the chef, or by an admin, and every decision is carried out by       *)
(* ExecuteCancellationRefund: inline, or by the sweep that retries what is *)
(* owed and not executed.                                                  *)
(*                                                                         *)
(* An executor works on the request as it loaded it; the row may have      *)
(* moved on since.                                                         *)
(***************************************************************************)
EXTENDS OrderMoney, FiniteSetsExt

CONSTANTS
  Workers,     \* who works on cancellation requests: some of WorkerKinds
  Tiers,       \* what the policy refunds for each stage of preparation
  FullTier,    \* what it refunds when the chef was not engaged
  Destination  \* where the money goes: the original method, or store credit

WorkerKinds == {"request", "vendor", "admin", "sweep"}

ASSUME WorkerAssumption == Workers \subseteq WorkerKinds
ASSUME TierAssumption == Tiers \subseteq Nat /\ FullTier \in Tiers
ASSUME DestinationAssumption == Destination \in {"original", "wallet"}

VARIABLES
  cr,          \* the order's row of cancellation_requests
  job          \* who is working on it, with the row it loaded
cancelVars == <<cr, job>>

RequestStates == {"none", "auto_refunded", "pending_vendor", "approved", "admin_review",
                  "disputed", "resolved"}
JobPhases == {"idle", "save", "execute", "resolve"}
CancelRow == [st: RequestStates, owed: Int, executed: BOOLEAN]
Job == [pc: JobPhases, owed: Int]

NoJob == [pc |-> "idle", owed |-> 0]
CancelInit ==
  /\ cr = [st |-> "none", owed |-> 0, executed |-> FALSE]
  /\ job = [w \in Workers |-> NoJob]

Working(w, phase) == w \in Workers /\ job[w].pc = phase
Assign(w, phase, owed) == job' = [job EXCEPT ![w] = [pc |-> phase, owed |-> owed]]
Cap(amount) == Min({amount, Max({0, Remaining(order)})})

---------------------------------------------------------------------------
(* A request on an order the chef has not engaged with is granted at once; *)
(* on one in the kitchen it waits for the chef.  One request per order.    *)
RequestCancellation ==
  /\ cr.st = "none" /\ order.pay = "completed" /\ "request" \in Workers
  /\ \/ /\ order.status \in {"pending", "rejected", "cancelled"}
        /\ cr' = [st |-> "auto_refunded", owed |-> Cap(FullTier), executed |-> FALSE]
        /\ Assign("request", "execute", Cap(FullTier))
     \/ /\ order.status = "accepted"
        /\ cr' = [cr EXCEPT !.st = "pending_vendor"]
        /\ UNCHANGED job
  /\ UNCHANGED tables

(* The chef's decision is computed on the rows it loads and then written   *)
(* as a whole row, whatever happened to the request in between.            *)
VendorDecide ==
  /\ cr.st = "pending_vendor" /\ Working("vendor", "idle")
  /\ \E tier \in Tiers : Assign("vendor", "save", Cap(tier))
  /\ UNCHANGED <<tables, cr>>

VendorSave ==
  /\ Working("vendor", "save")
  /\ cr' = [st |-> "approved", owed |-> job["vendor"].owed, executed |-> FALSE]
  /\ Assign("vendor", "execute", job["vendor"].owed)
  /\ UNCHANGED tables

(* A chef who does not answer in time hands the request to an admin.       *)
VendorTimeout ==
  /\ cr.st = "pending_vendor"
  /\ cr' = [cr EXCEPT !.st = "admin_review"]
  /\ UNCHANGED <<tables, job>>

(* The customer may dispute what the chef decided, executed or not.        *)
Dispute ==
  /\ cr.st = "approved"
  /\ cr' = [cr EXCEPT !.st = "disputed"]
  /\ UNCHANGED <<tables, job>>

(* The admin rules on a request nobody answered, and executes that ruling. *)
AdminReview ==
  /\ cr.st = "admin_review" /\ Working("admin", "idle")
  /\ \E tier \in Tiers : Assign("admin", "execute", Cap(tier))
  /\ UNCHANGED <<tables, cr>>

(* Or on a disputed one: the earlier amount counts as refunded, and what   *)
(* the ruling adds to it is credited to the wallet, outside refund_amount. *)
AdminAdjust ==
  /\ cr.st = "disputed" /\ Working("admin", "idle")
  /\ \E tier \in Tiers :
       LET ruling == Min({tier, Max({0, Remaining(order)}) + cr.owed})
           delta  == ruling - cr.owed
       IN /\ IF delta > 0
             THEN \E answer \in {"ok", "error"} :
                    /\ WalletCredit(WalletKey("adjust", 0), delta, answer)
                    /\ IF answer = "ok" THEN Assign("admin", "resolve", ruling)
                       ELSE UNCHANGED job
             ELSE UNCHANGED paid /\ Assign("admin", "resolve", ruling)
  /\ UNCHANGED <<order, lines, ledger, cr>>

AdminResolve ==
  /\ Working("admin", "resolve")
  /\ cr' = [cr EXCEPT !.st = "resolved", !.owed = job["admin"].owed]
  /\ Assign("admin", "idle", 0)
  /\ UNCHANGED tables

SweepOwed ==
  /\ Working("sweep", "idle")
  /\ cr.st \in {"approved", "auto_refunded", "resolved"} /\ ~cr.executed
  /\ Assign("sweep", "execute", cr.owed)
  /\ UNCHANGED <<tables, cr>>

---------------------------------------------------------------------------
(* ExecuteCancellationRefund: one transaction, the gateway call inside it. *)
(* The claim is the full-refund claim on the order row.                    *)
Claims(o) == o.pay = "completed" /\ ~o.refundedAt
Finished(w, owed) ==
  IF w = "admin" THEN Assign(w, "resolve", owed) ELSE Assign(w, "idle", 0)

(* Mutant: losing the claim closes the request, whatever was refunded.     *)
ExecuteLostClosed(w) ==
  /\ job[w].owed > 0 /\ ~Claims(order)
  /\ cr' = [cr EXCEPT !.executed = TRUE]
  /\ Finished(w, job[w].owed)
  /\ UNCHANGED tables

(* The claim is lost to another path.  The request is closed when the      *)
(* books show that at least what it owes has been refunded.                *)
ExecuteLost(w) ==
  /\ job[w].owed > 0 /\ ~Claims(order)
  /\ cr' = IF order.refundAmt >= job[w].owed THEN [cr EXCEPT !.executed = TRUE] ELSE cr
  /\ Finished(w, job[w].owed)
  /\ UNCHANGED tables

(* Mutant: the books take the decided amount, not the amount moved.        *)
SettleDecided(w, amount) ==
  /\ order' = [order EXCEPT !.pay = "refunded", !.status = "cancelled", !.refundedAt = TRUE,
                            !.refundAmt = @ + job[w].owed]
  /\ ledger' = ledger
  /\ cr' = [cr EXCEPT !.executed = TRUE]
  /\ Finished(w, amount)

(* Everything the committed transaction writes when it moved the amount.   *)
Settle(w, amount) ==
  /\ order' = [order EXCEPT
       !.pay = IF job[w].owed > 0 THEN "refunded" ELSE @,
       !.status = "cancelled", !.refundedAt = TRUE, !.refundAmt = @ + amount,
       !.refundID = IF amount > 0 /\ Destination = "original" THEN "settled" ELSE @]
  /\ ledger' = IF amount > 0
               THEN [ledger EXCEPT !["full"] = [status |-> "succeeded", amount |-> amount]]
               ELSE ledger
  /\ cr' = [cr EXCEPT !.executed = TRUE, !.owed = IF amount < job[w].owed THEN amount ELSE @]
  /\ Finished(w, amount)

(* Nothing to move: the decision keeps everything, or a refund that came   *)
(* after the decision has covered the order.                               *)
ExecuteNothing(w) ==
  /\ \/ job[w].owed = 0
     \/ Claims(order) /\ Cap(job[w].owed) = 0
  /\ Settle(w, 0)
  /\ UNCHANGED <<lines, paid>>

(* The ledger row of the full scope is inserted last.  When one is there   *)
(* already the INSERT violates its unique key, PostgreSQL aborts the       *)
(* transaction, and the lookup meant to forgive the duplicate fails too.   *)
RowFits == ledger["full"].status = "none"
(* Mutant: the decided amount is sent, whatever was refunded since.        *)
PayCancellationDecided(w, answer) ==
  IF Destination = "original"
  THEN GatewayCall(FullKey, job[w].owed, answer)
  ELSE WalletCredit(WalletKey("cancel", 0), job[w].owed, answer)

PayCancellation(w, answer) ==
  IF Destination = "original"
  THEN GatewayCall(FullKey, Cap(job[w].owed), answer)
  ELSE WalletCredit(WalletKey("cancel", 0), Cap(job[w].owed), answer)

ExecutePaid(w) ==
  /\ job[w].owed > 0 /\ Claims(order) /\ Cap(job[w].owed) > 0 /\ RowFits
  /\ PayCancellation(w, "ok")
  /\ Settle(w, Cap(job[w].owed))
  /\ UNCHANGED lines

(* Any error rolls the transaction back, wallet credit included; what the  *)
(* gateway did stays done.  The executor gives up and the sweep retries.   *)
ExecuteRolledBack(w) ==
  /\ job[w].owed > 0 /\ Claims(order) /\ Cap(job[w].owed) > 0
  /\ \/ PayCancellation(w, "error")
     \/ /\ ~RowFits \/ "persist" \in Faults
        /\ IF Destination = "original" THEN PayCancellation(w, "ok") ELSE UNCHANGED paid
  /\ Assign(w, "idle", 0)
  /\ UNCHANGED <<order, lines, ledger, cr>>

Execute(w) ==
  /\ Working(w, "execute")
  /\ \/ ExecuteLost(w)
     \/ ExecuteNothing(w)
     \/ ExecutePaid(w)
     \/ ExecuteRolledBack(w)

WorkerCrash(w) ==
  /\ "crash" \in Faults
  /\ job[w].pc # "idle"
  /\ job' = [job EXCEPT ![w] = NoJob]
  /\ UNCHANGED <<tables, cr>>

---------------------------------------------------------------------------
WorkersIdle == \A w \in Workers : Working(w, "idle")

CancellationNext ==
  \/ RequestCancellation
  \/ VendorDecide
  \/ VendorSave
  \/ VendorTimeout
  \/ Dispute
  \/ AdminReview
  \/ AdminAdjust
  \/ AdminResolve
  \/ SweepOwed
  \/ \E w \in Workers : Execute(w) \/ WorkerCrash(w)
=============================================================================
