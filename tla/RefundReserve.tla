--------------------------- MODULE RefundReserve ---------------------------
(***************************************************************************)
(* The money reservation every refund path of the API shares               *)
(* (src/apps/api/services/refundreserve) and the reconcilers that put a    *)
(* half-finished one right.                                                *)
(*                                                                         *)
(* An order row is a record with the columns the reservation reads and     *)
(* writes, in paise:                                                       *)
(*   pay         payment_status                                            *)
(*   refundedAt  whether refunded_at is set                                *)
(*   refundAmt   refund_amount, everything ever reserved for refund        *)
(*   total       total, which a per-line cancel reduces                    *)
(*   perLine     the sum of refund_amount over the cancelled lines         *)
(*   status      the order's lifecycle                                     *)
(*   refundID    refund_id: none, the deferred sentinel, or a real one     *)
(*   owed        the amount written into the deferred sentinel             *)
(* Every operator here is what one locked transaction does to that row.    *)
(***************************************************************************)
EXTENDS Integers

PayStates    == {"pending", "completed", "refunded"}
OrderStates  == {"pending", "accepted", "delivered", "rejected", "cancelled", "refunded"}
RefundIDs    == {"none", "deferred", "settled"}
Intents      == {"full", "partial"}
Outcomes     == {"won", "not_payable", "already_refunded", "nothing_left", "lost_claim"}

OrderRow == [pay: PayStates, refundedAt: BOOLEAN, refundAmt: Int, total: Int,
             perLine: Int, status: OrderStates, refundID: RefundIDs, owed: Int]

(* What is still owed: a per-line cancel left both total and refund_amount *)
(* moved, so the lines' refunds are added back.                            *)
Remaining(o) == o.total - o.refundAmt + o.perLine

(* A requested amount of 0, or a full intent, stands for all that is left. *)
ReserveAmount(o, requested, intent) ==
  IF intent = "partial" /\ requested > 0 /\ requested < Remaining(o)
  THEN requested ELSE Remaining(o)

(* Mutant: a row another refund holds can be claimed.                      *)
ReserveOutcomeUnguarded(o, intent) ==
  CASE o.pay = "pending"   -> "not_payable"
    [] o.pay # "pending" /\ Remaining(o) <= 0 -> "nothing_left"
    [] OTHER               -> "won"

ReserveOutcome(o, intent) ==
  CASE o.pay = "refunded" -> "already_refunded"
    [] o.pay = "pending"  -> "not_payable"
    [] o.pay = "completed" /\ Remaining(o) > 0 ->
         IF intent = "full" /\ o.refundedAt THEN "lost_claim" ELSE "won"
    [] OTHER              -> "nothing_left"

Wins(o, intent) == ReserveOutcome(o, intent) = "won"

(* Mutant: refund_amount is left for the end of the refund.                *)
ReservedUncounted(o, amount, intent) ==
  [o EXCEPT !.pay = "refunded", !.refundedAt = @ \/ intent = "full"]

(* The winning claim: payment_status completed -> refunded is the mutex,   *)
(* refund_amount grows before any money moves, and a full intent stamps    *)
(* refunded_at as the second half of its claim.                            *)
Reserved(o, amount, intent) ==
  [o EXCEPT !.pay = "refunded", !.refundAmt = @ + amount,
            !.refundedAt = @ \/ intent = "full"]

(* Mutant: a refund that failed marks the payment failed.                  *)
ReleasedAsFailed(o, amount) ==
  [o EXCEPT !.pay = "failed", !.refundAmt = @ - amount]

(* Undoing a claim writes without looking at the row's present state.      *)
ReleasedPartial(o, amount) ==
  [o EXCEPT !.pay = "completed", !.refundAmt = @ - amount]

ReleasedFull(o, amount) ==
  [ReleasedPartial(o, amount) EXCEPT !.refundedAt = FALSE]

Released(o, amount, intent) ==
  IF intent = "full" THEN ReleasedFull(o, amount) ELSE ReleasedPartial(o, amount)

---------------------------------------------------------------------------
(* A row left mid-refund: the claim is held and nothing stamped the end.   *)
Stuck(o) == o.pay = "refunded" /\ ~o.refundedAt

(* A terminal stamp moves a live order to refunded and leaves a cancelled  *)
(* one cancelled.                                                          *)
TerminalStatus(o) == IF o.status = "cancelled" THEN "cancelled" ELSE "refunded"

RecoveredID(o) == IF o.refundID = "none" THEN "settled" ELSE o.refundID

(* Mutant: a partial refund found stuck keeps the mutex.                   *)
StuckFinalizedHeld(o) ==
  IF Remaining(o) <= 0 THEN [o EXCEPT !.refundedAt = TRUE] ELSE [o EXCEPT !.refundID = RecoveredID(o)]

(* The stuck-refund sweep finishes the row either way and leaves           *)
(* refund_amount alone.                                                    *)
StuckFinalized(o) ==
  IF Remaining(o) <= 0
  THEN [o EXCEPT !.refundedAt = TRUE, !.status = TerminalStatus(o),
                 !.refundID = RecoveredID(o)]
  ELSE [o EXCEPT !.pay = "completed", !.refundID = RecoveredID(o)]

(* The daily reconciliation's repair when the gateway itself reports the   *)
(* whole capture returned.                                                 *)
GatewayFinalized(o) ==
  [o EXCEPT !.refundedAt = TRUE, !.pay = "refunded",
            !.status = TerminalStatus(o), !.refundID = RecoveredID(o)]

---------------------------------------------------------------------------
(* Mutant: a line's refund joins refund_amount only after it was sent.     *)
LineReservedUncounted(o, value) ==
  [o EXCEPT !.total = @ - value, !.perLine = @ + value]

(* Cancelling one line: the line's value leaves total and joins both       *)
(* refund_amount and the per-line sum, in one transaction; and its inverse.*)
LineReserved(o, value) ==
  [o EXCEPT !.total = @ - value, !.refundAmt = @ + value, !.perLine = @ + value]

LineReleased(o, value) ==
  [o EXCEPT !.total = @ + value, !.refundAmt = @ - value, !.perLine = @ - value]
=============================================================================
