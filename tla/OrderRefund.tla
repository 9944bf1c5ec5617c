---------------------------- MODULE OrderRefund ----------------------------
(***************************************************************************)
(* Every refund path of one order, together: the coordinator's callers,    *)
(* the handlers, the cancellation flow and the reconcilers, all on the     *)
(* same rows.                                                              *)
(***************************************************************************)
EXTENDS RefundCoordinator, RefundHandlers, CancellationRefund

vars == <<tables, cmd, handlerVars, cancelVars>>

Init == MoneyInit /\ CommandInit /\ HandlersInit /\ CancelInit

(* The reconcilers act on rows nobody is working on: the stuck sweep waits *)
(* fifteen minutes, longer than any request lives, and the deferred one    *)
(* two.                                                                    *)
LiveHolders == CommandHolders \union RequestHolders

FinalizeStuckRefund ==
  /\ LiveHolders = {}
  /\ Stuck(order)
  /\ order' = StuckFinalized(order)
  /\ UNCHANGED <<lines, ledger, paid, cmd, handlerVars, cancelVars>>

(* The daily reconciliation asks the gateway what it has returned.         *)
FinalizeGatewayFullRefund ==
  /\ ~order.refundedAt
  /\ paid.gateway >= order.total + order.perLine
  /\ order' = GatewayFinalized(order)
  /\ UNCHANGED <<lines, ledger, paid, cmd, handlerVars, cancelVars>>

Coordinator  == /\ \E c \in Commands : Load(c) \/ CommandStep(c) \/ CommandCrash(c)
                /\ UNCHANGED <<handlerVars, cancelVars>>
Handlers     == HandlersNext /\ UNCHANGED <<cmd, cancelVars>>
Cancellation == CancellationNext /\ UNCHANGED <<cmd, handlerVars>>
Kitchen      == (AcceptOrder \/ DeliverOrder) /\ UNCHANGED <<cmd, handlerVars, cancelVars>>

Next ==
  \/ Coordinator
  \/ Handlers
  \/ Cancellation
  \/ Kitchen
  \/ FinalizeStuckRefund
  \/ FinalizeGatewayFullRefund

Fairness ==
  /\ \A c \in Commands : /\ WF_vars(CommandStep(c) /\ UNCHANGED <<handlerVars, cancelVars>>)
                         /\ WF_vars(/\ IsCron(c) /\ Load(c)
                                    /\ UNCHANGED <<handlerVars, cancelVars>>)
  /\ \A r \in Requests : WF_vars(RequestStep(r) /\ UNCHANGED <<cmd, cancelVars>>)
  /\ \A w \in Workers : SF_vars(Execute(w) /\ UNCHANGED <<cmd, handlerVars>>)
  /\ WF_vars(RetryDeferred /\ UNCHANGED <<cmd, cancelVars>>)
  /\ WF_vars((VendorSave \/ AdminResolve \/ SweepOwed) /\ UNCHANGED <<cmd, handlerVars>>)
  /\ WF_vars(FinalizeStuckRefund)

Spec == Init /\ [][Next]_vars
LiveSpec == Spec /\ Fairness

---------------------------------------------------------------------------
TypeOK ==
  /\ CommandTypeOK
  /\ lines \subseteq Lines
  /\ req \in [Requests -> Request]
  /\ issue \in [Issues -> Issue]
  /\ flow \in FlowStates
  /\ cr \in CancelRow
  /\ job \in [Workers -> Job]

Quiet == CommandsIdle /\ RequestsIdle /\ WorkersIdle

(* Of all the paths that refund an order, coordinator and legacy, at most  *)
(* one at a time is between its claim and its end, and while it is the row *)
(* tells the others so.                                                    *)
OneClaimAcrossPaths ==
  /\ Cardinality(LiveHolders) <= 1
  /\ LiveHolders # {} => order.pay = "refunded"

(* With nothing in flight and nothing deferred, refund_amount is exactly   *)
(* what the customer has received.                                         *)
BooksBalanceAtRest == Quiet /\ order.refundID # "deferred" => TotalPaid = order.refundAmt

(* An order stamped refunded_at has given everything back, unless the rest *)
(* is owed under the deferred sentinel.                                    *)
RefundedMeansPaid ==
  Quiet /\ order.refundedAt /\ order.refundID # "deferred" =>
    TotalPaid >= order.total + order.perLine

(* A refund that is answered as done sent its own money: its key was not   *)
(* used up by an earlier refund, which the provider would answer for it.   *)
RefundMovesMoney ==
  [][\A r \in Requests : Kind[r] \in Keyed /\ In(r, "pay") /\ In(r, "persist")'
       => TotalPaid' = TotalPaid + req[r].amt]_vars

(* A line is paid back by its cancel or by an issue about it, not by both. *)
LineRefundedOnce ==
  \A i \in Issues :
    LET cancelled == {l \in issue[i].names : KeyPaid(LineKey(l))}
    IN issue[i].credit > 0 /\ cancelled # {} =>
         issue[i].credit + ValueOf(cancelled) <= issue[i].asked

(* The deferred sentinel is the only trace of a refund still owed: it may  *)
(* go only when that refund has been sent.                                 *)
SentinelKept ==
  [][order.refundID = "deferred" /\ order'.refundID # "deferred" => KeyPaid(FullKey)']_vars

(* And it is sent in the end, whoever crashed.                             *)
DeferredIsPaid == (order.refundID = "deferred") ~> KeyPaid(FullKey)

(* A row left mid-refund by a crash or a failed write is finished.         *)
StuckIsFinished == Stuck(order) ~> ~Stuck(order)

(* What requests that died had booked and not sent: nobody sends it.       *)
SendsUnder(r) ==
  CASE Kind[r] \in {"refund", "goodwill"} -> PartialKey(req[r].prior)
    [] Kind[r] = "chefcancel" -> FullKey
    [] Kind[r] = "line"   -> LineKey(Target[r])
    [] Kind[r] = "wallet" -> WalletKey("refund", req[r].prior)
    [] Kind[r] = "saga"   -> WalletKey("saga", 0)
Stranded == MapThenSumSet(LAMBDA r : req[r].amt,
                          {r \in Requests : In(r, "dead") /\ ~KeyPaid(SendsUnder(r))})

(* A decided cancellation is disputed, or carried out: it is marked        *)
(* executed and the customer has received at least what was decided.  The  *)
(* mark trusts refund_amount, which grows before money moves, so what a    *)
(* sibling that then died had booked counts as received.                   *)
CancellationIsExecuted ==
  \A amount \in Tiers :
    (cr.st \in {"approved", "auto_refunded"} /\ ~cr.executed /\ cr.owed = amount) ~>
      \/ cr.st = "disputed"
      \/ cr.executed /\ TotalPaid + Stranded >= amount

(* No reservation, whatever it caps against, books more than the order.    *)
BookedWithinTotal == Remaining(order) >= 0

(* The stuck sweep's premise: refund_amount is already right, so that it   *)
(* needs no touching when a row is finished.                               *)
StuckBooksAreRight == [][FinalizeStuckRefund => TotalPaid = order.refundAmt]_vars

(* The amount somebody may still send or give back: the holder of the      *)
(* claim, and once a chef's cancel gave up on the gateway, the sentinel it *)
(* left.                                                                   *)
RequestSpenders ==
  {r \in RequestHolders : \/ req[r].pc \in {"cancel", "release"}
                          \/ req[r].pc = "pay" /\ Kind[r] # "chefcancel"}
Owing == order.refundID = "deferred" /\ ~KeyPaid(FullKey)
Pledged ==
  IF Spenders # {} THEN HeldAmount
  ELSE IF RequestSpenders # {} THEN req[CHOOSE r \in RequestSpenders : TRUE].amt
  ELSE IF Owing THEN order.owed ELSE 0

(* Together the paths keep the promise the coordinator keeps alone: an     *)
(* amount is booked before it is sent, by one holder at a time, and what   *)
(* is given back was never sent.                                           *)
Pledge == INSTANCE RefundPromise WITH
  booked <- order.refundAmt, sent <- TotalPaid, held <- Pledged
PathsKeepPromise == Pledge!Spec

(* A cron cancels only orders whose money moved.                           *)
SweepCancelsRefunded ==
  [][\A c \in Commands : IsCron(c) /\ VoidOrder(c) /\ order'.status # order.status
       => TotalPaid = Capture]_vars
=============================================================================
