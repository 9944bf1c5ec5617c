------------------------- MODULE RefundCoordinator -------------------------
(***************************************************************************)
(* The refund coordinator (services/orderrefund) and the callers that      *)
(* cancel an order and then refund it through                              *)
(* RefundOrderForCancellation:                                             *)
(*   customer  OrderHandler.CancelOrder: cancels, then refunds             *)
(*   chef      UpdateStatus to rejected: rejects, then refunds             *)
(*   sweep     the unaccepted-order cron: refunds, then cancels            *)
(*   stale     the stuck-order cron: the same for an accepted order nobody *)
(*             finished                                                    *)
(*   api       a direct call of Coordinator.Refund, possibly for a part    *)
(* A command is one execution of one of them.  Each step below is one      *)
(* database transaction or one gateway call, so commands interleave where  *)
(* the code lets them.                                                     *)
(***************************************************************************)
EXTENDS OrderMoney

CONSTANTS
  Commands,
  Caller,      \* who runs each command
  Scope,       \* the ScopeID it passes
  Ask          \* the amount it asks for; 0 is the nil Amount, a full refund

Callers == {"customer", "chef", "sweep", "stale", "api"}

ASSUME CommandAssumption ==
  /\ Caller \in [Commands -> Callers]
  /\ Scope \in [Commands -> Scopes]
  /\ Ask \in [Commands -> Nat]
  /\ \A c \in Commands : Caller[c] # "api" => Ask[c] = 0 /\ Scope[c] = "full"

VARIABLE cmd

Phases  == {"idle", "cancel", "replay", "reserve", "classify", "gateway", "finalize",
            "release", "markfailed", "stamp", "void", "done", "dead"}
Results == {"none", "ok", "replayed", "nothing", "inflight", "nocapture", "error"}
Command == [pc: Phases, paySeen: PayStates, retry: BOOLEAN, amt: Int, full: BOOLEAN,
            result: Results]

NewCommand == [pc |-> "idle", paySeen |-> "pending", retry |-> FALSE, amt |-> 0,
               full |-> FALSE, result |-> "none"]
CommandInit == cmd = [c \in Commands |-> NewCommand]

Wrapped(c) == Caller[c] # "api"
IntentOf(c) == IF Ask[c] = 0 THEN "full" ELSE "partial"
At(c, phase) == cmd[c].pc = phase
Goto(c, phase) == cmd' = [cmd EXCEPT ![c].pc = phase]

(* RefundOrderForCancellation swallows the three errors that mean the      *)
(* money is someone else's business; any other error ends the attempt.     *)
(* Only the crons act on the return value: nil lets them cancel the order. *)
IsCron(c) == Caller[c] \in {"sweep", "stale"}
AfterNil(c) == IF IsCron(c) THEN "void" ELSE "done"
Answer(c, result) ==
  cmd' = [cmd EXCEPT ![c].result = result,
                     ![c].pc = IF result = "error" THEN "done" ELSE AfterNil(c)]

---------------------------------------------------------------------------
(* Reading the order row.  A cron reads every paid order in its status     *)
(* again on each tick, and its process is restarted after a crash.         *)
SweptStatus(c) == IF Caller[c] = "sweep" THEN "pending" ELSE "accepted"

MayLoad(c) ==
  CASE Caller[c] = "customer" -> At(c, "idle") /\ order.status \in {"pending", "accepted"}
    [] Caller[c] = "chef"     -> At(c, "idle") /\ order.status = "pending"
    [] IsCron(c)              -> cmd[c].pc \in {"idle", "done", "dead"}
                                 /\ order.status = SweptStatus(c) /\ order.pay = "completed"
    [] Caller[c] = "api"      -> At(c, "idle")

Load(c) ==
  /\ MayLoad(c)
  /\ cmd' = [cmd EXCEPT ![c] = [NewCommand EXCEPT
       !.paySeen = order.pay,
       !.pc = IF Caller[c] \in {"customer", "chef"} THEN "cancel" ELSE "replay"]]
  /\ UNCHANGED tables

(* Mutant: a cancel of an order nobody accepted is not refunded.           *)
CancelFirstUnrefunded(c) ==
  /\ At(c, "cancel")
  /\ order' = [order EXCEPT !.status = "cancelled"]
  /\ Goto(c, IF order.status = "accepted" THEN "replay" ELSE "done")
  /\ UNCHANGED <<lines, ledger, paid>>

(* The customer's cancel writes by id alone; the chef's is guarded on the  *)
(* status it read.  Both go on to a refund only if the row they loaded was *)
(* paid.                                                                   *)
CancelFirst(c) ==
  /\ At(c, "cancel")
  /\ IF Caller[c] = "chef" /\ order.status # "pending"
     THEN Goto(c, "done") /\ UNCHANGED order
     ELSE /\ order' = [order EXCEPT
               !.status = IF Caller[c] = "chef" THEN "rejected" ELSE "cancelled"]
          /\ Goto(c, IF cmd[c].paySeen = "completed" THEN "replay" ELSE "done")
  /\ UNCHANGED <<lines, ledger, paid>>

(* The unlocked replay check on the scope's ledger row.                    *)
ReplayCheck(c) ==
  /\ At(c, "replay")
  /\ CASE ledger[Scope[c]].status = "succeeded" ->
            cmd' = [cmd EXCEPT ![c].result = "replayed",
                               ![c].pc = IF Wrapped(c) THEN "stamp" ELSE "done"]
       [] ledger[Scope[c]].status = "pending" -> Answer(c, "error")
       [] OTHER -> cmd' = [cmd EXCEPT ![c].pc = "reserve",
                                      ![c].retry = ledger[Scope[c]].status = "failed"]
  /\ UNCHANGED tables

(* The claim and its ledger row commit together.  An attempt that did not  *)
(* see a row to reuse inserts one, and the unique key rolls it back if a   *)
(* sibling inserted first; an over-ask rolls back too.                     *)
Reserve(c) ==
  LET amount  == ReserveAmount(order, Ask[c], IntentOf(c))
      outcome == ReserveOutcome(order, IntentOf(c))
      overAsk == Ask[c] > amount
      clash   == ~cmd[c].retry /\ ledger[Scope[c]].status # "none"
  IN /\ At(c, "reserve")
     /\ \/ /\ outcome = "won" /\ ~overAsk /\ ~clash
           /\ order' = Reserved(order, amount, IntentOf(c))
           /\ ledger' = [ledger EXCEPT ![Scope[c]] = [status |-> "pending", amount |-> amount]]
           /\ cmd' = [cmd EXCEPT ![c].pc = "gateway", ![c].amt = amount,
                                 ![c].full = amount >= Remaining(order)]
        \/ /\ outcome = "won" /\ overAsk
           /\ Answer(c, "nothing") /\ UNCHANGED <<order, ledger>>
        \/ /\ outcome = "won" /\ ~overAsk /\ clash
           /\ Answer(c, "error") /\ UNCHANGED <<order, ledger>>
        \/ /\ outcome = "already_refunded"
           /\ Goto(c, "classify") /\ UNCHANGED <<order, ledger>>
        \/ /\ outcome \in {"not_payable", "nothing_left", "lost_claim"}
           /\ Answer(c, CASE outcome = "not_payable"  -> "nocapture"
                          [] outcome = "nothing_left" -> "nothing"
                          [] outcome = "lost_claim"   -> "inflight")
           /\ UNCHANGED <<order, ledger>>
     /\ UNCHANGED <<lines, paid>>

(* payment_status = refunded is terminal or a sibling's mutex; a pending   *)
(* ledger row, read after the transaction, tells which.                    *)
Classify(c) ==
  /\ At(c, "classify")
  /\ Answer(c, IF \E s \in Scopes : ledger[s].status = "pending" THEN "inflight" ELSE "nothing")
  /\ UNCHANGED tables

(* Mutant: the gateway's answer is not looked at.                          *)
CallGatewayBlind(c) ==
  /\ At(c, "gateway")
  /\ \E answer \in {"ok", "error"} : GatewayCall(ScopeKey(Scope[c]), cmd[c].amt, answer)
  /\ Goto(c, "finalize")
  /\ UNCHANGED <<order, lines, ledger>>

CallGateway(c) ==
  /\ At(c, "gateway")
  /\ \E answer \in {"ok", "error"} :
       /\ GatewayCall(ScopeKey(Scope[c]), cmd[c].amt, answer)
       /\ Goto(c, IF answer = "ok" THEN "finalize" ELSE "release")
  /\ UNCHANGED <<order, lines, ledger>>

(* Mutant: bookkeeping is undone like a refused refund.                    *)
FinalizeReverting(c) ==
  /\ At(c, "finalize")
  /\ Goto(c, "release")
  /\ UNCHANGED tables

(* Success: the ledger row and the order's terminal marker, together.  A   *)
(* failure of this transaction is reported and nothing is reverted.        *)
Finalize(c) ==
  /\ At(c, "finalize")
  /\ \/ /\ order' = IF cmd[c].full
                    THEN [order EXCEPT !.pay = "refunded", !.refundedAt = TRUE]
                    ELSE [order EXCEPT !.pay = "completed"]
        /\ ledger' = [ledger EXCEPT ![Scope[c]].status = "succeeded"]
        /\ cmd' = [cmd EXCEPT ![c].result = "ok",
                              ![c].pc = IF Wrapped(c) THEN "stamp" ELSE "done"]
     \/ /\ "persist" \in Faults
        /\ Answer(c, "error")
        /\ UNCHANGED <<order, ledger>>
  /\ UNCHANGED <<lines, paid>>

(* Failure: the claim is undone (best effort), then the ledger row says so *)
(* in a transaction of its own.                                            *)
ReleaseClaim(c) ==
  /\ At(c, "release")
  /\ \/ order' = Released(order, cmd[c].amt, IntentOf(c))
     \/ "persist" \in Faults /\ UNCHANGED order
  /\ Goto(c, "markfailed")
  /\ UNCHANGED <<lines, ledger, paid>>

(* Mutant: the failed attempt leaves its ledger row pending.               *)
MarkFailedForgotten(c) ==
  /\ At(c, "markfailed")
  /\ Answer(c, "error")
  /\ UNCHANGED tables

MarkFailed(c) ==
  /\ At(c, "markfailed")
  /\ \/ ledger' = [ledger EXCEPT ![Scope[c]].status = "failed"]
     \/ "persist" \in Faults /\ UNCHANGED ledger
  /\ Answer(c, "error")
  /\ UNCHANGED <<order, lines, paid>>

(* RefundOrderForCancellation records the refund's reference afterwards.   *)
StampRefundID(c) ==
  /\ At(c, "stamp")
  /\ \/ order' = [order EXCEPT !.refundID = "settled"]
     \/ "persist" \in Faults /\ UNCHANGED order
  /\ Goto(c, AfterNil(c))
  /\ UNCHANGED <<lines, ledger, paid>>

(* Mutant: a cron cancels only an order whose payment still stands.        *)
VoidOrderUnrefunded(c) ==
  /\ At(c, "void")
  /\ order' = IF order.status = SweptStatus(c) /\ order.pay = "completed"
              THEN [order EXCEPT !.status = "cancelled"] ELSE order
  /\ Goto(c, "done")
  /\ UNCHANGED <<lines, ledger, paid>>

(* A cron cancels once RefundOrderForCancellation returned nil, unless the *)
(* order left the status it was read in, where "accepted" stands for       *)
(* several, or the transaction fails; the refund stands.                   *)
VoidOrder(c) ==
  /\ At(c, "void")
  /\ \/ /\ order.status = SweptStatus(c)
        /\ order' = [order EXCEPT !.status = "cancelled"]
     \/ /\ \/ order.status # SweptStatus(c) \/ Caller[c] = "stale"
           \/ "persist" \in Faults
        /\ UNCHANGED order
  /\ Goto(c, "done")
  /\ UNCHANGED <<lines, ledger, paid>>

CommandCrash(c) ==
  /\ "crash" \in Faults
  /\ cmd[c].pc \notin {"idle", "done", "dead"}
  /\ Goto(c, "dead")
  /\ UNCHANGED tables

---------------------------------------------------------------------------
CommandStep(c) ==
  \/ CancelFirst(c)
  \/ ReplayCheck(c)
  \/ Reserve(c)
  \/ Classify(c)
  \/ CallGateway(c)
  \/ Finalize(c)
  \/ ReleaseClaim(c)
  \/ MarkFailed(c)
  \/ StampRefundID(c)
  \/ VoidOrder(c)

(* Commands that hold the order's refund claim, alive.                     *)
ClaimPhases == {"gateway", "finalize", "release"}
CommandHolders == {c \in Commands : cmd[c].pc \in ClaimPhases}
CommandsIdle == \A c \in Commands : cmd[c].pc \in {"idle", "done", "dead"}

CoordinatorInit == MoneyInit /\ CommandInit

CoordinatorNext ==
  \/ \E c \in Commands : Load(c) \/ CommandStep(c) \/ CommandCrash(c)
  \/ (AcceptOrder \/ DeliverOrder) /\ UNCHANGED cmd

(* A process that is running keeps running, and a cron ticks for ever;     *)
(* nobody has to send a request.                                           *)
CommandFairness ==
  \A c \in Commands : /\ WF_<<tables, cmd>>(CommandStep(c))
                      /\ WF_<<tables, cmd>>(IsCron(c) /\ Load(c))

CoordinatorSpec ==
  /\ CoordinatorInit
  /\ [][CoordinatorNext]_<<tables, cmd>>
  /\ CommandFairness
---------------------------------------------------------------------------
CommandTypeOK ==
  /\ order \in OrderRow
  /\ ledger \in [Scopes -> [status: LedgerStates, amount: Int]]
  /\ DOMAIN paid = {"keys", "gateway", "wallet"}
  /\ paid.gateway \in Int /\ paid.wallet \in Int
  /\ cmd \in [Commands -> Command]

(* Of all the commands on an order at most one at a time is between its    *)
(* claim and its end, and while it is the row tells the others so: the     *)
(* payment_status flip of refundreserve is a mutex.                        *)
SoleClaimHolder ==
  /\ \A c, d \in CommandHolders : c = d
  /\ CommandHolders # {} => order.pay = "refunded"

(* No refund_transactions row stays pending: its own attempt ends it, or   *)
(* the sweep reconciles it that the replay check expects.                  *)
PendingRowsEnd ==
  \A s \in Scopes : (ledger[s].status = "pending") ~> (ledger[s].status # "pending")

(* A claim that is taken ends: the row does not stay mid-refund, nor its   *)
(* ledger row pending.                                                     *)
ClaimsEnd ==
  /\ (order.pay = "refunded") ~> (order.pay = "completed" \/ order.refundedAt)
  /\ PendingRowsEnd

(* An order no chef answers does not stay open and paid for: the sweep     *)
(* ends it, unless the gateway turned its refund down.                     *)
PaidOrderIsAnswered ==
  (order.status = "pending") ~>
    (order.status # "pending" \/ \E c \in Commands : cmd[c].result = "error")

(* An order that somebody cancelled is, once nothing is in flight, paid    *)
(* back in full.                                                           *)
EndedIsRefunded ==
  CommandsIdle /\ order.status \in {"cancelled", "rejected"} => TotalPaid = Capture

(* The amount the holder of the claim may still send or give back, and     *)
(* what the coordinator promises about it.                                 *)
Spenders == {c \in Commands : cmd[c].pc \in {"gateway", "release"}}
HeldAmount == IF Spenders = {} THEN 0 ELSE cmd[CHOOSE c \in Spenders : TRUE].amt

Promise == INSTANCE RefundPromise WITH
  booked <- order.refundAmt, sent <- TotalPaid, held <- HeldAmount
PromiseKept == Promise!Spec
=============================================================================
