-------------------------- MODULE CheckoutPayment --------------------------
(***************************************************************************)
(* Paying for one order from the customer app: checkout, the hold before   *)
(* the gateway opens, the payment sheet, the result screen and the order's *)
(* own page, against the API's payment handlers, the gateway's sessions    *)
(* and webhooks, and the two crons that look after unpaid orders.          *)
(***************************************************************************)
EXTENDS Naturals, FiniteSets

CONSTANTS
  MaxSessions,   \* gateway orders that may exist for the order
  MaxLeft,       \* create-payment requests still being served that the app gave up
  Credits,       \* the credit a customer may choose at checkout: "none", "part", "all"
  MaxDeclines, MaxKills,
  MaxLost,       \* bound on lost calls and answers, lost webhooks and failed writes
  FaultBudget    \* bound on all of these together

ASSUME CheckoutAssumption ==
  /\ Credits \subseteq {"none", "part", "all"}
  /\ {MaxSessions, MaxLeft, MaxDeclines, MaxKills, MaxLost, FaultBudget} \subseteq Nat /\ MaxSessions > 1

Sessions == 1..MaxSessions
Mine == 0    \* the request the app waits for; the others are those it gave up
Calls == 0..MaxLeft

VARIABLES
  screen,     \* "checkout", "hold", "sheet", "result", "detail", "cart"
  settled,    \* the hold's one-way latch
  cancelCall, \* the hold's cancel: "no", "sent", "checked", "done", "refused"
  slot,       \* the hand-off to the hold: a session, or 0
  open,       \* the session the sheet shows
  cart,       \* BOOLEAN: the basket is still full
  create,     \* per request: pc, intent, first, the row it read, and the session it is about
  order,      \* the row: status, reason (cancel_reason), pay, gw, credit
  debited,    \* BOOLEAN: the wallet and points paid the whole order
  session,    \* per gateway order: the credit it was priced with, and its attempt
  hooks,      \* webhooks not delivered yet
  loaded,     \* the row a verify or sweep holds while it asks the gateway
  probed,     \* BOOLEAN: the stale-order cron was told that no payment exists
  overtaken,  \* history: a write decided on an older row hit a paid one
  faults      \* of each kind so far
app == <<screen, settled, slot, open, cart>>
client == <<app, cancelCall>>
row == <<order, debited, overtaken>>
crons == <<loaded, probed>>
vars == <<client, create, row, session, hooks, crons, faults>>

NoRow == [gw |-> 0, credit |-> "none"]
NoRequest == [pc |-> "no", intent |-> "none", first |-> FALSE, read |-> NoRow, answer |-> 0]

CheckoutInit ==
  /\ screen = "checkout" /\ settled = FALSE /\ cancelCall = "no" /\ slot = 0 /\ open = 0
  /\ cart = TRUE /\ create = [k \in Calls |-> NoRequest]
  /\ order = [status |-> "none", reason |-> "no", pay |-> "pending", gw |-> 0, credit |-> "none"]
  /\ session = [s \in Sessions |-> [credit |-> "none", attempt |-> "unborn"]]
  /\ debited = FALSE /\ hooks = {} /\ loaded = NoRow /\ probed = FALSE /\ overtaken = FALSE
  /\ faults = [f \in {"decline", "kill", "cut", "lost"} |-> 0]

Spared == faults["decline"] + faults["kill"] + faults["lost"] < FaultBudget
Within(f, max) == Spared /\ faults[f] < max /\ faults' = [faults EXCEPT ![f] = @ + 1]
Ended == order.status = "cancelled"
Blocked == {"completed", "refunded"}
RowRead == [gw |-> order.gw, credit |-> order.credit]

Minted(s) == s \in Sessions /\ session[s].attempt # "unborn"
Captured(s) == s \in Sessions /\ session[s].attempt = "captured"
Live(s) == s \in Sessions /\ session[s].attempt # "expired"
Payable(s) == s \in Sessions /\ session[s].attempt \in {"none", "pending", "failed"}

---------------------------------------------------------------------------
(* CompleteOrderPaymentTx: once, by the order's id, whatever session the   *)
(* row names by now.                                                       *)
Completed == IF order.pay \in Blocked THEN order ELSE [order EXCEPT !.pay = "completed"]

(* SettleCashfreeOrder, for the row r as it was loaded: the session r      *)
(* names was captured, for no less than r expects.                         *)
Settles(r) == Captured(r.gw) /\ (session[r.gw].credit = r.credit \/ session[r.gw].credit = "none")
CompletesFrom(r) ==
  /\ order' = Completed
  /\ overtaken' = (overtaken \/ (order.pay \notin Blocked /\ r # RowRead))

(* A request ends with an answer, heard only by an app that still waits.   *)
Replies(k, answer, s) ==
  create' = [create EXCEPT ![k] = IF k = Mine
    THEN [NoRequest EXCEPT !.pc = answer, !.first = create[k].first, !.answer = s] ELSE NoRequest]

(* The app stops waiting: a request that is still being served goes on     *)
(* without it.                                                             *)
Answers == {"no", "refused", "paid", "session"}
Leaves ==
  IF create[Mine].pc \in Answers THEN create' = [create EXCEPT ![Mine] = NoRequest]
  ELSE \E k \in Calls \ {Mine} :
         create[k].pc = "no" /\ create' = [create EXCEPT ![k] = create[Mine], ![Mine] = NoRequest]

---------------------------------------------------------------------------
(* handlePlaceOrder: the order, then the request to create its payment.    *)
Place(c) ==
  /\ screen = "checkout" /\ order.status = "none"
  /\ order' = [order EXCEPT !.status = "pending"]
  /\ create' = [create EXCEPT ![Mine] = [NoRequest EXCEPT !.pc = "sent", !.intent = c, !.first = TRUE]]
  /\ UNCHANGED <<client, debited, overtaken, session, hooks, crons, faults>>

(* The handler reads the row; an order already paid is answered with 400.  *)
CreateRead(k) ==
  /\ create[k].pc = "sent"
  /\ IF order.pay = "completed" THEN Replies(k, "refused", 0)
     ELSE create' = [create EXCEPT ![k].pc = "read", ![k].read = RowRead]
  /\ UNCHANGED <<client, row, session, hooks, crons, faults>>

(* Credit covers the whole order, so the gateway is left out: the debit is *)
(* refused ...                                                             *)
CreditRefused(k) ==
  /\ create[k].pc = "read" /\ create[k].intent = "all"
  /\ Replies(k, "refused", 0)
  /\ UNCHANGED <<client, row, session, hooks, crons, faults>>

CreditTaken(k) ==
  /\ create[k].pc = "read" /\ create[k].intent = "all"
  /\ debited' = TRUE /\ create' = [create EXCEPT ![k].pc = "debited", ![k].read = NoRow]
  /\ UNCHANGED <<client, order, overtaken, session, hooks, crons, faults>>

(* ... or taken, and then the row is marked paid; the answer is "paid"     *)
(* even when that write failed.                                            *)
CreditSettles(k) ==
  /\ create[k].pc = "debited" /\ Replies(k, "paid", 0)
  /\ \/ /\ order' = IF order.pay \in Blocked THEN order
                    ELSE [order EXCEPT !.pay = "completed", !.credit = "all"]
        /\ UNCHANGED faults
     \/ UNCHANGED order /\ Within("lost", MaxLost)
  /\ UNCHANGED <<client, debited, overtaken, session, hooks, crons>>

(* The gateway is asked about the session the row named.  It was paid:     *)
(* settle from the gateway.                                                *)
CreateFindsPaid(k) ==
  /\ create[k].pc = "read" /\ create[k].intent # "all" /\ Captured(create[k].read.gw)
  /\ \/ /\ Settles(create[k].read) /\ CompletesFrom(create[k].read)
        /\ Replies(k, "paid", 0) /\ UNCHANGED faults
     \/ /\ IF Settles(create[k].read) THEN Within("lost", MaxLost) ELSE UNCHANGED faults
        /\ Replies(k, "refused", 0) /\ UNCHANGED <<order, overtaken>>
  /\ UNCHANGED <<client, debited, session, hooks, crons>>

(* It is payable for this amount: the same session again.                  *)
CreateReuses(k) ==
  /\ create[k].pc = "read" /\ create[k].intent # "all" /\ Payable(create[k].read.gw)
  /\ session[create[k].read.gw].credit = create[k].intent
  /\ Replies(k, "session", create[k].read.gw)
  /\ UNCHANGED <<client, row, session, hooks, crons, faults>>

(* It is payable for another amount: the next gateway order id.            *)
CreateReprices(k) ==
  /\ create[k].pc = "read" /\ create[k].intent # "all" /\ Payable(create[k].read.gw)
  /\ session[create[k].read.gw].credit # create[k].intent
  /\ create' = [create EXCEPT ![k].pc = "mint", ![k].read = NoRow, ![k].answer = create[k].read.gw + 1]
  /\ UNCHANGED <<client, row, session, hooks, crons, faults>>

(* There is none, it has expired, or the gateway did not answer: the id    *)
(* stays what it was.                                                      *)
CreateKeepsId(k) ==
  LET gw == create[k].read.gw IN
  /\ create[k].pc = "read" /\ create[k].intent # "all"
  /\ IF Live(gw) THEN Within("lost", MaxLost) ELSE UNCHANGED faults
  /\ create' = [create EXCEPT ![k].pc = "mint", ![k].read = NoRow, ![k].answer = IF gw = 0 THEN 1 ELSE gw]
  /\ UNCHANGED <<client, row, session, hooks, crons>>

(* Mutant: the order id and the key are made up anew for every call.       *)
GatewayOrderFresh(id, c) ==
  IF \A s \in Sessions : Minted(s) THEN id ELSE CHOOSE s \in Sessions : ~Minted(s)

(* The gateway's answer to create-order: the one it gave for this order    *)
(* and price before (the key), else the order that has this id, else a new *)
(* one.                                                                    *)
Priced(c) == {s \in Sessions : Minted(s) /\ session[s].credit = c}
GatewayOrder(id, c) == IF Priced(c) = {} THEN id ELSE CHOOSE s \in Priced(c) : TRUE

Mints(s, c) == session' = IF Minted(s) THEN session
                          ELSE [session EXCEPT ![s] = [credit |-> c, attempt |-> "none"]]

(* The call fails, with or without an order made; or it returns an order   *)
(* that can no longer be paid; or one to stamp.                            *)
CreateMints(k) ==
  LET c == create[k].intent
      s == GatewayOrder(create[k].answer, c) IN
  /\ create[k].pc = "mint"
  /\ \/ Mints(s, c) /\ create' = [create EXCEPT ![k].pc = "stamp", ![k].answer = s]
        /\ (Minted(s) => Payable(s) \/ s \in Priced(c)) /\ UNCHANGED faults
     \/ Minted(s) /\ ~Payable(s) /\ Replies(k, "refused", 0) /\ UNCHANGED <<session, faults>>
     \/ (Mints(s, c) \/ UNCHANGED session) /\ Replies(k, "refused", 0) /\ Within("lost", MaxLost)
  /\ UNCHANGED <<client, row, hooks, crons>>

(* The stamp, by the order's id alone: the session, and the credit it was  *)
(* asked for with.                                                         *)
CreateStamps(k) ==
  LET stamp == [gw |-> create[k].answer, credit |-> create[k].intent] IN
  /\ create[k].pc = "stamp"
  /\ \/ /\ order' = [order EXCEPT !.gw = stamp.gw, !.credit = stamp.credit]
        /\ overtaken' = (overtaken \/ (stamp # RowRead /\ (Captured(order.gw) \/ order.pay = "completed")))
        /\ Replies(k, "session", stamp.gw) /\ UNCHANGED faults
     \/ UNCHANGED <<order, overtaken>> /\ Replies(k, "refused", 0) /\ Within("lost", MaxLost)
  /\ UNCHANGED <<client, debited, session, hooks, crons>>

(* startOrderPayment, answered: a paid order empties the basket, a first   *)
(* placement is held, a retry opens the gateway at once.                   *)
Answered ==
  /\ create[Mine].pc \in {"paid", "session"}
  /\ create' = [create EXCEPT ![Mine] = NoRequest]
  /\ IF create[Mine].pc = "paid"
     THEN cart' = FALSE /\ screen' = "result" /\ UNCHANGED <<slot, open, settled>>
     ELSE IF create[Mine].first
     THEN slot' = create[Mine].answer /\ screen' = "hold" /\ settled' = FALSE /\ UNCHANGED <<cart, open>>
     ELSE open' = create[Mine].answer /\ screen' = "sheet" /\ UNCHANGED <<cart, slot, settled>>
  /\ UNCHANGED <<cancelCall, row, session, hooks, crons, faults>>

(* ... refused, or not answered, the request lost or still being served: a *)
(* first placement goes to the result screen, a retry stays where it is.   *)
Unanswered ==
  /\ \/ create[Mine].pc = "refused" /\ Leaves /\ UNCHANGED faults
     \/ create[Mine].pc \notin {"no", "refused"} /\ Within("lost", MaxLost) /\ Leaves
     \/ /\ create[Mine].pc = "sent" /\ Within("lost", MaxLost)
        /\ create' = [create EXCEPT ![Mine] = NoRequest]
  /\ screen' = IF create[Mine].first THEN "result" ELSE screen
  /\ UNCHANGED <<settled, cancelCall, slot, open, cart, row, session, hooks, crons>>

---------------------------------------------------------------------------
(* Mutant: going on to payment does not look at the latch.                 *)
ProceedUnlatched ==
  /\ screen = "hold"
  /\ settled' = TRUE /\ slot' = 0
  /\ IF slot = 0 THEN screen' = "result" /\ UNCHANGED open
     ELSE screen' = "sheet" /\ open' = slot
  /\ UNCHANGED <<cancelCall, cart, create, row, session, hooks, crons, faults>>

(* proceed: the countdown or the tap, whichever comes first.               *)
Proceed ==
  /\ screen = "hold" /\ ~settled
  /\ settled' = TRUE /\ slot' = 0
  /\ IF slot = 0 THEN screen' = "result" /\ UNCHANGED open
     ELSE screen' = "sheet" /\ open' = slot
  /\ UNCHANGED <<cancelCall, cart, create, row, session, hooks, crons, faults>>

(* The hold waits for a cancel while it is latched.  Bound: one cancel at  *)
(* a time is under way.                                                    *)
CancelTap ==
  /\ screen = "hold" /\ ~settled /\ settled' = TRUE /\ cancelCall = "no" /\ cancelCall' = "sent"
  /\ UNCHANGED <<screen, slot, open, cart, create, row, session, hooks, crons, faults>>
Waiting == screen = "hold" /\ settled

(* The API reads the order and checks that it may be cancelled ...         *)
CancelRead ==
  /\ cancelCall = "sent"
  /\ cancelCall' = IF order.status = "pending" THEN "checked" ELSE IF Waiting THEN "refused" ELSE "no"
  /\ UNCHANGED <<app, create, row, session, hooks, crons, faults>>

(* ... and cancels it by its id alone; one that is paid by then is         *)
(* refunded if that goes well.  The gateway's session stays open.          *)
CancelWrites ==
  /\ cancelCall = "checked" /\ cancelCall' = IF Waiting THEN "done" ELSE "no"
  /\ \E pay \in {order.pay} \cup (IF order.pay = "completed" THEN {"refunded"} ELSE {}) :
       order' = [order EXCEPT !.status = "cancelled", !.reason = "customer", !.pay = pay]
  /\ UNCHANGED <<app, create, debited, overtaken, session, hooks, crons, faults>>

Cancelled ==
  /\ cancelCall = "done" /\ Waiting
  /\ slot' = 0 /\ screen' = "cart" /\ cancelCall' = "no"
  /\ UNCHANGED <<settled, open, cart, create, row, session, hooks, crons, faults>>

(* The cancel was refused, or its answer does not come, the request lost   *)
(* or still being served: the latch is undone.                             *)
CancelFailed ==
  /\ Waiting /\ settled' = FALSE
  /\ \/ cancelCall = "refused" /\ cancelCall' = "no" /\ UNCHANGED faults
     \/ cancelCall \in {"sent", "done"} /\ cancelCall' = "no" /\ Within("lost", MaxLost)
     \/ cancelCall \in {"sent", "checked"} /\ UNCHANGED cancelCall /\ Within("lost", MaxLost)
  /\ UNCHANGED <<screen, slot, open, cart, create, row, session, hooks, crons>>

---------------------------------------------------------------------------
(* The customer pays on the sheet; the bank answers whenever it does.      *)
Attempt ==
  /\ screen = "sheet" /\ session[open].attempt \in {"none", "failed"}
  /\ session' = [session EXCEPT ![open].attempt = "pending"]
  /\ UNCHANGED <<client, create, row, hooks, crons, faults>>

Capture(s) ==
  /\ session[s].attempt = "pending"
  /\ session' = [session EXCEPT ![s].attempt = "captured"]
  /\ hooks' = hooks \cup {<<s, "success">>}
  /\ UNCHANGED <<client, create, row, crons, faults>>

(* Declined, or dropped by the customer.                                   *)
Decline(s) ==
  /\ session[s].attempt = "pending" /\ Within("decline", MaxDeclines)
  /\ session' = [session EXCEPT ![s].attempt = "failed"]
  /\ hooks' = hooks \cup {<<s, "failed">>}
  /\ UNCHANGED <<client, create, row, crons>>

Expire(s) ==
  /\ session[s].attempt \in {"none", "failed"}
  /\ session' = [session EXCEPT ![s].attempt = "expired"]
  /\ UNCHANGED <<client, create, row, hooks, crons, faults>>

(* The sheet polls verify; only a settled order moves it on.               *)
SheetPoll ==
  /\ screen = "sheet" /\ order.gw = open /\ Settles(RowRead)
  /\ order' = Completed /\ screen' = "result" /\ open' = 0
  /\ UNCHANGED <<settled, cancelCall, slot, cart, create, debited, overtaken, session, hooks, crons, faults>>

(* The sheet closes, in whatever way: verify, whose failure is ignored,    *)
(* and the result screen.                                                  *)
Finish ==
  /\ screen = "sheet" /\ screen' = "result" /\ open' = 0
  /\ \/ order' = (IF order.gw = open /\ Settles(RowRead) THEN Completed ELSE order) /\ UNCHANGED faults
     \/ UNCHANGED order /\ Within("lost", MaxLost)
  /\ UNCHANGED <<settled, cancelCall, slot, cart, create, debited, overtaken, session, hooks, crons>>

---------------------------------------------------------------------------
(* Mutant: an unsuccessful payment overwrites whatever the row says.       *)
WebhookUnguarded(h) ==
  /\ h \in hooks /\ hooks' = hooks \ {h}
  /\ order' = IF h[1] # order.gw THEN order
              ELSE [order EXCEPT !.pay = IF h[2] = "success" THEN "completed" ELSE "failed"]
  /\ UNCHANGED <<client, create, debited, overtaken, session, crons, faults>>

(* Mutant: any success of the order's settles it, whichever session it was.*)
WebhookAnySession(h) ==
  /\ h \in hooks /\ hooks' = hooks \ {h}
  /\ order' = IF h[2] = "success" THEN Completed
              ELSE IF h[1] = order.gw /\ order.pay = "pending" THEN [order EXCEPT !.pay = "failed"] ELSE order
  /\ UNCHANGED <<client, create, debited, overtaken, session, crons, faults>>

(* The webhooks, in any order: matched by the gateway order the row names, *)
(* and never over a terminal state.                                        *)
Webhook(h) ==
  /\ h \in hooks /\ hooks' = hooks \ {h}
  /\ order' = IF h[1] # order.gw THEN order
              ELSE IF h[2] = "success" THEN Completed
              ELSE IF order.pay = "pending" THEN [order EXCEPT !.pay = "failed"] ELSE order
  /\ UNCHANGED <<client, create, debited, overtaken, session, crons, faults>>

(* Not delivered, or failed: it is acknowledged, so it does not come back. *)
WebhookLost(h) ==
  /\ h \in hooks /\ Within("lost", MaxLost) /\ hooks' = hooks \ {h}
  /\ UNCHANGED <<client, create, row, session, crons>>

Unconfirmed == order.pay = "pending" /\ order.gw # 0 /\ order.status = "pending"

(* Mutant: the cron asks only about orders whose webhook has come in.      *)
ReconcileHooked ==
  /\ Unconfirmed /\ Settles(RowRead) /\ hooks # {} /\ order' = Completed
  /\ UNCHANGED <<client, create, debited, overtaken, session, hooks, crons, faults>>

(* The reconcile cron: orders still pending, with a gateway order, and not *)
(* cancelled.                                                              *)
Reconcile ==
  /\ Unconfirmed /\ Settles(RowRead) /\ order' = Completed
  /\ UNCHANGED <<client, create, debited, overtaken, session, hooks, crons, faults>>

(* A verify or a sweep that is slow to hear from the gateway settles the   *)
(* row it loaded.  Bound: one of them.                                     *)
SettleLoads ==
  /\ loaded = NoRow /\ loaded' = RowRead /\ order.pay \notin Blocked
  /\ Unconfirmed \/ (screen = "sheet" /\ order.gw = open)
  /\ UNCHANGED <<client, create, row, session, hooks, probed, faults>>
SettleWrites ==
  /\ loaded # NoRow /\ loaded' = NoRow
  /\ IF Settles(loaded) THEN CompletesFrom(loaded) ELSE UNCHANGED <<order, overtaken>>
  /\ UNCHANGED <<client, create, debited, session, hooks, probed, faults>>

(* The stale-order cron asks the gateway, and only the answer that no      *)
(* attempt is alive lets it go on to cancel ...                            *)
StaleProbe ==
  /\ ~probed /\ order.status = "pending" /\ order.pay = "pending"
  /\ order.gw \in Sessions => session[order.gw].attempt \notin {"pending", "captured"}
  /\ probed' = TRUE
  /\ UNCHANGED <<client, create, row, session, hooks, loaded, faults>>

(* ... which it does by the order's id alone.                              *)
StaleCancel ==
  /\ probed /\ probed' = FALSE
  /\ order' = [order EXCEPT !.status = "cancelled", !.reason = "unpaid", !.pay = "failed"]
  /\ UNCHANGED <<client, create, debited, overtaken, session, hooks, loaded, faults>>

---------------------------------------------------------------------------
(* The result screen, from the row it polls.                               *)
Failure == order.pay \in {"failed", "refunded"}

(* Mutant: the basket is emptied once the sheet has closed.                *)
ShowSuccessAlways ==
  /\ screen = "result" /\ cart /\ cart' = FALSE
  /\ UNCHANGED <<screen, settled, slot, open, cancelCall, create, row, session, hooks, crons, faults>>

ShowSuccess ==
  /\ screen = "result" /\ order.pay = "completed" /\ cart /\ cart' = FALSE
  /\ UNCHANGED <<screen, settled, slot, open, cancelCall, create, row, session, hooks, crons, faults>>

(* A retry posts the default credit choice: none.                          *)
Again ==
  /\ create[Mine].pc = "no" /\ create' = [create EXCEPT ![Mine] = [NoRequest EXCEPT !.pc = "sent"]]
  /\ UNCHANGED <<client, row, session, hooks, crons, faults>>
Retry == screen = "result" /\ Failure /\ ~Ended /\ Again
PayNow == screen = "detail" /\ order.pay \in {"pending", "failed"} /\ ~Ended /\ Again

ViewOrder ==
  /\ screen = "result" /\ screen' = "detail"
  /\ UNCHANGED <<settled, slot, open, cart, cancelCall, create, row, session, hooks, crons, faults>>

(* A killed app comes back on the order's page.  The API goes on with what *)
(* it was asked for: a payment to create, or ("cut") a cancel.  (With      *)
(* nothing under way on the result screen, this is ViewOrder.)             *)
Kill ==
  /\ order.status # "none" /\ Spared /\ faults["kill"] < MaxKills
  /\ screen \in {"checkout", "hold", "sheet"} \/ create[Mine].pc # "no"
  /\ faults' = [faults EXCEPT !["kill"] = @ + 1, !["cut"] = IF cancelCall = "no" THEN @ ELSE @ + 1]
  /\ screen' = "detail" /\ slot' = 0 /\ open' = 0 /\ settled' = FALSE
  /\ cancelCall' = IF cancelCall \in {"sent", "checked"} THEN cancelCall ELSE "no"
  /\ Leaves
  /\ UNCHANGED <<cart, row, session, hooks, crons>>

Create(k) ==
  \/ CreateRead(k) \/ CreditRefused(k) \/ CreditTaken(k) \/ CreditSettles(k)
  \/ CreateFindsPaid(k) \/ CreateReuses(k) \/ CreateReprices(k) \/ CreateKeepsId(k)
  \/ CreateMints(k) \/ CreateStamps(k)

Next ==
  \/ \E c \in Credits : Place(c)
  \/ \E k \in Calls : Create(k)
  \/ Answered \/ Unanswered
  \/ Proceed \/ CancelTap \/ CancelRead \/ CancelWrites \/ Cancelled \/ CancelFailed
  \/ Attempt \/ SheetPoll \/ Finish
  \/ \E s \in Sessions : Capture(s) \/ Decline(s) \/ Expire(s)
  \/ \E h \in hooks : Webhook(h) \/ WebhookLost(h)
  \/ Reconcile \/ SettleLoads \/ SettleWrites \/ StaleProbe \/ StaleCancel
  \/ ShowSuccess \/ Retry \/ PayNow \/ ViewOrder \/ Kill

Spec == CheckoutInit /\ [][Next]_vars
(* The reconcile cron runs every five minutes for the life of the API.     *)
LiveSpec == Spec /\ WF_vars(Reconcile)

---------------------------------------------------------------------------
(* The row, the sessions and the screens hold what the code can write.     *)
Rows == [gw : 0..MaxSessions, credit : {"none", "part", "all"}]
Requests == [pc : {"no", "sent", "read", "debited", "mint", "stamp", "refused", "paid", "session"},
             intent : Credits \cup {"none"}, first : BOOLEAN, read : Rows, answer : 0..MaxSessions + 1]
TypeOK ==
  /\ screen \in {"checkout", "hold", "sheet", "result", "detail", "cart"}
  /\ {settled, cart, debited, probed, overtaken} \subseteq BOOLEAN
  /\ cancelCall \in {"no", "sent", "checked", "done", "refused"}
  /\ {slot, open} \subseteq 0..MaxSessions /\ (screen = "sheet" => open # 0)
  /\ create \in [Calls -> Requests] /\ loaded \in Rows
  /\ order \in [status : {"none", "pending", "cancelled"}, reason : {"no", "customer", "unpaid"},
                pay : {"pending", "completed", "failed", "refunded"}, gw : 0..MaxSessions, credit : {"none", "part", "all"}]
  /\ session \in [Sessions -> [credit : {"none", "part"},
                 attempt : {"unborn", "none", "pending", "captured", "failed", "expired"}]]
  /\ hooks \subseteq Sessions \X {"success", "failed"}

(* The basket survives until the customer has paid, whatever the screens   *)
(* do: it is emptied for an order that reads paid, that credit has paid    *)
(* for in full, or that was paid and then cancelled as unpaid.             *)
BasketKeptUntilPaid == ~cart => order.pay \in Blocked \/ debited \/ (Ended /\ order.pay = "failed")

(* No order completes without its money: credit paid for it in full, or    *)
(* the session its row names was captured, for what the row expects unless *)
(* a call was cut or lost.  Only a write decided on an older row leaves a  *)
(* completed order naming another session than the one that was captured.  *)
PaidIsCaptured == order.pay = "completed" =>
  \/ debited
  \/ Captured(order.gw) /\ (Settles(RowRead) \/ faults["kill"] + faults["lost"] > 0)
  \/ overtaken /\ \E s \in Sessions : Captured(s)

(* The customer is charged once as long as the retries ask for the credit  *)
(* the order was placed with: no two sessions of one price are captured.   *)
ChargedOnce == \A s, t \in Sessions :
  Captured(s) /\ Captured(t) /\ session[s].credit = session[t].credit => s = t

(* A payment that completed stays completed: no late or reordered webhook, *)
(* reconcile or second request takes it back.  Only a stale-order cancel   *)
(* decided before the payment came in does.                                *)
CompletedIsFinal ==
  [][order.pay = "completed" => order'.pay \in Blocked \/ (probed /\ order'.reason = "unpaid")]_vars

(* No money is taken for an order the customer cancelled on the hold, as   *)
(* long as every call is answered and none is cut off by a kill.           *)
CancelledIsUncharged ==
  order.reason = "customer" /\ faults["lost"] + faults["cut"] = 0 => \A s \in Sessions : ~Captured(s)

(* A payment captured on the order's session ends up on the order,         *)
(* whatever answers, webhooks and app were lost, unless the order was      *)
(* cancelled, an earlier attempt declined, or the row was stamped anew by  *)
(* a request that had looked before the capture.                           *)
CapturedIsConfirmed ==
  Settles(RowRead) ~> (order.pay = "completed" \/ Ended \/ faults["decline"] > 0 \/ overtaken)
=============================================================================
