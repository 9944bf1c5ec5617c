---------------------- MODULE CheckoutPayment_proofs ----------------------
(***************************************************************************)
(* What paying for one order guarantees, for any number of gateway         *)
(* sessions, of requests the app gave up, of declines, kills of the app    *)
(* and lost answers.  Then what the basket it is paid for holds and what   *)
(* empties it: the web's, and the customer app's.                          *)
(***************************************************************************)
EXTENDS CheckoutPayment, Sequences, TLAPS

OrderRows == [status : {"none", "pending", "cancelled"}, reason : {"no", "customer", "unpaid"},
              pay : {"pending", "completed", "failed", "refunded"}, gw : 0..MaxSessions,
              credit : {"none", "part", "all"}]
GatewayOrders == [credit : {"none", "part"},
                  attempt : {"unborn", "none", "pending", "captured", "failed", "expired"}]

(* The records, named, for the steps that update their fields.             *)
LEMMA TypeFacts ==
  TypeOK => /\ create \in [Calls -> Requests] /\ order \in OrderRows
            /\ session \in [Sessions -> GatewayOrders]
            /\ hooks \subseteq Sessions \X {"success", "failed"}
            /\ loaded \in Rows /\ NoRow \in Rows /\ RowRead \in Rows /\ NoRequest \in Requests
            /\ MaxSessions \in Nat /\ MaxSessions > 1 /\ MaxLeft \in Nat /\ 0 \in Calls
            /\ Credits \subseteq {"none", "part", "all"}
BY CheckoutAssumption
DEF CheckoutAssumption, TypeOK, OrderRows, GatewayOrders, Rows, Requests, NoRow, NoRequest, RowRead, Calls

(* What an answer does to the requests ...                                 *)
LEMMA Replied ==
  ASSUME TypeOK, NEW k \in Calls, NEW a \in {"refused", "paid", "session"}, NEW s \in 0..MaxSessions,
         Replies(k, a, s)
  PROVE  /\ create' \in [Calls -> Requests]
         /\ \A j \in Calls : j # k => create'[j] = create[j]
         /\ k # Mine => create'[k] = NoRequest
         /\ k = Mine => create'[k].pc = a /\ create'[k].answer = s /\ create'[k].first = create[k].first
                        /\ create'[k].intent = "none"
<1>1. create[k].first \in BOOLEAN /\ s \in 0..MaxSessions + 1
  BY TypeFacts DEF Requests
<1>2. [NoRequest EXCEPT !.pc = a, !.first = create[k].first, !.answer = s] \in Requests
  BY <1>1, TypeFacts DEF NoRequest, Requests
<1> QED
  BY <1>1, <1>2, TypeFacts DEF Replies, NoRequest

(* ... and what giving up does.                                            *)
LEMMA Left ==
  ASSUME TypeOK, Leaves
  PROVE  /\ create' \in [Calls -> Requests] /\ create'[Mine] = NoRequest
         /\ \A j \in Calls \ {Mine} :
              \/ create'[j] = create[j]
              \/ create[j].pc = "no" /\ create'[j] = create[Mine] /\ create[Mine].pc \notin Answers
<1>1. create \in [Calls -> Requests] /\ NoRequest \in Requests /\ Mine \in Calls
  BY TypeFacts DEF Mine
<1>2. CASE create[Mine].pc \in Answers
  BY <1>1, <1>2 DEF Leaves
<1>3. CASE create[Mine].pc \notin Answers
  <2>1. PICK k \in Calls \ {Mine} : create[k].pc = "no" /\ create' = [create EXCEPT ![k] = create[Mine], ![Mine] = NoRequest]
    BY <1>3 DEF Leaves
  <2> QED
    BY <1>1, <1>3, <2>1
<1> QED
  BY <1>2, <1>3

(* Which actions write the row, the sessions and the requests.             *)
LEMMA RowWriters ==
  ASSUME [Next]_vars
  PROVE  \/ UNCHANGED order
         \/ \E c \in Credits : Place(c)
         \/ \E k \in Calls : CreditSettles(k) \/ CreateFindsPaid(k) \/ CreateStamps(k)
         \/ CancelWrites \/ SheetPoll \/ Finish \/ (\E h \in hooks : Webhook(h))
         \/ Reconcile \/ SettleWrites \/ StaleCancel
BY DEF Next, vars, row, Create, CreateRead, CreditRefused, CreditTaken, CreateReuses, CreateReprices,
  CreateKeepsId, CreateMints, Answered, Unanswered, Proceed, CancelTap, CancelRead, Cancelled, CancelFailed,
  Attempt, Capture, Decline, Expire, WebhookLost, SettleLoads, StaleProbe, ShowSuccess, Retry, PayNow, Again,
  ViewOrder, Kill

LEMMA SessionWriters ==
  ASSUME [Next]_vars
  PROVE  \/ UNCHANGED session
         \/ \E k \in Calls : CreateMints(k)
         \/ Attempt
         \/ \E s \in Sessions : Capture(s) \/ Decline(s) \/ Expire(s)
BY DEF Next, vars, Create, Place, CreateRead, CreditRefused, CreditTaken, CreditSettles, CreateFindsPaid,
  CreateReuses, CreateReprices, CreateKeepsId, CreateStamps, Answered, Unanswered, Proceed, CancelTap,
  CancelRead, CancelWrites, Cancelled, CancelFailed, SheetPoll, Finish, Webhook, WebhookLost, Reconcile,
  SettleLoads, SettleWrites, StaleProbe, StaleCancel, ShowSuccess, Retry, PayNow, Again, ViewOrder, Kill

LEMMA RequestWriters ==
  ASSUME [Next]_vars
  PROVE  \/ UNCHANGED create
         \/ \E c \in Credits : Place(c)
         \/ \E k \in Calls : Create(k)
         \/ Answered \/ Unanswered \/ Retry \/ PayNow \/ Kill
BY DEF Next, vars, client, app, Proceed, CancelTap, CancelRead, CancelWrites, Cancelled, CancelFailed,
  Attempt, SheetPoll, Finish, Capture, Decline, Expire, Webhook, WebhookLost, Reconcile, SettleLoads,
  SettleWrites, StaleProbe, StaleCancel, ShowSuccess, ViewOrder

LEMMA ScreenWriters ==
  ASSUME [Next]_vars
  PROVE  \/ UNCHANGED screen
         \/ Answered \/ Unanswered \/ Proceed \/ Cancelled \/ SheetPoll \/ Finish \/ ViewOrder \/ Kill
BY DEF Next, vars, client, app, Create, Place, CreateRead, CreditRefused, CreditTaken, CreditSettles,
  CreateFindsPaid, CreateReuses, CreateReprices, CreateKeepsId, CreateMints, CreateStamps, CancelTap, CancelRead,
  CancelWrites, CancelFailed, Attempt, Capture, Decline, Expire, Webhook, WebhookLost, Reconcile, SettleLoads,
  SettleWrites, StaleProbe, StaleCancel, ShowSuccess, Retry, PayNow, Again

(* What a step writes into the requests, the row and the sessions is well  *)
(* formed.                                                                 *)
LEMMA CreateType ==
  ASSUME TypeOK, \A k \in Calls : create[k].pc = "stamp" => create[k].answer \in 0..MaxSessions, [Next]_vars
  PROVE  create' \in [Calls -> Requests]
<1>1. ASSUME NEW c \in Credits, Place(c) PROVE create' \in [Calls -> Requests]
  BY <1>1, TypeFacts DEF Place, NoRequest, Requests, Mine
<1>2. ASSUME NEW k \in Calls, Create(k) PROVE create' \in [Calls -> Requests]
  <2>0. create[k] \in Requests /\ create[k].read \in Rows /\ 0 \in 0..MaxSessions
    BY TypeFacts DEF Requests
  <2>1. CASE CreateRead(k)
    BY <2>1, <2>0, TypeFacts, Replied DEF CreateRead, Requests
  <2>2. CASE CreditRefused(k) \/ CreditSettles(k) \/ CreateFindsPaid(k)
    BY <2>2, <2>0, Replied DEF CreditRefused, CreditSettles, CreateFindsPaid
  <2>3. CASE CreditTaken(k)
    BY <2>3, <2>0, TypeFacts DEF CreditTaken, Requests
  <2>4. CASE CreateReuses(k)
    BY <2>4, <2>0, Replied DEF CreateReuses, Rows
  <2>5. CASE CreateReprices(k) \/ CreateKeepsId(k)
    <3>1. create[k].read.gw \in 0..MaxSessions /\ create[k].read.gw + 1 \in 0..MaxSessions + 1
          /\ (IF create[k].read.gw = 0 THEN 1 ELSE create[k].read.gw) \in 0..MaxSessions + 1
      BY <2>0, TypeFacts DEF Rows
    <3> QED
      BY <2>5, <2>0, <3>1, TypeFacts DEF CreateReprices, CreateKeepsId, Requests
  <2>6. CASE CreateMints(k)
    <3> DEFINE s == GatewayOrder(create[k].answer, create[k].intent)
    <3>1. s \in 0..MaxSessions + 1
      BY <2>0, TypeFacts DEF GatewayOrder, Priced, Requests, Sessions
    <3>2. create' = [create EXCEPT ![k].pc = "stamp", ![k].answer = s] \/ Replies(k, "refused", 0)
      BY <2>6 DEF CreateMints
    <3> HIDE DEF s
    <3>3. CASE create' = [create EXCEPT ![k].pc = "stamp", ![k].answer = s]
      BY <2>0, <3>1, <3>3, TypeFacts DEF Requests
    <3> QED
      BY <2>0, <3>2, <3>3, Replied
  <2>7. CASE CreateStamps(k)
    BY <2>7, <2>0, Replied DEF CreateStamps
  <2> QED
    BY <1>2, <2>1, <2>2, <2>3, <2>4, <2>5, <2>6, <2>7 DEF Create
<1>3. CASE Answered
  BY <1>3, TypeFacts DEF Answered
<1>4. CASE Unanswered \/ Kill
  BY <1>4, TypeFacts, Left DEF Unanswered, Kill
<1>5. CASE Retry \/ PayNow
  <2>1. [NoRequest EXCEPT !.pc = "sent"] \in Requests
    BY TypeFacts DEF NoRequest, Requests
  <2> QED
    BY <1>5, <2>1, TypeFacts DEF Retry, PayNow, Again
<1>6. CASE UNCHANGED create
  BY <1>6, TypeFacts
<1> QED
  BY <1>1, <1>2, <1>3, <1>4, <1>5, <1>6, RequestWriters

LEMMA OrderType ==
  ASSUME TypeOK, \A k \in Calls : create[k].pc = "stamp" => create[k].answer \in 0..MaxSessions, [Next]_vars
  PROVE  order' \in OrderRows
<1>0. order \in OrderRows /\ Completed \in OrderRows
  BY TypeFacts DEF Completed, OrderRows
<1>1. ASSUME NEW c \in Credits, Place(c) PROVE order' \in OrderRows
  BY <1>1, <1>0 DEF Place, OrderRows
<1>2. ASSUME NEW k \in Calls, CreditSettles(k) PROVE order' \in OrderRows
  BY <1>2, <1>0 DEF CreditSettles, OrderRows
<1>3. ASSUME NEW k \in Calls, CreateStamps(k) PROVE order' \in OrderRows
  <2>1. create[k].answer \in 0..MaxSessions /\ create[k].intent \in {"none", "part", "all"}
    BY <1>3, TypeFacts DEF CreateStamps, Requests
  <2> QED
    BY <1>3, <1>0, <2>1 DEF CreateStamps, OrderRows
<1>4. CASE CancelWrites
  <2>1. PICK pay \in {order.pay} \cup (IF order.pay = "completed" THEN {"refunded"} ELSE {}) :
          order' = [order EXCEPT !.status = "cancelled", !.reason = "customer", !.pay = pay]
    BY <1>4 DEF CancelWrites
  <2>2. pay \in {"pending", "completed", "failed", "refunded"}
    BY <1>0 DEF OrderRows
  <2> QED
    BY <2>1, <2>2, <1>0 DEF OrderRows
<1>5. CASE order' \in {order, Completed}
  BY <1>5, <1>0
<1>6. ASSUME NEW h \in hooks, Webhook(h) PROVE order' \in OrderRows
  BY <1>6, <1>0 DEF Webhook, OrderRows
<1>7. CASE StaleCancel
  BY <1>7, <1>0 DEF StaleCancel, OrderRows
<1> QED
  BY <1>1, <1>2, <1>3, <1>4, <1>5, <1>6, <1>7, RowWriters
  DEF CreateFindsPaid, CompletesFrom, SheetPoll, Finish, Reconcile, SettleWrites

LEMMA FlagsType ==
  ASSUME TypeOK, [Next]_vars
  PROVE  debited' \in BOOLEAN /\ overtaken' \in BOOLEAN
<1>a. debited \in BOOLEAN /\ overtaken \in BOOLEAN
  BY DEF TypeOK
<1>1. CASE \E k \in Calls : CreditTaken(k)
  BY <1>1, <1>a DEF CreditTaken
<1>2. CASE \E k \in Calls : CreateFindsPaid(k) \/ CreateStamps(k)
  BY <1>2, <1>a DEF CreateFindsPaid, CreateStamps, CompletesFrom
<1>3. CASE SettleWrites
  BY <1>3, <1>a DEF SettleWrites, CompletesFrom
<1>4. CASE UNCHANGED <<debited, overtaken>>
  BY <1>4, <1>a
<1> QED
  BY <1>1, <1>2, <1>3, <1>4
  DEF Next, vars, row, Create, Place, CreateRead, CreditRefused, CreditSettles, CreateReuses, CreateReprices,
    CreateKeepsId, CreateMints, Answered, Unanswered, Proceed, CancelTap, CancelRead, CancelWrites, Cancelled,
    CancelFailed, Attempt, SheetPoll, Finish, Capture, Decline, Expire, Webhook, WebhookLost, Reconcile,
    SettleLoads, StaleProbe, StaleCancel, ShowSuccess, Retry, PayNow, Again, ViewOrder, Kill

LEMMA SessionType ==
  ASSUME TypeOK, \A k \in Calls : create[k].pc = "mint" => create[k].intent # "all", [Next]_vars
  PROVE  session' \in [Sessions -> GatewayOrders]
<1>0. session \in [Sessions -> GatewayOrders]
  BY TypeFacts
<1>1. ASSUME NEW k \in Calls, CreateMints(k) PROVE session' \in [Sessions -> GatewayOrders]
  <2>1. create[k].intent \in {"none", "part"}
    BY <1>1, TypeFacts DEF CreateMints, Requests
  <2>2. [credit |-> create[k].intent, attempt |-> "none"] \in GatewayOrders
    BY <2>1 DEF GatewayOrders
  <2> QED
    BY <1>1, <1>0, <2>2 DEF CreateMints, Mints
<1>2. CASE Attempt
  BY <1>2, <1>0 DEF Attempt, GatewayOrders
<1>3. ASSUME NEW s \in Sessions, Capture(s) \/ Decline(s) \/ Expire(s) PROVE session' \in [Sessions -> GatewayOrders]
  BY <1>3, <1>0 DEF Capture, Decline, Expire, GatewayOrders
<1> QED
  BY <1>0, <1>1, <1>2, <1>3, SessionWriters

(* What a step does to screens, webhooks and crons stays within the type.  *)
LEMMA ScreenType ==
  ASSUME TypeOK, create[Mine].pc = "session" => Minted(create[Mine].answer), [Next]_vars
  PROVE  /\ screen' \in {"checkout", "hold", "sheet", "result", "detail", "cart"}
         /\ settled' \in BOOLEAN /\ cart' \in BOOLEAN
         /\ {slot', open'} \subseteq 0..MaxSessions /\ (screen' = "sheet" => open' # 0)
<1>0. /\ screen \in {"checkout", "hold", "sheet", "result", "detail", "cart"}
      /\ settled \in BOOLEAN /\ cart \in BOOLEAN
      /\ {0, slot, open} \subseteq 0..MaxSessions /\ (screen = "sheet" => open # 0)
  BY CheckoutAssumption DEF CheckoutAssumption, TypeOK
<1>1. create[Mine].pc = "session" => create[Mine].answer \in 0..MaxSessions /\ create[Mine].answer # 0
  BY CheckoutAssumption DEF CheckoutAssumption, Minted, Sessions
<1>2. CASE Answered
  BY <1>0, <1>1, <1>2 DEF Answered
<1>3. CASE Proceed
  BY <1>0, <1>3 DEF Proceed
<1>4. CASE Finish \/ SheetPoll
  BY <1>0, <1>4 DEF Finish, SheetPoll
<1>5. CASE Kill
  BY <1>0, <1>5 DEF Kill
<1>6. CASE CancelTap \/ Cancelled \/ CancelFailed
  BY <1>0, <1>6 DEF CancelTap, Cancelled, CancelFailed
<1>7. CASE Unanswered \/ ShowSuccess \/ ViewOrder
  BY <1>0, <1>7 DEF Unanswered, ShowSuccess, ViewOrder
<1>8. CASE UNCHANGED app
  BY <1>0, <1>8 DEF app
<1> QED
  BY <1>2, <1>3, <1>4, <1>5, <1>6, <1>7, <1>8
  DEF Next, vars, client, Create, Place, CreateRead, CreditRefused, CreditTaken, CreditSettles, CreateFindsPaid,
    CreateReuses, CreateReprices, CreateKeepsId, CreateMints, CreateStamps, CancelRead, CancelWrites, Attempt,
    Capture, Decline, Expire, Webhook, WebhookLost, Reconcile, SettleLoads, SettleWrites, StaleProbe,
    StaleCancel, Retry, PayNow, Again

LEMMA CancelCallType ==
  ASSUME TypeOK, [Next]_vars
  PROVE  cancelCall' \in {"no", "sent", "checked", "done", "refused"}
<1>0. cancelCall \in {"no", "sent", "checked", "done", "refused"}
  BY DEF TypeOK
<1>1. CASE CancelTap \/ CancelRead \/ CancelWrites \/ Cancelled \/ CancelFailed \/ Kill
  BY <1>0, <1>1 DEF CancelTap, CancelRead, CancelWrites, Cancelled, CancelFailed, Kill
<1>2. CASE UNCHANGED cancelCall
  BY <1>0, <1>2
<1> QED
  BY <1>1, <1>2
  DEF Next, vars, client, Create, Place, CreateRead, CreditRefused, CreditTaken, CreditSettles, CreateFindsPaid,
    CreateReuses, CreateReprices, CreateKeepsId, CreateMints, CreateStamps, Answered, Unanswered, Proceed,
    Attempt, SheetPoll, Finish, Capture, Decline, Expire, Webhook, WebhookLost, Reconcile, SettleLoads,
    SettleWrites, StaleProbe, StaleCancel, ShowSuccess, Retry, PayNow, Again, ViewOrder

LEMMA CronsType ==
  ASSUME TypeOK, [Next]_vars
  PROVE  /\ hooks' \subseteq Sessions \X {"success", "failed"}
         /\ loaded' \in Rows /\ probed' \in BOOLEAN
<1>0. /\ hooks \subseteq Sessions \X {"success", "failed"} /\ loaded \in Rows /\ probed \in BOOLEAN
      /\ NoRow \in Rows /\ RowRead \in Rows
  BY TypeFacts DEF TypeOK
<1>1. CASE \E s \in Sessions : Capture(s) \/ Decline(s)
  BY <1>1, <1>0 DEF Capture, Decline, crons
<1>2. CASE \E h \in hooks : Webhook(h) \/ WebhookLost(h)
  BY <1>2, <1>0 DEF Webhook, WebhookLost, crons
<1>3. CASE SettleLoads \/ SettleWrites
  BY <1>3, <1>0 DEF SettleLoads, SettleWrites
<1>4. CASE StaleProbe \/ StaleCancel
  BY <1>4, <1>0 DEF StaleProbe, StaleCancel
<1>5. CASE UNCHANGED <<hooks, crons>>
  BY <1>5, <1>0 DEF crons
<1> QED
  BY <1>1, <1>2, <1>3, <1>4, <1>5
  DEF Next, vars, Create, Place, CreateRead, CreditRefused, CreditTaken, CreditSettles, CreateFindsPaid,
    CreateReuses, CreateReprices, CreateKeepsId, CreateMints, CreateStamps, Answered, Unanswered, Proceed,
    CancelTap, CancelRead, CancelWrites, Cancelled, CancelFailed, Attempt, SheetPoll, Finish, Expire, Reconcile,
    ShowSuccess, Retry, PayNow, Again, ViewOrder, Kill

(* At most two gateway orders are made, one per price, and the second only *)
(* after the first.                                                        *)
Prices ==
  /\ \A s \in Sessions : Minted(s) => s \in 1..2
  /\ \A s, t \in Sessions : Minted(s) /\ Minted(t) /\ session[s].credit = session[t].credit => s = t
  /\ Minted(2) => Minted(1)

(* The rows, loaded or in place, name orders the gateway knows; a webhook  *)
(* of success speaks of a capture; a row all credit was debited for.       *)
RowNames ==
  /\ order.gw # 0 => Minted(order.gw)
  /\ loaded.gw # 0 => Minted(loaded.gw)
  /\ \A h \in hooks : h[2] = "success" => Captured(h[1])
  /\ order.credit = "all" => debited

(* What each request has done so far.                                      *)
PaidFor == order.pay \in Blocked \/ debited \/ (Ended /\ order.pay = "failed")
Request(k) ==
  /\ create[k].read.gw # 0 => Minted(create[k].read.gw)
  /\ create[k].pc = "debited" => debited
  /\ create[k].pc = "mint" => /\ create[k].intent # "all" /\ create[k].answer \in 1..3
                              /\ create[k].answer > 1 => Minted(create[k].answer - 1)
  /\ create[k].pc = "stamp" => create[k].intent # "all"
  /\ create[k].pc \in {"stamp", "session"} => Minted(create[k].answer)
  /\ create[k].pc = "paid" => PaidFor
Requested == \A k \in Calls : Request(k)

(* What is paid for stays paid for.                                        *)
LEMMA DebitedStays ==
  ASSUME debited, [Next]_vars
  PROVE  debited'
BY DEF Next, vars, row, Create, Place, CreateRead, CreditRefused, CreditTaken, CreditSettles, CreateFindsPaid,
  CreateReuses, CreateReprices, CreateKeepsId, CreateMints, CreateStamps, Answered, Unanswered, Proceed,
  CancelTap, CancelRead, CancelWrites, Cancelled, CancelFailed, Attempt, SheetPoll, Finish, Capture, Decline,
  Expire, Webhook, WebhookLost, Reconcile, SettleLoads, SettleWrites, StaleProbe, StaleCancel, ShowSuccess,
  Retry, PayNow, Again, ViewOrder, Kill, CompletesFrom

LEMMA OvertakenStays ==
  ASSUME overtaken, [Next]_vars
  PROVE  overtaken'
BY DEF Next, vars, row, Create, Place, CreateRead, CreditRefused, CreditTaken, CreditSettles, CreateFindsPaid,
  CreateReuses, CreateReprices, CreateKeepsId, CreateMints, CreateStamps, Answered, Unanswered, Proceed,
  CancelTap, CancelRead, CancelWrites, Cancelled, CancelFailed, Attempt, SheetPoll, Finish, Capture, Decline,
  Expire, Webhook, WebhookLost, Reconcile, SettleLoads, SettleWrites, StaleProbe, StaleCancel, ShowSuccess,
  Retry, PayNow, Again, ViewOrder, Kill, CompletesFrom

LEMMA PaidForStays ==
  ASSUME TypeOK, PaidFor, [Next]_vars
  PROVE  PaidFor'
<1>0. order \in OrderRows
  BY TypeFacts
<1>1. CASE debited
  BY <1>1, DebitedStays DEF PaidFor
<1>2. ASSUME NEW c \in Credits, Place(c) PROVE PaidFor'
  BY <1>0, <1>2, DebitedStays DEF PaidFor, Place, Ended, OrderRows
<1>3. CASE order' \in {order, Completed}
  BY <1>0, <1>3, DebitedStays DEF PaidFor, Completed, Ended, Blocked, OrderRows
<1>4. ASSUME NEW k \in Calls, CreditSettles(k) PROVE PaidFor'
  BY <1>0, <1>4, DebitedStays DEF PaidFor, CreditSettles, Ended, Blocked, OrderRows
<1>5. ASSUME NEW k \in Calls, CreateStamps(k) PROVE PaidFor'
  BY <1>0, <1>5, DebitedStays DEF PaidFor, CreateStamps, Ended, Blocked, OrderRows
<1>6. CASE CancelWrites
  <2>1. PICK pay \in {order.pay} \cup (IF order.pay = "completed" THEN {"refunded"} ELSE {}) :
          order' = [order EXCEPT !.status = "cancelled", !.reason = "customer", !.pay = pay]
    BY <1>6 DEF CancelWrites
  <2>2. order'.pay = pay /\ order'.status = "cancelled"
    BY <2>1, <1>0 DEF OrderRows
  <2> QED
    BY <2>1, <2>2, DebitedStays DEF PaidFor, Ended, Blocked
<1>7. ASSUME NEW h \in hooks, Webhook(h) PROVE PaidFor'
  BY <1>0, <1>7, DebitedStays DEF PaidFor, Webhook, Completed, Ended, Blocked, OrderRows
<1>8. CASE StaleCancel
  BY <1>0, <1>8 DEF PaidFor, StaleCancel, Ended, OrderRows
<1> QED
  BY <1>1, <1>2, <1>3, <1>4, <1>5, <1>6, <1>7, <1>8, RowWriters
  DEF CreateFindsPaid, CompletesFrom, SheetPoll, Finish, Reconcile, SettleWrites

(* An attempt changes nothing else of a session.                           *)
LEMMA Attempted ==
  ASSUME TypeOK, Attempt \/ (\E s \in Sessions : Capture(s) \/ Decline(s) \/ Expire(s)), NEW t \in Sessions
  PROVE  /\ session'[t].credit = session[t].credit /\ (Minted(t)' <=> Minted(t))
         /\ (Captured(t) => Captured(t)') /\ (session[t].attempt = "expired" => session'[t].attempt = "expired")
<1>0. session \in [Sessions -> GatewayOrders]
  BY TypeFacts
<1>1. CASE Attempt
  BY <1>0, <1>1 DEF Attempt, Minted, Captured, GatewayOrders
<1>2. ASSUME NEW s \in Sessions, Capture(s) \/ Decline(s) \/ Expire(s)
      PROVE  /\ session'[t].credit = session[t].credit /\ (Minted(t)' <=> Minted(t))
             /\ (Captured(t) => Captured(t)') /\ (session[t].attempt = "expired" => session'[t].attempt = "expired")
  BY <1>0, <1>2 DEF Capture, Decline, Expire, Minted, Captured, GatewayOrders
<1> QED
  BY <1>1, <1>2

(* The order the gateway answers with is one of the first two; a new one   *)
(* has the id it was asked for and a price no other has.                   *)
LEMMA GatewayAnswers ==
  ASSUME TypeOK, Prices, NEW k \in Calls, Request(k), create[k].pc = "mint",
         NEW s, s = GatewayOrder(create[k].answer, create[k].intent)
  PROVE  /\ s \in Sessions /\ s \in 1..2
         /\ ~Minted(s) => s = create[k].answer /\ Priced(create[k].intent) = {}
         /\ create[k].intent \in {"none", "part"}
         /\ Priced(create[k].intent) # {} => s \in Priced(create[k].intent)
<1>0. create[k].intent \in {"none", "part"} /\ 1 \in Sessions /\ 2 \in Sessions
      /\ session \in [Sessions -> GatewayOrders]
  BY TypeFacts DEF Request, Requests, Sessions
<1>1. CASE Priced(create[k].intent) = {}
  <2>1. s = create[k].answer /\ s \in 1..3 /\ (s > 1 => Minted(s - 1))
    BY <1>1 DEF GatewayOrder, Request
  <2>2. s # 3
    <3>1. SUFFICES ASSUME s = 3 PROVE FALSE
      OBVIOUS
    <3>2. Minted(1) /\ Minted(2)
      BY <2>1, <3>1 DEF Prices
    <3>3. session[1].credit # session[2].credit
      BY <1>0, <3>2 DEF Prices
    <3>4. session[1].credit = create[k].intent \/ session[2].credit = create[k].intent
      BY <1>0, <3>3 DEF GatewayOrders
    <3> QED
      BY <1>0, <1>1, <3>2, <3>4 DEF Priced
  <2> QED
    BY <1>0, <1>1, <2>1, <2>2
<1>2. CASE Priced(create[k].intent) # {}
  <2>1. s \in Priced(create[k].intent)
    BY <1>2 DEF GatewayOrder
  <2> QED
    BY <1>0, <1>2, <2>1 DEF Priced, Prices
<1> QED
  BY <1>1, <1>2

(* What the gateway has made does not go away.                             *)
LEMMA SessionsGrow ==
  ASSUME TypeOK, Prices, Requested, [Next]_vars, NEW t \in Sessions
  PROVE  /\ Minted(t) => Minted(t)' /\ session'[t].credit = session[t].credit
         /\ Captured(t) => Captured(t)'
         /\ session[t].attempt = "expired" => session'[t].attempt = "expired"
<1>1. ASSUME NEW k \in Calls, CreateMints(k), session' # session
      PROVE  ~Minted(t) \/ session'[t] = session[t]
  <2>1. PICK s : s = GatewayOrder(create[k].answer, create[k].intent)
    OBVIOUS
  <2> QED
    BY <1>1, <2>1, TypeFacts DEF CreateMints, Mints
<1> QED
  BY <1>1, Attempted, SessionWriters DEF Minted, Captured

LEMMA PricesStep ==
  ASSUME TypeOK, Prices, Requested, [Next]_vars
  PROVE  Prices'
<1>0. 1 \in Sessions /\ 2 \in Sessions /\ session \in [Sessions -> GatewayOrders]
  BY TypeFacts DEF Sessions
<1>1. ASSUME NEW k \in Calls, CreateMints(k), session' # session PROVE Prices'
  <2>1. PICK s : s = GatewayOrder(create[k].answer, create[k].intent)
    OBVIOUS
  <2>2. ~Minted(s) /\ session' = [session EXCEPT ![s] = [credit |-> create[k].intent, attempt |-> "none"]]
    BY <1>1, <2>1 DEF CreateMints, Mints
  <2>3. Request(k) /\ create[k].pc = "mint"
    BY <1>1 DEF CreateMints, Requested
  <2>4. s \in Sessions /\ s \in 1..2 /\ s = create[k].answer /\ Priced(create[k].intent) = {}
    BY <2>1, <2>2, <2>3, GatewayAnswers
  <2>5. s = 2 => Minted(1)
    BY <2>3, <2>4 DEF Request
  <2>6. \A t \in Sessions : Minted(t)' <=> Minted(t) \/ t = s
    BY <1>0, <2>2, <2>4 DEF Minted
  <2>7. \A t \in Sessions : Minted(t) => session'[t].credit = session[t].credit /\ session'[t].credit # create[k].intent
    BY <1>0, <2>2, <2>4 DEF Priced
  <2>8. session'[s].credit = create[k].intent
    BY <1>0, <2>2, <2>4
  <2> QED
    BY <1>0, <2>4, <2>5, <2>6, <2>7, <2>8 DEF Prices
<1>2. CASE Attempt \/ (\E s \in Sessions : Capture(s) \/ Decline(s) \/ Expire(s))
  <2>1. \A t \in Sessions : session'[t].credit = session[t].credit /\ (Minted(t)' <=> Minted(t))
    BY <1>2, Attempted
  <2> QED
    BY <1>0, <2>1 DEF Prices
<1>3. CASE UNCHANGED session
  BY <1>3 DEF Prices, Minted
<1> QED
  BY <1>1, <1>2, <1>3, SessionWriters

(* Only a request that is served renames the row.                          *)
LEMMA RowKeeps ==
  ASSUME TypeOK, [Next]_vars
  PROVE  /\ \/ order'.gw = order.gw /\ order'.credit = order.credit
            \/ \E k \in Calls : CreditSettles(k) \/ CreateStamps(k)
         /\ order.status # "none" => order'.status # "none"
<1>0. order \in OrderRows /\ Completed.gw = order.gw /\ Completed.credit = order.credit
      /\ Completed.status = order.status
  BY TypeFacts DEF Completed, OrderRows
<1>1. CASE CancelWrites
  <2>1. PICK pay \in {order.pay} \cup (IF order.pay = "completed" THEN {"refunded"} ELSE {}) :
          order' = [order EXCEPT !.status = "cancelled", !.reason = "customer", !.pay = pay]
    BY <1>1 DEF CancelWrites
  <2> QED
    BY <2>1, <1>0 DEF OrderRows
<1>2. ASSUME NEW c \in Credits, Place(c) PROVE order'.gw = order.gw /\ order'.credit = order.credit /\ order'.status = "pending"
  BY <1>2, <1>0 DEF Place, OrderRows
<1>3. CASE (\E h \in hooks : Webhook(h)) \/ StaleCancel
  BY <1>3, <1>0 DEF Webhook, StaleCancel, OrderRows
<1>4. CASE order' \in {order, Completed}
  BY <1>4, <1>0
<1>5. ASSUME NEW k \in Calls, CreditSettles(k) \/ CreateStamps(k) PROVE order'.status = order.status
  BY <1>5, <1>0 DEF CreditSettles, CreateStamps, OrderRows
<1> QED
  BY <1>1, <1>2, <1>3, <1>4, <1>5, RowWriters
  DEF CreateFindsPaid, CompletesFrom, SheetPoll, Finish, Reconcile, SettleWrites

LEMMA RowNamesStep ==
  ASSUME TypeOK, Prices, Requested, RowNames, [Next]_vars
  PROVE  RowNames'
<1>0. order \in OrderRows /\ Completed.gw = order.gw /\ Completed.credit = order.credit
  BY TypeFacts DEF Completed, OrderRows
<1>a. \A t : Minted(t) => Minted(t)'
  BY SessionsGrow DEF Minted
<1>b. \A t : Captured(t) => Captured(t)'
  BY SessionsGrow DEF Captured
<1>1. \/ order'.gw = order.gw /\ order'.credit = order.credit
      \/ \E k \in Calls : CreditSettles(k) \/ CreateStamps(k)
  BY RowKeeps
<1>2. (order'.gw # 0 => Minted(order'.gw)) /\ (order'.credit = "all" => debited)
  <2>1. ASSUME NEW k \in Calls, CreditSettles(k) PROVE order'.gw = order.gw /\ debited
    BY <2>1, <1>0 DEF CreditSettles, Requested, Request, OrderRows
  <2>2. ASSUME NEW k \in Calls, CreateStamps(k), order' # order
        PROVE  order'.gw = create[k].answer /\ order'.credit = create[k].intent
               /\ Minted(create[k].answer) /\ create[k].intent # "all"
    BY <2>2, <1>0 DEF CreateStamps, Requested, Request, OrderRows
  <2> QED
    BY <1>1, <2>1, <2>2 DEF RowNames
<1>3. loaded'.gw # 0 => Minted(loaded'.gw)
  <2>1. loaded' \in {loaded, NoRow, RowRead}
    BY DEF Next, vars, crons, Create, Place, CreateRead, CreditRefused, CreditTaken, CreditSettles,
      CreateFindsPaid, CreateReuses, CreateReprices, CreateKeepsId, CreateMints, CreateStamps, Answered,
      Unanswered, Proceed, CancelTap, CancelRead, CancelWrites, Cancelled, CancelFailed, Attempt, SheetPoll,
      Finish, Capture, Decline, Expire, Webhook, WebhookLost, Reconcile, SettleLoads, SettleWrites, StaleProbe,
      StaleCancel, ShowSuccess, Retry, PayNow, Again, ViewOrder, Kill
  <2> QED
    BY <2>1 DEF RowNames, RowRead, NoRow
<1>4. \A h \in hooks' : h[2] = "success" => Captured(h[1])'
  <2>1. ASSUME NEW s \in Sessions, Capture(s) \/ Decline(s) PROVE \A h \in hooks' : h[2] = "success" => Captured(h[1])'
    BY <2>1, <1>b, TypeFacts DEF Capture, Decline, Captured, RowNames, GatewayOrders
  <2>2. CASE hooks' \subseteq hooks
    BY <2>2, <1>b DEF RowNames
  <2> QED
    BY <2>1, <2>2
    DEF Next, vars, Create, Place, CreateRead, CreditRefused, CreditTaken, CreditSettles, CreateFindsPaid,
      CreateReuses, CreateReprices, CreateKeepsId, CreateMints, CreateStamps, Answered, Unanswered, Proceed,
      CancelTap, CancelRead, CancelWrites, Cancelled, CancelFailed, Attempt, SheetPoll, Finish, Expire, Webhook,
      WebhookLost, Reconcile, SettleLoads, SettleWrites, StaleProbe, StaleCancel, ShowSuccess, Retry, PayNow,
      Again, ViewOrder, Kill
<1> QED
  BY <1>a, <1>2, <1>3, <1>4, DebitedStays DEF RowNames

(* A request that is not served in a step keeps what it has, one that ends *)
(* or begins has nothing, and one that is answered is answered truly.      *)
LEMMA RequestStays ==
  ASSUME TypeOK, Prices, Requested, [Next]_vars, NEW j \in Calls, NEW k \in Calls, create'[k] = create[j]
  PROVE  Request(k)'
<1>1. Request(j)
  BY DEF Requested
<1>2. \A t : Minted(t) => Minted(t)'
  BY SessionsGrow DEF Minted
<1> QED
  BY <1>1, <1>2, DebitedStays, PaidForStays DEF Request

LEMMA RequestBegins ==
  ASSUME NEW k \in Calls, create'[k].read = NoRow, create'[k].pc \in {"no", "sent"}
  PROVE  Request(k)'
BY DEF Request, NoRow

LEMMA RequestAnswered ==
  ASSUME TypeOK, NEW k \in Calls, NEW a \in {"refused", "paid", "session"}, NEW s \in 0..MaxSessions,
         Replies(k, a, s), a = "paid" => PaidFor', a = "session" => Minted(s)'
  PROVE  Request(k)'
<1>1. CASE k = Mine
  <2>1. create'[k] = [NoRequest EXCEPT !.pc = a, !.first = create[k].first, !.answer = s]
    BY <1>1, TypeFacts DEF Replies
  <2> QED
    BY <2>1 DEF Request, NoRequest, NoRow
<1>2. CASE k # Mine
  BY <1>2, Replied, RequestBegins DEF NoRequest
<1> QED
  BY <1>1, <1>2

LEMMA RequestServed ==
  ASSUME TypeOK, Prices, RowNames, Requested, NEW k \in Calls, Create(k), [Next]_vars
  PROVE  Request(k)'
<1>0. create \in [Calls -> Requests] /\ create[k] \in Requests /\ Request(k) /\ order \in OrderRows
      /\ 0 \in 0..MaxSessions
  BY TypeFacts DEF Requested
<1>a. \A t : Minted(t) => Minted(t)'
  BY SessionsGrow DEF Minted
<1>1. CASE CreateRead(k)
  <2>1. CASE create' = [create EXCEPT ![k].pc = "read", ![k].read = RowRead]
    <3>1. create'[k].pc = "read" /\ create'[k].read.gw = order.gw
      BY <1>0, <2>1 DEF RowRead, Requests
    <3> QED
      BY <1>a, <3>1 DEF Request, RowNames
  <2> QED
    BY <1>0, <1>1, <2>1, RequestAnswered DEF CreateRead
<1>2. CASE CreditRefused(k)
  BY <1>0, <1>2, RequestAnswered DEF CreditRefused
<1>3. CASE CreditTaken(k)
  <2>1. create'[k].pc = "debited" /\ create'[k].read = NoRow /\ debited'
    BY <1>0, <1>3 DEF CreditTaken, Requests
  <2> QED
    BY <2>1 DEF Request, NoRow
<1>4. CASE CreditSettles(k)
  <2>1. PaidFor'
    BY <1>0, <1>4, DebitedStays DEF CreditSettles, Request, PaidFor
  <2> QED
    BY <1>0, <1>4, <2>1, RequestAnswered DEF CreditSettles
<1>5. CASE CreateFindsPaid(k)
  <2>1. order' = Completed => PaidFor'
    BY <1>0 DEF Completed, PaidFor, Blocked, OrderRows
  <2> QED
    BY <1>0, <1>5, <2>1, RequestAnswered DEF CreateFindsPaid, CompletesFrom
<1>6. CASE CreateReuses(k)
  <2>1. create[k].read.gw \in 0..MaxSessions /\ Minted(create[k].read.gw)
    BY <1>6, CheckoutAssumption DEF CreateReuses, Payable, Minted, Sessions, CheckoutAssumption
  <2> QED
    BY <1>0, <1>6, <1>a, <2>1, RequestAnswered DEF CreateReuses
<1>7. CASE CreateReprices(k)
  <2>1. create[k].read.gw \in {1, 2} /\ Minted(create[k].read.gw)
    BY <1>0, <1>7, TypeFacts DEF CreateReprices, Payable, Minted, Sessions, Prices
  <2>2. create'[k].pc = "mint" /\ create'[k].read = NoRow /\ create'[k].answer = create[k].read.gw + 1
        /\ create'[k].intent # "all"
    BY <1>0, <1>7 DEF CreateReprices, Requests
  <2>3. create'[k].answer - 1 = create[k].read.gw
    BY <2>1, <2>2
  <2> QED
    BY <1>a, <2>1, <2>2, <2>3 DEF Request, NoRow
<1>8. CASE CreateKeepsId(k)
  <2> DEFINE gw == create[k].read.gw
  <2>1. gw = 0 \/ (gw \in 1..2 /\ Minted(gw) /\ (gw = 2 => Minted(1)))
    BY <1>0 DEF Request, Prices, Minted
  <2>2. create'[k].pc = "mint" /\ create'[k].read = NoRow /\ create'[k].answer = (IF gw = 0 THEN 1 ELSE gw)
        /\ create'[k].intent # "all"
    BY <1>0, <1>8 DEF CreateKeepsId, Requests
  <2>3. create'[k].answer \in 1..3 /\ (create'[k].answer > 1 => Minted(create'[k].answer - 1))
    BY <2>1, <2>2
  <2> QED
    BY <1>a, <2>2, <2>3 DEF Request, NoRow
<1>9. CASE CreateMints(k)
  <2>1. PICK s : s = GatewayOrder(create[k].answer, create[k].intent)
    OBVIOUS
  <2>2. s \in Sessions /\ create[k].intent \in {"none", "part"}
    BY <1>0, <1>9, <2>1, GatewayAnswers DEF CreateMints
  <2>3. CASE Mints(s, create[k].intent) /\ create' = [create EXCEPT ![k].pc = "stamp", ![k].answer = s]
    <3>1. Minted(s)'
      BY <2>2, <2>3, TypeFacts DEF Mints, Minted
    <3>2. create'[k].pc = "stamp" /\ create'[k].answer = s /\ create'[k].intent = create[k].intent
          /\ create'[k].read = create[k].read
      BY <1>0, <2>3 DEF Requests
    <3>3. \A g : g = create[k].read.gw /\ g # 0 => Minted(g)'
      BY <1>0, <1>a DEF Request
    <3>4. create'[k].read.gw # 0 => Minted(create[k].read.gw)'
      BY <3>2, <3>3
    <3>5. Minted(create[k].answer)'
      BY <3>1, <3>2
    <3> QED
      BY <2>2, <3>2, <3>4, <3>5 DEF Request
  <2>4. CASE Replies(k, "refused", 0)
    BY <1>0, <2>4, RequestAnswered
  <2> QED
    BY <1>9, <2>1, <2>3, <2>4 DEF CreateMints
<1>10. CASE CreateStamps(k)
  <2>1. create[k].answer \in 0..MaxSessions /\ Minted(create[k].answer)
    BY <1>0, <1>10, CheckoutAssumption DEF CreateStamps, Request, Minted, Sessions, CheckoutAssumption
  <2> QED
    BY <1>0, <1>10, <1>a, <2>1, RequestAnswered DEF CreateStamps
<1> QED
  BY <1>1, <1>2, <1>3, <1>4, <1>5, <1>6, <1>7, <1>8, <1>9, <1>10 DEF Create

(* Serving one request leaves the others alone.                            *)
LEMMA OthersWait ==
  ASSUME TypeOK, NEW k \in Calls, Create(k), NEW j \in Calls, j # k
  PROVE  create'[j] = create[j]
BY TypeFacts
DEF Create, CreateRead, CreditRefused, CreditTaken, CreditSettles, CreateFindsPaid, CreateReuses,
  CreateReprices, CreateKeepsId, CreateMints, CreateStamps, Replies

LEMMA RequestedStep ==
  ASSUME TypeOK, Prices, RowNames, Requested, [Next]_vars
  PROVE  Requested'
<1>0. create \in [Calls -> Requests] /\ Mine \in Calls /\ NoRequest.pc = "no" /\ NoRequest.read = NoRow
  BY TypeFacts DEF Mine, NoRequest
<1>1. ASSUME NEW k \in Calls PROVE Request(k)'
  <2>1. ASSUME NEW c \in Credits, Place(c) PROVE Request(k)'
    <3>1. k # Mine => create'[k] = create[k]
      BY <1>0, <2>1 DEF Place
    <3>2. k = Mine => create'[k].pc = "sent" /\ create'[k].read = NoRow
      BY <1>0, <2>1 DEF Place, NoRequest
    <3> QED
      BY <3>1, <3>2, RequestStays, RequestBegins
  <2>2. ASSUME NEW j \in Calls, Create(j) PROVE Request(k)'
    BY <2>2, RequestServed, OthersWait, RequestStays
  <2>3. CASE Answered
    <3>1. create'[k] = create[k] \/ create'[k] = NoRequest
      BY <1>0, <2>3 DEF Answered
    <3> QED
      BY <1>0, <3>1, RequestStays, RequestBegins
  <2>4. CASE Unanswered \/ Kill
    <3>1. create'[k] = create[k] \/ create'[k] = NoRequest \/ create'[k] = create[Mine]
      BY <1>0, <2>4, Left DEF Unanswered, Kill
    <3> QED
      BY <1>0, <3>1, RequestStays, RequestBegins
  <2>5. CASE Retry \/ PayNow
    <3>1. k # Mine => create'[k] = create[k]
      BY <1>0, <2>5 DEF Retry, PayNow, Again
    <3>2. k = Mine => create'[k].pc = "sent" /\ create'[k].read = NoRow
      BY <1>0, <2>5 DEF Retry, PayNow, Again, NoRequest
    <3> QED
      BY <3>1, <3>2, RequestStays, RequestBegins
  <2>6. CASE UNCHANGED create
    BY <2>6, RequestStays
  <2> QED
    BY <2>1, <2>2, <2>3, <2>4, <2>5, <2>6, RequestWriters
<1> QED
  <2>1. Calls' = Calls
    BY DEF Calls
  <2> QED
    BY <1>1, <2>1 DEF Requested

(* Nothing is asked of the API before there is an order.                   *)
Ordered == create[Mine].pc # "no" \/ screen # "checkout" => order.status # "none"

LEMMA OrderedStep ==
  ASSUME TypeOK, Ordered, [Next]_vars
  PROVE  Ordered'
<1>0. create \in [Calls -> Requests] /\ Mine \in Calls /\ NoRequest.pc = "no" /\ order \in OrderRows
      /\ (order.status # "none" => order'.status # "none")
  BY TypeFacts, RowKeeps DEF Mine, NoRequest
<1>1. ASSUME NEW c \in Credits, Place(c) PROVE order'.status # "none"
  BY <1>0, <1>1 DEF Place, OrderRows
<1>2. CASE Answered \/ Unanswered
  <2>1. create[Mine].pc # "no"
    BY <1>2 DEF Answered, Unanswered
  <2> QED
    BY <1>0, <2>1 DEF Ordered
<1>3. ASSUME NEW k \in Calls, Create(k) PROVE Ordered'
  <2>1. k = Mine => create[Mine].pc # "no"
    BY <1>3 DEF Create, CreateRead, CreditRefused, CreditTaken, CreditSettles, CreateFindsPaid, CreateReuses,
      CreateReprices, CreateKeepsId, CreateMints, CreateStamps
  <2>2. k # Mine => create'[Mine] = create[Mine]
    BY <1>0, <1>3, OthersWait
  <2>3. UNCHANGED screen
    BY <1>3 DEF Create, CreateRead, CreditRefused, CreditTaken, CreditSettles, CreateFindsPaid, CreateReuses,
      CreateReprices, CreateKeepsId, CreateMints, CreateStamps, client, app
  <2> QED
    BY <1>0, <2>1, <2>2, <2>3 DEF Ordered
<1>4. CASE Kill \/ Retry \/ PayNow
  BY <1>0, <1>4 DEF Kill, Retry, PayNow, Again, Ordered, client, app
<1>5. CASE UNCHANGED create
  <2>1. screen = "checkout" => UNCHANGED screen \/ Answered \/ Unanswered \/ Kill
    BY ScreenWriters DEF Proceed, Cancelled, SheetPoll, Finish, ViewOrder, Waiting
  <2> QED
    BY <1>0, <1>2, <1>4, <1>5, <2>1 DEF Ordered
<1> QED
  BY <1>1, <1>2, <1>3, <1>4, <1>5, RequestWriters DEF Ordered

(* The type, the prices, the rows and the requests together.               *)
CheckoutInv == TypeOK /\ Prices /\ RowNames /\ Requested /\ Ordered

LEMMA CheckoutStart == CheckoutInit => CheckoutInv
<1> SUFFICES ASSUME CheckoutInit PROVE CheckoutInv
  OBVIOUS
<1>0. MaxSessions \in Nat /\ MaxSessions > 1 /\ MaxLeft \in Nat
  BY CheckoutAssumption DEF CheckoutAssumption
<1>1. NoRow \in Rows /\ NoRequest \in Requests
  BY <1>0 DEF NoRow, NoRequest, Rows, Requests
<1>2. TypeOK
  <2>1. create \in [Calls -> Requests] /\ loaded \in Rows
    BY <1>1 DEF CheckoutInit
  <2>2. order \in OrderRows /\ session \in [Sessions -> GatewayOrders]
    BY <1>0 DEF CheckoutInit, OrderRows, GatewayOrders
  <2>3. /\ screen \in {"checkout", "hold", "sheet", "result", "detail", "cart"}
        /\ {settled, cart, debited, probed, overtaken} \subseteq BOOLEAN
        /\ cancelCall \in {"no", "sent", "checked", "done", "refused"} /\ screen # "sheet"
    BY DEF CheckoutInit
  <2>4. {slot, open} \subseteq 0..MaxSessions
    BY <1>0 DEF CheckoutInit
  <2>5. hooks \subseteq Sessions \X {"success", "failed"}
    BY DEF CheckoutInit
  <2> QED
    BY <2>1, <2>2, <2>3, <2>4, <2>5 DEF TypeOK, OrderRows, GatewayOrders
<1>3. \A s : ~Minted(s)
  BY DEF CheckoutInit, Minted
<1>4. Prices /\ RowNames /\ Requested /\ Ordered
  BY <1>3, TypeFacts, <1>2 DEF CheckoutInit, Prices, RowNames, Requested, Request, Ordered, NoRow, NoRequest, Mine
<1> QED
  BY <1>2, <1>4 DEF CheckoutInv

LEMMA CheckoutStep == CheckoutInv /\ [Next]_vars => CheckoutInv'
<1> SUFFICES ASSUME TypeOK, Prices, RowNames, Requested, Ordered, [Next]_vars PROVE CheckoutInv'
  BY DEF CheckoutInv
<1>1. \A k \in Calls : create[k].pc \in {"stamp", "session"} => Minted(create[k].answer)
  BY DEF Requested, Request
<1>2. /\ \A k \in Calls : create[k].pc = "stamp" => create[k].answer \in 0..MaxSessions
      /\ create[Mine].pc = "session" => Minted(create[Mine].answer)
      /\ \A k \in Calls : create[k].pc = "mint" => create[k].intent # "all"
  BY <1>1, TypeFacts DEF Minted, Sessions, Mine, Requested, Request
<1>3. TypeOK'
  <2>1. create' \in [Calls -> Requests]
    BY <1>2, CreateType
  <2>2. order' \in OrderRows
    BY <1>2, OrderType
  <2>3. session' \in [Sessions -> GatewayOrders]
    BY <1>2, SessionType
  <2>4. /\ screen' \in {"checkout", "hold", "sheet", "result", "detail", "cart"}
        /\ settled' \in BOOLEAN /\ cart' \in BOOLEAN
        /\ {slot', open'} \subseteq 0..MaxSessions /\ (screen' = "sheet" => open' # 0)
    BY <1>2, ScreenType
  <2> QED
    BY <2>1, <2>2, <2>3, <2>4, FlagsType, CancelCallType, CronsType DEF TypeOK, OrderRows, GatewayOrders
<1> QED
  BY <1>3, PricesStep, RowNamesStep, RequestedStep, OrderedStep DEF CheckoutInv

LEMMA CheckoutInvariant == Spec => []CheckoutInv
BY CheckoutStart, CheckoutStep, PTL DEF Spec

(* Every row, screen and answer is one the code can write, and the gateway *)
(* is never asked for a third order.                                       *)
THEOREM CheckoutTypeCorrect == Spec => [](TypeOK /\ \A s \in Sessions : Minted(s) => s \in 1..2)
<1>1. CheckoutInv => TypeOK /\ \A s \in Sessions : Minted(s) => s \in 1..2
  BY DEF CheckoutInv, Prices
<1> QED
  BY <1>1, CheckoutInvariant, PTL

(* The customer is charged at most once per price.                         *)
THEOREM CustomerIsChargedOnce == Spec => []ChargedOnce
<1>1. CheckoutInv => ChargedOnce
  BY DEF CheckoutInv, Prices, ChargedOnce, Captured, Minted
<1> QED
  BY <1>1, CheckoutInvariant, PTL

(* The basket is emptied only for an order that is paid for, or was and    *)
(* was then cancelled as unpaid: whatever is declined, killed, lost or     *)
(* answered "paid" with the row still open.                                *)
THEOREM BasketWaitsForPayment == Spec => []BasketKeptUntilPaid
<1>1. CheckoutInit => BasketKeptUntilPaid
  BY DEF CheckoutInit, BasketKeptUntilPaid
<1>2. ASSUME CheckoutInv, BasketKeptUntilPaid, [Next]_vars PROVE BasketKeptUntilPaid'
  <2>0. TypeOK /\ (~cart => PaidFor) /\ cart \in BOOLEAN
    BY <1>2 DEF CheckoutInv, BasketKeptUntilPaid, PaidFor, TypeOK
  <2>1. PaidFor => PaidFor'
    BY <1>2, <2>0, PaidForStays
  <2>2. CASE Answered
    <3>1. create[Mine].pc = "paid" => PaidFor
      BY <1>2, TypeFacts DEF CheckoutInv, Requested, Request, Mine
    <3>2. create[Mine].pc # "paid" => cart' = cart
      BY <2>2 DEF Answered
    <3> QED
      BY <2>0, <2>1, <3>1, <3>2 DEF BasketKeptUntilPaid, PaidFor
  <2>3. CASE ShowSuccess
    BY <2>1, <2>3 DEF ShowSuccess, BasketKeptUntilPaid, PaidFor, Blocked
  <2>4. CASE UNCHANGED cart
    BY <2>0, <2>1, <2>4 DEF BasketKeptUntilPaid, PaidFor
  <2> QED
    BY <1>2, <2>2, <2>3, <2>4
    DEF Next, vars, client, app, Create, Place, CreateRead, CreditRefused, CreditTaken, CreditSettles,
      CreateFindsPaid, CreateReuses, CreateReprices, CreateKeepsId, CreateMints, CreateStamps, Unanswered,
      Proceed, CancelTap, CancelRead, CancelWrites, Cancelled, CancelFailed, Attempt, SheetPoll, Finish, Capture,
      Decline, Expire, Webhook, WebhookLost, Reconcile, SettleLoads, SettleWrites, StaleProbe, StaleCancel,
      Retry, PayNow, Again, ViewOrder, Kill
<1> QED
  BY <1>1, <1>2, CheckoutInvariant, PTL DEF Spec

(* A completed payment is taken back by a stale-order cancel that was      *)
(* decided before it, and by nothing else.                                 *)
THEOREM PaymentIsFinal == Spec => CompletedIsFinal
<1>1. ASSUME TypeOK, [Next]_vars, order.pay = "completed"
      PROVE  order'.pay \in Blocked \/ (probed /\ order'.reason = "unpaid")
  <2>0. order \in OrderRows /\ "completed" \in Blocked
    BY <1>1, TypeFacts DEF Blocked
  <2>1. ASSUME NEW c \in Credits, Place(c) PROVE order'.pay = "completed"
    BY <2>0, <2>1, <1>1 DEF Place, OrderRows
  <2>2. CASE order' \in {order, Completed}
    BY <2>0, <2>2, <1>1 DEF Completed
  <2>3. ASSUME NEW k \in Calls, CreditSettles(k) \/ CreateStamps(k) PROVE order'.pay = "completed"
    BY <2>0, <2>3, <1>1 DEF CreditSettles, CreateStamps, OrderRows
  <2>4. CASE CancelWrites
    <3>1. PICK pay \in {"completed", "refunded"} :
            order' = [order EXCEPT !.status = "cancelled", !.reason = "customer", !.pay = pay]
      BY <2>4, <1>1 DEF CancelWrites
    <3> QED
      BY <2>0, <3>1 DEF OrderRows, Blocked
  <2>5. ASSUME NEW h \in hooks, Webhook(h) PROVE order'.pay = "completed"
    BY <2>0, <2>5, <1>1 DEF Webhook, Completed, OrderRows
  <2>6. CASE StaleCancel
    BY <2>0, <2>6 DEF StaleCancel, OrderRows
  <2> QED
    BY <1>1, <2>0, <2>1, <2>2, <2>3, <2>4, <2>5, <2>6, RowWriters
    DEF CreateFindsPaid, CompletesFrom, SheetPoll, Finish, Reconcile, SettleWrites
<1>2. CheckoutInv /\ [Next]_vars =>
        [order.pay = "completed" => order'.pay \in Blocked \/ (probed /\ order'.reason = "unpaid")]_vars
  BY <1>1 DEF CheckoutInv
<1> QED
  BY CheckoutInvariant, <1>2, PTL DEF Spec, CompletedIsFinal

---------------------------------------------------------------------------
Counted == faults \in [{"decline", "kill", "cut", "lost"} -> Nat]

(* Faults are counted, and only ever go up.                                *)
LEMMA FaultsGrow ==
  ASSUME Counted, [Next]_vars
  PROVE  /\ Counted'
         /\ \A f \in {"decline", "kill", "cut", "lost"} : faults'[f] >= faults[f]
<1>1. CASE \E f \in {"decline", "kill", "cut", "lost"} : faults' = [faults EXCEPT ![f] = @ + 1]
  BY <1>1 DEF Counted
<1>2. CASE Kill
  BY <1>2 DEF Kill, Counted
<1>3. CASE UNCHANGED faults
  BY <1>3 DEF Counted
<1> QED
  BY <1>1, <1>2, <1>3
  DEF Next, vars, Create, Place, CreateRead, CreditRefused, CreditTaken, CreditSettles, CreateFindsPaid,
    CreateReuses, CreateReprices, CreateKeepsId, CreateMints, CreateStamps, Answered, Unanswered, Proceed,
    CancelTap, CancelRead, CancelWrites, Cancelled, CancelFailed, Attempt, SheetPoll, Finish, Capture, Decline,
    Expire, Webhook, WebhookLost, Reconcile, SettleLoads, SettleWrites, StaleProbe, StaleCancel, ShowSuccess,
    Retry, PayNow, Again, ViewOrder, Within

(* Until a call is lost or the app is killed, one request is served at a   *)
(* time, from the row as it is, and the row's price is its session's.      *)
Undisturbed == faults["kill"] = 0 /\ faults["lost"] = 0
AtItsPrice == order.gw # 0 => session[order.gw].credit = order.credit \/ order.credit = "all"
Alone ==
  /\ \A k \in Calls \ {Mine} : create[k].pc = "no"
  /\ create[Mine].pc = "read" => create[Mine].read.gw = order.gw
  /\ order.gw = 0 /\ create[Mine].pc # "stamp" => \A s \in Sessions : ~Minted(s)
  /\ create[Mine].pc = "mint" => \/ Priced(create[Mine].intent) # {}
                                 \/ ~Minted(create[Mine].answer) \/ ~Live(create[Mine].answer)
  /\ create[Mine].pc = "stamp" => session[create[Mine].answer].credit = create[Mine].intent
Steady == Undisturbed => AtItsPrice /\ Alone

(* A step without a fault does not lose anything.                          *)
LEMMA NothingLost ==
  ASSUME Counted, Undisturbed', [Next]_vars
  PROVE  Undisturbed /\ ~Kill /\ ~Within("lost", MaxLost)
<1>1. Undisturbed
  BY FaultsGrow DEF Undisturbed, Counted
<1>2. Within("lost", MaxLost) => faults'["lost"] = 1
  BY <1>1 DEF Within, Counted, Undisturbed
<1>3. Kill => faults'["kill"] = 1
  BY <1>1 DEF Kill, Counted, Undisturbed
<1> QED
  BY <1>1, <1>2, <1>3 DEF Undisturbed

LEMMA OneServed ==
  ASSUME TypeOK, Alone, Ordered, Counted, Undisturbed', [Next]_vars
  PROVE  /\ \A k \in Calls \ {Mine} : create'[k] = create[k]
         /\ \A k \in Calls : Create(k) => k = Mine
         /\ \/ UNCHANGED create
            \/ Create(Mine)
            \/ create[Mine].pc \in Answers /\ create'[Mine].pc \in {"no", "sent"} /\ UNCHANGED session
<1>0. create \in [Calls -> Requests] /\ Mine \in Calls /\ NoRequest.pc = "no"
  BY TypeFacts DEF Mine, NoRequest
<1>1. \A k \in Calls : Create(k) => k = Mine
  BY DEF Alone, Create, CreateRead, CreditRefused, CreditTaken, CreditSettles, CreateFindsPaid, CreateReuses,
    CreateReprices, CreateKeepsId, CreateMints, CreateStamps
<1>2. ASSUME NEW c \in Credits, Place(c)
      PROVE  /\ \A k \in Calls \ {Mine} : create'[k] = create[k]
             /\ create[Mine].pc \in Answers /\ create'[Mine].pc = "sent" /\ UNCHANGED session
  BY <1>0, <1>2 DEF Place, Ordered, NoRequest, Answers
<1>3. CASE Answered
  BY <1>0, <1>1, <1>3 DEF Answered, Answers
<1>4. CASE Unanswered
  <2>1. create[Mine].pc = "refused" /\ Leaves
    BY <1>4, NothingLost DEF Unanswered
  <2>2. create' = [create EXCEPT ![Mine] = NoRequest] /\ UNCHANGED session
    BY <1>4, <2>1 DEF Leaves, Unanswered, Answers
  <2> QED
    BY <1>0, <1>1, <2>1, <2>2 DEF Answers
<1>5. CASE Retry \/ PayNow
  BY <1>0, <1>1, <1>5 DEF Retry, PayNow, Again, NoRequest, Answers
<1>6. CASE Create(Mine)
  BY <1>0, <1>1, <1>6, OthersWait
<1>7. CASE UNCHANGED create
  BY <1>1, <1>7
<1> QED
  BY <1>1, <1>2, <1>3, <1>4, <1>5, <1>6, <1>7, RequestWriters, NothingLost

LEMMA SteadyStep ==
  ASSUME CheckoutInv, Counted, Steady, [Next]_vars
  PROVE  Steady'
<1> SUFFICES ASSUME Undisturbed' PROVE AtItsPrice' /\ Alone'
  BY DEF Steady
<1>0. TypeOK /\ Prices /\ RowNames /\ Requested /\ Ordered /\ AtItsPrice /\ Alone /\ ~Within("lost", MaxLost)
  BY NothingLost DEF CheckoutInv, Steady
<1>1. /\ \A k \in Calls \ {Mine} : create'[k] = create[k]
      /\ \A k \in Calls : Create(k) => k = Mine
      /\ \/ UNCHANGED create
         \/ Create(Mine)
         \/ create[Mine].pc \in Answers /\ create'[Mine].pc \in {"no", "sent"} /\ UNCHANGED session
  BY <1>0, OneServed
<1>2. create \in [Calls -> Requests] /\ Mine \in Calls /\ create[Mine] \in Requests /\ order \in OrderRows
      /\ session \in [Sessions -> GatewayOrders] /\ 1 \in Sessions /\ 2 \in Sessions /\ Request(Mine)
  BY <1>0, TypeFacts DEF Mine, Requested, Sessions
<1>3. /\ \A t : Minted(t) => Minted(t)' /\ session'[t].credit = session[t].credit
      /\ \A t : ~Live(t) => ~Live(t)'
  BY <1>0, SessionsGrow DEF Minted, Live
(* The row changes its names only by the request's stamp.                  *)
<1>4. ASSUME CreateStamps(Mine)
      PROVE  /\ order'.gw = create[Mine].answer /\ order'.credit = create[Mine].intent /\ order'.gw # 0
             /\ UNCHANGED session /\ create'[Mine].pc = "session"
  <2>1. order' = [order EXCEPT !.gw = create[Mine].answer, !.credit = create[Mine].intent]
        /\ Replies(Mine, "session", create[Mine].answer) /\ UNCHANGED session
    BY <1>0, <1>4 DEF CreateStamps
  <2>2. create[Mine].answer \in 0..MaxSessions /\ create[Mine].answer # 0
    BY <1>2, <1>4, TypeFacts, <1>0 DEF CreateStamps, Request, Minted, Sessions
  <2>3. create'[Mine].pc = "session"
    BY <1>0, <1>2, <2>1, <2>2, Replied
  <2> QED
    BY <1>2, <2>1, <2>2, <2>3 DEF OrderRows
<1>5. ASSUME CreditSettles(Mine)
      PROVE  order'.gw = order.gw /\ order'.credit \in {order.credit, "all"} /\ create'[Mine].pc = "paid"
  <2>1. 0 \in 0..MaxSessions
    BY <1>0, TypeFacts
  <2> QED
    BY <1>0, <1>2, <1>5, <2>1, Replied DEF CreditSettles, OrderRows
<1>6. \/ order'.gw = order.gw /\ order'.credit = order.credit
      \/ CreditSettles(Mine) \/ CreateStamps(Mine)
  BY <1>0, <1>1, RowKeeps DEF Create
<1>7. AtItsPrice'
  <2>1. CASE CreateStamps(Mine)
    <3>1. session[create[Mine].answer].credit = create[Mine].intent
      BY <1>0, <2>1 DEF Alone, CreateStamps
    <3> QED
      BY <1>4, <2>1, <3>1 DEF AtItsPrice
  <2>2. CASE ~CreateStamps(Mine)
    <3>1. order'.gw = order.gw /\ order'.credit \in {order.credit, "all"}
      BY <1>5, <1>6, <2>2
    <3>2. order.gw # 0 => session'[order.gw].credit = session[order.gw].credit
      BY <1>0, <1>3 DEF RowNames
    <3> QED
      BY <1>0, <3>1, <3>2 DEF AtItsPrice
  <2> QED
    BY <2>1, <2>2
<1>8. \A k \in Calls \ {Mine} : create'[k].pc = "no"
  BY <1>0, <1>1 DEF Alone
<1>9. ASSUME create'[Mine].pc = "read" PROVE create'[Mine].read.gw = order'.gw
  <2>1. CASE CreateRead(Mine)
    <3>1. ~Replies(Mine, "refused", 0)
      BY <1>0, <1>2, <1>9, TypeFacts, Replied
    <3> QED
      BY <1>2, <2>1, <3>1 DEF CreateRead, RowRead, Requests, row
  <2>2. CASE UNCHANGED create
    <3>1. ~CreditSettles(Mine) /\ ~CreateStamps(Mine)
      BY <1>9, <2>2 DEF CreditSettles, CreateStamps
    <3> QED
      BY <1>0, <1>6, <1>9, <2>2, <3>1 DEF Alone
  <2>3. CASE Create(Mine) /\ ~CreateRead(Mine)
    <3>1. 0 \in 0..MaxSessions /\ create[Mine].read.gw \in 0..MaxSessions
      BY <1>0, <1>2, TypeFacts DEF Requests, Rows
    <3>2. CASE \E a \in {"refused", "paid", "session"}, n \in 0..MaxSessions : Replies(Mine, a, n)
      BY <1>0, <1>2, <1>9, <3>2, Replied
    <3>3. CASE CreditTaken(Mine) \/ CreateReprices(Mine) \/ CreateKeepsId(Mine)
      BY <1>2, <1>9, <3>3 DEF CreditTaken, CreateReprices, CreateKeepsId, Requests
    <3>4. CASE CreateMints(Mine)
      BY <1>0, <1>2, <1>9, <3>1, <3>2, <3>4 DEF CreateMints, Requests
    <3>5. CASE CreateStamps(Mine)
      BY <1>4, <1>9, <3>5
    <3> QED
      BY <2>3, <3>1, <3>2, <3>3, <3>4, <3>5 DEF Create, CreditRefused, CreditSettles, CreateFindsPaid, CreateReuses
  <2> QED
    BY <1>1, <1>9, <2>1, <2>2, <2>3
(* A request's session is the one the row names, until it makes one.       *)
<1>10. ASSUME order'.gw = 0, create'[Mine].pc # "stamp", NEW t \in Sessions PROVE ~Minted(t)'
  <2>1. ~CreateStamps(Mine) /\ order.gw = 0
    BY <1>4, <1>5, <1>6, <1>10
  <2>2. CASE create[Mine].pc = "stamp"
    BY <1>1, <1>10, <2>1, <2>2
    DEF Create, CreateRead, CreditRefused, CreditTaken, CreditSettles, CreateFindsPaid, CreateReuses,
      CreateReprices, CreateKeepsId, CreateMints, Answers
  <2>3. CASE create[Mine].pc # "stamp"
    <3>1. \A s \in Sessions : ~Minted(s)
      BY <1>0, <2>1, <2>3 DEF Alone
    <3>2. ~CreateMints(Mine) \/ UNCHANGED session
      <4>1. ~(create' = [create EXCEPT ![Mine].pc = "stamp",
                                      ![Mine].answer = GatewayOrder(create[Mine].answer, create[Mine].intent)])
        BY <1>2, <1>10 DEF Requests
      <4> QED
        BY <1>0, <4>1 DEF CreateMints
    <3>3. Attempt \/ (\E s \in Sessions : Capture(s) \/ Decline(s) \/ Expire(s)) => (Minted(t)' <=> Minted(t))
      BY <1>0, <1>10, Attempted
    <3>4. UNCHANGED session => (Minted(t)' <=> Minted(t))
      BY DEF Minted
    <3> QED
      BY <1>1, <1>10, <3>1, <3>2, <3>3, <3>4, SessionWriters DEF Create
  <2> QED
    BY <2>2, <2>3
(* It asks for an order the gateway can answer with at this price, or will *)
(* not: one made for the other price and still payable is never in its way.*)
<1>11. \A c : Priced(c) # {} => Priced(c)' # {}
  BY <1>0, <1>3 DEF Priced
<1>12. ASSUME create'[Mine].pc = "mint", NEW c, NEW n, c = create'[Mine].intent, n = create'[Mine].answer
       PROVE  Priced(c)' # {} \/ ~Minted(n)' \/ ~Live(n)'
  <2>1. CASE UNCHANGED create
    <3>1. create[Mine].pc = "mint"
      BY <1>12, <2>1
    <3>2. CASE Priced(c) # {}
      BY <1>11, <3>2
    <3>3. CASE ~Live(n)
      BY <1>3, <3>3
    <3>4. CASE ~Minted(n)
      <4>1. ~CreateMints(Mine) \/ UNCHANGED session
        <5>1. ~(create' = [create EXCEPT ![Mine].pc = "stamp",
                                        ![Mine].answer = GatewayOrder(create[Mine].answer, create[Mine].intent)])
          BY <1>2, <1>12 DEF Requests
        <5> QED
          BY <1>0, <5>1 DEF CreateMints
      <4>2. UNCHANGED session \/ Attempt \/ (\E s \in Sessions : Capture(s) \/ Decline(s) \/ Expire(s))
        BY <1>1, <4>1, SessionWriters DEF Create
      <4>3. \A t \in Sessions : Minted(t)' <=> Minted(t)
        BY <1>0, <4>2, Attempted DEF Minted
      <4> QED
        BY <3>4, <4>3 DEF Minted
    <3> QED
      BY <1>0, <1>12, <2>1, <3>1, <3>2, <3>3, <3>4 DEF Alone
  <2>2. CASE CreateReprices(Mine)
    <3>1. create[Mine].read.gw \in {1, 2} /\ Minted(create[Mine].read.gw)
          /\ create[Mine].intent \in {"none", "part"}
          /\ session[create[Mine].read.gw].credit # create[Mine].intent
      BY <1>0, <1>2, <2>2, TypeFacts DEF CreateReprices, Payable, Minted, Sessions, Prices, Requests
    <3>2. create'[Mine].answer = create[Mine].read.gw + 1 /\ create'[Mine].intent = create[Mine].intent
          /\ UNCHANGED session
      BY <1>2, <2>2 DEF CreateReprices, Requests
    <3>3. Minted(1) /\ Minted(2) => session[1].credit # session[2].credit
      BY <1>0, <1>2 DEF Prices
    <3>4. session[1].credit \in {"none", "part"} /\ session[2].credit \in {"none", "part"}
      BY <1>2 DEF GatewayOrders
    <3>5. CASE create[Mine].read.gw = 1
      <4>1. n = 2 /\ c = create[Mine].intent
        BY <1>12, <3>2, <3>5
      <4>2. Minted(2) => Priced(c) # {}
        BY <1>2, <3>1, <3>3, <3>4, <3>5, <4>1 DEF Priced
      <4>3. ~Minted(2) => ~Minted(2)'
        BY <3>2 DEF Minted
      <4> QED
        BY <1>11, <4>1, <4>2, <4>3
    <3>6. CASE create[Mine].read.gw = 2
      <4>1. Priced(c) # {}
        BY <1>0, <1>2, <1>12, <3>1, <3>2, <3>3, <3>4, <3>6 DEF Priced, Prices
      <4> QED
        BY <1>11, <4>1
    <3> QED
      BY <3>1, <3>5, <3>6
  <2>3. CASE CreateKeepsId(Mine)
    <3>1. ~Live(create[Mine].read.gw) /\ create[Mine].pc = "read" /\ UNCHANGED session
          /\ create'[Mine].answer = (IF create[Mine].read.gw = 0 THEN 1 ELSE create[Mine].read.gw)
      BY <1>0, <1>2, <2>3 DEF CreateKeepsId, Requests
    <3>2. create[Mine].read.gw = 0 => \A s \in Sessions : ~Minted(s)
      BY <1>0, <3>1 DEF Alone
    <3> QED
      BY <1>2, <1>12, <3>1, <3>2 DEF Live, Minted
  <2>4. CASE Create(Mine) /\ ~CreateReprices(Mine) /\ ~CreateKeepsId(Mine)
    <3>1. 0 \in 0..MaxSessions /\ create[Mine].read.gw \in 0..MaxSessions
      BY <1>0, <1>2, TypeFacts DEF Requests, Rows
    <3>2. CASE \E a \in {"refused", "paid", "session"}, b \in 0..MaxSessions : Replies(Mine, a, b)
      BY <1>0, <1>2, <1>12, <3>2, Replied
    <3>3. CASE CreateRead(Mine) \/ CreditTaken(Mine) \/ CreateMints(Mine)
      BY <1>0, <1>2, <1>12, <3>1, <3>2, <3>3 DEF CreateRead, CreditTaken, CreateMints, Requests
    <3>4. CASE CreateStamps(Mine)
      BY <1>4, <1>12, <3>4
    <3> QED
      BY <2>4, <3>1, <3>2, <3>3, <3>4 DEF Create, CreditRefused, CreditSettles, CreateFindsPaid, CreateReuses
  <2> QED
    BY <1>1, <1>12, <2>1, <2>2, <2>3, <2>4
(* So what it stamps is an order of the price it asked for.                *)
<1>13. ASSUME create'[Mine].pc = "stamp"
       PROVE  session'[create'[Mine].answer].credit = create'[Mine].intent
  <2>1. CASE UNCHANGED create
    BY <1>0, <1>2, <1>3, <1>13, <2>1 DEF Alone, Request
  <2>2. CASE CreateMints(Mine)
    <3>1. PICK s : s = GatewayOrder(create[Mine].answer, create[Mine].intent)
      OBVIOUS
    <3>2. /\ Mints(s, create[Mine].intent) /\ create' = [create EXCEPT ![Mine].pc = "stamp", ![Mine].answer = s]
          /\ Minted(s) => Payable(s) \/ s \in Priced(create[Mine].intent)
      <4>1. ~Replies(Mine, "refused", 0)
        BY <1>0, <1>2, <1>13, TypeFacts, Replied
      <4> QED
        BY <2>2, <3>1, <4>1 DEF CreateMints
    <3>3. /\ s \in Sessions
          /\ ~Minted(s) => s = create[Mine].answer /\ Priced(create[Mine].intent) = {}
          /\ Priced(create[Mine].intent) # {} => s \in Priced(create[Mine].intent)
      BY <1>0, <1>2, <2>2, <3>1, GatewayAnswers DEF CreateMints
    <3>4. Priced(create[Mine].intent) = {} => s = create[Mine].answer
      BY <3>1 DEF GatewayOrder
    <3>5. Minted(s) => s \in Priced(create[Mine].intent)
      BY <1>0, <2>2, <3>2, <3>3, <3>4 DEF Alone, CreateMints, Live, Payable
    <3>6. session'[s].credit = create[Mine].intent
      BY <1>2, <3>2, <3>3, <3>5 DEF Mints, Priced
    <3> QED
      BY <1>2, <3>2, <3>6 DEF Requests
  <2>3. CASE Create(Mine) /\ ~CreateMints(Mine)
    <3>1. 0 \in 0..MaxSessions /\ create[Mine].read.gw \in 0..MaxSessions
      BY <1>0, <1>2, TypeFacts DEF Requests, Rows
    <3>2. CASE \E a \in {"refused", "paid", "session"}, n \in 0..MaxSessions : Replies(Mine, a, n)
      BY <1>0, <1>2, <1>13, <3>2, Replied
    <3>3. CASE CreateRead(Mine) \/ CreditTaken(Mine) \/ CreateReprices(Mine) \/ CreateKeepsId(Mine)
      BY <1>0, <1>2, <1>13, <3>1, <3>2, <3>3 DEF CreateRead, CreditTaken, CreateReprices, CreateKeepsId, Requests
    <3>4. CASE CreateStamps(Mine)
      BY <1>4, <1>13, <3>4
    <3> QED
      BY <2>3, <3>1, <3>2, <3>3, <3>4 DEF Create, CreditRefused, CreditSettles, CreateFindsPaid, CreateReuses
  <2> QED
    BY <1>1, <1>13, <2>1, <2>2, <2>3
<1>14. create'[Mine].pc = "mint" => \/ Priced(create[Mine].intent)' # {}
                                    \/ ~Minted(create[Mine].answer)' \/ ~Live(create[Mine].answer)'
  BY <1>12
<1> QED
  BY <1>7, <1>8, <1>9, <1>10, <1>13, <1>14 DEF Alone

(* A payment that completes was captured on the session the row names, for *)
(* what it expects until something is killed or lost; a write decided on   *)
(* an older row leaves its mark.                                           *)
LEMMA CapturedStep ==
  ASSUME CheckoutInv, Counted, Steady, PaidIsCaptured, [Next]_vars
  PROVE  PaidIsCaptured'
<1>0. /\ TypeOK /\ RowNames /\ Requested /\ order \in OrderRows /\ overtaken \in BOOLEAN
      /\ Completed.gw = order.gw /\ Completed.credit = order.credit
      /\ Completed.pay = "completed" => order.pay \notin Blocked \/ order.pay = "completed"
  BY TypeFacts DEF CheckoutInv, TypeOK, Completed, Blocked, OrderRows
<1>1. /\ \A t : Captured(t) => Captured(t)' /\ session'[t].credit = session[t].credit
  BY <1>0, SessionsGrow DEF CheckoutInv, Captured, Minted
<1>a. overtaken => overtaken'
  BY OvertakenStays
<1>2. faults["kill"] + faults["lost"] > 0 => faults'["kill"] + faults'["lost"] > 0
  BY FaultsGrow DEF Counted
<1>3. CASE debited
  BY <1>3, DebitedStays DEF PaidIsCaptured
<1>4. order.pay = "completed" => debited \/ \E s \in Sessions : Captured(s)
  BY DEF PaidIsCaptured, Captured
<1>5. (\E s \in Sessions : Captured(s)) => (\E s \in Sessions : Captured(s))'
  BY <1>1
(* As long as the row names what it named before.                          *)
<1>6. ASSUME order'.gw = order.gw, order'.credit = order.credit,
             order'.pay = "completed" => \/ order.pay = "completed" \/ Settles(RowRead)
                                        \/ (Captured(order.gw) /\ faults["kill"] + faults["lost"] > 0)
      PROVE  PaidIsCaptured'
  <2>1. PICK g : g = order.gw
    OBVIOUS
  <2>2. Captured(g) => Captured(g)' /\ session'[g].credit = session[g].credit
    BY <1>1
  <2>3. order'.gw = g /\ order'.credit = order.credit
    BY <1>6, <2>1
  <2>4. Captured(order.gw) => Captured(order.gw)'
    BY <2>1, <2>2, <2>3 DEF Captured
  <2>5. Settles(RowRead) => Captured(order.gw) /\ Settles(RowRead)'
    BY <2>1, <2>2, <2>3, <2>4 DEF Settles, RowRead
  <2> QED
    BY <1>2, <1>3, <1>5, <1>6, <1>a, <2>4, <2>5 DEF PaidIsCaptured
<1>7. ASSUME NEW k \in Calls, CreateStamps(k) PROVE PaidIsCaptured'
  <2> DEFINE stamp == [gw |-> create[k].answer, credit |-> create[k].intent]
  <2>1. CASE order' = [order EXCEPT !.gw = stamp.gw, !.credit = stamp.credit] /\ stamp # RowRead
             /\ overtaken' = (overtaken \/ (stamp # RowRead /\ (Captured(order.gw) \/ order.pay = "completed")))
    <3>1. order'.pay = order.pay
      BY <1>0, <2>1 DEF OrderRows
    <3>2. order.pay = "completed" => overtaken'
      BY <2>1
    <3> QED
      BY <1>3, <1>4, <1>5, <3>1, <3>2 DEF PaidIsCaptured
  <2>2. CASE order' = order \/ (order' = [order EXCEPT !.gw = stamp.gw, !.credit = stamp.credit] /\ stamp = RowRead)
    <3>1. order'.gw = order.gw /\ order'.credit = order.credit /\ order'.pay = order.pay
      BY <1>0, <2>2 DEF RowRead, OrderRows
    <3> QED
      BY <1>6, <3>1
  <2> QED
    BY <1>7, <2>1, <2>2 DEF CreateStamps
<1>8. ASSUME NEW k \in Calls, CreditSettles(k) PROVE PaidIsCaptured'
  BY <1>0, <1>3, <1>8 DEF CreditSettles, Requested, Request
<1>9. ASSUME NEW r, Settles(r), CompletesFrom(r) PROVE PaidIsCaptured'
  <2>1. CASE order.pay \in Blocked \/ r = RowRead
    <3>1. order' = Completed /\ (order'.pay = "completed" => order.pay = "completed" \/ Settles(RowRead))
      BY <1>9, <2>1 DEF CompletesFrom, Completed
    <3> QED
      BY <1>0, <1>6, <3>1
  <2>2. CASE order.pay \notin Blocked /\ r # RowRead
    <3>1. overtaken' /\ \E s \in Sessions : Captured(s)
      BY <1>9, <2>2 DEF CompletesFrom, Settles, Captured
    <3> QED
      BY <1>5, <3>1 DEF PaidIsCaptured
  <2> QED
    BY <2>1, <2>2
<1>10. ASSUME NEW h \in hooks, Webhook(h) PROVE PaidIsCaptured'
  <2>1. CASE h[1] = order.gw /\ h[2] = "success"
    <3>1. Captured(order.gw) /\ order.gw # 0 /\ order' = Completed
      BY <1>0, <1>10, <2>1, TypeFacts DEF Webhook, RowNames, Captured, Sessions
    <3>2. CASE Undisturbed
      BY <1>0, <1>3, <1>6, <3>1, <3>2 DEF Steady, AtItsPrice, RowNames, Settles, RowRead
    <3>3. CASE ~Undisturbed
      <4>1. faults["kill"] + faults["lost"] > 0
        BY <3>3 DEF Undisturbed, Counted
      <4> QED
        BY <1>0, <1>6, <3>1, <4>1
    <3> QED
      BY <3>2, <3>3
  <2>2. CASE ~(h[1] = order.gw /\ h[2] = "success")
    <3>1. order'.gw = order.gw /\ order'.credit = order.credit /\ (order'.pay = "completed" => order.pay = "completed")
      BY <1>0, <1>10, <2>2 DEF Webhook, OrderRows
    <3> QED
      BY <1>6, <3>1
  <2> QED
    BY <2>1, <2>2
<1>11. CASE SheetPoll \/ Finish \/ Reconcile
  <2>1. order' = order \/ (order' = Completed /\ Settles(RowRead))
    BY <1>11 DEF SheetPoll, Finish, Reconcile
  <2> QED
    BY <1>0, <1>6, <2>1
<1>12. CASE CancelWrites
  <2>1. PICK pay \in {order.pay} \cup (IF order.pay = "completed" THEN {"refunded"} ELSE {}) :
          order' = [order EXCEPT !.status = "cancelled", !.reason = "customer", !.pay = pay]
    BY <1>12 DEF CancelWrites
  <2>2. order'.gw = order.gw /\ order'.credit = order.credit /\ (order'.pay = "completed" => order.pay = "completed")
    BY <1>0, <2>1 DEF OrderRows
  <2> QED
    BY <1>6, <2>2
<1>13. CASE StaleCancel
  BY <1>0, <1>13 DEF StaleCancel, PaidIsCaptured, OrderRows
<1>14. ASSUME NEW c \in Credits, Place(c) PROVE PaidIsCaptured'
  <2>1. order'.gw = order.gw /\ order'.credit = order.credit /\ order'.pay = order.pay
    BY <1>0, <1>14 DEF Place, OrderRows
  <2> QED
    BY <1>6, <2>1
<1>15. CASE UNCHANGED order
  BY <1>6, <1>15
<1>16. ASSUME NEW k \in Calls, CreateFindsPaid(k) PROVE PaidIsCaptured'
  BY <1>9, <1>15, <1>16 DEF CreateFindsPaid
<1>17. CASE SettleWrites
  BY <1>9, <1>15, <1>17 DEF SettleWrites
<1> QED
  BY <1>7, <1>8, <1>10, <1>11, <1>12, <1>13, <1>14, <1>15, <1>16, <1>17, RowWriters

(* PayOrder never completes an order without its money: it was covered by  *)
(* credit, or the session its row names was captured.                      *)
THEOREM PaymentIsCaptured == Spec => []PaidIsCaptured
<1>1. CheckoutInit => Counted /\ Steady /\ PaidIsCaptured
  <2>1. CheckoutInit => Counted
    BY DEF CheckoutInit, Counted
  <2>2. CheckoutInit => Steady
    <3>1. 0 \in Calls
      BY CheckoutAssumption DEF CheckoutAssumption, Calls
    <3> QED
      BY <3>1 DEF CheckoutInit, Steady, AtItsPrice, Alone, NoRequest, Mine, Minted
  <2>3. CheckoutInit => PaidIsCaptured
    BY DEF CheckoutInit, PaidIsCaptured
  <2> QED
    BY <2>1, <2>2, <2>3
<1>2. CheckoutInv /\ Counted /\ Steady /\ PaidIsCaptured /\ [Next]_vars => Counted' /\ Steady' /\ PaidIsCaptured'
  BY FaultsGrow, SteadyStep, CapturedStep
<1> QED
  BY <1>1, <1>2, CheckoutInvariant, PTL DEF Spec

---------------------------------------------------------------------------
(* Until a call is lost or cut off: nothing is tried before the hold lets  *)
(* go, and a cancel holds it.                                              *)
Calm == faults["lost"] = 0 /\ faults["cut"] = 0
Untried == \A s \in Sessions : session[s].attempt \in {"unborn", "none", "expired"}
Hold ==
  /\ create[Mine].pc # "no" => IF create[Mine].first THEN screen = "checkout" ELSE screen \in {"result", "detail"}
  /\ screen \in {"checkout", "hold"} => Untried
  /\ cancelCall # "no" /\ Calm => screen = "hold" /\ settled
Uncharged == order.reason = "customer" /\ Calm =>
  /\ Ended /\ Untried /\ create[Mine].pc = "no"
  /\ screen = "cart" \/ (screen = "hold" /\ cancelCall = "done")

LEMMA StillCalm ==
  ASSUME Counted, Calm', [Next]_vars
  PROVE  Calm /\ ~Within("lost", MaxLost) /\ (Kill => cancelCall = "no")
<1>1. Calm
  BY FaultsGrow DEF Calm, Counted
<1>2. Within("lost", MaxLost) => faults'["lost"] = 1
  BY <1>1 DEF Within, Counted, Calm
<1>3. Kill /\ cancelCall # "no" => faults'["cut"] = 1
  BY <1>1 DEF Kill, Counted, Calm
<1> QED
  BY <1>1, <1>2, <1>3 DEF Calm

(* Nothing is tried but on the sheet.                                      *)
LEMMA UntriedStays ==
  ASSUME TypeOK, Untried, screen # "sheet", [Next]_vars
  PROVE  Untried'
<1>0. session \in [Sessions -> GatewayOrders]
  BY TypeFacts
<1>1. ASSUME NEW k \in Calls, CreateMints(k) PROVE Untried'
  BY <1>0, <1>1 DEF CreateMints, Mints, Untried
<1>2. ~Attempt
  BY DEF Attempt
<1>3. ASSUME NEW s \in Sessions, Capture(s) \/ Decline(s) \/ Expire(s) PROVE Untried'
  BY <1>0, <1>3 DEF Capture, Decline, Expire, Untried, GatewayOrders
<1> QED
  BY <1>1, <1>2, <1>3, SessionWriters DEF Untried

(* The request belongs to the screen that waits for it.                    *)
LEMMA HoldStep ==
  ASSUME TypeOK, Counted, Hold, [Next]_vars
  PROVE  Hold'
<1>0. create \in [Calls -> Requests] /\ Mine \in Calls /\ NoRequest.pc = "no" /\ 0 \in 0..MaxSessions
  BY TypeFacts DEF Mine, NoRequest
<1>1. create'[Mine].pc # "no" => IF create'[Mine].first THEN screen' = "checkout" ELSE screen' \in {"result", "detail"}
  <2>1. ASSUME NEW c \in Credits, Place(c) PROVE create'[Mine].first /\ screen' = "checkout"
    BY <1>0, <2>1 DEF Place, NoRequest, client, app
  <2>2. ASSUME NEW k \in Calls, Create(k)
        PROVE  create'[Mine].pc # "no" => create[Mine].pc # "no" /\ create'[Mine].first = create[Mine].first /\ screen' = screen
    <3>1. screen' = screen
      BY <2>2 DEF Create, CreateRead, CreditRefused, CreditTaken, CreditSettles, CreateFindsPaid, CreateReuses,
        CreateReprices, CreateKeepsId, CreateMints, CreateStamps, client, app
    <3>2. k # Mine => create'[Mine] = create[Mine]
      BY <1>0, <2>2, OthersWait
    <3>3. k = Mine => create[Mine].pc # "no"
      BY <2>2 DEF Create, CreateRead, CreditRefused, CreditTaken, CreditSettles, CreateFindsPaid, CreateReuses,
        CreateReprices, CreateKeepsId, CreateMints, CreateStamps
    <3>4. k = Mine => create'[Mine].first = create[Mine].first
      <4>1. ASSUME NEW a, NEW s, Replies(Mine, a, s) PROVE create'[Mine].first = create[Mine].first
        BY <1>0, <4>1 DEF Replies, NoRequest
      <4>2. CASE CreateRead(Mine) \/ CreditTaken(Mine) \/ CreateReprices(Mine) \/ CreateKeepsId(Mine)
                 \/ CreateMints(Mine)
        BY <1>0, <4>1, <4>2 DEF CreateRead, CreditTaken, CreateReprices, CreateKeepsId, CreateMints, Requests
      <4>3. CASE CreditRefused(Mine) \/ CreditSettles(Mine) \/ CreateFindsPaid(Mine) \/ CreateReuses(Mine)
                 \/ CreateStamps(Mine)
        BY <4>1, <4>3 DEF CreditRefused, CreditSettles, CreateFindsPaid, CreateReuses, CreateStamps
      <4> QED
        BY <2>2, <4>2, <4>3 DEF Create
    <3> QED
      BY <3>1, <3>2, <3>3, <3>4
  <2>3. CASE Answered
    BY <1>0, <2>3 DEF Answered
  <2>4. CASE Unanswered \/ Kill
    <3>1. create'[Mine] = NoRequest
      BY <1>0, <2>4, Left DEF Unanswered, Kill
    <3> QED
      BY <1>0, <3>1
  <2>5. CASE Retry \/ PayNow
    BY <1>0, <2>5 DEF Retry, PayNow, Again, NoRequest, client, app
  <2>6. CASE UNCHANGED create
    <3>1. create[Mine].pc # "no" => UNCHANGED screen \/ ViewOrder \/ Answered \/ Unanswered \/ Kill
      BY ScreenWriters DEF Hold, Proceed, Cancelled, SheetPoll, Finish, Waiting
    <3> QED
      BY <2>3, <2>4, <2>6, <3>1 DEF Hold, ViewOrder
  <2> QED
    BY <2>1, <2>2, <2>3, <2>4, <2>5, <2>6, RequestWriters DEF Hold
<1>2. screen' \in {"checkout", "hold"} => Untried'
  <2>1. screen' \in {"checkout", "hold"} => screen \in {"checkout", "hold"}
    BY ScreenWriters DEF Hold, Answered, Unanswered, Proceed, Cancelled, SheetPoll, Finish, ViewOrder, Kill
  <2> QED
    BY <2>1, UntriedStays DEF Hold
<1>3. ASSUME cancelCall' # "no", Calm' PROVE screen' = "hold" /\ settled'
  <2>1. Calm /\ ~Within("lost", MaxLost)
    BY <1>3, StillCalm
  <2>2. CASE CancelTap
    BY <2>2 DEF CancelTap
  <2>3. CASE ~CancelTap
    <3>1. cancelCall # "no"
      BY <1>3, <2>3
      DEF Next, vars, client, Create, Place, CreateRead, CreditRefused, CreditTaken, CreditSettles,
        CreateFindsPaid, CreateReuses, CreateReprices, CreateKeepsId, CreateMints, CreateStamps, Answered,
        Unanswered, Proceed, CancelRead, CancelWrites, Cancelled, CancelFailed, Attempt, SheetPoll, Finish,
        Capture, Decline, Expire, Webhook, WebhookLost, Reconcile, SettleLoads, SettleWrites, StaleProbe,
        StaleCancel, ShowSuccess, Retry, PayNow, Again, ViewOrder, Kill
    <3>2. screen = "hold" /\ settled /\ create[Mine].pc = "no" /\ ~Kill
      BY <1>3, <2>1, <3>1, StillCalm DEF Hold
    <3>3. UNCHANGED screen
      BY <1>3, <3>2, ScreenWriters DEF Answered, Unanswered, Proceed, Cancelled, SheetPoll, Finish, ViewOrder
    <3>4. settled'
      BY <1>3, <2>1, <3>2
      DEF Next, vars, client, app, Create, Place, CreateRead, CreditRefused, CreditTaken, CreditSettles,
        CreateFindsPaid, CreateReuses, CreateReprices, CreateKeepsId, CreateMints, CreateStamps, Answered,
        Unanswered, Proceed, CancelTap, CancelRead, CancelWrites, Cancelled, CancelFailed, Attempt, SheetPoll, Finish,
        Capture, Decline, Expire, Webhook, WebhookLost, Reconcile, SettleLoads, SettleWrites, StaleProbe,
        StaleCancel, ShowSuccess, Retry, PayNow, Again, ViewOrder
    <3> QED
      BY <3>2, <3>3, <3>4
  <2> QED
    BY <2>2, <2>3
<1> QED
  BY <1>1, <1>2, <1>3 DEF Hold

(* An order ends for good, and for the customer only by the hold's cancel. *)
LEMMA EndedStays ==
  ASSUME TypeOK, [Next]_vars
  PROVE  /\ Ended => Ended'
         /\ order'.reason = "customer" => order.reason = "customer" \/ (CancelWrites /\ Ended')
<1>0. order \in OrderRows /\ Completed.status = order.status /\ Completed.reason = order.reason
  BY TypeFacts DEF Completed, OrderRows
<1>1. CASE CancelWrites
  <2>1. PICK pay : order' = [order EXCEPT !.status = "cancelled", !.reason = "customer", !.pay = pay]
    BY <1>1 DEF CancelWrites
  <2> QED
    BY <1>0, <1>1, <2>1 DEF Ended, OrderRows
<1>2. ASSUME NEW c \in Credits, Place(c) PROVE ~Ended /\ order'.reason = order.reason
  BY <1>0, <1>2 DEF Place, Ended, OrderRows
<1>3. ASSUME NEW h \in hooks, Webhook(h) PROVE order'.status = order.status /\ order'.reason = order.reason
  BY <1>0, <1>3 DEF Webhook, OrderRows
<1>4. CASE StaleCancel
  BY <1>0, <1>4 DEF StaleCancel, Ended, OrderRows
<1>5. CASE order' \in {order, Completed}
  BY <1>0, <1>5 DEF Ended
<1>6. ASSUME NEW k \in Calls, CreditSettles(k) \/ CreateStamps(k)
      PROVE  order'.status = order.status /\ order'.reason = order.reason
  BY <1>0, <1>6 DEF CreditSettles, CreateStamps, OrderRows
<1> QED
  BY <1>1, <1>2, <1>3, <1>4, <1>5, <1>6, RowWriters
  DEF Ended, CreateFindsPaid, CompletesFrom, SheetPoll, Finish, Reconcile, SettleWrites

LEMMA UnchargedStep ==
  ASSUME TypeOK, Counted, Hold, Uncharged, [Next]_vars
  PROVE  Uncharged'
<1> SUFFICES ASSUME order'.reason = "customer", Calm'
             PROVE  /\ Ended' /\ Untried' /\ create'[Mine].pc = "no"
                    /\ screen' = "cart" \/ (screen' = "hold" /\ cancelCall' = "done")
  BY DEF Uncharged
<1>0. Calm /\ ~Within("lost", MaxLost) /\ (Kill => cancelCall = "no")
  BY StillCalm
<1>a. create \in [Calls -> Requests] /\ Mine \in Calls /\ NoRequest.pc = "no" /\ order \in OrderRows
  BY TypeFacts DEF Mine, NoRequest
<1>1. CASE order.reason = "customer"
  <2>1. Ended /\ Untried /\ create[Mine].pc = "no" /\ (screen = "cart" \/ (screen = "hold" /\ cancelCall = "done" /\ settled))
    BY <1>0, <1>1 DEF Uncharged, Hold
  <2>2. ~Kill /\ ~Answered /\ ~Unanswered /\ ~Retry /\ ~PayNow /\ ~CancelFailed
    BY <1>0, <2>1 DEF Kill, Answered, Unanswered, Retry, PayNow, CancelFailed, Waiting
  <2>3. create'[Mine].pc = "no"
    <3>1. ASSUME NEW k \in Calls, Create(k) PROVE create'[Mine] = create[Mine]
      <4>1. k # Mine
        BY <2>1, <3>1 DEF Create, CreateRead, CreditRefused, CreditTaken, CreditSettles, CreateFindsPaid,
          CreateReuses, CreateReprices, CreateKeepsId, CreateMints, CreateStamps
      <4> QED
        BY <1>a, <3>1, <4>1, OthersWait
    <3>2. ASSUME NEW c \in Credits, Place(c) PROVE FALSE
      BY <2>1, <3>2 DEF Place, Ended
    <3> QED
      BY <2>1, <2>2, <3>1, <3>2, RequestWriters
  <2>4. screen' = "cart" \/ (screen' = "hold" /\ cancelCall' = "done")
    <3>1. CASE Cancelled
      BY <3>1 DEF Cancelled
    <3>2. CASE ~Cancelled
      <4>1. UNCHANGED screen
        BY <2>1, <2>2, <3>2, ScreenWriters DEF Proceed, SheetPoll, Finish, ViewOrder
      <4>2. screen = "hold" => cancelCall' = cancelCall
        BY <2>1, <2>2, <3>2
        DEF Next, vars, client, Create, Place, CreateRead, CreditRefused, CreditTaken, CreditSettles,
          CreateFindsPaid, CreateReuses, CreateReprices, CreateKeepsId, CreateMints, CreateStamps, Proceed,
          CancelTap, CancelRead, CancelWrites, Attempt, SheetPoll, Finish, Capture, Decline, Expire, Webhook,
          WebhookLost, Reconcile, SettleLoads, SettleWrites, StaleProbe, StaleCancel, ShowSuccess, ViewOrder
      <4> QED
        BY <2>1, <4>1, <4>2
    <3> QED
      BY <3>1, <3>2
  <2>5. Ended' /\ Untried'
    BY <2>1, EndedStays, UntriedStays
  <2> QED
    BY <2>3, <2>4, <2>5
<1>2. CASE order.reason # "customer"
  <2>1. CancelWrites /\ Ended'
    BY <1>2, EndedStays
  <2>2. screen = "hold" /\ settled /\ create[Mine].pc = "no" /\ Untried
    BY <1>0, <2>1 DEF CancelWrites, Hold
  <2>3. cancelCall' = "done" /\ UNCHANGED <<screen, create>>
    BY <2>1, <2>2 DEF CancelWrites, Waiting, app
  <2>4. Untried'
    BY <2>2, UntriedStays
  <2> QED
    BY <2>1, <2>2, <2>3, <2>4
<1> QED
  BY <1>1, <1>2

(* An order cancelled on the hold costs nothing, as long as every call is  *)
(* answered and none is cut off (the hold's latch).                        *)
THEOREM CancelCostsNothing == Spec => []CancelledIsUncharged
<1>1. CheckoutInit => Counted /\ Hold /\ Uncharged
  <2>1. 0 \in Calls
    BY CheckoutAssumption DEF CheckoutAssumption, Calls
  <2> QED
    BY <2>1 DEF CheckoutInit, Counted, Hold, Uncharged, Untried, NoRequest, Mine
<1>2. CheckoutInv /\ Counted /\ Hold /\ Uncharged /\ [Next]_vars => Counted' /\ Hold' /\ Uncharged'
  BY FaultsGrow, HoldStep, UnchargedStep DEF CheckoutInv
<1>3. Counted /\ Uncharged => CancelledIsUncharged
  <2>1. Counted /\ faults["lost"] + faults["cut"] = 0 => Calm
    BY DEF Counted, Calm
  <2> QED
    BY <2>1 DEF Uncharged, Untried, CancelledIsUncharged, Captured
<1> QED
  BY <1>1, <1>2, <1>3, CheckoutInvariant, PTL DEF Spec
---------------------------------------------------------------------------
(* The web basket, for any menu, any clock and any number of orders.       *)
CONSTANTS Dishes, Kitchen, Price, Past, MaxClock, MaxQuantity, MaxOrders, MaxFaults
VARIABLES clock, items, chefId, promo, asking, reorder, page, orders, here
Web == INSTANCE WebBasket

(* While the page that placed an order is on screen, the basket is what    *)
(* that order holds.                                                       *)
OrderIsBasket ==
  here # 0 => page = "checkout" /\ orders[here].contents = Web!Contents

(* OneKitchen line by line.                                                *)
LinesAreKitchens ==
  /\ \A l \in items : Kitchen[l.dish] = chefId
  /\ items = {} => chefId = "none"

BasketInv == Web!TypeOK /\ LinesAreKitchens /\ OrderIsBasket

(* Lines that are added or merged are lines, of the dishes there were and  *)
(* the dishes added.                                                       *)
LEMMA WithLines ==
  ASSUME Web!WebBasketAssumption, clock \in Nat, NEW lines \in SUBSET Web!Line, NEW ds \in SUBSET Dishes,
         Web!Fits(Web!With(lines, ds))
  PROVE  /\ Web!With(lines, ds) \subseteq Web!Line
         /\ \A l \in Web!With(lines, ds) : l.dish \in ds \/ \E k \in lines : l.dish = k.dish
<1> SUFFICES ASSUME NEW l \in Web!With(lines, ds)
             PROVE  l \in Web!Line /\ (l.dish \in ds \/ \E k \in lines : l.dish = k.dish)
  OBVIOUS
<1>1. l.qty <= MaxQuantity
  BY DEF Web!Fits
<1>2. CASE \E k \in lines : l = (IF k.dish \in ds THEN [k EXCEPT !.qty = @ + 1] ELSE k)
  <2>1. PICK k \in lines : l = (IF k.dish \in ds THEN [k EXCEPT !.qty = @ + 1] ELSE k)
    BY <1>2
  <2>2. k \in Web!Line
    OBVIOUS
  <2> QED
    BY <2>1, <2>2, <1>1 DEF Web!Line, Web!WebBasketAssumption
<1>3. CASE \E d \in ds : l = [id |-> Web!LineId(d), dish |-> d, qty |-> 1]
  BY <1>3 DEF Web!Line, Web!LineId, Web!WebBasketAssumption
<1> QED
  BY <1>2, <1>3 DEF Web!With

(* Adding dishes leaves something in the basket.                           *)
LEMMA WithSomething ==
  ASSUME NEW lines, NEW ds, ds # {}
  PROVE  Web!With(lines, ds) # {}
<1>1. PICK d \in ds : TRUE
  OBVIOUS
<1>2. CASE lines = {}
  <2>1. [id |-> Web!LineId(d), dish |-> d, qty |-> 1] \in Web!With(lines, ds)
    BY <1>2 DEF Web!With
  <2> QED
    BY <2>1
<1>3. CASE lines # {}
  <2>1. PICK k \in lines : TRUE
    BY <1>3
  <2>2. (IF k.dish \in ds THEN [k EXCEPT !.qty = @ + 1] ELSE k) \in Web!With(lines, ds)
    BY DEF Web!With
  <2> QED
    BY <2>2
<1> QED
  BY <1>2, <1>3

(* A single new line needs no bound.                                       *)
LEMMA FirstLine ==
  ASSUME Web!WebBasketAssumption, NEW d \in Dishes
  PROVE  Web!Fits(Web!With({}, {d}))
  BY DEF Web!With, Web!Fits, Web!WebBasketAssumption

(* The basket as an order lists it.                                        *)
LEMMA ContentsType ==
  ASSUME items \subseteq Web!Line
  PROVE  Web!Contents \in SUBSET (Dishes \X (1..MaxQuantity))
  BY DEF Web!Contents, Web!Line

(* Dishes of one kitchen added to a basket of theirs, or to an empty one.  *)
LEMMA Filled ==
  ASSUME Web!WebBasketAssumption, Web!TypeOK,
         NEW lines \in SUBSET Web!Line, NEW ds \in SUBSET Dishes, ds # {},
         items' = Web!With(lines, ds), Web!Fits(Web!With(lines, ds)),
         \A d \in ds : Kitchen[d] = chefId', \A l \in lines : Kitchen[l.dish] = chefId'
  PROVE  items' \subseteq Web!Line /\ items' # {} /\ LinesAreKitchens'
<1>1. clock \in Nat
  BY DEF Web!TypeOK, Web!WebBasketAssumption
<1>2. items' # {}
  BY WithSomething
<1>3. /\ items' \subseteq Web!Line
      /\ \A l \in items' : l.dish \in ds \/ \E k \in lines : l.dish = k.dish
  BY <1>1, WithLines
<1>4. \A l \in items' : Kitchen[l.dish] = chefId'
  BY <1>3
<1> QED
  BY <1>2, <1>3, <1>4 DEF LinesAreKitchens

---------------------------------------------------------------------------
LEMMA BasketInit == Web!WebBasketAssumption /\ Web!WebInit => BasketInv
<1> SUFFICES ASSUME Web!WebBasketAssumption, Web!WebInit
             PROVE  BasketInv
  OBVIOUS
<1>1. <<>> \in Seq(Web!Order)
  OBVIOUS
<1>2. Web!TypeOK
  BY <1>1 DEF Web!WebInit, Web!TypeOK, Web!Pages, Web!WebBasketAssumption, Web!Latest
<1> QED
  BY <1>2 DEF Web!WebInit, BasketInv, LinesAreKitchens, OrderIsBasket

(* Steps that leave the basket and the orders alone.                       *)
LEMMA Elsewhere ==
  ASSUME BasketInv, UNCHANGED <<clock, items, chefId, orders, faults>>, page' \in Web!Pages,
         here' = 0 \/ UNCHANGED <<page, here>>
  PROVE  BasketInv'
  BY DEF BasketInv, Web!TypeOK, LinesAreKitchens, OrderIsBasket, Web!Contents, Web!Latest

(* Steps that change the basket, none of them on the page of a checkout.   *)
LEMMA Browsing ==
  ASSUME BasketInv, page' \in Web!Pages, clock' \in 0..MaxClock, page # "checkout", here' \in {here, 0},
         items' \subseteq Web!Line, LinesAreKitchens', UNCHANGED <<orders, faults>>
  PROVE  BasketInv'
  BY DEF BasketInv, Web!TypeOK, OrderIsBasket, Web!Latest

(* Emptying the basket leaves it nobody's.                                 *)
LEMMA EmptiedIsFine == Web!Emptied => items' \subseteq Web!Line /\ LinesAreKitchens'
  BY DEF Web!Emptied, LinesAreKitchens

(* A handler records how far its order got without changing what it holds. *)
LEMMA Recorded ==
  ASSUME Web!TypeOK, NEW i \in 1..Len(orders), NEW s \in Web!Steps, NEW p \in Web!Payments, Web!Moves(i, s, p)
  PROVE  /\ orders' \in Seq(Web!Order) /\ Len(orders') = Len(orders)
         /\ \A j \in 1..Len(orders) : orders'[j].contents = orders[j].contents
         /\ orders'[i].step = s /\ orders'[i].pay = p
<1> DEFINE new == [contents |-> orders[i].contents, step |-> s, pay |-> p]
<1>1. orders \in Seq(Web!Order) /\ orders[i] \in Web!Order
  BY DEF Web!TypeOK
<1>2. new \in Web!Order
  BY <1>1 DEF Web!Order
<1>3. orders' = [orders EXCEPT ![i] = new]
  BY DEF Web!Moves
<1> HIDE DEF new
<1>4. orders' \in Seq(Web!Order) /\ Len(orders') = Len(orders)
  BY <1>1, <1>2, <1>3
<1>5. \A j \in 1..Len(orders) : orders'[j] = IF j = i THEN new ELSE orders[j]
  BY <1>1, <1>3
<1>6. new.contents = orders[i].contents /\ new.step = s /\ new.pay = p
  BY DEF new
<1> QED
  BY <1>4, <1>5, <1>6

(* An order placed holds the basket.                                       *)
LEMMA Placed ==
  ASSUME Web!TypeOK, orders' = Append(orders, [contents |-> Web!Contents, step |-> "placing", pay |-> "none"])
  PROVE  /\ orders' \in Seq(Web!Order) /\ Len(orders') = Len(orders) + 1
         /\ orders'[Len(orders) + 1].contents = Web!Contents
<1>1. [contents |-> Web!Contents, step |-> "placing", pay |-> "none"] \in Web!Order
  BY ContentsType DEF Web!TypeOK, Web!Order, Web!Payments, Web!Steps
<1>2. orders \in Seq(Web!Order) /\ Len(orders) \in Nat
  BY DEF Web!TypeOK
<1> QED
  BY <1>1, <1>2

(* A handler's step moves one order on; unless it ends the page it was     *)
(* started from, it leaves the basket as it is.                            *)
LEMMA HandlerMoves ==
  ASSUME Web!WebBasketAssumption, Web!TypeOK, NEW i \in 1..Len(orders), Web!Handler(i)
  PROVE  /\ \E s \in Web!Steps, p \in Web!Payments : Web!Moves(i, s, p)
         /\ clock' = clock /\ faults' \in {faults, faults + 1} /\ faults' \in 0..MaxFaults
         /\ \/ UNCHANGED <<items, chefId>> /\ (page' = page /\ here' \in {here, 0})
            \/ UNCHANGED <<items, chefId>> /\ Web!Navigates
            \/ Web!Emptied /\ Web!Navigates
<1> USE DEF Web!basket
<1>1. orders[i].pay \in Web!Payments /\ orders[i].step \in Web!Steps /\ faults \in 0..MaxFaults
  <2>1. orders[i] \in Web!Order /\ faults \in 0..MaxFaults
    BY DEF Web!TypeOK
  <2> QED
    BY <2>1 DEF Web!Order
<1>2. Web!Fault => faults' = faults + 1 /\ faults' \in 0..MaxFaults
  BY <1>1 DEF Web!Fault, Web!WebBasketAssumption
<1>3. Web!Stays(i) => page' = page /\ here' \in {here, 0}
  BY DEF Web!Stays
<1>4. CASE Web!PlaceServed(i)
  BY <1>4, <1>1 DEF Web!PlaceServed, Web!Payments, Web!Steps
<1>5. CASE Web!PlaceFails(i)
  BY <1>5, <1>2, <1>3 DEF Web!PlaceFails, Web!Payments, Web!Steps
<1>6. CASE Web!CreateByCredit(i)
  BY <1>6, <1>1, <1>2 DEF Web!CreateByCredit, Web!Payments, Web!Steps
<1>7. CASE Web!CreateAnswered(i)
  BY <1>7, <1>1 DEF Web!CreateAnswered, Web!Payments, Web!Steps
<1>8. CASE Web!CreateFails(i)
  BY <1>8, <1>2, <1>3 DEF Web!CreateFails, Web!Payments, Web!Steps
<1>9. CASE Web!Attempt(i)
  BY <1>9, <1>1 DEF Web!Attempt, Web!Payments, Web!Steps
<1>10. CASE Web!Ends(i, "captured") \/ Web!Ends(i, "failed")
  BY <1>10, <1>1 DEF Web!Ends, Web!Payments
<1>11. CASE Web!SheetError(i)
  BY <1>11, <1>1, <1>3 DEF Web!SheetError, Web!Steps
<1>12. CASE Web!SheetEnds(i)
  BY <1>12, <1>1 DEF Web!SheetEnds, Web!Steps
<1>13. CASE Web!Verified(i)
  BY <1>13, <1>1 DEF Web!Verified, Web!Payments, Web!Steps
<1>14. CASE Web!VerifyFails(i)
  BY <1>14, <1>1, <1>2 DEF Web!VerifyFails, Web!Steps
<1> QED
  BY <1>4, <1>5, <1>6, <1>7, <1>8, <1>9, <1>10, <1>11, <1>12, <1>13, <1>14 DEF Web!Handler

LEMMA BasketStays ==
  ASSUME Web!WebBasketAssumption, BasketInv, [Web!Next]_Web!vars
  PROVE  BasketInv'
<1> USE DEF Web!vars, Web!basket, Web!Pages
<1>a. /\ Web!TypeOK /\ LinesAreKitchens /\ OrderIsBasket
      /\ clock \in 0..MaxClock /\ faults \in 0..MaxFaults /\ page \in Web!Pages
      /\ items \subseteq Web!Line /\ orders \in Seq(Web!Order) /\ Len(orders) \in Nat
      /\ here \in 0..Len(orders) /\ MaxClock \in Nat /\ MaxFaults \in Nat
  BY DEF BasketInv, Web!TypeOK, Web!WebBasketAssumption, Web!Latest
<1>b. Web!Tick => clock' \in 0..MaxClock
  BY <1>a DEF Web!Tick
<1>d. \A l \in items : l.dish \in Dishes /\ Kitchen[l.dish] = chefId /\ chefId # "none"
  BY <1>a DEF LinesAreKitchens, Web!Line, Web!WebBasketAssumption
<1>1. ASSUME NEW p \in Web!Pages, Web!Go(p)
      PROVE  BasketInv'
  BY <1>1, <1>a, Elsewhere DEF Web!Go
<1>2. ASSUME NEW d \in Dishes, Web!Add(d)
      PROVE  BasketInv'
  <2>1. /\ chefId \in {"none", Kitchen[d]} /\ chefId' = Kitchen[d]
        /\ items' = Web!With(items, {d}) /\ Web!Fits(Web!With(items, {d}))
    BY <1>2 DEF Web!Add
  <2>3. {d} \in SUBSET Dishes /\ {d} # {} /\ items \in SUBSET Web!Line
    BY <1>a
  <2>4. \A e \in {d} : Kitchen[e] = chefId'
    BY <2>1
  <2>5. \A l \in items : Kitchen[l.dish] = chefId'
    BY <2>1, <1>d
  <2>2. items' \subseteq Web!Line /\ LinesAreKitchens'
    BY <2>1, <2>3, <2>4, <2>5, <1>a, Filled
  <2> QED
    BY <1>2, <1>a, <1>b, <2>2, Browsing DEF Web!Add
<1>3. ASSUME NEW d \in Dishes, Web!Replace(d)
      PROVE  BasketInv'
  <2>1. items' \subseteq Web!Line /\ LinesAreKitchens'
    <3>1. items' = Web!With({}, {d}) /\ chefId' = Kitchen[d]
      BY <1>3 DEF Web!Replace
    <3>2. {d} \in SUBSET Dishes /\ {d} # {} /\ {} \in SUBSET Web!Line
      OBVIOUS
    <3>3. Web!Fits(Web!With({}, {d}))
      BY FirstLine
    <3>4. \A e \in {d} : Kitchen[e] = chefId'
      BY <3>1
    <3> QED
      BY <3>1, <3>2, <3>3, <3>4, <1>a, Filled
  <2> QED
    BY <1>3, <1>a, <1>b, <2>1, Browsing DEF Web!Replace
<1>4. ASSUME NEW l \in items, Web!Remove(l)
      PROVE  BasketInv'
  <2>1. items' \subseteq Web!Line /\ LinesAreKitchens'
    BY <1>4, <1>a DEF Web!Remove, LinesAreKitchens
  <2> QED
    BY <1>4, <1>a, <2>1, Browsing DEF Web!Remove
<1>5. ASSUME NEW l \in items, NEW q \in 1..MaxQuantity, Web!SetQuantity(l, q)
      PROVE  BasketInv'
  <2>1. \A k \in Web!Line : [k EXCEPT !.qty = q] \in Web!Line /\ [k EXCEPT !.qty = q].dish = k.dish
    BY DEF Web!Line
  <2>2. items' = {IF k.id = l.id THEN [k EXCEPT !.qty = q] ELSE k : k \in items} /\ chefId' = chefId
    BY <1>5 DEF Web!SetQuantity
  <2>3. items' \subseteq Web!Line /\ LinesAreKitchens'
    <3>1. ASSUME NEW k \in items'
          PROVE  k \in Web!Line /\ Kitchen[k.dish] = chefId
      <4>1. PICK j \in items : k = IF j.id = l.id THEN [j EXCEPT !.qty = q] ELSE j
        BY <2>2
      <4>2. j \in Web!Line /\ Kitchen[j.dish] = chefId
        BY <1>a, <1>d
      <4> QED
        BY <4>1, <4>2, <2>1
    <3>2. items' # {}
      BY <2>2
    <3> QED
      BY <3>1, <3>2, <2>2 DEF LinesAreKitchens
  <2> QED
    BY <1>5, <1>a, <2>3, Browsing DEF Web!SetQuantity
<1>6. CASE Web!Clear
  BY <1>6, <1>a, EmptiedIsFine, Browsing DEF Web!Clear
<1>7. CASE Web!AskPromo \/ Web!PromoAnswered \/ Web!ReorderEmpty \/ Web!AskReorder
  BY <1>7, <1>a, Elsewhere DEF Web!AskPromo, Web!PromoAnswered, Web!ReorderEmpty, Web!AskReorder
<1>8. ASSUME NEW ds \in SUBSET Past, Web!ReorderThrows(ds)
      PROVE  BasketInv'
  BY <1>8, <1>a, Elsewhere DEF Web!ReorderThrows
<1>9. ASSUME NEW ds \in SUBSET Past, Web!ReorderAnswered(ds)
      PROVE  BasketInv'
  <2> DEFINE lines == IF Web!Foreign(ds) THEN {} ELSE items
             c == CHOOSE d \in ds : TRUE
  <2>1. c \in ds /\ ds \in SUBSET Dishes /\ chefId' = Kitchen[c]
    BY <1>9 DEF Web!ReorderAnswered, Web!WebBasketAssumption
  <2>2. \A d \in ds : Kitchen[d] = chefId'
    BY <2>1 DEF Web!WebBasketAssumption
  <2>3. \A l \in lines : Kitchen[l.dish] = chefId'
    <3>1. CASE Web!Foreign(ds)
      BY <3>1
    <3>2. CASE ~Web!Foreign(ds)
      <4>1. chefId \in {"none", Kitchen[c]}
        BY <3>2, <2>1, <1>9 DEF Web!ReorderAnswered, Web!Refused
      <4> QED
        BY <4>1, <3>2, <2>1, <1>d
    <3> QED
      BY <3>1, <3>2
  <2>4. lines \in SUBSET Web!Line /\ items' = Web!With(lines, ds) /\ Web!Fits(Web!With(lines, ds)) /\ ds # {}
    BY <1>9, <1>a DEF Web!ReorderAnswered
  <2> HIDE DEF lines
  <2>5. items' \subseteq Web!Line /\ LinesAreKitchens'
    BY <2>1, <2>2, <2>3, <2>4, <1>a, Filled
  <2>6. page' = "shop" /\ here' = 0 /\ UNCHANGED <<orders, faults>> /\ clock' \in 0..MaxClock
    BY <1>9, <1>b DEF Web!ReorderAnswered
  <2> QED
    BY <1>a, <2>5, <2>6 DEF BasketInv, Web!TypeOK, OrderIsBasket, Web!Latest
<1>10. CASE Web!Place
  <2>1. /\ orders' \in Seq(Web!Order) /\ Len(orders') = Len(orders) + 1
        /\ orders'[Len(orders) + 1].contents = Web!Contents
    BY <1>10, <1>a, Placed DEF Web!Place
  <2>2. here' = Len(orders) + 1 /\ page' = "checkout" /\ UNCHANGED <<clock, items, chefId, faults>>
    BY <1>10, <2>1 DEF Web!Place, Web!Latest
  <2>3. here' \in 0..Len(orders') /\ Web!Contents' = Web!Contents
    BY <2>1, <2>2, <1>a DEF Web!Contents
  <2> QED
    BY <1>a, <2>1, <2>2, <2>3 DEF BasketInv, Web!TypeOK, LinesAreKitchens, OrderIsBasket, Web!Latest
<1>11. ASSUME NEW i \in 1..Web!Latest, Web!Handler(i)
       PROVE  BasketInv'
  <2>0. i \in 1..Len(orders)
    BY DEF Web!Latest
  <2>1. /\ \E s \in Web!Steps, p \in Web!Payments : Web!Moves(i, s, p)
        /\ clock' = clock /\ faults' \in 0..MaxFaults
        /\ \/ UNCHANGED <<items, chefId>> /\ (page' = page /\ here' \in {here, 0})
           \/ UNCHANGED <<items, chefId>> /\ Web!Navigates
           \/ Web!Emptied /\ Web!Navigates
    BY <1>11, <1>a, <2>0, HandlerMoves
  <2>2. /\ orders' \in Seq(Web!Order) /\ Len(orders') = Len(orders)
        /\ \A j \in 1..Len(orders) : orders'[j].contents = orders[j].contents
    BY <2>1, <2>0, <1>a, Recorded
  <2>3. CASE UNCHANGED <<items, chefId>> /\ (page' = page /\ here' \in {here, 0})
    BY <2>1, <2>2, <2>3, <1>a
      DEF BasketInv, Web!TypeOK, LinesAreKitchens, OrderIsBasket, Web!Contents, Web!Latest
  <2>4. CASE UNCHANGED <<items, chefId>> /\ Web!Navigates
    BY <2>1, <2>2, <2>4, <1>a
      DEF BasketInv, Web!TypeOK, LinesAreKitchens, OrderIsBasket, Web!Navigates, Web!Latest
  <2>5. CASE Web!Emptied /\ Web!Navigates
    BY <2>1, <2>2, <2>5, <1>a, EmptiedIsFine
      DEF BasketInv, Web!TypeOK, OrderIsBasket, Web!Navigates, Web!Latest
  <2> QED
    BY <2>1, <2>3, <2>4, <2>5
<1>12. CASE UNCHANGED Web!vars
  BY <1>12, <1>a, Elsewhere
<1> QED
  BY <1>1, <1>2, <1>3, <1>4, <1>5, <1>6, <1>7, <1>8, <1>9, <1>10, <1>11, <1>12 DEF Web!Next

---------------------------------------------------------------------------
(* Through every way of filling, replacing and emptying it, reorders and   *)
(* payments answered after their page was left included, the basket is one *)
(* kitchen's and an empty one is nobody's.                                 *)
THEOREM WebBasketIsOneKitchens == Web!WebBasketAssumption /\ Web!Spec => []Web!OneKitchen
<1>1. Web!WebBasketAssumption /\ BasketInv /\ [Web!Next]_Web!vars => BasketInv'
  BY BasketStays
<1>2. ASSUME Web!WebBasketAssumption
      PROVE  BasketInv => Web!OneKitchen
  <2>1. ASSUME BasketInv
        PROVE  Web!OneKitchen
    <3>1. /\ \A l \in items : Kitchen[l.dish] = chefId /\ l.dish \in Dishes
          /\ items = {} => chefId = "none"
      BY <2>1 DEF BasketInv, Web!TypeOK, LinesAreKitchens, Web!Line
    <3>2. \A l \in items : chefId # "none"
      BY <3>1, <1>2 DEF Web!WebBasketAssumption
    <3> QED
      BY <3>1, <3>2 DEF Web!OneKitchen, Web!Ordered
  <2> QED
    BY <2>1
<1>3. ASSUME Web!WebBasketAssumption
      PROVE  Web!Spec => []Web!OneKitchen
  BY <1>3, <1>1, <1>2, BasketInit, PTL DEF Web!Spec
<1> QED
  BY <1>3

(* Checkout gives the basket away only as one order ends that was captured *)
(* or for which credit was taken, and from a customer who stayed on its    *)
(* page exactly what that order holds: however many orders, attempts, lost *)
(* answers and failed writes there were, and whatever else the customer    *)
(* did while the calls were under way.                                     *)
THEOREM CheckoutEmptiesPaid == Web!WebBasketAssumption /\ Web!Spec => Web!EmptiedMeansPaid
<1>1. Web!WebBasketAssumption /\ BasketInv /\ [Web!Next]_Web!vars => BasketInv'
  BY BasketStays
<1> DEFINE Given(i) == /\ orders[i].step # "over" /\ orders'[i].step = "over"
                       /\ orders'[i].pay \in {"captured", "debited"}
                       /\ here = i => orders[i].contents = Web!Contents
           Step == (items # {} /\ items' = {} /\ page' # "cart") => \E i \in 1..Web!Latest : Given(i)
<1>2. ASSUME Web!WebBasketAssumption, BasketInv, Web!Next
      PROVE  Step
  <2> SUFFICES ASSUME items # {}, items' = {}, page' # "cart"
               PROVE  \E i \in 1..Web!Latest : Given(i)
    OBVIOUS
  <2>1. PICK i \in 1..Web!Latest : Web!Handler(i)
    <3>1. \A d \in Dishes : ~Web!Add(d) /\ ~Web!Replace(d)
      BY WithSomething DEF Web!Add, Web!Replace
    <3>2. \A ds \in SUBSET Past : ~Web!ReorderAnswered(ds) /\ ~Web!ReorderThrows(ds)
      BY WithSomething DEF Web!ReorderAnswered, Web!ReorderThrows, Web!basket
    <3>3. \A l \in items : ~Web!Remove(l) /\ \A q \in 1..MaxQuantity : ~Web!SetQuantity(l, q)
      BY DEF Web!Remove, Web!SetQuantity
    <3>4. \A p \in Web!Pages : ~Web!Go(p)
      BY DEF Web!Go, Web!basket
    <3>5. ~Web!Clear
      BY DEF Web!Clear
    <3>6. ~(Web!AskPromo \/ Web!PromoAnswered \/ Web!AskReorder \/ Web!ReorderEmpty \/ Web!Place)
      BY DEF Web!AskPromo, Web!PromoAnswered, Web!AskReorder, Web!ReorderEmpty, Web!Place, Web!basket
    <3> QED
      BY <1>2, <3>1, <3>2, <3>3, <3>4, <3>5, <3>6 DEF Web!Next
  <2>2. Web!CreateByCredit(i) \/ Web!Verified(i)
    BY <2>1 DEF Web!Handler, Web!PlaceServed, Web!PlaceFails, Web!CreateAnswered, Web!CreateFails, Web!Attempt,
      Web!Ends, Web!SheetError, Web!SheetEnds, Web!VerifyFails, Web!basket
  <2>3. PICK p \in {"captured", "debited"} : Web!Moves(i, "over", p)
    BY <2>2 DEF Web!CreateByCredit, Web!Verified
  <2>4. orders[i].step # "over"
    BY <2>2 DEF Web!CreateByCredit, Web!Verified
  <2>5. i \in 1..Len(orders) /\ Web!TypeOK /\ "over" \in Web!Steps /\ p \in Web!Payments
    BY <1>2 DEF BasketInv, Web!Latest, Web!Steps, Web!Payments
  <2>6. orders'[i].step = "over" /\ orders'[i].pay = p
    BY <2>3, <2>5, Recorded
  <2>7. here = i => orders[i].contents = Web!Contents
    BY <2>5, <1>2 DEF BasketInv, OrderIsBasket
  <2> QED
    BY <2>3, <2>4, <2>6, <2>7
<1>3. ASSUME Web!WebBasketAssumption, BasketInv, [Web!Next]_Web!vars
      PROVE  [Step]_Web!vars
  BY <1>3, <1>2
<1>4. ASSUME Web!WebBasketAssumption
      PROVE  Web!Spec => Web!EmptiedMeansPaid
  BY <1>4, <1>1, <1>3, BasketInit, PTL DEF Web!Spec, Web!EmptiedMeansPaid
<1> QED
  BY <1>4

---------------------------------------------------------------------------
(* The customer app's basket, over the names it shares with the web's and  *)
(* the checkout's: the three are never used together.                      *)
VARIABLE dialog
Phone == INSTANCE PhoneBasket

Alike(ds) == \A d, e \in ds : Kitchen[d] = Kitchen[e]
Kitchens == {Kitchen[d] : d \in Dishes} \cup {"none"}
Baskets == [Dishes -> 0..MaxQuantity]

(* The dishes a dialog is about are one kitchen's: they are one dish of a  *)
(* menu, or the available part of one earlier order.                       *)
DialogIsAlike == dialog.dishes \subseteq Dishes /\ Alike(dialog.dishes)

PhoneInv == Phone!TypeOK /\ Phone!OneKitchen /\ DialogIsAlike

(* addItem keeps a basket of one kitchen one kitchen's: it takes nothing   *)
(* from another, and the first dish of an empty basket names the kitchen.  *)
LEMMA PutKeeps ==
  ASSUME Phone!PhoneBasketAssumption,
         NEW b \in Baskets, NEW k \in Kitchens, NEW ds \in SUBSET Dishes, Alike(ds),
         \A d \in Dishes : b[d] > 0 => Kitchen[d] = k,
         Phone!Put(b, k, ds)
  PROVE  /\ items' \in Baskets /\ chefId' \in Kitchens
         /\ \A d \in Dishes : items'[d] > 0 => Kitchen[d] = chefId'
<1> DEFINE t == Phone!Taken(k, ds)
<1>1. t \subseteq ds /\ \A d \in t : k = "none" \/ k = Kitchen[d]
  BY DEF Phone!Taken
<1>2. items' = [d \in Dishes |-> IF d \in t /\ b[d] < MaxQuantity THEN b[d] + 1 ELSE b[d]]
  BY DEF Phone!Put, Phone!Plus
<1>3. items' \in Baskets
  BY <1>2 DEF Baskets, Phone!PhoneBasketAssumption
<1>4. \A d \in Dishes : items'[d] > 0 => d \in t \/ b[d] > 0
  BY <1>2
<1>5. CASE t = {}
  <2>1. chefId' = k
    BY <1>5 DEF Phone!Put, Phone!KitchenAfter
  <2> QED
    BY <2>1, <1>3, <1>4, <1>5
<1>6. CASE t # {}
  <2> DEFINE c == CHOOSE d \in t : TRUE
  <2>1. c \in t
    BY <1>6
  <2>2. chefId' = Kitchen[c]
    BY <1>6 DEF Phone!Put, Phone!KitchenAfter
  <2>3. chefId' \in Kitchens
    BY <2>1, <2>2, <1>1 DEF Kitchens
  <2> HIDE DEF c, t
  <2>4. \A d \in t : Kitchen[d] = Kitchen[c]
    BY <2>1, <1>1 DEF Alike
  <2>5. ASSUME NEW d \in Dishes, b[d] > 0
        PROVE  Kitchen[d] = Kitchen[c]
    <3>1. Kitchen[d] = k /\ k # "none"
      BY <2>5 DEF Phone!PhoneBasketAssumption
    <3> QED
      BY <3>1, <2>1, <1>1
  <2> QED
    BY <2>2, <2>3, <2>4, <2>5, <1>3, <1>4
<1> QED
  BY <1>5, <1>6

(* A step that adds the dishes of a dialog, of an earlier order or of a    *)
(* tap to the basket, or to an empty one, keeps the invariant's basket.    *)
LEMMA PutInBasket ==
  ASSUME Phone!PhoneBasketAssumption, PhoneInv, NEW ds \in SUBSET Dishes, Alike(ds),
         Phone!Put(items, chefId, ds) \/ Phone!Put(Phone!Empty, "none", ds)
  PROVE  /\ items' \in Baskets /\ chefId' \in Kitchens
         /\ \A d \in Dishes : items'[d] > 0 => Kitchen[d] = chefId'
<1>1. CASE Phone!Put(items, chefId, ds)
  <2>1. items \in Baskets /\ chefId \in Kitchens
    BY DEF PhoneInv, Phone!TypeOK, Baskets, Kitchens
  <2>2. \A d \in Dishes : items[d] > 0 => Kitchen[d] = chefId
    BY DEF PhoneInv, Phone!OneKitchen, Phone!InBasket
  <2> QED
    BY <1>1, <2>1, <2>2, PutKeeps
<1>2. CASE Phone!Put(Phone!Empty, "none", ds)
  <2>1. Phone!Empty \in Baskets /\ "none" \in Kitchens
    BY DEF Phone!Empty, Baskets, Kitchens, Phone!PhoneBasketAssumption
  <2>2. \A d \in Dishes : Phone!Empty[d] > 0 => Kitchen[d] = "none"
    BY DEF Phone!Empty
  <2> QED
    BY <1>2, <2>1, <2>2, PutKeeps
<1> QED
  BY <1>1, <1>2

---------------------------------------------------------------------------
(* An emptied basket, and one with less in it, is still one kitchen's.     *)
LEMMA PhoneInvInit == Phone!PhoneBasketAssumption /\ Phone!PhoneInit => PhoneInv
<1> SUFFICES ASSUME Phone!PhoneBasketAssumption, Phone!PhoneInit
             PROVE  PhoneInv
  OBVIOUS
<1>1. items = [d \in Dishes |-> 0] /\ chefId = "none" /\ dialog.dishes = {}
      /\ reorder = FALSE /\ screen = "menu"
  BY DEF Phone!PhoneInit, Phone!Empty, Phone!NoDialog
<1>2. Phone!InBasket = {}
  BY <1>1 DEF Phone!InBasket
<1>3. items \in [Dishes -> 0..MaxQuantity]
  BY <1>1 DEF Phone!PhoneBasketAssumption
<1>4. Phone!TypeOK
  BY <1>1, <1>3 DEF Phone!TypeOK, Phone!Screens
<1>5. Phone!OneKitchen /\ DialogIsAlike
  BY <1>1, <1>2 DEF Phone!OneKitchen, DialogIsAlike, Alike
<1> QED
  BY <1>4, <1>5 DEF PhoneInv

LEMMA PhoneInvNext ==
  ASSUME Phone!PhoneBasketAssumption, PhoneInv, [Phone!Next]_Phone!vars
  PROVE  PhoneInv'
<1> USE DEF Phone!Screens
<1>a. /\ items \in Baskets /\ chefId \in Kitchens /\ reorder \in BOOLEAN /\ screen \in Phone!Screens
      /\ \A d \in Dishes : items[d] > 0 => Kitchen[d] = chefId
      /\ dialog.dishes \subseteq Dishes /\ Alike(dialog.dishes)
  BY DEF PhoneInv, Phone!TypeOK, Phone!OneKitchen, Phone!InBasket, DialogIsAlike, Baskets, Kitchens
<1> SUFFICES /\ items' \in Baskets /\ chefId' \in Kitchens /\ reorder' \in BOOLEAN /\ screen' \in Phone!Screens
             /\ \A d \in Dishes : items'[d] > 0 => Kitchen[d] = chefId'
             /\ dialog'.dishes \subseteq Dishes /\ Alike(dialog'.dishes)
  BY DEF PhoneInv, Phone!TypeOK, Phone!OneKitchen, Phone!InBasket, DialogIsAlike, Baskets, Kitchens, Alike
<1>b. Phone!NoDialog.dishes = {} /\ Alike({})
  BY DEF Phone!NoDialog, Alike
<1>p. Past \subseteq Dishes /\ Alike(Past)
  BY DEF Phone!PhoneBasketAssumption, Alike
<1> DEFINE BasketOK == /\ items' \in Baskets /\ chefId' \in Kitchens
                       /\ \A d \in Dishes : items'[d] > 0 => Kitchen[d] = chefId'
           DialogOK == dialog'.dishes \subseteq Dishes /\ Alike(dialog'.dishes)
           Shown == reorder' \in BOOLEAN /\ screen' \in Phone!Screens
<1>s. UNCHANGED <<items, chefId>> => BasketOK
  BY <1>a
<1>d. dialog' \in {dialog, Phone!NoDialog} => DialogOK
  BY <1>a, <1>b
<1>e. items' = Phone!Empty /\ chefId' = "none" => BasketOK
  BY DEF Phone!Empty, Baskets, Kitchens, Phone!PhoneBasketAssumption
<1> SUFFICES BasketOK /\ DialogOK /\ Shown
  OBVIOUS
<1>1. ASSUME NEW s \in Phone!Screens, Phone!Go(s)
      PROVE  BasketOK /\ DialogOK /\ Shown
  BY <1>1, <1>s, <1>d, <1>a DEF Phone!Go
<1>2. ASSUME NEW d \in Dishes, Phone!Add(d)
      PROVE  BasketOK /\ DialogOK /\ Shown
  <2>1. {d} \in SUBSET Dishes /\ Alike({d})
    BY DEF Alike
  <2>2. BasketOK
    BY <1>2, <2>1, PutInBasket DEF Phone!Add
  <2>3. DialogOK
    <3>1. dialog' \in {[kind |-> "replace", dishes |-> {d}], Phone!NoDialog}
      BY <1>2 DEF Phone!Add
    <3> QED
      BY <3>1, <2>1, <1>b
  <2> QED
    BY <2>2, <2>3, <1>2, <1>a DEF Phone!Add
<1>3. ASSUME NEW d \in Dishes, Phone!Remove(d)
      PROVE  BasketOK /\ DialogOK /\ Shown
  BY <1>3, <1>a, <1>d DEF Phone!Remove, Baskets, Phone!PhoneBasketAssumption
<1>4. ASSUME NEW d \in Dishes, NEW q \in 1..MaxQuantity, Phone!SetQuantity(d, q)
      PROVE  BasketOK /\ DialogOK /\ Shown
  <2>1. d \in Dishes /\ items[d] > 0
    BY <1>4 DEF Phone!SetQuantity, Phone!InBasket
  <2> QED
    BY <2>1, <1>4, <1>a, <1>d DEF Phone!SetQuantity, Baskets, Phone!PhoneBasketAssumption
<1>5. CASE Phone!Clear
  BY <1>5, <1>e, <1>d, <1>a DEF Phone!Clear
<1>6. CASE Phone!AskReorder \/ Phone!ReorderEnds \/ Phone!Cancel
  BY <1>6, <1>s, <1>d, <1>a DEF Phone!AskReorder, Phone!ReorderEnds, Phone!Cancel
<1>7. ASSUME NEW ds \in SUBSET Past, Phone!ReorderFills(ds)
      PROVE  BasketOK /\ DialogOK /\ Shown
  <2>1. ds \in SUBSET Dishes /\ Alike(ds)
    BY <1>p DEF Alike
  <2>2. BasketOK
    BY <1>7, <2>1, PutInBasket DEF Phone!ReorderFills, Phone!Fill
  <2> QED
    BY <1>7, <2>2, <1>d DEF Phone!ReorderFills, Phone!Fill
<1>8. ASSUME NEW ds \in SUBSET Past, Phone!ReorderAsks(ds)
      PROVE  BasketOK /\ DialogOK /\ Shown
  <2>1. ds \subseteq Dishes /\ Alike(ds)
    BY <1>p DEF Alike
  <2>2. dialog'.dishes = ds
    BY <1>8 DEF Phone!ReorderAsks
  <2> QED
    BY <1>8, <2>1, <2>2, <1>s, <1>a DEF Phone!ReorderAsks
<1>9. CASE Phone!Agree \/ Phone!AgreeAdd
  <2>1. Phone!Put(items, chefId, dialog.dishes) \/ Phone!Put(Phone!Empty, "none", dialog.dishes)
    BY <1>9 DEF Phone!Agree, Phone!AgreeAdd, Phone!Fill
  <2>2. BasketOK
    BY <2>1, <1>a, PutInBasket
  <2>3. dialog' = Phone!NoDialog /\ reorder' = reorder /\ screen' \in {screen, "checkout", "menu"}
    BY <1>9 DEF Phone!Agree, Phone!AgreeAdd, Phone!Fill
  <2> QED
    BY <2>2, <2>3, <1>d, <1>a
<1>10. CASE Phone!Paid
  BY <1>10, <1>e, <1>d, <1>a DEF Phone!Paid
<1>11. CASE UNCHANGED Phone!vars
  BY <1>11, <1>s, <1>d, <1>a DEF Phone!vars
<1> HIDE DEF BasketOK, DialogOK, Shown
<1> QED
  BY <1>1, <1>2, <1>3, <1>4, <1>5, <1>6, <1>7, <1>8, <1>9, <1>10, <1>11 DEF Phone!Next

(* Whatever is added, replaced, doubled or ordered again, and whichever    *)
(* way the basket is emptied, it holds dishes of the one kitchen it names. *)
THEOREM BasketIsOneKitchens == Phone!PhoneBasketAssumption /\ Phone!Spec => []Phone!OneKitchen
<1>1. Phone!PhoneBasketAssumption /\ PhoneInv /\ [Phone!Next]_Phone!vars => PhoneInv'
  BY PhoneInvNext
<1>2. PhoneInv => Phone!OneKitchen
  BY DEF PhoneInv
<1>3. ASSUME Phone!PhoneBasketAssumption
      PROVE  Phone!Spec => []Phone!OneKitchen
  BY <1>3, <1>1, <1>2, PhoneInvInit, PTL DEF Phone!Spec
<1> QED
  BY <1>3
=============================================================================
