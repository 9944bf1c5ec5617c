------------------------- MODULE RefundClaims_proofs -------------------------
(***************************************************************************)
(* Who holds the claim on an order's refund, and what the holder may do.   *)
(*                                                                         *)
(* First the refund coordinator alone, for any number of commands, any     *)
(* amounts and any scopes: its state is well formed, the payment_status    *)
(* claim excludes, and, when no answer of the gateway is lost, it keeps    *)
(* the promise of RefundPromise, from which the bounds on the money        *)
(* follow.  An order that its callers cancel is paid back.                 *)
(*                                                                         *)
(* Then every path that refunds an order, for any number of commands,      *)
(* handler requests, issues, cancellation requests and lines, and whatever *)
(* the environment does: one claim at a time.                              *)
(***************************************************************************)
EXTENDS OrderRefund, FiniteSetTheorems, TLAPS

cvars == <<tables, cmd>>

(* The amount a reservation takes is an integer, at most what is left, and *)
(* positive when something is left.                                        *)
LEMMA ReserveAmountBounds ==
  ASSUME NEW o \in OrderRow, NEW n \in Nat, NEW intent
  PROVE  /\ ReserveAmount(o, n, intent) \in Int
         /\ ReserveAmount(o, n, intent) <= Remaining(o)
         /\ Remaining(o) > 0 => ReserveAmount(o, n, intent) > 0
  BY DEF ReserveAmount, Remaining, OrderRow

(* A claim and its release leave an order row.                             *)
LEMMA ReservedType ==
  ASSUME NEW o \in OrderRow, NEW n \in Int, NEW intent
  PROVE  Reserved(o, n, intent) \in OrderRow
<1> DEFINE stamp  == o.refundedAt \/ intent = "full"
           booked == o.refundAmt + n
<1>1. stamp \in BOOLEAN /\ booked \in Int
  BY DEF OrderRow
<1> HIDE DEF stamp, booked
<1>2. Reserved(o, n, intent) =
        [o EXCEPT !.pay = "refunded", !.refundAmt = booked, !.refundedAt = stamp]
  BY DEF Reserved, stamp, booked
<1> QED
  BY <1>1, <1>2 DEF OrderRow, PayStates

LEMMA ReleasedBooks ==
  ASSUME NEW o \in OrderRow, NEW n \in Int, NEW intent
  PROVE  LET r == Released(o, n, intent)
         IN  /\ r \in OrderRow
             /\ r.refundAmt = o.refundAmt - n
             /\ r.total = o.total /\ r.perLine = o.perLine
<1> DEFINE booked == o.refundAmt - n
           p == ReleasedPartial(o, n)
           f == ReleasedFull(o, n)
           OK(r) == /\ r \in OrderRow
                    /\ r.refundAmt = booked
                    /\ r.total = o.total /\ r.perLine = o.perLine
<1>1. booked \in Int
  BY DEF OrderRow
<1>2. p = [o EXCEPT !.pay = "completed", !.refundAmt = booked]
  BY DEF ReleasedPartial
<1>3. f = [p EXCEPT !.refundedAt = FALSE]
  BY DEF ReleasedFull
<1> HIDE DEF booked, p, f
<1>4. OK(p)
  BY <1>1, <1>2 DEF OrderRow, PayStates
<1>5. OK(f)
  BY <1>3, <1>4 DEF OrderRow
<1>6. Released(o, n, intent) \in {p, f}
  BY DEF Released, p, f
<1> QED
  BY <1>4, <1>5, <1>6 DEF booked

(* A claim is won only on a completed row with something left.             *)
LEMMA WonMeansOpen ==
  ASSUME NEW o \in OrderRow, NEW intent, ReserveOutcome(o, intent) = "won"
  PROVE  o.pay = "completed" /\ Remaining(o) > 0
<1>1. o.pay \in {"pending", "completed", "refunded"}
  BY DEF OrderRow, PayStates
<1>2. Remaining(o) \in Int
  BY DEF OrderRow, Remaining
<1> QED
  BY <1>1, <1>2 DEF ReserveOutcome

(* A gateway call either moves nothing or moves its whole amount.          *)
LEMMA MoneySent ==
  ASSUME CommandTypeOK, NEW key, NEW amount \in Int, NEW answer,
         GatewayCall(key, amount, answer)
  PROVE  \/ paid' = paid
         \/ /\ paid'.gateway = paid.gateway + amount
            /\ paid'.wallet = paid.wallet
            /\ DOMAIN paid' = DOMAIN paid
<1>1. CASE KeyPaid(key)
  BY <1>1 DEF GatewayCall, Sent
<1>2. CASE ~KeyPaid(key)
  <2>1. Sent(key, amount).gateway = paid.gateway + amount
    BY <1>2 DEF Sent, CommandTypeOK
  <2>2. Sent(key, amount).wallet = paid.wallet /\ DOMAIN Sent(key, amount) = DOMAIN paid
    BY <1>2 DEF Sent, CommandTypeOK
  <2> QED
    BY <2>1, <2>2 DEF GatewayCall
<1> QED
  BY <1>1, <1>2

---------------------------------------------------------------------------
LEMMA TypeInit == MoneyInit /\ CommandInit => CommandTypeOK
  BY CaptureAssumption, CommandAssumption
  DEF MoneyInit, CommandInit, CommandTypeOK, OrderRow, PayStates, OrderStates, RefundIDs,
      LedgerStates, NewCommand, Command, Phases, Results

(* The two ways a command moves on keep the commands well formed.          *)
LEMMA GotoType ==
  ASSUME CommandTypeOK, NEW c \in Commands, NEW phase \in Phases, Goto(c, phase)
  PROVE  cmd' \in [Commands -> Command]
  BY DEF CommandTypeOK, Goto, Command

LEMMA AnswerType ==
  ASSUME CommandTypeOK, NEW c \in Commands, NEW result \in Results, Answer(c, result)
  PROVE  cmd' \in [Commands -> Command]
<1> DEFINE phase == IF result = "error" THEN "done" ELSE AfterNil(c)
<1>1. phase \in Phases
  BY DEF AfterNil, Phases
<1>2. cmd' = [cmd EXCEPT ![c].result = result, ![c].pc = phase]
  BY DEF Answer
<1> QED
  BY ZenonT(60), <1>1, <1>2 DEF CommandTypeOK, Command

LEMMA TypeStep == CommandTypeOK /\ [CoordinatorNext]_cvars => CommandTypeOK'
<1> SUFFICES ASSUME CommandTypeOK, [CoordinatorNext]_cvars PROVE CommandTypeOK'
  OBVIOUS
<1> DEFINE ledgerOK == ledger \in [Scopes -> [status: LedgerStates, amount: Int]]
           paidOK   == /\ DOMAIN paid = {"keys", "gateway", "wallet"}
                       /\ paid.gateway \in Int /\ paid.wallet \in Int
           cmdOK    == cmd \in [Commands -> Command]
<1>0. order \in OrderRow /\ ledgerOK /\ paidOK /\ cmdOK
  BY DEF CommandTypeOK
<1> SUFFICES order' \in OrderRow /\ ledgerOK' /\ paidOK' /\ cmdOK'
  BY DEF CommandTypeOK
<1>1. ASSUME NEW c \in Commands, Load(c)
      PROVE  order' \in OrderRow /\ ledgerOK' /\ paidOK' /\ cmdOK'
  <2> DEFINE phase == IF Caller[c] \in {"customer", "chef"} THEN "cancel" ELSE "replay"
             row   == [NewCommand EXCEPT !.paySeen = order.pay, !.pc = phase]
  <2>1. phase \in Phases
    BY DEF Phases
  <2>2. row \in Command
    <3>1. NewCommand \in Command /\ order.pay \in PayStates
      BY <1>0 DEF NewCommand, Command, OrderRow, PayStates, Phases, Results
    <3> HIDE DEF phase
    <3> QED
      BY <2>1, <3>1 DEF Command
  <2>3. cmd' = [cmd EXCEPT ![c] = row]
    BY <1>1 DEF Load
  <2> QED
    BY <1>0, <1>1, <2>2, <2>3 DEF Load, tables
<1>2. ASSUME NEW c \in Commands, CancelFirst(c)
      PROVE  order' \in OrderRow /\ ledgerOK' /\ paidOK' /\ cmdOK'
  <2>1. cmdOK'
    BY <1>2, GotoType DEF CancelFirst, Phases
  <2> QED
    BY <1>0, <1>2, <2>1 DEF CancelFirst, OrderRow, OrderStates
<1>3. ASSUME NEW c \in Commands, ReplayCheck(c)
      PROVE  order' \in OrderRow /\ ledgerOK' /\ paidOK' /\ cmdOK'
  <2>1. CASE ledger[Scope[c]].status = "succeeded"
    <3> DEFINE phase == IF Wrapped(c) THEN "stamp" ELSE "done"
    <3>1. phase \in Phases
      BY DEF Phases
    <3>2. cmd' = [cmd EXCEPT ![c].result = "replayed", ![c].pc = phase]
      BY <1>3, <2>1 DEF ReplayCheck
    <3> QED
      BY <1>0, <1>3, <3>1, <3>2 DEF ReplayCheck, tables, Command, Results
  <2>2. CASE ledger[Scope[c]].status = "pending"
    BY <1>0, <1>3, <2>2, AnswerType DEF ReplayCheck, tables, Results
  <2>3. CASE ledger[Scope[c]].status \notin {"succeeded", "pending"}
    BY <1>0, <1>3, <2>3 DEF ReplayCheck, tables, Command, Phases
  <2> QED
    BY <2>1, <2>2, <2>3
<1>4. ASSUME NEW c \in Commands, Reserve(c)
      PROVE  order' \in OrderRow /\ ledgerOK' /\ paidOK' /\ cmdOK'
  <2> DEFINE amount  == ReserveAmount(order, Ask[c], IntentOf(c))
             outcome == ReserveOutcome(order, IntentOf(c))
             Won ==
               /\ order' = Reserved(order, amount, IntentOf(c))
               /\ ledger' = [ledger EXCEPT ![Scope[c]] = [status |-> "pending", amount |-> amount]]
               /\ cmd' = [cmd EXCEPT ![c].pc = "gateway", ![c].amt = amount,
                                     ![c].full = amount >= Remaining(order)]
             NotWon ==
               /\ UNCHANGED <<order, ledger>>
               /\ Goto(c, "classify") \/ \E result \in Results : Answer(c, result)
  <2>1. amount \in Int /\ Remaining(order) \in Int /\ Scope[c] \in Scopes
    BY <1>0, ReserveAmountBounds, CommandAssumption DEF Remaining, OrderRow
  <2>2. Won \/ NotWon
    <3> HIDE DEF amount
    <3>1. \A result \in {"nothing", "error", "nocapture", "inflight"} : result \in Results
      BY DEF Results
    <3> QED
      BY <1>4, <3>1 DEF Reserve, amount
  <2>3. CASE Won
    <3> HIDE DEF amount
    <3>1. order' \in OrderRow
      BY <1>0, <2>1, <2>3, ReservedType
    <3>2. ledgerOK'
      BY <1>0, <2>1, <2>3 DEF LedgerStates
    <3>3. cmdOK'
      <4> DEFINE full == amount >= Remaining(order)
      <4>1. full \in BOOLEAN
        OBVIOUS
      <4>2. cmd' = [cmd EXCEPT ![c].pc = "gateway", ![c].amt = amount, ![c].full = full]
        BY <2>3
      <4> HIDE DEF full
      <4>3. [cmd[c] EXCEPT !.pc = "gateway", !.amt = amount, !.full = full] \in Command
        BY ZenonT(60), <1>0, <2>1, <4>1 DEF Command, Phases
      <4>4. cmd' = [cmd EXCEPT
              ![c] = [cmd[c] EXCEPT !.pc = "gateway", !.amt = amount, !.full = full]]
        BY <1>0, <4>2
      <4> QED
        BY <1>0, <4>3, <4>4
    <3> QED
      BY <1>0, <1>4, <3>1, <3>2, <3>3 DEF Reserve
  <2>4. CASE NotWon
    BY <1>0, <1>4, <2>4, GotoType, AnswerType DEF Reserve, Phases
  <2> QED
    BY <2>2, <2>3, <2>4
<1>5. ASSUME NEW c \in Commands, Classify(c)
      PROVE  order' \in OrderRow /\ ledgerOK' /\ paidOK' /\ cmdOK'
  BY <1>0, <1>5, AnswerType DEF Classify, tables, Results
<1>6. ASSUME NEW c \in Commands, CallGateway(c)
      PROVE  order' \in OrderRow /\ ledgerOK' /\ paidOK' /\ cmdOK'
  <2>1. PICK answer \in {"ok", "error"} :
          /\ GatewayCall(ScopeKey(Scope[c]), cmd[c].amt, answer)
          /\ Goto(c, IF answer = "ok" THEN "finalize" ELSE "release")
    BY <1>6 DEF CallGateway
  <2>2. cmdOK'
    BY <2>1, GotoType DEF Phases
  <2>3. cmd[c].amt \in Int
    BY <1>0 DEF Command
  <2>4. paidOK'
    BY <1>0, <2>1, <2>3, MoneySent
  <2> QED
    BY <1>0, <1>6, <2>2, <2>4 DEF CallGateway
<1>7. ASSUME NEW c \in Commands, Finalize(c)
      PROVE  order' \in OrderRow /\ ledgerOK' /\ paidOK' /\ cmdOK'
  <2>1. cmdOK'
    <3> DEFINE phase == IF Wrapped(c) THEN "stamp" ELSE "done"
    <3>1. phase \in Phases
      BY DEF Phases
    <3>2. \/ cmd' = [cmd EXCEPT ![c].result = "ok", ![c].pc = phase]
          \/ Answer(c, "error")
      BY <1>7 DEF Finalize
    <3> QED
      BY <1>0, <3>1, <3>2, AnswerType DEF Command, Results
  <2>2. order' \in OrderRow
    BY ZenonT(60), <1>0, <1>7 DEF Finalize, OrderRow, PayStates
  <2>3. ledgerOK'
    BY <1>0, <1>7, CommandAssumption DEF Finalize, LedgerStates
  <2> QED
    BY <1>0, <1>7, <2>1, <2>2, <2>3 DEF Finalize
<1>8. ASSUME NEW c \in Commands, ReleaseClaim(c)
      PROVE  order' \in OrderRow /\ ledgerOK' /\ paidOK' /\ cmdOK'
  <2>1. cmdOK'
    BY <1>8, GotoType DEF ReleaseClaim, Phases
  <2>2. cmd[c].amt \in Int
    BY <1>0 DEF Command
  <2>3. order' \in OrderRow
    BY <1>0, <1>8, <2>2, ReleasedBooks DEF ReleaseClaim
  <2> QED
    BY <1>0, <1>8, <2>1, <2>3 DEF ReleaseClaim
<1>9. ASSUME NEW c \in Commands, MarkFailed(c)
      PROVE  order' \in OrderRow /\ ledgerOK' /\ paidOK' /\ cmdOK'
  <2>1. cmdOK'
    BY <1>9, AnswerType DEF MarkFailed, Results
  <2>2. ledgerOK'
    BY <1>0, <1>9, CommandAssumption DEF MarkFailed, LedgerStates
  <2> QED
    BY <1>0, <1>9, <2>1, <2>2 DEF MarkFailed
<1>10. ASSUME NEW c \in Commands, StampRefundID(c)
       PROVE  order' \in OrderRow /\ ledgerOK' /\ paidOK' /\ cmdOK'
  <2>1. cmdOK'
    BY <1>10, GotoType DEF StampRefundID, AfterNil, Phases
  <2> QED
    BY <1>0, <1>10, <2>1 DEF StampRefundID, OrderRow, RefundIDs
<1>11. ASSUME NEW c \in Commands, VoidOrder(c)
       PROVE  order' \in OrderRow /\ ledgerOK' /\ paidOK' /\ cmdOK'
  <2>1. cmdOK'
    BY <1>11, GotoType DEF VoidOrder, Phases
  <2> QED
    BY <1>0, <1>11, <2>1 DEF VoidOrder, OrderRow, OrderStates
<1>12. ASSUME NEW c \in Commands, CommandCrash(c)
       PROVE  order' \in OrderRow /\ ledgerOK' /\ paidOK' /\ cmdOK'
  <2>1. cmdOK'
    BY <1>12, GotoType DEF CommandCrash, Phases
  <2> QED
    BY <1>0, <1>12, <2>1 DEF CommandCrash, tables
<1>13. ASSUME AcceptOrder \/ DeliverOrder, UNCHANGED cmd
       PROVE  order' \in OrderRow /\ ledgerOK' /\ paidOK' /\ cmdOK'
  BY <1>0, <1>13 DEF AcceptOrder, DeliverOrder, OrderRow, OrderStates
<1>14. CASE UNCHANGED cvars
  BY <1>0, <1>14 DEF cvars, tables
<1> QED
  BY <1>1, <1>2, <1>3, <1>4, <1>5, <1>6, <1>7, <1>8, <1>9, <1>10, <1>11, <1>12, <1>13, <1>14
  DEF CoordinatorNext, CommandStep

(* Every state the coordinator reaches is well formed.                     *)
THEOREM CoordinatorTypeCorrect == CoordinatorSpec => []CommandTypeOK
  BY TypeInit, TypeStep, PTL DEF CoordinatorSpec, CoordinatorInit, cvars
---------------------------------------------------------------------------
(* The claim.  Steps fall into five groups by what they do to it: most     *)
(* commands stand by, one takes it, sends its money, ends it or drops it.  *)
Claiming(c) == cmd[c].pc \in ClaimPhases
Books == <<order.pay, order.refundAmt, order.total, order.perLine, paid>>

Passes(c) ==    \* neither before nor after the step a holder
  /\ ~Claiming(c) /\ ~Claiming(c)'
  /\ UNCHANGED Books

Takes(c) ==
  /\ order.pay = "completed" /\ ~Claiming(c)
  /\ cmd'[c].pc = "gateway" /\ cmd'[c].amt \in Int
  /\ 0 < cmd'[c].amt /\ cmd'[c].amt <= Remaining(order)
  /\ order'.pay = "refunded" /\ order'.refundAmt = order.refundAmt + cmd'[c].amt
  /\ order'.total = order.total /\ order'.perLine = order.perLine
  /\ UNCHANGED paid

Drops(c) ==     \* a crash
  /\ ~Claiming(c)'
  /\ UNCHANGED Books

(* A step of one command leaves the others where they are.                 *)
LEMMA OthersStand ==
  ASSUME CommandTypeOK, NEW c \in Commands,
         Load(c) \/ CommandStep(c) \/ CommandCrash(c)
  PROVE  \A d \in Commands \ {c} : cmd'[d] = cmd[d]
<1> USE DEF CommandTypeOK
<1>1. CASE Load(c)
  BY <1>1 DEF Load
<1>2. CASE CancelFirst(c) \/ CallGateway(c) \/ StampRefundID(c) \/ VoidOrder(c) \/ CommandCrash(c)
  BY <1>2 DEF CancelFirst, CallGateway, StampRefundID, VoidOrder, CommandCrash, Goto
<1>3. CASE ReplayCheck(c)
  BY <1>3 DEF ReplayCheck, Answer
<1>4. CASE Reserve(c)
  BY <1>4 DEF Reserve, Answer, Goto
<1>5. CASE Classify(c) \/ Finalize(c) \/ ReleaseClaim(c) \/ MarkFailed(c)
  BY <1>5 DEF Classify, Finalize, ReleaseClaim, MarkFailed, Answer, Goto
<1> QED
  BY <1>1, <1>2, <1>3, <1>4, <1>5 DEF CommandStep

(* An answer ends the attempt, whoever asked.                              *)
LEMMA AnswerLeaves ==
  ASSUME CommandTypeOK, NEW c \in Commands, NEW result, Answer(c, result)
  PROVE  ~Claiming(c)'
<1> DEFINE phase == IF result = "error" THEN "done" ELSE AfterNil(c)
<1>1. cmd' = [cmd EXCEPT ![c].result = result, ![c].pc = phase]
  BY DEF Answer
<1>2. phase \notin ClaimPhases
  BY DEF AfterNil, ClaimPhases
<1> HIDE DEF phase
<1>3. cmd'[c].pc = phase
  BY <1>1 DEF CommandTypeOK, Command
<1> QED
  BY <1>2, <1>3 DEF Claiming

LEMMA GotoPhase ==
  ASSUME CommandTypeOK, NEW c \in Commands, NEW phase, Goto(c, phase)
  PROVE  cmd'[c].pc = phase /\ cmd'[c].amt = cmd[c].amt
  BY DEF CommandTypeOK, Command, Goto

(* Before its reservation and after its end a command stands by.           *)
LEMMA BystanderPasses ==
  ASSUME CommandTypeOK, NEW c \in Commands,
         \/ Load(c) \/ CancelFirst(c) \/ ReplayCheck(c) \/ Classify(c)
         \/ MarkFailed(c) \/ StampRefundID(c) \/ VoidOrder(c)
  PROVE  Passes(c)
<1> USE DEF Passes, Claiming, ClaimPhases, Books, tables
<1>1. CASE Load(c)
  <2>1. ~Claiming(c)
    BY <1>1, CommandAssumption DEF Load, MayLoad, At, Callers, IsCron
  <2>2. cmd'[c].pc = IF Caller[c] \in {"customer", "chef"} THEN "cancel" ELSE "replay"
    BY <1>1 DEF Load, NewCommand, CommandTypeOK
  <2> QED
    BY <1>1, <2>1, <2>2 DEF Load
<1>2. CASE CancelFirst(c)
  <2>1. cmd'[c].pc \in {"replay", "done"}
    BY <1>2, GotoPhase DEF CancelFirst
  <2>2. UNCHANGED Books
    BY <1>2 DEF CancelFirst, CommandTypeOK, OrderRow
  <2> QED
    BY <1>2, <2>1, <2>2 DEF CancelFirst, At
<1>3. CASE ReplayCheck(c)
  <2>1. ~Claiming(c)'
    <3>1. CASE ledger[Scope[c]].status = "succeeded"
      <4>1. cmd'[c].pc = IF Wrapped(c) THEN "stamp" ELSE "done"
        BY <1>3, <3>1 DEF ReplayCheck, CommandTypeOK, Command
      <4> QED
        BY <4>1
    <3>2. CASE ledger[Scope[c]].status = "pending"
      BY <1>3, <3>2, AnswerLeaves DEF ReplayCheck
    <3>3. CASE ledger[Scope[c]].status \notin {"succeeded", "pending"}
      BY <1>3, <3>3 DEF ReplayCheck, CommandTypeOK, Command
    <3> QED
      BY <3>1, <3>2, <3>3
  <2> QED
    BY <1>3, <2>1 DEF ReplayCheck, At
<1>4. CASE Classify(c)
  BY <1>4, AnswerLeaves DEF Classify, At
<1>5. CASE MarkFailed(c)
  BY <1>5, AnswerLeaves DEF MarkFailed, At
<1>6. CASE StampRefundID(c)
  <2>1. cmd'[c].pc \in {"void", "done"}
    BY <1>6, GotoPhase DEF StampRefundID, AfterNil
  <2>2. UNCHANGED Books
    BY <1>6 DEF StampRefundID, CommandTypeOK, OrderRow
  <2> QED
    BY <1>6, <2>1, <2>2 DEF StampRefundID, At
<1>7. CASE VoidOrder(c)
  <2>1. cmd'[c].pc = "done"
    BY <1>7, GotoPhase DEF VoidOrder
  <2>2. UNCHANGED Books
    BY <1>7 DEF VoidOrder, CommandTypeOK, OrderRow
  <2> QED
    BY <1>7, <2>1, <2>2 DEF VoidOrder, At
<1> QED
  BY <1>1, <1>2, <1>3, <1>4, <1>5, <1>6, <1>7

(* A reservation takes the claim or leaves everything alone.               *)
LEMMA ReserveTakesOrPasses ==
  ASSUME CommandTypeOK, NEW c \in Commands, Reserve(c)
  PROVE  Takes(c) \/ Passes(c)
<1> DEFINE amount == ReserveAmount(order, Ask[c], IntentOf(c))
<1>1. ~Claiming(c) /\ UNCHANGED paid
  BY DEF Reserve, At, Claiming, ClaimPhases
<1>2. CASE /\ ReserveOutcome(order, IntentOf(c)) = "won"
           /\ order' = Reserved(order, amount, IntentOf(c))
           /\ cmd' = [cmd EXCEPT ![c].pc = "gateway", ![c].amt = amount,
                                 ![c].full = amount >= Remaining(order)]
  <2>1. order \in OrderRow /\ Ask[c] \in Nat
    BY CommandAssumption DEF CommandTypeOK
  <2>2. order.pay = "completed" /\ Remaining(order) > 0
    BY <1>2, <2>1, WonMeansOpen
  <2>3. amount \in Int /\ 0 < amount /\ amount <= Remaining(order)
    BY <2>1, <2>2, ReserveAmountBounds
  <2> HIDE DEF amount
  <2>4. cmd'[c].pc = "gateway" /\ cmd'[c].amt = amount
    BY <1>2 DEF CommandTypeOK, Command
  <2>5. /\ order'.pay = "refunded" /\ order'.refundAmt = order.refundAmt + amount
        /\ order'.total = order.total /\ order'.perLine = order.perLine
    BY <1>2, <2>1 DEF Reserved, OrderRow
  <2> QED
    BY <1>1, <2>2, <2>3, <2>4, <2>5 DEF Takes
<1>3. CASE UNCHANGED order /\ (Goto(c, "classify") \/ \E result : Answer(c, result))
  <2>1. ~Claiming(c)'
    BY <1>3, GotoPhase, AnswerLeaves DEF Claiming, ClaimPhases
  <2> QED
    BY <1>1, <1>3, <2>1 DEF Passes, Books
<1> QED
  BY <1>2, <1>3 DEF Reserve

(* The holder ends its claim, whether or not its write succeeds.           *)
LEMMA HolderLeaves ==
  ASSUME CommandTypeOK, NEW c \in Commands, Finalize(c) \/ ReleaseClaim(c)
  PROVE  ~Claiming(c)'
<1>1. CASE Finalize(c)
  <2>1. CASE Answer(c, "error")
    BY <2>1, AnswerLeaves
  <2>2. CASE cmd' = [cmd EXCEPT ![c].result = "ok",
                                ![c].pc = IF Wrapped(c) THEN "stamp" ELSE "done"]
    <3>1. cmd'[c].pc = IF Wrapped(c) THEN "stamp" ELSE "done"
      BY <2>2 DEF CommandTypeOK, Command
    <3> QED
      BY <3>1 DEF Claiming, ClaimPhases
  <2> QED
    BY <1>1, <2>1, <2>2 DEF Finalize
<1>2. CASE ReleaseClaim(c)
  BY <1>2, GotoPhase DEF ReleaseClaim, Claiming, ClaimPhases
<1> QED
  BY <1>1, <1>2

LEMMA CrashDrops ==
  ASSUME CommandTypeOK, NEW c \in Commands, CommandCrash(c)
  PROVE  Drops(c)
  BY GotoPhase DEF CommandCrash, Drops, Claiming, ClaimPhases, Books, tables

LEMMA KitchenKeepsBooks ==
  ASSUME CommandTypeOK, AcceptOrder \/ DeliverOrder
  PROVE  UNCHANGED Books
  BY DEF CommandTypeOK, OrderRow, AcceptOrder, DeliverOrder, Books

---------------------------------------------------------------------------
(* Exclusion.  A command becomes a holder only from a completed row, which *)
(* says that there is none; only the holder itself writes the row back.    *)
LEMMA ExclusionStep ==
  CommandTypeOK /\ SoleClaimHolder /\ [CoordinatorNext]_cvars => SoleClaimHolder'
<1> SUFFICES ASSUME CommandTypeOK, SoleClaimHolder, [CoordinatorNext]_cvars
             PROVE  SoleClaimHolder'
  OBVIOUS
<1>1. ASSUME NEW c \in Commands, \A d \in Commands \ {c} : cmd'[d] = cmd[d], Passes(c)
      PROVE  SoleClaimHolder'
  BY <1>1 DEF Passes, Claiming, Books, SoleClaimHolder, CommandHolders
<1>2. ASSUME NEW c \in Commands, \A d \in Commands \ {c} : cmd'[d] = cmd[d], Takes(c)
      PROVE  SoleClaimHolder'
  <2>1. CommandHolders = {}
    BY <1>2 DEF Takes, SoleClaimHolder
  <2>2. CommandHolders' \subseteq {c}
    BY <1>2, <2>1 DEF CommandHolders
  <2> QED
    BY <1>2, <2>2 DEF Takes, SoleClaimHolder
<1>3. ASSUME NEW c \in Commands, \A d \in Commands \ {c} : cmd'[d] = cmd[d], Drops(c)
      PROVE  SoleClaimHolder'
  <2>1. CommandHolders' \subseteq CommandHolders
    BY <1>3 DEF Drops, Claiming, CommandHolders
  <2> QED
    BY <1>3, <2>1 DEF Drops, Books, SoleClaimHolder
<1>4. ASSUME NEW c \in Commands, \A d \in Commands \ {c} : cmd'[d] = cmd[d], CallGateway(c)
      PROVE  SoleClaimHolder'
  <2>1. CommandHolders = {c} /\ order.pay = "refunded"
    BY <1>4 DEF CallGateway, At, CommandHolders, ClaimPhases, SoleClaimHolder
  <2>2. CommandHolders' \subseteq {c}
    BY <1>4, <2>1 DEF CommandHolders
  <2> QED
    BY <1>4, <2>1, <2>2 DEF CallGateway, SoleClaimHolder
<1>5. ASSUME NEW c \in Commands, \A d \in Commands \ {c} : cmd'[d] = cmd[d],
             Finalize(c) \/ ReleaseClaim(c)
      PROVE  SoleClaimHolder'
  <2>1. CommandHolders = {c}
    BY <1>5 DEF Finalize, ReleaseClaim, At, CommandHolders, ClaimPhases, SoleClaimHolder
  <2>2. ~Claiming(c)'
    BY <1>5, HolderLeaves
  <2>3. CommandHolders' = {}
    BY <1>5, <2>1, <2>2 DEF CommandHolders, Claiming
  <2> QED
    BY <2>3 DEF SoleClaimHolder
<1>6. CASE UNCHANGED cmd /\ UNCHANGED Books
  BY <1>6 DEF SoleClaimHolder, CommandHolders, Books
<1>7. ASSUME NEW c \in Commands, Load(c) \/ CommandStep(c) \/ CommandCrash(c)
      PROVE  SoleClaimHolder'
  <2>1. \A d \in Commands \ {c} : cmd'[d] = cmd[d]
    BY <1>7, OthersStand
  <2>2. \/ Passes(c) \/ Takes(c) \/ Drops(c)
        \/ CallGateway(c) \/ Finalize(c) \/ ReleaseClaim(c)
    BY <1>7, BystanderPasses, ReserveTakesOrPasses, CrashDrops DEF CommandStep
  <2> QED
    BY <1>1, <1>2, <1>3, <1>4, <1>5, <2>1, <2>2
<1>8. CASE UNCHANGED cvars
  BY <1>6, <1>8 DEF cvars, tables, Books
<1> QED
  BY <1>6, <1>7, <1>8, KitchenKeepsBooks DEF CoordinatorNext

(* At most one command is between its claim and its end, and the row says  *)
(* so: for any number of commands and whatever the environment does.       *)
THEOREM CoordinatorExcludes == CoordinatorSpec => []SoleClaimHolder
<1>1. MoneyInit /\ CommandInit => SoleClaimHolder
  BY DEF CommandInit, NewCommand, SoleClaimHolder, CommandHolders, ClaimPhases
<1> QED
  BY <1>1, CoordinatorTypeCorrect, ExclusionStep, PTL DEF CoordinatorSpec, CoordinatorInit, cvars

---------------------------------------------------------------------------
(* The money.  No line cancel touches the order of this specification, and *)
(* a holder holds something.                                               *)
Funded ==
  /\ order.total = Capture /\ order.perLine = 0
  /\ \A c \in CommandHolders : cmd[c].amt > 0

Inv == CommandTypeOK /\ SoleClaimHolder /\ Funded

(* What the holder's last steps do to refund_amount and to its own amount. *)
LEMMA HolderBooks ==
  ASSUME CommandTypeOK, NEW c \in Commands
  PROVE  /\ CallGateway(c) => UNCHANGED order /\ cmd'[c].amt = cmd[c].amt
         /\ Finalize(c) =>
              /\ order'.refundAmt = order.refundAmt /\ UNCHANGED paid
              /\ order'.total = order.total /\ order'.perLine = order.perLine
         /\ ReleaseClaim(c) =>
              /\ order'.refundAmt \in {order.refundAmt, order.refundAmt - cmd[c].amt}
              /\ order'.total = order.total /\ order'.perLine = order.perLine
              /\ UNCHANGED paid
<1>1. CallGateway(c) => UNCHANGED order /\ cmd'[c].amt = cmd[c].amt
  BY GotoPhase DEF CallGateway
<1>2. ASSUME Finalize(c)
      PROVE  /\ order'.refundAmt = order.refundAmt /\ UNCHANGED paid
             /\ order'.total = order.total /\ order'.perLine = order.perLine
  BY <1>2 DEF Finalize, CommandTypeOK, OrderRow
<1>3. ASSUME ReleaseClaim(c)
      PROVE  /\ order'.refundAmt \in {order.refundAmt, order.refundAmt - cmd[c].amt}
             /\ order'.total = order.total /\ order'.perLine = order.perLine
             /\ UNCHANGED paid
  <2> DEFINE o == Released(order, cmd[c].amt, IntentOf(c))
  <2>1. /\ o.refundAmt = order.refundAmt - cmd[c].amt
        /\ o.total = order.total /\ o.perLine = order.perLine
    BY ReleasedBooks DEF CommandTypeOK, Command
  <2> HIDE DEF o
  <2> QED
    BY <1>3, <2>1 DEF ReleaseClaim, o
<1> QED
  BY <1>1, <1>2, <1>3

LEMMA FundedStep ==
  Inv /\ [CoordinatorNext]_cvars => Funded'
<1> SUFFICES ASSUME Inv, [CoordinatorNext]_cvars PROVE Funded'
  OBVIOUS
<1> USE DEF Inv
<1>1. ASSUME NEW c \in Commands, Load(c) \/ CommandStep(c) \/ CommandCrash(c)
      PROVE  Funded'
  <2>1. \A d \in Commands \ {c} : cmd'[d] = cmd[d]
    BY <1>1, OthersStand
  <2>2. CASE Takes(c)
    BY <2>1, <2>2 DEF Takes, Funded, CommandHolders
  <2>3. CASE Passes(c) \/ Drops(c)
    BY <2>1, <2>3 DEF Passes, Drops, Claiming, Books, Funded, CommandHolders
  <2>4. CASE CallGateway(c)
    <3>1. c \in CommandHolders
      BY <2>4 DEF CallGateway, At, CommandHolders, ClaimPhases
    <3> QED
      BY <2>1, <2>4, <3>1, HolderBooks DEF Funded, CommandHolders
  <2>5. CASE Finalize(c) \/ ReleaseClaim(c)
    BY <2>1, <2>5, HolderBooks, HolderLeaves DEF Funded, CommandHolders, Claiming
  <2> QED
    BY <1>1, <2>2, <2>3, <2>4, <2>5, BystanderPasses, ReserveTakesOrPasses, CrashDrops
    DEF CommandStep
<1>2. CASE UNCHANGED cmd /\ UNCHANGED Books
  BY <1>2 DEF Funded, CommandHolders, Books
<1>3. CASE UNCHANGED cvars
  BY <1>2, <1>3 DEF cvars, tables, Books
<1> QED
  BY <1>1, <1>2, <1>3, KitchenKeepsBooks DEF CoordinatorNext

LEMMA CoordinatorInv == CoordinatorSpec => []Inv
<1>1. MoneyInit /\ CommandInit => Funded
  BY DEF MoneyInit, CommandInit, NewCommand, Funded, CommandHolders, ClaimPhases
<1>2. Inv /\ [CoordinatorNext]_cvars => Inv'
  BY TypeStep, ExclusionStep, FundedStep DEF Inv
<1>3. MoneyInit /\ CommandInit => SoleClaimHolder
  BY DEF CommandInit, NewCommand, SoleClaimHolder, CommandHolders, ClaimPhases
<1> QED
  BY <1>1, <1>2, <1>3, TypeInit, PTL DEF CoordinatorSpec, CoordinatorInit, cvars, Inv

---------------------------------------------------------------------------
(* The coordinator implements RefundPromise.  What it holds is the amount  *)
(* of the one command that may still send or give back.                    *)
Promised == <<order.refundAmt, TotalPaid, HeldAmount>>

LEMMA HeldByOne ==
  ASSUME NEW c, Spenders = {c}
  PROVE  HeldAmount = cmd[c].amt
  BY DEF HeldAmount

LEMMA HeldByOneNext ==
  ASSUME NEW c, Spenders' = {c}
  PROVE  HeldAmount' = cmd'[c].amt
  BY DEF HeldAmount

LEMMA HeldByNone == (Spenders = {} => HeldAmount = 0) /\ (Spenders' = {} => HeldAmount' = 0)
  BY DEF HeldAmount

LEMMA HeldStands ==
  ASSUME Spenders' = Spenders, \A d \in Spenders : cmd'[d].amt = cmd[d].amt
  PROVE  HeldAmount' = HeldAmount
  BY DEF HeldAmount

LEMMA SpendersHold == Spenders \subseteq CommandHolders
  BY DEF Spenders, CommandHolders, ClaimPhases

(* Without line cancels what remains is what was paid less what is booked. *)
LEMMA RemainingIsUnbooked ==
  ASSUME Inv
  PROVE  Remaining(order) = Capture - order.refundAmt
  BY CaptureAssumption DEF Inv, Funded, CommandTypeOK, OrderRow, Remaining

LEMMA PassKeepsPromise ==
  ASSUME Inv, NEW c \in Commands, \A d \in Commands \ {c} : cmd'[d] = cmd[d], Passes(c)
  PROVE  UNCHANGED Promised
<1>1. Spenders' = Spenders /\ \A d \in Spenders : cmd'[d].amt = cmd[d].amt
  BY DEF Passes, Claiming, ClaimPhases, Spenders
<1> QED
  BY <1>1, HeldStands DEF Passes, Books, Promised, TotalPaid

LEMMA TakeBooks ==
  ASSUME Inv, NEW c \in Commands, \A d \in Commands \ {c} : cmd'[d] = cmd[d], Takes(c)
  PROVE  Promise!Book
<1>1. CommandHolders = {}
  BY DEF Takes, Inv, SoleClaimHolder
<1>2. Spenders = {} /\ Spenders' = {c}
  BY <1>1, SpendersHold DEF Takes, Spenders, CommandHolders, ClaimPhases
<1>3. HeldAmount = 0 /\ HeldAmount' = cmd'[c].amt
  BY <1>2, HeldByNone, HeldByOneNext
<1>4. cmd'[c].amt \in 1 .. (Capture - order.refundAmt)
  BY RemainingIsUnbooked, CaptureAssumption DEF Takes, Inv, CommandTypeOK, OrderRow
<1>5. order'.refundAmt = order.refundAmt + cmd'[c].amt /\ TotalPaid' = TotalPaid
  BY DEF Takes, TotalPaid
<1> QED
  BY <1>3, <1>4, <1>5 DEF Promise!Book

(* A crash of the holder abandons what it held; after the gateway answered *)
(* there is nothing left to abandon.                                       *)
LEMMA DropAbandons ==
  ASSUME Inv, NEW c \in Commands, \A d \in Commands \ {c} : cmd'[d] = cmd[d], Drops(c)
  PROVE  Promise!Abandon \/ UNCHANGED Promised
<1>1. TotalPaid' = TotalPaid /\ order'.refundAmt = order.refundAmt
  BY DEF Drops, Books, TotalPaid
<1>2. CASE c \in Spenders
  <2>1. Spenders = {c}
    BY <1>2, SpendersHold DEF Inv, SoleClaimHolder
  <2>2. Spenders' = {}
    BY <2>1 DEF Drops, Claiming, ClaimPhases, Spenders
  <2>3. HeldAmount > 0 /\ HeldAmount' = 0
    BY <1>2, <2>1, <2>2, HeldByOne, HeldByNone, SpendersHold DEF Inv, Funded
  <2> QED
    BY <1>1, <2>3 DEF Promise!Abandon
<1>3. CASE c \notin Spenders
  <2>1. Spenders' = Spenders /\ \A d \in Spenders : cmd'[d].amt = cmd[d].amt
    BY <1>3 DEF Drops, Claiming, ClaimPhases, Spenders
  <2> QED
    BY <1>1, <2>1, HeldStands DEF Promised
<1> QED
  BY <1>2, <1>3

(* The gateway's answer tells whether it sent the money, unless it is      *)
(* lost.  A call it answers from an earlier one under the same key sends   *)
(* nothing.                                                                *)
LEMMA GatewaySends ==
  ASSUME Inv, "lost" \notin Faults, NEW c \in Commands,
         \A d \in Commands \ {c} : cmd'[d] = cmd[d], CallGateway(c)
  PROVE  Promise!Send \/ Promise!Abandon \/ UNCHANGED Promised
<1>1. c \in Spenders
  BY DEF CallGateway, At, Spenders
<1>2. Spenders = {c}
  BY <1>1, SpendersHold DEF Inv, SoleClaimHolder
<1>3. HeldAmount = cmd[c].amt /\ cmd[c].amt \in Int /\ HeldAmount > 0
  BY <1>1, <1>2, HeldByOne, SpendersHold DEF Inv, Funded, CommandTypeOK, Command
<1>4. order' = order /\ cmd'[c].amt = cmd[c].amt
  BY HolderBooks DEF Inv
<1>5. PICK answer \in {"ok", "error"} :
        /\ GatewayCall(ScopeKey(Scope[c]), cmd[c].amt, answer)
        /\ Goto(c, IF answer = "ok" THEN "finalize" ELSE "release")
  BY DEF CallGateway
<1>6. cmd'[c].pc = IF answer = "ok" THEN "finalize" ELSE "release"
  BY <1>5, GotoPhase DEF Inv
<1>7. CASE answer = "ok"
  <2>1. Spenders' = {}
    BY <1>2, <1>6, <1>7 DEF Spenders
  <2>2. HeldAmount' = 0
    BY <2>1, HeldByNone
  <2>3. TotalPaid' \in {TotalPaid, TotalPaid + cmd[c].amt}
    BY <1>3, <1>5, MoneySent DEF TotalPaid, Inv, CommandTypeOK
  <2> QED
    BY <1>3, <1>4, <2>2, <2>3 DEF Promise!Send, Promise!Abandon
<1>8. CASE answer = "error"
  <2>1. paid' = paid
    BY <1>5, <1>8 DEF GatewayCall
  <2>2. Spenders' = Spenders
    BY <1>2, <1>6, <1>8 DEF Spenders
  <2> QED
    BY <1>2, <1>4, <2>1, <2>2, HeldStands DEF Promised, TotalPaid
<1> QED
  BY <1>7, <1>8

LEMMA HolderGivesBack ==
  ASSUME Inv, NEW c \in Commands, \A d \in Commands \ {c} : cmd'[d] = cmd[d],
         Finalize(c) \/ ReleaseClaim(c)
  PROVE  Promise!GiveBack \/ Promise!Abandon \/ UNCHANGED Promised
<1>1. c \in CommandHolders /\ CommandHolders = {c}
  BY DEF Finalize, ReleaseClaim, At, CommandHolders, ClaimPhases, Inv, SoleClaimHolder
<1>2. Spenders' = {}
  <2>1. ~Claiming(c)'
    BY HolderLeaves DEF Inv
  <2> QED
    BY <1>1, <2>1 DEF Claiming, ClaimPhases, CommandHolders, Spenders
<1>3. HeldAmount' = 0
  BY <1>2, HeldByNone
<1>4. CASE Finalize(c)
  <2>1. Spenders = {}
    BY <1>1, <1>4, SpendersHold DEF Finalize, At, Spenders
  <2> QED
    BY <1>3, <1>4, <2>1, HeldByNone, HolderBooks DEF Promised, TotalPaid, Inv
<1>5. CASE ReleaseClaim(c)
  <2>1. Spenders = {c}
    BY <1>1, <1>5, SpendersHold DEF ReleaseClaim, At, Spenders
  <2>2. HeldAmount = cmd[c].amt /\ HeldAmount > 0
    BY <1>1, <2>1, HeldByOne DEF Inv, Funded
  <2>3. /\ order'.refundAmt \in {order.refundAmt, order.refundAmt - cmd[c].amt}
        /\ TotalPaid' = TotalPaid
    BY <1>5, HolderBooks DEF Inv, TotalPaid
  <2> QED
    BY <1>3, <2>2, <2>3 DEF Promise!GiveBack, Promise!Abandon
<1> QED
  BY <1>4, <1>5

LEMMA StepKeepsPromise ==
  ASSUME "lost" \notin Faults
  PROVE  Inv /\ [CoordinatorNext]_cvars => [Promise!Next]_(Promise!vars)
<1> SUFFICES ASSUME Inv, [CoordinatorNext]_cvars
             PROVE  Promise!Next \/ UNCHANGED Promised
  BY DEF Promise!vars, Promised
<1>1. ASSUME NEW c \in Commands, Load(c) \/ CommandStep(c) \/ CommandCrash(c)
      PROVE  Promise!Next \/ UNCHANGED Promised
  <2>1. \A d \in Commands \ {c} : cmd'[d] = cmd[d]
    BY <1>1, OthersStand DEF Inv
  <2>2. \/ Passes(c) \/ Takes(c) \/ Drops(c)
        \/ CallGateway(c) \/ Finalize(c) \/ ReleaseClaim(c)
    BY <1>1, BystanderPasses, ReserveTakesOrPasses, CrashDrops DEF CommandStep, Inv
  <2> QED
    BY <2>1, <2>2, PassKeepsPromise, TakeBooks, DropAbandons, GatewaySends, HolderGivesBack
    DEF Promise!Next
<1>2. CASE UNCHANGED cmd /\ UNCHANGED Books
  BY <1>2 DEF Promised, Books, TotalPaid, HeldAmount, Spenders
<1>3. CASE UNCHANGED cvars
  BY <1>2, <1>3 DEF cvars, tables, Books
<1> QED
  BY <1>1, <1>2, <1>3, KitchenKeepsBooks DEF CoordinatorNext, Inv

(* For any commands, scopes and amounts, refused calls, crashes and failed *)
(* writes, the coordinator books money before it sends it, sends a booked  *)
(* amount at most once and gives back only what it did not send.           *)
THEOREM CoordinatorKeepsPromise ==
  ASSUME "lost" \notin Faults
  PROVE  CoordinatorSpec => PromiseKept
<1>1. MoneyInit /\ CommandInit => Promise!Init
  <2> SUFFICES ASSUME MoneyInit, CommandInit PROVE Promise!Init
    OBVIOUS
  <2>1. Spenders = {}
    BY DEF CommandInit, NewCommand, Spenders
  <2> QED
    BY <2>1, HeldByNone DEF MoneyInit, TotalPaid, Promise!Init
<1> QED
  BY <1>1, CoordinatorInv, StepKeepsPromise, PTL
  DEF CoordinatorSpec, CoordinatorInit, cvars, PromiseKept, Promise!Spec

(* So nothing is sent that refund_amount does not already count, and the   *)
(* customer never gets back more than was captured.                        *)
THEOREM CoordinatorRecordsPaid ==
  ASSUME "lost" \notin Faults
  PROVE  CoordinatorSpec => []PaidIsRecorded
<1>1. Promise!Safe => PaidIsRecorded
  BY DEF Promise!Safe, PaidIsRecorded
<1>2. Promise!Spec => []Promise!Safe
  BY CaptureAssumption, Promise!PromiseIsSafe
<1> QED
  BY <1>1, <1>2, CoordinatorKeepsPromise, PTL DEF PromiseKept

THEOREM CoordinatorNeverOverRefunds ==
  ASSUME "lost" \notin Faults
  PROVE  CoordinatorSpec => []NeverOverRefund
<1>1. Promise!Safe => NeverOverRefund
  BY CaptureAssumption DEF Promise!Safe, NeverOverRefund
<1>2. Promise!Spec => []Promise!Safe
  BY CaptureAssumption, Promise!PromiseIsSafe
<1> QED
  BY <1>1, <1>2, CoordinatorKeepsPromise, PTL DEF PromiseKept
---------------------------------------------------------------------------
(* The replay.  Every key the gateway has paid stays paid; a command about *)
(* to write "succeeded" has paid under its key, and nobody else writes it. *)
Backed ==
  /\ SucceededMeansPaid
  /\ \A c \in Commands : At(c, "finalize") => KeyPaid(ScopeKey(Scope[c]))

Backs(c) ==
  /\ paid.keys \subseteq paid'.keys
  /\ At(c, "finalize")' => KeyPaid(ScopeKey(Scope[c]))'
  /\ \A s \in Scopes : ledger'[s].status = "succeeded" =>
       ledger[s].status = "succeeded" \/ KeyPaid(ScopeKey(s))

(* What the gateway was paid under stays; an answer "ok" means the call's  *)
(* key is among it.                                                        *)
LEMMA KeysStay ==
  ASSUME CommandTypeOK, NEW key, NEW amount, NEW answer, GatewayCall(key, amount, answer)
  PROVE  paid.keys \subseteq paid'.keys /\ (answer = "ok" => KeyPaid(key)')
<1>1. paid.keys \subseteq Sent(key, amount).keys /\ key \in Sent(key, amount).keys
  BY DEF Sent, KeyPaid, CommandTypeOK
<1> QED
  BY <1>1 DEF GatewayCall, KeyPaid

(* Every step of a command keeps what the replay relies on.                *)
LEMMA StepBacks ==
  ASSUME CommandTypeOK, Backed, NEW c \in Commands,
         Load(c) \/ CommandStep(c) \/ CommandCrash(c)
  PROVE  Backs(c)
<1> USE DEF Backs, At
<1>1. CASE Load(c)
  BY <1>1 DEF Load, NewCommand, tables, CommandTypeOK
<1>2. CASE CancelFirst(c) \/ StampRefundID(c) \/ VoidOrder(c) \/ CommandCrash(c) \/ ReleaseClaim(c)
  <2>1. UNCHANGED <<ledger, paid>>
    BY <1>2 DEF CancelFirst, StampRefundID, VoidOrder, CommandCrash, ReleaseClaim, tables
  <2>2. \E phase : phase # "finalize" /\ Goto(c, phase)
    BY <1>2 DEF CancelFirst, StampRefundID, VoidOrder, CommandCrash, ReleaseClaim, AfterNil
  <2> QED
    BY <2>1, <2>2, GotoPhase
<1>3. CASE ReplayCheck(c) \/ Classify(c)
  <2>1. ~Claiming(c)'
    BY <1>3, BystanderPasses DEF Passes
  <2> QED
    BY <1>3, <2>1 DEF ReplayCheck, Classify, tables, Claiming, ClaimPhases
<1>4. CASE Reserve(c)
  <2>1. cmd'[c].pc # "finalize" /\ paid' = paid
    BY <1>4 DEF Reserve, Answer, AfterNil, Goto, CommandTypeOK, Command
  <2>2. \A s \in Scopes : ledger'[s].status = "succeeded" => ledger[s].status = "succeeded"
    BY <1>4 DEF Reserve, CommandTypeOK
  <2> QED
    BY <2>1, <2>2
<1>5. CASE CallGateway(c)
  <2>1. PICK answer \in {"ok", "error"} :
          /\ GatewayCall(ScopeKey(Scope[c]), cmd[c].amt, answer)
          /\ Goto(c, IF answer = "ok" THEN "finalize" ELSE "release")
    BY <1>5 DEF CallGateway
  <2>2. /\ paid.keys \subseteq paid'.keys
        /\ answer = "ok" => KeyPaid(ScopeKey(Scope[c]))'
    BY <2>1, KeysStay
  <2>3. cmd'[c].pc = IF answer = "ok" THEN "finalize" ELSE "release"
    BY <2>1, GotoPhase
  <2> QED
    BY <1>5, <2>2, <2>3 DEF CallGateway
<1>6. CASE Finalize(c)
  <2>1. KeyPaid(ScopeKey(Scope[c])) /\ paid' = paid
    BY <1>6 DEF Finalize, Backed
  <2>2. cmd'[c].pc # "finalize"
    BY <1>6 DEF Finalize, Answer, CommandTypeOK, Command
  <2>3. \A s \in Scopes : ledger'[s].status = "succeeded" =>
          ledger[s].status = "succeeded" \/ s = Scope[c]
    BY <1>6 DEF Finalize, CommandTypeOK
  <2> QED
    BY <2>1, <2>2, <2>3
<1>7. CASE MarkFailed(c)
  <2>1. cmd'[c].pc # "finalize" /\ paid' = paid
    BY <1>7 DEF MarkFailed, Answer, CommandTypeOK, Command
  <2>2. \A s \in Scopes : ledger'[s].status = "succeeded" => ledger[s].status = "succeeded"
    BY <1>7 DEF MarkFailed, CommandTypeOK
  <2> QED
    BY <2>1, <2>2
<1> QED
  BY <1>1, <1>2, <1>3, <1>4, <1>5, <1>6, <1>7 DEF CommandStep

LEMMA BackedStep == CommandTypeOK /\ Backed /\ [CoordinatorNext]_cvars => Backed'
<1> SUFFICES ASSUME CommandTypeOK, Backed, [CoordinatorNext]_cvars PROVE Backed'
  OBVIOUS
<1>1. ASSUME NEW c \in Commands, Load(c) \/ CommandStep(c) \/ CommandCrash(c)
      PROVE  Backed'
  <2>1. Backs(c) /\ \A d \in Commands \ {c} : cmd'[d] = cmd[d]
    BY <1>1, StepBacks, OthersStand
  <2> QED
    BY <2>1 DEF Backs, Backed, SucceededMeansPaid, KeyPaid, At
<1>2. CASE (AcceptOrder \/ DeliverOrder) /\ UNCHANGED cmd
  BY <1>2 DEF AcceptOrder, DeliverOrder, Backed, SucceededMeansPaid, KeyPaid, At
<1>3. CASE UNCHANGED cvars
  BY <1>3 DEF cvars, tables, Backed, SucceededMeansPaid, KeyPaid, At
<1> QED
  BY <1>1, <1>2, <1>3 DEF CoordinatorNext

(* A row that says "succeeded" was paid, so a replay that answers from it  *)
(* owes nothing; lost answers and crashes included.                        *)
THEOREM CoordinatorRepliesTrue == CoordinatorSpec => []SucceededMeansPaid
<1>1. MoneyInit /\ CommandInit => Backed
  BY DEF MoneyInit, CommandInit, NewCommand, Backed, SucceededMeansPaid, At
<1>2. Backed => SucceededMeansPaid
  BY DEF Backed
<1> QED
  BY <1>1, <1>2, BackedStep, CoordinatorTypeCorrect, PTL
  DEF CoordinatorSpec, CoordinatorInit, cvars
---------------------------------------------------------------------------
(* The end of a cancelled order.  Every attempt is for all of it, under    *)
(* one key, and none is turned down or dies; answers may be lost and       *)
(* writes after the money may fail.                                        *)
(* Either the whole capture has been sent, or nothing has and somebody is  *)
(* at the gateway, or nothing has and the row is as it was: then whoever   *)
(* cancelled the order is still on the way to the gateway.                 *)
AllInFull ==
  /\ \A c \in Commands : Ask[c] = 0 /\ Scope[c] = "full"
  /\ Faults \cap {"refused", "crash"} = {}
FullPaid == KeyPaid(FullKey)

Sending == \E c \in Commands : At(c, "gateway")
Untouched ==
  /\ order.pay = "completed" /\ ~order.refundedAt /\ order.refundAmt = 0
  /\ ledger["full"].status = "none"
Underway ==
  /\ \A c \in Commands : /\ cmd[c].pc \notin {"classify", "void"}
                         /\ At(c, "cancel") => cmd[c].paySeen = "completed"
  /\ order.status \in {"cancelled", "rejected"} =>
       \E c \in Commands : cmd[c].pc \in {"replay", "reserve"}
Unsent ==
  /\ paid.gateway = 0 /\ paid.wallet = 0
  /\ \A c \in Commands : /\ cmd[c].pc \notin {"release", "markfailed", "stamp"}
                         /\ At(c, "gateway") => cmd[c].amt = Capture
  /\ Sending \/ (Untouched /\ Underway)
Settled == paid.gateway = Capture /\ paid.wallet = 0
Repaid == IF FullPaid THEN Settled ELSE Unsent

LEMMA CallersAskAll ==
  ASSUME AllInFull, NEW c \in Commands
  PROVE  Ask[c] = 0 /\ Scope[c] = "full" /\ IntentOf(c) = "full"
  BY DEF AllInFull, IntentOf

(* Once the key is paid, no call under it moves anything.                  *)
LEMMA SettledStays ==
  ASSUME AllInFull, Inv, NEW c \in Commands, FullPaid, Settled,
         Load(c) \/ CommandStep(c) \/ CommandCrash(c)
  PROVE  FullPaid' /\ Settled'
<1>1. CASE CallGateway(c)
  <2>1. paid' = paid
    BY <1>1, CallersAskAll DEF CallGateway, GatewayCall, Sent, FullPaid, FullKey
  <2> QED
    BY <2>1 DEF FullPaid, KeyPaid, Settled
<1>2. CASE ~CallGateway(c)
  <2>1. paid' = paid
    BY <1>2 DEF CommandStep, Load, CommandCrash, CancelFirst, ReplayCheck, Reserve, Classify,
                Finalize, ReleaseClaim, MarkFailed, StampRefundID, VoidOrder, tables
  <2> QED
    BY <2>1 DEF FullPaid, KeyPaid, Settled
<1> QED
  BY <1>1, <1>2

(* The gateway takes the first call under the key: answered or not, the    *)
(* whole capture is sent.                                                  *)
LEMMA FirstCallSettles ==
  ASSUME AllInFull, Inv, ~FullPaid, Unsent, NEW c \in Commands, CallGateway(c)
  PROVE  FullPaid' /\ Settled'
<1>1. cmd[c].amt = Capture
  BY DEF CallGateway, Unsent
<1>2. PICK answer \in {"ok", "error"} : GatewayCall(FullKey, Capture, answer)
  BY <1>1, CallersAskAll DEF CallGateway, FullKey
<1>3. GatewayAccepts(FullKey, Capture)
  BY CaptureAssumption DEF GatewayAccepts, Unsent
<1>4. paid' = Sent(FullKey, Capture)
  BY <1>2, <1>3 DEF GatewayCall, AllInFull
<1>5. paid' = [paid EXCEPT !.keys = @ \union {FullKey}, !.gateway = @ + Capture]
  BY <1>4 DEF Sent, FullPaid
<1> QED
  BY <1>5, CaptureAssumption DEF Unsent, Settled, FullPaid, KeyPaid, Inv, CommandTypeOK

(* An answer to the caller, when no gateway call was turned down.          *)
LEMMA AnswerPhase ==
  ASSUME CommandTypeOK, NEW c \in Commands, NEW result, Answer(c, result)
  PROVE  cmd'[c].pc \in {"done", "void"} /\ (result = "error" => cmd'[c].pc = "done")
<1> DEFINE phase == IF result = "error" THEN "done" ELSE AfterNil(c)
<1>1. cmd' = [cmd EXCEPT ![c].result = result, ![c].pc = phase]
  BY DEF Answer
<1>2. phase \in {"done", "void"} /\ (result = "error" => phase = "done")
  BY DEF AfterNil
<1> HIDE DEF phase
<1> QED
  BY <1>1, <1>2 DEF CommandTypeOK, Command

(* Before the money moves a step of a command keeps somebody on the way.   *)
LEMMA UnsentStep ==
  ASSUME AllInFull, Inv, Backed, ~FullPaid, Unsent, NEW c \in Commands,
         Load(c) \/ CommandStep(c), ~CallGateway(c)
  PROVE  ~FullPaid' /\ Unsent'
<1> DEFINE Calm(d) == /\ cmd[d].pc \notin {"release", "markfailed", "stamp"}
                      /\ At(d, "gateway") => cmd[d].amt = Capture
           Safe == paid' = paid /\ (\A d \in Commands \ {c} : cmd'[d] = cmd[d]) /\ Calm(c)'
           p == cmd'[c].pc
<1> USE DEF At
<1>0. CommandTypeOK /\ SoleClaimHolder /\ Funded
  BY DEF Inv
<1>1. \A d \in Commands \ {c} : cmd'[d] = cmd[d]
  BY <1>0, OthersStand
<1>2. ~At(c, "finalize") /\ ledger["full"].status # "succeeded"
  BY CallersAskAll, ScopeAssumption DEF Backed, SucceededMeansPaid, FullPaid, FullKey
<1>3. ~At(c, "release") /\ ~At(c, "markfailed") /\ ~At(c, "stamp")
  BY DEF Unsent
<1>4. Sending => order.pay = "refunded"
  BY <1>0 DEF Sending, SoleClaimHolder, CommandHolders, ClaimPhases
<1>a. ASSUME Safe, ~At(c, "gateway"), Sending PROVE ~FullPaid' /\ Unsent'
  BY <1>a DEF Unsent, Sending, FullPaid, KeyPaid
<1>b. ASSUME Safe, Untouched', Underway' PROVE ~FullPaid' /\ Unsent'
  BY <1>b DEF Unsent, FullPaid, KeyPaid
<1>5. CASE Load(c)
  <2>1. /\ p = (IF Caller[c] \in {"customer", "chef"} THEN "cancel" ELSE "replay")
        /\ cmd'[c].paySeen = order.pay /\ UNCHANGED tables
    BY <1>0, <1>5 DEF Load, NewCommand, CommandTypeOK
  <2>2. cmd[c].pc \in {"idle", "done", "dead"}
    BY <1>5, CommandAssumption DEF Load, MayLoad, Callers, IsCron
  <2>3. Safe
    BY <1>1, <2>1 DEF tables
  <2>4. CASE Sending
    BY <1>a, <2>2, <2>3, <2>4
  <2>5. CASE ~Sending
    <3>1. Untouched' /\ Underway'
      BY <1>1, <2>1, <2>2, <2>5 DEF Unsent, Untouched, Underway, tables
    <3> QED
      BY <1>b, <2>3, <3>1
  <2> QED
    BY <2>4, <2>5
<1>6. CASE CancelFirst(c)
  <2>1. /\ p \in {"replay", "done"} /\ UNCHANGED <<ledger, paid>>
        /\ cmd[c].paySeen = "completed" =>
             p = "replay" \/ order' = order
    BY <1>0, <1>6, GotoPhase DEF CancelFirst
  <2>2. Safe /\ At(c, "cancel")
    BY <1>1, <1>6, <2>1 DEF CancelFirst
  <2>3. CASE Sending
    BY <1>a, <2>2, <2>3
  <2>4. CASE ~Sending
    <3>1. Untouched'
      BY <1>0, <1>6, <2>1, <2>4 DEF Unsent, Untouched, CancelFirst, CommandTypeOK, OrderRow
    <3>2. Underway'
      BY <1>1, <2>1, <2>2, <2>4 DEF Unsent, Underway
    <3> QED
      BY <1>b, <2>2, <3>1, <3>2
  <2> QED
    BY <2>3, <2>4
<1>7. CASE ReplayCheck(c)
  <2>1. At(c, "replay") /\ UNCHANGED tables /\ Scope[c] = "full"
    BY <1>7, CallersAskAll DEF ReplayCheck
  <2>2. CASE ledger["full"].status = "pending"
    <3>1. p = "done"
      BY <1>0, <1>7, <2>1, <2>2, AnswerPhase DEF ReplayCheck
    <3>2. Safe /\ Sending
      BY <1>1, <2>1, <2>2, <3>1 DEF tables, Unsent, Untouched
    <3> QED
      BY <1>a, <2>1, <3>2
  <2>3. CASE ledger["full"].status # "pending"
    <3>1. p = "reserve"
      BY <1>0, <1>2, <1>7, <2>1, <2>3 DEF ReplayCheck, CommandTypeOK, Command
    <3>2. Safe
      BY <1>1, <2>1, <3>1 DEF tables
    <3>3. CASE Sending
      BY <1>a, <2>1, <3>2, <3>3
    <3>4. CASE ~Sending
      <4>1. Untouched' /\ Underway'
        BY <1>1, <2>1, <3>1, <3>4 DEF Unsent, Untouched, Underway, tables
      <4> QED
        BY <1>b, <3>2, <4>1
    <3> QED
      BY <3>3, <3>4
  <2> QED
    BY <2>2, <2>3
<1>8. CASE Reserve(c)
  <2> DEFINE amount == ReserveAmount(order, Ask[c], IntentOf(c))
  <2>0. At(c, "reserve") /\ paid' = paid /\ Ask[c] = 0 /\ Scope[c] = "full" /\ IntentOf(c) = "full"
    BY <1>8, CallersAskAll DEF Reserve
  <2>1. CASE Sending
    <3>1. ReserveOutcome(order, IntentOf(c)) = "already_refunded"
      BY <1>4, <2>1 DEF ReserveOutcome
    <3>2. Goto(c, "classify")
      BY <1>8, <3>1 DEF Reserve
    <3>3. p = "classify"
      BY <1>0, <3>2, GotoPhase
    <3> QED
      BY <1>1, <1>a, <2>0, <2>1, <3>3
  <2>2. CASE ~Sending
    <3>1. Untouched /\ Remaining(order) = Capture
      BY <1>0, <2>2, CaptureAssumption DEF Unsent, Untouched, Funded, Remaining
    <3>2. ReserveOutcome(order, "full") = "won" /\ ReserveAmount(order, 0, "full") = Capture
      BY <3>1, CaptureAssumption DEF Untouched, ReserveOutcome, ReserveAmount
    <3>3. cmd' = [cmd EXCEPT ![c].pc = "gateway", ![c].amt = Capture,
                             ![c].full = Capture >= Remaining(order)]
      <4>1. amount = Capture /\ ReserveOutcome(order, IntentOf(c)) = "won"
        BY <2>0, <3>2
      <4>2. ~(Ask[c] > amount) /\ ledger[Scope[c]].status = "none"
        BY <2>0, <3>1, <4>1, CaptureAssumption DEF Untouched
      <4>3. cmd' = [cmd EXCEPT ![c].pc = "gateway", ![c].amt = amount,
                               ![c].full = amount >= Remaining(order)]
        <5> HIDE DEF amount
        <5> QED
          BY <1>8, <4>1, <4>2 DEF Reserve, amount
      <4> QED
        BY <4>1, <4>3
    <3>4. p = "gateway" /\ cmd'[c].amt = Capture
      BY <1>0, <3>3 DEF CommandTypeOK, Command
    <3>5. Sending' /\ Safe
      BY <1>1, <2>0, <3>4 DEF Sending
    <3> QED
      BY <3>5 DEF Unsent, FullPaid, KeyPaid
  <2> QED
    BY <2>1, <2>2
<1>9. CASE Classify(c)
  <2>1. At(c, "classify") /\ UNCHANGED tables /\ p \in {"done", "void"}
    BY <1>0, <1>9, AnswerPhase DEF Classify
  <2>2. Sending /\ Safe
    BY <1>1, <2>1 DEF Unsent, Underway, tables
  <2> QED
    BY <1>a, <2>1, <2>2
<1>10. CASE VoidOrder(c)
  <2>1. At(c, "void") /\ p = "done" /\ paid' = paid
    BY <1>0, <1>10, GotoPhase DEF VoidOrder
  <2>2. Sending /\ Safe
    BY <1>1, <2>1 DEF Unsent, Underway
  <2> QED
    BY <1>a, <2>1, <2>2
<1> QED
  BY <1>2, <1>3, <1>5, <1>6, <1>7, <1>8, <1>9, <1>10
  DEF CommandStep, Finalize, ReleaseClaim, MarkFailed, StampRefundID

LEMMA RepaidStep ==
  ASSUME AllInFull
  PROVE  Inv /\ Backed /\ Repaid /\ [CoordinatorNext]_cvars => Repaid'
<1> SUFFICES ASSUME Inv, Backed, Repaid, [CoordinatorNext]_cvars PROVE Repaid'
  OBVIOUS
<1>1. ASSUME NEW c \in Commands, Load(c) \/ CommandStep(c) \/ CommandCrash(c) PROVE Repaid'
  <2>1. ~CommandCrash(c)
    BY DEF CommandCrash, AllInFull
  <2> QED
    BY <1>1, <2>1, SettledStays, FirstCallSettles, UnsentStep DEF Repaid, CommandStep
<1>2. CASE (AcceptOrder \/ DeliverOrder) /\ UNCHANGED cmd
  <2>1. UNCHANGED <<ledger, paid, cmd, order.pay, order.refundedAt, order.refundAmt>>
        /\ order'.status \in {"accepted", "delivered"}
    BY <1>2 DEF AcceptOrder, DeliverOrder, Inv, CommandTypeOK, OrderRow
  <2>2. FullPaid' = FullPaid /\ (Settled => Settled')
    BY <2>1 DEF FullPaid, KeyPaid, Settled
  <2>3. Unsent => Unsent'
    BY <2>1 DEF Unsent, Sending, Untouched, Underway, At
  <2> QED
    BY <2>2, <2>3 DEF Repaid
<1>3. CASE UNCHANGED cvars
  BY <1>3 DEF cvars, tables, Repaid, FullPaid, KeyPaid, Settled, Unsent, Sending, Untouched,
              Underway, At
<1> QED
  BY <1>1, <1>2, <1>3 DEF CoordinatorNext

(* However the callers race to cancel an order, whichever answers of the   *)
(* gateway are lost and whichever writes fail afterwards, once nothing is  *)
(* in flight a cancelled or rejected order has been paid back in full.     *)
THEOREM CoordinatorRefundsEnded ==
  ASSUME AllInFull
  PROVE  CoordinatorSpec => []EndedIsRefunded
<1>1. MoneyInit /\ CommandInit => Repaid
  BY CaptureAssumption, ScopeAssumption
  DEF MoneyInit, CommandInit, NewCommand, Repaid, FullPaid, KeyPaid, Unsent, Sending, Untouched,
      Underway, At
<1>2. MoneyInit /\ CommandInit => Backed
  BY DEF MoneyInit, CommandInit, NewCommand, Backed, SucceededMeansPaid, At
<1>3. Repaid => EndedIsRefunded
  <2>1. Settled => TotalPaid = Capture
    BY CaptureAssumption DEF Settled, TotalPaid
  <2>2. Unsent /\ CommandsIdle => order.status \notin {"cancelled", "rejected"}
    BY DEF Unsent, Sending, Underway, At, CommandsIdle
  <2> QED
    BY <2>1, <2>2 DEF Repaid, EndedIsRefunded
<1>4. Inv => CommandTypeOK
  BY DEF Inv
<1> QED
  BY <1>1, <1>2, <1>3, <1>4, RepaidStep, BackedStep, CoordinatorInv, PTL
  DEF CoordinatorSpec, CoordinatorInit, cvars

---------------------------------------------------------------------------
(* The row has a payment status, and every caller has a place in its code. *)
Shape ==
  /\ "pay" \in DOMAIN order
  /\ DOMAIN cmd = Commands /\ \A c \in Commands : "pc" \in DOMAIN cmd[c]
  /\ DOMAIN req = Requests /\ \A r \in Requests : {"pc", "amt"} \subseteq DOMAIN req[r]

(* What a request holds the claim for is an amount.                        *)
Paying == {"pay", "persist", "swap", "release"}
HeldIsAmount ==
  \A r \in Requests :
    /\ Kind[r] # "line" /\ req[r].pc \in Paying => req[r].amt > 0
    /\ req[r].pc = "persist" => Kind[r] \in Keyed \cup {"saga"}

(* At most one live holder over all paths; while there is one, the row     *)
(* reads refunded.                                                         *)
Exclusive ==
  /\ \A c, d \in CommandHolders : c = d
  /\ \A r, s \in RequestHolders : r = s
  /\ CommandHolders = {} \/ RequestHolders = {}
  /\ LiveHolders # {} => order.pay = "refunded"

(* A step takes the claim of a row nobody holds, lets its own claim go, or *)
(* leaves the claim to whom it belongs.                                    *)
ClaimTaken ==
  /\ order.pay # "refunded" /\ order'.pay = "refunded"
  /\ \/ \E c : /\ CommandHolders' \subseteq CommandHolders \cup {c}
               /\ RequestHolders' \subseteq RequestHolders
     \/ \E r : /\ RequestHolders' \subseteq RequestHolders \cup {r}
               /\ CommandHolders' \subseteq CommandHolders
ClaimLeft ==
  \/ \E c \in CommandHolders : /\ CommandHolders' \subseteq CommandHolders \ {c}
                              /\ RequestHolders' \subseteq RequestHolders
  \/ \E r \in RequestHolders : /\ RequestHolders' \subseteq RequestHolders \ {r}
                              /\ CommandHolders' \subseteq CommandHolders
ClaimStays ==
  /\ CommandHolders' \subseteq CommandHolders /\ RequestHolders' \subseteq RequestHolders
  /\ order'.pay \in {order.pay, "refunded"} \/ LiveHolders = {}

(* Any of the three keeps the claim exclusive.                             *)
LEMMA Exclusion ==
  ASSUME Exclusive, ClaimTaken \/ ClaimLeft \/ ClaimStays
  PROVE  Exclusive'
<1>1. CASE ClaimTaken
  <2>1. CommandHolders = {} /\ RequestHolders = {}
    BY <1>1 DEF Exclusive, ClaimTaken, LiveHolders
  <2> QED
    BY <1>1, <2>1 DEF ClaimTaken, Exclusive, LiveHolders
<1>2. CASE ClaimLeft
  <2>1. CommandHolders' = {} /\ RequestHolders' = {}
    BY <1>2 DEF ClaimLeft, Exclusive
  <2> QED
    BY <2>1 DEF Exclusive, LiveHolders
<1>3. CASE ClaimStays
  BY <1>3 DEF ClaimStays, Exclusive, LiveHolders
<1> QED
  BY <1>1, <1>2, <1>3

(* A claim is won only on a completed row, for a positive amount.          *)
LEMMA WonIsOpen ==
  ASSUME NEW intent, NEW asked, Wins(order, intent)
  PROVE  order.pay = "completed" /\ ReserveAmount(order, asked, intent) > 0
  BY DEF Wins, ReserveOutcome, ReserveAmount

(* A command moves on.                                                     *)
Onward(c) ==
  /\ DOMAIN cmd' = Commands /\ "pc" \in DOMAIN cmd'[c]
  /\ \A d \in Commands \ {c} : cmd'[d] = cmd[d]

(* The two ways a command moves on move no other command.                  *)
LEMMA GotoMoves ==
  ASSUME Shape, NEW c \in Commands, NEW p, Goto(c, p)
  PROVE  Onward(c) /\ cmd'[c].pc = p
  BY DEF Shape, Goto, Onward

LEMMA AnswerMoves ==
  ASSUME Shape, NEW c \in Commands, NEW a, Answer(c, a)
  PROVE  Onward(c) /\ cmd'[c].pc \in {"done", "void"}
<1>1. cmd' = [cmd EXCEPT ![c] =
                [@ EXCEPT !.result = a, !.pc = IF a = "error" THEN "done" ELSE AfterNil(c)]]
  BY DEF Answer
<1>2. DOMAIN cmd' = Commands /\ (\A d \in Commands \ {c} : cmd'[d] = cmd[d])
      /\ cmd'[c] = [cmd[c] EXCEPT !.result = a, !.pc = IF a = "error" THEN "done" ELSE AfterNil(c)]
  BY <1>1 DEF Shape
<1>3. "pc" \in DOMAIN cmd'[c] /\ cmd'[c].pc = IF a = "error" THEN "done" ELSE AfterNil(c)
  BY <1>2 DEF Shape
<1> QED
  BY <1>2, <1>3 DEF Onward, AfterNil

(* What a command's step can do to the sets of holders.                    *)
LEMMA CommandPart ==
  ASSUME Shape, NEW c \in Commands, Onward(c), UNCHANGED handlerVars
  PROVE  /\ RequestHolders' = RequestHolders
         /\ CommandHolders' \subseteq CommandHolders \cup {c}
         /\ cmd'[c].pc \notin ClaimPhases => CommandHolders' \subseteq CommandHolders \ {c}
         /\ c \in CommandHolders => CommandHolders' \subseteq CommandHolders
  BY DEF Onward, CommandHolders, RequestHolders, handlerVars, Shape

(* A command's steps: only its reservation takes the claim, only its last  *)
(* step gives it back.                                                     *)
CommandMoves(c) == Load(c) \/ CommandStep(c) \/ CommandCrash(c)

LEMMA CommandClaims ==
  ASSUME Shape, NEW c \in Commands, CommandMoves(c), UNCHANGED handlerVars
  PROVE  Onward(c) /\ "pay" \in DOMAIN order' /\ (ClaimTaken \/ ClaimLeft \/ ClaimStays)
<1> DEFINE Idles == /\ Onward(c) /\ cmd'[c].pc \notin ClaimPhases
                    /\ order'.pay = order.pay /\ "pay" \in DOMAIN order'
<1>a. Idles => Onward(c) /\ "pay" \in DOMAIN order' /\ ClaimStays
  BY CommandPart DEF ClaimStays
<1>1. CASE Load(c)
  <2>1. Onward(c) /\ cmd'[c].pc \in {"cancel", "replay"} /\ UNCHANGED order
    BY <1>1 DEF Load, Onward, NewCommand, Shape, tables
  <2> QED
    BY <2>1, <1>a DEF ClaimPhases, Shape
<1>2. CASE CancelFirst(c)
  <2>1. Onward(c) /\ cmd'[c].pc \in {"done", "replay"}
    BY <1>2, GotoMoves DEF CancelFirst
  <2>2. order'.pay = order.pay /\ "pay" \in DOMAIN order'
    BY <1>2 DEF CancelFirst, Shape
  <2> QED
    BY <2>1, <2>2, <1>a DEF ClaimPhases
<1>3. CASE ReplayCheck(c)
  <2>1. Onward(c) /\ cmd'[c].pc \in {"done", "stamp", "reserve", "void"}
    <3>1. ASSUME NEW p, NEW x, cmd' = [cmd EXCEPT ![c].result = x, ![c].pc = p]
          PROVE  Onward(c) /\ cmd'[c].pc = p
      BY <3>1 DEF Shape, Onward
    <3>2. ASSUME NEW p, NEW x, cmd' = [cmd EXCEPT ![c].pc = p, ![c].retry = x]
          PROVE  Onward(c) /\ cmd'[c].pc = p
      BY <3>2 DEF Shape, Onward
    <3>3. CASE ledger[Scope[c]].status = "succeeded"
      BY <1>3, <3>3, <3>1 DEF ReplayCheck
    <3>4. CASE ledger[Scope[c]].status = "pending"
      BY <1>3, <3>4, AnswerMoves DEF ReplayCheck
    <3>5. CASE ledger[Scope[c]].status \notin {"succeeded", "pending"}
      BY <1>3, <3>5, <3>2 DEF ReplayCheck
    <3> QED
      BY <3>3, <3>4, <3>5
  <2> QED
    BY <1>3, <2>1, <1>a DEF ClaimPhases, ReplayCheck, tables, Shape
<1>4. CASE Reserve(c)
  <2> DEFINE amount == ReserveAmount(order, Ask[c], IntentOf(c))
             won == order' = Reserved(order, amount, IntentOf(c))
                    /\ cmd' = [cmd EXCEPT ![c].pc = "gateway", ![c].amt = amount,
                                          ![c].full = amount >= Remaining(order)]
  <2>1. CASE ReserveOutcome(order, IntentOf(c)) = "won" /\ won
    <3>1. order.pay = "completed"
      BY <2>1, WonIsOpen DEF Wins
    <3>2. order'.pay = "refunded" /\ "pay" \in DOMAIN order'
      BY <2>1 DEF Reserved, Shape
    <3>3. Onward(c)
      BY <2>1 DEF Onward, Shape
    <3> QED
      BY <3>1, <3>2, <3>3, CommandPart DEF ClaimTaken
  <2>2. CASE UNCHANGED order /\ (Goto(c, "classify") \/ \E a : Answer(c, a))
    BY <2>2, <1>a, GotoMoves, AnswerMoves DEF ClaimPhases, Shape
  <2>3. (ReserveOutcome(order, IntentOf(c)) = "won" /\ won)
        \/ (UNCHANGED order /\ (Goto(c, "classify") \/ \E a : Answer(c, a)))
    BY <1>4 DEF Reserve
  <2> QED
    BY <2>1, <2>2, <2>3
<1>5. CASE Classify(c) \/ MarkFailed(c)
  <2>1. UNCHANGED order /\ \E a : Answer(c, a)
    BY <1>5 DEF Classify, MarkFailed, tables
  <2> QED
    BY <2>1, <1>a, AnswerMoves DEF ClaimPhases, Shape
<1>6. CASE CallGateway(c)
  <2>1. Onward(c) /\ c \in CommandHolders /\ UNCHANGED order
    BY <1>6, GotoMoves DEF CallGateway, CommandHolders, ClaimPhases, At
  <2> QED
    BY <2>1, CommandPart DEF ClaimStays, Shape
<1>7. CASE Finalize(c)
  <2>1. c \in CommandHolders /\ "pay" \in DOMAIN order'
    BY <1>7 DEF Finalize, CommandHolders, ClaimPhases, At, Shape
  <2>2. Onward(c) /\ cmd'[c].pc \in {"stamp", "done", "void"}
    <3>1. ASSUME NEW p, NEW x, cmd' = [cmd EXCEPT ![c].result = x, ![c].pc = p]
          PROVE  Onward(c) /\ cmd'[c].pc = p
      BY <3>1 DEF Shape, Onward
    <3> QED
      BY <1>7, <3>1, AnswerMoves DEF Finalize
  <2> QED
    BY <2>1, <2>2, CommandPart DEF ClaimLeft, ClaimPhases
<1>8. CASE ReleaseClaim(c)
  <2>1. c \in CommandHolders /\ "pay" \in DOMAIN order'
    BY <1>8 DEF ReleaseClaim, CommandHolders, ClaimPhases, At, Shape, Released,
               ReleasedFull, ReleasedPartial
  <2>2. Onward(c) /\ cmd'[c].pc = "markfailed"
    BY <1>8, GotoMoves DEF ReleaseClaim
  <2> QED
    BY <2>1, <2>2, CommandPart DEF ClaimLeft, ClaimPhases
<1>9. CASE StampRefundID(c) \/ VoidOrder(c)
  <2>1. order'.pay = order.pay /\ "pay" \in DOMAIN order'
    BY <1>9 DEF StampRefundID, VoidOrder, Shape
  <2>2. Onward(c) /\ cmd'[c].pc \in {"void", "done"}
    BY <1>9, GotoMoves DEF StampRefundID, VoidOrder, AfterNil
  <2> QED
    BY <2>1, <2>2, <1>a DEF ClaimPhases
<1>10. CASE CommandCrash(c)
  <2>1. UNCHANGED order /\ Onward(c) /\ cmd'[c].pc = "dead"
    BY <1>10, GotoMoves DEF CommandCrash, tables
  <2> QED
    BY <2>1, <1>a DEF ClaimPhases, Shape
<1> QED
  BY <1>1, <1>2, <1>3, <1>4, <1>5, <1>6, <1>7, <1>8, <1>9, <1>10 DEF CommandMoves, CommandStep

(* A request moves on.                                                     *)
OnwardReq(r) ==
  /\ DOMAIN req' = Requests /\ {"pc", "amt"} \subseteq DOMAIN req'[r]
  /\ \A s \in Requests \ {r} : req'[s] = req[s]
ClaimingPhases == {"cancel", "pay", "persist", "swap", "release"}

(* What a request's step can do to the requests, and to the sets of        *)
(* holders.                                                                *)
LEMMA StepMoves ==
  ASSUME Shape, NEW r \in Requests, NEW p, Step(r, p)
  PROVE  OnwardReq(r) /\ req'[r].pc = p /\ req'[r].amt = req[r].amt
  BY DEF Shape, Step, OnwardReq

LEMMA RequestPart ==
  ASSUME Shape, NEW r \in Requests, OnwardReq(r), UNCHANGED cmd
  PROVE  /\ CommandHolders' = CommandHolders
         /\ RequestHolders' \subseteq RequestHolders \cup {r}
         /\ req'[r].pc \notin ClaimingPhases \/ Kind[r] = "line" =>
              RequestHolders' \subseteq RequestHolders \ {r}
         /\ r \in RequestHolders => RequestHolders' \subseteq RequestHolders
  BY DEF OnwardReq, CommandHolders, RequestHolders, Shape, ClaimingPhases

(* A request's steps, the same way. A line's refund holds a claim on its   *)
(* line and not on the row.                                                *)
RequestMoves(r) == Submit(r) \/ RequestStep(r) \/ RequestCrash(r)
Sound(r) ==
  /\ Kind[r] # "line" /\ req'[r].pc \in Paying => req'[r].amt > 0
  /\ req'[r].pc = "persist" => Kind[r] \in Keyed \cup {"saga"}

LEMMA RequestClaims ==
  ASSUME RequestAssumption, Shape, HeldIsAmount, NEW r \in Requests, RequestMoves(r), UNCHANGED cmd
  PROVE  OnwardReq(r) /\ Sound(r) /\ "pay" \in DOMAIN order' /\ (ClaimTaken \/ ClaimLeft \/ ClaimStays)
<1> DEFINE Steady == order'.pay = order.pay /\ "pay" \in DOMAIN order'
           Idles == OnwardReq(r) /\ req'[r].pc \notin ClaimingPhases /\ Steady
           Goal == OnwardReq(r) /\ Sound(r) /\ "pay" \in DOMAIN order' /\ (ClaimTaken \/ ClaimLeft \/ ClaimStays)
<1>a. Idles => Goal
  BY RequestPart DEF ClaimStays, Sound, Paying, ClaimingPhases
<1>b. OnwardReq(r) /\ Steady /\ Kind[r] = "line" /\ req'[r].pc # "persist" => Goal
  BY RequestPart DEF ClaimStays, Sound
<1>c. /\ OnwardReq(r) /\ Steady /\ r \in RequestHolders /\ req'[r].amt > 0
      /\ req'[r].pc = "persist" => Kind[r] \in Keyed \cup {"saga"}
      => Goal
  BY RequestPart DEF ClaimStays, Sound
<1>1. CASE Submit(r)
  <2>1. OnwardReq(r) /\ req'[r].pc \in {"done", "reserve"}
    BY <1>1, StepMoves DEF Submit
  <2> QED
    BY <1>1, <2>1, <1>a DEF Submit, ClaimingPhases, tables, Shape
<1>2. CASE ReserveOrder(r)
  <2> DEFINE intent == IF Kind[r] \in {"chefcancel", "saga"} THEN "full" ELSE "partial"
             amount == ReserveAmount(order, Amount[r], intent)
  <2>1. CASE Wins(order, intent)
    <3>1. order' = Reserved(order, amount, intent)
          /\ req' = [req EXCEPT ![r] =
                  [pc |-> IF Kind[r] = "chefcancel" THEN "cancel" ELSE "pay",
                   amt |-> amount, prior |-> order.refundAmt,
                   full |-> amount >= Remaining(order)]]
      BY <1>2, <2>1 DEF ReserveOrder
    <3>2. OnwardReq(r) /\ req'[r].amt = amount /\ req'[r].pc \in {"cancel", "pay"}
      BY <3>1 DEF OnwardReq, Shape
    <3>3. order.pay = "completed" /\ amount > 0
      BY <2>1, WonIsOpen
    <3>4. order'.pay = "refunded" /\ "pay" \in DOMAIN order'
      BY <3>1 DEF Reserved, Shape
    <3> QED
      BY <3>2, <3>3, <3>4, RequestPart DEF ClaimTaken, Sound
  <2>2. CASE ~Wins(order, intent)
    <3>1. UNCHANGED order /\ req' = [req EXCEPT ![r] = [@ EXCEPT !.amt = 0, !.pc =
                  CASE Kind[r] \in Keyed       -> "unclaim"
                    [] Kind[r] = "chefcancel" -> "cancel"
                    [] OTHER                  -> "done"]]
      BY <1>2, <2>2 DEF ReserveOrder
    <3>2. OnwardReq(r) /\ req'[r].amt = 0 /\ req'[r].pc \in {"unclaim", "cancel", "done"}
      BY <3>1 DEF OnwardReq, Shape
    <3>3. RequestHolders' \subseteq RequestHolders \ {r}
      BY <3>2 DEF RequestHolders, OnwardReq
    <3> QED
      BY <3>1, <3>2, <3>3, RequestPart DEF ClaimStays, Sound, Paying, Shape
  <2> QED
    BY <2>1, <2>2
<1>3. CASE ReserveLine(r)
  <2>1. OnwardReq(r) /\ req'[r].pc \in {"pay", "done"}
    BY <1>3, StepMoves DEF ReserveLine, Shape, OnwardReq
  <2>2. Steady
    BY <1>3 DEF ReserveLine, LineReserved, Shape
  <2> QED
    BY <1>3, <2>1, <2>2, <1>b DEF ReserveLine
<1>4. CASE PersistCancel(r)
  <2>1. OnwardReq(r) /\ req'[r].amt = req[r].amt
    BY <1>4, StepMoves DEF PersistCancel
  <2>2. Steady
    BY <1>4 DEF PersistCancel, Shape
  <2>3. req'[r].pc = "done" \/ (req'[r].pc = "pay" /\ req[r].amt > 0)
    BY <1>4, StepMoves DEF PersistCancel
  <2>4. CASE req'[r].pc = "pay" /\ req[r].amt > 0 /\ Kind[r] # "line"
    BY <1>4, <2>1, <2>2, <2>4, <1>c DEF PersistCancel, RequestHolders, In
  <2> QED
    BY <2>1, <2>2, <2>3, <2>4, <1>a, <1>b DEF ClaimingPhases
<1>5. CASE Pay(r)
  <2>1. OnwardReq(r) /\ req'[r].amt = req[r].amt /\ Steady
    BY <1>5, StepMoves DEF Pay, Shape
  <2>3. /\ req'[r].pc = "persist" => Kind[r] \in Keyed \cup {"saga"}
        /\ Kind[r] = "line" => req'[r].pc # "persist"
    <3>1. PICK answer \in {"ok", "error"} : Step(r, AfterPay(r, answer))
      BY <1>5 DEF Pay
    <3>2. Kind[r] \in Kinds
      BY RequestAssumption DEF RequestAssumption
    <3> QED
      BY <3>1, <3>2, StepMoves DEF AfterPay, Kinds, Keyed
  <2>2. CASE Kind[r] # "line"
    BY <1>5, <2>1, <2>2, <2>3, <1>c DEF Pay, RequestHolders, In, HeldIsAmount, Paying
  <2> QED
    BY <2>1, <2>2, <2>3, <1>b
<1>6. CASE SwapSentinel(r)
  <2>1. OnwardReq(r) /\ req'[r].pc = "done" /\ Steady
    BY <1>6, StepMoves DEF SwapSentinel, Shape
  <2> QED
    BY <2>1, <1>a DEF ClaimingPhases
<1>7. CASE Persist(r) \/ ReleaseOrder(r)
  <2>1. OnwardReq(r) /\ req'[r].pc \in {"done", "reserve", "unclaim"}
    BY <1>7, StepMoves DEF Persist, ReleaseOrder
  <2>2. "pay" \in DOMAIN order'
    <3>1. CASE ReleaseOrder(r)
      BY <3>1 DEF ReleaseOrder, Released, ReleasedFull, ReleasedPartial, Shape
    <3>2. CASE Persist(r)
      <4>1. Kind[r] \in Keyed \cup {"saga"}
        BY <3>2 DEF Persist, In, HeldIsAmount
      <4> QED
        BY <3>2, <4>1 DEF Persist, Persisted, Keyed, Shape
    <3> QED
      BY <1>7, <3>1, <3>2
  <2>3. CASE Kind[r] # "line"
    <3>1. r \in RequestHolders
      BY <1>7, <2>3 DEF Persist, ReleaseOrder, RequestHolders, In, HeldIsAmount, Paying
    <3> QED
      BY <2>1, <2>2, <3>1, RequestPart DEF ClaimLeft, Sound, ClaimingPhases, Paying
  <2>4. CASE Kind[r] = "line"
    BY <1>7, <2>4 DEF Persist, ReleaseOrder, In, HeldIsAmount, Keyed
  <2> QED
    BY <2>3, <2>4
<1>8. CASE ReleaseLine(r)
  <2>1. OnwardReq(r) /\ Steady /\ Kind[r] = "line" /\ req'[r].pc = "done"
    BY <1>8, StepMoves DEF ReleaseLine, LineReleased, Shape
  <2> QED
    BY <2>1, <1>b
<1>9. CASE Unclaim(r) \/ RequestCrash(r)
  <2>1. OnwardReq(r) /\ req'[r].pc \in {"done", "reserve", "dead"}
    BY <1>9, StepMoves DEF Unclaim, RequestCrash
  <2> QED
    BY <1>9, <2>1, <1>a DEF Unclaim, RequestCrash, tables, ClaimingPhases, Shape
<1> QED
  BY <1>1, <1>2, <1>3, <1>4, <1>5, <1>6, <1>7, <1>8, <1>9 DEF RequestMoves, RequestStep

ExclusionInv == Shape /\ HeldIsAmount /\ Exclusive

(* Whoever else writes the row leaves the claim where it is, or finishes a *)
(* row that nobody holds.                                                  *)
Elsewhere ==
  /\ UNCHANGED <<cmd, req>> /\ "pay" \in DOMAIN order'
  /\ order'.pay \in {order.pay, "refunded"} \/ LiveHolders = {}

LEMMA ElsewhereStep ==
  ASSUME ExclusionInv, Elsewhere
  PROVE  ExclusionInv'
<1>1. ClaimStays
  BY DEF Elsewhere, ClaimStays, CommandHolders, RequestHolders
<1>2. Exclusive'
  BY <1>1, Exclusion DEF ExclusionInv
<1>3. Shape' /\ HeldIsAmount'
  BY DEF ExclusionInv, Elsewhere, Shape, HeldIsAmount
<1> QED
  BY <1>2, <1>3 DEF ExclusionInv

(* Issues, the deferred retry and the cancellation requests write the row, *)
(* if at all, without holding it.                                          *)
LEMMA IssueClaims ==
  ASSUME Shape, UNCHANGED cmd,
         RetryDeferred \/ FlowPay \/ FlowPersist
         \/ \E i \in Issues : ReportIssue(i) \/ ResolveIssue(i) \/ RejectIssue(i)
  PROVE  Elsewhere
<1>1. CASE RetryDeferred
  BY <1>1 DEF RetryDeferred, handlerVars, Elsewhere, Shape
<1>2. CASE FlowPay \/ FlowPersist
  BY <1>2 DEF FlowPay, FlowPersist, Elsewhere, Shape
<1>3. ASSUME NEW i \in Issues, ResolveIssue(i) PROVE Elsewhere
  BY <1>3 DEF ResolveIssue, Elsewhere, Shape
<1>4. ASSUME NEW i \in Issues, ReportIssue(i) \/ RejectIssue(i) PROVE Elsewhere
  BY <1>4 DEF ReportIssue, RejectIssue, tables, Elsewhere, Shape
<1> QED
  BY <1>1, <1>2, <1>3, <1>4

LEMMA CancellationClaims ==
  ASSUME Shape, CancellationNext, UNCHANGED <<cmd, handlerVars>>
  PROVE  Elsewhere
<1>1. CASE UNCHANGED order
  BY <1>1 DEF Elsewhere, Shape, handlerVars
<1>2. ASSUME NEW w, NEW a, Settle(w, a) PROVE Elsewhere
  <2>1. "pay" \in DOMAIN order' /\ order'.pay \in {order.pay, "refunded"}
    BY <1>2 DEF Settle, Shape
  <2> QED
    BY <2>1 DEF Elsewhere, handlerVars
<1> QED
  BY <1>1, <1>2 DEF CancellationNext, RequestCancellation, VendorDecide, VendorSave, VendorTimeout,
    Dispute, AdminReview, AdminAdjust, AdminResolve, SweepOwed, Execute, ExecuteLost, ExecuteNothing,
    ExecutePaid, ExecuteRolledBack, WorkerCrash, tables

(* The inductive invariant, and its proof.                                 *)
LEMMA ExclusionStart == Init => ExclusionInv
<1> SUFFICES ASSUME Init PROVE ExclusionInv
  OBVIOUS
<1>1. Shape /\ HeldIsAmount
  BY DEF Init, MoneyInit, CommandInit, NewCommand, HandlersInit, Shape, HeldIsAmount, Paying
<1>2. CommandHolders = {} /\ RequestHolders = {}
  BY DEF Init, CommandInit, NewCommand, HandlersInit, CommandHolders, ClaimPhases, RequestHolders
<1> QED
  BY <1>1, <1>2 DEF ExclusionInv, Exclusive, LiveHolders

LEMMA PathExclusionStep == ExclusionInv /\ [Next]_vars => ExclusionInv'
<1> SUFFICES ASSUME ExclusionInv, [Next]_vars PROVE ExclusionInv'
  OBVIOUS
<1>0. Shape /\ HeldIsAmount /\ Exclusive
  BY DEF ExclusionInv
<1>1. ASSUME NEW c \in Commands, CommandMoves(c), UNCHANGED handlerVars PROVE ExclusionInv'
  <2>1. Onward(c) /\ "pay" \in DOMAIN order' /\ (ClaimTaken \/ ClaimLeft \/ ClaimStays)
    BY <1>0, <1>1, CommandClaims
  <2>2. Exclusive'
    BY <1>0, <2>1, Exclusion
  <2>3. Shape' /\ HeldIsAmount'
    BY <1>0, <1>1, <2>1 DEF Shape, Onward, HeldIsAmount, handlerVars
  <2> QED
    BY <2>2, <2>3 DEF ExclusionInv
<1>2. ASSUME NEW r \in Requests, RequestMoves(r), UNCHANGED cmd PROVE ExclusionInv'
  <2>1. OnwardReq(r) /\ Sound(r) /\ "pay" \in DOMAIN order' /\ (ClaimTaken \/ ClaimLeft \/ ClaimStays)
    BY <1>0, <1>2, RequestClaims, RequestAssumption
  <2>2. Exclusive'
    BY <1>0, <2>1, Exclusion
  <2>3. Shape' /\ HeldIsAmount'
    BY <1>0, <1>2, <2>1 DEF Shape, OnwardReq, HeldIsAmount, Sound
  <2> QED
    BY <2>2, <2>3 DEF ExclusionInv
<1>3. CASE Elsewhere
  BY <1>3, ElsewhereStep
<1>4. CASE Coordinator
  BY <1>4, <1>1 DEF Coordinator, CommandMoves
<1>5. CASE Handlers
  BY <1>5, <1>0, <1>2, <1>3, IssueClaims DEF Handlers, HandlersNext, RequestMoves
<1>6. CASE Cancellation
  BY <1>6, <1>0, <1>3, CancellationClaims DEF Cancellation
<1>7. CASE Kitchen \/ FinalizeGatewayFullRefund
  <2>1. "pay" \in DOMAIN order' /\ order'.pay \in {order.pay, "refunded"} /\ UNCHANGED <<cmd, req>>
    BY <1>7, <1>0 DEF Kitchen, AcceptOrder, DeliverOrder, FinalizeGatewayFullRefund, GatewayFinalized,
      Shape, handlerVars
  <2> QED
    BY <2>1, <1>3 DEF Elsewhere
<1>8. CASE FinalizeStuckRefund
  <2>1. "pay" \in DOMAIN order' /\ LiveHolders = {} /\ UNCHANGED <<cmd, req>>
    BY <1>8, <1>0 DEF FinalizeStuckRefund, StuckFinalized, Shape, handlerVars
  <2> QED
    BY <2>1, <1>3 DEF Elsewhere
<1>9. CASE UNCHANGED vars
  <2>1. Elsewhere
    BY <1>9, <1>0 DEF vars, tables, handlerVars, Elsewhere, Shape
  <2> QED
    BY <2>1, <1>3
<1> QED
  BY <1>4, <1>5, <1>6, <1>7, <1>8, <1>9 DEF Next

LEMMA ExclusionInvariant == Spec => []ExclusionInv
  BY ExclusionStart, PathExclusionStep, PTL DEF Spec

(* Of all the paths that refund an order, at most one is between its claim *)
(* and its end, for any number of callers, requests, issues and faults:    *)
(* the payment_status flip of refundreserve is a mutex for all of them.    *)
THEOREM PathsExclude == Spec => []OneClaimAcrossPaths
<1>1. ASSUME ExclusionInv PROVE OneClaimAcrossPaths
  <2>1. Exclusive
    BY <1>1 DEF ExclusionInv
  <2>2. LiveHolders = {} \/ \E x : LiveHolders = {x}
    BY <2>1 DEF Exclusive, LiveHolders
  <2>3. Cardinality({}) = 0 /\ \A x : Cardinality({x}) = 1
    BY FS_EmptySet, FS_Singleton
  <2>4. Cardinality(LiveHolders) \in {0, 1}
    BY <2>2, <2>3
  <2> QED
    BY <2>1, <2>4 DEF OneClaimAcrossPaths, Exclusive
<1> QED
  BY ExclusionInvariant, <1>1, PTL
==============================================================================
