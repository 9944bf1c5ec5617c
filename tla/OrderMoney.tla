----------------------------- MODULE OrderMoney -----------------------------
(***************************************************************************)
(* The tables the refund paths share, for one order, and the outside world *)
(* that moves its money.  Orders share no refund state with one another,   *)
(* so one order is enough.                                                 *)
(*   order   the orders row                                                *)
(*   lines   the order_items of it that are cancelled                      *)
(*   ledger  refund_transactions, keyed by scope (idempotency_key is       *)
(*           refund:<order>:<scope> and UNIQUE)                            *)
(*   paid    what the payment gateway and the wallet ledger have sent to   *)
(*           the customer, and the idempotency keys they have seen: both   *)
(*           deduplicate on them                                           *)
(***************************************************************************)
EXTENDS RefundReserve, FiniteSets

CONSTANTS
  Capture,     \* what the customer paid for the order
  Lines,       \* its lines
  LineValue,   \* what cancelling each line returns
  Scopes,      \* scope ids the refund coordinator is called with
  Faults       \* what the environment may do: a subset of FaultKinds

FaultKinds == {"refused",   \* the gateway turns a call down, nothing moves
               "lost",      \* the gateway pays but the answer never arrives
               "crash",     \* the process handling a request dies
               "persist"}   \* the write after the money moved fails

ASSUME CaptureAssumption == Capture \in Nat \ {0}
ASSUME LineAssumption    == IsFiniteSet(Lines) /\ LineValue \in [Lines -> Nat \ {0}]
ASSUME FaultAssumption   == Faults \subseteq FaultKinds
ASSUME ScopeAssumption   == "full" \in Scopes

VARIABLES order, lines, ledger, paid
tables == <<order, lines, ledger, paid>>

LedgerStates == {"none", "pending", "succeeded", "failed"}

MoneyInit ==
  /\ order = [pay |-> "completed", refundedAt |-> FALSE, refundAmt |-> 0,
              total |-> Capture, perLine |-> 0, status |-> "pending", refundID |-> "none",
              owed |-> 0]
  /\ lines = {}
  /\ ledger = [s \in Scopes |-> [status |-> "none", amount |-> 0]]
  /\ paid = [keys |-> {}, gateway |-> 0, wallet |-> 0]

---------------------------------------------------------------------------
(* Idempotency keys.  The logical strings are tuples here; the gateway and *)
(* the wallet key spaces are disjoint.                                     *)
ScopeKey(s)       == <<"scope", s>>
FullKey           == ScopeKey("full")
(* Mutant: every partial refund of an order shares one key.                *)
PartialKeyShared(prior) == <<"prior", 0>>

PartialKey(prior) == <<"prior", prior>>
LineKey(l)        == <<"line", l>>
WalletKey(what, id) == <<"wallet", what, id>>

KeyPaid(key) == key \in paid.keys
TotalPaid == paid.gateway + paid.wallet

(* The first call under a key moves its amount; a repeat moves nothing.    *)
Sent(key, amount) ==
  IF KeyPaid(key) THEN paid
  ELSE [paid EXCEPT !.keys = @ \union {key}, !.gateway = @ + amount]
Credited(key, amount) ==
  IF KeyPaid(key) THEN paid
  ELSE [paid EXCEPT !.keys = @ \union {key}, !.wallet = @ + amount]

(* One call to the gateway and the answer the caller sees.  The gateway    *)
(* never returns more than it captured: it turns such a call down.         *)
GatewayAccepts(key, amount) == KeyPaid(key) \/ paid.gateway + amount <= Capture

GatewayCall(key, amount, answer) ==
  \/ /\ answer = "ok" /\ GatewayAccepts(key, amount)
     /\ paid' = Sent(key, amount)
  \/ /\ answer = "error" /\ (~GatewayAccepts(key, amount) \/ "refused" \in Faults)
     /\ UNCHANGED paid
  \/ /\ answer = "error" /\ GatewayAccepts(key, amount) /\ "lost" \in Faults
     /\ paid' = Sent(key, amount)

(* A store-credit grant is a row of this database: it lands or it does not. *)
WalletCredit(key, amount, answer) ==
  \/ answer = "ok"    /\ paid' = Credited(key, amount)
  \/ answer = "error" /\ "refused" \in Faults /\ UNCHANGED paid

---------------------------------------------------------------------------
(* The kitchen's side of the order, which the refund paths only observe:   *)
(* the chef accepts it, and it is delivered, by the chef or by a courier   *)
(* (whom a pending cancellation request does not stop).  Both are guarded  *)
(* on the status they read, so a cancelled order is never resurrected.     *)
AcceptOrder ==
  /\ order.status = "pending"
  /\ order' = [order EXCEPT !.status = "accepted"]
  /\ UNCHANGED <<lines, ledger, paid>>

DeliverOrder ==
  /\ order.status = "accepted"
  /\ order' = [order EXCEPT !.status = "delivered"]
  /\ UNCHANGED <<lines, ledger, paid>>
---------------------------------------------------------------------------
(* Whatever the interleaving, the customer never gets back more than was   *)
(* captured (the over-refund every reservation of refundreserve guards).   *)
NeverOverRefund == TotalPaid <= Capture

(* No path sends money that refund_amount has not counted first: this is   *)
(* what makes refund_amount a cap on the next reservation.                 *)
PaidIsRecorded == TotalPaid <= order.refundAmt

(* A succeeded row of refund_transactions stands for money sent under its  *)
(* key: the coordinator's replay answers from it without paying.           *)
SucceededMeansPaid ==
  \A s \in Scopes : ledger[s].status = "succeeded" => KeyPaid(ScopeKey(s))
=============================================================================
