----------------------------- MODULE WebBasket -----------------------------
(***************************************************************************)
(* The web customer's basket: one kitchen's dishes, a promo previewed for  *)
(* them, an earlier order ordered again, and the checkout that turns the   *)
(* basket into an order and asks the server whether it was paid.           *)
(***************************************************************************)
EXTENDS Naturals, Sequences, FiniteSets

CONSTANTS
  Dishes,      \* a dish with its add-ons, or a configured bake
  Kitchen,     \* the kitchen of each
  Price,       \* the rounded price of each
  Past,        \* the dishes of the order that can be ordered again
  MaxClock,    \* bound on the times lines are added
  MaxQuantity, MaxOrders, MaxFaults

(* What the theorems ask of the constants: an order that can be ordered    *)
(* again is one kitchen's.                                                 *)
WebBasketAssumption ==
  /\ {Kitchen[d] : d \in Dishes} \cap {"none", "no"} = {} /\ Price \in [Dishes -> Nat] /\ Past \subseteq Dishes
  /\ \A d, e \in Past : Kitchen[d] = Kitchen[e]
  /\ MaxQuantity \in Nat \ {0} /\ {MaxClock, MaxOrders, MaxFaults} \subseteq Nat

Pages == {"shop", "cart", "past", "checkout", "order"}
Steps == {"placing", "creating", "sheet", "verifying", "over"}
Payments == {"none", "open", "pending", "captured", "failed", "debited"}

VARIABLES
  clock,     \* Date.now()
  items,     \* the lines: id, dish, quantity
  chefId,    \* the kitchen they are from, or "none"
  promo,     \* the contents the previewed discount was computed for, or {}
  asking,    \* the contents a promo is being validated for, or {}
  reorder,   \* "no", or the chefId the page showed when it asked to order again
  page,
  orders,    \* the orders asked for: contents, payment, and how far the
             \* handler that asked for it has got
  here,      \* the order whose handler the page on screen started, or 0
  faults

basket == <<items, chefId, promo>>
vars == <<clock, basket, asking, reorder, page, orders, here, faults>>

WebInit ==
  /\ clock = 0 /\ items = {} /\ chefId = "none" /\ promo = {} /\ asking = {} /\ reorder = "no"
  /\ page = "shop" /\ orders = <<>> /\ here = 0 /\ faults = 0

Contents == {<<l.dish, l.qty>> : l \in items}
Ordered == {l.dish : l \in items}
Fault == faults < MaxFaults /\ faults' = faults + 1

(* Taps are at least a millisecond apart; the lines of one loop are not.   *)
Tick == clock < MaxClock /\ clock' = clock + 1

(* A page may be left at any time; the calls its handlers wait for go on.  *)
Go(p) ==
  /\ p \in {"shop", "cart", "past"} \/ (p = "checkout" /\ page = "cart" /\ items # {})
  /\ p # page /\ page' = p /\ here' = 0 /\ UNCHANGED <<clock, basket, asking, reorder, orders, faults>>

---------------------------------------------------------------------------
(* A line's id is the time and the price; dishes merge by their key.       *)
LineId(d) == <<clock, Price[d]>>
With(lines, ds) ==
  {IF l.dish \in ds THEN [l EXCEPT !.qty = @ + 1] ELSE l : l \in lines}
    \cup {[id |-> LineId(d), dish |-> d, qty |-> 1] : d \in ds \ {l.dish : l \in lines}}
Fits(lines) == \A l \in lines : l.qty <= MaxQuantity

Add(d) ==
  /\ page = "shop" /\ chefId \in {"none", Kitchen[d]} /\ Fits(With(items, {d}))
  /\ items' = With(items, {d}) /\ chefId' = Kitchen[d] /\ promo' = {} /\ Tick
  /\ UNCHANGED <<asking, reorder, page, orders, here, faults>>

(* Another kitchen's dish replaces the basket once the customer agrees.    *)
Replace(d) ==
  /\ page = "shop" /\ chefId \notin {"none", Kitchen[d]}
  /\ items' = With({}, {d}) /\ chefId' = Kitchen[d] /\ promo' = {} /\ Tick
  /\ UNCHANGED <<asking, reorder, page, orders, here, faults>>

Remove(l) ==
  /\ page = "cart" /\ items' = {k \in items : k.id # l.id} /\ promo' = {}
  /\ chefId' = IF items' = {} THEN "none" ELSE chefId
  /\ UNCHANGED <<clock, asking, reorder, page, orders, here, faults>>

SetQuantity(l, q) ==
  /\ page = "cart" /\ q \in {l.qty - 1, l.qty + 1} \cap 1..MaxQuantity
  /\ items' = {IF k.id = l.id THEN [k EXCEPT !.qty = q] ELSE k : k \in items} /\ promo' = {}
  /\ UNCHANGED <<clock, chefId, asking, reorder, page, orders, here, faults>>

Emptied == items' = {} /\ chefId' = "none" /\ promo' = {}
Clear == page = "cart" /\ items # {} /\ Emptied /\ UNCHANGED <<clock, asking, reorder, page, orders, here, faults>>

(* handleApplyPromo: the code is validated for the basket as it is now ... *)
AskPromo ==
  /\ page = "cart" /\ items # {} /\ promo = {} /\ asking = {} /\ asking' = Contents
  /\ UNCHANGED <<clock, basket, reorder, page, orders, here, faults>>
(* ... and the answer, good or bad, is applied to the basket as it is then.*)
PromoAnswered ==
  /\ asking # {} /\ asking' = {} /\ promo' \in {asking, {}}
  /\ UNCHANGED <<clock, items, chefId, reorder, page, orders, here, faults>>

---------------------------------------------------------------------------
(* Reorder: the page's basket is the one it last rendered, the store's is  *)
(* the current one.  A foreign basket is cleared first; addItem refuses a  *)
(* dish of another kitchen, which ends the callback.                       *)
AskReorder ==
  /\ page = "past" /\ reorder = "no" /\ reorder' = chefId
  /\ UNCHANGED <<clock, basket, asking, page, orders, here, faults>>

Foreign(ds) == reorder # "none" /\ \A d \in ds : Kitchen[d] # reorder
Refused(ds) == ~Foreign(ds) /\ \E d \in ds : chefId \notin {"none", Kitchen[d]}

ReorderAnswered(ds) ==
  LET lines == With(IF Foreign(ds) THEN {} ELSE items, ds) IN
  /\ reorder # "no" /\ ds # {} /\ ~Refused(ds) /\ Fits(lines)
  /\ items' = lines /\ chefId' = Kitchen[CHOOSE d \in ds : TRUE] /\ promo' = {}
  /\ reorder' = "no" /\ page' = "shop" /\ here' = 0 /\ Tick
  /\ UNCHANGED <<asking, orders, faults>>
ReorderThrows(ds) ==
  /\ reorder # "no" /\ ds # {} /\ Refused(ds) /\ reorder' = "no"
  /\ UNCHANGED <<clock, basket, asking, page, orders, here, faults>>
(* Nothing is available, or the call fails.                                *)
ReorderEmpty == reorder # "no" /\ reorder' = "no" /\ UNCHANGED <<clock, basket, asking, page, orders, here, faults>>

---------------------------------------------------------------------------
(* handlePlaceOrder: the order, its payment, the sheet, the verify.  It   *)
(* awaits each, whatever the customer does meanwhile; on a later visit to  *)
(* the checkout it may run again beside itself.                            *)
Latest == Len(orders)
Moves(i, s, p) == orders' = [orders EXCEPT ![i] = [contents |-> orders[i].contents, step |-> s, pay |-> p]]
Stays(i) == page' = page /\ here' = IF here = i THEN 0 ELSE here
Navigates == page' = "order" /\ here' = 0

Place ==
  /\ page = "checkout" /\ here = 0 /\ items # {} /\ Latest < MaxOrders
  /\ orders' = Append(orders, [contents |-> Contents, step |-> "placing", pay |-> "none"]) /\ here' = Latest'
  /\ UNCHANGED <<clock, basket, asking, reorder, page, faults>>
PlaceServed(i) ==
  /\ orders[i].step = "placing" /\ Moves(i, "creating", "none")
  /\ UNCHANGED <<clock, basket, asking, reorder, page, here, faults>>
(* Refused, or served and the answer lost; a refused promo is dropped.     *)
PlaceFails(i) ==
  /\ orders[i].step = "placing" /\ Fault /\ Moves(i, "over", "none") /\ Stays(i)
  /\ promo' \in {promo, {}} /\ UNCHANGED <<clock, items, chefId, asking, reorder>>

(* Credit covers the order.  When the server then fails to mark it paid it *)
(* only logs so, and answers the same.                                     *)
CreateByCredit(i) ==
  /\ orders[i].step = "creating" /\ Emptied /\ Navigates
  /\ (Moves(i, "over", "captured") /\ UNCHANGED faults) \/ (Moves(i, "over", "debited") /\ Fault)
  /\ UNCHANGED <<clock, asking, reorder>>
CreateAnswered(i) ==
  /\ orders[i].step = "creating" /\ Moves(i, "sheet", "open")
  /\ UNCHANGED <<clock, basket, asking, reorder, page, here, faults>>
CreateFails(i) ==
  /\ orders[i].step = "creating" /\ Fault /\ Stays(i)
  /\ \E p \in {"none", "open", "captured", "debited"} : Moves(i, "over", p)
  /\ UNCHANGED <<clock, basket, asking, reorder>>

(* The gateway: an attempt is made on the sheet and ends in its own time.  *)
Attempt(i) ==
  /\ orders[i].step = "sheet" /\ orders[i].pay \in {"open", "failed"} /\ Moves(i, "sheet", "pending")
  /\ UNCHANGED <<clock, basket, asking, reorder, page, here, faults>>
Ends(i, s) ==
  /\ orders[i].pay = "pending" /\ Moves(i, orders[i].step, s)
  /\ UNCHANGED <<clock, basket, asking, reorder, page, here, faults>>

SheetError(i) ==
  /\ orders[i].step = "sheet" /\ Moves(i, "over", orders[i].pay) /\ Stays(i)
  /\ UNCHANGED <<clock, basket, asking, reorder, faults>>
SheetEnds(i) ==
  /\ orders[i].step = "sheet" /\ Moves(i, "verifying", orders[i].pay)
  /\ UNCHANGED <<clock, basket, asking, reorder, page, here, faults>>

Verified(i) ==
  /\ orders[i].step = "verifying" /\ orders[i].pay = "captured" /\ Moves(i, "over", "captured")
  /\ Emptied /\ Navigates /\ UNCHANGED <<clock, asking, reorder, faults>>
VerifyFails(i) ==
  /\ orders[i].step = "verifying" /\ Moves(i, "over", orders[i].pay) /\ Navigates
  /\ (orders[i].pay # "captured" /\ UNCHANGED faults) \/ (orders[i].pay = "captured" /\ Fault)
  /\ UNCHANGED <<clock, basket, asking, reorder>>

Handler(i) ==
  \/ PlaceServed(i) \/ PlaceFails(i) \/ CreateByCredit(i) \/ CreateAnswered(i) \/ CreateFails(i)
  \/ Attempt(i) \/ Ends(i, "captured") \/ Ends(i, "failed")
  \/ SheetError(i) \/ SheetEnds(i) \/ Verified(i) \/ VerifyFails(i)

Next ==
  \/ \E p \in Pages : Go(p)
  \/ \E d \in Dishes : Add(d) \/ Replace(d)
  \/ \E l \in items : Remove(l) \/ \E q \in 1..MaxQuantity : SetQuantity(l, q)
  \/ Clear \/ AskPromo \/ PromoAnswered
  \/ AskReorder \/ ReorderEmpty \/ \E ds \in SUBSET Past : ReorderAnswered(ds) \/ ReorderThrows(ds)
  \/ Place \/ \E i \in 1..Latest : Handler(i)

Spec == WebInit /\ [][Next]_vars

---------------------------------------------------------------------------
(* Lines, orders and pages hold what the application can write.            *)
Line == [id : Nat \X Nat, dish : Dishes, qty : 1..MaxQuantity]
Order == [contents : SUBSET (Dishes \X (1..MaxQuantity)), step : Steps, pay : Payments]
TypeOK ==
  /\ clock \in 0..MaxClock /\ items \subseteq Line /\ page \in Pages
  /\ orders \in Seq(Order) /\ here \in 0..Latest /\ faults \in 0..MaxFaults

(* The basket is one kitchen's, and an empty one is nobody's, through      *)
(* every way of filling, replacing and emptying it.                        *)
OneKitchen == {Kitchen[d] : d \in Ordered} = {chefId} \ {"none"}

(* The basket is emptied, but by its owner, only as the handler of one     *)
(* order ends: one that was captured, or for which credit was taken; and a *)
(* customer who stayed on the page loses exactly what that order holds.    *)
EmptiedMeansPaid ==
  [][(items # {} /\ items' = {} /\ page' # "cart") =>
       \E i \in 1..Latest :
         /\ orders[i].step # "over" /\ orders'[i].step = "over"
         /\ orders'[i].pay \in {"captured", "debited"}
         /\ here = i => orders[i].contents = Contents]_vars
=============================================================================
