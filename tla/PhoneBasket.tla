---------------------------- MODULE PhoneBasket ----------------------------
(***************************************************************************)
(* The customer app's basket: dishes of one kitchen, the dialogs that ask  *)
(* before it is replaced or doubled, and an earlier order ordered again.   *)
(***************************************************************************)
EXTENDS Naturals, FiniteSets

CONSTANTS Dishes, Kitchen, Past, MaxQuantity

(* What the theorems ask of the constants: an order that can be ordered    *)
(* again is one kitchen's.                                                 *)
PhoneBasketAssumption ==
  /\ "none" \notin {Kitchen[d] : d \in Dishes} /\ Past \subseteq Dishes /\ MaxQuantity \in Nat \ {0}
  /\ \A d, e \in Past : Kitchen[d] = Kitchen[e]

Screens == {"menu", "cart", "order", "checkout"}
NoDialog == [kind |-> "no", dishes |-> {}]

VARIABLES
  items,    \* per dish: its quantity
  chefId,   \* the kitchen the basket is from, or "none"
  dialog,   \* the question on show and the dishes it is about
  reorder,  \* BOOLEAN: the preview of the earlier order is being fetched
  screen
vars == <<items, chefId, dialog, reorder, screen>>

Empty == [d \in Dishes |-> 0]
InBasket == {d \in Dishes : items[d] > 0}

PhoneInit == items = Empty /\ chefId = "none" /\ dialog = NoDialog /\ reorder = FALSE /\ screen = "menu"

Quiet == dialog = NoDialog
Go(s) ==
  /\ Quiet /\ s # screen /\ (s = "checkout" => screen = "cart" /\ InBasket # {})
  /\ screen' = s /\ UNCHANGED <<items, chefId, dialog, reorder>>

---------------------------------------------------------------------------
(* addItem: a line of the basket's kitchen is merged or appended; any      *)
(* other is answered with a conflict.                                      *)
Taken(k, ds) == {d \in ds : k \in {"none", Kitchen[d]}}
Plus(basket, ds) == [d \in Dishes |-> IF d \in ds /\ basket[d] < MaxQuantity THEN basket[d] + 1 ELSE basket[d]]
KitchenAfter(k, ds) == IF Taken(k, ds) = {} THEN k ELSE Kitchen[CHOOSE d \in Taken(k, ds) : TRUE]
Put(basket, k, ds) == items' = Plus(basket, Taken(k, ds)) /\ chefId' = KitchenAfter(k, ds)

Add(d) ==
  /\ Quiet /\ screen = "menu" /\ Put(items, chefId, {d})
  /\ dialog' = IF Taken(chefId, {d}) = {} THEN [kind |-> "replace", dishes |-> {d}] ELSE NoDialog
  /\ UNCHANGED <<reorder, screen>>

Remove(d) ==
  /\ Quiet /\ screen \in {"menu", "cart"} /\ d \in InBasket
  /\ items' = [items EXCEPT ![d] = 0] /\ UNCHANGED <<chefId, dialog, reorder, screen>>

SetQuantity(d, q) ==
  /\ Quiet /\ screen \in {"menu", "cart"} /\ d \in InBasket /\ q \in {items[d] - 1, items[d] + 1} \cap 1..MaxQuantity
  /\ items' = [items EXCEPT ![d] = q] /\ UNCHANGED <<chefId, dialog, reorder, screen>>
Clear ==
  /\ Quiet /\ screen = "cart" /\ InBasket # {} /\ items' = Empty /\ chefId' = "none"
  /\ UNCHANGED <<dialog, reorder, screen>>

---------------------------------------------------------------------------
(* handleReorder: the preview is fetched, then the basket is filled or,    *)
(* when it holds something, the customer asked first.                      *)
AskReorder == Quiet /\ screen = "order" /\ ~reorder /\ reorder' = TRUE /\ UNCHANGED <<items, chefId, dialog, screen>>

(* fillAndGo: addItem's answers are not looked at.                         *)
Fill(basket, k, ds) == Put(basket, k, ds) /\ screen' \in {"checkout", "menu"}

ReorderFills(ds) ==
  /\ Quiet /\ reorder /\ ds # {} /\ InBasket = {} /\ reorder' = FALSE
  /\ Fill(items, chefId, ds) /\ UNCHANGED dialog
ReorderAsks(ds) ==
  /\ Quiet /\ reorder /\ ds # {} /\ InBasket # {} /\ reorder' = FALSE
  /\ dialog' = [kind |-> IF \A d \in ds : Kitchen[d] = chefId THEN "add" ELSE "swap", dishes |-> ds]
  /\ UNCHANGED <<items, chefId, screen>>
(* Nothing is available, the call fails, or the screen is gone.            *)
ReorderEnds == Quiet /\ reorder /\ reorder' = FALSE /\ UNCHANGED <<items, chefId, dialog, screen>>

Cancel == ~Quiet /\ dialog' = NoDialog /\ UNCHANGED <<items, chefId, reorder, screen>>

(* Replace: clearCart, then the dish or the order it was about.            *)
Agree ==
  /\ dialog.kind \in {"replace", "swap", "add"} /\ dialog' = NoDialog /\ Put(Empty, "none", dialog.dishes)
  /\ screen' \in IF dialog.kind = "replace" THEN {screen} ELSE {"checkout", "menu"}
  /\ UNCHANGED reorder
AgreeAdd ==
  /\ dialog.kind = "add" /\ dialog' = NoDialog /\ Fill(items, chefId, dialog.dishes) /\ UNCHANGED reorder

(* startOrderPayment or the result screen: the order was placed and paid.  *)
Paid ==
  /\ Quiet /\ screen = "checkout" /\ InBasket # {} /\ items' = Empty /\ chefId' = "none" /\ screen' = "order"
  /\ UNCHANGED <<dialog, reorder>>

Next ==
  \/ \E s \in Screens : Go(s)
  \/ \E d \in Dishes : Add(d) \/ Remove(d) \/ \E q \in 1..MaxQuantity : SetQuantity(d, q)
  \/ Clear \/ AskReorder \/ ReorderEnds \/ \E ds \in SUBSET Past : ReorderFills(ds) \/ ReorderAsks(ds)
  \/ Cancel \/ Agree \/ AgreeAdd \/ Paid

Spec == PhoneInit /\ [][Next]_vars

---------------------------------------------------------------------------
(* The basket, its kitchen and the dialog hold what the app can write.     *)
TypeOK ==
  /\ items \in [Dishes -> 0..MaxQuantity] /\ chefId \in {Kitchen[d] : d \in Dishes} \cup {"none"}
  /\ dialog.dishes \subseteq Dishes /\ reorder \in BOOLEAN /\ screen \in Screens

(* Whatever is added, replaced or ordered again, the basket holds dishes   *)
(* of one kitchen, the one it names.                                       *)
OneKitchen == \A d \in InBasket : Kitchen[d] = chefId
=============================================================================
