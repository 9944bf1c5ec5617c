--------------------------- MODULE RefundPromise ---------------------------
(***************************************************************************)
(* What the refund paths promise about an order's money, without saying    *)
(* how: an amount is booked before it is sent, or with it in one           *)
(* transaction, at most one booked amount is in the making at a time, and  *)
(* what is given back was never sent.                                      *)
(***************************************************************************)
EXTENDS Integers, TLAPS

CONSTANT Capture    \* what the customer paid

VARIABLES
  booked,   \* what the books say was refunded
  sent,     \* what the customer has received
  held      \* of booked, the part its holder may yet send or give back
vars == <<booked, sent, held>>

Init == booked = 0 /\ sent = 0 /\ held = 0

Book ==
  /\ held = 0
  /\ \E amount \in 1 .. (Capture - booked) :
       booked' = booked + amount /\ held' = amount
  /\ UNCHANGED sent

Send ==
  /\ held > 0
  /\ sent' = sent + held /\ held' = 0
  /\ UNCHANGED booked

GiveBack ==
  /\ held > 0
  /\ booked' = booked - held /\ held' = 0
  /\ UNCHANGED sent

(* The holder dies, or learns that its key was used before: the amount     *)
(* stays booked and is never sent.                                         *)
Abandon ==
  /\ held > 0
  /\ held' = 0
  /\ UNCHANGED <<booked, sent>>

(* A store credit is a row beside the books: both are written together,    *)
(* whoever holds an amount meanwhile.                                      *)
BookAndSend ==
  /\ \E amount \in 1 .. (Capture - booked) :
       booked' = booked + amount /\ sent' = sent + amount
  /\ UNCHANGED held

Next == Book \/ Send \/ GiveBack \/ Abandon \/ BookAndSend

Spec == Init /\ [][Next]_vars

---------------------------------------------------------------------------
(* What the promise is worth: nothing is sent that is not booked, and no   *)
(* more is booked than was paid.                                           *)
Safe ==
  /\ booked \in Int /\ sent \in Int /\ held \in Nat
  /\ sent + held <= booked
  /\ booked <= Capture

(* The promise keeps the books above the money sent, and within what the   *)
(* customer paid.                                                          *)
THEOREM PromiseIsSafe ==
  ASSUME Capture \in Nat
  PROVE  Spec => []Safe
<1>1. Init => Safe
  BY DEF Init, Safe
<1>2. Safe /\ [Next]_vars => Safe'
  <2> SUFFICES ASSUME Safe, [Next]_vars PROVE Safe'
    OBVIOUS
  <2> USE DEF Safe
  <2>1. CASE Book
    BY <2>1 DEF Book
  <2>2. CASE Send
    BY <2>2 DEF Send
  <2>3. CASE GiveBack
    BY <2>3 DEF GiveBack
  <2>4. CASE Abandon
    BY <2>4 DEF Abandon
  <2>5. CASE BookAndSend
    BY <2>5 DEF BookAndSend
  <2>6. CASE UNCHANGED vars
    BY <2>6 DEF vars
  <2> QED
    BY <2>1, <2>2, <2>3, <2>4, <2>5, <2>6 DEF Next
<1> QED
  BY <1>1, <1>2, PTL DEF Spec
=============================================================================
