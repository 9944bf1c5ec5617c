------------------------- MODULE RefundMoney_proofs -------------------------
(***************************************************************************)
(* What the refund paths of one order do with its money, all of them       *)
(* together.                                                               *)
(***************************************************************************)
EXTENDS RefundClaims_proofs

(* Sums over sets of lines.  ValueOf is a fold, which removes one line     *)
(* after another: the equation each step of it solves.                     *)
Pick(s) == CHOOSE l \in s : TRUE
Rest(s) == s \ {Pick(s)}
SumStep(f, s) == IF s = {} THEN 0 ELSE LineValue[Pick(s)] + f[Rest(s)]
Sums(f, S) == f = [s \in SUBSET S |-> SumStep(f, s)]

LEMMA ValueOfSum ==
  ASSUME NEW S
  PROVE  ValueOf(S) = (CHOOSE f : Sums(f, S))[S]
  BY Zenon DEF ValueOf, MapThenSumSet, MapThenFoldSet, Sums, SumStep, Pick, Rest

(* A set of subsets of a finite set has a smallest member.                 *)
LEMMA SmallestSubset ==
  ASSUME NEW S, IsFiniteSet(S), NEW T, T \subseteq SUBSET S, T # {}
  PROVE  \E x \in T : \A y \in T : y \subseteq x => y = x
<1>1. IsWellFoundedOn(StrictSubsetOrdering(S), SUBSET S)
  BY FS_StrictSubsetOrderingWellFounded, FS_FiniteSubsetsOfFinite, Zenon
<1>2. PICK x \in T : \A y \in T : ~ (<<y, x>> \in StrictSubsetOrdering(S))
  BY <1>1, WFMin, Zenon
<1>3. ASSUME NEW y \in T, y \subseteq x, y # x PROVE FALSE
  <2>1. <<y, x>> \in (SUBSET S) \X (SUBSET S)
    OBVIOUS
  <2>2. <<y, x>>[1] \subseteq <<y, x>>[2] /\ <<y, x>>[1] # <<y, x>>[2]
    BY <1>3
  <2> QED
    BY <1>2, <2>1, <2>2 DEF StrictSubsetOrdering
<1> QED
  BY <1>3

LEMMA RestIsLess ==
  ASSUME NEW s, s # {}
  PROVE  Pick(s) \in s /\ Rest(s) \subseteq s /\ Rest(s) # s
  BY DEF Pick, Rest

(* The equation has one solution.                                          *)
LEMMA SumsAgree ==
  ASSUME NEW S, IsFiniteSet(S), NEW f, NEW g,
         \A s \in SUBSET S : f[s] = SumStep(f, s) /\ g[s] = SumStep(g, s)
  PROVE  \A s \in SUBSET S : f[s] = g[s]
<1> DEFINE T == {s \in SUBSET S : f[s] # g[s]}
<1>1. ASSUME T # {} PROVE FALSE
  <2>1. PICK x \in T : \A y \in T : y \subseteq x => y = x
    <3>1. T \subseteq SUBSET S
      OBVIOUS
    <3> HIDE DEF T
    <3> QED
      BY <1>1, <3>1, SmallestSubset
  <2>2. x # {}
    BY <2>1 DEF SumStep
  <2>3. Rest(x) \in SUBSET S /\ Rest(x) \notin T
    BY <2>1, <2>2, RestIsLess
  <2> QED
    BY <2>1, <2>2, <2>3 DEF SumStep
<1> QED
  BY <1>1

LEMMA SumsSolve ==
  ASSUME NEW S, NEW f, Sums(f, S)
  PROVE  \A s \in SUBSET S : f[s] = SumStep(f, s)
<1> SUFFICES ASSUME NEW s \in SUBSET S PROVE f[s] = SumStep(f, s)
  OBVIOUS
<1> DEFINE F == [t \in SUBSET S |-> SumStep(f, t)]
<1>1. F[s] = SumStep(f, s)
  OBVIOUS
<1>2. f = F
  BY DEF Sums
<1> HIDE DEF F
<1> QED
  BY <1>1, <1>2

LEMMA SumsExist ==
  ASSUME NEW S, IsFiniteSet(S)
  PROVE  \E f : Sums(f, S)
<1> DEFINE T == {s \in SUBSET S : ~ \E f : Sums(f, s)}
           V(u) == CHOOSE f : Sums(f, u)
<1>1. ASSUME T # {} PROVE FALSE
  <2>1. PICK x \in T : \A y \in T : y \subseteq x => y = x
    <3>1. T \subseteq SUBSET S
      OBVIOUS
    <3> HIDE DEF T
    <3> QED
      BY <1>1, <3>1, SmallestSubset
  <2> DEFINE F == [s \in SUBSET x |->
                     IF s = {} THEN 0 ELSE LineValue[Pick(s)] + V(Rest(s))[Rest(s)]]
  <2>2. ASSUME NEW u \in SUBSET x, u # x
        PROVE  \A s \in SUBSET u : V(u)[s] = SumStep(V(u), s)
    <3>1. \E f : Sums(f, u)
      BY <2>1, <2>2
    <3>2. Sums(V(u), u)
      BY <3>1
    <3> HIDE DEF V
    <3> QED
      BY <3>2, SumsSolve
  <2>3. ASSUME NEW u \in SUBSET x, u # x
        PROVE  F[u] = V(u)[u]
    <3>1. CASE u = {}
      <4>1. V(u)[u] = SumStep(V(u), u)
        BY <2>2, <2>3
      <4> HIDE DEF V
      <4> QED
        BY <3>1, <4>1 DEF SumStep
    <3>2. CASE u # {}
      <4>1. /\ Rest(u) \in SUBSET u /\ Rest(u) \in SUBSET x
            /\ IsFiniteSet(Rest(u)) /\ Rest(u) # x
        BY <2>1, <2>3, <3>2, RestIsLess, FS_Subset
      <4>2. \A s \in SUBSET Rest(u) :
              V(u)[s] = SumStep(V(u), s) /\ V(Rest(u))[s] = SumStep(V(Rest(u)), s)
        BY <2>2, <2>3, <4>1
      <4> HIDE DEF V
      <4>3. V(u)[Rest(u)] = V(Rest(u))[Rest(u)]
        BY <4>1, <4>2, SumsAgree
      <4>4. V(u)[u] = SumStep(V(u), u)
        BY <2>2, <2>3
      <4> QED
        BY <2>3, <3>2, <4>3, <4>4 DEF SumStep
    <3> QED
      BY <3>1, <3>2
  <2>4. ASSUME NEW s \in SUBSET x PROVE F[s] = SumStep(F, s)
    <3>1. CASE s = {}
      BY <3>1 DEF SumStep
    <3>2. CASE s # {}
      <4>1. Rest(s) \in SUBSET x /\ Rest(s) # x
        BY <3>2, RestIsLess
      <4>2. F[Rest(s)] = V(Rest(s))[Rest(s)]
        BY <2>3, <4>1
      <4>3. F[s] = LineValue[Pick(s)] + V(Rest(s))[Rest(s)]
        BY <3>2
      <4> HIDE DEF F, V
      <4> QED
        BY <3>2, <4>2, <4>3 DEF SumStep
    <3> QED
      BY <3>1, <3>2
  <2>5. F = [s \in SUBSET x |-> F[s]]
    OBVIOUS
  <2> HIDE DEF F
  <2>6. Sums(F, x)
    BY <2>4, <2>5 DEF Sums
  <2> QED
    BY <2>1, <2>6
<1> QED
  BY <1>1

(* So a fold step is a sum step.                                           *)
LEMMA ValueOfStep ==
  ASSUME NEW S, IsFiniteSet(S)
  PROVE  ValueOf(S) = IF S = {} THEN 0 ELSE LineValue[Pick(S)] + ValueOf(Rest(S))
<1> DEFINE V(u) == CHOOSE f : Sums(f, u)
<1>1. ASSUME NEW u \in SUBSET S PROVE \A s \in SUBSET u : V(u)[s] = SumStep(V(u), s)
  <2>1. Sums(V(u), u)
    BY SumsExist, FS_Subset
  <2> HIDE DEF V
  <2> QED
    BY <2>1, SumsSolve
<1>2. \A u \in SUBSET S : ValueOf(u) = V(u)[u]
  BY ValueOfSum
<1> HIDE DEF V
<1>3. CASE S = {}
  BY <1>1, <1>2, <1>3 DEF SumStep
<1>4. CASE S # {}
  <2>1. Rest(S) \in SUBSET S /\ IsFiniteSet(Rest(S))
    BY <1>4, RestIsLess, FS_Subset
  <2>2. \A s \in SUBSET Rest(S) :
          V(S)[s] = SumStep(V(S), s) /\ V(Rest(S))[s] = SumStep(V(Rest(S)), s)
    BY <1>1, <2>1
  <2>3. V(S)[Rest(S)] = V(Rest(S))[Rest(S)]
    BY <2>1, <2>2, SumsAgree
  <2>4. V(S)[S] = SumStep(V(S), S)
    BY <1>1
  <2> QED
    BY <1>2, <1>4, <2>1, <2>3, <2>4 DEF SumStep
<1> QED
  BY <1>3, <1>4

(* The value of some lines: a natural number,                              *)
LEMMA ValueOfType ==
  ASSUME NEW S \in SUBSET Lines
  PROVE  ValueOf(S) \in Nat
<1> DEFINE T == {s \in SUBSET Lines : ValueOf(s) \notin Nat}
<1>1. ASSUME T # {} PROVE FALSE
  <2>1. PICK x \in T : \A y \in T : y \subseteq x => y = x
    <3>1. T \subseteq SUBSET Lines
      OBVIOUS
    <3> HIDE DEF T
    <3> QED
      BY <1>1, <3>1, SmallestSubset, LineAssumption
  <2>2. IsFiniteSet(x)
    BY LineAssumption, FS_Subset
  <2>3. x # {}
    BY <2>1, <2>2, ValueOfStep
  <2>4. ValueOf(Rest(x)) \in Nat /\ LineValue[Pick(x)] \in Nat
    BY <2>1, <2>3, RestIsLess, LineAssumption
  <2> QED
    BY <2>1, <2>2, <2>3, <2>4, ValueOfStep
<1> QED
  BY <1>1

(* that any line is part of,                                               *)
LEMMA ValueOfRemove ==
  ASSUME NEW S \in SUBSET Lines, NEW l \in S
  PROVE  ValueOf(S) = LineValue[l] + ValueOf(S \ {l})
<1> DEFINE Splits(s) == \A k \in s : ValueOf(s) = LineValue[k] + ValueOf(s \ {k})
           T == {s \in SUBSET Lines : ~Splits(s)}
<1>1. ASSUME T # {} PROVE FALSE
  <2>1. PICK x \in T : \A y \in T : y \subseteq x => y = x
    <3>1. T \subseteq SUBSET Lines
      OBVIOUS
    <3> HIDE DEF T
    <3> QED
      BY <1>1, <3>1, SmallestSubset, LineAssumption
  <2>2. PICK k \in x : ValueOf(x) # LineValue[k] + ValueOf(x \ {k})
    BY <2>1
  <2> DEFINE p == Pick(x)
  <2>3. IsFiniteSet(x) /\ p \in x /\ Rest(x) = x \ {p}
    BY <2>2, LineAssumption, FS_Subset, RestIsLess DEF Rest
  <2> HIDE DEF p
  <2>4. ValueOf(x) = LineValue[p] + ValueOf(x \ {p})
    BY <2>2, <2>3, ValueOfStep DEF p
  <2>5. p # k
    BY <2>2, <2>4
  <2>6. ValueOf(x \ {p}) = LineValue[k] + ValueOf((x \ {p}) \ {k})
    BY <2>1, <2>2, <2>3, <2>5
  <2>7. ValueOf(x \ {k}) = LineValue[p] + ValueOf((x \ {k}) \ {p})
    BY <2>1, <2>2, <2>3, <2>5
  <2>8. (x \ {p}) \ {k} = (x \ {k}) \ {p}
    OBVIOUS
  <2>9. LineValue[p] \in Nat /\ LineValue[k] \in Nat /\ ValueOf((x \ {k}) \ {p}) \in Nat
    BY <2>2, <2>3, LineAssumption, ValueOfType
  <2> DEFINE v == ValueOf((x \ {k}) \ {p})
  <2>10. ValueOf(x) = LineValue[p] + (LineValue[k] + v)
    BY <2>4, <2>6, <2>8
  <2>11. ValueOf(x \ {k}) = LineValue[p] + v
    BY <2>7
  <2> HIDE DEF v
  <2> QED
    BY <2>2, <2>9, <2>10, <2>11 DEF v
<1> QED
  BY <1>1

(* and additive.                                                           *)
LEMMA ValueOfUnion ==
  ASSUME NEW A \in SUBSET Lines, NEW B \in SUBSET Lines, A \cap B = {}
  PROVE  ValueOf(A \union B) = ValueOf(A) + ValueOf(B)
<1> DEFINE Adds(s) == s \cap B = {} => ValueOf(s \union B) = ValueOf(s) + ValueOf(B)
           T == {s \in SUBSET Lines : ~Adds(s)}
<1>1. ASSUME T # {} PROVE FALSE
  <2>1. PICK x \in T : \A y \in T : y \subseteq x => y = x
    <3>1. T \subseteq SUBSET Lines
      OBVIOUS
    <3> HIDE DEF T
    <3> QED
      BY <1>1, <3>1, SmallestSubset, LineAssumption
  <2>2. x \cap B = {} /\ ValueOf(x \union B) # ValueOf(x) + ValueOf(B)
    BY <2>1
  <2>3. ValueOf({}) = 0 /\ ValueOf(B) \in Nat
    <3>1. IsFiniteSet({})
      BY FS_EmptySet
    <3> QED
      BY <3>1, ValueOfStep, ValueOfType
  <2>4. x # {}
    <3>1. x = {} => x \union B = B
      OBVIOUS
    <3> QED
      BY <2>2, <2>3, <3>1
  <2>5. PICK k : k \in x
    BY <2>4
  <2>6. ValueOf(x) = LineValue[k] + ValueOf(x \ {k})
    BY <2>5, ValueOfRemove
  <2>7. ValueOf(x \union B) = LineValue[k] + ValueOf((x \union B) \ {k})
    BY <2>5, ValueOfRemove
  <2>8. (x \union B) \ {k} = (x \ {k}) \union B
    BY <2>2, <2>5
  <2>9. ValueOf((x \ {k}) \union B) = ValueOf(x \ {k}) + ValueOf(B)
    BY <2>1, <2>2, <2>5
  <2>10. LineValue[k] \in Nat /\ ValueOf(x \ {k}) \in Nat
    BY <2>5, LineAssumption, ValueOfType
  <2> QED
    BY <2>2, <2>3, <2>6, <2>7, <2>8, <2>9, <2>10
<1> QED
  BY <1>1
---------------------------------------------------------------------------
(* The state is well formed.                                               *)
LEMMA MinOfTwo ==
  ASSUME NEW a \in Int, NEW b \in Int
  PROVE  Min({a, b}) = IF a <= b THEN a ELSE b
<1> DEFINE m == IF a <= b THEN a ELSE b
<1>1. m \in {a, b} /\ \A y \in {a, b} : m <= y
  OBVIOUS
<1>2. \A x \in {a, b} : (\A y \in {a, b} : x <= y) => x = m
  OBVIOUS
<1> HIDE DEF m
<1> QED
  BY <1>1, <1>2 DEF Min, m

LEMMA MaxOfTwo ==
  ASSUME NEW a \in Int, NEW b \in Int
  PROVE  Max({a, b}) = IF a >= b THEN a ELSE b
<1> DEFINE m == IF a >= b THEN a ELSE b
<1>1. m \in {a, b} /\ \A y \in {a, b} : m >= y
  OBVIOUS
<1>2. \A x \in {a, b} : (\A y \in {a, b} : x >= y) => x = m
  OBVIOUS
<1> HIDE DEF m
<1> QED
  BY <1>1, <1>2 DEF Max, m

(* What the caps of a cancellation and of an issue come to.                *)
LEMMA CapBounds ==
  ASSUME order \in OrderRow, NEW n \in Int
  PROVE  /\ Cap(n) \in Int /\ Cap(n) <= n
         /\ Cap(n) > 0 => Cap(n) <= Remaining(order)
         /\ n <= Remaining(order) /\ 0 <= Remaining(order) => Cap(n) = n
         /\ n >= 0 => Cap(n) >= 0
<1>1. Remaining(order) \in Int
  BY DEF OrderRow, Remaining
<1>2. Max({0, Remaining(order)}) = IF 0 >= Remaining(order) THEN 0 ELSE Remaining(order)
  BY <1>1, MaxOfTwo
<1>3. Max({0, Remaining(order)}) \in Int
  BY <1>1, <1>2
<1>4. Cap(n) = IF n <= Max({0, Remaining(order)}) THEN n ELSE Max({0, Remaining(order)})
  BY <1>3, MinOfTwo DEF Cap
<1> QED
  BY <1>1, <1>2, <1>4

LEMMA CreditBounds ==
  ASSUME order \in OrderRow, NEW i \in Issues, issue[i] \in Issue
  PROVE  /\ CreditOf(i) \in Int /\ CreditOf(i) <= Remaining(order)
         /\ LET gone == ValueOf(issue[i].names \intersect lines)
            IN  gone > 0 /\ CreditOf(i) > 0 => CreditOf(i) <= issue[i].asked - gone
<1> DEFINE gone == ValueOf(issue[i].names \intersect lines)
           rest == issue[i].asked - gone
           left == Max({0, rest})
           capped == Min({Grant[i], Remaining(order)})
<1>1. Remaining(order) \in Int /\ Grant[i] \in Int
  BY IssueAssumption DEF OrderRow, Remaining
<1>2. gone \in Int /\ issue[i].asked \in Int
  BY ValueOfType DEF Issue
<1>3. capped \in Int /\ capped <= Remaining(order)
  <2>1. capped = IF Grant[i] <= Remaining(order) THEN Grant[i] ELSE Remaining(order)
    BY <1>1, MinOfTwo
  <2> QED
    BY <1>1, <2>1
<1>4. rest \in Int
  BY <1>2
<1> HIDE DEF gone, rest, capped
<1>5. left = IF 0 >= rest THEN 0 ELSE rest
  BY <1>4, MaxOfTwo
<1>6. left \in Int
  BY <1>4, <1>5
<1> HIDE DEF left
<1>7. Min({capped, left}) = IF capped <= left THEN capped ELSE left
  BY <1>3, <1>6, MinOfTwo
<1>8. CreditOf(i) = IF gone > 0 THEN Min({capped, left}) ELSE capped
  BY DEF CreditOf, gone, rest, left, capped
<1>9. /\ CreditOf(i) \in Int /\ CreditOf(i) <= Remaining(order)
      /\ gone > 0 /\ CreditOf(i) > 0 => CreditOf(i) <= rest
  BY <1>1, <1>3, <1>4, <1>5, <1>6, <1>7, <1>8
<1> QED
  BY <1>9 DEF gone, rest

(* A wallet credit lands or it does not.                                   *)
LEMMA CreditLands ==
  ASSUME CommandTypeOK, NEW key, NEW amount \in Int,
         paid' = Credited(key, amount) \/ \E answer : WalletCredit(key, amount, answer)
  PROVE  \/ paid' = paid
         \/ /\ paid'.wallet = paid.wallet + amount
            /\ paid'.gateway = paid.gateway
            /\ DOMAIN paid' = DOMAIN paid
<1>1. CASE paid' = Credited(key, amount)
  <2>1. CASE KeyPaid(key)
    BY <1>1, <2>1 DEF Credited
  <2>2. CASE ~KeyPaid(key)
    BY <1>1, <2>2 DEF Credited, CommandTypeOK
  <2> QED
    BY <2>1, <2>2
<1>2. CASE paid' = paid
  BY <1>2
<1> QED
  BY <1>1, <1>2 DEF WalletCredit
RowsOK ==
  /\ order \in OrderRow /\ lines \subseteq Lines
  /\ ledger \in [Scopes -> [status: LedgerStates, amount: Int]]
  /\ DOMAIN paid = {"keys", "gateway", "wallet"}
  /\ paid.gateway \in Int /\ paid.wallet \in Int
HandlersOK ==
  /\ req \in [Requests -> Request] /\ issue \in [Issues -> Issue] /\ flow \in FlowStates
CancelOK ==
  cr \in CancelRow /\ job \in [Workers -> Job]

LEMMA TypeParts ==
  /\ TypeOK <=> RowsOK /\ cmd \in [Commands -> Command] /\ HandlersOK /\ CancelOK
  /\ TypeOK' <=> RowsOK' /\ (cmd \in [Commands -> Command])' /\ HandlersOK' /\ CancelOK'
  BY DEF TypeOK, CommandTypeOK, RowsOK, HandlersOK, CancelOK

LEMMA MoneyType ==
  ASSUME TypeOK, NEW key, NEW amount \in Int,
         \/ \E answer : GatewayCall(key, amount, answer) \/ WalletCredit(key, amount, answer)
         \/ paid' = Credited(key, amount)
  PROVE  /\ DOMAIN paid' = {"keys", "gateway", "wallet"}
         /\ paid'.gateway \in Int /\ paid'.wallet \in Int
<1>1. \/ paid' = paid
      \/ /\ paid'.gateway = paid.gateway + amount \/ paid'.gateway = paid.gateway
         /\ paid'.wallet = paid.wallet + amount \/ paid'.wallet = paid.wallet
         /\ DOMAIN paid' = DOMAIN paid
  BY MoneySent, CreditLands DEF TypeOK
<1> QED
  BY <1>1 DEF TypeOK, CommandTypeOK

LEMMA PersistedType ==
  ASSUME order \in OrderRow, NEW r \in Requests, Kind[r] \in Keyed \cup {"saga"},
         TypeOK
  PROVE  Persisted(r) \in OrderRow
<1>0. req[r].full \in BOOLEAN
  BY DEF TypeOK, Request
<1>1. CASE Kind[r] \in {"refund", "wallet"} /\ req[r].full
  <2>1. Persisted(r) = [order EXCEPT !.pay = "refunded", !.status = "refunded",
                       !.refundedAt = TRUE, !.refundID = "settled"]
    BY <1>1 DEF Persisted
  <2> QED
    BY <2>1 DEF OrderRow, PayStates, OrderStates, RefundIDs
<1>2. CASE Kind[r] = "goodwill" /\ req[r].full
  <2>1. Persisted(r) = [order EXCEPT !.refundedAt = TRUE, !.refundID = "settled"]
    BY <1>2 DEF Persisted
  <2> QED
    BY <2>1 DEF OrderRow, RefundIDs
<1>3. CASE Kind[r] \in Keyed /\ ~req[r].full
  <2>1. Persisted(r) = [order EXCEPT !.pay = "completed", !.refundID = "settled"]
    BY <1>3 DEF Persisted, Keyed
  <2> QED
    BY <2>1 DEF OrderRow, PayStates, RefundIDs
<1>4. CASE Kind[r] = "saga"
  <2>1. Persisted(r) = [order EXCEPT !.status = "refunded"]
    BY <1>4 DEF Persisted, Keyed
  <2> QED
    BY <2>1 DEF OrderRow, OrderStates
<1> QED
  BY <1>1, <1>2, <1>3, <1>4 DEF Keyed

LEMMA StepType ==
  ASSUME TypeOK, NEW r \in Requests, NEW phase \in RequestPhases, Step(r, phase)
  PROVE  req' \in [Requests -> Request]
  BY DEF TypeOK, Step, Request

LEMMA AmountType ==
  ASSUME TypeOK, NEW r \in Requests, NEW phase \in RequestPhases, NEW n \in Int,
         req' = [req EXCEPT ![r].amt = n, ![r].pc = phase]
  PROVE  req' \in [Requests -> Request]
<1>1. req[r] \in Request
  BY DEF TypeOK
<1>2. [req[r] EXCEPT !.amt = n, !.pc = phase] \in Request
  BY <1>1 DEF Request
<1>3. req' = [req EXCEPT ![r] = [req[r] EXCEPT !.amt = n, !.pc = phase]]
  OBVIOUS
<1> QED
  BY <1>2, <1>3 DEF TypeOK

(* A handler's step leaves the rows and the handlers well formed.          *)
LEMMA RequestType ==
  ASSUME TypeOK, HeldIsAmount, NEW r \in Requests, RequestMoves(r), UNCHANGED <<cmd, cancelVars>>
  PROVE  TypeOK'
<1>0. RowsOK /\ HandlersOK /\ CancelOK /\ cmd \in [Commands -> Command] /\ req[r] \in Request
  BY TypeParts DEF HandlersOK
<1>c. CancelOK' /\ (cmd \in [Commands -> Command])'
  BY <1>0 DEF CancelOK, cancelVars
<1>s. \A phase \in RequestPhases : Step(r, phase) => req' \in [Requests -> Request]
  BY StepType
<1> SUFFICES RowsOK' /\ HandlersOK'
  BY <1>c, TypeParts
<1> USE <1>0 DEF RowsOK, HandlersOK
<1>1. CASE Submit(r)
  BY <1>1, <1>s DEF Submit, tables, RequestPhases
<1>2. CASE ReserveOrder(r)
  <2> DEFINE intent == IF Kind[r] \in {"chefcancel", "saga"} THEN "full" ELSE "partial"
             amount == ReserveAmount(order, Amount[r], intent)
             full   == amount >= Remaining(order)
             start  == IF Kind[r] = "chefcancel" THEN "cancel" ELSE "pay"
             stop   == CASE Kind[r] \in Keyed       -> "unclaim"
                         [] Kind[r] = "chefcancel" -> "cancel"
                         [] OTHER                  -> "done"
  <2>1. amount \in Int /\ full \in BOOLEAN
    BY ReserveAmountBounds, RequestAssumption
  <2>2. start \in RequestPhases /\ stop \in RequestPhases
    BY DEF RequestPhases
  <2>3. UNCHANGED <<lines, ledger, paid, issue, flow>>
    BY <1>2 DEF ReserveOrder
  <2>4. CASE Wins(order, intent)
    <3>1. order' = Reserved(order, amount, intent)
      BY <1>2, <2>4 DEF ReserveOrder
    <3>2. req' = [req EXCEPT ![r] = [pc |-> start, amt |-> amount,
                                     prior |-> order.refundAmt, full |-> full]]
      BY <1>2, <2>4 DEF ReserveOrder
    <3> HIDE DEF amount, start, full, intent
    <3>3. order' \in OrderRow
      BY <2>1, <3>1, ReservedType
    <3>4. order.refundAmt \in Int
      BY DEF OrderRow
    <3>5. [pc |-> start, amt |-> amount, prior |-> order.refundAmt, full |-> full] \in Request
      BY <2>1, <2>2, <3>4 DEF Request
    <3>6. req' \in [Requests -> Request]
      BY <3>2, <3>5
    <3> QED
      BY <2>3, <3>3, <3>6
  <2>5. CASE ~Wins(order, intent)
    <3> HIDE DEF intent
    <3>1. order' = order /\ req' = [req EXCEPT ![r].amt = 0, ![r].pc = stop]
      BY <1>2, <2>5 DEF ReserveOrder, intent
    <3> HIDE DEF stop
    <3>2. stop \in RequestPhases
      BY <2>2
    <3>3. req' \in [Requests -> Request]
      <4>1. 0 \in Int
        OBVIOUS
      <4> QED
        BY <3>1, <3>2, <4>1, AmountType, Zenon
    <3> QED
      BY <2>3, <3>1, <3>3
  <2> QED
    BY <2>4, <2>5
<1>3. CASE ReserveLine(r)
  <2> DEFINE l == Target[r]
  <2>1. l \in Lines /\ LineValue[l] \in Int
    BY <1>3, RequestAssumption, LineAssumption DEF ReserveLine
  <2>2. UNCHANGED <<ledger, paid, issue, flow>>
    BY <1>3 DEF ReserveLine
  <2>3. CASE /\ order' = LineReserved(order, LineValue[l])
             /\ lines' = lines \union {l}
             /\ req' = [req EXCEPT ![r].pc = "pay", ![r].amt = LineValue[l]]
    <3> HIDE DEF l
    <3>1. order' \in OrderRow
      <4>1. /\ order.total - LineValue[l] \in Int /\ order.refundAmt + LineValue[l] \in Int
            /\ order.perLine + LineValue[l] \in Int
        BY <2>1 DEF OrderRow
      <4> QED
        BY <2>3, <4>1 DEF LineReserved, OrderRow
    <3>2. req' \in [Requests -> Request]
      BY <2>1, <2>3 DEF Request, RequestPhases
    <3> QED
      BY <2>1, <2>2, <2>3, <3>1, <3>2
  <2>4. CASE Step(r, "done") /\ UNCHANGED <<order, lines>>
    BY <2>2, <2>4, <1>s DEF RequestPhases
  <2> QED
    BY <1>3, <2>3, <2>4 DEF ReserveLine
<1>4. CASE PersistCancel(r)
  <2>1. req' \in [Requests -> Request]
    BY <1>4, <1>s DEF PersistCancel, RequestPhases
  <2>2. req[r].amt \in Int
    BY DEF Request
  <2>3. order' \in OrderRow
    BY ZenonT(60), <1>4, <2>2 DEF PersistCancel, OrderRow, OrderStates, RefundIDs
  <2> QED
    BY <1>4, <2>1, <2>3 DEF PersistCancel
<1>5. CASE Pay(r)
  <2>1. PICK answer \in {"ok", "error"} : Move(r, answer) /\ Step(r, AfterPay(r, answer))
    BY <1>5 DEF Pay
  <2>2. req[r].amt \in Int /\ Kind[r] \in Kinds
    BY RequestAssumption DEF Request
  <2>3. \E key : GatewayCall(key, req[r].amt, answer) \/ WalletCredit(key, req[r].amt, answer)
    BY <2>1, <2>2 DEF Move, Kinds
  <2>4. /\ DOMAIN paid' = {"keys", "gateway", "wallet"}
        /\ paid'.gateway \in Int /\ paid'.wallet \in Int
    BY <2>2, <2>3, MoneyType
  <2>5. AfterPay(r, answer) \in RequestPhases
    BY <2>1 DEF AfterPay, RequestPhases
  <2>6. req' \in [Requests -> Request]
    BY <2>1, <2>5, <1>s
  <2> QED
    BY <1>5, <2>4, <2>6 DEF Pay, FlowStates
<1>6. CASE SwapSentinel(r)
  <2>1. req' \in [Requests -> Request]
    BY <1>6, <1>s DEF SwapSentinel, RequestPhases
  <2> QED
    BY <1>6, <2>1 DEF SwapSentinel, OrderRow, RefundIDs
<1>7. CASE Persist(r)
  <2>1. req' \in [Requests -> Request]
    BY <1>7, <1>s DEF Persist, RequestPhases
  <2>2. order' \in OrderRow
    BY <1>7, PersistedType DEF Persist, In, HeldIsAmount
  <2> QED
    BY <1>7, <2>1, <2>2 DEF Persist
<1>8. CASE ReleaseOrder(r)
  <2>1. req' \in [Requests -> Request]
    BY <1>8, <1>s DEF ReleaseOrder, RequestPhases
  <2>2. req[r].amt \in Int
    BY DEF Request
  <2>3. order' \in OrderRow
    BY <1>8, <2>2, ReleasedBooks DEF ReleaseOrder
  <2> QED
    BY <1>8, <2>1, <2>3 DEF ReleaseOrder
<1>9. CASE ReleaseLine(r)
  <2>1. req' \in [Requests -> Request]
    BY <1>9, <1>s DEF ReleaseLine, RequestPhases
  <2>2. req[r].amt \in Int
    BY DEF Request
  <2>3. /\ order.total + req[r].amt \in Int /\ order.refundAmt - req[r].amt \in Int
        /\ order.perLine - req[r].amt \in Int
    BY <2>2 DEF OrderRow
  <2>4. order' \in OrderRow
    BY <1>9, <2>3 DEF ReleaseLine, LineReleased, OrderRow
  <2> QED
    BY <1>9, <2>1, <2>4 DEF ReleaseLine
<1>10. CASE Unclaim(r)
  BY <1>10, <1>s DEF Unclaim, tables, RequestPhases
<1>11. CASE RequestCrash(r)
  BY <1>11, <1>s DEF RequestCrash, tables, RequestPhases
<1> QED
  BY <1>1, <1>2, <1>3, <1>4, <1>5, <1>6, <1>7, <1>8, <1>9, <1>10, <1>11
  DEF RequestMoves, RequestStep
LEMMA IssueType ==
  ASSUME TypeOK, UNCHANGED <<cmd, cancelVars>>, NEW i \in Issues,
         ReportIssue(i) \/ ResolveIssue(i) \/ RejectIssue(i)
  PROVE  TypeOK'
<1>0. /\ RowsOK /\ HandlersOK /\ CancelOK /\ cmd \in [Commands -> Command]
      /\ issue[i] \in Issue /\ order \in OrderRow
  BY TypeParts DEF HandlersOK, RowsOK
<1>c. CancelOK' /\ (cmd \in [Commands -> Command])'
  BY <1>0 DEF CancelOK, cancelVars
<1> SUFFICES RowsOK' /\ HandlersOK'
  BY <1>c, TypeParts
<1> USE <1>0 DEF RowsOK, HandlersOK
<1>1. CASE ReportIssue(i)
  <2> DEFINE named == Affected[i] \ lines
             worth == ValueOf(named)
             left  == Max({0, order.total - order.refundAmt})
             asked == Min({worth, left})
  <2>1. named \subseteq Lines /\ worth \in Int
    BY IssueAssumption, ValueOfType
  <2>2. left \in Int
    <3>1. order.total - order.refundAmt \in Int
      BY DEF OrderRow
    <3> QED
      BY <3>1, MaxOfTwo
  <2> HIDE DEF worth, left
  <2>3. asked \in Int
    BY <2>1, <2>2, MinOfTwo
  <2>4. issue' = [issue EXCEPT ![i] = [st |-> "pending", asked |-> asked, credit |-> 0,
                                       names |-> named]]
    BY <1>1 DEF ReportIssue, worth, left
  <2> HIDE DEF asked, named
  <2>5. [st |-> "pending", asked |-> asked, credit |-> 0, names |-> named] \in Issue
    BY <2>1, <2>3 DEF Issue
  <2>6. issue' \in [Issues -> Issue]
    BY <2>4, <2>5
  <2> QED
    BY <1>1, <2>6 DEF ReportIssue, tables
<1>2. CASE ResolveIssue(i)
  <2> DEFINE credit == CreditOf(i)
             ends   == order.refundedAt \/ credit >= Remaining(order)
             booked == order.refundAmt + credit
  <2>1. credit \in Int
    BY CreditBounds
  <2>2. ends \in BOOLEAN /\ booked \in Int
    BY <2>1 DEF OrderRow
  <2>3. /\ paid' = Credited(WalletKey("issue", i), credit)
        /\ issue' = [issue EXCEPT ![i].st = "resolved", ![i].credit = credit]
        /\ UNCHANGED <<lines, ledger, req, flow>>
    BY <1>2 DEF ResolveIssue
  <2>4. order' = [order EXCEPT !.refundAmt = booked, !.refundedAt = ends]
    BY <1>2 DEF ResolveIssue
  <2> HIDE DEF credit, ends, booked
  <2>5. /\ DOMAIN paid' = {"keys", "gateway", "wallet"}
        /\ paid'.gateway \in Int /\ paid'.wallet \in Int
    BY <2>1, <2>3, MoneyType
  <2>6. order' \in OrderRow
    BY <2>2, <2>4 DEF OrderRow
  <2>7. issue' \in [Issues -> Issue]
    BY <2>1, <2>3 DEF Issue
  <2> QED
    BY <2>3, <2>5, <2>6, <2>7
<1>3. CASE RejectIssue(i)
  BY <1>3 DEF RejectIssue, tables, Issue
<1> QED
  BY <1>1, <1>2, <1>3

LEMMA DeferredType ==
  ASSUME TypeOK, UNCHANGED <<cmd, cancelVars>>, RetryDeferred \/ FlowPay \/ FlowPersist
  PROVE  TypeOK'
<1>0. RowsOK /\ HandlersOK /\ CancelOK /\ cmd \in [Commands -> Command]
  BY TypeParts
<1>c. CancelOK' /\ (cmd \in [Commands -> Command])'
  BY <1>0 DEF CancelOK, cancelVars
<1>1. order.owed \in Int /\ order \in OrderRow
  BY <1>0 DEF RowsOK, OrderRow
<1>2. /\ DOMAIN paid' = {"keys", "gateway", "wallet"}
      /\ paid'.gateway \in Int /\ paid'.wallet \in Int
  <2>1. paid' = paid \/ \E answer : GatewayCall(FullKey, order.owed, answer)
    BY DEF RetryDeferred, FlowPay, FlowPersist
  <2> QED
    BY <1>0, <1>1, <2>1, MoneyType DEF RowsOK
<1>3. order' \in OrderRow
  BY <1>1 DEF RetryDeferred, FlowPay, FlowPersist, OrderRow, RefundIDs
<1>4. UNCHANGED <<lines, ledger, req, issue>> /\ flow' \in FlowStates
  BY <1>0 DEF RetryDeferred, FlowPay, FlowPersist, handlerVars, HandlersOK, FlowStates
<1> QED
  BY <1>0, <1>c, <1>2, <1>3, <1>4, TypeParts DEF RowsOK, HandlersOK

LEMMA AssignType ==
  ASSUME TypeOK, NEW w, NEW phase \in JobPhases, NEW owed \in Int, Assign(w, phase, owed)
  PROVE  job' \in [Workers -> Job]
<1>1. [pc |-> phase, owed |-> owed] \in Job
  BY DEF Job
<1> QED
  BY <1>1 DEF TypeOK, Assign

LEMMA FinishedType ==
  ASSUME TypeOK, NEW w, NEW owed \in Int, Finished(w, owed)
  PROVE  job' \in [Workers -> Job]
<1>1. 0 \in Int /\ "resolve" \in JobPhases /\ "idle" \in JobPhases
  BY DEF JobPhases
<1>2. Assign(w, "resolve", owed) \/ Assign(w, "idle", 0)
  BY DEF Finished
<1> QED
  BY <1>1, <1>2, AssignType

LEMMA SettleType ==
  ASSUME TypeOK, NEW w \in Workers, NEW amount \in Int, Settle(w, amount)
  PROVE  /\ order' \in OrderRow
         /\ ledger' \in [Scopes -> [status: LedgerStates, amount: Int]]
         /\ CancelOK'
<1>1. job[w].owed \in Int
  BY DEF TypeOK, Job
<1>2. order' \in OrderRow
  <2> DEFINE pay == IF job[w].owed > 0 THEN "refunded" ELSE order.pay
             booked == order.refundAmt + amount
             id == IF amount > 0 /\ Destination = "original" THEN "settled" ELSE order.refundID
  <2>1. order \in OrderRow
    BY DEF TypeOK, CommandTypeOK
  <2>2. pay \in PayStates /\ booked \in Int /\ id \in RefundIDs
    BY <2>1 DEF OrderRow, PayStates, RefundIDs
  <2>3. order' = [order EXCEPT !.pay = pay, !.status = "cancelled", !.refundedAt = TRUE,
                               !.refundAmt = booked, !.refundID = id]
    BY DEF Settle
  <2> HIDE DEF pay, booked, id
  <2> QED
    BY <2>1, <2>2, <2>3 DEF OrderRow, OrderStates
<1>3. ledger' \in [Scopes -> [status: LedgerStates, amount: Int]]
  BY DEF Settle, TypeOK, CommandTypeOK, LedgerStates
<1>4. cr' \in CancelRow
  <2> DEFINE owed == IF amount < job[w].owed THEN amount ELSE cr.owed
  <2>1. cr \in CancelRow /\ owed \in Int
    BY DEF TypeOK, CancelRow
  <2>2. cr' = [cr EXCEPT !.executed = TRUE, !.owed = owed]
    BY DEF Settle
  <2> HIDE DEF owed
  <2> QED
    BY <2>1, <2>2 DEF CancelRow
<1>5. job' \in [Workers -> Job]
  BY FinishedType DEF Settle
<1> QED
  BY <1>2, <1>3, <1>4, <1>5 DEF CancelOK
LEMMA ExecuteType ==
  ASSUME TypeOK, UNCHANGED <<cmd, handlerVars>>, NEW w \in Workers, Execute(w) \/ WorkerCrash(w)
  PROVE  TypeOK'
<1>0. /\ RowsOK /\ HandlersOK /\ CancelOK /\ cmd \in [Commands -> Command]
      /\ job[w].owed \in Int /\ order \in OrderRow
  BY TypeParts DEF CancelOK, Job, RowsOK
<1>h. HandlersOK' /\ (cmd \in [Commands -> Command])'
  BY <1>0 DEF HandlersOK, handlerVars
<1> SUFFICES RowsOK' /\ CancelOK'
  BY <1>h, TypeParts
<1>z. 0 \in Int /\ Cap(job[w].owed) \in Int
  BY <1>0, CapBounds
<1>1. CASE ExecuteLost(w)
  <2>1. cr' \in CancelRow
    BY <1>0, <1>1 DEF ExecuteLost, CancelOK, CancelRow
  <2>2. job' \in [Workers -> Job]
    BY <1>0, <1>1, FinishedType DEF ExecuteLost
  <2> QED
    BY <1>0, <1>1, <2>1, <2>2 DEF ExecuteLost, RowsOK, CancelOK, tables
<1>2. CASE ExecuteNothing(w)
  <2>1. Settle(w, 0) /\ UNCHANGED <<lines, paid>>
    BY <1>2 DEF ExecuteNothing
  <2> QED
    BY <1>0, <1>z, <2>1, SettleType DEF RowsOK
<1>3. CASE ExecutePaid(w)
  <2>1. /\ Settle(w, Cap(job[w].owed)) /\ UNCHANGED lines
        /\ PayCancellation(w, "ok")
    BY <1>3 DEF ExecutePaid
  <2>2. /\ DOMAIN paid' = {"keys", "gateway", "wallet"}
        /\ paid'.gateway \in Int /\ paid'.wallet \in Int
    BY <1>z, <2>1, MoneyType DEF PayCancellation
  <2> QED
    BY <1>0, <1>z, <2>1, <2>2, SettleType DEF RowsOK
<1>4. CASE ExecuteRolledBack(w)
  <2>1. paid' = paid \/ \E answer : PayCancellation(w, answer)
    BY <1>4 DEF ExecuteRolledBack
  <2>2. /\ DOMAIN paid' = {"keys", "gateway", "wallet"}
        /\ paid'.gateway \in Int /\ paid'.wallet \in Int
    BY <1>0, <1>z, <2>1, MoneyType DEF PayCancellation, RowsOK
  <2>3. job' \in [Workers -> Job]
    BY <1>4, <1>z, AssignType DEF ExecuteRolledBack, JobPhases
  <2> QED
    BY <1>0, <1>4, <2>2, <2>3 DEF ExecuteRolledBack, RowsOK, CancelOK
<1>5. CASE WorkerCrash(w)
  <2>1. NoJob \in Job
    BY DEF NoJob, Job, JobPhases
  <2> QED
    BY <1>0, <1>5, <2>1 DEF WorkerCrash, RowsOK, CancelOK, tables
<1> QED
  BY <1>1, <1>2, <1>3, <1>4, <1>5 DEF Execute

(* A request's decision moves no row but, when an admin adjusts it, the    *)
(* wallet's.                                                               *)
Decides ==
  \/ RequestCancellation \/ VendorDecide \/ VendorSave \/ VendorTimeout \/ Dispute
  \/ AdminReview \/ AdminAdjust \/ AdminResolve \/ SweepOwed

LEMMA DecideType ==
  ASSUME TypeOK, UNCHANGED <<cmd, handlerVars>>, Decides
  PROVE  TypeOK'
<1>0. /\ RowsOK /\ HandlersOK /\ CancelOK /\ cmd \in [Commands -> Command]
      /\ order \in OrderRow
  BY TypeParts DEF RowsOK
<1>h. HandlersOK' /\ (cmd \in [Commands -> Command])'
  BY <1>0 DEF HandlersOK, handlerVars
<1> SUFFICES RowsOK' /\ CancelOK'
  BY <1>h, TypeParts
<1>t. Tiers \subseteq Int /\ FullTier \in Int
  BY TierAssumption
<1>p. \A n \in Int : Cap(n) \in Int
  BY <1>0, CapBounds
<1>1. CASE RequestCancellation
  <2>1. UNCHANGED tables
    BY <1>1 DEF RequestCancellation
  <2>2. cr' \in CancelRow
    <3>1. Cap(FullTier) \in Int
      BY <1>t, <1>p
    <3>2. CASE cr' = [st |-> "auto_refunded", owed |-> Cap(FullTier), executed |-> FALSE]
      BY <3>1, <3>2 DEF CancelRow, RequestStates
    <3>3. CASE cr' = [cr EXCEPT !.st = "pending_vendor"]
      BY <1>0, <3>3 DEF CancelOK, CancelRow, RequestStates
    <3> QED
      BY <1>1, <3>2, <3>3 DEF RequestCancellation
  <2>3. job' \in [Workers -> Job]
    <3>1. "execute" \in JobPhases
      BY DEF JobPhases
    <3>2. UNCHANGED job \/ Assign("request", "execute", Cap(FullTier))
      BY <1>1 DEF RequestCancellation
    <3> QED
      BY <1>0, <1>t, <1>p, <3>1, <3>2, AssignType DEF CancelOK
  <2> QED
    BY <1>0, <2>1, <2>2, <2>3 DEF RowsOK, CancelOK, tables
<1>2. CASE VendorDecide \/ AdminReview
  <2>1. PICK tier \in Tiers, w \in {"vendor", "admin"}, phase \in {"save", "execute"} :
          Assign(w, phase, Cap(tier))
    BY <1>2 DEF VendorDecide, AdminReview
  <2>2. job' \in [Workers -> Job]
    <3>1. phase \in JobPhases /\ Cap(tier) \in Int
      BY <1>t, <1>p DEF JobPhases
    <3> QED
      BY <2>1, <3>1, AssignType
  <2> QED
    BY <1>0, <1>2, <2>2 DEF VendorDecide, AdminReview, RowsOK, CancelOK, tables
<1>3. CASE VendorSave
  <2>1. "vendor" \in Workers /\ job["vendor"].owed \in Int
    BY <1>0, <1>3 DEF VendorSave, Working, CancelOK, Job
  <2>2. cr' \in CancelRow
    BY <1>3, <2>1 DEF VendorSave, CancelRow, RequestStates
  <2>3. job' \in [Workers -> Job]
    <3>1. "execute" \in JobPhases
      BY DEF JobPhases
    <3> QED
      BY <1>3, <2>1, <3>1, AssignType DEF VendorSave
  <2> QED
    BY <1>0, <1>3, <2>2, <2>3 DEF VendorSave, RowsOK, CancelOK, tables
<1>4. CASE VendorTimeout \/ Dispute
  BY <1>0, <1>4 DEF VendorTimeout, Dispute, RowsOK, CancelOK, CancelRow, RequestStates, tables
<1>5. CASE AdminAdjust
  <2>1. PICK tier \in Tiers :
          LET ruling == Min({tier, Max({0, Remaining(order)}) + cr.owed})
              delta  == ruling - cr.owed
          IN IF delta > 0
             THEN \E answer \in {"ok", "error"} :
                    /\ WalletCredit(WalletKey("adjust", 0), delta, answer)
                    /\ IF answer = "ok" THEN Assign("admin", "resolve", ruling)
                       ELSE UNCHANGED job
             ELSE UNCHANGED paid /\ Assign("admin", "resolve", ruling)
    BY <1>5 DEF AdminAdjust
  <2> DEFINE left   == Max({0, Remaining(order)})
             ruling == Min({tier, left + cr.owed})
             delta  == ruling - cr.owed
  <2>2. left \in Int /\ cr.owed \in Int
    <3>1. Remaining(order) \in Int
      BY <1>0 DEF OrderRow, Remaining
    <3> QED
      BY <1>0, <3>1, MaxOfTwo DEF CancelOK, CancelRow
  <2>3. ruling \in Int /\ delta \in Int
    <3> HIDE DEF left
    <3>1. left + cr.owed \in Int /\ tier \in Int
      BY <2>2, <1>t
    <3> QED
      BY <2>2, <3>1, MinOfTwo
  <2>4. \/ UNCHANGED paid
        \/ \E answer : WalletCredit(WalletKey("adjust", 0), delta, answer)
    BY <2>1
  <2>5. UNCHANGED job \/ Assign("admin", "resolve", ruling)
    BY <2>1
  <2> HIDE DEF ruling, delta
  <2>6. /\ DOMAIN paid' = {"keys", "gateway", "wallet"}
        /\ paid'.gateway \in Int /\ paid'.wallet \in Int
    BY <1>0, <2>3, <2>4, MoneyType DEF RowsOK
  <2>7. job' \in [Workers -> Job]
    <3>1. "resolve" \in JobPhases
      BY DEF JobPhases
    <3> QED
      BY <1>0, <2>3, <2>5, <3>1, AssignType DEF CancelOK
  <2> QED
    BY <1>0, <1>5, <2>6, <2>7 DEF AdminAdjust, RowsOK, CancelOK
<1>6. CASE AdminResolve
  <2>1. "admin" \in Workers /\ job["admin"].owed \in Int
    BY <1>0, <1>6 DEF AdminResolve, Working, CancelOK, Job
  <2>2. cr' \in CancelRow
    BY <1>0, <1>6, <2>1 DEF AdminResolve, CancelOK, CancelRow, RequestStates
  <2>3. job' \in [Workers -> Job]
    <3>1. "idle" \in JobPhases /\ 0 \in Int
      BY DEF JobPhases
    <3> QED
      BY <1>6, <3>1, AssignType DEF AdminResolve
  <2> QED
    BY <1>0, <1>6, <2>2, <2>3 DEF AdminResolve, RowsOK, CancelOK, tables
<1>7. CASE SweepOwed
  <2>1. job' \in [Workers -> Job]
    <3>1. "execute" \in JobPhases /\ cr.owed \in Int
      BY <1>0 DEF JobPhases, CancelOK, CancelRow
    <3> QED
      BY <1>7, <3>1, AssignType DEF SweepOwed
  <2> QED
    BY <1>0, <1>7, <2>1 DEF SweepOwed, RowsOK, CancelOK, tables
<1> QED
  BY <1>1, <1>2, <1>3, <1>4, <1>5, <1>6, <1>7 DEF Decides

LEMMA CancellationSplits == CancellationNext => Decides \/ \E w \in Workers : Execute(w) \/ WorkerCrash(w)
  BY DEF CancellationNext, Decides

LEMMA OthersType ==
  ASSUME TypeOK, UNCHANGED <<cmd, handlerVars, cancelVars>>,
         AcceptOrder \/ DeliverOrder \/ FinalizeStuckRefund \/ FinalizeGatewayFullRefund
  PROVE  TypeOK'
<1>0. RowsOK /\ HandlersOK /\ CancelOK /\ cmd \in [Commands -> Command] /\ order \in OrderRow
  BY TypeParts DEF RowsOK
<1>1. TerminalStatus(order) \in OrderStates /\ RecoveredID(order) \in RefundIDs
  BY <1>0 DEF TerminalStatus, RecoveredID, OrderRow, OrderStates, RefundIDs
<1>2. order' \in OrderRow
  <2>1. CASE AcceptOrder \/ DeliverOrder
    BY <1>0, <2>1 DEF AcceptOrder, DeliverOrder, OrderRow, OrderStates
  <2>2. CASE FinalizeStuckRefund
    <3>1. order' = StuckFinalized(order)
      BY <2>2 DEF FinalizeStuckRefund
    <3> QED
      BY <1>0, <1>1, <3>1 DEF StuckFinalized, OrderRow, PayStates
  <2>3. CASE FinalizeGatewayFullRefund
    <3>1. order' = GatewayFinalized(order)
      BY <2>3 DEF FinalizeGatewayFullRefund
    <3> QED
      BY <1>0, <1>1, <3>1 DEF GatewayFinalized, OrderRow, PayStates
  <2> QED
    BY <2>1, <2>2, <2>3
<1>3. UNCHANGED <<lines, ledger, paid>>
  BY DEF AcceptOrder, DeliverOrder, FinalizeStuckRefund, FinalizeGatewayFullRefund
<1> QED
  BY <1>0, <1>2, <1>3, TypeParts DEF RowsOK, HandlersOK, CancelOK, handlerVars, cancelVars

LEMMA OrderTypeStep == TypeOK /\ HeldIsAmount /\ [Next]_vars => TypeOK'
<1> SUFFICES ASSUME TypeOK, HeldIsAmount, [Next]_vars PROVE TypeOK'
  OBVIOUS
<1>1. CASE Coordinator
  <2>1. CommandTypeOK'
    BY <1>1, TypeStep DEF Coordinator, CoordinatorNext, TypeOK
  <2>2. lines' = lines
    BY <1>1 DEF Coordinator, Load, CommandStep, CommandCrash, CancelFirst, ReplayCheck, Reserve,
      Classify, CallGateway, Finalize, ReleaseClaim, MarkFailed, StampRefundID, VoidOrder, tables
  <2> QED
    BY <1>1, <2>1, <2>2 DEF TypeOK, Coordinator, handlerVars, cancelVars
<1>2. CASE Handlers
  BY <1>2, RequestType, IssueType, DeferredType DEF Handlers, HandlersNext, RequestMoves
<1>3. CASE Cancellation
  BY <1>3, CancellationSplits, DecideType, ExecuteType DEF Cancellation
<1>4. CASE Kitchen \/ FinalizeStuckRefund \/ FinalizeGatewayFullRefund
  BY <1>4, OthersType DEF Kitchen, FinalizeStuckRefund, FinalizeGatewayFullRefund
<1>5. CASE UNCHANGED vars
  BY <1>5 DEF vars, tables, handlerVars, cancelVars, TypeOK, CommandTypeOK
<1> QED
  BY <1>1, <1>2, <1>3, <1>4, <1>5 DEF Next

LEMMA OrderTypeInit == Init => TypeOK
<1> SUFFICES ASSUME Init PROVE TypeOK
  OBVIOUS
<1>1. CommandTypeOK /\ lines = {}
  BY TypeInit DEF Init, MoneyInit
<1>2. HandlersOK
  <2>1. [pc |-> "idle", amt |-> 0, prior |-> 0, full |-> FALSE] \in Request
    BY DEF Request, RequestPhases
  <2>2. [st |-> "none", asked |-> 0, credit |-> 0, names |-> {}] \in Issue
    BY DEF Issue
  <2> QED
    BY <2>1, <2>2 DEF Init, HandlersInit, HandlersOK, FlowStates
<1>3. CancelOK
  <2>1. NoJob \in Job
    BY DEF NoJob, Job, JobPhases
  <2> QED
    BY <2>1 DEF Init, CancelInit, CancelOK, CancelRow, RequestStates
<1> QED
  BY <1>1, <1>2, <1>3 DEF TypeOK, HandlersOK, CancelOK

(* Every state the refund paths reach together is well formed, for any     *)
(* number of callers, lines and issues and any amounts.                    *)
THEOREM OrderTypeCorrect == Spec => []TypeOK
<1>1. ExclusionInv => HeldIsAmount
  BY DEF ExclusionInv
<1> QED
  BY <1>1, ExclusionInvariant, OrderTypeInit, OrderTypeStep, PTL DEF Spec
---------------------------------------------------------------------------
(* What a step writes, column by column.  The money columns of the row:    *)
Columns == <<order.pay, order.refundedAt, order.refundAmt, order.total, order.perLine,
             order.refundID, order.owed>>
BookColumns  == <<order.refundAmt, order.total, order.perLine, order.refundID, order.owed>>
NoNewSuccess == \A s \in Scopes : ledger'[s].status = "succeeded" => ledger[s].status = "succeeded"

(* A command's step is one of these: beside the claim, its reservation,    *)
(* its call, either end of it, its release, the stamp, and its death.      *)
Aside(c) ==
  /\ UNCHANGED <<Columns, paid>> /\ NoNewSuccess
  /\ cmd[c].pc \notin ClaimPhases /\ cmd'[c].pc \notin ClaimPhases
  /\ At(c, "stamp")' => Wrapped(c) /\ ledger[Scope[c]].status = "succeeded"
Reserves(c) ==
  /\ At(c, "reserve") /\ At(c, "gateway")'
  /\ order.pay = "completed" /\ Remaining(order) > 0
  /\ IntentOf(c) = "full" => ~order.refundedAt
  /\ cmd'[c].amt = ReserveAmount(order, Ask[c], IntentOf(c))
  /\ cmd'[c].full = (cmd'[c].amt >= Remaining(order))
  /\ order'.pay = "refunded" /\ order'.refundAmt = order.refundAmt + cmd'[c].amt
  /\ order'.refundedAt = (order.refundedAt \/ IntentOf(c) = "full")
  /\ UNCHANGED <<order.total, order.perLine, order.refundID, order.owed, paid>>
  /\ NoNewSuccess
CallsGateway(c) ==
  /\ At(c, "gateway") /\ UNCHANGED <<Columns, ledger>>
  /\ cmd'[c].amt = cmd[c].amt /\ cmd'[c].full = cmd[c].full
  /\ \E answer \in {"ok", "error"} :
       /\ GatewayCall(ScopeKey(Scope[c]), cmd[c].amt, answer)
       /\ cmd'[c].pc = IF answer = "ok" THEN "finalize" ELSE "release"
Finalizes(c) ==
  /\ At(c, "finalize") /\ cmd'[c].pc = IF Wrapped(c) THEN "stamp" ELSE "done"
  /\ order'.pay = IF cmd[c].full THEN "refunded" ELSE "completed"
  /\ order'.refundedAt = (order.refundedAt \/ cmd[c].full)
  /\ UNCHANGED <<BookColumns, paid>>
  /\ \A s \in Scopes : ledger'[s].status = "succeeded" =>
       ledger[s].status = "succeeded" \/ s = Scope[c]
Abandons(c) ==
  /\ UNCHANGED <<Columns, paid, ledger>>
  /\ \/ At(c, "finalize") /\ "persist" \in Faults /\ At(c, "done")'
     \/ "crash" \in Faults /\ At(c, "dead")'
     \/ At(c, "release") /\ "persist" \in Faults /\ At(c, "markfailed")'
GivesBack(c) ==
  /\ At(c, "release") /\ At(c, "markfailed")'
  /\ order'.pay = "completed" /\ order'.refundAmt = order.refundAmt - cmd[c].amt
  /\ order'.refundedAt = (order.refundedAt /\ IntentOf(c) # "full")
  /\ UNCHANGED <<order.total, order.perLine, order.refundID, order.owed, paid, ledger>>
Stamps(c) ==
  /\ At(c, "stamp") /\ cmd'[c].pc \in {"void", "done"}
  /\ UNCHANGED <<order.pay, order.refundedAt, order.refundAmt, order.total, order.perLine,
                 order.owed, paid, ledger>>
  /\ order'.refundID \in {order.refundID, "settled"}

LEMMA CommandEffects ==
  ASSUME TypeOK, NEW c \in Commands, CommandMoves(c)
  PROVE  \/ Aside(c) \/ Reserves(c) \/ CallsGateway(c) \/ Finalizes(c) \/ Abandons(c)
         \/ GivesBack(c) \/ Stamps(c)
<1>0. /\ order \in OrderRow /\ ledger \in [Scopes -> [status: LedgerStates, amount: Int]]
      /\ cmd \in [Commands -> Command] /\ cmd[c] \in Command /\ Scope[c] \in Scopes
  BY CommandAssumption DEF TypeOK, CommandTypeOK
<1>s. Shape
  BY DEF TypeOK, CommandTypeOK, Shape, OrderRow, Command, Request
<1> DEFINE Quietly == UNCHANGED <<Columns, paid>> /\ NoNewSuccess
<1>1. CASE Load(c)
  <2>1. Quietly
    BY <1>1 DEF Load, tables, Columns, NoNewSuccess
  <2>2. MayLoad(c) /\ cmd'[c].pc \in {"cancel", "replay"}
    BY <1>0, <1>1 DEF Load, NewCommand
  <2>3. cmd[c].pc \in {"idle", "done", "dead"}
    BY <2>2, CommandAssumption DEF MayLoad, At, IsCron, Callers
  <2> QED
    BY <2>1, <2>2, <2>3 DEF Aside, ClaimPhases, At
<1>2. CASE CancelFirst(c)
  <2>1. Quietly
    BY <1>0, <1>2 DEF CancelFirst, Columns, NoNewSuccess, OrderRow
  <2>2. cmd[c].pc = "cancel" /\ cmd'[c].pc \in {"done", "replay"}
    BY <1>s, <1>2, GotoMoves DEF CancelFirst, At
  <2> QED
    BY <2>1, <2>2 DEF Aside, ClaimPhases, At
<1>3. CASE ReplayCheck(c)
  <2>1. Quietly
    BY <1>3 DEF ReplayCheck, tables, Columns, NoNewSuccess
  <2>2. CASE ledger[Scope[c]].status = "succeeded"
    <3>1. cmd'[c].pc = IF Wrapped(c) THEN "stamp" ELSE "done"
      BY <1>0, <1>3, <2>2 DEF ReplayCheck, Command
    <3> QED
      BY <1>3, <2>1, <2>2, <3>1 DEF ReplayCheck, Aside, ClaimPhases, At
  <2>3. CASE ledger[Scope[c]].status = "pending"
    BY <1>s, <1>3, <2>1, <2>3, AnswerMoves DEF ReplayCheck, Aside, ClaimPhases, At
  <2>4. CASE ledger[Scope[c]].status \notin {"succeeded", "pending"}
    <3>1. cmd'[c].pc = "reserve"
      BY <1>0, <1>3, <2>4 DEF ReplayCheck, Command
    <3> QED
      BY <1>3, <2>1, <3>1 DEF ReplayCheck, Aside, ClaimPhases, At
  <2> QED
    BY <2>2, <2>3, <2>4
<1>4. CASE Reserve(c)
  <2> DEFINE amount  == ReserveAmount(order, Ask[c], IntentOf(c))
             full    == amount >= Remaining(order)
             won == /\ ReserveOutcome(order, IntentOf(c)) = "won"
                    /\ order' = Reserved(order, amount, IntentOf(c))
                    /\ ledger' = [ledger EXCEPT ![Scope[c]] = [status |-> "pending", amount |-> amount]]
                    /\ cmd' = [cmd EXCEPT ![c].pc = "gateway", ![c].amt = amount, ![c].full = full]
  <2>1. won \/ (UNCHANGED <<order, ledger>> /\ (Goto(c, "classify") \/ \E a : Answer(c, a)))
    BY <1>4 DEF Reserve
  <2>2. At(c, "reserve") /\ UNCHANGED paid
    BY <1>4 DEF Reserve
  <2>3. CASE won
    <3>1. order.pay = "completed" /\ Remaining(order) > 0
      BY <1>0, <2>3, WonMeansOpen
    <3>2. IntentOf(c) = "full" => ~order.refundedAt
      BY <2>3, <3>1 DEF ReserveOutcome
    <3>3. amount \in Int
      BY <1>0, ReserveAmountBounds, CommandAssumption
    <3>4. NoNewSuccess
      BY <1>0, <2>3 DEF NoNewSuccess
    <3> HIDE DEF amount, full
    <3>5. cmd'[c].pc = "gateway" /\ cmd'[c].amt = amount /\ cmd'[c].full = full
      BY <1>0, <2>3 DEF Command
    <3>6. /\ order'.pay = "refunded" /\ order'.refundAmt = order.refundAmt + amount
          /\ order'.refundedAt = (order.refundedAt \/ IntentOf(c) = "full")
          /\ UNCHANGED <<order.total, order.perLine, order.refundID, order.owed>>
      BY <1>0, <2>3 DEF Reserved, OrderRow
    <3>7. cmd'[c].amt = ReserveAmount(order, Ask[c], IntentOf(c))
          /\ cmd'[c].full = (cmd'[c].amt >= Remaining(order))
      BY <3>5 DEF amount, full
    <3> QED
      BY <2>2, <3>1, <3>2, <3>4, <3>5, <3>6, <3>7 DEF Reserves, At
  <2>4. CASE UNCHANGED <<order, ledger>> /\ (Goto(c, "classify") \/ \E a : Answer(c, a))
    <3>1. cmd'[c].pc \in {"classify", "done", "void"}
      BY <1>s, <2>4, GotoMoves, AnswerMoves
    <3> QED
      BY <2>2, <2>4, <3>1 DEF Aside, ClaimPhases, At, Columns, NoNewSuccess
  <2> QED
    BY <2>1, <2>3, <2>4
<1>5. CASE Classify(c)
  <2>1. \E a : Answer(c, a)
    BY <1>5 DEF Classify
  <2>2. cmd'[c].pc \in {"done", "void"}
    BY <1>s, <2>1, AnswerMoves
  <2> QED
    BY <1>5, <2>2 DEF Classify, tables, Aside, ClaimPhases, At, Columns, NoNewSuccess
<1>6. CASE CallGateway(c)
  <2>1. PICK answer \in {"ok", "error"} :
          /\ GatewayCall(ScopeKey(Scope[c]), cmd[c].amt, answer)
          /\ Goto(c, IF answer = "ok" THEN "finalize" ELSE "release")
    BY <1>6 DEF CallGateway
  <2>2. /\ cmd'[c].pc = IF answer = "ok" THEN "finalize" ELSE "release"
        /\ cmd'[c].amt = cmd[c].amt /\ cmd'[c].full = cmd[c].full
    BY <1>0, <2>1 DEF Goto, Command
  <2> QED
    BY <1>6, <2>1, <2>2 DEF CallGateway, CallsGateway, Columns
<1>7. CASE Finalize(c)
  <2> DEFINE next == IF Wrapped(c) THEN "stamp" ELSE "done"
  <2>0. At(c, "finalize") /\ UNCHANGED paid
    BY <1>7 DEF Finalize
  <2>1. CASE /\ order' = IF cmd[c].full
                          THEN [order EXCEPT !.pay = "refunded", !.refundedAt = TRUE]
                          ELSE [order EXCEPT !.pay = "completed"]
             /\ ledger' = [ledger EXCEPT ![Scope[c]].status = "succeeded"]
             /\ cmd' = [cmd EXCEPT ![c].result = "ok", ![c].pc = next]
    <3>0. cmd[c].full \in BOOLEAN
      BY <1>0 DEF Command
    <3>1. cmd'[c].pc = next
      BY <1>0, <2>1 DEF Command
    <3>2. /\ order'.pay = IF cmd[c].full THEN "refunded" ELSE "completed"
          /\ order'.refundedAt = (order.refundedAt \/ cmd[c].full)
          /\ UNCHANGED BookColumns
      BY <1>0, <2>1, <3>0 DEF OrderRow, BookColumns
    <3>3. \A s \in Scopes : ledger'[s].status = "succeeded" =>
            ledger[s].status = "succeeded" \/ s = Scope[c]
      BY <1>0, <2>1
    <3> QED
      BY <2>0, <3>1, <3>2, <3>3 DEF Finalizes
  <2>2. CASE "persist" \in Faults /\ Answer(c, "error") /\ UNCHANGED <<order, ledger>>
    <3>1. cmd'[c].pc = "done"
      BY <1>0, <2>2 DEF Answer, Command
    <3> QED
      BY <2>0, <2>2, <3>1 DEF Abandons, At, Columns
  <2> QED
    BY <1>7, <2>1, <2>2 DEF Finalize
<1>8. CASE ReleaseClaim(c)
  <2>0. At(c, "release") /\ At(c, "markfailed")' /\ UNCHANGED <<paid, ledger>>
    BY <1>s, <1>8, GotoMoves DEF ReleaseClaim, At
  <2>1. CASE order' = Released(order, cmd[c].amt, IntentOf(c))
    <3>1. cmd[c].amt \in Int
      BY <1>0 DEF Command
    <3>2. /\ order'.refundAmt = order.refundAmt - cmd[c].amt
          /\ order'.total = order.total /\ order'.perLine = order.perLine
      BY <1>0, <2>1, <3>1, ReleasedBooks
    <3>3. /\ order'.pay = "completed"
          /\ order'.refundedAt = (order.refundedAt /\ IntentOf(c) # "full")
          /\ UNCHANGED <<order.refundID, order.owed>>
      BY <1>0, <2>1 DEF Released, ReleasedFull, ReleasedPartial, OrderRow
    <3> QED
      BY <2>0, <3>2, <3>3 DEF GivesBack
  <2>2. CASE "persist" \in Faults /\ UNCHANGED order
    BY <2>0, <2>2 DEF Abandons, At, Columns
  <2> QED
    BY <1>8, <2>1, <2>2 DEF ReleaseClaim
<1>9. CASE MarkFailed(c)
  <2>1. cmd'[c].pc \in {"done", "void"}
    BY <1>s, <1>9, AnswerMoves DEF MarkFailed
  <2>2. NoNewSuccess
    BY <1>0, <1>9 DEF MarkFailed, NoNewSuccess
  <2> QED
    BY <1>9, <2>1, <2>2 DEF MarkFailed, Aside, ClaimPhases, At, Columns
<1>10. CASE StampRefundID(c)
  <2>1. cmd'[c].pc \in {"void", "done"}
    BY <1>s, <1>10, GotoMoves DEF StampRefundID, AfterNil
  <2>2. /\ UNCHANGED <<order.pay, order.refundedAt, order.refundAmt, order.total, order.perLine,
                       order.owed, paid, ledger>>
        /\ order'.refundID \in {order.refundID, "settled"}
    BY <1>0, <1>10 DEF StampRefundID, OrderRow
  <2> QED
    BY <1>10, <2>1, <2>2 DEF StampRefundID, Stamps
<1>11. CASE VoidOrder(c)
  <2>1. cmd'[c].pc = "done" /\ cmd[c].pc = "void"
    BY <1>s, <1>11, GotoMoves DEF VoidOrder, At
  <2>2. Quietly
    BY <1>0, <1>11 DEF VoidOrder, Columns, NoNewSuccess, OrderRow
  <2> QED
    BY <2>1, <2>2 DEF Aside, ClaimPhases, At
<1>12. CASE CommandCrash(c)
  BY <1>s, <1>12, GotoMoves DEF CommandCrash, tables, Abandons, At, Columns
<1> QED
  BY <1>1, <1>2, <1>3, <1>4, <1>5, <1>6, <1>7, <1>8, <1>9, <1>10, <1>11, <1>12
  DEF CommandMoves, CommandStep
---------------------------------------------------------------------------
(* A request's step likewise: beside the claim, its reservation, the       *)
(* sentinel it leaves, its call, the swap, its end, its release, and what  *)
(* it leaves behind.  A line's cancel books and gives back beside them.    *)
Same == UNCHANGED <<Columns, paid, ledger, flow>>
Amounts(r) == UNCHANGED <<req[r].amt, req[r].prior, req[r].full>>

StandsBy(r) == 
  /\ Same /\ r \notin RequestHolders
  /\ \/ req'[r].pc \in {"done", "reserve", "unclaim", "dead"}
     \/ req'[r].pc = "cancel" /\ Kind[r] = "chefcancel" /\ req'[r].amt = 0
IntentFor(r) == IF Kind[r] \in {"chefcancel", "saga"} THEN "full" ELSE "partial"
TakesClaim(r) ==
  /\ In(r, "reserve") /\ Kind[r] # "line"
  /\ req'[r].pc = IF Kind[r] = "chefcancel" THEN "cancel" ELSE "pay"
  /\ order.pay = "completed" /\ Remaining(order) > 0
  /\ IntentFor(r) = "full" => ~order.refundedAt
  /\ req'[r].amt = ReserveAmount(order, Amount[r], IntentFor(r))
  /\ req'[r].prior = order.refundAmt
  /\ req'[r].full = (req'[r].amt >= Remaining(order))
  /\ order'.pay = "refunded" /\ order'.refundAmt = order.refundAmt + req'[r].amt
  /\ order'.refundedAt = (order.refundedAt \/ IntentFor(r) = "full")
  /\ UNCHANGED <<order.total, order.perLine, order.refundID, order.owed, paid, ledger, flow>>
TakesLine(r) ==
  /\ In(r, "reserve") /\ Kind[r] = "line" /\ In(r, "pay")'
  /\ order.pay = "completed" /\ ~order.refundedAt
  /\ req'[r].amt = LineValue[Target[r]] 
  /\ order'.total = order.total - req'[r].amt /\ order'.refundAmt = order.refundAmt + req'[r].amt
  /\ order'.perLine = order.perLine + req'[r].amt
  /\ UNCHANGED <<order.pay, order.refundedAt, order.refundID, order.owed, paid, ledger, flow>>
Defers(r) ==
  /\ In(r, "cancel") /\ In(r, "pay")' /\ req[r].amt > 0 /\ Amounts(r)
  /\ order'.refundID = "deferred" /\ order'.owed = req[r].amt
  /\ UNCHANGED <<order.pay, order.refundedAt, order.refundAmt, order.total, order.perLine,
                 paid, ledger, flow>>
Pays(r) ==
  /\ In(r, "pay") /\ Amounts(r) /\ UNCHANGED <<Columns, ledger>>
  /\ \E answer \in {"ok", "error"} :
       /\ Move(r, answer) /\ req'[r].pc = AfterPay(r, answer)
       /\ flow' = IF Kind[r] = "chefcancel" /\ answer = "error" /\ flow = "none"
                  THEN "running" ELSE flow
Swaps(r) ==
  /\ In(r, "swap") /\ In(r, "done")'
  /\ order'.refundID \in {order.refundID, "settled"}
  /\ UNCHANGED <<order.pay, order.refundedAt, order.refundAmt, order.total, order.perLine,
                 order.owed, paid, ledger, flow>>
Ends(r) ==
  /\ In(r, "persist") /\ In(r, "done")'
  /\ CASE Kind[r] \in Keyed /\ req[r].full ->
            order'.pay \in {"refunded", order.pay} /\ order'.refundedAt /\ order'.refundID = "settled"
       [] Kind[r] \in Keyed /\ ~req[r].full ->
            /\ order'.pay = "completed" /\ order'.refundID = "settled"
            /\ order'.refundedAt = order.refundedAt
       [] OTHER -> UNCHANGED <<order.pay, order.refundedAt, order.refundID>>
  /\ UNCHANGED <<order.refundAmt, order.total, order.perLine, order.owed, paid, ledger, flow>>
LetsGo(r) ==
  /\ Same
  /\ \/ "persist" \in Faults /\ req[r].pc \in {"cancel", "persist", "release"}
        /\ req'[r].pc \in {"done", "reserve", "unclaim"}
     \/ "crash" \in Faults /\ req'[r].pc \in {"dead", "reserve"}
  /\ "reserve" = req'[r].pc => Kind[r] = "saga"
Returns(r) ==
  /\ In(r, "release") /\ Kind[r] # "line"
  /\ req'[r].pc = IF Kind[r] = "saga" THEN "reserve" ELSE "unclaim"
  /\ order'.pay = "completed" /\ order'.refundAmt = order.refundAmt - req[r].amt
  /\ order'.refundedAt = (order.refundedAt /\ Kind[r] # "saga")
  /\ UNCHANGED <<order.total, order.perLine, order.refundID, order.owed, paid, ledger, flow>>
ReturnsLine(r) ==
  /\ In(r, "release") /\ Kind[r] = "line" /\ In(r, "done")'
  /\ \E n \in {0, req[r].amt} :
       /\ order'.total = order.total + n /\ order'.refundAmt = order.refundAmt - n
       /\ order'.perLine = order.perLine - n
  /\ UNCHANGED <<order.pay, order.refundedAt, order.refundID, order.owed, paid, ledger, flow>>

LEMMA RequestEffects ==
  ASSUME TypeOK, HeldIsAmount, NEW r \in Requests, RequestMoves(r)
  PROVE  \/ StandsBy(r) \/ TakesClaim(r) \/ TakesLine(r) \/ Defers(r) \/ Pays(r) \/ Swaps(r)
         \/ Ends(r) \/ LetsGo(r) \/ Returns(r) \/ ReturnsLine(r)
<1>0. /\ order \in OrderRow /\ req \in [Requests -> Request] /\ req[r] \in Request
      /\ Kind[r] \in Kinds
  BY RequestAssumption DEF TypeOK, CommandTypeOK
<1>s. Shape
  BY DEF TypeOK, CommandTypeOK, Shape, OrderRow, Command, Request
<1>m. \A p : Step(r, p) => req'[r].pc = p /\ Amounts(r)
  BY <1>0 DEF Step, Request, Amounts
<1>1. CASE Submit(r)
  <2>1. req'[r].pc \in {"done", "reserve"} /\ req[r].pc = "idle"
    BY <1>1, <1>m DEF Submit, In
  <2> QED
    BY <1>1, <2>1 DEF Submit, StandsBy, Same, tables, Columns, RequestHolders
<1>2. CASE ReserveOrder(r)
  <2> DEFINE intent == IntentFor(r)
             amount == ReserveAmount(order, Amount[r], intent)
             full   == amount >= Remaining(order)
             start  == IF Kind[r] = "chefcancel" THEN "cancel" ELSE "pay"
             stop   == CASE Kind[r] \in Keyed       -> "unclaim"
                         [] Kind[r] = "chefcancel" -> "cancel"
                         [] OTHER                  -> "done"
  <2>1. In(r, "reserve") /\ Kind[r] # "line" /\ UNCHANGED <<paid, ledger, flow>>
    BY <1>2 DEF ReserveOrder
  <2>2. CASE Wins(order, intent)
    <3>1. order' = Reserved(order, amount, intent)
          /\ req' = [req EXCEPT ![r] = [pc |-> start, amt |-> amount,
                                        prior |-> order.refundAmt, full |-> full]]
      BY <1>2, <2>2 DEF ReserveOrder, IntentFor
    <3>2. order.pay = "completed" /\ Remaining(order) > 0
      BY <1>0, <2>2, WonMeansOpen DEF Wins
    <3>3. intent = "full" => ~order.refundedAt
      BY <2>2, <3>2 DEF Wins, ReserveOutcome
    <3>4. amount \in Int
      BY <1>0, ReserveAmountBounds, RequestAssumption
    <3> HIDE DEF amount, full, start, intent
    <3>5. /\ req'[r].pc = start /\ req'[r].amt = amount /\ req'[r].prior = order.refundAmt
          /\ req'[r].full = full
      BY <1>0, <3>1
    <3>6. /\ order'.pay = "refunded" /\ order'.refundAmt = order.refundAmt + amount
          /\ order'.refundedAt = (order.refundedAt \/ intent = "full")
          /\ UNCHANGED <<order.total, order.perLine, order.refundID, order.owed>>
      BY <1>0, <3>1 DEF Reserved, OrderRow
    <3> QED
      BY <2>1, <3>2, <3>3, <3>5, <3>6 DEF TakesClaim, amount, full, start, intent
  <2>3. CASE ~Wins(order, intent)
    <3>1. UNCHANGED order /\ req' = [req EXCEPT ![r].amt = 0, ![r].pc = stop]
      BY <1>2, <2>3 DEF ReserveOrder, IntentFor
    <3> HIDE DEF stop
    <3>2. req'[r].pc = stop /\ req'[r].amt = 0
      BY <1>0, <3>1 DEF Request
    <3>3. stop \in {"unclaim", "done"} \/ (stop = "cancel" /\ Kind[r] = "chefcancel")
      BY DEF stop
    <3> QED
      BY <2>1, <3>1, <3>2, <3>3 DEF StandsBy, Same, Columns, RequestHolders, In
  <2> QED
    BY <2>2, <2>3
<1>3. CASE ReserveLine(r)
  <2> DEFINE v == LineValue[Target[r]]
  <2>1. In(r, "reserve") /\ Kind[r] = "line" /\ UNCHANGED <<paid, ledger, flow>>
    BY <1>3 DEF ReserveLine
  <2>2. CASE /\ order.pay = "completed" /\ ~order.refundedAt
             /\ order' = LineReserved(order, v)
             /\ req' = [req EXCEPT ![r].pc = "pay", ![r].amt = v]
    <3>0. v \in Int
      BY <2>1, RequestAssumption, LineAssumption
    <3> HIDE DEF v
    <3>1. req'[r].pc = "pay" /\ req'[r].amt = v
      BY <1>0, <2>2 DEF Request
    <3>2. /\ order'.total = order.total - v /\ order'.refundAmt = order.refundAmt + v
          /\ order'.perLine = order.perLine + v
          /\ UNCHANGED <<order.pay, order.refundedAt, order.refundID, order.owed>>
      BY <1>0, <2>2 DEF LineReserved, OrderRow
    <3> QED
      BY <2>1, <2>2, <3>1, <3>2 DEF TakesLine, In, v
  <2>3. CASE Step(r, "done") /\ UNCHANGED order
    BY <2>1, <2>3, <1>m DEF StandsBy, Same, Columns, RequestHolders
  <2> QED
    BY <1>3, <2>2, <2>3 DEF ReserveLine
<1>4. CASE PersistCancel(r)
  <2>1. In(r, "cancel") /\ UNCHANGED <<paid, ledger, flow>>
    BY <1>4 DEF PersistCancel
  <2>2. CASE "persist" \in Faults /\ Step(r, "done") /\ UNCHANGED order
    BY <2>1, <2>2, <1>m DEF LetsGo, Same, Columns, In
  <2>3. CASE /\ req[r].amt > 0 /\ Step(r, "pay")
             /\ order' = [order EXCEPT !.status = "cancelled", !.refundID = "deferred",
                                       !.owed = req[r].amt]
    <3>1. /\ order'.refundID = "deferred" /\ order'.owed = req[r].amt
          /\ UNCHANGED <<order.pay, order.refundedAt, order.refundAmt, order.total, order.perLine>>
      BY <1>0, <2>3 DEF OrderRow
    <3> QED
      BY <2>1, <2>3, <3>1, <1>m DEF Defers, In
  <2>4. CASE /\ ~(req[r].amt > 0) /\ Step(r, "done")
             /\ order' = [order EXCEPT !.status = "cancelled"]
    <3>1. UNCHANGED Columns
      BY <1>0, <2>4 DEF Columns, OrderRow
    <3> QED
      BY <2>1, <2>4, <3>1, <1>m DEF StandsBy, Same, RequestHolders
  <2> QED
    BY <1>4, <2>2, <2>3, <2>4 DEF PersistCancel
<1>5. CASE Pay(r)
  BY <1>5, <1>m DEF Pay, Pays, Columns
<1>6. CASE SwapSentinel(r)
  <2>1. In(r, "swap") /\ In(r, "done")' /\ UNCHANGED <<paid, ledger, flow>>
    BY <1>6, <1>m DEF SwapSentinel, In
  <2>2. /\ order'.refundID \in {order.refundID, "settled"}
        /\ UNCHANGED <<order.pay, order.refundedAt, order.refundAmt, order.total, order.perLine,
                       order.owed>>
    BY <1>0, <1>6 DEF SwapSentinel, OrderRow
  <2> QED
    BY <2>1, <2>2 DEF Swaps
<1>7. CASE Persist(r)
  <2>0. In(r, "persist") /\ UNCHANGED <<paid, ledger, flow>> /\ req[r].full \in BOOLEAN
        /\ Kind[r] \in Keyed \cup {"saga"}
    BY <1>0, <1>7 DEF Persist, HeldIsAmount, In, Request
  <2>1. CASE order' = Persisted(r) /\ Step(r, "done")
    <3>0. UNCHANGED <<order.refundAmt, order.total, order.perLine, order.owed>>
      BY <1>0, <2>0, <2>1 DEF Persisted, Keyed, OrderRow
    <3>1. CASE Kind[r] \in Keyed /\ req[r].full
      <4>1. order'.pay \in {"refunded", order.pay} /\ order'.refundedAt /\ order'.refundID = "settled"
        BY <1>0, <2>1, <3>1 DEF Persisted, Keyed, OrderRow
      <4> QED
        BY <2>0, <2>1, <3>0, <3>1, <4>1, <1>m DEF Ends, In
    <3>2. CASE Kind[r] \in Keyed /\ ~req[r].full
      <4>1. /\ order'.pay = "completed" /\ order'.refundID = "settled"
            /\ order'.refundedAt = order.refundedAt
        BY <1>0, <2>1, <3>2 DEF Persisted, Keyed, OrderRow
      <4> QED
        BY <2>0, <2>1, <3>0, <3>2, <4>1, <1>m DEF Ends, In
    <3>3. CASE Kind[r] = "saga"
      <4>1. UNCHANGED <<order.pay, order.refundedAt, order.refundID>>
        BY <1>0, <2>1, <3>3 DEF Persisted, Keyed, OrderRow
      <4> QED
        BY <2>0, <2>1, <3>0, <3>3, <4>1, <1>m DEF Ends, In, Keyed
    <3> QED
      BY <2>0, <3>1, <3>2, <3>3
  <2>2. CASE /\ "persist" \in Faults /\ UNCHANGED order
             /\ Step(r, IF Kind[r] = "saga" THEN "reserve" ELSE "done")
    BY <2>0, <2>2, <1>m DEF LetsGo, Same, Columns, In
  <2> QED
    BY <1>7, <2>1, <2>2 DEF Persist
<1>8. CASE ReleaseOrder(r)
  <2> DEFINE intent == IF Kind[r] = "saga" THEN "full" ELSE "partial"
             next == IF Kind[r] = "saga" THEN "reserve" ELSE "unclaim"
  <2>0. In(r, "release") /\ Kind[r] # "line" /\ UNCHANGED <<paid, ledger, flow>>
        /\ req'[r].pc = next
    BY <1>8, <1>m DEF ReleaseOrder
  <2>1. CASE order' = Released(order, req[r].amt, intent)
    <3>1. req[r].amt \in Int
      BY <1>0 DEF Request
    <3>2. /\ order'.refundAmt = order.refundAmt - req[r].amt
          /\ order'.total = order.total /\ order'.perLine = order.perLine
      BY <1>0, <2>1, <3>1, ReleasedBooks
    <3>3. /\ order'.pay = "completed" /\ order'.refundedAt = (order.refundedAt /\ Kind[r] # "saga")
          /\ UNCHANGED <<order.refundID, order.owed>>
      BY <1>0, <2>1 DEF Released, ReleasedFull, ReleasedPartial, OrderRow
    <3> QED
      BY <2>0, <3>2, <3>3 DEF Returns
  <2>2. CASE "persist" \in Faults /\ UNCHANGED order
    BY <2>0, <2>2 DEF LetsGo, Same, Columns, In
  <2> QED
    BY <1>8, <2>1, <2>2 DEF ReleaseOrder
<1>9. CASE ReleaseLine(r)
  <2>0. In(r, "release") /\ Kind[r] = "line" /\ UNCHANGED <<paid, ledger, flow>> /\ In(r, "done")'
    BY <1>9, <1>m DEF ReleaseLine, In
  <2>1. req[r].amt \in Int
    BY <1>0 DEF Request
  <2>2. CASE order' = LineReleased(order, req[r].amt)
    <3>1. /\ order'.total = order.total + req[r].amt /\ order'.refundAmt = order.refundAmt - req[r].amt
          /\ order'.perLine = order.perLine - req[r].amt
          /\ UNCHANGED <<order.pay, order.refundedAt, order.refundID, order.owed>>
      BY <1>0, <2>1, <2>2 DEF LineReleased, OrderRow
    <3> QED
      BY <2>0, <3>1 DEF ReturnsLine
  <2>3. CASE UNCHANGED order
    <3>1. order.total \in Int /\ order.refundAmt \in Int /\ order.perLine \in Int
      BY <1>0 DEF OrderRow
    <3> QED
      BY <2>0, <2>3, <3>1 DEF ReturnsLine
  <2> QED
    BY <1>9, <2>2, <2>3 DEF ReleaseLine
<1>10. CASE Unclaim(r)
  BY <1>10, <1>m DEF Unclaim, StandsBy, Same, tables, Columns, RequestHolders, In
<1>11. CASE RequestCrash(r)
  BY <1>11, <1>m DEF RequestCrash, LetsGo, Same, tables, Columns
<1> QED
  BY <1>1, <1>2, <1>3, <1>4, <1>5, <1>6, <1>7, <1>8, <1>9, <1>10, <1>11 DEF RequestMoves, RequestStep
---------------------------------------------------------------------------
(* And what everybody else's step writes: an issue's credit, the deferred  *)
(* refund, a cancellation's execution, and the reconcilers.                *)
Grants(i) ==
  /\ issue[i].st = "pending" /\ issue'[i].st = "resolved"
  /\ \A j \in Issues \ {i} : issue'[j] = issue[j]
  /\ CreditOf(i) > 0 /\ CreditOf(i) <= Remaining(order) /\ issue'[i].credit = CreditOf(i)
  /\ paid' = Credited(WalletKey("issue", i), CreditOf(i))
  /\ order'.refundAmt = order.refundAmt + CreditOf(i)
  /\ order'.refundedAt = (order.refundedAt \/ CreditOf(i) >= Remaining(order))
  /\ UNCHANGED <<order.pay, order.total, order.perLine, order.refundID, order.owed, ledger, flow>>
Discusses ==
  /\ UNCHANGED <<Columns, paid, ledger, flow>>
  /\ \A i \in Issues : issue[i].st = "resolved" => issue'[i].st = "resolved"

LEMMA IssueEffects ==
  ASSUME TypeOK, NEW i \in Issues, ReportIssue(i) \/ ResolveIssue(i) \/ RejectIssue(i)
  PROVE  Grants(i) \/ Discusses
<1>0. order \in OrderRow /\ issue \in [Issues -> Issue] /\ issue[i] \in Issue
  BY DEF TypeOK, CommandTypeOK
<1>1. CASE ReportIssue(i)
  BY <1>0, <1>1 DEF ReportIssue, Discusses, Columns, tables, Issue
<1>2. CASE RejectIssue(i)
  BY <1>0, <1>2 DEF RejectIssue, Discusses, Columns, tables, Issue
<1>3. CASE ResolveIssue(i)
  <2> DEFINE credit == CreditOf(i)
             full   == credit >= Remaining(order)
  <2>1. credit \in Int /\ credit > 0 /\ credit <= Remaining(order)
    BY <1>0, <1>3, CreditBounds DEF ResolveIssue
  <2> HIDE DEF credit, full
  <2>2. /\ issue[i].st = "pending" /\ UNCHANGED <<ledger, flow>>
        /\ issue' = [issue EXCEPT ![i].st = "resolved", ![i].credit = credit]
        /\ paid' = Credited(WalletKey("issue", i), credit)
        /\ order' = [order EXCEPT !.refundAmt = @ + credit, !.refundedAt = @ \/ full]
    BY <1>3 DEF ResolveIssue, credit, full
  <2>3. /\ issue'[i].st = "resolved" /\ issue'[i].credit = credit
        /\ \A j \in Issues \ {i} : issue'[j] = issue[j]
    BY <1>0, <2>2 DEF Issue
  <2>4. /\ order'.refundAmt = order.refundAmt + credit
        /\ order'.refundedAt = (order.refundedAt \/ full)
        /\ UNCHANGED <<order.pay, order.total, order.perLine, order.refundID, order.owed>>
    BY <1>0, <2>2 DEF OrderRow
  <2> QED
    BY <2>1, <2>2, <2>3, <2>4 DEF Grants, credit, full
<1> QED
  BY <1>1, <1>2, <1>3

Retries ==
  /\ order.refundID = "deferred" /\ order.owed > 0
  /\ \E answer \in {"ok", "error"} :
       /\ GatewayCall(FullKey, order.owed, answer)
       /\ order'.refundID = IF answer = "ok" THEN "settled" ELSE order.refundID
  /\ UNCHANGED <<order.pay, order.refundedAt, order.refundAmt, order.total, order.perLine,
                 order.owed, ledger, flow, issue>>
Flows ==
  /\ flow = "running"
  /\ \E answer \in {"ok", "error"} :
       /\ GatewayCall(FullKey, order.owed, answer)
       /\ flow' = IF answer = "ok" THEN "persist" ELSE flow
  /\ UNCHANGED <<Columns, ledger, issue>>
FlowEnds ==
  /\ flow = "persist" /\ flow' = "done"
  /\ order'.refundID \in {order.refundID, "settled"}
  /\ UNCHANGED <<order.pay, order.refundedAt, order.refundAmt, order.total, order.perLine,
                 order.owed, paid, ledger, issue>>

LEMMA DeferredEffects ==
  ASSUME TypeOK, RetryDeferred \/ FlowPay \/ FlowPersist
  PROVE  Retries \/ Flows \/ FlowEnds
<1>0. order \in OrderRow
  BY DEF TypeOK, CommandTypeOK
<1>1. CASE RetryDeferred
  <2>1. PICK answer \in {"ok", "error"} :
          /\ GatewayCall(FullKey, order.owed, answer)
          /\ order' = IF answer = "ok" THEN [order EXCEPT !.refundID = "settled"] ELSE order
    BY <1>1 DEF RetryDeferred
  <2>2. /\ order'.refundID = IF answer = "ok" THEN "settled" ELSE order.refundID
        /\ UNCHANGED <<order.pay, order.refundedAt, order.refundAmt, order.total, order.perLine,
                       order.owed>>
    BY <1>0, <2>1 DEF OrderRow
  <2> QED
    BY <1>1, <2>1, <2>2 DEF RetryDeferred, Retries, handlerVars
<1>2. CASE FlowPay
  BY <1>2 DEF FlowPay, Flows, Columns
<1>3. CASE FlowPersist
  <2>1. /\ order'.refundID \in {order.refundID, "settled"}
        /\ UNCHANGED <<order.pay, order.refundedAt, order.refundAmt, order.total, order.perLine,
                       order.owed>>
    BY <1>0, <1>3 DEF FlowPersist, OrderRow
  <2> QED
    BY <1>3, <2>1 DEF FlowPersist, FlowEnds
<1> QED
  BY <1>1, <1>2, <1>3

Settles(w) ==
  \E amount \in Int :
    /\ \/ amount = 0 /\ (job[w].owed = 0 \/ Claims(order)) /\ UNCHANGED <<paid, ledger>>
       \/ /\ amount = Cap(job[w].owed) /\ amount > 0 /\ Claims(order) /\ job[w].owed > 0
          /\ PayCancellation(w, "ok")
          /\ \A s \in Scopes : ledger'[s].status = "succeeded" =>
               ledger[s].status = "succeeded" \/ s = "full"
    /\ order'.pay = IF job[w].owed > 0 THEN "refunded" ELSE order.pay
    /\ order'.refundedAt /\ order'.refundAmt = order.refundAmt + amount
    /\ order'.refundID = IF amount > 0 /\ Destination = "original" THEN "settled" ELSE order.refundID
    /\ UNCHANGED <<order.total, order.perLine, order.owed>>
RollsBack(w) ==
  /\ Claims(order) /\ job[w].owed > 0 /\ Cap(job[w].owed) > 0
  /\ UNCHANGED <<Columns, ledger>>
  /\ UNCHANGED paid \/ (Destination = "original" /\ \E answer : PayCancellation(w, answer))
Adjusts ==
  /\ "admin" \in Workers /\ UNCHANGED <<Columns, ledger>>
  /\ \E delta \in Int : delta > 0 /\ WalletCredit(WalletKey("adjust", 0), delta, "ok")

LEMMA CancellationEffects ==
  ASSUME TypeOK, CancellationNext
  PROVE  \/ UNCHANGED <<Columns, paid, ledger>> \/ Adjusts
         \/ \E w \in Workers : Settles(w) \/ RollsBack(w)
<1>0. /\ order \in OrderRow /\ ledger \in [Scopes -> [status: LedgerStates, amount: Int]]
      /\ \A w \in Workers : job[w].owed \in Int
  BY DEF TypeOK, CommandTypeOK, Job
<1>1. ASSUME NEW w \in Workers, NEW amount \in Int, Settle(w, amount)
      PROVE  /\ order'.pay = IF job[w].owed > 0 THEN "refunded" ELSE order.pay
             /\ order'.refundedAt /\ order'.refundAmt = order.refundAmt + amount
             /\ order'.refundID = IF amount > 0 /\ Destination = "original" THEN "settled"
                                  ELSE order.refundID
             /\ UNCHANGED <<order.total, order.perLine, order.owed>>
             /\ amount = 0 => UNCHANGED ledger
             /\ \A s \in Scopes : ledger'[s].status = "succeeded" =>
                  ledger[s].status = "succeeded" \/ s = "full"
  <2>1. /\ order'.pay = IF job[w].owed > 0 THEN "refunded" ELSE order.pay
        /\ order'.refundedAt /\ order'.refundAmt = order.refundAmt + amount
        /\ order'.refundID = IF amount > 0 /\ Destination = "original" THEN "settled"
                             ELSE order.refundID
        /\ UNCHANGED <<order.total, order.perLine, order.owed>>
    <3> DEFINE pay == IF job[w].owed > 0 THEN "refunded" ELSE order.pay
               booked == order.refundAmt + amount
               id == IF amount > 0 /\ Destination = "original" THEN "settled" ELSE order.refundID
    <3>1. order' = [order EXCEPT !.pay = pay, !.status = "cancelled", !.refundedAt = TRUE,
                                 !.refundAmt = booked, !.refundID = id]
      BY <1>1 DEF Settle
    <3> HIDE DEF pay, booked, id
    <3>2. /\ order'.pay = pay /\ order'.refundedAt /\ order'.refundAmt = booked
          /\ order'.refundID = id /\ UNCHANGED <<order.total, order.perLine, order.owed>>
      BY <1>0, <3>1 DEF OrderRow
    <3> QED
      BY <3>2 DEF pay, booked, id
  <2>2. amount = 0 => UNCHANGED ledger
    BY <1>1 DEF Settle
  <2>3. \A s \in Scopes : ledger'[s].status = "succeeded" =>
          ledger[s].status = "succeeded" \/ s = "full"
    BY <1>0, <1>1 DEF Settle
  <2> QED
    BY <2>1, <2>2, <2>3
<1>2. ASSUME NEW w \in Workers, Execute(w)
      PROVE  UNCHANGED <<Columns, paid, ledger>> \/ Settles(w) \/ RollsBack(w)
  <2>1. CASE ExecuteLost(w)
    BY <2>1 DEF ExecuteLost, tables, Columns
  <2>2. CASE ExecuteNothing(w)
    <3>1. Settle(w, 0) /\ UNCHANGED paid /\ (job[w].owed = 0 \/ Claims(order)) /\ 0 \in Int
      BY <2>2 DEF ExecuteNothing
    <3>2. UNCHANGED ledger
      BY <1>1, <3>1
    <3> QED
      BY <1>1, <3>1, <3>2 DEF Settles
  <2>3. CASE ExecutePaid(w)
    <3>1. /\ Settle(w, Cap(job[w].owed)) /\ PayCancellation(w, "ok") /\ Claims(order)
          /\ Cap(job[w].owed) > 0 /\ job[w].owed > 0
      BY <2>3 DEF ExecutePaid
    <3>2. Cap(job[w].owed) \in Int
      BY <1>0, CapBounds
    <3> QED
      BY <1>1, <3>1, <3>2 DEF Settles
  <2>4. CASE ExecuteRolledBack(w)
    <3>1. Destination = "wallet" => UNCHANGED paid
      BY <2>4 DEF ExecuteRolledBack, PayCancellation, WalletCredit
    <3>2. UNCHANGED paid \/ \E answer : PayCancellation(w, answer)
      BY <2>4 DEF ExecuteRolledBack
    <3> QED
      BY <2>4, <3>1, <3>2, DestinationAssumption DEF ExecuteRolledBack, RollsBack, Columns
  <2> QED
    BY <1>2, <2>1, <2>2, <2>3, <2>4 DEF Execute
<1>3. ASSUME NEW w \in Workers, WorkerCrash(w) PROVE UNCHANGED <<Columns, paid, ledger>>
  BY <1>3 DEF WorkerCrash, tables, Columns
<1>4. CASE AdminAdjust
  <2> DEFINE ruling(tier) == Min({tier, Max({0, Remaining(order)}) + cr.owed})
             delta(tier)  == ruling(tier) - cr.owed
  <2>1. PICK tier \in Tiers :
          IF delta(tier) > 0
          THEN \E answer \in {"ok", "error"} : WalletCredit(WalletKey("adjust", 0), delta(tier), answer)
          ELSE UNCHANGED paid
    BY <1>4 DEF AdminAdjust
  <2>2. "admin" \in Workers /\ UNCHANGED <<order, ledger>>
    BY <1>4 DEF AdminAdjust, Working
  <2>3. delta(tier) \in Int
    <3>1. Remaining(order) \in Int /\ cr.owed \in Int /\ tier \in Int
      BY <1>0, TierAssumption DEF Remaining, OrderRow, TypeOK, CancelRow
    <3>2. Max({0, Remaining(order)}) \in Int
      BY <3>1, MaxOfTwo
    <3>3. Max({0, Remaining(order)}) + cr.owed \in Int
      BY <3>1, <3>2
    <3>4. ruling(tier) \in Int
      BY <3>1, <3>3, MinOfTwo
    <3> QED
      BY <3>1, <3>4
  <2>4. CASE delta(tier) > 0
    <3>1. UNCHANGED paid \/ WalletCredit(WalletKey("adjust", 0), delta(tier), "ok")
      BY <2>1, <2>4 DEF WalletCredit
    <3> QED
      BY <2>2, <2>3, <2>4, <3>1 DEF Adjusts, Columns
  <2>5. CASE ~(delta(tier) > 0)
    BY <2>1, <2>2, <2>5 DEF Columns
  <2> QED
    BY <2>4, <2>5
<1>5. CASE RequestCancellation \/ VendorDecide \/ VendorSave \/ VendorTimeout \/ Dispute
           \/ AdminReview \/ AdminResolve \/ SweepOwed
  BY <1>5 DEF RequestCancellation, VendorDecide, VendorSave, VendorTimeout, Dispute,
    AdminReview, AdminResolve, SweepOwed, tables, Columns
<1> QED
  BY <1>2, <1>3, <1>4, <1>5 DEF CancellationNext

(* The sweeps keep the sentinel and the books.                             *)
Recovers ==
  /\ order'.refundID = RecoveredID(order)
  /\ UNCHANGED <<order.refundAmt, order.total, order.perLine, order.owed, paid, ledger>>
FinishesStuck ==
  /\ Recovers /\ LiveHolders = {} /\ order.pay = "refunded" /\ ~order.refundedAt
  /\ IF Remaining(order) <= 0 THEN order'.refundedAt /\ order'.pay = "refunded"
     ELSE ~order'.refundedAt /\ order'.pay = "completed"
FinishesFull ==
  /\ Recovers /\ ~order.refundedAt /\ paid.gateway >= order.total + order.perLine
  /\ order'.refundedAt /\ order'.pay = "refunded"

LEMMA SweepEffects ==
  ASSUME TypeOK
  PROVE  /\ FinalizeStuckRefund => FinishesStuck
         /\ FinalizeGatewayFullRefund => FinishesFull
         /\ AcceptOrder \/ DeliverOrder => UNCHANGED <<Columns, paid, ledger>>
<1>0. order \in OrderRow
  BY DEF TypeOK, CommandTypeOK
<1>1. ASSUME FinalizeStuckRefund PROVE FinishesStuck
  <2>1. order' = StuckFinalized(order) /\ LiveHolders = {} /\ order.pay = "refunded" /\ ~order.refundedAt
        /\ UNCHANGED <<paid, ledger>>
    BY <1>1 DEF FinalizeStuckRefund, Stuck
  <2> QED
    BY <1>0, <2>1 DEF FinishesStuck, Recovers, StuckFinalized, OrderRow
<1>2. ASSUME FinalizeGatewayFullRefund PROVE FinishesFull
  <2>1. order' = GatewayFinalized(order) /\ ~order.refundedAt /\ UNCHANGED <<paid, ledger>>
        /\ paid.gateway >= order.total + order.perLine
    BY <1>2 DEF FinalizeGatewayFullRefund
  <2> QED
    BY <1>0, <2>1 DEF FinishesFull, Recovers, GatewayFinalized, OrderRow
<1>3. ASSUME AcceptOrder \/ DeliverOrder PROVE UNCHANGED <<Columns, paid, ledger>>
  BY <1>0, <1>3 DEF AcceptOrder, DeliverOrder, Columns, OrderRow
<1> QED
  BY <1>1, <1>2, <1>3
(* Every step is one of these, by a command, by a request, or by neither.  *)
CommandEffect(c) ==
  /\ Onward(c) /\ UNCHANGED <<req, issue, flow>>
  /\ \/ Aside(c) \/ Reserves(c) \/ CallsGateway(c) \/ Finalizes(c) \/ Abandons(c)
     \/ GivesBack(c) \/ Stamps(c)
RequestEffect(r) ==
  /\ OnwardReq(r) /\ Sound(r) /\ UNCHANGED <<cmd, issue>>
  /\ \/ StandsBy(r) \/ TakesClaim(r) \/ TakesLine(r) \/ Defers(r) \/ Pays(r) \/ Swaps(r)
     \/ Ends(r) \/ LetsGo(r) \/ Returns(r) \/ ReturnsLine(r)
OtherEffect ==
  /\ UNCHANGED <<cmd, req>>
  /\ \/ Discusses \/ (\E i \in Issues : Grants(i)) \/ Retries \/ Flows \/ FlowEnds
     \/ /\ UNCHANGED <<issue, flow>>
        /\ \/ \E w \in Workers : Settles(w) \/ RollsBack(w)
           \/ Adjusts \/ FinishesStuck \/ FinishesFull

LEMMA Effects ==
  ASSUME TypeOK, ExclusionInv, [Next]_vars
  PROVE  \/ \E c \in Commands : CommandEffect(c)
         \/ \E r \in Requests : RequestEffect(r)
         \/ OtherEffect
<1>0. Shape /\ HeldIsAmount
  BY DEF ExclusionInv
<1>1. CASE Coordinator
  <2>1. PICK c \in Commands : CommandMoves(c) /\ UNCHANGED <<handlerVars, cancelVars>>
    BY <1>1 DEF Coordinator, CommandMoves
  <2>2. Onward(c) /\ UNCHANGED <<req, issue, flow>>
    BY <1>0, <2>1, CommandClaims DEF handlerVars
  <2> QED
    BY <2>1, <2>2, CommandEffects DEF CommandEffect
<1>i. UNCHANGED <<Columns, paid, ledger, flow, issue>> => Discusses
  BY DEF Discusses
<1>2. CASE Handlers
  <2>0. UNCHANGED <<cmd, cancelVars>>
    BY <1>2 DEF Handlers
  <2>1. ASSUME NEW r \in Requests, RequestMoves(r) PROVE RequestEffect(r)
    <3>1. OnwardReq(r) /\ Sound(r)
      BY <1>0, <2>0, <2>1, RequestClaims, RequestAssumption
    <3>2. UNCHANGED issue
      BY <2>1 DEF RequestMoves, RequestStep, Submit, RequestCrash, ReserveOrder, ReserveLine,
        PersistCancel, Pay, SwapSentinel, Persist, ReleaseOrder, ReleaseLine, Unclaim
    <3> QED
      BY <1>0, <2>0, <2>1, <3>1, <3>2, RequestEffects DEF RequestEffect
  <2>2. ASSUME NEW i \in Issues, ReportIssue(i) \/ ResolveIssue(i) \/ RejectIssue(i)
        PROVE  OtherEffect
    <3>1. UNCHANGED req
      BY <2>2 DEF ReportIssue, ResolveIssue, RejectIssue
    <3> QED
      BY <2>0, <2>2, <3>1, IssueEffects DEF OtherEffect
  <2>3. CASE RetryDeferred \/ FlowPay \/ FlowPersist
    <3>1. UNCHANGED req
      BY <2>3 DEF RetryDeferred, FlowPay, FlowPersist, handlerVars
    <3> QED
      BY <2>0, <2>3, <3>1, DeferredEffects DEF OtherEffect
  <2> QED
    BY <1>2, <2>1, <2>2, <2>3 DEF Handlers, HandlersNext, RequestMoves
<1>3. CASE Cancellation
  <2>1. CancellationNext /\ UNCHANGED <<cmd, req, issue, flow>>
    BY <1>3 DEF Cancellation, handlerVars
  <2> QED
    BY <2>1, <1>i, CancellationEffects DEF OtherEffect
<1>4. CASE Kitchen \/ FinalizeStuckRefund \/ FinalizeGatewayFullRefund
  <2>1. UNCHANGED <<cmd, req, issue, flow>>
    BY <1>4 DEF Kitchen, FinalizeStuckRefund, FinalizeGatewayFullRefund, handlerVars
  <2> QED
    BY <1>4, <2>1, <1>i, SweepEffects DEF OtherEffect, Kitchen
<1>5. CASE UNCHANGED vars
  <2>1. UNCHANGED <<cmd, req, issue, flow, Columns, paid, ledger>>
    BY <1>5 DEF vars, tables, handlerVars, Columns
  <2> QED
    BY <2>1, <1>i DEF OtherEffect
<1> QED
  BY <1>1, <1>2, <1>3, <1>4, <1>5 DEF Next
---------------------------------------------------------------------------
(* The deferred sentinel.  A row is sealed when it is finished and nobody  *)
(* but a chef's cancel at the gateway holds it, and over when nobody does  *)
(* and nothing is deferred.                                                *)
Sealed ==
  /\ order.pay = "refunded" /\ order.refundedAt /\ CommandHolders = {}
  /\ \A r \in RequestHolders : Kind[r] = "chefcancel" /\ In(r, "pay")
Over ==
  /\ order.pay = "refunded" /\ order.refundedAt /\ LiveHolders = {}
  /\ order.refundID # "deferred"

(* A sentinel stands on a sealed row until the full refund is paid.        *)
SentinelSealed == order.refundID = "deferred" => FullPaid \/ Sealed
ChefStamped ==
  \A r \in RequestHolders : Kind[r] = "chefcancel" /\ req[r].pc \in {"cancel", "pay"} =>
    order.refundedAt

(* Whoever is about to drop the sentinel has paid, or finds none there.    *)
Earned ==
  /\ ledger["full"].status = "succeeded" => FullPaid \/ Over
  /\ \A c \in Commands : /\ At(c, "stamp") => FullPaid \/ Over
                         /\ At(c, "finalize") => KeyPaid(ScopeKey(Scope[c]))
  /\ \A r \in Requests : /\ In(r, "swap") => FullPaid
                         /\ In(r, "cancel") \/ In(r, "swap") => Kind[r] = "chefcancel"
  /\ flow = "persist" => FullPaid
SentinelInv == SentinelSealed /\ ChefStamped /\ Earned

KeysGrow == paid.keys \subseteq paid'.keys

(* A step that keeps the row, or drops a sentinel that was paid for.       *)
RowKept ==
  /\ order'.pay = order.pay /\ (order.refundedAt => order'.refundedAt)
  /\ order'.refundID = order.refundID \/
       (order'.refundID = "settled" /\ (order.refundID = "deferred" => FullPaid'))
  /\ CommandHolders' \subseteq CommandHolders /\ RequestHolders' \subseteq RequestHolders
  /\ \A r \in RequestHolders' : Kind[r] = "chefcancel" =>
       /\ In(r, "pay") => In(r, "pay")'
       /\ req'[r].pc \in {"cancel", "pay"} => req[r].pc \in {"cancel", "pay"}

LEMMA KeptSentinel ==
  ASSUME SentinelInv, KeysGrow, RowKept
  PROVE  SentinelSealed' /\ ChefStamped' /\ (Over => Over')
<1>1. FullPaid => FullPaid'
  BY DEF KeysGrow, FullPaid, KeyPaid
<1>2. Sealed => Sealed'
  BY DEF RowKept, Sealed, LiveHolders
<1>3. SentinelSealed'
  BY <1>1, <1>2 DEF SentinelInv, SentinelSealed, RowKept
<1>4. ChefStamped'
  BY DEF SentinelInv, ChefStamped, RowKept
<1>5. Over => Over'
  BY DEF Over, RowKept, LiveHolders
<1> QED
  BY <1>3, <1>4, <1>5

(* A step on a row that is not sealed, and leaves no sentinel behind.      *)
LEMMA OpenSentinel ==
  ASSUME SentinelInv, KeysGrow, ~Sealed, order'.refundID = "deferred" => order.refundID = "deferred"
  PROVE  SentinelSealed' /\ ~Over
<1>1. FullPaid => FullPaid'
  BY DEF KeysGrow, FullPaid, KeyPaid
<1>2. Over => Sealed
  BY DEF Over, Sealed, LiveHolders
<1> QED
  BY <1>1, <1>2 DEF SentinelInv, SentinelSealed

(* No command touches a sentinel that was not paid for.                    *)
LEMMA CommandKeepsSentinel ==
  ASSUME TypeOK, ExclusionInv, SentinelInv, NEW c \in Commands, CommandEffect(c)
  PROVE  SentinelInv' /\ KeysGrow
<1>0. /\ Onward(c) /\ UNCHANGED <<req, issue, flow>> /\ Exclusive /\ RequestHolders' = RequestHolders
      /\ Wrapped(c) => Scope[c] = "full"
      /\ Scope[c] \in Scopes /\ "full" \in Scopes
  BY CommandAssumption, ScopeAssumption DEF CommandEffect, ExclusionInv, RequestHolders, Wrapped
<1>h. /\ c \in CommandHolders <=> cmd[c].pc \in ClaimPhases
      /\ CommandHolders' \subseteq CommandHolders \cup {c}
      /\ cmd'[c].pc \notin ClaimPhases \/ c \in CommandHolders => CommandHolders' \subseteq CommandHolders
  BY <1>0 DEF CommandHolders, Onward
<1>k. KeysGrow
  <2>1. paid' = paid \/ \E answer : GatewayCall(ScopeKey(Scope[c]), cmd[c].amt, answer)
    BY DEF CommandEffect, Aside, Reserves, CallsGateway, Finalizes, Abandons, GivesBack, Stamps
  <2> QED
    BY <2>1, KeysStay DEF TypeOK, KeysGrow
<1>f. \A key : KeyPaid(key) => KeyPaid(key)'
  BY <1>k DEF KeysGrow, KeyPaid
<1>e. ASSUME /\ ledger'["full"].status = "succeeded" => ledger["full"].status = "succeeded" \/ FullPaid
             /\ At(c, "stamp")' => FullPaid \/ Over
             /\ At(c, "finalize")' => KeyPaid(ScopeKey(Scope[c]))'
             /\ Over => Over'
      PROVE  Earned'
  <2>1. \A d \in Commands \ {c} : /\ At(d, "stamp")' => FullPaid \/ Over
                                  /\ At(d, "finalize")' => KeyPaid(ScopeKey(Scope[d]))
    BY <1>0 DEF Onward, At, SentinelInv, Earned
  <2>2. \A r \in Requests : /\ In(r, "swap")' => FullPaid
                            /\ In(r, "cancel")' \/ In(r, "swap")' => Kind[r] = "chefcancel"
    BY <1>0 DEF In, SentinelInv, Earned
  <2>3. /\ ledger["full"].status = "succeeded" => FullPaid \/ Over
        /\ flow' = "persist" => FullPaid
    BY <1>0 DEF SentinelInv, Earned
  <2>4. FullPaid => FullPaid'
    BY <1>f DEF FullPaid
  <2> QED
    BY <1>e, <1>f, <2>1, <2>2, <2>3, <2>4 DEF Earned
<1> USE DEF ClaimPhases
<1>q. ASSUME RowKept, NoNewSuccess \/ UNCHANGED ledger,
             At(c, "stamp")' => FullPaid \/ Over, At(c, "finalize")' => KeyPaid(ScopeKey(Scope[c]))'
      PROVE  SentinelInv'
  <2>1. SentinelSealed' /\ ChefStamped' /\ (Over => Over')
    BY <1>k, <1>q, KeptSentinel
  <2>2. ledger'["full"].status = "succeeded" => ledger["full"].status = "succeeded"
    BY <1>0, <1>q DEF NoNewSuccess
  <2> QED
    BY <1>e, <1>q, <2>1, <2>2 DEF SentinelInv
<1>o. ASSUME ~Sealed, order'.refundID = order.refundID, RequestHolders = {},
             ledger'["full"].status = "succeeded" => ledger["full"].status = "succeeded" \/ FullPaid,
             At(c, "stamp")' => FullPaid, ~At(c, "finalize")'
      PROVE  SentinelInv'
  <2>1. SentinelSealed' /\ ~Over
    BY <1>k, <1>o, OpenSentinel
  <2>2. ChefStamped'
    BY <1>0, <1>o DEF ChefStamped
  <2> QED
    BY <1>e, <1>o, <2>1, <2>2 DEF SentinelInv
<1>r. ASSUME UNCHANGED <<order.pay, order.refundedAt>>, CommandHolders' \subseteq CommandHolders,
             order'.refundID = order.refundID \/
               (order'.refundID = "settled" /\ (order.refundID = "deferred" => FullPaid'))
      PROVE  RowKept
  BY <1>0, <1>r DEF RowKept, In
<1>1. CASE Aside(c)
  <2>1. RowKept
    BY <1>h, <1>r, <1>1 DEF Aside, Columns
  <2>2. At(c, "stamp")' => FullPaid \/ Over
    BY <1>0, <1>1 DEF Aside, SentinelInv, Earned
  <2> QED
    BY <1>k, <1>q, <1>1, <2>1, <2>2 DEF Aside, At
<1>2. CASE Reserves(c)
  <2>1. LiveHolders = {} /\ ~Sealed
    BY <1>0, <1>2 DEF Reserves, Exclusive, Sealed
  <2>2. ledger'["full"].status = "succeeded" => ledger["full"].status = "succeeded"
    BY <1>0, <1>2 DEF Reserves, NoNewSuccess
  <2> QED
    BY <1>k, <1>o, <1>2, <2>1, <2>2 DEF Reserves, LiveHolders, At
<1>3. CASE CallsGateway(c)
  <2>1. RowKept
    BY <1>h, <1>r, <1>3 DEF CallsGateway, Columns, At
  <2>2. At(c, "finalize")' => KeyPaid(ScopeKey(Scope[c]))'
    BY <1>3, KeysStay DEF CallsGateway, TypeOK, At
  <2>3. ~At(c, "stamp")'
    BY <1>3 DEF CallsGateway, At
  <2> QED
    BY <1>k, <1>q, <1>3, <2>1, <2>2, <2>3 DEF CallsGateway
<1>4. CASE Finalizes(c)
  <2>1. c \in CommandHolders
    BY <1>h, <1>4 DEF Finalizes, At
  <2>2. ~Sealed /\ RequestHolders = {} /\ UNCHANGED order.refundID
    BY <1>0, <1>4, <2>1 DEF Sealed, Exclusive, Finalizes, BookColumns
  <2>3. Scope[c] = "full" => FullPaid
    BY <1>4 DEF Finalizes, SentinelInv, Earned, FullPaid, FullKey
  <2>4. ledger'["full"].status = "succeeded" => ledger["full"].status = "succeeded" \/ FullPaid
    BY <1>0, <1>4, <2>3 DEF Finalizes
  <2>5. (At(c, "stamp")' => FullPaid) /\ ~At(c, "finalize")'
    BY <1>0, <1>4, <2>3 DEF Finalizes, At
  <2> QED
    BY <1>k, <1>o, <2>2, <2>4, <2>5
<1>5. CASE Abandons(c)
  <2>1. cmd'[c].pc \in {"done", "dead", "markfailed"}
    BY <1>5 DEF Abandons, At
  <2>2. RowKept
    BY <1>h, <1>r, <1>5, <2>1 DEF Abandons, Columns
  <2> QED
    BY <1>k, <1>q, <1>5, <2>1, <2>2 DEF Abandons, At
<1>6. CASE GivesBack(c)
  <2>1. c \in CommandHolders
    BY <1>h, <1>6 DEF GivesBack, At
  <2>2. ~Sealed /\ RequestHolders = {}
    BY <1>0, <2>1 DEF Sealed, Exclusive
  <2> QED
    BY <1>k, <1>o, <1>6, <2>2 DEF GivesBack, At
<1>7. CASE Stamps(c)
  <2>1. FullPaid \/ Over
    BY <1>7 DEF Stamps, SentinelInv, Earned
  <2>2. order.refundID = "deferred" => FullPaid'
    BY <1>f, <2>1 DEF Over, FullPaid
  <2>3. RowKept
    BY <1>h, <1>r, <1>7, <2>2 DEF Stamps
  <2> QED
    BY <1>k, <1>q, <1>7, <2>3 DEF Stamps, At
<1> QED
  BY <1>k, <1>1, <1>2, <1>3, <1>4, <1>5, <1>6, <1>7 DEF CommandEffect
(* The wallet, too, keeps every key it has seen.                           *)
LEMMA CreditKeys ==
  ASSUME CommandTypeOK, NEW key, NEW amount
  PROVE  /\ paid' = Credited(key, amount) => KeysGrow /\ KeyPaid(key)'
         /\ \A answer : WalletCredit(key, amount, answer) =>
              KeysGrow /\ (answer = "ok" => KeyPaid(key)')
<1>1. paid.keys \subseteq Credited(key, amount).keys /\ key \in Credited(key, amount).keys
  BY DEF Credited, KeyPaid, CommandTypeOK
<1> QED
  BY <1>1 DEF WalletCredit, KeysGrow, KeyPaid

(* Nor does a request: a chef's cancel leaves one on a sealed row, and     *)
(* drops it when it has paid.                                              *)
LEMMA RequestKeepsSentinel ==
  ASSUME TypeOK, ExclusionInv, SentinelInv, NEW r \in Requests, RequestEffect(r)
  PROVE  SentinelInv' /\ KeysGrow
<1>0. /\ OnwardReq(r) /\ UNCHANGED <<cmd, issue>> /\ Exclusive /\ CommandHolders' = CommandHolders
      /\ HeldIsAmount /\ Kind[r] \in Kinds /\ CommandTypeOK
  BY RequestAssumption DEF RequestEffect, ExclusionInv, CommandHolders, TypeOK
<1>h. /\ r \in RequestHolders <=> Kind[r] # "line" /\ req[r].amt > 0 /\ req[r].pc \in ClaimingPhases
      /\ RequestHolders' \subseteq RequestHolders \cup {r}
      /\ \A s \in RequestHolders' : s # r => s \in RequestHolders /\ req'[s] = req[s]
      /\ r \in RequestHolders' <=> Kind[r] # "line" /\ req'[r].amt > 0 /\ req'[r].pc \in ClaimingPhases
  BY <1>0 DEF RequestHolders, OnwardReq, ClaimingPhases
<1>a. Kind[r] # "line" /\ req[r].pc \in Paying => r \in RequestHolders
  BY <1>0, <1>h DEF HeldIsAmount, Paying, ClaimingPhases
<1>m. ASSUME NEW answer, Move(r, answer)
      PROVE  /\ KeysGrow
             /\ Kind[r] = "chefcancel" /\ answer = "ok" => FullPaid'
  <2>1. CASE Kind[r] \in {"refund", "goodwill"}
    BY <1>0, <1>m, <2>1, KeysStay DEF Move, KeysGrow
  <2>2. CASE Kind[r] = "chefcancel"
    BY <1>0, <1>m, <2>2, KeysStay DEF Move, KeysGrow, FullPaid
  <2>3. CASE Kind[r] = "line"
    BY <1>0, <1>m, <2>3, KeysStay DEF Move, KeysGrow
  <2>4. CASE Kind[r] = "wallet"
    BY <1>0, <1>m, <2>4, CreditKeys DEF Move
  <2>5. CASE Kind[r] = "saga"
    BY <1>0, <1>m, <2>5, CreditKeys DEF Move
  <2> QED
    BY <1>0, <2>1, <2>2, <2>3, <2>4, <2>5 DEF Kinds
<1>k. KeysGrow
  <2>1. paid' = paid \/ \E answer : Move(r, answer)
    BY DEF RequestEffect, StandsBy, Same, TakesClaim, TakesLine, Defers, Pays, Swaps, Ends,
           LetsGo, Returns, ReturnsLine
  <2> QED
    BY <1>m, <2>1 DEF KeysGrow
<1>f. FullPaid => FullPaid'
  BY <1>k DEF KeysGrow, KeyPaid, FullPaid
<1>e. ASSUME UNCHANGED ledger, Over => FullPaid' \/ Over', flow' = "persist" => flow = "persist",
             In(r, "swap")' => FullPaid', In(r, "swap")' \/ In(r, "cancel")' => Kind[r] = "chefcancel"
      PROVE  Earned'
  <2>1. \A d \in Commands : /\ At(d, "stamp")' => FullPaid \/ Over
                            /\ At(d, "finalize")' => KeyPaid(ScopeKey(Scope[d]))'
    BY <1>0, <1>k DEF At, SentinelInv, Earned, KeysGrow, KeyPaid
  <2>2. \A s \in Requests \ {r} : /\ In(s, "swap")' => FullPaid
                                  /\ In(s, "cancel")' \/ In(s, "swap")' => Kind[s] = "chefcancel"
    BY <1>0 DEF In, SentinelInv, Earned, OnwardReq
  <2>3. /\ ledger'["full"].status = "succeeded" => FullPaid \/ Over
        /\ flow' = "persist" => FullPaid
    BY <1>e DEF SentinelInv, Earned
  <2> QED
    BY <1>e, <1>f, <2>1, <2>2, <2>3 DEF Earned
<1>q. ASSUME UNCHANGED <<order.pay, order.refundedAt, ledger>>,
             r \in RequestHolders' => /\ r \in RequestHolders
                                      /\ Kind[r] = "chefcancel" => In(r, "pay") /\ In(r, "pay")',
             order'.refundID = order.refundID \/
               (order'.refundID = "settled" /\ (order.refundID = "deferred" => FullPaid')),
             flow' = "persist" => flow = "persist",
             In(r, "swap")' => FullPaid', In(r, "swap")' \/ In(r, "cancel")' => Kind[r] = "chefcancel"
      PROVE  SentinelInv'
  <2>1. RowKept
    BY <1>0, <1>h, <1>q DEF RowKept, In
  <2>2. SentinelSealed' /\ ChefStamped' /\ (Over => Over')
    BY <1>k, <2>1, KeptSentinel
  <2> QED
    BY <1>e, <1>q, <2>2 DEF SentinelInv
<1>o. ASSUME ~Sealed, UNCHANGED ledger, order'.refundID = "deferred" => order.refundID = "deferred",
             RequestHolders' \subseteq {r},
             r \in RequestHolders' /\ Kind[r] = "chefcancel" => order'.refundedAt,
             UNCHANGED flow, ~In(r, "swap")', In(r, "cancel")' => Kind[r] = "chefcancel"
      PROVE  SentinelInv'
  <2>1. SentinelSealed' /\ ~Over
    BY <1>k, <1>o, OpenSentinel
  <2>2. ChefStamped'
    BY <1>o DEF ChefStamped
  <2> QED
    BY <1>e, <1>o, <2>1, <2>2 DEF SentinelInv
<1> USE DEF ClaimingPhases
<1>1. CASE StandsBy(r)
  <2>1. r \notin RequestHolders'
    BY <1>h, <1>1 DEF StandsBy
  <2> QED
    BY <1>k, <1>q, <1>1, <2>1 DEF StandsBy, Same, Columns, In
<1>2. CASE TakesClaim(r)
  <2>1. LiveHolders = {} /\ ~Sealed
    BY <1>0, <1>2 DEF TakesClaim, Exclusive, Sealed
  <2>2. RequestHolders' \subseteq {r}
    BY <1>h, <2>1 DEF LiveHolders
  <2>3. Kind[r] = "chefcancel" => order'.refundedAt
    BY <1>2 DEF TakesClaim, IntentFor
  <2>4. ~In(r, "swap")' /\ (In(r, "cancel")' => Kind[r] = "chefcancel")
    BY <1>2 DEF TakesClaim, In
  <2> QED
    BY <1>k, <1>o, <1>2, <2>1, <2>2, <2>3, <2>4 DEF TakesClaim
<1>3. CASE TakesLine(r)
  <2>1. r \notin RequestHolders'
    BY <1>h, <1>3 DEF TakesLine
  <2> QED
    BY <1>k, <1>q, <1>3, <2>1 DEF TakesLine, In
<1>4. CASE Defers(r)
  <2>1. Kind[r] = "chefcancel" /\ r \in RequestHolders
    BY <1>h, <1>4 DEF Defers, SentinelInv, Earned, In
  <2>2. order.refundedAt /\ order.pay = "refunded" /\ CommandHolders = {} /\ RequestHolders = {r}
    BY <1>0, <1>4, <2>1 DEF SentinelInv, ChefStamped, Exclusive, LiveHolders, Defers, In
  <2>3. Sealed' /\ ~Over
    BY <1>0, <1>4, <1>h, <2>1, <2>2 DEF Sealed, Over, LiveHolders, Defers
  <2>4. SentinelSealed' /\ ChefStamped'
    BY <1>4, <2>2, <2>3 DEF SentinelSealed, ChefStamped, Defers
  <2>5. Earned'
    BY <1>e, <1>4, <2>1, <2>3 DEF Defers, In
  <2> QED
    BY <1>k, <2>4, <2>5 DEF SentinelInv
<1>5. CASE Pays(r)
  <2>1. PICK answer \in {"ok", "error"} :
          /\ Move(r, answer) /\ req'[r].pc = AfterPay(r, answer)
          /\ flow' = IF Kind[r] = "chefcancel" /\ answer = "error" /\ flow = "none"
                     THEN "running" ELSE flow
    BY <1>5 DEF Pays
  <2>2. UNCHANGED <<order.pay, order.refundedAt, order.refundID, ledger>> /\ In(r, "pay")
        /\ req'[r].amt = req[r].amt
    BY <1>5 DEF Pays, Columns, Amounts
  <2>3. CASE Kind[r] # "chefcancel"
    <3>1. req'[r].pc \in {"persist", "release", "done"} /\ UNCHANGED flow
      BY <2>1, <2>3 DEF AfterPay
    <3>2. r \in RequestHolders' => r \in RequestHolders
      BY <1>a, <1>h, <2>2 DEF In, Paying
    <3> QED
      BY <1>k, <1>q, <2>2, <2>3, <3>1, <3>2 DEF In
  <2>4. CASE Kind[r] = "chefcancel" /\ answer = "error"
    <3>1. req'[r].pc = "done" /\ (flow' = "persist" => flow = "persist")
      BY <2>1, <2>4 DEF AfterPay
    <3>2. r \notin RequestHolders'
      BY <1>h, <3>1
    <3> QED
      BY <1>k, <1>q, <2>2, <3>1, <3>2 DEF In
  <2>5. CASE Kind[r] = "chefcancel" /\ answer = "ok"
    <3>1. FullPaid' /\ req'[r].pc = "swap" /\ UNCHANGED flow
      BY <1>m, <2>1, <2>5 DEF AfterPay
    <3>2. r \in RequestHolders
      BY <1>a, <2>2, <2>5 DEF In, Paying
    <3>3. RequestHolders = {r} /\ ~Over
      BY <1>0, <3>2 DEF Exclusive, Over, LiveHolders
    <3>4. SentinelSealed' /\ ChefStamped'
      BY <1>h, <3>1, <3>3 DEF SentinelSealed, ChefStamped
    <3>5. Earned'
      BY <1>e, <2>2, <2>5, <3>1, <3>3 DEF In
    <3> QED
      BY <1>k, <3>4, <3>5 DEF SentinelInv
  <2> QED
    BY <2>3, <2>4, <2>5
<1>6. CASE Swaps(r)
  <2>1. FullPaid /\ r \notin RequestHolders'
    BY <1>h, <1>6 DEF Swaps, SentinelInv, Earned, In
  <2> QED
    BY <1>f, <1>k, <1>q, <1>6, <2>1 DEF Swaps, In
<1>7. CASE Ends(r)
  <2>1. Kind[r] # "line"
    BY <1>0, <1>7 DEF Ends, HeldIsAmount, In, Keyed
  <2>2. r \in RequestHolders /\ r \notin RequestHolders'
    BY <1>a, <1>h, <1>7, <2>1 DEF Ends, In, Paying
  <2>3. ~Sealed /\ RequestHolders' \subseteq {r}
    BY <1>0, <1>7, <1>h, <2>2 DEF Sealed, Exclusive, Ends, In
  <2>4. order'.refundID = "deferred" => order.refundID = "deferred"
    BY <1>0, <1>7 DEF Ends, TypeOK, Request
  <2> QED
    BY <1>k, <1>o, <1>7, <2>2, <2>3, <2>4 DEF Ends, In
<1>8. CASE LetsGo(r)
  <2>1. req'[r].pc \in {"done", "reserve", "unclaim", "dead"}
    BY <1>8 DEF LetsGo
  <2>2. r \notin RequestHolders'
    BY <1>h, <2>1
  <2> QED
    BY <1>k, <1>q, <1>8, <2>1, <2>2 DEF LetsGo, Same, Columns, In
<1>9. CASE Returns(r)
  <2>1. r \in RequestHolders /\ r \notin RequestHolders'
    BY <1>a, <1>h, <1>9 DEF Returns, In, Paying
  <2>2. ~Sealed /\ RequestHolders' \subseteq {r}
    BY <1>0, <1>9, <1>h, <2>1 DEF Sealed, Exclusive, Returns, In
  <2> QED
    BY <1>k, <1>o, <1>9, <2>1, <2>2 DEF Returns, In
<1>10. CASE ReturnsLine(r)
  <2>1. r \notin RequestHolders'
    BY <1>h, <1>10 DEF ReturnsLine
  <2> QED
    BY <1>k, <1>q, <1>10, <2>1 DEF ReturnsLine, In
<1> QED
  BY <1>k, <1>1, <1>2, <1>3, <1>4, <1>5, <1>6, <1>7, <1>8, <1>9, <1>10 DEF RequestEffect
(* Nor does anybody else: the retry and the workflow drop it when they     *)
(* have paid, the sweeps keep it, and an executed cancellation finds the   *)
(* row open.                                                               *)
LEMMA OthersKeepSentinel ==
  ASSUME TypeOK, ExclusionInv, SentinelInv, OtherEffect
  PROVE  SentinelInv' /\ KeysGrow
<1>0. /\ UNCHANGED <<cmd, req>> /\ Exclusive /\ CommandTypeOK /\ "full" \in Scopes
      /\ CommandHolders' = CommandHolders /\ RequestHolders' = RequestHolders
      /\ LiveHolders' = LiveHolders
  BY ScopeAssumption DEF OtherEffect, ExclusionInv, CommandHolders, RequestHolders, TypeOK, LiveHolders
<1>c. ASSUME NEW w \in Workers, NEW answer, PayCancellation(w, answer) PROVE KeysGrow
  BY <1>0, <1>c, KeysStay, CreditKeys DEF PayCancellation, KeysGrow
<1>k. KeysGrow
  <2>1. \/ paid' = paid
        \/ \E key, amount : \/ paid' = Credited(key, amount)
                            \/ \E answer : \/ GatewayCall(key, amount, answer)
                                           \/ WalletCredit(key, amount, answer)
        \/ \E w \in Workers : \E answer : PayCancellation(w, answer)
    BY DEF OtherEffect, Grants, Discusses, Retries, Flows, FlowEnds, Settles, RollsBack, Adjusts,
           FinishesStuck, FinishesFull, Recovers
  <2> QED
    BY <1>0, <1>c, <2>1, KeysStay, CreditKeys DEF KeysGrow
<1>f. FullPaid => FullPaid'
  BY <1>k DEF KeysGrow, KeyPaid, FullPaid
<1>e. ASSUME ledger'["full"].status = "succeeded" =>
               ledger["full"].status = "succeeded" \/ FullPaid' \/ Over',
             Over => FullPaid' \/ Over', flow' = "persist" => flow = "persist" \/ FullPaid'
      PROVE  Earned'
  <2>1. \A d \in Commands : /\ At(d, "stamp")' => FullPaid \/ Over
                            /\ At(d, "finalize")' => KeyPaid(ScopeKey(Scope[d]))'
    BY <1>0, <1>k DEF At, SentinelInv, Earned, KeysGrow, KeyPaid
  <2>2. \A s \in Requests : /\ In(s, "swap")' => FullPaid
                            /\ In(s, "cancel")' \/ In(s, "swap")' => Kind[s] = "chefcancel"
    BY <1>0 DEF In, SentinelInv, Earned
  <2>3. /\ ledger["full"].status = "succeeded" => FullPaid \/ Over
        /\ flow = "persist" => FullPaid
    BY DEF SentinelInv, Earned
  <2> QED
    BY <1>e, <1>f, <2>1, <2>2, <2>3 DEF Earned
<1>q. ASSUME order'.pay = order.pay, order.refundedAt => order'.refundedAt, UNCHANGED ledger,
             order'.refundID = order.refundID \/
               (order'.refundID = "settled" /\ (order.refundID = "deferred" => FullPaid')),
             flow' = "persist" => flow = "persist" \/ FullPaid'
      PROVE  SentinelInv'
  <2>1. RowKept
    BY <1>0, <1>q DEF RowKept, In
  <2>2. SentinelSealed' /\ ChefStamped' /\ (Over => Over')
    BY <1>k, <2>1, KeptSentinel
  <2> QED
    BY <1>e, <1>q, <2>2 DEF SentinelInv
<1>o. ASSUME ~Sealed, order'.refundID = "deferred" => order.refundID = "deferred", UNCHANGED flow,
             RequestHolders = {} \/ order'.refundedAt,
             ledger'["full"].status = "succeeded" =>
               ledger["full"].status = "succeeded" \/ FullPaid' \/ Over'
      PROVE  SentinelInv'
  <2>1. SentinelSealed' /\ ~Over
    BY <1>k, <1>o, OpenSentinel
  <2>2. ChefStamped'
    BY <1>0, <1>o DEF ChefStamped
  <2> QED
    BY <1>e, <1>o, <2>1, <2>2 DEF SentinelInv
<1>1. ASSUME NEW i \in Issues, Grants(i) PROVE SentinelInv'
  BY <1>1, <1>q DEF Grants
<1>2. CASE Discusses
  BY <1>k, <1>2, <1>q DEF Discusses, Columns
<1>9. CASE Adjusts /\ UNCHANGED flow
  BY <1>k, <1>9, <1>q DEF Adjusts, Columns
<1>3. CASE Retries
  <2>1. order'.refundID = order.refundID \/ (order'.refundID = "settled" /\ FullPaid')
    BY <1>0, <1>3, KeysStay DEF Retries, FullPaid
  <2> QED
    BY <1>k, <1>3, <1>q, <2>1 DEF Retries
<1>4. CASE Flows
  <2>1. flow' = "persist" => FullPaid'
    BY <1>0, <1>4, KeysStay DEF Flows, FullPaid
  <2> QED
    BY <1>k, <1>4, <1>q, <2>1 DEF Flows, Columns
<1>5. CASE FlowEnds
  <2>1. FullPaid'
    BY <1>5, <1>f DEF FlowEnds, SentinelInv, Earned
  <2> QED
    BY <1>k, <1>5, <1>q, <2>1 DEF FlowEnds
<1>6. ASSUME NEW w \in Workers, Settles(w), UNCHANGED flow PROVE SentinelInv'
  <2>1. PICK amount \in Int :
    /\ \/ amount = 0 /\ (job[w].owed = 0 \/ Claims(order)) /\ UNCHANGED <<paid, ledger>>
       \/ /\ amount > 0 /\ Claims(order) /\ job[w].owed > 0
          /\ \A s \in Scopes : ledger'[s].status = "succeeded" =>
               ledger[s].status = "succeeded" \/ s = "full"
    /\ order'.pay = IF job[w].owed > 0 THEN "refunded" ELSE order.pay
    /\ order'.refundedAt
    /\ order'.refundID = IF amount > 0 /\ Destination = "original" THEN "settled" ELSE order.refundID
    BY <1>6 DEF Settles
  <2>2. CASE Claims(order)
    <3>1. LiveHolders = {} /\ ~Sealed
      BY <1>0, <2>2 DEF Claims, Exclusive, Sealed
    <3>2. order'.refundID = "deferred" => order.refundID = "deferred" /\ FullPaid
      BY <2>1, <3>1 DEF SentinelInv, SentinelSealed
    <3>3. UNCHANGED ledger \/ FullPaid' \/ Over'
      BY <1>0, <1>f, <2>1, <3>1, <3>2 DEF Over
    <3> QED
      BY <1>6, <1>o, <2>1, <3>1, <3>2, <3>3
  <2>3. CASE ~Claims(order)
    <3>1. amount = 0 /\ job[w].owed = 0 /\ UNCHANGED ledger
      BY <2>1, <2>3
    <3>2. order'.pay = order.pay /\ order'.refundID = order.refundID
      BY <2>1, <3>1
    <3> QED
      BY <1>6, <1>q, <2>1, <3>1, <3>2
  <2> QED
    BY <2>2, <2>3
<1>7. ASSUME NEW w \in Workers, RollsBack(w), UNCHANGED flow PROVE SentinelInv'
  BY <1>7, <1>q DEF RollsBack, Columns
<1>8. CASE (FinishesStuck \/ FinishesFull) /\ UNCHANGED flow
  <2>1. ~Sealed /\ UNCHANGED ledger /\ (order'.refundID = "deferred" => order.refundID = "deferred")
    BY <1>8 DEF FinishesStuck, FinishesFull, Recovers, RecoveredID, Sealed
  <2>2. RequestHolders = {} \/ order'.refundedAt
    BY <1>8 DEF FinishesStuck, FinishesFull, LiveHolders
  <2> QED
    BY <1>k, <1>8, <1>o, <2>1, <2>2
<1> QED
  BY <1>k, <1>1, <1>2, <1>3, <1>4, <1>5, <1>6, <1>7, <1>8, <1>9 DEF OtherEffect

SafeSentinel == TypeOK /\ ExclusionInv /\ SentinelInv

LEMMA SentinelStart == Init => SentinelInv
<1> SUFFICES ASSUME Init PROVE SentinelInv
  OBVIOUS
<1>1. RequestHolders = {} /\ order.refundID = "none" /\ flow = "none"
  BY DEF Init, MoneyInit, HandlersInit, RequestHolders
<1>2. /\ ledger["full"].status = "none" /\ \A c \in Commands : cmd[c].pc = "idle"
      /\ \A r \in Requests : req[r].pc = "idle"
  BY ScopeAssumption DEF Init, MoneyInit, CommandInit, NewCommand, HandlersInit
<1> QED
  BY <1>1, <1>2 DEF SentinelInv, SentinelSealed, ChefStamped, Earned, At, In

LEMMA SentinelStep == SafeSentinel /\ [Next]_vars => SentinelInv' /\ KeysGrow
  BY Effects, CommandKeepsSentinel, RequestKeepsSentinel, OthersKeepSentinel DEF SafeSentinel

LEMMA SentinelInvariant == Spec => []SafeSentinel
<1>1. Init => SafeSentinel
  BY OrderTypeInit, ExclusionStart, SentinelStart DEF SafeSentinel
<1>2. SafeSentinel /\ [Next]_vars => SafeSentinel'
  <2>1. ExclusionInv => HeldIsAmount
    BY DEF ExclusionInv
  <2> QED
    BY <2>1, OrderTypeStep, PathExclusionStep, SentinelStep DEF SafeSentinel
<1> QED
  BY <1>1, <1>2, PTL DEF Spec

(* Whatever drops the sentinel found the full refund paid, or pays it.     *)
LEMMA SentinelDrops ==
  ASSUME SafeSentinel, [Next]_vars, order.refundID = "deferred", order'.refundID # "deferred"
  PROVE  FullPaid'
<1>0. TypeOK /\ ExclusionInv /\ SentinelInv /\ HeldIsAmount /\ CommandTypeOK
  BY DEF SafeSentinel, ExclusionInv, TypeOK
<1>1. CASE FullPaid
  BY <1>1, SentinelStep DEF KeysGrow, FullPaid, KeyPaid
<1>2. CASE ~FullPaid
  <2>1. Sealed
    BY <1>0, <1>2 DEF SentinelInv, SentinelSealed
  <2>2. ASSUME NEW c \in Commands, CommandEffect(c) PROVE FALSE
    <3>1. At(c, "stamp")
      BY <2>2 DEF CommandEffect, Aside, Reserves, CallsGateway, Finalizes, Abandons, GivesBack,
                  Stamps, Columns, BookColumns
    <3> QED
      BY <1>0, <1>2, <3>1 DEF SentinelInv, Earned, Over
  <2>3. ASSUME NEW r \in Requests, RequestEffect(r) PROVE FALSE
    <3>1. In(r, "swap") \/ In(r, "persist")
      BY <2>3 DEF RequestEffect, StandsBy, Same, TakesClaim, TakesLine, Defers, Pays, Swaps, Ends,
                  LetsGo, Returns, ReturnsLine, Columns
    <3>2. In(r, "persist") => r \in RequestHolders
      BY <1>0 DEF HeldIsAmount, RequestHolders, In, Paying, Keyed
    <3> QED
      BY <1>0, <1>2, <2>1, <3>1, <3>2 DEF SentinelInv, Earned, Sealed, In
  <2>4. CASE OtherEffect
    <3>1. CASE Retries
      BY <1>0, <3>1, KeysStay DEF Retries, FullPaid
    <3>2. CASE FlowEnds
      BY <1>0, <1>2, <3>2 DEF FlowEnds, SentinelInv, Earned
    <3>3. ASSUME NEW w \in Workers, Settles(w) PROVE FALSE
      BY <2>1, <3>3 DEF Settles, Claims, Sealed
    <3>4. \A i \in Issues : ~Grants(i)
      BY DEF Grants
    <3>5. \A w \in Workers : ~RollsBack(w)
      BY DEF RollsBack, Columns
    <3>6. ~(Discusses \/ Flows \/ Adjusts \/ FinishesStuck \/ FinishesFull)
      BY DEF Discusses, Flows, Adjusts, FinishesStuck, FinishesFull, Recovers, RecoveredID, Columns
    <3> QED
      BY <2>4, <3>1, <3>2, <3>3, <3>4, <3>5, <3>6 DEF OtherEffect
  <2> QED
    BY <1>0, <2>2, <2>3, <2>4, Effects
<1> QED
  BY <1>1, <1>2

(* The deferred sentinel goes only when the refund it stands for has been  *)
(* sent, however chefs, customers, crons, the workflow and the reconcilers *)
(* interleave, crash or fail.                                              *)
THEOREM SentinelStays == Spec => SentinelKept
<1> DEFINE Dropped == order.refundID = "deferred" /\ order'.refundID # "deferred" => KeyPaid(FullKey)'
<1>1. SafeSentinel /\ [Next]_vars => [Dropped]_vars
  BY SentinelDrops DEF FullPaid
<1>2. Spec => [][Dropped]_vars
  BY <1>1, SentinelInvariant, PTL DEF Spec
<1> QED
  BY <1>2 DEF SentinelKept
---------------------------------------------------------------------------
(* What is booked stays within the order, when no line of it is cancelled: *)
(* a line's cancel does not look at what remains.                          *)
NoLineCancels == \A r \in Requests : Kind[r] # "line"

Plain == order.total = Capture /\ order.perLine = 0 /\ order.refundAmt <= Capture
AmountsHeld == \A c \in CommandHolders : cmd[c].amt > 0

LEMMA PlainRemaining ==
  ASSUME TypeOK, Plain
  PROVE  /\ order.refundAmt \in Int /\ Capture \in Nat
         /\ Remaining(order) = Capture - order.refundAmt
  BY CaptureAssumption DEF TypeOK, CommandTypeOK, OrderRow, Plain, Remaining

(* What a reservation books is part of what remains.                       *)
LEMMA BookedIsLeft ==
  ASSUME TypeOK, Plain, Remaining(order) > 0, NEW n \in Nat, NEW intent
  PROVE  ReserveAmount(order, n, intent) \in 1 .. (Capture - order.refundAmt)
  BY PlainRemaining, ReserveAmountBounds DEF TypeOK, CommandTypeOK

LEMMA CommandAmounts ==
  ASSUME TypeOK, AmountsHeld, NEW c \in Commands, CommandEffect(c)
  PROVE  AmountsHeld'
<1>0. /\ Onward(c) /\ Ask[c] \in Nat /\ order \in OrderRow
  BY CommandAssumption DEF CommandEffect, TypeOK, CommandTypeOK
<1>h. /\ c \in CommandHolders <=> cmd[c].pc \in ClaimPhases
      /\ \A d \in CommandHolders' \ {c} : d \in CommandHolders /\ cmd'[d] = cmd[d]
  BY <1>0 DEF CommandHolders, Onward
<1> USE DEF ClaimPhases
<1>1. c \in CommandHolders' => cmd'[c].amt > 0
  <2>1. CASE Reserves(c)
    BY <1>0, <2>1, ReserveAmountBounds DEF Reserves
  <2>2. CASE CallsGateway(c)
    BY <1>h, <2>2 DEF CallsGateway, At, AmountsHeld
  <2>3. CASE Aside(c) \/ Finalizes(c) \/ Abandons(c) \/ GivesBack(c) \/ Stamps(c)
    BY <2>3 DEF Aside, Finalizes, Abandons, GivesBack, Stamps, At, CommandHolders
  <2> QED
    BY <2>1, <2>2, <2>3 DEF CommandEffect
<1> QED
  BY <1>h, <1>1 DEF AmountsHeld

LEMMA BookedRemains ==
  ASSUME TypeOK
  PROVE  /\ Remaining(order) \in Int
         /\ Remaining(order) > 0 => \A n \in Nat : \A intent :
              ReserveAmount(order, n, intent) \in 1 .. Remaining(order)
<1>1. order \in OrderRow
  BY DEF TypeOK, CommandTypeOK
<1>2. Remaining(order) \in Int
  BY <1>1 DEF Remaining, OrderRow
<1> QED
  BY <1>1, <1>2, ReserveAmountBounds

LEMMA CommandBooks ==
  ASSUME TypeOK, Plain, AmountsHeld, NEW c \in Commands, CommandEffect(c)
  PROVE  Plain'
<1>0. /\ Ask[c] \in Nat /\ cmd[c] \in Command
      /\ order.refundAmt \in Int /\ Capture \in Nat
  BY CommandAssumption, PlainRemaining DEF TypeOK, CommandTypeOK
<1>1. CASE Reserves(c)
  <2>1. cmd'[c].amt \in 1 .. (Capture - order.refundAmt)
    BY <1>0, <1>1, BookedIsLeft DEF Reserves
  <2> QED
    BY <1>0, <1>1, <2>1 DEF Reserves, Plain
<1>2. CASE GivesBack(c)
  <2>1. cmd[c].amt > 0 /\ cmd[c].amt \in Int
    BY <1>0, <1>2 DEF GivesBack, At, AmountsHeld, Command, CommandHolders, ClaimPhases
  <2>2. order'.refundAmt <= Capture
    BY <1>0, <1>2, <2>1 DEF GivesBack, Plain
  <2> QED
    BY <1>2, <2>2 DEF GivesBack, Plain
<1>3. CASE Aside(c) \/ CallsGateway(c) \/ Finalizes(c) \/ Abandons(c) \/ Stamps(c)
  BY <1>3 DEF Aside, CallsGateway, Finalizes, Abandons, Stamps, Columns, BookColumns, Plain
<1> QED
  BY <1>1, <1>2, <1>3 DEF CommandEffect

LEMMA RequestBooks ==
  ASSUME NoLineCancels, TypeOK, ExclusionInv, Plain, NEW r \in Requests, RequestEffect(r)
  PROVE  Plain'
<1>0. /\ Kind[r] # "line" /\ Amount[r] \in Nat /\ req[r] \in Request
      /\ order.refundAmt \in Int /\ Capture \in Nat
  BY RequestAssumption, PlainRemaining DEF NoLineCancels, TypeOK
<1>1. CASE TakesClaim(r)
  <2>1. req'[r].amt \in 1 .. (Capture - order.refundAmt)
    BY <1>0, <1>1, BookedIsLeft DEF TakesClaim
  <2> QED
    BY <1>0, <1>1, <2>1 DEF TakesClaim, Plain
<1>2. CASE Returns(r)
  <2>1. req[r].amt > 0 /\ req[r].amt \in Int
    BY <1>0, <1>2 DEF Returns, In, ExclusionInv, HeldIsAmount, Paying, Request
  <2> QED
    BY <1>0, <1>2, <2>1 DEF Returns, Plain
<1>3. CASE StandsBy(r) \/ Defers(r) \/ Pays(r) \/ Swaps(r) \/ Ends(r) \/ LetsGo(r)
  BY <1>3 DEF StandsBy, Same, Columns, Defers, Pays, Swaps, Ends, LetsGo, Plain
<1> QED
  BY <1>0, <1>1, <1>2, <1>3 DEF RequestEffect, TakesLine, ReturnsLine

LEMMA OthersBook ==
  ASSUME TypeOK, Plain, OtherEffect
  PROVE  Plain'
<1>0. /\ order.refundAmt \in Int /\ Capture \in Nat
      /\ Remaining(order) = Capture - order.refundAmt
  BY PlainRemaining
<1>1. ASSUME NEW i \in Issues, Grants(i) PROVE Plain'
  <2>1. CreditOf(i) \in Int
    BY CreditBounds DEF TypeOK, CommandTypeOK
  <2> QED
    BY <1>0, <1>1, <2>1 DEF Grants, Plain
<1>2. ASSUME NEW w \in Workers, Settles(w) PROVE Plain'
  <2>1. job[w].owed \in Int
    BY DEF TypeOK, Job
  <2>2. Cap(job[w].owed) \in Int /\ (Cap(job[w].owed) > 0 => Cap(job[w].owed) <= Remaining(order))
    BY <2>1, CapBounds DEF TypeOK, CommandTypeOK
  <2>3. PICK amount \in Int :
          /\ amount = 0 \/ (amount = Cap(job[w].owed) /\ amount > 0)
          /\ order'.refundAmt = order.refundAmt + amount
    BY <1>2 DEF Settles
  <2>4. order'.refundAmt <= Capture
    BY <1>0, <2>2, <2>3 DEF Plain
  <2> QED
    BY <1>2, <2>4 DEF Settles, Plain
<1>3. ASSUME NEW w \in Workers, RollsBack(w) PROVE Plain'
  BY <1>3 DEF RollsBack, Columns, Plain
<1>4. CASE Discusses \/ Retries \/ Flows \/ FlowEnds \/ Adjusts \/ FinishesStuck \/ FinishesFull
  BY <1>4 DEF Discusses, Columns, Retries, Flows, FlowEnds, Adjusts, FinishesStuck, FinishesFull,
              Recovers, Plain
<1> QED
  BY <1>1, <1>2, <1>3, <1>4 DEF OtherEffect

SafeBooks == TypeOK /\ ExclusionInv /\ Plain /\ AmountsHeld

LEMMA AmountsStep == TypeOK /\ ExclusionInv /\ AmountsHeld /\ [Next]_vars => AmountsHeld'
<1> SUFFICES ASSUME TypeOK, ExclusionInv, AmountsHeld, [Next]_vars
             PROVE  AmountsHeld'
  OBVIOUS
<1>1. UNCHANGED cmd => AmountsHeld'
  BY DEF AmountsHeld, CommandHolders
<1> QED
  BY <1>1, CommandAmounts, Effects DEF RequestEffect, OtherEffect

LEMMA BooksStep ==
  ASSUME NoLineCancels
  PROVE  TypeOK /\ ExclusionInv /\ Plain /\ AmountsHeld /\ [Next]_vars => Plain'
  BY CommandBooks, RequestBooks, OthersBook, Effects

LEMMA BooksInvariant ==
  ASSUME NoLineCancels
  PROVE  Spec => []SafeBooks
<1>1. Init => SafeBooks
  <2> SUFFICES ASSUME Init PROVE Plain /\ AmountsHeld
    BY OrderTypeInit, ExclusionStart DEF SafeBooks
  <2>1. CommandHolders = {}
    BY DEF Init, CommandInit, NewCommand, CommandHolders, ClaimPhases
  <2> QED
    BY <2>1, CaptureAssumption DEF Init, MoneyInit, Plain, AmountsHeld
<1>2. SafeBooks /\ [Next]_vars => SafeBooks'
  <2>1. ExclusionInv => HeldIsAmount
    BY DEF ExclusionInv
  <2> QED
    BY <2>1, OrderTypeStep, PathExclusionStep, AmountsStep, BooksStep DEF SafeBooks
<1> QED
  BY <1>1, <1>2, PTL DEF Spec

(* Without line cancels, no path books more than what was paid for the     *)
(* order, whatever fails and whoever dies.                                 *)
THEOREM BookedWithin ==
  ASSUME NoLineCancels
  PROVE  Spec => []BookedWithinTotal
<1>1. SafeBooks => BookedWithinTotal
  BY PlainRemaining DEF SafeBooks, BookedWithinTotal, Plain
<1> QED
  BY <1>1, BooksInvariant, PTL
---------------------------------------------------------------------------
(* What the paths promise together.  Executing a cancellation to the       *)
(* original method calls the gateway inside a transaction that may roll    *)
(* back, and an admin's adjustment credits the wallet outside              *)
(* refund_amount: neither keeps the promise.                               *)
CreditsOnly == Workers = {} \/ (Destination = "wallet" /\ "admin" \notin Workers)
PaysAsBooked == "lost" \notin Faults /\ CreditsOnly
Honest == NoLineCancels /\ "lost" \notin Faults /\ CreditsOnly

LEMMA HonestPays == Honest => NoLineCancels /\ PaysAsBooked
  BY DEF Honest, PaysAsBooked

(* A call under a key moves its amount when it is answered and the key is  *)
(* fresh, and nothing otherwise.                                           *)
Answered(key, amount, answer) ==
  \/ /\ answer = "ok" /\ ~KeyPaid(key) /\ TotalPaid' = TotalPaid + amount
     /\ paid'.keys = paid.keys \union {key}
  \/ /\ answer = "ok" => KeyPaid(key)
     /\ paid' = paid

LEMMA CallAnswers ==
  ASSUME CommandTypeOK, "lost" \notin Faults, NEW key, NEW amount \in Int, NEW answer,
         GatewayCall(key, amount, answer)
  PROVE  Answered(key, amount, answer)
<1>1. CASE ~KeyPaid(key) /\ answer = "ok"
  <2>1. paid' = [paid EXCEPT !.keys = @ \union {key}, !.gateway = @ + amount]
    BY <1>1 DEF GatewayCall, Sent
  <2>2. /\ paid'.keys = paid.keys \union {key} /\ paid'.gateway = paid.gateway + amount
        /\ paid'.wallet = paid.wallet
    BY <2>1 DEF CommandTypeOK
  <2> QED
    BY <1>1, <2>2 DEF Answered, TotalPaid, CommandTypeOK
<1>2. CASE ~(~KeyPaid(key) /\ answer = "ok")
  BY <1>2 DEF GatewayCall, Sent, Answered
<1> QED
  BY <1>1, <1>2

LEMMA CreditAnswers ==
  ASSUME CommandTypeOK, NEW key, NEW amount \in Int, NEW answer,
         \/ WalletCredit(key, amount, answer)
         \/ answer = "ok" /\ paid' = Credited(key, amount)
  PROVE  Answered(key, amount, answer)
<1>1. CASE ~KeyPaid(key) /\ answer = "ok"
  <2>1. paid' = [paid EXCEPT !.keys = @ \union {key}, !.wallet = @ + amount]
    BY <1>1 DEF WalletCredit, Credited
  <2>2. /\ paid'.keys = paid.keys \union {key} /\ paid'.wallet = paid.wallet + amount
        /\ paid'.gateway = paid.gateway
    BY <2>1 DEF CommandTypeOK
  <2> QED
    BY <1>1, <2>2 DEF Answered, TotalPaid, CommandTypeOK
<1>2. CASE ~(~KeyPaid(key) /\ answer = "ok")
  BY <1>2 DEF WalletCredit, Credited, Answered
<1> QED
  BY <1>1, <1>2

(* The key spaces of the two providers are disjoint.                       *)
LEMMA KeysApart ==
  /\ \A s, what, id : ScopeKey(s) # WalletKey(what, id)
  /\ \A p, what, id : PartialKey(p) # WalletKey(what, id)
  /\ \A s, p : ScopeKey(s) # PartialKey(p)
  /\ \A what, id, what2, id2 : WalletKey(what, id) = WalletKey(what2, id2) => what = what2 /\ id = id2
  BY DEF ScopeKey, PartialKey, WalletKey

(* A line's key is nobody else's.                                         *)
LEMMA LineKeysApart ==
  /\ \A l, s : LineKey(l) # ScopeKey(s)
  /\ \A l, p : LineKey(l) # PartialKey(p)
  /\ \A l, what, id : LineKey(l) # WalletKey(what, id)
  /\ \A l, k : LineKey(l) = LineKey(k) => l = k
  BY DEF LineKey, ScopeKey, PartialKey, WalletKey

(* The keys of the wallet: an issue's is used when it is resolved, a       *)
(* cancellation's when the order is shut.                                  *)
Shut == order.pay = "refunded" /\ order.refundedAt /\ LiveHolders = {}
WalletFresh ==
  /\ \A i \in Issues : KeyPaid(WalletKey("issue", i)) => issue[i].st = "resolved"
  /\ KeyPaid(WalletKey("cancel", 0)) => Shut

(* Whoever is to pay under the sentinel finds it, or the payment made.     *)
Deferred == order.refundID = "deferred"
ChefOwes ==
  \A r \in Requests : Kind[r] = "chefcancel" /\ In(r, "pay") =>
    FullPaid \/ (Deferred /\ order.owed = req[r].amt)
FlowOwes == flow = "running" => FullPaid \/ Deferred
OwedPositive == Deferred => order.owed > 0
PledgeInv == WalletFresh /\ ChefOwes /\ FlowOwes /\ OwedPositive

(* The sentinel, and the amount in it, stand until the refund is paid,     *)
(* except that a chef's cancel writes them.                                *)
Kept == (Deferred /\ ~FullPaid => Deferred' \/ FullPaid') /\ (FullPaid => FullPaid')
OwedKept == order'.owed = order.owed /\ (Deferred' => Deferred)

LEMMA SentinelKeeps ==
  ASSUME SafeSentinel, [Next]_vars
  PROVE  Kept
<1>1. FullPaid => FullPaid'
  BY SentinelStep DEF KeysGrow, FullPaid, KeyPaid
<1>2. Deferred => Deferred' \/ FullPaid'
  BY SentinelDrops DEF Deferred
<1> QED
  BY <1>1, <1>2 DEF Kept

LEMMA DebtStands ==
  ASSUME PledgeInv, Kept, OwedKept, flow' = "running" => flow = "running" \/ FullPaid \/ Deferred,
         \A r \in Requests : Kind[r] = "chefcancel" /\ In(r, "pay")' =>
           In(r, "pay") /\ req'[r].amt = req[r].amt
  PROVE  ChefOwes' /\ FlowOwes' /\ OwedPositive'
<1>1. ChefOwes'
  BY DEF PledgeInv, ChefOwes, Kept, OwedKept
<1>2. FlowOwes'
  BY DEF PledgeInv, FlowOwes, Kept
<1>3. OwedPositive'
  BY DEF PledgeInv, OwedPositive, OwedKept
<1> QED
  BY <1>1, <1>2, <1>3

(* An order that is shut stays shut.                                       *)
LEMMA FreshStands ==
  ASSUME PledgeInv, Shut => Shut',
         \A i \in Issues : issue[i].st = "resolved" => issue'[i].st = "resolved",
         \A i \in Issues : WalletKey("issue", i) \in paid'.keys \ paid.keys => issue'[i].st = "resolved",
         WalletKey("cancel", 0) \in paid'.keys \ paid.keys => Shut'
  PROVE  WalletFresh'
  BY DEF PledgeInv, WalletFresh, KeyPaid

LEMMA AnswerKeys ==
  ASSUME NEW key, NEW amount, NEW answer, Answered(key, amount, answer)
  PROVE  paid'.keys \subseteq paid.keys \union {key}
  BY DEF Answered

LEMMA CommandKeepsDebt ==
  ASSUME PaysAsBooked, TypeOK, ExclusionInv, PledgeInv, Kept, NEW c \in Commands, CommandEffect(c)
  PROVE  PledgeInv'
<1>0. /\ Onward(c) /\ UNCHANGED <<req, issue, flow>> /\ RequestHolders' = RequestHolders
      /\ CommandTypeOK /\ cmd[c].amt \in Int
  BY DEF CommandEffect, RequestHolders, TypeOK, CommandTypeOK, Command
<1>h. /\ c \in CommandHolders <=> cmd[c].pc \in ClaimPhases
      /\ cmd'[c].pc \notin ClaimPhases \/ c \in CommandHolders => CommandHolders' \subseteq CommandHolders
  BY <1>0 DEF CommandHolders, Onward
<1>1. ChefOwes' /\ FlowOwes' /\ OwedPositive'
  <2>1. OwedKept
    BY DEF CommandEffect, Aside, Reserves, CallsGateway, Finalizes, Abandons, GivesBack, Stamps,
           Columns, BookColumns, OwedKept, Deferred
  <2> QED
    BY <1>0, <2>1, DebtStands DEF In
<1>2. Shut => Shut'
  <2> SUFFICES ASSUME Shut PROVE Shut'
    OBVIOUS
  <2>1. c \notin CommandHolders /\ CommandHolders = {} /\ RequestHolders' = {}
    BY <1>0 DEF Shut, LiveHolders
  <2>2. Aside(c) \/ Abandons(c) \/ Stamps(c)
    BY <1>h, <2>1 DEF CommandEffect, Reserves, CallsGateway, Finalizes, GivesBack, Shut, At, ClaimPhases
  <2>3. UNCHANGED <<order.pay, order.refundedAt>> /\ cmd'[c].pc \notin ClaimPhases
    BY <1>h, <2>1, <2>2 DEF Aside, Abandons, Stamps, Columns, At, ClaimPhases
  <2> QED
    BY <1>h, <2>1, <2>3 DEF Shut, LiveHolders
<1>3. paid' = paid \/ paid'.keys \subseteq paid.keys \union {ScopeKey(Scope[c])}
  <2>1. paid' = paid \/ \E answer : GatewayCall(ScopeKey(Scope[c]), cmd[c].amt, answer)
    BY DEF CommandEffect, Aside, Reserves, CallsGateway, Finalizes, Abandons, GivesBack, Stamps
  <2> QED
    BY <1>0, <2>1, CallAnswers, AnswerKeys DEF PaysAsBooked
<1>4. WalletFresh'
  BY <1>0, <1>2, <1>3, FreshStands, KeysApart
<1> QED
  BY <1>1, <1>4 DEF PledgeInv

LEMMA MoveAnswers ==
  ASSUME PaysAsBooked, TypeOK, NEW r \in Requests, NEW answer, Move(r, answer)
  PROVE  /\ \E key : /\ Answered(key, req[r].amt, answer)
                     /\ key = FullKey \/ (\E p : key = PartialKey(p)) \/ (\E l : key = LineKey(l))
                        \/ \E what \in {"refund", "saga"} : \E id : key = WalletKey(what, id)
         /\ Kind[r] = "chefcancel" => Answered(FullKey, req[r].amt, answer)
         /\ Kind[r] = "line" => Answered(LineKey(Target[r]), req[r].amt, answer)
<1>0. Kind[r] \in Kinds /\ CommandTypeOK /\ req[r].amt \in Int /\ "lost" \notin Faults
  BY RequestAssumption DEF PaysAsBooked, TypeOK, Request
<1>1. CASE Kind[r] \in {"refund", "goodwill"}
  BY <1>0, <1>1, CallAnswers DEF Move
<1>2. CASE Kind[r] = "chefcancel"
  BY <1>0, <1>2, CallAnswers DEF Move
<1>3. CASE Kind[r] = "wallet"
  BY <1>0, <1>3, CreditAnswers DEF Move
<1>4. CASE Kind[r] = "saga"
  BY <1>0, <1>4, CreditAnswers DEF Move
<1>5. CASE Kind[r] = "line"
  BY <1>0, <1>5, CallAnswers DEF Move
<1> QED
  BY <1>0, <1>1, <1>2, <1>3, <1>4, <1>5 DEF Kinds

LEMMA RequestKeepsDebt ==
  ASSUME PaysAsBooked, TypeOK, ExclusionInv, SentinelInv, PledgeInv, Kept,
         NEW r \in Requests, RequestEffect(r)
  PROVE  PledgeInv'
<1>0. /\ OnwardReq(r) /\ UNCHANGED <<cmd, issue>> /\ Exclusive /\ CommandHolders' = CommandHolders
      /\ HeldIsAmount /\ Kind[r] \in Kinds
  BY RequestAssumption DEF RequestEffect, ExclusionInv, CommandHolders
<1>h. /\ r \in RequestHolders <=> Kind[r] # "line" /\ req[r].amt > 0 /\ req[r].pc \in ClaimingPhases
      /\ \A s \in RequestHolders' : s # r => s \in RequestHolders
      /\ r \in RequestHolders' <=> Kind[r] # "line" /\ req'[r].amt > 0 /\ req'[r].pc \in ClaimingPhases
  BY <1>0 DEF RequestHolders, OnwardReq, ClaimingPhases
<1>a. \A s \in Requests : Kind[s] # "line" /\ req[s].pc \in Paying => s \in RequestHolders
  BY <1>0 DEF HeldIsAmount, Paying, RequestHolders
<1>1. ASSUME ~Defers(r) PROVE ChefOwes' /\ FlowOwes' /\ OwedPositive'
  <2>1. OwedKept
    <3>1. CASE Ends(r)
      BY <3>1, <1>0 DEF Ends, OwedKept, Deferred
    <3>2. CASE ~Ends(r)
      BY <1>1, <3>2 DEF RequestEffect, StandsBy, Same, TakesClaim, TakesLine, Pays, Swaps,
         LetsGo, Returns, ReturnsLine, Columns, OwedKept, Deferred
    <3> QED
      BY <3>1, <3>2
  <2>2. Kind[r] = "chefcancel" => ~In(r, "pay")'
    BY <1>0, <1>1 DEF RequestEffect, StandsBy, Same, TakesClaim, TakesLine, Pays, AfterPay, Swaps, Ends,
       LetsGo, Returns, ReturnsLine, In
  <2>3. \A s \in Requests : Kind[s] = "chefcancel" /\ In(s, "pay")' =>
          In(s, "pay") /\ req'[s].amt = req[s].amt
    BY <1>0, <2>2 DEF In, OnwardReq
  <2>4. flow' = "running" => flow = "running" \/ FullPaid \/ Deferred
    <3>1. UNCHANGED flow \/ (Kind[r] = "chefcancel" /\ In(r, "pay"))
      BY <1>1 DEF RequestEffect, StandsBy, Same, TakesClaim, TakesLine, Pays, Swaps, Ends,
         LetsGo, Returns, ReturnsLine
    <3> QED
      BY <3>1 DEF PledgeInv, ChefOwes
  <2> QED
    BY <2>1, <2>3, <2>4, DebtStands
<1>2. ASSUME Defers(r) PROVE ChefOwes' /\ FlowOwes' /\ OwedPositive'
  <2>0. Kind[r] = "chefcancel"
    BY <1>2 DEF Defers, SentinelInv, Earned
  <2>1. RequestHolders = {r} /\ Deferred' /\ order'.owed = req[r].amt /\ req'[r].amt = req[r].amt
        /\ req[r].amt > 0
    BY <1>0, <1>2, <1>h, <2>0 DEF Defers, In, ClaimingPhases, Exclusive, Deferred, Amounts
  <2>2. \A s \in Requests \ {r} : Kind[s] = "chefcancel" => ~In(s, "pay")'
    BY <1>0, <1>a, <2>1 DEF In, OnwardReq, Paying
  <2> QED
    BY <2>1, <2>2 DEF ChefOwes, FlowOwes, OwedPositive
<1>3. Shut => Shut'
  <2> SUFFICES ASSUME Shut PROVE Shut'
    OBVIOUS
  <2>1. r \notin RequestHolders /\ LiveHolders = {}
    BY DEF Shut, LiveHolders
  <2>2. UNCHANGED <<order.pay, order.refundedAt>> /\ r \notin RequestHolders'
    <3>1. CASE Kind[r] # "line"
      <4>1. req[r].pc \notin Paying
        BY <1>0, <1>a, <2>1, <3>1
      <4>2. StandsBy(r) \/ LetsGo(r)
        BY <1>0, <1>h, <2>1, <3>1, <4>1 DEF RequestEffect, TakesClaim, TakesLine, Defers, Pays, Swaps,
           Ends, Returns, ReturnsLine, In, Paying, Shut, ClaimingPhases
      <4> QED
        BY <1>h, <4>2 DEF StandsBy, LetsGo, Same, Columns, ClaimingPhases
    <3>2. CASE Kind[r] = "line"
      BY <1>h, <3>2 DEF RequestEffect, StandsBy, Same, TakesClaim, TakesLine, Defers, Pays, Swaps, Ends,
         LetsGo, Returns, ReturnsLine, Columns, Keyed
    <3> QED
      BY <3>1, <3>2
  <2> QED
    BY <1>0, <1>h, <2>1, <2>2 DEF Shut, LiveHolders
<1>4. \/ paid' = paid
      \/ \E key : /\ paid'.keys \subseteq paid.keys \union {key}
                  /\ key = FullKey \/ (\E p : key = PartialKey(p)) \/ (\E l : key = LineKey(l))
                     \/ \E what \in {"refund", "saga"} : \E id : key = WalletKey(what, id)
  <2>1. paid' = paid \/ \E answer : Move(r, answer)
    BY DEF RequestEffect, StandsBy, Same, TakesClaim, TakesLine, Defers, Pays, Swaps, Ends,
       LetsGo, Returns, ReturnsLine
  <2> QED
    BY <2>1, MoveAnswers, AnswerKeys
<1>5. /\ \A i : WalletKey("issue", i) \notin paid'.keys \ paid.keys
      /\ WalletKey("cancel", 0) \notin paid'.keys \ paid.keys
  BY <1>4, KeysApart, LineKeysApart DEF FullKey
<1>6. WalletFresh'
  BY <1>0, <1>3, <1>5, FreshStands
<1> QED
  BY <1>1, <1>2, <1>6 DEF PledgeInv

(* What a settled cancellation credits, when credits are all there is.     *)
LEMMA SettledAnswers ==
  ASSUME PaysAsBooked, TypeOK, NEW w \in Workers, Settles(w)
  PROVE  \E amount \in Int :
           /\ \/ amount = 0 /\ UNCHANGED paid /\ (job[w].owed = 0 \/ Claims(order))
              \/ /\ amount > 0 /\ amount <= Remaining(order) /\ Claims(order) /\ job[w].owed > 0
                 /\ Answered(WalletKey("cancel", 0), amount, "ok")
           /\ order'.pay = IF job[w].owed > 0 THEN "refunded" ELSE order.pay
           /\ order'.refundedAt /\ order'.refundAmt = order.refundAmt + amount
           /\ UNCHANGED <<order.refundID, order.total, order.perLine, order.owed>>
<1>0. Destination = "wallet" /\ CommandTypeOK /\ job[w].owed \in Int
  BY DEF PaysAsBooked, CreditsOnly, TypeOK, Job
<1>1. Cap(job[w].owed) \in Int /\ (Cap(job[w].owed) > 0 => Cap(job[w].owed) <= Remaining(order))
  BY <1>0, CapBounds DEF CommandTypeOK
<1>2. PICK amount \in Int :
    /\ \/ amount = 0 /\ (job[w].owed = 0 \/ Claims(order)) /\ UNCHANGED <<paid, ledger>>
       \/ /\ amount = Cap(job[w].owed) /\ amount > 0 /\ Claims(order) /\ job[w].owed > 0
          /\ PayCancellation(w, "ok")
    /\ order'.pay = IF job[w].owed > 0 THEN "refunded" ELSE order.pay
    /\ order'.refundedAt /\ order'.refundAmt = order.refundAmt + amount
    /\ order'.refundID = IF amount > 0 /\ Destination = "original" THEN "settled" ELSE order.refundID
    /\ UNCHANGED <<order.total, order.perLine, order.owed>>
  BY DEF Settles
<1>3. PayCancellation(w, "ok") => Answered(WalletKey("cancel", 0), Cap(job[w].owed), "ok")
  BY <1>0, <1>1, CreditAnswers DEF PayCancellation
<1> QED
  BY <1>0, <1>1, <1>2, <1>3

LEMMA OthersKeepDebt ==
  ASSUME PaysAsBooked, TypeOK, ExclusionInv, SentinelInv, PledgeInv, Kept, OtherEffect
  PROVE  PledgeInv'
<1>0. /\ UNCHANGED <<cmd, req>> /\ CommandTypeOK /\ "lost" \notin Faults
      /\ LiveHolders' = LiveHolders /\ Exclusive
  BY DEF OtherEffect, CommandHolders, RequestHolders, LiveHolders, TypeOK, PaysAsBooked, ExclusionInv
<1>d. ASSUME OwedKept, flow' = "running" => flow = "running"
      PROVE  ChefOwes' /\ FlowOwes' /\ OwedPositive'
  BY <1>0, <1>d, DebtStands DEF In
<1>s. ASSUME UNCHANGED <<order.pay, order.refundedAt>> \/ (order'.refundedAt /\ order'.pay = "refunded")
               \/ ~order.refundedAt \/ (order'.refundedAt /\ order'.pay = order.pay)
      PROVE  Shut => Shut'
  BY <1>0, <1>s DEF Shut
<1>k. ASSUME Shut => Shut', \A i \in Issues : issue[i].st = "resolved" => issue'[i].st = "resolved",
             \/ UNCHANGED paid
             \/ paid'.keys \subseteq paid.keys \union {FullKey}
             \/ \E i : /\ paid'.keys \subseteq paid.keys \union {WalletKey("issue", i)}
                       /\ issue'[i].st = "resolved"
             \/ paid'.keys \subseteq paid.keys \union {WalletKey("cancel", 0)} /\ Shut'
      PROVE  WalletFresh'
  BY <1>k, FreshStands, KeysApart DEF FullKey
<1>1. ASSUME NEW i \in Issues, Grants(i) PROVE PledgeInv'
  <2>1. CreditOf(i) \in Int
    BY CreditBounds DEF TypeOK, CommandTypeOK
  <2>2. paid'.keys \subseteq paid.keys \union {WalletKey("issue", i)}
    <3>1. Answered(WalletKey("issue", i), CreditOf(i), "ok")
      BY <1>0, <1>1, <2>1, CreditAnswers DEF Grants
    <3> QED
      BY <3>1, AnswerKeys
  <2>3. Shut => Shut'
    BY <1>1, <1>s DEF Grants
  <2>4. WalletFresh'
    BY <1>1, <1>k, <2>2, <2>3 DEF Grants
  <2> QED
    BY <1>1, <1>d, <2>4 DEF Grants, PledgeInv, OwedKept, Deferred
<1>2. CASE Discusses
  BY <1>2, <1>d, <1>k, <1>s DEF Discusses, Columns, PledgeInv, OwedKept, Deferred
<1>3. CASE Retries \/ Flows
  <2>1. PICK answer : GatewayCall(FullKey, order.owed, answer)
    BY <1>3 DEF Retries, Flows
  <2>2. paid'.keys \subseteq paid.keys \union {FullKey}
    <3>1. order.owed \in Int
      BY <1>0 DEF CommandTypeOK, OrderRow
    <3>2. Answered(FullKey, order.owed, answer)
      BY <1>0, <2>1, <3>1, CallAnswers
    <3> QED
      BY <3>2, AnswerKeys
  <2>3. UNCHANGED <<order.pay, order.refundedAt, order.owed, issue>> /\ (Deferred' => Deferred)
    BY <1>3 DEF Retries, Flows, Columns, Deferred
  <2>4. flow' = "running" => flow = "running"
    BY <1>3 DEF Retries, Flows
  <2> QED
    BY <1>d, <1>k, <1>s, <2>2, <2>3, <2>4 DEF PledgeInv, OwedKept
<1>4. CASE FlowEnds
  BY <1>4, <1>d, <1>k, <1>s DEF FlowEnds, PledgeInv, OwedKept, Deferred
<1>5. ASSUME NEW w \in Workers, Settles(w), UNCHANGED <<issue, flow>> PROVE PledgeInv'
  <2>1. PICK amount \in Int :
           /\ \/ amount = 0 /\ UNCHANGED paid /\ (job[w].owed = 0 \/ Claims(order))
              \/ /\ amount > 0 /\ amount <= Remaining(order) /\ Claims(order) /\ job[w].owed > 0
                 /\ Answered(WalletKey("cancel", 0), amount, "ok")
           /\ order'.pay = IF job[w].owed > 0 THEN "refunded" ELSE order.pay
           /\ order'.refundedAt /\ order'.refundAmt = order.refundAmt + amount
           /\ UNCHANGED <<order.refundID, order.total, order.perLine, order.owed>>
    BY <1>5, SettledAnswers
  <2>2. Shut => Shut'
    BY <1>s, <2>1
  <2>3. amount > 0 => Shut'
    <3>1. Claims(order) => LiveHolders = {}
      BY <1>0 DEF Claims, Exclusive
    <3> QED
      BY <1>0, <2>1, <3>1 DEF Shut
  <2>4. amount > 0 => paid'.keys \subseteq paid.keys \union {WalletKey("cancel", 0)}
    BY <2>1, AnswerKeys
  <2>5. WalletFresh'
    BY <1>5, <1>k, <2>1, <2>2, <2>3, <2>4
  <2> QED
    BY <1>5, <1>d, <2>1, <2>5 DEF PledgeInv, OwedKept, Deferred
<1>6. ASSUME NEW w \in Workers, RollsBack(w), UNCHANGED <<issue, flow>> PROVE PledgeInv'
  <2>1. UNCHANGED paid
    BY <1>6 DEF RollsBack, PaysAsBooked, CreditsOnly
  <2> QED
    BY <1>6, <1>d, <1>k, <1>s, <2>1 DEF RollsBack, Columns, PledgeInv, OwedKept, Deferred
<1>7. ~Adjusts
  BY DEF Adjusts, PaysAsBooked, CreditsOnly
<1>8. CASE (FinishesStuck \/ FinishesFull) /\ UNCHANGED <<issue, flow>>
  <2>1. UNCHANGED <<paid, order.owed>> /\ (Deferred' => Deferred) /\ ~order.refundedAt
    BY <1>8 DEF FinishesStuck, FinishesFull, Recovers, RecoveredID, Deferred
  <2> QED
    BY <1>8, <1>d, <1>k, <1>s, <2>1 DEF PledgeInv, OwedKept
<1> QED
  BY <1>1, <1>2, <1>3, <1>4, <1>5, <1>6, <1>7, <1>8 DEF OtherEffect

(* All of it together, and with the bound on what is booked.               *)
SafePledge == SafeSentinel /\ AmountsHeld /\ PledgeInv
SafeMoney == SafeSentinel /\ Plain /\ AmountsHeld /\ PledgeInv

LEMMA MoneyIsPledge == SafeMoney <=> SafePledge /\ Plain
  BY DEF SafeMoney, SafePledge

LEMMA MoneyIsPledgeNext == SafeMoney' <=> SafePledge' /\ Plain'
  BY DEF SafeMoney, SafePledge

LEMMA PledgeStep ==
  ASSUME PaysAsBooked
  PROVE  SafePledge /\ [Next]_vars => SafePledge'
<1> SUFFICES ASSUME SafePledge, [Next]_vars PROVE SafePledge'
  OBVIOUS
<1>1. Kept /\ TypeOK /\ ExclusionInv /\ HeldIsAmount /\ SentinelInv /\ AmountsHeld /\ PledgeInv
  BY SentinelKeeps DEF SafePledge, SafeSentinel, ExclusionInv
<1>2. SafeSentinel'
  BY <1>1, OrderTypeStep, PathExclusionStep, SentinelStep DEF SafeSentinel
<1>3. AmountsHeld'
  BY <1>1, AmountsStep
<1>4. PledgeInv'
  BY <1>1, Effects, CommandKeepsDebt, RequestKeepsDebt, OthersKeepDebt
<1> QED
  BY <1>2, <1>3, <1>4 DEF SafePledge

LEMMA MoneyStart == Init => SafeMoney
<1> SUFFICES ASSUME Init PROVE SafeMoney
  OBVIOUS
<1>1. SafeSentinel
  BY OrderTypeInit, ExclusionStart, SentinelStart DEF SafeSentinel
<1>2. Plain /\ AmountsHeld
  <2>1. CommandHolders = {}
    BY DEF Init, CommandInit, NewCommand, CommandHolders, ClaimPhases
  <2> QED
    BY <2>1, CaptureAssumption DEF Init, MoneyInit, Plain, AmountsHeld
<1>3. PledgeInv
  <2>1. paid.keys = {} /\ order.refundID = "none" /\ flow = "none"
    BY DEF Init, MoneyInit, HandlersInit
  <2>2. \A r \in Requests : req[r].pc = "idle"
    BY DEF Init, HandlersInit
  <2> QED
    BY <2>1, <2>2 DEF PledgeInv, WalletFresh, KeyPaid, ChefOwes, FlowOwes, OwedPositive, Deferred, In
<1> QED
  BY <1>1, <1>2, <1>3 DEF SafeMoney

LEMMA MoneyStep ==
  ASSUME Honest
  PROVE  SafeMoney /\ [Next]_vars => SafeMoney'
<1> SUFFICES ASSUME SafeMoney, [Next]_vars PROVE SafeMoney'
  OBVIOUS
<1>1. SafePledge'
  BY HonestPays, MoneyIsPledge, PledgeStep
<1>2. Plain'
  BY HonestPays, BooksStep DEF SafeMoney, SafeSentinel
<1> QED
  BY <1>1, <1>2, MoneyIsPledgeNext

(* What is pledged is the amount of the one who may send it, or what the   *)
(* sentinel owes when there is nobody.                                     *)
PledgeOf ==
  /\ \A c \in Spenders : Pledged = cmd[c].amt /\ Spenders = {c} /\ RequestSpenders = {} /\ ~Owing
  /\ \A r \in RequestSpenders : Pledged = req[r].amt /\ RequestSpenders = {r} /\ Spenders = {} /\ ~Owing
  /\ Spenders = {} /\ RequestSpenders = {} => Pledged = IF Owing THEN order.owed ELSE 0

LEMMA SpendersAreHolders ==
  /\ Spenders \subseteq CommandHolders /\ RequestSpenders \subseteq RequestHolders
  /\ \A r \in RequestSpenders : ~(Kind[r] = "chefcancel" /\ In(r, "pay"))
  BY DEF Spenders, CommandHolders, ClaimPhases, RequestSpenders, RequestHolders, In

LEMMA PledgeIsOf == SafeSentinel => PledgeOf
<1> SUFFICES ASSUME SafeSentinel PROVE PledgeOf
  OBVIOUS
<1>0. Exclusive /\ SentinelSealed
  BY DEF SafeSentinel, ExclusionInv, SentinelInv
<1>1. Spenders # {} \/ RequestSpenders # {} => ~Owing
  BY <1>0, SpendersAreHolders DEF Owing, SentinelSealed, Sealed, FullPaid
<1>2. ASSUME NEW c \in Spenders
      PROVE  Pledged = cmd[c].amt /\ Spenders = {c} /\ RequestSpenders = {} /\ ~Owing
  <2>1. Spenders = {c} /\ RequestSpenders = {}
    BY <1>0, <1>2, SpendersAreHolders DEF Exclusive
  <2> QED
    BY <1>1, <2>1, HeldByOne DEF Pledged
<1>3. ASSUME NEW r \in RequestSpenders
      PROVE  Pledged = req[r].amt /\ RequestSpenders = {r} /\ Spenders = {} /\ ~Owing
  <2>1. RequestSpenders = {r} /\ Spenders = {}
    BY <1>0, <1>3, SpendersAreHolders DEF Exclusive
  <2> QED
    BY <1>1, <2>1 DEF Pledged
<1>4. Spenders = {} /\ RequestSpenders = {} => Pledged = IF Owing THEN order.owed ELSE 0
  BY DEF Pledged
<1> QED
  BY <1>2, <1>3, <1>4 DEF PledgeOf

LEMMA PledgeIsOfNext == SafeSentinel' => PledgeOf'
  BY PledgeIsOf, PTL

(* A step that changes neither the spender nor the sentinel changes        *)
(* nothing that is pledged; one that ends with neither pledges nothing.    *)
LEMMA PledgeStands ==
  ASSUME PledgeOf, PledgeOf', Spenders' = Spenders, RequestSpenders' = RequestSpenders,
         \A c \in Spenders : cmd'[c].amt = cmd[c].amt,
         \A r \in RequestSpenders : req'[r].amt = req[r].amt,
         Owing' = Owing, Owing => order'.owed = order.owed
  PROVE  Pledged' = Pledged
<1>1. CASE Spenders = {} /\ RequestSpenders = {}
  BY <1>1 DEF PledgeOf
<1>2. CASE Spenders # {} \/ RequestSpenders # {}
  BY <1>2 DEF PledgeOf
<1> QED
  BY <1>1, <1>2

LEMMA PledgeGone ==
  ASSUME PledgeOf', Spenders' = {}, RequestSpenders' = {}, ~Owing'
  PROVE  Pledged' = 0
  BY DEF PledgeOf

Pledged_vars == <<order.refundAmt, TotalPaid, Pledged>>

(* Nothing is owed under the sentinel while anybody else holds the claim,  *)
(* and nothing comes to be owed unless a sentinel is written.              *)
LEMMA NothingOwed ==
  ASSUME SafeSentinel
  PROVE  ~Sealed => ~Owing
  BY DEF SafeSentinel, SentinelInv, SentinelSealed, Owing, FullPaid

LEMMA NothingOwedNext ==
  ASSUME Kept, ~Owing, Deferred' => Deferred
  PROVE  ~Owing'
  BY DEF Kept, Owing, Deferred, FullPaid

LEMMA OwingStands ==
  ASSUME UNCHANGED <<order.refundID, order.owed, paid>>
  PROVE  Owing' = Owing /\ UNCHANGED order.owed /\ UNCHANGED TotalPaid
  BY DEF Owing, KeyPaid, TotalPaid

(* A step of the promise, bounded by what remains of the order.            *)
BooksAlone ==
  /\ Pledged = 0
  /\ \E amount \in 1 .. Remaining(order) :
       order'.refundAmt = order.refundAmt + amount /\ Pledged' = amount
  /\ UNCHANGED TotalPaid
BooksAndSends ==
  /\ \E amount \in 1 .. Remaining(order) :
       order'.refundAmt = order.refundAmt + amount /\ TotalPaid' = TotalPaid + amount
  /\ UNCHANGED Pledged
PromiseMoves ==
  \/ BooksAlone
  \/ Pledge!Send \/ Pledge!GiveBack \/ Pledge!Abandon
  \/ BooksAndSends
  \/ UNCHANGED Pledged_vars

(* An answered call sends what is pledged, or finds it sent.               *)
LEMMA AnswerSends ==
  ASSUME NEW key, NEW answer, Answered(key, Pledged, answer), Pledged > 0,
         UNCHANGED order.refundAmt, answer = "ok" => Pledged' = 0,
         answer # "ok" => Pledged' = Pledged
  PROVE  PromiseMoves
<1>1. CASE answer = "ok"
  BY <1>1 DEF Answered, Pledge!Send, Pledge!Abandon, PromiseMoves, TotalPaid
<1>2. CASE answer # "ok"
  BY <1>2 DEF Answered, PromiseMoves, Pledged_vars, TotalPaid
<1> QED
  BY <1>1, <1>2

LEMMA CommandPledges ==
  ASSUME PaysAsBooked, SafePledge, SafePledge', Kept, NEW c \in Commands, CommandEffect(c)
  PROVE  PromiseMoves
<1>0. /\ Onward(c) /\ UNCHANGED req /\ RequestSpenders' = RequestSpenders
      /\ Exclusive /\ AmountsHeld /\ TypeOK /\ CommandTypeOK /\ cmd[c].amt \in Int
      /\ PledgeOf /\ PledgeOf' /\ SentinelInv
  BY PledgeIsOf, PledgeIsOfNext
  DEF CommandEffect, SafePledge, SafeSentinel, ExclusionInv, TypeOK, CommandTypeOK, Command,
      RequestSpenders, RequestHolders
<1>h. /\ c \in Spenders <=> cmd[c].pc \in {"gateway", "release"}
      /\ c \in Spenders' <=> cmd'[c].pc \in {"gateway", "release"}
      /\ Spenders' \ {c} = Spenders \ {c}
      /\ \A d \in Spenders \ {c} : cmd'[d].amt = cmd[d].amt
  BY <1>0 DEF Spenders, Onward
<1>s. ASSUME c \notin Spenders, c \notin Spenders', UNCHANGED <<order.refundAmt, TotalPaid>>,
             Owing' = Owing, UNCHANGED order.owed
      PROVE  PromiseMoves
  <2>1. Spenders' = Spenders
    <3>1. Spenders' \ {c} = Spenders \ {c}
      BY <1>h
    <3>2. \A d : d \in Spenders' <=> d \in Spenders
      BY <3>1, <1>s
    <3> QED
      BY <3>2
  <2>2. Pledged' = Pledged
    BY <1>0, <1>h, <1>s, <2>1, PledgeStands
  <2> QED
    BY <1>s, <2>2 DEF PromiseMoves, Pledged_vars
<1>g. ASSUME c \in Spenders, c \notin Spenders', Deferred' => Deferred
      PROVE  Pledged' = 0
  <2>1. Spenders' = {} /\ RequestSpenders' = {} /\ ~Owing
    BY <1>0, <1>h, <1>g DEF PledgeOf
  <2> QED
    BY <1>0, <1>g, <2>1, NothingOwedNext, PledgeGone
<1>a. c \in Spenders => Pledged = cmd[c].amt /\ Pledged > 0 /\ Pledged \in Int
  BY <1>0, SpendersAreHolders DEF PledgeOf, AmountsHeld
<1>1. CASE Aside(c)
  <2>1. UNCHANGED <<order.refundID, order.owed, paid, order.refundAmt>>
    BY <1>1 DEF Aside, Columns
  <2> QED
    BY <1>1, <1>h, <1>s, <2>1, OwingStands DEF Aside, ClaimPhases
<1>2. CASE Reserves(c)
  <2>1. LiveHolders = {} /\ ~Sealed
    BY <1>0, <1>2 DEF Reserves, Exclusive, Sealed
  <2>2. Spenders = {} /\ RequestSpenders = {} /\ ~Owing
    BY <2>1, SpendersAreHolders, NothingOwed DEF LiveHolders, SafePledge
  <2>3. Pledged = 0
    BY <1>0, <2>2 DEF PledgeOf
  <2>4. Pledged' = cmd'[c].amt
    BY <1>0, <1>2, <1>h DEF PledgeOf, Reserves, At
  <2>5. cmd'[c].amt \in 1 .. Remaining(order)
    BY <1>0, <1>2, BookedRemains, CommandAssumption DEF Reserves
  <2>6. order'.refundAmt = order.refundAmt + cmd'[c].amt /\ UNCHANGED TotalPaid
    BY <1>2 DEF Reserves, TotalPaid
  <2> QED
    BY <2>3, <2>4, <2>5, <2>6 DEF BooksAlone, PromiseMoves
<1>3. CASE CallsGateway(c)
  <2>1. PICK answer \in {"ok", "error"} :
          /\ GatewayCall(ScopeKey(Scope[c]), cmd[c].amt, answer)
          /\ cmd'[c].pc = IF answer = "ok" THEN "finalize" ELSE "release"
    BY <1>3 DEF CallsGateway
  <2>2. c \in Spenders
    BY <1>3, <1>h DEF CallsGateway, At
  <2>3. Answered(ScopeKey(Scope[c]), Pledged, answer)
    BY <1>0, <1>a, <2>1, <2>2, CallAnswers DEF PaysAsBooked
  <2>4. UNCHANGED <<order.refundAmt, order.refundID>> /\ cmd'[c].amt = cmd[c].amt
    BY <1>3 DEF CallsGateway, Columns
  <2>5. answer = "ok" => Pledged' = 0
    BY <1>g, <1>h, <2>1, <2>2, <2>4 DEF Deferred
  <2>6. answer # "ok" => Pledged' = Pledged
    BY <1>0, <1>a, <1>h, <2>1, <2>2, <2>4 DEF PledgeOf
  <2> QED
    BY <1>a, <2>2, <2>3, <2>4, <2>5, <2>6, AnswerSends
<1>4. CASE Finalizes(c)
  <2>1. UNCHANGED <<order.refundID, order.owed, paid, order.refundAmt>>
    BY <1>4 DEF Finalizes, BookColumns
  <2> QED
    BY <1>4, <1>h, <1>s, <2>1, OwingStands DEF Finalizes, At
<1>5. CASE Abandons(c)
  <2>1. UNCHANGED <<order.refundID, order.owed, paid, order.refundAmt>> /\ c \notin Spenders'
    BY <1>5, <1>h DEF Abandons, Columns, At
  <2>2. CASE c \in Spenders
    <3>1. Pledged' = 0 /\ UNCHANGED TotalPaid
      BY <1>g, <2>1, <2>2 DEF Deferred, TotalPaid
    <3> QED
      BY <1>a, <2>1, <2>2, <3>1 DEF Pledge!Abandon, PromiseMoves
  <2>3. CASE c \notin Spenders
    BY <1>s, <2>1, <2>3, OwingStands
  <2> QED
    BY <2>2, <2>3
<1>6. CASE GivesBack(c)
  <2>1. c \in Spenders /\ c \notin Spenders' /\ UNCHANGED <<order.refundID, paid>>
        /\ order'.refundAmt = order.refundAmt - cmd[c].amt
    BY <1>6, <1>h DEF GivesBack, At
  <2>2. Pledged' = 0 /\ UNCHANGED TotalPaid
    BY <1>g, <2>1 DEF Deferred, TotalPaid
  <2> QED
    BY <1>a, <2>1, <2>2 DEF Pledge!GiveBack, PromiseMoves
<1>7. CASE Stamps(c)
  <2>1. FullPaid \/ Over
    BY <1>0, <1>7 DEF Stamps, SentinelInv, Earned
  <2>2. ~Owing /\ (Deferred' => Deferred)
    BY <1>7, <2>1 DEF Over, Owing, FullPaid, Stamps, Deferred
  <2>3. ~Owing'
    BY <2>2, NothingOwedNext
  <2>4. Owing' = Owing
    BY <2>2, <2>3 DEF Owing
  <2>5. UNCHANGED <<order.refundAmt, TotalPaid, order.owed>> /\ c \notin Spenders /\ c \notin Spenders'
    BY <1>7, <1>h DEF Stamps, At, TotalPaid
  <2> QED
    BY <1>s, <2>4, <2>5
<1> QED
  BY <1>1, <1>2, <1>3, <1>4, <1>5, <1>6, <1>7 DEF CommandEffect

LEMMA RequestPledges ==
  ASSUME PaysAsBooked, SafePledge, SafePledge', Kept, NEW r \in Requests, RequestEffect(r),
         Kind[r] # "line"
  PROVE  PromiseMoves
<1>0. /\ OnwardReq(r) /\ UNCHANGED cmd /\ Spenders' = Spenders /\ Kind[r] # "line"
      /\ Exclusive /\ HeldIsAmount /\ TypeOK /\ CommandTypeOK /\ req[r].amt \in Int
      /\ PledgeOf /\ PledgeOf' /\ SentinelInv /\ Kind[r] \in Kinds
  BY PledgeIsOf, PledgeIsOfNext, RequestAssumption
  DEF RequestEffect, SafePledge, SafeSentinel, ExclusionInv, TypeOK, Request, Spenders
<1>h. /\ r \in RequestSpenders <=>
           /\ req[r].amt > 0
           /\ req[r].pc \in {"cancel", "release"} \/ (req[r].pc = "pay" /\ Kind[r] # "chefcancel")
      /\ r \in RequestSpenders' <=>
           /\ req'[r].amt > 0
           /\ req'[r].pc \in {"cancel", "release"} \/ (req'[r].pc = "pay" /\ Kind[r] # "chefcancel")
      /\ RequestSpenders' \ {r} = RequestSpenders \ {r}
      /\ \A s \in RequestSpenders \ {r} : req'[s].amt = req[s].amt
  BY <1>0 DEF RequestSpenders, RequestHolders, OnwardReq
<1>p. req[r].pc \in Paying => req[r].amt > 0 /\ r \in RequestHolders
  BY <1>0 DEF HeldIsAmount, RequestHolders, Paying
<1>s. ASSUME r \notin RequestSpenders, r \notin RequestSpenders',
             UNCHANGED <<order.refundAmt, TotalPaid>>, Owing' = Owing, Owing => UNCHANGED order.owed
      PROVE  PromiseMoves
  <2>1. RequestSpenders' = RequestSpenders
    BY <1>h, <1>s
  <2>2. Pledged' = Pledged
    BY <1>0, <1>h, <1>s, <2>1, PledgeStands
  <2> QED
    BY <1>s, <2>2 DEF PromiseMoves, Pledged_vars
<1>g. ASSUME r \in RequestSpenders, r \notin RequestSpenders', Deferred' => Deferred
      PROVE  Pledged' = 0
  <2>1. RequestSpenders' = {} /\ Spenders' = {} /\ ~Owing
    BY <1>0, <1>h, <1>g DEF PledgeOf
  <2> QED
    BY <1>0, <1>g, <2>1, NothingOwedNext, PledgeGone
<1>a. r \in RequestSpenders => Pledged = req[r].amt /\ Pledged > 0 /\ Pledged \in Int
  BY <1>0, <1>h DEF PledgeOf
<1>1. CASE StandsBy(r)
  <2>1. UNCHANGED <<order.refundID, order.owed, paid, order.refundAmt>>
        /\ r \notin RequestSpenders /\ r \notin RequestSpenders'
    BY <1>1, <1>h, SpendersAreHolders DEF StandsBy, Same, Columns
  <2> QED
    BY <1>s, <2>1, OwingStands
<1>2. CASE TakesClaim(r)
  <2>1. LiveHolders = {} /\ ~Sealed
    BY <1>0, <1>2 DEF TakesClaim, Exclusive, Sealed
  <2>2. Spenders = {} /\ RequestSpenders = {} /\ ~Owing
    BY <2>1, SpendersAreHolders, NothingOwed DEF LiveHolders, SafePledge
  <2>3. Pledged = 0
    BY <1>0, <2>2 DEF PledgeOf
  <2>4. req'[r].amt \in 1 .. Remaining(order)
    BY <1>0, <1>2, BookedRemains, RequestAssumption DEF TakesClaim
  <2>5. r \in RequestSpenders'
    <3>1. Remaining(order) \in Int
      BY <1>0, BookedRemains
    <3> QED
      BY <1>2, <1>h, <2>4, <3>1 DEF TakesClaim
  <2>6. Pledged' = req'[r].amt
    BY <1>0, <2>5 DEF PledgeOf
  <2>7. order'.refundAmt = order.refundAmt + req'[r].amt /\ UNCHANGED TotalPaid
    BY <1>2 DEF TakesClaim, TotalPaid
  <2> QED
    BY <2>3, <2>4, <2>6, <2>7 DEF BooksAlone, PromiseMoves
<1>3. CASE Defers(r)
  <2>1. Kind[r] = "chefcancel" /\ r \in RequestSpenders /\ r \notin RequestSpenders'
    BY <1>0, <1>3, <1>h DEF Defers, SentinelInv, Earned, In
  <2>2. Spenders' = {} /\ RequestSpenders' = {}
    BY <1>0, <1>h, <2>1 DEF PledgeOf
  <2>3. Pledged' = IF FullPaid THEN 0 ELSE req[r].amt
    BY <1>0, <1>3, <2>2 DEF Defers, PledgeOf, Owing, FullPaid, KeyPaid
  <2>4. UNCHANGED <<order.refundAmt, TotalPaid>>
    BY <1>3 DEF Defers, TotalPaid
  <2>5. CASE FullPaid
    BY <1>a, <2>1, <2>3, <2>4, <2>5 DEF Pledge!Abandon, PromiseMoves
  <2>6. CASE ~FullPaid
    BY <1>a, <2>1, <2>3, <2>4, <2>6 DEF PromiseMoves, Pledged_vars
  <2> QED
    BY <2>5, <2>6
<1>4. CASE Pays(r)
  <2>1. PICK answer \in {"ok", "error"} :
          Move(r, answer) /\ req'[r].pc = AfterPay(r, answer)
    BY <1>4 DEF Pays
  <2>2. UNCHANGED <<order.refundAmt, order.refundID, order.owed>> /\ req'[r].amt = req[r].amt
        /\ In(r, "pay") /\ r \in RequestHolders /\ req[r].amt > 0
    BY <1>4, <1>p DEF Pays, Columns, Amounts, In, Paying
  <2>3. CASE Kind[r] # "chefcancel"
    <3>1. r \in RequestSpenders
      BY <1>h, <2>2, <2>3 DEF In
    <3>2. PICK key : Answered(key, Pledged, answer)
      BY <1>0, <1>a, <2>1, <3>1, MoveAnswers
    <3>3. req'[r].pc = IF answer = "ok" THEN "persist" ELSE "release"
      BY <1>0, <2>1, <2>3 DEF AfterPay
    <3>4. answer = "ok" => Pledged' = 0
      BY <1>g, <1>h, <2>2, <3>1, <3>3 DEF Deferred
    <3>5. answer # "ok" => Pledged' = Pledged
      BY <1>0, <1>a, <1>h, <2>2, <3>1, <3>3 DEF PledgeOf
    <3> QED
      BY <1>a, <2>2, <3>1, <3>2, <3>4, <3>5, AnswerSends
  <2>4. CASE Kind[r] = "chefcancel"
    <3>1. Answered(FullKey, req[r].amt, answer)
      BY <1>0, <2>1, <2>4, MoveAnswers
    <3>2. r \notin RequestSpenders /\ r \notin RequestSpenders' /\ Spenders = {} /\ RequestSpenders = {}
      <4>1. r \notin RequestSpenders
        BY <2>2, <2>4, SpendersAreHolders
      <4>2. req'[r].pc \in {"swap", "done"}
        BY <2>1, <2>4 DEF AfterPay
      <4>3. \A s \in RequestHolders : s = r
        BY <1>0, <2>2 DEF Exclusive
      <4>4. CommandHolders = {}
        BY <1>0, <2>2 DEF Exclusive
      <4> QED
        BY <1>h, <4>1, <4>2, <4>3, <4>4, SpendersAreHolders
    <3>3. CASE FullPaid
      <4>1. UNCHANGED paid
        BY <3>1, <3>3 DEF Answered, FullPaid
      <4> QED
        BY <1>s, <2>2, <3>2, <4>1, OwingStands
    <3>4. CASE ~FullPaid
      <4>1. Owing /\ Pledged = req[r].amt
        BY <1>0, <2>2, <2>4, <3>2, <3>4
        DEF SafePledge, PledgeInv, ChefOwes, Owing, FullPaid, Deferred, PledgeOf
      <4>2. RequestSpenders' = {} /\ Spenders' = {}
        BY <1>0, <1>h, <3>2
      <4>3. answer = "ok" => Pledged' = 0
        <5>1. answer = "ok" => ~Owing'
          BY <3>1, <3>4 DEF Answered, Owing, FullPaid, KeyPaid
        <5> QED
          BY <1>0, <4>2, <5>1, PledgeGone
      <4>4. answer # "ok" => Pledged' = Pledged
        <5>1. answer # "ok" => UNCHANGED paid
          BY <3>1 DEF Answered
        <5>2. answer # "ok" => Owing'
          BY <2>2, <4>1, <5>1 DEF Owing, KeyPaid
        <5> QED
          BY <1>0, <2>2, <4>1, <4>2, <5>2, <3>2 DEF PledgeOf
      <4> QED
        BY <1>0, <2>2, <3>1, <4>1, <4>3, <4>4, AnswerSends
    <3> QED
      BY <3>3, <3>4
  <2> QED
    BY <2>3, <2>4
<1>5. CASE Swaps(r)
  <2>1. FullPaid /\ UNCHANGED <<paid, order.refundAmt, order.owed>>
    BY <1>0, <1>5 DEF Swaps, SentinelInv, Earned
  <2>2. Owing' = Owing /\ UNCHANGED TotalPaid
    BY <2>1 DEF Owing, FullPaid, KeyPaid, TotalPaid
  <2>3. r \notin RequestSpenders /\ r \notin RequestSpenders'
    BY <1>5, <1>h DEF Swaps, In
  <2> QED
    BY <1>s, <2>1, <2>2, <2>3
<1>6. CASE Ends(r)
  <2>1. r \in RequestHolders /\ In(r, "persist") /\ In(r, "done")' /\ (Deferred' => Deferred)
        /\ UNCHANGED <<paid, order.refundAmt, order.owed>>
    BY <1>0, <1>6, <1>p DEF Ends, In, Paying, Deferred
  <2>2. ~Sealed
    BY <2>1 DEF Sealed, In
  <2>3. ~Owing /\ ~Owing'
    BY <2>1, <2>2, NothingOwed, NothingOwedNext DEF SafePledge
  <2>4. Owing' = Owing /\ UNCHANGED TotalPaid
    BY <2>1, <2>3 DEF Owing, TotalPaid
  <2>5. r \notin RequestSpenders /\ r \notin RequestSpenders'
    BY <1>h, <2>1 DEF In
  <2> QED
    BY <1>s, <2>1, <2>4, <2>5
<1>7. CASE LetsGo(r)
  <2>1. req'[r].pc \in {"done", "reserve", "unclaim", "dead"}
        /\ UNCHANGED <<order.refundID, order.owed, paid, order.refundAmt>>
    BY <1>7 DEF LetsGo, Same, Columns
  <2>2. r \notin RequestSpenders'
    BY <1>h, <2>1
  <2>3. CASE r \in RequestSpenders
    <3>1. Pledged' = 0 /\ UNCHANGED TotalPaid
      BY <1>g, <2>1, <2>2, <2>3 DEF Deferred, TotalPaid
    <3> QED
      BY <1>a, <2>1, <2>3, <3>1 DEF Pledge!Abandon, PromiseMoves
  <2>4. CASE r \notin RequestSpenders
    BY <1>s, <2>1, <2>2, <2>4, OwingStands
  <2> QED
    BY <2>3, <2>4
<1>8. CASE Returns(r)
  <2>1. In(r, "release") /\ req'[r].pc \in {"reserve", "unclaim"}
        /\ UNCHANGED <<order.refundID, paid>> /\ order'.refundAmt = order.refundAmt - req[r].amt
    BY <1>8 DEF Returns
  <2>2. r \in RequestSpenders /\ r \notin RequestSpenders'
    BY <1>h, <1>p, <2>1 DEF In, Paying
  <2>3. Pledged' = 0 /\ UNCHANGED TotalPaid
    BY <1>g, <2>1, <2>2 DEF Deferred, TotalPaid
  <2> QED
    BY <1>a, <2>1, <2>2, <2>3 DEF Pledge!GiveBack, PromiseMoves
<1> QED
  BY <1>0, <1>1, <1>2, <1>3, <1>4, <1>5, <1>6, <1>7, <1>8 DEF RequestEffect, TakesLine, ReturnsLine

(* The deferred refund is what is pledged once nobody else holds it.       *)
LEMMA DeferredSends ==
  ASSUME SafePledge, SafePledge', "lost" \notin Faults, UNCHANGED <<cmd, req>>,
         Deferred \/ FullPaid, NEW answer, GatewayCall(FullKey, order.owed, answer),
         UNCHANGED <<order.refundAmt, order.owed>>,
         answer # "ok" => UNCHANGED order.refundID
  PROVE  PromiseMoves
<1>0. /\ CommandTypeOK /\ order.owed \in Int /\ PledgeOf /\ PledgeOf' /\ SentinelInv
      /\ Spenders' = Spenders /\ RequestSpenders' = RequestSpenders
      /\ (Deferred => order.owed > 0)
  BY PledgeIsOf, PledgeIsOfNext
  DEF SafePledge, SafeSentinel, TypeOK, CommandTypeOK, OrderRow, Spenders, RequestSpenders,
      RequestHolders, PledgeInv, OwedPositive
<1>1. Answered(FullKey, order.owed, answer)
  BY <1>0, CallAnswers
<1>2. CASE FullPaid
  <2>1. UNCHANGED paid
    BY <1>1, <1>2 DEF Answered, FullPaid
  <2>2. Owing' = Owing /\ ~Owing
    BY <1>2, <2>1 DEF Owing, FullPaid, KeyPaid
  <2>3. Pledged' = Pledged
    BY <1>0, <2>2, PledgeStands
  <2> QED
    BY <2>1, <2>3 DEF PromiseMoves, Pledged_vars, TotalPaid
<1>3. CASE ~FullPaid
  <2>1. Owing
    BY <1>3 DEF Owing, Deferred, FullPaid
  <2>2. Spenders = {} /\ RequestSpenders = {} /\ Pledged = order.owed
    BY <1>0, <2>1 DEF PledgeOf
  <2>3. answer = "ok" => Pledged' = 0
    <3>1. answer = "ok" => ~Owing'
      BY <1>1, <1>3 DEF Answered, Owing, FullPaid, KeyPaid
    <3> QED
      BY <1>0, <2>2, <3>1, PledgeGone
  <2>4. answer # "ok" => Pledged' = Pledged
    <3>1. answer # "ok" => Owing'
      BY <1>1, <2>1 DEF Answered, Owing, KeyPaid
    <3> QED
      BY <1>0, <2>2, <3>1 DEF PledgeOf
  <2> QED
    BY <1>0, <1>1, <1>3, <2>2, <2>3, <2>4, AnswerSends DEF Deferred
<1> QED
  BY <1>2, <1>3

LEMMA OthersPledge ==
  ASSUME PaysAsBooked, SafePledge, SafePledge', Kept, OtherEffect
  PROVE  PromiseMoves
<1>0. /\ UNCHANGED <<cmd, req>> /\ Spenders' = Spenders /\ RequestSpenders' = RequestSpenders
      /\ TypeOK /\ CommandTypeOK /\ PledgeOf /\ PledgeOf' /\ PledgeInv /\ SentinelInv
      /\ "lost" \notin Faults /\ paid.gateway \in Int /\ paid.wallet \in Int
  BY PledgeIsOf, PledgeIsOfNext
  DEF OtherEffect, SafePledge, SafeSentinel, TypeOK, CommandTypeOK, Spenders, RequestSpenders,
      RequestHolders, PaysAsBooked
<1>b. order.refundAmt \in Int /\ Remaining(order) \in Int
  BY <1>0, BookedRemains DEF CommandTypeOK, OrderRow
<1>s. ASSUME Owing' = Owing, Owing => UNCHANGED order.owed
      PROVE  Pledged' = Pledged
  BY <1>0, <1>s, PledgeStands
<1>g. ASSUME NEW key, NEW amount \in Int, amount > 0, amount <= Remaining(order), ~KeyPaid(key),
             Answered(key, amount, "ok"), order'.refundAmt = order.refundAmt + amount,
             UNCHANGED <<order.refundID, order.owed>>, key # FullKey
      PROVE  PromiseMoves
  <2>1. TotalPaid' = TotalPaid + amount /\ paid'.keys = paid.keys \union {key}
    BY <1>g DEF Answered
  <2>2. Owing' = Owing
    BY <1>g, <2>1 DEF Owing, KeyPaid
  <2>3. Pledged' = Pledged /\ amount \in 1 .. Remaining(order)
    BY <1>b, <1>g, <1>s, <2>2
  <2> QED
    BY <1>g, <2>1, <2>3 DEF BooksAndSends, PromiseMoves
<1>1. ASSUME NEW i \in Issues, Grants(i) PROVE PromiseMoves
  <2>1. CreditOf(i) \in Int
    BY <1>0, CreditBounds DEF TypeOK, CommandTypeOK
  <2>2. ~KeyPaid(WalletKey("issue", i))
    BY <1>0, <1>1 DEF PledgeInv, WalletFresh, Grants
  <2>3. Answered(WalletKey("issue", i), CreditOf(i), "ok")
    BY <1>0, <1>1, <2>1, CreditAnswers DEF Grants
  <2>4. WalletKey("issue", i) # FullKey
    BY KeysApart DEF FullKey
  <2> QED
    BY <1>1, <1>g, <2>1, <2>2, <2>3, <2>4 DEF Grants
<1>q. ASSUME UNCHANGED <<order.refundID, order.owed, paid, order.refundAmt>>
      PROVE  PromiseMoves
  BY <1>q, <1>s, OwingStands DEF PromiseMoves, Pledged_vars
<1>2. CASE Discusses
  BY <1>2, <1>q DEF Discusses, Columns
<1>3. CASE Retries
  <2>1. PICK answer \in {"ok", "error"} :
          /\ GatewayCall(FullKey, order.owed, answer)
          /\ order'.refundID = IF answer = "ok" THEN "settled" ELSE order.refundID
    BY <1>3 DEF Retries
  <2> QED
    BY <1>0, <1>3, <2>1, DeferredSends DEF Retries, Deferred
<1>4. CASE Flows
  <2>1. PICK answer \in {"ok", "error"} : GatewayCall(FullKey, order.owed, answer)
    BY <1>4 DEF Flows
  <2>2. Deferred \/ FullPaid
    BY <1>0, <1>4 DEF Flows, PledgeInv, FlowOwes
  <2> QED
    BY <1>0, <1>4, <2>1, <2>2, DeferredSends DEF Flows, Columns
<1>5. CASE FlowEnds
  <2>1. FullPaid /\ UNCHANGED <<paid, order.owed, order.refundAmt>>
    BY <1>0, <1>5 DEF FlowEnds, SentinelInv, Earned
  <2>2. Owing' = Owing /\ UNCHANGED TotalPaid
    BY <2>1 DEF Owing, FullPaid, KeyPaid, TotalPaid
  <2> QED
    BY <1>s, <2>1, <2>2 DEF PromiseMoves, Pledged_vars
<1>6. ASSUME NEW w \in Workers, Settles(w) PROVE PromiseMoves
  <2>1. PICK amount \in Int :
           /\ \/ amount = 0 /\ UNCHANGED paid /\ (job[w].owed = 0 \/ Claims(order))
              \/ /\ amount > 0 /\ amount <= Remaining(order) /\ Claims(order) /\ job[w].owed > 0
                 /\ Answered(WalletKey("cancel", 0), amount, "ok")
           /\ order'.pay = IF job[w].owed > 0 THEN "refunded" ELSE order.pay
           /\ order'.refundedAt /\ order'.refundAmt = order.refundAmt + amount
           /\ UNCHANGED <<order.refundID, order.total, order.perLine, order.owed>>
    BY <1>0, <1>6, SettledAnswers
  <2>2. CASE amount = 0
    <3>1. UNCHANGED order.refundAmt
      BY <1>b, <2>1, <2>2
    <3> QED
      BY <1>q, <2>1, <2>2, <3>1
  <2>3. CASE amount > 0
    <3>1. ~KeyPaid(WalletKey("cancel", 0))
      BY <1>0, <2>1, <2>3 DEF PledgeInv, WalletFresh, Shut, Claims
    <3>2. WalletKey("cancel", 0) # FullKey
      BY KeysApart DEF FullKey
    <3> QED
      BY <1>g, <2>1, <2>3, <3>1, <3>2
  <2> QED
    BY <2>1, <2>2, <2>3
<1>7. ASSUME NEW w \in Workers, RollsBack(w) PROVE PromiseMoves
  <2>1. UNCHANGED paid
    BY <1>7 DEF RollsBack, PaysAsBooked, CreditsOnly
  <2> QED
    BY <1>7, <1>q, <2>1 DEF RollsBack, Columns
<1>8. ~Adjusts
  BY DEF Adjusts, PaysAsBooked, CreditsOnly
<1>9. CASE FinishesStuck \/ FinishesFull
  <2>1. UNCHANGED <<paid, order.owed, order.refundAmt>> /\ Owing' = Owing
    BY <1>9 DEF FinishesStuck, FinishesFull, Recovers, RecoveredID, Owing, KeyPaid
  <2>2. Pledged' = Pledged
    BY <1>s, <2>1
  <2> QED
    BY <2>1, <2>2 DEF PromiseMoves, Pledged_vars, TotalPaid
<1> QED
  BY <1>1, <1>2, <1>3, <1>4, <1>5, <1>6, <1>7, <1>8, <1>9 DEF OtherEffect

(* Without line cancels what remains is what is left of the capture.       *)
LEMMA PlainPromise ==
  ASSUME TypeOK, Plain, PromiseMoves
  PROVE  Pledge!Next \/ UNCHANGED Pledged_vars
<1>1. Remaining(order) = Capture - order.refundAmt
  BY PlainRemaining
<1> QED
  BY <1>1 DEF PromiseMoves, BooksAlone, BooksAndSends, Pledge!Book, Pledge!BookAndSend, Pledge!Next

(* For any mix of paths that cancels no line, loses no answer, executes    *)
(* cancellations to store credit and leaves disputes alone, every path     *)
(* together keeps the promise the coordinator keeps alone: money is booked *)
(* before it is sent, one amount at a time, is sent at most once, and what *)
(* is given back was never sent.                                           *)
THEOREM PathsPromise ==
  ASSUME Honest
  PROVE  Spec => PathsKeepPromise
<1>1. Init => Pledge!Init
  <2> SUFFICES ASSUME Init PROVE Pledge!Init
    OBVIOUS
  <2>1. PledgeOf
    BY MoneyStart, PledgeIsOf DEF SafeMoney
  <2>2. CommandHolders = {} /\ RequestHolders = {} /\ ~Owing
    BY DEF Init, MoneyInit, CommandInit, NewCommand, HandlersInit, CommandHolders, ClaimPhases,
           RequestHolders, Owing
  <2>3. Spenders = {} /\ RequestSpenders = {}
    BY <2>2, SpendersAreHolders
  <2> QED
    BY <2>1, <2>2, <2>3 DEF PledgeOf, Init, MoneyInit, TotalPaid, Pledge!Init
<1>2. SafeMoney /\ [Next]_vars => SafeMoney'
  BY MoneyStep
<1>3. SafeMoney /\ SafeMoney' /\ [Next]_vars => [Pledge!Next]_(Pledge!vars)
  <2> SUFFICES ASSUME SafeMoney, SafeMoney', [Next]_vars
               PROVE  Pledge!Next \/ UNCHANGED Pledged_vars
    BY DEF Pledge!vars, Pledged_vars
  <2>1. Kept /\ TypeOK /\ ExclusionInv /\ Plain
    BY SentinelKeeps DEF SafeMoney, SafeSentinel
  <2>2. PaysAsBooked /\ NoLineCancels /\ SafePledge /\ SafePledge'
    BY HonestPays, MoneyIsPledge, MoneyIsPledgeNext
  <2>3. PromiseMoves
    BY <2>1, <2>2, Effects, CommandPledges, RequestPledges, OthersPledge DEF NoLineCancels
  <2> QED
    BY <2>1, <2>3, PlainPromise
<1> QED
  BY <1>1, <1>2, <1>3, MoneyStart, PTL DEF Spec, PathsKeepPromise, Pledge!Spec

(* So, of all paths together too, no customer gets back more than was      *)
(* captured.                                                               *)
THEOREM PathsNeverOverRefund ==
  ASSUME Honest
  PROVE  Spec => []NeverOverRefund
<1>1. Pledge!Safe => NeverOverRefund
  BY CaptureAssumption DEF Pledge!Safe, NeverOverRefund
<1>2. Pledge!Spec => []Pledge!Safe
  BY CaptureAssumption, Pledge!PromiseIsSafe
<1> QED
  BY <1>1, <1>2, PathsPromise, PTL DEF PathsKeepPromise
---------------------------------------------------------------------------
(* A line and the issues about it.  A line whose cancel is being paid is   *)
(* cancelled, one cancel at a time pays it, and once it is paid nobody     *)
(* gives it back.                                                          *)
Cancelling(r) == Kind[r] = "line" /\ req[r].pc \in {"pay", "release"}
Gone(i) == issue[i].names \intersect lines

LinesHeld ==
  /\ \A r \in Requests : Cancelling(r) => Target[r] \in lines
  /\ \A r, s \in Requests : Cancelling(r) /\ Cancelling(s) /\ Target[r] = Target[s] => r = s
  /\ \A l \in Lines : KeyPaid(LineKey(l)) =>
       l \in lines /\ \A r \in Requests : Cancelling(r) => Target[r] # l
CreditsCount ==
  \A i \in Issues : issue[i].credit > 0 /\ Gone(i) # {} =>
    issue[i].credit + ValueOf(Gone(i)) <= issue[i].asked
LineInv == LinesHeld /\ CreditsCount

(* What a step may do to them: nothing, but for the steps about lines.     *)
NoLineKey == \A l \in Lines : KeyPaid(LineKey(l))' => KeyPaid(LineKey(l))
LinesStand ==
  /\ UNCHANGED lines /\ NoLineKey
  /\ \A r \in Requests : Cancelling(r)' => Cancelling(r)
CreditsStand ==
  \A i \in Issues : issue'[i].credit > 0 =>
    UNCHANGED <<issue[i].credit, issue[i].asked, issue[i].names>>

LEMMA LinesStandStill ==
  ASSUME LineInv, LinesStand, CreditsStand
  PROVE  LineInv'
<1>1. LinesHeld'
  BY DEF LineInv, LinesHeld, LinesStand, NoLineKey
<1>2. CreditsCount'
  <2> SUFFICES ASSUME NEW i \in Issues, issue'[i].credit > 0, Gone(i)' # {}
               PROVE  issue'[i].credit + ValueOf(Gone(i)') <= issue'[i].asked
    BY DEF CreditsCount
  <2>1. UNCHANGED <<issue[i].credit, issue[i].asked>> /\ Gone(i)' = Gone(i)
    BY DEF CreditsStand, LinesStand, Gone
  <2> QED
    BY <2>1 DEF LineInv, CreditsCount
<1> QED
  BY <1>1, <1>2 DEF LineInv

(* A call under any other key.                                             *)
LEMMA OtherKeys ==
  ASSUME CommandTypeOK, NEW key, NEW amount, NEW answer, \A l : key # LineKey(l),
         \/ GatewayCall(key, amount, answer) \/ WalletCredit(key, amount, answer)
         \/ paid' = Credited(key, amount)
  PROVE  NoLineKey
<1>1. Sent(key, amount).keys \subseteq paid.keys \union {key}
  BY DEF Sent, CommandTypeOK
<1>2. Credited(key, amount).keys \subseteq paid.keys \union {key}
  BY DEF Credited, CommandTypeOK
<1>3. paid'.keys \subseteq paid.keys \union {key}
  BY <1>1, <1>2 DEF GatewayCall, WalletCredit
<1> QED
  BY <1>3 DEF NoLineKey, KeyPaid

(* Lines that are fewer are worth less.                                    *)
LEMMA ValueOfFewer ==
  ASSUME NEW A \in SUBSET Lines, NEW B \in SUBSET A
  PROVE  ValueOf(B) <= ValueOf(A)
<1>1. (A \ B) \in SUBSET Lines /\ B \in SUBSET Lines /\ (A \ B) \cap B = {} /\ (A \ B) \union B = A
  OBVIOUS
<1>2. ValueOf(A) = ValueOf(A \ B) + ValueOf(B)
  BY <1>1, ValueOfUnion
<1>3. ValueOf(A \ B) \in Nat /\ ValueOf(B) \in Nat
  BY <1>1, ValueOfType
<1> QED
  BY <1>2, <1>3

LEMMA ValueOfSome ==
  ASSUME NEW A \in SUBSET Lines, A # {}
  PROVE  ValueOf(A) \in Nat /\ ValueOf(A) > 0
<1>1. PICK l \in A : TRUE
  OBVIOUS
<1>2. ValueOf(A) = LineValue[l] + ValueOf(A \ {l})
  BY ValueOfRemove
<1>3. LineValue[l] \in Nat \ {0} /\ ValueOf(A \ {l}) \in Nat
  BY LineAssumption, ValueOfType
<1> QED
  BY <1>2, <1>3

LEMMA RequestLines ==
  ASSUME "lost" \notin Faults, SafeSentinel, LineInv, NEW r \in Requests, RequestMoves(r),
         UNCHANGED cmd
  PROVE  LineInv'
<1>0. /\ Shape /\ HeldIsAmount /\ CommandTypeOK /\ lines \subseteq Lines
      /\ OnwardReq(r) /\ req[r].amt \in Int /\ UNCHANGED issue /\ issue \in [Issues -> Issue]
      /\ LinesHeld /\ CreditsCount
  <2>1. /\ Shape /\ HeldIsAmount /\ TypeOK
    BY DEF SafeSentinel, ExclusionInv
  <2>2. OnwardReq(r)
    BY <2>1, RequestClaims, RequestAssumption
  <2>3. UNCHANGED issue
    BY DEF RequestMoves, RequestStep, Submit, RequestCrash, ReserveOrder, ReserveLine,
        PersistCancel, Pay, SwapSentinel, Persist, ReleaseOrder, ReleaseLine, Unclaim
  <2> QED
    BY <2>1, <2>2, <2>3 DEF TypeOK, Request, LineInv
<1>c. CreditsStand
  BY <1>0 DEF CreditsStand
<1>o. \A s \in Requests \ {r} : Cancelling(s)' <=> Cancelling(s)
  BY <1>0 DEF OnwardReq, Cancelling
<1>s. ASSUME UNCHANGED <<lines, paid>>, Cancelling(r)' => Cancelling(r)
      PROVE  LineInv'
  BY <1>c, <1>o, <1>s, LinesStandStill DEF LinesStand, NoLineKey, KeyPaid
<1>1. CASE Kind[r] # "line"
  <2>1. UNCHANGED lines /\ ~Cancelling(r)'
    BY <1>1 DEF RequestMoves, RequestStep, Submit, RequestCrash, ReserveOrder, ReserveLine, tables,
        PersistCancel, Pay, SwapSentinel, Persist, ReleaseOrder, ReleaseLine, Unclaim, Cancelling
  <2>2. NoLineKey
    <3>1. paid' = paid \/ \E answer : Move(r, answer)
      BY DEF RequestMoves, RequestStep, Submit, RequestCrash, ReserveOrder, ReserveLine, tables,
        PersistCancel, Pay, SwapSentinel, Persist, ReleaseOrder, ReleaseLine, Unclaim
    <3>2. ASSUME NEW answer, Move(r, answer) PROVE NoLineKey
      <4>1. \E key, amount : /\ \A l : key # LineKey(l)
                             /\ GatewayCall(key, amount, answer) \/ WalletCredit(key, amount, answer)
        BY <1>1, <3>2, LineKeysApart, RequestAssumption DEF Move, Kinds, FullKey
      <4> QED
        BY <1>0, <4>1, OtherKeys
    <3> QED
      BY <3>1, <3>2 DEF NoLineKey, KeyPaid
  <2> QED
    BY <1>c, <1>o, <2>1, <2>2, LinesStandStill DEF LinesStand
<1>2. CASE Kind[r] = "line" /\ ~ReserveLine(r) /\ ~Pay(r) /\ ~ReleaseLine(r)
  <2>1. Submit(r) \/ Unclaim(r) \/ RequestCrash(r)
    <3>1. ~PersistCancel(r) /\ ~SwapSentinel(r)
      BY <1>2 DEF PersistCancel, SwapSentinel, SafeSentinel, SentinelInv, Earned
    <3>2. ~Persist(r)
      BY <1>0, <1>2 DEF Persist, In, HeldIsAmount, Keyed
    <3> QED
      BY <1>2, <3>1, <3>2 DEF RequestMoves, RequestStep, ReserveOrder, ReleaseOrder
  <2>2. UNCHANGED <<lines, paid>>
    BY <2>1 DEF Submit, Unclaim, RequestCrash, tables
  <2>3. \E p \in {"done", "reserve", "dead"} : Step(r, p)
    BY <1>2, <2>1 DEF Submit, Unclaim, RequestCrash, Keyed
  <2>4. ~Cancelling(r)'
    BY <1>0, <2>3, StepMoves DEF Cancelling
  <2> QED
    BY <1>s, <2>2, <2>4
<1>3. CASE Kind[r] = "line" /\ ReserveLine(r)
  <2> DEFINE l == Target[r]
  <2>0. l \in Lines /\ UNCHANGED paid /\ ~Cancelling(r)
    BY <1>3, RequestAssumption DEF ReserveLine, Cancelling, In
  <2>1. CASE Step(r, "done") /\ UNCHANGED lines
    BY <1>0, <1>s, <2>0, <2>1, StepMoves DEF Cancelling
  <2>2. CASE /\ ~RefundedViaIssue(l) /\ l \notin lines /\ lines' = lines \union {l}
    <3>1. LinesHeld'
      BY <1>0, <1>3, <1>o, <2>0, <2>2 DEF LinesHeld, Cancelling, KeyPaid
    <3>2. \A i \in Issues : issue'[i].credit > 0 => Gone(i)' = Gone(i)
      BY <1>0, <2>2 DEF RefundedViaIssue, Gone
    <3> QED
      BY <1>0, <3>1, <3>2 DEF LineInv, CreditsCount
  <2> QED
    BY <1>3, <2>1, <2>2 DEF ReserveLine
<1>4. CASE Kind[r] = "line" /\ Pay(r)
  <2>1. PICK answer \in {"ok", "error"} : Move(r, answer) /\ Step(r, AfterPay(r, answer))
    BY <1>4 DEF Pay
  <2>2. Cancelling(r) /\ UNCHANGED lines /\ Target[r] \in Lines
    BY <1>4, RequestAssumption DEF Pay, Cancelling, In
  <2>3. req'[r].pc = IF answer = "ok" THEN "done" ELSE "release"
    BY <1>0, <1>4, <2>1, StepMoves DEF AfterPay
  <2>4. Answered(LineKey(Target[r]), req[r].amt, answer)
    BY <1>0, <1>4, <2>1, CallAnswers DEF Move
  <2>5. CASE answer = "ok"
    <3>1. ~Cancelling(r)'
      BY <2>3, <2>5 DEF Cancelling
    <3>2. \A l \in Lines : KeyPaid(LineKey(l))' => KeyPaid(LineKey(l)) \/ l = Target[r]
      BY <2>4, LineKeysApart DEF Answered, KeyPaid
    <3>3. LinesHeld'
      BY <1>0, <1>o, <2>2, <3>1, <3>2 DEF LinesHeld
    <3>4. \A i \in Issues : Gone(i)' = Gone(i)
      BY <1>0, <2>2 DEF Gone
    <3> QED
      BY <1>0, <3>3, <3>4 DEF LineInv, CreditsCount
  <2>6. CASE answer = "error"
    <3>1. UNCHANGED paid
      BY <2>4, <2>6 DEF Answered
    <3> QED
      BY <1>s, <2>2, <3>1
  <2> QED
    BY <2>5, <2>6
<1>5. CASE Kind[r] = "line" /\ ReleaseLine(r)
  <2>1. /\ Cancelling(r) /\ Target[r] \in Lines /\ UNCHANGED paid /\ Step(r, "done")
        /\ lines' = lines \/ lines' = lines \ {Target[r]}
    BY <1>5, RequestAssumption DEF ReleaseLine, Cancelling, In
  <2>2. ~Cancelling(r)'
    BY <1>0, <2>1, StepMoves DEF Cancelling
  <2>3. LinesHeld'
    BY <1>0, <1>o, <2>1, <2>2 DEF LinesHeld, KeyPaid
  <2>4. CreditsCount'
    <3> SUFFICES ASSUME NEW i \in Issues, issue'[i].credit > 0, Gone(i)' # {}
                 PROVE  issue'[i].credit + ValueOf(Gone(i)') <= issue'[i].asked
      BY DEF CreditsCount
    <3>1. Gone(i)' \in SUBSET Gone(i) /\ Gone(i) \in SUBSET Lines /\ Gone(i)' \in SUBSET Lines
      BY <1>0, <2>1 DEF Gone
    <3>2. issue[i].credit + ValueOf(Gone(i)) <= issue[i].asked
      BY <1>0, <3>1 DEF CreditsCount
    <3>3. ValueOf(Gone(i)') <= ValueOf(Gone(i))
      BY <3>1, ValueOfFewer
    <3>4. ValueOf(Gone(i)) \in Nat /\ ValueOf(Gone(i)') \in Nat
      BY <3>1, ValueOfType
    <3>5. issue[i].credit \in Int /\ issue[i].asked \in Int
      BY <1>0 DEF Issue
    <3>6. issue' = issue
      BY <1>0
    <3> DEFINE v == ValueOf(Gone(i))
               w == ValueOf(Gone(i)')
    <3> HIDE DEF v, w
    <3>7. issue[i].credit + v <= issue[i].asked /\ w <= v /\ v \in Nat /\ w \in Nat
      BY <3>2, <3>3, <3>4 DEF v, w
    <3>8. issue[i].credit + w <= issue[i].asked
      BY <3>5, <3>7
    <3> QED
      BY <3>6, <3>8 DEF w
  <2> QED
    BY <2>3, <2>4 DEF LineInv
<1> QED
  BY <1>1, <1>2, <1>3, <1>4, <1>5

(* Nobody else cancels a line or pays one.                                 *)
LEMMA NoLineTouched ==
  ASSUME SafeSentinel, LineInv, UNCHANGED <<lines, req, issue>>,
         \/ UNCHANGED paid
         \/ \E key, amount, answer : /\ \A l : key # LineKey(l)
                                     /\ \/ GatewayCall(key, amount, answer)
                                        \/ WalletCredit(key, amount, answer)
  PROVE  LineInv'
<1>1. CommandTypeOK
  BY DEF SafeSentinel, TypeOK
<1>2. NoLineKey
  BY <1>1, OtherKeys DEF NoLineKey, KeyPaid
<1>3. LinesStand /\ CreditsStand
  BY <1>2 DEF LinesStand, CreditsStand, Cancelling
<1> QED
  BY <1>3, LinesStandStill

LEMMA CommandLines ==
  ASSUME SafeSentinel, LineInv, Coordinator
  PROVE  LineInv'
<1>1. PICK c \in Commands : Load(c) \/ CommandStep(c) \/ CommandCrash(c)
  BY DEF Coordinator
<1>2. UNCHANGED <<lines, req, issue>>
  BY <1>1 DEF Coordinator, handlerVars, Load, CommandStep, CommandCrash, CancelFirst, ReplayCheck,
      Reserve, Classify, CallGateway, Finalize, ReleaseClaim, MarkFailed, StampRefundID, VoidOrder, tables
<1>3. UNCHANGED paid \/ \E answer : GatewayCall(ScopeKey(Scope[c]), cmd[c].amt, answer)
  BY <1>1 DEF Load, CommandStep, CommandCrash, CancelFirst, ReplayCheck,
      Reserve, Classify, CallGateway, Finalize, ReleaseClaim, MarkFailed, StampRefundID, VoidOrder, tables
<1> QED
  BY <1>2, <1>3, LineKeysApart, NoLineTouched

LEMMA CancellationLines ==
  ASSUME SafeSentinel, LineInv, Cancellation
  PROVE  LineInv'
<1>1. UNCHANGED <<req, issue>>
  BY DEF Cancellation, handlerVars
<1>2. \/ \E w \in Workers : Execute(w)
      \/ AdminAdjust
      \/ UNCHANGED tables
  BY DEF Cancellation, CancellationNext, RequestCancellation, VendorDecide, VendorSave, VendorTimeout,
         Dispute, AdminReview, AdminResolve, SweepOwed, WorkerCrash
<1>3. ASSUME NEW w \in Workers, Execute(w) PROVE LineInv'
  <2>1. UNCHANGED lines
    BY <1>3 DEF Execute, ExecuteLost, ExecuteNothing, ExecutePaid, ExecuteRolledBack, tables
  <2>2. UNCHANGED paid \/ \E answer : PayCancellation(w, answer)
    BY <1>3 DEF Execute, ExecuteLost, ExecuteNothing, ExecutePaid, ExecuteRolledBack, tables
  <2>3. ASSUME NEW answer, PayCancellation(w, answer)
        PROVE  \E key, amount : /\ \A l : key # LineKey(l)
                                /\ GatewayCall(key, amount, answer) \/ WalletCredit(key, amount, answer)
    BY <2>3, LineKeysApart DEF PayCancellation, FullKey
  <2>4. UNCHANGED paid \/ \E key, amount, answer :
          /\ \A l : key # LineKey(l)
          /\ GatewayCall(key, amount, answer) \/ WalletCredit(key, amount, answer)
    BY <2>2, <2>3
  <2> QED
    BY <1>1, <2>1, <2>4, NoLineTouched
<1>4. CASE AdminAdjust
  <2>1. UNCHANGED lines
    BY <1>4 DEF AdminAdjust
  <2>2. UNCHANGED paid \/ \E amount, answer : WalletCredit(WalletKey("adjust", 0), amount, answer)
    BY <1>4 DEF AdminAdjust
  <2> QED
    BY <1>1, <2>1, <2>2, LineKeysApart, NoLineTouched
<1>5. CASE UNCHANGED tables
  BY <1>1, <1>5, NoLineTouched DEF tables
<1> QED
  BY <1>2, <1>3, <1>4, <1>5

(* A credit that is given counts the lines gone since the report, and from *)
(* then on no line it names can be cancelled.                              *)
LEMMA IssueLines ==
  ASSUME SafeSentinel, LineInv, UNCHANGED cmd, NEW i \in Issues,
         ReportIssue(i) \/ ResolveIssue(i) \/ RejectIssue(i)
  PROVE  LineInv'
<1>0. CommandTypeOK /\ order \in OrderRow /\ issue \in [Issues -> Issue] /\ lines \subseteq Lines
  BY DEF SafeSentinel, TypeOK, CommandTypeOK
<1>1. CASE ReportIssue(i) \/ RejectIssue(i)
  <2>1. UNCHANGED <<lines, req, paid>>
    BY <1>1 DEF ReportIssue, RejectIssue, tables
  <2>2. LinesStand
    BY <2>1 DEF LinesStand, NoLineKey, KeyPaid, Cancelling
  <2>3. CreditsStand
    <3>1. CASE RejectIssue(i)
      BY <1>0, <3>1 DEF RejectIssue, CreditsStand, Issue
    <3>2. CASE ReportIssue(i)
      <4>1. issue'[i].credit = 0 /\ \A j \in Issues \ {i} : issue'[j] = issue[j]
        BY <1>0, <3>2 DEF ReportIssue
      <4> QED
        BY <4>1 DEF CreditsStand
    <3> QED
      BY <1>1, <3>1, <3>2
  <2> QED
    BY <2>2, <2>3, LinesStandStill
<1>2. CASE ResolveIssue(i)
  <2> DEFINE credit == CreditOf(i)
  <2>1. /\ UNCHANGED <<lines, req>> /\ credit > 0 /\ paid' = Credited(WalletKey("issue", i), credit)
        /\ issue' = [issue EXCEPT ![i].st = "resolved", ![i].credit = credit]
    BY <1>2 DEF ResolveIssue
  <2> HIDE DEF credit
  <2>2. /\ issue'[i].credit = credit /\ UNCHANGED <<issue[i].asked, issue[i].names>>
        /\ \A j \in Issues \ {i} : issue'[j] = issue[j]
    BY <1>0, <2>1 DEF Issue
  <2>3. NoLineKey
    BY <1>0, <2>1, LineKeysApart, OtherKeys
  <2>4. LinesHeld'
    BY <2>1, <2>3 DEF LineInv, LinesHeld, NoLineKey, Cancelling
  <2>5. Gone(i) # {} => credit + ValueOf(Gone(i)) <= issue[i].asked
    <3> SUFFICES ASSUME Gone(i) # {} PROVE credit + ValueOf(Gone(i)) <= issue[i].asked
      OBVIOUS
    <3>1. Gone(i) \in SUBSET Lines /\ issue[i] \in Issue /\ issue[i].asked \in Int
      BY <1>0 DEF Gone, Issue
    <3>2. ValueOf(Gone(i)) \in Nat /\ ValueOf(Gone(i)) > 0
      BY <3>1, ValueOfSome
    <3>3. credit \in Int /\ (ValueOf(Gone(i)) > 0 /\ credit > 0 => credit <= issue[i].asked - ValueOf(Gone(i)))
      BY <1>0, <3>1, CreditBounds DEF Gone, credit
    <3> QED
      BY <2>1, <3>1, <3>2, <3>3
  <2>6. CreditsCount'
    <3> SUFFICES ASSUME NEW j \in Issues, issue'[j].credit > 0, Gone(j)' # {}
                 PROVE  issue'[j].credit + ValueOf(Gone(j)') <= issue'[j].asked
      BY DEF CreditsCount
    <3>1. Gone(j)' = Gone(j)
      BY <2>1, <2>2 DEF Gone
    <3>2. CASE j = i
      BY <2>2, <2>5, <3>1, <3>2
    <3>3. CASE j # i
      BY <2>2, <3>1, <3>3 DEF LineInv, CreditsCount
    <3> QED
      BY <3>2, <3>3
  <2> QED
    BY <2>4, <2>6 DEF LineInv
<1> QED
  BY <1>1, <1>2

LEMMA LineStep ==
  ASSUME "lost" \notin Faults
  PROVE  SafeSentinel /\ LineInv /\ [Next]_vars => LineInv'
<1> SUFFICES ASSUME SafeSentinel, LineInv, [Next]_vars PROVE LineInv'
  OBVIOUS
<1>1. CASE Handlers
  <2>1. CASE RetryDeferred \/ FlowPay \/ FlowPersist
    <3>1. UNCHANGED <<lines, req, issue>>
      BY <2>1 DEF RetryDeferred, FlowPay, FlowPersist, handlerVars
    <3>2. UNCHANGED paid \/ \E answer : GatewayCall(FullKey, order.owed, answer)
      BY <2>1 DEF RetryDeferred, FlowPay, FlowPersist
    <3> QED
      BY <3>1, <3>2, LineKeysApart, NoLineTouched DEF FullKey
  <2> QED
    BY <1>1, <2>1, RequestLines, IssueLines DEF Handlers, HandlersNext, RequestMoves
<1>2. CASE Kitchen \/ FinalizeStuckRefund \/ FinalizeGatewayFullRefund \/ UNCHANGED vars
  <2>1. UNCHANGED <<lines, req, issue, paid>>
    BY <1>2 DEF Kitchen, AcceptOrder, DeliverOrder, FinalizeStuckRefund, FinalizeGatewayFullRefund,
                vars, tables, handlerVars
  <2> QED
    BY <2>1, NoLineTouched
<1> QED
  BY <1>1, <1>2, CommandLines, CancellationLines DEF Next

LEMMA LineStart == Init => LineInv
<1> SUFFICES ASSUME Init PROVE LineInv
  OBVIOUS
<1>1. paid.keys = {} /\ lines = {} /\ \A r \in Requests : req[r].pc = "idle"
  BY DEF Init, MoneyInit, HandlersInit
<1>2. \A i \in Issues : issue[i].credit = 0
  BY DEF Init, HandlersInit
<1> QED
  BY <1>1, <1>2 DEF LineInv, LinesHeld, CreditsCount, Cancelling, KeyPaid

(* Whatever the mix of paths, crashes and failed writes: once a line is    *)
(* paid back by its own cancel, what an issue credits for it and for the   *)
(* lines beside it stays within what the issue asked for, less what those  *)
(* lines' cancels paid.  An unanswered payment is excluded: a line's       *)
(* cancel that was paid and not answered gives its line back.              *)
THEOREM LinesRefundedOnce ==
  ASSUME "lost" \notin Faults
  PROVE  Spec => []LineRefundedOnce
<1>1. Init => LineInv
  BY LineStart
<1>2. SafeSentinel /\ LineInv => LineRefundedOnce
  <2> SUFFICES ASSUME SafeSentinel, LineInv, NEW i \in Issues, issue[i].credit > 0,
                      NEW ls, ls = {l \in issue[i].names : KeyPaid(LineKey(l))}, ls # {}
               PROVE  issue[i].credit + ValueOf(ls) <= issue[i].asked
    BY DEF LineRefundedOnce
  <2>1. /\ issue[i] \in Issue /\ issue[i].names \subseteq Lines /\ lines \subseteq Lines
        /\ issue[i].credit \in Int /\ issue[i].asked \in Int
    BY DEF SafeSentinel, TypeOK, Issue
  <2>2. ls \in SUBSET Gone(i) /\ Gone(i) \in SUBSET Lines /\ ls \in SUBSET Lines
    BY <2>1 DEF Gone, LineInv, LinesHeld
  <2>3. issue[i].credit + ValueOf(Gone(i)) <= issue[i].asked
    BY <2>2 DEF LineInv, CreditsCount
  <2>4. ValueOf(ls) <= ValueOf(Gone(i)) /\ ValueOf(ls) \in Nat /\ ValueOf(Gone(i)) \in Nat
    BY <2>2, ValueOfFewer, ValueOfType
  <2> QED
    BY <2>1, <2>3, <2>4
<1>3. Spec => []SafeSentinel
  BY SentinelInvariant
<1>4. SafeSentinel /\ LineInv /\ [Next]_vars => LineInv'
  BY LineStep
<1> QED
  BY <1>1, <1>2, <1>3, <1>4, PTL DEF Spec
---------------------------------------------------------------------------
(* Line cancels book beside the claim, several at a time.  What they have  *)
(* booked and not yet sent or given back counts with what is pledged.      *)
LinesDue == {Target[r] : r \in {q \in Requests : Cancelling(q)}}
DueIsValue == \A r \in Requests : Cancelling(r) => req[r].amt = LineValue[Target[r]]
BookedFirst == TotalPaid + Pledged + ValueOf(LinesDue) <= order.refundAmt
RecordInv == SafePledge /\ LineInv /\ DueIsValue /\ BookedFirst

LEMMA LinesDueType == LinesDue \in SUBSET Lines /\ LinesDue' \in SUBSET Lines
<1>1. \A r \in Requests : Kind[r] = "line" => Target[r] \in Lines
  BY RequestAssumption
<1> QED
  BY <1>1 DEF LinesDue, Cancelling

LEMMA DueWorth ==
  /\ ValueOf(LinesDue) \in Nat /\ ValueOf(LinesDue') \in Nat
  /\ LinesDue' \subseteq LinesDue => ValueOf(LinesDue') <= ValueOf(LinesDue)
<1>1. LinesDue \in SUBSET Lines /\ LinesDue' \in SUBSET Lines
  BY LinesDueType
<1>2. ASSUME NEW A \in SUBSET Lines, NEW B \in SUBSET A PROVE ValueOf(B) <= ValueOf(A)
  BY ValueOfFewer
<1>3. ASSUME NEW A \in SUBSET Lines PROVE ValueOf(A) \in Nat
  BY ValueOfType
<1> QED
  BY <1>1, <1>2, <1>3

(* The amounts are whole, and what is pledged is not negative.             *)
AmountsWhole ==
  TotalPaid \in Int /\ order.refundAmt \in Int /\ Pledged \in Int /\ Pledged >= 0

LEMMA PledgedAmounts == SafePledge => AmountsWhole
<1> SUFFICES ASSUME SafePledge PROVE AmountsWhole
  OBVIOUS
<1>1. /\ CommandTypeOK /\ req \in [Requests -> Request] /\ PledgeOf
      /\ order.refundAmt \in Int /\ order.owed \in Int
  BY PledgeIsOf DEF SafePledge, SafeSentinel, TypeOK, CommandTypeOK, OrderRow
<1>2. TotalPaid \in Int
  BY <1>1 DEF CommandTypeOK, TotalPaid
<1>3. \A c \in Spenders : cmd[c].amt \in Int /\ cmd[c].amt > 0
  BY <1>1, SpendersAreHolders DEF CommandTypeOK, Command, SafePledge, AmountsHeld, CommandHolders
<1>4. \A r \in RequestSpenders : req[r].amt \in Int /\ req[r].amt > 0
  BY <1>1 DEF RequestSpenders, RequestHolders, Request
<1>5. Owing => order.owed > 0
  BY DEF SafePledge, PledgeInv, OwedPositive, Owing, Deferred
<1> QED
  BY <1>1, <1>2, <1>3, <1>4, <1>5 DEF PledgeOf, AmountsWhole

LEMMA PledgedAmountsNext == SafePledge' => AmountsWhole'
  BY PledgedAmounts, PTL

(* A step of the promise books what it pledges or sends.                   *)
LEMMA PromiseKeepsBooked ==
  ASSUME SafePledge, SafePledge', BookedFirst, PromiseMoves, LinesDue' \subseteq LinesDue
  PROVE  BookedFirst'
<1> DEFINE due == ValueOf(LinesDue)
           left == ValueOf(LinesDue')
<1>1. due \in Int /\ left \in Int /\ left <= due
  BY DueWorth
<1>2. TotalPaid + Pledged + due <= order.refundAmt
  BY DEF BookedFirst
<1>3. /\ TotalPaid \in Int /\ order.refundAmt \in Int /\ Pledged \in Int
      /\ TotalPaid' \in Int /\ order'.refundAmt \in Int /\ Pledged' \in Int
  BY PledgedAmounts, PledgedAmountsNext DEF AmountsWhole
<1>4. TotalPaid' + Pledged' - order'.refundAmt <= TotalPaid + Pledged - order.refundAmt
  BY <1>3 DEF PromiseMoves, BooksAlone, BooksAndSends, Pledge!Send, Pledge!GiveBack, Pledge!Abandon,
              Pledged_vars
<1> HIDE DEF due, left
<1>5. TotalPaid' + Pledged' + left <= order'.refundAmt
  BY <1>1, <1>2, <1>3, <1>4
<1> QED
  BY <1>5 DEF BookedFirst, left

(* A line's cancel pledges nothing, and settles only its own line.         *)
LEMMA LineRequest ==
  ASSUME SafePledge, NEW r \in Requests, RequestEffect(r), Kind[r] = "line"
  PROVE  /\ OnwardReq(r) /\ Target[r] \in Lines
         /\ StandsBy(r) \/ TakesLine(r) \/ Pays(r) \/ LetsGo(r) \/ ReturnsLine(r)
         /\ UNCHANGED <<order.refundID, order.owed>>
<1>1. /\ OnwardReq(r) /\ Target[r] \in Lines /\ HeldIsAmount /\ SentinelInv
  BY RequestAssumption DEF RequestEffect, SafePledge, SafeSentinel, ExclusionInv
<1>2. ~In(r, "cancel") /\ ~In(r, "swap") /\ ~In(r, "persist")
  BY <1>1 DEF SentinelInv, Earned, HeldIsAmount, In, Keyed
<1>3. StandsBy(r) \/ TakesLine(r) \/ Pays(r) \/ LetsGo(r) \/ ReturnsLine(r)
  BY <1>2 DEF RequestEffect, TakesClaim, Defers, Swaps, Ends, Returns
<1>4. UNCHANGED <<order.refundID, order.owed>>
  BY <1>3 DEF StandsBy, TakesLine, Pays, LetsGo, ReturnsLine, Same, Columns
<1> QED
  BY <1>1, <1>3, <1>4

LEMMA LinePledgesNothing ==
  ASSUME PaysAsBooked, SafePledge, SafePledge', NEW r \in Requests, RequestEffect(r),
         Kind[r] = "line", UNCHANGED <<order.refundID, order.owed>>
  PROVE  Pledged' = Pledged
<1>1. /\ OnwardReq(r) /\ UNCHANGED cmd /\ PledgeOf /\ PledgeOf' /\ CommandTypeOK /\ TypeOK
  BY PledgeIsOf, PledgeIsOfNext DEF RequestEffect, SafePledge, SafeSentinel, TypeOK
<1>2. /\ Spenders' = Spenders /\ RequestSpenders' = RequestSpenders
      /\ \A s \in RequestSpenders : req'[s].amt = req[s].amt
  BY <1>1 DEF Spenders, RequestSpenders, RequestHolders, OnwardReq
<1>3. FullPaid' = FullPaid
  <2>1. paid' = paid \/ \E answer : Move(r, answer)
    BY DEF RequestEffect, StandsBy, Same, TakesClaim, TakesLine, Defers, Pays, Swaps, Ends,
           LetsGo, Returns, ReturnsLine
  <2>2. paid' = paid \/ paid'.keys = paid.keys \/ paid'.keys = paid.keys \union {LineKey(Target[r])}
    BY <1>1, <2>1, MoveAnswers DEF Answered
  <2> QED
    BY <2>2, LineKeysApart DEF FullPaid, KeyPaid, FullKey
<1>4. Owing' = Owing
  BY <1>3 DEF Owing, FullPaid
<1> QED
  BY <1>1, <1>2, <1>4, PledgeStands

(* So a step of a line's cancel that books n leaves it due.                *)
LEMMA LineKeepsBooked ==
  ASSUME PaysAsBooked, RecordInv, SafePledge', NEW r \in Requests, RequestEffect(r), Kind[r] = "line"
  PROVE  BookedFirst' /\ DueIsValue'
<1>0. /\ SafePledge /\ LinesHeld /\ DueIsValue /\ BookedFirst /\ CommandTypeOK /\ TypeOK
      /\ req \in [Requests -> Request]
  BY DEF RecordInv, LineInv, SafePledge, SafeSentinel, TypeOK
<1>1. /\ OnwardReq(r) /\ Target[r] \in Lines
      /\ StandsBy(r) \/ TakesLine(r) \/ Pays(r) \/ LetsGo(r) \/ ReturnsLine(r)
      /\ Pledged' = Pledged
  BY <1>0, LineRequest, LinePledgesNothing DEF RecordInv
<1>c. \A s \in Requests \ {r} : (Cancelling(s)' <=> Cancelling(s)) /\ req'[s] = req[s]
  BY <1>1 DEF OnwardReq, Cancelling
<1>v. DueIsValue'
  <2>1. Cancelling(r)' => req'[r].amt = LineValue[Target[r]]
    BY <1>0, <1>1 DEF StandsBy, TakesLine, Pays, LetsGo, ReturnsLine, Cancelling, DueIsValue, Amounts, In
  <2> QED
    BY <1>0, <1>c, <2>1 DEF DueIsValue
<1>t. /\ TotalPaid \in Int /\ order.refundAmt \in Int /\ Pledged \in Int
      /\ TotalPaid' \in Int /\ order'.refundAmt \in Int
      /\ TotalPaid + Pledged + ValueOf(LinesDue) <= order.refundAmt
      /\ LineValue[Target[r]] \in Nat
  BY <1>0, <1>1, PledgedAmounts, PledgedAmountsNext, LineAssumption DEF AmountsWhole, BookedFirst
<1>w. ValueOf(LinesDue) \in Nat /\ ValueOf(LinesDue') \in Nat
  BY DueWorth
<1>f. LinesDue' \subseteq LinesDue \union {Target[r]} /\ (~Cancelling(r)' => LinesDue' \subseteq LinesDue)
  BY <1>c DEF LinesDue
<1>k. Cancelling(r) =>
        \A s \in Requests : Cancelling(s) /\ Target[s] = Target[r] => s = r
  BY <1>0 DEF LinesHeld
(* The line leaves what is due, when its cancel does.                      *)
<1>l. ASSUME Cancelling(r), ~Cancelling(r)'
      PROVE  ValueOf(LinesDue) = LineValue[Target[r]] + ValueOf(LinesDue')
  <2>1. LinesDue' = LinesDue \ {Target[r]} /\ Target[r] \in LinesDue
    BY <1>c, <1>k, <1>l DEF LinesDue
  <2> QED
    BY <2>1, LinesDueType, ValueOfRemove
<1>s. ASSUME LinesDue' \subseteq LinesDue, UNCHANGED <<TotalPaid, order.refundAmt>>
      PROVE  BookedFirst'
  BY <1>0, <1>1, <1>s, PromiseKeepsBooked DEF RecordInv, PromiseMoves, Pledged_vars
<1>2. CASE StandsBy(r) \/ LetsGo(r)
  <2>1. ~Cancelling(r)' /\ UNCHANGED <<TotalPaid, order.refundAmt>>
    BY <1>2 DEF StandsBy, LetsGo, Same, Columns, Cancelling, TotalPaid
  <2> QED
    BY <1>f, <1>s, <1>v, <2>1
<1>3. CASE TakesLine(r)
  <2> DEFINE v == LineValue[Target[r]]
             due == ValueOf(LinesDue)
             left == ValueOf(LinesDue')
  <2>1. order'.refundAmt = order.refundAmt + v /\ TotalPaid' = TotalPaid
    BY <1>3 DEF TakesLine, TotalPaid
  <2>2. left <= due + v
    <3>1. CASE LinesDue' \subseteq LinesDue
      BY <1>t, <1>w, <3>1, DueWorth
    <3>2. CASE ~(LinesDue' \subseteq LinesDue)
      <4>1. Target[r] \in LinesDue' /\ LinesDue' \ {Target[r]} \in SUBSET LinesDue
        BY <1>f, <3>2
      <4>2. left = v + ValueOf(LinesDue' \ {Target[r]})
        BY <4>1, LinesDueType, ValueOfRemove
      <4>3. ValueOf(LinesDue' \ {Target[r]}) <= due /\ ValueOf(LinesDue' \ {Target[r]}) \in Nat
        BY <4>1, LinesDueType, ValueOfFewer, ValueOfType
      <4> HIDE DEF v, due, left
      <4>4. v \in Nat /\ due \in Nat /\ left \in Nat
        BY <1>t, <1>w DEF v, due, left
      <4> QED
        BY <4>2, <4>3, <4>4
    <3> QED
      BY <3>1, <3>2
  <2>3. v \in Nat /\ due \in Nat /\ left \in Nat /\ TotalPaid + Pledged + due <= order.refundAmt
    BY <1>t, <1>w
  <2> HIDE DEF v, due, left
  <2>4. TotalPaid' + Pledged' + left <= order'.refundAmt
    BY <1>1, <1>t, <2>1, <2>2, <2>3
  <2> QED
    BY <1>v, <2>4 DEF BookedFirst, left
<1>4. CASE Pays(r)
  <2>1. PICK answer \in {"ok", "error"} : Move(r, answer) /\ req'[r].pc = AfterPay(r, answer)
    BY <1>4 DEF Pays
  <2>2. Cancelling(r) /\ UNCHANGED order.refundAmt /\ req[r].amt = LineValue[Target[r]]
    BY <1>0, <1>4 DEF Pays, In, Cancelling, Columns, DueIsValue
  <2>3. Answered(LineKey(Target[r]), LineValue[Target[r]], answer)
    BY <1>0, <2>1, <2>2, MoveAnswers
  <2>4. ~KeyPaid(LineKey(Target[r]))
    BY <1>0, <1>1, <2>2 DEF LinesHeld
  <2>5. CASE answer = "ok"
    <3>1. ~Cancelling(r)' /\ TotalPaid' = TotalPaid + LineValue[Target[r]]
      BY <2>1, <2>3, <2>4, <2>5 DEF AfterPay, Answered, Cancelling
    <3>2. ValueOf(LinesDue) = LineValue[Target[r]] + ValueOf(LinesDue')
      BY <1>l, <2>2, <3>1
    <3> DEFINE v == LineValue[Target[r]]
               due == ValueOf(LinesDue)
               left == ValueOf(LinesDue')
    <3>3. /\ v \in Nat /\ due \in Nat /\ left \in Nat /\ TotalPaid + Pledged + due <= order.refundAmt
          /\ due = v + left /\ TotalPaid' = TotalPaid + v
      BY <1>t, <1>w, <3>1, <3>2
    <3> HIDE DEF v, due, left
    <3>4. TotalPaid' + Pledged' + left <= order'.refundAmt
      BY <1>1, <1>t, <2>2, <3>3
    <3> QED
      BY <1>v, <3>4 DEF BookedFirst, left
  <2>6. CASE answer = "error"
    <3>1. UNCHANGED paid
      BY <2>3, <2>6 DEF Answered
    <3>2. LinesDue' \subseteq LinesDue
      BY <1>f, <2>2 DEF LinesDue
    <3> QED
      BY <1>s, <1>v, <2>2, <3>1, <3>2 DEF TotalPaid
  <2> QED
    BY <2>5, <2>6
<1>5. CASE ReturnsLine(r)
  <2>1. Cancelling(r) /\ ~Cancelling(r)' /\ UNCHANGED TotalPaid /\ req[r].amt = LineValue[Target[r]]
    BY <1>0, <1>5 DEF ReturnsLine, In, Cancelling, TotalPaid, DueIsValue
  <2>2. PICK n \in {0, LineValue[Target[r]]} : order'.refundAmt = order.refundAmt - n
    BY <1>5, <2>1 DEF ReturnsLine
  <2>3. ValueOf(LinesDue) = LineValue[Target[r]] + ValueOf(LinesDue')
    BY <1>l, <2>1
  <2> DEFINE v == LineValue[Target[r]]
             due == ValueOf(LinesDue)
             left == ValueOf(LinesDue')
  <2>4. /\ v \in Nat /\ due \in Nat /\ left \in Nat /\ TotalPaid + Pledged + due <= order.refundAmt
        /\ due = v + left /\ n \in {0, v}
    BY <1>t, <1>w, <2>2, <2>3
  <2> HIDE DEF v, due, left
  <2>5. TotalPaid' + Pledged' + left <= order'.refundAmt
    BY <1>1, <1>t, <2>1, <2>2, <2>4
  <2> QED
    BY <1>v, <2>5 DEF BookedFirst, left
<1> QED
  BY <1>1, <1>2, <1>3, <1>4, <1>5

LEMMA RecordStep ==
  ASSUME PaysAsBooked
  PROVE  RecordInv /\ [Next]_vars => RecordInv'
<1> SUFFICES ASSUME RecordInv, [Next]_vars PROVE RecordInv'
  OBVIOUS
<1>0. /\ SafePledge /\ SafeSentinel /\ LineInv /\ DueIsValue /\ BookedFirst /\ Kept
      /\ TypeOK /\ ExclusionInv
  BY SentinelKeeps DEF RecordInv, SafePledge, SafeSentinel
<1>1. SafePledge' /\ LineInv'
  BY <1>0, PledgeStep, LineStep DEF PaysAsBooked
<1>s. ASSUME PromiseMoves, \A s \in Requests : Cancelling(s)' => Cancelling(s) /\ req'[s].amt = req[s].amt
      PROVE  DueIsValue' /\ BookedFirst'
  <2>1. LinesDue' \subseteq LinesDue
    BY <1>s DEF LinesDue
  <2>2. DueIsValue'
    BY <1>0, <1>s DEF DueIsValue
  <2> QED
    BY <1>0, <1>1, <1>s, <2>1, <2>2, PromiseKeepsBooked
<1>2. ASSUME NEW c \in Commands, CommandEffect(c) PROVE DueIsValue' /\ BookedFirst'
  <2>1. PromiseMoves
    BY <1>0, <1>1, <1>2, CommandPledges
  <2> QED
    BY <1>2, <1>s, <2>1 DEF CommandEffect, Cancelling
<1>3. ASSUME NEW r \in Requests, RequestEffect(r), Kind[r] # "line" PROVE DueIsValue' /\ BookedFirst'
  <2>1. PromiseMoves
    BY <1>0, <1>1, <1>3, RequestPledges
  <2>2. \A s \in Requests \ {r} : req'[s] = req[s]
    BY <1>3 DEF RequestEffect, OnwardReq
  <2> QED
    BY <1>3, <1>s, <2>1, <2>2 DEF Cancelling
<1>4. ASSUME OtherEffect PROVE DueIsValue' /\ BookedFirst'
  <2>1. PromiseMoves
    BY <1>0, <1>1, <1>4, OthersPledge
  <2>2. UNCHANGED req
    BY <1>4 DEF OtherEffect
  <2>3. \A s \in Requests : Cancelling(s)' => Cancelling(s) /\ req'[s].amt = req[s].amt
    BY <2>2 DEF Cancelling
  <2> QED
    BY <1>s, <2>1, <2>3
<1>5. DueIsValue' /\ BookedFirst'
  <2>1. ASSUME NEW r \in Requests, RequestEffect(r) PROVE DueIsValue' /\ BookedFirst'
    BY <1>1, <1>3, <2>1, LineKeepsBooked
  <2> QED
    BY <1>0, <1>2, <1>4, <2>1, Effects
<1> QED
  BY <1>1, <1>5 DEF RecordInv

(* Nothing is sent that refund_amount does not count: for every mix of     *)
(* paths, line cancels and issues included, that loses no answer, executes *)
(* cancellations to store credit and leaves disputes alone, however its    *)
(* steps interleave, crash or fail to be written.                          *)
THEOREM PathsRecordPaid ==
  ASSUME PaysAsBooked
  PROVE  Spec => []PaidIsRecorded
<1>1. Init => RecordInv
  <2> SUFFICES ASSUME Init PROVE RecordInv
    OBVIOUS
  <2>1. SafePledge /\ LineInv
    BY MoneyStart, MoneyIsPledge, LineStart
  <2>2. \A r \in Requests : ~Cancelling(r)
    BY DEF Init, HandlersInit, Cancelling
  <2>3. ValueOf(LinesDue) = 0
    <3>1. LinesDue = {}
      BY <2>2 DEF LinesDue
    <3>2. IsFiniteSet(LinesDue)
      BY <3>1, FS_EmptySet
    <3> QED
      BY <3>1, <3>2, ValueOfStep
  <2>4. Pledged = 0
    <3>1. CommandHolders = {} /\ RequestHolders = {} /\ ~Owing
      BY DEF Init, MoneyInit, CommandInit, NewCommand, HandlersInit, CommandHolders, ClaimPhases,
             RequestHolders, Owing
    <3> QED
      BY <3>1, SpendersAreHolders DEF Pledged
  <2>5. BookedFirst
    BY <2>3, <2>4 DEF Init, MoneyInit, TotalPaid, BookedFirst
  <2> QED
    BY <2>1, <2>2, <2>5 DEF RecordInv, DueIsValue
<1>2. RecordInv => PaidIsRecorded
  <2> SUFFICES ASSUME RecordInv PROVE PaidIsRecorded
    OBVIOUS
  <2>1. AmountsWhole /\ TotalPaid + Pledged + ValueOf(LinesDue) <= order.refundAmt
    BY PledgedAmounts DEF RecordInv, BookedFirst
  <2>2. ValueOf(LinesDue) \in Nat
    BY DueWorth
  <2> DEFINE due == ValueOf(LinesDue)
  <2> HIDE DEF due
  <2>3. due \in Nat /\ TotalPaid + Pledged + due <= order.refundAmt
    BY <2>1, <2>2 DEF due
  <2> QED
    BY <2>1, <2>3 DEF PaidIsRecorded, AmountsWhole
<1> QED
  BY <1>1, <1>2, RecordStep, PTL DEF Spec
---------------------------------------------------------------------------
(* The key of a partial refund is what the order had booked before it.     *)
(* What is booked and no longer anybody's to give back only grows, and the *)
(* keys that were used lie below it: the next one is new.                  *)
Firm == order.refundAmt - Pledged
RefundKey(r) ==
  IF Kind[r] = "wallet" THEN WalletKey("refund", req[r].prior) ELSE PartialKey(req[r].prior)
UsedBelow ==
  \A p \in Int : KeyPaid(PartialKey(p)) \/ KeyPaid(WalletKey("refund", p)) => p < Firm
KeyedFresh ==
  \A r \in Requests : Kind[r] \in Keyed /\ In(r, "pay") =>
    req[r].prior <= Firm /\ ~KeyPaid(RefundKey(r))

LEMMA FirmArithmetic ==
  ASSUME NEW b \in Int, NEW c \in Int, NEW h \in Nat, NEW k \in Nat, NEW s \in Int, NEW t \in Int,
         \/ c = b /\ t = s /\ k = h
         \/ h = 0 /\ c = b + k /\ t = s
         \/ h > 0 /\ k = 0 /\ c = b /\ t = s + h
         \/ h > 0 /\ k = 0 /\ c = b - h /\ t = s
         \/ h > 0 /\ k = 0 /\ c = b /\ t = s
         \/ k = h /\ c > b
  PROVE  /\ b - h \in Int /\ c - k \in Int /\ b - h <= c - k
         /\ c = b /\ t # s => b - h < c - k
  OBVIOUS

LEMMA FirmGrows ==
  ASSUME Pledge!Safe, Pledge!Safe', Pledge!Next \/ UNCHANGED Pledged_vars
  PROVE  /\ Firm \in Int /\ Firm' \in Int /\ Firm <= Firm'
         /\ UNCHANGED order.refundAmt /\ TotalPaid' # TotalPaid => Firm < Firm'
<1> DEFINE b == order.refundAmt
           h == Pledged
           s == TotalPaid
<1>1. /\ b \in Int /\ b' \in Int /\ h \in Nat /\ h' \in Nat /\ s \in Int /\ s' \in Int
      /\ Firm = b - h /\ Firm' = b' - h'
  BY DEF Pledge!Safe, Firm
<1>2. \/ b' = b /\ s' = s /\ h' = h
      \/ h = 0 /\ b' = b + h' /\ s' = s
      \/ h > 0 /\ h' = 0 /\ b' = b /\ s' = s + h
      \/ h > 0 /\ h' = 0 /\ b' = b - h /\ s' = s
      \/ h > 0 /\ h' = 0 /\ b' = b /\ s' = s
      \/ h' = h /\ b' > b
  <2>1. CASE Pledge!BookAndSend
    <3>1. PICK n \in 1 .. (Capture - b) : b' = b + n /\ h' = h
      BY <2>1 DEF Pledge!BookAndSend
    <3>2. n \in Int /\ n > 0
      BY <1>1, CaptureAssumption
    <3> QED
      BY <1>1, <3>1, <3>2
  <2>2. CASE Pledge!Book
    BY <2>2 DEF Pledge!Book
  <2> QED
    BY <2>1, <2>2 DEF Pledge!Next, Pledge!Send, Pledge!GiveBack, Pledge!Abandon, Pledged_vars
<1> QED
  BY <1>1, <1>2, FirmArithmetic

(* A step that uses no such key and starts no such payment.                *)
LEMMA KeysStayFresh ==
  ASSUME UsedBelow, KeyedFresh, Firm \in Int, Firm' \in Int, Firm <= Firm', TypeOK,
         \A p \in Int : /\ KeyPaid(PartialKey(p))' => KeyPaid(PartialKey(p))
                        /\ KeyPaid(WalletKey("refund", p))' => KeyPaid(WalletKey("refund", p)),
         \A r \in Requests : Kind[r] \in Keyed /\ In(r, "pay")' =>
           In(r, "pay") /\ UNCHANGED req[r].prior
  PROVE  UsedBelow' /\ KeyedFresh'
<1>1. \A r \in Requests : req[r].prior \in Int
  BY DEF TypeOK, Request
<1>2. UsedBelow'
  BY DEF UsedBelow
<1>3. KeyedFresh'
  BY <1>1 DEF KeyedFresh, RefundKey
<1> QED
  BY <1>2, <1>3

(* The calls under the other keys.                                         *)
LEMMA NoRefundKey ==
  ASSUME NEW key, paid'.keys \subseteq paid.keys \union {key},
         \/ \E s : key = ScopeKey(s)
         \/ \E what, id : key = WalletKey(what, id) /\ what # "refund"
  PROVE  \A p : /\ KeyPaid(PartialKey(p))' => KeyPaid(PartialKey(p))
                /\ KeyPaid(WalletKey("refund", p))' => KeyPaid(WalletKey("refund", p))
  BY KeysApart DEF KeyPaid

FreshInv == SafeMoney /\ Pledge!Safe /\ UsedBelow /\ KeyedFresh

LEMMA CommandKeepsFresh ==
  ASSUME Honest, FreshInv, Firm \in Int, Firm' \in Int, Firm <= Firm',
         NEW c \in Commands, CommandEffect(c)
  PROVE  UsedBelow' /\ KeyedFresh'
<1>0. TypeOK /\ CommandTypeOK /\ UNCHANGED req /\ cmd[c].amt \in Int /\ "lost" \notin Faults
  BY DEF FreshInv, SafeMoney, SafeSentinel, TypeOK, CommandTypeOK, Command, CommandEffect, Honest
<1>1. paid'.keys \subseteq paid.keys \union {ScopeKey(Scope[c])}
  <2>1. UNCHANGED paid \/ \E answer : GatewayCall(ScopeKey(Scope[c]), cmd[c].amt, answer)
    BY DEF CommandEffect, Aside, Reserves, CallsGateway, Finalizes, Abandons, GivesBack, Stamps
  <2> QED
    BY <1>0, <2>1, CallAnswers, AnswerKeys
<1> QED
  BY <1>0, <1>1, NoRefundKey, KeysStayFresh DEF FreshInv, In

LEMMA OthersKeepFresh ==
  ASSUME Honest, FreshInv, Firm \in Int, Firm' \in Int, Firm <= Firm', OtherEffect
  PROVE  UsedBelow' /\ KeyedFresh'
<1>0. /\ TypeOK /\ CommandTypeOK /\ UNCHANGED req /\ order.owed \in Int /\ "lost" \notin Faults
      /\ \A i \in Issues : CreditOf(i) \in Int
  <2>1. TypeOK /\ CommandTypeOK /\ UNCHANGED req /\ order \in OrderRow /\ "lost" \notin Faults
    BY DEF FreshInv, SafeMoney, SafeSentinel, TypeOK, CommandTypeOK, OtherEffect, Honest
  <2> QED
    BY <2>1, CreditBounds DEF OrderRow, TypeOK
<1>1. \/ UNCHANGED paid
      \/ \E answer : GatewayCall(FullKey, order.owed, answer)
      \/ \E i \in Issues : paid' = Credited(WalletKey("issue", i), CreditOf(i))
      \/ \E w \in Workers : Settles(w)
  BY DEF OtherEffect, Discusses, Grants, Retries, Flows, FlowEnds, RollsBack, Adjusts, FinishesStuck,
         FinishesFull, Recovers, Honest, CreditsOnly
<1>2. \E key : /\ paid'.keys \subseteq paid.keys \union {key}
               /\ \/ \E s : key = ScopeKey(s)
                  \/ \E what, id : key = WalletKey(what, id) /\ what # "refund"
  <2>1. CASE UNCHANGED paid
    BY <2>1 DEF FullKey
  <2>2. ASSUME NEW answer, GatewayCall(FullKey, order.owed, answer)
        PROVE  paid'.keys \subseteq paid.keys \union {FullKey}
    BY <1>0, <2>2, CallAnswers, AnswerKeys
  <2>3. ASSUME NEW i \in Issues, paid' = Credited(WalletKey("issue", i), CreditOf(i))
        PROVE  paid'.keys \subseteq paid.keys \union {WalletKey("issue", i)}
    <3>1. Answered(WalletKey("issue", i), CreditOf(i), "ok")
      BY <1>0, <2>3, CreditAnswers
    <3> QED
      BY <3>1, AnswerKeys
  <2>4. ASSUME NEW w \in Workers, Settles(w)
        PROVE  paid'.keys \subseteq paid.keys \union {WalletKey("cancel", 0)}
    <3>1. UNCHANGED paid \/ \E amount \in Int : Answered(WalletKey("cancel", 0), amount, "ok")
      BY <1>0, <2>4, HonestPays, SettledAnswers
    <3> QED
      BY <3>1, AnswerKeys
  <2> QED
    BY SMTT(30), <1>1, <2>1, <2>2, <2>3, <2>4 DEF FullKey
<1> QED
  BY <1>0, <1>2, NoRefundKey, KeysStayFresh DEF FreshInv, In

(* A request's call uses its key up; only its own.                         *)
LEMMA KeyedCall ==
  ASSUME Honest, TypeOK, NEW r \in Requests, NEW answer, Move(r, answer), Kind[r] \in Keyed
  PROVE  Answered(RefundKey(r), req[r].amt, answer)
<1>1. CommandTypeOK /\ req[r].amt \in Int /\ "lost" \notin Faults
  BY DEF TypeOK, Request, Honest
<1>2. CASE Kind[r] = "wallet"
  BY <1>1, <1>2, CreditAnswers DEF Move, RefundKey
<1>3. CASE Kind[r] \in {"refund", "goodwill"}
  BY <1>1, <1>3, CallAnswers DEF Move, RefundKey
<1> QED
  BY <1>2, <1>3 DEF Keyed

LEMMA OneKeyed ==
  ASSUME ExclusionInv, NEW r \in Requests, NEW s \in Requests, Kind[r] \in Keyed, Kind[s] \in Keyed,
         In(r, "pay"), In(s, "pay")
  PROVE  r = s
<1>1. r \in RequestHolders /\ s \in RequestHolders
  BY DEF ExclusionInv, HeldIsAmount, Paying, In, Keyed, RequestHolders
<1> QED
  BY <1>1 DEF ExclusionInv, Exclusive

LEMMA RequestKeepsFresh ==
  ASSUME Honest, FreshInv, SafeMoney', Pledge!Safe', Pledge!Next \/ UNCHANGED Pledged_vars,
         NEW r \in Requests, RequestEffect(r)
  PROVE  UsedBelow' /\ KeyedFresh'
<1>0. /\ TypeOK /\ ExclusionInv /\ UsedBelow /\ KeyedFresh /\ OnwardReq(r) /\ SentinelInv
      /\ Firm \in Int /\ Firm' \in Int /\ Firm <= Firm' /\ UNCHANGED cmd
      /\ Kind[r] \in Kinds /\ Kind[r] # "line" /\ \A s \in Requests : req[s].prior \in Int
      /\ order.refundAmt \in Int /\ PledgeOf /\ PledgeOf' /\ Exclusive /\ req[r].amt \in Int
  BY FirmGrows, PledgeIsOf, PledgeIsOfNext, RequestAssumption
  DEF FreshInv, SafeMoney, SafeSentinel, RequestEffect, TypeOK, CommandTypeOK, OrderRow, Request,
      ExclusionInv, Honest, NoLineCancels
<1>o. \A s \in Requests \ {r} : UNCHANGED <<In(s, "pay"), req[s].prior>>
  BY <1>0 DEF OnwardReq, In
<1>u. ASSUME UNCHANGED paid, Kind[r] \in Keyed /\ In(r, "pay")' => In(r, "pay") /\ UNCHANGED req[r].prior
      PROVE  UsedBelow' /\ KeyedFresh'
  BY <1>0, <1>o, <1>u, KeysStayFresh DEF KeyPaid
<1>1. CASE StandsBy(r) \/ Swaps(r) \/ Ends(r) \/ LetsGo(r) \/ Returns(r) \/ Defers(r)
  <2>1. UNCHANGED paid
    BY <1>1 DEF StandsBy, Swaps, Ends, LetsGo, Returns, Defers, Same
  <2>2. ~(Kind[r] \in Keyed /\ In(r, "pay")')
    <3>1. In(r, "cancel") => Kind[r] = "chefcancel"
      BY <1>0 DEF SentinelInv, Earned
    <3> QED
      BY <1>1, <3>1 DEF StandsBy, Swaps, Ends, LetsGo, Returns, Defers, In, Keyed
  <2> QED
    BY <1>u, <2>1, <2>2
<1>2. CASE TakesClaim(r)
  <2>1. order.pay = "completed" /\ UNCHANGED paid /\ req'[r].prior = order.refundAmt
    BY <1>2 DEF TakesClaim
  <2>2. Pledged = 0
    <3>1. Spenders = {} /\ RequestSpenders = {}
      BY <1>0, <2>1, SpendersAreHolders DEF Exclusive, LiveHolders
    <3>2. ~Owing
      BY <2>1, NothingOwed DEF FreshInv, SafeMoney, Sealed
    <3> QED
      BY <1>0, <3>1, <3>2 DEF PledgeOf
  <2>3. Firm = order.refundAmt
    BY <1>0, <2>2 DEF Firm
  <2>4. UsedBelow'
    BY <1>0, <2>1 DEF UsedBelow, KeyPaid
  <2>5. \A s \in Requests \ {r} : Kind[s] \in Keyed /\ In(s, "pay")' =>
          req'[s].prior <= Firm' /\ ~KeyPaid(RefundKey(s))'
    BY <1>0, <1>o, <2>1 DEF KeyedFresh, RefundKey, KeyPaid
  <2>6. req'[r].prior <= Firm' /\ ~KeyPaid(RefundKey(r))'
    <3>1. ~KeyPaid(PartialKey(order.refundAmt)) /\ ~KeyPaid(WalletKey("refund", order.refundAmt))
      BY <1>0, <2>3 DEF UsedBelow
    <3> QED
      BY <1>0, <2>1, <2>3, <3>1 DEF RefundKey, KeyPaid
  <2> QED
    BY <2>4, <2>5, <2>6 DEF KeyedFresh
<1>3. CASE Pays(r)
  <2>1. PICK answer \in {"ok", "error"} : Move(r, answer) /\ req'[r].pc = AfterPay(r, answer)
    BY <1>3 DEF Pays
  <2>2. ~In(r, "pay")'
    BY <1>0, <2>1 DEF AfterPay, In
  <2>3. CASE Kind[r] \notin Keyed
    <3>1. \E key : /\ paid'.keys \subseteq paid.keys \union {key}
                   /\ \/ \E s : key = ScopeKey(s)
                      \/ \E what, id : key = WalletKey(what, id) /\ what # "refund"
      <4>1. Kind[r] = "chefcancel" \/ Kind[r] = "saga"
        BY <1>0, <2>3 DEF Kinds, Keyed
      <4>2. CASE Kind[r] = "chefcancel"
        BY <1>0, <2>1, <4>2, HonestPays, MoveAnswers, AnswerKeys DEF FullKey
      <4>3. CASE Kind[r] = "saga"
        <5>1. CommandTypeOK /\ WalletCredit(WalletKey("saga", 0), req[r].amt, answer)
          BY <1>0, <2>1, <4>3 DEF Move, TypeOK
        <5>2. Answered(WalletKey("saga", 0), req[r].amt, answer)
          BY <1>0, <5>1, CreditAnswers
        <5> QED
          BY <5>2, AnswerKeys
      <4> QED
        BY <4>1, <4>2, <4>3
    <3>2. \A s \in Requests : Kind[s] \in Keyed /\ In(s, "pay")' => In(s, "pay") /\ UNCHANGED req[s].prior
      BY <1>o, <2>2
    <3> QED
      BY <1>0, <3>1, <3>2, NoRefundKey, KeysStayFresh
  <2>4. CASE Kind[r] \in Keyed
    <3>1. In(r, "pay") /\ req[r].prior <= Firm /\ ~KeyPaid(RefundKey(r)) /\ UNCHANGED order.refundAmt
      BY <1>0, <1>3, <2>4 DEF Pays, KeyedFresh, Columns
    <3>2. Answered(RefundKey(r), req[r].amt, answer)
      BY <1>0, <2>1, <2>4, KeyedCall
    <3>3. \A s \in Requests : ~(Kind[s] \in Keyed /\ In(s, "pay")')
      BY <1>0, <1>o, <2>2, <2>4, <3>1, OneKeyed
    <3>4. CASE answer = "error"
      BY <1>u, <2>2, <3>2, <3>4 DEF Answered
    <3>5. CASE answer = "ok"
      <4>1. TotalPaid' = TotalPaid + req[r].amt /\ paid'.keys = paid.keys \union {RefundKey(r)}
        BY <3>1, <3>2, <3>5 DEF Answered
      <4>2. req[r].amt > 0 /\ TotalPaid \in Int
        BY <1>0, <2>4, <3>1 DEF ExclusionInv, HeldIsAmount, Paying, In, Keyed, TypeOK, CommandTypeOK,
                                TotalPaid
      <4>3. TotalPaid' # TotalPaid
        BY <1>0, <4>1, <4>2
      <4>4. Firm < Firm'
        BY <3>1, <4>3, FirmGrows DEF FreshInv
      <4>5. ASSUME NEW p \in Int,
                   KeyPaid(PartialKey(p))' \/ KeyPaid(WalletKey("refund", p))'
            PROVE  p < Firm'
        <5>1. CASE KeyPaid(PartialKey(p)) \/ KeyPaid(WalletKey("refund", p))
          BY <1>0, <5>1 DEF UsedBelow
        <5>2. CASE ~KeyPaid(PartialKey(p)) /\ ~KeyPaid(WalletKey("refund", p))
          <6>1. RefundKey(r) \in {PartialKey(p), WalletKey("refund", p)}
            BY <4>1, <4>5, <5>2 DEF KeyPaid
          <6>2. p = req[r].prior
            BY <6>1, KeysApart DEF RefundKey, PartialKey, WalletKey
          <6> QED
            BY <1>0, <3>1, <4>4, <6>2
        <5> QED
          BY <5>1, <5>2
      <4>6. UsedBelow'
        BY <4>5 DEF UsedBelow
      <4> QED
        BY <3>3, <4>6 DEF KeyedFresh
    <3> QED
      BY <2>1, <3>4, <3>5
  <2> QED
    BY <2>3, <2>4
<1> QED
  BY <1>0, <1>1, <1>2, <1>3 DEF RequestEffect, TakesLine, ReturnsLine


LEMMA MoneyInvariant ==
  ASSUME Honest
  PROVE  Spec => []SafeMoney
  BY MoneyStart, MoneyStep, PTL DEF Spec

LEMMA PledgeIsSafe ==
  ASSUME Honest
  PROVE  Spec => []Pledge!Safe
<1>1. Pledge!Spec => []Pledge!Safe
  BY CaptureAssumption, Pledge!PromiseIsSafe
<1> QED
  BY <1>1, PathsPromise, PTL DEF PathsKeepPromise

LEMMA FreshStep ==
  ASSUME Honest
  PROVE  FreshInv /\ SafeMoney' /\ Pledge!Safe' /\ [Next]_vars /\ [Pledge!Next]_(Pledge!vars)
           => UsedBelow' /\ KeyedFresh'
<1> SUFFICES ASSUME FreshInv, SafeMoney', Pledge!Safe', [Next]_vars, [Pledge!Next]_(Pledge!vars)
             PROVE  UsedBelow' /\ KeyedFresh'
  OBVIOUS
<1>1. Pledge!Next \/ UNCHANGED Pledged_vars
  BY DEF Pledge!vars, Pledged_vars
<1>2. Firm \in Int /\ Firm' \in Int /\ Firm <= Firm'
  BY <1>1, FirmGrows DEF FreshInv
<1>3. TypeOK /\ ExclusionInv
  BY DEF FreshInv, SafeMoney, SafeSentinel
<1> QED
  BY <1>1, <1>2, <1>3, Effects, CommandKeepsFresh, RequestKeepsFresh, OthersKeepFresh

LEMMA FreshInvariant ==
  ASSUME Honest
  PROVE  Spec => []FreshInv
<1>1. Init => UsedBelow /\ KeyedFresh
  BY DEF Init, MoneyInit, HandlersInit, UsedBelow, KeyedFresh, KeyPaid, In
<1>2. FreshInv <=> SafeMoney /\ Pledge!Safe /\ UsedBelow /\ KeyedFresh
  BY DEF FreshInv
<1>3. Spec => [][Pledge!Next]_(Pledge!vars)
  BY PathsPromise DEF PathsKeepPromise, Pledge!Spec
<1> QED
  BY <1>1, <1>2, <1>3, MoneyInvariant, PledgeIsSafe, FreshStep, PTL DEF Spec

(* Under the hypotheses of the promise: a refund, a wallet refund or a     *)
(* goodwill refund that goes on to its terminal write has just sent its    *)
(* own amount; the provider never answers it for an earlier refund whose   *)
(* key it repeats.                                                         *)
THEOREM RefundsMoveMoney ==
  ASSUME Honest
  PROVE  Spec => RefundMovesMoney
<1> DEFINE Moves == \A r \in Requests : Kind[r] \in Keyed /\ In(r, "pay") /\ In(r, "persist")'
                      => TotalPaid' = TotalPaid + req[r].amt
<1>1. FreshInv /\ [Next]_vars => Moves
  <2> SUFFICES ASSUME FreshInv, [Next]_vars, NEW r \in Requests, Kind[r] \in Keyed,
                      In(r, "pay"), In(r, "persist")'
               PROVE  TotalPaid' = TotalPaid + req[r].amt
    BY DEF Moves
  <2>1. TypeOK /\ ExclusionInv /\ KeyedFresh
    BY DEF FreshInv, SafeMoney, SafeSentinel
  <2>2. UNCHANGED req[r] => FALSE
    BY DEF In
  <2>3. RequestEffect(r)
    <3>1. ~OtherEffect /\ \A c \in Commands : ~CommandEffect(c)
      BY <2>2 DEF OtherEffect, CommandEffect
    <3>2. \A s \in Requests : RequestEffect(s) => s = r
      BY <2>2 DEF RequestEffect, OnwardReq
    <3> QED
      BY <2>1, <3>1, <3>2, Effects
  <2>4. Pays(r)
    BY <2>3 DEF RequestEffect, StandsBy, TakesClaim, TakesLine, Defers, Swaps, Ends, LetsGo, Returns,
                ReturnsLine, In, Keyed
  <2>5. PICK answer \in {"ok", "error"} : Move(r, answer) /\ req'[r].pc = AfterPay(r, answer)
    BY <2>4 DEF Pays
  <2>6. answer = "ok"
    BY <2>5 DEF AfterPay, In, Keyed
  <2>7. Answered(RefundKey(r), req[r].amt, answer) /\ ~KeyPaid(RefundKey(r))
    BY <2>1, <2>5, KeyedCall DEF KeyedFresh
  <2> QED
    BY <2>6, <2>7 DEF Answered
<1> HIDE DEF Moves
<1>2. Spec => [][Moves]_vars
  BY <1>1, FreshInvariant, PTL DEF Spec
<1> QED
  BY <1>2 DEF Moves, RefundMovesMoney
---------------------------------------------------------------------------
(* The books at rest.  Every command refunds in full, and nothing fails    *)
(* but a call the gateway turns down: then whoever holds an amount sends   *)
(* it or gives it back, because the key it sends under is new.             *)
Exacting ==
  /\ Honest /\ Faults \subseteq {"refused"}
  /\ \A c \in Commands : Ask[c] = 0 /\ Scope[c] = "full"

(* What the full refund, or the saga's, leaves: a row that is closed, and  *)
(* at most the holder that paid.                                           *)
SagaKey == WalletKey("saga", 0)
PaidInFull == FullPaid \/ KeyPaid(SagaKey)
FullCloses == PaidInFull =>
  /\ order.pay = "refunded" /\ order.refundedAt
  /\ \A c \in CommandHolders : At(c, "finalize")
  /\ \A r \in RequestHolders : \/ Kind[r] = "chefcancel" /\ req[r].pc \in {"pay", "swap"}
                               \/ Kind[r] = "saga" /\ In(r, "persist")
FullStamped ==
  /\ \A c \in CommandHolders : cmd[c].full /\ order.refundedAt
  /\ \A r \in RequestHolders : Kind[r] \in {"chefcancel", "saga"} => order.refundedAt
FullInv == FullCloses /\ FullStamped

LEMMA FullNotNew ==
  ASSUME NEW key, paid'.keys \subseteq paid.keys \union {key}, key # FullKey, key # SagaKey
  PROVE  PaidInFull' => PaidInFull
  BY DEF PaidInFull, FullPaid, KeyPaid, SagaKey, FullKey, ScopeKey, WalletKey

LEMMA SamePaid == UNCHANGED paid => PaidInFull' = PaidInFull
  BY DEF PaidInFull, FullPaid, KeyPaid, SagaKey, FullKey, ScopeKey, WalletKey

LEMMA CommandKeepsFull ==
  ASSUME Exacting, SafeMoney, FullInv, NEW c \in Commands, CommandEffect(c)
  PROVE  FullInv'
<1>0. /\ Onward(c) /\ UNCHANGED req /\ RequestHolders' = RequestHolders /\ Exclusive
      /\ CommandTypeOK /\ cmd[c].amt \in Int /\ "lost" \notin Faults /\ Remaining(order) \in Int
      /\ IntentOf(c) = "full" /\ ScopeKey(Scope[c]) = FullKey /\ FullCloses /\ FullStamped
  BY DEF CommandEffect, RequestHolders, SafeMoney, SafeSentinel, ExclusionInv, TypeOK, CommandTypeOK,
         Command, OrderRow, Exacting, Honest, IntentOf, FullKey, FullInv, Remaining
<1>h. /\ c \in CommandHolders <=> cmd[c].pc \in ClaimPhases
      /\ c \in CommandHolders' <=> cmd'[c].pc \in ClaimPhases
      /\ CommandHolders' \ {c} = CommandHolders \ {c}
      /\ \A d \in Commands \ {c} : cmd'[d] = cmd[d]
  BY <1>0 DEF CommandHolders, Onward
<1>x. c \in CommandHolders =>
        CommandHolders = {c} /\ RequestHolders = {} /\ order.pay = "refunded" /\ order.refundedAt /\ cmd[c].full
  BY <1>0 DEF Exclusive, LiveHolders, FullStamped
<1>1. CASE Aside(c) \/ Stamps(c)
  <2>1. /\ c \notin CommandHolders /\ c \notin CommandHolders'
        /\ UNCHANGED <<order.pay, order.refundedAt, paid>>
    BY <1>1, <1>h DEF Aside, Stamps, Columns, At, ClaimPhases
  <2>2. CommandHolders' = CommandHolders /\ PaidInFull' = PaidInFull
    BY <1>h, <2>1, SamePaid
  <2>3. \A d \in CommandHolders : cmd'[d] = cmd[d]
    BY <1>h, <2>1 DEF CommandHolders
  <2>4. FullCloses'
    BY <1>0, <2>1, <2>2, <2>3 DEF FullCloses, At, In
  <2>5. FullStamped'
    BY <1>0, <2>1, <2>2, <2>3 DEF FullStamped
  <2> QED
    BY <2>4, <2>5 DEF FullInv
<1>2. CASE Reserves(c)
  <2>1. LiveHolders = {} /\ ~PaidInFull
    BY <1>0, <1>2 DEF Reserves, Exclusive, FullCloses
  <2>2. ~PaidInFull'
    BY <1>2, <2>1, SamePaid DEF Reserves
  <2>3. cmd'[c].full /\ order'.refundedAt
    <3>1. cmd'[c].amt = Remaining(order)
      BY <1>0, <1>2 DEF Reserves, ReserveAmount
    <3>2. cmd'[c].amt >= Remaining(order)
      BY <1>0, <3>1
    <3>3. cmd'[c].full = (cmd'[c].amt >= Remaining(order)) /\ order'.refundedAt = (order.refundedAt \/ IntentOf(c) = "full")
      BY <1>2 DEF Reserves
    <3> QED
      BY <1>0, <3>2, <3>3, Zenon
  <2>4. CommandHolders' \subseteq {c} /\ RequestHolders' = {}
    BY <1>0, <1>h, <2>1 DEF LiveHolders
  <2> QED
    BY <2>2, <2>3, <2>4 DEF FullInv, FullCloses, FullStamped
<1>3. CASE CallsGateway(c)
  <2>1. PICK answer \in {"ok", "error"} :
          /\ GatewayCall(FullKey, cmd[c].amt, answer)
          /\ cmd'[c].pc = IF answer = "ok" THEN "finalize" ELSE "release"
    BY <1>0, <1>3 DEF CallsGateway
  <2>2. c \in CommandHolders /\ At(c, "gateway") /\ ~PaidInFull
    BY <1>0, <1>3, <1>h DEF CallsGateway, At, ClaimPhases, FullCloses
  <2>3. UNCHANGED <<order.pay, order.refundedAt, cmd[c].full>>
    BY <1>3 DEF CallsGateway, Columns
  <2>4. PaidInFull' => At(c, "finalize")'
    <3>1. Answered(FullKey, cmd[c].amt, answer)
      BY <1>0, <2>1, CallAnswers
    <3>2. answer = "error" => UNCHANGED paid
      BY <3>1 DEF Answered
    <3> QED
      BY <2>1, <2>2, <3>2, SamePaid DEF At
  <2>5. CommandHolders' \subseteq {c} /\ RequestHolders' = {}
    BY <1>0, <1>h, <1>x, <2>2
  <2> QED
    BY <1>x, <2>2, <2>3, <2>4, <2>5 DEF FullInv, FullCloses, FullStamped
<1>4. CASE Finalizes(c)
  <2>1. c \in CommandHolders /\ c \notin CommandHolders'
    BY <1>4, <1>h DEF Finalizes, At, ClaimPhases
  <2>2. order'.pay = "refunded" /\ order'.refundedAt /\ CommandHolders' = {} /\ RequestHolders' = {}
    BY <1>0, <1>4, <1>h, <1>x, <2>1 DEF Finalizes
  <2> QED
    BY <2>2 DEF FullInv, FullCloses, FullStamped
<1>5. CASE GivesBack(c)
  <2>1. c \in CommandHolders /\ c \notin CommandHolders' /\ ~PaidInFull
    BY <1>0, <1>5, <1>h DEF GivesBack, At, ClaimPhases, FullCloses
  <2>2. ~PaidInFull'
    BY <1>5, <2>1, SamePaid DEF GivesBack
  <2>3. CommandHolders' = {} /\ RequestHolders' = {}
    BY <1>0, <1>h, <1>x, <2>1
  <2> QED
    BY <2>2, <2>3 DEF FullInv, FullCloses, FullStamped
<1>6. ~Abandons(c)
  BY DEF Abandons, Exacting
<1> QED
  BY <1>1, <1>2, <1>3, <1>4, <1>5, <1>6 DEF CommandEffect

LEMMA RequestKeepsFull ==
  ASSUME Exacting, SafeMoney, FullInv, NEW r \in Requests, RequestEffect(r)
  PROVE  FullInv'
<1>0. /\ OnwardReq(r) /\ UNCHANGED cmd /\ CommandHolders' = CommandHolders /\ Exclusive
      /\ HeldIsAmount /\ TypeOK /\ CommandTypeOK /\ SentinelInv /\ Honest /\ req[r].amt \in Int
      /\ FullCloses /\ FullStamped /\ Kind[r] \in Kinds /\ Kind[r] # "line"
  BY RequestAssumption
  DEF RequestEffect, SafeMoney, SafeSentinel, ExclusionInv, TypeOK, Request, CommandHolders, Honest,
      NoLineCancels, FullInv, Exacting
<1>h. /\ r \in RequestHolders <=> req[r].amt > 0 /\ req[r].pc \in {"cancel", "pay", "persist", "swap", "release"}
      /\ r \in RequestHolders' <=> req'[r].amt > 0 /\ req'[r].pc \in {"cancel", "pay", "persist", "swap", "release"}
      /\ RequestHolders' \ {r} = RequestHolders \ {r}
      /\ \A s \in Requests \ {r} : req'[s] = req[s]
  BY <1>0 DEF RequestHolders, OnwardReq
<1>p. req[r].pc \in Paying => r \in RequestHolders
  BY <1>0, <1>h DEF HeldIsAmount, Paying
<1>x. r \in RequestHolders =>
        /\ CommandHolders = {} /\ RequestHolders = {r} /\ order.pay = "refunded"
        /\ RequestHolders' \subseteq {r} /\ CommandHolders' = {}
        /\ PaidInFull => \/ Kind[r] = "chefcancel" /\ req[r].pc \in {"pay", "swap"}
                         \/ Kind[r] = "saga" /\ In(r, "persist")
  BY <1>0, <1>h DEF Exclusive, LiveHolders, FullCloses
<1>e. ASSUME RequestHolders' \subseteq {r}, CommandHolders' = {}, ~PaidInFull',
             r \in RequestHolders' /\ Kind[r] \in {"chefcancel", "saga"} => order'.refundedAt
      PROVE  FullInv'
  BY <1>e DEF FullInv, FullCloses, FullStamped
<1>1. CASE StandsBy(r)
  <2>1. /\ r \notin RequestHolders /\ r \notin RequestHolders' /\ PaidInFull' = PaidInFull
        /\ UNCHANGED <<order.pay, order.refundedAt>>
    BY <1>1, <1>h, SamePaid DEF StandsBy, Same, Columns
  <2>2. RequestHolders' = RequestHolders /\ \A s \in RequestHolders : req'[s] = req[s]
    BY <1>h, <2>1 DEF RequestHolders
  <2>3. FullCloses'
    BY <1>0, <2>1, <2>2 DEF FullCloses, At, In
  <2>4. FullStamped'
    BY <1>0, <2>1, <2>2 DEF FullStamped
  <2> QED
    BY <2>3, <2>4 DEF FullInv
<1>2. CASE TakesClaim(r)
  <2>1. LiveHolders = {} /\ ~PaidInFull /\ UNCHANGED paid
    BY <1>0, <1>2 DEF TakesClaim, Exclusive, FullCloses
  <2>2. ~PaidInFull' /\ RequestHolders' \subseteq {r} /\ CommandHolders' = {}
    BY <1>0, <1>h, <2>1, SamePaid DEF LiveHolders
  <2>3. Kind[r] \in {"chefcancel", "saga"} => order'.refundedAt
    BY <1>2 DEF TakesClaim, IntentFor
  <2> QED
    BY <1>e, <2>2, <2>3
<1>3. CASE Defers(r)
  <2>1. r \in RequestHolders /\ In(r, "cancel") /\ UNCHANGED <<paid, order.refundedAt>>
    BY <1>3, <1>h DEF Defers, In
  <2>2. ~PaidInFull'
    BY <1>x, <2>1, SamePaid DEF In
  <2> QED
    BY <1>0, <1>e, <1>x, <2>1, <2>2 DEF FullStamped
<1>4. CASE Pays(r)
  <2>1. PICK answer \in {"ok", "error"} : Move(r, answer) /\ req'[r].pc = AfterPay(r, answer)
    BY <1>4 DEF Pays
  <2>2. r \in RequestHolders /\ In(r, "pay") /\ UNCHANGED <<order.pay, order.refundedAt>>
    BY <1>4, <1>p DEF Pays, Columns, In, Paying
  <2>3. CASE Kind[r] \in Keyed
    <3>1. ~PaidInFull
      BY <1>x, <2>2, <2>3 DEF Keyed
    <3>2. paid'.keys \subseteq paid.keys \union {RefundKey(r)}
      BY <1>0, <2>1, <2>3, KeyedCall, AnswerKeys
    <3>3. RefundKey(r) # FullKey /\ RefundKey(r) # SagaKey
      BY KeysApart DEF RefundKey, FullKey, SagaKey
    <3>4. ~PaidInFull'
      BY <3>1, <3>2, <3>3, FullNotNew
    <3> QED
      BY <1>e, <1>x, <2>2, <2>3, <3>4 DEF Keyed
  <2>4. CASE Kind[r] = "chefcancel"
    <3>1. order.refundedAt
      BY <1>0, <2>2, <2>4 DEF FullStamped
    <3>2. r \in RequestHolders' => In(r, "swap")'
      BY <1>h, <2>1, <2>4 DEF AfterPay, In
    <3> QED
      BY <1>x, <2>2, <2>4, <3>1, <3>2 DEF FullInv, FullCloses, FullStamped, In
  <2>5. CASE Kind[r] = "saga"
    <3>1. order.refundedAt /\ ~PaidInFull
      BY <1>0, <1>x, <2>2, <2>5 DEF FullStamped, In
    <3>2. CASE answer = "ok"
      <4>1. In(r, "persist")'
        BY <2>1, <2>5, <3>2 DEF AfterPay, In
      <4> QED
        BY <1>x, <2>2, <2>5, <3>1, <4>1 DEF FullInv, FullCloses, FullStamped, In
    <3>3. CASE answer = "error"
      <4>1. UNCHANGED paid
        BY <2>1, <2>5, <3>3 DEF Move, WalletCredit
      <4> QED
        BY <1>e, <1>x, <2>2, <3>1, <4>1, SamePaid
    <3> QED
      BY <2>1, <3>2, <3>3
  <2> QED
    BY <1>0, <2>3, <2>4, <2>5 DEF Kinds, Keyed
<1>5. CASE Swaps(r) \/ Ends(r)
  <2>1. r \in RequestHolders /\ UNCHANGED paid /\ RequestHolders' = {}
    BY <1>5, <1>h, <1>p, <1>x DEF Swaps, Ends, In, Paying
  <2>2. PaidInFull => UNCHANGED <<order.pay, order.refundedAt>>
    BY <1>5, <1>x, <2>1 DEF Swaps, Ends, Keyed, In
  <2> QED
    BY <1>0, <1>x, <2>1, <2>2, SamePaid DEF FullInv, FullCloses, FullStamped
<1>6. CASE Returns(r)
  <2>1. r \in RequestHolders /\ UNCHANGED paid /\ RequestHolders' = {}
    BY <1>6, <1>h, <1>p, <1>x DEF Returns, In, Paying
  <2>2. ~PaidInFull'
    BY <1>6, <1>x, <2>1, SamePaid DEF Returns, In
  <2> QED
    BY <1>e, <1>x, <2>1, <2>2
<1>7. ~LetsGo(r)
  BY <1>0 DEF LetsGo, Exacting
<1> QED
  BY <1>0, <1>1, <1>2, <1>3, <1>4, <1>5, <1>6, <1>7 DEF RequestEffect, TakesLine, ReturnsLine

LEMMA OthersKeepFull ==
  ASSUME Exacting, SafeMoney, FullInv, OtherEffect
  PROVE  FullInv'
<1>0. /\ UNCHANGED <<cmd, req>> /\ CommandHolders' = CommandHolders /\ RequestHolders' = RequestHolders
      /\ TypeOK /\ CommandTypeOK /\ SentinelInv /\ Honest /\ order.owed \in Int /\ order \in OrderRow
      /\ FullCloses /\ FullStamped /\ PledgeInv /\ "lost" \notin Faults
  BY DEF OtherEffect, SafeMoney, SafeSentinel, TypeOK, CommandTypeOK, OrderRow, CommandHolders,
         RequestHolders, FullInv, Exacting, Honest
<1>k. ASSUME order.refundedAt => order'.refundedAt, order.refundedAt /\ order.pay = "refunded" => order'.pay = "refunded",
             PaidInFull' => PaidInFull
      PROVE  FullInv'
  BY <1>0, <1>k DEF FullInv, FullCloses, FullStamped, At, In
<1>1. ASSUME NEW i \in Issues, Grants(i) PROVE FullInv'
  <2>1. Answered(WalletKey("issue", i), CreditOf(i), "ok")
    <3>1. CreditOf(i) \in Int
      BY <1>0, CreditBounds DEF TypeOK
    <3> QED
      BY <1>0, <1>1, <3>1, CreditAnswers DEF Grants
  <2>2. WalletKey("issue", i) # FullKey /\ WalletKey("issue", i) # SagaKey
    BY KeysApart DEF FullKey, SagaKey
  <2>3. PaidInFull' => PaidInFull
    BY <2>1, <2>2, AnswerKeys, FullNotNew
  <2> QED
    BY <1>1, <1>k, <2>3 DEF Grants
<1>2. CASE Discusses \/ FlowEnds
  BY <1>2, <1>k, SamePaid DEF Discusses, FlowEnds, Columns
<1>3. CASE Retries \/ Flows
  <2>1. UNCHANGED <<order.pay, order.refundedAt>> /\ (FullPaid \/ Deferred)
    BY <1>0, <1>3 DEF Retries, Flows, Columns, PledgeInv, FlowOwes, Deferred
  <2>2. PICK answer : GatewayCall(FullKey, order.owed, answer)
    BY <1>3 DEF Retries, Flows
  <2>3. Answered(FullKey, order.owed, answer)
    BY <1>0, <2>2, CallAnswers
  <2>4. CASE FullPaid
    <3>1. UNCHANGED paid
      BY <2>3, <2>4 DEF Answered, FullPaid
    <3> QED
      BY <1>k, <2>1, <3>1, SamePaid
  <2>5. CASE ~FullPaid
    <3>1. Sealed
      BY <1>0, <2>1, <2>5 DEF SentinelInv, SentinelSealed, Deferred
    <3> QED
      BY <1>0, <2>1, <3>1 DEF Sealed, FullInv, FullCloses, FullStamped, In
  <2> QED
    BY <2>4, <2>5
<1>4. ASSUME NEW w \in Workers, Settles(w) PROVE FullInv'
  <2>1. PICK amount \in Int :
           /\ \/ amount = 0 /\ UNCHANGED paid
              \/ Answered(WalletKey("cancel", 0), amount, "ok")
           /\ order'.pay = IF job[w].owed > 0 THEN "refunded" ELSE order.pay
           /\ order'.refundedAt
    BY <1>0, <1>4, HonestPays, SettledAnswers
  <2>2. WalletKey("cancel", 0) # FullKey /\ WalletKey("cancel", 0) # SagaKey
    BY KeysApart DEF FullKey, SagaKey
  <2>3. PaidInFull' => PaidInFull
    BY <2>1, <2>2, AnswerKeys, FullNotNew, SamePaid
  <2> QED
    BY <1>k, <2>1, <2>3
<1>5. ASSUME NEW w \in Workers, RollsBack(w) PROVE FullInv'
  <2>1. UNCHANGED paid
    BY <1>0, <1>5 DEF RollsBack, Honest, CreditsOnly
  <2> QED
    BY <1>5, <1>k, <2>1, SamePaid DEF RollsBack, Columns
<1>6. ~Adjusts
  BY <1>0 DEF Adjusts, Honest, CreditsOnly
<1>7. CASE FinishesStuck \/ FinishesFull
  BY <1>7, <1>k, SamePaid DEF FinishesStuck, FinishesFull, Recovers
<1> QED
  BY <1>1, <1>2, <1>3, <1>4, <1>5, <1>6, <1>7 DEF OtherEffect

Exact == TotalPaid + Pledged = order.refundAmt
Rests == UNCHANGED <<order.refundAmt, TotalPaid>>

LEMMA ExactArithmetic ==
  ASSUME NEW b \in Int, NEW c \in Int, NEW h \in Nat, NEW k \in Nat, NEW s \in Int, NEW t \in Int,
         \/ c = b /\ t = s /\ k = h
         \/ h = 0 /\ c = b + k /\ t = s
         \/ h > 0 /\ k = 0 /\ c = b /\ t = s + h
         \/ h > 0 /\ k = 0 /\ c = b - h /\ t = s
         \/ h > 0 /\ k = 0 /\ c = b /\ t = s
         \/ k = h /\ \E n \in Int : c = b + n /\ t = s + n,
         s + h = b, h > 0 /\ c = b /\ t = s => k > 0
  PROVE  t + k = c
  OBVIOUS

LEMMA ExactStands ==
  ASSUME Pledge!Safe, Pledge!Safe', Pledge!Next \/ UNCHANGED Pledged_vars, Exact,
         Pledged > 0 /\ Rests => Pledged' > 0
  PROVE  Exact'
<1> DEFINE b == order.refundAmt
           h == Pledged
           s == TotalPaid
<1>1. b \in Int /\ b' \in Int /\ h \in Nat /\ h' \in Nat /\ s \in Int /\ s' \in Int
  BY DEF Pledge!Safe
<1>2. \/ b' = b /\ s' = s /\ h' = h
      \/ h = 0 /\ b' = b + h' /\ s' = s
      \/ h > 0 /\ h' = 0 /\ b' = b /\ s' = s + h
      \/ h > 0 /\ h' = 0 /\ b' = b - h /\ s' = s
      \/ h > 0 /\ h' = 0 /\ b' = b /\ s' = s
      \/ h' = h /\ \E n \in Int : b' = b + n /\ s' = s + n
  <2>1. CASE Pledge!BookAndSend
    BY <2>1 DEF Pledge!BookAndSend
  <2>2. CASE Pledge!Book
    BY <2>2 DEF Pledge!Book
  <2> QED
    BY <2>1, <2>2 DEF Pledge!Next, Pledge!Send, Pledge!GiveBack, Pledge!Abandon, Pledged_vars
<1>3. s + h = b /\ (h > 0 /\ b' = b /\ s' = s => h' > 0)
  BY DEF Exact, Rests
<1>4. s' + h' = b'
  BY <1>1, <1>2, <1>3, ExactArithmetic
<1> QED
  BY <1>4 DEF Exact

(* What somebody holds is held on by a step that neither books nor sends.  *)
LEMMA HoldersHold ==
  ASSUME PledgeOf, PledgeOf', SafeMoney',
         \/ \E c \in Spenders : c \in Spenders' /\ cmd'[c].amt = cmd[c].amt
         \/ \E r \in RequestSpenders : r \in RequestSpenders' /\ req'[r].amt = req[r].amt
  PROVE  Pledged' = Pledged
  BY DEF PledgeOf

LEMMA OwingHolds ==
  ASSUME PledgeOf, PledgeOf', Owing, Owing', Spenders' = {}, RequestSpenders' = {},
         order'.owed = order.owed
  PROVE  Pledged' = Pledged
  BY DEF PledgeOf

LEMMA PledgedPositive ==
  ASSUME SafeMoney
  PROVE  /\ Spenders = {} /\ RequestSpenders = {} /\ Pledged > 0 => Owing
         /\ Owing => Sealed /\ ~FullPaid /\ Deferred
         /\ \A c \in Spenders : cmd[c].amt > 0
         /\ \A r \in RequestSpenders : req[r].amt > 0
<1>1. PledgeOf
  BY PledgeIsOf DEF SafeMoney
<1>2. Owing => Sealed /\ ~FullPaid /\ Deferred
  BY DEF SafeMoney, SafeSentinel, SentinelInv, SentinelSealed, Owing, FullPaid, Deferred
<1>3. Spenders \subseteq CommandHolders /\ RequestSpenders \subseteq RequestHolders
  BY SpendersAreHolders
<1> QED
  BY <1>1, <1>2, <1>3 DEF PledgeOf, SafeMoney, AmountsHeld, RequestHolders

LEMMA CommandHoldsOn ==
  ASSUME Exacting, SafeMoney, SafeMoney', FullInv, Kept, NEW c \in Commands, CommandEffect(c),
         Pledged > 0, Rests
  PROVE  Pledged' > 0
<1>0. /\ Onward(c) /\ UNCHANGED req /\ RequestSpenders' = RequestSpenders /\ PledgeOf /\ PledgeOf'
      /\ CommandTypeOK /\ cmd[c].amt \in Int /\ "lost" \notin Faults /\ SentinelInv
      /\ ScopeKey(Scope[c]) = FullKey /\ FullCloses /\ order.refundAmt \in Int /\ TotalPaid \in Int
  BY PledgeIsOf, PledgeIsOfNext
  DEF CommandEffect, RequestSpenders, RequestHolders, SafeMoney, SafeSentinel, TypeOK, CommandTypeOK,
      Command, OrderRow, Exacting, Honest, FullKey, FullInv, TotalPaid
<1>h. /\ c \in Spenders <=> cmd[c].pc \in {"gateway", "release"}
      /\ c \in Spenders' <=> cmd'[c].pc \in {"gateway", "release"}
      /\ Spenders' \ {c} = Spenders \ {c}
      /\ \A d \in Commands \ {c} : cmd'[d] = cmd[d]
      /\ c \in CommandHolders <=> cmd[c].pc \in ClaimPhases
  BY <1>0 DEF Spenders, CommandHolders, Onward
<1>1. CASE RequestSpenders # {}
  BY <1>0, <1>1, HoldersHold
<1>2. ASSUME NEW d \in Spenders, d # c PROVE Pledged' > 0
  <2>1. d \in Spenders' /\ cmd'[d].amt = cmd[d].amt
    BY <1>h, <1>2 DEF Spenders
  <2> QED
    BY <1>0, <2>1, HoldersHold
<1>3. CASE c \in Spenders
  <2>1. cmd[c].amt > 0 /\ Spenders \subseteq CommandHolders
    BY <1>3, PledgedPositive, SpendersAreHolders
  <2>2. CallsGateway(c)
    <3>1. ~GivesBack(c)
      BY <1>0, <2>1 DEF GivesBack, Rests
    <3> QED
      BY <1>3, <1>h, <3>1 DEF CommandEffect, Aside, Reserves, Finalizes, Abandons, Stamps, At,
         ClaimPhases, Exacting
  <2>3. PICK answer \in {"ok", "error"} :
          /\ GatewayCall(FullKey, cmd[c].amt, answer)
          /\ cmd'[c].pc = IF answer = "ok" THEN "finalize" ELSE "release"
    BY <1>0, <2>2 DEF CallsGateway
  <2>4. Answered(FullKey, cmd[c].amt, answer) /\ ~KeyPaid(FullKey)
    <3>1. ~FullPaid
      BY <1>0, <1>3, <2>1, <2>2 DEF FullCloses, PaidInFull, CallsGateway, At
    <3> QED
      BY <1>0, <2>3, <3>1, CallAnswers DEF FullPaid
  <2>5. answer = "error"
    BY <1>0, <2>1, <2>4 DEF Answered, Rests
  <2>6. c \in Spenders' /\ cmd'[c].amt = cmd[c].amt
    BY <1>h, <2>2, <2>3, <2>5 DEF CallsGateway
  <2> QED
    BY <1>0, <1>3, <2>6, HoldersHold
<1>4. CASE Spenders = {} /\ RequestSpenders = {}
  <2>1. Owing /\ Sealed /\ ~FullPaid /\ Deferred
    BY <1>4, PledgedPositive
  <2>2. Aside(c) \/ Stamps(c)
    BY <1>h, <1>4, <2>1 DEF CommandEffect, Reserves, CallsGateway, Finalizes, Abandons, GivesBack, At,
        Sealed, ClaimPhases, Exacting
  <2>3. Spenders' = {} /\ UNCHANGED <<paid, order.owed>>
    BY <1>h, <1>4, <2>2 DEF Aside, Stamps, Columns, ClaimPhases
  <2>4. Owing'
    BY <2>1, <2>3 DEF Kept, Owing, Deferred, FullPaid, KeyPaid
  <2> QED
    BY <1>0, <1>4, <2>1, <2>3, <2>4, OwingHolds
<1> QED
  BY <1>1, <1>2, <1>3, <1>4

LEMMA RequestHoldsOn ==
  ASSUME Exacting, FreshInv, SafeMoney', FullInv, Kept, NEW r \in Requests, RequestEffect(r),
         Pledged > 0, Rests
  PROVE  Pledged' > 0
<1>0. /\ OnwardReq(r) /\ UNCHANGED cmd /\ Spenders' = Spenders /\ PledgeOf /\ PledgeOf'
      /\ SafeMoney /\ TypeOK /\ CommandTypeOK /\ Honest /\ req[r].amt \in Int /\ SentinelInv
      /\ Kind[r] \in Kinds /\ Kind[r] # "line" /\ FullCloses /\ HeldIsAmount /\ KeyedFresh
      /\ order.refundAmt \in Int /\ TotalPaid \in Int /\ Exclusive
  BY PledgeIsOf, PledgeIsOfNext, RequestAssumption
  DEF RequestEffect, Spenders, FreshInv, SafeMoney, SafeSentinel, ExclusionInv, TypeOK, CommandTypeOK,
      OrderRow, Request, Exacting, Honest, NoLineCancels, FullInv, TotalPaid
<1>h. /\ r \in RequestSpenders <=>
           /\ req[r].amt > 0
           /\ req[r].pc \in {"cancel", "release"} \/ (req[r].pc = "pay" /\ Kind[r] # "chefcancel")
      /\ r \in RequestSpenders' <=>
           /\ req'[r].amt > 0
           /\ req'[r].pc \in {"cancel", "release"} \/ (req'[r].pc = "pay" /\ Kind[r] # "chefcancel")
      /\ RequestSpenders' \ {r} = RequestSpenders \ {r}
      /\ \A s \in Requests \ {r} : req'[s] = req[s]
  BY <1>0 DEF RequestSpenders, RequestHolders, OnwardReq
<1>p. req[r].pc \in Paying => req[r].amt > 0 /\ r \in RequestHolders
  BY <1>0 DEF HeldIsAmount, RequestHolders, Paying
<1>l. ~LetsGo(r)
  BY DEF LetsGo, Exacting
<1>1. CASE Spenders # {}
  BY <1>0, <1>1, HoldersHold
<1>2. ASSUME NEW s \in RequestSpenders, s # r PROVE Pledged' > 0
  <2>1. s \in RequestSpenders' /\ req'[s].amt = req[s].amt
    BY <1>h, <1>2 DEF RequestSpenders, RequestHolders
  <2> QED
    BY <1>0, <2>1, HoldersHold
<1>3. CASE r \in RequestSpenders
  <2>1. /\ req[r].amt > 0 /\ r \in RequestHolders /\ Spenders = {} /\ RequestSpenders = {r}
        /\ FullPaid => Kind[r] = "saga" /\ In(r, "persist")
        /\ KeyPaid(SagaKey) => Kind[r] = "saga" /\ In(r, "persist")
    <3>1. r \in RequestHolders /\ ~(Kind[r] = "chefcancel" /\ req[r].pc \in {"pay", "swap"})
      BY <1>3, <1>h, SpendersAreHolders
    <3> QED
      BY <1>0, <1>3, <1>h, <3>1 DEF PledgeOf, FullCloses, PaidInFull
  <2>2. ~Returns(r)
    BY <1>0, <2>1 DEF Returns, Rests
  <2>3. Defers(r) \/ Pays(r)
    BY <1>0, <1>3, <1>h, <1>l, <2>1, <2>2 DEF RequestEffect, StandsBy, TakesClaim, TakesLine, Swaps, Ends,
                                      ReturnsLine, In
  <2>4. CASE Defers(r)
    <3>1. Kind[r] = "chefcancel" /\ ~FullPaid
      BY <1>0, <2>1, <2>4 DEF Defers, SentinelInv, Earned, In
    <3>2. order'.owed = req[r].amt /\ Owing'
      BY <2>4, <3>1 DEF Defers, Owing, FullPaid, KeyPaid
    <3>3. RequestSpenders' = {} /\ Spenders' = {}
      BY <1>0, <1>h, <2>1, <2>4, <3>1 DEF Defers, In
    <3> QED
      BY <1>0, <2>1, <3>2, <3>3 DEF PledgeOf
  <2>5. CASE Pays(r)
    <3>1. PICK answer \in {"ok", "error"} : Move(r, answer) /\ req'[r].pc = AfterPay(r, answer)
      BY <2>5 DEF Pays
    <3>2. In(r, "pay") /\ Kind[r] # "chefcancel" /\ req'[r].amt = req[r].amt
      BY <1>h, <1>3, <2>5 DEF Pays, Amounts, In
    <3>3. answer = "error"
      <4>1. CASE Kind[r] \in Keyed
        <5>1. ~KeyPaid(RefundKey(r)) /\ Answered(RefundKey(r), req[r].amt, answer)
          BY <1>0, <3>1, <3>2, <4>1, KeyedCall DEF KeyedFresh
        <5> QED
          BY <1>0, <2>1, <5>1 DEF Answered, Rests
      <4>2. CASE Kind[r] = "saga"
        <5>1. ~KeyPaid(SagaKey)
          BY <2>1, <3>2 DEF In
        <5>2. Answered(SagaKey, req[r].amt, answer)
          BY <1>0, <3>1, <4>2, CreditAnswers DEF Move, SagaKey
        <5> QED
          BY <1>0, <2>1, <5>1, <5>2 DEF Answered, Rests
      <4> QED
        BY <1>0, <3>2, <4>1, <4>2 DEF Kinds, Keyed
    <3>4. r \in RequestSpenders'
      BY <1>h, <2>1, <3>1, <3>2, <3>3 DEF AfterPay
    <3> QED
      BY <1>0, <1>3, <3>2, <3>4, HoldersHold
  <2> QED
    BY <2>3, <2>4, <2>5
<1>4. CASE Spenders = {} /\ RequestSpenders = {}
  <2>1. Owing /\ Sealed /\ ~FullPaid /\ Deferred
    BY <1>0, <1>4, PledgedPositive
  <2>2. StandsBy(r) \/ Pays(r)
    <3>1. ~TakesClaim(r) /\ ~Defers(r)
      BY <1>4, <1>h, <2>1 DEF TakesClaim, Defers, Sealed, In
    <3>2. ~Swaps(r)
      BY <1>0, <2>1 DEF Swaps, SentinelInv, Earned
    <3>3. ~Ends(r) /\ ~Returns(r)
      BY <1>p, <2>1 DEF Ends, Returns, Sealed, In, Paying
    <3> QED
      BY <1>0, <1>l, <3>1, <3>2, <3>3 DEF RequestEffect, TakesLine, ReturnsLine
  <2>3. r \notin RequestSpenders' /\ UNCHANGED paid /\ UNCHANGED <<order.refundID, order.owed>>
    <3>1. CASE StandsBy(r)
      BY <1>h, <3>1 DEF StandsBy, Same, Columns
    <3>2. CASE Pays(r)
      <4>1. PICK answer \in {"ok", "error"} : Move(r, answer) /\ req'[r].pc = AfterPay(r, answer)
        BY <3>2 DEF Pays
      <4>2. Kind[r] = "chefcancel" /\ req[r].amt > 0
        BY <1>4, <1>h, <1>p, <3>2 DEF Pays, In, Paying
      <4>3. Answered(FullKey, req[r].amt, answer)
        BY <1>0, <4>1, <4>2, HonestPays, MoveAnswers
      <4>4. answer = "error" /\ UNCHANGED paid
        BY <1>0, <2>1, <4>2, <4>3 DEF Answered, FullPaid, Rests
      <4> QED
        BY <1>h, <3>2, <4>1, <4>2, <4>4 DEF AfterPay, Pays, Columns
    <3> QED
      BY <2>2, <3>1, <3>2
  <2>4. RequestSpenders' = {} /\ Spenders' = {}
    BY <1>0, <1>4, <1>h, <2>3
  <2>5. Owing' /\ order'.owed = order.owed
    BY <2>1, <2>3, OwingStands
  <2> QED
    BY <1>0, <2>1, <2>4, <2>5, OwingHolds
<1> QED
  BY <1>1, <1>2, <1>3, <1>4

LEMMA OthersHoldOn ==
  ASSUME Exacting, FreshInv, SafeMoney', FullInv, Kept, OtherEffect, Pledged > 0, Rests
  PROVE  Pledged' > 0
<1>0. /\ UNCHANGED <<cmd, req>> /\ Spenders' = Spenders /\ RequestSpenders' = RequestSpenders
      /\ PledgeOf /\ PledgeOf' /\ SafeMoney /\ TypeOK /\ CommandTypeOK /\ Honest /\ "lost" \notin Faults
      /\ SentinelInv /\ order.refundAmt \in Int /\ TotalPaid \in Int /\ order.owed \in Int
      /\ OwedPositive /\ \A i \in Issues : CreditOf(i) \in Int
  <2>1. /\ SafeMoney /\ TypeOK /\ CommandTypeOK /\ order \in OrderRow
    BY DEF FreshInv, SafeMoney, SafeSentinel, TypeOK, CommandTypeOK
  <2>2. PledgeOf /\ PledgeOf'
    BY <2>1, PledgeIsOf, PledgeIsOfNext DEF SafeMoney
  <2>3. \A i \in Issues : CreditOf(i) \in Int
    BY <2>1, CreditBounds DEF TypeOK
  <2>4. order.refundAmt \in Int /\ TotalPaid \in Int /\ order.owed \in Int
    BY <2>1 DEF OrderRow, CommandTypeOK, TotalPaid
  <2> QED
    BY <2>1, <2>2, <2>3, <2>4
    DEF OtherEffect, Spenders, RequestSpenders, RequestHolders, SafeMoney, SafeSentinel, Exacting,
        Honest, PledgeInv
<1>1. CASE Spenders # {} \/ RequestSpenders # {}
  BY <1>0, <1>1, HoldersHold
<1>2. CASE Spenders = {} /\ RequestSpenders = {}
  <2>1. Owing /\ Sealed /\ ~FullPaid /\ Deferred /\ order.owed > 0
    BY <1>0, <1>2, PledgedPositive DEF OwedPositive
  <2>2. UNCHANGED paid
    <3>1. ASSUME Retries \/ Flows PROVE UNCHANGED paid
      <4>1. PICK answer : GatewayCall(FullKey, order.owed, answer)
        BY <3>1 DEF Retries, Flows
      <4>2. Answered(FullKey, order.owed, answer)
        BY <1>0, <4>1, CallAnswers
      <4> QED
        BY <1>0, <2>1, <4>2 DEF Answered, FullPaid, Rests
    <3>2. ASSUME NEW i \in Issues, Grants(i) PROVE FALSE
      BY <1>0, <3>2 DEF Grants, Rests
    <3>3. ASSUME NEW w \in Workers, Settles(w) PROVE UNCHANGED paid
      <4>1. ~Claims(order)
        BY <2>1 DEF Claims, Sealed
      <4> QED
        BY <3>3, <4>1 DEF Settles
    <3> QED
      BY <1>0, <3>1, <3>2, <3>3 DEF OtherEffect, Discusses, FlowEnds, RollsBack, Adjusts, FinishesStuck,
         FinishesFull, Recovers, Honest, CreditsOnly
  <2>3. order'.owed = order.owed
    BY <1>0 DEF OtherEffect, Discusses, Grants, Retries, Flows, FlowEnds, Settles, RollsBack, Adjusts,
        FinishesStuck, FinishesFull, Recovers, Columns
  <2>4. Owing'
    BY <2>1, <2>2 DEF Kept, Owing, Deferred, FullPaid, KeyPaid
  <2> QED
    BY <1>0, <1>2, <2>1, <2>3, <2>4, OwingHolds
<1> QED
  BY <1>1, <1>2

ExactInv == FreshInv /\ FullInv /\ Exact

LEMMA ExactStep ==
  ASSUME Exacting
  PROVE  /\ FreshInv /\ FreshInv' /\ FullInv /\ Exact /\ [Next]_vars /\ [Pledge!Next]_(Pledge!vars)
         => FullInv' /\ Exact'
<1> SUFFICES ASSUME FreshInv, FreshInv', FullInv, Exact, [Next]_vars, [Pledge!Next]_(Pledge!vars)
             PROVE  FullInv' /\ Exact'
  OBVIOUS
<1>1. /\ SafeMoney /\ SafeMoney' /\ Pledge!Safe /\ Pledge!Safe' /\ TypeOK /\ ExclusionInv
      /\ Pledge!Next \/ UNCHANGED Pledged_vars
  BY DEF FreshInv, SafeMoney, SafeSentinel, Pledge!vars, Pledged_vars
<1>2. Kept
  BY <1>1, SentinelKeeps DEF SafeMoney
<1>3. FullInv'
  BY <1>1, Effects, CommandKeepsFull, RequestKeepsFull, OthersKeepFull
<1>4. Pledged > 0 /\ Rests => Pledged' > 0
  BY <1>1, <1>2, Effects, CommandHoldsOn, RequestHoldsOn, OthersHoldOn
<1> QED
  BY <1>1, <1>3, <1>4, ExactStands

LEMMA ExactInvariant ==
  ASSUME Exacting
  PROVE  Spec => []ExactInv
<1>0. Honest
  BY DEF Exacting
<1>1. Init => FullInv
  <2> SUFFICES ASSUME Init PROVE FullInv
    OBVIOUS
  <2>1. CommandHolders = {} /\ RequestHolders = {} /\ paid.keys = {}
    BY DEF Init, MoneyInit, CommandInit, NewCommand, HandlersInit, CommandHolders, ClaimPhases,
           RequestHolders
  <2> QED
    BY <2>1 DEF FullInv, FullCloses, FullStamped, PaidInFull, FullPaid, KeyPaid
<1>2. Init /\ Pledge!Init => Exact
  BY DEF Pledge!Init, Exact
<1>3. Spec => Pledge!Init /\ [][Pledge!Next]_(Pledge!vars)
  BY <1>0, PathsPromise DEF PathsKeepPromise, Pledge!Spec
<1>4. ExactInv <=> FreshInv /\ FullInv /\ Exact
  BY DEF ExactInv
<1> QED
  BY <1>0, <1>1, <1>2, <1>3, <1>4, FreshInvariant, ExactStep, PTL DEF Spec

(* With honest paths, full commands and no failure but a refused call:     *)
(* once nothing is in flight and nothing is deferred, refund_amount is     *)
(* exactly what the customer has received, whatever ran in between.        *)
THEOREM BooksBalance ==
  ASSUME Exacting
  PROVE  Spec => []BooksBalanceAtRest
<1>1. ExactInv => BooksBalanceAtRest
  <2> SUFFICES ASSUME ExactInv, Quiet, order.refundID # "deferred" PROVE TotalPaid = order.refundAmt
    BY DEF BooksBalanceAtRest
  <2>1. Spenders = {} /\ RequestSpenders = {} /\ ~Owing
    BY DEF Quiet, CommandsIdle, RequestsIdle, Spenders, RequestSpenders, RequestHolders, Owing
  <2>2. PledgeOf /\ Exact /\ TotalPaid \in Int
    BY PledgeIsOf DEF ExactInv, FreshInv, SafeMoney, Pledge!Safe
  <2> QED
    BY <2>1, <2>2 DEF PledgeOf, Exact
<1> QED
  BY <1>1, ExactInvariant, PTL
---------------------------------------------------------------------------
(* The end of a refund.  An order is stamped refunded_at when all it was   *)
(* paid is booked, and no partial refund that might still be given back    *)
(* runs on a stamped one.                                                  *)
StampsInFull ==
  /\ order.refundedAt => order.refundAmt = Capture
  /\ \A r \in Requests : Kind[r] \in Keyed =>
       /\ req[r].pc \in {"pay", "release"} => ~order.refundedAt
       /\ req[r].pc \in {"pay", "persist", "release"} /\ req[r].full => order.refundAmt = Capture
  /\ \A r \in Requests : In(r, "release") => Kind[r] # "chefcancel"
WalletGrew == paid.wallet >= 0

LEMMA CallKeepsWallet ==
  ASSUME CommandTypeOK, NEW key, NEW amount, NEW answer, GatewayCall(key, amount, answer)
  PROVE  paid'.wallet = paid.wallet
<1>1. Sent(key, amount).wallet = paid.wallet
  BY DEF Sent, CommandTypeOK
<1> QED
  BY <1>1 DEF GatewayCall

LEMMA CreditGrowsWallet ==
  ASSUME CommandTypeOK, NEW key, NEW amount \in Int, amount > 0, NEW answer,
         WalletCredit(key, amount, answer)
  PROVE  paid'.wallet \in Int /\ paid'.wallet >= paid.wallet
<1>1. \E a : WalletCredit(key, amount, a)
  OBVIOUS
<1>2. paid' = paid \/ paid'.wallet = paid.wallet + amount
  BY <1>1, CreditLands
<1>3. paid.wallet \in Int
  BY DEF CommandTypeOK
<1> QED
  BY <1>2, <1>3

(* Nobody runs a keyed refund on a row that is not held.                   *)
KeyedWork == {"pay", "persist", "release"}
LEMMA KeyedHolds ==
  ASSUME HeldIsAmount, NEW r \in Requests, Kind[r] \in Keyed, req[r].pc \in KeyedWork
  PROVE  r \in RequestHolders
  BY DEF HeldIsAmount, Paying, KeyedWork, Keyed, RequestHolders

LEMMA CommandStampsInFull ==
  ASSUME Exacting, ExactInv, StampsInFull, WalletGrew, NEW c \in Commands, CommandEffect(c)
  PROVE  StampsInFull' /\ WalletGrew'
<1>0. /\ UNCHANGED req /\ Exclusive /\ HeldIsAmount /\ CommandTypeOK /\ Plain /\ FullStamped
      /\ order.refundAmt \in Int /\ Capture \in Int /\ Remaining(order) = Capture - order.refundAmt
      /\ IntentOf(c) = "full"
  <2>1. /\ UNCHANGED req /\ Exclusive /\ HeldIsAmount /\ CommandTypeOK /\ Plain /\ FullStamped
        /\ order \in OrderRow /\ IntentOf(c) = "full"
    BY DEF CommandEffect, ExactInv, FreshInv, SafeMoney, SafeSentinel, ExclusionInv, TypeOK, CommandTypeOK,
           FullInv, Exacting, IntentOf
  <2>2. TypeOK
    BY DEF ExactInv, FreshInv, SafeMoney, SafeSentinel
  <2> QED
    BY <2>1, <2>2, PlainRemaining
<1>h. c \in CommandHolders <=> cmd[c].pc \in ClaimPhases
  BY DEF CommandHolders
<1>w. WalletGrew'
  <2>1. UNCHANGED paid \/ \E answer : GatewayCall(ScopeKey(Scope[c]), cmd[c].amt, answer)
    BY DEF CommandEffect, Aside, Reserves, CallsGateway, Finalizes, Abandons, GivesBack, Stamps
  <2> QED
    BY <1>0, <2>1, CallKeepsWallet DEF WalletGrew
<1>n. ASSUME RequestHolders = {}, order'.refundedAt => order'.refundAmt = Capture
      PROVE  StampsInFull'
  <2>1. \A r \in Requests : Kind[r] \in Keyed => req'[r].pc \notin KeyedWork
    BY <1>0, <1>n, KeyedHolds
  <2> QED
    BY <1>0, <1>n, <2>1 DEF StampsInFull, KeyedWork, In
<1>1. CASE Aside(c) \/ Stamps(c) \/ CallsGateway(c)
  <2>1. UNCHANGED <<order.refundedAt, order.refundAmt>>
    BY <1>1 DEF Aside, Stamps, CallsGateway, Columns
  <2> QED
    BY <1>0, <1>w, <2>1 DEF StampsInFull, In
<1>2. CASE Reserves(c)
  <2>1. RequestHolders = {}
    BY <1>0, <1>2 DEF Reserves, Exclusive, LiveHolders
  <2>2. order'.refundAmt = Capture
    BY <1>0, <1>2 DEF Reserves, ReserveAmount
  <2> QED
    BY <1>n, <1>w, <2>1, <2>2
<1>3. CASE Finalizes(c) \/ GivesBack(c)
  <2>1. c \in CommandHolders
    BY <1>3, <1>h DEF Finalizes, GivesBack, At, ClaimPhases
  <2>2. RequestHolders = {} /\ order.refundedAt
    BY <1>0, <2>1 DEF Exclusive, FullStamped
  <2>3. order'.refundedAt => order'.refundAmt = Capture
    BY <1>0, <1>3, <2>2 DEF Finalizes, GivesBack, BookColumns, StampsInFull
  <2> QED
    BY <1>n, <1>w, <2>2, <2>3
<1>4. ~Abandons(c)
  BY DEF Abandons, Exacting
<1> QED
  BY <1>1, <1>2, <1>3, <1>4 DEF CommandEffect

LEMMA OthersStampInFull ==
  ASSUME Exacting, Issues = {}, Workers = {}, ExactInv, StampsInFull, WalletGrew, OtherEffect
  PROVE  StampsInFull' /\ WalletGrew'
<1>0. /\ UNCHANGED req /\ HeldIsAmount /\ CommandTypeOK /\ Plain /\ Exact /\ SafeSentinel
      /\ order.refundAmt \in Int /\ Capture \in Int /\ Remaining(order) = Capture - order.refundAmt
      /\ TotalPaid \in Int /\ Pledged \in Nat /\ PledgeOf
  <2>1. /\ UNCHANGED req /\ HeldIsAmount /\ CommandTypeOK /\ Plain /\ Exact /\ order \in OrderRow
        /\ SafeSentinel /\ TotalPaid \in Int /\ Pledged \in Nat
    BY DEF OtherEffect, ExactInv, FreshInv, SafeMoney, SafeSentinel, ExclusionInv, TypeOK, CommandTypeOK,
           Pledge!Safe
  <2>2. TypeOK
    BY DEF ExactInv, FreshInv, SafeMoney, SafeSentinel
  <2> QED
    BY <2>1, <2>2, PlainRemaining, PledgeIsOf
<1>w. WalletGrew'
  <2>1. UNCHANGED paid \/ \E answer : GatewayCall(FullKey, order.owed, answer)
    BY DEF OtherEffect, Discusses, Grants, Retries, Flows, FlowEnds, Adjusts, FinishesStuck, FinishesFull,
           Recovers
  <2> QED
    BY <1>0, <2>1, CallKeepsWallet DEF WalletGrew
<1>1. CASE Discusses \/ Retries \/ Flows \/ FlowEnds
  <2>1. UNCHANGED <<order.refundedAt, order.refundAmt>>
    BY <1>1 DEF Discusses, Retries, Flows, FlowEnds, Columns
  <2> QED
    BY <1>0, <1>w, <2>1 DEF StampsInFull, In
<1>2. CASE FinishesStuck
  <2>1. \A r \in Requests : Kind[r] \in Keyed => req'[r].pc \notin KeyedWork
    BY <1>0, <1>2, KeyedHolds DEF FinishesStuck, LiveHolders
  <2>2. order'.refundedAt => order'.refundAmt = Capture
    BY <1>0, <1>2 DEF FinishesStuck, Recovers, Plain
  <2> QED
    BY <1>0, <1>w, <2>1, <2>2 DEF StampsInFull, KeyedWork, In
<1>3. CASE FinishesFull
  <2>1. TotalPaid >= Capture
    BY <1>0, <1>3 DEF FinishesFull, Plain, TotalPaid, WalletGrew, CommandTypeOK
  <2>2. order.refundAmt = Capture /\ Pledged = 0
    BY <1>0, <2>1 DEF Exact, Plain
  <2>3. \A r \in Requests : Kind[r] \in Keyed => req'[r].pc \notin {"pay", "release"}
    <3> SUFFICES ASSUME NEW r \in Requests, Kind[r] \in Keyed, req[r].pc \in {"pay", "release"} PROVE FALSE
      BY <1>0
    <3>1. r \in RequestSpenders /\ req[r].amt > 0
      BY <1>0, KeyedHolds DEF KeyedWork, RequestSpenders, RequestHolders, Keyed
    <3> QED
      BY <1>0, <2>2, <3>1 DEF PledgeOf
  <2> QED
    BY <1>0, <1>3, <1>w, <2>2, <2>3 DEF FinishesFull, Recovers, StampsInFull, In
<1>4. ~Adjusts
  BY DEF Adjusts
<1> QED
  BY <1>1, <1>2, <1>3, <1>4 DEF OtherEffect

LEMMA RequestStampsInFull ==
  ASSUME Exacting, ExactInv, StampsInFull, WalletGrew, NEW r \in Requests, RequestEffect(r)
  PROVE  StampsInFull' /\ WalletGrew'
<1>0. /\ OnwardReq(r) /\ HeldIsAmount /\ Exclusive /\ CommandTypeOK /\ TypeOK /\ Plain /\ SentinelInv
      /\ order.refundAmt \in Int /\ Capture \in Int /\ Remaining(order) = Capture - order.refundAmt
      /\ Kind[r] \in Kinds /\ Kind[r] # "line" /\ req[r].amt \in Int /\ Amount[r] \in Nat
  <2>1. /\ OnwardReq(r) /\ HeldIsAmount /\ Exclusive /\ CommandTypeOK /\ TypeOK /\ Plain /\ SentinelInv
        /\ Kind[r] \in Kinds /\ Kind[r] # "line" /\ req[r].amt \in Int /\ Amount[r] \in Nat
    BY RequestAssumption
    DEF RequestEffect, ExactInv, FreshInv, SafeMoney, SafeSentinel, ExclusionInv, TypeOK, Request,
        Exacting, Honest, NoLineCancels
  <2> QED
    BY <2>1, PlainRemaining
<1>h. /\ \A s \in Requests \ {r} : req'[s] = req[s]
      /\ req[r].pc \in Paying => r \in RequestHolders /\ req[r].amt > 0
  BY <1>0 DEF OnwardReq, HeldIsAmount, RequestHolders, Paying
<1>x. \A s \in Requests \ {r} : Kind[s] \in Keyed /\ (LiveHolders = {} \/ r \in RequestHolders) =>
        req'[s].pc \notin KeyedWork
  BY <1>0, <1>h, KeyedHolds DEF Exclusive, LiveHolders
<1>n. ASSUME LiveHolders = {} \/ r \in RequestHolders,
             order'.refundedAt => order'.refundAmt = Capture,
             Kind[r] \in Keyed =>
               /\ req'[r].pc \in {"pay", "release"} => ~order'.refundedAt
               /\ req'[r].pc \in KeyedWork /\ req'[r].full => order'.refundAmt = Capture,
             In(r, "release")' => Kind[r] # "chefcancel"
      PROVE  StampsInFull'
  <2>1. \A s \in Requests : Kind[s] \in Keyed =>
          /\ req'[s].pc \in {"pay", "release"} => ~order'.refundedAt
          /\ req'[s].pc \in KeyedWork /\ req'[s].full => order'.refundAmt = Capture
    BY <1>n, <1>x DEF KeyedWork
  <2>2. \A s \in Requests : In(s, "release")' => Kind[s] # "chefcancel"
    BY <1>h, <1>n DEF StampsInFull, In
  <2> QED
    BY <1>n, <2>1, <2>2 DEF StampsInFull, KeyedWork
<1>w. WalletGrew'
  <2>1. CASE Pays(r)
    <3>1. PICK answer \in {"ok", "error"} : Move(r, answer)
      BY <2>1 DEF Pays
    <3>2. req[r].amt > 0
      BY <1>h, <2>1 DEF Pays, Paying, In
    <3>3. paid'.wallet \in Int /\ paid'.wallet >= paid.wallet
      <4>1. \/ \E key : GatewayCall(key, req[r].amt, answer)
            \/ \E key : WalletCredit(key, req[r].amt, answer)
        BY <1>0, <3>1 DEF Move, Kinds
      <4>2. paid.wallet \in Int
        BY <1>0 DEF CommandTypeOK
      <4> QED
        BY <1>0, <3>2, <4>1, <4>2, CallKeepsWallet, CreditGrowsWallet
    <3>4. paid.wallet \in Int
      BY <1>0 DEF CommandTypeOK
    <3> QED
      BY <3>3, <3>4 DEF WalletGrew
  <2>2. CASE ~Pays(r)
    BY <1>0, <2>2 DEF RequestEffect, StandsBy, TakesClaim, TakesLine, Defers, Swaps, Ends, LetsGo, Returns,
        ReturnsLine, Same, WalletGrew
  <2> QED
    BY <2>1, <2>2
<1>1. CASE StandsBy(r)
  <2>1. UNCHANGED <<order.refundedAt, order.refundAmt>> /\ req'[r].pc \notin KeyedWork
    BY <1>1 DEF StandsBy, Same, Columns, KeyedWork
  <2> QED
    BY <1>h, <1>w, <2>1 DEF StampsInFull, KeyedWork, In
<1>2. CASE TakesClaim(r)
  <2>1. In(r, "release")' => Kind[r] # "chefcancel"
    BY <1>2 DEF TakesClaim, In
  <2>2. LiveHolders = {}
    BY <1>0, <1>2 DEF TakesClaim, Exclusive
  <2>3. req'[r].amt \in Int /\ req'[r].amt <= Remaining(order) /\ order'.refundAmt = order.refundAmt + req'[r].amt
    BY <1>0, <1>2, BookedIsLeft DEF TakesClaim
  <2>4. req'[r].amt >= Remaining(order) => order'.refundAmt = Capture
    BY <1>0, <2>3
  <2>5. CASE Kind[r] \in Keyed
    <3>1. IntentFor(r) # "full"
      BY <2>5 DEF IntentFor, Keyed
    <3>2. ~order.refundedAt
      BY <1>0, <1>2 DEF TakesClaim, StampsInFull
    <3>3. ~order'.refundedAt
      BY <1>2, <3>1, <3>2 DEF TakesClaim
    <3>4. req'[r].full => req'[r].amt >= Remaining(order)
      BY <1>2 DEF TakesClaim
    <3> QED
      BY <1>n, <1>w, <2>1, <2>2, <2>4, <3>3, <3>4
  <2>6. CASE Kind[r] \notin Keyed
    <3>1. IntentFor(r) = "full"
      BY <1>0, <2>6 DEF IntentFor, Keyed, Kinds
    <3>2. req'[r].amt = Remaining(order)
      BY <1>2, <3>1 DEF TakesClaim, ReserveAmount
    <3>3. order'.refundAmt = Capture
      BY <1>0, <2>3, <3>2
    <3> QED
      BY <1>2, <1>n, <1>w, <2>2, <2>6, <3>3 DEF TakesClaim, In
  <2> QED
    BY <2>5, <2>6
<1>3. CASE Defers(r)
  <2>1. UNCHANGED <<order.refundedAt, order.refundAmt>> /\ Kind[r] = "chefcancel" /\ In(r, "pay")'
    BY <1>0, <1>3 DEF Defers, SentinelInv, Earned
  <2> QED
    BY <1>h, <1>w, <2>1 DEF StampsInFull, Keyed, In
<1>4. CASE Pays(r)
  <2>1. UNCHANGED <<order.refundedAt, order.refundAmt, req[r].full>> /\ In(r, "pay")
    BY <1>4 DEF Pays, Columns, Amounts
  <2>2. Kind[r] = "chefcancel" => req'[r].pc \in {"swap", "done"}
    BY <1>4 DEF Pays, AfterPay
  <2>3. Kind[r] \in Keyed => ~order.refundedAt /\ (req[r].full => order.refundAmt = Capture)
    BY <2>1 DEF StampsInFull, In
  <2> QED
    BY <1>h, <1>w, <2>1, <2>2, <2>3 DEF StampsInFull, Keyed, In
<1>5. CASE Swaps(r)
  <2>1. UNCHANGED <<order.refundedAt, order.refundAmt>> /\ In(r, "done")'
    BY <1>5 DEF Swaps
  <2> QED
    BY <1>h, <1>w, <2>1 DEF StampsInFull, In
<1>6. CASE Ends(r)
  <2>1. r \in RequestHolders /\ In(r, "done")' /\ In(r, "persist") /\ UNCHANGED order.refundAmt
    BY <1>6, <1>h DEF Ends, Paying, In
  <2>2. order'.refundedAt => order'.refundAmt = Capture
    <3>1. CASE Kind[r] \in Keyed /\ req[r].full
      BY <2>1, <3>1 DEF StampsInFull, In
    <3>2. CASE ~(Kind[r] \in Keyed /\ req[r].full)
      <4>1. UNCHANGED order.refundedAt
        BY <1>6, <3>2 DEF Ends
      <4> QED
        BY <2>1, <4>1 DEF StampsInFull
    <3> QED
      BY <3>1, <3>2
  <2> QED
    BY <1>n, <1>w, <2>1, <2>2 DEF KeyedWork, In
<1>7. CASE Returns(r)
  <2>1. r \in RequestHolders /\ In(r, "release") /\ ~In(r, "release")' /\ req'[r].pc \notin KeyedWork
    BY <1>7, <1>h DEF Returns, Paying, In, KeyedWork
  <2>2. ~order'.refundedAt
    <3>1. Kind[r] # "chefcancel" /\ (Kind[r] \in Keyed => ~order.refundedAt)
      BY <2>1 DEF StampsInFull, In
    <3>2. order'.refundedAt = (order.refundedAt /\ Kind[r] # "saga")
      BY <1>7 DEF Returns
    <3>3. Kind[r] \in Keyed \/ Kind[r] = "saga"
      BY <1>0, <3>1 DEF Kinds, Keyed
    <3> QED
      BY <3>1, <3>2, <3>3
  <2> QED
    BY <1>n, <1>w, <2>1, <2>2 DEF KeyedWork
<1>8. ~LetsGo(r)
  BY DEF LetsGo, Exacting
<1> QED
  BY <1>0, <1>1, <1>2, <1>3, <1>4, <1>5, <1>6, <1>7, <1>8 DEF RequestEffect, TakesLine, ReturnsLine

(* Where no issue and no cancellation request is about the order either    *)
(* (an issue's credit, and a cancellation that keeps everything, stamp the *)
(* row on their own), an order stamped refunded_at has given everything    *)
(* back once nothing is in flight, unless the sentinel still owes it.      *)
THEOREM RefundedWerePaid ==
  ASSUME Exacting, Issues = {}, Workers = {}
  PROVE  Spec => []RefundedMeansPaid
<1>1. Init => StampsInFull /\ WalletGrew
  BY DEF Init, MoneyInit, HandlersInit, StampsInFull, WalletGrew, In
<1>2. ExactInv /\ StampsInFull /\ WalletGrew /\ [Next]_vars => StampsInFull' /\ WalletGrew'
  <2> SUFFICES ASSUME ExactInv, StampsInFull, WalletGrew, [Next]_vars
               PROVE  StampsInFull' /\ WalletGrew'
    OBVIOUS
  <2>1. TypeOK /\ ExclusionInv
    BY DEF ExactInv, FreshInv, SafeMoney, SafeSentinel
  <2> QED
    BY <2>1, Effects, CommandStampsInFull, RequestStampsInFull, OthersStampInFull
<1>3. ExactInv /\ StampsInFull /\ BooksBalanceAtRest => RefundedMeansPaid
  <2>1. ExactInv => order.total + order.perLine = Capture /\ Capture \in Int
    BY CaptureAssumption DEF ExactInv, FreshInv, SafeMoney, Plain
  <2> QED
    BY <2>1 DEF StampsInFull, BooksBalanceAtRest, RefundedMeansPaid
<1> QED
  BY <1>1, <1>2, <1>3, ExactInvariant, BooksBalance, PTL DEF Spec
=============================================================================
