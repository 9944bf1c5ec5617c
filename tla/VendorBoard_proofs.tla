------------------------ MODULE VendorBoard_proofs ------------------------
(***************************************************************************)
(* What the chef's order board guarantees, for any number of orders, of    *)
(* screens opened, of calls in flight and of faults.                       *)
(***************************************************************************)
EXTENDS VendorBoard, TLAPS

Decisions == [order : Orders, action : {"accepted", "rejected"}, n : 0..MaxOpens]
Screens == [order : Orders \cup {"none"}, n : 0..MaxOpens, acting : BOOLEAN]
Shots == {"ready", "handover"}
Calls == [order : Orders, to : Statuses, by : {"decide", "card", "detail"}, n : 0..MaxOpens,
          pc : {"sent", "read", "done", "refused"}, prior : Statuses \cup {"none"},
          undo : (SUBSET Orders) \cup Statuses \cup {"none"}]

(* What the kinds of calls take back when they fail.                       *)
Undoes(p) == IF p.by = "decide" THEN p.undo \in SUBSET Orders ELSE p.undo \in Statuses \cup {"none"}

Rows == server \in [Orders -> Statuses] /\ photo \in [Orders -> SUBSET Shots] /\ asked \subseteq Orders /\ cancels \subseteq Orders
Caches == pend \subseteq Orders /\ board \in [Orders -> Queue \cup {"none"}] /\ det \in [Orders -> Statuses \cup {"none"}]
Decided == hidden \subseteq Orders /\ screen \in Screens /\ timers \subseteq Decisions
Called == puts \subseteq Calls /\ \A p \in puts : Undoes(p)

(* A list's answer under way is a list; the page is asked for only while   *)
(* it is open.                                                             *)
Queries ==
  /\ fetch["pend"].pc = "read" => fetch["pend"].data \subseteq Orders
  /\ fetch["board"].pc = "read" => fetch["board"].data \in [Orders -> Queue \cup {"none"}]
  /\ fetch["det"].pc = "asked" => IsOpen
  /\ DOMAIN fetch = Keys

(* A call for a status that needs a photo has it; one that read the row    *)
(* does not mean to move it out of a final status.                         *)
Photographed(p) ==
  /\ p.to = "ready" => "ready" \in photo[p.order]
  /\ p.to = "delivered" => "handover" \in photo[p.order]
Careful(p) == p.pc = "read" => p.prior = p.to \/ p.prior \notin Final
CallsAreFine == \A p \in puts : Photographed(p) /\ Careful(p)

(* One instance of the screen makes one decision at a time: while it waits *)
(* or is under way, the footer of that instance is busy.                   *)
IsDecision(p) == p \in puts /\ p.by = "decide"
OneAtATime ==
  /\ \A t, u \in timers : t.n = u.n => t = u
  /\ \A p, q \in puts : IsDecision(p) /\ IsDecision(q) /\ p.n = q.n => p = q
  /\ \A t \in timers, p \in puts : IsDecision(p) => t.n # p.n
  /\ \A t \in timers : t.n <= screen.n /\ (t.n = screen.n /\ IsOpen => screen.acting)
  /\ \A p \in puts : IsDecision(p) => p.n <= screen.n /\ (p.n = screen.n /\ IsOpen => screen.acting)

BoardInv ==
  /\ Rows /\ Caches /\ Decided /\ Called /\ Queries /\ CallsAreFine /\ OneAtATime
  /\ HiddenIsDeciding /\ PhotoComesFirst

(* Serving or losing a call replaces it by one for the same decision.     *)
Replaced(p, q) ==
  /\ puts' = (puts \ {p}) \cup {q}
  /\ q.order = p.order /\ q.to = p.to /\ q.by = p.by /\ q.n = p.n /\ q.undo = p.undo
  /\ Careful(p) => Careful(q)
  /\ UNCHANGED <<photo, hidden, screen, timers>>

LEMMA PutReplaces ==
  ASSUME Rows, Called, NEW p \in puts, PutRead(p) \/ PutWrite(p) \/ PutLost(p)
  PROVE  \E q \in Calls : Replaced(p, q)
<1>1. p \in Calls /\ server[p.order] \in Statuses
  BY DEF Called, Calls, Rows
<1>2. CASE PutRead(p)
  <2> DEFINE s == server[p.order]
             q == IF s = p.to \/ (MayChange(s, p.to) /\ p.order \notin asked)
                  THEN [p EXCEPT !.pc = "read", !.prior = s] ELSE [p EXCEPT !.pc = "refused"]
  <2>1. q \in Calls /\ q.order = p.order /\ q.to = p.to /\ q.by = p.by /\ q.n = p.n /\ q.undo = p.undo
    BY <1>1 DEF Calls
  <2>2. Careful(q)
    BY <1>1 DEF Careful, Calls, MayChange, Final
  <2>3. puts' = (puts \ {p}) \cup {q} /\ UNCHANGED <<photo, hidden, screen, timers>>
    BY <1>2 DEF PutRead, With, remote
  <2> QED
    BY <2>1, <2>2, <2>3 DEF Replaced
<1>3. CASE PutWrite(p) \/ PutLost(p)
  <2> DEFINE q(pc) == [p EXCEPT !.pc = pc]
  <2>1. \A pc \in {"done", "refused"} :
          /\ q(pc) \in Calls /\ q(pc).order = p.order /\ q(pc).to = p.to /\ q(pc).by = p.by
          /\ q(pc).n = p.n /\ q(pc).undo = p.undo /\ Careful(q(pc))
    BY <1>1 DEF Calls, Careful
  <2>2. \E pc \in {"done", "refused"} : puts' = (puts \ {p}) \cup {q(pc)}
    BY <1>3 DEF PutWrite, PutLost, With
  <2>3. UNCHANGED <<photo, hidden, screen, timers>>
    BY <1>3 DEF PutWrite, PutLost, remote
  <2> QED
    BY <2>1, <2>2, <2>3 DEF Replaced
<1> QED
  BY <1>2, <1>3

(* What a step writes to the rows, the caches, the screen, the calls and   *)
(* the queries is well formed (next five lemmas).                          *)
LEMMA RowsStep ==
  ASSUME Rows, Called, [Next]_vars
  PROVE  Rows'
<1>1. ASSUME NEW o \in Orders, DetailPhoto(o) PROVE Rows'
  BY <1>1 DEF DetailPhoto, CaptureFor, Rows, Shots, PhotoFor
<1>2. ASSUME NEW o \in Orders, DetailPhotoFails(o) PROVE Rows'
  BY <1>2 DEF DetailPhotoFails, Rows, Shots, PhotoFor
<1>3. ASSUME NEW p \in puts, PutWrite(p) PROVE Rows'
  BY <1>3 DEF PutWrite, With, Rows, Called, Calls
<1>4. ASSUME NEW o \in Orders, CustomerCancels(o) \/ CancelWrites(o) PROVE Rows'
  BY <1>4 DEF CustomerCancels, CancelWrites, Rows, Statuses
<1>5. ASSUME NEW o \in Orders, CustomerAsks(o) PROVE Rows'
  BY <1>5 DEF CustomerAsks, Rows
<1>6. CASE UNCHANGED remote
  BY <1>6 DEF Rows, remote
<1> QED
  BY <1>1, <1>2, <1>3, <1>4, <1>5, <1>6 DEF Next, Put, vars, remote, caches, FetchFails, Poll,
    FetchAnswer, FetchDetail, LiveFrame, Close, Open, Decide, Fire, CardAdvance,
    DetailPreparing, PutRead, DecisionDone, DecisionFailed, AdvanceDone, AdvanceFailed, PutLost,
    Advance

LEMMA CachesStep ==
  ASSUME Rows, Caches, Decided, Called, Queries, [Next]_vars
  PROVE  Caches'
<1>1. ASSUME NEW k \in Lists, FetchAnswer(k) PROVE Caches'
  BY <1>1 DEF FetchAnswer, Caches, Queries, Lists
<1>2. CASE FetchDetail
  BY <1>2 DEF FetchDetail, Caches, Queries, Rows, Decided, Screens, IsOpen
<1>3. ASSUME NEW o \in Orders, NEW a \in {"accepted", "rejected"}, Decide(o, a) PROVE Caches'
  BY <1>3 DEF Decide, Caches, Queue
<1>4. ASSUME NEW t \in timers, Fire(t) PROVE Caches'
  BY <1>4 DEF Fire, Caches
<1>5. ASSUME NEW o \in Orders, CardAdvance(o) PROVE Caches'
  BY <1>5 DEF CardAdvance, Advance, Caches, Statuses
<1>6. ASSUME NEW o \in Orders, DetailPreparing(o) PROVE Caches'
  BY <1>6 DEF DetailPreparing, Advance, Caches, Statuses
<1>7. ASSUME NEW o \in Orders, DetailPhoto(o) PROVE Caches'
  BY <1>7 DEF DetailPhoto, CaptureFor, Caches, Statuses, NextOf
<1>8. ASSUME NEW p \in puts, DecisionFailed(p) PROVE Caches'
  BY <1>8 DEF DecisionFailed, Caches, Called, Calls, Undoes
<1>9. ASSUME NEW p \in puts, AdvanceFailed(p) PROVE Caches'
  BY <1>9 DEF AdvanceFailed, Caches, Called, Calls, Undoes
<1>10. CASE UNCHANGED caches
  BY <1>10 DEF Caches, caches
<1> QED
  BY <1>1, <1>2, <1>3, <1>4, <1>5, <1>6, <1>7, <1>8, <1>9, <1>10 DEF Next, Put, vars, remote,
    caches, FetchFails, Poll, LiveFrame, Close, Open, DetailPhotoFails, PutRead, PutWrite,
    DecisionDone, AdvanceDone, PutLost, CustomerCancels, CancelWrites, CustomerAsks

LEMMA DecidedStep ==
  ASSUME BoardAssumption, Decided, Called, [Next]_vars
  PROVE  Decided'
<1>1. ASSUME NEW o \in Orders, Open(o) PROVE Decided'
  BY <1>1 DEF Open, BoardAssumption, Decided, Screens, IsOpen
<1>2. CASE Close
  BY <1>2 DEF Close, Decided, Screens, Closed
<1>3. ASSUME NEW o \in Orders, NEW a \in {"accepted", "rejected"}, Decide(o, a) PROVE Decided'
  <2>1. screen \in Screens /\ screen.n \in 0..MaxOpens
    BY DEF Decided, Screens
  <2>2. [order |-> o, action |-> a, n |-> screen.n] \in Decisions
    BY <2>1 DEF Decisions
  <2>3. screen' \in Screens
    BY <1>3, <2>1 DEF Decide, Screens
  <2> QED
    BY <1>3, <2>2, <2>3 DEF Decide, Decided
<1>4. ASSUME NEW t \in timers, Fire(t) PROVE Decided'
  BY <1>4 DEF Fire, Decided
<1>5. ASSUME NEW p \in puts, DecisionDone(p) \/ DecisionFailed(p) PROVE Decided'
  BY <1>5 DEF DecisionDone, DecisionFailed, Decided, Screens, Released
<1>6. CASE UNCHANGED <<hidden, screen, timers>>
  BY <1>6 DEF Decided
<1> QED
  BY <1>1, <1>2, <1>3, <1>4, <1>5, <1>6 DEF Next, Put, vars, remote, caches, FetchFails, Poll,
    FetchAnswer, FetchDetail, LiveFrame, CardAdvance, DetailPreparing, DetailPhoto,
    DetailPhotoFails, PutRead, PutWrite, AdvanceDone, AdvanceFailed, PutLost, CustomerCancels, CancelWrites,
    CustomerAsks, Advance

LEMMA CalledStep ==
  ASSUME BoardAssumption, Rows, Caches, Decided, Called, [Next]_vars
  PROVE  Called'
<1>1. ASSUME NEW t \in timers, Fire(t) PROVE Called'
  BY <1>1 DEF Fire, Caches, Decided, Decisions, Called, Calls, Sent, Undoes, Statuses
<1>2. ASSUME NEW o \in Orders, CardAdvance(o) PROVE Called'
  BY <1>2 DEF CardAdvance, Advance, BoardAssumption, Caches, Called, Calls, Sent, Undoes,
    Statuses
<1>3. ASSUME NEW o \in Orders, DetailPreparing(o) PROVE Called'
  BY <1>3 DEF DetailPreparing, Advance, Caches, Decided, Screens, Called, Calls, Sent, Undoes,
    Statuses
<1>4. ASSUME NEW o \in Orders, DetailPhoto(o) PROVE Called'
  BY <1>4 DEF DetailPhoto, CaptureFor, Caches, Decided, Screens, NextOf, Called, Calls, Sent,
    Undoes, Statuses
<1>5. ASSUME NEW p \in puts, PutRead(p) PROVE Called'
  <2> PICK q \in Calls : Replaced(p, q)
    BY <1>5, PutReplaces
  <2> QED
    BY DEF Replaced, Called, Undoes, Calls
<1>6. ASSUME NEW p \in puts, PutWrite(p) PROVE Called'
  <2> PICK q \in Calls : Replaced(p, q)
    BY <1>6, PutReplaces
  <2> QED
    BY DEF Replaced, Called, Undoes, Calls
<1>7. ASSUME NEW p \in puts, PutLost(p) PROVE Called'
  <2> PICK q \in Calls : Replaced(p, q)
    BY <1>7, PutReplaces
  <2> QED
    BY DEF Replaced, Called, Undoes, Calls
<1>8. ASSUME NEW p \in puts, DecisionDone(p) \/ DecisionFailed(p) PROVE Called'
  BY <1>8 DEF DecisionDone, DecisionFailed, Called
<1>9. ASSUME NEW p \in puts, AdvanceDone(p) \/ AdvanceFailed(p) PROVE Called'
  BY <1>9 DEF AdvanceDone, AdvanceFailed, Called
<1>10. CASE UNCHANGED puts
  BY <1>10 DEF Called
<1> QED
  BY <1>1, <1>2, <1>3, <1>4, <1>5, <1>6, <1>7, <1>8, <1>9, <1>10 DEF Next, Put, vars, remote,
    caches, FetchFails, Poll, FetchAnswer, FetchDetail, LiveFrame, Close, Open, Decide,
    DetailPhotoFails, CustomerCancels, CancelWrites, CustomerAsks

LEMMA QueriesStep ==
  ASSUME BoardAssumption, Rows, Decided, Queries, [Next]_vars
  PROVE  Queries'
<1>1. ASSUME NEW k \in Keys, FetchFails(k) PROVE Queries'
  BY <1>1 DEF FetchFails, Queries, Keys, Lists, Idle, IsOpen
<1>2. ASSUME NEW k \in Lists, Poll(k) PROVE Queries'
  BY <1>2 DEF Poll, Queries, Keys, Lists, Idle, IsOpen, Read, Snapshot, Rows
<1>3. ASSUME NEW k \in Lists, FetchAnswer(k) PROVE Queries'
  BY <1>3 DEF FetchAnswer, Queries, Keys, Lists, Idle, IsOpen
<1>4. CASE FetchDetail
  BY <1>4 DEF FetchDetail, Queries, Keys, Lists, Idle, IsOpen
<1>5. CASE LiveFrame
  BY <1>5 DEF LiveFrame, Queries, Keys, Lists, Idle, IsOpen, Invalidated, Asked
<1>6. CASE Close
  BY <1>6 DEF Close, Queries, Keys, Lists, Idle, IsOpen, Closed
<1>7. ASSUME NEW o \in Orders, Open(o) PROVE Queries'
  BY <1>7 DEF Open, Queries, Keys, Lists, Idle, IsOpen, BoardAssumption, Asked, Decided, Screens
<1>8. ASSUME NEW o \in Orders, NEW a \in {"accepted", "rejected"}, Decide(o, a) PROVE Queries'
  BY <1>8 DEF Decide, Queries, Keys, Lists, Idle, IsOpen, Decided, Screens
<1>9. ASSUME NEW t \in timers, Fire(t) PROVE Queries'
  BY <1>9 DEF Fire, Queries, Keys, Lists, Idle, IsOpen
<1>10. ASSUME NEW o \in Orders, CardAdvance(o) PROVE Queries'
  BY <1>10 DEF CardAdvance, Advance, Queries, Keys, Lists, Idle, IsOpen
<1>11. ASSUME NEW o \in Orders, DetailPreparing(o) PROVE Queries'
  BY <1>11 DEF DetailPreparing, Advance, Queries, Keys, Lists, Idle, IsOpen
<1>12. ASSUME NEW o \in Orders, DetailPhoto(o) PROVE Queries'
  BY <1>12 DEF DetailPhoto, CaptureFor, Queries, Keys, Lists, Idle, IsOpen
<1>13. ASSUME NEW p \in puts, DecisionDone(p) \/ DecisionFailed(p) PROVE Queries'
  BY <1>13 DEF DecisionDone, DecisionFailed, Queries, Keys, Lists, Idle, IsOpen, Invalidated,
    Asked, Released, Decided, Screens
<1>14. ASSUME NEW p \in puts, AdvanceDone(p) \/ AdvanceFailed(p) PROVE Queries'
  BY <1>14 DEF AdvanceDone, AdvanceFailed, Queries, Keys, Lists, Idle, IsOpen, Invalidated,
    Asked
<1>15. CASE UNCHANGED <<fetch, screen>>
  BY <1>15 DEF Queries, IsOpen
<1> QED
  BY <1>1, <1>2, <1>3, <1>4, <1>5, <1>6, <1>7, <1>8, <1>9, <1>10, <1>11, <1>12, <1>13, <1>14,
    <1>15 DEF Next, Put, vars, remote, caches, DetailPhotoFails, PutRead, PutWrite, PutLost,
    CustomerCancels, CancelWrites, CustomerAsks

(* No call sends a photographed status without its photo, or moves an      *)
(* order whose status is final.                                            *)
LEMMA CallsStep ==
  ASSUME Rows, Caches, Decided, Called, CallsAreFine, [Next]_vars
  PROVE  CallsAreFine'
<1>1. ASSUME NEW t \in timers, Fire(t) PROVE CallsAreFine'
  BY <1>1 DEF Fire, CallsAreFine, Photographed, Careful, remote, Sent, Decided, Decisions
<1>2. ASSUME NEW o \in Orders, CardAdvance(o) PROVE CallsAreFine'
  BY <1>2 DEF CardAdvance, Advance, CallsAreFine, Photographed, Careful, remote, Sent
<1>3. ASSUME NEW o \in Orders, DetailPreparing(o) PROVE CallsAreFine'
  BY <1>3 DEF DetailPreparing, Advance, CallsAreFine, Photographed, Careful, remote, Sent
<1>4. ASSUME NEW o \in Orders, DetailPhoto(o) PROVE CallsAreFine'
  BY <1>4 DEF DetailPhoto, CaptureFor, CallsAreFine, Photographed, Careful, remote, Sent, Rows,
    NextOf, PhotoFor
<1>5. ASSUME NEW o \in Orders, DetailPhotoFails(o) PROVE CallsAreFine'
  BY <1>5 DEF DetailPhotoFails, CallsAreFine, Photographed, Careful, remote, Rows, Called, Calls
<1>6. ASSUME NEW p \in puts, PutRead(p) PROVE CallsAreFine'
  <2> PICK q \in Calls : Replaced(p, q)
    BY <1>6, PutReplaces
  <2> QED
    BY DEF Replaced, CallsAreFine, Photographed, Careful
<1>7. ASSUME NEW p \in puts, PutWrite(p) PROVE CallsAreFine'
  <2> PICK q \in Calls : Replaced(p, q)
    BY <1>7, PutReplaces
  <2> QED
    BY DEF Replaced, CallsAreFine, Photographed, Careful
<1>8. ASSUME NEW p \in puts, PutLost(p) PROVE CallsAreFine'
  <2> PICK q \in Calls : Replaced(p, q)
    BY <1>8, PutReplaces
  <2> QED
    BY DEF Replaced, CallsAreFine, Photographed, Careful
<1>9. ASSUME NEW p \in puts, DecisionDone(p) \/ DecisionFailed(p) PROVE CallsAreFine'
  BY <1>9 DEF DecisionDone, DecisionFailed, CallsAreFine, Photographed, Careful, remote
<1>10. ASSUME NEW p \in puts, AdvanceDone(p) \/ AdvanceFailed(p) PROVE CallsAreFine'
  BY <1>10 DEF AdvanceDone, AdvanceFailed, CallsAreFine, Photographed, Careful, remote
<1>11. CASE UNCHANGED <<puts, photo>>
  BY <1>11 DEF CallsAreFine, Photographed, Careful
<1> QED
  BY <1>1, <1>2, <1>3, <1>4, <1>5, <1>6, <1>7, <1>8, <1>9, <1>10, <1>11 DEF Next, Put, vars,
    remote, caches, FetchFails, Poll, FetchAnswer, FetchDetail, LiveFrame, Close, Open, Decide,
    CustomerCancels, CancelWrites, CustomerAsks

(* So nothing is ready or handed over without its photo.                   *)
LEMMA PhotoStep ==
  ASSUME Rows, Called, CallsAreFine, PhotoComesFirst, [Next]_vars
  PROVE  PhotoComesFirst'
<1>1. ASSUME NEW o \in Orders, DetailPhoto(o) PROVE PhotoComesFirst'
  BY <1>1 DEF DetailPhoto, CaptureFor, PhotoComesFirst, Rows
<1>2. ASSUME NEW o \in Orders, DetailPhotoFails(o) PROVE PhotoComesFirst'
  BY <1>2 DEF DetailPhotoFails, PhotoComesFirst, Rows
<1>3. ASSUME NEW p \in puts, PutWrite(p) PROVE PhotoComesFirst'
  BY <1>3 DEF PutWrite, With, PhotoComesFirst, Rows, Called, Calls, CallsAreFine, Photographed
<1>4. ASSUME NEW o \in Orders, CancelWrites(o) PROVE PhotoComesFirst'
  BY <1>4 DEF CancelWrites, PhotoComesFirst, Rows
<1>5. CASE UNCHANGED <<server, photo>>
  BY <1>5 DEF PhotoComesFirst
<1> QED
  BY <1>1, <1>2, <1>3, <1>4, <1>5 DEF Next, Put, vars, remote, caches, FetchFails, Poll,
    FetchAnswer, FetchDetail, LiveFrame, Close, Open, Decide, Fire, CardAdvance,
    DetailPreparing, PutRead, DecisionDone, DecisionFailed, AdvanceDone, AdvanceFailed, PutLost,
    CustomerCancels, CustomerAsks, Advance

(* A hidden card keeps its decision until the decision has ended.          *)
LEMMA HiddenStep ==
  ASSUME Rows, Decided, Called, HiddenIsDeciding, [Next]_vars
  PROVE  HiddenIsDeciding'
<1>1. ASSUME NEW o \in Orders, NEW a \in {"accepted", "rejected"}, Decide(o, a) PROVE HiddenIsDeciding'
  <2>1. [order |-> o, action |-> a, n |-> screen.n] \in timers'
    BY <1>1 DEF Decide
  <2> QED
    BY <1>1, <2>1 DEF Decide, HiddenIsDeciding, Deciding
<1>2. ASSUME NEW t \in timers, Fire(t) PROVE HiddenIsDeciding'
  <2> DEFINE p == [Sent(t.order, t.action, "decide", t.n) EXCEPT !.undo = pend]
  <2>1. p \in puts' /\ p.order = t.order /\ p.by = "decide"
    BY <1>2 DEF Fire, Sent
  <2> HIDE DEF p
  <2> QED
    BY <1>2, <2>1 DEF Fire, HiddenIsDeciding, Deciding
<1>3. ASSUME NEW o \in Orders, CardAdvance(o) PROVE HiddenIsDeciding'
  BY <1>3 DEF CardAdvance, Advance, HiddenIsDeciding, Deciding
<1>4. ASSUME NEW o \in Orders, DetailPreparing(o) PROVE HiddenIsDeciding'
  BY <1>4 DEF DetailPreparing, Advance, HiddenIsDeciding, Deciding
<1>5. ASSUME NEW o \in Orders, DetailPhoto(o) PROVE HiddenIsDeciding'
  BY <1>5 DEF DetailPhoto, CaptureFor, HiddenIsDeciding, Deciding
<1>6. ASSUME NEW p \in puts, PutRead(p) PROVE HiddenIsDeciding'
  <2> PICK q \in Calls : Replaced(p, q)
    BY <1>6, PutReplaces
  <2> QED
    BY DEF Replaced, HiddenIsDeciding, Deciding
<1>7. ASSUME NEW p \in puts, PutWrite(p) PROVE HiddenIsDeciding'
  <2> PICK q \in Calls : Replaced(p, q)
    BY <1>7, PutReplaces
  <2> QED
    BY DEF Replaced, HiddenIsDeciding, Deciding
<1>8. ASSUME NEW p \in puts, PutLost(p) PROVE HiddenIsDeciding'
  <2> PICK q \in Calls : Replaced(p, q)
    BY <1>8, PutReplaces
  <2> QED
    BY DEF Replaced, HiddenIsDeciding, Deciding
<1>9. ASSUME NEW p \in puts, DecisionDone(p) \/ DecisionFailed(p) PROVE HiddenIsDeciding'
  BY <1>9 DEF DecisionDone, DecisionFailed, HiddenIsDeciding, Deciding
<1>10. ASSUME NEW p \in puts, AdvanceDone(p) \/ AdvanceFailed(p) PROVE HiddenIsDeciding'
  BY <1>10 DEF AdvanceDone, AdvanceFailed, HiddenIsDeciding, Deciding
<1>11. CASE UNCHANGED <<hidden, timers, puts>>
  BY <1>11 DEF HiddenIsDeciding, Deciding
<1> QED
  BY <1>1, <1>2, <1>3, <1>4, <1>5, <1>6, <1>7, <1>8, <1>9, <1>10, <1>11 DEF Next, Put, vars,
    remote, caches, FetchFails, Poll, FetchAnswer, FetchDetail, LiveFrame, Close, Open,
    DetailPhotoFails, CustomerCancels, CancelWrites, CustomerAsks

(* One instance of the screen has one decision.                            *)
LEMMA OneStep ==
  ASSUME BoardAssumption, Rows, Decided, Called, OneAtATime, [Next]_vars
  PROVE  OneAtATime'
<1>1. ASSUME NEW o \in Orders, Open(o) PROVE OneAtATime'
  BY <1>1 DEF Open, OneAtATime, IsDecision, IsOpen, Decided, Screens, Decisions, Called, Calls
<1>2. CASE Close
  BY <1>2 DEF Close, OneAtATime, IsDecision, IsOpen, Decided, Screens, Closed
<1>3. ASSUME NEW o \in Orders, NEW a \in {"accepted", "rejected"}, Decide(o, a) PROVE OneAtATime'
  BY <1>3 DEF Decide, OneAtATime, IsDecision, IsOpen, Decided, Screens, Decisions, Footer,
    Called, Calls
<1>4. ASSUME NEW t \in timers, Fire(t) PROVE OneAtATime'
  BY <1>4 DEF Fire, OneAtATime, IsDecision, IsOpen, Sent, Decided, Decisions
<1>5. ASSUME NEW o \in Orders, CardAdvance(o) PROVE OneAtATime'
  BY <1>5 DEF CardAdvance, Advance, OneAtATime, IsDecision, IsOpen, Sent
<1>6. ASSUME NEW o \in Orders, DetailPreparing(o) PROVE OneAtATime'
  BY <1>6 DEF DetailPreparing, Advance, OneAtATime, IsDecision, IsOpen, Sent
<1>7. ASSUME NEW o \in Orders, DetailPhoto(o) PROVE OneAtATime'
  BY <1>7 DEF DetailPhoto, CaptureFor, OneAtATime, IsDecision, IsOpen, Sent
<1>8. ASSUME NEW p \in puts, PutRead(p) PROVE OneAtATime'
  <2> PICK q \in Calls : Replaced(p, q)
    BY <1>8, PutReplaces
  <2> QED
    BY DEF Replaced, OneAtATime, IsDecision, IsOpen
<1>9. ASSUME NEW p \in puts, PutWrite(p) PROVE OneAtATime'
  <2> PICK q \in Calls : Replaced(p, q)
    BY <1>9, PutReplaces
  <2> QED
    BY DEF Replaced, OneAtATime, IsDecision, IsOpen
<1>10. ASSUME NEW p \in puts, PutLost(p) PROVE OneAtATime'
  <2> PICK q \in Calls : Replaced(p, q)
    BY <1>10, PutReplaces
  <2> QED
    BY DEF Replaced, OneAtATime, IsDecision, IsOpen
<1>11. ASSUME NEW p \in puts, DecisionDone(p) \/ DecisionFailed(p) PROVE OneAtATime'
  BY <1>11 DEF DecisionDone, DecisionFailed, OneAtATime, IsDecision, IsOpen, Released, Decided,
    Screens, Called, Calls
<1>12. ASSUME NEW p \in puts, AdvanceDone(p) \/ AdvanceFailed(p) PROVE OneAtATime'
  BY <1>12 DEF AdvanceDone, AdvanceFailed, OneAtATime, IsDecision, IsOpen
<1>13. CASE UNCHANGED <<screen, timers, puts>>
  BY <1>13 DEF OneAtATime, IsDecision, IsOpen
<1> QED
  BY <1>1, <1>2, <1>3, <1>4, <1>5, <1>6, <1>7, <1>8, <1>9, <1>10, <1>11, <1>12, <1>13 DEF Next,
    Put, vars, remote, caches, FetchFails, Poll, FetchAnswer, FetchDetail, LiveFrame,
    DetailPhotoFails, CustomerCancels, CancelWrites, CustomerAsks

(* The invariant holds at the start, after every step, and so always.      *)
LEMMA BoardStart == BoardInit => BoardInv
<1> SUFFICES ASSUME BoardInit PROVE BoardInv
  OBVIOUS
<1>1. Rows /\ Caches
  BY DEF BoardInit, Rows, Caches, Statuses
<1>2. Decided
  BY BoardAssumption DEF BoardAssumption, BoardInit, Decided, Screens, Closed
<1>3. Called /\ CallsAreFine /\ OneAtATime
  BY DEF BoardInit, Called, CallsAreFine, OneAtATime
<1>4. Queries
  BY DEF BoardInit, Queries, Keys, Lists, Idle
<1>5. HiddenIsDeciding /\ PhotoComesFirst
  BY DEF BoardInit, HiddenIsDeciding, PhotoComesFirst
<1> QED
  BY <1>1, <1>2, <1>3, <1>4, <1>5 DEF BoardInv

LEMMA BoardStep == BoardInv /\ [Next]_vars => BoardInv'
<1> SUFFICES ASSUME BoardInv, [Next]_vars PROVE BoardInv'
  OBVIOUS
<1>1. /\ Rows /\ Caches /\ Decided /\ Called /\ Queries /\ CallsAreFine /\ OneAtATime
      /\ HiddenIsDeciding /\ PhotoComesFirst
  BY DEF BoardInv
<1>2. Rows' /\ Caches' /\ Decided'
  BY <1>1, BoardAssumption, RowsStep, CachesStep, DecidedStep
<1>3. Called' /\ Queries'
  BY <1>1, BoardAssumption, CalledStep, QueriesStep
<1>4. CallsAreFine' /\ OneAtATime'
  BY <1>1, BoardAssumption, CallsStep, OneStep
<1>5. HiddenIsDeciding' /\ PhotoComesFirst'
  BY <1>1, HiddenStep, PhotoStep
<1> QED
  BY <1>2, <1>3, <1>4, <1>5 DEF BoardInv

LEMMA BoardInvariant == Spec => []BoardInv
BY BoardStart, BoardStep, PTL DEF Spec

(* Rows, caches, timers and calls are always well formed.                  *)
THEOREM BoardTypeCorrect == Spec => []TypeOK
<1>1. ASSUME BoardInv PROVE TypeOK
  <2>1. screen.order \in Orders \cup {"none"} /\ screen.n \in 0..MaxOpens
    BY <1>1 DEF BoardInv, Decided, Screens
  <2>2. \A t \in timers : t.order \in Orders /\ t.action \in {"accepted", "rejected"}
    BY <1>1 DEF BoardInv, Decided, Decisions
  <2>3. \A p \in puts : p.to \in Statuses /\ p.pc \in {"sent", "read", "done", "refused"}
    BY <1>1 DEF BoardInv, Called, Calls
  <2> QED
    BY <1>1, <2>1, <2>2, <2>3 DEF BoardInv, TypeOK, Rows, Caches, Decided, Shots
<1> QED
  BY BoardInvariant, <1>1, PTL

(* A card is hidden only while its decision waits or is under way          *)
(* (actionedOrderIds), whatever is closed, reopened or lost meanwhile.     *)
THEOREM HiddenCardsComeBack == Spec => []HiddenIsDeciding
<1>1. BoardInv => HiddenIsDeciding
  BY DEF BoardInv
<1> QED
  BY BoardInvariant, <1>1, PTL

(* Nothing is ready or handed over without its photo, whichever stale      *)
(* cache the tap was made on (captureAndAdvance, nextStatusMap).           *)
THEOREM PhotosComeFirst == Spec => []PhotoComesFirst
<1>1. BoardInv => PhotoComesFirst
  BY DEF BoardInv
<1> QED
  BY BoardInvariant, <1>1, PTL

(* A decision leaves its timer only to be sent, and never twice at once    *)
(* from one screen (triggerAction's timers survive the screen).            *)
THEOREM DecisionsAreSent == Spec => DecisionIsSent
<1>1. ASSUME BoardInv, [Next]_vars, NEW t \in timers, t \notin timers'
      PROVE  \E p \in puts' \ puts : p.order = t.order /\ p.to = t.action
  <2>1. Fire(t)
    BY <1>1 DEF Next, Put, vars, caches, remote, FetchFails, Poll, FetchAnswer, FetchDetail, LiveFrame,
      Close, Open, Decide, Fire, CardAdvance, DetailPreparing, Advance, DetailPhoto, DetailPhotoFails,
      PutRead, PutWrite, DecisionDone, DecisionFailed, AdvanceDone, AdvanceFailed, PutLost,
      CustomerCancels, CancelWrites, CustomerAsks
  <2> DEFINE p == [Sent(t.order, t.action, "decide", t.n) EXCEPT !.undo = pend]
  <2>2. p \in puts' /\ p.order = t.order /\ p.to = t.action /\ p.by = "decide" /\ p.n = t.n
    BY <2>1 DEF Fire, Sent
  <2> HIDE DEF p
  <2>3. p \notin puts
    BY <1>1, <2>2 DEF BoardInv, OneAtATime, IsDecision
  <2> QED
    BY <2>2, <2>3
<1>2. BoardInv /\ [Next]_vars =>
        [\A t \in timers \ timers' : \E p \in puts' \ puts : p.order = t.order /\ p.to = t.action]_vars
  BY <1>1
<1> QED
  BY BoardInvariant, <1>2, PTL DEF Spec, DecisionIsSent

(* An order that was delivered, rejected or cancelled never comes back to  *)
(* work, although a status call may have read it before                    *)
(* (UpdateOrderStatus); only a customer's cancel that had read it before   *)
(* may still write, and only cancelled (CancelOrder).                      *)
THEOREM FinalIsFinal == Spec => FinalStays
<1>1. ASSUME BoardInv, [Next]_vars, NEW o \in Orders, server[o] \in Final
      PROVE  server'[o] = server[o] \/ (o \in cancels /\ server'[o] = "cancelled")
  <2>a. Rows /\ Called /\ CallsAreFine
    BY <1>1 DEF BoardInv
  <2>1. ASSUME NEW p \in puts, PutWrite(p) PROVE server'[o] = server[o]
    BY <1>1, <2>1, <2>a DEF PutWrite, CallsAreFine, Careful, Rows
  <2>2. ASSUME NEW x \in Orders, CancelWrites(x)
        PROVE  server'[o] = server[o] \/ (o \in cancels /\ server'[o] = "cancelled")
    BY <1>1, <2>2, <2>a DEF CancelWrites, Rows
  <2>3. CASE UNCHANGED server
    BY <2>3
  <2> QED
    BY <1>1, <2>1, <2>2, <2>3 DEF Next, Put, vars, caches, remote, FetchFails, Poll, FetchAnswer, FetchDetail,
      LiveFrame, Close, Open, Decide, Fire, CardAdvance, DetailPreparing, Advance, DetailPhoto,
      DetailPhotoFails, PutRead, DecisionDone, DecisionFailed, AdvanceDone, AdvanceFailed, PutLost,
      CustomerCancels, CustomerAsks
<1>2. BoardInv /\ [Next]_vars =>
        [\A o \in Orders : server[o] \in Final =>
           \/ server'[o] = server[o]
           \/ o \in cancels /\ server'[o] = "cancelled"]_vars
  BY <1>1
<1> QED
  BY BoardInvariant, <1>2, PTL DEF Spec, FinalStays
=============================================================================
