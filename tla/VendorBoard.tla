---------------------------- MODULE VendorBoard ----------------------------
(***************************************************************************)
(* The chef's order board: the polled list of pending orders, the polled   *)
(* kitchen queue, the order's own screen, the accept and reject that wait  *)
(* three seconds before they are sent, and the one-tap advances; against   *)
(* the API's status handler, which the customer's cancel races.            *)
(***************************************************************************)
EXTENDS Naturals, FiniteSets

CONSTANTS
  Orders,
  MaxOpens,      \* how often the order's screen is opened
  MaxFaults      \* requests that fail or whose answer is lost, and customers' cancels

ASSUME BoardAssumption ==
  "none" \notin Orders /\ {MaxOpens, MaxFaults} \subseteq Nat

Statuses == {"pending", "accepted", "preparing", "ready", "delivered", "rejected", "cancelled"}
Queue == {"accepted", "preparing", "ready"}
Final == {"delivered", "rejected", "cancelled"}
Lists == {"pend", "board"}
Keys == Lists \cup {"det"}

VARIABLES
  server,   \* per order: its status
  photo,    \* per order: the lifecycle photos stored
  asked,    \* orders whose customer awaits the chef's answer to a cancel request
  cancels,  \* orders whose customer's cancel has read the row and not written it
  pend,     \* cache: the pending list
  board,    \* cache: the kitchen queue, a status per order, or "none"
  det,      \* cache: the order's own page, its status, or "none"
  fetch,    \* per key: the query under way
  hidden,   \* actionedOrderIds
  screen,   \* the open order's screen: its order, its instance, its footer's actioning flag
  timers,   \* decisions waiting to be sent: order, action, instance
  puts,     \* status calls under way
  frame,    \* BOOLEAN: a live event has not arrived yet
  faults

remote == <<server, photo, asked, cancels>>
caches == <<pend, board, det>>
vars == <<remote, caches, fetch, hidden, screen, timers, puts, frame, faults>>

Idle == [pc |-> "no", data |-> <<>>]
Asked == [pc |-> "asked", data |-> <<>>]
Closed == [order |-> "none", n |-> 0, acting |-> FALSE]

BoardInit ==
  /\ server = [o \in Orders |-> "pending"] /\ photo = [o \in Orders |-> {}] /\ asked = {} /\ cancels = {}
  /\ pend = {} /\ board = [o \in Orders |-> "none"] /\ det = [o \in Orders |-> "none"]
  /\ fetch = [k \in Keys |-> Idle]
  /\ hidden = {} /\ screen = Closed /\ timers = {} /\ puts = {} /\ frame = FALSE /\ faults = 0

Fault == faults < MaxFaults /\ faults' = faults + 1
IsOpen == screen.order # "none"

---------------------------------------------------------------------------
Snapshot(k) == CASE k = "pend" -> {o \in Orders : server[o] = "pending"}
                 [] k = "board" -> [o \in Orders |-> IF server[o] \in Queue THEN server[o] ELSE "none"]
Read(k) == [pc |-> "read", data |-> Snapshot(k)]

(* Mutant: only the pending list polls.                                    *)
PollPendingOnly(k) ==
  /\ k = "pend" /\ fetch[k].pc = "no"
  /\ fetch' = [fetch EXCEPT ![k] = Read(k)]
  /\ UNCHANGED <<remote, caches, hidden, screen, timers, puts, frame, faults>>

(* Queries.  A list is polled, whenever the API serves it; invalidating    *)
(* starts over, and what is written to the cache meanwhile does not stop   *)
(* the answer.                                                             *)
Poll(k) ==
  /\ fetch[k].pc = "no"
  /\ fetch' = [fetch EXCEPT ![k] = Read(k)]
  /\ UNCHANGED <<remote, caches, hidden, screen, timers, puts, frame, faults>>

Invalidated == [k \in Keys |-> IF k = "det" /\ IsOpen THEN Asked ELSE Idle]

LiveFrame ==
  /\ frame /\ frame' = FALSE /\ fetch' = Invalidated
  /\ UNCHANGED <<remote, caches, hidden, screen, timers, puts, faults>>

FetchAnswer(k) ==
  /\ fetch[k].pc = "read" /\ fetch' = [fetch EXCEPT ![k] = Idle]
  /\ pend' = IF k = "pend" THEN fetch[k].data ELSE pend
  /\ board' = IF k = "board" THEN fetch[k].data ELSE board
  /\ UNCHANGED <<remote, det, hidden, screen, timers, puts, frame, faults>>

(* The order's page, asked for when its screen is opened or invalidated.   *)
(* What is done from the page cancels the query, so that nothing tells     *)
(* when it was served from when it arrived.                                *)
FetchDetail ==
  /\ fetch["det"].pc = "asked" /\ fetch' = [fetch EXCEPT !["det"] = Idle]
  /\ det' = [det EXCEPT ![screen.order] = server[screen.order]]
  /\ UNCHANGED <<remote, pend, board, hidden, screen, timers, puts, frame, faults>>

FetchFails(k) ==
  /\ fetch[k].pc # "no" /\ Fault /\ fetch' = [fetch EXCEPT ![k] = Idle]
  /\ UNCHANGED <<remote, caches, hidden, screen, timers, puts, frame>>

(* The pending list on screen leaves out what was just decided.            *)
Shown == pend \ hidden

---------------------------------------------------------------------------
(* The order's screen; a cached page may be fresh enough not to ask again. *)
Open(o) ==
  /\ ~IsOpen /\ screen.n < MaxOpens /\ (o \in Shown \/ board[o] # "none")
  /\ screen' = [order |-> o, n |-> screen.n + 1, acting |-> FALSE]
  /\ fetch' = [fetch EXCEPT !["det"] = Asked] \/ (det[o] # "none" /\ UNCHANGED fetch)
  /\ UNCHANGED <<remote, caches, hidden, timers, puts, frame, faults>>

(* Leaving it: the timers it armed go on without it.                       *)
Close ==
  /\ IsOpen /\ screen' = [Closed EXCEPT !.n = screen.n]
  /\ fetch' = [fetch EXCEPT !["det"] = Idle]
  /\ UNCHANGED <<remote, caches, hidden, timers, puts, frame, faults>>

Sent(o, to, by, n) == [order |-> o, to |-> to, by |-> by, n |-> n, pc |-> "sent", prior |-> "none", undo |-> <<>>]
Busy(o, by, n) == \E p \in puts : p.order = o /\ p.by = by /\ p.n = n

Footer(o) == IsOpen /\ screen.order = o /\ ~screen.acting /\ ~Busy(o, "detail", screen.n)
Waits(n) == \E t \in timers : t.n = n

(* triggerAction: hide the card, show an accepted one in the kitchen       *)
(* queue, and send the decision in three seconds.                          *)
Decide(o, a) ==
  /\ Footer(o) /\ det[o] = "pending" /\ ~Waits(screen.n)
  /\ timers' = timers \cup {[order |-> o, action |-> a, n |-> screen.n]}
  /\ hidden' = hidden \cup {o} /\ screen' = [screen EXCEPT !.acting = TRUE]
  /\ pend' = pend \ {o}
  /\ board' = IF a = "accepted" /\ o \in pend /\ board[o] = "none" THEN [board EXCEPT ![o] = "accepted"] ELSE board
  /\ UNCHANGED <<remote, det, fetch, puts, frame, faults>>

Fire(t) ==
  /\ t \in timers /\ timers' = timers \ {t}
  /\ puts' = puts \cup {[Sent(t.order, t.action, "decide", t.n) EXCEPT !.undo = pend]}
  /\ fetch' = [fetch EXCEPT !["pend"] = Idle]
  /\ pend' = pend \ {t.order}
  /\ UNCHANGED <<remote, board, det, hidden, screen, frame, faults>>

NextOf(s) == CASE s = "accepted" -> "preparing" [] s = "preparing" -> "ready" [] OTHER -> "delivered"
PhotoFor(to) == IF to = "ready" THEN "ready" ELSE "handover"

Advance(o, to, by, n) ==
  /\ puts' = puts \cup {[Sent(o, to, by, n) EXCEPT !.undo = det[o]]}
  /\ fetch' = IF IsOpen /\ screen.order = o THEN [fetch EXCEPT !["det"] = Idle] ELSE fetch
  /\ det' = IF det[o] = "none" THEN det ELSE [det EXCEPT ![o] = to]
  /\ UNCHANGED <<remote, pend, board, hidden, screen, timers, frame, faults>>

(* Mutant: the card's one tap takes the order to ready by itself.          *)
CardAdvanceAny(o) == board[o] \in Queue /\ ~Busy(o, "card", 0) /\ Advance(o, NextOf(board[o]), "card", 0)

(* The card's one tap advances only where no photo is asked for; elsewhere *)
(* it opens the order's screen.                                            *)
CardAdvance(o) ==
  board[o] = "accepted" /\ ~Busy(o, "card", 0) /\ Advance(o, "preparing", "card", 0)

DetailPreparing(o) == Footer(o) /\ det[o] = "accepted" /\ Advance(o, "preparing", "detail", screen.n)

(* captureAndAdvance: the photo is stored, and only then the status sent.  *)
CaptureFor(o) == Footer(o) /\ det[o] \in {"preparing", "ready"}
DetailPhoto(o) ==
  /\ CaptureFor(o)
  /\ photo' = [photo EXCEPT ![o] = @ \cup {PhotoFor(NextOf(det[o]))}]
  /\ puts' = puts \cup {[Sent(o, NextOf(det[o]), "detail", screen.n) EXCEPT !.undo = det[o]]}
  /\ fetch' = [fetch EXCEPT !["det"] = Idle] /\ det' = [det EXCEPT ![o] = NextOf(@)]
  /\ UNCHANGED <<server, asked, cancels, pend, board, hidden, screen, timers, frame, faults>>
DetailPhotoFails(o) ==
  /\ CaptureFor(o) /\ Fault
  /\ UNCHANGED photo \/ photo' = [photo EXCEPT ![o] = @ \cup {PhotoFor(NextOf(det[o]))}]
  /\ UNCHANGED <<server, asked, cancels, caches, fetch, hidden, screen, timers, puts, frame>>

---------------------------------------------------------------------------
(* UpdateOrderStatus: the row and the open request are read, the           *)
(* transition checked ...                                                  *)
MayChange(from, to) == CASE from = "pending" -> to \in {"accepted", "rejected"}
                         [] from = "accepted" -> to \in {"preparing", "ready"}
                         [] from = "preparing" -> to = "ready"
                         [] from = "ready" -> to = "delivered"
                         [] OTHER -> FALSE
With(p, q) == puts' = (puts \ {p}) \cup {q}

PutRead(p) ==
  /\ p \in puts /\ p.pc = "sent"
  /\ LET s == server[p.order]
         ok == s = p.to \/ (MayChange(s, p.to) /\ p.order \notin asked) IN
     With(p, IF ok THEN [p EXCEPT !.pc = "read", !.prior = s] ELSE [p EXCEPT !.pc = "refused"])
  /\ UNCHANGED <<remote, caches, fetch, hidden, screen, timers, frame, faults>>

(* Mutant: the row is written whatever its status is by now.               *)
PutWriteAlways(p) ==
  /\ p \in puts /\ p.pc = "read" /\ With(p, [p EXCEPT !.pc = "done"])
  /\ server' = [server EXCEPT ![p.order] = p.to] /\ frame' = TRUE
  /\ UNCHANGED <<photo, asked, cancels, caches, fetch, hidden, screen, timers, faults>>

(* ... and the row written if it still has the status that was read.       *)
PutWrite(p) ==
  /\ p \in puts /\ p.pc = "read"
  /\ IF server[p.order] = p.prior
     THEN server' = [server EXCEPT ![p.order] = p.to] /\ frame' = TRUE /\ With(p, [p EXCEPT !.pc = "done"])
     ELSE With(p, [p EXCEPT !.pc = "refused"]) /\ UNCHANGED <<server, frame>>
  /\ UNCHANGED <<photo, asked, cancels, caches, fetch, hidden, screen, timers, faults>>

(* The call does not arrive, or its answer does not.                       *)
PutLost(p) ==
  /\ p \in puts /\ p.pc \in {"sent", "done"} /\ Fault /\ With(p, [p EXCEPT !.pc = "refused"])
  /\ UNCHANGED <<remote, caches, fetch, hidden, screen, timers, frame>>

Released(p) == IF screen.n = p.n THEN [screen EXCEPT !.acting = FALSE] ELSE screen

(* Mutant: a decision that failed keeps its card hidden.                   *)
DecisionFailedHidden(p) ==
  /\ p \in puts /\ p.by = "decide" /\ p.pc = "refused" /\ puts' = puts \ {p}
  /\ screen' = Released(p) /\ pend' = p.undo
  /\ board' = [board EXCEPT ![p.order] = "none"] /\ fetch' = Invalidated
  /\ UNCHANGED <<remote, det, hidden, timers, frame, faults>>

DecisionDone(p) ==
  /\ p \in puts /\ p.by = "decide" /\ p.pc = "done" /\ puts' = puts \ {p}
  /\ hidden' = hidden \ {p.order} /\ screen' = Released(p) /\ fetch' = Invalidated
  /\ UNCHANGED <<remote, caches, timers, frame, faults>>
DecisionFailed(p) ==
  /\ p \in puts /\ p.by = "decide" /\ p.pc = "refused" /\ puts' = puts \ {p}
  /\ hidden' = hidden \ {p.order} /\ screen' = Released(p) /\ pend' = p.undo
  /\ board' = [board EXCEPT ![p.order] = "none"] /\ fetch' = Invalidated
  /\ UNCHANGED <<remote, det, timers, frame, faults>>
AdvanceDone(p) ==
  /\ p \in puts /\ p.by # "decide" /\ p.pc = "done" /\ puts' = puts \ {p} /\ fetch' = Invalidated
  /\ UNCHANGED <<remote, caches, hidden, screen, timers, frame, faults>>
AdvanceFailed(p) ==
  /\ p \in puts /\ p.by # "decide" /\ p.pc = "refused" /\ puts' = puts \ {p} /\ fetch' = Invalidated
  /\ det' = IF p.undo = "none" THEN det ELSE [det EXCEPT ![p.order] = p.undo]
  /\ UNCHANGED <<remote, pend, board, hidden, screen, timers, frame, faults>>

(* CancelOrder: the row is read and its status checked, ...                *)
CustomerCancels(o) ==
  /\ server[o] \in {"pending", "accepted"} /\ o \notin cancels /\ Fault
  /\ cancels' = cancels \cup {o}
  /\ UNCHANGED <<server, photo, asked, caches, fetch, hidden, screen, timers, puts, frame>>
(* ... and cancelled by its id, whatever its status is by then; or the     *)
(* transaction fails.                                                      *)
CancelWrites(o) ==
  /\ o \in cancels /\ cancels' = cancels \ {o}
  /\ \/ server' = [server EXCEPT ![o] = "cancelled"] /\ frame' = TRUE
     \/ UNCHANGED <<server, frame>>
  /\ UNCHANGED <<photo, asked, caches, fetch, hidden, screen, timers, puts, faults>>
(* Once the order is under way the customer can only ask.                  *)
CustomerAsks(o) ==
  /\ server[o] \in {"preparing", "ready"} /\ o \notin asked /\ Fault
  /\ asked' = asked \cup {o} /\ frame' = TRUE
  /\ UNCHANGED <<server, photo, cancels, caches, fetch, hidden, screen, timers, puts>>

Put(p) == PutRead(p) \/ PutWrite(p) \/ DecisionDone(p) \/ DecisionFailed(p) \/ AdvanceDone(p) \/ AdvanceFailed(p)
Next ==
  \/ \E k \in Keys : FetchFails(k)
  \/ \E k \in Lists : Poll(k) \/ FetchAnswer(k)
  \/ FetchDetail \/ LiveFrame \/ Close
  \/ \E o \in Orders : Open(o) \/ Decide(o, "accepted") \/ Decide(o, "rejected")
  \/ \E t \in timers : Fire(t)
  \/ \E o \in Orders : CardAdvance(o) \/ DetailPreparing(o) \/ DetailPhoto(o) \/ DetailPhotoFails(o)
  \/ \E p \in puts : Put(p) \/ PutLost(p)
  \/ \E o \in Orders : CustomerCancels(o) \/ CancelWrites(o) \/ CustomerAsks(o)

Spec == BoardInit /\ [][Next]_vars

(* The lists' polls repeat while the app is in front.                      *)
LiveSpec == Spec /\ \A k \in Lists : WF_vars(Poll(k) \/ FetchAnswer(k))

---------------------------------------------------------------------------
(* Caches, timers and calls hold what the app can write.                   *)
TypeOK ==
  /\ server \in [Orders -> Statuses] /\ photo \in [Orders -> SUBSET {"ready", "handover"}] /\ asked \subseteq Orders /\ cancels \subseteq Orders
  /\ pend \subseteq Orders /\ board \in [Orders -> Queue \cup {"none"}] /\ det \in [Orders -> Statuses \cup {"none"}]
  /\ hidden \subseteq Orders /\ screen.order \in Orders \cup {"none"} /\ screen.n \in 0..MaxOpens
  /\ \A t \in timers : t.order \in Orders /\ t.action \in {"accepted", "rejected"}
  /\ \A p \in puts : p.to \in Statuses /\ p.pc \in {"sent", "read", "done", "refused"}

(* A card is kept off the pending list only while its decision is waiting  *)
(* or under way: nothing hides it for the rest of the session.             *)
Deciding(o) == (\E t \in timers : t.order = o) \/ (\E p \in puts : p.order = o /\ p.by = "decide")
HiddenIsDeciding == \A o \in hidden : Deciding(o)

(* A decision is never dropped: it leaves its timer only to be sent.       *)
DecisionIsSent == [][\A t \in timers \ timers' : \E p \in puts' \ puts : p.order = t.order /\ p.to = t.action]_vars

(* Food is not marked ready, or handed over, without its photo.            *)
PhotoComesFirst == \A o \in Orders :
  /\ server[o] = "ready" => "ready" \in photo[o]
  /\ server[o] = "delivered" => "handover" \in photo[o]

(* What is over never comes back to work: a status call that read the      *)
(* order before it was cancelled, rejected or delivered leaves it alone.   *)
(* Only a customer's cancel that had read the order before can still       *)
(* change it, and only to cancelled, because it writes unconditionally.    *)
FinalStays == [][\A o \in Orders : server[o] \in Final =>
                   \/ server'[o] = server[o]
                   \/ o \in cancels /\ server'[o] = "cancelled"]_vars

(* Once the chef and the customers rest, the pending list and the kitchen  *)
(* queue come to show what the server has, whatever failed on the way.     *)
AtRest == timers = {} /\ puts = {}
Agrees == Shown = Snapshot("pend") /\ board = Snapshot("board")
BoardSettles == []<>(AtRest => Agrees)
=============================================================================
