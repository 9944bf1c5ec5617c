--------------------------- MODULE SupportOutbox ---------------------------
(***************************************************************************)
(* The durable send outbox of the mobile support chat: the hook that one   *)
(* mounted chat screen runs, the copy of its outbox in device storage and  *)
(* the support service that receives the posts.  A save is not awaited, so *)
(* it lands after the hook has gone on.  Leaving the screen stops its      *)
(* retry timer but nothing it awaits, so a screen opened again runs beside *)
(* the old one.                                                            *)
(***************************************************************************)
EXTENDS Naturals, Sequences, SequencesExt

CONSTANTS
  Msgs, Convs,       \* numbers of the messages and of the threads, as they are made
  Screens,           \* hook instances that may exist at a time
  MaxFaults,         \* bound on unanswered posts, refusals and process kills
  Closes,            \* the threads support may close
  None

VARIABLES
  hook,      \* per screen: phase, thread, box, load, posting, due
  store,     \* per thread: the outbox last saved under its key, as a read returns it
  disk,      \* per thread: the save that has landed
  inbox,     \* per thread and message: how often the service recorded it
  open,      \* the threads support has open; the others of created are closed
  created,
  written,   \* per message: the thread it was written in, or None
  faults,
  cut,       \* messages one of whose posts ended without an answer that was kept
  caught,    \* messages none of whose saves had landed when the process was killed
  raced      \* a screen ran beside an old one's drain, or took input while loading
history == <<cut, caught, raced>>
vars == <<hook, store, disk, inbox, open, created, written, faults, history>>

Statuses == {"queued", "sending", "failed"}
Items == [msg: Msgs, conv: Convs, status: Statuses]
Posts == [msg: Msgs, conv: Convs, got: BOOLEAN]
Loads == [box: Seq(Items), open: BOOLEAN]
Reasons == {"timer", "connect"}
Phases == {"off", "resuming", "intake", "loading", "thread", "closed", "gone"}

ASSUME OutboxAssumption ==
  /\ MaxFaults \in Nat
  /\ Msgs \subseteq Nat /\ Convs \subseteq Nat
  /\ Closes \subseteq Convs
  /\ None \notin Msgs \union Convs \union Posts \union Loads

(* convIdRef, outboxRef and the read of storage under way; the item the    *)
(* drain is awaiting; and the calls of drainOutbox that are due.           *)
Unmounted == [phase |-> "off", conv |-> None, box |-> <<>>, load |-> None,
              posting |-> None, due |-> {}]

Idle(h) == hook[h].posting = None /\ hook[h].load = None /\ hook[h].due = {}

(* Ids say nothing but which is which: they are numbered as they are made. *)
First(n, S) == n \in S /\ \A k \in S : n <= k
Unwritten == {m \in Msgs : written[m] = None}

OutboxInit ==
  /\ hook = [h \in Screens |-> Unmounted]
  /\ store = [c \in Convs |-> <<>>] /\ disk = store
  /\ inbox = [c \in Convs |-> [m \in Msgs |-> 0]]
  /\ open = {} /\ created = {}
  /\ written = [m \in Msgs |-> None]
  /\ faults = 0 /\ cut = {} /\ caught = {} /\ raced = FALSE

---------------------------------------------------------------------------
(* Operators on an outbox.                                                 *)
AddItem(box, item) ==
  IF \E i \in DOMAIN box : box[i].msg = item.msg THEN box ELSE Append(box, item)
(* Mutant: a confirmed item stays in the outbox.                           *)
RemoveItemKept(box, m) ==
  [i \in DOMAIN box |-> IF box[i].msg = m THEN [box[i] EXCEPT !.status = "queued"] ELSE box[i]]

(* An id is in an outbox once, by AddItem.                                 *)
RemoveItem(box, m) ==
  IF \E i \in DOMAIN box : box[i].msg = m
  THEN RemoveAt(box, CHOOSE i \in DOMAIN box : box[i].msg = m)
  ELSE box

MarkItem(box, m, status) ==
  [i \in DOMAIN box |-> IF box[i].msg = m THEN [box[i] EXCEPT !.status = status] ELSE box[i]]
Requeued(box, from) ==
  [i \in DOMAIN box |->
     IF box[i].status = from THEN [box[i] EXCEPT !.status = "queued"] ELSE box[i]]

HasQueued(box) == \E i \in DOMAIN box : box[i].status = "queued"
FirstQueued(box) ==
  box[CHOOSE i \in DOMAIN box : /\ box[i].status = "queued"
                                /\ \A j \in 1..(i - 1) : box[j].status # "queued"]

HeldBy(box, m) == \E i \in DOMAIN box : box[i].msg = m

(* persistOutbox: memory, then storage under the thread now on screen.     *)
Persisted(h, box) ==
  IF hook[h].conv = None THEN store ELSE [store EXCEPT ![hook[h].conv] = box]

(* Mutant: an item is posted to the thread on screen.                      *)
DrainedHere(s) ==
  IF s.posting # None \/ ~HasQueued(s.box) THEN s
  ELSE LET next == FirstQueued(s.box)
       IN [s EXCEPT !.box = MarkItem(@, next.msg, "sending"),
                    !.posting = [msg |-> next.msg, conv |-> s.conv, got |-> FALSE]]

(* drainOutbox up to its first await: one loop per hook instance.          *)
Drained(s) ==
  IF s.posting # None \/ ~HasQueued(s.box) THEN s
  ELSE LET next == FirstQueued(s.box)
       IN [s EXCEPT !.box = MarkItem(@, next.msg, "sending"),
                    !.posting = [msg |-> next.msg, conv |-> next.conv, got |-> FALSE]]

(* The hook changes its outbox, saves it and lets the drain run on.        *)
Become(h, s) ==
  LET d == Drained(s)
  IN /\ hook' = [hook EXCEPT ![h] = d]
     /\ store' = Persisted(h, d.box)

(* Device storage carries out its calls in the order they were made.       *)
Land(c) ==
  /\ disk[c] # store[c] /\ disk' = [disk EXCEPT ![c] = store[c]]
  /\ UNCHANGED <<hook, store, inbox, open, created, written, faults, history>>

---------------------------------------------------------------------------
(* The screen.                                                             *)
OnScreen == {h \in Screens : hook[h].phase \notin {"off", "gone"}}

Mount(h) ==
  /\ OnScreen = {}
  /\ hook[h].phase = "off" \/ (hook[h].phase = "gone" /\ Idle(h))
  /\ hook' = [hook EXCEPT ![h] = [Unmounted EXCEPT !.phase = "resuming"]]
  /\ raced' = (raced \/ \E g \in Screens : ~Idle(g))
  /\ UNCHANGED <<store, disk, inbox, open, created, written, faults, cut, caught>>

(* adoptConversation up to its read of storage.  The screen already shows  *)
(* the thread and takes input while the read is under way.                 *)
Adopted(h, c, isOpen) ==
  [hook EXCEPT ![h].phase = "loading", ![h].conv = c,
               ![h].load = [box |-> store[c], open |-> isOpen]]

Resume(h) ==
  /\ hook[h].phase = "resuming"
  /\ \/ \E c \in open : hook' = Adopted(h, c, TRUE)
     \/ hook' = [hook EXCEPT ![h].phase = "intake"]  \* none open, or the call failed
  /\ UNCHANGED <<store, disk, inbox, open, created, written, faults, history>>

StartConversation(h, c) ==
  /\ hook[h].phase \in {"intake", "closed"} /\ hook[h].load = None
  /\ First(c, Convs \ created)
  /\ created' = created \union {c} /\ open' = open \union {c}
  /\ hook' = Adopted(h, c, TRUE)
  /\ UNCHANGED <<store, disk, inbox, written, faults, history>>

OpenConversation(h, c) ==
  /\ hook[h].phase \in {"intake", "closed"} /\ hook[h].load = None
  /\ c \in created
  /\ hook' = Adopted(h, c, c \in open)
  /\ UNCHANGED <<store, disk, inbox, open, created, written, faults, history>>

(* The read is answered.  A saved outbox replaces the one in memory, with  *)
(* what was being sent queued again; a closed thread stops here, an open   *)
(* one connects and then drains.                                           *)
FinishLoad(h) ==
  LET read == hook[h].load
      s == [hook[h] EXCEPT
              !.box = IF read.box = <<>> THEN @ ELSE Requeued(read.box, "sending"),
              !.load = None,
              !.phase = IF @ = "gone" THEN @ ELSE IF read.open THEN "thread" ELSE "closed",
              !.due = IF read.open THEN @ \cup {"connect"} ELSE @]
  IN /\ hook[h].load # None
     /\ hook' = [hook EXCEPT ![h] = s]
     /\ UNCHANGED <<store, disk, inbox, open, created, written, faults, history>>

CanType(h) ==
  \/ hook[h].phase = "thread"
  \/ hook[h].phase = "loading" /\ hook[h].load.open

(* Mutant: a sent message reaches storage only when its post is answered.  *)
SendMessageUnsaved(h, m) ==
  /\ CanType(h) /\ First(m, Unwritten)
  /\ written' = [written EXCEPT ![m] = hook[h].conv]
  /\ LET item == [msg |-> m, conv |-> hook[h].conv, status |-> "queued"]
     IN hook' = [hook EXCEPT ![h] = Drained([@ EXCEPT !.box = AddItem(@, item)])]
  /\ raced' = (raced \/ hook[h].phase = "loading")
  /\ UNCHANGED <<store, disk, inbox, open, created, faults, cut, caught>>

SendMessage(h, m) ==
  /\ CanType(h) /\ First(m, Unwritten)
  /\ written' = [written EXCEPT ![m] = hook[h].conv]
  /\ LET item == [msg |-> m, conv |-> hook[h].conv, status |-> "queued"]
     IN Become(h, [hook[h] EXCEPT !.box = AddItem(@, item)])
  /\ raced' = (raced \/ hook[h].phase = "loading")
  /\ UNCHANGED <<disk, inbox, open, created, faults, cut, caught>>

RetryFailed(h) ==
  /\ hook[h].phase \in {"loading", "thread", "closed"}
  /\ \E i \in DOMAIN hook[h].box : hook[h].box[i].status = "failed"
  /\ Become(h, [hook[h] EXCEPT !.box = Requeued(@, "failed")])
  /\ UNCHANGED <<disk, inbox, open, created, written, faults, history>>

(* The screen is left: the retry timer is cleared; the awaited post goes   *)
(* on, and so do the read of storage and the drain that follows connecting.*)
Unmount(h) ==
  /\ h \in OnScreen
  /\ hook' = [hook EXCEPT ![h].phase = "gone", ![h].due = @ \ {"timer"}]
  /\ UNCHANGED <<store, disk, inbox, open, created, written, faults, history>>

---------------------------------------------------------------------------
(* The drain: its timer or the opened stream calls it, and the post it     *)
(* awaits is recorded, answered, refused or left without an answer.        *)
DrainDue(h, why) ==
  LET d == Drained(hook[h]) IN
  /\ why \in hook[h].due
  /\ hook' = [hook EXCEPT ![h] = [d EXCEPT !.due = @ \ {why}]]
  /\ store' = IF d = hook[h] THEN store ELSE Persisted(h, d.box)
  /\ UNCHANGED <<disk, inbox, open, created, written, faults, history>>

(* Never, once, or more than once.                                         *)
OneMore(n) == IF n < 2 THEN n + 1 ELSE n

Record(h) ==
  LET p == hook[h].posting IN
  /\ p # None /\ ~p.got
  /\ p.conv \in open
  /\ inbox' = [inbox EXCEPT ![p.conv][p.msg] = OneMore(@)]
  /\ hook' = [hook EXCEPT ![h].posting.got = TRUE]
  /\ UNCHANGED <<store, disk, open, created, written, faults, history>>

Confirm(h) ==
  LET p == hook[h].posting IN
  /\ p # None /\ p.got
  /\ Become(h, [hook[h] EXCEPT !.box = RemoveItem(@, p.msg), !.posting = None])
  /\ UNCHANGED <<disk, inbox, open, created, written, faults, history>>

(* Mutant: a post that may be retried leaves its item "sending".           *)
PostUnansweredForgotten(h) ==
  LET p == hook[h].posting IN
  /\ p # None /\ faults < MaxFaults
  /\ LET s == [hook[h] EXCEPT !.posting = None, !.due = @ \cup {"timer"}]
     IN /\ hook' = [hook EXCEPT ![h] = s]
        /\ store' = Persisted(h, s.box)
  /\ cut' = cut \union {p.msg} /\ faults' = faults + 1
  /\ UNCHANGED <<disk, inbox, open, created, written, caught, raced>>

(* No answer, an unreadable one, 429 or 5xx: queued again, loop left, and  *)
(* a timer set, after the screen was left as well.                         *)
PostUnanswered(h) ==
  LET p == hook[h].posting IN
  /\ p # None /\ faults < MaxFaults
  /\ LET s == [hook[h] EXCEPT !.box = MarkItem(@, p.msg, "queued"),
                              !.posting = None, !.due = @ \cup {"timer"}]
     IN /\ hook' = [hook EXCEPT ![h] = s]
        /\ store' = Persisted(h, s.box)
  /\ cut' = cut \union {p.msg} /\ faults' = faults + 1
  /\ UNCHANGED <<disk, inbox, open, created, written, caught, raced>>

(* Any other 4xx: failed until the user taps retry; the loop goes on.      *)
PostRefused(h) ==
  LET p == hook[h].posting IN
  /\ p # None /\ ~p.got
  /\ \/ p.conv \notin open /\ UNCHANGED faults
     \/ faults < MaxFaults /\ faults' = faults + 1
  /\ Become(h, [hook[h] EXCEPT !.box = MarkItem(@, p.msg, "failed"), !.posting = None])
  /\ UNCHANGED <<disk, inbox, open, created, written, history>>

---------------------------------------------------------------------------
(* Support closes a thread; the screen learns it from a frame.             *)
CloseThread(c) ==
  /\ c \in Closes \cap open
  /\ open' = open \ {c}
  /\ UNCHANGED <<hook, store, disk, inbox, created, written, faults, history>>

SeeClosed(h) ==
  /\ hook[h].phase = "thread" /\ hook[h].conv \notin open
  /\ hook' = [hook EXCEPT ![h].phase = "closed"]
  /\ UNCHANGED <<store, disk, inbox, open, created, written, faults, history>>

(* What one storage holds and the other does not.                          *)
Landing(new, old) == {m \in Msgs : \E c \in Convs : HeldBy(new[c], m) /\ ~HeldBy(old[c], m)}

(* The process is killed: every hook's memory goes and so does what has    *)
(* not landed; the storage that has stays.                                 *)
Kill ==
  /\ faults < MaxFaults /\ \E h \in Screens : hook[h].phase # "off"
  /\ faults' = faults + 1
  /\ cut' = cut \cup Landing(disk, store)
              \cup {hook[h].posting.msg : h \in {g \in Screens : hook[g].posting # None}}
  /\ caught' = caught \cup Landing(store, disk)
  /\ hook' = [h \in Screens |-> Unmounted] /\ store' = disk
  /\ UNCHANGED <<disk, inbox, open, created, written, raced>>

Next ==
  \/ \E h \in Screens :
       \/ Mount(h) \/ Resume(h) \/ FinishLoad(h) \/ RetryFailed(h) \/ Unmount(h)
       \/ Record(h) \/ Confirm(h) \/ PostUnanswered(h) \/ PostRefused(h)
       \/ SeeClosed(h) \/ \E why \in Reasons : DrainDue(h, why)
       \/ \E c \in Convs : StartConversation(h, c) \/ OpenConversation(h, c)
       \/ \E m \in Msgs : SendMessage(h, m)
  \/ \E c \in Convs : Land(c) \/ CloseThread(c)
  \/ Kill

Spec == OutboxInit /\ [][Next]_vars

---------------------------------------------------------------------------
TypeOK ==
  /\ \A h \in Screens :
       /\ hook[h].phase \in Phases
       /\ hook[h].conv \in Convs \union {None}
       /\ hook[h].box \in Seq(Items)
       /\ hook[h].due \subseteq Reasons
       /\ hook[h].posting \in Posts \union {None}
  /\ {store, disk} \subseteq [Convs -> Seq(Items)]
  /\ open \subseteq created /\ created \subseteq Convs
  /\ written \in [Msgs -> Convs \union {None}]

InMemory(m) ==
  \E h \in Screens :
    \/ HeldBy(hook[h].box, m)
    \/ hook[h].load # None /\ HeldBy(hook[h].load.box, m)
InStorage(m) == \E c \in Convs : HeldBy(store[c], m)

(* A message the user sent is with support or still kept on the device, in *)
(* memory or storage, through failures, the screen left and restarts, as   *)
(* long as the user has had one thread.  A kill loses it only before its   *)
(* first save lands; and the hook keeps no promise once two screens ran at *)
(* a time or one took input while loading (outbox.ts:1-8 makes it to all). *)
NothingVanishes ==
  \A m \in Msgs : written[m] # None /\ created = {written[m]} =>
    inbox[written[m]][m] > 0 \/ InMemory(m) \/ InStorage(m) \/ m \in caught \/ raced

(* What support records in a thread was written in that thread, although   *)
(* the outbox in memory moves from one thread to the next.                 *)
DeliveredWhereWritten ==
  \A c \in Convs, m \in Msgs : inbox[c][m] > 0 => written[m] = c

(* A message is recorded a second time only if an earlier post of it ended *)
(* without an answer the app could read, or the process was killed before  *)
(* the answer it read was saved; or, again, screens raced: retries happen  *)
(* on network errors and 5xx, not on their own (outbox.ts:6-8).            *)
RepeatsFollowFaults ==
  \A c \in Convs, m \in Msgs : inbox[c][m] > 1 => m \in cut \/ raced

(* While the screen shows an open thread nothing it holds stalls: a message *)
(* shown as sending is the one being posted, and a queued one has a post or *)
(* a drain ahead of it ("re-sent with backoff until otto confirms it",     *)
(* outbox.ts:3).                                                           *)
NothingStalls ==
  \A h \in Screens : hook[h].phase = "thread" =>
    \A i \in DOMAIN hook[h].box :
      LET item == hook[h].box[i]  p == hook[h].posting
      IN /\ item.status = "sending" => p # None /\ p.msg = item.msg
         /\ item.status = "queued" => p # None \/ hook[h].due # {}
=============================================================================
