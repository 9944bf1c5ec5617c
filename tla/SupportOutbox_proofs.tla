------------------------ MODULE SupportOutbox_proofs ------------------------
(***************************************************************************)
(* The durable outbox of the support chat, for any number of messages,     *)
(* threads, screens and faults: a message is delivered where it was        *)
(* written, and nothing a thread on screen holds stalls.  Until a screen   *)
(* runs beside an old one's drain or takes input while its outbox is read, *)
(* a message is lost only to a kill before its first save lands, and one   *)
(* recorded twice had a post whose answer was not kept.                    *)
(***************************************************************************)
EXTENDS SupportOutbox, SequenceTheorems, WellFoundedInduction, TLAPS

---------------------------------------------------------------------------
(* Operators on an outbox.                                                 *)

(* An id is in an outbox once.                                             *)
Unique(box) ==
  \A i, j \in DOMAIN box : box[i].msg = box[j].msg => i = j

(* Two boxes with the same items, but for their status.                    *)
SameItems(new, old) ==
  /\ DOMAIN new = DOMAIN old
  /\ \A i \in DOMAIN old : new[i].msg = old[i].msg /\ new[i].conv = old[i].conv

(* The ids in a box.                                                       *)
Ids(box) == {box[i].msg : i \in DOMAIN box}

LEMMA HeldIsId ==
  ASSUME NEW box, NEW m
  PROVE  HeldBy(box, m) <=> m \in Ids(box)
  BY DEF HeldBy, Ids

LEMMA AddItemType ==
  ASSUME NEW box \in Seq(Items), NEW item \in Items, Unique(box)
  PROVE  /\ AddItem(box, item) \in Seq(Items) /\ Unique(AddItem(box, item))
         /\ Ids(AddItem(box, item)) = Ids(box) \cup {item.msg}
         /\ \A i \in DOMAIN AddItem(box, item) :
              \/ AddItem(box, item)[i] = item
              \/ i \in DOMAIN box /\ AddItem(box, item)[i] = box[i]
<1>1. CASE \E i \in DOMAIN box : box[i].msg = item.msg
  BY <1>1 DEF AddItem, Ids
<1>2. CASE ~ \E i \in DOMAIN box : box[i].msg = item.msg
  <2> DEFINE new == Append(box, item)
  <2>1. AddItem(box, item) = new
    BY <1>2 DEF AddItem
  <2>2. /\ new \in Seq(Items) /\ DOMAIN new = 1 .. (Len(box) + 1) /\ DOMAIN box = 1 .. Len(box)
        /\ Len(box) \in Nat
        /\ \A i \in DOMAIN new : new[i] = IF i = Len(box) + 1 THEN item ELSE box[i]
    OBVIOUS
  <2> HIDE DEF new
  <2>3. Unique(new)
    BY <2>2, <1>2 DEF Unique
  <2>4. Ids(new) = Ids(box) \cup {item.msg}
    <3>1. \A i \in DOMAIN box : i \in DOMAIN new /\ new[i] = box[i]
      BY <2>2
    <3>2. Len(box) + 1 \in DOMAIN new /\ new[Len(box) + 1] = item
      BY <2>2
    <3> QED
      BY <2>2, <3>1, <3>2 DEF Ids
  <2> QED
    BY <2>1, <2>2, <2>3, <2>4
<1> QED
  BY <1>1, <1>2

LEMMA MarkItemType ==
  ASSUME NEW box \in Seq(Items), NEW m, NEW st \in Statuses, Unique(box)
  PROVE  LET new == MarkItem(box, m, st)
         IN  /\ new \in Seq(Items) /\ Unique(new) /\ DOMAIN new = DOMAIN box
             /\ \A i \in DOMAIN box :
                  /\ new[i].msg = box[i].msg /\ new[i].conv = box[i].conv
                  /\ new[i].status = IF box[i].msg = m THEN st ELSE box[i].status
<1> DEFINE new == MarkItem(box, m, st)
<1>1. DOMAIN box = 1 .. Len(box) /\ Len(box) \in Nat
  OBVIOUS
<1>2. \A i \in DOMAIN box : box[i] \in Items
  OBVIOUS
<1>3. DOMAIN new = DOMAIN box
  BY DEF MarkItem
<1>4. \A i \in DOMAIN box : /\ new[i] \in Items
                            /\ new[i].msg = box[i].msg /\ new[i].conv = box[i].conv
                            /\ new[i].status = IF box[i].msg = m THEN st ELSE box[i].status
  BY <1>2 DEF MarkItem, Items
<1> HIDE DEF new
<1>5. new \in [1 .. Len(box) -> Items]
  <2>1. new = [i \in 1 .. Len(box) |-> new[i]]
    BY <1>1 DEF new, MarkItem
  <2> QED
    BY <1>1, <1>4, <2>1
<1>6. new \in Seq(Items)
  BY <1>5, <1>1
<1> QED
  BY <1>3, <1>4, <1>6 DEF new, Unique

LEMMA RequeuedType ==
  ASSUME NEW box \in Seq(Items), NEW from \in Statuses, Unique(box)
  PROVE  LET new == Requeued(box, from)
         IN  /\ new \in Seq(Items) /\ Unique(new) /\ DOMAIN new = DOMAIN box
             /\ \A i \in DOMAIN box :
                  /\ new[i].msg = box[i].msg /\ new[i].conv = box[i].conv
                  /\ new[i].status = IF box[i].status = from THEN "queued" ELSE box[i].status
<1> DEFINE new == Requeued(box, from)
<1>1. DOMAIN box = 1 .. Len(box) /\ Len(box) \in Nat
  OBVIOUS
<1>2. \A i \in DOMAIN box : box[i] \in Items
  OBVIOUS
<1>3. DOMAIN new = DOMAIN box
  BY DEF Requeued
<1>4. \A i \in DOMAIN box :
        /\ new[i] \in Items
        /\ new[i].msg = box[i].msg /\ new[i].conv = box[i].conv
        /\ new[i].status = IF box[i].status = from THEN "queued" ELSE box[i].status
  BY <1>2 DEF Requeued, Items, Statuses
<1> HIDE DEF new
<1>5. new \in [1 .. Len(box) -> Items]
  <2>1. new = [i \in 1 .. Len(box) |-> new[i]]
    BY <1>1 DEF new, Requeued
  <2> QED
    BY <1>1, <1>4, <2>1
<1>6. new \in Seq(Items)
  BY <1>5, <1>1
<1> QED
  BY <1>3, <1>4, <1>6 DEF new, Unique

LEMMA LastOne ==
  ASSUME NEW i \in Nat, NEW n \in Nat, i <= n, ~ (i + 1 <= n)
  PROVE  n = i
  OBVIOUS

LEMMA RemoveItemType ==
  ASSUME NEW box \in Seq(Items), NEW m, Unique(box)
  PROVE  LET new == RemoveItem(box, m)
         IN  /\ new \in Seq(Items) /\ Unique(new) /\ Ids(new) = Ids(box) \ {m}
             /\ \A i \in DOMAIN new : \E j \in DOMAIN box : new[i] = box[j]
<1>1. CASE ~ \E i \in DOMAIN box : box[i].msg = m
  BY <1>1 DEF RemoveItem, Ids
<1>2. CASE \E i \in DOMAIN box : box[i].msg = m
  <2> DEFINE k == CHOOSE i \in DOMAIN box : box[i].msg = m
             new == RemoveAt(box, k)
             At(i) == IF i < k THEN i ELSE i + 1
  <2>1. k \in DOMAIN box /\ box[k].msg = m
    BY <1>2
  <2>2. RemoveItem(box, m) = new
    BY <1>2 DEF RemoveItem
  <2> HIDE DEF k
  <2>3. k \in Nat /\ 1 <= k /\ k <= Len(box) /\ Len(box) \in Nat /\ DOMAIN box = 1 .. Len(box)
    BY <2>1
  <2> DEFINE a == SubSeq(box, 1, k - 1)  b == SubSeq(box, k + 1, Len(box))
  <2>4. /\ a \in Seq(Items) /\ Len(a) = k - 1
        /\ \A i \in 1 .. (k - 1) : a[i] = box[i]
    BY <2>1, <2>3, SubSeqProperties
  <2>5. /\ b \in Seq(Items) /\ Len(b) = Len(box) - k
        /\ \A i \in 1 .. (Len(box) - k) : b[i] = box[k + i]
    <3>0. \A i \in (k + 1) .. Len(box) : i \in DOMAIN box
      BY <2>3
    <3>1. k + 1 \in Int /\ Len(box) \in Int /\ \A i \in (k + 1) .. Len(box) : box[i] \in Items
      <4>1. \A i \in DOMAIN box : box[i] \in Items
        OBVIOUS
      <4> QED
        BY <2>3, <3>0, <4>1
    <3>2. /\ b \in Seq(Items)
          /\ Len(b) = IF k + 1 <= Len(box) THEN Len(box) - (k + 1) + 1 ELSE 0
          /\ \A i \in 1 .. (Len(box) - (k + 1) + 1) : b[i] = box[(k + 1) + i - 1]
      BY <3>1, SubSeqProperties
    <3> HIDE DEF b
    <3>3. Len(box) - (k + 1) + 1 = Len(box) - k
      BY <2>3
    <3>4. \A i \in 1 .. (Len(box) - k) : (k + 1) + i - 1 = k + i
      BY <2>3
    <3>5. Len(b) = Len(box) - k
      <4>1. Len(b) = IF k + 1 <= Len(box) THEN Len(box) - (k + 1) + 1 ELSE 0
        BY <3>2
      <4>2. CASE k + 1 <= Len(box)
        <5>1. Len(b) = Len(box) - (k + 1) + 1
          BY <4>1, <4>2, Zenon
        <5> QED
          BY <5>1, <3>3
      <4>3. CASE ~ (k + 1 <= Len(box))
        <5>1. Len(b) = 0
          BY <4>1, <4>3, Zenon
        <5>2. Len(box) = k
          BY <2>3, <4>3, LastOne
        <5> QED
          BY <5>1, <5>2, <2>3
      <4> QED
        BY <4>2, <4>3
    <3>6. \A i \in 1 .. (Len(box) - k) : b[i] = box[k + i]
      <4> SUFFICES ASSUME NEW i \in 1 .. (Len(box) - k) PROVE b[i] = box[k + i]
        OBVIOUS
      <4>1. b[i] = box[(k + 1) + i - 1]
        BY <3>2, <3>3
      <4> QED
        BY <4>1, <3>4
    <3> QED
      BY <3>2, <3>5, <3>6
  <2>6. new = a \o b
    BY DEF RemoveAt
  <2> HIDE DEF a, b, new
  <2>7. new \in Seq(Items) /\ Len(new) = Len(box) - 1
    <3>1. new \in Seq(Items) /\ Len(new) = Len(a) + Len(b)
      BY <2>4, <2>5, <2>6, ConcatProperties
    <3>2. (k - 1) + (Len(box) - k) = Len(box) - 1
      BY <2>3
    <3> QED
      BY <3>1, <3>2, <2>4, <2>5, Zenon
  <2>8. \A i \in 1 .. (Len(box) - 1) : new[i] = box[At(i)]
    <3> SUFFICES ASSUME NEW i \in 1 .. (Len(box) - 1) PROVE new[i] = box[At(i)]
      OBVIOUS
    <3>1. CASE i < k
      <4>1. new[i] = a[i]
        BY <2>3, <2>4, <2>5, <2>6, <3>1
      <4> QED
        BY <4>1, <3>1, <2>3, <2>4
    <3>2. CASE ~ (i < k)
      <4>1. new[i] = b[i - (k - 1)]
        BY <2>3, <2>4, <2>5, <2>6, <3>2
      <4>2. i - (k - 1) \in 1 .. (Len(box) - k) /\ k + (i - (k - 1)) = i + 1
        BY <2>3, <3>2
      <4>3. b[i - (k - 1)] = box[k + (i - (k - 1))]
        BY <4>2, <2>5
      <4> QED
        BY <4>1, <4>2, <4>3, <3>2
    <3> QED
      BY <3>1, <3>2
  <2>9. DOMAIN new = 1 .. (Len(box) - 1)
    BY <2>7, <2>3
  <2>10. \A i \in DOMAIN new : At(i) \in DOMAIN box /\ At(i) # k
    BY <2>9, <2>3
  <2>11. \A i, j \in DOMAIN new : At(i) = At(j) => i = j
    BY <2>9, <2>3
  <2>12. \A j \in DOMAIN box : j # k => \E i \in DOMAIN new : At(i) = j
    <3> SUFFICES ASSUME NEW j \in DOMAIN box, j # k PROVE \E i \in DOMAIN new : At(i) = j
      OBVIOUS
    <3>1. CASE j < k
      <4>1. j \in DOMAIN new /\ At(j) = j
        BY <3>1, <2>9, <2>3
      <4> QED
        BY <4>1
    <3>2. CASE ~ (j < k)
      <4>1. j - 1 \in DOMAIN new /\ At(j - 1) = j
        BY <3>2, <2>9, <2>3
      <4> QED
        BY <4>1
    <3> QED
      BY <3>1, <3>2
  <2> HIDE DEF At
  <2>13. Unique(new)
    BY <2>8, <2>9, <2>10, <2>11 DEF Unique
  <2>14. Ids(new) \subseteq Ids(box) \ {m}
    BY <2>1, <2>8, <2>9, <2>10 DEF Ids, Unique
  <2>15. Ids(box) \ {m} \subseteq Ids(new)
    <3> SUFFICES ASSUME NEW j \in DOMAIN box, box[j].msg # m PROVE box[j].msg \in Ids(new)
      BY DEF Ids
    <3>1. PICK i \in DOMAIN new : At(i) = j
      BY <2>1, <2>12
    <3>2. new[i] = box[j]
      BY <3>1, <2>8, <2>9
    <3> QED
      BY <3>2 DEF Ids
  <2> QED
    BY <2>2, <2>7, <2>8, <2>9, <2>10, <2>13, <2>14, <2>15
<1> QED
  BY <1>1, <1>2

(* A set of numbers has a least one.                                       *)
LEMMA LeastNumber ==
  ASSUME NEW T, T \subseteq Nat, T # {}
  PROVE  \E n \in T : \A k \in T : n <= k
<1>1. PICK n \in T : \A k \in T : ~ (<<k, n>> \in OpToRel(<, Nat))
  BY WFMin, NatLessThanWellFounded, Zenon
<1>2. ASSUME NEW k \in T, k < n PROVE FALSE
  <2>1. <<k, n>> \in Nat \X Nat /\ <<k, n>>[1] < <<k, n>>[2]
    BY <1>2
  <2> QED
    BY <1>1, <2>1 DEF OpToRel
<1> QED
  BY <1>2

(* The drain takes the first queued item.                                  *)
LEMMA FirstQueuedType ==
  ASSUME NEW box \in Seq(Items), HasQueued(box)
  PROVE  \E i \in DOMAIN box : FirstQueued(box) = box[i] /\ box[i].status = "queued"
<1> DEFINE T == {i \in DOMAIN box : box[i].status = "queued"}
<1>1. T \subseteq Nat /\ T # {}
  BY DEF HasQueued
<1>2. PICK n \in T : \A k \in T : n <= k
  BY <1>1, LeastNumber
<1>3. n \in DOMAIN box /\ box[n].status = "queued" /\ \A j \in 1 .. (n - 1) : box[j].status # "queued"
  BY <1>2
<1> QED
  BY <1>3 DEF FirstQueued

---------------------------------------------------------------------------
(* Types.                                                                  *)

Hooks == [phase: Phases, conv: Convs \cup {None}, box: Seq(Items),
          load: Loads \cup {None}, posting: Posts \cup {None}, due: SUBSET Reasons]

(* A hook's memory: an id is in its outbox once, a screen with a thread    *)
(* has one, and storage is read while it loads.                           *)
HookOK(s) ==
  /\ s \in Hooks
  /\ Unique(s.box)
  /\ s.load # None => Unique(s.load.box) /\ s.phase \in {"loading", "gone"}
  /\ s.phase \in {"loading", "thread", "closed"} => s.conv \in Convs

OutboxOK ==
  /\ DOMAIN hook = Screens /\ hook = [h \in Screens |-> hook[h]]
  /\ \A h \in Screens : HookOK(hook[h])
  /\ store \in [Convs -> Seq(Items)] /\ \A c \in Convs : Unique(store[c])
  /\ disk \in [Convs -> Seq(Items)] /\ \A c \in Convs : Unique(disk[c])
  /\ inbox \in [Convs -> [Msgs -> Nat]]
  /\ open \subseteq created /\ created \subseteq Convs
  /\ written \in [Msgs -> Convs \cup {None}]
  /\ cut \subseteq Msgs /\ faults \in Nat

LEMMA NothingIsUnique == Unique(<<>>) /\ <<>> \in Seq(Items)
  BY DEF Unique

LEMMA UnmountedOK == HookOK(Unmounted)
  BY NothingIsUnique DEF HookOK, Unmounted, Hooks, Phases

(* What one turn of the drain leaves: the box as it was, or its first      *)
(* queued item being sent, and then it is what is posted.                  *)
LEMMA DrainedIs ==
  ASSUME NEW s, HookOK(s)
  PROVE  LET d == Drained(s)
         IN  /\ HookOK(d)
             /\ d.phase = s.phase /\ d.conv = s.conv /\ d.load = s.load /\ d.due = s.due
             /\ SameItems(d.box, s.box)
             /\ \/ d = s /\ (s.posting # None \/ ~HasQueued(s.box))
                \/ /\ s.posting = None /\ d.posting # None
                   /\ \E i \in DOMAIN s.box :
                        /\ s.box[i].status = "queued"
                        /\ d.posting.msg = s.box[i].msg /\ d.posting.conv = s.box[i].conv
                   /\ d.posting.got = FALSE
                   /\ \A i \in DOMAIN s.box :
                        d.box[i].status = IF s.box[i].msg = d.posting.msg THEN "sending"
                                          ELSE s.box[i].status
<1> DEFINE d == Drained(s)
<1>1. CASE s.posting # None \/ ~HasQueued(s.box)
  <2>1. d = s
    BY <1>1 DEF Drained
  <2> QED
    BY <1>1, <2>1 DEF SameItems
<1>2. CASE s.posting = None /\ HasQueued(s.box)
  <2> DEFINE next == FirstQueued(s.box)
             box == MarkItem(s.box, next.msg, "sending")
             post == [msg |-> next.msg, conv |-> next.conv, got |-> FALSE]
  <2>1. s.box \in Seq(Items) /\ Unique(s.box)
    BY DEF HookOK, Hooks
  <2>2. PICK k \in DOMAIN s.box : next = s.box[k] /\ s.box[k].status = "queued"
    BY <1>2, <2>1, FirstQueuedType
  <2>3. next \in Items
    BY <2>1, <2>2
  <2>4. post \in Posts /\ post # None
    <3> HIDE DEF next
    <3>1. next.msg \in Msgs /\ next.conv \in Convs
      BY <2>3 DEF Items
    <3>2. post \in Posts
      BY <3>1 DEF Posts
    <3> QED
      BY <3>2, OutboxAssumption
  <2>5. /\ box \in Seq(Items) /\ Unique(box) /\ DOMAIN box = DOMAIN s.box
        /\ \A i \in DOMAIN s.box :
             /\ box[i].msg = s.box[i].msg /\ box[i].conv = s.box[i].conv
             /\ box[i].status = IF s.box[i].msg = next.msg THEN "sending" ELSE s.box[i].status
    BY <2>1, MarkItemType DEF Statuses
  <2>6. d = [s EXCEPT !.box = box, !.posting = post]
    BY <1>2 DEF Drained
  <2>7. post.msg = next.msg /\ post.conv = next.conv /\ post.got = FALSE
    OBVIOUS
  <2> HIDE DEF d, next, box, post
  <2>8. /\ d \in Hooks /\ d.box = box /\ d.posting = post
        /\ d.phase = s.phase /\ d.conv = s.conv /\ d.load = s.load /\ d.due = s.due
    BY <2>4, <2>5, <2>6 DEF HookOK, Hooks
  <2>9. HookOK(d)
    BY <2>5, <2>8 DEF HookOK
  <2> QED
    BY <1>2, <2>2, <2>4, <2>5, <2>7, <2>8, <2>9 DEF d, SameItems
<1> QED
  BY <1>1, <1>2

(* A hook's memory is replaced by another.                                 *)
LEMMA HookSet ==
  ASSUME OutboxOK, NEW h \in Screens, NEW s, HookOK(s), hook' = [hook EXCEPT ![h] = s]
  PROVE  /\ DOMAIN hook' = Screens /\ hook' = [g \in Screens |-> hook'[g]]
         /\ \A g \in Screens : HookOK(hook'[g])
         /\ hook'[h] = s /\ \A g \in Screens \ {h} : hook'[g] = hook[g]
<1>1. DOMAIN hook' = Screens /\ hook' = [g \in Screens |-> hook'[g]]
  BY DEF OutboxOK
<1>2. hook'[h] = s /\ \A g \in Screens \ {h} : hook'[g] = hook[g]
  BY DEF OutboxOK
<1>3. \A g \in Screens : HookOK(hook'[g])
  BY <1>2 DEF OutboxOK
<1> QED
  BY <1>1, <1>2, <1>3

(* What is saved is an outbox.                                             *)
LEMMA PersistedOK ==
  ASSUME OutboxOK, NEW h \in Screens, NEW box \in Seq(Items), Unique(box)
  PROVE  /\ Persisted(h, box) \in [Convs -> Seq(Items)]
         /\ \A c \in Convs :
              /\ Persisted(h, box)[c] = IF c = hook[h].conv THEN box ELSE store[c]
              /\ Unique(Persisted(h, box)[c])
<1>1. hook[h].conv \in Convs \cup {None} /\ None \notin Convs
  BY OutboxAssumption DEF OutboxOK, HookOK, Hooks
<1> QED
  BY <1>1 DEF Persisted, OutboxOK

LEMMA BecomeIs ==
  ASSUME OutboxOK, NEW h \in Screens, NEW s, HookOK(s), Become(h, s)
  PROVE  /\ HookOK(Drained(s)) /\ hook' = [hook EXCEPT ![h] = Drained(s)]
         /\ store' \in [Convs -> Seq(Items)]
         /\ \A c \in Convs : /\ store'[c] = IF c = hook[h].conv THEN Drained(s).box ELSE store[c]
                             /\ Unique(store'[c])
<1>1. HookOK(Drained(s)) /\ Drained(s).box \in Seq(Items) /\ Unique(Drained(s).box)
  BY DrainedIs DEF HookOK, Hooks
<1>2. hook' = [hook EXCEPT ![h] = Drained(s)] /\ store' = Persisted(h, Drained(s).box)
  BY DEF Become
<1> QED
  BY <1>1, <1>2, PersistedOK

(* What each action makes of the memory of its hook.                       *)
AdoptedHook(s, c, isOpen) ==
  [s EXCEPT !.phase = "loading", !.conv = c, !.load = [box |-> store[c], open |-> isOpen]]
LoadedHook(s) ==
  [s EXCEPT !.box = IF s.load.box = <<>> THEN @ ELSE Requeued(s.load.box, "sending"),
            !.load = None,
            !.phase = IF @ = "gone" THEN @ ELSE IF s.load.open THEN "thread" ELSE "closed",
            !.due = IF s.load.open THEN @ \cup {"connect"} ELSE @]

LEMMA AdoptedIs ==
  ASSUME OutboxOK, NEW h \in Screens, NEW c \in Convs, NEW o \in BOOLEAN,
         hook' = Adopted(h, c, o)
  PROVE  /\ HookOK(AdoptedHook(hook[h], c, o))
         /\ hook' = [hook EXCEPT ![h] = AdoptedHook(hook[h], c, o)]
         /\ AdoptedHook(hook[h], c, o).load # None
<1> DEFINE load == [box |-> store[c], open |-> o]
           s == [hook[h] EXCEPT !.phase = "loading", !.conv = c, !.load = load]
<1>1. load \in Loads /\ load # None /\ Unique(load.box)
  <2>1. store[c] \in Seq(Items) /\ Unique(store[c])
    BY DEF OutboxOK
  <2>2. load \in Loads /\ Unique(load.box)
    BY <2>1 DEF Loads
  <2> QED
    BY <2>2, OutboxAssumption
<1>2. hook' = [hook EXCEPT ![h] = s]
  BY DEF Adopted, OutboxOK
<1> HIDE DEF load
<1>3. s \in Hooks /\ s.load = load /\ s.conv = c /\ s.phase = "loading" /\ s.box = hook[h].box
  BY <1>1 DEF OutboxOK, HookOK, Hooks, Phases
<1>4. HookOK(s)
  BY <1>1, <1>3 DEF OutboxOK, HookOK
<1>5. s = AdoptedHook(hook[h], c, o)
  BY DEF AdoptedHook, load
<1> QED
  BY <1>1, <1>2, <1>3, <1>4, <1>5

LEMMA LoadedOK ==
  ASSUME NEW s, HookOK(s), s.load # None
  PROVE  LET l == LoadedHook(s)
         IN  /\ HookOK(l) /\ l.load = None /\ l.conv = s.conv /\ l.posting = s.posting
             /\ l.phase = IF s.phase = "gone" THEN "gone"
                          ELSE IF s.load.open THEN "thread" ELSE "closed"
             /\ l.due = IF s.load.open THEN s.due \cup {"connect"} ELSE s.due
             /\ \/ s.load.box = <<>> /\ l.box = s.box
                \/ s.load.box # <<>> /\ l.box = Requeued(s.load.box, "sending")
<1> DEFINE box == IF s.load.box = <<>> THEN s.box ELSE Requeued(s.load.box, "sending")
           l == LoadedHook(s)
<1>1. s.load \in Loads /\ s.load.box \in Seq(Items) /\ Unique(s.load.box) /\ s.load.open \in BOOLEAN
  BY DEF HookOK, Hooks, Loads
<1>2. box \in Seq(Items) /\ Unique(box)
  BY <1>1, RequeuedType DEF HookOK, Hooks, Statuses
<1>3. l = [s EXCEPT !.box = box, !.load = None,
             !.phase = IF @ = "gone" THEN @ ELSE IF s.load.open THEN "thread" ELSE "closed",
             !.due = IF s.load.open THEN @ \cup {"connect"} ELSE @]
  BY DEF LoadedHook
<1> HIDE DEF box, l
<1>4. /\ l \in Hooks /\ l.box = box /\ l.load = None /\ l.conv = s.conv /\ l.posting = s.posting
      /\ l.phase = IF s.phase = "gone" THEN "gone"
                   ELSE IF s.load.open THEN "thread" ELSE "closed"
      /\ l.due = IF s.load.open THEN s.due \cup {"connect"} ELSE s.due
  BY <1>1, <1>2, <1>3 DEF HookOK, Hooks, Phases, Reasons
<1> QED
  BY <1>2, <1>4 DEF HookOK, l, box

SentHook(s, m) ==
  [s EXCEPT !.box = AddItem(@, [msg |-> m, conv |-> s.conv, status |-> "queued"])]
RetriedHook(s) == [s EXCEPT !.box = Requeued(@, "failed")]
ConfirmedHook(s) == [s EXCEPT !.box = RemoveItem(@, s.posting.msg), !.posting = None]
EndedHook(s, st) == [s EXCEPT !.box = MarkItem(@, s.posting.msg, st), !.posting = None]
UnansweredHook(s) == [EndedHook(s, "queued") EXCEPT !.due = @ \cup {"timer"}]

LEMMA SentOK ==
  ASSUME NEW s, HookOK(s), NEW m \in Msgs, s.conv \in Convs
  PROVE  LET t == SentHook(s, m)
         IN  /\ HookOK(t)
             /\ t.phase = s.phase /\ t.conv = s.conv /\ t.load = s.load /\ t.due = s.due
             /\ t.posting = s.posting
             /\ Ids(t.box) = Ids(s.box) \cup {m}
             /\ \A i \in DOMAIN t.box :
                  \/ t.box[i] = [msg |-> m, conv |-> s.conv, status |-> "queued"]
                  \/ i \in DOMAIN s.box /\ t.box[i] = s.box[i]
<1> DEFINE item == [msg |-> m, conv |-> s.conv, status |-> "queued"]
           box == AddItem(s.box, item)
           t == SentHook(s, m)
<1>1. item \in Items /\ item.msg = m
  BY DEF Items, Statuses
<1>2. s.box \in Seq(Items) /\ Unique(s.box)
  BY DEF HookOK, Hooks
<1> HIDE DEF item
<1>3. /\ box \in Seq(Items) /\ Unique(box) /\ Ids(box) = Ids(s.box) \cup {m}
      /\ \A i \in DOMAIN box : box[i] = item \/ (i \in DOMAIN s.box /\ box[i] = s.box[i])
  BY <1>1, <1>2, AddItemType
<1>4. t = [s EXCEPT !.box = box]
  BY DEF SentHook, item
<1> HIDE DEF box, t
<1>5. /\ t \in Hooks /\ t.box = box /\ t.posting = s.posting
      /\ t.phase = s.phase /\ t.conv = s.conv /\ t.load = s.load /\ t.due = s.due
  BY <1>3, <1>4 DEF HookOK, Hooks
<1> QED
  BY <1>3, <1>5 DEF HookOK, t, item

LEMMA RetriedOK ==
  ASSUME NEW s, HookOK(s)
  PROVE  LET t == RetriedHook(s)
         IN  /\ HookOK(t)
             /\ t.phase = s.phase /\ t.conv = s.conv /\ t.load = s.load /\ t.due = s.due
             /\ t.posting = s.posting
             /\ SameItems(t.box, s.box)
             /\ \A i \in DOMAIN s.box :
                  t.box[i].status = IF s.box[i].status = "failed" THEN "queued"
                                    ELSE s.box[i].status
<1> DEFINE box == Requeued(s.box, "failed")
           t == RetriedHook(s)
<1>1. s.box \in Seq(Items) /\ Unique(s.box)
  BY DEF HookOK, Hooks
<1>2. /\ box \in Seq(Items) /\ Unique(box) /\ DOMAIN box = DOMAIN s.box
      /\ \A i \in DOMAIN s.box :
           /\ box[i].msg = s.box[i].msg /\ box[i].conv = s.box[i].conv
           /\ box[i].status = IF s.box[i].status = "failed" THEN "queued" ELSE s.box[i].status
  BY <1>1, RequeuedType DEF Statuses
<1>3. t = [s EXCEPT !.box = box]
  BY DEF RetriedHook
<1> HIDE DEF box, t
<1>4. /\ t \in Hooks /\ t.box = box /\ t.posting = s.posting
      /\ t.phase = s.phase /\ t.conv = s.conv /\ t.load = s.load /\ t.due = s.due
  BY <1>2, <1>3 DEF HookOK, Hooks
<1> QED
  BY <1>2, <1>4 DEF HookOK, t, SameItems

LEMMA ConfirmedOK ==
  ASSUME NEW s, HookOK(s), s.posting # None
  PROVE  LET t == ConfirmedHook(s)
         IN  /\ HookOK(t)
             /\ t.phase = s.phase /\ t.conv = s.conv /\ t.load = s.load /\ t.due = s.due
             /\ t.posting = None
             /\ Ids(t.box) = Ids(s.box) \ {s.posting.msg}
             /\ \A i \in DOMAIN t.box : \E j \in DOMAIN s.box : t.box[i] = s.box[j]
<1> DEFINE box == RemoveItem(s.box, s.posting.msg)
           t == ConfirmedHook(s)
<1>1. s.box \in Seq(Items) /\ Unique(s.box)
  BY DEF HookOK, Hooks
<1>2. /\ box \in Seq(Items) /\ Unique(box) /\ Ids(box) = Ids(s.box) \ {s.posting.msg}
      /\ \A i \in DOMAIN box : \E j \in DOMAIN s.box : box[i] = s.box[j]
  BY <1>1, RemoveItemType
<1>3. t = [s EXCEPT !.box = box, !.posting = None]
  BY DEF ConfirmedHook
<1> HIDE DEF box, t
<1>4. /\ t \in Hooks /\ t.box = box /\ t.posting = None
      /\ t.phase = s.phase /\ t.conv = s.conv /\ t.load = s.load /\ t.due = s.due
  BY <1>2, <1>3 DEF HookOK, Hooks
<1> QED
  BY <1>2, <1>4 DEF HookOK, t

(* A post that was not answered, or was refused.                           *)
LEMMA EndedOK ==
  ASSUME NEW s, HookOK(s), s.posting # None, NEW st \in Statuses
  PROVE  LET t == EndedHook(s, st)
         IN  /\ HookOK(t)
             /\ t.phase = s.phase /\ t.conv = s.conv /\ t.load = s.load /\ t.due = s.due
             /\ t.posting = None
             /\ SameItems(t.box, s.box)
             /\ \A i \in DOMAIN s.box :
                  t.box[i].status = IF s.box[i].msg = s.posting.msg THEN st
                                    ELSE s.box[i].status
<1> DEFINE box == MarkItem(s.box, s.posting.msg, st)
           t == EndedHook(s, st)
<1>1. s.box \in Seq(Items) /\ Unique(s.box)
  BY DEF HookOK, Hooks
<1>2. /\ box \in Seq(Items) /\ Unique(box) /\ DOMAIN box = DOMAIN s.box
      /\ \A i \in DOMAIN s.box :
           /\ box[i].msg = s.box[i].msg /\ box[i].conv = s.box[i].conv
           /\ box[i].status = IF s.box[i].msg = s.posting.msg THEN st ELSE s.box[i].status
  BY <1>1, MarkItemType
<1>3. t = [s EXCEPT !.box = box, !.posting = None]
  BY DEF EndedHook
<1> HIDE DEF box, t
<1>4. /\ t \in Hooks /\ t.box = box /\ t.posting = None
      /\ t.phase = s.phase /\ t.conv = s.conv /\ t.load = s.load /\ t.due = s.due
  BY <1>2, <1>3 DEF HookOK, Hooks
<1> QED
  BY <1>2, <1>4 DEF HookOK, t, SameItems

LEMMA UnansweredOK ==
  ASSUME NEW s, HookOK(s), s.posting # None
  PROVE  LET e == EndedHook(s, "queued")  t == UnansweredHook(s)
         IN  /\ HookOK(t)
             /\ t.phase = e.phase /\ t.conv = e.conv /\ t.load = e.load
             /\ t.posting = e.posting /\ t.box = e.box /\ t.due = e.due \cup {"timer"}
<1> DEFINE e == EndedHook(s, "queued")  t == UnansweredHook(s)
<1>1. "queued" \in Statuses
  BY DEF Statuses
<1>2. HookOK(e)
  BY <1>1, EndedOK
<1>3. t = [e EXCEPT !.due = @ \cup {"timer"}]
  BY DEF UnansweredHook
<1> HIDE DEF e, t
<1>4. /\ t \in Hooks
      /\ t.phase = e.phase /\ t.conv = e.conv /\ t.load = e.load
      /\ t.posting = e.posting /\ t.box = e.box /\ t.due = e.due \cup {"timer"}
  BY <1>2, <1>3 DEF HookOK, Hooks, Reasons
<1> QED
  BY <1>2, <1>4 DEF HookOK, e, t

(* What each action does to its hook.                                      *)
MountedHook == [Unmounted EXCEPT !.phase = "resuming"]
LeftHook(s) == [s EXCEPT !.phase = "gone", !.due = @ \ {"timer"}]

LEMMA MountIs ==
  ASSUME OutboxOK, NEW h \in Screens, Mount(h)
  PROVE  HookOK(MountedHook) /\ hook' = [hook EXCEPT ![h] = MountedHook]
<1>1. MountedHook \in Hooks /\ MountedHook.box = <<>> /\ MountedHook.load = None
      /\ MountedHook.phase = "resuming"
  BY NothingIsUnique DEF MountedHook, Unmounted, Hooks, Phases
<1> QED
  BY <1>1, NothingIsUnique DEF HookOK, Mount, MountedHook

IntakeHook(s) == [s EXCEPT !.phase = "intake"]
LEMMA ResumeIs ==
  ASSUME OutboxOK, NEW h \in Screens, Resume(h)
  PROVE  \/ \E c \in open : /\ HookOK(AdoptedHook(hook[h], c, TRUE))
                            /\ hook' = [hook EXCEPT ![h] = AdoptedHook(hook[h], c, TRUE)]
                            /\ AdoptedHook(hook[h], c, TRUE).load # None
         \/ /\ HookOK(IntakeHook(hook[h])) /\ hook' = [hook EXCEPT ![h] = IntakeHook(hook[h])]
<1>1. CASE \E c \in open : hook' = Adopted(h, c, TRUE)
  <2>1. PICK c \in open : hook' = Adopted(h, c, TRUE)
    BY <1>1
  <2>2. c \in Convs
    BY DEF OutboxOK
  <2> QED
    BY <2>1, <2>2, AdoptedIs
<1>2. CASE hook' = [hook EXCEPT ![h].phase = "intake"]
  <2>1. hook[h] \in Hooks /\ hook[h].phase = "resuming"
    BY DEF OutboxOK, HookOK, Resume
  <2>2. /\ IntakeHook(hook[h]) \in Hooks /\ IntakeHook(hook[h]).phase = "intake"
        /\ IntakeHook(hook[h]).box = hook[h].box /\ IntakeHook(hook[h]).load = hook[h].load
    BY <2>1 DEF IntakeHook, Hooks, Phases
  <2>3. HookOK(IntakeHook(hook[h]))
    BY <2>1, <2>2 DEF HookOK, OutboxOK
  <2>4. hook' = [hook EXCEPT ![h] = IntakeHook(hook[h])]
    BY <1>2 DEF IntakeHook, OutboxOK
  <2> QED
    BY <2>3, <2>4
<1> QED
  BY <1>1, <1>2 DEF Resume

LEMMA FinishLoadIs ==
  ASSUME OutboxOK, NEW h \in Screens, FinishLoad(h)
  PROVE  /\ HookOK(LoadedHook(hook[h])) /\ hook' = [hook EXCEPT ![h] = LoadedHook(hook[h])]
         /\ hook[h].load # None
  BY LoadedOK DEF FinishLoad, LoadedHook, OutboxOK

LEMMA UnmountIs ==
  ASSUME OutboxOK, NEW h \in Screens, Unmount(h)
  PROVE  HookOK(LeftHook(hook[h])) /\ hook' = [hook EXCEPT ![h] = LeftHook(hook[h])]
<1>1. hook[h] \in Hooks
  BY DEF OutboxOK, HookOK
<1>2. /\ LeftHook(hook[h]) \in Hooks /\ LeftHook(hook[h]).phase = "gone"
      /\ LeftHook(hook[h]).box = hook[h].box /\ LeftHook(hook[h]).load = hook[h].load
  BY <1>1 DEF LeftHook, Hooks, Phases
<1>3. hook' = [hook EXCEPT ![h] = LeftHook(hook[h])]
  BY DEF LeftHook, OutboxOK, Unmount
<1> QED
  BY <1>2, <1>3 DEF HookOK, OutboxOK

SentOn(h, m) == hook[h].conv \in Convs /\ Become(h, SentHook(hook[h], m))

LEMMA SendMessageIs ==
  ASSUME OutboxOK, NEW h \in Screens, NEW m \in Msgs, SendMessage(h, m)
  PROVE  HookOK(SentHook(hook[h], m)) /\ SentOn(h, m) /\ m \in Unwritten
<1>1. hook[h].conv \in Convs
  BY DEF SendMessage, CanType, OutboxOK, HookOK
<1>2. Become(h, SentHook(hook[h], m))
  BY DEF SendMessage, SentHook
<1> QED
  BY <1>1, <1>2, SentOK DEF SentOn, OutboxOK, SendMessage, First

LEMMA RetryFailedIs ==
  ASSUME OutboxOK, NEW h \in Screens, RetryFailed(h)
  PROVE  HookOK(RetriedHook(hook[h])) /\ Become(h, RetriedHook(hook[h]))
  BY RetriedOK DEF RetryFailed, RetriedHook, OutboxOK

DrainedHook(s, why) == [Drained(s) EXCEPT !.due = @ \ {why}]
LEMMA DrainDueIs ==
  ASSUME OutboxOK, NEW h \in Screens, NEW why \in Reasons, DrainDue(h, why)
  PROVE  LET d == Drained(hook[h])  t == DrainedHook(hook[h], why)
         IN  /\ HookOK(t) /\ hook' = [hook EXCEPT ![h] = t]
             /\ t.phase = d.phase /\ t.conv = d.conv /\ t.load = d.load /\ t.box = d.box
             /\ t.posting = d.posting /\ t.due = d.due \ {why}
             /\ \/ store' = store /\ d = hook[h]
                \/ store' = Persisted(h, d.box)
<1> DEFINE d == Drained(hook[h])  t == DrainedHook(hook[h], why)
<1>1. HookOK(d)
  BY DrainedIs DEF OutboxOK
<1>2. t = [d EXCEPT !.due = @ \ {why}]
  BY DEF DrainedHook
<1>3. /\ hook' = [hook EXCEPT ![h] = t]
      /\ \/ store' = store /\ d = hook[h]
         \/ store' = Persisted(h, d.box)
  BY DEF DrainDue, DrainedHook
<1> HIDE DEF d, t
<1>4. /\ t \in Hooks
      /\ t.phase = d.phase /\ t.conv = d.conv /\ t.load = d.load /\ t.box = d.box
      /\ t.posting = d.posting /\ t.due = d.due \ {why}
  BY <1>1, <1>2 DEF HookOK, Hooks
<1> QED
  BY <1>1, <1>3, <1>4 DEF HookOK, d, t

GotHook(s) == [s EXCEPT !.posting = [@ EXCEPT !.got = TRUE]]
LEMMA RecordIs ==
  ASSUME OutboxOK, NEW h \in Screens, Record(h)
  PROVE  LET s == hook[h]  t == GotHook(s)
         IN  /\ HookOK(t) /\ hook' = [hook EXCEPT ![h] = t]
             /\ t.phase = s.phase /\ t.conv = s.conv /\ t.load = s.load /\ t.box = s.box
             /\ t.due = s.due /\ t.posting # None /\ t.posting.got = TRUE
             /\ s.posting # None /\ s.posting \in Posts
             /\ t.posting.msg = s.posting.msg /\ t.posting.conv = s.posting.conv
<1> DEFINE s == hook[h]  t == GotHook(s)  post == [s.posting EXCEPT !.got = TRUE]
<1>1. s \in Hooks /\ s.posting # None /\ s.posting \in Posts
  BY DEF Record, OutboxOK, HookOK, Hooks
<1>2. /\ post \in Posts /\ post.msg = s.posting.msg /\ post.conv = s.posting.conv
      /\ post.got = TRUE
  BY <1>1 DEF Posts
<1>3. post # None
  BY <1>2, OutboxAssumption
<1>4. hook' = [hook EXCEPT ![h] = t]
  BY <1>1 DEF Record, GotHook, OutboxOK, Hooks
<1>5. t = [s EXCEPT !.posting = post]
  BY <1>1 DEF GotHook, Hooks
<1>6. HookOK(s)
  BY DEF OutboxOK
<1> HIDE DEF s, t, post
<1>7. /\ t \in Hooks /\ t.posting = post
      /\ t.phase = s.phase /\ t.conv = s.conv /\ t.load = s.load /\ t.box = s.box
      /\ t.due = s.due
  BY <1>1, <1>2, <1>5 DEF Hooks
<1> QED
  BY <1>1, <1>2, <1>3, <1>4, <1>6, <1>7 DEF HookOK, s, t

LEMMA ConfirmIs ==
  ASSUME OutboxOK, NEW h \in Screens, Confirm(h)
  PROVE  /\ HookOK(ConfirmedHook(hook[h])) /\ Become(h, ConfirmedHook(hook[h]))
         /\ hook[h].posting # None /\ hook[h].posting \in Posts
<1>1. HookOK(hook[h]) /\ hook[h].posting # None /\ hook[h].posting \in Posts
  BY DEF Confirm, OutboxOK, HookOK, Hooks
<1>2. Become(h, ConfirmedHook(hook[h]))
  BY DEF Confirm, ConfirmedHook
<1> QED
  BY <1>1, <1>2, ConfirmedOK

LEMMA PostUnansweredIs ==
  ASSUME OutboxOK, NEW h \in Screens, PostUnanswered(h)
  PROVE  LET t == UnansweredHook(hook[h])
         IN  /\ HookOK(t) /\ hook' = [hook EXCEPT ![h] = t] /\ store' = Persisted(h, t.box)
             /\ hook[h].posting # None /\ hook[h].posting \in Posts
<1>1. HookOK(hook[h]) /\ hook[h].posting # None /\ hook[h].posting \in Posts
  BY DEF PostUnanswered, OutboxOK, HookOK, Hooks
<1>2. UnansweredHook(hook[h])
        = [hook[h] EXCEPT !.box = MarkItem(@, hook[h].posting.msg, "queued"),
                          !.posting = None, !.due = @ \cup {"timer"}]
  BY DEF UnansweredHook, EndedHook
<1>3. /\ hook' = [hook EXCEPT ![h] = UnansweredHook(hook[h])]
      /\ store' = Persisted(h, UnansweredHook(hook[h]).box)
  BY <1>2, Zenon DEF PostUnanswered
<1> QED
  BY <1>1, <1>3, UnansweredOK

LEMMA PostRefusedIs ==
  ASSUME OutboxOK, NEW h \in Screens, PostRefused(h)
  PROVE  LET t == EndedHook(hook[h], "failed")
         IN  /\ HookOK(t) /\ Become(h, t)
             /\ hook[h].posting # None /\ hook[h].posting \in Posts
<1>1. HookOK(hook[h]) /\ hook[h].posting # None /\ hook[h].posting \in Posts
  BY DEF PostRefused, OutboxOK, HookOK, Hooks
<1>2. "failed" \in Statuses
  BY DEF Statuses
<1>3. Become(h, EndedHook(hook[h], "failed"))
  BY Zenon DEF PostRefused, EndedHook
<1> QED
  BY <1>1, <1>2, <1>3, EndedOK

ClosedHook(s) == [s EXCEPT !.phase = "closed"]
LEMMA SeeClosedIs ==
  ASSUME OutboxOK, NEW h \in Screens, SeeClosed(h)
  PROVE  LET s == hook[h]  t == ClosedHook(s)
         IN  /\ HookOK(t) /\ hook' = [hook EXCEPT ![h] = t]
             /\ t.phase = "closed" /\ t.conv = s.conv /\ t.load = s.load /\ t.box = s.box
             /\ t.due = s.due /\ t.posting = s.posting
<1> DEFINE s == hook[h]  t == ClosedHook(s)
<1>1. HookOK(s) /\ s.phase = "thread"
  BY DEF OutboxOK, SeeClosed
<1>2. t = [s EXCEPT !.phase = "closed"]
  BY DEF ClosedHook
<1>3. hook' = [hook EXCEPT ![h] = t]
  BY DEF SeeClosed, ClosedHook, OutboxOK
<1> HIDE DEF s, t
<1>4. /\ t \in Hooks /\ t.phase = "closed" /\ t.conv = s.conv /\ t.load = s.load
      /\ t.box = s.box /\ t.due = s.due /\ t.posting = s.posting
  BY <1>1, <1>2 DEF HookOK, Hooks, Phases
<1> QED
  BY <1>1, <1>3, <1>4 DEF HookOK, s, t

LEMMA OpenConversationIs ==
  ASSUME OutboxOK, NEW h \in Screens, NEW c \in Convs, OpenConversation(h, c)
  PROVE  \E o \in BOOLEAN :
           /\ o <=> c \in open
           /\ HookOK(AdoptedHook(hook[h], c, o))
           /\ hook' = [hook EXCEPT ![h] = AdoptedHook(hook[h], c, o)]
           /\ AdoptedHook(hook[h], c, o).load # None
<1>1. CASE c \in open
  <2>1. hook' = Adopted(h, c, TRUE)
    BY <1>1 DEF OpenConversation, Adopted
  <2>2. /\ HookOK(AdoptedHook(hook[h], c, TRUE))
        /\ hook' = [hook EXCEPT ![h] = AdoptedHook(hook[h], c, TRUE)]
        /\ AdoptedHook(hook[h], c, TRUE).load # None
    BY <2>1, AdoptedIs
  <2> QED
    BY <1>1, <2>2
<1>2. CASE c \notin open
  <2>1. hook' = Adopted(h, c, FALSE)
    <3>1. hook' = Adopted(h, c, c \in open)
      BY DEF OpenConversation
    <3>2. (c \in open) = FALSE
      BY <1>2
    <3> QED
      BY <3>1, <3>2, Zenon
  <2>2. /\ HookOK(AdoptedHook(hook[h], c, FALSE))
        /\ hook' = [hook EXCEPT ![h] = AdoptedHook(hook[h], c, FALSE)]
        /\ AdoptedHook(hook[h], c, FALSE).load # None
    BY <2>1, AdoptedIs
  <2> QED
    BY <1>2, <2>2
<1> QED
  BY <1>1, <1>2

(* A step of one hook, and what it saves, leave every outbox an outbox.    *)
LEMMA HookStepOK ==
  ASSUME OutboxOK, NEW h \in Screens, NEW s, HookOK(s), hook' = [hook EXCEPT ![h] = s],
         store' = store \/ store' = Persisted(h, s.box),
         inbox' \in [Convs -> [Msgs -> Nat]],
         open' \subseteq created', created' \subseteq Convs,
         written' \in [Msgs -> Convs \cup {None}],
         cut' \subseteq Msgs, faults' \in Nat, disk' = disk
  PROVE  OutboxOK'
<1>1. /\ DOMAIN hook' = Screens /\ hook' = [g \in Screens |-> hook'[g]]
      /\ \A g \in Screens : HookOK(hook'[g])
  BY HookSet
<1>2. s.box \in Seq(Items) /\ Unique(s.box)
  BY DEF HookOK, Hooks
<1>3. store' \in [Convs -> Seq(Items)] /\ \A c \in Convs : Unique(store'[c])
  BY <1>2, PersistedOK DEF OutboxOK
<1> QED
  BY <1>1, <1>3 DEF OutboxOK

LEMMA BecomeOK ==
  ASSUME OutboxOK, NEW h \in Screens, NEW s, HookOK(s), Become(h, s),
         inbox' \in [Convs -> [Msgs -> Nat]],
         open' \subseteq created', created' \subseteq Convs,
         written' \in [Msgs -> Convs \cup {None}],
         cut' \subseteq Msgs, faults' \in Nat, disk' = disk
  PROVE  OutboxOK'
<1>1. HookOK(Drained(s)) /\ hook' = [hook EXCEPT ![h] = Drained(s)]
  BY BecomeIs
<1>2. store' = Persisted(h, Drained(s).box)
  BY DEF Become
<1> QED
  BY <1>1, <1>2, HookStepOK

Hands == <<disk, inbox, open, created, written, cut, faults>>
LEMMA HandsKept ==
  ASSUME OutboxOK, UNCHANGED Hands
  PROVE  /\ inbox' \in [Convs -> [Msgs -> Nat]]
         /\ open' \subseteq created' /\ created' \subseteq Convs
         /\ written' \in [Msgs -> Convs \cup {None}]
         /\ cut' \subseteq Msgs /\ faults' \in Nat /\ disk' = disk
  BY DEF Hands, OutboxOK

LEMMA InitOK == OutboxInit => OutboxOK
  BY UnmountedOK, NothingIsUnique, OutboxAssumption DEF OutboxInit, OutboxOK

LEMMA StepOK ==
  ASSUME OutboxOK, Next
  PROVE  OutboxOK'
<1>1. ASSUME NEW h \in Screens, Mount(h) PROVE OutboxOK'
  <2>1. UNCHANGED Hands /\ store' = store
    BY <1>1 DEF Mount, Hands, history
  <2> QED
    BY <1>1, <2>1, MountIs, HandsKept, HookStepOK
<1>2. ASSUME NEW h \in Screens, Resume(h) PROVE OutboxOK'
  <2>1. UNCHANGED Hands /\ store' = store
    BY <1>2 DEF Resume, Hands, history
  <2> QED
    BY <1>2, <2>1, ResumeIs, HandsKept, HookStepOK
<1>3. ASSUME NEW h \in Screens, FinishLoad(h) PROVE OutboxOK'
  <2>1. UNCHANGED Hands /\ store' = store
    BY <1>3 DEF FinishLoad, Hands, history
  <2> QED
    BY <1>3, <2>1, FinishLoadIs, HandsKept, HookStepOK
<1>4. ASSUME NEW h \in Screens, RetryFailed(h) PROVE OutboxOK'
  <2>1. UNCHANGED Hands
    BY <1>4 DEF RetryFailed, Hands, history
  <2> QED
    BY <1>4, <2>1, RetryFailedIs, HandsKept, BecomeOK
<1>5. ASSUME NEW h \in Screens, Unmount(h) PROVE OutboxOK'
  <2>1. UNCHANGED Hands /\ store' = store
    BY <1>5 DEF Unmount, Hands, history
  <2> QED
    BY <1>5, <2>1, UnmountIs, HandsKept, HookStepOK
<1>6. ASSUME NEW h \in Screens, NEW why \in Reasons, DrainDue(h, why) PROVE OutboxOK'
  <2>1. UNCHANGED Hands
    BY <1>6 DEF DrainDue, Hands, history
  <2> DEFINE t == DrainedHook(hook[h], why)
  <2> HIDE DEF t
  <2>2. HookOK(t) /\ hook' = [hook EXCEPT ![h] = t] /\ t.box = Drained(hook[h]).box
    BY <1>6, DrainDueIs DEF t
  <2>3. store' = store \/ store' = Persisted(h, t.box)
    BY <1>6, <2>2 DEF DrainDue
  <2> QED
    BY <2>1, <2>2, <2>3, HandsKept, HookStepOK
<1>7. ASSUME NEW h \in Screens, Record(h) PROVE OutboxOK'
  <2>1. UNCHANGED <<open, created, written, cut, faults, store, disk>>
    BY <1>7 DEF Record, history
  <2>2. PICK t : HookOK(t) /\ hook' = [hook EXCEPT ![h] = t]
    BY <1>7, RecordIs
  <2> DEFINE p == hook[h].posting
  <2>3. p \in Posts
    BY <1>7 DEF Record, OutboxOK, HookOK, Hooks
  <2>4. inbox' = [inbox EXCEPT ![p.conv][p.msg] = OneMore(@)]
    BY <1>7 DEF Record
  <2> HIDE DEF p
  <2>5. inbox' \in [Convs -> [Msgs -> Nat]]
    BY <2>3, <2>4 DEF Posts, OutboxOK, OneMore
  <2> QED
    BY <2>1, <2>2, <2>5, HookStepOK DEF OutboxOK
<1>8. ASSUME NEW h \in Screens, Confirm(h) PROVE OutboxOK'
  <2>1. UNCHANGED Hands
    BY <1>8 DEF Confirm, Hands, history
  <2> QED
    BY <1>8, <2>1, ConfirmIs, HandsKept, BecomeOK
<1>9. ASSUME NEW h \in Screens, PostUnanswered(h) PROVE OutboxOK'
  <2>1. /\ UNCHANGED <<disk, inbox, open, created, written>>
        /\ cut' = cut \cup {hook[h].posting.msg} /\ faults' = faults + 1
    BY <1>9 DEF PostUnanswered
  <2>2. hook[h].posting.msg \in Msgs
    BY <1>9, PostUnansweredIs DEF Posts
  <2>3. /\ inbox' \in [Convs -> [Msgs -> Nat]]
        /\ open' \subseteq created' /\ created' \subseteq Convs
        /\ written' \in [Msgs -> Convs \cup {None}]
        /\ cut' \subseteq Msgs /\ faults' \in Nat /\ disk' = disk
    BY <2>1, <2>2 DEF OutboxOK
  <2> QED
    BY <1>9, <2>3, PostUnansweredIs, HookStepOK
<1>10. ASSUME NEW h \in Screens, PostRefused(h) PROVE OutboxOK'
  <2>1. UNCHANGED <<disk, inbox, open, created, written, cut>> /\ faults' \in {faults, faults + 1}
    BY <1>10 DEF PostRefused, history
  <2>2. /\ inbox' \in [Convs -> [Msgs -> Nat]]
        /\ open' \subseteq created' /\ created' \subseteq Convs
        /\ written' \in [Msgs -> Convs \cup {None}]
        /\ cut' \subseteq Msgs /\ faults' \in Nat /\ disk' = disk
    BY <2>1 DEF OutboxOK
  <2> QED
    BY <1>10, <2>2, PostRefusedIs, BecomeOK
<1>11. ASSUME NEW h \in Screens, SeeClosed(h) PROVE OutboxOK'
  <2>1. UNCHANGED Hands /\ store' = store
    BY <1>11 DEF SeeClosed, Hands, history
  <2> QED
    BY <1>11, <2>1, SeeClosedIs, HandsKept, HookStepOK
<1>12. ASSUME NEW h \in Screens, NEW c \in Convs, StartConversation(h, c) PROVE OutboxOK'
  <2>1. /\ UNCHANGED <<inbox, written, cut, faults, store, disk>>
        /\ open' = open \cup {c} /\ created' = created \cup {c}
    BY <1>12 DEF StartConversation, history
  <2>2. /\ inbox' \in [Convs -> [Msgs -> Nat]]
        /\ open' \subseteq created' /\ created' \subseteq Convs
        /\ written' \in [Msgs -> Convs \cup {None}]
        /\ cut' \subseteq Msgs /\ faults' \in Nat /\ disk' = disk
    BY <2>1 DEF OutboxOK
  <2>3. PICK t : HookOK(t) /\ hook' = [hook EXCEPT ![h] = t]
    BY <1>12, AdoptedIs DEF StartConversation
  <2> QED
    BY <2>1, <2>2, <2>3, HookStepOK
<1>13. ASSUME NEW h \in Screens, NEW c \in Convs, OpenConversation(h, c) PROVE OutboxOK'
  <2>1. UNCHANGED Hands /\ store' = store
    BY <1>13 DEF OpenConversation, Hands, history
  <2>2. PICK t : HookOK(t) /\ hook' = [hook EXCEPT ![h] = t]
    BY <1>13, OpenConversationIs
  <2> QED
    BY <2>1, <2>2, HandsKept, HookStepOK
<1>14. ASSUME NEW h \in Screens, NEW m \in Msgs, SendMessage(h, m) PROVE OutboxOK'
  <2>1. /\ UNCHANGED <<disk, inbox, open, created, faults, cut>>
        /\ written' = [written EXCEPT ![m] = hook[h].conv]
    BY <1>14 DEF SendMessage
  <2>2. HookOK(SentHook(hook[h], m)) /\ Become(h, SentHook(hook[h], m)) /\ hook[h].conv \in Convs
    BY <1>14, SendMessageIs DEF SentOn
  <2>3. /\ inbox' \in [Convs -> [Msgs -> Nat]]
        /\ open' \subseteq created' /\ created' \subseteq Convs
        /\ written' \in [Msgs -> Convs \cup {None}]
        /\ cut' \subseteq Msgs /\ faults' \in Nat /\ disk' = disk
    BY <2>1, <2>2 DEF OutboxOK
  <2> QED
    BY <2>2, <2>3, BecomeOK
<1>15. ASSUME NEW c \in Convs, CloseThread(c) PROVE OutboxOK'
  <2>1. /\ UNCHANGED <<hook, store, disk, inbox, created, written, faults, cut>>
        /\ open' = open \ {c}
    BY <1>15 DEF CloseThread, history
  <2>2. open' \subseteq created' /\ created' \subseteq Convs
    BY <2>1 DEF OutboxOK
  <2>3. hook' = hook /\ store' = store /\ disk' = disk /\ inbox' = inbox /\ written' = written
        /\ cut' = cut /\ faults' = faults
    BY <2>1
  <2> QED
    BY <2>2, <2>3 DEF OutboxOK
<1>16. ASSUME Kill PROVE OutboxOK'
  <2>1. /\ UNCHANGED <<disk, inbox, open, created, written>> /\ faults' = faults + 1
        /\ hook' = [h \in Screens |-> Unmounted] /\ store' = disk
        /\ cut' = cut \cup Landing(disk, store)
                    \cup {hook[h].posting.msg : h \in {g \in Screens : hook[g].posting # None}}
    BY <1>16 DEF Kill
  <2>2. \A h \in Screens : hook[h].posting # None => hook[h].posting.msg \in Msgs
    BY DEF OutboxOK, HookOK, Hooks, Posts
  <2>3. cut' \subseteq Msgs
    BY <2>1, <2>2 DEF OutboxOK, Landing
  <2>4. \A h \in Screens : HookOK(hook'[h])
    BY <2>1, UnmountedOK
  <2> QED
    BY <2>1, <2>3, <2>4 DEF OutboxOK
<1>17. ASSUME NEW c \in Convs, Land(c) PROVE OutboxOK'
  <2>1. UNCHANGED <<hook, store, inbox, open, created, written, faults, cut>>
        /\ disk' = [disk EXCEPT ![c] = store[c]]
    BY <1>17 DEF Land, history
  <2>2. disk' \in [Convs -> Seq(Items)] /\ \A d \in Convs : Unique(disk'[d])
    BY <2>1 DEF OutboxOK
  <2> QED
    BY <2>1, <2>2 DEF OutboxOK
<1> QED
  BY <1>1, <1>2, <1>3, <1>4, <1>5, <1>6, <1>7, <1>8, <1>9, <1>10, <1>11, <1>12, <1>13, <1>14,
     <1>15, <1>16, <1>17 DEF Next

LEMMA OutboxStaysOK == Spec => []OutboxOK
<1>1. OutboxOK /\ [Next]_vars => OutboxOK'
  <2> SUFFICES ASSUME OutboxOK, [Next]_vars PROVE OutboxOK'
    OBVIOUS
  <2>1. CASE UNCHANGED vars
    BY <2>1 DEF vars, history, OutboxOK
  <2> QED
    BY <2>1, StepOK
<1> QED
  BY <1>1, InitOK, PTL DEF Spec

(* Type correctness of the outbox.                                         *)
THEOREM OutboxTypeCorrect == Spec => []TypeOK
<1>1. OutboxOK => TypeOK
  BY DEF OutboxOK, HookOK, Hooks, TypeOK
<1> QED
  BY <1>1, OutboxStaysOK, PTL

---------------------------------------------------------------------------
(* Where a message goes.                                                   *)

(* Every copy of a message, in memory, in storage, in a read under way or  *)
(* in a post, names the thread it was written in.                          *)
BelongsTo(box, w) == \A i \in DOMAIN box : w[box[i].msg] = box[i].conv
HookBelongs(s, w) ==
  /\ BelongsTo(s.box, w)
  /\ s.load # None => BelongsTo(s.load.box, w)
  /\ s.posting # None => w[s.posting.msg] = s.posting.conv
Belong ==
  /\ \A h \in Screens : HookBelongs(hook[h], written)
  /\ \A c \in Convs : BelongsTo(store[c], written) /\ BelongsTo(disk[c], written)
  /\ DeliveredWhereWritten

LEMMA SameItemsBelong ==
  ASSUME NEW s, NEW t, NEW w, HookBelongs(s, w),
         t.load = s.load, t.posting = s.posting \/ t.posting = None,
         SameItems(t.box, s.box)
  PROVE  HookBelongs(t, w)
  BY DEF HookBelongs, BelongsTo, SameItems

LEMMA DrainedPosts ==
  ASSUME NEW s, HookOK(s)
  PROVE  \/ Drained(s) = s
         \/ \E i \in DOMAIN s.box : /\ Drained(s).posting.msg = s.box[i].msg
                                    /\ Drained(s).posting.conv = s.box[i].conv
<1> DEFINE d == Drained(s)
<1>1. \/ d = s /\ (s.posting # None \/ ~HasQueued(s.box))
      \/ /\ s.posting = None /\ d.posting # None
         /\ \E i \in DOMAIN s.box :
              /\ s.box[i].status = "queued"
              /\ d.posting.msg = s.box[i].msg /\ d.posting.conv = s.box[i].conv
         /\ d.posting.got = FALSE
         /\ \A i \in DOMAIN s.box :
              d.box[i].status = IF s.box[i].msg = d.posting.msg THEN "sending"
                                ELSE s.box[i].status
  BY DrainedIs
<1> HIDE DEF d
<1> QED
  BY <1>1 DEF d

LEMMA DrainedBelongs ==
  ASSUME NEW s, NEW w, HookOK(s), HookBelongs(s, w)
  PROVE  HookBelongs(Drained(s), w)
<1> DEFINE d == Drained(s)
<1>1. d.load = s.load /\ SameItems(d.box, s.box)
  BY DrainedIs
<1>2. \/ d = s
      \/ \E i \in DOMAIN s.box :
           d.posting.msg = s.box[i].msg /\ d.posting.conv = s.box[i].conv
  BY DrainedPosts
<1> HIDE DEF d
<1>3. d.posting # None => w[d.posting.msg] = d.posting.conv
  BY <1>2 DEF HookBelongs, BelongsTo
<1> QED
  BY <1>1, <1>3 DEF HookBelongs, BelongsTo, SameItems, d

LEMMA HookStepBelongs ==
  ASSUME OutboxOK, Belong, NEW h \in Screens, NEW s, HookOK(s), HookBelongs(s, written),
         hook' = [hook EXCEPT ![h] = s], store' = store \/ store' = Persisted(h, s.box),
         UNCHANGED <<disk, inbox, written>>
  PROVE  Belong'
<1>1. \A g \in Screens : HookBelongs(hook'[g], written)
  BY HookSet DEF Belong
<1>2. s.box \in Seq(Items) /\ Unique(s.box)
  BY DEF HookOK, Hooks
<1>3. \A c \in Convs : BelongsTo(store'[c], written)
  <2>1. BelongsTo(s.box, written) /\ \A c \in Convs : BelongsTo(store[c], written)
    BY DEF Belong, HookBelongs
  <2>2. store' = Persisted(h, s.box) =>
          \A c \in Convs : store'[c] = IF c = hook[h].conv THEN s.box ELSE store[c]
    BY <1>2, PersistedOK
  <2> QED
    BY <2>1, <2>2
<1> QED
  BY <1>1, <1>3 DEF Belong, DeliveredWhereWritten

LEMMA BecomeBelongs ==
  ASSUME OutboxOK, Belong, NEW h \in Screens, NEW s, HookOK(s), HookBelongs(s, written),
         Become(h, s), UNCHANGED <<disk, inbox, written>>
  PROVE  Belong'
<1>1. HookOK(Drained(s)) /\ hook' = [hook EXCEPT ![h] = Drained(s)]
  BY BecomeIs
<1>2. store' = Persisted(h, Drained(s).box)
  BY DEF Become
<1> QED
  BY <1>1, <1>2, DrainedBelongs, HookStepBelongs

LEMMA AdoptedBelongs ==
  ASSUME OutboxOK, Belong, NEW h \in Screens, NEW c \in Convs, NEW o \in BOOLEAN
  PROVE  HookBelongs(AdoptedHook(hook[h], c, o), written)
<1> DEFINE t == AdoptedHook(hook[h], c, o)
<1>1. t.load.box = store[c] /\ t.box = hook[h].box /\ t.posting = hook[h].posting
  BY DEF AdoptedHook, OutboxOK, HookOK, Hooks
<1> HIDE DEF t
<1>2. HookBelongs(t, written)
  BY <1>1 DEF HookBelongs, Belong
<1> QED
  BY <1>2 DEF t

LEMMA NothingBelongs ==
  ASSUME NEW w
  PROVE  BelongsTo(<<>>, w) /\ HookBelongs(Unmounted, w)
  BY DEF BelongsTo, HookBelongs, Unmounted

LEMMA InitBelongs == OutboxInit => Belong
<1> SUFFICES ASSUME OutboxInit PROVE Belong
  OBVIOUS
<1>1. \A c \in Convs, m \in Msgs : inbox[c][m] = 0
  BY DEF OutboxInit
<1> QED
  BY <1>1, NothingBelongs DEF OutboxInit, Belong, DeliveredWhereWritten

(* A message that was not written yet is nowhere.                          *)
LEMMA WrittenBelongs ==
  ASSUME OutboxOK, NEW m \in Unwritten, NEW c \in Convs,
         written' = [written EXCEPT ![m] = c]
  PROVE  /\ \A box \in Seq(Items) : BelongsTo(box, written) => BelongsTo(box, written')
         /\ \A s : HookOK(s) /\ HookBelongs(s, written) => HookBelongs(s, written')
         /\ written'[m] = c /\ m \in Msgs
<1>1. m \in Msgs /\ written[m] = None /\ written'[m] = c
  BY DEF Unwritten, OutboxOK
<1>2. \A k \in Msgs : written[k] # None => written'[k] = written[k]
  BY <1>1 DEF OutboxOK
<1>3. None \notin Convs
  BY OutboxAssumption
<1>4. ASSUME NEW box \in Seq(Items), BelongsTo(box, written) PROVE BelongsTo(box, written')
  <2>1. \A i \in DOMAIN box : box[i] \in Items
    OBVIOUS
  <2> QED
    BY <1>2, <1>3, <1>4, <2>1 DEF BelongsTo, Items
<1>5. ASSUME NEW s, HookOK(s), HookBelongs(s, written) PROVE HookBelongs(s, written')
  <2>1. s.box \in Seq(Items) /\ (s.load # None => s.load.box \in Seq(Items))
    BY <1>5 DEF HookOK, Hooks, Loads
  <2>2. s.posting # None => s.posting.msg \in Msgs /\ s.posting.conv \in Convs
    BY <1>5 DEF HookOK, Hooks, Posts
  <2> QED
    BY <1>2, <1>3, <1>4, <1>5, <2>1, <2>2 DEF HookBelongs
<1> QED
  BY <1>1, <1>4, <1>5

LEMMA StepBelongs ==
  ASSUME OutboxOK, Belong, Next
  PROVE  Belong'
<1>0. \A h \in Screens : HookBelongs(hook[h], written) /\ HookOK(hook[h])
  BY DEF Belong, OutboxOK
<1>1. ASSUME NEW h \in Screens, Mount(h) PROVE Belong'
  <2>1. UNCHANGED <<disk, inbox, written, store>>
    BY <1>1 DEF Mount
  <2>2. HookBelongs(MountedHook, written)
    BY NothingBelongs DEF HookBelongs, MountedHook, Unmounted
  <2> QED
    BY <1>1, <2>1, <2>2, MountIs, HookStepBelongs
<1>2. ASSUME NEW h \in Screens, Resume(h) PROVE Belong'
  <2>1. UNCHANGED <<disk, inbox, written, store>> /\ \A c \in open : c \in Convs
    BY <1>2 DEF Resume, OutboxOK
  <2>2. HookBelongs(IntakeHook(hook[h]), written)
    BY <1>0 DEF HookBelongs, IntakeHook, HookOK, Hooks
  <2> QED
    BY <1>2, <2>1, <2>2, ResumeIs, AdoptedBelongs, HookStepBelongs
<1>3. ASSUME NEW h \in Screens, FinishLoad(h) PROVE Belong'
  <2>1. UNCHANGED <<disk, inbox, written, store>>
    BY <1>3 DEF FinishLoad
  <2> DEFINE s == hook[h]  l == LoadedHook(hook[h])
  <2>2. s.load # None /\ HookOK(s) /\ HookBelongs(s, written)
    BY <1>0, <1>3 DEF FinishLoad
  <2>3. s.load.box \in Seq(Items) /\ Unique(s.load.box)
    BY <2>2 DEF HookOK, Hooks, Loads
  <2>4. BelongsTo(Requeued(s.load.box, "sending"), written)
    <3>1. "sending" \in Statuses
      BY DEF Statuses
    <3> QED
      BY SMTT(30), <2>2, <2>3, <3>1, RequeuedType DEF HookBelongs, BelongsTo
  <2>5. l.load = None /\ l.posting = s.posting
        /\ (l.box = s.box \/ l.box = Requeued(s.load.box, "sending"))
    BY <2>2, LoadedOK
  <2> HIDE DEF s, l
  <2>6. HookBelongs(l, written)
    BY <2>2, <2>4, <2>5 DEF HookBelongs
  <2> QED
    BY <1>3, <2>1, <2>6, FinishLoadIs, HookStepBelongs DEF l
<1>4. ASSUME NEW h \in Screens, RetryFailed(h) PROVE Belong'
  <2>1. UNCHANGED <<disk, inbox, written>>
    BY <1>4 DEF RetryFailed
  <2>2. HookBelongs(RetriedHook(hook[h]), written)
    BY <1>0, RetriedOK, SameItemsBelong
  <2> QED
    BY <1>4, <2>1, <2>2, RetryFailedIs, BecomeBelongs
<1>5. ASSUME NEW h \in Screens, Unmount(h) PROVE Belong'
  <2>1. UNCHANGED <<disk, inbox, written, store>>
    BY <1>5 DEF Unmount
  <2>2. HookBelongs(LeftHook(hook[h]), written)
    <3> DEFINE s == hook[h]  t == LeftHook(s)
    <3>1. s \in Hooks /\ HookBelongs(s, written)
      BY <1>0 DEF HookOK
    <3>2. t.box = s.box /\ t.load = s.load /\ t.posting = s.posting
      BY <3>1 DEF LeftHook, Hooks
    <3> HIDE DEF s, t
    <3>3. HookBelongs(t, written)
      BY <3>1, <3>2 DEF HookBelongs
    <3> QED
      BY <3>3 DEF t, s
  <2> QED
    BY <1>5, <2>1, <2>2, UnmountIs, HookStepBelongs
<1>6. ASSUME NEW h \in Screens, NEW why \in Reasons, DrainDue(h, why) PROVE Belong'
  <2>1. UNCHANGED <<disk, inbox, written>>
    BY <1>6 DEF DrainDue
  <2> DEFINE d == Drained(hook[h])  t == DrainedHook(hook[h], why)
  <2>2. HookBelongs(d, written)
    BY <1>0, DrainedBelongs
  <2> HIDE DEF d, t
  <2>3. /\ HookOK(t) /\ hook' = [hook EXCEPT ![h] = t] /\ t.box = d.box
        /\ t.load = d.load /\ t.posting = d.posting
    BY <1>6, DrainDueIs DEF t, d
  <2>4. store' = store \/ store' = Persisted(h, t.box)
    BY <1>6, <2>3 DEF DrainDue, d
  <2>5. HookBelongs(t, written)
    BY <2>2, <2>3 DEF HookBelongs
  <2> QED
    BY <2>1, <2>3, <2>4, <2>5, HookStepBelongs
<1>7. ASSUME NEW h \in Screens, Record(h) PROVE Belong'
  <2>1. UNCHANGED <<disk, written, store>>
    BY <1>7 DEF Record
  <2> DEFINE p == hook[h].posting  t == GotHook(hook[h])
  <2>2. p \in Posts /\ p # None /\ inbox' = [inbox EXCEPT ![p.conv][p.msg] = OneMore(@)]
    BY <1>7 DEF Record, OutboxOK, HookOK, Hooks
  <2>3. written[p.msg] = p.conv
    BY <1>0, <2>2 DEF HookBelongs
  <2>4. /\ HookOK(t) /\ hook' = [hook EXCEPT ![h] = t] /\ t.box = hook[h].box
        /\ t.load = hook[h].load /\ t.posting.msg = p.msg /\ t.posting.conv = p.conv
    BY <1>7, RecordIs
  <2> HIDE DEF p, t
  <2>5. HookBelongs(t, written)
    BY <1>0, <2>3, <2>4 DEF HookBelongs
  <2>6. \A g \in Screens : HookBelongs(hook'[g], written)
    BY <1>0, <2>4, <2>5, HookSet
  <2>7. \A c \in Convs, m \in Msgs : inbox'[c][m] # inbox[c][m] => c = p.conv /\ m = p.msg
    BY <2>2 DEF OutboxOK
  <2>8. \A c \in Convs, m \in Msgs : inbox'[c][m] > 0 => written[m] = c
    BY <2>3, <2>7 DEF Belong, DeliveredWhereWritten
  <2> QED
    BY <2>1, <2>6, <2>8 DEF Belong, DeliveredWhereWritten
<1>8. ASSUME NEW h \in Screens, Confirm(h) PROVE Belong'
  <2>1. UNCHANGED <<disk, inbox, written>>
    BY <1>8 DEF Confirm
  <2>2. HookBelongs(ConfirmedHook(hook[h]), written)
    BY <1>0, <1>8, ConfirmIs, ConfirmedOK DEF HookBelongs, BelongsTo
  <2> QED
    BY <1>8, <2>1, <2>2, ConfirmIs, BecomeBelongs
<1>9. ASSUME NEW h \in Screens, PostUnanswered(h) PROVE Belong'
  <2>1. UNCHANGED <<disk, inbox, written>>
    BY <1>9 DEF PostUnanswered
  <2>2. HookBelongs(UnansweredHook(hook[h]), written)
    <3> DEFINE s == hook[h]  e == EndedHook(s, "queued")  t == UnansweredHook(s)
    <3>1. "queued" \in Statuses /\ s.posting # None /\ HookOK(s) /\ HookBelongs(s, written)
      BY <1>0, <1>9 DEF Statuses, PostUnanswered
    <3>2. e.load = s.load /\ e.posting = None /\ SameItems(e.box, s.box)
      BY <3>1, EndedOK
    <3>3. t.load = e.load /\ t.posting = e.posting /\ t.box = e.box
      BY <3>1, UnansweredOK
    <3> HIDE DEF s, t, e
    <3>4. HookBelongs(e, written)
      BY <3>1, <3>2, SameItemsBelong
    <3>5. HookBelongs(t, written)
      BY <3>3, <3>4 DEF HookBelongs
    <3> QED
      BY <3>5 DEF t, s
  <2> QED
    BY <1>9, <2>1, <2>2, PostUnansweredIs, HookStepBelongs
<1>10. ASSUME NEW h \in Screens, PostRefused(h) PROVE Belong'
  <2>1. UNCHANGED <<disk, inbox, written>>
    BY <1>10 DEF PostRefused
  <2>2. HookBelongs(EndedHook(hook[h], "failed"), written)
    <3>1. "failed" \in Statuses /\ hook[h].posting # None
      BY <1>10 DEF Statuses, PostRefused
    <3> DEFINE s == hook[h]  t == EndedHook(s, "failed")
    <3>2. t.load = s.load /\ t.posting = None /\ SameItems(t.box, s.box)
      BY <1>0, <3>1, EndedOK
    <3>3. HookBelongs(s, written)
      BY <1>0
    <3> HIDE DEF s, t
    <3>4. HookBelongs(t, written)
      BY <3>2, <3>3, SameItemsBelong
    <3> QED
      BY <3>4 DEF t, s
  <2> QED
    BY <1>10, <2>1, <2>2, PostRefusedIs, BecomeBelongs
<1>11. ASSUME NEW h \in Screens, SeeClosed(h) PROVE Belong'
  <2>1. UNCHANGED <<disk, inbox, written, store>>
    BY <1>11 DEF SeeClosed
  <2>2. HookBelongs(ClosedHook(hook[h]), written)
    BY <1>0, <1>11, SeeClosedIs DEF HookBelongs
  <2> QED
    BY <1>11, <2>1, <2>2, SeeClosedIs, HookStepBelongs
<1>12. ASSUME NEW h \in Screens, NEW c \in Convs, StartConversation(h, c) PROVE Belong'
  <2>1. UNCHANGED <<disk, inbox, written, store>> /\ hook' = Adopted(h, c, TRUE)
    BY <1>12 DEF StartConversation
  <2> QED
    BY <2>1, AdoptedIs, AdoptedBelongs, HookStepBelongs
<1>13. ASSUME NEW h \in Screens, NEW c \in Convs, OpenConversation(h, c) PROVE Belong'
  <2>1. UNCHANGED <<disk, inbox, written, store>>
    BY <1>13 DEF OpenConversation
  <2> QED
    BY <1>13, <2>1, OpenConversationIs, AdoptedBelongs, HookStepBelongs
<1>14. ASSUME NEW h \in Screens, NEW m \in Msgs, SendMessage(h, m) PROVE Belong'
  <2> DEFINE s == hook[h]  t == SentHook(hook[h], m)
  <2>1. UNCHANGED <<disk, inbox>> /\ written' = [written EXCEPT ![m] = s.conv]
    BY <1>14 DEF SendMessage
  <2>2. HookOK(t) /\ Become(h, t) /\ s.conv \in Convs /\ m \in Unwritten
    BY <1>14, SendMessageIs DEF SentOn
  <2>3. /\ \A box \in Seq(Items) : BelongsTo(box, written) => BelongsTo(box, written')
        /\ \A x : HookOK(x) /\ HookBelongs(x, written) => HookBelongs(x, written')
        /\ written'[m] = s.conv
    BY <2>1, <2>2, WrittenBelongs
  <2>4. HookBelongs(t, written')
    <3>1. HookBelongs(s, written')
      BY <1>0, <2>3
    <3>2. t.load = s.load /\ t.posting = s.posting
          /\ \A i \in DOMAIN t.box :
               \/ t.box[i] = [msg |-> m, conv |-> s.conv, status |-> "queued"]
               \/ i \in DOMAIN s.box /\ t.box[i] = s.box[i]
      BY <1>0, <2>2, SentOK
    <3> HIDE DEF s, t
    <3> QED
      BY <2>3, <3>1, <3>2 DEF HookBelongs, BelongsTo
  <2> HIDE DEF s, t
  <2>5. HookBelongs(Drained(t), written') /\ HookOK(Drained(t))
    BY <2>2, <2>4, DrainedBelongs, DrainedIs
  <2>6. hook' = [hook EXCEPT ![h] = Drained(t)]
    BY <2>2 DEF Become
  <2>7. \A g \in Screens : HookBelongs(hook'[g], written')
    BY <1>0, <2>3, <2>5, <2>6, HookSet
  <2>8. \A c \in Convs : BelongsTo(store'[c], written')
    <3>1. \A c \in Convs : store'[c] = IF c = hook[h].conv THEN Drained(t).box ELSE store[c]
      BY <2>2, BecomeIs
    <3>2. \A c \in Convs : store[c] \in Seq(Items) /\ BelongsTo(store[c], written)
      BY DEF OutboxOK, Belong
    <3>3. BelongsTo(Drained(t).box, written')
      BY <2>5 DEF HookBelongs
    <3>4. \A c \in Convs : BelongsTo(store[c], written')
      BY <2>3, <3>2
    <3> QED
      BY <3>1, <3>3, <3>4
  <2>10. \A c \in Convs : BelongsTo(disk'[c], written')
    <3>1. \A c \in Convs : disk[c] \in Seq(Items) /\ BelongsTo(disk[c], written)
      BY DEF OutboxOK, Belong
    <3> QED
      BY <2>1, <2>3, <3>1
  <2>9. \A c \in Convs, k \in Msgs : inbox'[c][k] > 0 => written'[k] = c
    <3>1. \A c \in Convs, k \in Msgs : inbox[c][k] > 0 => written[k] = c /\ written[k] # None
      BY OutboxAssumption DEF Belong, DeliveredWhereWritten
    <3>2. written[m] = None
      BY <2>2 DEF Unwritten
    <3> QED
      BY <2>1, <3>1, <3>2 DEF OutboxOK
  <2> QED
    BY <2>7, <2>8, <2>9, <2>10 DEF Belong, DeliveredWhereWritten
<1>15. ASSUME NEW c \in Convs, CloseThread(c) PROVE Belong'
  <2>1. UNCHANGED <<hook, store, disk, inbox, written>>
    BY <1>15 DEF CloseThread
  <2> QED
    BY <2>1 DEF Belong, DeliveredWhereWritten
<1>16. ASSUME Kill PROVE Belong'
  <2>1. UNCHANGED <<disk, inbox, written>> /\ store' = disk /\ hook' = [h \in Screens |-> Unmounted]
    BY <1>16 DEF Kill
  <2>2. \A h \in Screens : HookBelongs(hook'[h], written)
    BY <2>1, NothingBelongs
  <2> QED
    BY <2>1, <2>2 DEF Belong, DeliveredWhereWritten
<1>17. ASSUME NEW c \in Convs, Land(c) PROVE Belong'
  <2>1. UNCHANGED <<hook, store, inbox, written>> /\ disk' = [disk EXCEPT ![c] = store[c]]
    BY <1>17 DEF Land
  <2>2. \A d \in Convs : BelongsTo(disk'[d], written)
    BY <2>1 DEF Belong, OutboxOK
  <2> QED
    BY <2>1, <2>2 DEF Belong, DeliveredWhereWritten
<1> QED
  BY <1>1, <1>2, <1>3, <1>4, <1>5, <1>6, <1>7, <1>8, <1>9, <1>10, <1>11, <1>12, <1>13, <1>14,
     <1>15, <1>16, <1>17 DEF Next

LEMMA OutboxBelongs == Spec => []Belong
<1>1. Belong /\ OutboxOK /\ [Next]_vars => Belong'
  <2> SUFFICES ASSUME Belong, OutboxOK, [Next]_vars PROVE Belong'
    OBVIOUS
  <2>1. CASE UNCHANGED vars
    BY <2>1 DEF vars, Belong, DeliveredWhereWritten
  <2> QED
    BY <2>1, StepBelongs
<1> QED
  BY <1>1, InitBelongs, OutboxStaysOK, PTL DEF Spec

(* What support records in a thread was written in it, whatever screens    *)
(* and threads the outbox passed through.                                  *)
THEOREM DeliveredToItsThread == Spec => []DeliveredWhereWritten
<1>1. Belong => DeliveredWhereWritten
  BY DEF Belong
<1> QED
  BY <1>1, OutboxBelongs, PTL

---------------------------------------------------------------------------
(* Whether anything stalls: a property of each hook's memory alone.        *)

SendingIsPosted(s) ==
  \A i \in DOMAIN s.box :
    s.box[i].status = "sending" => s.posting # None /\ s.posting.msg = s.box[i].msg
Moving(s) == s.posting # None \/ s.due # {} \/ ~HasQueued(s.box)
Steady(s) == SendingIsPosted(s) /\ (s.phase = "thread" => Moving(s))
AllSteady == \A h \in Screens : Steady(hook[h])

(* A turn of the drain leaves nothing queued without a post.               *)
LEMMA DrainedMoves ==
  ASSUME NEW s, HookOK(s), SendingIsPosted(s)
  PROVE  /\ SendingIsPosted(Drained(s))
         /\ Drained(s).posting # None \/ ~HasQueued(Drained(s).box)
<1> DEFINE d == Drained(s)
<1>1. \/ d = s /\ (s.posting # None \/ ~HasQueued(s.box))
      \/ /\ s.posting = None /\ d.posting # None
         /\ \E i \in DOMAIN s.box :
              /\ s.box[i].status = "queued"
              /\ d.posting.msg = s.box[i].msg /\ d.posting.conv = s.box[i].conv
         /\ d.posting.got = FALSE
         /\ \A i \in DOMAIN s.box :
              d.box[i].status = IF s.box[i].msg = d.posting.msg THEN "sending"
                                ELSE s.box[i].status
  BY DrainedIs
<1>2. SameItems(d.box, s.box)
  BY DrainedIs
<1> HIDE DEF d
<1>3. SendingIsPosted(d) /\ (d.posting # None \/ ~HasQueued(d.box))
  BY <1>1, <1>2 DEF SendingIsPosted, SameItems
<1> QED
  BY <1>3 DEF d

LEMMA HookStepSteady ==
  ASSUME OutboxOK, AllSteady, NEW h \in Screens, NEW s, HookOK(s), Steady(s),
         hook' = [hook EXCEPT ![h] = s]
  PROVE  AllSteady'
<1>1. \A g \in Screens : Steady(hook'[g])
  BY HookSet DEF AllSteady
<1> QED
  BY <1>1 DEF AllSteady

LEMMA BecomeSteady ==
  ASSUME OutboxOK, AllSteady, NEW h \in Screens, NEW s, HookOK(s), SendingIsPosted(s),
         Become(h, s)
  PROVE  AllSteady'
<1>1. HookOK(Drained(s)) /\ hook' = [hook EXCEPT ![h] = Drained(s)]
  BY BecomeIs
<1>2. Steady(Drained(s))
  BY DrainedMoves DEF Steady, Moving
<1> QED
  BY <1>1, <1>2, HookStepSteady

LEMMA AdoptedSteady ==
  ASSUME OutboxOK, AllSteady, NEW h \in Screens, NEW c \in Convs, NEW o \in BOOLEAN
  PROVE  Steady(AdoptedHook(hook[h], c, o))
<1> DEFINE t == AdoptedHook(hook[h], c, o)
<1>1. t.box = hook[h].box /\ t.posting = hook[h].posting /\ t.phase = "loading"
  BY DEF AdoptedHook, OutboxOK, HookOK, Hooks
<1> HIDE DEF t
<1>2. Steady(t)
  BY <1>1 DEF Steady, SendingIsPosted, AllSteady
<1> QED
  BY <1>2 DEF t

LEMMA NothingSteady == Steady(Unmounted)
  BY DEF Steady, SendingIsPosted, Unmounted

LEMMA StepSteady ==
  ASSUME OutboxOK, AllSteady, Next
  PROVE  AllSteady'
<1>0. \A h \in Screens : Steady(hook[h]) /\ HookOK(hook[h]) /\ hook[h] \in Hooks
  BY DEF AllSteady, OutboxOK, HookOK
<1>1. ASSUME NEW h \in Screens, Mount(h) PROVE AllSteady'
  <2>1. Steady(MountedHook)
    BY NothingSteady DEF Steady, SendingIsPosted, MountedHook, Unmounted
  <2> QED
    BY <1>1, <2>1, MountIs, HookStepSteady
<1>2. ASSUME NEW h \in Screens, Resume(h) PROVE AllSteady'
  <2>1. Steady(IntakeHook(hook[h])) /\ \A c \in open : c \in Convs
    BY <1>0 DEF Steady, SendingIsPosted, IntakeHook, Hooks, OutboxOK
  <2> QED
    BY <1>2, <2>1, ResumeIs, AdoptedSteady, HookStepSteady
<1>3. ASSUME NEW h \in Screens, FinishLoad(h) PROVE AllSteady'
  <2> DEFINE s == hook[h]  l == LoadedHook(hook[h])
  <2>1. s.load # None /\ HookOK(s) /\ Steady(s) /\ s.load.box \in Seq(Items) /\ Unique(s.load.box)
    BY <1>0, <1>3 DEF FinishLoad, HookOK, Hooks, Loads
  <2>2. /\ l.posting = s.posting /\ (l.phase = "thread" => l.due # {})
        /\ (l.box = s.box \/ l.box = Requeued(s.load.box, "sending"))
    BY <2>1, LoadedOK DEF HookOK
  <2>3. \A i \in DOMAIN Requeued(s.load.box, "sending") :
          Requeued(s.load.box, "sending")[i].status # "sending"
    <3>1. "sending" \in Statuses
      BY DEF Statuses
    <3> QED
      BY <2>1, <3>1, RequeuedType
  <2> HIDE DEF s, l
  <2>4. Steady(l)
    BY <2>1, <2>2, <2>3 DEF Steady, SendingIsPosted, Moving
  <2> QED
    BY <1>3, <2>4, FinishLoadIs, HookStepSteady DEF l
<1>4. ASSUME NEW h \in Screens, RetryFailed(h) PROVE AllSteady'
  <2> DEFINE s == hook[h]  t == RetriedHook(hook[h])
  <2>1. SendingIsPosted(s) /\ t.posting = s.posting /\ SameItems(t.box, s.box)
    BY <1>0, RetriedOK DEF Steady
  <2>2. \A i \in DOMAIN s.box : t.box[i].status = IF s.box[i].status = "failed" THEN "queued"
                                                  ELSE s.box[i].status
    BY <1>0, RetriedOK
  <2> HIDE DEF s, t
  <2>3. SendingIsPosted(t)
    BY <2>1, <2>2 DEF SendingIsPosted, SameItems
  <2> QED
    BY <1>4, <2>3, RetryFailedIs, BecomeSteady DEF t
<1>5. ASSUME NEW h \in Screens, Unmount(h) PROVE AllSteady'
  <2> DEFINE s == hook[h]  t == LeftHook(hook[h])
  <2>1. Steady(s) /\ t.posting = s.posting /\ t.box = s.box /\ t.phase = "gone"
    BY <1>0 DEF LeftHook, Hooks
  <2> HIDE DEF s, t
  <2>2. Steady(t)
    BY <2>1 DEF Steady, SendingIsPosted
  <2> QED
    BY <1>5, <2>2, UnmountIs, HookStepSteady DEF t
<1>6. ASSUME NEW h \in Screens, NEW why \in Reasons, DrainDue(h, why) PROVE AllSteady'
  <2> DEFINE d == Drained(hook[h])  t == DrainedHook(hook[h], why)
  <2>1. SendingIsPosted(d) /\ (d.posting # None \/ ~HasQueued(d.box))
    BY <1>0, DrainedMoves DEF Steady
  <2> HIDE DEF d, t
  <2>2. /\ HookOK(t) /\ hook' = [hook EXCEPT ![h] = t] /\ t.box = d.box
        /\ t.posting = d.posting
    BY <1>6, DrainDueIs DEF t, d
  <2>3. Steady(t)
    BY <2>1, <2>2 DEF Steady, SendingIsPosted, Moving
  <2> QED
    BY <2>2, <2>3, HookStepSteady
<1>7. ASSUME NEW h \in Screens, Record(h) PROVE AllSteady'
  <2> DEFINE s == hook[h]  t == GotHook(hook[h])
  <2>1. /\ HookOK(t) /\ hook' = [hook EXCEPT ![h] = t] /\ t.box = s.box
        /\ t.posting # None /\ t.posting.msg = s.posting.msg /\ Steady(s)
    BY <1>0, <1>7, RecordIs
  <2> HIDE DEF s, t
  <2>2. Steady(t)
    BY <2>1 DEF Steady, SendingIsPosted, Moving
  <2> QED
    BY <2>1, <2>2, HookStepSteady
<1>8. ASSUME NEW h \in Screens, Confirm(h) PROVE AllSteady'
  <2> DEFINE s == hook[h]  t == ConfirmedHook(hook[h])
  <2>1. /\ HookOK(t) /\ Become(h, t) /\ s.posting # None /\ SendingIsPosted(s)
        /\ HookOK(s)
    BY <1>0, <1>8, ConfirmIs DEF Steady
  <2>2. Ids(t.box) = Ids(s.box) \ {s.posting.msg}
    BY <2>1, ConfirmedOK
  <2>3. \A i \in DOMAIN t.box : \E j \in DOMAIN s.box : t.box[i] = s.box[j]
    BY <2>1, ConfirmedOK
  <2> HIDE DEF s, t
  <2>4. SendingIsPosted(t)
    BY <2>1, <2>2, <2>3 DEF SendingIsPosted, Ids
  <2> QED
    BY <2>1, <2>4, BecomeSteady
<1>9. ASSUME NEW h \in Screens, PostUnanswered(h) PROVE AllSteady'
  <2> DEFINE s == hook[h]  e == EndedHook(s, "queued")  t == UnansweredHook(s)
  <2>1. "queued" \in Statuses /\ s.posting # None /\ HookOK(s) /\ SendingIsPosted(s)
    BY <1>0, <1>9 DEF Statuses, PostUnanswered, Steady
  <2>2. SameItems(e.box, s.box)
        /\ \A i \in DOMAIN s.box :
             e.box[i].status = IF s.box[i].msg = s.posting.msg THEN "queued" ELSE s.box[i].status
    BY <2>1, EndedOK
  <2>3. t.box = e.box /\ t.due # {}
    BY <2>1, UnansweredOK
  <2> HIDE DEF s, e, t
  <2>4. Steady(t)
    BY <2>1, <2>2, <2>3 DEF Steady, SendingIsPosted, Moving, SameItems
  <2> QED
    BY <1>9, <2>4, PostUnansweredIs, HookStepSteady DEF s, t
<1>10. ASSUME NEW h \in Screens, PostRefused(h) PROVE AllSteady'
  <2> DEFINE s == hook[h]  t == EndedHook(s, "failed")
  <2>1. "failed" \in Statuses /\ s.posting # None /\ HookOK(s) /\ SendingIsPosted(s)
    BY <1>0, <1>10 DEF Statuses, PostRefused, Steady
  <2>2. SameItems(t.box, s.box)
        /\ \A i \in DOMAIN s.box :
             t.box[i].status = IF s.box[i].msg = s.posting.msg THEN "failed" ELSE s.box[i].status
    BY <2>1, EndedOK
  <2> HIDE DEF s, t
  <2>3. SendingIsPosted(t)
    BY <2>1, <2>2 DEF SendingIsPosted, SameItems
  <2> QED
    BY <1>10, <2>3, PostRefusedIs, BecomeSteady DEF s, t
<1>11. ASSUME NEW h \in Screens, SeeClosed(h) PROVE AllSteady'
  <2> DEFINE s == hook[h]  t == ClosedHook(hook[h])
  <2>1. /\ HookOK(t) /\ hook' = [hook EXCEPT ![h] = t] /\ t.box = s.box
        /\ t.posting = s.posting /\ t.phase = "closed" /\ Steady(s)
    BY <1>0, <1>11, SeeClosedIs
  <2> HIDE DEF s, t
  <2>2. Steady(t)
    BY <2>1 DEF Steady, SendingIsPosted
  <2> QED
    BY <2>1, <2>2, HookStepSteady
<1>12. ASSUME NEW h \in Screens, NEW c \in Convs, StartConversation(h, c) PROVE AllSteady'
  <2>1. hook' = Adopted(h, c, TRUE)
    BY <1>12 DEF StartConversation
  <2> QED
    BY <2>1, AdoptedIs, AdoptedSteady, HookStepSteady
<1>13. ASSUME NEW h \in Screens, NEW c \in Convs, OpenConversation(h, c) PROVE AllSteady'
  BY <1>13, OpenConversationIs, AdoptedSteady, HookStepSteady
<1>14. ASSUME NEW h \in Screens, NEW m \in Msgs, SendMessage(h, m) PROVE AllSteady'
  <2> DEFINE s == hook[h]  t == SentHook(hook[h], m)
  <2>1. HookOK(t) /\ Become(h, t) /\ s.conv \in Convs
    BY <1>14, SendMessageIs DEF SentOn
  <2>2. t.posting = s.posting /\ SendingIsPosted(s)
        /\ \A i \in DOMAIN t.box :
             \/ t.box[i] = [msg |-> m, conv |-> s.conv, status |-> "queued"]
             \/ i \in DOMAIN s.box /\ t.box[i] = s.box[i]
    BY <1>0, <2>1, SentOK DEF Steady
  <2> HIDE DEF s, t
  <2>3. SendingIsPosted(t)
    BY <2>2 DEF SendingIsPosted
  <2> QED
    BY <2>1, <2>3, BecomeSteady
<1>15. ASSUME NEW c \in Convs, CloseThread(c) PROVE AllSteady'
  BY <1>15 DEF CloseThread, AllSteady
<1>16. ASSUME Kill PROVE AllSteady'
  <2>1. \A h \in Screens : hook'[h] = Unmounted
    BY <1>16 DEF Kill
  <2> QED
    BY <2>1, NothingSteady DEF AllSteady
<1>17. ASSUME NEW c \in Convs, Land(c) PROVE AllSteady'
  BY <1>17 DEF Land, AllSteady
<1> QED
  BY <1>1, <1>2, <1>3, <1>4, <1>5, <1>6, <1>7, <1>8, <1>9, <1>10, <1>11, <1>12, <1>13, <1>14,
     <1>15, <1>16, <1>17 DEF Next

(* Nothing the thread on screen holds stalls, with any number of screens   *)
(* at once and any crossing of drains, reads and taps.                     *)
THEOREM OutboxNeverStalls == Spec => []NothingStalls
<1>1. OutboxInit => AllSteady
  BY NothingSteady DEF OutboxInit, AllSteady
<1>2. AllSteady /\ OutboxOK /\ [Next]_vars => AllSteady'
  <2> SUFFICES ASSUME AllSteady, OutboxOK, [Next]_vars PROVE AllSteady'
    OBVIOUS
  <2>1. CASE UNCHANGED vars
    BY <2>1 DEF vars, AllSteady
  <2> QED
    BY <2>1, StepSteady
<1>3. AllSteady => NothingStalls
  BY DEF AllSteady, Steady, Moving, SendingIsPosted, HasQueued, NothingStalls
<1> QED
  BY <1>1, <1>2, <1>3, OutboxStaysOK, PTL DEF Spec

---------------------------------------------------------------------------
(* As long as no screen ran beside an old one's drain and none took input  *)
(* while its outbox was read.                                              *)

(* A hook that can still do something: the others are left behind.         *)
Active(s) ==
  \/ s.phase \notin {"off", "gone"}
  \/ s.posting # None \/ s.load # None \/ s.due # {}
Fresh(s) == s.box = <<>> /\ s.posting = None /\ s.due = {}

(* What no step but a kill or a landing save changes.                      *)
kept == <<disk, cut, caught>>

(* The steps, told by what they leave of the outbox, of the read and of    *)
(* the post of their hook.                                                 *)
Others(h) == \A g \in Screens \ {h} : hook'[g] = hook[g]
Saves(h) == \A c \in Convs : store'[c] = IF c = hook[h].conv THEN hook'[h].box ELSE store[c]
From(new, old) ==
  \A i \in DOMAIN new : \E j \in DOMAIN old : new[i].msg = old[j].msg /\ new[i].conv = old[j].conv

(* After p the drain posts nothing else, or takes an item of its outbox.   *)
Took(p, t) ==
  \/ t.posting = p
  \/ /\ p = None /\ t.posting # None /\ t.posting.got = FALSE
     /\ \E i \in DOMAIN t.box : t.posting.msg = t.box[i].msg /\ t.posting.conv = t.box[i].conv

Begins(h) ==
  /\ \A g \in Screens : ~Active(hook[g])
  /\ Others(h) /\ hook'[h] = MountedHook
  /\ UNCHANGED <<store, Hands, caught>>

Rests(h) ==
  LET s == hook[h]  t == hook'[h] IN
  /\ Active(s) /\ Others(h)
  /\ t.box = s.box /\ t.conv = s.conv /\ t.load = s.load /\ t.posting = s.posting
  /\ t.due \subseteq s.due
  /\ \/ t.phase = "gone"
     \/ t.phase = "closed" /\ s.conv \notin open
     \/ t.phase = "intake" /\ s.phase = "resuming"
  /\ UNCHANGED <<store, Hands, caught>>

Adopts(h, c) ==
  LET s == hook[h]  t == hook'[h] IN
  /\ Active(s) /\ Others(h)
  /\ s.phase \in {"resuming", "intake", "closed"} /\ s.load = None
  /\ t.phase = "loading" /\ t.conv = c
  /\ t.load # None /\ t.load.box = store[c] /\ (~t.load.open => c \notin open')
  /\ t.box = s.box /\ t.posting = s.posting /\ t.due = s.due
  /\ \/ c \in created /\ created' = created /\ open' = open
     \/ c \notin created /\ created' = created \cup {c} /\ open' = open \cup {c}
  /\ UNCHANGED <<store, inbox, written, kept>>

Reads(h) ==
  LET s == hook[h]  t == hook'[h] IN
  /\ Active(s) /\ Others(h)
  /\ s.load # None /\ t.load = None
  /\ t.conv = s.conv /\ t.posting = s.posting
  /\ t.phase \in {"gone", "thread", "closed"} /\ (t.phase = "closed" => ~s.load.open)
  /\ \/ s.load.box = <<>> /\ t.box = s.box
     \/ From(t.box, s.load.box) /\ Ids(t.box) = Ids(s.load.box)
  /\ UNCHANGED <<store, Hands, caught>>

Turn(h) ==
  LET s == hook[h]  t == hook'[h] IN
  /\ Active(s) /\ Others(h)
  /\ t.phase = s.phase /\ t.conv = s.conv /\ t.load = s.load
  /\ UNCHANGED <<inbox, open, created, disk, caught>>

SendTurn(h, m) ==
  LET s == hook[h]  t == hook'[h] IN
  /\ Turn(h) /\ Saves(h) /\ Took(s.posting, t)
  /\ m \in Unwritten /\ s.load = None /\ s.conv \in Convs
  /\ Ids(t.box) = Ids(s.box) \cup {m}
  /\ \A i \in DOMAIN t.box :
       \/ t.box[i].conv = s.conv
       \/ \E j \in DOMAIN s.box : t.box[i].conv = s.box[j].conv
  /\ written' = [written EXCEPT ![m] = s.conv] /\ cut' = cut

KeepTurn(h) ==
  LET s == hook[h]  t == hook'[h] IN
  /\ Turn(h) /\ (Saves(h) \/ store' = store) /\ Took(s.posting, t)
  /\ ~Fresh(s)
  /\ From(t.box, s.box) /\ Ids(t.box) = Ids(s.box)
  /\ UNCHANGED <<written, cut>>

EndTurn(h) ==
  LET s == hook[h]  t == hook'[h]  p == hook[h].posting IN
  /\ Turn(h) /\ Saves(h) /\ Took(None, t)
  /\ p # None /\ p \in Posts
  /\ From(t.box, s.box)
  /\ \/ p.got /\ Ids(t.box) = Ids(s.box) \ {p.msg} /\ cut' = cut
     \/ Ids(t.box) = Ids(s.box) /\ cut' = cut \cup {p.msg}
     \/ ~p.got /\ Ids(t.box) = Ids(s.box) /\ cut' = cut
  /\ written' = written

Records(h) ==
  LET s == hook[h]  t == hook'[h]  p == hook[h].posting IN
  /\ Active(s) /\ Others(h)
  /\ p # None /\ p \in Posts /\ ~p.got /\ p.conv \in open
  /\ t.phase = s.phase /\ t.conv = s.conv /\ t.load = s.load /\ t.box = s.box /\ t.due = s.due
  /\ t.posting # None /\ t.posting.got = TRUE
  /\ t.posting.msg = p.msg /\ t.posting.conv = p.conv
  /\ inbox' = [inbox EXCEPT ![p.conv][p.msg] = OneMore(@)]
  /\ UNCHANGED <<store, open, created, written, kept>>

(* The app is killed, a thread is closed or a save lands.                  *)
Forgets ==
  /\ \A h \in Screens : hook'[h] = Unmounted
  /\ \A h \in Screens : hook[h].posting # None => hook[h].posting.msg \in cut'
  /\ cut \subseteq cut' /\ Landing(disk, store) \subseteq cut'
  /\ caught' = caught \cup Landing(store, disk) /\ store' = disk
  /\ UNCHANGED <<disk, inbox, open, created, written>>
Shuts ==
  /\ open' \subseteq open
  /\ UNCHANGED <<hook, store, inbox, created, written, kept>>
Lands ==
  /\ \A c \in Convs : disk'[c] \in {disk[c], store[c]}
  /\ UNCHANGED <<hook, store, inbox, open, created, written, cut, caught>>

LEMMA SameItemsFrom ==
  ASSUME NEW new, NEW old, SameItems(new, old)
  PROVE  From(new, old) /\ Ids(new) = Ids(old)
  BY DEF SameItems, From, Ids

LEMMA DrainedTakes ==
  ASSUME NEW s, HookOK(s)
  PROVE  Took(s.posting, Drained(s))
<1> DEFINE d == Drained(s)
<1>1. \/ d = s /\ (s.posting # None \/ ~HasQueued(s.box))
      \/ /\ s.posting = None /\ d.posting # None
         /\ \E i \in DOMAIN s.box :
              /\ s.box[i].status = "queued"
              /\ d.posting.msg = s.box[i].msg /\ d.posting.conv = s.box[i].conv
         /\ d.posting.got = FALSE
         /\ \A i \in DOMAIN s.box :
              d.box[i].status = IF s.box[i].msg = d.posting.msg THEN "sending"
                                ELSE s.box[i].status
  BY DrainedIs
<1>2. SameItems(d.box, s.box)
  BY DrainedIs
<1> HIDE DEF d
<1>3. CASE d = s
  BY <1>3 DEF Took, d
<1>4. CASE d # s
  <2>1. PICK i \in DOMAIN s.box : d.posting.msg = s.box[i].msg /\ d.posting.conv = s.box[i].conv
    BY <1>1, <1>4
  <2>2. i \in DOMAIN d.box /\ d.box[i].msg = s.box[i].msg /\ d.box[i].conv = s.box[i].conv
    BY <1>2 DEF SameItems
  <2>3. s.posting = None /\ d.posting # None /\ d.posting.got = FALSE
    BY <1>1, <1>4
  <2>4. Took(s.posting, d)
    BY <2>1, <2>2, <2>3 DEF Took
  <2> QED
    BY <2>4 DEF d
<1> QED
  BY <1>3, <1>4

(* A hook that goes on through u, draining what u holds and saving it.     *)
LEMMA BecomeTurns ==
  ASSUME OutboxOK, NEW h \in Screens, NEW u, HookOK(u), Become(h, u)
  PROVE  LET t == hook'[h]
         IN  /\ Others(h) /\ Saves(h) /\ Took(u.posting, t)
             /\ t.phase = u.phase /\ t.conv = u.conv /\ t.load = u.load
             /\ SameItems(t.box, u.box)
<1> DEFINE d == Drained(u)
<1>1. HookOK(d) /\ hook' = [hook EXCEPT ![h] = d]
  BY BecomeIs
<1>2. \A c \in Convs : store'[c] = IF c = hook[h].conv THEN d.box ELSE store[c]
  BY BecomeIs
<1>3. hook'[h] = d /\ Others(h)
  BY <1>1, HookSet DEF Others
<1>4. d.phase = u.phase /\ d.conv = u.conv /\ d.load = u.load /\ SameItems(d.box, u.box)
  BY DrainedIs
<1>5. Took(u.posting, d)
  BY DrainedTakes
<1> HIDE DEF d
<1> QED
  BY <1>2, <1>3, <1>4, <1>5 DEF Saves

---------------------------------------------------------------------------
LEMMA MountBegins ==
  ASSUME OutboxOK, ~raced', NEW h \in Screens, Mount(h)
  PROVE  Begins(h)
<1>1. hook'[h] = MountedHook /\ Others(h)
  BY MountIs, HookSet DEF Others
<1>2. \A g \in Screens : ~Active(hook[g])
  BY DEF Mount, OnScreen, Idle, Active
<1>3. UNCHANGED <<store, Hands, caught>>
  BY DEF Mount, Hands
<1> QED
  BY <1>1, <1>2, <1>3 DEF Begins

LEMMA UnmountRests ==
  ASSUME OutboxOK, NEW h \in Screens, Unmount(h)
  PROVE  Rests(h)
<1> DEFINE s == hook[h]  t == LeftHook(s)
<1>1. hook'[h] = t /\ Others(h)
  BY UnmountIs, HookSet DEF Others
<1>2. s \in Hooks /\ Active(s)
  BY DEF OutboxOK, HookOK, Unmount, OnScreen, Active
<1>3. /\ t.box = s.box /\ t.conv = s.conv /\ t.load = s.load /\ t.posting = s.posting
      /\ t.due \subseteq s.due /\ t.phase = "gone"
  BY <1>2 DEF LeftHook, Hooks
<1>4. UNCHANGED <<store, Hands, caught>>
  BY DEF Unmount, Hands, history
<1> HIDE DEF t
<1> QED
  BY <1>1, <1>2, <1>3, <1>4 DEF Rests

LEMMA SeeClosedRests ==
  ASSUME OutboxOK, NEW h \in Screens, SeeClosed(h)
  PROVE  Rests(h)
<1> DEFINE s == hook[h]  t == ClosedHook(s)
<1>1. hook' = [hook EXCEPT ![h] = t] /\ HookOK(t)
  BY SeeClosedIs
<1>2. /\ t.phase = "closed" /\ t.conv = s.conv /\ t.load = s.load /\ t.box = s.box
      /\ t.due = s.due /\ t.posting = s.posting
  BY SeeClosedIs
<1>3. Active(s) /\ s.conv \notin open /\ UNCHANGED <<store, Hands, caught>>
  BY DEF SeeClosed, Active, Hands, history
<1> HIDE DEF t
<1>4. hook'[h] = t /\ Others(h)
  BY <1>1, HookSet DEF Others
<1> QED
  BY <1>2, <1>3, <1>4 DEF Rests

(* adoptConversation takes a hook that reads no outbox.                    *)
LEMMA AdoptedAdopts ==
  ASSUME OutboxOK, NEW h \in Screens, NEW c \in Convs, NEW o \in BOOLEAN,
         HookOK(AdoptedHook(hook[h], c, o)),
         hook' = [hook EXCEPT ![h] = AdoptedHook(hook[h], c, o)],
         AdoptedHook(hook[h], c, o).load # None,
         ~o => c \notin open',
         hook[h].phase \in {"resuming", "intake", "closed"},
         \/ c \in created /\ created' = created /\ open' = open
         \/ c \notin created /\ created' = created \cup {c} /\ open' = open \cup {c},
         UNCHANGED <<store, inbox, written, kept>>
  PROVE  Adopts(h, c)
<1> DEFINE s == hook[h]  t == AdoptedHook(s, c, o)
<1>1. hook'[h] = t /\ Others(h)
  BY HookSet DEF Others
<1>2. s \in Hooks /\ s.load = None /\ Active(s)
  BY DEF OutboxOK, HookOK, Active
<1>3. /\ t.phase = "loading" /\ t.conv = c /\ t.load.box = store[c] /\ t.load.open = o
      /\ t.box = s.box /\ t.posting = s.posting /\ t.due = s.due
  BY <1>2 DEF AdoptedHook, Hooks
<1>4. t.load # None
  OBVIOUS
<1>5. ~t.load.open => c \notin open'
  BY <1>3
<1> HIDE DEF t
<1> QED
  BY <1>1, <1>2, <1>3, <1>4, <1>5 DEF Adopts

LEMMA ResumeAdopts ==
  ASSUME OutboxOK, NEW h \in Screens, Resume(h)
  PROVE  Rests(h) \/ \E c \in Convs : Adopts(h, c)
<1>1. hook[h].phase = "resuming" /\ UNCHANGED <<store, Hands, caught>>
  BY DEF Resume, Hands, history
<1>2. CASE \E c \in open : /\ HookOK(AdoptedHook(hook[h], c, TRUE))
                           /\ hook' = [hook EXCEPT ![h] = AdoptedHook(hook[h], c, TRUE)]
                           /\ AdoptedHook(hook[h], c, TRUE).load # None
  <2>1. PICK c \in open : /\ HookOK(AdoptedHook(hook[h], c, TRUE))
                          /\ hook' = [hook EXCEPT ![h] = AdoptedHook(hook[h], c, TRUE)]
                          /\ AdoptedHook(hook[h], c, TRUE).load # None
    BY <1>2
  <2>2. c \in Convs /\ c \in created /\ TRUE \in BOOLEAN
    BY DEF OutboxOK
  <2>3. created' = created /\ open' = open /\ UNCHANGED <<store, inbox, written, kept>>
    BY <1>1 DEF Hands, kept
  <2>4. Adopts(h, c)
    BY <1>1, <2>1, <2>2, <2>3, AdoptedAdopts
  <2> QED
    BY <2>2, <2>4
<1>3. CASE /\ HookOK(IntakeHook(hook[h])) /\ hook' = [hook EXCEPT ![h] = IntakeHook(hook[h])]
  <2> DEFINE s == hook[h]  t == IntakeHook(s)
  <2>1. hook'[h] = t /\ Others(h)
    BY <1>3, HookSet DEF Others
  <2>2. s \in Hooks /\ Active(s)
    BY <1>1 DEF OutboxOK, HookOK, Active
  <2>3. /\ t.box = s.box /\ t.conv = s.conv /\ t.load = s.load /\ t.posting = s.posting
        /\ t.due = s.due /\ t.phase = "intake"
    BY <2>2 DEF IntakeHook, Hooks
  <2> HIDE DEF t
  <2> QED
    BY <1>1, <2>1, <2>2, <2>3 DEF Rests
<1> QED
  BY <1>2, <1>3, ResumeIs

LEMMA StartAdopts ==
  ASSUME OutboxOK, NEW h \in Screens, NEW c \in Convs, StartConversation(h, c)
  PROVE  Adopts(h, c)
<1>1. /\ hook[h].phase \in {"intake", "closed"} /\ c \notin created
      /\ created' = created \cup {c} /\ open' = open \cup {c} /\ hook' = Adopted(h, c, TRUE)
      /\ UNCHANGED <<store, inbox, written, kept>>
  BY DEF StartConversation, First, history, kept
<1>2. TRUE \in BOOLEAN
  OBVIOUS
<1>3. /\ HookOK(AdoptedHook(hook[h], c, TRUE))
      /\ hook' = [hook EXCEPT ![h] = AdoptedHook(hook[h], c, TRUE)]
      /\ AdoptedHook(hook[h], c, TRUE).load # None
  BY <1>1, AdoptedIs
<1> QED
  BY <1>1, <1>2, <1>3, AdoptedAdopts

LEMMA OpenAdopts ==
  ASSUME OutboxOK, NEW h \in Screens, NEW c \in Convs, OpenConversation(h, c)
  PROVE  Adopts(h, c)
<1>1. PICK o \in BOOLEAN :
        /\ o <=> c \in open
        /\ HookOK(AdoptedHook(hook[h], c, o))
        /\ hook' = [hook EXCEPT ![h] = AdoptedHook(hook[h], c, o)]
        /\ AdoptedHook(hook[h], c, o).load # None
  BY OpenConversationIs
<1>2. /\ hook[h].phase \in {"intake", "closed"} /\ c \in created
      /\ created' = created /\ open' = open
      /\ UNCHANGED <<store, inbox, written, kept>>
  BY DEF OpenConversation, history, kept
<1> QED
  BY <1>1, <1>2, AdoptedAdopts

LEMMA FinishLoadReads ==
  ASSUME OutboxOK, NEW h \in Screens, FinishLoad(h)
  PROVE  Reads(h)
<1> DEFINE s == hook[h]  t == LoadedHook(s)  r == Requeued(s.load.box, "sending")
<1>1. hook'[h] = t /\ Others(h)
  BY FinishLoadIs, HookSet DEF Others
<1>2. HookOK(s) /\ s.load # None /\ Active(s)
  BY FinishLoadIs DEF OutboxOK, Active
<1>3. /\ t.load = None /\ t.conv = s.conv /\ t.posting = s.posting
      /\ t.phase = IF s.phase = "gone" THEN "gone" ELSE IF s.load.open THEN "thread" ELSE "closed"
      /\ \/ s.load.box = <<>> /\ t.box = s.box
         \/ s.load.box # <<>> /\ t.box = r
  BY <1>2, LoadedOK
<1>4. From(r, s.load.box) /\ Ids(r) = Ids(s.load.box)
  <2>1. s.load.box \in Seq(Items) /\ Unique(s.load.box) /\ "sending" \in Statuses
    BY <1>2 DEF HookOK, Hooks, Loads, Statuses
  <2>2. SameItems(r, s.load.box)
    BY <2>1, RequeuedType DEF SameItems
  <2> QED
    BY <2>2, SameItemsFrom
<1>5. UNCHANGED <<store, Hands, caught>>
  BY DEF FinishLoad, Hands, history
<1> HIDE DEF t, r
<1>6. t.phase \in {"gone", "thread", "closed"} /\ (t.phase = "closed" => ~s.load.open)
  BY <1>3
<1> QED
  BY <1>1, <1>2, <1>3, <1>4, <1>5, <1>6 DEF Reads

---------------------------------------------------------------------------
LEMMA SendTurns ==
  ASSUME OutboxOK, ~raced', NEW h \in Screens, NEW m \in Msgs, SendMessage(h, m)
  PROVE  SendTurn(h, m)
<1> DEFINE s == hook[h]  u == SentHook(s, m)  t == hook'[h]
<1>1. HookOK(s) /\ s.phase = "thread" /\ s.load = None /\ s.conv \in Convs /\ Active(s)
  BY DEF OutboxOK, HookOK, SendMessage, CanType, Active
<1>2. HookOK(u) /\ Become(h, u) /\ m \in Unwritten
  BY SendMessageIs DEF SentOn
<1>3. /\ u.phase = s.phase /\ u.conv = s.conv /\ u.load = s.load /\ u.posting = s.posting
      /\ Ids(u.box) = Ids(s.box) \cup {m}
      /\ \A i \in DOMAIN u.box :
           \/ u.box[i] = [msg |-> m, conv |-> s.conv, status |-> "queued"]
           \/ i \in DOMAIN s.box /\ u.box[i] = s.box[i]
  BY <1>1, SentOK
<1>4. /\ Others(h) /\ Saves(h) /\ Took(u.posting, t)
      /\ t.phase = u.phase /\ t.conv = u.conv /\ t.load = u.load /\ SameItems(t.box, u.box)
  BY <1>2, BecomeTurns
<1>5. /\ written' = [written EXCEPT ![m] = s.conv] /\ cut' = cut
      /\ UNCHANGED <<inbox, open, created, disk, caught>>
  BY DEF SendMessage
<1> HIDE DEF u
<1>6. Ids(t.box) = Ids(s.box) \cup {m}
  BY <1>3, <1>4, SameItemsFrom
<1>7. \A i \in DOMAIN t.box :
        \/ t.box[i].conv = s.conv
        \/ \E j \in DOMAIN s.box : t.box[i].conv = s.box[j].conv
  BY <1>3, <1>4 DEF SameItems
<1>8. Turn(h)
  BY <1>1, <1>3, <1>4, <1>5 DEF Turn
<1> QED
  BY <1>1, <1>2, <1>3, <1>4, <1>5, <1>6, <1>7, <1>8 DEF SendTurn

LEMMA RetryTurns ==
  ASSUME OutboxOK, NEW h \in Screens, RetryFailed(h)
  PROVE  KeepTurn(h)
<1> DEFINE s == hook[h]  u == RetriedHook(s)  t == hook'[h]
<1>1. HookOK(s) /\ Active(s) /\ ~Fresh(s)
  BY DEF OutboxOK, RetryFailed, Active, Fresh
<1>2. HookOK(u) /\ Become(h, u)
  BY RetryFailedIs
<1>3. /\ u.phase = s.phase /\ u.conv = s.conv /\ u.load = s.load /\ u.posting = s.posting
      /\ SameItems(u.box, s.box)
  BY <1>1, RetriedOK
<1>4. /\ Others(h) /\ Saves(h) /\ Took(u.posting, t)
      /\ t.phase = u.phase /\ t.conv = u.conv /\ t.load = u.load /\ SameItems(t.box, u.box)
  BY <1>2, BecomeTurns
<1>5. UNCHANGED <<inbox, open, created, written, kept>>
  BY DEF RetryFailed, history, kept
<1> HIDE DEF u
<1>6. SameItems(t.box, s.box)
  BY <1>3, <1>4 DEF SameItems
<1>7. Turn(h)
  BY <1>1, <1>3, <1>4, <1>5 DEF Turn, kept
<1> QED
  BY <1>1, <1>3, <1>4, <1>5, <1>6, <1>7, SameItemsFrom DEF KeepTurn, kept

LEMMA DrainDueTurns ==
  ASSUME OutboxOK, NEW h \in Screens, NEW why \in Reasons, DrainDue(h, why)
  PROVE  KeepTurn(h)
<1> DEFINE s == hook[h]  d == Drained(s)  t == DrainedHook(s, why)
<1>1. HookOK(s) /\ s.due # {}
  BY DEF OutboxOK, DrainDue
<1>2. d.phase = s.phase /\ d.conv = s.conv /\ d.load = s.load /\ SameItems(d.box, s.box)
  BY <1>1, DrainedIs
<1>3. Took(s.posting, d)
  BY <1>1, DrainedTakes
<1>4. d.box \in Seq(Items) /\ Unique(d.box)
  BY <1>1, DrainedIs DEF HookOK, Hooks
<1> HIDE DEF d, t
<1>5. /\ HookOK(t) /\ hook' = [hook EXCEPT ![h] = t]
      /\ t.phase = d.phase /\ t.conv = d.conv /\ t.load = d.load /\ t.box = d.box
      /\ t.posting = d.posting
  BY DrainDueIs DEF t, d
<1>6. store' = store \/ store' = Persisted(h, d.box)
  BY DrainDueIs DEF d
<1>7. hook'[h] = t /\ Others(h)
  BY <1>5, HookSet DEF Others
<1>8. Saves(h) \/ store' = store
  BY <1>4, <1>5, <1>6, <1>7, PersistedOK DEF Saves
<1>9. Took(s.posting, t)
  BY <1>3, <1>5 DEF Took
<1>10. From(t.box, s.box) /\ Ids(t.box) = Ids(s.box)
  BY <1>2, <1>5, SameItemsFrom
<1>11. UNCHANGED <<inbox, open, created, written, kept>>
  BY DEF DrainDue, history, kept
<1>12. Turn(h) /\ ~Fresh(s)
  BY <1>1, <1>2, <1>5, <1>7, <1>11 DEF Turn, Active, Fresh, kept
<1> QED
  BY <1>7, <1>8, <1>9, <1>10, <1>11, <1>12 DEF KeepTurn, kept

LEMMA ConfirmTurns ==
  ASSUME OutboxOK, NEW h \in Screens, Confirm(h)
  PROVE  EndTurn(h)
<1> DEFINE s == hook[h]  u == ConfirmedHook(s)  t == hook'[h]
<1>1. HookOK(u) /\ Become(h, u) /\ s.posting # None /\ s.posting \in Posts /\ HookOK(s)
  BY ConfirmIs DEF OutboxOK
<1>2. /\ u.phase = s.phase /\ u.conv = s.conv /\ u.load = s.load /\ u.posting = None
      /\ Ids(u.box) = Ids(s.box) \ {s.posting.msg}
      /\ \A i \in DOMAIN u.box : \E j \in DOMAIN s.box : u.box[i] = s.box[j]
  BY <1>1, ConfirmedOK
<1>3. /\ Others(h) /\ Saves(h) /\ Took(u.posting, t)
      /\ t.phase = u.phase /\ t.conv = u.conv /\ t.load = u.load /\ SameItems(t.box, u.box)
  BY <1>1, BecomeTurns
<1>4. s.posting.got /\ UNCHANGED <<inbox, open, created, written, kept>>
  BY DEF Confirm, history, kept
<1> HIDE DEF u
<1>5. From(t.box, s.box) /\ Ids(t.box) = Ids(s.box) \ {s.posting.msg}
  <2>1. Ids(t.box) = Ids(u.box)
    BY <1>3, SameItemsFrom
  <2>2. From(t.box, s.box)
    BY <1>2, <1>3 DEF From, SameItems
  <2> QED
    BY <2>1, <2>2, <1>2
<1>6. Turn(h)
  BY <1>1, <1>2, <1>3, <1>4 DEF Turn, Active, kept
<1> QED
  BY <1>1, <1>2, <1>3, <1>4, <1>5, <1>6 DEF EndTurn, kept

LEMMA RefusedTurns ==
  ASSUME OutboxOK, NEW h \in Screens, PostRefused(h)
  PROVE  EndTurn(h)
<1> DEFINE s == hook[h]  u == EndedHook(s, "failed")  t == hook'[h]
<1>1. HookOK(u) /\ Become(h, u) /\ s.posting # None /\ s.posting \in Posts /\ HookOK(s)
  BY PostRefusedIs DEF OutboxOK
<1>2. "failed" \in Statuses
  BY DEF Statuses
<1>3. /\ u.phase = s.phase /\ u.conv = s.conv /\ u.load = s.load /\ u.posting = None
      /\ SameItems(u.box, s.box)
  BY <1>1, <1>2, EndedOK
<1>4. /\ Others(h) /\ Saves(h) /\ Took(u.posting, t)
      /\ t.phase = u.phase /\ t.conv = u.conv /\ t.load = u.load /\ SameItems(t.box, u.box)
  BY <1>1, BecomeTurns
<1>5. ~s.posting.got /\ UNCHANGED <<inbox, open, created, written, kept>>
  BY DEF PostRefused, history, kept
<1> HIDE DEF u
<1>6. SameItems(t.box, s.box)
  BY <1>3, <1>4 DEF SameItems
<1>7. Turn(h)
  BY <1>1, <1>3, <1>4, <1>5 DEF Turn, Active, kept
<1> QED
  BY <1>1, <1>3, <1>4, <1>5, <1>6, <1>7, SameItemsFrom DEF EndTurn, kept

LEMMA UnansweredTurns ==
  ASSUME OutboxOK, NEW h \in Screens, PostUnanswered(h)
  PROVE  EndTurn(h)
<1> DEFINE s == hook[h]  e == EndedHook(s, "queued")  t == UnansweredHook(s)
<1>1. /\ HookOK(t) /\ hook' = [hook EXCEPT ![h] = t] /\ store' = Persisted(h, t.box)
      /\ s.posting # None /\ s.posting \in Posts /\ HookOK(s)
  BY PostUnansweredIs DEF OutboxOK
<1>2. "queued" \in Statuses
  BY DEF Statuses
<1>3. /\ e.phase = s.phase /\ e.conv = s.conv /\ e.load = s.load /\ e.posting = None
      /\ SameItems(e.box, s.box)
  BY <1>1, <1>2, EndedOK
<1>4. /\ t.phase = e.phase /\ t.conv = e.conv /\ t.load = e.load
      /\ t.posting = e.posting /\ t.box = e.box
  BY <1>1, UnansweredOK
<1> HIDE DEF e, t
<1>5. hook'[h] = t /\ Others(h)
  BY <1>1, HookSet DEF Others
<1>6. Saves(h)
  <2>1. t.box \in Seq(Items) /\ Unique(t.box)
    BY <1>1 DEF HookOK, Hooks
  <2> QED
    BY <1>1, <1>5, <2>1, PersistedOK DEF Saves
<1>7. UNCHANGED <<inbox, open, created, written, disk, caught>> /\ cut' = cut \cup {s.posting.msg}
  BY DEF PostUnanswered
<1>8. Took(None, t) /\ From(t.box, s.box) /\ Ids(t.box) = Ids(s.box)
  BY <1>3, <1>4, SameItemsFrom DEF Took
<1>9. Turn(h)
  BY <1>1, <1>3, <1>4, <1>5, <1>7 DEF Turn, Active, kept
<1> QED
  BY <1>1, <1>5, <1>6, <1>7, <1>8, <1>9 DEF EndTurn, kept

LEMMA RecordRecords ==
  ASSUME OutboxOK, NEW h \in Screens, Record(h)
  PROVE  Records(h)
<1> DEFINE s == hook[h]  t == GotHook(s)
<1>1. /\ HookOK(t) /\ hook' = [hook EXCEPT ![h] = t]
      /\ t.phase = s.phase /\ t.conv = s.conv /\ t.load = s.load /\ t.box = s.box
      /\ t.due = s.due /\ t.posting # None /\ t.posting.got = TRUE
      /\ s.posting # None /\ s.posting \in Posts
      /\ t.posting.msg = s.posting.msg /\ t.posting.conv = s.posting.conv
  BY RecordIs
<1> HIDE DEF t
<1>2. hook'[h] = t /\ Others(h)
  BY <1>1, HookSet DEF Others
<1>3. /\ ~s.posting.got /\ s.posting.conv \in open
      /\ inbox' = [inbox EXCEPT ![s.posting.conv][s.posting.msg] = OneMore(@)]
      /\ UNCHANGED <<store, open, created, written, kept>>
  BY DEF Record, history, kept
<1> QED
  BY <1>1, <1>2, <1>3 DEF Records, Active

LEMMA KillForgets ==
  ASSUME OutboxOK, Kill
  PROVE  Forgets
  BY DEF Kill, Forgets

LEMMA CloseShuts ==
  ASSUME NEW c \in Convs, CloseThread(c)
  PROVE  Shuts
  BY DEF CloseThread, Shuts, history, kept

LEMMA LandLands ==
  ASSUME OutboxOK, NEW c \in Convs, Land(c)
  PROVE  Lands
  BY DEF Land, Lands, history, OutboxOK

(* Every step is one of these.                                             *)
HookSteps(h) ==
  \/ Begins(h) \/ Rests(h) \/ \E c \in Convs : Adopts(h, c)
  \/ Reads(h)
  \/ \E m \in Msgs : SendTurn(h, m)
  \/ KeepTurn(h) \/ EndTurn(h)
  \/ Records(h)
Steps == (\E h \in Screens : HookSteps(h)) \/ Forgets \/ Shuts \/ Lands

LEMMA StepKinds ==
  ASSUME OutboxOK, ~raced', Next
  PROVE  Steps
<1>1. ASSUME NEW h \in Screens,
             \/ Mount(h) \/ Resume(h) \/ FinishLoad(h) \/ RetryFailed(h) \/ Unmount(h)
             \/ Record(h) \/ Confirm(h) \/ PostUnanswered(h) \/ PostRefused(h)
             \/ SeeClosed(h) \/ \E why \in Reasons : DrainDue(h, why)
      PROVE  HookSteps(h)
  BY <1>1, MountBegins, ResumeAdopts, FinishLoadReads, RetryTurns, UnmountRests, DrainDueTurns,
     RecordRecords, ConfirmTurns, UnansweredTurns, RefusedTurns, SeeClosedRests DEF HookSteps
<1>2. ASSUME NEW h \in Screens, NEW c \in Convs, StartConversation(h, c) \/ OpenConversation(h, c)
      PROVE  HookSteps(h)
  BY <1>2, StartAdopts, OpenAdopts DEF HookSteps
<1>3. ASSUME NEW h \in Screens, NEW m \in Msgs, SendMessage(h, m)
      PROVE  HookSteps(h)
  BY <1>3, SendTurns DEF HookSteps
<1>4. ASSUME NEW c \in Convs, CloseThread(c)
      PROVE  Shuts
  BY <1>4, CloseShuts
<1>5. ASSUME NEW c \in Convs, Land(c)
      PROVE  Lands
  BY <1>5, LandLands
<1> QED
  BY <1>1, <1>2, <1>3, <1>4, <1>5, KillForgets DEF Next, Steps

(* What raced once has raced for good.                                     *)
LEMMA RacedStays ==
  ASSUME [Next]_vars
  PROVE  raced => raced'
<1>1. CASE Next
  BY <1>1 DEF Next, Mount, Resume, StartConversation, OpenConversation, FinishLoad, SendMessage,
     RetryFailed, Unmount, DrainDue, Record, Confirm, PostUnanswered, PostRefused, CloseThread,
     SeeClosed, Kill, Land, history
<1>2. CASE UNCHANGED vars
  BY <1>2 DEF vars, history
<1> QED
  BY <1>1, <1>2

---------------------------------------------------------------------------
(* One hook at a time is at work, with a thread that was made.             *)

Alone == \A g, h \in Screens : Active(hook[g]) /\ Active(hook[h]) => g = h

(* A hook without a thread has nothing.                                    *)
Placed(s, made, got) ==
  /\ s.conv \in made \cup {None}
  /\ s.conv = None => Fresh(s) /\ s.load = None
  /\ s.phase \in {"off", "resuming", "intake"} => s.conv = None
  /\ s.posting # None /\ s.posting.got => got[s.posting.conv][s.posting.msg] > 0
Places ==
  /\ \A m \in Msgs : written[m] # None => written[m] \in created
  /\ \A h \in Screens : Placed(hook[h], created, inbox)

LEMMA OneActs ==
  ASSUME NEW h \in Screens, HookSteps(h)
  PROVE  Others(h) /\ (Begins(h) \/ Active(hook[h]))
  BY DEF HookSteps, Begins, Rests, Adopts, Reads, SendTurn, KeepTurn, EndTurn, Turn, Records

LEMMA UnmountedIdle == ~Active(Unmounted)
  BY DEF Active, Unmounted

LEMMA AloneStep ==
  ASSUME Alone, Steps
  PROVE  Alone'
<1>1. ASSUME NEW h \in Screens, HookSteps(h) PROVE Alone'
  <2>1. \A g \in Screens : Active(hook'[g]) => g = h
    BY <1>1, OneActs DEF Begins, Others, Alone
  <2> QED
    BY <2>1 DEF Alone
<1>2. ASSUME Forgets PROVE Alone'
  BY <1>2, UnmountedIdle DEF Forgets, Alone
<1>3. ASSUME Shuts \/ Lands PROVE Alone'
  BY <1>3 DEF Shuts, Lands, Alone
<1> QED
  BY <1>1, <1>2, <1>3 DEF Steps

(* Records only add up.                                                    *)
Grows == \A c \in Convs, m \in Msgs : inbox'[c][m] >= inbox[c][m]

LEMMA StillRecorded ==
  ASSUME OutboxOK, OutboxOK', Grows, NEW c \in Convs, NEW m \in Msgs, inbox[c][m] > 0
  PROVE  inbox'[c][m] > 0
<1>1. inbox[c][m] \in Nat /\ inbox'[c][m] \in Nat
  BY DEF OutboxOK
<1>2. inbox'[c][m] >= inbox[c][m]
  BY DEF Grows
<1> QED
  BY <1>1, <1>2

LEMMA StepGrows ==
  ASSUME OutboxOK, Steps
  PROVE  Grows
<1>1. inbox' = inbox => Grows
  BY DEF OutboxOK, Grows
<1>2. ASSUME NEW h \in Screens, Records(h) PROVE Grows
  <2> DEFINE p == hook[h].posting
  <2>1. p \in Posts /\ inbox' = [inbox EXCEPT ![p.conv][p.msg] = OneMore(@)]
    BY <1>2 DEF Records
  <2> HIDE DEF p
  <2> QED
    BY <2>1 DEF OutboxOK, Grows, Posts, OneMore
<1>3. ASSUME NEW h \in Screens, HookSteps(h) PROVE Records(h) \/ inbox' = inbox
  BY <1>3 DEF HookSteps, Begins, Rests, Adopts, Reads, SendTurn, KeepTurn, EndTurn, Turn, Hands
<1> QED
  BY <1>1, <1>2, <1>3 DEF Steps, Forgets, Shuts, Lands

(* What was placed stays placed as threads are made and posts recorded.    *)
LEMMA PlacedStays ==
  ASSUME OutboxOK, OutboxOK', Grows, created \subseteq created',
         NEW s, HookOK(s), Placed(s, created, inbox)
  PROVE  Placed(s, created', inbox')
<1>1. ASSUME s.posting # None, s.posting.got
      PROVE  inbox'[s.posting.conv][s.posting.msg] > 0
  <2>1. s.posting.conv \in Convs /\ s.posting.msg \in Msgs
    BY <1>1 DEF HookOK, Hooks, Posts
  <2>2. inbox[s.posting.conv][s.posting.msg] > 0
    BY <1>1 DEF Placed
  <2> QED
    BY <2>1, <2>2, StillRecorded
<1> QED
  BY <1>1 DEF Placed

(* A hook that sends or drains has a thread.                               *)
LEMMA BusyHasThread ==
  ASSUME NEW s, NEW made, NEW got, Placed(s, made, got), ~Fresh(s) \/ s.load # None
  PROVE  s.conv # None
  BY DEF Placed

LEMMA ActingPlaced ==
  ASSUME OutboxOK, OutboxOK', Places, NEW h \in Screens, HookSteps(h)
  PROVE  Placed(hook'[h], created', inbox')
<1> DEFINE s == hook[h]  t == hook'[h]
<1>0. HookOK(s) /\ HookOK(t) /\ Placed(s, created, inbox)
  BY DEF OutboxOK, Places
<1>1. ASSUME Begins(h) PROVE Placed(t, created', inbox')
  <2>1. t = MountedHook
    BY <1>1 DEF Begins
  <2>2. t.conv = None /\ Fresh(t) /\ t.load = None /\ t.posting = None
    BY <2>1 DEF MountedHook, Unmounted, Fresh
  <2> HIDE DEF t
  <2> QED
    BY <2>2 DEF Placed
<1>2. ASSUME Rests(h) PROVE Placed(t, created', inbox')
  <2>1. /\ t.box = s.box /\ t.conv = s.conv /\ t.load = s.load /\ t.posting = s.posting
        /\ t.due \subseteq s.due
        /\ \/ t.phase \in {"gone", "closed"}
           \/ t.phase = "intake" /\ s.phase = "resuming"
        /\ created' = created /\ inbox' = inbox
    BY <1>2 DEF Rests, Hands
  <2> HIDE DEF s, t
  <2> QED
    BY <1>0, <2>1 DEF Placed, Fresh
<1>3. ASSUME NEW c \in Convs, Adopts(h, c) PROVE Placed(t, created', inbox')
  <2>1. /\ t.phase = "loading" /\ t.conv = c /\ c # None /\ t.posting = s.posting
        /\ c \in created' /\ inbox' = inbox
    BY <1>3, OutboxAssumption DEF Adopts
  <2> HIDE DEF s, t
  <2> QED
    BY <1>0, <2>1 DEF Placed
<1>4. ASSUME Reads(h) PROVE Placed(t, created', inbox')
  <2>1. /\ s.load # None /\ t.conv = s.conv /\ t.posting = s.posting
        /\ t.phase \in {"gone", "thread", "closed"}
        /\ created' = created /\ inbox' = inbox
    BY <1>4 DEF Reads, Hands
  <2> HIDE DEF s, t
  <2> QED
    BY <1>0, <2>1 DEF Placed
<1>5. ASSUME Turn(h), s.conv # None, Took(s.posting, t) \/ Took(None, t)
      PROVE  Placed(t, created', inbox')
  <2>1. t.phase = s.phase /\ t.conv = s.conv /\ created' = created /\ inbox' = inbox
    BY <1>5 DEF Turn
  <2>2. t.posting # None /\ t.posting.got => t.posting = s.posting
    BY <1>5 DEF Took
  <2> HIDE DEF s, t
  <2> QED
    BY <1>0, <1>5, <2>1, <2>2 DEF Placed
<1>6. ASSUME NEW m \in Msgs, SendTurn(h, m) PROVE Placed(t, created', inbox')
  BY <1>5, <1>6, OutboxAssumption DEF SendTurn
<1>7. ASSUME KeepTurn(h) PROVE Placed(t, created', inbox')
  BY <1>0, <1>5, <1>7, BusyHasThread DEF KeepTurn
<1>8. ASSUME EndTurn(h) PROVE Placed(t, created', inbox')
  BY <1>0, <1>5, <1>8, BusyHasThread DEF EndTurn, Fresh
<1>9. ASSUME Records(h) PROVE Placed(t, created', inbox')
  <2> DEFINE p == s.posting
  <2>1. /\ p # None /\ p \in Posts /\ t.phase = s.phase /\ t.conv = s.conv
        /\ t.posting.msg = p.msg /\ t.posting.conv = p.conv
        /\ inbox' = [inbox EXCEPT ![p.conv][p.msg] = OneMore(@)] /\ created' = created
    BY <1>9 DEF Records
  <2>2. s.conv # None
    BY <1>0, <2>1, BusyHasThread DEF Fresh
  <2> HIDE DEF s, t, p
  <2>3. inbox'[p.conv][p.msg] > 0
    BY <2>1 DEF OutboxOK, Posts, OneMore
  <2> QED
    BY <1>0, <2>1, <2>2, <2>3 DEF Placed
<1> QED
  BY <1>1, <1>2, <1>3, <1>4, <1>6, <1>7, <1>8, <1>9 DEF HookSteps

LEMMA StepMakes ==
  ASSUME OutboxOK, Steps
  PROVE  created \subseteq created'
<1>1. ASSUME NEW h \in Screens, HookSteps(h) PROVE created \subseteq created'
  BY <1>1 DEF HookSteps, Begins, Rests, Adopts, Reads, SendTurn, KeepTurn, EndTurn, Turn, Records,
     Hands
<1> QED
  BY <1>1 DEF Steps, Forgets, Shuts, Lands

LEMMA StepWrites ==
  ASSUME OutboxOK, Steps
  PROVE  \/ written' = written
         \/ \E h \in Screens, m \in Msgs : SendTurn(h, m)
<1>1. ASSUME NEW h \in Screens, HookSteps(h)
      PROVE  written' = written \/ \E m \in Msgs : SendTurn(h, m)
  BY <1>1 DEF HookSteps, Begins, Rests, Adopts, Reads, KeepTurn, EndTurn, Turn, Records, Hands
<1> QED
  BY <1>1 DEF Steps, Forgets, Shuts, Lands

LEMMA StepCatches ==
  ASSUME Steps
  PROVE  caught \subseteq caught'
<1>1. ASSUME NEW h \in Screens, HookSteps(h) PROVE caught' = caught
  BY <1>1 DEF HookSteps, Begins, Rests, Adopts, Reads, SendTurn, KeepTurn, EndTurn, Turn, Records,
     kept
<1> QED
  BY <1>1 DEF Steps, Forgets, Shuts, Lands, kept

LEMMA PlacesStep ==
  ASSUME OutboxOK, OutboxOK', Places, Steps
  PROVE  Places'
<1>1. created \subseteq created' /\ Grows
  BY StepMakes, StepGrows
<1>2. \A m \in Msgs : written'[m] # None => written'[m] \in created'
  <2>1. CASE written' = written
    BY <1>1, <2>1 DEF Places
  <2>2. ASSUME NEW h \in Screens, NEW k \in Msgs, SendTurn(h, k)
        PROVE  \A m \in Msgs : written'[m] # None => written'[m] \in created'
    <3>1. written' = [written EXCEPT ![k] = hook[h].conv] /\ hook[h].conv \in Convs
      BY <2>2 DEF SendTurn
    <3>2. hook[h].conv \in created
      BY <3>1, OutboxAssumption DEF Places, Placed
    <3> QED
      BY <1>1, <3>1, <3>2 DEF Places, OutboxOK
  <2> QED
    BY <2>1, <2>2, StepWrites
<1>3. ASSUME NEW g \in Screens, hook'[g] = hook[g]
      PROVE  Placed(hook'[g], created', inbox')
  <2>1. HookOK(hook[g]) /\ Placed(hook[g], created, inbox)
    BY DEF OutboxOK, Places
  <2> QED
    BY <1>1, <1>3, <2>1, PlacedStays
<1>4. ASSUME NEW h \in Screens, HookSteps(h), NEW g \in Screens
      PROVE  Placed(hook'[g], created', inbox')
  BY <1>3, <1>4, OneActs, ActingPlaced DEF Others
<1>5. ASSUME Forgets, NEW g \in Screens PROVE Placed(hook'[g], created', inbox')
  BY <1>5 DEF Forgets, Placed, Unmounted, Fresh
<1>6. ASSUME Shuts \/ Lands, NEW g \in Screens PROVE Placed(hook'[g], created', inbox')
  BY <1>3, <1>6 DEF Shuts, Lands
<1> QED
  BY <1>2, <1>4, <1>5, <1>6 DEF Places, Steps

---------------------------------------------------------------------------
(* What is not yet recorded is kept.                                       *)

(* What a kill did not catch before it was saved.                          *)
Undelivered(c) == {m \in Msgs \ caught : written[m] = c /\ inbox[c][m] = 0}

(* While the user has one thread, all that is not delivered is in storage, *)
(* in what is read from it, and in memory unless that read comes first.    *)
KeepsAll(s, U) ==
  /\ s.load # None => U \subseteq Ids(s.load.box)
  /\ U \subseteq Ids(s.box) \/ (Fresh(s) /\ s.load # None)
Saved ==
  \A c \in Convs : created = {c} =>
    /\ Undelivered(c) \subseteq Ids(store[c])
    /\ \A h \in Screens : Active(hook[h]) /\ hook[h].conv = c =>
         KeepsAll(hook[h], Undelivered(c))

LEMMA KeepsLess ==
  ASSUME NEW s, NEW U, NEW V, V \subseteq U, KeepsAll(s, U)
  PROVE  KeepsAll(s, V)
  BY DEF KeepsAll

LEMMA DeliveredStays ==
  ASSUME OutboxOK, OutboxOK', Grows, written' = written, caught \subseteq caught', NEW c \in Convs
  PROVE  Undelivered(c)' \subseteq Undelivered(c)
<1> SUFFICES ASSUME NEW m \in Msgs, written[m] = c, inbox'[c][m] = 0
             PROVE  inbox[c][m] = 0
  BY DEF Undelivered
<1>1. inbox[c][m] \in Nat /\ inbox'[c][m] \in Nat /\ inbox'[c][m] >= inbox[c][m]
  BY DEF OutboxOK, Grows
<1> QED
  BY <1>1

(* A user without a thread has written nothing.                            *)
LEMMA NothingWrittenYet ==
  ASSUME Places, NEW c \in Convs, c \notin created
  PROVE  Undelivered(c) = {}
<1>1. None \notin Convs
  BY OutboxAssumption
<1> QED
  BY <1>1 DEF Places, Undelivered

(* All a hook makes of its outbox keeps what is not delivered.             *)
LEMMA ActingKeeps ==
  ASSUME OutboxOK, OutboxOK', Belong, Places, Saved, Grows, NEW h \in Screens,
         NEW c \in Convs, created = {c}, created' = {c}, HookSteps(h)
  PROVE  /\ hook'[h].conv = c => KeepsAll(hook'[h], Undelivered(c)')
         /\ Undelivered(c)' \subseteq Ids(store'[c])
<1> DEFINE s == hook[h]  t == hook'[h]  U == Undelivered(c)  V == Undelivered(c)'
           Good == (t.conv = c => KeepsAll(t, V)) /\ V \subseteq Ids(store'[c])
<1>0. /\ HookOK(s) /\ HookOK(t) /\ Placed(s, created, inbox) /\ None \notin Convs
      /\ s.conv \in {c, None}
      /\ U \subseteq Ids(store[c])
      /\ Active(s) /\ s.conv = c => KeepsAll(s, U)
  BY OutboxAssumption DEF OutboxOK, Places, Placed, Saved
<1>v. caught' = caught
  BY DEF HookSteps, Begins, Rests, Adopts, Reads, SendTurn, KeepTurn, EndTurn, Turn, Records, kept
<1>w. written' = written => V \subseteq U
  BY <1>v, DeliveredStays
<1>1. ASSUME Begins(h) PROVE Good
  <2>1. t.conv = None /\ store' = store /\ V \subseteq U
    BY <1>1, <1>w DEF Begins, MountedHook, Unmounted, Hands
  <2> HIDE DEF s, t, U, V
  <2> QED
    BY <1>0, <2>1
<1>2. ASSUME Rests(h) PROVE Good
  <2>1. /\ Active(s) /\ t.box = s.box /\ t.conv = s.conv /\ t.load = s.load
        /\ t.posting = s.posting /\ (t.due \subseteq s.due) /\ store' = store /\ V \subseteq U
    BY <1>2, <1>w DEF Rests, Hands
  <2>2. t.conv = c => KeepsAll(s, U)
    BY <1>0, <2>1
  <2> HIDE DEF s, t, U, V
  <2>3. t.conv = c => KeepsAll(t, V)
    BY <2>1, <2>2 DEF KeepsAll, Fresh
  <2> QED
    BY <1>0, <2>1, <2>3
<1>3. ASSUME NEW d \in Convs, Adopts(h, d) PROVE Good
  <2>1. /\ Active(s) /\ s.load = None /\ t.conv = d /\ t.load # None /\ t.load.box = store[d]
        /\ t.box = s.box /\ t.posting = s.posting /\ t.due = s.due
        /\ store' = store /\ V \subseteq U /\ d \in created'
    BY <1>3, <1>w DEF Adopts
  <2>2. d = c
    BY <2>1
  <2>3. Fresh(s) \/ U \subseteq Ids(s.box)
    <3>1. CASE s.conv = None
      BY <1>0, <3>1 DEF Placed
    <3>2. CASE s.conv = c
      BY <1>0, <2>1, <3>2 DEF KeepsAll
    <3> QED
      BY <1>0, <3>1, <3>2
  <2> HIDE DEF s, t, U, V
  <2>4. KeepsAll(t, V)
    BY <1>0, <2>1, <2>2, <2>3 DEF KeepsAll, Fresh
  <2> QED
    BY <1>0, <2>1, <2>4
<1>4. ASSUME Reads(h) PROVE Good
  <2>1. /\ Active(s) /\ s.load # None /\ t.load = None /\ t.conv = s.conv
        /\ \/ s.load.box = <<>> /\ t.box = s.box
           \/ Ids(t.box) = Ids(s.load.box)
        /\ store' = store /\ V \subseteq U
    BY <1>4, <1>w DEF Reads, Hands
  <2>2. U \subseteq Ids(s.load.box)
    BY <1>0, <2>1, BusyHasThread DEF KeepsAll
  <2>3. Ids(<<>>) = {}
    BY DEF Ids
  <2> HIDE DEF s, t, U, V
  <2>4. KeepsAll(t, V)
    BY <2>1, <2>2, <2>3 DEF KeepsAll
  <2> QED
    BY <1>0, <2>1, <2>4
<1>5. ASSUME Turn(h), s.conv = c, t.load # None => V \subseteq U,
             U \subseteq Ids(s.box) => V \subseteq Ids(t.box),
             Fresh(s) => s.load = None,
             Saves(h) \/ (store' = store /\ V \subseteq U)
      PROVE  Good
  <2>1. KeepsAll(s, U) /\ t.load = s.load
    BY <1>0, <1>5 DEF Turn
  <2>2. Saves(h) => store'[c] = t.box
    BY <1>5 DEF Saves
  <2> HIDE DEF s, t, U, V
  <2>3. U \subseteq Ids(s.box)
    BY <1>5, <2>1 DEF KeepsAll
  <2>4. KeepsAll(t, V)
    BY <1>5, <2>1, <2>3 DEF KeepsAll
  <2> QED
    BY <1>0, <1>5, <2>2, <2>3, <2>4
<1>6. ASSUME NEW m \in Msgs, SendTurn(h, m) PROVE Good
  <2>1. /\ Turn(h) /\ Saves(h) /\ s.load = None /\ t.load = None /\ s.conv \in Convs
        /\ Ids(t.box) = Ids(s.box) \cup {m}
        /\ written' = [written EXCEPT ![m] = s.conv] /\ inbox' = inbox
    BY <1>6 DEF SendTurn, Turn
  <2>2. s.conv = c
    BY <1>0, <2>1
  <2>3. V \subseteq U \cup {m}
    BY <1>v, <2>1 DEF Undelivered, OutboxOK
  <2> HIDE DEF s, t, U, V, Good
  <2> QED
    BY <2>1, <2>2, <2>3, <1>5
<1>7. ASSUME KeepTurn(h) PROVE Good
  <2>1. /\ Turn(h) /\ (Saves(h) \/ store' = store) /\ ~Fresh(s) /\ Ids(t.box) = Ids(s.box)
        /\ V \subseteq U
    BY <1>7, <1>w DEF KeepTurn
  <2>2. s.conv = c
    BY <1>0, <2>1, BusyHasThread
  <2> HIDE DEF s, t, U, V, Good
  <2> QED
    BY <2>1, <2>2, <1>5
<1>8. ASSUME EndTurn(h) PROVE Good
  <2> DEFINE p == s.posting
  <2>1. /\ Turn(h) /\ Saves(h) /\ p # None /\ p \in Posts
        /\ \/ p.got /\ Ids(t.box) = Ids(s.box) \ {p.msg}
           \/ Ids(t.box) = Ids(s.box)
        /\ V \subseteq U
    BY <1>8, <1>w DEF EndTurn
  <2>2. ~Fresh(s)
    BY <2>1 DEF Fresh
  <2>3. s.conv = c
    BY <1>0, <2>2, BusyHasThread
  <2>4. p.got => p.msg \notin U
    <3>1. p.got => inbox[p.conv][p.msg] > 0
      BY <1>0, <2>1 DEF Placed
    <3>2. p.msg \in U => p.conv = c /\ inbox[c][p.msg] = 0
      BY <2>1 DEF Belong, HookBelongs, Undelivered
    <3> HIDE DEF p, U
    <3> QED
      BY <3>1, <3>2
  <2> HIDE DEF s, t, p, U, V, Good
  <2> QED
    BY <2>1, <2>2, <2>3, <2>4, <1>5
<1>9. ASSUME Records(h) PROVE Good
  <2>1. /\ Active(s) /\ s.posting # None /\ t.conv = s.conv /\ t.load = s.load /\ t.box = s.box
        /\ store' = store /\ V \subseteq U
    BY <1>9, <1>w DEF Records
  <2>2. KeepsAll(s, U) /\ ~Fresh(s)
    BY <1>0, <2>1, BusyHasThread DEF Fresh
  <2> HIDE DEF s, t, U, V
  <2>3. KeepsAll(t, V)
    BY <2>1, <2>2 DEF KeepsAll
  <2> QED
    BY <1>0, <2>1, <2>3
<1> HIDE DEF Good
<1>10. Good
  BY <1>1, <1>2, <1>3, <1>4, <1>6, <1>7, <1>8, <1>9 DEF HookSteps
<1> QED
  BY <1>10 DEF Good

LEMMA SavedStep ==
  ASSUME OutboxOK, OutboxOK', Belong, Alone, Places, Saved, Steps
  PROVE  Saved'
<1>0. created \subseteq created' /\ Grows /\ Alone' /\ caught \subseteq caught'
  BY StepMakes, StepGrows, AloneStep, StepCatches
<1> SUFFICES ASSUME NEW c \in Convs, created' = {c}
             PROVE  /\ Undelivered(c)' \subseteq Ids(store'[c])
                    /\ \A h \in Screens : Active(hook'[h]) /\ hook'[h].conv = c =>
                         KeepsAll(hook'[h], Undelivered(c)')
  BY DEF Saved
<1> DEFINE U == Undelivered(c)  V == Undelivered(c)'
           Good == /\ V \subseteq Ids(store'[c])
                   /\ \A g \in Screens : Active(hook'[g]) /\ hook'[g].conv = c =>
                        KeepsAll(hook'[g], V)
<1>1. ASSUME c \notin created PROVE Good
  <2>1. created = {}
    BY <1>0, <1>1
  <2>2. \A h \in Screens, m \in Msgs : ~SendTurn(h, m)
    BY <2>1, <1>1 DEF SendTurn, Turn
  <2>3. V \subseteq U /\ U = {}
    BY <1>0, <1>1, <2>2, StepWrites, DeliveredStays, NothingWrittenYet
  <2> HIDE DEF U, V
  <2>4. V = {}
    BY <2>3
  <2> QED
    BY <2>4 DEF KeepsAll
<1>2. ASSUME created = {c}, NEW h \in Screens, HookSteps(h) PROVE Good
  <2>1. /\ hook'[h].conv = c => KeepsAll(hook'[h], V)
        /\ V \subseteq Ids(store'[c])
    BY <1>0, <1>2, ActingKeeps
  <2>2. \A g \in Screens : Active(hook'[g]) => g = h
    BY <1>2, OneActs DEF Begins, Others, Alone
  <2> HIDE DEF V
  <2> QED
    BY <2>1, <2>2
<1>3. ASSUME created = {c}, Shuts \/ Lands PROVE Good
  <2>1. written' = written /\ store' = store /\ hook' = hook
    BY <1>3 DEF Shuts, Lands
  <2>2. V \subseteq U /\ U \subseteq Ids(store[c])
    BY <1>0, <1>3, <2>1, DeliveredStays DEF Saved
  <2>3. \A g \in Screens : Active(hook[g]) /\ hook[g].conv = c => KeepsAll(hook[g], U)
    BY <1>3 DEF Saved
  <2> HIDE DEF U, V
  <2> QED
    BY <2>1, <2>2, <2>3, KeepsLess
<1>5. ASSUME created = {c}, Forgets PROVE Good
  <2>1. written' = written /\ store' = disk /\ caught' = caught \cup Landing(store, disk)
    BY <1>5 DEF Forgets
  <2>2. V \subseteq U /\ U \subseteq Ids(store[c])
    BY <1>0, <1>5, <2>1, DeliveredStays DEF Saved
  <2>3. \A g \in Screens : ~Active(hook'[g])
    BY <1>5, UnmountedIdle DEF Forgets
  <2>4. V \cap Landing(store, disk) = {} /\ V \subseteq Msgs
    BY <2>1 DEF Undelivered
  <2> HIDE DEF U, V
  <2>5. V \subseteq Ids(disk[c])
    BY <2>2, <2>4, HeldIsId DEF Landing
  <2> QED
    BY <2>1, <2>3, <2>5
<1> HIDE DEF Good
<1>4. Good
  <2>1. c \notin created \/ created = {c}
    BY <1>0
  <2> QED
    BY <2>1, <1>1, <1>2, <1>3, <1>5 DEF Steps
<1> QED
  BY <1>4 DEF Good

OrderlyInv == ~raced => Alone /\ Places /\ Saved

LEMMA OrderlyInit == OutboxInit => OrderlyInv
<1> SUFFICES ASSUME OutboxInit PROVE OrderlyInv
  OBVIOUS
<1>1. /\ \A h \in Screens : hook[h] = Unmounted
      /\ \A m \in Msgs : written[m] = None
      /\ created = {}
  BY DEF OutboxInit
<1>2. Placed(Unmounted, created, inbox)
  BY DEF Placed, Unmounted, Fresh
<1> QED
  BY <1>1, <1>2, UnmountedIdle DEF OrderlyInv, Alone, Places, Saved

LEMMA OrderlyStep ==
  ASSUME OutboxOK, OutboxOK', Belong, OrderlyInv, [Next]_vars
  PROVE  OrderlyInv'
<1> SUFFICES ASSUME ~raced' PROVE Alone' /\ Places' /\ Saved'
  BY DEF OrderlyInv
<1>0. Alone /\ Places /\ Saved
  BY RacedStays DEF OrderlyInv
<1>1. CASE UNCHANGED vars
  BY <1>0, <1>1 DEF vars, history, Alone, Places, Saved, Undelivered
<1>2. CASE Next
  BY <1>0, <1>2, StepKinds, AloneStep, PlacesStep, SavedStep
<1> QED
  BY <1>1, <1>2

(* A message of a user with one thread is with support or still on the     *)
(* device, through failures, the screen left and restarts.  A kill catches *)
(* it only before its first save lands; and the promise ends with the      *)
(* first screen that runs beside an old one's drain or takes input while   *)
(* its outbox is read.  Until then nothing is lost even from storage alone.*)
THEOREM MessagesAreKept == Spec => []NothingVanishes
<1>1. OutboxOK /\ OrderlyInv => NothingVanishes
  <2> SUFFICES ASSUME OutboxOK, OrderlyInv, NEW m \in Msgs, written[m] # None,
                      created = {written[m]}, ~(inbox[written[m]][m] > 0),
                      m \notin caught, ~raced
               PROVE  InStorage(m)
    BY DEF NothingVanishes
  <2> DEFINE c == written[m]
  <2>1. c \in Convs
    BY DEF OutboxOK
  <2>2. inbox[c][m] \in Nat
    BY <2>1 DEF OutboxOK
  <2>3. m \in Undelivered(c)
    BY <2>2 DEF Undelivered
  <2>4. m \in Ids(store[c])
    BY <2>1, <2>3 DEF OrderlyInv, Saved
  <2> HIDE DEF c
  <2> QED
    BY <2>1, <2>4, HeldIsId DEF InStorage
<1>2. OutboxOK /\ OutboxOK' /\ Belong /\ OrderlyInv /\ [Next]_vars => OrderlyInv'
  BY OrderlyStep
<1> QED
  BY <1>1, <1>2, OrderlyInit, OutboxStaysOK, OutboxBelongs, PTL DEF Spec

---------------------------------------------------------------------------
(* Messages of open threads.                                               *)

(* What is kept for a thread that is open is kept under that thread: an    *)
(* outbox that goes on to another thread takes closed threads' items only, *)
(* a read replaces only those, and a post is the thread's on screen.       *)
OpenAre(box, c, os) == \A i \in DOMAIN box : box[i].conv \in os => box[i].conv = c
NoneOpen(box, os) == \A i \in DOMAIN box : box[i].conv \notin os
HookHere(s, os) ==
  /\ OpenAre(s.box, s.conv, os)
  /\ s.load # None => OpenAre(s.load.box, s.conv, os) /\ NoneOpen(s.box, os)
  /\ s.posting # None /\ s.posting.conv \in os => s.load = None /\ s.posting.conv = s.conv
  /\ s.load # None /\ ~s.load.open => s.conv \notin os
  /\ s.phase = "closed" => s.conv \notin os
OpenHere ==
  /\ \A c \in Convs : OpenAre(store[c], c, open) /\ OpenAre(disk[c], c, open)
  /\ \A h \in Screens : Active(hook[h]) => HookHere(hook[h], open)

LEMMA FewerOpen ==
  ASSUME NEW os, NEW fewer, fewer \subseteq os
  PROVE  /\ \A box, c : OpenAre(box, c, os) => OpenAre(box, c, fewer)
         /\ \A s : HookHere(s, os) => HookHere(s, fewer)
  BY DEF OpenAre, NoneOpen, HookHere

LEMMA FromOpen ==
  ASSUME NEW new, NEW old, NEW c, NEW os, From(new, old)
  PROVE  /\ OpenAre(old, c, os) => OpenAre(new, c, os)
         /\ NoneOpen(old, os) => NoneOpen(new, os)
  BY DEF From, OpenAre, NoneOpen

(* Nothing is kept for a thread that was not made yet.                     *)
LEMMA NewIsNowhere ==
  ASSUME OutboxOK, Belong, Places, NEW c, c \notin created
  PROVE  /\ \A d \in Convs : /\ \A i \in DOMAIN store[d] : store[d][i].conv # c
                             /\ \A i \in DOMAIN disk[d] : disk[d][i].conv # c
         /\ \A h \in Screens : /\ \A i \in DOMAIN hook[h].box : hook[h].box[i].conv # c
                               /\ hook[h].posting # None => hook[h].posting.conv # c
<1>1. ASSUME NEW box \in Seq(Items), BelongsTo(box, written), NEW i \in DOMAIN box
      PROVE  box[i].conv # c
  <2>1. box[i] \in Items
    OBVIOUS
  <2>2. box[i].msg \in Msgs /\ written[box[i].msg] = box[i].conv /\ box[i].conv # None
    BY <1>1, <2>1, OutboxAssumption DEF Items, BelongsTo
  <2> QED
    BY <2>2 DEF Places
<1>2. ASSUME NEW h \in Screens, hook[h].posting # None
      PROVE  hook[h].posting.conv # c
  <2> DEFINE p == hook[h].posting
  <2>1. p \in Posts /\ written[p.msg] = p.conv
    BY <1>2 DEF OutboxOK, HookOK, Hooks, Belong, HookBelongs
  <2>2. p.msg \in Msgs /\ p.conv # None
    BY <2>1, OutboxAssumption DEF Posts
  <2> HIDE DEF p
  <2>3. p.conv # c
    BY <2>1, <2>2 DEF Places
  <2> QED
    BY <2>3 DEF p
<1>3. \A d \in Convs : /\ store[d] \in Seq(Items) /\ BelongsTo(store[d], written)
                       /\ disk[d] \in Seq(Items) /\ BelongsTo(disk[d], written)
  BY DEF OutboxOK, Belong
<1>4. \A h \in Screens : hook[h].box \in Seq(Items) /\ BelongsTo(hook[h].box, written)
  BY DEF OutboxOK, HookOK, Hooks, Belong, HookBelongs
<1> QED
  BY <1>1, <1>2, <1>3, <1>4

(* The drain posts an item of the open thread it is in.                    *)
LEMMA TookHere ==
  ASSUME NEW s, NEW t, NEW os, NEW p, HookHere(s, os), p \in {s.posting, None}, Took(p, t),
         t.conv = s.conv, t.load = s.load, t.phase = s.phase,
         OpenAre(t.box, s.conv, os), s.load # None => NoneOpen(t.box, os)
  PROVE  HookHere(t, os)
<1>1. ASSUME t.posting # None, t.posting.conv \in os
      PROVE  t.load = None /\ t.posting.conv = t.conv
  <2>1. CASE t.posting = p
    BY <1>1, <2>1 DEF HookHere
  <2>2. CASE \E i \in DOMAIN t.box : t.posting.conv = t.box[i].conv
    BY <1>1, <2>2 DEF OpenAre, NoneOpen
  <2> QED
    BY <2>1, <2>2 DEF Took
<1> QED
  BY <1>1 DEF HookHere

LEMMA ActingHere ==
  ASSUME OutboxOK, OutboxOK', Belong, Places, OpenHere, NEW h \in Screens, HookSteps(h)
  PROVE  /\ HookHere(hook'[h], open')
         /\ \A c \in Convs : OpenAre(store'[c], c, open') /\ OpenAre(disk'[c], c, open')
<1> DEFINE s == hook[h]  t == hook'[h]
           Stored == \A c \in Convs : OpenAre(store'[c], c, open') /\ OpenAre(disk'[c], c, open')
<1>0. /\ HookOK(s) /\ HookOK(t) /\ Placed(s, created, inbox) /\ None \notin Convs
      /\ open \subseteq Convs
      /\ \A c \in Convs : OpenAre(store[c], c, open) /\ OpenAre(disk[c], c, open)
      /\ Active(s) => HookHere(s, open)
  BY OutboxAssumption DEF OutboxOK, Places, OpenHere
<1>d. disk' = disk
  BY DEF HookSteps, Begins, Rests, Adopts, Reads, SendTurn, KeepTurn, EndTurn, Turn, Records,
     Hands, kept
<1>s. store' = store /\ open' = open => Stored
  BY <1>0, <1>d
<1>1. ASSUME Begins(h) PROVE HookHere(t, open') /\ Stored
  <2>1. /\ t.box = <<>> /\ t.load = None /\ t.posting = None /\ t.phase = "resuming"
        /\ store' = store /\ open' = open
    BY <1>1 DEF Begins, MountedHook, Unmounted, Hands
  <2> HIDE DEF t, Stored
  <2> QED
    BY <1>s, <2>1 DEF HookHere, OpenAre
<1>2. ASSUME Rests(h) PROVE HookHere(t, open') /\ Stored
  <2>1. /\ Active(s) /\ t.box = s.box /\ t.conv = s.conv /\ t.load = s.load
        /\ t.posting = s.posting /\ (t.phase = "closed" => s.conv \notin open)
        /\ store' = store /\ open' = open
    BY <1>2 DEF Rests, Hands
  <2> HIDE DEF s, t, Stored
  <2> QED
    BY <1>0, <1>s, <2>1 DEF HookHere
<1>3. ASSUME NEW c \in Convs, Adopts(h, c) PROVE HookHere(t, open') /\ Stored
  <2>1. /\ Active(s) /\ s.load = None /\ s.phase \in {"resuming", "intake", "closed"}
        /\ t.phase = "loading" /\ t.conv = c /\ t.load # None /\ t.load.box = store[c]
        /\ (~t.load.open => c \notin open')
        /\ t.box = s.box /\ t.posting = s.posting /\ store' = store
        /\ \/ open' = open
           \/ c \notin created /\ open' = open \cup {c}
    BY <1>3 DEF Adopts
  <2>2. HookHere(s, open)
    BY <1>0, <2>1
  <2>3. NoneOpen(s.box, open) /\ (s.posting # None => s.posting.conv \notin open)
    <3>1. CASE s.phase = "closed"
      BY <2>2, <3>1 DEF HookHere, OpenAre, NoneOpen
    <3>2. CASE s.phase # "closed"
      BY <1>0, <2>1, <3>2 DEF Placed, Fresh, NoneOpen
    <3> QED
      BY <3>1, <3>2
  <2>4. c \notin created =>
          /\ \A d \in Convs : /\ \A i \in DOMAIN store[d] : store[d][i].conv # c
                              /\ \A i \in DOMAIN disk[d] : disk[d][i].conv # c
          /\ \A i \in DOMAIN s.box : s.box[i].conv # c
          /\ s.posting # None => s.posting.conv # c
    BY NewIsNowhere
  <2> HIDE DEF s, t
  <2>5. NoneOpen(s.box, open') /\ (s.posting # None => s.posting.conv \notin open')
    BY <2>1, <2>3, <2>4 DEF NoneOpen
  <2>6. Stored
    BY <1>0, <1>d, <2>1, <2>4 DEF OpenAre
  <2>7. OpenAre(store[c], c, open')
    BY <2>1, <2>6
  <2>8. HookHere(t, open')
    BY <2>1, <2>5, <2>7 DEF HookHere, OpenAre, NoneOpen
  <2> QED
    BY <2>6, <2>8
<1>4. ASSUME Reads(h) PROVE HookHere(t, open') /\ Stored
  <2>1. /\ Active(s) /\ s.load # None /\ t.load = None /\ t.conv = s.conv
        /\ t.posting = s.posting /\ (t.phase = "closed" => ~s.load.open)
        /\ t.box = s.box \/ From(t.box, s.load.box)
        /\ store' = store /\ open' = open
    BY <1>4 DEF Reads, Hands
  <2>2. HookHere(s, open)
    BY <1>0, <2>1
  <2> HIDE DEF s, t, Stored
  <2>3. OpenAre(t.box, s.conv, open)
    BY <2>1, <2>2, FromOpen DEF HookHere
  <2> QED
    BY <1>s, <2>1, <2>2, <2>3 DEF HookHere
<1>5. ASSUME Turn(h), Took(s.posting, t) \/ Took(None, t), Saves(h) \/ store' = store,
             OpenAre(t.box, s.conv, open), s.load # None => NoneOpen(t.box, open)
      PROVE  HookHere(t, open') /\ Stored
  <2>1. /\ HookHere(s, open) /\ t.phase = s.phase /\ t.conv = s.conv /\ t.load = s.load
        /\ open' = open
    BY <1>0, <1>5 DEF Turn
  <2>2. Saves(h) => \A c \in Convs : store'[c] = IF c = s.conv THEN t.box ELSE store[c]
    BY DEF Saves
  <2> HIDE DEF s, t
  <2>3. HookHere(t, open)
    BY <1>5, <2>1, TookHere
  <2>4. Stored
    BY <1>0, <1>d, <1>5, <2>1, <2>2
  <2> QED
    BY <2>1, <2>3, <2>4
<1>6. ASSUME NEW m \in Msgs, SendTurn(h, m) PROVE HookHere(t, open') /\ Stored
  <2>1. /\ Turn(h) /\ Saves(h) /\ Took(s.posting, t) /\ s.load = None /\ Active(s)
        /\ \A i \in DOMAIN t.box :
             \/ t.box[i].conv = s.conv
             \/ \E j \in DOMAIN s.box : t.box[i].conv = s.box[j].conv
    BY <1>6 DEF SendTurn, Turn
  <2>2. OpenAre(s.box, s.conv, open)
    BY <1>0, <2>1 DEF HookHere
  <2> HIDE DEF s, t, Stored
  <2>3. OpenAre(t.box, s.conv, open)
    BY <2>1, <2>2 DEF OpenAre
  <2> QED
    BY <1>5, <2>1, <2>3
<1>7. ASSUME From(t.box, s.box), Active(s)
      PROVE  OpenAre(t.box, s.conv, open) /\ (s.load # None => NoneOpen(t.box, open))
  BY <1>0, <1>7, FromOpen DEF HookHere
<1>8. ASSUME KeepTurn(h) PROVE HookHere(t, open') /\ Stored
  <2>1. /\ Turn(h) /\ Took(s.posting, t) /\ (Saves(h) \/ store' = store) /\ From(t.box, s.box)
        /\ Active(s)
    BY <1>8 DEF KeepTurn, Turn
  <2> HIDE DEF s, t, Stored
  <2> QED
    BY <1>5, <1>7, <2>1
<1>9. ASSUME EndTurn(h) PROVE HookHere(t, open') /\ Stored
  <2>1. Turn(h) /\ Took(None, t) /\ Saves(h) /\ From(t.box, s.box) /\ Active(s)
    BY <1>9 DEF EndTurn, Turn
  <2> HIDE DEF s, t, Stored
  <2> QED
    BY <1>5, <1>7, <2>1
<1>10. ASSUME Records(h) PROVE HookHere(t, open') /\ Stored
  <2>1. /\ Active(s) /\ s.posting # None
        /\ t.phase = s.phase /\ t.conv = s.conv /\ t.load = s.load /\ t.box = s.box
        /\ t.posting.conv = s.posting.conv
        /\ store' = store /\ open' = open
    BY <1>10 DEF Records
  <2> HIDE DEF s, t, Stored
  <2> QED
    BY <1>0, <1>s, <2>1 DEF HookHere
<1> HIDE DEF Stored
<1>11. HookHere(t, open') /\ Stored
  BY <1>1, <1>2, <1>3, <1>4, <1>6, <1>8, <1>9, <1>10 DEF HookSteps
<1> QED
  BY <1>11 DEF Stored

LEMMA OpenHereStep ==
  ASSUME OutboxOK, OutboxOK', Belong, Alone, Places, OpenHere, Steps
  PROVE  OpenHere'
<1>1. ASSUME NEW h \in Screens, HookSteps(h) PROVE OpenHere'
  <2>1. /\ HookHere(hook'[h], open')
        /\ \A c \in Convs : OpenAre(store'[c], c, open') /\ OpenAre(disk'[c], c, open')
    BY <1>1, ActingHere
  <2>2. \A g \in Screens : Active(hook'[g]) => g = h
    BY <1>1, OneActs DEF Begins, Others, Alone
  <2> QED
    BY <2>1, <2>2 DEF OpenHere
<1>2. ASSUME Forgets PROVE OpenHere'
  <2>1. \A c \in Convs : OpenAre(store'[c], c, open) /\ OpenAre(disk'[c], c, open)
    BY <1>2 DEF Forgets, OpenHere
  <2>2. \A h \in Screens : ~Active(hook'[h])
    BY <1>2, UnmountedIdle DEF Forgets
  <2>3. open' = open
    BY <1>2 DEF Forgets
  <2> QED
    BY <2>1, <2>2, <2>3 DEF OpenHere
<1>3. ASSUME Shuts PROVE OpenHere'
  BY <1>3, FewerOpen DEF Shuts, OpenHere, kept
<1>4. ASSUME Lands PROVE OpenHere'
  <2>1. \A c \in Convs : OpenAre(disk'[c], c, open)
    BY <1>4 DEF Lands, OpenHere
  <2> QED
    BY <1>4, <2>1 DEF Lands, OpenHere
<1> QED
  BY <1>1, <1>2, <1>3, <1>4 DEF Steps

---------------------------------------------------------------------------
(* How often a message is recorded.                                        *)

Posted(s, m) == s.posting # None /\ s.posting.msg = m
Settling(m) == \E h \in Screens : Posted(hook[h], m) /\ hook[h].posting.got
Clear(s, m) == m \notin Ids(s.box) /\ (s.load # None => m \notin Ids(s.load.box))
ClearIn(saved, m) == \A c \in Convs : m \notin Ids(saved[c])
Recorded == {m \in Msgs \ cut : written[m] # None /\ inbox[written[m]][m] > 0}

(* A message recorded in an open thread without a post that ended badly is *)
(* there once: the post that did it is about to be answered, or nothing is *)
(* left that could be posted.                                              *)
RecordedOnce ==
  \A m \in Recorded :
    /\ inbox[written[m]][m] = 1
    /\ written[m] \in open =>
         /\ \A h \in Screens : Posted(hook[h], m) => hook[h].posting.got
         /\ \/ Settling(m)
            \/ ClearIn(store, m) /\ \A h \in Screens : Active(hook[h]) => Clear(hook[h], m)

(* The same of the one hook at work.                                       *)
Fine(s, m, saved) ==
  /\ Posted(s, m) => s.posting.got
  /\ Posted(s, m) \/ (Clear(s, m) /\ ClearIn(saved, m))

LEMMA FineBefore ==
  ASSUME Alone, RecordedOnce, NEW h \in Screens, Active(hook[h]), NEW m \in Recorded
  PROVE  /\ inbox[written[m]][m] = 1
         /\ written[m] \in open => Fine(hook[h], m, store)
<1>1. ASSUME Settling(m) PROVE Posted(hook[h], m)
  BY <1>1 DEF Settling, Posted, Active, Alone
<1> QED
  BY <1>1 DEF RecordedOnce, Fine

LEMMA StillRecordedOf ==
  ASSUME NEW m \in Recorded', written' = written, inbox' = inbox, cut \subseteq cut'
  PROVE  m \in Recorded /\ m \notin cut'
  BY DEF Recorded

(* A turn of the drain that goes on with the post under way, or ends one   *)
(* of another message.                                                     *)
LEMMA TurnFine ==
  ASSUME NEW h \in Screens, NEW m, NEW p,
         Fine(hook[h], m, store), hook'[h].load = hook[h].load,
         p \in {hook[h].posting, None}, Took(p, hook'[h]),
         Posted(hook[h], m) => p = hook[h].posting,
         m \in Ids(hook'[h].box) => m \in Ids(hook[h].box),
         Saves(h) \/ store' = store
  PROVE  Fine(hook'[h], m, store')
<1> DEFINE s == hook[h]  t == hook'[h]
<1>1. CASE Posted(s, m)
  <2>1. t.posting = s.posting
    BY <1>1 DEF Took, Posted
  <2> QED
    BY <1>1, <2>1 DEF Fine, Posted
<1>2. CASE ~Posted(s, m)
  <2>1. Clear(s, m) /\ ClearIn(store, m)
    BY <1>2 DEF Fine
  <2>2. m \notin Ids(t.box)
    BY <2>1 DEF Clear
  <2>3. Clear(t, m)
    BY <2>1, <2>2 DEF Clear
  <2>4. ~Posted(t, m)
    BY <1>2, <2>2 DEF Took, Posted, Ids
  <2>5. ClearIn(store', m)
    BY <2>1, <2>2 DEF ClearIn, Saves
  <2> QED
    BY <2>3, <2>4, <2>5 DEF Fine
<1> QED
  BY <1>1, <1>2

(* The answer that a message was recorded takes it out of its outbox.      *)
LEMMA ConfirmedFine ==
  ASSUME OutboxOK, Belong, NEW h \in Screens, HookHere(hook[h], open),
         \A c \in Convs : OpenAre(store[c], c, open),
         NEW m, Posted(hook[h], m), written[m] \in open,
         hook'[h].load = hook[h].load, Took(None, hook'[h]), Saves(h),
         Ids(hook'[h].box) = Ids(hook[h].box) \ {m}
  PROVE  Fine(hook'[h], m, store')
<1> DEFINE s == hook[h]  t == hook'[h]
<1>1. s.posting # None /\ s.posting.msg = m /\ written[m] = s.posting.conv
  BY DEF Posted, Belong, HookBelongs
<1>2. s.load = None /\ written[m] = s.conv
  BY <1>1 DEF HookHere
<1>3. m \notin Ids(t.box) /\ t.load = None
  BY <1>2
<1>4. ~Posted(t, m)
  BY <1>3 DEF Took, Posted, Ids
<1>5. ASSUME NEW c \in Convs PROVE m \notin Ids(store'[c])
  <2>1. CASE c = s.conv
    BY <1>3, <2>1 DEF Saves
  <2>2. CASE c # s.conv
    <3>1. store'[c] = store[c]
      BY <2>2 DEF Saves
    <3>2. ASSUME NEW i \in DOMAIN store[c], store[c][i].msg = m PROVE FALSE
      <4>1. store[c][i].conv = written[m]
        BY <3>2 DEF Belong, BelongsTo
      <4>2. store[c][i].conv = c
        BY <4>1 DEF OpenAre
      <4> QED
        BY <1>2, <2>2, <4>1, <4>2
    <3> QED
      BY <3>1, <3>2 DEF Ids
  <2> QED
    BY <2>1, <2>2
<1> QED
  BY <1>3, <1>4, <1>5 DEF Fine, Clear, ClearIn

LEMMA ActingOnce ==
  ASSUME OutboxOK, OutboxOK', Belong, Alone, Places, OpenHere, RecordedOnce,
         NEW h \in Screens, HookSteps(h), NEW m \in Recorded'
  PROVE  /\ inbox'[written'[m]][m] = 1
         /\ written'[m] \in open' => Fine(hook'[h], m, store')
<1> DEFINE s == hook[h]  t == hook'[h]
           One == inbox'[written'[m]][m] = 1
           Good == written'[m] \in open' => Fine(t, m, store')
<1>0. m \in Msgs /\ m \notin cut' /\ written'[m] # None /\ inbox'[written'[m]][m] > 0
  BY DEF Recorded
<1>b. ASSUME Active(s), m \in Recorded
      PROVE  inbox[written[m]][m] = 1 /\ (written[m] \in open => Fine(s, m, store))
  BY <1>b, FineBefore
<1>r. written' = written /\ inbox' = inbox /\ cut \subseteq cut' => m \in Recorded
  BY StillRecordedOf
<1>1. ASSUME Begins(h) PROVE One /\ Good
  <2>1. /\ t.box = <<>> /\ t.load = None /\ t.posting = None
        /\ UNCHANGED <<store, open, written, inbox, cut>>
        /\ \A g \in Screens : ~Active(hook[g])
    BY <1>1 DEF Begins, MountedHook, Unmounted, Hands
  <2>2. m \in Recorded /\ ~Settling(m)
    BY <1>r, <2>1 DEF Settling, Posted, Active
  <2>3. inbox[written[m]][m] = 1 /\ (written[m] \in open => ClearIn(store, m))
    BY <2>2 DEF RecordedOnce
  <2> HIDE DEF t
  <2> QED
    BY <2>1, <2>3 DEF Fine, Posted, Clear, Ids
<1>2. ASSUME Rests(h) PROVE One /\ Good
  <2>1. /\ Active(s) /\ t.box = s.box /\ t.load = s.load /\ t.posting = s.posting
        /\ UNCHANGED <<store, open, written, inbox, cut>>
    BY <1>2 DEF Rests, Hands
  <2>2. inbox[written[m]][m] = 1 /\ (written[m] \in open => Fine(s, m, store))
    BY <1>b, <1>r, <2>1
  <2> HIDE DEF s, t
  <2> QED
    BY <2>1, <2>2 DEF Fine, Posted, Clear
<1>3. ASSUME NEW c \in Convs, Adopts(h, c) PROVE One /\ Good
  <2>1. /\ Active(s) /\ t.load # None /\ t.load.box = store[c]
        /\ t.box = s.box /\ t.posting = s.posting
        /\ open' = open \/ (c \notin created /\ open' = open \cup {c})
        /\ UNCHANGED <<store, written, inbox, cut>>
    BY <1>3 DEF Adopts, kept
  <2>2. inbox[written[m]][m] = 1 /\ (written[m] \in open => Fine(s, m, store))
    BY <1>b, <1>r, <2>1
  <2>3. written[m] \in created
    BY <1>0, <2>1 DEF Places
  <2> HIDE DEF s, t
  <2>4. written[m] \in open' => Fine(s, m, store)
    BY <2>1, <2>2, <2>3
  <2> QED
    BY <2>1, <2>2, <2>4 DEF Fine, Posted, Clear, ClearIn
<1>4. ASSUME Reads(h) PROVE One /\ Good
  <2>1. /\ Active(s) /\ s.load # None /\ t.load = None /\ t.posting = s.posting
        /\ t.box = s.box \/ Ids(t.box) = Ids(s.load.box)
        /\ UNCHANGED <<store, open, written, inbox, cut>>
    BY <1>4 DEF Reads, Hands
  <2>2. inbox[written[m]][m] = 1 /\ (written[m] \in open => Fine(s, m, store))
    BY <1>b, <1>r, <2>1
  <2> HIDE DEF s, t
  <2> QED
    BY <2>1, <2>2 DEF Fine, Posted, Clear
<1>5. ASSUME NEW k \in Msgs, SendTurn(h, k) PROVE One /\ Good
  <2>1. /\ Active(s) /\ Saves(h) /\ Took(s.posting, t) /\ t.load = s.load /\ k \in Unwritten
        /\ Ids(t.box) = Ids(s.box) \cup {k}
        /\ written' = [written EXCEPT ![k] = s.conv] /\ s.conv \in Convs
        /\ UNCHANGED <<inbox, open, cut>>
    BY <1>5 DEF SendTurn, Turn
  <2>2. m # k
    <3>1. SUFFICES ASSUME m = k PROVE FALSE
      OBVIOUS
    <3>2. inbox[s.conv][k] > 0 /\ written[k] = None
      BY <1>0, <2>1, <3>1 DEF OutboxOK, Unwritten
    <3> QED
      BY <2>1, <3>2, OutboxAssumption DEF Belong, DeliveredWhereWritten
  <2>3. written'[m] = written[m]
    BY <2>1, <2>2, <1>0 DEF OutboxOK
  <2>4. m \in Recorded
    BY <1>0, <2>1, <2>3 DEF Recorded
  <2>5. inbox[written[m]][m] = 1 /\ (written[m] \in open => Fine(s, m, store))
    BY <1>b, <2>1, <2>4
  <2>6. (m \in Ids(t.box) => m \in Ids(s.box)) /\ s.posting \in {s.posting, None}
    BY <2>1, <2>2
  <2>7. written[m] \in open => Fine(t, m, store')
    BY <2>1, <2>5, <2>6, TurnFine
  <2> QED
    BY <2>1, <2>3, <2>5, <2>7
<1>6. ASSUME KeepTurn(h) PROVE One /\ Good
  <2>1. /\ Active(s) /\ (Saves(h) \/ store' = store) /\ Took(s.posting, t) /\ t.load = s.load
        /\ Ids(t.box) = Ids(s.box)
        /\ UNCHANGED <<inbox, open, written, cut>>
    BY <1>6 DEF KeepTurn, Turn
  <2>2. inbox[written[m]][m] = 1 /\ (written[m] \in open => Fine(s, m, store))
    BY <1>b, <1>r, <2>1
  <2>3. (m \in Ids(t.box) => m \in Ids(s.box)) /\ s.posting \in {s.posting, None}
    BY <2>1
  <2>4. written[m] \in open => Fine(t, m, store')
    BY <2>1, <2>2, <2>3, TurnFine
  <2> QED
    BY <2>1, <2>2, <2>4
<1>7. ASSUME EndTurn(h) PROVE One /\ Good
  <2> DEFINE p == s.posting
  <2>1. /\ Active(s) /\ Saves(h) /\ Took(None, t) /\ t.load = s.load /\ p # None
        /\ UNCHANGED <<inbox, open, written>>
        /\ \/ p.got /\ Ids(t.box) = Ids(s.box) \ {p.msg} /\ cut' = cut
           \/ Ids(t.box) = Ids(s.box) /\ cut' = cut \cup {p.msg}
           \/ ~p.got /\ Ids(t.box) = Ids(s.box) /\ cut' = cut
    BY <1>7 DEF EndTurn, Turn
  <2>2. inbox[written[m]][m] = 1 /\ (written[m] \in open => Fine(s, m, store))
    BY <1>b, <1>r, <2>1
  <2>3. (m \in Ids(t.box) => m \in Ids(s.box)) /\ None \in {s.posting, None}
    BY <2>1
  <2>4. ASSUME written[m] \in open, ~Posted(s, m) PROVE Fine(t, m, store')
    BY <2>1, <2>2, <2>3, <2>4, TurnFine
  <2>5. ASSUME written[m] \in open, Posted(s, m) PROVE Fine(t, m, store')
    <3>1. p.msg = m /\ p.got
      BY <2>2, <2>5 DEF Fine, Posted
    <3>2. Ids(t.box) = Ids(s.box) \ {m}
      BY <1>0, <2>1, <3>1
    <3>3. HookHere(s, open) /\ \A c \in Convs : OpenAre(store[c], c, open)
      BY <2>1 DEF OpenHere
    <3> QED
      BY <2>1, <2>5, <3>2, <3>3, ConfirmedFine
  <2> QED
    BY <2>1, <2>2, <2>4, <2>5
<1>8. ASSUME Records(h) PROVE One /\ Good
  <2> DEFINE p == s.posting
  <2>1. /\ Active(s) /\ p # None /\ p \in Posts /\ ~p.got /\ p.conv \in open
        /\ t.load = s.load /\ t.box = s.box
        /\ t.posting # None /\ t.posting.got = TRUE /\ t.posting.msg = p.msg
        /\ inbox' = [inbox EXCEPT ![p.conv][p.msg] = OneMore(@)]
        /\ UNCHANGED <<store, open, written, cut>>
    BY <1>8 DEF Records, kept
  <2>2. written[p.msg] = p.conv /\ p.msg \in Msgs /\ p.conv \in Convs
    BY <2>1 DEF Belong, HookBelongs, Posts
  <2>3. CASE m = p.msg
    <3>1. m \notin Recorded
      <4>1. SUFFICES ASSUME m \in Recorded PROVE FALSE
        OBVIOUS
      <4>2. Fine(s, m, store)
        BY <1>b, <2>1, <2>2, <2>3, <4>1
      <4> QED
        BY <2>1, <2>3, <4>2 DEF Fine, Posted
    <3>2. ~(inbox[p.conv][m] > 0)
      BY <1>0, <2>1, <2>2, <2>3, <3>1, OutboxAssumption DEF Recorded
    <3>3. inbox[p.conv][m] = 0 /\ inbox'[p.conv][m] = inbox[p.conv][m] + 1
      BY <2>1, <2>2, <2>3, <3>2 DEF OutboxOK, OneMore
    <3>4. Fine(t, m, store')
      BY <2>1, <2>3 DEF Fine, Posted
    <3> QED
      BY <2>1, <2>2, <2>3, <3>3, <3>4
  <2>4. CASE m # p.msg
    <3>1. written[m] \in Convs
      BY <1>0, <2>1 DEF OutboxOK
    <3>2. inbox'[written[m]][m] = inbox[written[m]][m]
      BY <1>0, <2>1, <2>2, <2>4, <3>1 DEF OutboxOK
    <3>3. m \in Recorded
      BY <1>0, <2>1, <3>2 DEF Recorded
    <3>4. inbox[written[m]][m] = 1 /\ (written[m] \in open => Fine(s, m, store))
      BY <1>b, <2>1, <3>3
    <3>5. written[m] \in open => Fine(t, m, store')
      BY <2>1, <2>4, <3>4 DEF Fine, Posted, Clear
    <3> QED
      BY <2>1, <3>2, <3>4, <3>5
  <2> QED
    BY <2>3, <2>4
<1> HIDE DEF One, Good
<1>9. One /\ Good
  BY <1>1, <1>2, <1>3, <1>4, <1>5, <1>6, <1>7, <1>8 DEF HookSteps
<1> QED
  BY <1>9 DEF One, Good

LEMMA RecordedOnceStep ==
  ASSUME OutboxOK, OutboxOK', Belong, Alone, Places, OpenHere, RecordedOnce, Steps
  PROVE  RecordedOnce'
<1>1. ASSUME NEW h \in Screens, HookSteps(h) PROVE RecordedOnce'
  <2> SUFFICES ASSUME NEW m \in Recorded'
               PROVE  /\ inbox'[written'[m]][m] = 1
                      /\ written'[m] \in open' =>
                           /\ \A g \in Screens : Posted(hook'[g], m) => hook'[g].posting.got
                           /\ \/ \E g \in Screens : Posted(hook'[g], m) /\ hook'[g].posting.got
                              \/ /\ ClearIn(store', m)
                                 /\ \A g \in Screens : Active(hook'[g]) => Clear(hook'[g], m)
    BY DEF RecordedOnce, Settling
  <2>1. /\ inbox'[written'[m]][m] = 1
        /\ written'[m] \in open' => Fine(hook'[h], m, store')
    BY <1>1, ActingOnce
  <2>2. \A g \in Screens : Active(hook'[g]) => g = h
    BY <1>1, OneActs DEF Begins, Others, Alone
  <2>3. \A g \in Screens : Posted(hook'[g], m) => g = h
    BY <2>2 DEF Posted, Active
  <2> QED
    BY <2>1, <2>2, <2>3 DEF Fine
<1>2. ASSUME Forgets PROVE RecordedOnce'
  <2> SUFFICES ASSUME NEW m \in Recorded'
               PROVE  /\ inbox'[written'[m]][m] = 1
                      /\ written'[m] \in open' =>
                           /\ \A g \in Screens : Posted(hook'[g], m) => hook'[g].posting.got
                           /\ ClearIn(store', m)
                           /\ \A g \in Screens : Active(hook'[g]) => Clear(hook'[g], m)
    BY DEF RecordedOnce
  <2>1. m \in Recorded /\ m \notin cut'
    BY <1>2, StillRecordedOf DEF Forgets
  <2>2. ~Settling(m)
    BY <1>2, <2>1 DEF Forgets, Settling, Posted
  <2>3. inbox[written[m]][m] = 1 /\ (written[m] \in open => ClearIn(store, m))
    BY <2>1, <2>2 DEF RecordedOnce
  <2>4. \A g \in Screens : ~Active(hook'[g]) /\ ~Posted(hook'[g], m)
    BY <1>2, UnmountedIdle DEF Forgets, Posted, Unmounted
  <2>5. m \in Msgs /\ m \notin Landing(disk, store) /\ store' = disk
    BY <1>2, <2>1 DEF Forgets, Recorded
  <2>6. ClearIn(store, m) => ClearIn(store', m)
    BY <2>5, HeldIsId DEF Landing, ClearIn
  <2> QED
    BY <1>2, <2>3, <2>4, <2>6 DEF Forgets
<1>3. ASSUME Shuts \/ Lands PROVE RecordedOnce'
  BY <1>3 DEF Shuts, Lands, kept, RecordedOnce, Recorded, Settling
<1> QED
  BY <1>1, <1>2, <1>3 DEF Steps

---------------------------------------------------------------------------
(* Nothing is recorded twice on its own.                                   *)

OnceInv == ~raced => OpenHere /\ RecordedOnce

LEMMA OnceInit == OutboxInit => OnceInv
<1> SUFFICES ASSUME OutboxInit PROVE OnceInv
  OBVIOUS
<1>1. /\ \A h \in Screens : ~Active(hook[h])
      /\ \A c \in Convs : store[c] = <<>> /\ disk[c] = <<>>
  BY UnmountedIdle DEF OutboxInit
<1>2. OpenHere
  BY <1>1 DEF OpenHere, OpenAre
<1>3. Recorded = {}
  BY DEF OutboxInit, Recorded
<1> QED
  BY <1>2, <1>3 DEF OnceInv, RecordedOnce

LEMMA OnceStep ==
  ASSUME OutboxOK, OutboxOK', Belong, OrderlyInv, OnceInv, [Next]_vars
  PROVE  OnceInv'
<1> SUFFICES ASSUME ~raced' PROVE OpenHere' /\ RecordedOnce'
  BY DEF OnceInv
<1>0. OpenHere /\ RecordedOnce /\ Alone /\ Places
  BY RacedStays DEF OnceInv, OrderlyInv
<1>1. CASE UNCHANGED vars
  BY <1>0, <1>1 DEF vars, history, OpenHere, RecordedOnce, Recorded, Settling
<1>2. CASE Next
  BY <1>0, <1>2, StepKinds, OpenHereStep, RecordedOnceStep
<1> QED
  BY <1>1, <1>2

(* Support records a message a second time only after a post of it that    *)
(* ended without an answer the app could read, or a kill before the answer *)
(* it read was saved: neither the screen left and opened again, nor        *)
(* another thread, nor a closed one sends it again, until a screen runs    *)
(* beside an old one's drain or takes input while its outbox is read.      *)
THEOREM RepeatsAreRetries == Spec => []RepeatsFollowFaults
<1>1. OutboxOK /\ Belong /\ OnceInv => RepeatsFollowFaults
  <2> SUFFICES ASSUME OutboxOK, Belong, OnceInv, ~raced,
                      NEW c \in Convs, NEW m \in Msgs, inbox[c][m] > 1, m \notin cut
               PROVE  FALSE
    BY DEF RepeatsFollowFaults
  <2>1. inbox[c][m] \in Nat
    BY DEF OutboxOK
  <2>2. inbox[c][m] > 0
    BY <2>1
  <2>3. written[m] = c /\ c # None
    BY <2>2, OutboxAssumption DEF Belong, DeliveredWhereWritten
  <2>4. inbox[c][m] = 1
    BY <2>2, <2>3 DEF OnceInv, RecordedOnce, Recorded
  <2> QED
    BY <2>4
<1>2. OutboxOK /\ OutboxOK' /\ Belong /\ OrderlyInv /\ [Next]_vars => OrderlyInv'
  BY OrderlyStep
<1>3. OutboxOK /\ OutboxOK' /\ Belong /\ OrderlyInv /\ OnceInv /\ [Next]_vars => OnceInv'
  BY OnceStep
<1> QED
  BY <1>1, <1>2, <1>3, OrderlyInit, OnceInit, OutboxStaysOK, OutboxBelongs, PTL DEF Spec
=============================================================================
