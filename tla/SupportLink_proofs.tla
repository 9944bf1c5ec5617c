------------------------- MODULE SupportLink_proofs -------------------------
(***************************************************************************)
(* The live connection of the support chat, for any number of connect      *)
(* calls, messages and faults, and whatever stands for no connection: what *)
(* the chat takes for connected was opened.                                *)
(***************************************************************************)
EXTENDS SupportLink, TLAPS

LEMMA LinkTypeStep == TypeOK /\ [Next /\ UNCHANGED serves]_<<vars, serves>> => TypeOK'
<1> SUFFICES ASSUME TypeOK, [Next /\ UNCHANGED serves]_<<vars, serves>>
             PROVE  TypeOK'
  OBVIOUS
<1> USE DEF TypeOK, ConnStates, Opening, Opened, Live, Dead, refs, fetches, Fault
<1>0. sent \in Nat /\ MaxMessages \in Nat
  BY LinkAssumption
<1>1. CASE UNCHANGED <<vars, serves>>
  BY <1>1 DEF vars
<1>2. CASE UNCHANGED serves /\ (Adopt \/ Refresh \/ RefreshFails \/ Poll)
  BY <1>0, <1>2 DEF Adopt, Refresh, RefreshFails, Poll, Fetched
<1>3. CASE UNCHANGED serves /\ SupportSends
  BY <1>0, <1>3 DEF SupportSends
<1>4. CASE UNCHANGED serves /\ (ClosedFrame \/ Leave)
  BY <1>4 DEF ClosedFrame, Leave, Teardown
<1>5. ASSUME UNCHANGED serves, NEW s \in Slots,
             FirstConnect(s) \/ TimerConnect(s) \/ ForegroundConnect(s)
      PROVE  TypeOK'
  BY <1>5 DEF FirstConnect, TimerConnect, ForegroundConnect, Connect
<1>6. ASSUME UNCHANGED serves, NEW s \in Slots, OpenSse(s) \/ SseThrows(s) \/ PeerDies(s) \/ OnOpen(s)
      PROVE  TypeOK'
  BY <1>6 DEF OpenSse, SseThrows, PeerDies, OnOpen
<1>7. ASSUME UNCHANGED serves, NEW s \in Slots, WsTicket(s) \/ TicketFails(s) \/ Unauthorized(s)
      PROVE  TypeOK'
  BY <1>7 DEF WsTicket, TicketFails, Unauthorized
<1>8. ASSUME UNCHANGED serves, NEW s \in Slots, Drop(s) \/ NoticeDead(s) \/ WsCloses(s) \/ SseUnavailable(s)
      PROVE  TypeOK'
  BY <1>8 DEF Drop, NoticeDead, WsCloses, SseUnavailable, OnClose
<1> QED
  BY <1>1, <1>2, <1>3, <1>4, <1>5, <1>6, <1>7, <1>8 DEF Next

(* The connect calls, the references they share and the messages on screen *)
(* stay what the hook can hold: only what support sent is ever shown.      *)
THEOREM LinkTypeCorrect == Spec => []TypeOK
<1>1. LinkInit => TypeOK
  <2>1. 0 \in 0..MaxMessages
    BY LinkAssumption
  <2> QED
    BY <2>1 DEF LinkInit, TypeOK, ConnStates
<1> QED
  BY <1>1, LinkTypeStep, PTL DEF Spec

(* A step that leaves the chat connected opened nothing shut: it opens a   *)
(* connection, or moves one connect call that is not open, or keeps all    *)
(* that are.                                                               *)
Opens(s) == conn'[s] \in Opened
KeepsOpened == \A s \in Slots : conn[s] \in Opened => conn'[s] \in Opened

LEMMA LinkStep ==
  ASSUME conn \in [Slots -> ConnStates], Next
  PROVE  /\ conn' \in [Slots -> ConnStates]
         /\ \/ connected' = FALSE
            \/ connected' = connected /\ KeepsOpened
            \/ \E s \in Slots : Opens(s)
<1> USE DEF ConnStates, Opening, Opened, Live, Dead, refs, KeepsOpened
<1>1. CASE Adopt \/ SupportSends \/ Refresh \/ RefreshFails \/ Poll
  BY <1>1 DEF Adopt, SupportSends, Refresh, RefreshFails, Poll
<1>2. CASE ClosedFrame \/ Leave
  BY <1>2 DEF ClosedFrame, Leave, Teardown
<1>3. ASSUME NEW s \in Slots,
             FirstConnect(s) \/ TimerConnect(s) \/ ForegroundConnect(s)
      PROVE  conn' \in [Slots -> ConnStates] /\ connected' = connected /\ KeepsOpened
  BY <1>3 DEF FirstConnect, TimerConnect, ForegroundConnect, Connect
<1>4. ASSUME NEW s \in Slots, OpenSse(s) \/ SseThrows(s) \/ WsTicket(s)
                              \/ TicketFails(s) \/ PeerDies(s)
      PROVE  conn' \in [Slots -> ConnStates] /\ connected' = connected /\ KeepsOpened
  BY <1>4 DEF OpenSse, SseThrows, WsTicket, TicketFails, PeerDies
<1>5. ASSUME NEW s \in Slots, OnOpen(s)
      PROVE  conn' \in [Slots -> ConnStates] /\ Opens(s)
  BY <1>5 DEF OnOpen, Opens
<1>6. ASSUME NEW s \in Slots, Drop(s) \/ NoticeDead(s) \/ WsCloses(s) \/ SseUnavailable(s)
                              \/ Unauthorized(s)
      PROVE  conn' \in [Slots -> ConnStates] /\ connected' = FALSE
  BY <1>6 DEF Drop, NoticeDead, WsCloses, SseUnavailable, Unauthorized, OnClose
<1> QED
  BY <1>1, <1>2, <1>3, <1>4, <1>5, <1>6 DEF Next

(* However many connect calls, teardowns, dead peers and foreground events *)
(* cross, the chat believes it is connected only while a connection of its *)
(* own was opened and has not been reported closed.                        *)
THEOREM ConnectedWasOpened == Spec => []ConnectedIsOpened
<1> DEFINE Inv == conn \in [Slots -> ConnStates] /\ ConnectedIsOpened
<1>1. LinkInit => Inv
  BY DEF LinkInit, ConnStates, ConnectedIsOpened
<1>2. Inv /\ [Next /\ UNCHANGED serves]_<<vars, serves>> => Inv'
  <2> SUFFICES ASSUME Inv, [Next /\ UNCHANGED serves]_<<vars, serves>>
               PROVE  Inv'
    OBVIOUS
  <2>1. CASE UNCHANGED <<vars, serves>>
    BY <2>1 DEF vars, refs, ConnectedIsOpened
  <2>2. CASE Next
    <3>1. /\ conn' \in [Slots -> ConnStates]
          /\ \/ connected' = FALSE
             \/ connected' = connected /\ KeepsOpened
             \/ \E s \in Slots : Opens(s)
      BY <2>2, LinkStep
    <3> QED
      BY <3>1 DEF KeepsOpened, Opens, ConnectedIsOpened
  <2> QED
    BY <2>1, <2>2
<1> QED
  BY <1>1, <1>2, PTL DEF Spec
=============================================================================
