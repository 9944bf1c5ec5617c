---------------------------- MODULE SupportLink ----------------------------
(***************************************************************************)
(* The live side of the mobile support chat: one screen on one thread, the *)
(* event streams and web sockets its connect calls open, the reconnect     *)
(* timer, and the polling that covers for them while it is disconnected.   *)
(* A connect call is followed through its awaits in a slot of its own:     *)
(* several can be under way, and they share one closedByUs flag and one    *)
(* reference for each kind of connection.                                  *)
(***************************************************************************)
EXTENDS Naturals, FiniteSets

CONSTANTS
  Slots,         \* connect calls that may be alive at a time
  MaxMessages,   \* messages support sends
  MaxFaults,     \* bound on lost, refused and dead connections and failed refreshes
  Foreground,    \* BOOLEAN: the app goes to the background and returns
  LeavesEarly,   \* BOOLEAN: the screen may be left before it first connects
  TokenThrows,   \* BOOLEAN: reading the token for the stream may throw
  None

ASSUME LinkAssumption ==
  /\ MaxMessages \in Nat /\ MaxFaults \in Nat /\ None \notin Slots
  /\ {Foreground, LeavesEarly, TokenThrows} \subseteq BOOLEAN

VARIABLES
  serves,      \* whether the API serves the event stream; it does not change
  screen,      \* "off", "adopting", "thread", "closed", "left"
  conn,        \* per slot, where its connect call is
  sseRef, wsRef, closedByUs, connected, timer,
  refreshDue,  \* the refresh an opened stream starts
  stale,       \* the last refresh failed, and none was answered since
  sent, shown, \* messages in the thread, and those the screen has
  faults
refs == <<sseRef, wsRef, closedByUs, connected, timer>>
fetches == <<refreshDue, stale>>
vars == <<screen, conn, refs, fetches, sent, shown, faults>>

(* "sse" and "ws" are being opened; "dead" is open without a peer: frames  *)
(* no longer arrive, and nothing reads the heartbeats that stay away; a    *)
(* web socket the hook shut has yet to call its onclose.                   *)
Opening == {"sse", "ws"}
Live == {"sseOpen", "wsOpen"}
Dead == {"sseDead", "wsDead"}
Opened == Live \cup Dead
ConnStates == Opening \cup Opened \cup {"free", "token", "ticket", "wsShut"}
Sse == {"sse", "sseOpen", "sseDead"}
Ws == {"ws", "wsOpen", "wsDead", "wsShut"}

LinkInit ==
  /\ serves \in BOOLEAN
  /\ screen = "off" /\ conn = [s \in Slots |-> "free"]
  /\ sseRef = None /\ wsRef = None /\ closedByUs = FALSE /\ connected = FALSE /\ timer = FALSE
  /\ refreshDue = FALSE /\ stale = FALSE /\ sent = 0 /\ shown = {} /\ faults = 0

Fault == faults < MaxFaults /\ faults' = faults + 1

---------------------------------------------------------------------------
(* adoptConversation: the messages fetched so far, then, after reading the *)
(* outbox, connect.  The mount effect's cancelled flag is not looked at    *)
(* again, so a screen left meanwhile connects all the same.                *)
Adopt ==
  /\ screen = "off"
  /\ screen' = "adopting" /\ shown' = 1..sent
  /\ UNCHANGED <<conn, refs, fetches, sent, faults>>

(* connect up to its first await.                                          *)
Connect(s) ==
  /\ conn[s] = "free"
  /\ conn' = [conn EXCEPT ![s] = "token"] /\ closedByUs' = FALSE
  /\ UNCHANGED <<sseRef, wsRef, connected, fetches, sent, shown, faults>>

FirstConnect(s) ==
  /\ screen \in {"adopting", "leftEarly"} /\ Connect(s)
  /\ screen' = IF screen = "adopting" THEN "thread" ELSE "left"
  /\ UNCHANGED timer

TimerConnect(s) == timer /\ Connect(s) /\ timer' = FALSE /\ UNCHANGED screen

(* The app comes to the foreground: it looks at socketRef only.            *)
ForegroundConnect(s) ==
  /\ Foreground /\ screen = "thread" /\ wsRef = None
  /\ Connect(s) /\ UNCHANGED <<screen, timer>>

(* The token is there: the stream is requested, unless torn down meanwhile.*)
OpenSse(s) ==
  /\ conn[s] = "token"
  /\ conn' = [conn EXCEPT ![s] = IF closedByUs THEN "free" ELSE "sse"]
  /\ sseRef' = IF closedByUs THEN sseRef ELSE s
  /\ UNCHANGED <<screen, wsRef, closedByUs, connected, timer, fetches, sent, shown, faults>>

(* Reading the token throws: only then is the web socket tried.            *)
SseThrows(s) ==
  /\ TokenThrows /\ conn[s] = "token" /\ Fault
  /\ conn' = [conn EXCEPT ![s] = "ticket"]
  /\ UNCHANGED <<screen, refs, fetches, sent, shown>>

(* getWsTicket answers or fails.                                           *)
WsTicket(s) ==
  /\ conn[s] = "ticket"
  /\ conn' = [conn EXCEPT ![s] = IF closedByUs THEN "free" ELSE "ws"]
  /\ wsRef' = IF closedByUs THEN wsRef ELSE s
  /\ UNCHANGED <<screen, sseRef, closedByUs, connected, timer, fetches, sent, shown, faults>>

TicketFails(s) ==
  /\ conn[s] = "ticket" /\ Fault
  /\ conn' = [conn EXCEPT ![s] = "free"] /\ timer' = TRUE
  /\ UNCHANGED <<screen, sseRef, wsRef, closedByUs, connected, fetches, sent, shown>>

(* onOpen: connected, and a refresh for what was missed.                   *)
OnOpen(s) ==
  /\ (conn[s] = "sse" /\ serves) \/ conn[s] = "ws"
  /\ conn' = [conn EXCEPT ![s] = IF @ = "sse" THEN "sseOpen" ELSE "wsOpen"]
  /\ connected' = TRUE /\ refreshDue' = TRUE
  /\ UNCHANGED <<screen, sseRef, wsRef, closedByUs, timer, stale, sent, shown, faults>>

(* Mutant: the end of a stream leaves the chat "connected".                *)
OnCloseStillConnected(s) ==
  /\ conn' = [conn EXCEPT ![s] = "free"]
  /\ sseRef' = IF conn[s] \in Sse THEN None ELSE sseRef
  /\ wsRef' = IF conn[s] \in Ws THEN None ELSE wsRef
  /\ connected' = connected
  /\ timer' = (timer \/ ~closedByUs)
  /\ UNCHANGED <<screen, closedByUs, fetches, sent, shown>>

(* onClose: whichever connection it was, the chat is disconnected and the  *)
(* reference of its kind is dropped, though it may name a newer one.       *)
OnClose(s) ==
  /\ conn' = [conn EXCEPT ![s] = "free"]
  /\ sseRef' = IF conn[s] \in Sse THEN None ELSE sseRef
  /\ wsRef' = IF conn[s] \in Ws THEN None ELSE wsRef
  /\ connected' = FALSE
  /\ timer' = (timer \/ ~closedByUs)
  /\ UNCHANGED <<screen, closedByUs, fetches, sent, shown>>

Drop(s) == conn[s] \in Opening \cup Live /\ Fault /\ OnClose(s)
NoticeDead(s) == conn[s] \in Dead /\ OnClose(s) /\ UNCHANGED faults
WsCloses(s) == conn[s] = "wsShut" /\ OnClose(s) /\ UNCHANGED faults
SseUnavailable(s) == ~serves /\ conn[s] = "sse" /\ OnClose(s) /\ UNCHANGED faults

(* 401 or 403 on the stream: no reconnect.                                 *)
Unauthorized(s) ==
  /\ conn[s] = "sse" /\ Fault
  /\ conn' = [conn EXCEPT ![s] = "free"] /\ sseRef' = None /\ connected' = FALSE
  /\ UNCHANGED <<screen, wsRef, closedByUs, timer, fetches, sent, shown>>

PeerDies(s) ==
  /\ conn[s] \in Live /\ Fault
  /\ conn' = [conn EXCEPT ![s] = IF @ = "sseOpen" THEN "sseDead" ELSE "wsDead"]
  /\ UNCHANGED <<screen, refs, fetches, sent, shown>>

---------------------------------------------------------------------------
(* Messages: a frame on every open stream, and the refreshes.              *)
SupportSends ==
  /\ sent < MaxMessages /\ sent' = sent + 1
  /\ shown' = IF \E s \in Slots : conn[s] \in Live
              THEN shown \union {sent + 1} ELSE shown
  /\ UNCHANGED <<screen, conn, refs, fetches, faults>>

Fetched == shown' = 1..sent /\ stale' = FALSE

Refresh ==
  /\ refreshDue /\ refreshDue' = FALSE
  /\ Fetched
  /\ UNCHANGED <<screen, conn, refs, sent, faults>>

(* Its failure is shown, and not made up for.                              *)
RefreshFails ==
  /\ refreshDue /\ refreshDue' = FALSE
  /\ Fault /\ stale' = TRUE
  /\ UNCHANGED <<screen, conn, refs, sent, shown>>

(* Mutant: the poll's condition is inverted.                               *)
PollConnected ==
  /\ screen = "thread" /\ connected
  /\ Fetched
  /\ UNCHANGED <<screen, conn, refs, refreshDue, sent, faults>>

Poll ==
  /\ screen = "thread" /\ ~connected
  /\ Fetched
  /\ UNCHANGED <<screen, conn, refs, refreshDue, sent, faults>>

---------------------------------------------------------------------------
(* teardownSocket closes what the references name.  An aborted stream says *)
(* nothing more; a closed web socket calls its onclose later.              *)
Teardown ==
  /\ closedByUs' = TRUE /\ timer' = FALSE /\ connected' = FALSE
  /\ conn' = [s \in Slots |-> IF s \notin {sseRef, wsRef} THEN conn[s]
                              ELSE IF conn[s] \in Ws THEN "wsShut" ELSE "free"]
  /\ sseRef' = None /\ wsRef' = None

ClosedFrame ==
  /\ screen = "thread" /\ \E s \in Slots : conn[s] \in Live
  /\ screen' = "closed" /\ Teardown
  /\ UNCHANGED <<fetches, sent, shown, faults>>

Leave ==
  /\ screen \in {"thread", "closed"} \/ (screen = "adopting" /\ LeavesEarly)
  /\ screen' = IF screen = "adopting" THEN "leftEarly" ELSE "left"
  /\ Teardown
  /\ UNCHANGED <<fetches, sent, shown, faults>>

Next ==
  \/ Adopt \/ SupportSends \/ Refresh \/ RefreshFails \/ Poll \/ ClosedFrame \/ Leave
  \/ \E s \in Slots :
       \/ FirstConnect(s) \/ TimerConnect(s) \/ ForegroundConnect(s)
       \/ OpenSse(s) \/ SseThrows(s) \/ WsTicket(s) \/ TicketFails(s)
       \/ OnOpen(s) \/ Drop(s) \/ NoticeDead(s) \/ SseUnavailable(s) \/ Unauthorized(s)
       \/ PeerDies(s) \/ WsCloses(s)

Spec == LinkInit /\ [][Next /\ UNCHANGED serves]_<<vars, serves>>

(* A refresh is answered or fails, and the poll's interval comes round and *)
(* one poll of many is answered.                                           *)
LiveSpec == Spec /\ WF_vars(Refresh \/ RefreshFails) /\ WF_vars(Poll)

---------------------------------------------------------------------------
TypeOK ==
  /\ serves \in BOOLEAN
  /\ screen \in {"off", "adopting", "thread", "closed", "left", "leftEarly"}
  /\ conn \in [Slots -> ConnStates]
  /\ sseRef \in Slots \union {None} /\ wsRef \in Slots \union {None}
  /\ {closedByUs, connected, timer, refreshDue, stale} \subseteq BOOLEAN
  /\ sent \in 0..MaxMessages /\ shown \subseteq 1..sent

(* The chat believes it is connected, and stops polling, only while some   *)
(* connection of its own was opened and has not been reported closed,      *)
(* however many connect calls and teardowns cross (setConnectedBoth).      *)
ConnectedIsOpened == connected => \E s \in Slots : conn[s] \in Opened

(* A message support sent reaches the thread on screen.  The hook's promise *)
(* that "a missed live frame is never permanent" (useSupportChat.ts:6-7)  *)
(* ends where it takes itself for connected although a stream lost its     *)
(* peer, or although the refresh of the stream it opened failed.           *)
MissedIsRecovered ==
  \A k \in 1..MaxMessages :
    (screen = "thread" /\ k <= sent) ~>
      \/ k \in shown \/ screen # "thread"
      \/ connected /\ (stale \/ \E s \in Slots : conn[s] \in Dead)
=============================================================================
