--------------------------- MODULE SessionClient ---------------------------
(***************************************************************************)
(* The session of one mobile app: the auth store in memory, the tokens in  *)
(* the Keychain, the durable identity of the hosted login, and the flows   *)
(* that touch them, each followed from await to await: API requests with   *)
(* their refresh and one retry, the single-flight refresh, signing in,     *)
(* signing out, a killed and a reinstalled app.                            *)
(***************************************************************************)
EXTENDS Naturals, Sequences, Functions

CONSTANTS
  Users, Requests,
  ProviderSignOut,     \* BOOLEAN: the log-out button calls the provider's signOut first (the admin app)
  MaxSignIns, MaxLogouts,
  MaxGuests,           \* requests sent while signed out
  MaxExpiries,         \* sessions the server ends on its own
  MaxFailures,         \* refreshes and sign-ins that fail
  MaxStarts,           \* kills and reinstalls of the app
  MaxEvents,           \* of all these together, the sign-ins aside
  None

ASSUME SessionAssumption ==
  /\ None \notin Users /\ "button" \notin Requests
  /\ ProviderSignOut \in BOOLEAN
  /\ {MaxSignIns, MaxLogouts, MaxGuests, MaxExpiries, MaxFailures, MaxStarts, MaxEvents} \subseteq Nat

VARIABLES
  store,     \* the zustand store: access, auth, user
  secure,    \* Keychain access_token
  session,   \* Keychain hc_session_token
  identity,  \* Keychain hc_zitadel_auth: whose refresh token it is
  grant,     \* and that token: "unused", "presented" to the issuer, or "spent" there
  minted,    \* the owner of each session token, in the order minted
  live,      \* the tokens the server accepts
  req, refresh, signIn, out,
  ended,     \* a log-out from the button with nothing else under way: "no",
             \* "begun", "done"; only a property reads it
  count      \* of each bounded event
flows == <<req, refresh, signIn, out>>
kept == <<store, secure, session, identity, grant>>
vars == <<store, secure, session, identity, grant, minted, live, req, refresh, signIn, out, ended, count>>

(* Tokens are numbered in the order they are minted; 0 is no token.        *)
Tokens == 0..Len(minted)
Empty == [access |-> 0, auth |-> FALSE, user |-> None]
Idle == [pc |-> "idle", user |-> None, tok |-> 0]
(* best: sent with skipAuthFailure, best-effort.                           *)
At(pc) == [pc |-> pc, tok |-> 0, retried |-> FALSE, best |-> FALSE]
Callers == Requests \cup {"button"}

SessionInit ==
  /\ store = Empty /\ secure = 0 /\ session = 0 /\ identity = None /\ grant = "unused"
  /\ minted = <<>> /\ live = {}
  /\ req = [r \in Requests |-> At("new")]
  /\ refresh = Idle /\ signIn = Idle /\ out = [c \in Callers |-> "no"]
  /\ ended = "no"
  /\ count = [e \in {"signIn", "logout", "guest", "expiry", "failure", "kill", "cut", "install"} |-> 0]

(* Whatever starts during a log-out, it no longer has the app to itself.   *)
Disturbed == ended' = IF ended = "begun" THEN "no" ELSE ended
Disturbances == SumFunction([count EXCEPT !["signIn"] = 0])
Within(e, max) ==
  /\ count[e] < max /\ (e = "signIn" \/ Disturbances < MaxEvents)
  /\ count' = [count EXCEPT ![e] = @ + 1]
LoggingOut == \E c \in Callers : out[c] # "no"
InFlight(r) == req[r].pc \notin {"new", "done", "rejected"}
Busy == \/ LoggingOut
        \/ \E r \in Requests : InFlight(r)
        \/ refresh.pc # "idle" \/ signIn.pc # "idle"
Mint(u) == minted' = Append(minted, u) /\ live' = live \cup {Len(minted) + 1}

---------------------------------------------------------------------------
(* The request interceptor: the token of the store, whatever it is.        *)
Send(r) ==
  /\ req[r].pc = "new"
  /\ IF store.auth THEN UNCHANGED count ELSE Within("guest", MaxGuests)
  /\ \E b \in BOOLEAN : req' = [req EXCEPT ![r] = [At("sent") EXCEPT !.tok = store.access, !.best = b]]
  /\ Disturbed
  /\ UNCHANGED <<kept, minted, live, refresh, signIn, out>>

(* The server accepts the token: the request is answered.                  *)
Accepted(r) ==
  /\ req[r].pc = "sent" /\ req[r].tok \in live
  /\ req' = [req EXCEPT ![r] = At("done")]
  /\ UNCHANGED <<kept, minted, live, refresh, signIn, out, ended, count>>

Refused(r) == req[r].pc = "sent" /\ req[r].tok \notin live

(* 401: a best-effort request is rejected and nothing else happens.        *)
RefusedBestEffort(r) ==
  /\ Refused(r) /\ req[r].best
  /\ req' = [req EXCEPT ![r] = At("rejected")]
  /\ UNCHANGED <<kept, minted, live, refresh, signIn, out, ended, count>>

(* 401 of a first attempt: join the refresh in flight, or start it.        *)
RefusedFirst(r) ==
  /\ Refused(r) /\ ~req[r].best /\ ~req[r].retried
  /\ req' = [req EXCEPT ![r] = At("waiting")]
  /\ refresh' = IF refresh.pc = "idle" THEN [Idle EXCEPT !.pc = "read"] ELSE refresh
  /\ UNCHANGED <<kept, minted, live, signIn, out, ended, count>>

(* 401 of the retry: give the session up.                                  *)
RefusedAgain(r) ==
  /\ Refused(r) /\ ~req[r].best /\ req[r].retried
  /\ req' = [req EXCEPT ![r] = At("clearing")]
  /\ UNCHANGED <<kept, minted, live, refresh, signIn, out, ended, count>>

(* clearTokens.                                                            *)
TearTokens(r) ==
  /\ req[r].pc = "clearing" /\ secure' = 0
  /\ req' = [req EXCEPT ![r] = At("clearing2")]
  /\ UNCHANGED <<store, session, identity, grant, minted, live, refresh, signIn, out, ended, count>>

(* clearStoredSession, onAuthFailure starts logout, and the rejection.     *)
TearSession(r) ==
  /\ req[r].pc = "clearing2" /\ session' = 0
  /\ out' = [out EXCEPT ![r] = "clear"] /\ req' = [req EXCEPT ![r] = At("rejected")]
  /\ UNCHANGED <<store, secure, identity, grant, minted, live, refresh, signIn, ended, count>>

---------------------------------------------------------------------------
(* refreshSession, shared by every waiting request.  Without a durable     *)
(* identity it answers null.                                               *)
Waiting(r) == req[r].pc = "waiting"

(* Mutant: a refresh that comes to nothing answers only the request that   *)
(* started it.                                                             *)
RefreshNullOne ==
  /\ refresh' = Idle
  /\ \E r \in Requests : Waiting(r) /\ req' = [req EXCEPT ![r] = At("clearing")]

RefreshNull ==
  /\ refresh' = Idle
  /\ req' = [r \in Requests |-> IF Waiting(r) THEN At("clearing") ELSE req[r]]

(* The token's request leaves; a token already spent will be refused.      *)
RefreshRead ==
  /\ refresh.pc = "read"
  /\ IF identity = None THEN RefreshNull /\ UNCHANGED grant
     ELSE /\ refresh' = [refresh EXCEPT !.pc = IF grant = "spent" THEN "spent" ELSE "token", !.user = identity]
          /\ grant' = IF grant = "spent" THEN "spent" ELSE "presented"
          /\ UNCHANGED req
  /\ UNCHANGED <<store, secure, session, identity, minted, live, signIn, out, ended, count>>

(* The issuer takes the refresh token and rotates it, or keeps it.  What   *)
(* it rotates is the one presented, whatever a sign-in has stored since.   *)
Spend == grant' = IF grant = "presented" THEN "spent" ELSE grant
MaySpend == UNCHANGED grant \/ (refresh.pc = "token" /\ Spend)
RefreshRotate ==
  /\ refresh.pc = "token"
  /\ \/ Spend /\ refresh' = [refresh EXCEPT !.pc = "write"]
     \/ UNCHANGED grant /\ refresh' = [refresh EXCEPT !.pc = "mint"]
  /\ UNCHANGED <<store, secure, session, identity, minted, live, req, signIn, out, ended, count>>

(* A new refresh token is written back.                                    *)
RefreshWrite ==
  /\ refresh.pc = "write"
  /\ identity' = refresh.user /\ grant' = "unused" /\ refresh' = [refresh EXCEPT !.pc = "mint"]
  /\ UNCHANGED <<store, secure, session, minted, live, req, signIn, out, ended, count>>

(* invalid_grant, as for a spent token: what is stored is cleared.         *)
RefreshInvalid ==
  /\ \/ refresh.pc = "spent" /\ UNCHANGED count
     \/ refresh.pc = "token" /\ Within("failure", MaxFailures)
  /\ identity' = None /\ RefreshNull
  /\ UNCHANGED <<store, secure, session, grant, minted, live, signIn, out, ended>>

(* The issuer or auto-login cannot be reached, or its answer is lost.      *)
RefreshFails ==
  /\ refresh.pc \in {"token", "spent", "mint"} /\ Within("failure", MaxFailures) /\ RefreshNull
  /\ MaySpend
  /\ UNCHANGED <<store, secure, session, identity, minted, live, signIn, out, ended>>

(* auto-login mints a session and writes hc_session_token.                 *)
RefreshMint ==
  /\ refresh.pc = "mint" /\ Mint(refresh.user)
  /\ session' = Len(minted) + 1
  /\ refresh' = [refresh EXCEPT !.pc = "tokens", !.tok = Len(minted) + 1]
  /\ UNCHANGED <<store, secure, identity, grant, req, signIn, out, ended, count>>

RefreshTokens ==
  /\ refresh.pc = "tokens" /\ secure' = refresh.tok
  /\ refresh' = [refresh EXCEPT !.pc = "store"]
  /\ UNCHANGED <<store, session, identity, grant, minted, live, req, signIn, out, ended, count>>

(* Mutant: the shared refresh wakes nobody up.                             *)
ResentNone(token) == req

(* Every waiting request is sent again; the interceptor puts the store's   *)
(* token on it.                                                            *)
Resent(token) == [r \in Requests |->
  IF Waiting(r) THEN [At("sent") EXCEPT !.tok = token, !.retried = TRUE] ELSE req[r]]

(* Mutant: the fresh token is left out of the store, whose old one the     *)
(* interceptor then puts on the retry.                                     *)
RefreshStoreSkipped ==
  /\ refresh.pc = "store" /\ refresh' = Idle
  /\ req' = Resent(store.access)
  /\ UNCHANGED <<kept, minted, live, signIn, out, ended, count>>

(* setState leaves the store's user and guest flag as they are.            *)
RefreshStore ==
  /\ refresh.pc = "store" /\ refresh' = Idle
  /\ store' = [store EXCEPT !.access = refresh.tok, !.auth = TRUE]
  /\ req' = Resent(refresh.tok)
  /\ UNCHANGED <<secure, session, identity, grant, minted, live, signIn, out, ended, count>>

---------------------------------------------------------------------------
(* Signing in from the login screen.                                       *)
SignInStart(u) ==
  /\ signIn.pc = "idle" /\ ~store.auth /\ Within("signIn", MaxSignIns)
  /\ signIn' = [pc |-> "browser", user |-> u, tok |-> 0] /\ ended' = "no"
  /\ UNCHANGED <<kept, minted, live, req, refresh, out>>

(* The hosted page returns: its refresh token is stored.                   *)
SignInHosted ==
  /\ signIn.pc = "browser" /\ identity' = signIn.user /\ grant' = "unused"
  /\ signIn' = [signIn EXCEPT !.pc = "mint"]
  /\ UNCHANGED <<store, secure, session, minted, live, req, refresh, out, ended, count>>

(* Dismissed, or auto-login refused: the identity, once stored, stays.     *)
SignInFails ==
  /\ signIn.pc \in {"browser", "mint"} /\ Within("failure", MaxFailures)
  /\ signIn' = Idle
  /\ UNCHANGED <<kept, minted, live, req, refresh, out, ended>>

SignInMint ==
  /\ signIn.pc = "mint" /\ Mint(signIn.user)
  /\ session' = Len(minted) + 1
  /\ signIn' = [signIn EXCEPT !.pc = "tokens", !.tok = Len(minted) + 1]
  /\ UNCHANGED <<store, secure, identity, grant, req, refresh, out, ended, count>>

SignInTokens ==
  /\ signIn.pc = "tokens" /\ secure' = signIn.tok
  /\ signIn' = [signIn EXCEPT !.pc = "store"]
  /\ UNCHANGED <<store, session, identity, grant, minted, live, req, refresh, out, ended, count>>

SignInStore ==
  /\ signIn.pc = "store"
  /\ store' = [access |-> signIn.tok, auth |-> TRUE, user |-> signIn.user]
  /\ signIn' = [signIn EXCEPT !.pc = "mirror"]
  /\ UNCHANGED <<secure, session, identity, grant, minted, live, req, refresh, out, ended, count>>

(* completeSignIn: fetchSessionUser drops a session the server refuses.    *)
SignInMirror ==
  /\ signIn.pc = "mirror" /\ signIn' = Idle
  /\ session' = IF session \in live THEN session ELSE 0
  /\ UNCHANGED <<store, secure, identity, grant, minted, live, req, refresh, out, ended, count>>

---------------------------------------------------------------------------
(* The log-out button; in the admin app the provider's signOut runs first. *)
PressLogout ==
  /\ store.auth /\ out["button"] = "no" /\ Within("logout", MaxLogouts)
  /\ ended' = IF Busy THEN "no" ELSE "begun"
  /\ out' = [out EXCEPT !["button"] = IF ProviderSignOut THEN "bff" ELSE "clear"]
  /\ UNCHANGED <<kept, minted, live, req, refresh, signIn>>

(* logoutBFF ends the stored session on the server.                        *)
LogoutBff ==
  /\ out["button"] = "bff" /\ live' = live \ {session}
  /\ out' = [out EXCEPT !["button"] = "stored"]
  /\ UNCHANGED <<kept, minted, req, refresh, signIn, ended, count>>

LogoutStored ==
  /\ out["button"] = "stored" /\ session' = 0
  /\ out' = [out EXCEPT !["button"] = "zitadel"]
  /\ UNCHANGED <<store, secure, identity, grant, minted, live, req, refresh, signIn, ended, count>>

(* Mutant: the durable identity of the hosted login is not cleared.        *)
LogoutIdentityKept ==
  /\ out["button"] = "zitadel"
  /\ out' = [out EXCEPT !["button"] = "clear"]
  /\ UNCHANGED <<kept, minted, live, req, refresh, signIn, ended, count>>

LogoutIdentity ==
  /\ out["button"] = "zitadel" /\ identity' = None
  /\ out' = [out EXCEPT !["button"] = "clear"]
  /\ UNCHANGED <<store, secure, session, grant, minted, live, req, refresh, signIn, ended, count>>

(* The store's logout: clearTokens, then, after more Keychain writes, the  *)
(* state in memory.                                                        *)
LogoutTokens(c) ==
  /\ out[c] = "clear" /\ secure' = 0 /\ out' = [out EXCEPT ![c] = "reset"]
  /\ UNCHANGED <<store, session, identity, grant, minted, live, req, refresh, signIn, ended, count>>

LogoutReset(c) ==
  /\ out[c] = "reset" /\ store' = Empty /\ out' = [out EXCEPT ![c] = "no"]
  /\ ended' = IF c = "button" /\ ended = "begun" THEN "done" ELSE ended
  /\ UNCHANGED <<secure, session, identity, grant, minted, live, req, refresh, signIn, count>>

---------------------------------------------------------------------------
(* The server ends a session.                                              *)
Expire == \E t \in live :
  /\ Within("expiry", MaxExpiries) /\ live' = live \ {t}
  /\ UNCHANGED <<kept, minted, flows, ended>>

(* What a start finds: requests and flows are gone, hydrateFromStorage     *)
(* reads the access token back.                                            *)
Start(tok) ==
  /\ store' = [access |-> tok, auth |-> tok # 0, user |-> None]
  /\ req' = [r \in Requests |-> IF req[r].pc = "new" THEN req[r] ELSE At("rejected")]
  /\ refresh' = Idle /\ signIn' = Idle /\ out' = [c \in Callers |-> "no"]

Started == count["kill"] + count["cut"] + count["install"]
Starts(e) == Started < MaxStarts /\ Within(e, MaxStarts)
Kill ==
  /\ refresh.pc \notin {"token", "write"} /\ Starts("kill") /\ Start(secure) /\ Disturbed
  /\ UNCHANGED <<secure, session, identity, grant, minted, live>>

(* A kill while the refresh token is with the issuer: it may be spent,     *)
(* and what replaces it is lost.                                           *)
KillCut ==
  /\ refresh.pc \in {"token", "write"} /\ Starts("cut") /\ Start(secure) /\ Disturbed
  /\ MaySpend
  /\ UNCHANGED <<secure, session, identity, minted, live>>

(* The auth listener of a started app: without an identity the stored      *)
(* session goes, and with one it goes when the server refuses it.          *)
AuthStateChanged ==
  /\ Started > 0 /\ session # 0
  /\ identity = None \/ session \notin live
  /\ session' = 0
  /\ UNCHANGED <<store, secure, identity, grant, minted, live, flows, ended, count>>

(* A first launch after a reinstall: the Keychain survived, and the guard  *)
(* clears the keys of its list, which the identity is not on.              *)
Reinstall ==
  /\ Starts("install") /\ Start(0)
  /\ secure' = 0 /\ session' = 0 /\ Disturbed /\ MaySpend
  /\ UNCHANGED <<identity, minted, live>>

---------------------------------------------------------------------------
RequestStep(r) ==
  \/ Send(r) \/ Accepted(r) \/ RefusedBestEffort(r) \/ RefusedFirst(r) \/ RefusedAgain(r)
  \/ TearTokens(r) \/ TearSession(r)
RefreshStep ==
  \/ RefreshRead \/ RefreshRotate \/ RefreshWrite \/ RefreshInvalid \/ RefreshFails
  \/ RefreshMint \/ RefreshTokens \/ RefreshStore
SignInStep ==
  \/ \E u \in Users : SignInStart(u)
  \/ SignInHosted \/ SignInFails \/ SignInMint \/ SignInTokens \/ SignInStore \/ SignInMirror
LogoutStep ==
  \/ PressLogout \/ LogoutBff \/ LogoutStored \/ LogoutIdentity
  \/ \E c \in Callers : LogoutTokens(c) \/ LogoutReset(c)
Next ==
  \/ \E r \in Requests : RequestStep(r)
  \/ RefreshStep \/ SignInStep \/ LogoutStep
  \/ Expire \/ Kill \/ KillCut \/ AuthStateChanged \/ Reinstall

(* The promises and Keychain calls of a request or a refresh settle: every *)
(* network call has a timeout, the client's own or the platform's.         *)
Fairness ==
  /\ WF_vars(RefreshStep)
  /\ WF_vars(\E r \in Requests : InFlight(r) /\ RequestStep(r))

Spec == SessionInit /\ [][Next]_vars
LiveSpec == Spec /\ Fairness

---------------------------------------------------------------------------
(* The stores hold minted tokens, and every flow is at one of its steps.   *)
TypeOK ==
  /\ store \in [access : Tokens, auth : BOOLEAN, user : Users \cup {None}]
  /\ {secure, session} \subseteq Tokens /\ identity \in Users \cup {None}
  /\ grant \in {"unused", "presented", "spent"}
  /\ minted \in Seq(Users) /\ live \subseteq 1..Len(minted)
  /\ req \in [Requests -> [pc : {"new", "sent", "waiting", "clearing", "clearing2", "done", "rejected"},
                           tok : Tokens, retried : BOOLEAN, best : BOOLEAN]]
  /\ refresh \in [pc : {"idle", "read", "token", "spent", "write", "mint", "tokens", "store"}, user : Users \cup {None}, tok : Tokens]
  /\ signIn \in [pc : {"idle", "browser", "mint", "tokens", "store", "mirror"}, user : Users \cup {None}, tok : Tokens]
  /\ out \in [Callers -> {"no", "bff", "stored", "zitadel", "clear", "reset"}]
  /\ ended \in {"no", "begun", "done"}

(* A request waits only for a refresh that is in flight, and a refresh in  *)
(* flight has a request waiting for it.                                    *)
WaitersHaveRefresh == (\E r \in Requests : Waiting(r)) <=> refresh.pc # "idle"

(* An expired session does not sign anybody out: with refreshes that       *)
(* succeed, one session ended by the server, nobody logging out and no     *)
(* request sent while signed out, a user who is signed in stays signed in, *)
(* whatever requests are in flight and whenever the app is killed, except  *)
(* while the refresh token is with the issuer: a token rotated there and   *)
(* not written back ends the session at the next 401.                      *)
Calm ==
  /\ \A e \in {"failure", "logout", "install", "guest", "cut"} : count[e] = 0
  /\ count["expiry"] <= 1
StaysSignedIn == [][store.auth /\ Calm' => store'.auth]_vars

(* Where the provider's signOut runs, a log-out that had the app to itself *)
(* ends the session: no later request, refresh or restart signs the user   *)
(* in again.                                                               *)
LoggedOutStaysOut == ProviderSignOut /\ ended = "done" => ~store.auth

(* Every request that is sent is answered or rejected, through refresh,    *)
(* retry and teardown: time and again none is in flight.                   *)
RequestsEnd == []<>(\A r \in Requests : ~InFlight(r))
=============================================================================
