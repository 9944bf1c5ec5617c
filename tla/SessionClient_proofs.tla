------------------------ MODULE SessionClient_proofs ------------------------
(***************************************************************************)
(* What the session of a mobile app guarantees, for any number of users    *)
(* and requests and any bounds on what happens to them.                    *)
(***************************************************************************)
EXTENDS SessionClient, TLAPS

Requesting == [pc : {"new", "sent", "waiting", "clearing", "clearing2", "done", "rejected"},
               tok : Tokens, retried : BOOLEAN, best : BOOLEAN]
Refreshing == [pc : {"idle", "read", "token", "spent", "write", "mint", "tokens", "store"},
               user : Users \cup {None}, tok : Tokens]
SigningIn == [pc : {"idle", "browser", "mint", "tokens", "store", "mirror"},
              user : Users \cup {None}, tok : Tokens]
Stored == [access : Tokens, auth : BOOLEAN, user : Users \cup {None}]

(* TypeOK's parts; a refresh and a sign-in under way have a user.          *)
MintedOK == minted \in Seq(Users) /\ live \subseteq 1..Len(minted)
StoreOK == store \in Stored
KeychainOK == secure \in Tokens /\ session \in Tokens /\ identity \in Users \cup {None}
GrantOK == grant \in {"unused", "presented", "spent"}
RequestsOK == req \in [Requests -> Requesting]
RefreshOK == refresh \in Refreshing /\ (refresh.pc \in {"token", "write",
"mint"} => refresh.user # None)
SignInOK == signIn \in SigningIn /\ (signIn.pc \in {"browser", "mint"} => signIn.user # None)
LogoutOK == out \in [Callers -> {"no", "bff", "stored", "zitadel", "clear", "reset"}]
            /\ ended \in {"no", "begun", "done"}

(* What a refresh that finds an identity goes on with.                     *)
ReadOn == [refresh EXCEPT !.pc = IF grant = "spent" THEN "spent" ELSE "token", !.user = identity]

(* A step may mint one token more, and every token there was stays one.    *)
Grow == Tokens \subseteq Tokens' /\ 0 \in Tokens'

LEMMA MintGrows ==
  ASSUME MintedOK, NEW u \in Users, Mint(u)
  PROVE  MintedOK' /\ Grow /\ Len(minted) + 1 \in Tokens'
<1>1. minted' \in Seq(Users) /\ Len(minted') = Len(minted) + 1 /\ Len(minted) \in Nat
  BY DEF Mint, MintedOK
<1>2. live \subseteq 1..Len(minted) /\ live' = live \cup {Len(minted) + 1}
  BY DEF Mint, MintedOK
<1>3. Tokens = 0..Len(minted) /\ Tokens' = 0..Len(minted')
  BY DEF Tokens
<1>4. live' \subseteq 1..Len(minted')
  <2>1. ASSUME NEW n \in Nat, NEW S, S \subseteq 1..n PROVE S \cup {n + 1} \subseteq 1..(n + 1)
    BY <2>1
  <2> QED
    BY <1>1, <1>2, <2>1
<1> QED
  BY <1>1, <1>3, <1>4 DEF MintedOK, Grow

LEMMA MintedStep ==
  ASSUME SessionAssumption, MintedOK, RefreshOK, SignInOK, [Next]_vars
  PROVE  MintedOK' /\ Grow
<1>1. CASE RefreshMint
  BY <1>1, MintGrows DEF RefreshMint, RefreshOK, Refreshing
<1>2. CASE SignInMint
  BY <1>2, MintGrows DEF SignInMint, SignInOK, SigningIn
<1>3. CASE UNCHANGED minted /\ live' \subseteq live
  BY <1>3 DEF MintedOK, Grow, Tokens
<1> QED
  BY <1>1, <1>2, <1>3 DEF Next, RequestStep, RefreshStep, SignInStep, LogoutStep, vars, flows,
    kept, LogoutBff, Expire, Send, Disturbed, Accepted, RefusedBestEffort, RefusedFirst,
    RefusedAgain, TearTokens, TearSession, RefreshRead, RefreshNull, RefreshRotate, RefreshWrite,
    RefreshInvalid,
    RefreshFails, RefreshTokens, RefreshStore, SignInStart, SignInHosted, SignInFails, SignInTokens,
    SignInStore, SignInMirror, PressLogout, LogoutStored, LogoutIdentity, LogoutTokens, LogoutReset,
    Kill, KillCut, Start, AuthStateChanged, Reinstall

(* Every step keeps the parts of the type invariant (six lemmas).          *)
LEMMA StoreStep ==
  ASSUME Grow, StoreOK, KeychainOK, RefreshOK, SignInOK, [Next]_vars
  PROVE  StoreOK'
<1>1. CASE RefreshStore
  BY <1>1 DEF RefreshStore, Resent, Waiting, RefreshOK, Refreshing, Grow, StoreOK, Stored
<1>2. CASE SignInStore
  BY <1>2 DEF SignInStore, SignInOK, SigningIn, Grow, StoreOK, Stored
<1>3. ASSUME NEW c \in Callers, LogoutReset(c) PROVE StoreOK'
  BY <1>3 DEF LogoutReset, Empty, Grow, StoreOK, Stored
<1>4. CASE Kill
  BY <1>4 DEF Kill, Start, Disturbed, KeychainOK, Grow, StoreOK, Stored
<1>4c. CASE KillCut
  BY <1>4c DEF KillCut, Start, Disturbed, KeychainOK, Grow, StoreOK, Stored
<1>5. CASE Reinstall
  BY <1>5 DEF Reinstall, Start, Disturbed, Grow, StoreOK, Stored
<1>6. CASE UNCHANGED store
  BY <1>6 DEF Grow, StoreOK, Stored
<1> QED
  BY <1>1, <1>2, <1>3, <1>4, <1>4c, <1>5, <1>6 DEF Next, RequestStep, RefreshStep, SignInStep,
    LogoutStep, vars, flows, kept, Send, Disturbed, Accepted, RefusedBestEffort, RefusedFirst,
    RefusedAgain, TearTokens, TearSession, RefreshRead, RefreshNull, RefreshRotate, RefreshWrite,
    RefreshInvalid,
    RefreshFails, RefreshMint, Mint, RefreshTokens, SignInStart, SignInHosted, SignInFails,
    SignInMint, SignInTokens, SignInMirror, PressLogout, LogoutBff, LogoutStored, LogoutIdentity,
    LogoutTokens, Expire, AuthStateChanged

LEMMA KeychainStep ==
  ASSUME SessionAssumption, MintedOK, Grow, KeychainOK, RefreshOK, SignInOK, [Next]_vars
  PROVE  KeychainOK'
<1>1. ASSUME NEW r \in Requests, TearTokens(r) PROVE KeychainOK'
  BY <1>1 DEF TearTokens, Grow, KeychainOK
<1>2. ASSUME NEW r \in Requests, TearSession(r) PROVE KeychainOK'
  BY <1>2 DEF TearSession, Grow, KeychainOK
<1>3. CASE RefreshRotate
  BY <1>3 DEF RefreshRotate, RefreshOK, Refreshing, Grow, KeychainOK
<1>3w. CASE RefreshWrite
  BY <1>3w DEF RefreshWrite, RefreshOK, Refreshing, Grow, KeychainOK
<1>4. CASE RefreshInvalid
  BY <1>4 DEF RefreshInvalid, RefreshNull, Waiting, Grow, KeychainOK
<1>5. CASE RefreshMint
  BY <1>5, MintGrows DEF RefreshMint, Mint, RefreshOK, Refreshing, Grow, KeychainOK
<1>6. CASE RefreshTokens
  BY <1>6 DEF RefreshTokens, RefreshOK, Refreshing, Grow, KeychainOK
<1>7. CASE SignInHosted
  BY <1>7 DEF SignInHosted, SignInOK, SigningIn, Grow, KeychainOK
<1>8. CASE SignInMint
  BY <1>8, MintGrows DEF SignInMint, Mint, SignInOK, SigningIn, Grow, KeychainOK
<1>9. CASE SignInTokens
  BY <1>9 DEF SignInTokens, SignInOK, SigningIn, Grow, KeychainOK
<1>10. CASE SignInMirror
  BY <1>10 DEF SignInMirror, Grow, KeychainOK
<1>11. CASE LogoutStored
  BY <1>11 DEF LogoutStored, Grow, KeychainOK
<1>12. CASE LogoutIdentity
  BY <1>12 DEF LogoutIdentity, Grow, KeychainOK
<1>13. ASSUME NEW c \in Callers, LogoutTokens(c) PROVE KeychainOK'
  BY <1>13 DEF LogoutTokens, Grow, KeychainOK
<1>14. CASE AuthStateChanged
  BY <1>14 DEF AuthStateChanged, Grow, KeychainOK
<1>15. CASE Reinstall
  BY <1>15 DEF Reinstall, Start, Disturbed, Grow, KeychainOK
<1>16. CASE UNCHANGED <<secure, session, identity>>
  BY <1>16 DEF Grow, KeychainOK
<1> QED
  BY <1>1, <1>2, <1>3, <1>3w, <1>4, <1>5, <1>6, <1>7, <1>8, <1>9, <1>10, <1>11, <1>12, <1>13, <1>14,
    <1>15, <1>16 DEF Next, RequestStep, RefreshStep, SignInStep, LogoutStep, vars, flows, kept,
    Send, Disturbed, Accepted, RefusedBestEffort, RefusedFirst, RefusedAgain, RefreshRead,
    RefreshNull, RefreshFails, RefreshStore, SignInStart, SignInFails, SignInStore, PressLogout,
    LogoutBff, LogoutReset, Expire, Kill, KillCut, Start

LEMMA RequestsStep ==
  ASSUME Grow, RequestsOK, StoreOK, RefreshOK, [Next]_vars
  PROVE  RequestsOK'
<1>1. ASSUME NEW r \in Requests, Send(r) PROVE RequestsOK'
  <2>1. PICK b \in BOOLEAN : req' = [req EXCEPT ![r] = [At("sent") EXCEPT !.tok = store.access,
  !.best = b]]
    BY <1>1 DEF Send
  <2>2. [At("sent") EXCEPT !.tok = store.access, !.best = b] \in Requesting'
    BY DEF StoreOK, Stored, Grow, Requesting, At
  <2>3. req \in [Requests -> Requesting']
    BY DEF Grow, RequestsOK, Requesting
  <2> QED
    BY <2>1, <2>2, <2>3 DEF RequestsOK
<1>2. ASSUME NEW r \in Requests, Accepted(r) PROVE RequestsOK'
  BY <1>2 DEF Accepted, Grow, RequestsOK, Requesting, At
<1>3. ASSUME NEW r \in Requests, RefusedBestEffort(r) PROVE RequestsOK'
  BY <1>3 DEF RefusedBestEffort, Refused, Grow, RequestsOK, Requesting, At
<1>4. ASSUME NEW r \in Requests, RefusedFirst(r) PROVE RequestsOK'
  BY <1>4 DEF RefusedFirst, Refused, Grow, RequestsOK, Requesting, At
<1>5. ASSUME NEW r \in Requests, RefusedAgain(r) PROVE RequestsOK'
  BY <1>5 DEF RefusedAgain, Refused, Grow, RequestsOK, Requesting, At
<1>6. ASSUME NEW r \in Requests, TearTokens(r) PROVE RequestsOK'
  BY <1>6 DEF TearTokens, Grow, RequestsOK, Requesting, At
<1>7. ASSUME NEW r \in Requests, TearSession(r) PROVE RequestsOK'
  BY <1>7 DEF TearSession, Grow, RequestsOK, Requesting, At
<1>8. CASE RefreshRead
  <2>1. CASE RefreshNull
    BY <2>1 DEF RefreshNull, Waiting, Grow, RequestsOK, Requesting, At
  <2>2. CASE UNCHANGED req
    BY <2>2 DEF Grow, RequestsOK, Requesting
  <2> QED
    BY <1>8, <2>1, <2>2 DEF RefreshRead
<1>9. CASE RefreshInvalid
  BY <1>9 DEF RefreshInvalid, RefreshNull, Waiting, Grow, RequestsOK, Requesting, At
<1>10. CASE RefreshFails
  BY <1>10 DEF RefreshFails, RefreshNull, Waiting, Grow, RequestsOK, Requesting, At
<1>11. CASE RefreshStore
  BY <1>11 DEF RefreshStore, Resent, Waiting, RefreshOK, Refreshing, Grow, RequestsOK, Requesting,
    At
<1>12. CASE Kill
  BY <1>12 DEF Kill, Start, Disturbed, Grow, RequestsOK, Requesting, At
<1>12c. CASE KillCut
  BY <1>12c DEF KillCut, Start, Disturbed, Grow, RequestsOK, Requesting, At
<1>13. CASE Reinstall
  BY <1>13 DEF Reinstall, Start, Disturbed, Grow, RequestsOK, Requesting, At
<1>14. CASE UNCHANGED req
  BY <1>14 DEF Grow, RequestsOK, Requesting, At
<1> QED
  BY <1>1, <1>2, <1>3, <1>4, <1>5, <1>6, <1>7, <1>8, <1>9, <1>10, <1>11, <1>12, <1>12c, <1>13,
    <1>14 DEF
    Next, RequestStep, RefreshStep, SignInStep, LogoutStep, vars, flows, kept, RefreshRotate,
    RefreshWrite,
    RefreshMint, Mint, RefreshTokens, SignInStart, SignInHosted, SignInFails, SignInMint,
    SignInTokens, SignInStore, SignInMirror, PressLogout, LogoutBff, LogoutStored, LogoutIdentity,
    LogoutTokens, LogoutReset, Expire, AuthStateChanged

LEMMA RefreshingStep ==
  ASSUME MintedOK, Grow, RefreshOK, KeychainOK, [Next]_vars
  PROVE  RefreshOK'
<1>1. ASSUME NEW r \in Requests, RefusedFirst(r) PROVE RefreshOK'
  BY <1>1 DEF RefusedFirst, Refused, Grow, RefreshOK, Refreshing, Idle
<1>2. CASE RefreshRead
  <2>1. CASE RefreshNull
    BY <2>1 DEF RefreshNull, Grow, RefreshOK, Refreshing, Idle
  <2>2. CASE identity # None /\ refresh' = ReadOn
    BY <2>2 DEF ReadOn, KeychainOK, Grow, RefreshOK, Refreshing
  <2> QED
    BY <1>2, <2>1, <2>2 DEF RefreshRead, ReadOn
<1>3. CASE RefreshRotate
  BY <1>3 DEF RefreshRotate, Grow, RefreshOK, Refreshing, Idle
<1>3w. CASE RefreshWrite
  BY <1>3w DEF RefreshWrite, Grow, RefreshOK, Refreshing, Idle
<1>4. CASE RefreshInvalid
  BY <1>4 DEF RefreshInvalid, RefreshNull, Waiting, Grow, RefreshOK, Refreshing, Idle
<1>5. CASE RefreshFails
  BY <1>5 DEF RefreshFails, RefreshNull, Waiting, Grow, RefreshOK, Refreshing, Idle
<1>6. CASE RefreshMint
  BY <1>6, MintGrows DEF RefreshMint, Mint, Grow, RefreshOK, Refreshing, Idle
<1>7. CASE RefreshTokens
  BY <1>7 DEF RefreshTokens, Grow, RefreshOK, Refreshing, Idle
<1>8. CASE RefreshStore
  BY <1>8 DEF RefreshStore, Resent, Waiting, Grow, RefreshOK, Refreshing, Idle
<1>9. CASE Kill
  BY <1>9 DEF Kill, Start, Disturbed, Grow, RefreshOK, Refreshing, Idle
<1>9c. CASE KillCut
  BY <1>9c DEF KillCut, Start, Disturbed, Grow, RefreshOK, Refreshing, Idle
<1>10. CASE Reinstall
  BY <1>10 DEF Reinstall, Start, Disturbed, Grow, RefreshOK, Refreshing, Idle
<1>11. CASE UNCHANGED refresh
  BY <1>11 DEF Grow, RefreshOK, Refreshing, Idle
<1> QED
  BY <1>1, <1>2, <1>3, <1>3w, <1>4, <1>5, <1>6, <1>7, <1>8, <1>9, <1>9c, <1>10, <1>11 DEF Next,
    RequestStep,
    RefreshStep, SignInStep, LogoutStep, vars, flows, kept, Send, Disturbed, Accepted,
    RefusedBestEffort, RefusedAgain, TearTokens, TearSession, SignInStart, SignInHosted,
    SignInFails, SignInMint, Mint, SignInTokens, SignInStore, SignInMirror, PressLogout, LogoutBff,
    LogoutStored, LogoutIdentity, LogoutTokens, LogoutReset, Expire, AuthStateChanged

LEMMA SignInOKStep ==
  ASSUME SessionAssumption, MintedOK, Grow, SignInOK, [Next]_vars
  PROVE  SignInOK'
<1>1. ASSUME NEW u \in Users, SignInStart(u) PROVE SignInOK'
  BY <1>1 DEF SignInStart, SessionAssumption, Grow, SignInOK, SigningIn, Idle
<1>2. CASE SignInHosted
  BY <1>2 DEF SignInHosted, Grow, SignInOK, SigningIn, Idle
<1>3. CASE SignInFails
  BY <1>3 DEF SignInFails, Grow, SignInOK, SigningIn, Idle
<1>4. CASE SignInMint
  BY <1>4, MintGrows DEF SignInMint, Mint, Grow, SignInOK, SigningIn, Idle
<1>5. CASE SignInTokens
  BY <1>5 DEF SignInTokens, Grow, SignInOK, SigningIn, Idle
<1>6. CASE SignInStore
  BY <1>6 DEF SignInStore, Grow, SignInOK, SigningIn, Idle
<1>7. CASE SignInMirror
  BY <1>7 DEF SignInMirror, Grow, SignInOK, SigningIn, Idle
<1>8. CASE Kill
  BY <1>8 DEF Kill, Start, Disturbed, Grow, SignInOK, SigningIn, Idle
<1>8c. CASE KillCut
  BY <1>8c DEF KillCut, Start, Disturbed, Grow, SignInOK, SigningIn, Idle
<1>9. CASE Reinstall
  BY <1>9 DEF Reinstall, Start, Disturbed, Grow, SignInOK, SigningIn, Idle
<1>10. CASE UNCHANGED signIn
  BY <1>10 DEF Grow, SignInOK, SigningIn, Idle
<1> QED
  BY <1>1, <1>2, <1>3, <1>4, <1>5, <1>6, <1>7, <1>8, <1>8c, <1>9, <1>10 DEF Next, RequestStep,
    RefreshStep, SignInStep, LogoutStep, vars, flows, kept, Send, Disturbed, Accepted,
    RefusedBestEffort, RefusedFirst, RefusedAgain, TearTokens, TearSession, RefreshRead,
    RefreshNull, RefreshRotate, RefreshWrite, RefreshInvalid, RefreshFails, RefreshMint, Mint,
    RefreshTokens,
    RefreshStore, PressLogout, LogoutBff, LogoutStored, LogoutIdentity, LogoutTokens, LogoutReset,
    Expire, AuthStateChanged

LEMMA LogoutOKStep ==
  ASSUME LogoutOK, [Next]_vars
  PROVE  LogoutOK'
<1>1. ASSUME NEW r \in Requests, Send(r) PROVE LogoutOK'
  BY <1>1 DEF Send, Within, Disturbed, LogoutOK
<1>2. ASSUME NEW r \in Requests, TearSession(r) PROVE LogoutOK'
  BY <1>2 DEF TearSession, LogoutOK
<1>3. ASSUME NEW u \in Users, SignInStart(u) PROVE LogoutOK'
  BY <1>3 DEF SignInStart, LogoutOK
<1>4. CASE PressLogout
  BY <1>4 DEF PressLogout, Busy, InFlight, LoggingOut, LogoutOK
<1>5. CASE LogoutBff
  BY <1>5 DEF LogoutBff, LogoutOK
<1>6. CASE LogoutStored
  BY <1>6 DEF LogoutStored, LogoutOK
<1>7. CASE LogoutIdentity
  BY <1>7 DEF LogoutIdentity, LogoutOK
<1>8. ASSUME NEW c \in Callers, LogoutTokens(c) PROVE LogoutOK'
  BY <1>8 DEF LogoutTokens, LogoutOK
<1>9. ASSUME NEW c \in Callers, LogoutReset(c) PROVE LogoutOK'
  BY <1>9 DEF LogoutReset, LogoutOK
<1>10. CASE Kill
  BY <1>10 DEF Kill, Start, Disturbed, LogoutOK
<1>10c. CASE KillCut
  BY <1>10c DEF KillCut, Start, Disturbed, LogoutOK
<1>11. CASE Reinstall
  BY <1>11 DEF Reinstall, Start, Disturbed, LogoutOK
<1>12. CASE UNCHANGED <<out, ended>>
  BY <1>12 DEF LogoutOK
<1> QED
  BY <1>1, <1>2, <1>3, <1>4, <1>5, <1>6, <1>7, <1>8, <1>9, <1>10, <1>10c, <1>11, <1>12 DEF Next,
    RequestStep, RefreshStep, SignInStep, LogoutStep, vars, flows, kept, Accepted,
    RefusedBestEffort, RefusedFirst, RefusedAgain, TearTokens, RefreshRead, RefreshNull,
    RefreshRotate, RefreshWrite, RefreshInvalid, RefreshFails, RefreshMint, Mint, RefreshTokens,
    RefreshStore,
    SignInHosted, SignInFails, SignInMint, SignInTokens, SignInStore, SignInMirror, Expire,
    AuthStateChanged

LEMMA GrantStep == GrantOK /\ [Next]_vars => GrantOK'
BY DEF GrantOK, Next, RequestStep, RefreshStep, SignInStep, LogoutStep, vars, flows, kept, Send,
  Accepted, RefusedBestEffort, RefusedFirst, RefusedAgain, TearTokens, TearSession, RefreshRead,
  RefreshRotate, Spend, MaySpend, RefreshWrite, RefreshInvalid, RefreshFails, RefreshMint,
  RefreshTokens, RefreshStore, SignInStart, SignInHosted, SignInFails, SignInMint, SignInTokens,
  SignInStore, SignInMirror, PressLogout, LogoutBff, LogoutStored, LogoutIdentity, LogoutTokens,
  LogoutReset, Expire, Kill, KillCut, AuthStateChanged, Reinstall

(* A request waits only for a refresh in flight, which serves all of them. *)
LEMMA WaitersStep ==
  ASSUME RequestsOK, RefreshOK, WaitersHaveRefresh, [Next]_vars
  PROVE  WaitersHaveRefresh'
<1>1. ASSUME NEW r \in Requests, Send(r) PROVE WaitersHaveRefresh'
  BY <1>1 DEF Send, Within, Disturbed, Waiting, At, WaitersHaveRefresh, RequestsOK, RefreshOK,
    Idle, Refreshing
<1>2. ASSUME NEW r \in Requests, Accepted(r) PROVE WaitersHaveRefresh'
  BY <1>2 DEF Accepted, Waiting, At, WaitersHaveRefresh, RequestsOK, RefreshOK, Idle, Refreshing
<1>3. ASSUME NEW r \in Requests, RefusedBestEffort(r) PROVE WaitersHaveRefresh'
  BY <1>3 DEF RefusedBestEffort, Refused, Waiting, At, WaitersHaveRefresh, RequestsOK, RefreshOK,
    Idle, Refreshing
<1>4. ASSUME NEW r \in Requests, RefusedFirst(r) PROVE WaitersHaveRefresh'
  BY <1>4 DEF RefusedFirst, Refused, Waiting, At, WaitersHaveRefresh, RequestsOK, RefreshOK, Idle,
    Refreshing
<1>5. ASSUME NEW r \in Requests, RefusedAgain(r) PROVE WaitersHaveRefresh'
  BY <1>5 DEF RefusedAgain, Refused, Waiting, At, WaitersHaveRefresh, RequestsOK, RefreshOK, Idle,
    Refreshing
<1>6. ASSUME NEW r \in Requests, TearTokens(r) PROVE WaitersHaveRefresh'
  BY <1>6 DEF TearTokens, Waiting, At, WaitersHaveRefresh, RequestsOK, RefreshOK, Idle, Refreshing
<1>7. ASSUME NEW r \in Requests, TearSession(r) PROVE WaitersHaveRefresh'
  BY <1>7 DEF TearSession, Waiting, At, WaitersHaveRefresh, RequestsOK, RefreshOK, Idle,
    Refreshing
<1>8. CASE RefreshRead
  <2>1. CASE RefreshNull
    BY <2>1 DEF RefreshNull, WaitersHaveRefresh, Waiting, At, Idle, RequestsOK
  <2>2. CASE refresh' = ReadOn /\ UNCHANGED req
    BY <1>8, <2>2 DEF RefreshRead, ReadOn, WaitersHaveRefresh, Waiting, RefreshOK, Refreshing
  <2> QED
    BY <1>8, <2>1, <2>2 DEF RefreshRead, ReadOn
<1>9. CASE RefreshRotate
  BY <1>9 DEF RefreshRotate, Waiting, At, WaitersHaveRefresh, RequestsOK, RefreshOK, Idle,
    Refreshing
<1>9w. CASE RefreshWrite
  BY <1>9w DEF RefreshWrite, Waiting, At, WaitersHaveRefresh, RequestsOK, RefreshOK, Idle,
    Refreshing
<1>10. CASE RefreshInvalid
  BY <1>10 DEF RefreshInvalid, RefreshNull, Waiting, At, WaitersHaveRefresh, RequestsOK,
    RefreshOK, Idle, Refreshing
<1>11. CASE RefreshFails
  BY <1>11 DEF RefreshFails, RefreshNull, Waiting, At, WaitersHaveRefresh, RequestsOK, RefreshOK,
    Idle, Refreshing
<1>12. CASE RefreshMint
  BY <1>12 DEF RefreshMint, Mint, Waiting, At, WaitersHaveRefresh, RequestsOK, RefreshOK, Idle,
    Refreshing
<1>13. CASE RefreshTokens
  BY <1>13 DEF RefreshTokens, Waiting, At, WaitersHaveRefresh, RequestsOK, RefreshOK, Idle,
    Refreshing
<1>14. CASE RefreshStore
  BY <1>14 DEF RefreshStore, Resent, Waiting, At, WaitersHaveRefresh, RequestsOK, RefreshOK, Idle,
    Refreshing
<1>15. CASE Kill
  BY <1>15 DEF Kill, Start, Disturbed, Waiting, At, WaitersHaveRefresh, RequestsOK, RefreshOK,
    Idle, Refreshing
<1>15c. CASE KillCut
  BY <1>15c DEF KillCut, Start, Disturbed, Waiting, At, WaitersHaveRefresh, RequestsOK, RefreshOK,
    Idle, Refreshing
<1>16. CASE Reinstall
  BY <1>16 DEF Reinstall, Start, Disturbed, Waiting, At, WaitersHaveRefresh, RequestsOK,
    RefreshOK, Idle, Refreshing
<1>17. CASE UNCHANGED <<req, refresh>>
  BY <1>17 DEF WaitersHaveRefresh, Waiting, RequestsOK, RefreshOK, Idle, Refreshing
<1> QED
  BY <1>1, <1>2, <1>3, <1>4, <1>5, <1>6, <1>7, <1>8, <1>9, <1>9w, <1>10, <1>11, <1>12, <1>13, <1>14,
    <1>15, <1>15c, <1>16, <1>17 DEF Next, RequestStep, RefreshStep, SignInStep, LogoutStep, vars,
    flows,
    kept, SignInStart, SignInHosted, SignInFails, SignInMint, Mint, SignInTokens, SignInStore,
    SignInMirror, PressLogout, LogoutBff, LogoutStored, LogoutIdentity, LogoutTokens, LogoutReset,
    Expire, AuthStateChanged

(* Where the provider's signOut runs, a log-out with nothing else under    *)
(* way takes the identity and then the tokens away; while the user stays   *)
(* out, only a refresh that finds no identity, and its teardown, can run.  *)
LoggingOutAlone ==
  ProviderSignOut /\ ended = "begun" =>
    /\ \A r \in Requests : ~InFlight(r) /\ out[r] = "no"
    /\ refresh.pc = "idle" /\ signIn.pc = "idle"
    /\ out["button"] \in {"bff", "stored", "zitadel", "clear", "reset"}
    /\ out["button"] \in {"clear", "reset"} => identity = None
    /\ out["button"] = "reset" => secure = 0
LoggedOut ==
  ProviderSignOut /\ ended = "done" =>
    /\ identity = None /\ secure = 0 /\ ~store.auth
    /\ refresh.pc \in {"idle", "read"} /\ signIn.pc = "idle"
    /\ out["button"] \notin {"bff", "stored", "zitadel"}

LEMMA AloneStep ==
  ASSUME SessionAssumption, RequestsOK, RefreshOK, SignInOK, LogoutOK, LoggingOutAlone,
         WaitersHaveRefresh, [Next]_vars
  PROVE  LoggingOutAlone'
<1>1. ASSUME NEW r \in Requests, Send(r) PROVE LoggingOutAlone'
  BY <1>1 DEF Send, Within, Disturbed, LoggingOutAlone, InFlight
<1>2. ASSUME NEW r \in Requests, Accepted(r) PROVE LoggingOutAlone'
  BY <1>2 DEF Accepted, LoggingOutAlone, InFlight
<1>3. ASSUME NEW r \in Requests, RefusedBestEffort(r) PROVE LoggingOutAlone'
  BY <1>3 DEF RefusedBestEffort, Refused, LoggingOutAlone, InFlight
<1>4. ASSUME NEW r \in Requests, RefusedFirst(r) PROVE LoggingOutAlone'
  BY <1>4 DEF RefusedFirst, Refused, LoggingOutAlone, InFlight
<1>5. ASSUME NEW r \in Requests, RefusedAgain(r) PROVE LoggingOutAlone'
  BY <1>5 DEF RefusedAgain, Refused, LoggingOutAlone, InFlight
<1>6. ASSUME NEW r \in Requests, TearTokens(r) PROVE LoggingOutAlone'
  BY <1>6 DEF TearTokens, LoggingOutAlone, InFlight
<1>7. ASSUME NEW r \in Requests, TearSession(r) PROVE LoggingOutAlone'
  BY <1>7 DEF TearSession, LogoutOK, Callers, LoggingOutAlone, InFlight
<1>8. CASE RefreshRead
  <2>1. \E r \in Requests : InFlight(r)
    BY <1>8 DEF RefreshRead, WaitersHaveRefresh, Waiting, InFlight
  <2> QED
    BY <1>8, <2>1 DEF RefreshRead, LoggingOutAlone
<1>9. CASE RefreshRotate
  BY <1>9 DEF RefreshRotate, LoggingOutAlone, InFlight
<1>9w. CASE RefreshWrite
  BY <1>9w DEF RefreshWrite, LoggingOutAlone, InFlight
<1>10. CASE RefreshInvalid
  BY <1>10 DEF RefreshInvalid, RefreshNull, Waiting, LoggingOutAlone, InFlight
<1>11. CASE RefreshFails
  BY <1>11 DEF RefreshFails, RefreshNull, Waiting, LoggingOutAlone, InFlight
<1>12. CASE RefreshMint
  BY <1>12 DEF RefreshMint, Mint, LoggingOutAlone, InFlight
<1>13. CASE RefreshTokens
  BY <1>13 DEF RefreshTokens, LoggingOutAlone, InFlight
<1>14. CASE RefreshStore
  BY <1>14 DEF RefreshStore, Resent, Waiting, LoggingOutAlone, InFlight
<1>15. ASSUME NEW u \in Users, SignInStart(u) PROVE LoggingOutAlone'
  BY <1>15 DEF SignInStart, LoggingOutAlone, InFlight
<1>16. CASE SignInHosted
  BY <1>16 DEF SignInHosted, LoggingOutAlone, InFlight
<1>17. CASE SignInFails
  BY <1>17 DEF SignInFails, LoggingOutAlone, InFlight
<1>18. CASE SignInMint
  BY <1>18 DEF SignInMint, Mint, LoggingOutAlone, InFlight
<1>19. CASE SignInTokens
  BY <1>19 DEF SignInTokens, LoggingOutAlone, InFlight
<1>20. CASE SignInStore
  BY <1>20 DEF SignInStore, LoggingOutAlone, InFlight
<1>21. CASE SignInMirror
  BY <1>21 DEF SignInMirror, LoggingOutAlone, InFlight
<1>22. CASE PressLogout
  BY <1>22 DEF PressLogout, Busy, InFlight, LoggingOut, LogoutOK, Callers, SessionAssumption,
    LoggingOutAlone
<1>23. CASE LogoutBff
  BY <1>23 DEF LogoutBff, LogoutOK, Callers, LoggingOutAlone, InFlight
<1>24. CASE LogoutStored
  BY <1>24 DEF LogoutStored, LogoutOK, Callers, LoggingOutAlone, InFlight
<1>25. CASE LogoutIdentity
  BY <1>25 DEF LogoutIdentity, LogoutOK, Callers, LoggingOutAlone, InFlight
<1>26. ASSUME NEW c \in Callers, LogoutTokens(c) PROVE LoggingOutAlone'
  BY <1>26 DEF LogoutTokens, LogoutOK, Callers, SessionAssumption, LoggingOutAlone, InFlight
<1>27. ASSUME NEW c \in Callers, LogoutReset(c) PROVE LoggingOutAlone'
  BY <1>27 DEF LogoutReset, LogoutOK, Callers, SessionAssumption, LoggingOutAlone, InFlight
<1>28. CASE Kill
  BY <1>28 DEF Kill, Start, Disturbed, LoggingOutAlone, InFlight
<1>28c. CASE KillCut
  BY <1>28c DEF KillCut, Start, Disturbed, LoggingOutAlone, InFlight
<1>29. CASE Reinstall
  BY <1>29 DEF Reinstall, Start, Disturbed, LoggingOutAlone, InFlight
<1>30. CASE UNCHANGED <<req, refresh, signIn, out, identity, secure, ended>>
  BY <1>30 DEF LoggingOutAlone, InFlight
<1> QED
  BY <1>1, <1>2, <1>3, <1>4, <1>5, <1>6, <1>7, <1>8, <1>9, <1>9w, <1>10, <1>11, <1>12, <1>13, <1>14,
    <1>15, <1>16, <1>17, <1>18, <1>19, <1>20, <1>21, <1>22, <1>23, <1>24, <1>25, <1>26, <1>27,
    <1>28, <1>28c, <1>29, <1>30 DEF Next, RequestStep, RefreshStep, SignInStep, LogoutStep, vars,
    flows,
    kept, Expire, AuthStateChanged

LEMMA LoggedOutStep ==
  ASSUME SessionAssumption, RequestsOK, RefreshOK, SignInOK, LogoutOK, LoggingOutAlone,
         LoggedOut, [Next]_vars
  PROVE  LoggedOut'
<1>1. ASSUME NEW r \in Requests, Send(r) PROVE LoggedOut'
  BY <1>1 DEF Send, Disturbed, kept, LoggedOut
<1>2. ASSUME NEW r \in Requests, RefusedFirst(r) PROVE LoggedOut'
  BY <1>2 DEF RefusedFirst, kept, RefreshOK, Refreshing, Idle, LoggedOut
<1>3. ASSUME NEW r \in Requests, TearTokens(r) PROVE LoggedOut'
  BY <1>3 DEF TearTokens, LoggedOut
<1>4. ASSUME NEW r \in Requests, TearSession(r) PROVE LoggedOut'
  BY <1>4 DEF TearSession, LogoutOK, Callers, SessionAssumption, LoggedOut
<1>5. CASE RefreshRead
  <2>1. identity = None => refresh' = Idle
    BY <1>5 DEF RefreshRead, RefreshNull
  <2> QED
    BY <1>5, <2>1 DEF RefreshRead, kept, Idle, LoggedOut
<1>6. CASE RefreshRotate
  BY <1>6 DEF RefreshRotate, Idle, LoggedOut
<1>6w. CASE RefreshWrite
  BY <1>6w DEF RefreshWrite, Idle, LoggedOut
<1>7. CASE RefreshInvalid
  BY <1>7 DEF RefreshInvalid, RefreshNull, Waiting, Idle, LoggedOut
<1>8. CASE RefreshFails
  BY <1>8 DEF RefreshFails, RefreshNull, Waiting, Idle, LoggedOut
<1>9. CASE RefreshMint
  BY <1>9 DEF RefreshMint, Mint, LoggedOut
<1>10. CASE RefreshTokens
  BY <1>10 DEF RefreshTokens, LoggedOut
<1>11. CASE RefreshStore
  BY <1>11 DEF RefreshStore, Resent, Waiting, LoggedOut
<1>12. ASSUME NEW u \in Users, SignInStart(u) PROVE LoggedOut'
  BY <1>12 DEF SignInStart, LoggedOut
<1>13. CASE SignInHosted
  BY <1>13 DEF SignInHosted, LoggedOut
<1>14. CASE SignInFails
  BY <1>14 DEF SignInFails, LoggedOut
<1>15. CASE SignInMint
  BY <1>15 DEF SignInMint, Mint, LoggedOut
<1>16. CASE SignInTokens
  BY <1>16 DEF SignInTokens, LoggedOut
<1>17. CASE SignInStore
  BY <1>17 DEF SignInStore, LoggedOut
<1>18. CASE SignInMirror
  BY <1>18 DEF SignInMirror, LoggedOut
<1>19. CASE PressLogout
  BY <1>19 DEF PressLogout, Busy, InFlight, LoggingOut, LoggedOut
<1>20. CASE LogoutBff
  BY <1>20 DEF LogoutBff, LoggedOut
<1>21. CASE LogoutStored
  BY <1>21 DEF LogoutStored, LoggedOut
<1>22. CASE LogoutIdentity
  BY <1>22 DEF LogoutIdentity, LoggedOut
<1>23. ASSUME NEW c \in Callers, LogoutTokens(c) PROVE LoggedOut'
  BY <1>23 DEF LogoutTokens, LogoutOK, Callers, SessionAssumption, LoggedOut
<1>24. ASSUME NEW c \in Callers, LogoutReset(c) PROVE LoggedOut'
  BY <1>24 DEF LogoutReset, LoggingOutAlone, LogoutOK, Callers, Empty, LoggedOut
<1>25. CASE Kill
  BY <1>25 DEF Kill, Start, Disturbed, Callers, Idle, LoggedOut
<1>25c. CASE KillCut
  BY <1>25c DEF KillCut, Start, Disturbed, Callers, Idle, LoggedOut
<1>26. CASE Reinstall
  BY <1>26 DEF Reinstall, Start, Disturbed, Callers, Idle, LoggedOut
<1>27. CASE UNCHANGED <<ended, identity, secure, store, refresh, signIn, out>>
  BY <1>27 DEF LoggedOut
<1> QED
  BY <1>1, <1>2, <1>3, <1>4, <1>5, <1>6, <1>6w, <1>7, <1>8, <1>9, <1>10, <1>11, <1>12, <1>13, <1>14,
    <1>15, <1>16, <1>17, <1>18, <1>19, <1>20, <1>21, <1>22, <1>23, <1>24, <1>25, <1>25c, <1>26,
    <1>27 DEF
    Next, RequestStep, RefreshStep, SignInStep, LogoutStep, vars, flows, kept, Accepted,
    RefusedBestEffort, RefusedAgain, Expire, AuthStateChanged

SessionInv ==
  /\ MintedOK /\ StoreOK /\ KeychainOK /\ RequestsOK /\ RefreshOK /\ SignInOK /\ LogoutOK
  /\ GrantOK /\ WaitersHaveRefresh /\ LoggingOutAlone /\ LoggedOut

(* The invariant holds at the start, after every step, and so always.      *)
LEMMA SessionStart == SessionInit => SessionInv
<1> SUFFICES ASSUME SessionInit PROVE SessionInv
  OBVIOUS
<1>1. Tokens = 0..0 /\ MintedOK
  BY DEF SessionInit, Tokens, MintedOK
<1>2. StoreOK /\ KeychainOK /\ GrantOK /\ RequestsOK
  BY <1>1 DEF SessionInit, GrantOK, StoreOK, Stored, Empty, KeychainOK, RequestsOK, Requesting, At
<1>3. RefreshOK /\ SignInOK /\ LogoutOK
  BY <1>1 DEF SessionInit, RefreshOK, Refreshing, SignInOK, SigningIn, Idle, LogoutOK
<1>4. WaitersHaveRefresh /\ LoggingOutAlone /\ LoggedOut
  BY DEF SessionInit, WaitersHaveRefresh, Waiting, At, Idle, LoggingOutAlone, LoggedOut
<1> QED
  BY <1>1, <1>2, <1>3, <1>4 DEF SessionInv

LEMMA SessionStep == SessionInv /\ [Next]_vars => SessionInv'
<1> SUFFICES ASSUME SessionInv, [Next]_vars PROVE SessionInv'
  OBVIOUS
<1>1. /\ MintedOK /\ StoreOK /\ KeychainOK /\ RequestsOK /\ RefreshOK /\ SignInOK /\ LogoutOK
      /\ GrantOK /\ WaitersHaveRefresh /\ LoggingOutAlone /\ LoggedOut
  BY DEF SessionInv
<1>2. MintedOK' /\ Grow
  BY <1>1, SessionAssumption, MintedStep
<1>3. StoreOK' /\ KeychainOK' /\ GrantOK'
  BY <1>1, <1>2, SessionAssumption, StoreStep, KeychainStep, GrantStep
<1>4. RequestsOK' /\ RefreshOK'
  BY <1>1, <1>2, RequestsStep, RefreshingStep
<1>5. SignInOK' /\ LogoutOK'
  BY <1>1, <1>2, SessionAssumption, SignInOKStep, LogoutOKStep
<1>6. WaitersHaveRefresh' /\ LoggingOutAlone' /\ LoggedOut'
  BY <1>1, SessionAssumption, WaitersStep, AloneStep, LoggedOutStep
<1> QED
  BY <1>2, <1>3, <1>4, <1>5, <1>6 DEF SessionInv

LEMMA SessionInvariant == Spec => []SessionInv
BY SessionStart, SessionStep, PTL DEF Spec

(* The stores hold tokens that were minted, and every flow of the client   *)
(* is at one of its steps.                                                 *)
THEOREM SessionTypeCorrect == Spec => []TypeOK
<1>1. SessionInv => TypeOK
  BY DEF SessionInv, TypeOK, MintedOK, StoreOK, Stored, KeychainOK, GrantOK, RequestsOK,
    Requesting, RefreshOK, Refreshing, SignInOK, SigningIn, LogoutOK
<1> QED
  BY SessionInvariant, <1>1, PTL

(* No request waits for a refresh that has ended, and no refresh runs for  *)
(* nobody (client.ts's inFlightRefresh).                                   *)
THEOREM NoWaiterIsForgotten == Spec => []WaitersHaveRefresh
<1>1. SessionInv => WaitersHaveRefresh
  BY DEF SessionInv
<1> QED
  BY SessionInvariant, <1>1, PTL

(* In the admin app a log-out with nothing else under way ends the         *)
(* session: no later request, refresh or restart signs the user in again.  *)
THEOREM LogoutIsFinal == Spec => []LoggedOutStaysOut
<1>1. SessionInv => LoggedOutStaysOut
  BY DEF SessionInv, LoggedOut, LoggedOutStaysOut
<1> QED
  BY SessionInvariant, <1>1, PTL

(* Counts only grow, so a calm past is a prefix of the behaviour.          *)
Events == {"signIn", "logout", "guest", "expiry", "failure", "kill", "cut", "install"}
Loud == {"failure", "logout", "install", "guest", "cut"}
CountOK == count \in [Events -> Nat]

LEMMA CountStep ==
  ASSUME CountOK, [Next]_vars
  PROVE  CountOK' /\ (Calm' => Calm)
<1>1. ASSUME NEW e \in Events, NEW max, Within(e, max) PROVE CountOK' /\ (Calm' => Calm)
  <2>1. count' = [count EXCEPT ![e] = @ + 1]
    BY <1>1 DEF Within
  <2>2. CountOK' /\ \A x \in Events : count[x] \in Nat /\ count'[x] \in Nat /\ count[x] <= count'[x]
    BY <2>1 DEF CountOK
  <2> QED
    BY <2>2 DEF Calm, Events
<1>2. CASE UNCHANGED count
  BY <1>2 DEF CountOK, Calm
<1> QED
  BY <1>1, <1>2 DEF Next, RequestStep, RefreshStep, SignInStep, LogoutStep, vars, Events, Starts,
    Send, Accepted, RefusedBestEffort, RefusedFirst, RefusedAgain, TearTokens, TearSession,
    RefreshRead, RefreshRotate, RefreshWrite, RefreshInvalid, RefreshFails, RefreshMint,
    RefreshTokens,
    RefreshStore, SignInStart, SignInHosted, SignInFails, SignInMint, SignInTokens, SignInStore,
    SignInMirror, PressLogout, LogoutBff, LogoutStored, LogoutIdentity, LogoutTokens, LogoutReset,
    Expire, Kill, KillCut, AuthStateChanged, Reinstall

LEMMA LoudIsNotCalm ==
  ASSUME CountOK, NEW e \in Loud, NEW max, Within(e, max)
  PROVE  ~Calm'
BY DEF Within, CountOK, Calm, Events, Loud

(* In a calm past every token but one is accepted, the identity and the    *)
(* stored token are there for whoever is signed in, and what was sent      *)
(* again carries a token minted after the one that was ended.              *)
OneEnded ==
  Calm => /\ \A s, t \in (1..Len(minted)) \ live : s = t
          /\ count["expiry"] = 0 => 1..Len(minted) \subseteq live
          /\ count["expiry"] # 0 => minted # <<>>
IdentityKept ==
  Calm /\ (minted # <<>> \/ signIn.pc \notin {"idle", "browser"}) => identity # None
NotSpent == Calm => /\ refresh.pc # "spent"
                    /\ grant = "spent" => refresh.pc = "write"
RefreshHasIdentity == refresh.pc \in {"token", "write", "mint"} /\ Calm => identity # None
TokenKept ==
  Calm => /\ store.auth => store.access # 0
          /\ store.auth \/ signIn.pc = "store" \/ refresh.pc = "store" => secure # 0
          /\ signIn.pc \in {"tokens", "store"} => signIn.tok # 0
          /\ refresh.pc \in {"tokens", "store"} => refresh.tok # 0
NobodyLeaves ==
  Calm => /\ \A r \in Requests : req[r].pc \notin {"clearing", "clearing2"}
          /\ \A c \in Callers : out[c] = "no"
RetriesAreFresh ==
  Calm => /\ refresh.pc # "idle" => count["expiry"] # 0
          /\ refresh.pc \in {"tokens", "store"} => refresh.tok \in live
          /\ \A r \in Requests : req[r].pc = "sent" =>
               /\ req[r].tok # 0
               /\ req[r].retried => req[r].tok \in live /\ count["expiry"] # 0
CalmInv == CountOK /\ OneEnded /\ NotSpent /\ IdentityKept /\ RefreshHasIdentity
           /\ TokenKept /\ NobodyLeaves /\ RetriesAreFresh

LEMMA OneEndedStep ==
  ASSUME CountOK, MintedOK, RefreshOK, SignInOK, NobodyLeaves, LogoutOK, OneEnded, Calm, Calm',
         [Next]_vars
  PROVE  OneEnded'
<1>1. ASSUME NEW u, Mint(u), UNCHANGED count PROVE OneEnded'
  <2>1. Len(minted') = Len(minted) + 1 /\ Len(minted) \in Nat /\ minted' # <<>>
    BY <1>1 DEF Mint, MintedOK
  <2>2. \A t \in (1..Len(minted')) \ live' : t \in (1..Len(minted)) \ live
    BY <1>1, <2>1 DEF Mint
  <2> QED
    BY <1>1, <2>1, <2>2 DEF OneEnded
<1>2. CASE Expire
  <2>1. PICK t \in live : Within("expiry", MaxExpiries) /\ live' = live \ {t} /\ UNCHANGED minted
    BY <1>2 DEF Expire
  <2>2. count["expiry"] \in Nat /\ count'["expiry"] = count["expiry"] + 1
    BY <2>1 DEF Within, CountOK, Events
  <2>3. count["expiry"] = 0
    BY <2>2 DEF Calm
  <2>4. 1..Len(minted) \subseteq live /\ minted # <<>>
    BY <2>1, <2>3 DEF OneEnded, MintedOK
  <2> QED
    BY <2>1, <2>2, <2>3, <2>4 DEF OneEnded
<1>3. CASE LogoutBff
  BY <1>3 DEF LogoutBff, NobodyLeaves, Callers
<1>4. CASE UNCHANGED <<minted, live>> /\ count'["expiry"] = count["expiry"]
  BY <1>4 DEF OneEnded
<1> QED
  BY <1>1, <1>2, <1>3, <1>4 DEF Next, RequestStep, RefreshStep, SignInStep, LogoutStep, vars,
    flows, kept, RefreshMint, SignInMint, Within, Starts, CountOK, Events, Send, Accepted,
    RefusedBestEffort, RefusedFirst, RefusedAgain, TearTokens, TearSession, RefreshRead,
    RefreshRotate, RefreshWrite, RefreshInvalid, RefreshFails, RefreshTokens, RefreshStore,
    SignInStart,
    SignInHosted, SignInFails, SignInTokens, SignInStore, SignInMirror, PressLogout, LogoutStored,
    LogoutIdentity, LogoutTokens, LogoutReset, Kill, KillCut, AuthStateChanged, Reinstall, Start

(* What does not happen in a calm past.                                    *)
LEMMA Unheard ==
  ASSUME CountOK, NotSpent, Calm, Calm'
  PROVE  /\ ~RefreshInvalid /\ ~RefreshFails /\ ~SignInFails /\ ~PressLogout /\ ~Reinstall
         /\ ~KillCut /\ \A r \in Requests : Send(r) => store.auth
BY LoudIsNotCalm DEF NotSpent, KillCut, RefreshInvalid, RefreshFails, SignInFails, PressLogout,
  Reinstall, Starts, Send, Loud

(* The issuer has spent a refresh token only while its successor waits to  *)
(* be written.                                                             *)
LEMMA NotSpentStep ==
  ASSUME RefreshOK, CountOK, NotSpent, Calm, Calm', [Next]_vars
  PROVE  NotSpent'
<1>1. ASSUME NEW r \in Requests, RefusedFirst(r) PROVE NotSpent'
  BY <1>1 DEF RefusedFirst, Refused, Idle, kept, NotSpent
<1>2. CASE RefreshRead
  <2>1. grant # "spent" /\ grant' # "spent"
    BY <1>2 DEF RefreshRead, NotSpent
  <2>2. refresh' = Idle \/ refresh' = [refresh EXCEPT !.pc = "token", !.user = identity]
    BY <1>2, <2>1 DEF RefreshRead, RefreshNull
  <2>3. refresh' = Idle => refresh'.pc # "spent"
    BY DEF Idle
  <2>4. refresh' = [refresh EXCEPT !.pc = "token", !.user = identity] => refresh'.pc # "spent"
    BY DEF RefreshOK, Refreshing
  <2> QED
    BY <2>1, <2>2, <2>3, <2>4 DEF NotSpent
<1>3. CASE RefreshRotate
  BY <1>3 DEF RefreshRotate, RefreshOK, Refreshing, NotSpent
<1>4. CASE RefreshWrite
  BY <1>4 DEF RefreshWrite, RefreshOK, Refreshing, NotSpent
<1>5. CASE RefreshMint
  BY <1>5 DEF RefreshMint, RefreshOK, Refreshing, NotSpent
<1>6. CASE RefreshTokens
  BY <1>6 DEF RefreshTokens, RefreshOK, Refreshing, NotSpent
<1>7. CASE RefreshStore
  BY <1>7 DEF RefreshStore, Idle, NotSpent
<1>8. CASE SignInHosted
  BY <1>8 DEF SignInHosted, NotSpent
<1>9. CASE Kill
  BY <1>9 DEF Kill, Start, Idle, NotSpent
<1>10. CASE UNCHANGED <<grant, refresh>>
  BY <1>10 DEF NotSpent
<1> QED
  BY Unheard, <1>1, <1>2, <1>3, <1>4, <1>5, <1>6, <1>7, <1>8, <1>9, <1>10 DEF Next, RequestStep,
    RefreshStep, SignInStep, LogoutStep, vars, flows, kept, Send, Accepted, RefusedBestEffort,
    RefusedAgain, TearTokens, TearSession, SignInStart, SignInMint, SignInTokens, SignInStore,
    SignInMirror, LogoutBff, LogoutStored, LogoutIdentity, LogoutTokens, LogoutReset, Expire,
    AuthStateChanged

LEMMA IdentityStep ==
  ASSUME SessionAssumption, MintedOK, RefreshOK, SignInOK, LogoutOK, NobodyLeaves, IdentityKept,
         RefreshHasIdentity, CountOK, NotSpent, Calm, Calm', [Next]_vars
  PROVE  IdentityKept'
<1>1. CASE RefreshRotate
  BY <1>1 DEF RefreshRotate, RefreshOK, kept, IdentityKept
<1>1w. CASE RefreshWrite
  BY <1>1w DEF RefreshWrite, RefreshOK, kept, IdentityKept
<1>2. CASE RefreshMint
  BY <1>2 DEF RefreshMint, Mint, RefreshHasIdentity, IdentityKept
<1>3. ASSUME NEW u \in Users, SignInStart(u) PROVE IdentityKept'
  BY <1>3 DEF SignInStart, kept, IdentityKept
<1>4. CASE SignInHosted
  BY <1>4 DEF SignInHosted, SignInOK, SigningIn, IdentityKept
<1>5. CASE SignInMint
  BY <1>5 DEF SignInMint, Mint, MintedOK, SignInOK, SigningIn, IdentityKept
<1>6. CASE SignInTokens
  BY <1>6 DEF SignInTokens, IdentityKept
<1>7. CASE SignInStore
  BY <1>7 DEF SignInStore, IdentityKept
<1>8. CASE SignInMirror
  BY <1>8 DEF SignInMirror, IdentityKept
<1>9. CASE LogoutIdentity
  BY <1>9 DEF LogoutIdentity, NobodyLeaves, Callers, IdentityKept
<1>10. CASE Kill
  BY <1>10 DEF Kill, Start, Disturbed, Idle, IdentityKept
<1>11. CASE UNCHANGED <<identity, minted, signIn>>
  BY <1>11 DEF IdentityKept
<1> QED
  BY Unheard, <1>1, <1>1w, <1>2, <1>3, <1>4, <1>5, <1>6, <1>7, <1>8, <1>9, <1>10, <1>11 DEF Next,
    RequestStep, RefreshStep, SignInStep, LogoutStep, vars, flows, kept, Send, Disturbed,
    Accepted, RefusedBestEffort, RefusedFirst, RefusedAgain, TearTokens, TearSession, RefreshRead,
    RefreshNull, RefreshTokens, RefreshStore, LogoutBff, LogoutStored, LogoutTokens, LogoutReset,
    Expire, AuthStateChanged, Start

LEMMA RefreshHasStep ==
  ASSUME SessionAssumption, RefreshOK, SignInOK, NobodyLeaves, RefreshHasIdentity, CountOK,
  NotSpent, Calm, 
         Calm', [Next]_vars
  PROVE  RefreshHasIdentity'
<1>1. ASSUME NEW r \in Requests, RefusedFirst(r) PROVE RefreshHasIdentity'
  BY <1>1 DEF RefusedFirst, Refused, Idle, kept, RefreshHasIdentity
<1>2. CASE RefreshRead
  <2>1. CASE RefreshNull
    BY <2>1 DEF RefreshNull, RefreshHasIdentity, Idle
  <2>2. CASE identity # None /\ UNCHANGED identity
    BY <2>2 DEF RefreshHasIdentity
  <2> QED
    BY <1>2, <2>1, <2>2 DEF RefreshRead, kept
<1>3. CASE RefreshRotate
  BY <1>3 DEF RefreshRotate, RefreshOK, Refreshing, RefreshHasIdentity
<1>3w. CASE RefreshWrite
  BY <1>3w DEF RefreshWrite, RefreshOK, Refreshing, RefreshHasIdentity
<1>4. CASE RefreshMint
  BY <1>4 DEF RefreshMint, Mint, RefreshHasIdentity
<1>5. CASE RefreshTokens
  BY <1>5 DEF RefreshTokens, RefreshHasIdentity
<1>6. CASE RefreshStore
  BY <1>6 DEF RefreshStore, Resent, Waiting, Idle, RefreshHasIdentity
<1>7. CASE SignInHosted
  BY <1>7 DEF SignInHosted, SignInOK, SigningIn, RefreshHasIdentity
<1>8. CASE LogoutIdentity
  BY <1>8 DEF LogoutIdentity, NobodyLeaves, Callers, RefreshHasIdentity
<1>9. CASE Kill
  BY <1>9 DEF Kill, Start, Disturbed, Idle, RefreshHasIdentity
<1>10. CASE UNCHANGED <<identity, refresh>>
  BY <1>10 DEF RefreshHasIdentity
<1> QED
  BY Unheard, <1>1, <1>2, <1>3, <1>3w, <1>4, <1>5, <1>6, <1>7, <1>8, <1>9, <1>10 DEF Next,
    RequestStep,
    RefreshStep, SignInStep, LogoutStep, vars, flows, kept, Send, Disturbed, Accepted,
    RefusedBestEffort, RefusedAgain, TearTokens, TearSession, RefreshNull, SignInStart,
    SignInMint, Mint, SignInTokens, SignInStore, SignInMirror, LogoutBff, LogoutStored,
    LogoutTokens, LogoutReset, Expire, AuthStateChanged, Start

LEMMA TokenKeptStep ==
  ASSUME MintedOK, StoreOK, KeychainOK, RefreshOK, SignInOK, NobodyLeaves, TokenKept, CountOK,
  NotSpent,
         Calm, Calm', [Next]_vars
  PROVE  TokenKept'
<1>1. ASSUME NEW r \in Requests, RefusedFirst(r) PROVE TokenKept'
  BY <1>1 DEF RefusedFirst, Refused, Idle, kept, TokenKept
<1>2. ASSUME NEW r \in Requests, TearTokens(r) PROVE TokenKept'
  BY <1>2 DEF TearTokens, NobodyLeaves, TokenKept
<1>3. CASE RefreshRead
  <2>1. refresh'.pc \in {"idle", "token", "spent"} /\ UNCHANGED <<store, secure, signIn>>
    <3>1. RefreshNull \/ refresh' = ReadOn
      BY <1>3 DEF RefreshRead, ReadOn
    <3>2. refresh'.pc \in {"idle", "token", "spent"}
      <4>1. CASE RefreshNull
        BY <4>1 DEF RefreshNull, Idle
      <4>2. CASE refresh' = ReadOn
        BY <4>2 DEF ReadOn, RefreshOK, Refreshing
      <4> QED
        BY <3>1, <4>1, <4>2
    <3> QED
      BY <1>3, <3>2 DEF RefreshRead, kept
  <2> QED
    BY <2>1 DEF TokenKept
<1>4. CASE RefreshRotate
  BY <1>4 DEF RefreshRotate, RefreshOK, Refreshing, TokenKept
<1>4w. CASE RefreshWrite
  BY <1>4w DEF RefreshWrite, RefreshOK, Refreshing, TokenKept
<1>5. CASE RefreshMint
  BY <1>5 DEF RefreshMint, Mint, MintedOK, RefreshOK, Refreshing, TokenKept
<1>6. CASE RefreshTokens
  BY <1>6 DEF RefreshTokens, RefreshOK, Refreshing, TokenKept
<1>7. CASE RefreshStore
  BY <1>7 DEF RefreshStore, Resent, Waiting, RefreshOK, Refreshing, Idle, StoreOK, Stored,
    TokenKept
<1>8. ASSUME NEW u \in Users, SignInStart(u) PROVE TokenKept'
  BY <1>8 DEF SignInStart, kept, TokenKept
<1>9. CASE SignInHosted
  BY <1>9 DEF SignInHosted, SignInOK, SigningIn, TokenKept
<1>10. CASE SignInMint
  BY <1>10 DEF SignInMint, Mint, MintedOK, SignInOK, SigningIn, TokenKept
<1>11. CASE SignInTokens
  BY <1>11 DEF SignInTokens, SignInOK, SigningIn, TokenKept
<1>12. CASE SignInStore
  BY <1>12 DEF SignInStore, SignInOK, SigningIn, TokenKept
<1>13. CASE SignInMirror
  BY <1>13 DEF SignInMirror, Idle, TokenKept
<1>14. ASSUME NEW c \in Callers, LogoutTokens(c) PROVE TokenKept'
  BY <1>14 DEF LogoutTokens, NobodyLeaves, TokenKept
<1>15. ASSUME NEW c \in Callers, LogoutReset(c) PROVE TokenKept'
  BY <1>15 DEF LogoutReset, NobodyLeaves, TokenKept
<1>16. CASE Kill
  BY <1>16 DEF Kill, Start, Disturbed, Idle, KeychainOK, TokenKept
<1>17. CASE UNCHANGED <<store, secure, signIn, refresh>>
  BY <1>17 DEF TokenKept
<1> QED
  BY Unheard, <1>1, <1>2, <1>3, <1>4, <1>4w, <1>5, <1>6, <1>7, <1>8, <1>9, <1>10, <1>11, <1>12,
    <1>13,
    <1>14, <1>15, <1>16, <1>17 DEF Next, RequestStep, RefreshStep, SignInStep, LogoutStep, vars,
    flows, kept, Send, Disturbed, Accepted, RefusedBestEffort, RefusedAgain, TearSession,
    RefreshNull, LogoutBff, LogoutStored, LogoutIdentity, Expire, AuthStateChanged, Start

LEMMA NobodyLeavesStep ==
  ASSUME RequestsOK, LogoutOK, OneEnded, IdentityKept, RetriesAreFresh, NobodyLeaves, CountOK,
  NotSpent,
         Calm, Calm', [Next]_vars
  PROVE  NobodyLeaves'
<1>1. ASSUME NEW r \in Requests, Send(r) PROVE NobodyLeaves'
  BY <1>1 DEF Send, Within, Disturbed, RequestsOK, At, NobodyLeaves
<1>2. ASSUME NEW r \in Requests, Accepted(r) PROVE NobodyLeaves'
  BY <1>2 DEF Accepted, RequestsOK, At, NobodyLeaves
<1>3. ASSUME NEW r \in Requests, RefusedBestEffort(r) PROVE NobodyLeaves'
  BY <1>3 DEF RefusedBestEffort, Refused, RequestsOK, At, NobodyLeaves
<1>4. ASSUME NEW r \in Requests, RefusedFirst(r) PROVE NobodyLeaves'
  BY <1>4 DEF RefusedFirst, Refused, RequestsOK, At, NobodyLeaves
<1>5. ASSUME NEW r \in Requests, RefusedAgain(r) PROVE NobodyLeaves'
  BY <1>5 DEF RefusedAgain, Refused, RetriesAreFresh, NobodyLeaves
<1>6. ASSUME NEW r \in Requests, TearTokens(r) PROVE NobodyLeaves'
  BY <1>6 DEF TearTokens, NobodyLeaves
<1>7. ASSUME NEW r \in Requests, TearSession(r) PROVE NobodyLeaves'
  BY <1>7 DEF TearSession, NobodyLeaves
<1>8. CASE RefreshRead
  <2>1. identity # None
    BY <1>8 DEF RefreshRead, RetriesAreFresh, OneEnded, IdentityKept
  <2>2. UNCHANGED <<req, out>>
    BY <1>8, <2>1 DEF RefreshRead
  <2> QED
    BY <2>2 DEF NobodyLeaves
<1>9. CASE RefreshStore
  BY <1>9 DEF RefreshStore, Resent, Waiting, RequestsOK, At, NobodyLeaves
<1>10. CASE LogoutBff
  BY <1>10 DEF LogoutBff, Callers, NobodyLeaves
<1>11. CASE LogoutStored
  BY <1>11 DEF LogoutStored, Callers, NobodyLeaves
<1>12. CASE LogoutIdentity
  BY <1>12 DEF LogoutIdentity, Callers, NobodyLeaves
<1>13. ASSUME NEW c \in Callers, LogoutTokens(c) PROVE NobodyLeaves'
  BY <1>13 DEF LogoutTokens, Callers, NobodyLeaves
<1>14. ASSUME NEW c \in Callers, LogoutReset(c) PROVE NobodyLeaves'
  BY <1>14 DEF LogoutReset, Callers, NobodyLeaves
<1>15. CASE Kill
  BY <1>15 DEF Kill, Start, Disturbed, RequestsOK, At, NobodyLeaves
<1>16. CASE UNCHANGED <<req, out>>
  BY <1>16 DEF NobodyLeaves
<1> QED
  BY Unheard, <1>1, <1>2, <1>3, <1>4, <1>5, <1>6, <1>7, <1>8, <1>9, <1>10, <1>11, <1>12, <1>13,
    <1>14, <1>15, <1>16 DEF Next, RequestStep, RefreshStep, SignInStep, LogoutStep, vars, flows,
    kept, RefreshRotate, RefreshWrite, RefreshNull, RefreshMint, Mint, RefreshTokens,
    SignInStart, SignInHosted,
    SignInMint, SignInTokens, SignInStore, SignInMirror, Expire, AuthStateChanged, Start,
    Disturbed

LEMMA RetriesStep ==
  ASSUME MintedOK, StoreOK, KeychainOK, RequestsOK, RefreshOK, OneEnded, IdentityKept, TokenKept,
         NobodyLeaves, RetriesAreFresh, CountOK, NotSpent, Calm, Calm', [Next]_vars
  PROVE  RetriesAreFresh'
<1>1. ASSUME NEW r \in Requests, Send(r) PROVE RetriesAreFresh'
  <2>1. store.access # 0 /\ UNCHANGED <<refresh, live>> /\ UNCHANGED count
    BY <1>1, Unheard DEF Send, TokenKept
  <2>2. PICK b \in BOOLEAN : req' = [req EXCEPT ![r] = [At("sent") EXCEPT !.tok = store.access,
  !.best = b]]
    BY <1>1 DEF Send
  <2> QED
    BY <2>1, <2>2 DEF RetriesAreFresh, RequestsOK, At
<1>2. ASSUME NEW r \in Requests, Accepted(r) PROVE RetriesAreFresh'
  BY <1>2 DEF Accepted, RequestsOK, At, RetriesAreFresh
<1>3. ASSUME NEW r \in Requests, RefusedBestEffort(r) PROVE RetriesAreFresh'
  BY <1>3 DEF RefusedBestEffort, Refused, RequestsOK, At, RetriesAreFresh
<1>4. ASSUME NEW r \in Requests, RefusedFirst(r) PROVE RetriesAreFresh'
  <2>1. req[r].tok \in (1..Len(minted)) \ live
    BY <1>4 DEF RefusedFirst, Refused, RetriesAreFresh, RequestsOK, Requesting, Tokens, MintedOK
  <2>2. count["expiry"] # 0
    BY <2>1 DEF OneEnded
  <2> QED
    BY <1>4, <2>2 DEF RefusedFirst, RetriesAreFresh, RequestsOK, At, Idle, kept
<1>5. ASSUME NEW r \in Requests, RefusedAgain(r) PROVE RetriesAreFresh'
  BY <1>5 DEF RefusedAgain, Refused, RetriesAreFresh
<1>6. ASSUME NEW r \in Requests, TearTokens(r) PROVE RetriesAreFresh'
  BY <1>6 DEF TearTokens, NobodyLeaves, RetriesAreFresh
<1>7. ASSUME NEW r \in Requests, TearSession(r) PROVE RetriesAreFresh'
  BY <1>7 DEF TearSession, NobodyLeaves, RetriesAreFresh
<1>8. CASE RefreshRead
  <2>1. identity # None
    BY <1>8 DEF RefreshRead, RetriesAreFresh, OneEnded, IdentityKept
  <2>2. refresh' = ReadOn /\ UNCHANGED <<req, count, live>>
    BY <1>8, <2>1 DEF RefreshRead, ReadOn
  <2> QED
    BY <1>8, <2>2 DEF RefreshRead, ReadOn, RetriesAreFresh, RefreshOK, Refreshing
<1>9. CASE RefreshRotate
  BY <1>9 DEF RefreshRotate, RefreshOK, Refreshing, RetriesAreFresh
<1>9w. CASE RefreshWrite
  BY <1>9w DEF RefreshWrite, RefreshOK, Refreshing, RetriesAreFresh
<1>10. CASE RefreshMint
  BY <1>10 DEF RefreshMint, Mint, RefreshOK, Refreshing, MintedOK, RetriesAreFresh
<1>11. CASE RefreshTokens
  BY <1>11 DEF RefreshTokens, RefreshOK, Refreshing, RetriesAreFresh
<1>12. CASE RefreshStore
  BY <1>12 DEF RefreshStore, Resent, Waiting, TokenKept, RequestsOK, RefreshOK, Refreshing, Idle,
    At, RetriesAreFresh
<1>13. ASSUME NEW u \in Users, SignInStart(u) PROVE RetriesAreFresh'
  BY <1>13 DEF SignInStart, Within, CountOK, Events, RetriesAreFresh
<1>14. CASE SignInMint
  BY <1>14 DEF SignInMint, Mint, MintedOK, RetriesAreFresh
<1>15. CASE LogoutBff
  BY <1>15 DEF LogoutBff, NobodyLeaves, Callers, RetriesAreFresh
<1>16. CASE Expire
  <2>1. count["expiry"] = 0 /\ UNCHANGED <<req, refresh>>
    <3>1. Within("expiry", MaxExpiries) /\ UNCHANGED <<req, refresh>>
      BY <1>16 DEF Expire, flows
    <3> QED
      BY <3>1 DEF Within, CountOK, Events, Calm
  <2> QED
    BY <2>1 DEF RetriesAreFresh
<1>17. CASE Kill
  <2>1. refresh' = Idle /\ \A r \in Requests : req'[r].pc # "sent"
    BY <1>17 DEF Kill, Start, At
  <2> QED
    BY <2>1 DEF RetriesAreFresh, Idle
<1>18. CASE UNCHANGED <<req, refresh, live, count>>
  BY <1>18 DEF RetriesAreFresh
<1> QED
  BY Unheard, <1>1, <1>2, <1>3, <1>4, <1>5, <1>6, <1>7, <1>8, <1>9, <1>9w, <1>10, <1>11, <1>12,
    <1>13,
    <1>14, <1>15, <1>16, <1>17, <1>18 DEF Next, RequestStep, RefreshStep, SignInStep, LogoutStep,
    vars, flows, kept, RefreshNull, SignInHosted, SignInTokens, SignInStore, SignInMirror,
    LogoutStored, LogoutIdentity, LogoutTokens, LogoutReset, AuthStateChanged, Start, Disturbed

LEMMA CalmStart == SessionInit => CalmInv
<1> SUFFICES ASSUME SessionInit PROVE CalmInv
  OBVIOUS
<1>1. CountOK /\ IdentityKept /\ RefreshHasIdentity /\ TokenKept
  BY DEF SessionInit, CountOK, Events, IdentityKept, RefreshHasIdentity, TokenKept, Idle, Empty
<1>2. OneEnded
  BY DEF SessionInit, OneEnded
<1>3. NobodyLeaves /\ RetriesAreFresh /\ NotSpent
  BY DEF SessionInit, NobodyLeaves, NotSpent, RetriesAreFresh, At, Idle
<1> QED
  BY <1>1, <1>2, <1>3 DEF CalmInv

LEMMA CalmStep == SessionInv /\ CalmInv /\ [Next]_vars => CalmInv'
<1> SUFFICES ASSUME SessionInv, CalmInv, [Next]_vars PROVE CalmInv'
  OBVIOUS
<1>1. MintedOK /\ StoreOK /\ KeychainOK /\ RequestsOK /\ RefreshOK /\ SignInOK /\ LogoutOK
  BY DEF SessionInv
<1>2. /\ CountOK /\ OneEnded /\ IdentityKept /\ RefreshHasIdentity /\ TokenKept
      /\ NobodyLeaves /\ RetriesAreFresh /\ NotSpent
  BY DEF CalmInv
<1>3. CountOK' /\ (Calm' => Calm)
  BY <1>2, CountStep
<1>4. CASE Calm'
  <2>1. OneEnded' /\ NobodyLeaves' /\ NotSpent'
    BY <1>1, <1>2, <1>3, <1>4, OneEndedStep, NobodyLeavesStep, NotSpentStep
  <2>2. IdentityKept' /\ RefreshHasIdentity'
    BY <1>1, <1>2, <1>3, <1>4, SessionAssumption, IdentityStep, RefreshHasStep
  <2>3. TokenKept' /\ RetriesAreFresh'
    BY <1>1, <1>2, <1>3, <1>4, TokenKeptStep, RetriesStep
  <2> QED
    BY <1>3, <2>1, <2>2, <2>3 DEF CalmInv
<1>5. CASE ~Calm'
  BY <1>3, <1>5 DEF CalmInv, OneEnded, IdentityKept, RefreshHasIdentity, TokenKept, NobodyLeaves,
    RetriesAreFresh, NotSpent
<1> QED
  BY <1>4, <1>5

(* An expired session signs nobody out: as long as refreshes succeed, one  *)
(* session at most is ended and nobody logs out, whoever is signed in      *)
(* stays signed in, whatever requests are in flight and whenever the app   *)
(* is killed, but for a kill while the issuer holds the refresh token      *)
(* (client.ts's interceptor, hydrateFromStorage, zitadel.ts).              *)
THEOREM ExpirySignsNobodyOut == Spec => StaysSignedIn
<1>1. ASSUME CalmInv, [Next]_vars, store.auth, Calm' PROVE store'.auth
  <2>1. CountOK /\ NotSpent /\ TokenKept /\ NobodyLeaves /\ Calm
    BY <1>1, CountStep DEF CalmInv
  <2>2. ASSUME NEW c \in Callers, LogoutReset(c) PROVE FALSE
    BY <2>1, <2>2 DEF LogoutReset, NobodyLeaves
  <2>3. CASE Kill
    BY <1>1, <2>1, <2>3 DEF Kill, Start, TokenKept
  <2>4. CASE RefreshStore
    BY <2>4, <1>1 DEF RefreshStore
  <2>5. CASE SignInStore
    BY <2>5 DEF SignInStore
  <2>6. CASE UNCHANGED store
    BY <1>1, <2>6
  <2> QED
    BY <1>1, <2>1, Unheard, <2>2, <2>3, <2>4, <2>5, <2>6 DEF Next, RequestStep, RefreshStep,
      SignInStep, LogoutStep, vars, flows, kept, Send, Accepted, RefusedBestEffort, RefusedFirst,
      RefusedAgain, TearTokens, TearSession, RefreshRead, RefreshRotate, RefreshWrite, RefreshMint,
      RefreshTokens, SignInStart, SignInHosted, SignInMint, SignInTokens, SignInMirror, LogoutBff,
      LogoutStored, LogoutIdentity, LogoutTokens, Expire, AuthStateChanged
<1>2. SessionInv /\ CalmInv /\ [Next]_vars => [store.auth /\ Calm' => store'.auth]_vars
  BY <1>1
<1> QED
  BY SessionStart, SessionStep, CalmStart, CalmStep, <1>2, PTL DEF Spec, StaysSignedIn
=============================================================================
