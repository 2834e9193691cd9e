--------------------------- MODULE PushTransports ---------------------------
(***************************************************************************)
(* What the push transports keep between sends (lib/push.js).               *)
(* FcmTransport: an access token per Firebase project, minted on demand by  *)
(* one exchange that all sends in the meantime wait for.  ApnsTransport:    *)
(* one HTTP/2 session per host in a pool, and the provider token it signs.  *)
(***************************************************************************)
EXTENDS Naturals, FiniteSets

CONSTANTS FcmSends, ApnsSends,   \* the sends
          Lifetimes,             \* expires_in of the tokens Google grants
          Margin,                \* FCM_TOKEN_REFRESH_MARGIN_MS
          Timeout,               \* timeoutMs of a request
          Refresh,               \* refreshMs of the provider token
          AppleMax,              \* the age at which Apple rejects it
          NoToken, NoSessionNo,
          MaxTransportClock, MaxOpened   \* bounds: clock, sessions opened

ASSUME TransportAssumption ==
  /\ Lifetimes \subseteq Nat /\ {Margin, Timeout, Refresh, AppleMax} \subseteq Nat
  /\ NoSessionNo \notin Nat \ {0}
  /\ Timeout <= Margin /\ \A l \in Lifetimes : Timeout < l
  /\ Refresh + Timeout <= AppleMax

VARIABLES
  tclock,
  fcmToken,      \* project.token: when it expires
  minting,       \* project.tokenPromise: exchanges under way
  fcmSend,       \* by send: its progress
  jwtAt,         \* _jwt.mintedAtMs
  pooled,          \* _sessions[env]: the number of the session, if any
  sessionState,  \* by session: open, going away, destroyed or closed
  apnsSend       \* by send: its progress

fcmVars == <<fcmToken, minting, fcmSend>>
apnsVars == <<jwtAt, pooled, sessionState, apnsSend>>
transportVars == <<tclock, fcmVars, apnsVars>>

Idle == [at |-> "idle"]

TransportInit ==
  /\ tclock = 0
  /\ fcmToken = NoToken /\ minting = 0
  /\ fcmSend = [s \in FcmSends |-> Idle]
  /\ jwtAt = NoToken /\ pooled = NoSessionNo
  /\ sessionState = [n \in {} |-> "open"]
  /\ apnsSend = [s \in ApnsSends |-> Idle]

(* A request that is out ends by its timeout.                               *)
Within(sent) == sent.at = "sent" => tclock < sent.since + Timeout

TransportTick ==
  /\ tclock < MaxTransportClock
  /\ \A s \in FcmSends : Within(fcmSend[s])
  /\ \A s \in ApnsSends : Within(apnsSend[s])
  /\ tclock' = tclock + 1
  /\ UNCHANGED <<fcmVars, apnsVars>>

-----------------------------------------------------------------------------
(* FcmTransport                                                             *)

(* Mutant: a token is used until it expires.                                *)
FreshToTheEnd == fcmToken # NoToken /\ tclock < fcmToken
Fresh == fcmToken # NoToken /\ tclock + Margin < fcmToken

Posted(token) == [at |-> "sent", since |-> tclock, token |-> token]

(* Mutant: every send starts an exchange of its own.                        *)
MintingAnother == minting + 1
MintingOne == IF minting = 0 THEN 1 ELSE minting

(* send: with the cached token, or once one is minted.                      *)
FcmSendStart(s) ==
  /\ fcmSend[s] = Idle
  /\ IF Fresh
     THEN fcmSend' = [fcmSend EXCEPT ![s] = Posted(fcmToken)] /\ UNCHANGED minting
     ELSE fcmSend' = [fcmSend EXCEPT ![s] = [at |-> "waiting"]] /\ minting' = MintingOne
  /\ UNCHANGED <<tclock, fcmToken, apnsVars>>

(* The exchange ends: all sends that wait go out with the new token, or     *)
(* all fail as transient.                                                   *)
MintAccessToken(lifetime) ==
  /\ minting > 0
  /\ minting' = minting - 1
  /\ fcmToken' = tclock + lifetime
  /\ fcmSend' = [s \in FcmSends |->
       IF fcmSend[s].at = "waiting" THEN Posted(fcmToken') ELSE fcmSend[s]]
  /\ UNCHANGED <<tclock, apnsVars>>

MintFails ==
  /\ minting > 0
  /\ minting' = minting - 1
  /\ fcmSend' = [s \in FcmSends |->
       IF fcmSend[s].at = "waiting" THEN Idle ELSE fcmSend[s]]
  /\ UNCHANGED <<tclock, fcmToken, apnsVars>>

(* The verdict, by classifyFcmResponse: `auth' when Google finds that the   *)
(* token has expired, otherwise ok, gone or transient, which are alike      *)
(* here.  A send that is over may be made again.                            *)
FcmAnswer(s) ==
  /\ fcmSend[s].at = "sent"
  /\ fcmSend' = [fcmSend EXCEPT ![s] =
       IF tclock >= @.token THEN [at |-> "auth"] ELSE Idle]
  /\ UNCHANGED <<tclock, fcmToken, minting, apnsVars>>

-----------------------------------------------------------------------------
(* ApnsTransport                                                            *)

(* Mutant: the provider token is signed once.                               *)
ProviderTokenKept == IF jwtAt = NoToken THEN tclock ELSE jwtAt
ProviderToken ==
  IF jwtAt # NoToken /\ tclock < jwtAt + Refresh THEN jwtAt ELSE tclock

(* _getSession: a session that is in the pool and is not closed or          *)
(* destroyed is used again.                                                 *)
Usable == pooled # NoSessionNo /\ sessionState[pooled] \in {"open", "goingaway"}
NextSession == Cardinality(DOMAIN sessionState) + 1

ApnsSendStart(s) ==
  LET session == IF Usable THEN pooled ELSE NextSession IN
  /\ apnsSend[s] = Idle
  /\ Usable \/ NextSession <= MaxOpened
  /\ jwtAt' = ProviderToken
  /\ pooled' = session
  /\ sessionState' = [n \in DOMAIN sessionState \cup {session} |->
                        IF n \in DOMAIN sessionState THEN sessionState[n] ELSE "open"]
  /\ apnsSend' = [apnsSend EXCEPT ![s] =
                    [at |-> "sent", since |-> tclock, token |-> jwtAt',
                     session |-> session]]
  /\ UNCHANGED <<tclock, fcmVars>>

(* classifyApnsResponse: a provider token that Apple finds expired is       *)
(* dropped, whichever token this send carried.                              *)
ApnsAnswer(s) ==
  /\ apnsSend[s].at = "sent"
  /\ LET tooOld == tclock > apnsSend[s].token + AppleMax
     IN /\ jwtAt' = IF tooOld THEN NoToken ELSE jwtAt
        /\ apnsSend' = [apnsSend EXCEPT ![s] = IF tooOld THEN [at |-> "auth"] ELSE Idle]
  /\ UNCHANGED <<tclock, fcmVars, pooled, sessionState>>

(* The events of a session reach _dropSession, for the session they are     *)
(* about: goaway; an error, which destroys it; and close, the last.         *)
(* Mutant: they drop whatever session is in the pool.                     *)
DropSessionAny(n) == NoSessionNo
DropSession(n) == IF pooled = n THEN NoSessionNo ELSE pooled

GoAway(n) ==
  /\ sessionState[n] = "open"
  /\ sessionState' = [sessionState EXCEPT ![n] = "goingaway"]
  /\ pooled' = DropSession(n)
  /\ UNCHANGED <<tclock, fcmVars, jwtAt, apnsSend>>

SessionFails(n) ==
  /\ sessionState[n] \in {"open", "goingaway"}
  /\ sessionState' = [sessionState EXCEPT ![n] = "destroyed"]
  /\ \/ UNCHANGED pooled
     \/ pooled' = DropSession(n)
  /\ UNCHANGED <<tclock, fcmVars, jwtAt, apnsSend>>

SessionCloses(n) ==
  /\ sessionState[n] \in {"goingaway", "destroyed"}
  /\ sessionState' = [sessionState EXCEPT ![n] = "closed"]
  /\ pooled' = DropSession(n)
  /\ UNCHANGED <<tclock, fcmVars, jwtAt, apnsSend>>

FcmNext ==
  \/ TransportTick \/ MintFails
  \/ \E l \in Lifetimes : MintAccessToken(l)
  \/ \E s \in FcmSends : FcmSendStart(s) \/ FcmAnswer(s)

ApnsNext ==
  \/ TransportTick
  \/ \E s \in ApnsSends : ApnsSendStart(s) \/ ApnsAnswer(s)
  \/ \E n \in DOMAIN sessionState : GoAway(n) \/ SessionFails(n) \/ SessionCloses(n)

TransportNext == FcmNext \/ ApnsNext
TransportSpec == TransportInit /\ [][TransportNext]_transportVars

-----------------------------------------------------------------------------

(* One exchange for a token is under way at most, and exactly while sends   *)
(* wait for it: no send is left waiting (_getAccessToken).                  *)
WaitersHaveOneMint ==
  minting = IF \E s \in FcmSends : fcmSend[s].at = "waiting" THEN 1 ELSE 0

(* "a send never rides a token that dies mid-request": no request is        *)
(* refused for the age of the token that the broker cached, neither by      *)
(* Google nor by Apple (FCM_TOKEN_REFRESH_MARGIN_MS, refreshMs).            *)
NoTokenDiesInFlight ==
  /\ \A s \in FcmSends : fcmSend[s].at # "auth"
  /\ \A s \in ApnsSends : apnsSend[s].at # "auth"

(* An open session is in the pool, so that one session per host serves all  *)
(* sends and none is left open without a use: the late events of an         *)
(* earlier session do not take its successor out (_dropSession).            *)
OpenSessionIsPooled ==
  \A n \in DOMAIN sessionState : sessionState[n] = "open" => pooled = n

(* What the two transports share over overlapping sends - the token being   *)
(* minted, the cached tokens, the pooled session - is sound at every        *)
(* moment (_getAccessToken, _providerToken, _getSession).                   *)
TransportsAreSound ==
  WaitersHaveOneMint /\ NoTokenDiesInFlight /\ OpenSessionIsPooled
=============================================================================
