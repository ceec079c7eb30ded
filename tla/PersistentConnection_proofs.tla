--------------------- MODULE PersistentConnection_proofs ---------------------
(***************************************************************************)
(* The connection of the database client, for any number of puts, listens, *)
(* credentials, losses and changes: at most one attempt to connect, the    *)
(* credential in use, and the order of writes at the service.              *)
(***************************************************************************)
EXTENDS PersistentConnection, FiniteSetTheorems, SequenceTheorems, TLAPS

-----------------------------------------------------------------------------
(* Sequences.                                                              *)

\* Where the elements of a longer sequence come from.
LEMMA AppendAt ==
  ASSUME NEW S, NEW s \in Seq(S), NEW e \in S
  PROVE  /\ Append(s, e) \in Seq(S) /\ Append(s, e) # <<>> /\ Len(s) \in Nat
         /\ s # <<>> => 1 \in DOMAIN s
         /\ \A k \in DOMAIN s : k \in DOMAIN Append(s, e) /\ Append(s, e)[k] = s[k]
         /\ Len(s) + 1 \in DOMAIN Append(s, e) /\ Append(s, e)[Len(s) + 1] = e
         /\ \A k \in DOMAIN Append(s, e) : k \in DOMAIN s \/ k = Len(s) + 1
         /\ Len(s) + 1 = 1 => s = <<>>
BY AppendProperties, LenProperties, EmptySeq

\* What is left of a sequence without its first element.
LEMMA TailAt ==
  ASSUME NEW S, NEW s \in Seq(S), s # <<>>
  PROVE  /\ Tail(s) \in Seq(S) /\ Head(s) = s[1] /\ 1 \in DOMAIN s
         /\ \A k \in DOMAIN Tail(s) :
              k \in Nat \ {0} /\ k + 1 \in DOMAIN s /\ Tail(s)[k] = s[k + 1]
         /\ \A k \in DOMAIN s : k # 1 => k - 1 \in DOMAIN Tail(s) /\ Tail(s)[k - 1] = s[k]
<1>1. /\ Tail(s) \in Seq(S) /\ Len(Tail(s)) = Len(s) - 1
      /\ Len(s) \in Nat \ {0} /\ DOMAIN s = 1 .. Len(s)
      /\ DOMAIN Tail(s) = 1 .. Len(Tail(s)) /\ Head(s) = s[1]
      /\ \A k \in 1 .. Len(Tail(s)) : Tail(s)[k] = s[k + 1]
  BY HeadTailProperties, LenProperties, EmptySeq
<1>2. ASSUME NEW k \in DOMAIN s, k # 1
      PROVE  k - 1 \in DOMAIN Tail(s) /\ (k - 1) + 1 = k
  BY <1>1, <1>2
<1>. QED
  BY <1>1, <1>2

\* Where the elements of a concatenation come from.
LEMMA ConcatAt ==
  ASSUME NEW S, NEW s \in Seq(S), NEW t \in Seq(S)
  PROVE  /\ s \o t \in Seq(S) /\ Len(s) \in Nat /\ Len(t) \in Nat /\ DOMAIN s = 1 .. Len(s)
         /\ \A k \in 1 .. Len(s) : k \in DOMAIN (s \o t) /\ (s \o t)[k] = s[k]
         /\ \A k \in 1 .. Len(t) : Len(s) + k \in DOMAIN (s \o t) /\ (s \o t)[Len(s) + k] = t[k]
         /\ \A k \in DOMAIN (s \o t) :
              \/ k \in 1 .. Len(s)
              \/ k - Len(s) \in 1 .. Len(t) /\ Len(s) + (k - Len(s)) = k
<1>1. /\ s \o t \in Seq(S) /\ Len(s) \in Nat /\ Len(t) \in Nat /\ DOMAIN s = 1 .. Len(s)
      /\ DOMAIN (s \o t) = 1 .. (Len(s) + Len(t))
  BY ConcatProperties, LenProperties
<1>2. \A k \in 1 .. (Len(s) + Len(t)) :
        (s \o t)[k] = IF k <= Len(s) THEN s[k] ELSE t[k - Len(s)]
  BY ConcatProperties
<1>. QED
  BY <1>1, <1>2

-----------------------------------------------------------------------------
(* The state machine of the connection.                                    *)

Credentials == Tokens \cup {Nil}
Fetches == [force : BOOLEAN, from : Nat]

AttemptTypes ==
  /\ connectionState \in States /\ realtime \in {"none", "connecting", "connected"}
  /\ retry \in [force : BOOLEAN] \cup {NoRetry} /\ fetch \in Fetches \cup {NoFetch}
  /\ forceAuthTokenRefresh \in BOOLEAN
  /\ reported \in Seq(Credentials) /\ reported # <<>>

\* What Auth has reported: the same, or one credential more.
Reports(more) ==
  more = reported \/ \E t \in Credentials : more = Append(reported, t)

LEMMA ReportsMore ==
  ASSUME reported \in Seq(Credentials), reported # <<>>, NEW more, Reports(more)
  PROVE  /\ more \in Seq(Credentials) /\ more # <<>>
         /\ Len(reported) \in Nat \ {0} /\ Len(more) \in Nat \ {0}
         /\ Len(more) \in {Len(reported), Len(reported) + 1}
         /\ \A k \in 1 .. Len(reported) : more[k] = reported[k] /\ reported[k] \in Credentials
<1>1. Len(reported) \in Nat \ {0} /\ \A k \in 1 .. Len(reported) : reported[k] \in Credentials
  BY LenProperties, EmptySeq, ElementOfSeq
<1>2. CASE more = reported
  BY <1>1, <1>2
<1>3. ASSUME NEW t \in Credentials, more = Append(reported, t)
      PROVE  /\ more \in Seq(Credentials) /\ more # <<>> /\ Len(more) = Len(reported) + 1
             /\ \A k \in 1 .. Len(reported) : more[k] = reported[k]
  BY <1>1, <1>3, AppendProperties
<1>. QED
  BY <1>1, <1>2, <1>3 DEF Reports

\* A fetch under way is one the client waits for, or gave up; an answer to a
\* listen is only to come on a connection.
AttemptInv ==
  /\ AttemptTypes /\ OneConnectionAttempt
  /\ fetch # NoFetch => /\ connectionState \in {"GettingToken", "Disconnected"}
                        /\ fetch.from \in 1 .. Len(reported)
  /\ \A l \in Specs : listenCBs[l] > 0 => Connected

LEMMA AttemptInit == Init => AttemptInv
<1>. SUFFICES ASSUME Init PROVE AttemptInv
  OBVIOUS
<1>1. retry \in [force : BOOLEAN] \cup {NoRetry} /\ fetch \in Fetches \cup {NoFetch}
  BY DEF Init
<1>2. connectionState \in States /\ forceAuthTokenRefresh \in BOOLEAN
  BY DEF Init, States
<1>3. reported \in Seq(Credentials) /\ reported # <<>>
  BY DEF Init, Credentials
<1>6. AttemptTypes
  BY <1>1, <1>2, <1>3 DEF Init, AttemptTypes
<1>4. OneConnectionAttempt
  BY DEF Init, OneConnectionAttempt, Connected
<1>5. \A l \in Specs : ~(listenCBs[l] > 0)
  BY DEF Init
<1>. QED
  BY <1>4, <1>5, <1>6 DEF Init, AttemptInv

\* What tryScheduleReconnect and its kin leave: a retry, or a flag for the next.
LEMMA RetryTyped ==
  ASSUME retry \in [force : BOOLEAN] \cup {NoRetry}, forceAuthTokenRefresh \in BOOLEAN,
         NEW f \in BOOLEAN,
         \/ retry' = [force |-> f] /\ forceAuthTokenRefresh' = FALSE
         \/ UNCHANGED retry /\ forceAuthTokenRefresh' = f
         \/ UNCHANGED <<retry, forceAuthTokenRefresh>>
         \/ retry' = NoRetry /\ UNCHANGED forceAuthTokenRefresh
  PROVE  retry' \in [force : BOOLEAN] \cup {NoRetry} /\ forceAuthTokenRefresh' \in BOOLEAN
<1>1. [force |-> f] \in [force : BOOLEAN]
  BY Zenon
<1>. QED
  BY <1>1, Zenon

\* A connection that ends leaves nothing behind but a retry, if one is wanted.
LEMMA DisconnectAttempt ==
  ASSUME AttemptInv, realtime # "none",
         NEW reasons, NEW force \in BOOLEAN,
         interruptReasons' = reasons, reported' = reported,
         Disconnect(reasons, force)
  PROVE  AttemptInv'
<1>1. retry = NoRetry
  BY DEF AttemptInv, OneConnectionAttempt
<1>2. fetch = NoFetch
  BY DEF AttemptInv, AttemptTypes, OneConnectionAttempt, States
<1>3. AttemptTypes'
  <2>1. retry' \in [force : BOOLEAN] \cup {NoRetry} /\ forceAuthTokenRefresh' \in BOOLEAN
    BY RetryTyped DEF AttemptInv, AttemptTypes, Disconnect
  <2>. QED
    BY <1>2, <2>1 DEF AttemptInv, AttemptTypes, Disconnect, States
<1>4. OneConnectionAttempt'
  BY <1>1 DEF AttemptInv, Disconnect, OneConnectionAttempt, Connected
<1>5. \A l \in Specs : ~(listenCBs'[l] > 0)
  BY DEF Disconnect
<1>. QED
  BY <1>2, <1>3, <1>4, <1>5 DEF AttemptInv, Disconnect

\* What sends requests does so on a connection, and leaves the rest alone.
LEMMA SendingAttempt ==
  ASSUME AttemptInv, Connected,
         UNCHANGED <<interruptReasons, realtime, retry, fetch, forceAuthTokenRefresh>>,
         connectionState' \in {connectionState, "Connected"},
         Reports(reported')
  PROVE  AttemptInv'
<1>1. Connected' /\ connectionState' \in {"Authenticating", "Connected"}
  BY DEF Connected
<1>2. /\ realtime = "connected" /\ connectionState \in {"Authenticating", "Connected"}
      /\ fetch = NoFetch
  BY DEF AttemptInv, OneConnectionAttempt, Connected
<1>3. reported' \in Seq(Credentials) /\ reported' # <<>>
  BY ReportsMore DEF AttemptInv, AttemptTypes
<1>4. AttemptTypes' /\ OneConnectionAttempt'
  BY <1>1, <1>2, <1>3 DEF AttemptInv, AttemptTypes, OneConnectionAttempt, States
<1>. QED
  BY <1>1, <1>2, <1>4 DEF AttemptInv

\* What neither connects nor sends anything keeps the invariant.
LEMMA IdleAttempt ==
  ASSUME AttemptInv,
         UNCHANGED <<connection, forceAuthTokenRefresh>>,
         UNCHANGED <<requestCBHash, unackedListensCount, listenCBs>>,
         Reports(reported')
  PROVE  AttemptInv'
<1>1. /\ reported' \in Seq(Credentials) /\ reported' # <<>>
      /\ \A k \in 1 .. Len(reported) : k \in 1 .. Len(reported')
  BY ReportsMore DEF AttemptInv, AttemptTypes
<1>2. AttemptTypes' /\ OneConnectionAttempt'
  BY <1>1 DEF AttemptInv, AttemptTypes, OneConnectionAttempt, Connected, connection
<1>. QED
  BY <1>1, <1>2 DEF AttemptInv, Connected, connection

LEMMA ConnectingAttempt ==
  ASSUME AttemptInv,
         RetryFires \/ TokenFetched \/ TokenFetchFails \/ NetworkReachable \/ OnReady
  PROVE  AttemptInv'
<1>1. CASE RetryFires
  <2>1. /\ fetch' \in Fetches /\ fetch' # NoFetch /\ reported' = reported
        /\ fetch'.from \in 1 .. Len(reported)
    BY <1>1, FetchAssumption, ReportsMore
       DEF RetryFires, AttemptInv, AttemptTypes, Fetches, Reports, reports
  <2>. QED
    BY <1>1, <2>1 DEF RetryFires, AttemptInv, AttemptTypes, OneConnectionAttempt, Connected,
                      States, token, listening, reports
<1>2. CASE TokenFetched
  BY <1>2 DEF TokenFetched, AttemptInv, AttemptTypes, OneConnectionAttempt, Connected,
              States, listening
<1>3. CASE TokenFetchFails
  <2>1. retry' \in [force : BOOLEAN] \cup {NoRetry} /\ forceAuthTokenRefresh' \in BOOLEAN
    BY <1>3, RetryTyped DEF TokenFetchFails, TryScheduleReconnect, AttemptInv, AttemptTypes
  <2>2. AttemptTypes'
    BY <1>3, <2>1 DEF TokenFetchFails, AttemptInv, AttemptTypes, States, reports
  <2>3. OneConnectionAttempt'
    BY <1>3 DEF TokenFetchFails, TryScheduleReconnect, ShouldReconnect, AttemptInv,
                AttemptTypes, OneConnectionAttempt, Connected, States, listening
  <2>. QED
    BY <1>3, <2>2, <2>3 DEF TokenFetchFails, AttemptInv, OneConnectionAttempt, Connected, listening
<1>4. CASE NetworkReachable
  <2>1. retry' \in [force : BOOLEAN] \cup {NoRetry} /\ forceAuthTokenRefresh' \in BOOLEAN
    BY <1>4, RetryTyped DEF NetworkReachable, TryScheduleReconnect, AttemptInv, AttemptTypes
  <2>2. AttemptTypes'
    BY <1>4, <2>1 DEF NetworkReachable, AttemptInv, AttemptTypes, States, reports
  <2>3. OneConnectionAttempt'
    BY <1>4 DEF NetworkReachable, TryScheduleReconnect, ShouldReconnect, AttemptInv,
                AttemptTypes, OneConnectionAttempt, Connected, States, listening
  <2>. QED
    BY <1>4, <2>2, <2>3 DEF NetworkReachable, AttemptInv, OneConnectionAttempt, Connected,
                            listening, reports
<1>5. CASE OnReady
  <2>1. connectionState' \in {"Authenticating", "Connected"} /\ realtime' = "connected"
    BY <1>5 DEF OnReady
  <2>2. connectionState = "Connecting" /\ fetch = NoFetch
    BY <1>5 DEF OnReady, AttemptInv, AttemptTypes, OneConnectionAttempt, Connected, States
  <2>. QED
    BY <1>5, <2>1, <2>2 DEF OnReady, AttemptInv, AttemptTypes, OneConnectionAttempt, Connected,
                            States, token, reports
<1>. QED
  BY <1>1, <1>2, <1>3, <1>4, <1>5

LEMMA EndingAttempt ==
  ASSUME AttemptInv,
         \/ LoseConnection \/ onKill \/ GoOffline \/ TokenRefused
         \/ \E r \in Reasons : Resume(r)
  PROVE  AttemptInv'
<1>1. CASE LoseConnection
  <2>1. forceAuthTokenRefresh \in BOOLEAN
    BY DEF AttemptInv, AttemptTypes
  <2>. QED
    BY <1>1, <2>1, DisconnectAttempt DEF LoseConnection, reports
<1>2. CASE TokenRefused
  <2>1. realtime # "none"
    BY <1>2 DEF TokenRefused
  <2>. QED
    BY <1>2, <2>1, DisconnectAttempt DEF TokenRefused
<1>3. ASSUME NEW r, Interrupt(r)
      PROVE  AttemptInv'
  <2>1. CASE realtime # "none"
    <3>1. forceAuthTokenRefresh \in BOOLEAN
      BY DEF AttemptInv, AttemptTypes
    <3>. QED
      BY <1>3, <2>1, <3>1, DisconnectAttempt DEF Interrupt, reports
  <2>2. CASE realtime = "none"
    BY <1>3, <2>2 DEF Interrupt, AttemptInv, AttemptTypes, OneConnectionAttempt, Connected,
                      States, listening, reports
  <2>. QED
    BY <2>1, <2>2
<1>4. ASSUME NEW r \in Reasons, Resume(r)
      PROVE  AttemptInv'
  <2>1. retry' \in [force : BOOLEAN] \cup {NoRetry} /\ forceAuthTokenRefresh' \in BOOLEAN
    BY <1>4, RetryTyped DEF Resume, AttemptInv, AttemptTypes
  <2>2. AttemptTypes'
    BY <1>4, <2>1 DEF Resume, AttemptInv, AttemptTypes, reports
  <2>3. OneConnectionAttempt'
    BY <1>4 DEF Resume, AttemptInv, OneConnectionAttempt, Connected, listening
  <2>. QED
    BY <1>4, <2>2, <2>3 DEF Resume, AttemptInv, Connected, listening, reports
<1>. QED
  BY <1>1, <1>2, <1>3, <1>4 DEF onKill, GoOffline

LEMMA UsingAttempt ==
  ASSUME AttemptInv,
         \/ \E l \in Specs : Listen(l) \/ Unlisten(l) \/ ListenRevoked(l)
         \/ PutInternal \/ PurgeOutstandingWrites
         \/ \E t \in Tokens \cup {Nil} : RefreshAuthToken(t)
  PROVE  AttemptInv'
<1>1. Reports(reported)
  BY DEF Reports
<1>2. ASSUME NEW l \in Specs, Listen(l)
      PROVE  AttemptInv'
  <2>1. CASE Connected
    BY <1>1, <1>2, <2>1, SendingAttempt DEF Listen, connection, token, reports
  <2>2. CASE ~Connected
    BY <1>1, <1>2, <2>2, IdleAttempt DEF Listen, token, reports
  <2>. QED
    BY <2>1, <2>2
<1>3. ASSUME NEW l \in Specs, Unlisten(l) \/ ListenRevoked(l)
      PROVE  AttemptInv'
  BY <1>1, <1>3, IdleAttempt DEF Unlisten, ListenRevoked, token, reports
<1>4. CASE PutInternal
  <2>1. CASE CanSendWrites
    <3>1. Connected
      BY <2>1 DEF CanSendWrites, Connected
    <3>. QED
      BY <1>1, <1>4, <3>1, SendingAttempt DEF PutInternal, connection, token, reports
  <2>2. CASE ~CanSendWrites
    BY <1>1, <1>4, <2>2, IdleAttempt DEF PutInternal, token, listening, reports
  <2>. QED
    BY <2>1, <2>2
<1>5. CASE PurgeOutstandingWrites
  BY <1>1, <1>5, IdleAttempt DEF PurgeOutstandingWrites, token, listening, reports
<1>6. ASSUME NEW t \in Tokens \cup {Nil}, RefreshAuthToken(t)
      PROVE  AttemptInv'
  <2>. Reports(reported')
    BY <1>6 DEF RefreshAuthToken, Reports, Credentials
  <2>1. CASE Connected
    BY <1>6, <2>1, SendingAttempt DEF RefreshAuthToken, connection
  <2>2. CASE ~Connected
    BY <1>6, <2>2, IdleAttempt DEF RefreshAuthToken, listening
  <2>. QED
    BY <2>1, <2>2
<1>. QED
  BY <1>2, <1>3, <1>4, <1>5, <1>6

LEMMA ServiceAttempt ==
  ASSUME AttemptInv, Service
  PROVE  AttemptInv'
<1>1. Reports(reported)
  BY DEF Reports
<1>2. Connected
  BY DEF Service, AuthAccepted, PutResponse, ListenResponse, AttemptInv, OneConnectionAttempt
<1>3. CASE AuthAccepted
  BY <1>1, <1>2, <1>3, SendingAttempt DEF AuthAccepted, token, reports
<1>4. ASSUME NEW b \in BOOLEAN, PutResponse(b)
      PROVE  AttemptInv'
  BY <1>1, <1>2, <1>4, SendingAttempt DEF PutResponse, connection, token, reports
<1>5. ASSUME NEW l \in Specs, NEW b \in BOOLEAN, ListenResponse(l, b)
      PROVE  AttemptInv'
  BY <1>1, <1>2, <1>5, SendingAttempt DEF ListenResponse, connection, token, reports
<1>. QED
  BY <1>3, <1>4, <1>5 DEF Service

LEMMA AttemptStep == AttemptInv /\ [Next]_vars => AttemptInv'
<1>. SUFFICES ASSUME AttemptInv, [Next]_vars
              PROVE  AttemptInv'
  OBVIOUS
<1>1. CASE UNCHANGED vars
  BY <1>1 DEF vars, connection, token, listening, writes, reports, AttemptInv, AttemptTypes,
              OneConnectionAttempt, Connected
<1>. QED
  BY <1>1, ConnectingAttempt, EndingAttempt, UsingAttempt, ServiceAttempt DEF Next

\* Of a scheduled retry, a token fetch and a connection at most one drives the
\* client, and nothing is asked of a service that is not connected: what the
\* assertions of tryScheduleReconnect and its callbacks demand.
THEOREM AlwaysOneAttempt == Spec => []OneConnectionAttempt
<1>1. AttemptInv => OneConnectionAttempt
  BY DEF AttemptInv
<1>. QED
  BY <1>1, AttemptInit, AttemptStep, PTL DEF Spec

-----------------------------------------------------------------------------
(* The credential.                                                         *)

\* The report whose credential is in use on a connection.
InUse == IF Len(reported) > opened.at THEN Len(reported) ELSE opened.from

\* From the moment a connection is opened until it ends.
TokenInv ==
  connectionState \in {"Connecting", "Authenticating", "Connected"} =>
    opened.at \in 1 .. Len(reported) /\ authToken = reported[InUse]

LEMMA TokenDisconnect ==
  ASSUME NEW reasons, NEW force, Disconnect(reasons, force)
  PROVE  TokenInv'
BY DEF Disconnect, TokenInv

LEMMA TokenKept ==
  ASSUME TokenInv, UNCHANGED <<authToken, reported, opened>>,
         connectionState' \in {connectionState, "Disconnected", "GettingToken"}
  PROVE  TokenInv'
BY DEF TokenInv, InUse

\* A report is in use at once, and stays so while it is the last.
LEMMA TokenReported ==
  ASSUME AttemptInv, TokenInv, NEW t \in Credentials, UNCHANGED <<connectionState, opened>>,
         reported' = Append(reported, t), authToken' = t
  PROVE  TokenInv'
<1>1. Len(reported) \in Nat \ {0}
  BY ReportsMore DEF AttemptInv, AttemptTypes, Reports
<1>2. Len(reported') = Len(reported) + 1 /\ reported'[Len(reported) + 1] = t
  BY AppendProperties DEF AttemptInv, AttemptTypes
<1>3. CASE connectionState \in {"Connecting", "Authenticating", "Connected"}
  <2>1. opened'.at \in 1 .. Len(reported)
    BY <1>3 DEF TokenInv
  <2>2. opened'.at \in 1 .. Len(reported') /\ InUse' = Len(reported) + 1
    BY <1>1, <1>2, <2>1 DEF InUse
  <2>. QED
    BY <1>2, <2>2 DEF TokenInv
<1>. QED
  BY <1>3 DEF TokenInv

LEMMA TokenStep == AttemptInv /\ TokenInv /\ [Next]_vars => TokenInv'
<1>. SUFFICES ASSUME AttemptInv, TokenInv, [Next]_vars
              PROVE  TokenInv'
  OBVIOUS
<1>1. CASE RetryFires \/ TokenFetchFails \/ NetworkReachable
  BY <1>1, TokenKept DEF RetryFires, TokenFetchFails, NetworkReachable, token, reports
<1>2. CASE TokenFetched
  <2>1. CASE connectionState = "GettingToken"
    <3>1. /\ authToken' = reported[fetch.from] /\ reported' = reported
          /\ opened'.from = fetch.from /\ opened'.at = Len(reported)
      BY <1>2, <2>1 DEF TokenFetched
    <3>2. Len(reported) \in Nat \ {0}
      BY ReportsMore DEF AttemptInv, AttemptTypes, Reports
    <3>3. opened'.at \in 1 .. Len(reported') /\ InUse' = fetch.from
      BY <3>1, <3>2 DEF InUse
    <3>. QED
      BY <3>1, <3>3 DEF TokenInv
  <2>2. CASE connectionState # "GettingToken"
    BY <1>2, <2>2, TokenKept DEF TokenFetched
  <2>. QED
    BY <2>1, <2>2
<1>3. CASE OnReady
  BY <1>3 DEF OnReady, AttemptInv, AttemptTypes, OneConnectionAttempt, Connected, States,
              TokenInv, InUse, token, reports
<1>4. CASE LoseConnection \/ TokenRefused
  BY <1>4, TokenDisconnect DEF LoseConnection, TokenRefused
<1>5. ASSUME NEW r, Interrupt(r)
      PROVE  TokenInv'
  BY <1>5, TokenKept, TokenDisconnect DEF Interrupt, reports
<1>6. ASSUME NEW r \in Reasons, Resume(r)
      PROVE  TokenInv'
  BY <1>6, TokenKept DEF Resume, reports
<1>7. ASSUME NEW l \in Specs, Listen(l) \/ Unlisten(l) \/ ListenRevoked(l)
      PROVE  TokenInv'
  BY <1>7, TokenKept DEF Listen, Unlisten, ListenRevoked, connection, token, reports
<1>8. CASE PutInternal \/ PurgeOutstandingWrites
  BY <1>8, TokenKept DEF PutInternal, PurgeOutstandingWrites, connection, token, reports
<1>9. ASSUME NEW t \in Tokens \cup {Nil}, RefreshAuthToken(t)
      PROVE  TokenInv'
  BY <1>9, TokenReported DEF RefreshAuthToken, connection, Credentials
<1>10. CASE Service
  <2>1. CASE AuthAccepted
    <3>1. connectionState \in {"Authenticating", "Connected"}
      BY <2>1 DEF AuthAccepted, AttemptInv, OneConnectionAttempt, Connected
    <3>. QED
      BY <2>1, <3>1 DEF AuthAccepted, TokenInv, InUse, token, reports
  <2>2. ASSUME NEW b \in BOOLEAN, PutResponse(b)
        PROVE  TokenInv'
    BY <2>2, TokenKept DEF PutResponse, connection, token, reports
  <2>3. ASSUME NEW l \in Specs, NEW b \in BOOLEAN, ListenResponse(l, b)
        PROVE  TokenInv'
    BY <2>3, TokenKept DEF ListenResponse, connection, token, reports
  <2>. QED
    BY <1>10, <2>1, <2>2, <2>3 DEF Service
<1>11. CASE UNCHANGED vars
  BY <1>11, TokenKept DEF vars, connection, token, reports
<1>. QED
  BY <1>1, <1>2, <1>3, <1>4, <1>5, <1>6, <1>7, <1>8, <1>9, <1>10, <1>11
     DEF Next, onKill, GoOffline

\* A client that is connected uses the credential reported last, if one was since
\* the token of its connection came, and else the one that was the last when that
\* token was asked for: of all reports refreshAuthToken and
\* openNetworkConnectionWithToken follow, only those between a fetch and its
\* answer are lost.
THEOREM AlwaysFollowsListener == Spec => []TokenFollowsListener
<1>1. Init => TokenInv
  BY DEF Init, TokenInv
<1>2. TokenInv => TokenFollowsListener
  BY DEF TokenInv, InUse, TokenFollowsListener
<1>. QED
  BY <1>1, <1>2, AttemptInit, AttemptStep, TokenStep, PTL DEF Spec

-----------------------------------------------------------------------------
(* The order of writes.                                                    *)

\* The puts among requests are in the order of issue, are some of issued, and
\* are newer than all of done.
InLine(requests, issued, done) ==
  /\ requests \in Seq(Requests)
  /\ \A j, k \in PutsIn(requests) : j < k => requests[j].put < requests[k].put
  /\ \A k \in PutsIn(requests) :
       /\ requests[k].put \in issued
       /\ \A i \in done : requests[k].put > i

LEMMA RequestTyped ==
  /\ \A b \in BOOLEAN : AuthRequest(b) \in Requests /\ AuthRequest(b).type = "auth"
  /\ \A i \in Puts : PutRequest(i) \in Requests /\ PutRequest(i).type = "put"
                      /\ PutRequest(i).put = i
  /\ \A r \in Requests : r.type = "put" => r.put \in Puts
  /\ \A i \in Puts : ~PutRequest(i).restore
  /\ AuthRequest(TRUE).restore /\ ~AuthRequest(FALSE).restore
<1>1. \A b \in BOOLEAN : AuthRequest(b) \in Requests
  BY DEF Requests
<1>2. \A i \in Puts : PutRequest(i) \in Requests
  BY DEF Requests
<1>3. \A b \in BOOLEAN : AuthRequest(b).type = "auth"
  BY DEF AuthRequest
<1>4. \A i \in Puts :
        PutRequest(i).type = "put" /\ PutRequest(i).put = i /\ PutRequest(i).restore = FALSE
  BY DEF PutRequest
<1>5. \A r \in Requests : r.type = "put" => r.put \in Puts
  BY <1>3, <1>4 DEF Requests
<1>6. AuthRequest(TRUE).restore = TRUE /\ AuthRequest(FALSE).restore = FALSE
  BY DEF AuthRequest
<1>. QED
  BY <1>1, <1>2, <1>3, <1>4, <1>5, <1>6

LEMMA InLineTail ==
  ASSUME NEW requests, NEW issued, NEW done, InLine(requests, issued, done), requests # <<>>
  PROVE  InLine(Tail(requests), issued, done)
<1>1. /\ Tail(requests) \in Seq(Requests)
      /\ \A k \in DOMAIN Tail(requests) :
           k \in Nat \ {0} /\ k + 1 \in DOMAIN requests /\ Tail(requests)[k] = requests[k + 1]
  BY TailAt DEF InLine
<1>2. \A k \in PutsIn(Tail(requests)) :
        k \in Nat /\ k + 1 \in PutsIn(requests) /\ Tail(requests)[k] = requests[k + 1]
  BY <1>1 DEF PutsIn
<1>3. ASSUME NEW j \in PutsIn(Tail(requests)), NEW k \in PutsIn(Tail(requests)), j < k
      PROVE  Tail(requests)[j].put < Tail(requests)[k].put
  <2>1. j + 1 < k + 1 /\ j + 1 \in PutsIn(requests) /\ k + 1 \in PutsIn(requests)
    BY <1>2, <1>3
  <2>2. requests[j + 1].put < requests[k + 1].put
    BY <2>1 DEF InLine
  <2>. QED
    BY <1>2, <2>2
<1>4. ASSUME NEW k \in PutsIn(Tail(requests))
      PROVE  /\ Tail(requests)[k].put \in issued
             /\ \A i \in done : Tail(requests)[k].put > i
  BY <1>2, Zenon DEF InLine
<1>. QED
  BY <1>1, <1>3, <1>4, Zenon DEF InLine

LEMMA InLineAuth ==
  ASSUME NEW requests, NEW issued, NEW done, InLine(requests, issued, done), NEW b \in BOOLEAN
  PROVE  InLine(Append(requests, AuthRequest(b)), issued, done)
<1>. DEFINE longer == Append(requests, AuthRequest(b))
<1>1. /\ longer \in Seq(Requests) /\ DOMAIN longer = 1 .. (Len(requests) + 1)
      /\ DOMAIN requests = 1 .. Len(requests) /\ Len(requests) \in Nat
      /\ \A k \in 1 .. Len(requests) : longer[k] = requests[k]
      /\ longer[Len(requests) + 1].type = "auth"
  BY RequestTyped, AppendProperties, LenProperties DEF InLine
<1>2. \A k \in PutsIn(longer) : k \in PutsIn(requests) /\ longer[k] = requests[k]
  BY <1>1 DEF PutsIn
<1>. QED
  BY <1>1, <1>2 DEF InLine

LEMMA InLinePut ==
  ASSUME NEW requests, NEW n \in Nat, NEW done \in SUBSET (1 .. n), n < MaxPuts,
         InLine(requests, 1 .. n, done)
  PROVE  InLine(Append(requests, PutRequest(n + 1)), 1 .. (n + 1), done)
<1>. DEFINE longer == Append(requests, PutRequest(n + 1))
<1>1. n + 1 \in Puts
  BY PutsAssumption DEF Puts
<1>2. /\ longer \in Seq(Requests) /\ DOMAIN longer = 1 .. (Len(requests) + 1)
      /\ DOMAIN requests = 1 .. Len(requests) /\ Len(requests) \in Nat
      /\ \A k \in 1 .. Len(requests) : longer[k] = requests[k]
      /\ longer[Len(requests) + 1].put = n + 1
  BY <1>1, RequestTyped, AppendProperties, LenProperties DEF InLine
<1>3. \A k \in PutsIn(longer) :
        \/ k \in PutsIn(requests) /\ k \in 1 .. Len(requests) /\ longer[k] = requests[k]
        \/ k = Len(requests) + 1 /\ longer[k].put = n + 1
  BY <1>2 DEF PutsIn
<1>. QED
  BY <1>2, <1>3 DEF InLine

\* Of n puts issued, some await an answer, and all of done are older.
Awaiting(n, puts, done) ==
  /\ n \in 0 .. MaxPuts
  /\ puts \subseteq 1 .. n /\ done \subseteq 1 .. n
  /\ \A i \in done, j \in puts : j > i

Restored(base, keys) == base \o [k \in DOMAIN keys |-> PutRequest(keys[k])]

\* Sending the outstanding puts again, after requests that are no puts.
LEMMA InLineRestored ==
  ASSUME NEW base \in Seq(Requests), PutsIn(base) = {},
         NEW n, NEW puts, NEW done, Awaiting(n, puts, done),
         NEW keys \in Sorted(puts)
  PROVE  LET restored == Restored(base, keys)
         IN  /\ InLine(restored, 1 .. n, done)
             /\ \A i \in puts : \E k \in PutsIn(restored) : restored[k].put = i
             /\ (\A k \in DOMAIN base : ~base[k].restore) =>
                  \A k \in DOMAIN restored : ~restored[k].restore
<1>. DEFINE again == [k \in DOMAIN keys |-> PutRequest(keys[k])]
            restored == Restored(base, keys)
            c == Cardinality(puts)
            b == Len(base)
<1>1. c \in Nat
  <2>1. IsFiniteSet(1 .. n)
    BY FS_Interval DEF Awaiting
  <2>2. puts \in SUBSET (1 .. n)
    BY DEF Awaiting
  <2>. QED
    BY <2>1, <2>2, FS_Subset, FS_CardinalityType
<1>2. /\ keys \in [1 .. c -> puts] /\ DOMAIN keys = 1 .. c
      /\ \A i \in puts : \E k \in 1 .. c : keys[k] = i
      /\ \A j, k \in 1 .. c : j < k => keys[j] < keys[k]
  BY DEF Sorted, Listings
<1>3. /\ again \in Seq(Requests) /\ Len(again) = c
      /\ \A k \in 1 .. c : again[k] = PutRequest(keys[k]) /\ keys[k] \in Puts
  <2>1. \A k \in 1 .. c : keys[k] \in Puts
    <3>1. puts \subseteq Puts
      BY PutsAssumption DEF Puts, Awaiting
    <3>. HIDE DEF c
    <3>. QED
      BY <1>2, <3>1
  <2>2. again \in [1 .. c -> Requests]
    BY <1>2, <2>1, RequestTyped
  <2>. QED
    BY <1>1, <1>2, <2>1, <2>2
<1>4. /\ restored \in Seq(Requests) /\ b \in Nat /\ DOMAIN base = 1 .. b
      /\ \A k \in 1 .. b : k \in DOMAIN restored /\ restored[k] = base[k]
      /\ \A k \in 1 .. c : b + k \in DOMAIN restored /\ restored[b + k] = again[k]
      /\ \A k \in DOMAIN restored : k \in 1 .. b \/ (k - b \in 1 .. c /\ b + (k - b) = k)
  <2>1. restored = base \o again
    BY DEF Restored
  <2>. HIDE DEF again, c, restored
  <2>. QED
    BY <1>3, <2>1, ConcatAt
<1>. HIDE DEF restored, c, b
<1>5. \A k \in 1 .. c : b + k \in PutsIn(restored) /\ restored[b + k].put = keys[k]
  BY <1>3, <1>4, RequestTyped DEF PutsIn
<1>6. \A k \in PutsIn(restored) : k - b \in 1 .. c /\ restored[k].put = keys[k - b]
  <2>. SUFFICES ASSUME NEW k \in PutsIn(restored)
                PROVE  k - b \in 1 .. c /\ restored[k].put = keys[k - b]
    OBVIOUS
  <2>1. k \notin 1 .. b
    BY <1>4 DEF PutsIn
  <2>2. k - b \in 1 .. c /\ b + (k - b) = k
    BY <1>4, <2>1 DEF PutsIn
  <2>. QED
    BY <1>5, <2>2
<1>7. InLine(restored, 1 .. n, done)
  <2>1. ASSUME NEW j \in PutsIn(restored), NEW k \in PutsIn(restored), j < k
        PROVE  restored[j].put < restored[k].put
    <3>1. j \in Int /\ k \in Int
      BY <1>4 DEF PutsIn
    <3>2. j - b < k - b
      BY <1>4, <2>1, <3>1
    <3>. QED
      BY <1>2, <1>6, <3>2
  <2>2. ASSUME NEW k \in PutsIn(restored)
        PROVE  restored[k].put \in puts
    BY <1>2, <1>6
  <2>. QED
    BY <1>4, <2>1, <2>2 DEF InLine, Awaiting
<1>8. \A i \in puts : \E k \in PutsIn(restored) : restored[k].put = i
  BY <1>2, <1>5
<1>9. ASSUME \A k \in DOMAIN base : ~base[k].restore, NEW k \in DOMAIN restored
      PROVE  ~restored[k].restore
  <2>1. CASE k \in 1 .. b
    BY <1>4, <1>9, <2>1
  <2>2. CASE k - b \in 1 .. c /\ b + (k - b) = k
    BY <1>3, <1>4, <2>2, RequestTyped
  <2>. QED
    BY <1>4, <2>1, <2>2
<1>. QED
  BY <1>7, <1>8, <1>9 DEF restored

\* A client that is authenticating has asked for nothing but that; one that is
\* connected has sent every put that is outstanding.  A put the service has
\* confirmed is older than all that is still on its way, or will be sent again.
AuthPending ==
  connectionState = "Authenticating" =>
    /\ requestCBHash # <<>> /\ requestCBHash[1].restore
    /\ \A k \in DOMAIN requestCBHash :
         requestCBHash[k].type = "auth" /\ (requestCBHash[k].restore => k = 1)

AllSent ==
  connectionState = "Connected" =>
    /\ \A k \in DOMAIN requestCBHash : ~requestCBHash[k].restore
    /\ \A i \in outstandingPuts : \E k \in PutsIn(requestCBHash) : requestCBHash[k].put = i

WritesTypes ==
  /\ putCounter \in 0 .. MaxPuts /\ value \in Nat
  /\ outstandingPuts \subseteq 1 .. putCounter /\ confirmed \subseteq 1 .. putCounter

WritesInv ==
  /\ WritesTypes /\ AuthPending /\ AllSent
  /\ InLine(requestCBHash, 1 .. putCounter, confirmed)
  /\ \A i \in confirmed : value >= i /\ \A j \in outstandingPuts : j > i

LEMMA WritesInit == Init => WritesInv
BY PutsAssumption
   DEF Init, WritesInv, WritesTypes, AuthPending, AllSent, InLine, PutsIn

LEMMA WritesIdle ==
  ASSUME WritesInv,
         UNCHANGED <<putCounter, outstandingPuts, confirmed, requestCBHash, value>>,
         \/ UNCHANGED connectionState
         \/ connectionState' \in {"Disconnected", "GettingToken", "Connecting"}
  PROVE  WritesInv'
BY DEF WritesInv, WritesTypes, AuthPending, AllSent, InLine, PutsIn

LEMMA WritesDisconnect ==
  ASSUME WritesInv, NEW reasons, NEW force, Disconnect(reasons, force)
  PROVE  WritesInv'
<1>1. value' = value \/ \E k \in PutsIn(requestCBHash) : value' = requestCBHash[k].put
  BY DEF Disconnect
<1>2. WritesTypes' /\ \A i \in confirmed' : value' >= i
  <2>1. UNCHANGED <<putCounter, confirmed>> /\ outstandingPuts' \subseteq outstandingPuts
    BY DEF Disconnect
  <2>2. CASE value' = value
    BY <2>1, <2>2 DEF WritesInv, WritesTypes
  <2>3. CASE \E k \in PutsIn(requestCBHash) : value' = requestCBHash[k].put
    BY <2>1, <2>3 DEF WritesInv, WritesTypes, InLine
  <2>. QED
    BY <1>1, <2>2, <2>3
<1>3. AuthPending' /\ AllSent'
  BY DEF AuthPending, AllSent, Disconnect
<1>4. InLine(requestCBHash', 1 .. putCounter', confirmed')
  BY DEF InLine, PutsIn, Disconnect
<1>. QED
  BY <1>2, <1>3, <1>4 DEF WritesInv, Disconnect

LEMMA WritesRestored ==
  ASSUME WritesInv, NEW base \in Seq(Requests), PutsIn(base) = {},
         \A k \in DOMAIN base : ~base[k].restore,
         RestoreState(base), connectionState' = "Connected",
         UNCHANGED <<putCounter, outstandingPuts, confirmed, value>>
  PROVE  WritesInv'
<1>1. PICK keys \in Sorted(outstandingPuts) :
        requestCBHash' = Restored(base, keys)
  BY DEF RestoreState, SendPuts, Restored
<1>2. Awaiting(putCounter, outstandingPuts, confirmed)
  BY DEF WritesInv, WritesTypes, Awaiting
<1>3. /\ InLine(requestCBHash', 1 .. putCounter, confirmed)
      /\ \A i \in outstandingPuts :
           \E k \in PutsIn(requestCBHash') : requestCBHash'[k].put = i
      /\ \A k \in DOMAIN requestCBHash' : ~requestCBHash'[k].restore
  <2>. DEFINE restored == Restored(base, keys)
  <2>1. /\ InLine(restored, 1 .. putCounter, confirmed)
        /\ \A i \in outstandingPuts : \E k \in PutsIn(restored) : restored[k].put = i
        /\ (\A k \in DOMAIN base : ~base[k].restore) =>
             \A k \in DOMAIN restored : ~restored[k].restore
    BY <1>2, InLineRestored
  <2>. HIDE DEF restored
  <2>2. requestCBHash' = restored
    BY <1>1 DEF restored
  <2>. QED
    BY <2>1, <2>2
<1>4. AuthPending' /\ AllSent'
  BY <1>3 DEF AuthPending, AllSent, PutsIn
<1>. QED
  BY <1>3, <1>4 DEF WritesInv, WritesTypes

LEMMA WritesOnReady ==
  ASSUME AttemptInv, WritesInv, OnReady
  PROVE  WritesInv'
<1>1. requestCBHash = <<>>
  BY DEF OnReady, AttemptInv, AttemptTypes, OneConnectionAttempt, Connected, States
<1>2. CASE authToken = Nil
  <2>1. <<>> \in Seq(Requests) /\ PutsIn(<<>>) = {} /\ \A k \in DOMAIN <<>> : ~(<<>>)[k].restore
    BY DEF PutsIn
  <2>. QED
    BY <1>1, <1>2, <2>1, WritesRestored DEF OnReady
<1>3. CASE authToken # Nil
  <2>1. /\ requestCBHash' = Append(<<>>, AuthRequest(TRUE)) /\ connectionState' = "Authenticating"
        /\ UNCHANGED <<putCounter, outstandingPuts, confirmed, value>>
    BY <1>1, <1>3 DEF OnReady
  <2>2. InLine(requestCBHash', 1 .. putCounter, confirmed)
    BY <1>1, <1>3, InLineAuth DEF WritesInv, OnReady
  <2>3. requestCBHash' # <<>> /\ DOMAIN requestCBHash' = {1} /\ requestCBHash'[1] = AuthRequest(TRUE)
    <3>1. <<>> \in Seq(Requests) /\ Len(<<>>) = 0
      OBVIOUS
    <3>2. AuthRequest(TRUE) \in Requests
      BY RequestTyped
    <3>. HIDE DEF AuthRequest
    <3>. QED
      BY <2>1, <3>1, <3>2, AppendProperties, LenProperties
  <2>4. AuthPending' /\ AllSent'
    BY <2>1, <2>3, RequestTyped DEF AuthPending, AllSent
  <2>. QED
    BY <2>1, <2>2, <2>4 DEF WritesInv, WritesTypes
<1>. QED
  BY <1>2, <1>3

LEMMA WritesAuthAccepted ==
  ASSUME AttemptInv, WritesInv, AuthAccepted
  PROVE  WritesInv'
<1>1. /\ requestCBHash \in Seq(Requests) /\ requestCBHash # <<>>
      /\ connectionState \in {"Authenticating", "Connected"}
      /\ UNCHANGED <<putCounter, outstandingPuts, confirmed, value>>
      /\ connectionState' = "Connected"
  BY DEF AuthAccepted, AttemptInv, OneConnectionAttempt, Connected, WritesInv, InLine
<1>2. /\ Tail(requestCBHash) \in Seq(Requests) /\ Head(requestCBHash) = requestCBHash[1]
      /\ 1 \in DOMAIN requestCBHash
      /\ \A k \in DOMAIN Tail(requestCBHash) :
           /\ k \in Nat \ {0} /\ k + 1 \in DOMAIN requestCBHash
           /\ Tail(requestCBHash)[k] = requestCBHash[k + 1]
      /\ \A k \in DOMAIN requestCBHash :
           k # 1 => k - 1 \in DOMAIN Tail(requestCBHash)
                      /\ Tail(requestCBHash)[k - 1] = requestCBHash[k]
  BY <1>1, TailAt
<1>3. CASE connectionState = "Authenticating"
  <2>1. Head(requestCBHash).restore
    BY <1>2, <1>3 DEF WritesInv, AuthPending
  <2>2. PutsIn(Tail(requestCBHash)) = {}
    BY <1>2, <1>3 DEF WritesInv, AuthPending, PutsIn
  <2>3. \A k \in DOMAIN Tail(requestCBHash) : ~Tail(requestCBHash)[k].restore
    BY <1>2, <1>3 DEF WritesInv, AuthPending
  <2>. QED
    BY <1>1, <1>2, <2>1, <2>2, <2>3, WritesRestored DEF AuthAccepted
<1>4. CASE connectionState = "Connected"
  <2>1. ~Head(requestCBHash).restore
    BY <1>2, <1>4 DEF WritesInv, AllSent
  <2>2. requestCBHash' = Tail(requestCBHash)
    BY <2>1 DEF AuthAccepted
  <2>3. InLine(requestCBHash', 1 .. putCounter, confirmed)
    BY <1>1, <2>2, InLineTail DEF WritesInv
  <2>4. \A k \in PutsIn(requestCBHash) :
          k - 1 \in PutsIn(Tail(requestCBHash)) /\ Tail(requestCBHash)[k - 1] = requestCBHash[k]
    BY <1>2 DEF PutsIn, AuthAccepted
  <2>5. \A k \in DOMAIN requestCBHash' : ~requestCBHash'[k].restore
    BY <1>2, <1>4, <2>2 DEF AllSent, WritesInv
  <2>6. \A i \in outstandingPuts' : \E k \in PutsIn(requestCBHash') : requestCBHash'[k].put = i
    <3>. SUFFICES ASSUME NEW i \in outstandingPuts
                  PROVE  \E k \in PutsIn(requestCBHash') : requestCBHash'[k].put = i
      BY <1>1
    <3>1. PICK k \in PutsIn(requestCBHash) : requestCBHash[k].put = i
      BY <1>4 DEF AllSent, WritesInv
    <3>. QED
      BY <2>2, <2>4, <3>1
  <2>7. AuthPending' /\ AllSent'
    BY <1>1, <2>5, <2>6 DEF AuthPending, AllSent
  <2>. QED
    BY <1>1, <2>3, <2>7 DEF WritesInv, WritesTypes
<1>. QED
  BY <1>1, <1>3, <1>4

LEMMA WritesPutInternal ==
  ASSUME WritesInv, PutInternal
  PROVE  WritesInv'
<1>. DEFINE n == putCounter
<1>1. /\ n \in Nat /\ n < MaxPuts /\ putCounter' = n + 1 /\ MaxPuts \in Nat
      /\ outstandingPuts' = outstandingPuts \cup {n + 1}
      /\ UNCHANGED <<connectionState, confirmed, value>>
      /\ confirmed \in SUBSET (1 .. n)
  BY PutsAssumption DEF PutInternal, WritesInv, WritesTypes, connection
<1>2. WritesTypes'
  BY <1>1 DEF WritesInv, WritesTypes
<1>3. \A i \in confirmed' : value' >= i /\ \A j \in outstandingPuts' : j > i
  BY <1>1 DEF WritesInv, WritesTypes
<1>4. InLine(requestCBHash, 1 .. n, confirmed)
  BY DEF WritesInv
<1>5. CASE CanSendWrites
  <2>1. requestCBHash' = Append(requestCBHash, PutRequest(n + 1))
    BY <1>5 DEF PutInternal
  <2>2. InLine(requestCBHash', 1 .. putCounter', confirmed')
    BY <1>1, <1>4, <2>1, InLinePut
  <2>3. /\ requestCBHash \in Seq(Requests) /\ n + 1 \in Puts
        /\ PutRequest(n + 1) \in Requests
    BY <1>1, <1>4, RequestTyped DEF InLine, Puts
  <2>4. /\ Len(requestCBHash) \in Nat /\ DOMAIN requestCBHash = 1 .. Len(requestCBHash)
        /\ DOMAIN requestCBHash' = 1 .. (Len(requestCBHash) + 1)
        /\ \A k \in 1 .. Len(requestCBHash) : requestCBHash'[k] = requestCBHash[k]
        /\ requestCBHash'[Len(requestCBHash) + 1] = PutRequest(n + 1)
    <3>. HIDE DEF n
    <3>. QED
      BY <2>1, <2>3, AppendProperties, LenProperties
  <2>5. AuthPending'
    BY <1>1, <1>5 DEF AuthPending, CanSendWrites
  <2>6. \A k \in DOMAIN requestCBHash' : ~requestCBHash'[k].restore
    BY <1>5, <2>3, <2>4, RequestTyped DEF WritesInv, AllSent, CanSendWrites
  <2>7. \A i \in outstandingPuts : \E k \in PutsIn(requestCBHash') : requestCBHash'[k].put = i
    BY <1>5, <2>4 DEF WritesInv, AllSent, CanSendWrites, PutsIn
  <2>8. Len(requestCBHash) + 1 \in PutsIn(requestCBHash')
          /\ requestCBHash'[Len(requestCBHash) + 1].put = n + 1
    BY <2>3, <2>4, RequestTyped DEF PutsIn
  <2>9. AllSent'
    <3>. HIDE DEF n
    <3>. QED
      BY <1>1, <2>6, <2>7, <2>8 DEF AllSent
  <2>. QED
    BY <1>2, <1>3, <2>2, <2>5, <2>9 DEF WritesInv
<1>6. CASE ~CanSendWrites
  <2>1. UNCHANGED requestCBHash
    BY <1>6 DEF PutInternal
  <2>2. InLine(requestCBHash', 1 .. putCounter', confirmed')
    BY <1>1, <1>4, <2>1 DEF InLine
  <2>3. AuthPending' /\ AllSent'
    BY <1>1, <1>6, <2>1 DEF WritesInv, AuthPending, AllSent, CanSendWrites
  <2>. QED
    BY <1>2, <1>3, <2>2, <2>3 DEF WritesInv
<1>. QED
  BY <1>5, <1>6

LEMMA WritesRefresh ==
  ASSUME AttemptInv, WritesInv, NEW t \in Tokens \cup {Nil}, RefreshAuthToken(t)
  PROVE  WritesInv'
<1>1. UNCHANGED <<connectionState, putCounter, outstandingPuts, confirmed, value>>
  BY DEF RefreshAuthToken, connection, writes
<1>2. CASE UNCHANGED requestCBHash
  BY <1>1, <1>2, WritesIdle
<1>3. CASE Connected /\ requestCBHash' = Append(requestCBHash, AuthRequest(FALSE))
  <2>1. InLine(requestCBHash', 1 .. putCounter', confirmed')
    BY <1>1, <1>3, InLineAuth DEF WritesInv
  <2>2. requestCBHash \in Seq(Requests) /\ AuthRequest(FALSE) \in Requests
    BY RequestTyped DEF WritesInv, InLine
  <2>. DEFINE n == Len(requestCBHash) + 1
  <2>3. /\ requestCBHash' # <<>> /\ n \in DOMAIN requestCBHash'
        /\ requestCBHash # <<>> => 1 \in DOMAIN requestCBHash
        /\ \A k \in DOMAIN requestCBHash :
             k \in DOMAIN requestCBHash' /\ requestCBHash'[k] = requestCBHash[k]
        /\ requestCBHash'[n] = AuthRequest(FALSE)
        /\ \A k \in DOMAIN requestCBHash' : k \in DOMAIN requestCBHash \/ k = n
    <3>. DEFINE e == AuthRequest(FALSE)
    <3>. HIDE DEF e
    <3>1. requestCBHash \in Seq(Requests) /\ e \in Requests
      BY <2>2 DEF e
    <3>2. requestCBHash' = Append(requestCBHash, e)
      BY <1>3 DEF e
    <3>. DEFINE longer == Append(requestCBHash, e)
    <3>3. /\ longer # <<>> /\ n \in DOMAIN longer
          /\ requestCBHash # <<>> => 1 \in DOMAIN requestCBHash
          /\ \A k \in DOMAIN requestCBHash : k \in DOMAIN longer /\ longer[k] = requestCBHash[k]
          /\ longer[n] = e
          /\ \A k \in DOMAIN longer : k \in DOMAIN requestCBHash \/ k = n
      BY <3>1, AppendAt
    <3>. HIDE DEF longer, n
    <3>4. requestCBHash' = longer
      BY <3>2 DEF longer
    <3>. QED
      BY <3>3, <3>4 DEF e
  <2>. HIDE DEF n
  <2>4. requestCBHash'[n].type = "auth" /\ ~requestCBHash'[n].restore
    BY <2>3, RequestTyped
  <2>5. AuthPending'
    BY <1>1, <2>3, <2>4 DEF WritesInv, AuthPending
  <2>6. \A i \in outstandingPuts : connectionState = "Connected" =>
          \E k \in PutsIn(requestCBHash') : requestCBHash'[k].put = i
    BY <2>3 DEF WritesInv, AllSent, PutsIn
  <2>7. AllSent'
    BY <1>1, <2>3, <2>4, <2>6 DEF WritesInv, AllSent
  <2>. QED
    BY <1>1, <2>1, <2>5, <2>7 DEF WritesInv, WritesTypes
<1>. QED
  BY <1>2, <1>3 DEF RefreshAuthToken

LEMMA WritesPutResponse ==
  ASSUME AttemptInv, WritesInv, NEW applied \in BOOLEAN, PutResponse(applied)
  PROVE  WritesInv'
<1>. DEFINE rest  == Tail(requestCBHash)
            index == Head(requestCBHash).put
<1>1. /\ requestCBHash \in Seq(Requests) /\ requestCBHash # <<>> /\ requestCBHash' = rest
      /\ Head(requestCBHash).type = "put"
      /\ UNCHANGED <<connectionState, putCounter>>
  BY DEF PutResponse, WritesInv, InLine, connection
<1>2. /\ Head(requestCBHash) = requestCBHash[1] /\ 1 \in DOMAIN requestCBHash
      /\ \A k \in DOMAIN rest :
           /\ k \in Nat \ {0} /\ k + 1 \in DOMAIN requestCBHash
           /\ rest[k] = requestCBHash[k + 1]
      /\ \A k \in DOMAIN requestCBHash :
           k # 1 => k - 1 \in DOMAIN rest /\ rest[k - 1] = requestCBHash[k]
  BY <1>1, TailAt
<1>3. connectionState = "Connected"
  BY <1>1, <1>2 DEF AttemptInv, OneConnectionAttempt, Connected, WritesInv, AuthPending
<1>4. 1 \in PutsIn(requestCBHash) /\ index = requestCBHash[1].put
  BY <1>1, <1>2 DEF PutsIn
<1>5. index \in 1 .. putCounter /\ \A i \in confirmed : index > i
  BY <1>4 DEF WritesInv, InLine
<1>. HIDE DEF rest, index
<1>6. /\ outstandingPuts' \subseteq outstandingPuts /\ index \notin outstandingPuts'
      /\ confirmed' = confirmed \/ (confirmed' = confirmed \cup {index} /\ value' = index)
      /\ value' \in {value, index}
  BY DEF PutResponse, index
<1>7. \A k \in PutsIn(rest) :
        k + 1 \in PutsIn(requestCBHash) /\ rest[k].put > index /\ rest[k].put \in 1 .. putCounter
  <2>. SUFFICES ASSUME NEW k \in PutsIn(rest)
                PROVE  /\ k + 1 \in PutsIn(requestCBHash) /\ rest[k].put > index
                       /\ rest[k].put \in 1 .. putCounter
    OBVIOUS
  <2>1. k + 1 \in PutsIn(requestCBHash) /\ rest[k] = requestCBHash[k + 1] /\ 1 < k + 1
    BY <1>2 DEF PutsIn
  <2>2. requestCBHash[1].put < requestCBHash[k + 1].put
    BY <1>4, <2>1 DEF WritesInv, InLine
  <2>3. requestCBHash[k + 1].put \in 1 .. putCounter
    BY <2>1 DEF WritesInv, InLine
  <2>4. putCounter \in Nat
    BY PutsAssumption DEF WritesInv, WritesTypes
  <2>. QED
    BY <1>4, <1>5, <2>1, <2>2, <2>3, <2>4
<1>8. InLine(rest, 1 .. putCounter, confirmed)
  BY <1>1, InLineTail DEF WritesInv, rest
<1>9. InLine(rest, 1 .. putCounter, confirmed')
  BY <1>6, <1>7, <1>8 DEF InLine
<1>10. \A i \in outstandingPuts' : \E k \in PutsIn(rest) : rest[k].put = i
  <2>. SUFFICES ASSUME NEW i \in outstandingPuts'
                PROVE  \E k \in PutsIn(rest) : rest[k].put = i
    OBVIOUS
  <2>1. PICK k \in PutsIn(requestCBHash) : requestCBHash[k].put = i
    BY <1>3, <1>6 DEF WritesInv, AllSent
  <2>2. k # 1
    BY <1>4, <1>6, <2>1
  <2>. QED
    BY <1>2, <2>1, <2>2 DEF PutsIn
<1>11. \A i \in outstandingPuts' : i > index
  <2>. SUFFICES ASSUME NEW i \in outstandingPuts'
                PROVE  i > index
    OBVIOUS
  <2>. QED
    BY <1>7, <1>10
<1>12. WritesTypes'
  <2>1. putCounter \in Nat /\ index \in Nat
    BY <1>5, PutsAssumption DEF WritesInv, WritesTypes
  <2>2. value' \in Nat
    BY <1>6, <2>1 DEF WritesInv, WritesTypes
  <2>3. confirmed' \subseteq 1 .. putCounter
    BY <1>5, <1>6 DEF WritesInv, WritesTypes
  <2>. QED
    BY <1>1, <1>6, <2>2, <2>3 DEF WritesInv, WritesTypes
<1>13. \A i \in confirmed' : value' >= i /\ \A j \in outstandingPuts' : j > i
  <2>1. ASSUME NEW i \in confirmed
        PROVE  value' >= i /\ \A j \in outstandingPuts' : j > i
    BY <1>5, <1>6 DEF WritesInv, WritesTypes
  <2>2. CASE confirmed' = confirmed \cup {index} /\ value' = index
    BY <1>5, <1>11, <2>1, <2>2
  <2>. QED
    BY <1>6, <2>1, <2>2
<1>14. \A k \in DOMAIN rest : ~rest[k].restore
  BY <1>2, <1>3 DEF WritesInv, AllSent
<1>15. AuthPending' /\ AllSent'
  BY <1>1, <1>3, <1>10, <1>14 DEF AuthPending, AllSent
<1>. QED
  BY <1>1, <1>9, <1>12, <1>13, <1>15 DEF WritesInv

LEMMA WritesPurge ==
  ASSUME WritesInv, PurgeOutstandingWrites
  PROVE  WritesInv'
BY DEF PurgeOutstandingWrites, connection, WritesInv, WritesTypes, AuthPending, AllSent,
       InLine, PutsIn

LEMMA WritesStep == AttemptInv /\ WritesInv /\ [Next]_vars => WritesInv'
<1>. SUFFICES ASSUME AttemptInv, WritesInv, [Next]_vars
              PROVE  WritesInv'
  OBVIOUS
<1>1. CASE RetryFires \/ TokenFetched \/ TokenFetchFails \/ NetworkReachable
  BY <1>1, WritesIdle DEF RetryFires, TokenFetched, TokenFetchFails, NetworkReachable, writes
<1>2. CASE LoseConnection \/ TokenRefused
  BY <1>2, WritesDisconnect DEF LoseConnection, TokenRefused
<1>3. ASSUME NEW r, Interrupt(r)
      PROVE  WritesInv'
  BY <1>3, WritesIdle, WritesDisconnect DEF Interrupt, writes
<1>4. ASSUME NEW r \in Reasons, Resume(r)
      PROVE  WritesInv'
  BY <1>4, WritesIdle DEF Resume, writes
<1>5. ASSUME NEW l \in Specs, Listen(l) \/ Unlisten(l) \/ ListenRevoked(l)
      PROVE  WritesInv'
  BY <1>5, WritesIdle DEF Listen, Unlisten, ListenRevoked, connection, writes
<1>6. ASSUME NEW l \in Specs, NEW b \in BOOLEAN, ListenResponse(l, b)
      PROVE  WritesInv'
  BY <1>6, WritesIdle DEF ListenResponse, connection
<1>7. CASE UNCHANGED vars
  BY <1>7, WritesIdle DEF vars, connection, writes
<1>. QED
  BY <1>1, <1>2, <1>3, <1>4, <1>5, <1>6, <1>7, WritesOnReady, WritesAuthAccepted,
     WritesPutInternal, WritesRefresh, WritesPutResponse, WritesPurge
     DEF Next, Service, onKill, GoOffline

\* What the service has confirmed is never undone by a write that is sent
\* again: restoreState sends the outstanding puts in the order of their issue,
\* and the service answers in order.
THEOREM AlwaysDurable == Spec => []DurableOrder
<1>1. WritesInv => DurableOrder
  BY DEF WritesInv, DurableOrder
<1>. QED
  BY <1>1, AttemptInit, AttemptStep, WritesInit, WritesStep, PTL DEF Spec

-----------------------------------------------------------------------------
(* No put is lost, and none completes twice.                               *)

Once(seq) == seq \in Seq(Puts) /\ IsInjective(seq)

\* A put that is answered, and only such a one, waits for a listen or is
\* completed, and not both.
PutsInv ==
  /\ Once(putsToAck) /\ Once(completed)
  /\ Range(putsToAck) \cap Range(completed) = {}
  /\ Range(putsToAck) \cup Range(completed) = (1 .. putCounter) \ outstandingPuts

LEMMA OnceAppend ==
  ASSUME NEW s, Once(s), NEW i \in Puts, i \notin Range(s)
  PROVE  Once(Append(s, i)) /\ Range(Append(s, i)) = Range(s) \cup {i}
<1>. DEFINE longer == Append(s, i)
            n == Len(s) + 1
<1>1. s \in Seq(Puts)
  BY DEF Once
<1>2. /\ longer \in Seq(Puts) /\ n \in DOMAIN longer /\ longer[n] = i
      /\ \A k \in DOMAIN s : k \in DOMAIN longer /\ longer[k] = s[k]
      /\ \A k \in DOMAIN longer : k \in DOMAIN s \/ k = n
  BY <1>1, AppendAt
<1>. HIDE DEF longer, n
<1>3. Range(longer) = Range(s) \cup {i}
  BY <1>2 DEF Range
<1>4. IsInjective(longer)
  BY <1>2 DEF Once, IsInjective, Range
<1>. QED
  BY <1>2, <1>3, <1>4 DEF Once, longer

LEMMA OnceConcat ==
  ASSUME NEW s, NEW t, Once(s), Once(t), Range(s) \cap Range(t) = {}
  PROVE  Once(s \o t) /\ Range(s \o t) = Range(s) \cup Range(t)
<1>. DEFINE both == s \o t
            b == Len(s)
            c == Len(t)
<1>1. s \in Seq(Puts) /\ t \in Seq(Puts)
  BY DEF Once
<1>2. /\ both \in Seq(Puts) /\ DOMAIN s = 1 .. b /\ DOMAIN t = 1 .. c
      /\ \A k \in 1 .. b : k \in DOMAIN both /\ both[k] = s[k]
      /\ \A k \in 1 .. c : b + k \in DOMAIN both /\ both[b + k] = t[k]
      /\ \A k \in DOMAIN both : k \in 1 .. b \/ (k - b \in 1 .. c /\ b + (k - b) = k)
  BY <1>1, ConcatAt
<1>. HIDE DEF both, b, c
<1>3. \A k \in DOMAIN both :
        \/ k \in DOMAIN s /\ both[k] = s[k] /\ both[k] \in Range(s)
        \/ /\ k - b \in DOMAIN t /\ b + (k - b) = k
           /\ both[k] = t[k - b] /\ both[k] \in Range(t)
  BY <1>2 DEF Range
<1>4. Range(s) \subseteq Range(both) /\ Range(t) \subseteq Range(both)
  BY <1>2 DEF Range
<1>5. Range(both) \subseteq Range(s) \cup Range(t)
  BY <1>3 DEF Range
<1>6. ASSUME NEW j \in DOMAIN both, NEW k \in DOMAIN both, both[j] = both[k]
      PROVE  j = k
  <2>1. CASE both[j] \in Range(s)
    <3>1. /\ j \in DOMAIN s /\ both[j] = s[j]
          /\ k \in DOMAIN s /\ both[k] = s[k]
      BY <1>3, <1>6, <2>1
    <3>. QED
      BY <1>6, <3>1 DEF Once, IsInjective
  <2>2. CASE both[j] \in Range(t)
    <3>1. /\ j - b \in DOMAIN t /\ b + (j - b) = j /\ both[j] = t[j - b]
          /\ k - b \in DOMAIN t /\ b + (k - b) = k /\ both[k] = t[k - b]
      BY <1>3, <1>6, <2>2
    <3>2. j - b = k - b
      BY <1>6, <3>1 DEF Once, IsInjective
    <3>. QED
      BY <3>1, <3>2
  <2>. QED
    BY <1>3, <2>1, <2>2
<1>7. IsInjective(both)
  BY <1>6 DEF IsInjective
<1>. QED
  BY <1>2, <1>4, <1>5, <1>7 DEF Once, both

\* A listing of puts lists each of them once: there are as many of one as of
\* the other.
LEMMA OnceListed ==
  ASSUME NEW puts, puts \subseteq Puts, NEW keys \in Listings(puts)
  PROVE  Once(keys) /\ Range(keys) = puts
<1>. DEFINE c == Cardinality(puts)
<1>1. IsFiniteSet(puts) /\ c \in Nat
  <2>1. IsFiniteSet(Puts) /\ puts \in SUBSET Puts
    BY FS_Interval, PutsAssumption DEF Puts
  <2>. QED
    BY <2>1, FS_Subset, FS_CardinalityType
<1>2. IsFiniteSet(1 .. c) /\ Cardinality(1 .. c) = c
  BY <1>1, FS_Interval
<1>3. keys \in [1 .. c -> puts] /\ \A i \in puts : \E k \in 1 .. c : keys[k] = i
  BY DEF Listings
<1>. HIDE DEF c
<1>4. keys \in Surjection(1 .. c, puts)
  BY <1>3 DEF Surjection, Range
<1>5. IsInjective(keys)
  BY <1>1, <1>2, <1>4, FS_Surjection DEF Injection, c
<1>6. keys \in Seq(Puts)
  BY <1>1, <1>3
<1>7. Range(keys) = puts
  BY <1>3 DEF Range
<1>. QED
  BY <1>5, <1>6, <1>7 DEF Once

LEMMA SortedListings == \A puts : Sorted(puts) \subseteq Listings(puts)
BY DEF Sorted

LEMMA PutsIdle ==
  ASSUME PutsInv, UNCHANGED <<putsToAck, completed, putCounter, outstandingPuts>>
  PROVE  PutsInv'
BY DEF PutsInv, Once

LEMMA PutsTyped ==
  ASSUME WritesInv
  PROVE  outstandingPuts \subseteq Puts /\ outstandingPuts \subseteq 1 .. putCounter
           /\ putCounter \in Nat
BY PutsAssumption DEF WritesInv, WritesTypes, Puts

\* Completing some of the outstanding puts.
LEMMA PutsCancelled ==
  ASSUME WritesInv, PutsInv, NEW puts \in SUBSET outstandingPuts, NEW keys \in Listings(puts),
         completed' = completed \o keys, outstandingPuts' = outstandingPuts \ puts,
         UNCHANGED <<putsToAck, putCounter>>
  PROVE  PutsInv'
<1>1. Once(keys) /\ Range(keys) = puts
  BY PutsTyped, OnceListed
<1>2. Range(completed) \cap Range(keys) = {}
  BY <1>1 DEF PutsInv
<1>3. Once(completed') /\ Range(completed') = Range(completed) \cup puts
  BY <1>1, <1>2, OnceConcat DEF PutsInv
<1>. QED
  BY <1>3, PutsTyped DEF PutsInv, Once

LEMMA PutsAcked ==
  ASSUME PutsInv, AckPuts, UNCHANGED <<outstandingPuts, putCounter>>
  PROVE  PutsInv'
<1>1. Once(completed') /\ Range(completed') = Range(completed) \cup Range(putsToAck)
  BY OnceConcat DEF PutsInv, AckPuts
<1>2. Once(putsToAck') /\ Range(putsToAck') = {}
  BY DEF AckPuts, Once, IsInjective, Range
<1>. QED
  BY <1>1, <1>2 DEF PutsInv

LEMMA PutsPutInternal ==
  ASSUME WritesInv, PutsInv, PutInternal
  PROVE  PutsInv'
<1>1. /\ putCounter' = putCounter + 1 /\ outstandingPuts' = outstandingPuts \cup {putCounter + 1}
      /\ UNCHANGED <<putsToAck, completed>>
  BY DEF PutInternal
<1>2. (1 .. putCounter') \ outstandingPuts' = (1 .. putCounter) \ outstandingPuts
  BY <1>1, PutsTyped
<1>. QED
  BY <1>1, <1>2 DEF PutsInv, Once

LEMMA PutsPutResponse ==
  ASSUME WritesInv, PutsInv, NEW applied \in BOOLEAN, PutResponse(applied)
  PROVE  PutsInv'
<1>. DEFINE index == Head(requestCBHash).put
<1>1. CASE index \notin outstandingPuts
  BY <1>1, PutsIdle DEF PutResponse
<1>2. CASE index \in outstandingPuts
  <2>1. /\ index \in Puts /\ index \in 1 .. putCounter
        /\ index \notin Range(putsToAck) /\ index \notin Range(completed)
    BY <1>2, PutsTyped DEF PutsInv
  <2>2. /\ outstandingPuts' = outstandingPuts \ {index} /\ UNCHANGED putCounter
        /\ \/ completed' = Append(completed, index) /\ UNCHANGED putsToAck
           \/ putsToAck' = Append(putsToAck, index) /\ UNCHANGED completed
    BY <1>2 DEF PutResponse
  <2>. HIDE DEF index
  <2>3. (1 .. putCounter) \ outstandingPuts' = ((1 .. putCounter) \ outstandingPuts) \cup {index}
    BY <1>2, <2>1, <2>2
  <2>4. CASE completed' = Append(completed, index) /\ UNCHANGED putsToAck
    <3>1. Once(completed') /\ Range(completed') = Range(completed) \cup {index}
      BY <2>1, <2>4, OnceAppend DEF PutsInv
    <3>. QED
      BY <2>1, <2>2, <2>3, <2>4, <3>1 DEF PutsInv, Once
  <2>5. CASE putsToAck' = Append(putsToAck, index) /\ UNCHANGED completed
    <3>1. Once(putsToAck') /\ Range(putsToAck') = Range(putsToAck) \cup {index}
      BY <2>1, <2>5, OnceAppend DEF PutsInv
    <3>. QED
      BY <2>1, <2>2, <2>3, <2>5, <3>1 DEF PutsInv, Once
  <2>. QED
    BY <2>2, <2>4, <2>5
<1>. QED
  BY <1>1, <1>2

LEMMA PutsPurge ==
  ASSUME WritesInv, PutsInv, PurgeOutstandingWrites
  PROVE  PutsInv'
<1>1. PICK keys \in Listings(outstandingPuts) : completed' = completed \o putsToAck \o keys
  BY SortedListings DEF PurgeOutstandingWrites
<1>2. Once(keys) /\ Range(keys) = outstandingPuts
  BY PutsTyped, OnceListed
<1>3. /\ Once(completed \o putsToAck)
      /\ Range(completed \o putsToAck) = Range(completed) \cup Range(putsToAck)
  BY OnceConcat DEF PutsInv
<1>4. Once(completed') /\ Range(completed') = Range(completed \o putsToAck) \cup Range(keys)
  BY <1>1, <1>2, <1>3, OnceConcat DEF PutsInv
<1>5. Once(putsToAck') /\ Range(putsToAck') = {}
  BY DEF PurgeOutstandingWrites, Once, IsInjective, Range
<1>6. outstandingPuts' = {} /\ putCounter' = putCounter
  BY DEF PurgeOutstandingWrites
<1>. QED
  BY <1>2, <1>3, <1>4, <1>5, <1>6, PutsTyped DEF PutsInv

LEMMA PutsStep == WritesInv /\ PutsInv /\ [Next]_vars => PutsInv'
<1>. SUFFICES ASSUME WritesInv, PutsInv, [Next]_vars
              PROVE  PutsInv'
  OBVIOUS
<1>1. CASE RetryFires \/ TokenFetched \/ TokenFetchFails \/ NetworkReachable \/ OnReady
            \/ AuthAccepted
  BY <1>1, PutsIdle
     DEF RetryFires, TokenFetched, TokenFetchFails, NetworkReachable, OnReady, AuthAccepted, writes
<1>2. ASSUME NEW reasons, NEW force, Disconnect(reasons, force)
      PROVE  PutsInv'
  <2>1. PICK keys \in Listings(CancelledTransactions) : completed' = completed \o keys
    BY <1>2 DEF Disconnect
  <2>2. CancelledTransactions \in SUBSET outstandingPuts
    BY DEF CancelledTransactions
  <2>. QED
    BY <1>2, <2>1, <2>2, PutsCancelled DEF Disconnect
<1>3. CASE LoseConnection \/ TokenRefused
  BY <1>2, <1>3 DEF LoseConnection, TokenRefused
<1>4. ASSUME NEW r, Interrupt(r)
      PROVE  PutsInv'
  BY <1>2, <1>4, PutsIdle DEF Interrupt, writes
<1>5. ASSUME NEW r \in Reasons, Resume(r)
      PROVE  PutsInv'
  BY <1>5, PutsIdle DEF Resume, writes
<1>6. ASSUME NEW l \in Specs, Listen(l) \/ Unlisten(l) \/ ListenRevoked(l)
      PROVE  PutsInv'
  BY <1>6, PutsIdle DEF Listen, Unlisten, ListenRevoked, writes
<1>7. ASSUME NEW t \in Tokens \cup {Nil}, RefreshAuthToken(t)
      PROVE  PutsInv'
  BY <1>7, PutsIdle DEF RefreshAuthToken, writes
<1>8. ASSUME NEW l \in Specs, NEW b \in BOOLEAN, ListenResponse(l, b)
      PROVE  PutsInv'
  BY <1>8, PutsIdle, PutsAcked DEF ListenResponse
<1>9. CASE UNCHANGED vars
  BY <1>9, PutsIdle DEF vars, writes
<1>. QED
  BY <1>1, <1>3, <1>4, <1>5, <1>6, <1>7, <1>8, <1>9, PutsPutInternal, PutsPutResponse, PutsPurge
     DEF Next, Service, onKill, GoOffline

\* A put is nowhere lost and its completion is never called twice, whatever
\* ends the connection, and whichever of a listen's answer, a purge and a
\* lost connection takes a put out of putsToAck or outstandingPuts.
THEOREM AlwaysConserved == Spec => []PutsConserved
<1>1. Init => PutsInv
  BY DEF Init, PutsInv, Once, IsInjective, Range
<1>2. WritesInv /\ PutsInv => PutsConserved
  <2>. SUFFICES ASSUME WritesInv, PutsInv
                PROVE  PutsConserved
    OBVIOUS
  <2>1. /\ Once(putsToAck \o completed)
        /\ Range(putsToAck \o completed) = (1 .. putCounter) \ outstandingPuts
    BY OnceConcat DEF PutsInv
  <2>. QED
    BY <2>1, PutsTyped DEF PutsConserved, Once
<1>. QED
  BY <1>1, <1>2, AttemptInit, AttemptStep, WritesInit, WritesStep, PutsStep, PTL DEF Spec

-----------------------------------------------------------------------------
(* The count of unanswered listens.                                        *)

CountInv ==
  /\ listenCBs \in [Specs -> Nat] /\ listens \subseteq used /\ used \subseteq Specs
  /\ IsFiniteSet(used) /\ IsFiniteSet(UnansweredListens)
  /\ ListenCountExact

LEMMA UnansweredAt ==
  \A l, k : <<l, k>> \in UnansweredListens <=> l \in Specs /\ k \in 1 .. listenCBs[l]
BY DEF UnansweredListens

LEMMA UnansweredPairs ==
  \A p \in UnansweredListens : p = <<p[1], p[2]>>
BY DEF UnansweredListens

LEMMA DisjointUnion ==
  ASSUME NEW S, NEW T, IsFiniteSet(S), IsFiniteSet(T), S \cap T = {}
  PROVE  /\ IsFiniteSet(S \cup T)
         /\ Cardinality(S \cup T) = Cardinality(S) + Cardinality(T)
<1>1. Cardinality(S \cap T) = 0
  BY FS_EmptySet
<1>2. Cardinality(S) \in Nat /\ Cardinality(T) \in Nat
  BY FS_CardinalityType
<1>3. /\ IsFiniteSet(S \cup T)
      /\ Cardinality(S \cup T) = Cardinality(S) + Cardinality(T) - Cardinality(S \cap T)
  BY FS_Union, Zenon
<1>. QED
  BY <1>1, <1>2, <1>3

\* Each listen that is sent adds the next of its requests.
LEMMA CountSent ==
  ASSUME CountInv, NEW ls \in SUBSET Specs, IsFiniteSet(ls), SendListens(ls),
         listens' \subseteq used', used' \subseteq Specs, IsFiniteSet(used')
  PROVE  CountInv'
<1>. DEFINE next == [l \in ls |-> <<l, listenCBs[l] + 1>>]
            new  == {next[l] : l \in ls}
<1>1. /\ listenCBs \in [Specs -> Nat]
      /\ listenCBs' = [l \in Specs |-> listenCBs[l] + (IF l \in ls THEN 1 ELSE 0)]
  BY DEF CountInv, SendListens
<1>2. listenCBs' \in [Specs -> Nat]
  BY <1>1
<1>3. next \in Bijection(ls, new)
  BY DEF Bijection, Injection, Surjection, IsInjective
<1>4. IsFiniteSet(new) /\ Cardinality(new) = Cardinality(ls)
  <2>. HIDE DEF next, new
  <2>1. ExistsBijection(ls, new)
    BY <1>3 DEF ExistsBijection
  <2>. QED
    BY <2>1, FS_Bijection
<1>5. UnansweredListens' = UnansweredListens \cup new
  <2>1. ASSUME NEW l \in Specs, NEW k \in Nat
        PROVE  k \in 1 .. listenCBs'[l] <=>
                 k \in 1 .. listenCBs[l] \/ (l \in ls /\ k = listenCBs[l] + 1)
    BY <1>1
  <2>. QED
    BY <1>1, <1>2, <2>1 DEF UnansweredListens
<1>6. UnansweredListens \cap new = {}
  BY <1>1, UnansweredAt
<1>7. IsFiniteSet(UnansweredListens') /\ Cardinality(UnansweredListens') =
        Cardinality(UnansweredListens) + Cardinality(new)
  <2>1. IsFiniteSet(UnansweredListens)
    BY DEF CountInv
  <2>. HIDE DEF new
  <2>. QED
    BY <1>4, <1>5, <1>6, <2>1, DisjointUnion
<1>. QED
  BY <1>2, <1>4, <1>7 DEF CountInv, ListenCountExact, SendListens

LEMMA CountAnswered ==
  ASSUME CountInv, NEW l \in Specs, NEW ok \in BOOLEAN, ListenResponse(l, ok)
  PROVE  CountInv' /\ unackedListensCount > 0
<1>. DEFINE last == <<l, listenCBs[l]>>
<1>1. /\ listenCBs \in [Specs -> Nat] /\ listenCBs[l] > 0
      /\ listenCBs' = [listenCBs EXCEPT ![l] = @ - 1]
  BY DEF CountInv, ListenResponse
<1>2. last \in UnansweredListens
  BY <1>1, UnansweredAt
<1>3. UnansweredListens' = UnansweredListens \ {last}
  <2>1. ASSUME NEW m \in Specs, NEW k \in Nat
        PROVE  k \in 1 .. listenCBs'[m] <=>
                 k \in 1 .. listenCBs[m] /\ <<m, k>> # last
    BY <1>1
  <2>. QED
    BY <1>1, <2>1 DEF UnansweredListens
<1>. HIDE DEF last
<1>4. /\ IsFiniteSet(UnansweredListens') /\ Cardinality(UnansweredListens) \in Nat \ {0}
      /\ Cardinality(UnansweredListens') = Cardinality(UnansweredListens) - 1
  BY <1>2, <1>3, FS_RemoveElement, FS_EmptySet, FS_CardinalityType DEF CountInv
<1>5. unackedListensCount' = unackedListensCount - 1 /\ unackedListensCount > 0
  BY <1>4 DEF CountInv, ListenCountExact, ListenResponse, Decrement
<1>. QED
  BY <1>1, <1>4, <1>5 DEF CountInv, ListenCountExact, ListenResponse

LEMMA CountReset ==
  ASSUME CountInv, listenCBs' = [l \in Specs |-> 0], unackedListensCount' = 0,
         UNCHANGED <<listens, used>>
  PROVE  CountInv'
<1>1. UnansweredListens' = {}
  BY DEF UnansweredListens
<1>. QED
  BY <1>1, FS_EmptySet DEF CountInv, ListenCountExact

LEMMA CountIdle ==
  ASSUME CountInv, UNCHANGED <<listenCBs, unackedListensCount>>,
         listens' \subseteq used', used' \subseteq Specs, IsFiniteSet(used')
  PROVE  CountInv'
BY DEF CountInv, ListenCountExact, UnansweredListens

LEMMA CountStep == CountInv /\ [Next]_vars => CountInv'
<1>. SUFFICES ASSUME CountInv, [Next]_vars
              PROVE  CountInv'
  OBVIOUS
<1>. USE DEF listening
<1>1. listens \subseteq used /\ used \subseteq Specs /\ IsFiniteSet(used)
  BY DEF CountInv
<1>2. CASE RetryFires \/ TokenFetched \/ TokenFetchFails \/ NetworkReachable \/ PutInternal
            \/ PurgeOutstandingWrites
  BY <1>1, <1>2, CountIdle DEF RetryFires, TokenFetched, TokenFetchFails, NetworkReachable,
                               PutInternal, PurgeOutstandingWrites
<1>3. ASSUME NEW base, RestoreState(base), UNCHANGED <<listens, used>>
      PROVE  CountInv'
  <2>1. listens \in SUBSET Specs /\ IsFiniteSet(listens)
    BY <1>1, FS_Subset
  <2>. QED
    BY <1>1, <1>3, <2>1, CountSent DEF RestoreState
<1>4. CASE OnReady \/ AuthAccepted
  BY <1>1, <1>3, <1>4, CountIdle DEF OnReady, AuthAccepted
<1>5. ASSUME NEW reasons, NEW force, Disconnect(reasons, force)
      PROVE  CountInv'
  BY <1>5, CountReset DEF Disconnect
<1>6. CASE LoseConnection \/ TokenRefused
  BY <1>5, <1>6 DEF LoseConnection, TokenRefused
<1>7. ASSUME NEW r, Interrupt(r)
      PROVE  CountInv'
  BY <1>1, <1>5, <1>7, CountIdle DEF Interrupt
<1>8. ASSUME NEW r \in Reasons, Resume(r)
      PROVE  CountInv'
  BY <1>1, <1>8, CountIdle DEF Resume
<1>9. ASSUME NEW l \in Specs, Listen(l)
      PROVE  CountInv'
  <2>1. /\ listens' \subseteq used' /\ used' \subseteq Specs /\ IsFiniteSet(used')
    BY <1>1, <1>9, FS_AddElement DEF Listen
  <2>2. {l} \in SUBSET Specs /\ IsFiniteSet({l})
    BY FS_Singleton
  <2>. QED
    BY <1>9, <2>1, <2>2, CountSent, CountIdle DEF Listen
<1>10. ASSUME NEW l \in Specs, Unlisten(l) \/ ListenRevoked(l)
       PROVE  CountInv'
  BY <1>1, <1>10, CountIdle DEF Unlisten, ListenRevoked
<1>11. ASSUME NEW t \in Tokens \cup {Nil}, RefreshAuthToken(t)
       PROVE  CountInv'
  BY <1>1, <1>11, CountIdle DEF RefreshAuthToken
<1>12. ASSUME NEW b \in BOOLEAN, PutResponse(b)
       PROVE  CountInv'
  BY <1>1, <1>12, CountIdle DEF PutResponse
<1>13. CASE UNCHANGED vars
  BY <1>1, <1>13, CountIdle DEF vars
<1>. QED
  BY <1>2, <1>4, <1>6, <1>7, <1>8, <1>9, <1>10, <1>11, <1>12, <1>13, CountAnswered
     DEF Next, Service, onKill, GoOffline

-----------------------------------------------------------------------------
(* The types of the rest, and the invariant of the connection as a whole.  *)

RestInv ==
  /\ interruptReasons \subseteq Reasons /\ authToken \in Tokens \cup {Nil}
  /\ sent \subseteq Puts /\ value \in 0 .. MaxPuts
  /\ opened \in [from : Nat, at : Nat] /\ mustRefresh \in BOOLEAN
  /\ drops \in 0 .. MaxDrops /\ Len(reported) \in 1 .. MaxChanges + 1

LEMMA RestInit == Init => RestInv
<1>. SUFFICES ASSUME Init PROVE RestInv
  OBVIOUS
<1>1. opened \in [from : Nat, at : Nat] /\ mustRefresh \in BOOLEAN
  BY DEF Init
<1>2. /\ interruptReasons \subseteq Reasons /\ authToken \in Tokens \cup {Nil}
      /\ sent \subseteq Puts
  BY DEF Init, Reasons
<1>3. value \in 0 .. MaxPuts /\ drops \in 0 .. MaxDrops /\ Len(reported) \in 1 .. MaxChanges + 1
  BY PutsAssumption, BoundsAssumption DEF Init
<1>. QED
  BY <1>1, <1>2, <1>3 DEF RestInv

LEMMA RestKept ==
  ASSUME RestInv, UNCHANGED <<opened, mustRefresh, reported, authToken>>,
         interruptReasons' \subseteq Reasons, sent' \subseteq Puts, value' \in 0 .. MaxPuts,
         drops' = drops \/ (drops < MaxDrops /\ drops' = drops + 1)
  PROVE  RestInv'
BY BoundsAssumption DEF RestInv

\* A request is one for a put that was issued.
LEMMA RequestedPuts ==
  ASSUME WritesInv, NEW k \in PutsIn(requestCBHash)
  PROVE  requestCBHash[k].put \in Puts /\ requestCBHash[k].put \in 0 .. MaxPuts
BY PutsAssumption DEF WritesInv, WritesTypes, InLine, Puts

LEMMA RestDisconnect ==
  ASSUME WritesInv, RestInv, NEW reasons, NEW force, Disconnect(reasons, force)
  PROVE  sent' \subseteq Puts /\ value' \in 0 .. MaxPuts
BY RequestedPuts DEF Disconnect, RestInv

LEMMA RestStep == AttemptInv /\ WritesInv /\ RestInv /\ [Next]_vars => RestInv'
<1>. SUFFICES ASSUME AttemptInv, WritesInv, RestInv, [Next]_vars
              PROVE  RestInv'
  OBVIOUS
<1>. USE DEF connection, token, listening, writes, reports
<1>1. interruptReasons \subseteq Reasons /\ sent \subseteq Puts /\ value \in 0 .. MaxPuts
  BY DEF RestInv
<1>2. CASE RetryFires \/ TokenFetchFails \/ NetworkReachable \/ PurgeOutstandingWrites
  BY <1>1, <1>2, RestKept DEF RetryFires, TokenFetchFails, NetworkReachable,
                              PurgeOutstandingWrites
<1>3. CASE TokenFetched
  <2>1. CASE connectionState = "GettingToken"
    <3>1. fetch \in Fetches /\ fetch.from \in 1 .. Len(reported)
      BY <1>3 DEF TokenFetched, AttemptInv, AttemptTypes
    <3>2. reported[fetch.from] \in Tokens \cup {Nil}
      BY <3>1, ReportsMore DEF AttemptInv, AttemptTypes, Reports, Credentials
    <3>3. mustRefresh' \in BOOLEAN /\ reported' = reported
      BY <1>3, <2>1 DEF TokenFetched
    <3>4. opened' \in [from : Nat, at : Nat]
      BY <1>3, <2>1, <3>1, ReportsMore DEF TokenFetched, AttemptInv, AttemptTypes, Reports
    <3>. QED
      BY <1>3, <2>1, <3>2, <3>3, <3>4 DEF TokenFetched, RestInv
  <2>2. CASE connectionState # "GettingToken"
    BY <1>1, <1>3, <2>2, RestKept DEF TokenFetched
  <2>. QED
    BY <2>1, <2>2
<1>4. outstandingPuts \subseteq Puts
  BY PutsTyped
<1>5. CASE OnReady \/ AuthAccepted
  BY <1>1, <1>4, <1>5, RestKept DEF OnReady, AuthAccepted, RestoreState, SendPuts
<1>6. CASE LoseConnection
  BY <1>1, <1>6, RestDisconnect, RestKept DEF LoseConnection
<1>7. CASE TokenRefused
  <2>1. sent' \subseteq Puts /\ value' \in 0 .. MaxPuts
    BY <1>7, RestDisconnect DEF TokenRefused
  <2>2. drops' \in 0 .. MaxDrops /\ authToken' = Nil /\ mustRefresh' = TRUE
    BY <1>7, BoundsAssumption DEF TokenRefused, RestInv
  <2>. QED
    BY <1>7, <2>1, <2>2 DEF TokenRefused, RestInv
<1>8. ASSUME NEW r \in Reasons, Interrupt(r)
      PROVE  RestInv'
  BY <1>1, <1>8, RestDisconnect, RestKept DEF Interrupt
<1>9. ASSUME NEW r \in Reasons, Resume(r)
      PROVE  RestInv'
  BY <1>1, <1>9, RestKept DEF Resume
<1>10. ASSUME NEW l \in Specs, Listen(l) \/ Unlisten(l) \/ ListenRevoked(l)
       PROVE  RestInv'
  BY <1>1, <1>10, RestKept DEF Listen, Unlisten, ListenRevoked
<1>11. CASE PutInternal
  <2>1. putCounter + 1 \in Puts
    BY <1>11, PutsAssumption DEF PutInternal, WritesInv, WritesTypes, Puts
  <2>2. sent' \subseteq Puts
    BY <1>1, <1>11, <2>1 DEF PutInternal
  <2>. QED
    BY <1>1, <1>11, <2>2, RestKept DEF PutInternal
<1>12. ASSUME NEW t \in Tokens \cup {Nil}, RefreshAuthToken(t)
       PROVE  RestInv'
  <2>1. Len(reported') = Len(reported) + 1
    BY <1>12, AppendProperties DEF RefreshAuthToken, AttemptInv, AttemptTypes, Credentials
  <2>2. Len(reported') \in 1 .. MaxChanges + 1
    BY <1>12, <2>1, BoundsAssumption DEF RefreshAuthToken, RestInv
  <2>. QED
    BY <1>12, <2>1, <2>2 DEF RefreshAuthToken, RestInv
<1>13. ASSUME NEW b \in BOOLEAN, PutResponse(b)
       PROVE  RestInv'
  <2>1. 1 \in PutsIn(requestCBHash) /\ Head(requestCBHash) = requestCBHash[1]
    BY <1>13, TailAt DEF PutResponse, WritesInv, InLine, PutsIn
  <2>2. value' \in 0 .. MaxPuts
    BY <1>1, <1>13, <2>1, RequestedPuts DEF PutResponse
  <2>. QED
    BY <1>1, <1>13, <2>2, RestKept DEF PutResponse
<1>14. ASSUME NEW l \in Specs, NEW b \in BOOLEAN, ListenResponse(l, b)
       PROVE  RestInv'
  BY <1>1, <1>14, RestKept DEF ListenResponse
<1>15. CASE UNCHANGED vars
  BY <1>1, <1>15, RestKept DEF vars
<1>. QED
  BY <1>2, <1>3, <1>5, <1>6, <1>7, <1>8, <1>9, <1>10, <1>11, <1>12, <1>13, <1>14, <1>15
     DEF Next, Service, onKill, GoOffline, Reasons

\* The counters and assertions of the client hold through every loss,
\* interruption and change of credential: one attempt to connect at a time, an
\* exact count of unanswered listens, and puts sent in order and once.
THEOREM AlwaysExact == Spec => []ConnectionExact
<1>1. Init => PutsInv
  BY DEF Init, PutsInv, Once, IsInjective, Range
<1>2. Init => CountInv
  BY FS_EmptySet DEF Init, CountInv, ListenCountExact, UnansweredListens
<1>3. AttemptInv /\ WritesInv /\ PutsInv /\ CountInv /\ RestInv => ConnectionExact
  <2>. SUFFICES ASSUME AttemptInv, WritesInv, PutsInv, CountInv, RestInv
                PROVE  ConnectionExact
    OBVIOUS
  <2>1. /\ connectionState \in States /\ realtime \in {"none", "connecting", "connected"}
        /\ retry \in [force : BOOLEAN] \cup {NoRetry}
        /\ fetch \in [force : BOOLEAN, from : Nat] \cup {NoFetch}
        /\ forceAuthTokenRefresh \in BOOLEAN /\ reported \in Seq(Tokens \cup {Nil})
    BY DEF AttemptInv, AttemptTypes, Fetches, Credentials
  <2>2. unackedListensCount \in Nat
    BY FS_CardinalityType DEF CountInv, ListenCountExact
  <2>3. outstandingPuts \subseteq Puts /\ confirmed \subseteq Puts
    BY PutsAssumption DEF WritesInv, WritesTypes, Puts
  <2>4. TypeOK
    BY <2>1, <2>2, <2>3 DEF TypeOK, WritesInv, WritesTypes, InLine, PutsInv, Once,
                            CountInv, RestInv
  <2>5. SentInOrder
    BY DEF SentInOrder, WritesInv, InLine
  <2>. QED
    BY <2>4, <2>5 DEF ConnectionExact, AttemptInv, CountInv
<1>. QED
  BY <1>1, <1>2, <1>3, AttemptInit, AttemptStep, WritesInit, WritesStep, PutsStep, CountStep,
     RestInit, RestStep, PTL DEF Spec

=============================================================================
