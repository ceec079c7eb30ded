------------------------ MODULE PersistentConnection ------------------------
(***************************************************************************)
(* FPersistentConnection: the one connection of the SDK to the database    *)
(* service.  It remembers the listens and the unanswered writes (puts),    *)
(* sends them when it may, sends them again on every new connection, and   *)
(* holds back the completion of a put while a listen is unanswered.  All   *)
(* of it runs on one serial queue; what interleaves are the callbacks.     *)
(***************************************************************************)
EXTENDS Integers, Sequences, FiniteSets, Functions

CONSTANTS
  MaxPuts,        \* writes the application issues; put i is the i-th of them
  Transactions,   \* the puts that carry a hash
  Specs,          \* listens, each an FOutstandingQuery of its own
  QueryOf,        \* the query of each listen: one may be listened to again
  Tokens,         \* credentials Auth reports
  Nil,            \* no credential
  NoFetch,        \* no token fetch under way
  NoRetry,        \* no retry scheduled
  MaxDrops,       \* connections ended, and token fetches that fail
  MaxChanges,     \* times Auth reports another credential
  NSUIntegerMax   \* where unsigned counters wrap around

Puts == 1 .. MaxPuts

ASSUME PutsAssumption == MaxPuts \in Nat /\ Transactions \subseteq Puts
ASSUME BoundsAssumption == {MaxDrops, MaxChanges, NSUIntegerMax} \subseteq Nat
ASSUME TokenAssumption == Nil \notin Tokens
ASSUME FetchAssumption == NoFetch \notin [force : BOOLEAN, from : Nat]

VARIABLES
  connectionState,      \* the enum of that name
  interruptReasons,     \* why no connection is wanted
  realtime,             \* the FConnection: none, connecting or connected
  retry,                \* the block the retry helper has scheduled
  fetch,                \* the latest token fetch, while unanswered
  authToken, forceAuthTokenRefresh,
  listens,              \* FOutstandingQuery objects in the dictionary
  unackedListensCount,
  putCounter,           \* puts issued so far
  outstandingPuts,
  sent,                 \* puts whose flag sent is set
  putsToAck,            \* answered puts whose completion waits for a listen
  requestCBHash,        \* auth and put requests with a callback, as sent
  listenCBs,            \* listen requests with a callback, counted per listen
  completed,            \* the completions called, in order
  \* the service
  value,                \* the put whose data the service has now
  \* history
  confirmed,            \* puts the service has confirmed to this client
  used,                 \* listens made so far
  reported,             \* the credentials Auth reported, in order
  opened,               \* how many of them when the token of the last connection
                        \* was asked for (from), and when it was there (at)
  mustRefresh,          \* a token was rejected and no forced fetch has succeeded since
  drops                 \* bound

connection == <<connectionState, interruptReasons, realtime, retry, fetch>>
token      == <<authToken, forceAuthTokenRefresh>>
listening  == <<listens, unackedListensCount, listenCBs, used>>
writes     == <<putCounter, outstandingPuts, sent, putsToAck, completed, confirmed>>
reports    == <<reported, opened, mustRefresh>>
vars == <<connection, token, listening, writes, requestCBHash, value, reports, drops>>

States == {"Disconnected", "GettingToken", "Connecting", "Authenticating", "Connected"}
Reasons == {"waiting_for_open", "repo_interrupt", "server_kill"}
Connected == connectionState \in {"Authenticating", "Connected"}
CanSendWrites == connectionState = "Connected"
ShouldReconnect == interruptReasons = {}

AuthRequest(restore) == [type |-> "auth", restore |-> restore, put |-> 0]
PutRequest(i) == [type |-> "put", restore |-> FALSE, put |-> i]
Requests == {AuthRequest(b) : b \in BOOLEAN} \cup {PutRequest(i) : i \in Puts}
\* Where requests have puts.
PutsIn(requests) == {k \in DOMAIN requests : requests[k].type = "put"}

Decrement(count) == IF count = 0 THEN NSUIntegerMax ELSE count - 1
\* The listen requests the service has yet to answer, numbered for each listen.
UnansweredListens == UNION {{l} \X (1 .. listenCBs[l]) : l \in Specs}

Init ==
  /\ connectionState = "Disconnected"
  /\ interruptReasons = {"waiting_for_open"}
  /\ realtime = "none"
  /\ retry = NoRetry /\ fetch = NoFetch
  /\ authToken = Nil /\ forceAuthTokenRefresh = FALSE
  /\ listens = {} /\ used = {} /\ unackedListensCount = 0
  /\ listenCBs = [l \in Specs |-> 0]
  /\ putCounter = 0 /\ outstandingPuts = {} /\ sent = {}
  /\ putsToAck = <<>> /\ completed = <<>> /\ confirmed = {}
  /\ requestCBHash = <<>> /\ value = 0
  /\ \E t \in Tokens \cup {Nil} : reported = <<t>>
  /\ opened = [from |-> 0, at |-> 0] /\ mustRefresh = FALSE
  /\ drops = 0

-----------------------------------------------------------------------------
(* Connecting.                                                             *)

\* tryScheduleReconnect with the flag as given: a scheduled retry is replaced.
TryScheduleReconnect(force) ==
  IF ShouldReconnect
  THEN retry' = [force |-> force] /\ forceAuthTokenRefresh' = FALSE
  ELSE UNCHANGED retry /\ forceAuthTokenRefresh' = force

\* The scheduled block runs and asks Auth for the credential of its user: the one
\* of now, however many are reported before the answer.
RetryFires ==
  /\ retry # NoRetry
  /\ connectionState' = "GettingToken"
  /\ fetch' = [force |-> retry.force, from |-> Len(reported)]
  /\ retry' = NoRetry
  /\ UNCHANGED <<interruptReasons, realtime, token, listening, writes,
                 requestCBHash, value, reports, drops>>

\* The fetch succeeds; only a connection that still waits for it is opened.
TokenFetched ==
  /\ fetch # NoFetch
  /\ fetch' = NoFetch
  /\ IF connectionState = "GettingToken"
     THEN /\ authToken' = reported[fetch.from]
          /\ opened' = [from |-> fetch.from, at |-> Len(reported)]
          /\ connectionState' = "Connecting"
          /\ realtime' = "connecting"
          /\ mustRefresh' = (mustRefresh /\ ~fetch.force)
     ELSE UNCHANGED <<authToken, opened, connectionState, realtime, mustRefresh>>
  /\ UNCHANGED <<interruptReasons, retry, forceAuthTokenRefresh, listening,
                 writes, requestCBHash, value, reported, drops>>

TokenFetchFails ==
  /\ fetch # NoFetch
  /\ drops < MaxDrops
  /\ drops' = drops + 1
  /\ fetch' = NoFetch
  /\ connectionState' = "Disconnected"
  /\ TryScheduleReconnect(forceAuthTokenRefresh)
  /\ UNCHANGED <<interruptReasons, realtime, authToken, listening, writes,
                 requestCBHash, value, reports>>

\* The network became reachable, or the application came to the foreground.
NetworkReachable ==
  /\ connectionState = "Disconnected"
  /\ TryScheduleReconnect(forceAuthTokenRefresh)
  /\ UNCHANGED <<connectionState, interruptReasons, realtime, fetch, authToken,
                 listening, writes, requestCBHash, value, reports, drops>>

-----------------------------------------------------------------------------
(* Sending.                                                                *)

SendListens(ls) ==
  /\ listenCBs' = [l \in Specs |-> listenCBs[l] + (IF l \in ls THEN 1 ELSE 0)]
  /\ unackedListensCount' = unackedListensCount + Cardinality(ls)

\* The sequences that list a set of puts, and the one among them that is sorted.
Listings(puts) ==
  {keys \in [1 .. Cardinality(puts) -> puts] : \A i \in puts : \E k \in DOMAIN keys : keys[k] = i}
Sorted(puts) ==
  {keys \in Listings(puts) : \A j, k \in DOMAIN keys : j < k => keys[j] < keys[k]}

SendPuts(requests, keys) ==
  /\ requestCBHash' = requests \o [k \in DOMAIN keys |-> PutRequest(keys[k])]
  /\ sent' = sent \cup outstandingPuts

\* Mutant: the puts are sent again as the dictionary holds them.
RestoreStateUnsorted(requests) ==
  SendListens(listens) /\ \E keys \in Listings(outstandingPuts) : SendPuts(requests, keys)

\* Mutant: puts that were sent are not sent again.
RestoreStateUnsent(requests) ==
  SendListens(listens) /\ \E keys \in Sorted(outstandingPuts \ sent) : SendPuts(requests, keys)

\* restoreState sends every listen, and the outstanding puts in order.
RestoreState(requests) ==
  SendListens(listens) /\ \E keys \in Sorted(outstandingPuts) : SendPuts(requests, keys)

\* The handshake arrives: onReady, and restoreAuth in it.
OnReady ==
  /\ realtime = "connecting"
  /\ realtime' = "connected"
  /\ IF authToken = Nil
     THEN /\ connectionState' = "Connected"
          /\ RestoreState(requestCBHash)
     ELSE /\ connectionState' = "Authenticating"
          /\ requestCBHash' = Append(requestCBHash, AuthRequest(TRUE))
          /\ UNCHANGED <<unackedListensCount, listenCBs, sent>>
  /\ UNCHANGED <<interruptReasons, retry, fetch, token, listens, used, putCounter,
                 outstandingPuts, putsToAck, completed, confirmed, value, reports, drops>>

Listen(l) ==
  /\ l \notin used
  /\ \A m \in listens : QueryOf[m] # QueryOf[l]
  /\ listens' = listens \cup {l}
  /\ used' = used \cup {l}
  /\ IF Connected THEN SendListens({l}) ELSE UNCHANGED <<listenCBs, unackedListensCount>>
  /\ UNCHANGED <<connection, token, writes, requestCBHash, value, reports, drops>>

\* The request that says so to the service has no callback.
Unlisten(l) ==
  /\ l \in listens
  /\ listens' = listens \ {l}
  /\ UNCHANGED <<unackedListensCount, listenCBs, used, connection, token, writes,
                 requestCBHash, value, reports, drops>>

PutInternal ==
  /\ putCounter < MaxPuts
  /\ LET index == putCounter + 1
     IN  /\ putCounter' = index
         /\ outstandingPuts' = outstandingPuts \cup {index}
         /\ IF CanSendWrites
            THEN /\ requestCBHash' = Append(requestCBHash, PutRequest(index))
                 /\ sent' = sent \cup {index}
            ELSE UNCHANGED <<requestCBHash, sent>>
  /\ UNCHANGED <<connection, token, listening, putsToAck, completed, confirmed,
                 value, reports, drops>>

\* Mutant: the credential is only stored for the connection that is open.
RefreshAuthTokenConnected(t) ==
  /\ Len(reported) <= MaxChanges /\ t # reported[Len(reported)]
  /\ reported' = Append(reported, t)
  /\ authToken' = IF Connected THEN t ELSE authToken
  /\ requestCBHash' = IF Connected /\ t # Nil
                      THEN Append(requestCBHash, AuthRequest(FALSE))
                      ELSE requestCBHash
  /\ UNCHANGED <<connection, forceAuthTokenRefresh, listening, writes, value,
                 opened, mustRefresh, drops>>

\* Auth reports another credential, or that nobody is signed in any more.
RefreshAuthToken(t) ==
  /\ Len(reported) <= MaxChanges /\ t # reported[Len(reported)]
  /\ reported' = Append(reported, t)
  /\ authToken' = t
  /\ requestCBHash' = IF Connected /\ t # Nil
                      THEN Append(requestCBHash, AuthRequest(FALSE))
                      ELSE requestCBHash
  /\ UNCHANGED <<connection, forceAuthTokenRefresh, listening, writes, value,
                 opened, mustRefresh, drops>>

-----------------------------------------------------------------------------
(* Losing the connection, and not wanting one.                             *)

\* cancelSentTransactions: a transaction that was sent must be run again.
CancelledTransactions == outstandingPuts \cap sent \cap Transactions

\* Mutant: unackedListensCount is not reset.
DisconnectKeepsCount(reasons, force) ==
  /\ connectionState' = "Disconnected" /\ realtime' = "none"
  /\ outstandingPuts' = outstandingPuts \ CancelledTransactions
  /\ \E keys \in Listings(CancelledTransactions) : completed' = completed \o keys
  /\ requestCBHash' = <<>> /\ listenCBs' = [l \in Specs |-> 0]
  /\ IF reasons = {}
     THEN retry' = [force |-> force] /\ forceAuthTokenRefresh' = FALSE
     ELSE UNCHANGED retry /\ forceAuthTokenRefresh' = force
  /\ UNCHANGED <<fetch, listens, used, putCounter, sent, putsToAck, confirmed,
                 unackedListensCount, value>>

\* onDisconnect, when the interrupts in force are reasons.  The service has
\* processed some of the requests whose answers are lost.
Disconnect(reasons, force) ==
  /\ connectionState' = "Disconnected"
  /\ realtime' = "none"
  /\ outstandingPuts' = outstandingPuts \ CancelledTransactions
  /\ \E keys \in Listings(CancelledTransactions) : completed' = completed \o keys
  /\ value' \in {value} \cup {requestCBHash[k].put : k \in PutsIn(requestCBHash)}
  /\ requestCBHash' = <<>>
  /\ listenCBs' = [l \in Specs |-> 0]
  /\ unackedListensCount' = 0
  /\ IF reasons = {}
     THEN retry' = [force |-> force] /\ forceAuthTokenRefresh' = FALSE
     ELSE UNCHANGED retry /\ forceAuthTokenRefresh' = force
  /\ UNCHANGED <<fetch, listens, used, putCounter, sent, putsToAck, confirmed>>

LoseConnection ==
  /\ realtime # "none"
  /\ drops < MaxDrops
  /\ drops' = drops + 1
  /\ Disconnect(interruptReasons, forceAuthTokenRefresh)
  /\ UNCHANGED <<interruptReasons, authToken, reports>>

\* interruptForReason: the server's kill, or goOffline of the application.
Interrupt(r) ==
  /\ interruptReasons' = interruptReasons \cup {r}
  /\ IF realtime # "none"
     THEN Disconnect(interruptReasons \cup {r}, forceAuthTokenRefresh)
     ELSE /\ retry' = NoRetry
          /\ connectionState' = "Disconnected"
          /\ UNCHANGED <<realtime, fetch, forceAuthTokenRefresh, listening,
                         writes, requestCBHash, value>>
  /\ UNCHANGED <<authToken, reports, drops>>

onKill == realtime # "none" /\ Interrupt("server_kill")
GoOffline == "repo_interrupt" \notin interruptReasons /\ Interrupt("repo_interrupt")

Resume(r) ==
  /\ r \in interruptReasons
  /\ interruptReasons' = interruptReasons \ {r}
  /\ IF interruptReasons = {r} /\ connectionState = "Disconnected"
     THEN retry' = [force |-> forceAuthTokenRefresh] /\ forceAuthTokenRefresh' = FALSE
     ELSE UNCHANGED <<retry, forceAuthTokenRefresh>>
  /\ UNCHANGED <<connectionState, realtime, fetch, authToken, listening, writes,
                 requestCBHash, value, reports, drops>>

-----------------------------------------------------------------------------
(* What the service answers and pushes.  Requests are answered in order.   *)

AuthAccepted ==
  /\ requestCBHash # <<>> /\ Head(requestCBHash).type = "auth"
  /\ connectionState' = "Connected"
  /\ IF Head(requestCBHash).restore
     THEN RestoreState(Tail(requestCBHash))
     ELSE requestCBHash' = Tail(requestCBHash)
          /\ UNCHANGED <<unackedListensCount, listenCBs, sent>>
  /\ UNCHANGED <<interruptReasons, realtime, retry, fetch, token, listens, used,
                 putCounter, outstandingPuts, putsToAck, completed, confirmed,
                 value, reports, drops>>

\* The answer to an auth request is an error, or the credential is revoked.
TokenRefused ==
  /\ realtime = "connected"
  /\ drops < MaxDrops
  /\ drops' = drops + 1
  /\ authToken' = Nil
  /\ mustRefresh' = TRUE
  /\ Disconnect(interruptReasons, TRUE)
  /\ UNCHANGED <<interruptReasons, reported, opened>>

\* Mutant: the answer to a put that was purged is not ignored.
PutResponseOfAny(applied) ==
  /\ requestCBHash # <<>> /\ Head(requestCBHash).type = "put"
  /\ LET index == Head(requestCBHash).put
     IN  /\ value' = IF applied THEN index ELSE value
         /\ outstandingPuts' = outstandingPuts \ {index}
         /\ confirmed' = IF applied THEN confirmed \cup {index} ELSE confirmed
         /\ completed' = Append(completed, index)
  /\ requestCBHash' = Tail(requestCBHash)
  /\ UNCHANGED <<connection, token, listening, putCounter, sent, putsToAck, reports, drops>>

\* The answer to a put, applied or rejected: ignored unless the put is still
\* outstanding, and its completion waits while a listen is unanswered.
PutResponse(applied) ==
  /\ requestCBHash # <<>> /\ Head(requestCBHash).type = "put"
  /\ LET index == Head(requestCBHash).put
     IN  /\ value' = IF applied THEN index ELSE value
         /\ IF index \in outstandingPuts
            THEN /\ outstandingPuts' = outstandingPuts \ {index}
                 /\ confirmed' = IF applied THEN confirmed \cup {index} ELSE confirmed
                 /\ IF unackedListensCount = 0
                    THEN completed' = Append(completed, index) /\ UNCHANGED putsToAck
                    ELSE putsToAck' = Append(putsToAck, index) /\ UNCHANGED completed
            ELSE UNCHANGED <<outstandingPuts, confirmed, putsToAck, completed>>
  /\ requestCBHash' = Tail(requestCBHash)
  /\ UNCHANGED <<connection, token, listening, putCounter, sent, reports, drops>>

\* ackPuts
AckPuts == completed' = completed \o putsToAck /\ putsToAck' = <<>>

\* A failed listen is removed, unless it was removed (and made again) already.
ListenResponse(l, ok) ==
  /\ listenCBs[l] > 0
  /\ listenCBs' = [listenCBs EXCEPT ![l] = @ - 1]
  /\ listens' = IF ok THEN listens ELSE listens \ {l}
  /\ unackedListensCount' = Decrement(unackedListensCount)
  /\ IF unackedListensCount' = 0 THEN AckPuts ELSE UNCHANGED <<completed, putsToAck>>
  /\ UNCHANGED <<connection, token, used, putCounter, outstandingPuts, sent,
                 confirmed, requestCBHash, value, reports, drops>>

\* The service cancels a listen: permission was lost.
ListenRevoked(l) == realtime = "connected" /\ Unlisten(l)

\* purgeOutstandingWrites, of the application.
PurgeOutstandingWrites ==
  /\ \E keys \in Sorted(outstandingPuts) : completed' = completed \o putsToAck \o keys
  /\ putsToAck' = <<>>
  /\ outstandingPuts' = {}
  /\ completed' # completed
  /\ UNCHANGED <<putCounter, sent, confirmed, connection, token, listening,
                 requestCBHash, value, reports, drops>>

Service ==
  \/ AuthAccepted
  \/ \E b \in BOOLEAN : PutResponse(b)
  \/ \E l \in Specs, b \in BOOLEAN : ListenResponse(l, b)

Next ==
  \/ RetryFires \/ TokenFetched \/ TokenFetchFails \/ NetworkReachable
  \/ OnReady \/ LoseConnection \/ onKill \/ GoOffline
  \/ \E r \in Reasons : Resume(r)
  \/ \E l \in Specs : Listen(l) \/ Unlisten(l) \/ ListenRevoked(l)
  \/ PutInternal \/ PurgeOutstandingWrites
  \/ \E t \in Tokens \cup {Nil} : RefreshAuthToken(t)
  \/ Service \/ TokenRefused

Spec == Init /\ [][Next]_vars

\* The blocks of the queue run, Auth answers, the network opens what it is
\* asked to open, and the service answers what it is asked.
Fairness ==
  /\ WF_vars(RetryFires) /\ WF_vars(TokenFetched) /\ WF_vars(OnReady)
  /\ WF_vars(AuthAccepted) /\ WF_vars(\E b \in BOOLEAN : PutResponse(b))
  /\ \A l \in Specs : WF_vars(\E b \in BOOLEAN : ListenResponse(l, b))
  /\ WF_vars(Resume("waiting_for_open"))

FairSpec == Spec /\ Fairness

-----------------------------------------------------------------------------
(* Properties.                                                             *)

TypeOK ==
  /\ connectionState \in States /\ interruptReasons \subseteq Reasons
  /\ realtime \in {"none", "connecting", "connected"}
  /\ retry \in [force : BOOLEAN] \cup {NoRetry}
  /\ fetch \in [force : BOOLEAN, from : Nat] \cup {NoFetch}
  /\ authToken \in Tokens \cup {Nil} /\ forceAuthTokenRefresh \in BOOLEAN
  /\ listens \subseteq used /\ used \subseteq Specs
  /\ listenCBs \in [Specs -> Nat] /\ unackedListensCount \in Nat
  /\ putCounter \in 0 .. MaxPuts /\ value \in 0 .. MaxPuts
  /\ outstandingPuts \subseteq Puts /\ sent \subseteq Puts /\ confirmed \subseteq Puts
  /\ putsToAck \in Seq(Puts) /\ completed \in Seq(Puts)
  /\ requestCBHash \in Seq(Requests)
  /\ reported \in Seq(Tokens \cup {Nil}) /\ Len(reported) \in 1 .. MaxChanges + 1
  /\ opened \in [from : Nat, at : Nat] /\ mustRefresh \in BOOLEAN
  /\ drops \in 0 .. MaxDrops

\* The states the assertions of tryScheduleReconnect and its callbacks demand:
\* at most one of a scheduled retry, a fetch in earnest and a connection
\* drives the client, so two connections are never open at once, and nothing
\* is asked of a service that is not connected.
OneConnectionAttempt ==
  /\ retry # NoRetry => connectionState = "Disconnected" /\ interruptReasons = {}
  /\ connectionState = "GettingToken" => fetch # NoFetch
  /\ realtime = "none" <=> connectionState \in {"Disconnected", "GettingToken"}
  /\ realtime = "connected" <=> Connected
  /\ requestCBHash # <<>> \/ unackedListensCount > 0 => Connected

\* unackedListensCount is the number of listen requests the service has yet to
\* answer, through resent listens, removed listens and lost connections: it
\* never wraps around, and at 0 no listen is unanswered.
ListenCountExact == unackedListensCount = Cardinality(UnansweredListens)

\* A put is nowhere lost and its completion is never called twice: it waits for
\* its answer, waits for a listen's answer, or is completed, once.
PutsConserved ==
  LET answered == putsToAck \o completed
  IN  /\ IsInjective(answered)
      /\ Range(answered) = (1 .. putCounter) \ outstandingPuts
      /\ outstandingPuts \subseteq 1 .. putCounter

\* On any connection writes reach the service in the order of their issue, and
\* no write twice, although they are sent again on every connection.
SentInOrder ==
  \A j, k \in PutsIn(requestCBHash) : j < k => requestCBHash[j].put < requestCBHash[k].put

\* What the assertions and counters of the client rely on, through every loss,
\* interruption and credential change.
ConnectionExact == TypeOK /\ OneConnectionAttempt /\ ListenCountExact /\ SentInOrder

\* Sending again never undoes what the service has confirmed: its data is the
\* last confirmed write, or a later one.
DurableOrder == \A i \in confirmed : value >= i

\* Every report but those between a fetch and its answer is followed: a connected
\* client uses the credential reported last, if any was since the token of its
\* connection came, through handshakes and while an auth request is unanswered;
\* and else the one that was the last when that token was asked for, and nothing
\* an earlier attempt, connection or report left behind.
TokenFollowsListener ==
  connectionState = "Connected" =>
    authToken = reported[IF Len(reported) > opened.at THEN Len(reported) ELSE opened.from]

\* Once nothing interrupts the connection any more, every write is answered.
WritesLeaveQueue ==
  <>[](interruptReasons = {}) => \A i \in Puts : []<>(i \notin outstandingPuts)

\* The completion block is triggered after the write has been written on the
\* servers (FIRDatabaseReference.h).  A put whose completion waits for a listen
\* that a lost connection takes away, and that is not made again, never completes.
ConfirmedCompletes ==
  <>[](interruptReasons = {}) =>
    \A i \in Puts : i \in confirmed ~> i \in Range(completed)

\* A connected client uses the credential reported last.  One that is reported
\* while a token is fetched does not last: the fetch brings back the older one
\* (openNetworkConnectionWithToken), and nothing reports the newer again.
LatestTokenUsed ==
  connectionState = "Connected" => authToken = reported[Len(reported)]

\* After a credential is refused, the next connection uses a refreshed one
\* (FPersistentConnection.m: "we will refresh the token later on reconnect").
RefreshedBeforeConnecting == realtime # "none" => ~mustRefresh
=============================================================================
