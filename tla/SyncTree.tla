------------------------------ MODULE SyncTree ------------------------------
(***************************************************************************)
(* The views of a location and of its children (FSyncTree.m, FSyncPoint.m, *)
(* FView.m, FViewProcessor.m with the FIndexedFilter of an unrestricted    *)
(* query), over the pending writes of WriteTree: the location is "users",  *)
(* which the search tab observes, and a child is the profile of one user.  *)
(* FRepo.m and FPersistentConnection.m are the calls that write, listen    *)
(* and take the server's messages; the server answers requests in order    *)
(* and tells of a change before it acknowledges it.  A connection may be   *)
(* lost and made again at any time; the views keep what they know.         *)
(*                                                                         *)
(* A node is a function from the children; a view of a child only uses its *)
(* own.  Values are writeIds, and larger numbers for changes of others.    *)
(***************************************************************************)
EXTENDS WriteTree, FiniteSets

CONSTANTS
  Denied,     \* the paths that the server's rules do not let the client read
  Late,       \* whether observers are added below a listen not yet answered
  Races,      \* whether the hash in a listen may be out of date when the server
              \* compares it, for data of an earlier listen on the way
  MaxListens, \* bound: listens made by adding observers
  MaxRemote,  \* bound: changes other clients make
  MaxDrops    \* bound: connections lost

ASSUME BoundsAssumption == {MaxListens, MaxRemote, MaxDrops} \subseteq Nat
ASSUME ChildrenAssumption == IsFiniteSet(Children)

VARIABLES
  view,      \* FSyncPoint.views: per path the FViewCache, or NoView
  told,      \* per path, the node of the last value event
  rows,      \* SearchTableViewController.users: the rows of each child
  listens,   \* FPersistentConnection.listens: per path its listenSpec, or 0
  unacked,   \* unackedListensCount
  puts,      \* outstandingPuts: records, in order
  heldAcks,  \* putsToAck
  connected,
  toServer,  \* requests on their way
  toClient,  \* messages on their way
  data,      \* the server's data
  serving,   \* the paths the server sends changes of
  specs,     \* listenSpecs made
  remote, drops

tree == <<allWrites, visibleWrites, lastWriteId, view, told, rows>>
vars == <<allWrites, visibleWrites, lastWriteId, written, view, told, rows, listens,
          unacked, puts, heldAcks, connected, toServer, toClient, data, serving,
          specs, remote, drops>>

Paths == Children \cup {Root}
Below(p) == IF p = Root THEN Children ELSE {p}
Empty == [c \in Children |-> None]
NoView == [server |-> Empty, serverFull |-> FALSE, event |-> Empty, eventFull |-> FALSE, on |-> FALSE]

Init ==
  /\ WriteInit
  /\ view = [p \in Paths |-> NoView]
  /\ told = [p \in Paths |-> Empty]
  /\ rows = [c \in Children |-> 0]
  /\ listens = [p \in Paths |-> 0]
  /\ unacked = 0 /\ puts = <<>> /\ heldAcks = <<>>
  /\ connected = TRUE
  /\ toServer = <<>> /\ toClient = <<>>
  /\ data = Empty
  /\ serving = {}
  /\ specs = 0 /\ remote = 0 /\ drops = 0

-----------------------------------------------------------------------------
\* FViewProcessor: what an operation makes of the caches of one view.  w is
\* the FCompoundWrite of the visible writes; only the children below p are
\* looked at.

Shadowing(w, path) == HasCompleteWriteAt(w, path)

\* isCompleteForChild
CompleteFor(node, full, c) == full \/ node[c] # None

\* calculateCompleteEventCache and ...EventChildren: the writes over a node.
WithWrites(w, p, node) ==
  [c \in Children |-> IF c \in Below(p) /\ w.node[c] # Unwritten THEN w.node[c] ELSE node[c]]

\* generateEventCacheAfterServerEvent, for the whole node and for a child.
EventAfterAll(v, w, p) ==
  IF Shadowing(w, p) THEN v
  ELSE [v EXCEPT !.event = WithWrites(w, p, v.server), !.eventFull = TRUE]

EventAfterChild(v, w, c) ==
  IF Shadowing(w, c) \/ ~(CompleteFor(v.event, v.eventFull, c) \/ CompleteFor(v.server, v.serverFull, c))
  THEN v
  ELSE [v EXCEPT !.event[c] = v.server[c]]

\* applyServerOverwrite
ServerOverwriteAll(v, w, p, node) ==
  EventAfterAll([v EXCEPT !.server = node, !.serverFull = TRUE], w, p)

\* Mutant: what the server sends of a child with a pending write is dropped.
ServerOverwriteUnwritten(v, w, c, value) ==
  IF Shadowing(w, c) THEN v ELSE EventAfterChild([v EXCEPT !.server[c] = value], w, c)

ServerOverwriteChild(v, w, c, value) == EventAfterChild([v EXCEPT !.server[c] = value], w, c)

\* applyServerMerge: ignored before there is a cache; one overwrite per child,
\* each of which looks at and changes this child only.
ServerMerge(v, w, changed) ==
  IF v.server = Empty /\ ~v.serverFull
  THEN v
  ELSE LET after == [c \in DOMAIN changed |-> ServerOverwriteChild(v, w, c, changed[c])]
       IN [v EXCEPT !.server = Onto([c \in DOMAIN changed |-> after[c].server[c]], @),
                    !.event = Onto([c \in DOMAIN changed |-> after[c].event[c]], @)]

\* applyUserOverwrite and applyUserMerge
UserOverwriteAll(v, node) == [v EXCEPT !.event = node, !.eventFull = TRUE]
UserWriteChildren(v, changed) == [v EXCEPT !.event = Onto(changed, @)]

\* ackUserWrite: what the server is known to have, applied again now that it
\* is no longer shadowed.
AckOverwrite(v, w, p, path) ==
  IF Shadowing(w, path) THEN v
  ELSE IF path = p
  THEN IF v.serverFull
       THEN ServerOverwriteAll(v, w, p, v.server)
       ELSE ServerMerge(v, w, [c \in {b \in Below(p) : v.server[b] # None} |-> v.server[c]])
  ELSE IF CompleteFor(v.server, v.serverFull, path)
  THEN ServerOverwriteChild(v, w, path, v.server[path])
  ELSE v

AckMerge(v, w, p, cs) ==
  IF Shadowing(w, p) THEN v
  ELSE ServerMerge(v, w, [c \in {b \in cs : CompleteFor(v.server, v.serverFull, b)} |-> v.server[c]])

\* revertUserWrite
RevertChild(v, w, c) ==
  IF Shadowing(w, c) THEN v
  ELSE [v EXCEPT
    !.event[c] = IF CompleteFor(v.server, v.serverFull, c) THEN v.server[c] ELSE None,
    !.eventFull = v.serverFull \/ w.root]

RevertAll(v, w, p) ==
  IF Shadowing(w, p) THEN v
  ELSE [v EXCEPT !.event = WithWrites(w, p, v.server), !.eventFull = v.serverFull]

ListenComplete(v, w, p, path) ==
  IF path = p
  THEN EventAfterAll([v EXCEPT !.serverFull = TRUE], w, p)
  ELSE EventAfterChild(v, w, path)

-----------------------------------------------------------------------------
\* The state that operations transform, and the operation of each view; the
\* views of the children that an operation is not about keep what they have.
Tree == [all |-> allWrites, visible |-> visibleWrites, last |-> lastWriteId,
         view |-> view, told |-> told, rows |-> rows]

Becomes(t) ==
  /\ allWrites' = t.all /\ visibleWrites' = t.visible /\ lastWriteId' = t.last
  /\ view' = t.view /\ told' = t.told /\ rows' = t.rows

Only(p, node) == [c \in Children |-> IF c \in Below(p) THEN node[c] ELSE None]

Changes(p, old, new) == {c \in Children : p = Root /\ old.event[c] # new.event[c]}

\* Mutant: a complete view whose old one was not complete raises nothing.
RaisesValueOnChange(p, old, new) ==
  new.eventFull /\ (Changes(p, old, new) # {} \/ (old.eventFull /\ p # Root /\ new.event # old.event))

\* maybeAddValueFromOldViewCache: a child's node is a leaf or empty.
RaisesValue(p, old, new) ==
  new.eventFull /\ (\/ Changes(p, old, new) # {}
                    \/ ~old.eventFull
                    \/ p # Root /\ new.event # old.event)

\* Mutant: a child is added only to a view that is complete.
AddedWhenFull(old, new) ==
  {c \in Changes(Root, old, new) : old.event[c] = None /\ new.eventFull}

\* The children a view at Root gains, each a childAdded event.
Added(old, new) == {c \in Changes(Root, old, new) : old.event[c] = None}

\* The views become those of after where they are on, and raise their events.
ApplyToViews(t, after) ==
  LET new == [p \in Paths |-> IF t.view[p].on THEN after[p] ELSE NoView]
      added == Added(t.view[Root], new[Root])
  IN [t EXCEPT !.view = new,
               !.told = [p \in Paths |-> IF RaisesValue(p, t.view[p], new[p]) THEN new[p].event ELSE @[p]],
               !.rows = [c \in Children |-> IF c \in added THEN @[c] + 1 ELSE @[c]]]

ApplyUserWrite(t, record) ==
  ApplyToViews(t, [p \in Paths |->
    LET v == t.view[p] IN
    IF p # Root /\ p \notin DOMAIN record.data THEN v
    ELSE IF p = Root /\ (record.path # Root \/ record.merge) THEN UserWriteChildren(v, record.data)
    ELSE UserOverwriteAll(v, Only(p, Onto(record.data, Empty)))])

ApplyAck(t, record, revert) ==
  ApplyToViews(t, [p \in Paths |->
    LET v == t.view[p]
        w == t.visible
        path == IF p = Root \/ record.path = Root THEN p ELSE record.path
    IN IF p # Root /\ record.path \notin {Root, p} THEN v
       ELSE IF revert
       THEN IF p = Root /\ record.path # Root THEN RevertChild(v, w, record.path) ELSE RevertAll(v, w, p)
       ELSE IF record.merge
       THEN IF p = Root THEN AckMerge(v, w, p, DOMAIN record.data)
            ELSE IF p \in DOMAIN record.data THEN AckOverwrite(v, w, p, p) ELSE v
       ELSE AckOverwrite(v, w, p, IF p = Root THEN record.path ELSE p)])

ApplyServerData(t, path, node) ==
  ApplyToViews(t, [p \in Paths |->
    LET v == t.view[p] IN
    IF path = Root \/ path = p THEN ServerOverwriteAll(v, t.visible, p, Only(p, node))
    ELSE IF p = Root THEN ServerOverwriteChild(v, t.visible, path, node[path])
    ELSE v])

ApplyServerMerge(t, changed) ==
  ApplyToViews(t, [p \in Paths |->
    LET v == t.view[p] IN
    IF p = Root THEN ServerMerge(v, t.visible, changed)
    ELSE IF p \in DOMAIN changed THEN ServerOverwriteAll(v, t.visible, p, Only(p, Onto(changed, Empty)))
    ELSE v])

ApplyListenComplete(t, path) ==
  ApplyToViews(t, [p \in Paths |->
    IF path = Root \/ path = p THEN ListenComplete(t.view[p], t.visible, p, p)
    ELSE IF p = Root THEN ListenComplete(t.view[p], t.visible, p, path)
    ELSE t.view[p]])

\* FRepo's ackWrite
AckWrite(t, ack) ==
  LET i == CHOOSE j \in DOMAIN t.all : t.all[j].id = ack.id
      removed == t.all[i]
      rest == WithoutWrite([all |-> t.all, visible |-> t.visible, last |-> t.last], i)
      next == [t EXCEPT !.all = rest.all, !.visible = rest.visible, !.last = rest.last]
      later == SubSeq(rest.all, i, Len(rest.all))
  IN IF Shadowed(removed, later) THEN next ELSE ApplyAck(next, removed, ~ack.ok)

\* ackPuts
AckAll(t, acks) ==
  LET after[i \in 0 .. Len(acks)] == IF i = 0 THEN t ELSE AckWrite(after[i - 1], acks[i])
  IN after[Len(acks)]

-----------------------------------------------------------------------------
\* FRepo's and FPersistentConnection's requests.  A listen carries the hash of
\* the node the view has from the server: here, the node.
ListenRequest(p, spec, node) == [kind |-> "listen", path |-> p, spec |-> spec, node |-> node]
Unlisten(p) == [kind |-> "unlisten", path |-> p]
PutRequest(record) == [kind |-> "put", record |-> record]

ListensIn(messages) == {i \in DOMAIN messages : messages[i].kind = "listen"}

Send(requests) ==
  IF connected
  THEN /\ toServer' = toServer \o requests
       /\ unacked' = unacked + Cardinality(ListensIn(requests))
  ELSE UNCHANGED <<toServer, unacked>>

\* startListening of each path of ps; the listenSpecs of a step share a number.
Start(ps) ==
  [i \in 1 .. Cardinality(ps) |->
     LET p == SetToSeq(ps)[i] IN ListenRequest(p, specs + 1, view[p].server)]

Stop(ps) == [i \in 1 .. Cardinality(ps) |-> Unlisten(SetToSeq(ps)[i])]

On(p) == view[p].on
ChildrenOn == {c \in Children : On(c)}

\* serverCacheForQuery: from the view above if it is complete, or from the
\* complete views below.
ServerCacheFor(p) ==
  IF p # Root /\ On(Root) /\ view[Root].serverFull
  THEN [node |-> Only(p, view[Root].server), full |-> TRUE]
  ELSE [node |-> IF p = Root THEN [c \in Children |-> view[c].server[c]] ELSE Empty, full |-> FALSE]

\* addEventRegistration:forNonExistingViewForQuery
NewView(p) ==
  LET cache == ServerCacheFor(p)
  IN [server |-> cache.node, serverFull |-> cache.full,
      event |-> WithWrites(visibleWrites, p, cache.node),
      eventFull |-> cache.full \/ Shadowing(visibleWrites, p),
      on |-> TRUE]

\* Mutant: the listens below a new one go on.
StopsNone(p) == {}

\* setupListenerOnQuery: a listen shadows those of the views below it.
Stops(p) == IF p = Root THEN ChildrenOn ELSE {}

AddObserver(p) ==
  LET covered == p # Root /\ On(Root)
      new == NewView(p)
  IN /\ ~On(p) /\ (covered \/ specs < MaxListens)
     /\ covered /\ ~view[Root].serverFull => Late
     /\ view' = [view EXCEPT ![p] = new]
     /\ told' = [told EXCEPT ![p] = IF new.eventFull THEN new.event ELSE Empty]
     /\ rows' = IF p = Root THEN [c \in Children |-> IF new.event[c] # None THEN 1 ELSE 0] ELSE rows
     /\ IF covered
        THEN UNCHANGED <<listens, specs, toServer, unacked>>
        ELSE /\ specs' = specs + 1
             /\ listens' = [q \in Paths |-> IF q = p THEN specs' ELSE IF q \in Stops(p) THEN 0 ELSE listens[q]]
             /\ Send(<<ListenRequest(p, specs', new.server)>> \o Stop(Stops(p)))
     /\ UNCHANGED <<allWrites, visibleWrites, lastWriteId, written, puts, heldAcks, connected,
                    toClient, data, serving, remote, drops>>

\* removeEventRegistration: the views that were shadowed need listens.
Restarts(p) == IF p = Root THEN ChildrenOn ELSE {}

ListensWithout(p) ==
  [q \in Paths |-> IF q = p THEN 0 ELSE IF q \in Restarts(p) THEN specs + 1 ELSE listens[q]]

RemoveObserver(p) ==
  /\ On(p)
  /\ view' = [view EXCEPT ![p] = NoView] /\ told' = [told EXCEPT ![p] = Empty]
  /\ IF p # Root /\ On(Root)
     THEN UNCHANGED <<listens, specs, toServer, unacked>>
     ELSE /\ specs' = specs + 1 /\ listens' = ListensWithout(p)
          /\ Send(Start(Restarts(p)) \o Stop({p}))
  /\ UNCHANGED <<allWrites, visibleWrites, lastWriteId, written, rows, puts, heldAcks, connected,
                 toClient, data, serving, remote, drops>>

\* setValue, removeValue and updateChildValues
UserWrite ==
  /\ written < MaxWrites
  /\ \E record \in RecordsOf(written + 1) :
       /\ written' = record.id
       /\ Becomes(ApplyUserWrite(
            [Tree EXCEPT !.all = Append(@, record), !.visible = AddWrite(@, record), !.last = record.id],
            record))
       /\ puts' = Append(puts, record)
       /\ Send(<<PutRequest(record)>>)
  /\ UNCHANGED <<listens, heldAcks, connected, toClient, data, serving, specs, remote, drops>>

-----------------------------------------------------------------------------
\* The server's messages.
DataMessage(path, node) == [kind |-> "data", path |-> path, node |-> node]
MergeMessage(changed) == [kind |-> "merge", changed |-> changed]
Answer(path, spec, ok) == [kind |-> "listen", path |-> path, spec |-> spec, ok |-> ok]
Ack(id, ok) == [kind |-> "ack", id |-> id, ok |-> ok]

\* The messages that tell of a write, to a listener above it or else below.
Notices(record) ==
  LET new == Onto(record.data, data)
      listeners == {c \in DOMAIN record.data : c \in serving}
  IN IF Root \in serving
     THEN IF record.merge THEN <<MergeMessage(record.data)>>
          ELSE <<DataMessage(record.path, Only(record.path, new))>>
     ELSE [i \in 1 .. Cardinality(listeners) |->
             LET c == SetToSeq(listeners)[i] IN DataMessage(c, Only(c, new))]

\* The listener has the data, as the hash in its request tells.
HashMatches(request) ==
  /\ request.node = Only(request.path, data)
  /\ \/ Races
     \/ /\ view[request.path].server = request.node
        /\ \A i \in DOMAIN toClient : toClient[i].kind \notin {"data", "merge"}

Serve(request, ok) ==
  CASE request.kind = "listen" ->
         IF ok
         THEN /\ serving' = serving \cup {request.path}
              /\ toClient' = toClient
                   \o (IF HashMatches(request) THEN <<>>
                       ELSE <<DataMessage(request.path, Only(request.path, data))>>)
                   \o <<Answer(request.path, request.spec, TRUE)>>
              /\ UNCHANGED data
         ELSE /\ toClient' = Append(toClient, Answer(request.path, request.spec, FALSE))
              /\ UNCHANGED <<serving, data>>
    [] request.kind = "unlisten" ->
         serving' = serving \ {request.path} /\ UNCHANGED <<toClient, data>>
    [] request.kind = "put" ->
         /\ IF ok
            THEN /\ data' = Onto(request.record.data, data)
                 /\ toClient' = toClient \o Notices(request.record) \o <<Ack(request.record.id, TRUE)>>
            ELSE /\ toClient' = Append(toClient, Ack(request.record.id, FALSE))
                 /\ UNCHANGED data
         /\ UNCHANGED serving

ServerTurn ==
  /\ toServer # <<>>
  /\ toServer' = Tail(toServer)
  /\ \E ok \in BOOLEAN :
       /\ Head(toServer).kind = "listen" => ok = (Head(toServer).path \notin Denied)
       /\ Head(toServer).kind = "unlisten" => ok
       /\ Serve(Head(toServer), ok)
  /\ UNCHANGED <<tree, written, listens, unacked, puts, heldAcks, connected, specs, remote, drops>>

OtherClientWrites ==
  /\ remote < MaxRemote
  /\ \E record \in RecordsOf(MaxWrites + remote + 1) :
       data' = Onto(record.data, data) /\ toClient' = toClient \o Notices(record)
  /\ remote' = remote + 1
  /\ UNCHANGED <<tree, written, listens, unacked, puts, heldAcks, connected, toServer, serving,
                 specs, drops>>

-----------------------------------------------------------------------------
\* The client takes a message.
Take(kind) ==
  /\ toClient # <<>> /\ Head(toClient).kind = kind
  /\ toClient' = Tail(toClient)

TakeData ==
  /\ Take("data")
  /\ Becomes(ApplyServerData(Tree, Head(toClient).path, Head(toClient).node))
  /\ UNCHANGED <<written, listens, unacked, puts, heldAcks, connected, toServer, data, serving,
                 specs, remote, drops>>

TakeMerge ==
  /\ Take("merge")
  /\ Becomes(ApplyServerMerge(Tree, Head(toClient).changed))
  /\ UNCHANGED <<written, listens, unacked, puts, heldAcks, connected, toServer, data, serving,
                 specs, remote, drops>>

\* Mutant: acknowledgements do not wait for the answers to listens.
HoldsNone == FALSE

\* sendPut: the completion waits while a listen is unanswered.
Holds == unacked > 0

TakeAck ==
  LET ack == Head(toClient)
  IN /\ Take("ack")
     /\ puts' = RemoveAt(puts, CHOOSE i \in DOMAIN puts : puts[i].id = ack.id)
     /\ IF Holds
        THEN heldAcks' = Append(heldAcks, ack) /\ UNCHANGED tree
        ELSE Becomes(AckWrite(Tree, ack)) /\ UNCHANGED heldAcks
     /\ UNCHANGED <<written, listens, unacked, connected, toServer, data, serving, specs, remote,
                    drops>>

\* The answer to a listen, which counts only if the listen was not removed or
\* made again; then ackPuts.
TakeAnswer ==
  LET answer == Head(toClient)
      current == listens[answer.path] = answer.spec
      failed == current /\ ~answer.ok
      t == IF failed
           THEN [Tree EXCEPT !.view[answer.path] = NoView, !.told[answer.path] = Empty]
           ELSE IF current THEN ApplyListenComplete(Tree, answer.path) ELSE Tree
      restarts == IF failed THEN Restarts(answer.path) ELSE {}
      left == unacked + Cardinality(restarts) - 1
  IN /\ Take("listen")
     /\ IF failed
        THEN listens' = ListensWithout(answer.path) /\ specs' = specs + 1
        ELSE UNCHANGED <<listens, specs>>
     /\ unacked' = left
     /\ toServer' = toServer \o Start(restarts)
     /\ IF left = 0
        THEN Becomes(AckAll(t, heldAcks)) /\ heldAcks' = <<>>
        ELSE Becomes(t) /\ UNCHANGED heldAcks
     /\ UNCHANGED <<written, puts, connected, data, serving, remote, drops>>

\* onDisconnect: what is on its way is lost, the listens and puts are kept.
Disconnect ==
  /\ connected /\ drops < MaxDrops
  /\ connected' = FALSE /\ drops' = drops + 1
  /\ toServer' = <<>> /\ toClient' = <<>> /\ serving' = {} /\ unacked' = 0
  /\ UNCHANGED <<tree, written, listens, puts, heldAcks, data, specs, remote>>

\* restoreState: the listens, then the puts in order.
Connect ==
  LET ps == {p \in Paths : listens[p] # 0}
  IN /\ ~connected /\ connected' = TRUE
     /\ toServer' = [i \in 1 .. Cardinality(ps) |->
                       LET p == SetToSeq(ps)[i] IN ListenRequest(p, listens[p], view[p].server)]
                    \o [i \in DOMAIN puts |-> PutRequest(puts[i])]
     /\ unacked' = Cardinality(ps)
     /\ UNCHANGED <<tree, written, listens, puts, heldAcks, toClient, data, serving, specs, remote,
                    drops>>

Next ==
  \/ \E p \in Paths : AddObserver(p) \/ RemoveObserver(p)
  \/ UserWrite
  \/ ServerTurn
  \/ OtherClientWrites
  \/ TakeData \/ TakeMerge \/ TakeAck \/ TakeAnswer
  \/ Disconnect \/ Connect

Spec == Init /\ [][Next]_vars

-----------------------------------------------------------------------------
TypeOK ==
  /\ WritesTypeOK
  /\ \A p \in Paths :
       /\ view[p].on \in BOOLEAN /\ (view[p].serverFull \/ view[p].eventFull => On(p))
       /\ {view[p].event, view[p].server, told[p]} \subseteq [Children -> Nat \cup {None}]
       /\ listens[p] \in 0 .. specs
  /\ unacked \in 0 .. Len(toServer) + Len(toClient)
  /\ serving \subseteq Paths

\* A view is listened to exactly when no view above it is, so that no view is
\* without a source and none has two.
ListensCover == \A p \in Paths : listens[p] # 0 <=> On(p) /\ (p = Root \/ ~On(Root))

\* Whatever the order of writes, answers, data and listens, what a view shows
\* is what it has from the server with the pending visible writes over it.
EventExact ==
  \A p \in Paths : On(p) =>
    /\ view[p].event =
         WithWrites(LayerTreeFromWrites(allWrites, DefaultFilter(allWrites)), p, view[p].server)
    /\ view[p].serverFull => view[p].eventFull

\* However views, writes and their answers interleave, the cached visible
\* writes are those pending, and every view shows them over what the server sent.
ViewsExact == TypeOK /\ VisibleWritesExact /\ EventExact

\* The last value event of an observer tells what its view shows.
ValueTold == \A p \in Paths : view[p].eventFull => told[p] = view[p].event

\* Each user the view shows has a row in the search tab.
RowsCoverUsers == \A c \in Children : On(Root) /\ view[Root].event[c] # None => rows[c] >= 1

\* Once the connection is quiet, every view shows the server's data.  An
\* acknowledgement that is still held, since the listen it waited for was lost
\* and removed, keeps its write pending until another listen is answered.
Converged ==
  connected /\ toServer = <<>> /\ toClient = <<>> /\ heldAcks = <<>> =>
    /\ allWrites = <<>>
    /\ \A p \in Paths : On(p) => view[p].eventFull /\ view[p].event = Only(p, data)

=============================================================================
