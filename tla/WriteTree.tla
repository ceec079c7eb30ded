----------------------------- MODULE WriteTree -----------------------------
(***************************************************************************)
(* The pending writes of a Firebase repo (FWriteTree.m, with FCompoundWrite *)
(* and FWriteRecord) at one location and its children: overwrites and      *)
(* merges are added, each is removed when the server has answered it or    *)
(* its transaction is run again, and visibleWrites caches their combined   *)
(* effect.  The value a write gives is its writeId.                        *)
(***************************************************************************)
EXTENDS Integers, Sequences, SequencesExt

CONSTANTS
  Children,
  Root,       \* the location itself
  None,       \* the empty node: a child that is not there, or is deleted
  Unwritten,  \* a child of a compound write that it says nothing of
  MaxWrites,  \* bound: writes made
  Forms,      \* the kinds of writes made: "set", "setChild", "remove", "merge"
  Hidden,     \* whether transactions with local events off are run
  InOrder     \* whether writes are removed in the order they were added

ASSUME WritesAssumption ==
  /\ MaxWrites \in Nat
  /\ Root \notin Children
  /\ None # Unwritten /\ None \notin Nat /\ Unwritten \notin Nat

VARIABLES
  allWrites,     \* FWriteRecords
  visibleWrites, \* FCompoundWrite: whether it has a root write, and each child's
  lastWriteId,   \* lastWriteId
  written        \* FRepo's writeIdCounter

writes == <<allWrites, visibleWrites, lastWriteId, written>>

WriteIds == 1 .. MaxWrites
emptyWrite == [root |-> FALSE, node |-> [c \in Children |-> Unwritten]]

WriteInit ==
  /\ allWrites = <<>>
  /\ visibleWrites = emptyWrite
  /\ lastWriteId = -1
  /\ written = 0

-----------------------------------------------------------------------------
\* The children of a node, some of them changed.
Onto(changed, node) == [c \in Children |-> IF c \in DOMAIN changed THEN changed[c] ELSE node[c]]

\* addWrite and addCompoundWrite: a child written below a root write changes
\* the node of the root write.
AddWrite(compound, record) ==
  [root |-> compound.root \/ (record.path = Root /\ ~record.merge),
   node |-> Onto(record.data, compound.node)]

\* removeWriteAtPath for each path of a record; it does not touch a write at
\* a higher location.
RemoveWriteOf(compound, record) ==
  IF record.path = Root /\ ~record.merge THEN emptyWrite
  ELSE IF compound.root THEN compound
  ELSE [root |-> FALSE,
        node |-> [c \in Children |->
                    IF c \in DOMAIN record.data THEN Unwritten ELSE compound.node[c]]]

\* layerTreeFromWrites:filter:treeRoot:, the filter as the places it lets pass.
LayerTreeFromWrites(records, filter) ==
  LET compound[i \in 0 .. Len(records)] ==
        IF i = 0 THEN emptyWrite
        ELSE IF i \in filter THEN AddWrite(compound[i - 1], records[i]) ELSE compound[i - 1]
  IN compound[Len(records)]

DefaultFilter(records) == DOMAIN records

HasCompleteWriteAt(compound, path) ==
  IF path = Root THEN compound.root ELSE compound.node[path] # Unwritten

\* FPath contains: for paths of these two levels.
PathContains(path, other) == path \in {Root, other}

\* record:containsPath: for a merge, one of its children does.
RecordContains(record, path) ==
  IF record.merge THEN path \in DOMAIN record.data ELSE PathContains(record.path, path)

-----------------------------------------------------------------------------
Set(id, data) == [id |-> id, path |-> Root, merge |-> FALSE, data |-> data, visible |-> TRUE]
SetChild(id, c, v) == [id |-> id, path |-> c, merge |-> FALSE, data |-> [b \in {c} |-> v], visible |-> TRUE]
Merge(id, cs) == [id |-> id, path |-> Root, merge |-> TRUE, data |-> [c \in cs |-> id], visible |-> TRUE]

\* The writes the application may make next.
RecordsOf(id) ==
  UNION {
    IF "set" \in Forms
    THEN {Set(id, [c \in Children |-> IF c \in cs THEN id ELSE None]) : cs \in SUBSET Children}
    ELSE {},
    IF "setChild" \in Forms THEN {SetChild(id, c, id) : c \in Children} ELSE {},
    IF "remove" \in Forms THEN {SetChild(id, c, None) : c \in Children} ELSE {},
    IF "merge" \in Forms THEN {Merge(id, cs) : cs \in SUBSET Children \ {{}}} ELSE {}}

\* addOverwriteAtPath and addMergeAtPath
Add(record) ==
  /\ allWrites' = Append(allWrites, record)
  /\ visibleWrites' = IF record.visible THEN AddWrite(visibleWrites, record) ELSE visibleWrites
  /\ lastWriteId' = record.id /\ written' = record.id

\* Some other visible write lies below the removed one.
Overlaps(removed, rest) ==
  \E j \in DOMAIN rest : rest[j].visible /\ PathContains(removed.path, rest[j].path)

\* A later visible write covers the removed one.
Shadowed(removed, later) ==
  \E j \in DOMAIN later : later[j].visible /\ RecordContains(later[j], removed.path)

\* resetTree's lastWriteId; there is a record, since one overlaps.
LastIdOf(rest) == Last(rest).id

\* removeWriteId; resetTree layers the records anew.
WithoutWrite(tree, i) ==
  LET removed == tree.all[i]
      rest == RemoveAt(tree.all, i)
      later == SubSeq(rest, i, Len(rest))
  IN IF ~removed.visible \/ Shadowed(removed, later)
     THEN [tree EXCEPT !.all = rest]
     ELSE IF Overlaps(removed, rest)
     THEN [tree EXCEPT !.all = rest, !.visible = LayerTreeFromWrites(rest, DefaultFilter(rest)),
                     !.last = LastIdOf(rest)]
     ELSE [tree EXCEPT !.all = rest, !.visible = RemoveWriteOf(@, removed)]

RemoveWriteId(i) ==
  LET tree == WithoutWrite([all |-> allWrites, visible |-> visibleWrites, last |-> lastWriteId], i)
  IN /\ allWrites' = tree.all /\ visibleWrites' = tree.visible /\ lastWriteId' = tree.last
     /\ UNCHANGED written

RemoveAllWrites ==
  /\ allWrites' = <<>> /\ visibleWrites' = emptyWrite
  /\ UNCHANGED <<lastWriteId, written>>

-----------------------------------------------------------------------------
Write ==
  /\ written < MaxWrites
  /\ \E record \in RecordsOf(written + 1) : Add(record)

WriteHidden ==
  /\ Hidden /\ written < MaxWrites
  /\ \E record \in RecordsOf(written + 1) :
       ~record.merge /\ Add([record EXCEPT !.visible = FALSE])

RemoveOne == \E i \in DOMAIN allWrites : (InOrder => i = 1) /\ RemoveWriteId(i)

WriteNext ==
  \/ Write
  \/ WriteHidden
  \/ RemoveOne
  \/ allWrites # <<>> /\ RemoveAllWrites

WriteSpec == WriteInit /\ [][WriteNext]_writes

-----------------------------------------------------------------------------
WritesTypeOK ==
  /\ written \in 0 .. MaxWrites
  /\ lastWriteId \in -1 .. MaxWrites
  /\ visibleWrites.root \in BOOLEAN
  /\ visibleWrites.node \in [Children -> WriteIds \cup {None, Unwritten}]
  /\ \A i \in DOMAIN allWrites :
       /\ allWrites[i].id \in WriteIds
       /\ allWrites[i].id <= lastWriteId
       /\ i > 1 => allWrites[i - 1].id < allWrites[i].id

\* visibleWrites, however it was patched, is what layering the visible
\* pending writes in order gives.
VisibleWritesExact ==
  visibleWrites = LayerTreeFromWrites(allWrites, {i \in DOMAIN allWrites : allWrites[i].visible})

\* No child shows the value of a write that is hidden or no longer pending.
OnlyPendingShown ==
  \A c \in Children :
    visibleWrites.node[c] \in WriteIds =>
      \E i \in DOMAIN allWrites : allWrites[i].id = visibleWrites.node[c] /\ allWrites[i].visible
=============================================================================
