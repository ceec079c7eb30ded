# ShareImage in TLA+

ShareImage is an iOS client in Swift for sharing pictures, built on Firebase. At this commit it
signs users up and in, lists the users with their avatars and shows the profile of the current
user. The application is short, and what is hard about it is not in its lines but between them:
every interesting step is a completion handler that runs later, on another queue, after other
steps that nobody ordered. The repository contains the source of what it is built with (`Pods/`):
the Firebase SDK, whose database client decides when a write and a read come true, and LevelDB,
a storage engine that promises to survive crashes at every step. What a call promises is read
from that code too, and the two are modelled for their own sake.

Paths below are relative to `ShareImage/ShareImage/`, those of the SDK and of LevelDB to
`ShareImage/Pods/`.

## Inventory

The application:

| Component | State | Operations | Interacts with |
|---|---|---|---|
| Avatar loading: `Helpers/Extensions.swift`, `SearchUserCell`, `UserProfileHeader` | the process-wide dictionary `imageCache`; per view the user, the labels, the image | assigning a user (`didSet`), `loadImage(with:)`, its completion handler, the block it queues | `URLSession.shared` and its serial delegate queue, the main queue |
| Sign-up: `SignUpViewController` | the form, `imageSelected`; per attempt the values its closures captured | `handleSignUp` and four nested completions, `formValidation`, the photo picker | Auth, Storage, Database, one after the other |
| Sign-in: `LoginViewController` | the form | `handleSignIn` and its completion, `handleShowSignUp` | Auth; rebuilds the tabs of `MainTabViewController` |
| Tabs: `MainTabViewController`, `SceneDelegate`, `AppDelegate` | the five tab controllers | `configureViewControllers`, `checkInUserIsLoggedIn` | Auth (`currentUser`) |
| Profile tab: `UserProfileCollectionViewController` | its header | the header request, which reads `users/<uid>` once | Auth, Database, avatar loading |
| User search: `SearchTableViewController`, `User` | `users`, the rows | `fetchUsers` (an observer of `childAdded`), `cellForRowAt` | Database, avatar loading |
| Feed, notifications, upload | none | template stubs | - |

Firebase:

| Component | State | Operations | Interacts with |
|---|---|---|---|
| FirebaseAuth: `FIRAuth.m`, `FIRUser.m` | `_currentUser`, its keychain copy | `createUser`, `signIn`, `updateCurrentUser`, forced sign-out, loading the saved user | the identity service, the keychain, the work queue and the main queue |
| FirebaseStorage | upload and URL tasks | `putData`, `downloadURL` | the storage service |
| Persistent connection: `FPersistentConnection.m` | the connection state, interrupt reasons, listens, outstanding puts, the token, request callbacks | connect and retry, token fetch and refresh, listen, put, their answers, disconnection and what it restores | `FConnection`, Auth tokens, `FRepo`, reachability |
| Write tree: `FWriteTree.m`, `FCompoundWrite` | `allWrites`, `visibleWrites`, `lastWriteId` | adding, removing and layering of writes | the sync tree |
| Sync tree and views: `FSyncTree.m`, `FSyncPoint.m`, `FView.m`, `FViewProcessor.m`, `FRepo.m` | per path the event and the server cache, the listens it has asked for | adding and removing observers, user writes, server data, acknowledgements and reverts, listen completion | the connection, the write tree, observers |

LevelDB:

| Component | State | Operations | Interacts with |
|---|---|---|---|
| `DBImpl` (`db/db_impl.cc`) | the queue of writers, memtables, versions, the log, the manifest, pending outputs | `Write`, `Get`, flush, the background thread, `RemoveObsoleteFiles`, recovery | all below |
| Versions and compactions (`db/version_set.cc`) | levels of tables, compaction pointers, the file to compact | picking and expanding compactions, dropping entries, placing a flushed table, charging seeks | `DBImpl`, tables |
| Memtable (`db/skiplist.h`) | the links of a skip list | `Insert` under a mutex, iterators without one | readers in other threads |
| Iterators (`db/db_iter.cc`, `table/merger.cc`) | direction, saved key, the children | seek, next, prev over a snapshot | memtables and tables |
| Blocks and tables (`table/`) | the block being built, the index, filters | add, finish; seek, next, prev, lookup | the cache, files |
| Cache (`util/cache.cc`, `db/table_cache.cc`) | a hash table, two lists, reference counts | lookup, insert, erase, prune, release | threads |
| Log (`db/log_writer.cc`, `db/log_reader.cc`) | the bytes of a file, the writer's offset | `AddRecord`, sync, reading back | the file system |
| POSIX environment (`util/env_posix.cc`) | lock table, two counters of resources, the queue of the background thread | `LockFile`, `NewRandomAccessFile`, `Schedule` | other processes, the kernel |

What is hard, and what makes each component correct:

* **Avatar loading.** A table recycles its cells, so several downloads of one cell may be out and
  end in any order; the cache is a Swift dictionary written on one queue and read on another
  with nothing between them; a failed decode removes a cache entry and blanks a view; the cache
  is read under one string and written under another. Correct means: a cached picture is the
  picture of its URL, a view never receives what it did not ask for, and what was asked for
  arrives or fails.
* **Sign-up.** Three services are updated without a transaction; any answer may be lost and the
  process may die at any point; nothing disables the button, so attempts overlap, and each
  replaces the current user. Correct means: a stored profile belongs to the account its attempt
  made, an address has one account for good, an attempt ends.
* **Sign-in and session.** Auth changes the current user on its own queue and tells the
  application later; tokens become void without the application hearing of it; reads answer
  after the screen that asked was replaced. Correct means: somebody is signed in behind a
  dismissed login screen, and the header shows the user it was built for.
* **Database connection.** Puts survive reconnection and are sent again; completions may wait for
  listens; tokens are fetched asynchronously; every callback may find that the connection it was
  made for is gone. Correct means: each put is outstanding, held back or completed, once; nothing
  is sent in a state that does not allow it; an old put never overwrites a later one for good.
* **Writes, views and search.** A local write shows at once, is confirmed or taken back later, and
  lies over server data that changes meanwhile; listens move between a location and its children as
  observers come and go. Correct means: a view is the server's data under the pending writes,
  every view has a source and only one, and the search tab has a row for each user.
* **Durability.** One leader writes for a group with the mutex released; the background thread
  replaces the files that readers use; the process or the machine may fail between any two steps,
  also during recovery. Correct means: what was acknowledged is found while the machine lives, what
  was synced always, and a snapshot reads the same until it is released.
* **Compaction.** What is dropped must be what nobody can see, wherever older entries lie.
* **Lock-free and shared structures.** Readers of the memtable take no lock; a cache entry is freed
  by the last of the cache and its holders; locks of POSIX belong to processes while their holders are
  threads. Correct means: no reader sees a half-made node, nothing is freed in use or never, and
  one process has the database.

`PROJECT.json` lists each hazard at its line with the properties that are for it.

## Modules

```
AvatarSlots           what loading an avatar promises a view (abstract)
ImageLoading          implements AvatarSlots            MCImageLoading, ImageLoading_proofs

Registration          what signing up means at the server (abstract)
Auth                  FIRAuth
SignUp                EXTENDS Auth; implements Registration
Session               EXTENDS SignUp; implements its Spec         MCSession, Session_proofs

PersistentConnection  the connection of the database client       MCPersistentConnection,
                                                                  PersistentConnection_proofs
WriteTree             the pending writes
SyncTree              EXTENDS WriteTree; views, listens and rows  MCSyncTree, SyncTree_proofs

DurableStore          what LevelDB promises of writes (abstract)
DBImpl                implements DurableStore                     MCDBImpl, DBImpl_proofs
VersionSet            levels and compactions                      MCVersionSet, MCCompaction,
                                                                  VersionSet_proofs

OrderedSet            a set read in order (abstract)
SkipList              implements OrderedSet
DBIter, LRUCache, Block, Table, HandleTable                       MCReadPath
                      (SkipList, DBIter, LRUCache)                ReadPath_proofs

WriteAheadLog, FileLocks, ReadLimits, WorkQueue                   MCEnvironment
                      (the last three)                            Environment_proofs
```

### ImageLoading

| TLA+ | code |
|---|---|
| `user`, `text`, `shown` | `SearchUserCell.user` / `UserProfileHeader.user`, the labels, `profileImageView.image` |
| `imageCache` | the global of that name, as a function on URL strings |
| `loads` | data tasks that have no answer |
| `storing` | the completion handler that is inside its assignment to `imageCache` |
| `mainQueue` | blocks of `DispatchQueue.main.async` |
| `AssignIncomplete` / `AssignHit` / `AssignBadUrl` / `AssignMiss` | `didSet` with the exits of its guards and of `loadImage` |
| `NoData`, `BeginStore`, `EndStore`, `RunBlock` | the completion handler, its write of the cache in two steps, and the block |
| `AssignTorn`, `Relaunch` | a read of the dictionary that overlaps its write and traps; the next process |

`wanted` and `failed` are history: what a view asked for since none of its loads was unfinished,
and whether one of those failed. The race on `imageCache` is undefined behaviour; `CacheRead`
lets an overlapping read return the old value, the new value or a miss, and `AssignTorn` lets it
trap. A picture is named by the URL it comes from, which is all the properties need to know of it.

`AvatarSlots` says what remains true of a view under all this. It does *not* say that a view shows
the picture it asked for last, because that is false: see the findings.

### Auth, SignUp, Registration

`Auth` has one action per step that can be told apart from outside: `CreateUser` and `SignIn` send a
request, `Created` and `Verified` are the service's answers to the first one, `SaveUser` is the
answer to `getAccountInfo` together with `updateCurrentUser`, which saves the user and then makes
it the current one, `CallFails` is every error on the way, among them a keychain that does not take the
user. Each ends by queueing the completion on the main queue, and `Deliver` hands it over. A lost
answer is `Created` with an error. `SignOutByForce`, `AuthKill` and `AuthLaunch` are the token
refresh that finds the token void, the end of the process and `initWithAPIKey`.

`SignUp` follows an attempt through `handleSignUp`: `step[c]` says which completion it waits for.
`OnCreateUser`, `OnPutData`, `OnDownloadURL` and `OnUpdateChildValues` are those completions with
their early returns; `StoreBlob` and `ApplyWrite` are the services. An attempt is named by its
`createUser` call, and the account and the photo it makes carry the same name, so "whose" is an
equation. `ApplyWrite` may happen again while the write is unanswered: the SDK sends it again
after each reconnection. The profile is written under the `uid` of the result the closure
captured, not under the current user.

Whatever a service does with a request after the process has died is the same as if it had done so just
before, so `Kill` ends all calls. Passwords are not modelled: a wrong one is `CallFails`.

`Registration` is the view from the server: an address gets one account for good, and the account is
completed by its profile, once, or abandoned for good. `Stages` computes the stage of an account
from `SignUp`'s variables.

### Session

The screens: which one is up, the form with its flag and its button, the generation of the tabs
(`tabs` counts the runs of `configureViewControllers` in this process), the reads under way for
headers and the user the present header shows. `since` and `forcedOut` are history. `SignedIn`
rebuilds the tabs even when the login screen has gone, as the completion does when two sign-ins
overlap. `HeaderRead` fills the header that asked for it; a header of older tabs is not
on the screen any more. A read sees an unanswered local write as well as a stored profile.
`ShowHeaderOfNobody` is the trap of `currentUid!`.

Assumed of UIKit: the key window's root is the `MainTabViewController`, and the targets which the
lazily built buttons are given resolve to their controllers.

### PersistentConnection

All of `FPersistentConnection` runs on one serial queue; what interleaves are the blocks and callbacks
that it hands out.

| TLA+ | code |
|---|---|
| `connectionState`, `interruptReasons`, `realtime` | the enum, the set, the `FConnection` |
| `RetryFires`, `TokenFetched`, `TokenFetchFails`, `OnReady`, `AuthAccepted` | the retry helper's block, the completion of `fetchTokenForcingRefresh:`, `onReady:`, the answer to `auth` |
| `Listen`, `Unlisten`, `PutInternal`, `PurgeOutstandingWrites`, `RefreshAuthToken`, `GoOffline`, `Resume` | the calls of `FRepo`, of Auth's listener and of reachability |
| `PutResponse`, `ListenResponse`, `ListenRevoked`, `TokenRefused`, `onKill` | what the service sends |
| `Disconnect`, `RestoreState` | `onDisconnect` with `cancelSentTransactions`; `restoreState` |
| `requestCBHash`, `listenCBs` | requests with a callback, in the order the service will answer them |

A connection that is lost takes all requests with it, and the service has processed any prefix of
them: `Disconnect` chooses. A put is its number; `value` is the put whose data the service has.
`unackedListensCount` is an unsigned counter and wraps below zero. `reported` (what Auth has reported,
in order), `opened` (how many reports there were when the token of the last connection was asked for,
and when it came) and `mustRefresh` are history. A report and a fetch may overtake each other, and the
code then keeps the older credential: `TokenFollowsListener` states which one is in use in every case,
`LatestTokenUsed` that it is the newest, which is not so (Findings). `ConnectionExact` states what the source's assertions demand of a
connection; they are compiled out in a release build, so nothing but this keeps two connections apart.

### WriteTree and SyncTree

A path is a location ("users", which the search tab observes) or one of its children (a profile); a
node is a function from the children, and a value is the number of the write it comes from.

| TLA+ | code |
|---|---|
| `allWrites`, `visibleWrites` | `FWriteTree`, with `FCompoundWrite` as a root flag and one value per child |
| `Add`, `RemoveWriteId`, `RemoveAllWrites` | `addOverwriteAtPath`, `addMergeAtPath`, `removeWriteId` with `resetTree`, `removeAllWrites` |
| `view[p]` | `FViewCache`: event and server node, each with its "fully initialized" |
| `ServerOverwrite...`, `ServerMerge`, `User...`, `Ack...`, `Revert...`, `ListenComplete` | the operations of `FViewProcessor` |
| `AddObserver`, `RemoveObserver` | `addEventRegistration`, `removeEventRegistration` and the listens they start and stop |
| `UserWrite`, `TakeData`, `TakeMerge`, `TakeAck`, `TakeAnswer`, `Disconnect`, `Connect` | `FRepo` and the callbacks of the connection |
| `ServerTurn`, `OtherClientWrites` | the service, external: it answers requests in order, applies or rejects a write, tells of data before it acknowledges |
| `told`, `rows` | the last value event of an observer; the rows of `SearchTableViewController` |

`visibleWrites` is patched incrementally and rebuilt only when it must be; `VisibleWritesExact` compares
it with the definition. Views are updated by deltas in eight ways; `EventExact` compares each with the
server's data under the pending writes. A listen carries the hash of the data the view has, and the
service sends none when it matches: hashes are the nodes themselves. With `Races` FALSE the hash is
compared with what the client has when the service looks; this is an assumption about the service.
With `Races` TRUE, data of an earlier listen may still be on its way and the views may stay stale,
so the run `sync_tree` states convergence for the uses without races only.

`FWriteTree` has a case no code of ShareImage reaches, since it runs no transactions: hidden writes
(`Hidden`). Removals out of order (`InOrder` FALSE) are reached in `SyncTree` when a held acknowledgement
outlives its connection (see the findings); they do harm only to a client that overwrites both the
location and children of it, and ShareImage merges.

### DBImpl and DurableStore

A step is what runs while the mutex is held, or between its release and its next acquisition.

| TLA+ | code |
|---|---|
| `writers`, `leader` | `writers_` and where the writer at its front is in `Write`: making room, waiting, appending to the log, syncing, inserting, finishing |
| `scheduled`, `bg` | `background_compaction_scheduled_` and what the background thread is at: building the table of a memtable, merging, logging an edit, installing it |
| `compaction`, `pendingOutputs` | `CompactionState`: the inputs, what the finished outputs have, the outputs and the open one; `pending_outputs_` |
| `FlushFirst`, `FlushBetweenKeys`, `BuildTable`, `InstallMemTable` | `CompactMemTable`, at the start of `BackgroundCompaction` or between two keys of `DoCompactionWork` (906-918), while an output is open or none is, and whatever failed before |
| `PickCompaction`, `OpenOutput`, `FinishOutput`, `InstallCompactionResults`, `InstallCompaction` | the rest of a compaction: `DoCompactionWork` with its outputs one after the other, `CleanupCompaction`, `DeleteObsoleteFiles` |
| `MoveTable` | a trivial move |
| `WriteManifest`, `ManifestFails`, `damage` | `LogAndApply`, and what a failed one leaves at the end of the MANIFEST: nothing, the whole edit, or a piece of it. Behind a piece nothing is read any more, and what is appended may spoil the MANIFEST for `DB::Open` (`log::Reader::ReadRecord`; how is `WriteAheadLog`'s subject) |
| `logs`, `tables`, `manifests`, `current` | the files: of each log and manifest its records and how many the disk has for certain |
| `Call`, `FlushReturns`, `Get`, `GetEnds` | callers of `Write`, `TEST_CompactMemTable`, readers |
| `ProcessFails`, `MachineFails` | a crash |
| `Recover`, `ReplayLog` | `VersionSet::Recover`, and `RecoverLogFile` for one log after the other, lowest number first |
| `OpenLog`, `OpenManifest`, `SetCurrentFile`, `Opened` | the rest of `DB::Open`: the new log, the new MANIFEST, the name in CURRENT, and the deletion of what is obsolete. A crash may come between any two of them |
| `phase`, `unreplayed` | how far `Open` has come, and the logs it has yet to read |

`DurableStore` is what `options.h` promises: an acknowledged write outlives the process, a synced one
the machine. `AlwaysRecoverable` says the stronger thing that makes it true: at every step the files
that are there are enough. It speaks of what the files have; that `DB::Open` may refuse a MANIFEST which
has it is `OpensAgain`, below.

What makes the flush inside a compaction dangerous: it deletes obsolete files while outputs exist that no
version names (`pending_outputs_`, `db_impl.cc:233`); and when it fails, `DoCompactionWork` does not look,
so the compaction is logged and installed behind the failed edit, after the error was recorded.

Choices that are the environment's: how many writers join a group; which unsynced suffix is lost; whether
an operation fails. An append that fails leaves a log that can still be read up to there (how it can fail
otherwise is in `WriteAheadLog`). File names are created and removed in order and durably. Left
out: the delay of a millisecond near the limit of level 0. Which tables a compaction merges or a move
takes, and whether a flush goes to level 0, is a free choice here; what real ones pick, and the entries
they drop, is `VersionSet`'s subject. An output has no entries until it is finished. A compaction goes
down to the one level there is below level 0. A manifest with a larger number
may stay on the disk when recovery is cut short; nothing refers to it.

### VersionSet

Tables are sets of entries with a number, entries are internal keys. `PickCompaction`,
`SetupOtherInputs`, `AddBoundaryInputs`, `GetOverlappingInputs`, `IsBaseLevelForKey`,
`ShouldStopBefore`, `PickLevelForMemTableOutput` and `RecordReadSample`'s charge are operators of the same
meaning; the actions are a flush, a trivial move, the start and the end of a compaction, the rounds of
`CompactRange`, writes and snapshots. A compaction works on the version it started from while
flushes install others. Sizes are counted in entries; the number of levels, `kMaxMemCompactLevel` and
the limits are scaled down. Numbers of output tables are taken at the end; files, errors and crashes, also
those of a flush inside a compaction, are `DBImpl`'s.

### The memtable, iterators, tables and their cache

* `SkipList` has one step per load or store of a link. A new node is linked bottom up; a reader may stand
  anywhere. `OrderedSet` is the set it implements: an insert happens at once, and a search returns
  the right neighbour of its target at some moment of its call.
* `DBIter` is the iterator of a database over `MergingIterator`: it turns around, skips deleted and
  hidden entries, and stands between its two representations of "the current entry". Writers insert into
  the memtable between any two of its internal calls. Corrupt keys and read sampling are left out.
  What the tables and the memtable hold at first is any choice of entries of `UserKeys` up to `MaxSeq`.
* `Block` and `Table`: prefix-compressed keys with restart points and the binary search over them, index
  keys that are shortened separators, filters per range of the file, and the two-level iterator over
  blocks that may be unreadable. Keys are sequences of bytes of a small alphabet with its 0xff. A filter
  is the exact set of its keys or gives no answer; compression, checksums and the footer are abstracted.
* `LRUCache` is one shard with the threads of `TableCache`: reference counts, the two lists,
  eviction, for any capacity and charges. A slot may be handed out again once it is freed, so a stale
  handle would show. `OpenFilesBounded` is what `max_open_files` comes to: not the capacity and the
  threads, but the threads and the larger of the two. Tables inserted while every other entry is held
  exceed the capacity and stay when they are released, since only an insertion evicts; with four
  files, three threads and a capacity of 1, TLC finds five open files.
* `HandleTable` is the hash table below it, against a map, for a hash with collisions. It starts
  with one chain instead of four, so that it grows.

### The environment

* `WriteAheadLog` is the log in bytes of a scaled block: fragments, trailers, the writer's offset, the
  reader with resynchronisation and an initial offset, over files that were cut, damaged, failed to be
  written, and used again.
* `FileLocks`: `LockFile`, `UnlockFile` and `DestroyDB` against POSIX record locks, which belong to a process
  and fall with any descriptor of the file.
* `ReadLimits`: the two `Limiter`s, one step per atomic operation, through the life of each kind of file.
* `WorkQueue`: `Schedule` and the background thread with its condition variable.

`MCReadPath` and `MCEnvironment` gather several of these. Their parts share no state in
the code as modelled here; a behaviour is about one part and leaves the others as they began, so that
the state space is the sum of the parts. The clients of `MCCompaction` and the uses of `MCSyncTree` are
chosen in the same way.

## Runs

| Run | Instance | What it shows |
|---|---|---|
| `image_loading` | a cell and a header; a complete user, one whose URL does not parse, one whose `absoluteString` is another user's URL; two downloads | `CacheCoherent`, `SettledShowsAsked`, the promise of `AvatarSlots`, `LoadResolves` |
| `session` | two existing users, two free calls, three addresses | sign-up and the screens together: who is saved, registered and shown, `RegistrationSpec`, `SignUpEnds` |
| `connection` | two puts, one of a transaction; two listens of one query; three losses, two changes of credential | the client's assertions and counters, no put lost or doubled or undone, `WritesLeaveQueue` |
| `sync_tree` | a location with two children in six uses: racing connection, quiet, refused reads, writing, the write tree alone, and with hidden writes too | views, listens, events and rows are exact; a quiet client converges |
| `db` | two uses: up to three calls of every kind, a reader, an error and two crashes, four of them together; and four calls one at a time whose memtables are flushed inside a compaction. Memtables of one entry, level 0 full after two tables | durability at every step, order, snapshots, `DurableStore`, every call returns |
| `compaction` | two keys, four entries, four levels; clients that delete, hold a snapshot, or compact by hand | levels disjoint, newer above older, reads exact, every compaction descends |
| `read_path` | three keys and heights in the skip list; two entries of two keys and one more written under one iterator, three of three keys under another; four entries in a table of three user keys; three threads with a cache of capacity 2 for files that are charged 1, 2 and 3, and with one of 0; six keys in the hash table | each structure against its reference |
| `environment` | blocks of 6 bytes with records of 0 to 8; four threads in three processes, two of them in one and two that destroy; four files for one region and one descriptor; four works | each part against its reference |
| `avatar_finding`, `unwrap_finding`, `empty_finding`, `boundary_finding` | the smallest instances | the findings below |

Bounds, and why they suffice:

* `Requests`, `Calls`: downloads that may be unfinished at a time and calls that are ever made. Two
  downloads of a view are needed for the older one to end last; two calls let two attempts
  overlap, for one address or for two, while users exist whom a sign-in can succeed for at once. The queues
  are bounded by them; `tabs` by the number of calls.
* `MaxDrops` of three lets a put be sent on several connections, also after a refused token.
  The second listen of a query is what makes answers of a removed listen arrive for a new one.
  `MaxChanges` of two lets a credential be reported during a fetch, which loses it, and another after it.
* `MaxWrites`, `MaxListens`, `MaxRemote`: one write under another, an observer that leaves and comes
  back, a change of another client between a listen and its answer. Each use spends its bound where
  it is hard; together they would multiply.
* `Budget` of `db`: with three calls a group, a switch of memtables and a flush meet; with two crashes the
  second one cuts short the recovery of the first; what both need at once is left out. `Variety`: as long as
  fewer than three of the four are used, compactions and moves take any tables and flushes go to either
  level; later flushes go to level 0 and compactions take everything. Four calls, one after the other, are what
  it takes to have two tables merged while a third memtable becomes full (`Busy` of `MCDBImpl`): the
  compaction has outputs open or finished, `DeleteObsoleteFiles` runs, the nested flush may fail at
  each of its steps, the compaction is installed behind it, and a crash comes at any step of the nested flush
  or after its failure. A reader then, and more than one error or crash, are left to the proof.
* `BlockSize` 6 with headers of 3: a record of 0 fits a block's end, one of 1 leaves a trailer, 5 and
  8 need two and three fragments.
* `MaxSeq` of four and sizes of two entries make tables overlap at one key, which is where boundaries
  bite. Four levels let a compaction have grandparents.
* `read_path`: heights up to three, so that a search descends through levels that are only partly linked;
  interval 2, so that restart points and delta-coded keys alternate.

Deadlock is checked where the code never stops: in `image_loading` and `session`. The others stop when their
bounds are used up (`CHECK_DEADLOCK FALSE`, said in each).

### Fairness

`ImageLoading`: a download ends (`URLSession` times a request out after 60 seconds) and its handler gets
its turn on the delegate queue, which is serial and first-in first-out, however many handlers run
before it: strong fairness of `CompleteRequest`, because a running handler disables it again
and again. A handler that runs ends, and the main queue is drained: weak fairness of `EndStore` and
`RunBlock`. Scrolling and database events have no fairness.

`SignUp` and `Session`: Auth and Storage time requests out and report an error (Storage's tasks keep
themselves alive until then, because the block they are started from refers to `self`), and the main queue
is drained: weak fairness of each attempt's `Progress`. For the last step, the database write, this
assumes that the connection comes back; the SDK waits for it without a limit. Buttons, crashes,
`StoreBlob` and `ApplyWrite` have no fairness.

`PersistentConnection`: the blocks of its queue run (`RetryFires`), Auth answers (`TokenFetched`), the
network opens what it is asked to open (`OnReady`), the service answers what it is asked
(`AuthAccepted`, `PutResponse`, `ListenResponse`), and `FRepo` opens the connection when it is made
(`Resume` of `waiting_for_open`). Losses are bounded; coming online again after `goOffline` or the
server's kill is the application's choice, so `WritesLeaveQueue` is stated for behaviours in which
nothing interrupts from some point on.

`DBImpl`: threads that can run do run (`Leader`, `Background`, `FlushReturns`), and a database that was
lost is opened again (`Open`).

## Proofs

Checked by TLAPS for every value of the constants that satisfies the named assumptions of the modules
(markers are outside the sets they stand beside, earlier accounts have different addresses, keys lie
below the null link). Two of them assume a set to be finite: `ReadLimits` that of the files, and `SyncTree`
that of the children, since both count.

* `ImageLoading_proofs`: `Spec => []IInv`. `TypeOK`, `CacheCoherent` and `PendingWasAsked` are
  needed for each other: a block may put a picture into a view because it carries what a handler
  decoded, which is the key of a load that the view asked for, and `wanted` does not forget a URL
  while a load of the view is unfinished. `SettledShowsAsked` then follows, as the last load to
  end is the one that matters. From the invariant: `TypeCorrect`, `CacheIsCoherent`,
  `SettledViewsShowAsked`, and `Refinement`, that every step maps to a step of `AvatarSlots` or a stutter.
* `Session_proofs`, in two parts. Of `SignUp`: `Spec => []IInv`. `NoDanglingProfile` is not inductive. What carries it is
  `CallsConsistent`: from the moment its account exists, an attempt works with that account
  (`uid[c] = c` and the address is registered to `c`), and it is past `putData` only when its
  photo is stored. From the invariant: `ProfilesNeverDangle`, `SignedInUsersAreSaved`, and
  `Refinement` of `Registration`; steps that only end attempts are gathered in the lemma
  `EndingAttempts`.

  Of `Session`: first `SessionImplementsSignUp`, that a step of the screens is a step of `SignUp` or
  leaves it alone, so that `IInv` holds behind the screens without being proved again
  (`SessionIsSafe`). Then `[]ScreensInv`: the form's flag implies a picture; the user of the header is one
  who was current since the tabs were built; nothing is on its way while the application is down; and
  when a completion without an error waits while nobody is signed in, the user was signed out by force.
  The last one is what makes `SignedInBehindLogin` inductive: the login screen goes away when the completion
  runs, not when the user becomes current. From it: `HeadersFollowTheUser`, `LoginHolds`,
  `PlaceholderStays`, `SessionTypeCorrect`.
* `ReadPath_proofs`, in three parts:
  - `SkipList`: `Spec => []Inv` (`SkipListInvariant`) for every number of keys, levels and readers.
    `WellLinked` (every level is sorted, ends, and is part of the one below) is inductive only with
    `WriterOK`: the predecessors that `Insert` found on each level are still neighbours there, because
    there is one writer. `SearchBehind` says that a search stands on a linked node before its
    target. `SkipListImplementsSet`: the store that links a node on level 0 is the insertion, and the
    last load of a search is the read; every other step stutters.
  - `DBIter`: `IterSpec => []IterInv` (`IterInvariant`) for every set of keys and tables, any entries and any
    snapshot. `IteratorExact`, that each call shows the neighbouring key of the snapshot with its
    newest value, says nothing of the middle of a call. Everything is therefore said of the entries that the
    snapshot sees, which no write changes: which of them the internal iterator has before it (`Left`); that
    none of the loops of a call has passed the entry it looks for, neither the one that skips forward nor
    the one that collects the newest value backward nor the one that turns (`NextLoop`, `PrevLoop`,
    `BackLoop`); and where an iterator rests between two calls, on the entry it shows or before all
    of its key (`ShowsForward`, `ShowsBackward`). From it: `AlwaysIteratorExact`.
  - `LRUCache`: `CacheSpec => []CacheInv` (`CacheInvariant`) for any files, threads, capacity, charges
    and memory. `Sound` relates a shard to the references its clients hold, whatever these are; each call of
    the code takes a sound shard to one that is sound for what its caller then holds (`RefSound`,
    `UnrefSound`, `ErasedSound`, `EvictSound`, `InsertedSound`). `CacheInv` is `Sound` for the handles of
    the threads, and that there are no more entries than the capacity or the threads: an insertion ends with
    entries that fit or that are all held, and no other call adds one. The total charge is a fold and
    the eviction a recursive function, so what one more entry adds and what each round takes out is
    proved by least counterexample. From it: `AlwaysCacheExact`.
* `PersistentConnection_proofs`: one invariant per question, each resting on those before it, since
  every step is a step of one client and few questions share variables.
  `AttemptInv` (`AlwaysOneAttempt`): a fetch under way is one the client waits for or gave up, and
  answers to listens only come on a connection.
  `TokenInv` (`AlwaysFollowsListener`): from the moment a connection is opened, not only once it is up,
  its token is the last one Auth reported, if it reported any since the token of the connection came,
  and else the one of the report its fetch was made at; that such a report exists is `AttemptInv`.
  `WritesInv` (`AlwaysDurable`): of the requests the service has yet to answer, those that are puts stand in
  the order of their issue, and behind every put the service has confirmed, whose completion may
  have been held back or lost; a connected client has sent all that is outstanding, and one that
  authenticates nothing but `auth`. That is why sending again what is outstanding never undoes a
  confirmed put, although the service may have applied an unconfirmed one before.
  `PutsInv` (`AlwaysConserved`): answered puts, and only those, are in `putsToAck` or completed, each in one
  place and once. It uses `WritesInv`: an answered put was outstanding until then.
  `CountInv` (`AlwaysExact`, with all of the above): `unackedListensCount` is the number of requests
  for a listen that have no answer, which is the cardinality of a set of pairs; a loss empties both.
* `SyncTree_proofs`: `Spec => []Inv` (`SyncInvariant`), for any finite set of children, all the forms of
  writes, any rules of the server and any bounds. `Inv` has two halves, and neither is inductive alone.
  - `ListenInv`: the types, `ListensCover`, and `Good` of the tree: write ids rise in `allWrites`, a view
    that is off is nothing, and the observers were told what the views show. The types carry what the
    operations of `FViewProcessor` rely on, such as that an overwrite of the location has every child.
  - `NetInv`, what the client may expect of the connection: `unackedListensCount` is the number of
    listens and answers on their way (`Counted`); every view that is not full has its listen or the
    answer to it on its way (`Sourced`); the pending writes are those whose answer is held, then
    the outstanding puts (`Queued`); and every outstanding put is a request, or its answer a message on the
    way, in the order of the ids (`InFlight`). `Queued` and `InFlight` make the next answer that of
    the oldest outstanding put. `HeldAlone` is the exception that a lost connection makes: answers may stay held
    with no listen to wait for, but then nothing is listened to, so that no answer to a listen finds
    them.

  From it: `ViewsAreCovered` (`ListensCover`), `ValuesAreTold` (`ValueTold`), `RowsAreAdded`
  (`RowsCoverUsers`), `SyncTyped`. `ViewsAreExact` (`ViewsExact`) adds `TreeExact`: the cached visible
  writes are, child by child, what the last of `allWrites` says of it (`Layered`), and each view shows
  them over what it has from the server (`Shows`). It assumes `Timely`: all writes are of the location,
  as whole nodes or merges, as ShareImage's are, or no connection is lost. Without it the property is
  false (see the findings). For each of the ways in which a view is updated there is a lemma
  that it shows what it should (`...Shows`), and one that holds even when it showed something else
  (`...Goes`). The layers of a sequence of writes, and the answers applied one after the other, are recursive
  functions: what they amount to is proved by least counterexample, from the well-foundedness of the numbers.

  `QuietClientsConverge` is `Converged`: with nothing on its way, no write is pending and every view is
  complete and shows the server's data. The invariant behind it (`Quiet`) follows one piece of data from the
  server to a view, through all that may be on its way at the same time:
  - Every listen is asked for once; the request comes after any `unlisten` of its path, or it has been
    answered, and then the server refused it or serves the path (`Singly`, `Decided`).
  - Once the server has taken the listen that feeds a view, the messages on their way bring each child of the
    view from what it has to what the server has (`Due`). Messages are judged one child at a time: the last
    one that says anything of the child decides, or none does and the view is up to date (`Brings`).
  - A view that has no data yet ignores merges (`applyServerMerge`), so for the view of the location none may
    come before the data or the answer that completes it (`Readied`).
  - While a listen of the location is on its way, the views of the children below it live on their old
    listens, whose `unlisten` is behind it in the queue (`Passed`). This is the part that
    makes `Due` inductive when the location is observed above views that are there already.

  It has four hypotheses. `MaxDrops = 0`, `~Late` (no observer is added below an unanswered listen) and
  `~Races` (a hash is not out of date when the server compares it) are conditions under which TLC checks
  `QuietConverges` too. Without `~Late` the property is false (`empty_finding`), and without `MaxDrops = 0` as well
  (the table below). That the server's rules let the client read everything, or not the
  location (`Root \in Denied \/ Denied = {}`), is how rules of this service work: a right to read
  a location holds for everything below it. Each part of `Quiet` was checked by TLC before it was proved.
* `DBImpl_proofs`: `Spec => []Inv`, for every number of calls, size of the memtable, trigger, error and
  crash. `AlwaysRecoverable` is about what is on the disk and is not inductive. Its invariant has four parts:
  - `DiskInv`, at all times: of every prefix of the MANIFEST that may survive, the tables are there,
    with older numbers than the prefix allocates; each of these prefixes finds the *same*
    entries in its tables and logs, since an edit that adds a table drops the logs it was made of, and a
    compaction changes no contents; and each finds what was synced in what is durable of its logs.
  - `OpenInv`, of a database that is open: the group that is written is the front of the queue with the
    next sequence numbers (`QueueInv`) and everything else on the disk comes before it (`FreshInv`); `imm_`
    is what the logs between `logNumber` and the present one have, and `mem` is what the present one
    has but for the group on its way, unless an error has stopped the writers for good (`LogInv`);
    what was acknowledged is what readers find up to the last sequence (`ReadInv`); the MANIFEST amounts to
    the version, or has the one edit more that the background thread logged and has not installed, and
    after a failure it is at least not behind the logs that were dropped (`VersionInv`); the edit, while it
    waits, adds tables with what it deletes, and `imm_` besides (`ThreadInv`); while a compaction runs,
    its inputs are in the version, its outputs are pending, neither the version nor any prefix of the MANIFEST
    names one of them, and those that are finished have what was merged (`CompactionInv`); a reader's
    tables are there and no new table takes the number of one (`ReaderInv`).
  - `Lost`, of one that is closed: nothing is in memory.
  - `Replayed` and `Opening`, of one that is being opened: the version has what the MANIFEST and the logs
    replayed so far have; the new log is empty, the new MANIFEST, once written, is a snapshot of
    the version, and CURRENT still names the old one until it does not.

  Most of the module is what the steps do to prefixes (lemmas on `SubSeq`, `Append` and `Remaining`), and
  one lemma per step. From the invariant: `AlwaysExact` (`TypeOK`, `AlwaysRecoverable` and
  `SequenceOrder`), `AlwaysSnapshot`, and `Implements`, that every step is one of `DurableStore` or a
  stutter: `FinishGroup` and `Opened` acknowledge, a crash of the machine may take back what was not synced,
  and everything else shows nothing.
* `VersionSet_proofs`: `LevelInv` is inductive, for any numbers of keys, writes, levels and snapshots and any
  limits. `LevelsExact` and `NewerFirst` are not, not even together: a compaction installs its outputs in a
  version that is not the one it started from. What carries them is `CompactionOK`, about the `Inputs` of a
  compaction that runs:
  - What stays in its upper level is newer than the inputs (`Severed`), and what stays in its lower level
    lies aside of all of them. `SetupOtherInputs` and `AddBoundaryInputs` see to it, whether the inputs are
    expanded or not; on level 0 `GetOverlappingInputs` goes around again until nothing overlaps.
  - The inputs leave no gap: a range of user keys that meets none of them lies on one side of all
    (`Connected`). So a flush cannot place a table where the outputs will be: `PickLevelForMemTableOutput` goes
    down only past levels without an overlap, and the new table is beside all inputs or above them.

  `NewerFirst` is restated table by table (`TablesNewer`), and the rest are types and numbers. The rounds
  of `GetOverlappingInputs` and `AddBoundaryInputs` are least closed sets in the module, so each fact about
  them is that some set is closed. Where the outputs are cut is a choice that depends on the entries before;
  that it can be made at all (`CutExists`) is proved by least counterexample. From it: `AlwaysLevelsExact`, `AlwaysNewerFirst`, and
  `AlwaysReadsSnapshot` with `NothingLost`, that the newest entry of a key for each snapshot is stored
  somewhere. There are two hypotheses, and neither can go:
  - `[]GaplessRounds`: when a manual compaction has a round to start, no user key lies inside of its
    range or its inputs are `Connected`. A range of a client may leave a gap, and the levels
    then overlap (see the findings). It is said of rounds and not of ranges, since a round may be wider
    than the range: after one on level 0 the next begins at the largest key of the last table, which
    need not be near the end. TLC finds that it holds in `compaction`, whose client compacts single keys,
    and that `manual.end <= manual.begin` does not. Without manual compactions it holds by itself
    (`AutomaticCompactionsSafe`); ShareImage's databases ask for none.
  - `Deletes = FALSE`, for `AlwaysReadsSnapshot` alone: with deletions the property is false
    (`boundary_finding`).

  Before the proof, TLC has checked each part of `LevelInv`, `NothingLost` for the clients that do not
  delete, and `GaplessRounds` as invariants of the run `compaction`.
* `Environment_proofs`, in three parts:
  - `FileLocks` (`LocksInvariant`): a thread between its insertion into the table of locked files and
    its removal has its process listed, and no other thread of the process is there (`OneListed`).
    `AlwaysOneHolder` and `NoLockEverLeaks` follow. `ProcessesExclude` (`OneProcess`): a thread that is the
    only one of its process (`Alone`) and holds the lock has the record lock of its file (`HoldersOwn`), as
    nobody else in its process closes a descriptor of it; so two such threads never hold the lock of one
    file, whatever threads of other processes do, `DestroyDB` included. `OneCallerHolds` is that only one
    caller at all has the database, when every thread is alone and none destroys, so that every
    descriptor is of the one file with the name (`OneFile`). The findings below show that it needs both.
  - `ReadLimits` (`LimitsInvariant`): each counter is its limit less the number of calls that have taken one
    and not given it back (`CountersExact`), transient decrements included; what a step does to
    the sets that are counted is a lemma on cardinalities. `AlwaysWithinLimits`: a call that holds a
    resource saw a positive counter before its decrement.
  - `WorkQueue` (`QueueInvariant`): what was scheduled is what is finished, running and queued, in this
    order (`AlwaysInOrder`); and a waiting thread has an empty queue, since `Schedule` signals before
    it releases the mutex (`AlwaysAwake`).

Model-checked only: liveness (`LoadResolves`, `SignUpEnds`, `WritesLeaveQueue`, `CallsReturn`), which is
out of the prover's reach; what is computed by recursion over data (`Block`, `Table`), as the library's
induction theorems cannot be instantiated here; that a compaction brings the data nearer to the last
level (`Descends`), whose measure is a sum over folded sizes; hidden writes; `HandleTable`, whose chains are
searched recursively; and `WriteAheadLog`.

## Findings

With a run of their own:

* `avatar_finding`: `loadImage` sets the image of the view it was called on when the download answers,
  without looking whether the cell has been recycled since. When the older of two downloads
  answers last, the cell shows another user's avatar beside the name, and keeps it
  (`SearchUserCell.swift:25` calls it the user's avatar).
* `unwrap_finding`: `currentUid!` (`UserProfileCollectionViewController.swift:55`) asserts that somebody
  is signed in. `FIRUser` signs a user out by force when a token refresh finds the token void
  (`FIRUser.m:1476-1485`); no listener of the application notices, and the next header traps.
* `empty_finding`: an observer of a child added while the listen above it is unanswered begins with an empty
  cache (`FSyncTree.m:542`). When the data matches the hash, the service sends none, and
  `applyListenCompleteAtPath` declares the empty cache complete: the observer is told that there is
  nothing, although `FIRDatabaseQuery.h:45-47` promises the initial data.
* `boundary_finding`: `SetupOtherInputs` (`version_set.cc:1410`) adds boundary files to the inputs of a level
  but not to those of the next one. A deletion may be dropped while an older value of its key
  stays in a table beside the inputs, and reads find it again (`db.h:69`: "Remove the database entry").

Further disagreements met on the way. Each is a formula of its module that TLC finds violated with the
constants given; they have no run of their own:

| Formula | Where | Instance | What happens |
|---|---|---|---|
| `SignUp!CreatedHasProfile` | `SignUpViewController.swift:167` | one earlier account, one call, two addresses | "Пользователь создан!" (user created) is printed without a look at the error; the database may have rejected the profile, and the account never gets one |
| `PersistentConnection!ConfirmedCompletes` | `FPersistentConnection.m:698` | `FairSpec`; one put, one listen, `MaxDrops` 1, no changes | a put that is answered while a listen is not waits in `putsToAck`; when the connection is lost and the listen removed, nothing calls its block (`FIRDatabaseReference.h:205-206`) |
| `PersistentConnection!RefreshedBeforeConnecting` | `FPersistentConnection.m:451` | three puts, two listens, `MaxDrops` 2, one change | `tryScheduleReconnect` clears `forceAuthTokenRefresh` before the token is fetched; when that fetch fails, the next one may bring back the refused token (comment at 625-627) |
| `PersistentConnection!LatestTokenUsed` | `FPersistentConnection.m:510` | the instance of `connection` | the user signs in while a token is fetched for nobody: `refreshAuthToken` stores the new credential, the answer of the fetch replaces it, and the connection stays unauthenticated until the next report |
| `WriteTree!OnlyPendingShown` | `FWriteTree.m:502` | `WriteSpec`, `Hidden` TRUE, three writes | `defaultFilter` keeps every record, so a rebuilt tree shows hidden writes ("Keep everything that's visible", 494-495) |
| `WriteTree!VisibleWritesExact` | `FWriteTree.m:164` | `WriteSpec`, `InOrder` FALSE, three writes | a child's write removed before an earlier write of the root stays in the root's node, and the root's own value is not put back |
| `WriteTree!VisibleWritesExact` | `FPersistentConnection.m:690`, `FWriteTree.m:164` | `SyncTree!Spec`, two children, forms `{"set", "setChild"}`, two writes, one listen, `MaxDrops` 1, `MaxRemote` 0, `Late` and `Races` FALSE | an acknowledgement is held for a listen; the connection is lost and the listen removed; on the next connection nothing is listened to, so the next acknowledgement is applied at once, before the held one: a child's write is removed before the earlier write of the location, whose node keeps its value (`FWriteTree.m:32`: "the results of applying all visible writes") |
| `SyncTree!Converged` | `FViewProcessor.m:594` | `Spec`, two children, forms `{"merge", "remove"}`, `MaxWrites` 0, three listens, `MaxRemote` 2, `MaxDrops` 1, `Denied` empty, `Late` and `Races` FALSE | the location is no longer observed and then observed again, with a child's view throughout, while a merge is on its way; the location's new view ignores it ("wait for the complete data update coming soon", 592-593), the child's takes it; the connection is lost, and another client removes the child; the next listen is of the location alone, whose empty hash matches, so no data comes and the child's view keeps a value that is gone (`FIRDatabaseQuery.h:45-47`) |
| `DBImpl!FlushFlushes` | `db_impl.cc:1284` | four calls, `BufferSize` 4, triggers 2, no errors, no crashes | a null batch joins another writer's group, and nothing is flushed ("Force current memtable contents to be compacted", `db_impl.h:56`) |
| `DBImpl!OpensAgain` | `db_impl.cc:912`, `version_set.cc:849` | the instance of `db` | a flush in the middle of a compaction fails to log its edit and leaves a piece of the record; the compaction goes on and logs its own edit behind it; the process crashes, and `DB::Open` finds the MANIFEST corrupt ("if it is just the process that crashes ... no writes will be lost even if sync==false", `options.h:174-176`) |
| `VersionSet!DisjointLevels` | `version_set.cc:747` | three keys, five entries, `Ranges` with `<<1, 3>>`, three levels, `L0Trigger` 3, `MaxMemCompactLevel` 1, `LevelLimit` 4, `ExpandLimit` 5 | a manual compaction whose inputs leave a gap; a memtable flushed meanwhile is placed into the gap; the output spans it ("Must not overlap"). A round can be wider than the client's range: after one on level 0, `begin` is the largest key of the last file (`db_impl.cc:762`), which may lie before the range |
| `WriteAheadLog!SyncedSurvives` | `log_writer.cc:106` | sizes 0, 1, 3, three records, a failure, a crash, `ReuseLogs` FALSE | after a failed append `block_offset_` is ahead of the file; a later synced record lies across the reader's blocks |
| `WriteAheadLog!SyncedSurvives` | `db_impl.cc:466` | the same sizes and records, two crashes, no failure, `ReuseLogs` TRUE | a reused log is appended to behind its torn last record, which swallows a synced one |
| `FileLocks!OneHolder` | `env_posix.cc:627` | two threads in one process and one in another, no destroyers, one inode | a second `LockFile` in a process closes its descriptor, and the first holder's record lock falls with it |
| `FileLocks!OneHolder` | `db_impl.cc:1544` | three processes of one thread, one of them destroying, two inodes | `DestroyDB` unlocks the file before it deletes it; a lock taken in between is on a file without a name |
| `ReadLimits!RefusedOnlyWhenFull` | `env_posix.cc:77` | four files, one region, one descriptor | a refused call has taken one from the counter and not yet given it back; another one is refused although a resource is free ("If another resource is available, acquire it", 73-74) |

## Not modelled

* Layout, colours, texts, the stubs of three tabs, and the form of the login screen.
* What Firebase offers and ShareImage does not use: other sign-in providers, multi-factor,
  transactions, onDisconnect operations, server values, filtered queries, listing and downloading from
  Storage. ShareImage never switches database persistence on, so `FPersistenceManager` and the
  engine that keeps it in LevelDB do not run.
* Auth's token service, beyond the forced sign-out and the fetch that the connection asks for.
* LevelDB's repair, dump and C interface, which nothing here calls; compression, checksums, the arena,
  the encoding of edits, and the thin wrappers of system calls.
* Transport, encoding (nanopb) and diagnostics libraries: third-party code without state that ShareImage
  relies on.

## Plan

Done: everything under "Modules". What would add most next:

1. `Converged` of a client whose connection is lost and whose hashes race with data on their way: what the
   service has to promise of its answers for it to hold.
2. Auth's token service, composed with the forced sign-out of `Auth` and the fetch of
   `PersistentConnection`.
