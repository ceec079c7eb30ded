---------------------------- MODULE ImageLoading ----------------------------
(***************************************************************************)
(* The avatars of ShareImage: the didSet observers of SearchUserCell and   *)
(* UserProfileHeader, UIImageView.loadImage(with:) and the process-wide    *)
(* imageCache.                                                             *)
(*                                                                         *)
(* Three agents interleave.  The main thread assigns users to views and    *)
(* runs the blocks of the main queue, one at a time.  The network ends the *)
(* downloads in any order.  The completion handlers run on the delegate    *)
(* queue of URLSession.shared, one at a time, and write imageCache there   *)
(* while the main thread may be reading it: nothing orders the two.        *)
(*                                                                         *)
(* A picture is named by the URL it was downloaded from.                   *)
(***************************************************************************)
EXTENDS Naturals, Sequences

CONSTANTS Cells,            \* the SearchUserCells the search table recycles
          Headers,          \* the UserProfileHeaders
          Users,            \* decoded User objects
          Named,            \* the users with both a username and a name
          ProfileImageUrl,  \* ProfileImageUrl[u]: the URL string of u, or NoUrl
          Urls,             \* URL strings
          AbsoluteString,   \* AbsoluteString[s]: absoluteString of URL(string: s), or NoUrl
          Requests,         \* bound: downloads that may be unfinished at a time
          NoUrl, NoUser, NoImage

Views == Cells \cup Headers

ASSUME ViewsAssumption == Cells \cap Headers = {}
ASSUME UsersAssumption == Named \subseteq Users /\ NoUser \notin Users
ASSUME UrlsAssumption ==
    /\ NoUrl \notin Urls /\ NoImage \notin Urls
    /\ ProfileImageUrl \in [Users -> Urls \cup {NoUrl}]
    /\ AbsoluteString \in [Urls -> Urls \cup {NoUrl}]

VARIABLES
    user,        \* user[v]: the user property of the view
    text,        \* text[v]: whose name its labels show
    shown,       \* shown[v]: profileImageView.image
    imageCache,  \* imageCache[k]: the cached picture, NoImage when absent
    loads,       \* data tasks that have no answer yet
    storing,     \* the completion handler that is inside its write of imageCache
    mainQueue,   \* the blocks queued with DispatchQueue.main.async
    crashed,     \* the process died in a torn read of imageCache
    \* History: no code reads these two.
    wanted,      \* wanted[v]: URLs v asked for since no load of v was unfinished
    failed       \* views with a load in wanted that brought no picture

vars == <<user, text, shown, imageCache, loads, storing, mainQueue, crashed, wanted, failed>>

-----------------------------------------------------------------------------
Images == Urls \cup {NoImage}
Load   == [request : Requests, view : Views, key : Urls]
Store  == [request : Requests, view : Views, key : Urls, image : Images]
Block  == [request : Requests, view : Views, image : Images]

Blocks == {mainQueue[i] : i \in DOMAIN mainQueue}

\* No load of v is unfinished.
Quiet(v) == \A w \in loads \cup storing \cup Blocks : w.view # v

Unused == {r \in Requests : \A w \in loads \cup storing \cup Blocks : w.request # r}

-----------------------------------------------------------------------------
Init == /\ user = [v \in Views |-> NoUser]
        /\ text = [v \in Views |-> NoUser]
        /\ shown = [v \in Views |-> NoImage]
        /\ imageCache = [k \in Urls |-> NoImage]
        /\ loads = {}
        /\ storing = {}
        /\ mainQueue = <<>>
        /\ crashed = FALSE
        /\ wanted = [v \in Views |-> {}]
        /\ failed = {}

\* The guards of didSet: a cell needs all three fields, a header only the URL.
LoadsAvatar(v, u) == /\ ProfileImageUrl[u] # NoUrl
                     /\ v \in Cells => u \in Named

\* The picture at the URL of u; no picture is named NoUrl.
AvatarOf(u) == IF ProfileImageUrl[u] = NoUrl THEN NoUrl ELSE AbsoluteString[ProfileImageUrl[u]]

\* didSet up to the call of loadImage: a header sets its label before the guard,
\* a cell sets its labels only when the guards let it through.
SetUser(v, u) ==
    /\ ~crashed
    /\ user' = [user EXCEPT ![v] = u]
    /\ text' = IF v \in Headers \/ LoadsAvatar(v, u) THEN [text EXCEPT ![v] = u] ELSE text

\* What reading imageCache[k] may return: while a handler writes the dictionary,
\* also the value being written and a spurious miss.
CacheRead(k) ==
    {imageCache[k]} \cup (IF storing = {} THEN {} ELSE {NoImage})
                    \cup {s.image : s \in {w \in storing : w.key = k}}

Want(v, k) == /\ wanted' = [wanted EXCEPT ![v] = IF Quiet(v) THEN {k} ELSE @ \cup {k}]
              /\ failed' = IF Quiet(v) THEN failed \ {v} ELSE failed

-----------------------------------------------------------------------------
(***************************************************************************)
(* Main thread.                                                            *)
(***************************************************************************)

\* A guard of didSet returns: image, and a cell's labels, stay what they were.
AssignIncomplete(v, u) ==
    /\ ~LoadsAvatar(v, u)
    /\ SetUser(v, u)
    /\ UNCHANGED <<shown, imageCache, loads, storing, mainQueue, crashed, wanted, failed>>

\* loadImage finds the picture in imageCache.
AssignHit(v, u) ==
    /\ LoadsAvatar(v, u)
    /\ SetUser(v, u)
    /\ \E image \in CacheRead(ProfileImageUrl[u]) \ {NoImage} :
           shown' = [shown EXCEPT ![v] = image]
    /\ Want(v, ProfileImageUrl[u])
    /\ UNCHANGED <<imageCache, loads, storing, mainQueue, crashed>>

\* loadImage misses and URL(string:) gives nil.
AssignBadUrl(v, u) ==
    /\ LoadsAvatar(v, u)
    /\ SetUser(v, u)
    /\ NoImage \in CacheRead(ProfileImageUrl[u])
    /\ AbsoluteString[ProfileImageUrl[u]] = NoUrl
    /\ UNCHANGED <<shown, imageCache, loads, storing, mainQueue, crashed, wanted, failed>>

\* loadImage misses and resumes a data task; the view keeps its old image.
AssignMiss(v, u) ==
    LET key == AbsoluteString[ProfileImageUrl[u]] IN
    /\ LoadsAvatar(v, u)
    /\ SetUser(v, u)
    /\ NoImage \in CacheRead(ProfileImageUrl[u])
    /\ key # NoUrl
    /\ \E r \in Unused : loads' = loads \cup {[request |-> r, view |-> v, key |-> key]}
    /\ Want(v, key)
    /\ UNCHANGED <<shown, imageCache, storing, mainQueue, crashed>>

\* The read of imageCache overlaps a write and the dictionary's storage is gone.
AssignTorn(v, u) ==
    /\ LoadsAvatar(v, u)
    /\ ~crashed
    /\ storing # {}
    /\ crashed' = TRUE
    /\ UNCHANGED <<user, text, shown, imageCache, loads, storing, mainQueue, wanted, failed>>

\* Mutant: the block takes the picture of the view's present user from the cache.
RunBlockFromCache ==
    /\ ~crashed
    /\ mainQueue # <<>>
    /\ LET view == Head(mainQueue).view
           url  == ProfileImageUrl[user[view]]
       IN shown' = [shown EXCEPT ![view] = IF url = NoUrl THEN @ ELSE imageCache[url]]
    /\ mainQueue' = Tail(mainQueue)
    /\ UNCHANGED <<user, text, imageCache, loads, storing, crashed, wanted, failed>>

\* The main queue runs its oldest block: self.image = photoImage.
RunBlock ==
    /\ ~crashed
    /\ mainQueue # <<>>
    /\ shown' = [shown EXCEPT ![Head(mainQueue).view] = Head(mainQueue).image]
    /\ mainQueue' = Tail(mainQueue)
    /\ UNCHANGED <<user, text, imageCache, loads, storing, crashed, wanted, failed>>

-----------------------------------------------------------------------------
(***************************************************************************)
(* Delegate queue: it is serial, a handler starts when none is running.    *)
(***************************************************************************)

\* The task ended without data: the error is printed and the handler returns.
NoData(l) ==
    /\ ~crashed
    /\ l \in loads
    /\ storing = {}
    /\ loads' = loads \ {l}
    /\ failed' = failed \cup {l.view}
    /\ UNCHANGED <<user, text, shown, imageCache, storing, mainQueue, crashed, wanted>>

\* Data arrived: UIImage(data:) decodes it, or gives nil when it is no picture
\* (an HTTP error is answered with data, too).  The write of the cache begins.
BeginStore(l) ==
    /\ ~crashed
    /\ l \in loads
    /\ storing = {}
    /\ loads' = loads \ {l}
    /\ \E image \in {l.key, NoImage} :
           storing' = {[request |-> l.request, view |-> l.view, key |-> l.key, image |-> image]}
    /\ UNCHANGED <<user, text, shown, imageCache, mainQueue, crashed, wanted, failed>>

\* Mutant: the picture is cached under the URL of the view's present user.
EndStoreUnderViewUrl ==
    /\ ~crashed
    /\ \E s \in storing :
          /\ storing' = storing \ {s}
          /\ imageCache' = [imageCache EXCEPT ![ProfileImageUrl[user[s.view]]] = s.image]
          /\ mainQueue' = Append(mainQueue,
                                 [request |-> s.request, view |-> s.view, image |-> s.image])
          /\ failed' = IF s.image = NoImage THEN failed \cup {s.view} ELSE failed
    /\ UNCHANGED <<user, text, shown, loads, crashed, wanted>>

\* Mutant: a handler that finds its picture cached already returns early.
EndStoreOnce ==
    /\ ~crashed
    /\ \E s \in storing :
          /\ storing' = storing \ {s}
          /\ imageCache' = [imageCache EXCEPT ![s.key] = s.image]
          /\ mainQueue' = IF imageCache[s.key] # NoImage THEN mainQueue
                          ELSE Append(mainQueue, [request |-> s.request, view |-> s.view,
                                                  image |-> s.image])
          /\ failed' = IF s.image = NoImage THEN failed \cup {s.view} ELSE failed
    /\ UNCHANGED <<user, text, shown, loads, crashed, wanted>>

\* The write ends (assigning nil removes the entry) and the block is queued.
EndStore ==
    /\ ~crashed
    /\ \E s \in storing :
          /\ storing' = storing \ {s}
          /\ imageCache' = [imageCache EXCEPT ![s.key] = s.image]
          /\ mainQueue' = Append(mainQueue,
                                 [request |-> s.request, view |-> s.view, image |-> s.image])
          /\ failed' = IF s.image = NoImage THEN failed \cup {s.view} ELSE failed
    /\ UNCHANGED <<user, text, shown, loads, crashed, wanted>>

\* The next process starts with an empty cache and new views.
Relaunch ==
    /\ crashed
    /\ user' = [v \in Views |-> NoUser]
    /\ text' = [v \in Views |-> NoUser]
    /\ shown' = [v \in Views |-> NoImage]
    /\ imageCache' = [k \in Urls |-> NoImage]
    /\ loads' = {}
    /\ storing' = {}
    /\ mainQueue' = <<>>
    /\ crashed' = FALSE
    /\ wanted' = [v \in Views |-> {}]
    /\ failed' = {}

-----------------------------------------------------------------------------
Assign(v, u) == \/ AssignIncomplete(v, u)
                \/ AssignHit(v, u)
                \/ AssignBadUrl(v, u)
                \/ AssignMiss(v, u)
                \/ AssignTorn(v, u)

Complete(l) == NoData(l) \/ BeginStore(l)

Next == \/ \E v \in Views, u \in Users : Assign(v, u)
        \/ RunBlock
        \/ \E l \in loads : Complete(l)
        \/ EndStore
        \/ Relaunch

\* Every task is answered (URLSession times a request out) and its handler gets
\* its turn on the FIFO delegate queue however often others run before it: SF.
\* A running handler ends and the main queue is drained: WF.  Assignments come
\* from the user's scrolling and from database events: no fairness.
CompleteRequest(r) == \E l \in loads : l.request = r /\ Complete(l)

Fairness == /\ \A r \in Requests : SF_vars(CompleteRequest(r))
            /\ WF_vars(EndStore)
            /\ WF_vars(RunBlock)

Spec == Init /\ [][Next]_vars

FairSpec == Spec /\ Fairness

-----------------------------------------------------------------------------
TypeOK == /\ user \in [Views -> Users \cup {NoUser}]
          /\ text \in [Views -> Users \cup {NoUser}]
          /\ shown \in [Views -> Images]
          /\ imageCache \in [Urls -> Images]
          /\ loads \subseteq Load
          /\ storing \subseteq Store
          /\ mainQueue \in Seq(Block)
          /\ crashed \in BOOLEAN
          /\ wanted \in [Views -> SUBSET Urls]
          /\ failed \subseteq Views

\* An entry of imageCache is the picture of its own URL, although handlers of
\* different downloads write it, duplicates overwrite it and nil removes it.
CacheCoherent == \A k \in Urls : imageCache[k] \in {k, NoImage}

\* What is still on its way to a view is something the view asked for since it
\* was last quiet; a block that blanks a view follows a failed load of that view.
PendingWasAsked ==
    /\ \A l \in loads : l.key \in wanted[l.view]
    /\ \A s \in storing : s.key \in wanted[s.view] /\ s.image \in {s.key, NoImage}
    /\ \A b \in Blocks : \/ b.image \in wanted[b.view]
                         \/ b.image = NoImage /\ b.view \in failed

\* When the last unfinished load of a view has ended and none of them failed,
\* the view shows one of the pictures it asked for since it was last quiet; a
\* view whose loads never overlapped therefore shows the picture asked for last.
SettledShowsAsked ==
    \A v \in Views : Quiet(v) /\ wanted[v] # {} /\ v \notin failed => shown[v] \in wanted[v]

IInv == TypeOK /\ CacheCoherent /\ PendingWasAsked /\ SettledShowsAsked

\* loadImage keeps the promise of AvatarSlots.
Busy == {v \in Views : ~Quiet(v)}

Avatars == INSTANCE AvatarSlots WITH Slots <- Views, Pictures <- Urls, busy <- Busy

AvatarSlotsSpec == Avatars!Spec

\* Every download ends: its picture is shown in the view that asked for it, or a
\* failure of that view is on record, or the process crashed.
LoadResolves ==
    \A v \in Views, k \in Urls :
        (\E l \in loads : l.view = v /\ l.key = k)
            ~> (shown[v] = k \/ v \in failed \/ crashed)

\* "аватарка пользователя", the user's avatar (SearchUserCell.swift:25): when every
\* load of a view has ended well, the picture beside a user's name is that user's.
AvatarIsUsers ==
    \A v \in Views : Quiet(v) /\ v \notin failed /\ text[v] # NoUser
                        => shown[v] \in {NoImage, AvatarOf(text[v])}
=============================================================================
