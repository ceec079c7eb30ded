-------------------------------- MODULE Auth --------------------------------
(***************************************************************************)
(* FIRAuth as ShareImage uses it: createUserWithEmail and signInWithEmail, *)
(* the current user, its copy in the keychain, and the accounts at the     *)
(* identity service.                                                       *)
(*                                                                         *)
(* A call takes two requests, the second being getAccountInfo.  Its user   *)
(* becomes the current one on the work queue of FIRAuth; the completion    *)
(* that tells the application runs later, from the main queue.             *)
(*                                                                         *)
(* An account is named by the createUser call that made it.                *)
(***************************************************************************)
EXTENDS Naturals, Sequences

CONSTANTS Emails,
          Calls,    \* bound: every call of createUser or signIn, each used once
          Earlier,  \* Earlier[c]: the address of a call that created its user before,
                    \* in another process or on another device
          NoUid, NoEmail

ASSUME AuthAssumption == NoUid \notin Calls /\ NoEmail \notin Emails
ASSUME EarlierAssumption ==
    /\ DOMAIN Earlier \subseteq Calls
    /\ \A c \in DOMAIN Earlier : Earlier[c] \in Emails
    /\ \A c, d \in DOMAIN Earlier : Earlier[c] = Earlier[d] => c = d

VARIABLES
    account,      \* account[e]: the account registered at the service for e
    keychain,     \* the user saved on the device
    currentUser,  \* _currentUser of the running process
    running,      \* a process runs
    phase,        \* phase[c]: where the call is
    email,        \* email[c]: the address the call was made with
    uid,          \* uid[c]: the user the service answered with
    mainQueue     \* the calls whose completions are queued on the main queue

authVars == <<account, keychain, currentUser, running, phase, email, uid, mainQueue>>

Uids == Calls

\* creating, verifying: the first request is out; info: getAccountInfo is out;
\* ok, error: the completion is queued with that result.
Phases  == {"unused", "creating", "verifying", "info", "ok", "error", "ended"}
Waiting == {"creating", "verifying", "info"}
Queued  == {"ok", "error"}

\* Nobody is saved on the device, and the earlier calls have ended.
AuthInit ==
    /\ account \in [Emails -> DOMAIN Earlier \cup {NoUid}]
    /\ \A e \in Emails, c \in DOMAIN Earlier : account[e] = c <=> Earlier[c] = e
    /\ keychain = NoUid
    /\ currentUser = NoUid
    /\ running = TRUE
    /\ phase = [c \in Calls |-> IF c \in DOMAIN Earlier THEN "ended" ELSE "unused"]
    /\ email = [c \in Calls |-> IF c \in DOMAIN Earlier THEN Earlier[c] ELSE NoEmail]
    /\ uid = [c \in Calls |-> IF c \in DOMAIN Earlier THEN c ELSE NoUid]
    /\ mainQueue = <<>>

-----------------------------------------------------------------------------
Request(c, e, first) ==
    /\ running
    /\ phase[c] = "unused"
    /\ phase' = [phase EXCEPT ![c] = first]
    /\ email' = [email EXCEPT ![c] = e]
    /\ UNCHANGED <<account, keychain, currentUser, running, uid, mainQueue>>

CreateUser(c, e) == Request(c, e, "creating")
SignIn(c, e)     == Request(c, e, "verifying")

\* The decorated callback dispatches the completion to the main queue.
Finish(c, result) == /\ phase' = [phase EXCEPT ![c] = result]
                     /\ mainQueue' = Append(mainQueue, c)

\* signupNewUser makes the account; the answer may be lost on its way back.
Created(c) ==
    /\ phase[c] = "creating"
    /\ account[email[c]] = NoUid
    /\ account' = [account EXCEPT ![email[c]] = c]
    /\ \/ /\ phase' = [phase EXCEPT ![c] = "info"]
          /\ uid' = [uid EXCEPT ![c] = c]
          /\ UNCHANGED mainQueue
       \/ Finish(c, "error") /\ UNCHANGED uid
    /\ UNCHANGED <<keychain, currentUser, running, email>>

\* verifyPassword accepts the password of an account.
Verified(c) ==
    /\ phase[c] = "verifying"
    /\ account[email[c]] # NoUid
    /\ phase' = [phase EXCEPT ![c] = "info"]
    /\ uid' = [uid EXCEPT ![c] = account[email[c]]]
    /\ UNCHANGED <<account, keychain, currentUser, running, email, mainQueue>>

\* A request is refused (the address is taken, the password wrong) or fails, or
\* the keychain does not take the user: updateCurrentUser is not forced then.
CallFails(c) ==
    /\ phase[c] \in Waiting
    /\ Finish(c, "error")
    /\ UNCHANGED <<account, keychain, currentUser, running, email, uid>>

\* Mutant: updateCurrentUser keeps a user the keychain did not take.
SaveUserByForce(c) ==
    /\ phase[c] = "info"
    /\ keychain' \in {keychain, uid[c]}
    /\ currentUser' = uid[c]
    /\ Finish(c, "ok")
    /\ UNCHANGED <<account, running, email, uid>>

\* getAccountInfo answered: updateCurrentUser saves the user, then sets it.
SaveUser(c) ==
    /\ phase[c] = "info"
    /\ keychain' = uid[c]
    /\ currentUser' = uid[c]
    /\ Finish(c, "ok")
    /\ UNCHANGED <<account, running, email, uid>>

Answer(c) == Created(c) \/ Verified(c) \/ CallFails(c) \/ SaveUser(c)

\* The main queue hands the result of c to the application.
Deliver(c) ==
    /\ mainQueue # <<>>
    /\ Head(mainQueue) = c /\ phase[c] \in Queued
    /\ mainQueue' = Tail(mainQueue)
    /\ phase' = [phase EXCEPT ![c] = "ended"]
    /\ UNCHANGED <<account, keychain, currentUser, running, email, uid>>

\* A token refresh learns that the token is void: the user is signed out by
\* force, also when it cannot be removed from the keychain.
SignOutByForce ==
    /\ currentUser # NoUid
    /\ currentUser' = NoUid
    /\ keychain' \in {NoUid, keychain}
    /\ UNCHANGED <<account, running, phase, email, uid, mainQueue>>

\* The process dies with its calls; the service and the keychain stay.
AuthKill ==
    /\ running
    /\ running' = FALSE
    /\ currentUser' = NoUid
    /\ mainQueue' = <<>>
    /\ phase' = [c \in Calls |-> IF phase[c] = "unused" THEN "unused" ELSE "ended"]
    /\ UNCHANGED <<account, keychain, email, uid>>

\* initWithAPIKey loads the saved user; nobody when the keychain cannot be read.
AuthLaunch ==
    /\ ~running
    /\ running' = TRUE
    /\ currentUser' \in {keychain, NoUid}
    /\ UNCHANGED <<account, keychain, phase, email, uid, mainQueue>>

-----------------------------------------------------------------------------
AuthTypeOK ==
    /\ account \in [Emails -> Uids \cup {NoUid}]
    /\ keychain \in Uids \cup {NoUid}
    /\ currentUser \in Uids \cup {NoUid}
    /\ running \in BOOLEAN
    /\ phase \in [Calls -> Phases]
    /\ email \in [Calls -> Emails \cup {NoEmail}]
    /\ uid \in [Calls -> Uids \cup {NoUid}]
    /\ mainQueue \in Seq(Calls)

Accounts == {account[e] : e \in Emails} \ {NoUid}

\* updateCurrentUser never lets a user be the current one whom the keychain does
\* not hold: who is signed in stays signed in through a restart, except after a
\* forced sign-out.
SignedInIsSaved == currentUser # NoUid => keychain = currentUser

\* Nobody is signed in, or saved, without an account registered at the service.
SavedHasAccount == keychain # NoUid => keychain \in Accounts
=============================================================================
