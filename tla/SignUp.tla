------------------------------- MODULE SignUp -------------------------------
(***************************************************************************)
(* SignUpViewController.handleSignUp with the services it calls one after  *)
(* the other - Auth, Storage, Database - and LoginViewController's sign-in *)
(* next to it.  Nothing disables the buttons while calls are under way, so *)
(* any number of attempts run at a time, and the process may die between   *)
(* any two steps.                                                          *)
(*                                                                         *)
(* A photo is named by the attempt that drew its UUID, and an attempt by   *)
(* its createUser call.                                                    *)
(***************************************************************************)
EXTENDS Auth

CONSTANT NoProfile

ASSUME ProfileAssumption == NoProfile \notin Calls

VARIABLES
    loginShown,  \* the login screen, with the sign-up screen behind it, is up
    step,        \* step[c]: how far the attempt is
    blobs,       \* the photos in Storage
    profiles,    \* profiles[u]: the attempt whose values are at users/u
    printed      \* history: the attempts that printed "Пользователь создан!"

vars == <<account, keychain, currentUser, running, phase, email, uid, mainQueue,
          loginShown, step, blobs, profiles, printed>>

Steps == {"none", "creating", "uploading", "resolving", "writing", "done", "abandoned"}
UnderWay == {"creating", "uploading", "resolving", "writing"}

\* The earlier attempts were completed.
Init == /\ AuthInit
        /\ loginShown = TRUE
        /\ step = [c \in Calls |-> IF c \in DOMAIN Earlier THEN "done" ELSE "none"]
        /\ blobs = DOMAIN Earlier
        /\ profiles = [u \in Uids |-> IF u \in DOMAIN Earlier THEN u ELSE NoProfile]
        /\ printed = {}

At(c, s) == running /\ step[c] = s
GoTo(c, s) == step' = [step EXCEPT ![c] = s]

-----------------------------------------------------------------------------
(***************************************************************************)
(* The two buttons.                                                        *)
(***************************************************************************)
HandleSignUp(c, e) == /\ loginShown
                      /\ CreateUser(c, e)
                      /\ GoTo(c, "creating")
                      /\ UNCHANGED <<loginShown, blobs, profiles, printed>>

HandleSignIn(c, e) == /\ loginShown
                      /\ SignIn(c, e)
                      /\ UNCHANGED <<loginShown, step, blobs, profiles, printed>>

\* The completion of signIn: on success the login screen is dismissed.
OnSignIn(c) == /\ step[c] = "none"
               /\ Deliver(c)
               /\ loginShown' = (loginShown /\ phase[c] = "error")
               /\ UNCHANGED <<step, blobs, profiles, printed>>

\* The completion of createUser: an error ends the attempt, else putData starts.
OnCreateUser(c) == /\ step[c] = "creating"
                   /\ Deliver(c)
                   /\ GoTo(c, IF phase[c] = "ok" THEN "uploading" ELSE "abandoned")
                   /\ UNCHANGED <<loginShown, blobs, profiles, printed>>

-----------------------------------------------------------------------------
(***************************************************************************)
(* Storage and Database.                                                   *)
(***************************************************************************)

\* The upload reaches Storage; the process need not ever learn of it.
StoreBlob(c) == /\ At(c, "uploading")
                /\ c \notin blobs
                /\ blobs' = blobs \cup {c}
                /\ UNCHANGED <<authVars, loginShown, step, profiles, printed>>

\* Mutant: putData does not report an upload that failed.
OnPutDataStored(c) == /\ At(c, "uploading")
                      /\ c \in blobs
                      /\ GoTo(c, "resolving")
                      /\ UNCHANGED <<authVars, loginShown, blobs, profiles, printed>>

\* The completion of putData, with or without an error.
OnPutData(c) == /\ At(c, "uploading")
                /\ \/ c \in blobs /\ GoTo(c, "resolving")
                   \/ GoTo(c, "abandoned")
                /\ UNCHANGED <<authVars, loginShown, blobs, profiles, printed>>

\* The completion of downloadURL: without a URL the attempt ends, else the
\* profile is sent with updateChildValues.
OnDownloadURL(c) == /\ At(c, "resolving")
                    /\ \/ c \in blobs /\ GoTo(c, "writing")
                       \/ GoTo(c, "abandoned")
                    /\ UNCHANGED <<authVars, loginShown, blobs, profiles, printed>>

\* Mutant: the profile is stored under the user who is signed in now.
ApplyWriteAsCurrentUser(c) ==
    /\ At(c, "writing")
    /\ currentUser # NoUid
    /\ profiles' = [profiles EXCEPT ![currentUser] = c]
    /\ UNCHANGED <<authVars, loginShown, step, blobs, printed>>

\* Mutant: a write that was answered is sent again after a reconnection.
ApplyWriteAgain(c) ==
    /\ At(c, "writing") \/ At(c, "done")
    /\ profiles' = [profiles EXCEPT ![uid[c]] = c]
    /\ UNCHANGED <<authVars, loginShown, step, blobs, printed>>

\* The database applies the write to users/uid, where uid is the user this
\* attempt created.  The write is outstanding until its acknowledgement arrives
\* and is sent again after every reconnection.
ApplyWrite(c) == /\ At(c, "writing")
                 /\ profiles' = [profiles EXCEPT ![uid[c]] = c]
                 /\ UNCHANGED <<authVars, loginShown, step, blobs, printed>>

\* The completion of updateChildValues: the write was applied and acknowledged, or
\* it was rejected; the message is printed in either case.
OnWriteAcknowledged(c) == At(c, "writing") /\ profiles[uid[c]] = c
OnWriteRejected(c)     == At(c, "writing")

OnUpdateChildValues(c) == /\ OnWriteAcknowledged(c) \/ OnWriteRejected(c)
                          /\ GoTo(c, "done")
                          /\ printed' = printed \cup {c}
                          /\ UNCHANGED <<authVars, loginShown, blobs, profiles>>

-----------------------------------------------------------------------------
Service(c) == /\ running
              /\ Answer(c)
              /\ UNCHANGED <<loginShown, step, blobs, profiles, printed>>

SignedOut == /\ SignOutByForce
             /\ UNCHANGED <<loginShown, step, blobs, profiles, printed>>

Kill == /\ AuthKill
        /\ loginShown' = FALSE
        /\ step' = [c \in Calls |-> IF step[c] \in UnderWay THEN "abandoned" ELSE step[c]]
        /\ UNCHANGED <<blobs, profiles, printed>>

\* checkInUserIsLoggedIn presents the login screen when nobody is signed in.
Launch == /\ AuthLaunch
          /\ loginShown' = (currentUser' = NoUid)
          /\ UNCHANGED <<step, blobs, profiles, printed>>

\* What moves attempt c on by itself, that is, without a button being pressed.
Progress(c) == \/ Service(c)
               \/ OnSignIn(c)
               \/ OnCreateUser(c)
               \/ OnPutData(c)
               \/ OnDownloadURL(c)
               \/ OnUpdateChildValues(c)

Next == \/ \E c \in Calls, e \in Emails : HandleSignUp(c, e) \/ HandleSignIn(c, e)
        \/ \E c \in Calls : Progress(c) \/ StoreBlob(c) \/ ApplyWrite(c)
        \/ SignedOut
        \/ Kill
        \/ Launch

Spec == Init /\ [][Next]_vars

\* Requests end: Auth and Storage time them out and report an error.  An update
\* ends once the connection is back, which is assumed of the network here.
FairSpec == Spec /\ \A c \in Calls : WF_vars(Progress(c))

-----------------------------------------------------------------------------
TypeOK == /\ AuthTypeOK
          /\ loginShown \in BOOLEAN
          /\ step \in [Calls -> Steps]
          /\ blobs \subseteq Calls
          /\ profiles \in [Uids -> Calls \cup {NoProfile}]
          /\ printed \subseteq Calls

\* A profile in the database belongs to an account registered under the address
\* the profile names, and its photo is in Storage, whatever failed or ran at the
\* same time.
NoDanglingProfile ==
    \A u \in Uids : profiles[u] # NoProfile => /\ account[email[profiles[u]]] = u
                                              /\ profiles[u] \in blobs

\* Why NoDanglingProfile holds: from createUser's answer on, an attempt works for
\* the account it made itself, and it writes a profile only when the photo is up.
CallsConsistent ==
    /\ \A c \in Calls :
          /\ phase[c] = "unused" => step[c] = "none"
          /\ phase[c] # "unused" => email[c] \in Emails
          /\ phase[c] = "creating" => step[c] = "creating"
          /\ step[c] = "creating" => phase[c] \in {"creating", "info", "ok", "error"}
          /\ phase[c] \in {"info", "ok"} => uid[c] \in Accounts
          /\ \/ step[c] = "creating" /\ phase[c] \in {"info", "ok"}
             \/ step[c] \in {"uploading", "resolving", "writing"}
             => uid[c] = c /\ account[email[c]] = c
          /\ step[c] \in {"resolving", "writing"} => c \in blobs
          /\ c \in Accounts => phase[c] \notin {"unused", "creating", "verifying"}
    /\ \A u \in Uids : profiles[u] # NoProfile => phase[profiles[u]] # "unused"

IInv == TypeOK /\ SignedInIsSaved /\ SavedHasAccount /\ CallsConsistent /\ NoDanglingProfile

\* Signing up never takes an account back, never gives an address a second one,
\* and never completes an account whose attempt has ended.
Stage(u) == IF profiles[u] # NoProfile /\ profiles[u] \in blobs THEN "complete"
            ELSE IF u \notin Accounts THEN "none"
            ELSE IF step[u] \in UnderWay THEN "account"
            ELSE "abandoned"

Stages == [u \in Uids |-> Stage(u)]

Registry == INSTANCE Registration WITH owner <- account, stage <- Stages

RegistrationSpec == Registry!Spec

\* Every attempt ends, and every completion the application waits for is called.
SignUpEnds ==
    \A c \in Calls : phase[c] \in Waiting \cup Queued \/ step[c] \in UnderWay
                         ~> phase[c] = "ended" /\ step[c] \notin UnderWay

\* "Пользователь создан!", user created (SignUpViewController.swift:167): who
\* is reported as created has a profile.
CreatedHasProfile == \A c \in printed : profiles[uid[c]] # NoProfile
=============================================================================
