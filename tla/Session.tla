------------------------------ MODULE Session ------------------------------
(***************************************************************************)
(* The screens over SignUp: MainTabViewController, the login and sign-up   *)
(* screens it presents, and the header of the profile tab.                 *)
(*                                                                         *)
(* The screens follow the completions of Auth, not Auth itself: between    *)
(* the two the user may have changed.  A header is filled by a database    *)
(* read that was started for whoever was signed in then, and the tabs may  *)
(* have been rebuilt when it answers.                                      *)
(***************************************************************************)
EXTENDS SignUp

VARIABLES
    signUpOpen,  \* SignUpViewController is pushed on the login screen
    form,        \* its fields and its button
    tabs,        \* how often this process ran configureViewControllers
    fetches,     \* the reads of users/uid under way for headers
    headerUser,  \* whose profile the header of the present tabs shows
    nilUnwrap,   \* the process died unwrapping currentUid
    \* History: no code reads these two.
    since,       \* who has been the current user since the tabs were built
    forcedOut    \* the current user of this process was signed out by force

uiVars == <<signUpOpen, form, tabs, fetches, headerUser, nilUnwrap>>

sessionVars == <<vars, uiVars, since, forcedOut>>

\* filled: the four text fields have text; picked: the button shows a chosen photo.
NewForm == [filled |-> FALSE, imageSelected |-> FALSE, picked |-> FALSE, enabled |-> FALSE]

SessionInit == /\ Init
               /\ signUpOpen = FALSE
               /\ form = NewForm
               /\ tabs = 1
               /\ fetches = {}
               /\ headerUser = NoUid
               /\ nilUnwrap = FALSE
               /\ since = {}
               /\ forcedOut = FALSE

OnLogin  == running /\ loginShown /\ ~signUpOpen
OnSignUp == running /\ loginShown /\ signUpOpen
OnTabs   == running /\ ~loginShown

\* What the history records of a step; rebuilt: the step built new tabs.
Record(rebuilt) ==
    /\ since' = (IF rebuilt THEN {} ELSE since) \cup ({currentUser'} \ {NoUid})
    /\ forcedOut' = (running /\ running' /\ currentUser' = NoUid
                             /\ (currentUser # NoUid \/ forcedOut))

-----------------------------------------------------------------------------
(***************************************************************************)
(* Login and sign-up screens.                                              *)
(***************************************************************************)
ShowSignUp == /\ OnLogin
              /\ signUpOpen' = TRUE
              /\ form' = NewForm
              /\ UNCHANGED <<vars, tabs, fetches, headerUser, nilUnwrap>>

ShowLogin == /\ OnSignUp
             /\ signUpOpen' = FALSE
             /\ UNCHANGED <<vars, form, tabs, fetches, headerUser, nilUnwrap>>

\* Editing a field runs formValidation.
EditField == /\ OnSignUp
             /\ \E filled \in BOOLEAN :
                    form' = [form EXCEPT !.filled = filled,
                                         !.enabled = filled /\ form.imageSelected]
             /\ UNCHANGED <<vars, signUpOpen, tabs, fetches, headerUser, nilUnwrap>>

\* Mutant: the flag is set before the picture is looked at.
PickPhotoFlagFirst == /\ OnSignUp
                      /\ \E edited \in BOOLEAN :
                             form' = [form EXCEPT !.imageSelected = TRUE,
                                                  !.picked = @ \/ edited]
                      /\ UNCHANGED <<vars, signUpOpen, tabs, fetches, headerUser, nilUnwrap>>

\* The picker answers, with an edited picture or without one; the form is not
\* validated again and a picture chosen before stays on the button.
PickPhoto == /\ OnSignUp
             /\ \E edited \in BOOLEAN :
                    form' = [form EXCEPT !.imageSelected = edited, !.picked = @ \/ edited]
             /\ UNCHANGED <<vars, signUpOpen, tabs, fetches, headerUser, nilUnwrap>>

PressSignUp(c, e) == /\ OnSignUp /\ form.enabled
                     /\ HandleSignUp(c, e)
                     /\ UNCHANGED uiVars

PressSignIn(c, e) == OnLogin /\ HandleSignIn(c, e) /\ UNCHANGED uiVars

\* The completion of signIn: on success new tabs are built under the login screen,
\* which is dismissed with everything on it; also when it has gone already.
SignedIn(c) == /\ phase[c] = "ok"
               /\ OnSignIn(c)
               /\ tabs' = tabs + 1
               /\ headerUser' = NoUid
               /\ signUpOpen' = FALSE
               /\ form' = NewForm
               /\ UNCHANGED <<fetches, nilUnwrap>>

SignInFailed(c) == phase[c] = "error" /\ OnSignIn(c) /\ UNCHANGED uiVars

-----------------------------------------------------------------------------
(***************************************************************************)
(* The profile tab.                                                        *)
(***************************************************************************)

\* The collection view asks for its header: the profile of the current user is
\* read once.
ShowHeader == /\ OnTabs
              /\ currentUser # NoUid
              /\ fetches' = fetches \cup {[tabs |-> tabs, uid |-> currentUser]}
              /\ UNCHANGED <<vars, signUpOpen, form, tabs, headerUser, nilUnwrap>>

ResetScreens == /\ signUpOpen' = FALSE
                /\ form' = NewForm
                /\ tabs' = 1
                /\ fetches' = {}
                /\ headerUser' = NoUid

\* currentUid! is nil.
ShowHeaderOfNobody == /\ OnTabs
                      /\ currentUser = NoUid
                      /\ Kill
                      /\ ResetScreens
                      /\ nilUnwrap' = TRUE

\* What a read of users/u returns: the stored profile, or a write of this process
\* that the database has not answered yet.
HasProfile(u) == profiles[u] # NoProfile \/ step[u] = "writing"

\* Mutant: the answer goes to the header of the present tabs.
HeaderReadAnyTabs(f) ==
    /\ running
    /\ f \in fetches
    /\ fetches' = fetches \ {f}
    /\ headerUser' = IF HasProfile(f.uid) THEN f.uid ELSE headerUser
    /\ UNCHANGED <<vars, signUpOpen, form, tabs, nilUnwrap>>

\* The read answers: the header that asked takes the profile, if there is one.
HeaderRead(f) ==
    /\ running
    /\ f \in fetches
    /\ fetches' = fetches \ {f}
    /\ headerUser' = IF f.tabs = tabs /\ HasProfile(f.uid) THEN f.uid ELSE headerUser
    /\ UNCHANGED <<vars, signUpOpen, form, tabs, nilUnwrap>>

-----------------------------------------------------------------------------
\* Auth, Storage and Database, and the completions of the sign-up chain, which
\* leave the screens alone: a new user is left on the sign-up screen.
Behind == /\ \/ \E c \in Calls :
                   \/ Service(c) \/ OnCreateUser(c)
                   \/ StoreBlob(c) \/ OnPutData(c) \/ OnDownloadURL(c)
                   \/ ApplyWrite(c) \/ OnUpdateChildValues(c)
             \/ SignedOut
          /\ UNCHANGED uiVars

SessionKill == Kill /\ ResetScreens /\ UNCHANGED nilUnwrap

\* Mutant: the login screen is presented when nobody is saved.
SessionLaunchBySaved == /\ AuthLaunch
                        /\ loginShown' = (keychain = NoUid)
                        /\ UNCHANGED <<step, blobs, profiles, printed, uiVars>>

\* viewDidLoad of the new process builds the tabs, then looks for the user.
SessionLaunch == Launch /\ UNCHANGED uiVars

Screens == \/ ShowSignUp \/ ShowLogin \/ EditField \/ PickPhoto
           \/ \E c \in Calls, e \in Emails : PressSignUp(c, e) \/ PressSignIn(c, e)
           \/ \E c \in Calls : SignInFailed(c)
           \/ ShowHeader \/ ShowHeaderOfNobody
           \/ \E f \in fetches : HeaderRead(f)

SessionNext == \/ Screens /\ Record(FALSE)
               \/ Behind /\ Record(FALSE)
               \/ (\E c \in Calls : SignedIn(c)) /\ Record(TRUE)
               \/ SessionKill /\ Record(TRUE)
               \/ SessionLaunch /\ Record(TRUE)

SessionSpec == SessionInit /\ [][SessionNext]_sessionVars

\* The fairness of SignUp: what Firebase and the main queue owe to a running sign-up.
SessionFairSpec == SessionSpec /\ \A c \in Calls : WF_vars(Progress(c))

-----------------------------------------------------------------------------
SessionTypeOK ==
    /\ TypeOK
    /\ signUpOpen \in BOOLEAN
    /\ form \in [filled : BOOLEAN, imageSelected : BOOLEAN, picked : BOOLEAN, enabled : BOOLEAN]
    /\ tabs \in Nat \ {0}
    /\ fetches \subseteq [tabs : Nat \ {0}, uid : Uids]
    /\ headerUser \in Uids \cup {NoUid}
    /\ nilUnwrap \in BOOLEAN
    /\ since \subseteq Uids
    /\ forcedOut \in BOOLEAN

\* The header shows a user who has been signed in since its tabs were built, never
\* one from before, although reads started under older tabs answer later.
HeaderUserWasCurrent ==
    /\ headerUser # NoUid => headerUser \in since
    /\ \A f \in fetches : f.tabs <= tabs /\ (f.tabs = tabs => f.uid \in since)

\* Behind a dismissed login screen somebody is signed in, unless Auth has signed
\* the user out by force: nothing in the application hears of that.
SignedInBehindLogin == OnTabs /\ currentUser = NoUid => forcedOut

\* The button uploads a photo the user chose, never the placeholder, although
\* choosing a photo does not validate the form again.
NeverUploadsPlaceholder == form.enabled => form.filled /\ form.picked

\* Every step over the screens is a step of SignUp, or none of its business.
SignUpSpec == Spec

\* currentUid! (UserProfileCollectionViewController.swift:55) asserts that somebody
\* is signed in whenever the header is asked for.
HeaderHasCurrentUser == ~nilUnwrap
=============================================================================
