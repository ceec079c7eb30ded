--------------------------- MODULE Session_proofs ---------------------------
(***************************************************************************)
(* TLAPS proofs about SignUp and Session, for every set of addresses and   *)
(* of attempts.  SignUp: the inductive invariant IInv, hence               *)
(* NoDanglingProfile and the rules of FIRAuth, and the refinement of       *)
(* Registration.  Session: its steps are steps of SignUp, so that what is  *)
(* shown of SignUp holds behind the screens too, and what the screens show *)
(* follows the user Auth has, however late their reads and completions     *)
(* are.                                                                    *)
(***************************************************************************)
EXTENDS Session, TLAPS

-----------------------------------------------------------------------------
(***************************************************************************)
(* Type correctness.                                                       *)
(***************************************************************************)

LEMMA InitTypeOK == Init => TypeOK
<1>. USE EarlierAssumption DEF Uids
<1>1. Init => mainQueue \in Seq(Calls)
  BY DEF Init, AuthInit
<1>2. Init => account \in [Emails -> Uids \cup {NoUid}]
  BY DEF Init, AuthInit
<1>3. Init => phase \in [Calls -> Phases] /\ email \in [Calls -> Emails \cup {NoEmail}]
              /\ uid \in [Calls -> Uids \cup {NoUid}]
  BY DEF Init, AuthInit, Phases
<1>4. Init => AuthTypeOK
  BY <1>1, <1>2, <1>3 DEF Init, AuthInit, AuthTypeOK
<1>. QED
  BY <1>4 DEF Init, TypeOK, Steps

LEMMA FinishType ==
    ASSUME AuthTypeOK, NEW c \in Calls, NEW r \in Queued, Finish(c, r)
    PROVE  phase' \in [Calls -> Phases] /\ mainQueue' \in Seq(Calls)
BY DEF AuthTypeOK, Finish, Queued, Phases

LEMMA DeliverType ==
    ASSUME AuthTypeOK, NEW c \in Calls, Deliver(c)
    PROVE  AuthTypeOK'
<1>1. mainQueue' \in Seq(Calls)
  BY DEF AuthTypeOK, Deliver
<1>2. phase' \in [Calls -> Phases]
  BY DEF AuthTypeOK, Deliver, Phases
<1>. QED
  BY <1>1, <1>2 DEF AuthTypeOK, Deliver

LEMMA RequestType ==
    ASSUME AuthTypeOK, NEW c \in Calls, NEW e \in Emails,
           CreateUser(c, e) \/ SignIn(c, e)
    PROVE  AuthTypeOK'
BY DEF AuthTypeOK, CreateUser, SignIn, Request, Phases

LEMMA AnswerType ==
    ASSUME AuthTypeOK, NEW c \in Calls, Answer(c), email[c] \in Emails
    PROVE  AuthTypeOK'
<1>1. CASE Created(c)
  <2>1. account' \in [Emails -> Uids \cup {NoUid}]
    BY <1>1 DEF AuthTypeOK, Created, Uids
  <2>2. /\ phase' \in [Calls -> Phases]
        /\ uid' \in [Calls -> Uids \cup {NoUid}]
        /\ mainQueue' \in Seq(Calls)
    <3>1. uid' \in [Calls -> Uids \cup {NoUid}]
      BY <1>1 DEF AuthTypeOK, Created, Uids
    <3>2. phase' \in [Calls -> Phases] /\ mainQueue' \in Seq(Calls)
      BY <1>1, FinishType DEF AuthTypeOK, Created, Phases, Queued
    <3>. QED
      BY <3>1, <3>2
  <2>. QED
    BY <1>1, <2>1, <2>2 DEF AuthTypeOK, Created
<1>2. CASE Verified(c)
  BY <1>2 DEF AuthTypeOK, Verified, Phases
<1>3. CASE CallFails(c)
  BY <1>3, FinishType DEF AuthTypeOK, CallFails, Queued
<1>4. CASE SaveUser(c)
  BY <1>4, FinishType DEF AuthTypeOK, SaveUser, Queued
<1>. QED
  BY <1>1, <1>2, <1>3, <1>4 DEF Answer

\* The variables of FIRAuth keep their types; a call that is out has an address.
LEMMA NextTypeOK == TypeOK /\ CallsConsistent /\ [Next]_vars => TypeOK'
<1>. SUFFICES ASSUME TypeOK, CallsConsistent, [Next]_vars
              PROVE  TypeOK'
  OBVIOUS
<1>1. AuthTypeOK
  BY DEF TypeOK
<1>2. ASSUME NEW c \in Calls, NEW s \in Steps, GoTo(c, s)
      PROVE  step' \in [Calls -> Steps]
  BY <1>2 DEF TypeOK, GoTo
<1>3. ASSUME NEW c \in Calls, NEW e \in Emails, HandleSignUp(c, e) \/ HandleSignIn(c, e)
      PROVE  TypeOK'
  <2>1. AuthTypeOK'
    BY <1>1, <1>3, RequestType DEF HandleSignUp, HandleSignIn
  <2>2. step' \in [Calls -> Steps]
    BY <1>2, <1>3 DEF HandleSignUp, HandleSignIn, Steps, TypeOK
  <2>. QED
    BY <1>3, <2>1, <2>2 DEF HandleSignUp, HandleSignIn, TypeOK
<1>4. ASSUME NEW c \in Calls, Service(c)
      PROVE  TypeOK'
  <2>1. phase[c] # "unused"
    BY <1>4 DEF Service, Answer, Created, Verified, CallFails, SaveUser, Waiting
  <2>2. email[c] \in Emails
    BY <2>1 DEF CallsConsistent
  <2>. QED
    BY <1>1, <1>4, <2>2, AnswerType DEF Service, TypeOK
<1>5. ASSUME NEW c \in Calls, OnSignIn(c)
      PROVE  TypeOK'
  BY <1>1, <1>5, DeliverType DEF OnSignIn, TypeOK
<1>6. ASSUME NEW c \in Calls, OnCreateUser(c)
      PROVE  TypeOK'
  <2>1. AuthTypeOK'
    BY <1>1, <1>6, DeliverType DEF OnCreateUser
  <2>2. step' \in [Calls -> Steps]
    BY <1>2, <1>6 DEF OnCreateUser, Steps
  <2>. QED
    BY <1>6, <2>1, <2>2 DEF OnCreateUser, TypeOK
<1>7. ASSUME NEW c \in Calls, OnPutData(c) \/ OnDownloadURL(c) \/ OnUpdateChildValues(c)
      PROVE  TypeOK'
  <2>1. step' \in [Calls -> Steps]
    BY <1>2, <1>7 DEF OnPutData, OnDownloadURL, OnUpdateChildValues, Steps
  <2>2. UNCHANGED authVars
    BY <1>7 DEF OnPutData, OnDownloadURL, OnUpdateChildValues
  <2>3. AuthTypeOK'
    BY <1>1, <2>2 DEF AuthTypeOK, authVars
  <2>. QED
    BY <1>7, <2>1, <2>3 DEF OnPutData, OnDownloadURL, OnUpdateChildValues, TypeOK
<1>8. ASSUME NEW c \in Calls, StoreBlob(c) \/ ApplyWrite(c)
      PROVE  TypeOK'
  <2>1. UNCHANGED authVars
    BY <1>8 DEF StoreBlob, ApplyWrite
  <2>2. AuthTypeOK'
    BY <1>1, <2>1 DEF AuthTypeOK, authVars
  <2>. QED
    BY <1>8, <2>2 DEF StoreBlob, ApplyWrite, TypeOK
<1>9. CASE SignedOut
  BY <1>9 DEF SignedOut, SignOutByForce, TypeOK, AuthTypeOK
<1>10. CASE Kill
  <2>1. mainQueue' \in Seq(Calls)
    BY <1>10 DEF Kill, AuthKill
  <2>2. phase' \in [Calls -> Phases] /\ step' \in [Calls -> Steps]
    BY <1>10 DEF Kill, AuthKill, TypeOK, AuthTypeOK, Phases, Steps
  <2>. QED
    BY <1>10, <2>1, <2>2 DEF Kill, AuthKill, TypeOK, AuthTypeOK
<1>11. CASE Launch
  BY <1>11 DEF Launch, AuthLaunch, TypeOK, AuthTypeOK
<1>12. CASE UNCHANGED vars
  BY <1>12 DEF vars, TypeOK, AuthTypeOK
<1>. QED
  BY <1>3, <1>4, <1>5, <1>6, <1>7, <1>8, <1>9, <1>10, <1>11, <1>12 DEF Next, Progress

-----------------------------------------------------------------------------
(***************************************************************************)
(* The inductive invariant.                                                *)
(***************************************************************************)

\* The users that exist to begin with are those of the earlier calls, each under
\* its own address.
LEMMA InitAccounts ==
    Init => /\ Accounts = DOMAIN Earlier
            /\ \A c \in DOMAIN Earlier : account[Earlier[c]] = c
<1>. SUFFICES ASSUME Init
              PROVE  /\ Accounts = DOMAIN Earlier
                     /\ \A c \in DOMAIN Earlier : account[Earlier[c]] = c
  OBVIOUS
<1>1. \A c \in DOMAIN Earlier : Earlier[c] \in Emails /\ account[Earlier[c]] = c
  BY EarlierAssumption DEF Init, AuthInit
<1>2. \A e \in Emails : account[e] \in DOMAIN Earlier \cup {NoUid}
  BY DEF Init, AuthInit
<1>3. NoUid \notin DOMAIN Earlier
  BY AuthAssumption, EarlierAssumption
<1>. QED
  BY <1>1, <1>2, <1>3 DEF Accounts

LEMMA InitIInv == Init => IInv
<1>. SUFFICES ASSUME Init
              PROVE  IInv
  OBVIOUS
<1>. USE AuthAssumption, EarlierAssumption, ProfileAssumption DEF Uids
<1>1. TypeOK
  BY InitTypeOK
<1>2. SignedInIsSaved /\ SavedHasAccount
  BY DEF Init, AuthInit, SignedInIsSaved, SavedHasAccount
<1>3. Accounts = DOMAIN Earlier /\ \A c \in DOMAIN Earlier : account[Earlier[c]] = c
  BY InitAccounts
<1>4. \A c \in Calls :
         /\ step[c] = IF c \in DOMAIN Earlier THEN "done" ELSE "none"
         /\ phase[c] = IF c \in DOMAIN Earlier THEN "ended" ELSE "unused"
         /\ profiles[c] = IF c \in DOMAIN Earlier THEN c ELSE NoProfile
  BY DEF Init, AuthInit
<1>5. \A c \in DOMAIN Earlier : c \in Calls /\ email[c] = Earlier[c] /\ email[c] \in Emails
  BY DEF Init, AuthInit
<1>6. CallsConsistent
  BY <1>3, <1>4, <1>5 DEF CallsConsistent
<1>7. NoDanglingProfile
  BY <1>3, <1>4, <1>5 DEF Init, NoDanglingProfile
<1>. QED
  BY <1>1, <1>2, <1>6, <1>7 DEF IInv

\* Steps that leave the accounts, the calls and the profiles alone, and move at
\* most the steps of attempts out of the way, keep the profiles in order.
LEMMA ProfilesKept ==
    ASSUME NoDanglingProfile, blobs \subseteq blobs', UNCHANGED <<account, email, profiles>>
    PROVE  NoDanglingProfile'
BY DEF NoDanglingProfile

LEMMA ServiceIInv ==
    ASSUME IInv, NEW c \in Calls, Service(c)
    PROVE  (SignedInIsSaved /\ SavedHasAccount /\ CallsConsistent /\ NoDanglingProfile)'
<1>. USE AuthAssumption DEF Uids
<1>1. /\ TypeOK /\ AuthTypeOK /\ SignedInIsSaved /\ SavedHasAccount
      /\ CallsConsistent /\ NoDanglingProfile
  BY DEF IInv, TypeOK
<1>2. UNCHANGED <<loginShown, step, blobs, profiles, printed>>
  BY DEF Service
<1>3. phase \in [Calls -> Phases] /\ uid \in [Calls -> Calls \cup {NoUid}]
      /\ account \in [Emails -> Calls \cup {NoUid}]
  BY <1>1 DEF AuthTypeOK
<1>4. CASE Created(c)
  <2>. DEFINE e == email[c]
  <2>1. /\ phase[c] = "creating" /\ account[e] = NoUid
        /\ account' = [account EXCEPT ![e] = c]
        /\ UNCHANGED <<keychain, currentUser, running, email>>
    BY <1>4 DEF Created
  <2>2. \/ phase' = [phase EXCEPT ![c] = "info"] /\ uid' = [uid EXCEPT ![c] = c]
        \/ phase' = [phase EXCEPT ![c] = "error"] /\ uid' = uid
    BY <1>4 DEF Created, Finish
  <2>3. e \in Emails /\ step[c] = "creating"
    BY <1>1, <2>1 DEF CallsConsistent
  <2>4. \A f \in Emails : account[f] # NoUid => account'[f] = account[f]
    BY <1>3, <2>1
  <2>5. account'[e] = c
    BY <1>3, <2>1, <2>3
  <2>6. Accounts' = Accounts \cup {c}
    <3>1. \A f \in Emails : account'[f] = IF f = e THEN c ELSE account[f]
      BY <1>3, <2>1, <2>3
    <3>. QED
      BY <2>1, <2>3, <3>1 DEF Accounts
  <2>7. \A d \in Calls : d # c => phase'[d] = phase[d] /\ uid'[d] = uid[d]
    BY <1>3, <2>2
  <2>8. phase'[c] \in {"info", "error"} /\ (phase'[c] = "info" => uid'[c] = c)
    BY <1>3, <2>2
  <2>9. SignedInIsSaved' /\ SavedHasAccount'
    BY <1>1, <2>1, <2>6 DEF SignedInIsSaved, SavedHasAccount
  <2>10. NoDanglingProfile'
    <3>1. ASSUME NEW u \in Calls, profiles[u] # NoProfile
          PROVE  account'[email[profiles[u]]] = u
      <4>1. account[email[profiles[u]]] = u
        BY <1>1, <3>1 DEF NoDanglingProfile
      <4>2. phase[profiles[u]] # "unused" /\ profiles[u] \in Calls
        BY <1>1, <3>1 DEF CallsConsistent, TypeOK
      <4>3. email[profiles[u]] \in Emails
        BY <1>1, <4>2 DEF CallsConsistent
      <4>. QED
        BY <2>4, <3>1, <4>1, <4>3
    <3>. QED
      BY <1>1, <1>2, <2>1, <3>1 DEF NoDanglingProfile
  <2>11. CallsConsistent'
    <3>1. ASSUME NEW d \in Calls, d # c
          PROVE  /\ phase'[d] = "unused" => step'[d] = "none"
                 /\ phase'[d] # "unused" => email'[d] \in Emails
                 /\ phase'[d] = "creating" => step'[d] = "creating"
                 /\ step'[d] = "creating" => phase'[d] \in {"creating", "info", "ok", "error"}
                 /\ phase'[d] \in {"info", "ok"} => uid'[d] \in Accounts'
                 /\ \/ step'[d] = "creating" /\ phase'[d] \in {"info", "ok"}
                    \/ step'[d] \in {"uploading", "resolving", "writing"}
                    => uid'[d] = d /\ account'[email'[d]] = d
                 /\ step'[d] \in {"resolving", "writing"} => d \in blobs'
                 /\ d \in Accounts' => phase'[d] \notin {"unused", "creating", "verifying"}
      <4>1. phase'[d] = phase[d] /\ uid'[d] = uid[d] /\ email'[d] = email[d]
            /\ step'[d] = step[d] /\ blobs' = blobs
        BY <1>2, <2>1, <2>7, <3>1
      <4>2. account[email[d]] = d /\ email[d] \in Emails => account'[email[d]] = d
        BY <2>4
      <4>3. phase[d] = "unused" => step[d] = "none"
        BY <1>1 DEF CallsConsistent
      <4>4. phase[d] # "unused" => email[d] \in Emails
        BY <1>1 DEF CallsConsistent
      <4>. QED
        BY <1>1, <2>6, <3>1, <4>1, <4>2, <4>3, <4>4 DEF CallsConsistent
    <3>2. /\ phase'[c] # "unused" /\ email'[c] \in Emails /\ step'[c] = "creating"
          /\ phase'[c] \in {"info", "error"}
          /\ phase'[c] = "info" => uid'[c] = c /\ account'[email'[c]] = c
          /\ c \in Accounts'
      BY <1>2, <2>1, <2>3, <2>5, <2>6, <2>8
    <3>3. \A u \in Uids : profiles'[u] # NoProfile => phase'[profiles'[u]] # "unused"
      BY <1>1, <1>2, <2>7, <2>8 DEF CallsConsistent, TypeOK
    <3>. QED
      BY <3>1, <3>2, <3>3 DEF CallsConsistent
  <2>. QED
    BY <2>9, <2>10, <2>11
<1>5. CASE Verified(c)
  <2>1. /\ phase[c] = "verifying" /\ account[email[c]] # NoUid
        /\ phase' = [phase EXCEPT ![c] = "info"]
        /\ uid' = [uid EXCEPT ![c] = account[email[c]]]
        /\ UNCHANGED <<account, keychain, currentUser, email>>
    BY <1>5 DEF Verified
  <2>2. email[c] \in Emails /\ step[c] \notin {"creating"}
    BY <1>1, <2>1 DEF CallsConsistent
  <2>3. account[email[c]] \in Accounts
    BY <2>1, <2>2 DEF Accounts
  <2>4. Accounts' = Accounts
    BY <2>1 DEF Accounts
  <2>5. step[c] \notin {"uploading", "resolving", "writing"} \/ uid[c] = c
    BY <1>1 DEF CallsConsistent
  <2>6. step[c] \in {"uploading", "resolving", "writing"} => c \in Accounts
    BY <1>1, <2>2, <1>3 DEF CallsConsistent, Accounts
  <2>7. step[c] \notin {"uploading", "resolving", "writing"}
    BY <1>1, <2>1, <2>6 DEF CallsConsistent
  <2>8. CallsConsistent'
    BY <1>1, <1>2, <1>3, <2>1, <2>2, <2>3, <2>4, <2>7 DEF CallsConsistent, TypeOK
  <2>. QED
    BY <1>1, <1>2, <2>1, <2>4, <2>8, ProfilesKept DEF SignedInIsSaved, SavedHasAccount
<1>6. CASE CallFails(c)
  <2>1. /\ phase[c] \in {"creating", "verifying", "info"}
        /\ phase' = [phase EXCEPT ![c] = "error"]
        /\ UNCHANGED <<account, keychain, currentUser, email, uid>>
    BY <1>6 DEF CallFails, Finish, Waiting
  <2>2. Accounts' = Accounts
    BY <2>1 DEF Accounts
  <2>3. CallsConsistent'
    BY <1>1, <1>2, <1>3, <2>1, <2>2 DEF CallsConsistent, TypeOK
  <2>. QED
    BY <1>1, <1>2, <2>1, <2>2, <2>3, ProfilesKept DEF SignedInIsSaved, SavedHasAccount
<1>7. CASE SaveUser(c)
  <2>1. /\ phase[c] = "info"
        /\ phase' = [phase EXCEPT ![c] = "ok"]
        /\ keychain' = uid[c] /\ currentUser' = uid[c]
        /\ UNCHANGED <<account, email, uid>>
    BY <1>7 DEF SaveUser, Finish
  <2>2. Accounts' = Accounts
    BY <2>1 DEF Accounts
  <2>3. uid[c] \in Accounts
    BY <1>1, <2>1 DEF CallsConsistent
  <2>4. CallsConsistent'
    BY <1>1, <1>2, <1>3, <2>1, <2>2 DEF CallsConsistent, TypeOK
  <2>. QED
    BY <1>1, <1>2, <2>1, <2>2, <2>3, <2>4, ProfilesKept DEF SignedInIsSaved, SavedHasAccount
<1>. QED
  BY <1>4, <1>5, <1>6, <1>7 DEF Service, Answer

\* Every step keeps IInv.
LEMMA NextIInv == IInv /\ [Next]_vars => IInv'
<1>. SUFFICES ASSUME IInv, [Next]_vars
              PROVE  IInv'
  OBVIOUS
<1>. USE AuthAssumption DEF Uids
<1>1. /\ TypeOK /\ AuthTypeOK /\ SignedInIsSaved /\ SavedHasAccount
      /\ CallsConsistent /\ NoDanglingProfile
  BY DEF IInv, TypeOK
<1>2. TypeOK'
  BY <1>1, NextTypeOK
<1>3. /\ phase \in [Calls -> Phases] /\ step \in [Calls -> Steps]
      /\ email \in [Calls -> Emails \cup {NoEmail}]
      /\ profiles \in [Calls -> Calls \cup {NoProfile}]
  BY <1>1 DEF AuthTypeOK, TypeOK
<1>4. ASSUME NEW c \in Calls, NEW e \in Emails, HandleSignUp(c, e) \/ HandleSignIn(c, e)
      PROVE  IInv'
  <2>1. /\ phase[c] = "unused"
        /\ \/ phase' = [phase EXCEPT ![c] = "creating"] /\ step' = [step EXCEPT ![c] = "creating"]
           \/ phase' = [phase EXCEPT ![c] = "verifying"] /\ step' = step
        /\ email' = [email EXCEPT ![c] = e]
        /\ UNCHANGED <<account, keychain, currentUser, uid, blobs, profiles>>
    BY <1>4 DEF HandleSignUp, HandleSignIn, CreateUser, SignIn, Request, GoTo
  <2>2. step[c] = "none" /\ c \notin Accounts
    BY <1>1, <2>1 DEF CallsConsistent
  <2>3. Accounts' = Accounts
    BY <2>1 DEF Accounts
  <2>4. \A d \in Calls \ {c} : phase'[d] = phase[d] /\ step'[d] = step[d] /\ email'[d] = email[d]
    BY <1>3, <2>1
  <2>5. /\ phase'[c] \in {"creating", "verifying"} /\ email'[c] = e
        /\ step'[c] = IF phase'[c] = "creating" THEN "creating" ELSE "none"
    BY <1>3, <2>1, <2>2
  <2>6. \A u \in Calls : profiles[u] # NoProfile => profiles[u] \in Calls \ {c}
    BY <1>1, <1>3, <2>1 DEF CallsConsistent
  <2>7. NoDanglingProfile'
    BY <1>1, <2>1, <2>4, <2>6 DEF NoDanglingProfile
  <2>8. CallsConsistent'
    BY <1>1, <2>1, <2>2, <2>3, <2>4, <2>5, <2>6 DEF CallsConsistent
  <2>. QED
    BY <1>1, <1>2, <2>1, <2>3, <2>7, <2>8 DEF IInv, SignedInIsSaved, SavedHasAccount
<1>5. ASSUME NEW c \in Calls, Service(c)
      PROVE  IInv'
  BY <1>2, <1>5, ServiceIInv DEF IInv
<1>6. ASSUME NEW c \in Calls, OnSignIn(c) \/ OnCreateUser(c)
      PROVE  IInv'
  <2>1. /\ UNCHANGED <<account, keychain, currentUser, email, uid, blobs, profiles>>
        /\ phase' = [phase EXCEPT ![c] = "ended"]
    BY <1>6 DEF OnSignIn, OnCreateUser, Deliver
  <2>2. \/ step[c] = "none" /\ step' = step
        \/ /\ step[c] = "creating"
           /\ step' = [step EXCEPT ![c] = IF phase[c] = "ok" THEN "uploading" ELSE "abandoned"]
    BY <1>6 DEF OnSignIn, OnCreateUser, GoTo
  <2>3. Accounts' = Accounts
    BY <2>1 DEF Accounts
  <2>4. \A d \in Calls \ {c} : phase'[d] = phase[d] /\ step'[d] = step[d]
    BY <1>3, <2>1, <2>2
  <2>5. phase'[c] = "ended" /\ step'[c] \in {"none", "uploading", "abandoned"}
    BY <1>3, <2>1, <2>2
  <2>6. step'[c] = "uploading" => uid[c] = c /\ account[email[c]] = c
    BY <1>1, <1>3, <2>2 DEF CallsConsistent
  <2>7. phase[c] # "unused"
    BY <1>6 DEF OnSignIn, OnCreateUser, Deliver, Queued
  <2>8. CallsConsistent'
    BY <1>1, <1>3, <2>1, <2>3, <2>4, <2>5, <2>6, <2>7 DEF CallsConsistent
  <2>. QED
    BY <1>1, <1>2, <2>1, <2>3, <2>8, ProfilesKept DEF IInv, SignedInIsSaved, SavedHasAccount
<1>7. ASSUME NEW c \in Calls, OnPutData(c) \/ OnDownloadURL(c) \/ OnUpdateChildValues(c)
      PROVE  IInv'
  <2>1. UNCHANGED <<account, keychain, currentUser, phase, email, uid, blobs, profiles>>
    BY <1>7 DEF OnPutData, OnDownloadURL, OnUpdateChildValues, authVars
  <2>2. \E s \in {"resolving", "writing", "done", "abandoned"} :
            /\ step' = [step EXCEPT ![c] = s]
            /\ step[c] \in {"uploading", "resolving", "writing"}
            /\ s \in {"resolving", "writing"} => c \in blobs
    BY <1>7 DEF OnPutData, OnDownloadURL, OnUpdateChildValues, OnWriteAcknowledged,
                OnWriteRejected, At, GoTo
  <2>3. Accounts' = Accounts
    BY <2>1 DEF Accounts
  <2>4. phase[c] # "unused"
    BY <1>1, <2>2 DEF CallsConsistent
  <2>5. CallsConsistent'
    BY <1>1, <1>3, <2>1, <2>2, <2>3, <2>4 DEF CallsConsistent
  <2>. QED
    BY <1>1, <1>2, <2>1, <2>3, <2>5, ProfilesKept DEF IInv, SignedInIsSaved, SavedHasAccount
<1>8. ASSUME NEW c \in Calls, StoreBlob(c)
      PROVE  IInv'
  <2>1. /\ UNCHANGED <<account, keychain, currentUser, phase, email, uid, step, profiles>>
        /\ blobs' = blobs \cup {c}
    BY <1>8 DEF StoreBlob, authVars
  <2>2. Accounts' = Accounts
    BY <2>1 DEF Accounts
  <2>3. CallsConsistent'
    BY <1>1, <2>1, <2>2 DEF CallsConsistent
  <2>. QED
    BY <1>1, <1>2, <2>1, <2>2, <2>3, ProfilesKept DEF IInv, SignedInIsSaved, SavedHasAccount
<1>9. ASSUME NEW c \in Calls, ApplyWrite(c)
      PROVE  IInv'
  <2>1. /\ step[c] = "writing"
        /\ UNCHANGED <<account, keychain, currentUser, phase, email, uid, step, blobs>>
        /\ profiles' = [profiles EXCEPT ![uid[c]] = c]
    BY <1>9 DEF ApplyWrite, At, authVars
  <2>2. uid[c] = c /\ account[email[c]] = c /\ c \in blobs /\ phase[c] # "unused"
    BY <1>1, <2>1 DEF CallsConsistent
  <2>3. Accounts' = Accounts
    BY <2>1 DEF Accounts
  <2>4. \A u \in Calls : profiles'[u] = IF u = c THEN c ELSE profiles[u]
    BY <1>3, <2>1, <2>2
  <2>5. CallsConsistent'
    BY <1>1, <2>1, <2>2, <2>3, <2>4 DEF CallsConsistent
  <2>6. NoDanglingProfile'
    BY <1>1, <2>1, <2>2, <2>4 DEF NoDanglingProfile
  <2>. QED
    BY <1>1, <1>2, <2>1, <2>3, <2>5, <2>6 DEF IInv, SignedInIsSaved, SavedHasAccount
<1>10. CASE SignedOut
  <2>1. /\ UNCHANGED <<account, phase, email, uid, step, blobs, profiles>>
        /\ currentUser' = NoUid /\ keychain' \in {NoUid, keychain}
    BY <1>10 DEF SignedOut, SignOutByForce
  <2>2. Accounts' = Accounts
    BY <2>1 DEF Accounts
  <2>3. CallsConsistent'
    BY <1>1, <2>1, <2>2 DEF CallsConsistent
  <2>. QED
    BY <1>1, <1>2, <2>1, <2>2, <2>3, ProfilesKept DEF IInv, SignedInIsSaved, SavedHasAccount
<1>11. CASE Kill
  <2>1. /\ UNCHANGED <<account, keychain, email, uid, blobs, profiles>>
        /\ currentUser' = NoUid
        /\ phase' = [c \in Calls |-> IF phase[c] = "unused" THEN "unused" ELSE "ended"]
        /\ step' = [c \in Calls |-> IF step[c] \in UnderWay THEN "abandoned" ELSE step[c]]
    BY <1>11 DEF Kill, AuthKill
  <2>2. Accounts' = Accounts
    BY <2>1 DEF Accounts
  <2>3. CallsConsistent'
    BY <1>1, <1>3, <2>1, <2>2 DEF CallsConsistent, UnderWay
  <2>. QED
    BY <1>1, <1>2, <2>1, <2>2, <2>3, ProfilesKept DEF IInv, SignedInIsSaved, SavedHasAccount
<1>12. CASE Launch
  <2>1. /\ UNCHANGED <<account, keychain, phase, email, uid, step, blobs, profiles>>
        /\ currentUser' \in {keychain, NoUid}
    BY <1>12 DEF Launch, AuthLaunch
  <2>2. Accounts' = Accounts
    BY <2>1 DEF Accounts
  <2>3. CallsConsistent'
    BY <1>1, <2>1, <2>2 DEF CallsConsistent
  <2>. QED
    BY <1>1, <1>2, <2>1, <2>2, <2>3, ProfilesKept DEF IInv, SignedInIsSaved, SavedHasAccount
<1>13. CASE UNCHANGED vars
  <2>1. UNCHANGED <<account, keychain, currentUser, phase, email, uid, step, blobs, profiles>>
    BY <1>13 DEF vars
  <2>2. Accounts' = Accounts
    BY <2>1 DEF Accounts
  <2>3. CallsConsistent'
    BY <1>1, <2>1, <2>2 DEF CallsConsistent
  <2>. QED
    BY <1>1, <1>2, <2>1, <2>2, <2>3, ProfilesKept DEF IInv, SignedInIsSaved, SavedHasAccount
<1>. QED
  BY <1>4, <1>5, <1>6, <1>7, <1>8, <1>9, <1>10, <1>11, <1>12, <1>13 DEF Next, Progress

\* The inductive invariant holds in every reachable state.
THEOREM Safety == Spec => []IInv
BY InitIInv, NextIInv, PTL DEF Spec

\* However attempts overlap, fail or are cut off by a crash, a stored profile
\* belongs to the account registered under its address and its photo exists.
THEOREM ProfilesNeverDangle == Spec => []NoDanglingProfile
BY Safety, PTL DEF IInv

\* A signed-in user is the saved one, and has an account.
THEOREM SignedInUsersAreSaved == Spec => [](SignedInIsSaved /\ SavedHasAccount)
BY Safety, PTL DEF IInv

-----------------------------------------------------------------------------
(***************************************************************************)
(* Refinement of Registration.                                             *)
(***************************************************************************)

LEMMA InitRefines == Init => Registry!Init
<1>. SUFFICES ASSUME Init
              PROVE  Registry!Init
  OBVIOUS
<1>. USE AuthAssumption, EarlierAssumption, ProfileAssumption DEF Uids
<1>1. Accounts = DOMAIN Earlier /\ \A c \in DOMAIN Earlier : account[Earlier[c]] = c
  BY InitAccounts
<1>2. account \in [Emails -> Uids \cup {NoUid}]
  BY InitTypeOK DEF TypeOK, AuthTypeOK
<1>3. \A e, f \in Emails : account[e] = account[f] /\ account[e] # NoUid => e = f
  BY DEF Init, AuthInit
<1>4. \A u \in Uids : u \in DOMAIN Earlier <=> \E e \in Emails : account[e] = u
  BY <1>1 DEF Accounts
<1>5. \A u \in Uids : Stage(u) = IF u \in DOMAIN Earlier THEN "complete" ELSE "none"
  BY <1>1 DEF Init, Stage
<1>6. Stages = [u \in Uids |-> IF \E e \in Emails : account[e] = u
                               THEN "complete" ELSE "none"]
  BY <1>4, <1>5 DEF Stages
<1>. QED
  BY <1>2, <1>3, <1>6 DEF Registry!Init

\* A profile that exists has its photo, so it is complete.
LEMMA StageOfProfile ==
    ASSUME NoDanglingProfile, NEW u \in Uids
    PROVE  Stage(u) = IF profiles[u] # NoProfile THEN "complete"
                      ELSE IF u \notin Accounts THEN "none"
                      ELSE IF step[u] \in UnderWay THEN "account" ELSE "abandoned"
BY DEF Stage, NoDanglingProfile

\* A step that leaves accounts and profiles alone, and ends the attempts of a set
\* D without starting any for an account, abandons the accounts of D.
LEMMA EndingAttempts ==
    ASSUME IInv, IInv', UNCHANGED <<account, profiles>>,
           \A u \in Accounts : step'[u] \in UnderWay => step[u] \in UnderWay
    PROVE  Registry!Next
<1>. DEFINE S == {u \in Uids : Stage(u) = "account" /\ step'[u] \notin UnderWay}
<1>1. Accounts' = Accounts
  BY DEF Accounts
<1>2. \A u \in Uids : Stage(u)' = IF u \in S THEN "abandoned" ELSE Stage(u)
  <2>. SUFFICES ASSUME NEW u \in Uids
                PROVE  Stage(u)' = IF u \in S THEN "abandoned" ELSE Stage(u)
    OBVIOUS
  <2>1. Stage(u) = IF profiles[u] # NoProfile THEN "complete"
                   ELSE IF u \notin Accounts THEN "none"
                   ELSE IF step[u] \in UnderWay THEN "account" ELSE "abandoned"
    BY StageOfProfile DEF IInv
  <2>2. Stage(u)' = IF profiles[u] # NoProfile THEN "complete"
                    ELSE IF u \notin Accounts THEN "none"
                    ELSE IF step'[u] \in UnderWay THEN "account" ELSE "abandoned"
    BY <1>1 DEF IInv, Stage, NoDanglingProfile
  <2>. QED
    BY <2>1, <2>2
<1>3. Stages' = [u \in Uids |-> IF u \in S THEN "abandoned" ELSE Stages[u]]
  BY <1>2 DEF Stages
<1>4. \A u \in S : Stages[u] = "account"
  BY DEF Stages
<1>5. Registry!Abandon(S)
  BY <1>3, <1>4 DEF Registry!Abandon
<1>. QED
  BY <1>5 DEF Registry!Next

LEMMA NextRefines == IInv /\ IInv' /\ [Next]_vars => [Registry!Next]_(Registry!vars)
<1>. SUFFICES ASSUME IInv, IInv', [Next]_vars
              PROVE  [Registry!Next]_(Registry!vars)
  OBVIOUS
<1>. USE AuthAssumption, ProfileAssumption DEF Uids
<1>1. /\ TypeOK /\ AuthTypeOK /\ CallsConsistent /\ NoDanglingProfile /\ NoDanglingProfile'
  BY DEF IInv, TypeOK
<1>2. /\ phase \in [Calls -> Phases] /\ step \in [Calls -> Steps]
      /\ profiles \in [Calls -> Calls \cup {NoProfile}]
      /\ account \in [Emails -> Calls \cup {NoUid}]
      /\ Accounts \subseteq Calls
  BY <1>1 DEF AuthTypeOK, TypeOK, Accounts
<1>3. ASSUME NEW c \in Calls, NEW e \in Emails, HandleSignUp(c, e) \/ HandleSignIn(c, e)
      PROVE  Registry!Next
  <2>1. /\ UNCHANGED <<account, profiles>>
        /\ phase[c] = "unused"
        /\ step' \in {step, [step EXCEPT ![c] = "creating"]}
    BY <1>3 DEF HandleSignUp, HandleSignIn, CreateUser, SignIn, Request, GoTo
  <2>2. c \notin Accounts
    BY <1>1, <2>1 DEF CallsConsistent
  <2>3. \A u \in Accounts : step'[u] = step[u]
    BY <1>2, <2>1, <2>2
  <2>. QED
    BY <2>1, <2>3, EndingAttempts
<1>4. ASSUME NEW c \in Calls, Service(c), Created(c)
      PROVE  Registry!Next
  <2>. DEFINE e == email[c]
  <2>1. /\ phase[c] = "creating" /\ account[e] = NoUid
        /\ account' = [account EXCEPT ![e] = c]
        /\ UNCHANGED <<step, profiles, blobs>>
    BY <1>4 DEF Service, Created
  <2>2. e \in Emails /\ step[c] = "creating" /\ c \notin Accounts
    BY <1>1, <2>1 DEF CallsConsistent
  <2>3. Accounts' = Accounts \cup {c}
    <3>1. \A f \in Emails : account'[f] = IF f = e THEN c ELSE account[f]
      BY <1>2, <2>1, <2>2
    <3>. QED
      BY <2>1, <2>2, <3>1 DEF Accounts
  <2>4. profiles[c] = NoProfile
    <3>1. SUFFICES ASSUME profiles[c] # NoProfile
                   PROVE  FALSE
      OBVIOUS
    <3>2. account[email[profiles[c]]] = c
      BY <1>1, <3>1 DEF NoDanglingProfile
    <3>3. email[profiles[c]] \in Emails
      BY <1>1, <1>2, <3>1 DEF CallsConsistent
    <3>. QED
      BY <2>2, <3>2, <3>3 DEF Accounts
  <2>5. Stage(c) = "none" /\ Stage(c)' = "account"
    BY <2>1, <2>2, <2>3, <2>4 DEF Stage, UnderWay
  <2>6. \A u \in Calls \ {c} : Stage(u)' = Stage(u)
    BY <2>1, <2>3 DEF Stage
  <2>7. Stages' = [Stages EXCEPT ![c] = "account"] /\ Stages[c] = "none"
    BY <2>5, <2>6 DEF Stages
  <2>8. Registry!Register(c, e)
    BY <2>1, <2>7 DEF Registry!Register
  <2>. QED
    BY <2>2, <2>8 DEF Registry!Next
<1>5. ASSUME NEW c \in Calls, Service(c), ~Created(c)
      PROVE  Registry!Next
  <2>1. UNCHANGED <<account, step, profiles>>
    BY <1>5 DEF Service, Answer, Verified, CallFails, SaveUser
  <2>. QED
    BY <2>1, EndingAttempts
<1>6. ASSUME NEW c \in Calls, OnSignIn(c) \/ OnCreateUser(c)
      PROVE  Registry!Next
  <2>1. /\ UNCHANGED <<account, profiles>>
        /\ \/ step' = step
           \/ /\ step[c] = "creating"
              /\ \E s \in Steps : step' = [step EXCEPT ![c] = s]
    BY <1>6 DEF OnSignIn, OnCreateUser, Deliver, GoTo, Steps
  <2>2. \A u \in Accounts : step'[u] \in UnderWay => step[u] \in UnderWay
    BY <1>2, <2>1 DEF UnderWay
  <2>. QED
    BY <2>1, <2>2, EndingAttempts
<1>7. ASSUME NEW c \in Calls, OnPutData(c) \/ OnDownloadURL(c) \/ OnUpdateChildValues(c)
      PROVE  Registry!Next
  <2>1. /\ UNCHANGED <<account, profiles>>
        /\ step[c] \in UnderWay
        /\ \E s \in Steps : step' = [step EXCEPT ![c] = s]
    BY <1>7 DEF OnPutData, OnDownloadURL, OnUpdateChildValues, OnWriteAcknowledged,
                OnWriteRejected, At, GoTo, authVars, Steps, UnderWay
  <2>2. \A u \in Accounts : step'[u] \in UnderWay => step[u] \in UnderWay
    BY <1>2, <2>1
  <2>. QED
    BY <2>1, <2>2, EndingAttempts
<1>8. ASSUME NEW c \in Calls, StoreBlob(c)
      PROVE  Registry!Next
  <2>1. UNCHANGED <<account, step, profiles>>
    BY <1>8 DEF StoreBlob, authVars
  <2>. QED
    BY <2>1, EndingAttempts
<1>9. ASSUME NEW c \in Calls, ApplyWrite(c)
      PROVE  [Registry!Next]_(Registry!vars)
  <2>1. /\ step[c] = "writing"
        /\ UNCHANGED <<account, step, blobs>>
        /\ profiles' = [profiles EXCEPT ![uid[c]] = c]
    BY <1>9 DEF ApplyWrite, At, authVars
  <2>2. uid[c] = c /\ account[email[c]] = c /\ c \in blobs /\ email[c] \in Emails
    BY <1>1, <2>1 DEF CallsConsistent
  <2>3. c \in Accounts /\ Accounts' = Accounts
    BY <2>1, <2>2 DEF Accounts
  <2>4. \A u \in Calls : profiles'[u] = IF u = c THEN c ELSE profiles[u]
    BY <1>2, <2>1, <2>2
  <2>5. Stage(c) \in {"account", "complete"} /\ Stage(c)' = "complete"
    BY <2>1, <2>2, <2>3, <2>4 DEF Stage, UnderWay
  <2>6. \A u \in Calls \ {c} : Stage(u)' = Stage(u)
    BY <2>1, <2>3, <2>4 DEF Stage
  <2>7. Stages' = [Stages EXCEPT ![c] = "complete"] /\ Stages[c] \in {"account", "complete"}
    BY <2>5, <2>6 DEF Stages
  <2>8. CASE Stages[c] = "account"
    BY <2>1, <2>7, <2>8 DEF Registry!Next, Registry!Complete
  <2>9. CASE Stages[c] = "complete"
    <3>1. Stages' = Stages
      BY <2>7, <2>9 DEF Stages
    <3>. QED
      BY <2>1, <3>1 DEF Registry!vars
  <2>. QED
    BY <2>7, <2>8, <2>9
<1>10. CASE SignedOut \/ Launch
  <2>1. UNCHANGED <<account, step, profiles>>
    BY <1>10 DEF SignedOut, SignOutByForce, Launch, AuthLaunch
  <2>. QED
    BY <2>1, EndingAttempts
<1>11. CASE Kill
  <2>1. /\ UNCHANGED <<account, profiles>>
        /\ step' = [c \in Calls |-> IF step[c] \in UnderWay THEN "abandoned" ELSE step[c]]
    BY <1>11 DEF Kill, AuthKill
  <2>2. \A u \in Accounts : step'[u] \in UnderWay => step[u] \in UnderWay
    BY <1>2, <2>1 DEF UnderWay
  <2>. QED
    BY <2>1, <2>2, EndingAttempts
<1>12. CASE UNCHANGED vars
  <2>1. UNCHANGED <<account, step, profiles>>
    BY <1>12 DEF vars
  <2>. QED
    BY <2>1, EndingAttempts
<1>. QED
  BY <1>3, <1>4, <1>5, <1>6, <1>7, <1>8, <1>9, <1>10, <1>11, <1>12 DEF Next, Progress

\* Signing up implements Registration: accounts are never taken back or doubled,
\* and an account whose attempt has ended without a profile never gets one.
THEOREM Refinement == Spec => RegistrationSpec
BY InitRefines, NextRefines, Safety, PTL DEF Spec, RegistrationSpec, Registry!Spec

-----------------------------------------------------------------------------
(***************************************************************************)
(* Session implements SignUp.                                              *)
(***************************************************************************)

\* The steps of the two buttons, the services and the completions, by name.
LEMMA StepRefines == [SessionNext]_sessionVars => [Next]_vars
<1>. SUFFICES ASSUME [SessionNext]_sessionVars
              PROVE  [Next]_vars
  OBVIOUS
<1>1. CASE Screens
  <2>1. CASE ShowSignUp \/ ShowLogin \/ EditField \/ PickPhoto \/ ShowHeader
    BY <2>1 DEF ShowSignUp, ShowLogin, EditField, PickPhoto, ShowHeader
  <2>2. CASE \E c \in Calls, e \in Emails : PressSignUp(c, e) \/ PressSignIn(c, e)
    BY <2>2 DEF PressSignUp, PressSignIn, Next
  <2>3. CASE \E c \in Calls : SignInFailed(c)
    BY <2>3 DEF SignInFailed, Next, Progress
  <2>4. CASE ShowHeaderOfNobody
    BY <2>4 DEF ShowHeaderOfNobody, Next
  <2>5. CASE \E f \in fetches : HeaderRead(f)
    BY <2>5 DEF HeaderRead
  <2>. QED
    BY <1>1, <2>1, <2>2, <2>3, <2>4, <2>5 DEF Screens
<1>2. CASE Behind
  BY <1>2 DEF Behind, Next, Progress
<1>3. CASE \E c \in Calls : SignedIn(c)
  BY <1>3 DEF SignedIn, Next, Progress
<1>4. CASE SessionKill \/ SessionLaunch
  BY <1>4 DEF SessionKill, SessionLaunch, Next
<1>5. CASE UNCHANGED sessionVars
  BY <1>5 DEF sessionVars
<1>. QED
  BY <1>1, <1>2, <1>3, <1>4, <1>5 DEF SessionNext

\* The screens add to SignUp and take nothing away: every behaviour with them
\* is one of handleSignUp, sign-in and their services.
THEOREM SessionImplementsSignUp == SessionSpec => SignUpSpec
<1>1. SessionInit => Init
  BY DEF SessionInit
<1>. QED
  BY <1>1, StepRefines, PTL DEF SessionSpec, SignUpSpec, Spec

\* Hence a stored profile never dangles behind the screens either.
THEOREM SessionIsSafe == SessionSpec => []IInv
BY SessionImplementsSignUp, Safety, PTL DEF SignUpSpec

-----------------------------------------------------------------------------
(***************************************************************************)
(* The inductive invariant of the screens.                                 *)
(***************************************************************************)

\* The form: the flag and the picture, besides the button.
FormInv == NeverUploadsPlaceholder /\ (form.imageSelected => form.picked)

\* The header: whoever is signed in has been since the tabs were built.
HeaderInv == HeaderUserWasCurrent /\ (currentUser # NoUid => currentUser \in since)

\* While no process runs there is nobody and nothing to answer.
Down == ~running => /\ currentUser = NoUid /\ headerUser = NoUid /\ fetches = {}
                    /\ \A c \in Calls : phase[c] \notin Queued

\* A completion that will dismiss the login screen was queued for a user who is
\* still the current one, or another is, or somebody was signed out by force.
LoginInv == /\ SignedInBehindLogin
            /\ running /\ currentUser = NoUid /\ (\E c \in Calls : phase[c] = "ok") => forcedOut

ScreensInv == SessionTypeOK /\ FormInv /\ HeaderInv /\ Down /\ LoginInv

LEMMA InitScreens == SessionInit => ScreensInv
<1>. SUFFICES ASSUME SessionInit
              PROVE  ScreensInv
  OBVIOUS
<1>1. TypeOK
  BY InitTypeOK DEF SessionInit
<1>2. /\ signUpOpen = FALSE /\ form = NewForm /\ tabs = 1 /\ fetches = {} /\ headerUser = NoUid
      /\ nilUnwrap = FALSE /\ since = {} /\ forcedOut = FALSE
  BY DEF SessionInit
<1>3. /\ currentUser = NoUid /\ running = TRUE /\ loginShown = TRUE
      /\ \A c \in Calls : phase[c] \in {"ended", "unused"}
  BY DEF SessionInit, Init, AuthInit
<1>4. SessionTypeOK
  <2>1. form \in [filled : BOOLEAN, imageSelected : BOOLEAN, picked : BOOLEAN, enabled : BOOLEAN]
    BY <1>2 DEF NewForm
  <2>2. signUpOpen \in BOOLEAN /\ nilUnwrap \in BOOLEAN /\ forcedOut \in BOOLEAN
    BY <1>2
  <2>3. tabs \in Nat \ {0} /\ headerUser \in Uids \cup {NoUid} /\ since \subseteq Uids
        /\ fetches \subseteq [tabs : Nat \ {0}, uid : Uids]
    BY <1>2
  <2>. QED
    BY <1>1, <2>1, <2>2, <2>3 DEF SessionTypeOK
<1>5. FormInv /\ HeaderInv
  BY <1>2, <1>3 DEF FormInv, NeverUploadsPlaceholder, NewForm, HeaderInv, HeaderUserWasCurrent
<1>6. Down /\ LoginInv
  BY <1>2, <1>3 DEF Down, LoginInv, SignedInBehindLogin, OnTabs
<1>. QED
  BY <1>4, <1>5, <1>6 DEF ScreensInv

\* What every step does to the form.
LEMMA FormStep ==
    ASSUME SessionTypeOK, FormInv, [SessionNext]_sessionVars
    PROVE  FormInv' /\ form' \in [filled : BOOLEAN, imageSelected : BOOLEAN, picked : BOOLEAN,
                                  enabled : BOOLEAN]
<1>1. form \in [filled : BOOLEAN, imageSelected : BOOLEAN, picked : BOOLEAN, enabled : BOOLEAN]
  BY DEF SessionTypeOK
<1>2. CASE form' = form
  BY <1>1, <1>2 DEF FormInv, NeverUploadsPlaceholder
<1>3. CASE form' = NewForm
  BY <1>3 DEF FormInv, NeverUploadsPlaceholder, NewForm
<1>4. CASE EditField
  BY <1>1, <1>4 DEF EditField, FormInv, NeverUploadsPlaceholder
<1>5. CASE PickPhoto
  BY <1>1, <1>5 DEF PickPhoto, FormInv, NeverUploadsPlaceholder
<1>6. form' = form \/ form' = NewForm \/ EditField \/ PickPhoto
  <2>1. CASE Screens
    BY <2>1 DEF Screens, ShowSignUp, ShowLogin, PressSignUp, PressSignIn, SignInFailed, ShowHeader,
                ShowHeaderOfNobody, ResetScreens, HeaderRead, uiVars
  <2>2. CASE Behind \/ SessionLaunch \/ UNCHANGED sessionVars
    BY <2>2 DEF Behind, SessionLaunch, uiVars, sessionVars
  <2>3. CASE SessionKill \/ \E c \in Calls : SignedIn(c)
    BY <2>3 DEF SessionKill, ResetScreens, SignedIn
  <2>. QED
    BY <2>1, <2>2, <2>3 DEF SessionNext
<1>. QED
  BY <1>2, <1>3, <1>4, <1>5, <1>6

-----------------------------------------------------------------------------
\* What a step of Auth's services, or of a sign-up's completions, leaves alone.
LEMMA BehindStep ==
    ASSUME Behind
    PROVE  /\ loginShown' = loginShown /\ running' = running /\ UNCHANGED uiVars
BY DEF Behind, Service, Answer, Created, Verified, CallFails, SaveUser, OnCreateUser, Deliver,
       StoreBlob, OnPutData, OnDownloadURL, ApplyWrite, OnUpdateChildValues, SignedOut,
       SignOutByForce, authVars

\* The tabs, the header and the reads for it: what every step does to them.
LEMMA HeaderStep ==
    ASSUME SessionTypeOK, SessionTypeOK', HeaderInv, Down, SessionNext
    PROVE  HeaderInv'
<1>1. /\ tabs \in Nat /\ \A f \in fetches : f.tabs \in Nat
      /\ currentUser' \in Uids \cup {NoUid}
  BY DEF SessionTypeOK, TypeOK, AuthTypeOK
<1>2. currentUser' # NoUid => currentUser' \in since'
  BY DEF SessionNext, Record
<1>3. CASE Screens /\ Record(FALSE)
  <2>1. since \subseteq since'
    BY <1>3 DEF Record
  <2>2. CASE ShowHeader
    BY <1>1, <1>2, <2>1, <2>2 DEF ShowHeader, HeaderInv, HeaderUserWasCurrent
  <2>3. CASE \E f \in fetches : HeaderRead(f)
    BY <1>1, <1>2, <2>1, <2>3 DEF HeaderRead, HeaderInv, HeaderUserWasCurrent
  <2>4. CASE ShowHeaderOfNobody
    BY <1>2, <2>4 DEF ShowHeaderOfNobody, ResetScreens, HeaderInv, HeaderUserWasCurrent
  <2>5. CASE UNCHANGED <<tabs, fetches, headerUser>>
    BY <1>1, <1>2, <2>1, <2>5 DEF HeaderInv, HeaderUserWasCurrent
  <2>. QED
    BY <1>3, <2>2, <2>3, <2>4, <2>5 DEF Screens, ShowSignUp, ShowLogin, EditField, PickPhoto,
       PressSignUp, PressSignIn, SignInFailed, uiVars
<1>4. CASE Behind /\ Record(FALSE)
  BY <1>1, <1>2, <1>4 DEF Behind, uiVars, Record, HeaderInv, HeaderUserWasCurrent
<1>5. CASE (\E c \in Calls : SignedIn(c)) /\ Record(TRUE)
  BY <1>1, <1>2, <1>5 DEF SignedIn, HeaderInv, HeaderUserWasCurrent
<1>6. CASE SessionKill
  BY <1>2, <1>6 DEF SessionKill, ResetScreens, HeaderInv, HeaderUserWasCurrent
<1>7. CASE SessionLaunch
  BY <1>2, <1>7 DEF SessionLaunch, Launch, AuthLaunch, uiVars, Down, HeaderInv, HeaderUserWasCurrent
<1>. QED
  BY <1>3, <1>4, <1>5, <1>6, <1>7 DEF SessionNext

\* When no process runs nothing is left of it.
LEMMA DownStep ==
    ASSUME Down, SessionNext
    PROVE  Down'
<1>1. CASE SessionKill \/ ShowHeaderOfNobody
  <2>1. \A c \in Calls : phase'[c] \in {"unused", "ended"}
    BY <1>1 DEF SessionKill, ShowHeaderOfNobody, Kill, AuthKill
  <2>. QED
    BY <1>1, <2>1 DEF SessionKill, ShowHeaderOfNobody, Kill, AuthKill, ResetScreens, Down, Queued
<1>2. CASE SessionLaunch
  BY <1>2 DEF SessionLaunch, Launch, AuthLaunch, Down
<1>3. CASE Screens /\ ~ShowHeaderOfNobody /\ running
  <2>1. running'
    BY <1>3 DEF Screens, ShowSignUp, ShowLogin, EditField, PickPhoto, PressSignUp, PressSignIn,
       HandleSignUp, HandleSignIn, CreateUser, SignIn, Request, SignInFailed, OnSignIn, Deliver,
       ShowHeader, HeaderRead, vars
  <2>. QED
    BY <2>1 DEF Down
<1>4. CASE Screens /\ ~ShowHeaderOfNobody /\ ~running
  <2>1. \E c \in Calls : OnSignIn(c)
    BY <1>4 DEF Screens, ShowSignUp, ShowLogin, EditField, PickPhoto, PressSignUp, PressSignIn,
       OnLogin, OnSignUp, OnTabs, SignInFailed, ShowHeader, HeaderRead
  <2>. QED
    BY <1>4, <2>1 DEF OnSignIn, Deliver, Down
<1>5. CASE Behind
  BY <1>5 DEF Behind, Service, Answer, Created, Verified, CallFails, SaveUser, OnCreateUser, Deliver,
     StoreBlob, OnPutData, OnDownloadURL, ApplyWrite, OnUpdateChildValues, SignedOut, At,
     SignOutByForce, authVars, uiVars, Down
<1>6. CASE \E c \in Calls : SignedIn(c)
  BY <1>6 DEF SignedIn, OnSignIn, Deliver, Down
<1>. QED
  BY <1>1, <1>2, <1>3, <1>4, <1>5, <1>6 DEF SessionNext
\* The login screen goes when a sign-in was completed, whoever is signed in then.
LEMMA LoginStep ==
    ASSUME IInv, Down, LoginInv, SessionNext
    PROVE  LoginInv'
<1>. USE AuthAssumption
<1>1. /\ phase \in [Calls -> Phases]
      /\ \A c \in Calls : phase[c] = "info" => uid[c] # NoUid
  BY DEF IInv, TypeOK, AuthTypeOK, CallsConsistent, Accounts
<1>2. forcedOut' = (running /\ running' /\ currentUser' = NoUid /\ (currentUser # NoUid \/ forcedOut))
  BY DEF SessionNext, Record
<1>3. CASE currentUser' # NoUid \/ ~running'
  BY <1>3 DEF LoginInv, SignedInBehindLogin, OnTabs
<1>4. CASE running /\ running' /\ currentUser # NoUid /\ currentUser' = NoUid
  BY <1>2, <1>4 DEF LoginInv, SignedInBehindLogin, OnTabs
<1>5. ASSUME running, running', currentUser = NoUid, currentUser' = NoUid
      PROVE  LoginInv'
  <2>1. CASE loginShown' = loginShown /\ \A c \in Calls : phase'[c] = "ok" => phase[c] = "ok"
    BY <1>2, <1>5, <2>1 DEF LoginInv, SignedInBehindLogin, OnTabs
  <2>2. CASE \E c \in Calls : OnSignIn(c)
    <3>1. PICK c \in Calls : OnSignIn(c)
      BY <2>2
    <3>2. \A d \in Calls : phase'[d] = "ok" => phase[d] = "ok"
      BY <1>1, <3>1 DEF OnSignIn, Deliver
    <3>3. CASE phase[c] = "ok"
      BY <1>2, <1>5, <3>1, <3>3 DEF LoginInv, SignedInBehindLogin, OnTabs
    <3>4. CASE phase[c] = "error"
      <4>1. ~loginShown' => ~loginShown
        BY <3>1, <3>4 DEF OnSignIn
      <4>. QED
        BY <1>2, <1>5, <3>2, <4>1 DEF LoginInv, SignedInBehindLogin, OnTabs
    <3>. QED
      BY <3>1, <3>3, <3>4 DEF OnSignIn, Deliver, Queued
  <2>3. CASE Behind
    <3>1. ASSUME NEW c \in Calls, Service(c)
          PROVE  \A d \in Calls : phase'[d] = "ok" => phase[d] = "ok"
      <4>1. ~SaveUser(c)
        BY <1>1, <1>5 DEF SaveUser
      <4>. QED
        BY <1>1, <3>1, <4>1 DEF Service, Answer, Created, Verified, CallFails, Finish
    <3>2. \A d \in Calls : phase'[d] = "ok" => phase[d] = "ok"
      BY <1>1, <2>3, <3>1 DEF Behind, OnCreateUser, Deliver, StoreBlob, OnPutData, OnDownloadURL,
         ApplyWrite, OnUpdateChildValues, SignedOut, SignOutByForce, authVars
    <3>. QED
      BY <2>1, <2>3, <3>2, BehindStep
  <2>4. CASE Screens /\ ~(\E c \in Calls : OnSignIn(c))
    <3>1. loginShown' = loginShown
      BY <1>5, <2>4 DEF Screens, ShowSignUp, ShowLogin, EditField, PickPhoto, PressSignUp, PressSignIn,
         HandleSignUp, HandleSignIn, SignInFailed, ShowHeader, ShowHeaderOfNobody, Kill, AuthKill,
         HeaderRead, vars
    <3>2. \A d \in Calls : phase'[d] = "ok" => phase[d] = "ok"
      BY <1>1, <1>5, <2>4 DEF Screens, ShowSignUp, ShowLogin, EditField, PickPhoto, PressSignUp,
         PressSignIn, HandleSignUp, HandleSignIn, CreateUser, SignIn, Request, SignInFailed, ShowHeader,
         ShowHeaderOfNobody, Kill, AuthKill, HeaderRead, vars
    <3>. QED
      BY <2>1, <3>1, <3>2
  <2>5. ~SessionKill /\ ~SessionLaunch
    BY <1>5 DEF SessionKill, Kill, AuthKill, SessionLaunch, Launch, AuthLaunch
  <2>. QED
    BY <2>2, <2>3, <2>4, <2>5 DEF SessionNext, SignedIn
<1>6. ASSUME ~running, running', currentUser' = NoUid
      PROVE  LoginInv'
  <2>1. SessionLaunch
    BY <1>6, BehindStep DEF SessionNext, SessionKill, Kill, AuthKill, SignedIn, OnSignIn, Deliver,
       Screens, ShowSignUp, ShowLogin, EditField, PickPhoto, PressSignUp, PressSignIn, OnLogin,
       OnSignUp, OnTabs, SignInFailed, ShowHeader, ShowHeaderOfNobody, HeaderRead
  <2>2. loginShown' /\ \A c \in Calls : phase'[c] # "ok"
    BY <1>6, <2>1 DEF SessionLaunch, Launch, AuthLaunch, Down, Queued
  <2>. QED
    BY <2>2 DEF LoginInv, SignedInBehindLogin, OnTabs
<1>7. running \in BOOLEAN /\ running' \in BOOLEAN
  <2>1. IInv'
    BY NextIInv, StepRefines
  <2>. QED
    BY <2>1 DEF IInv, TypeOK, AuthTypeOK
<1>. QED
  BY <1>3, <1>4, <1>5, <1>6, <1>7

-----------------------------------------------------------------------------
\* The type of the history follows from what Record writes.
LEMMA SessionTypeStep ==
    ASSUME SessionTypeOK, TypeOK', FormInv, SessionNext
    PROVE  SessionTypeOK'
<1>1. form' \in [filled : BOOLEAN, imageSelected : BOOLEAN, picked : BOOLEAN, enabled : BOOLEAN]
  BY FormStep
<1>2. since' \subseteq Uids /\ forcedOut' \in BOOLEAN
  BY DEF SessionNext, Record, SessionTypeOK, TypeOK, AuthTypeOK
<1>3. tabs' \in Nat \ {0}
  <2>1. tabs' = tabs \/ tabs' = 1 \/ tabs' = tabs + 1
    BY DEF SessionNext, Screens, ShowSignUp, ShowLogin, EditField, PickPhoto, PressSignUp,
       PressSignIn, SignInFailed, ShowHeader, ShowHeaderOfNobody, ResetScreens, HeaderRead, Behind,
       SessionKill, SessionLaunch, SignedIn, uiVars
  <2>. QED
    BY <2>1 DEF SessionTypeOK
<1>4. fetches' \subseteq [tabs : Nat \ {0}, uid : Uids] /\ headerUser' \in Uids \cup {NoUid}
  <2>1. CASE ShowHeader
    BY <2>1 DEF SessionTypeOK, ShowHeader, TypeOK, AuthTypeOK
  <2>2. CASE \E f \in fetches : HeaderRead(f)
    BY <2>2 DEF SessionTypeOK, HeaderRead
  <2>3. CASE ShowHeaderOfNobody \/ SessionKill
    BY <2>3 DEF ShowHeaderOfNobody, SessionKill, ResetScreens
  <2>4. CASE \E c \in Calls : SignedIn(c)
    BY <2>4 DEF SessionTypeOK, SignedIn
  <2>5. CASE UNCHANGED <<fetches, headerUser>>
    BY <2>5 DEF SessionTypeOK
  <2>. QED
    BY <2>1, <2>2, <2>3, <2>4, <2>5 DEF SessionNext, Screens, ShowSignUp, ShowLogin, EditField,
       PickPhoto, PressSignUp, PressSignIn, SignInFailed, Behind, SessionLaunch, uiVars
<1>5. signUpOpen' \in BOOLEAN /\ nilUnwrap' \in BOOLEAN
  BY DEF SessionTypeOK, SessionNext, Screens, ShowSignUp, ShowLogin, EditField, PickPhoto, PressSignUp,
     PressSignIn, SignInFailed, ShowHeader, ShowHeaderOfNobody, ResetScreens, HeaderRead, Behind,
     SessionKill, SessionLaunch, SignedIn, uiVars
<1>. QED
  BY <1>1, <1>2, <1>3, <1>4, <1>5 DEF SessionTypeOK

\* Every step keeps the invariant of the screens.
LEMMA NextScreens == IInv /\ ScreensInv /\ [SessionNext]_sessionVars => ScreensInv'
<1>. SUFFICES ASSUME IInv, ScreensInv, [SessionNext]_sessionVars
              PROVE  ScreensInv'
  OBVIOUS
<1>1. TypeOK'
  BY NextIInv, StepRefines DEF IInv
<1>2. CASE SessionNext
  <2>1. SessionTypeOK'
    BY <1>1, <1>2, SessionTypeStep DEF ScreensInv
  <2>2. FormInv'
    BY FormStep DEF ScreensInv
  <2>3. HeaderInv'
    BY <1>2, <2>1, HeaderStep DEF ScreensInv
  <2>. QED
    BY <1>2, <2>1, <2>2, <2>3, DownStep, LoginStep DEF ScreensInv
<1>3. CASE UNCHANGED sessionVars
  BY <1>3 DEF sessionVars, uiVars, vars, ScreensInv, SessionTypeOK, TypeOK, AuthTypeOK, FormInv,
     NeverUploadsPlaceholder, HeaderInv, HeaderUserWasCurrent, Down, LoginInv, SignedInBehindLogin,
     OnTabs
<1>. QED
  BY <1>2, <1>3

\* The screens' invariant holds in every reachable state.
THEOREM ScreensAreConsistent == SessionSpec => []ScreensInv
BY InitScreens, NextScreens, SessionIsSafe, PTL DEF SessionSpec

\* The state of the screens is well typed.
THEOREM SessionTypeCorrect == SessionSpec => []SessionTypeOK
BY ScreensAreConsistent, PTL DEF ScreensInv

\* No header shows a user from before its tabs were built.
THEOREM HeadersFollowTheUser == SessionSpec => []HeaderUserWasCurrent
BY ScreensAreConsistent, PTL DEF ScreensInv, HeaderInv

\* Nobody gets past the login screen without having signed in.
THEOREM LoginHolds == SessionSpec => []SignedInBehindLogin
BY ScreensAreConsistent, PTL DEF ScreensInv, LoginInv

\* No placeholder is ever uploaded.
THEOREM PlaceholderStays == SessionSpec => []NeverUploadsPlaceholder
BY ScreensAreConsistent, PTL DEF ScreensInv, FormInv
=============================================================================
