CONSTANTS
    old1 = old1
    old2 = old2
    mail1 = mail1
    mail2 = mail2
    Emails = {mail1, mail2, mail3}
    Calls = {old1, old2, c1, c2}
    Earlier <- MCEarlier
    NoUid = NoUid
    NoEmail = NoEmail
    NoProfile = NoProfile
SPECIFICATION SessionFairSpec
INVARIANTS SignedInIsSaved NoDanglingProfile HeaderUserWasCurrent SignedInBehindLogin NeverUploadsPlaceholder
PROPERTIES RegistrationSpec SignUpEnds
