CONSTANTS
    old1 = old1
    old2 = old2
    mail1 = mail1
    mail2 = mail2
    Emails = {mail1, mail2}
    Calls = {old1, old2, c1}
    Earlier <- MCEarlier
    NoUid = NoUid
    NoEmail = NoEmail
    NoProfile = NoProfile
SPECIFICATION SessionSpec
INVARIANT HeaderHasCurrentUser
