CONSTANTS
    ann = ann
    bob = bob
    cid = cid
    dan = dan
    eve = eve
    urlA = urlA
    urlB = urlB
    urlRaw = urlRaw
    urlBad = urlBad
    NoUrl = NoUrl
    NoUser = NoUser
    NoImage = NoImage
    Cells = {c1}
    Headers = {}
    Users = {ann, bob}
    Named = {ann, bob}
    Urls = {urlA, urlB}
    Requests = {r1, r2}
    ProfileImageUrl <- MCProfileImageUrl
    AbsoluteString <- MCAbsoluteString
SPECIFICATION Spec
INVARIANT AvatarIsUsers
