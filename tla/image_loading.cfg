CONSTANTS
    ann = ann
    bob = bob
    cid = cid
    dan = dan
    eve = eve
    urlA = urlA
    urlB = urlB
    urlRaw = urlRaw
    urlBad = urlBad
    NoUrl = NoUrl
    NoUser = NoUser
    NoImage = NoImage
    Cells = {c1}
    Headers = {h1}
    Users = {ann, dan, eve}
    Named = {ann, dan}
    Urls = {urlA, urlB, urlRaw, urlBad}
    Requests = {r1, r2}
    ProfileImageUrl <- MCProfileImageUrl
    AbsoluteString <- MCAbsoluteString
SPECIFICATION FairSpec
INVARIANTS CacheCoherent SettledShowsAsked
PROPERTIES AvatarSlotsSpec LoadResolves
