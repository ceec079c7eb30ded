--------------------------- MODULE MCImageLoading ---------------------------
(***************************************************************************)
(* Small instances of ImageLoading.  ann and bob are complete, cid has no  *)
(* avatar, dan's URL does not parse and eve's URL string differs from the    *)
(* absoluteString it is cached under, which is bob's URL.                  *)
(***************************************************************************)
EXTENDS ImageLoading

CONSTANTS ann, bob, cid, dan, eve, urlA, urlB, urlRaw, urlBad

MCProfileImageUrl ==
    [u \in Users |-> CASE u = ann -> urlA
                       [] u = bob -> urlB
                       [] u = cid -> NoUrl
                       [] u = dan -> urlBad
                       [] u = eve -> urlRaw]

MCAbsoluteString ==
    [s \in Urls |-> CASE s = urlBad -> NoUrl
                      [] s = urlRaw -> urlB
                      [] OTHER -> s]
=============================================================================
