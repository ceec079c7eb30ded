----------------------------- MODULE MCSession -----------------------------
(***************************************************************************)
(* Small instances of Session: two users exist already, so that two calls  *)
(* suffice for one to replace the other, and a third address is free.      *)
(***************************************************************************)
EXTENDS Session, TLC

CONSTANTS old1, old2, mail1, mail2

MCEarlier == old1 :> mail1 @@ old2 :> mail2
=============================================================================
