----------------------------- MODULE MCMsgQueue -----------------------------
(* TLC instances of MsgQueue. *)
EXTENDS MsgQueue
=============================================================================
