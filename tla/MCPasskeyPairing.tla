--------------------------- MODULE MCPasskeyPairing ---------------------------
(***************************************************************************)
(* Two prologues on up to three sockets, in one process or across a crash.   *)
(***************************************************************************)
EXTENDS PasskeyPairing
=============================================================================
