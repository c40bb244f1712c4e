------------------------------ MODULE MCDealer ------------------------------
(***************************************************************************)
(* Dealer with a dispatch channel of one frame: of two frames, one waits   *)
(* in it while the other is dispatched. Three dials are a first            *)
(* connection, a failed attempt and a reconnection. After Close everything *)
(* stops.                                                                  *)
(***************************************************************************)
EXTENDS Dealer
=============================================================================
