---------------------------- MODULE MCStatePush -----------------------------
(***************************************************************************)
(* StatePush with a queue of two, which two transitions that are never     *)
(* coalesced fill. Three changes are one being put, one waiting and one    *)
(* that is coalesced with it; two failures are a failed push and a failed  *)
(* retry. After closing everything stops.                                  *)
(***************************************************************************)
EXTENDS StatePush
=============================================================================
