--------------------------- MODULE MCAccesspoint ----------------------------
(***************************************************************************)
(* Accesspoint with one receiver behind a channel of one packet. Two       *)
(* packets fill the channel and block recvLoop on the next; three dials    *)
(* are a first connection, a failed attempt and a reconnection. After      *)
(* Close everything stops.                                                 *)
(***************************************************************************)
EXTENDS Accesspoint
=============================================================================
