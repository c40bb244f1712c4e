---------------------------- MODULE MCTrackLoads ----------------------------
(***************************************************************************)
(* TrackLoads with three commands, each of which may supersede, hold back  *)
(* or overtake what the earlier ones submitted, and up to six jobs, those  *)
(* the loop submits by itself included. When the commands are spent the    *)
(* system may stop.                                                        *)
(***************************************************************************)
EXTENDS TrackLoads
=============================================================================
