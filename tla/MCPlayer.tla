------------------------------ MODULE MCPlayer ------------------------------
(***************************************************************************)
(* Player with two streams of one frame each, without crossfading, and two *)
(* clients that give two commands between them: one is under way in        *)
(* manageLoop when the other comes. When the commands are spent the system *)
(* may stop.                                                               *)
(***************************************************************************)
EXTENDS Player, TLC

CONSTANTS a, b

MCLength == a :> 1 @@ b :> 1

MCNoStreams == {}

MCControls == {"play", "pause", "stop", "seek", "position", "close", "secondary", "reopen"}

\* Streams of one length and device names are interchangeable; sound for the
\* configurations that check invariants only.
MCSymmetry == Permutations(Streams) \cup Permutations(Devices)
=============================================================================
