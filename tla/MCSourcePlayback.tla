-------------------------- MODULE MCSourcePlayback --------------------------
(***************************************************************************)
(* SourcePlayback with a fade of two frames and a lookahead of three. The  *)
(* streams are longer than the lookahead, shorter than the fade, and in    *)
(* between; one is not to be faded and one has a decoder that fails.       *)
(***************************************************************************)
EXTENDS SourcePlayback, TLC

CONSTANTS a, b, c

MCLength == a :> 8 @@ b :> 1 @@ c :> 4
=============================================================================
