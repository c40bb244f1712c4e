------------------------------ MODULE MCTracks ------------------------------
(***************************************************************************)
(* Tracks on a context of three tracks in two pages.  The same track is in *)
(* it twice, the second time past the page cap of a seek, and a command    *)
(* may name it or one that is not in the context.                          *)
(***************************************************************************)
EXTENDS Tracks

MCContexts == {<< <<Track("a", <<"c", 1>>)>>, <<Track("b", <<"c", 2>>), Track("a", <<"c", 3>>)>> >>}

\* Two tracks in the first page, one in the second
MCPlaylist == {<< <<Track("a", <<"c", 1>>), Track("b", <<"c", 2>>)>>, <<Track("d", <<"c", 3>>)>> >>}

MCNamed == {Track("a", NoUid), Track("g", <<"q", 1>>)}
=============================================================================
