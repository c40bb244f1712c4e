---------------------------- MODULE MCRequestMux ----------------------------
(***************************************************************************)
(* RequestMux with two callers: the least with which an answer can go to   *)
(* the wrong one, or a late answer meet the next request. Both calls may   *)
(* end, so the system may stop.                                            *)
(***************************************************************************)
EXTENDS RequestMux
=============================================================================
