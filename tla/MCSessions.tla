----------------------------- MODULE MCSessions -----------------------------
(***************************************************************************)
(* Sessions with the ways the daemon is configured.  Two sessions are one  *)
(* that is replaced and the one that replaces it; MCSessionsLarge.cfg has  *)
(* a third, restored meanwhile.  After shutdown everything stops.          *)
(***************************************************************************)
EXTENDS Sessions

(* Zeroconf logins that are kept, from the first one on, and a token       *)
(* without zeroconf.                                                       *)
MCConfigs ==
  {[zeroconf |-> TRUE, type |-> "zeroconf", persist |-> TRUE, stored |-> NoUser],
   [zeroconf |-> FALSE, type |-> "token", persist |-> FALSE, stored |-> NoUser]}

(* A session from the start, logins that are not kept, and a token with    *)
(* zeroconf beside it as well.                                             *)
MCAllConfigs == MCConfigs \cup
  {[zeroconf |-> TRUE, type |-> "zeroconf", persist |-> TRUE, stored |-> Owner],
   [zeroconf |-> TRUE, type |-> "zeroconf", persist |-> FALSE, stored |-> NoUser],
   [zeroconf |-> TRUE, type |-> "token", persist |-> FALSE, stored |-> NoUser]}
=============================================================================
