--------------------------- MODULE MCContextLists ---------------------------
(***************************************************************************)
(* ContextLists with a context that has two uris, as Liked Songs has: one  *)
(* edit makes both listings stale, and invalidates one after the other.    *)
(***************************************************************************)
EXTENDS ContextLists

CONSTANTS u1, u2

MCContexts == {u1, u2}
MCGroups == {{u1, u2}}
=============================================================================
