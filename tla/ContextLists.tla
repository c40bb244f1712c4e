---------------------------- MODULE ContextLists ----------------------------
(***************************************************************************)
(* The listings of contexts and the sweeps of their metadata               *)
(* (daemon/track_meta_cache.go), with the library edits that make a        *)
(* listing stale (the SetLiked and playlist cases of handleApiRequest in   *)
(* daemon/player.go).                                                      *)
(*                                                                         *)
(* A context is listed by a goroutine that pages through it, while         *)
(* requests poll the cache and edits invalidate it.  The content of a      *)
(* context on the backend is its version, which an edit raises; a listing  *)
(* is as old as the first page it was made from.                           *)
(***************************************************************************)
EXTENDS Integers

CONSTANTS
  Contexts,      \* context uris
  NoContext,     \* no job
  Groups,        \* the contexts one edit changes: Liked Songs has several uris
  Callers,       \* goroutines of scheduleContextEnumerate
  Editors,       \* goroutines of library edits
  MaxEdits,      \* edits in a behaviour (a bound)
  MaxFailures,   \* enumerations, edits and sweeps that fail (a bound)
  MaxDrops       \* listings that expire or are evicted (a bound)

ASSUME ContextAssumption == NoContext \notin Contexts /\ Groups \subseteq SUBSET Contexts

VARIABLES
  backend,    \* the version of each context
  list,       \* c.lru: the version listed, or Absent
  inFlight,   \* c.inFlight: a generation, or Absent
  caller,     \* where each caller is, for what context, and what it holds
  editor,     \* where each editor is, and the contexts it has yet to invalidate
  sweeps,     \* metaSweepQueue: running and pending
  worker,     \* the sweep worker: none, next, or the context it sweeps
  done,       \* edits, failures and drops so far
  settled     \* history: the version of each context after its last answered edit

lists == <<list, inFlight>>
queue == <<sweeps, worker>>
vars == <<backend, lists, caller, editor, queue, done, settled>>

Absent == -1
Resting == [at |-> "idle", uri |-> NoContext, gen |-> 0, version |-> 0]
Home == [at |-> "idle", group |-> {}, left |-> {}, version |-> [u \in Contexts |-> 0]]

Init ==
  /\ backend = [u \in Contexts |-> 0]
  /\ list = [u \in Contexts |-> Absent]
  /\ inFlight = [u \in Contexts |-> Absent]
  /\ caller = [e \in Callers |-> Resting]
  /\ editor = [w \in Editors |-> Home]
  /\ sweeps = [running |-> FALSE, pending |-> NoContext]
  /\ worker = "none"
  /\ done = [edits |-> 0, failures |-> 0, drops |-> 0]
  /\ settled = [u \in Contexts |-> 0]

Goes(e, at) == caller' = [caller EXCEPT ![e].at = at]
Fails == done.failures < MaxFailures /\ done' = [done EXCEPT !.failures = @ + 1]

---------------------------------------------------------------------------
(***************************************************************************)
(* The sweep queue                                                         *)
(***************************************************************************)

(* enqueue: the newest job waits, and the caller starts the worker if      *)
(* there is none.                                                          *)
Enqueue(u) ==
  /\ sweeps' = [running |-> TRUE, pending |-> u]
  /\ worker' = IF sweeps.running THEN worker ELSE "next"

\* Mutant: a worker that stops leaves running set.
NextSweepLeavesRunning ==
  /\ worker = "next"
  /\ sweeps' = [running |-> TRUE, pending |-> NoContext]
  /\ worker' = IF sweeps.pending = NoContext THEN "none" ELSE "sweep"
  /\ UNCHANGED <<backend, lists, caller, editor, done, settled>>

(* next: the worker takes the job that waits, or stops.                    *)
NextSweep ==
  /\ worker = "next"
  /\ sweeps' = [running |-> sweeps.pending # NoContext, pending |-> NoContext]
  /\ worker' = IF sweeps.pending = NoContext THEN "none" ELSE "sweep"
  /\ UNCHANGED <<backend, lists, caller, editor, done, settled>>

(* The sweep ends, whether a batch failed or not: runMetaSweep again.      *)
SweepEnds ==
  /\ worker = "sweep"
  /\ worker' = "next"
  /\ UNCHANGED <<backend, lists, caller, editor, sweeps, done, settled>>

---------------------------------------------------------------------------
(***************************************************************************)
(* scheduleContextEnumerate                                                *)
(***************************************************************************)

(* get: a listing that is cached is only swept.                            *)
Ask(e, u) ==
  /\ caller[e].at = "idle"
  /\ IF list[u] # Absent
       THEN Enqueue(u) /\ UNCHANGED caller
       ELSE /\ caller' = [caller EXCEPT ![e] = [Resting EXCEPT !.at = "begin", !.uri = u]]
            /\ UNCHANGED queue
  /\ UNCHANGED <<backend, lists, editor, done, settled>>

(* beginFetch looks again, before it takes the lock,                       *)
LookAgain(e) ==
  /\ caller[e].at = "begin"
  /\ caller' = [caller EXCEPT ![e] =
       IF list[caller[e].uri] # Absent THEN Resting ELSE [@ EXCEPT !.at = "claim"]]
  /\ UNCHANGED <<backend, lists, editor, queue, done, settled>>

\* Mutant: beginFetch does not look whether the context is in flight.
ClaimAlways(e) ==
  /\ caller[e].at = "claim"
  /\ caller' = [caller EXCEPT ![e].at = "walk", ![e].gen = 0]
  /\ inFlight' = [inFlight EXCEPT ![caller[e].uri] = 0]
  /\ UNCHANGED <<backend, list, editor, queue, done, settled>>

(* and claims the context unless it is being enumerated already.           *)
Claim(e) ==
  LET u == caller[e].uri IN
  /\ caller[e].at = "claim"
  /\ IF inFlight[u] # Absent
       THEN /\ caller' = [caller EXCEPT ![e] = Resting]
            /\ UNCHANGED inFlight
       ELSE /\ caller' = [caller EXCEPT ![e].at = "walk", ![e].gen = 0]
            /\ inFlight' = [inFlight EXCEPT ![u] = 0]
  /\ UNCHANGED <<backend, list, editor, queue, done, settled>>

(* resolve and enumerateContextTracks: the first page is read now, the     *)
(* last before put.                                                        *)
Walk(e) ==
  /\ caller[e].at = "walk"
  /\ caller' = [caller EXCEPT ![e].at = "put", ![e].version = backend[caller[e].uri]]
  /\ UNCHANGED <<backend, lists, editor, queue, done, settled>>

\* Mutant: a walk that fails returns without endFetch.
WalkAbandons(e) ==
  /\ caller[e].at \in {"walk", "put"}
  /\ Fails
  /\ caller' = [caller EXCEPT ![e] = Resting]
  /\ UNCHANGED <<backend, lists, editor, queue, settled>>

WalkFails(e) ==
  /\ caller[e].at \in {"walk", "put"}
  /\ Fails
  /\ Goes(e, "end")
  /\ UNCHANGED <<backend, lists, editor, queue, settled>>

\* Mutant: put does not look at the generation.
PutAlways(e) ==
  /\ caller[e].at = "put"
  /\ list' = [list EXCEPT ![caller[e].uri] = caller[e].version]
  /\ Goes(e, "sweep")
  /\ UNCHANGED <<backend, inFlight, editor, queue, done, settled>>

(* put: the listing is dropped if the context was invalidated meanwhile.   *)
Put(e) ==
  LET u == caller[e].uri IN
  /\ caller[e].at = "put"
  /\ list' = IF inFlight[u] \in {Absent, caller[e].gen}
               THEN [list EXCEPT ![u] = caller[e].version] ELSE list
  /\ Goes(e, "sweep")
  /\ UNCHANGED <<backend, inFlight, editor, queue, done, settled>>

(* scheduleMetaSweep, also of a listing that was dropped.                  *)
Sweep(e) ==
  /\ caller[e].at = "sweep"
  /\ Enqueue(caller[e].uri)
  /\ Goes(e, "end")
  /\ UNCHANGED <<backend, lists, editor, done, settled>>

(* endFetch                                                                *)
EndFetch(e) ==
  /\ caller[e].at = "end"
  /\ inFlight' = [inFlight EXCEPT ![caller[e].uri] = Absent]
  /\ caller' = [caller EXCEPT ![e] = Resting]
  /\ UNCHANGED <<backend, list, editor, queue, done, settled>>

(* A listing is older than contextListTTL, or the LRU evicts it.           *)
Drop(u) ==
  /\ list[u] # Absent /\ done.drops < MaxDrops
  /\ list' = [list EXCEPT ![u] = Absent]
  /\ done' = [done EXCEPT !.drops = @ + 1]
  /\ UNCHANGED <<backend, inFlight, caller, editor, queue, settled>>

---------------------------------------------------------------------------
(***************************************************************************)
(* Library edits                                                           *)
(***************************************************************************)

Edited(group) == [u \in Contexts |-> IF u \in group THEN backend[u] + 1 ELSE backend[u]]

(* The write to the backend has returned.                                  *)
Edit(w, group) ==
  /\ editor[w].at = "idle" /\ done.edits < MaxEdits
  /\ backend' = Edited(group)
  /\ editor' = [editor EXCEPT ![w] =
       [at |-> "invalidate", group |-> group, left |-> group, version |-> Edited(group)]]
  /\ done' = [done EXCEPT !.edits = @ + 1]
  /\ UNCHANGED <<lists, caller, queue, settled>>

(* It returned an error, and may have been acted on all the same.  The     *)
(* caller is told, and nothing is invalidated.                             *)
EditFails(w, group) ==
  /\ editor[w].at = "idle"
  /\ Fails
  /\ backend' = Edited(group)
  /\ UNCHANGED <<lists, caller, editor, queue, settled>>

(* invalidate: the listing goes, and one under way is told.                *)
Invalidate(w, u) ==
  /\ editor[w].at = "invalidate" /\ u \in editor[w].left
  /\ list' = [list EXCEPT ![u] = Absent]
  /\ inFlight' = IF inFlight[u] = Absent THEN inFlight
                                         ELSE [inFlight EXCEPT ![u] = @ + 1]
  /\ editor' = [editor EXCEPT ![w].left = @ \ {u}]
  /\ UNCHANGED <<backend, caller, queue, done, settled>>

(* reply.done: the edit is answered.                                       *)
EditAnswered(w) ==
  /\ editor[w].at = "invalidate" /\ editor[w].left = {}
  /\ settled' = [u \in Contexts |->
       IF u \in editor[w].group /\ editor[w].version[u] > settled[u]
         THEN editor[w].version[u] ELSE settled[u]]
  /\ editor' = [editor EXCEPT ![w] = Home]
  /\ UNCHANGED <<backend, lists, caller, queue, done>>

---------------------------------------------------------------------------
Enumerate(e) ==
  LookAgain(e) \/ Claim(e) \/ Walk(e) \/ Put(e) \/ Sweep(e) \/ EndFetch(e)

Next ==
  \/ \E e \in Callers : Enumerate(e) \/ WalkFails(e) \/ \E u \in Contexts : Ask(e, u)
  \/ \E w \in Editors :
       \/ \E group \in Groups : Edit(w, group) \/ EditFails(w, group)
       \/ \E u \in Contexts : Invalidate(w, u)
       \/ EditAnswered(w)
  \/ \E u \in Contexts : Drop(u)
  \/ NextSweep \/ SweepEnds

Spec == Init /\ [][Next]_vars

(* Goroutines go on, and clients poll each context again and again: a poll *)
(* takes place between two enumerations.  Nobody has to edit anything.     *)
FairSpec ==
  /\ Spec
  /\ \A e \in Callers : WF_vars(Enumerate(e))
  /\ \A u \in Contexts : SF_vars(\E e \in Callers : Ask(e, u))
  /\ WF_vars(NextSweep \/ SweepEnds)

---------------------------------------------------------------------------
(***************************************************************************)
(* Properties                                                              *)
(***************************************************************************)

TypeOK ==
  /\ backend \in [Contexts -> Nat] /\ settled \in [Contexts -> Nat]
  /\ list \in [Contexts -> Nat \cup {Absent}]
  /\ inFlight \in [Contexts -> Nat \cup {Absent}]
  /\ caller \in [Callers -> [at : {"idle", "begin", "claim", "walk", "put", "sweep", "end"},
                             uri : Contexts \cup {NoContext}, gen : {0}, version : Nat]]
  /\ editor \in [Editors -> [at : {"idle", "invalidate"}, group : SUBSET Contexts,
                             left : SUBSET Contexts, version : [Contexts -> Nat]]]
  /\ sweeps \in [running : BOOLEAN, pending : Contexts \cup {NoContext}]
  /\ worker \in {"none", "next", "sweep"}
  /\ done \in [edits : Nat, failures : Nat, drops : Nat]

(* Once an edit has been answered, no listing made before it is served:    *)
(* neither the one that was cached nor one that was being made.            *)
NoStaleListing == \A u \in Contexts : list[u] # Absent => list[u] >= settled[u]

Enumerating(e, u) == caller[e].uri = u /\ caller[e].at \in {"walk", "put", "sweep", "end"}

OneEnumeration ==
  \A u \in Contexts :
    /\ \A e, f \in Callers : Enumerating(e, u) /\ Enumerating(f, u) => e = f
    /\ (inFlight[u] # Absent) <=> (\E e \in Callers : Enumerating(e, u))

SweepHasWorker ==
  /\ sweeps.running <=> (worker # "none")
  /\ sweeps.pending # NoContext => sweeps.running

(* One goroutine enumerates a context at a time, and exactly while it does *)
(* the context is in flight; and the queue of sweeps says running exactly  *)
(* while there is a worker, without which no job waits.                    *)
Consistent == TypeOK /\ OneEnumeration /\ SweepHasWorker

(* "let the client poll until ready is true": once edits, failures and     *)
(* evictions are over, a context that is polled is listed.                 *)
PollsBecomeReady == \A u \in Contexts : <>[](list[u] # Absent)

(* A sweep that is queued is taken, or gives way to a newer one: nothing   *)
(* waits for ever.                                                         *)
QueuedSweepRuns == sweeps.pending # NoContext ~> worker = "sweep"
=============================================================================
