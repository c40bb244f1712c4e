----------------------------- MODULE StatePush -----------------------------
(***************************************************************************)
(* The connect-state pushes: daemon/statepush.go, and the part of the      *)
(* player loop that decides when to push (daemon/player_state.go,          *)
(* flushState and the loop's stateTimer and results cases).                *)
(*                                                                         *)
(* The state the loop keeps is its version: every handler that changes it  *)
(* makes a new one.  A push carries the version it was marshalled from; a  *)
(* push of reason "inactive" has no body and stands for the version reset  *)
(* made.  A PUT that fails may have reached the backend all the same, but  *)
(* not after it has returned.                                              *)
(***************************************************************************)
EXTENDS Integers, Sequences, FiniteSets

CONSTANTS
  QueueSize,     \* statePushQueueSize, also the capacity of results
  Transitions,   \* the reasons pushed that do not coalesce
  MaxChanges,    \* versions made in a behaviour (a bound)
  MaxFailures    \* PUTs that fail in a behaviour (a bound)

ASSUME QueueAssumption ==
  /\ QueueSize \in Nat \ {0}
  /\ "playerstate" \notin Transitions
  /\ MaxChanges \in Nat

VARIABLES
  version,    \* the version of the state
  loop,       \* the fields of AppPlayer that schedule pushes
  queue,      \* l.queue
  closed,     \* l.closed
  wake,       \* whether l.wake holds a token
  results,    \* l.results
  pc,         \* where the lane is: next, wait, put, send, exit
  push,       \* the push the lane has taken
  outcome,    \* what the PUT returned
  closing,    \* where AppPlayer.Close is: no, stopping, marked, quit, timeout, done
  backend,    \* what the backend has: a version, and the seq it came with
  failures,   \* PUTs failed so far
  skipped     \* history: pushes that were dropped, and from what queue

lane == <<pc, push, outcome, backend, failures>>
vars == <<version, loop, queue, closed, wake, results, lane, closing, skipped>>

PlayerState == "playerstate"
NoPush == [seq |-> 0]
Quit == closing \in {"quit", "timeout", "done"}

Init ==
  /\ version = 0
  /\ loop = [up |-> TRUE, dirty |-> FALSE, scheduled |-> FALSE, timer |-> "off",
             recent |-> FALSE, seq |-> 0, registered |-> FALSE]
  /\ queue = <<>> /\ closed = FALSE /\ wake = FALSE
  /\ results = <<>>
  /\ pc = "next" /\ push = NoPush /\ outcome = "none"
  /\ closing = "no"
  /\ backend = [version |-> 0, seq |-> 0] /\ failures = 0
  /\ skipped = {}

---------------------------------------------------------------------------
(***************************************************************************)
(* submit                                                                  *)
(***************************************************************************)

\* statePush.coalesces
Coalesces(p) == p.reason = PlayerState

\* The queue with the push added, replacing the last one where both coalesce.
Added(q, p) ==
  IF q # <<>> /\ Coalesces(q[Len(q)]) /\ Coalesces(p)
  THEN [q EXCEPT ![Len(q)] = p] ELSE Append(q, p)

\* Mutant: overflow drops the oldest push, whatever it is.
VictimOldest(q) == 1

\* The push that overflow drops: the oldest that coalesces, else the oldest.
Victim(q) ==
  LET states == {i \in DOMAIN q : Coalesces(q[i])}
  IN  IF states = {} THEN 1 ELSE CHOOSE i \in states : \A j \in states : i <= j

\* The queue is never more than one over its size here.
Trimmed(q) ==
  IF Len(q) <= QueueSize THEN q
  ELSE SubSeq(q, 1, Victim(q) - 1) \o SubSeq(q, Victim(q) + 1, Len(q))

Entries(q) == {q[i] : i \in DOMAIN q}

\* pushState, with the version marshalled.  Worth remembering of the pushes
\* that went: the transitions, and a push dropped by its own submit.
PushState(reason, v) ==
  LET p == [seq |-> loop.seq + 1, reason |-> reason, version |-> v]
      after == Trimmed(Added(queue, p))
      gone == (Entries(queue) \cup {p}) \ Entries(after)
      full == Len(after) = QueueSize /\ \A q \in Entries(after) : ~Coalesces(q)
  IN  IF closed THEN UNCHANGED <<queue, wake, skipped>>
      ELSE /\ queue' = after
           /\ wake' = TRUE
           /\ skipped' = skipped \cup
                {[seq |-> q.seq, reason |-> q.reason, full |-> full, newest |-> q = p] :
                   q \in {x \in gone : ~Coalesces(x) \/ x = p}}

---------------------------------------------------------------------------
(***************************************************************************)
(* The player loop                                                         *)
(***************************************************************************)

Changes ==
  /\ loop.up
  /\ version < MaxChanges
  /\ version' = version + 1

\* updateState, by a handler that changed the state: push now, or leave it to
\* the timer when the last push was recent or one is scheduled.
UpdateState ==
  /\ Changes
  /\ IF loop.scheduled \/ loop.recent
     THEN /\ loop' = [loop EXCEPT !.dirty = TRUE, !.scheduled = TRUE,
                                  !.timer = IF loop.scheduled THEN @ ELSE "armed"]
          /\ UNCHANGED <<queue, wake, skipped>>
     ELSE /\ loop' = [loop EXCEPT !.dirty = FALSE, !.recent = TRUE, !.seq = @ + 1]
          /\ PushState(PlayerState, version')
  /\ UNCHANGED <<closed, results, lane, closing>>

\* flushState, by a handler that does not wait (a transfer)
FlushState ==
  /\ Changes
  /\ loop' = [loop EXCEPT !.dirty = FALSE, !.recent = TRUE, !.seq = @ + 1]
  /\ PushState(PlayerState, version')
  /\ UNCHANGED <<closed, results, lane, closing>>

\* A new connection, a volume change, stopPlayback: pushed at once, and with
\* nothing noted about it.
PushTransition ==
  /\ Changes
  /\ loop' = [loop EXCEPT !.seq = @ + 1]
  /\ \E reason \in Transitions : PushState(reason, version')
  /\ UNCHANGED <<closed, results, lane, closing>>

\* The stateTimer case of Run
StateTimer ==
  /\ loop.up /\ loop.timer = "fired"
  /\ IF loop.dirty
     THEN /\ loop' = [loop EXCEPT !.timer = "off", !.scheduled = FALSE, !.dirty = FALSE,
                                  !.recent = TRUE, !.seq = @ + 1]
          /\ PushState(PlayerState, version)
     ELSE /\ loop' = [loop EXCEPT !.timer = "off", !.scheduled = FALSE]
          /\ UNCHANGED <<queue, wake, skipped>>
  /\ UNCHANGED <<version, closed, results, lane, closing>>

\* Mutant: a failed push arms the timer and leaves stateDirty alone.
ApplyKeepsClean ==
  /\ loop.up /\ results # <<>>
  /\ LET res == Head(results) IN
     loop' = CASE res.ok -> [loop EXCEPT !.registered = TRUE]
               [] ~res.ok /\ res.seq = loop.seq ->
                    [loop EXCEPT !.scheduled = TRUE, !.timer = "armed"]
               [] OTHER -> loop
  /\ results' = Tail(results)
  /\ UNCHANGED <<version, queue, closed, wake, lane, closing, skipped>>

\* applyStatePushResult: only the newest push is sent again.
ApplyStatePushResult ==
  /\ loop.up /\ results # <<>>
  /\ LET res == Head(results) IN
     loop' = CASE res.ok -> [loop EXCEPT !.registered = TRUE]
               [] ~res.ok /\ res.seq = loop.seq ->
                    [loop EXCEPT !.dirty = TRUE, !.scheduled = TRUE, !.timer = "armed"]
               [] OTHER -> loop
  /\ results' = Tail(results)
  /\ UNCHANGED <<version, queue, closed, wake, lane, closing, skipped>>

\* Run returns
LoopReturns ==
  /\ loop.up /\ closing # "no"
  /\ loop' = [loop EXCEPT !.up = FALSE]
  /\ UNCHANGED <<version, queue, closed, wake, results, lane, closing, skipped>>

\* The timer fires; statePutMinInterval has passed since the last push.
TimerFires ==
  /\ loop.timer = "armed"
  /\ loop' = [loop EXCEPT !.timer = "fired"]
  /\ UNCHANGED <<version, queue, closed, wake, results, lane, closing, skipped>>

IntervalPasses ==
  /\ loop.recent
  /\ loop' = [loop EXCEPT !.recent = FALSE]
  /\ UNCHANGED <<version, queue, closed, wake, results, lane, closing, skipped>>

---------------------------------------------------------------------------
(***************************************************************************)
(* run, the lane's goroutine                                               *)
(***************************************************************************)

\* next
TakeNext ==
  /\ pc = "next"
  /\ IF queue = <<>>
     THEN /\ pc' = "wait"
          /\ UNCHANGED <<queue, push>>
     ELSE /\ pc' = "put"
          /\ push' = Head(queue)
          /\ queue' = Tail(queue)
  /\ UNCHANGED <<version, loop, closed, wake, results, outcome, closing, backend, failures, skipped>>

\* The select of an empty lane; at the end it looks once more for a push that
\* was queued before close.
Woken ==
  /\ pc = "wait"
  /\ \/ wake /\ wake' = FALSE /\ pc' = "next"
     \/ Quit /\ pc' = (IF queue # <<>> THEN "next" ELSE "exit") /\ UNCHANGED wake
  /\ UNCHANGED <<version, loop, queue, closed, results, push, outcome, closing, backend,
                 failures, skipped>>

Reached == [version |-> push.version, seq |-> push.seq]

\* The PUT, bounded by statePutTimeout and, after close, by l.ctx
PutSucceeds ==
  /\ pc = "put" /\ closing # "done"
  /\ outcome' = "ok"
  /\ backend' = Reached
  /\ pc' = "send"
  /\ UNCHANGED <<version, loop, queue, closed, wake, results, push, closing, failures, skipped>>

PutFails ==
  /\ pc = "put"
  /\ failures < MaxFailures \/ closing = "done"
  /\ failures' = IF closing = "done" THEN failures ELSE failures + 1
  /\ outcome' = "failed"
  /\ backend' \in {backend, Reached}
  /\ pc' = "send"
  /\ UNCHANGED <<version, loop, queue, closed, wake, results, push, closing, skipped>>

\* Mutant: the result of the last push waits for the loop.
SendResultWaits ==
  /\ pc = "send"
  /\ ~Quit
  /\ Len(results) < QueueSize
  /\ results' = Append(results, [seq |-> push.seq, ok |-> outcome = "ok"])
  /\ pc' = "next" /\ push' = NoPush /\ outcome' = "none"
  /\ UNCHANGED <<version, loop, queue, closed, wake, closing, backend, failures, skipped>>

\* The result goes to the loop, or nowhere once the lane is closing.
SendResult ==
  /\ pc = "send"
  /\ \/ /\ Len(results) < QueueSize
        /\ results' = Append(results, [seq |-> push.seq, ok |-> outcome = "ok"])
     \/ Quit /\ UNCHANGED results
  /\ pc' = "next" /\ push' = NoPush /\ outcome' = "none"
  /\ UNCHANGED <<version, loop, queue, closed, wake, closing, backend, failures, skipped>>

---------------------------------------------------------------------------
(***************************************************************************)
(* AppPlayer.Close and statePushLane.close                                 *)
(***************************************************************************)

StopLoop ==
  /\ closing = "no"
  /\ closing' = "stopping"
  /\ UNCHANGED <<version, loop, queue, closed, wake, results, lane, skipped>>

MarkClosed ==
  /\ closing = "stopping"
  /\ closing' = "marked"
  /\ closed' = TRUE
  /\ UNCHANGED <<version, loop, queue, wake, results, lane, skipped>>

CloseQuit ==
  /\ closing = "marked"
  /\ closing' = "quit"
  /\ UNCHANGED <<version, loop, queue, closed, wake, results, lane, skipped>>

Drained ==
  /\ closing = "quit" /\ pc = "exit"
  /\ closing' = "done"
  /\ UNCHANGED <<version, loop, queue, closed, wake, results, lane, skipped>>

\* statePushDrainTimeout
DrainTimeout ==
  /\ closing = "quit"
  /\ closing' = "timeout"
  /\ queue' = <<>>
  /\ UNCHANGED <<version, loop, closed, wake, results, lane, skipped>>

Cancel ==
  /\ closing = "timeout"
  /\ closing' = "done"
  /\ UNCHANGED <<version, loop, queue, closed, wake, results, lane, skipped>>

---------------------------------------------------------------------------

Loop ==
  \/ UpdateState \/ FlushState \/ PushTransition
  \/ StateTimer \/ ApplyStatePushResult \/ LoopReturns

Run == TakeNext \/ Woken \/ PutSucceeds \/ PutFails \/ SendResult

Close == StopLoop \/ MarkClosed \/ CloseQuit \/ Drained \/ DrainTimeout \/ Cancel

Next == Loop \/ TimerFires \/ IntervalPasses \/ Run \/ Close

Spec == Init /\ [][Next]_vars

\* The loop serves its timer and its results, the lane and a Close that has
\* begun go on, and clocks run.  Nothing makes anyone close the player.
Fairness ==
  /\ WF_vars(StateTimer) /\ WF_vars(ApplyStatePushResult) /\ WF_vars(TimerFires)
  /\ WF_vars(Run)
  /\ WF_vars(MarkClosed) /\ WF_vars(CloseQuit) /\ WF_vars(Drained \/ DrainTimeout)
  /\ WF_vars(Cancel)

FairSpec == Spec /\ Fairness

---------------------------------------------------------------------------

Carried == Entries(queue) \cup {push}

\* Types, and that the queue and the results keep their bounds.
TypeOK ==
  /\ version \in 0 .. MaxChanges
  /\ loop.timer \in {"off", "armed", "fired"}
  /\ Len(queue) <= QueueSize /\ Len(results) <= QueueSize
  /\ \A p \in Entries(queue) :
       p.seq \in 1 .. loop.seq /\ p.reason \in Transitions \cup {PlayerState}
  /\ (pc \in {"put", "send"}) <=> (push # NoPush)
  /\ closing \in {"no", "stopping", "marked", "quit", "timeout", "done"}
  /\ closed <=> closing \notin {"no", "stopping"}

\* The backend has the state the loop keeps, or it is still to be pushed, or the
\* newest push is on its way or has just failed: no change is forgotten,
\* however results, timers and new changes interleave (applyStatePushResult).
\* The one exception is a push dropped by overflow, see NewestKept.
NothingForgotten ==
  ~closed =>
    \/ backend.version = version
    \/ loop.dirty
    \/ \E p \in Carried : p.seq = loop.seq
    \/ \E i \in DOMAIN results : results[i].seq = loop.seq /\ ~results[i].ok
    \/ \E s \in skipped : s.seq = loop.seq

\* A state still to be pushed has its timer running: statePutScheduled is never
\* left set with no timer behind it, which would silence the device.
DirtyIsScheduled ==
  /\ loop.dirty => loop.scheduled
  /\ loop.scheduled <=> loop.timer # "off"

\* Pushes are sent in the order they were made: the lane never overwrites what
\* the backend has with something older.
InOrder ==
  /\ \A i, j \in DOMAIN queue : i < j => queue[i].seq < queue[j].seq
  /\ \A p \in Entries(queue) : backend.seq < p.seq /\ push.seq < p.seq

\* Only a queue full of transitions loses one: otherwise a later push only ever
\* replaces a player state (coalesces).
TransitionsKept == \A s \in skipped : s.reason \in Transitions => s.full

\* The queue neither reorders pushes nor loses a transition it has room for.
QueueFaithful == InOrder /\ TransitionsKept

\* What the loop keeps to schedule pushes agrees with the lane and the backend, and
\* the queue between them is faithful.
Consistent == TypeOK /\ NothingForgotten /\ DirtyIsScheduled /\ QueueFaithful

\* Overflow drops an older push, never the one being submitted (submit).
NewestKept == \A s \in skipped : ~s.newest

\* A lane that ended without the drain timing out has sent everything that was
\* queued, the last inactive push included (close).
ClosedIsDrained ==
  pc = "exit" /\ closing \in {"quit", "done"} => queue = <<>>

\* Once the state stops changing and PUTs go through, the backend gets it, unless
\* the player is closed or overflow dropped the newest push (see NewestKept).
Converges == []<>(backend.version = version \/ closed \/ \E s \in skipped : s.newest)

\* Close returns and the lane ends with it, and it has drained the queue unless
\* that timed out.
CloseEnds ==
  /\ []ClosedIsDrained
  /\ (closing = "marked") ~> (closing = "done" /\ pc = "exit")
=============================================================================
