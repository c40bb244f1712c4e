---------------------------- MODULE LoaderLane ----------------------------
(***************************************************************************)
(* daemon/loader.go: the lane that runs one job at a time off the player   *)
(* loop.  The lane is one record and each section its mutex guards is an   *)
(* operator on it, so that the loop's handlers can submit from within.     *)
(*                                                                         *)
(* A job is numbered in the order of submission; its kind says what the    *)
(* loop submitted it for.  The jobs in held wait for their notBefore.      *)
(***************************************************************************)
EXTENDS Integers, Sequences, FiniteSets

CONSTANTS
  QueueSize,    \* loaderQueueSize
  ResultsCap    \* cap(l.results)

ASSUME LaneAssumption == QueueSize \in Nat \ {0} /\ ResultsCap \in Nat \ {0}

LoadKinds == {"play", "context", "skipto", "autoplay", "track"}
Kinds == LoadKinds \cup {"nav", "mutate", "peek", "prefetch"}

\* loaderClass of a job
Class(job) ==
  CASE job.kind \in LoadKinds -> "load"
    [] job.kind \in {"peek", "prefetch"} -> "prefetch"
    [] OTHER -> job.kind

\* loaderClass.fetches and loaderClass.loads
Fetches == {"load", "prefetch"}
Loads(job) == Class(job) \in {"load", "nav"}

NoJob == [id |-> 0, kind |-> "none"]

\* newLoaderLane
NewLane ==
  [queue |-> <<>>, running |-> NoJob, cancelled |-> FALSE, closed |-> FALSE, wake |-> FALSE]

Jobs(seq) == {seq[i] : i \in 1 .. Len(seq)}
Ids(seq) == {seq[i].id : i \in 1 .. Len(seq)}

\* What a call on the lane leaves: the lane and the jobs it answered.
Outcome(lane, answered) == [lane |-> lane, answered |-> answered]

\* hasPendingLoad
HasPendingLoad(l) ==
  \/ l.running # NoJob /\ Loads(l.running)
  \/ \E job \in Jobs(l.queue) : Loads(job)

\* partitionQueue, the cancelling of the running job and replyAll, for the jobs
\* a new one supersedes.
Drop(l, classes) ==
  Outcome([l EXCEPT !.queue = SelectSeq(@, LAMBDA job : Class(job) \notin classes),
                    !.cancelled = @ \/ (l.running # NoJob /\ Class(l.running) \in classes)],
          {job.id : job \in {q \in Jobs(l.queue) : Class(q) \in classes}})

IsPrefetch(job) == Class(job) = "prefetch"

\* dropLoads
DropLoads(l) == IF l.closed THEN Outcome(l, {}) ELSE Drop(l, Fetches)

\* Mutant: jobs dropped from the queue are not answered.
SubmitForgetsDropped(l, job) ==
  IF l.closed \/ (IsPrefetch(job) /\ HasPendingLoad(l)) THEN Outcome(l, {job.id})
  ELSE LET d == CASE Loads(job) -> Drop(l, Fetches)
                  [] IsPrefetch(job) -> Drop(l, {"prefetch"})
                  [] OTHER -> Outcome(l, {})
       IN  IF Len(d.lane.queue) >= QueueSize
           THEN Outcome(d.lane, {job.id})
           ELSE Outcome([d.lane EXCEPT !.queue = Append(@, job), !.wake = TRUE], {})

\* submit: a load or a step drops what is fetched, a prefetch yields to them and
\* drops another prefetch; a full queue refuses the job after that.
Submit(l, job) ==
  IF l.closed \/ (IsPrefetch(job) /\ HasPendingLoad(l)) THEN Outcome(l, {job.id})
  ELSE LET d == CASE Loads(job) -> Drop(l, Fetches)
                  [] IsPrefetch(job) -> Drop(l, {"prefetch"})
                  [] OTHER -> Outcome(l, {})
       IN  IF Len(d.lane.queue) >= QueueSize
           THEN Outcome(d.lane, d.answered \cup {job.id})
           ELSE Outcome([d.lane EXCEPT !.queue = Append(@, job), !.wake = TRUE], d.answered)

\* Mutant: any job may overtake a held one.
ReadyAny(l, held) ==
  LET ready == {i \in 1 .. Len(l.queue) : l.queue[i].id \notin held}
  IN  IF ready = {} THEN {}
      ELSE {CHOOSE i \in ready : \A j \in ready : j <= i}

\* next: the index it takes, if any.  A held head lets the first change of the
\* list past it, and nothing else.
Ready(l, held) ==
  LET changes == {i \in 1 .. Len(l.queue) : l.queue[i].kind = "mutate"}
  IN  IF l.closed \/ l.queue = <<>> THEN {}
      ELSE IF l.queue[1].id \notin held THEN {1}
      ELSE IF changes = {} THEN {}
      ELSE {CHOOSE i \in changes : \A j \in changes : i <= j}

\* next, taking the job at i
Take(l, i) ==
  [l EXCEPT !.queue = SubSeq(@, 1, i - 1) \o SubSeq(@, i + 1, Len(@)),
            !.running = l.queue[i], !.cancelled = FALSE]

\* execute, when the job has returned
Finished(l) == [l EXCEPT !.running = NoJob, !.cancelled = FALSE]

\* close: the context is cancelled and everything queued answered.
CloseLane(l) ==
  Outcome([l EXCEPT !.closed = TRUE, !.queue = <<>>, !.cancelled = l.running # NoJob],
          Ids(l.queue))
=============================================================================
