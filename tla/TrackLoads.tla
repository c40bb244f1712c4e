---------------------------- MODULE TrackLoads ----------------------------
(***************************************************************************)
(* How the player loop (daemon/player.go, daemon/controls.go) loads what   *)
(* it plays through the loader lane: commands submit jobs, the lane runs   *)
(* them and hands streams to the player, and the loop applies what comes   *)
(* back unless a newer command has moved its generation on.  Meanwhile the *)
(* player raises events on a channel of its own, which the loop holds      *)
(* while a load is outstanding.                                            *)
(*                                                                         *)
(* A handler of the loop is an operator on the world it may change, so     *)
(* that the continuations the code passes as closures can be composed.     *)
(* The player is what module Player promises: a stream set is playing      *)
(* under a new generation until it ends, is replaced or stopped.           *)
(***************************************************************************)
EXTENDS LoaderLane, SequencesExt

CONSTANTS
  Ops,           \* the commands that are issued
  Autoplay,      \* whether a finished context goes on with a station
  Unsupported,   \* whether a track may be of a type that cannot be loaded
  Debounce,      \* whether skips are debounced (skip_debounce)
  MaxOps,        \* commands issued in a behaviour (a bound)
  MaxJobs        \* jobs submitted in a behaviour (a bound)

VARIABLES
  loop,       \* what the player loop owns
  lane,       \* the lane's fields under its mutex
  pc,         \* where the lane's goroutine is: next, wait, run, send, exit
  done,       \* the result the lane is sending
  results,    \* l.results
  held,       \* the jobs whose notBefore has not come
  timer,      \* the held job the lane's timer is armed for, 0 when stopped
  player,     \* the player: generation set, whether it plays, its event channel
  list,       \* the version of the track list, which only the lane's jobs change
  ids,        \* jobs submitted so far
  owed,       \* API requests that a job is to answer
  answered,   \* jobs answered
  ran,        \* history: the changes and steps of the list, as they were run
  handled,    \* history: ends of streams handled, with the stream recorded then
  ops         \* commands issued so far

vars == <<loop, lane, pc, done, results, held, timer, player, list, ids, owed, answered,
          ran, handled, ops>>

Event(type, gen) == [type |-> type, gen |-> gen]
NoResult == [job |-> NoJob]

Init ==
  /\ loop = [loadGen |-> 0, prefetchGen |-> 0, inFlight |-> FALSE, primary |-> 0,
             secondary |-> 0, context |-> 0, pending |-> <<>>, playing |-> FALSE,
             stopped |-> FALSE, changed |-> 0, up |-> "running"]
  /\ lane = NewLane
  /\ pc = "next"
  /\ done = NoResult
  /\ results = <<>>
  /\ held = {}
  /\ timer = 0
  /\ player = [gen |-> 0, state |-> "stopped", ev |-> <<>>]
  /\ list = 1
  /\ ids = 0
  /\ owed = {}
  /\ answered = {}
  /\ ran = <<>>
  /\ handled = {}
  /\ ops = 0

World == [loop |-> loop, lane |-> lane, player |-> player, held |-> held, ids |-> ids,
          owed |-> owed, answered |-> answered, handled |-> handled]

Becomes(w) ==
  /\ loop' = w.loop
  /\ lane' = w.lane
  /\ player' = w.player
  /\ held' = w.held
  /\ ids' = w.ids
  /\ owed' = w.owed
  /\ answered' = w.answered
  /\ handled' = w.handled
  /\ ids' <= MaxJobs

---------------------------------------------------------------------------
(***************************************************************************)
(* Handlers of the player loop                                             *)
(***************************************************************************)

\* AppPlayer.generation
Generation(w, job) == IF IsPrefetch(job) THEN w.loop.prefetchGen ELSE w.loop.loadGen

\* A job for p.loader.submit.  goesOn: the list advances past an unplayable
\* track.  delay: its load is held back.  plan: the version of the list that a
\* prefetch was picked from.
Job(kind) ==
  [id |-> 0, kind |-> kind, gen |-> 0, context |-> 0, goesOn |-> FALSE, delay |-> FALSE,
   paused |-> FALSE, plan |-> 0]

SubmitJob(w, job) ==
  LET id == w.ids + 1
      o == Submit(w.lane, [job EXCEPT !.id = id, !.gen = Generation(w, job),
                                      !.context = w.loop.context])
  IN  [w EXCEPT !.lane = o.lane, !.answered = @ \cup o.answered, !.ids = id,
                !.held = IF job.kind = "track" /\ job.delay THEN @ \cup {id} ELSE @]

NewLoad(w) == [w EXCEPT !.loop.loadGen = @ + 1]

\* Mutant: the prefetch in flight is not disowned.
InvalidateUpcomingKeepsGen(w) == [w EXCEPT !.loop.secondary = 0]

\* invalidateUpcoming and clearUpcoming
InvalidateUpcoming(w) == [w EXCEPT !.loop.prefetchGen = @ + 1, !.loop.secondary = 0]

\* player.Stop
StopPlayer(w) ==
  [w EXCEPT !.player.state = "stopped",
            !.player.ev = Append(@, Event("stop", w.player.gen))]

\* loadCurrentTrack up to the job: a track that cannot be loaded ends it early.
LoadCurrentTrack(w, goesOn, delay, paused) ==
  LET left == [w EXCEPT !.loop.primary = 0]
      load == [InvalidateUpcoming(NewLoad(left)) EXCEPT !.loop.inFlight = TRUE,
                                                       !.loop.playing = TRUE]
      track == [Job("track") EXCEPT !.goesOn = goesOn, !.delay = delay, !.paused = paused]
  IN  {SubmitJob(load, track)} \cup {left : x \in {y \in {TRUE} : Unsupported}}

\* loadContext up to the job
LoadContext(w) == SubmitJob([NewLoad(w) EXCEPT !.loop.playing = TRUE], Job("context"))

\* advanceNext up to the job; without a context there is nothing to advance to.
Advance(w, delay) ==
  IF w.loop.context = 0 THEN w
  ELSE SubmitJob(NewLoad(w), [Job("nav") EXCEPT !.goesOn = TRUE, !.delay = delay])

\* The commit of a step: skipPrev, or advanceTo with what follows the context.
\* Off its end the stream to switch to is left alone until the station loads.
AdvanceTo(w, moved, job, hasNext) ==
  IF hasNext THEN LoadCurrentTrack(moved, job.goesOn, job.delay, FALSE)
  ELSE IF Autoplay THEN {SubmitJob(NewLoad(w), Job("autoplay"))}
  ELSE LoadCurrentTrack([moved EXCEPT !.loop.playing = FALSE], TRUE, job.delay, TRUE)

\* handlePlayerEvent
HandlePlayerEvent(w, ev) ==
  CASE ev.type = "play" -> [w EXCEPT !.loop.playing = TRUE]
    [] ev.type = "notplaying" ->
         Advance([w EXCEPT !.handled = @ \cup {<<ev.gen, w.loop.primary>>}], FALSE)
    [] OTHER -> w

\* drainPendingPlayerEvents
DrainPending(w) ==
  FoldLeft(HandlePlayerEvent, [w EXCEPT !.loop.pending = <<>>], w.loop.pending)

\* Mutant: the end of the stream that just landed is forgotten too.
ForgetReplacedOrOwn(w, gen) ==
  [w EXCEPT !.loop.pending =
     SelectSeq(@, LAMBDA e : e.gen > gen \/ e.type \notin {"notplaying", "stop"})]

\* forgetReplacedStreamEvents
ForgetReplaced(w, gen) ==
  [w EXCEPT !.loop.pending =
     SelectSeq(@, LAMBDA e : e.gen >= gen \/ e.type \notin {"notplaying", "stop"})]

\* commitLoad
CommitLoad(w, gen) ==
  [ForgetReplaced(w, gen) EXCEPT !.loop.primary = gen, !.loop.playing = TRUE]

\* commitPrefetch
CommitPrefetch(w, plan) == [w EXCEPT !.loop.secondary = plan]

\* The commit of each job: the worlds it may lead to.  A job that walked a list
\* the daemon no longer has changes nothing.
Commit(w, res) ==
  LET job == res.job
      moved == [w EXCEPT !.loop.changed = res.list]
      walks == job.kind \in {"skipto", "nav", "mutate", "peek"}
  IN  IF walks /\ w.loop.context # job.context THEN {w}
      ELSE IF res.err = "unplayable" /\ job.goesOn THEN {Advance(w, FALSE)}
      ELSE IF res.err # "nil" THEN {w}
      ELSE CASE job.kind \in {"play", "autoplay"} -> {LoadContext(w)}
             [] job.kind = "context" ->
                  LoadCurrentTrack([moved EXCEPT !.loop.context = job.id], TRUE, FALSE, FALSE)
             [] job.kind = "skipto" -> LoadCurrentTrack(moved, FALSE, job.delay, FALSE)
             [] job.kind = "nav" -> AdvanceTo(w, moved, job, res.hasNext)
             [] job.kind = "mutate" -> {InvalidateUpcoming(moved)}
             [] job.kind = "track" -> {CommitLoad(w, res.gen)}
             [] job.kind = "peek" ->
                  IF w.loop.secondary = res.list THEN {w}
                  ELSE {SubmitJob(w, [Job("prefetch") EXCEPT !.plan = res.list])}
             [] job.kind = "prefetch" -> {CommitPrefetch(w, job.plan)}

\* Mutant: the stream of a superseded load is left playing.
DiscardKeepsPlaying(w, res) == w

\* discard: the stream of a superseded load was handed over; nothing else will
\* replace it when playback was stopped.
Discard(w, res) ==
  IF res.job.kind = "track" /\ res.err = "nil" /\ ~w.loop.inFlight /\ w.loop.primary = 0
  THEN StopPlayer(w) ELSE w

Answer(w, job) == [w EXCEPT !.answered = @ \cup {job.id}]


\* applyLoaderResult
ApplyLoaderResult(w, res) ==
  LET job == res.job
      lands == Class(job) = "load" /\ job.gen = w.loop.loadGen
      settled == IF lands THEN [w EXCEPT !.loop.inFlight = FALSE] ELSE w
      stale == Class(job) # "mutate" /\ job.gen # Generation(w, job)
      after == IF stale THEN {Discard(settled, res)} ELSE Commit(settled, res)
  IN  {IF lands THEN DrainPending(Answer(v, job)) ELSE Answer(v, job) : v \in after}

---------------------------------------------------------------------------
(***************************************************************************)
(* The player loop                                                         *)
(***************************************************************************)

laneVars == <<pc, done, timer, list, ran>>
Running == loop.up # "down"

Commanded(w) == [w EXCEPT !.loop.stopped = FALSE]

\* A command of a controller, the API or MPRIS.
Operate(op, w) ==
  /\ Running
  /\ op \in Ops
  /\ ops < MaxOps
  /\ ops' = ops + 1
  /\ Becomes(w)
  /\ UNCHANGED <<laneVars, results>>

\* ApiRequestTypePlay: the job answers the request.
ApiPlay ==
  LET w == SubmitJob(NewLoad(Commanded(World)), Job("play"))
  IN  Operate("play", [w EXCEPT !.owed = @ \cup {w.ids}])

\* noteSkip: a press that follows another within the window delays its load.
Delays == IF Debounce THEN BOOLEAN ELSE {FALSE}

\* skipNext to a track
SkipTo ==
  /\ loop.context # 0
  /\ \E delay \in Delays :
       Operate("skipto", SubmitJob(NewLoad(Commanded(World)),
                                   [Job("skipto") EXCEPT !.delay = delay]))

\* skipNext
SkipNext ==
  /\ loop.context # 0
  /\ \E delay \in Delays : Operate("next", Advance(Commanded(World), delay))

\* skipPrev
SkipPrev ==
  /\ loop.context # 0
  /\ \E delay \in Delays :
       Operate("prev", SubmitJob(NewLoad(Commanded(World)), [Job("nav") EXCEPT !.delay = delay]))

\* addToQueue, setQueue, shuffling
ChangeList ==
  /\ loop.context # 0
  /\ Operate("mutate", SubmitJob(Commanded(World), Job("mutate")))

\* stopPlayback
StopPlayback ==
  LET o == DropLoads(lane)
      w == [NewLoad(InvalidateUpcoming(World)) EXCEPT
             !.lane = o.lane, !.answered = @ \cup o.answered,
             !.loop.inFlight = FALSE, !.loop.pending = <<>>, !.loop.primary = 0,
             !.loop.playing = FALSE, !.loop.stopped = TRUE]
  IN  Operate("stop", StopPlayer(w))

\* prefetchNext, when its timer fires; the timer runs only while a track plays.
PrefetchTimer ==
  /\ loop.context # 0 /\ loop.primary # 0
  /\ Operate("prefetch", SubmitJob(World, Job("peek")))

\* The loop receives an event of the player: deferPlayerEvent or handle it.
ReceivePlayerEvent ==
  /\ Running
  /\ player.ev # <<>>
  /\ LET ev == Head(player.ev)
         w == [World EXCEPT !.player.ev = Tail(@)]
     IN  Becomes(IF loop.inFlight THEN [w EXCEPT !.loop.pending = Append(@, ev)]
                 ELSE HandlePlayerEvent(w, ev))
  /\ UNCHANGED <<laneVars, results, ops>>

ReceiveResult ==
  /\ Running
  /\ results # <<>>
  /\ results' = Tail(results)
  /\ \E w \in ApplyLoaderResult(World, Head(results)) : Becomes(w)
  /\ UNCHANGED <<laneVars, ops>>

\* AppPlayer.Close: the loop is told to stop first, then the lane is closed.
CloseStops ==
  /\ loop.up = "running"
  /\ "close" \in Ops
  /\ loop' = [loop EXCEPT !.up = "stopping"]
  /\ UNCHANGED <<lane, laneVars, results, held, player, ids, owed, answered, handled, ops>>

\* Run returns, from its select or from that of loseSession.
LoopReturns ==
  /\ loop.up = "stopping"
  /\ loop' = [loop EXCEPT !.up = "down"]
  /\ UNCHANGED <<lane, laneVars, results, held, player, ids, owed, answered, handled, ops>>

CloseLoader ==
  /\ loop.up # "running" /\ ~lane.closed
  /\ LET o == CloseLane(lane)
     IN  lane' = o.lane /\ answered' = answered \cup o.answered
  /\ UNCHANGED <<loop, laneVars, results, held, player, ids, owed, handled, ops>>

---------------------------------------------------------------------------
(***************************************************************************)
(* The lane's goroutine                                                    *)
(***************************************************************************)

loopVars == <<loop, ids, owed, handled, ops>>

\* run: take the next job ...
TakeJob ==
  /\ pc = "next"
  /\ \E i \in Ready(lane, held) : lane' = Take(lane, i)
  /\ pc' = "run"
  /\ UNCHANGED <<loopVars, done, results, held, timer, player, list, answered, ran>>

\* ... or wait, for a wake-up, for a held job's time, or for the end.
WaitForJob ==
  /\ pc = "next"
  /\ Ready(lane, held) = {}
  /\ pc' = "wait"
  /\ timer' = IF lane.queue # <<>> /\ ~lane.closed THEN lane.queue[1].id ELSE 0
  /\ UNCHANGED <<loopVars, lane, done, results, held, player, list, answered, ran>>

Wake ==
  /\ pc = "wait"
  /\ lane.wake \/ (timer # 0 /\ timer \notin held)
  /\ \/ lane.wake /\ lane' = [lane EXCEPT !.wake = FALSE]
     \/ timer # 0 /\ timer \notin held /\ UNCHANGED lane
  /\ pc' = "next"
  /\ timer' = 0
  /\ UNCHANGED <<loopVars, done, results, held, player, list, answered, ran>>

LaneExits ==
  /\ pc = "wait"
  /\ lane.closed
  /\ pc' = "exit"
  /\ UNCHANGED <<loopVars, lane, done, results, held, timer, player, list, answered, ran>>

\* A debounce window passes.
Expire ==
  /\ held # {}
  /\ held' = held \ {CHOOSE id \in held : \A other \in held : id <= other}
  /\ UNCHANGED <<loopVars, lane, laneVars, results, player, answered>>

Result(err, gen, version, hasNext) ==
  [job |-> lane.running, err |-> err, gen |-> gen, list |-> version, hasNext |-> hasNext]

\* execute a job that fetches no media.
RunJob ==
  LET kind == lane.running.kind IN
  /\ pc = "run"
  /\ kind \notin {"track", "prefetch"}
  /\ \/ /\ kind \notin {"nav", "peek"}
        /\ done' = Result("failed", 0, 0, FALSE)
        /\ UNCHANGED <<list, ran>>
     \/ /\ kind \in {"play", "autoplay", "peek"}
        /\ done' = Result("nil", 0, list, FALSE)
        /\ UNCHANGED <<list, ran>>
     \/ /\ kind \in {"context", "skipto", "nav", "mutate"}
        /\ list' = list + 1
        /\ ran' = IF kind \in {"nav", "mutate"} THEN Append(ran, lane.running.id) ELSE ran
        /\ \E hasNext \in BOOLEAN :
             /\ hasNext \/ (kind = "nav" /\ lane.running.goesOn)
             /\ done' = Result("nil", 0, list + 1, hasNext)
  /\ lane' = Finished(lane)
  /\ pc' = "send"
  /\ UNCHANGED <<loopVars, results, held, timer, player, answered>>

\* fetchTrack: the stream goes to the player from here, also when the job was
\* cancelled too late.
RunFetchTrack ==
  /\ pc = "run"
  /\ lane.running.kind = "track"
  /\ \/ /\ \E err \in {"failed", "unplayable"} : done' = Result(err, 0, 0, FALSE)
        /\ UNCHANGED player
     \/ /\ done' = Result("nil", player.gen + 1, 0, FALSE)
        /\ player' = [gen |-> player.gen + 1, state |-> IF lane.running.paused THEN "paused" ELSE "playing",
                      ev |-> Append(player.ev, Event("play", player.gen + 1))]
  /\ lane' = Finished(lane)
  /\ pc' = "send"
  /\ UNCHANGED <<loopVars, results, held, timer, list, answered, ran>>

RunPrefetch ==
  /\ pc = "run"
  /\ lane.running.kind = "prefetch"
  /\ \E err \in {"nil", "failed"} : done' = Result(err, 0, 0, FALSE)
  /\ lane' = Finished(lane)
  /\ pc' = "send"
  /\ UNCHANGED <<loopVars, results, held, timer, player, list, answered, ran>>

\* The result goes to the loop, or is thrown away when the lane was closed.
SendResult ==
  /\ pc = "send"
  /\ \/ /\ Len(results) < ResultsCap
        /\ results' = Append(results, done)
        /\ pc' = "next"
        /\ UNCHANGED <<answered, player>>
     \/ /\ lane.closed
        /\ player' = Discard(World, done).player
        /\ answered' = answered \cup {done.job.id}
        /\ pc' = "exit"
        /\ UNCHANGED results
  /\ done' = NoResult
  /\ UNCHANGED <<loopVars, lane, held, timer, list, ran>>

\* The stream that plays runs out.
StreamEnds ==
  /\ player.state = "playing"
  /\ player' = [player EXCEPT !.state = "ended", !.ev = Append(@, Event("notplaying", player.gen))]
  /\ UNCHANGED <<loopVars, lane, laneVars, results, held, answered>>

---------------------------------------------------------------------------

Lane ==
  \/ TakeJob \/ WaitForJob \/ Wake \/ LaneExits \/ RunJob \/ RunFetchTrack
  \/ RunPrefetch \/ SendResult

Next ==
  \/ ApiPlay \/ SkipTo \/ SkipNext \/ SkipPrev \/ ChangeList \/ StopPlayback \/ PrefetchTimer
  \/ ReceivePlayerEvent \/ ReceiveResult \/ CloseStops \/ LoopReturns \/ CloseLoader
  \/ Lane \/ Expire \/ StreamEnds

Spec == Init /\ [][Next]_vars

---------------------------------------------------------------------------

Carried ==
  Ids(lane.queue) \cup {lane.running.id, done.job.id} \cup
  {results[i].job.id : i \in 1 .. Len(results)}

Outstanding ==
  Jobs(lane.queue) \cup {lane.running, done.job} \cup
  {results[i].job : i \in 1 .. Len(results)}

Quiescent == Outstanding = {NoJob} /\ ~loop.inFlight

\* Types and bounds: at most one result is being sent, the channels keep their
\* capacity and generations only name streams that were set.
TypeOK ==
  /\ loop.loadGen \in Nat /\ loop.prefetchGen \in Nat
  /\ loop.inFlight \in BOOLEAN /\ loop.playing \in BOOLEAN /\ loop.stopped \in BOOLEAN
  /\ loop.primary \in 0 .. player.gen
  /\ loop.up \in {"running", "stopping", "down"}
  /\ Len(lane.queue) <= QueueSize
  /\ \A job \in Outstanding \ {NoJob} : job.kind \in Kinds /\ job.gen \in Nat
  /\ pc \in {"next", "wait", "run", "send", "exit"}
  /\ (pc = "run") <=> (lane.running # NoJob)
  /\ (pc = "send") <=> (done # NoResult)
  /\ Len(results) <= ResultsCap
  /\ held \subseteq 1 .. ids
  /\ player.state \in {"stopped", "playing", "paused", "ended"}

\* A request whose answer a job carries is answered or its job still on the
\* way, as long as the loop runs: dropped, refused, superseded and failed jobs
\* are answered too (replyTo).
RequestsCarried == Running => owed \ answered \subseteq Carried

\* Changes of the track list and steps through it run in the order they were
\* asked for, also when one overtakes a load that is held back (next).
ListChangesInOrder == \A i, j \in 1 .. Len(ran) : i < j => ran[i] < ran[j]

\* The stream to switch to was not picked from the list as it was before a
\* change, or a step to another of its tracks, that the loop has applied
\* (invalidateUpcoming).
NoStalePrefetch == loop.secondary # 0 => loop.secondary >= loop.changed

\* The end of the stream the loop has recorded reaches the loop: it is on its
\* way or was handled, but never forgotten with the events of the stream that
\* was replaced (forgetReplacedStreamEvents).
OwnEndKept ==
  loop.primary = player.gen /\ player.state = "ended" =>
    LET end == Event("notplaying", player.gen)
    IN  \/ end \in Jobs(player.ev) \cup Jobs(loop.pending)
        \/ \E h \in handled : h[1] = player.gen

\* A stream that a load handed over although playback had been stopped does not
\* go on playing once its result has been thrown away (discard).
StoppedIsSilent ==
  loop.stopped /\ loop.up = "running" /\ Quiescent /\ loop.primary = 0 => player.state # "playing"

\* The streams the player has are those the loop means it to have: none that was
\* picked from an old list, none whose end goes unnoticed, none left over by stop.
StreamsAccounted == NoStalePrefetch /\ OwnEndKept /\ StoppedIsSilent

\* Events are held only for a load that is still to come: while loadInFlight is
\* set, a load or a step of the current generation is on its way.
InFlightIsOutstanding ==
  loop.inFlight /\ loop.up = "running" =>
    \E job \in Outstanding \ {NoJob} : Loads(job) /\ job.gen = loop.loadGen

\* The loop, the lane and the player are in step.
Consistent == TypeOK /\ InFlightIsOutstanding

\* The end of a stream is not handled against the stream that replaced it
\* (forgetReplacedStreamEvents).
ReplacedEndIgnored == \A h \in handled : h[2] # 0 => h[1] >= h[2]

\* Once playback was stopped, and nothing else was asked for, the state stays
\* that of an inactive device (stopPlayback).
StopIsFinal == loop.stopped => ~loop.playing

\* Once the loop and the lane have ended, every request taken was answered
\* (replyTo, handleRequest).
RequestsAnswered == loop.up = "down" /\ pc = "exit" => owed \subseteq answered
=============================================================================
