------------------------------- MODULE Player -------------------------------
(***************************************************************************)
(* player/player.go: manageLoop, the goroutine that owns the output device *)
(* and the switching source, the clients that send it commands over an     *)
(* unbuffered channel and wait for the answer, and the goroutine of the    *)
(* output device that reads the source meanwhile.                          *)
(*                                                                         *)
(* The output drivers are external: a call succeeds or fails, a new output *)
(* may play from the start, Drop may stop it, and an output that reaches   *)
(* the end of the source stops by itself.  Volume is passed through to the *)
(* device and left out.                                                    *)
(***************************************************************************)
EXTENDS SwitchingSource

CONSTANTS
  RunLoop,      \* the daemon's event loop, which also receives the events
  Loader,       \* the daemon's loader goroutine, which sets the streams
  Devices,      \* output device names
  EvCap,        \* cap(p.ev)
  Controls,     \* the commands the event loop issues (a bound)
  MaxCommands   \* commands a behaviour issues (a bound)

ASSUME PlayerAssumption ==
  /\ Controls \subseteq {"play", "pause", "stop", "seek", "position", "close", "secondary",
                        "reopen"}
  /\ EvCap \in Nat /\ MaxCommands \in Nat

Clients == {RunLoop, Loader}

VARIABLES
  optimistic, \* p.optimisticPlaybackReplies, which never changes
  src,        \* source
  out,        \* the output device: state, device it was opened on, a call failed
  paused,     \* paused
  device,     \* device
  streamGen,  \* p.streamGen
  ev,         \* p.ev
  mpc,        \* where manageLoop is
  cmd,        \* the command it handles
  client,     \* [Clients -> what the client does: idle, sending or awaiting an answer]
  answer,     \* [Clients -> the answer in cmd.resp]
  issued,     \* commands issued so far
  fresh,      \* streams not handed over yet
  setGen,     \* history: the generation of the stream last put in the source
  ended,      \* history: generations whose stream was read to its end
  told        \* history: generations of the notplaying events sent

playerVars == <<optimistic, src, out, paused, device, streamGen, ev, mpc, cmd>>
asked == <<client, issued, fresh>>
clientVars == <<asked, answer>>
history == <<setGen, ended, told>>
vars == <<playerVars, clientVars, history>>

NoOutput == [state |-> "none", device |-> None, broken |-> FALSE]
NoCommand == [type |-> "none", from |-> None, arg |-> None, paused |-> FALSE, drop |-> FALSE]
Command(type, from, arg, p, drop) ==
  [type |-> type, from |-> from, arg |-> arg, paused |-> p, drop |-> drop]
Event(type, gen) == [type |-> type, gen |-> gen]

Init ==
  /\ optimistic \in BOOLEAN
  /\ src = NewSource
  /\ out = NoOutput
  /\ paused = FALSE
  /\ device \in Devices
  /\ streamGen = 0
  /\ ev = <<>>
  /\ mpc = "select"
  /\ cmd = NoCommand
  /\ client = [c \in Clients |-> NoCommand]
  /\ answer = [c \in Clients |-> "none"]
  /\ issued = 0
  /\ fresh = Streams
  /\ setGen = 0
  /\ ended = {}
  /\ told = {}

---------------------------------------------------------------------------
(***************************************************************************)
(* Clients                                                                 *)
(***************************************************************************)

Idle(c) == client[c] = NoCommand

\* p.closed is closed.
Closed == mpc \in {"closing", "closed"}

\* send: the client blocks until manageLoop receives the command, or gives up
\* when the player is closed.
Send(c, new) ==
  /\ Idle(c)
  /\ issued < MaxCommands
  /\ client' = [client EXCEPT ![c] = new]
  /\ issued' = issued + 1
  /\ UNCHANGED <<playerVars, answer, history>>

\* fetchTrack in the loader: a new stream, or the one prefetched before.
SetPrimaryStream(s, p, drop) ==
  /\ s \in fresh \cup ({src.prim, src.sec} \ {None})
  /\ Send(Loader, Command("set", Loader, s, p, drop))
  /\ fresh' = fresh \ {s}

\* commitPrefetch and clearUpcoming in the event loop.
SetSecondaryStream(s) ==
  /\ "secondary" \in Controls
  /\ s \in fresh \cup {None}
  /\ Send(RunLoop, Command("secondary", RunLoop, s, FALSE, FALSE))
  /\ fresh' = fresh \ {s}

\* Play and SeekMs are sent only with a primary stream set (AppPlayer.play, seek).
Control(type) ==
  /\ type \in {"play", "seek"} => src.prim # None
  /\ Send(RunLoop, Command(type, RunLoop, None, FALSE, FALSE))
  /\ UNCHANGED fresh

Reopen(d) ==
  /\ "reopen" \in Controls
  /\ Send(RunLoop, Command("reopen", RunLoop, d, FALSE, FALSE))
  /\ UNCHANGED fresh

\* The answer arrives, or the send fails because p.closed is.
Answered(c) ==
  /\ \/ answer[c] # "none"
     \/ ~Idle(c) /\ Closed
  /\ client' = [client EXCEPT ![c] = NoCommand]
  /\ answer' = [answer EXCEPT ![c] = "none"]
  /\ UNCHANGED <<playerVars, issued, fresh, history>>

\* AppPlayer.Run receives an event, when it is not waiting for an answer.
ReceiveEvent ==
  /\ Idle(RunLoop)
  /\ ev # <<>>
  /\ ev' = Tail(ev)
  /\ UNCHANGED <<optimistic, src, out, paused, device, streamGen, mpc, cmd, clientVars, history>>

---------------------------------------------------------------------------
(***************************************************************************)
(* Calls of the output device                                              *)
(***************************************************************************)

\* The outputs newOutput may return: some play from the start.
OpenedOn(d) == [state : {"paused", "playing"}, device : {d}, broken : {FALSE}]

\* Pause, Resume: the output afterwards, when the call succeeds.  A device that
\* failed on its own answers without doing anything.
Called(state) == [out EXCEPT !.state = IF @ = "failed" THEN @ ELSE state]

\* Drop stops the stream on some backends and only flushes it on others.
Dropped == {out, Called("paused")}

Broken == [out EXCEPT !.broken = TRUE]

Reply(c, a) == answer' = [answer EXCEPT ![c] = a]

Finish == mpc' = "select" /\ cmd' = NoCommand

---------------------------------------------------------------------------
(***************************************************************************)
(* manageLoop                                                              *)
(***************************************************************************)

\* The select takes a command; what comes first for each.
Receive(c) ==
  /\ mpc = "select"
  /\ ~Idle(c) /\ answer[c] = "none"
  /\ cmd' = client[c]
  /\ mpc' = CASE client[c].type \in {"set", "play"} -> "open"
              [] client[c].type = "pause" -> IF out = NoOutput THEN "nothing" ELSE "call"
              [] OTHER -> client[c].type
  /\ UNCHANGED <<optimistic, src, out, paused, device, streamGen, ev, clientVars, history>>

\* ensureOutput: a failure is the answer.
EnsureOutput ==
  /\ mpc = "open"
  /\ \/ /\ out # NoOutput
        /\ mpc' = IF cmd.type = "set" THEN "drop" ELSE "call"
        /\ UNCHANGED <<out, cmd, answer>>
     \/ /\ out = NoOutput
        /\ out' \in OpenedOn(device)
        /\ mpc' = IF cmd.type = "set" THEN "drop" ELSE "call"
        /\ UNCHANGED <<cmd, answer>>
     \/ /\ out = NoOutput
        /\ Reply(cmd.from, "error")
        /\ Finish
        /\ UNCHANGED out
  /\ UNCHANGED <<optimistic, src, paused, device, streamGen, ev, asked, history>>

\* playerCmdSet: flush the previous stream, ignoring a failure, and count the
\* new one.  The sleep of 300 ms lies between this step and the next.
CountStream ==
  /\ mpc = "drop"
  /\ IF cmd.drop THEN out' \in Dropped \cup {Broken} ELSE UNCHANGED out
  /\ streamGen' = streamGen + 1
  /\ mpc' = "setprimary"
  /\ UNCHANGED <<optimistic, src, paused, device, ev, cmd, clientVars, history>>

PutStream ==
  /\ mpc = "setprimary"
  /\ src' = SetPrimary(src, cmd.arg)
  /\ setGen' = streamGen
  /\ mpc' = "call"
  /\ UNCHANGED <<optimistic, out, paused, device, streamGen, ev, cmd, clientVars, ended, told>>

\* The call runOutputOp makes: Pause for a pause or a paused stream, or Resume.
Pauses == cmd.type = "pause" \/ cmd.paused

\* onSuccess: seeking changes nothing.
OnSuccess ==
  IF cmd.type = "seek" THEN UNCHANGED <<paused, ev>>
  ELSE /\ paused' = Pauses
       /\ Len(ev) < EvCap
       /\ ev' = Append(ev, Event(IF Pauses THEN "pause" ELSE
                                 IF cmd.type = "set" THEN "play" ELSE "resume", streamGen))

\* op: a failure discards the output (closeOutput).
CallOutput ==
  \/ out' = Called(IF Pauses THEN "paused" ELSE "playing")
  \/ out' = NoOutput

\* runOutputOp: call, answer, then tell; or, with optimistic replies, answer,
\* tell, then call.
RunOutputOp ==
  /\ mpc = "call"
  /\ IF optimistic
     THEN /\ Reply(cmd.from, "ok")
          /\ mpc' = "tell"
          /\ UNCHANGED <<out, cmd>>
     ELSE /\ CallOutput
          /\ IF out' = NoOutput
             THEN Reply(cmd.from, "error") /\ Finish
             ELSE Reply(cmd.from, "ok") /\ mpc' = "tell" /\ UNCHANGED cmd
  /\ UNCHANGED <<optimistic, src, paused, device, streamGen, ev, asked, history>>

Tell ==
  /\ mpc = "tell"
  /\ OnSuccess
  /\ IF optimistic THEN mpc' = "late" /\ UNCHANGED cmd ELSE Finish
  /\ UNCHANGED <<optimistic, src, out, device, streamGen, clientVars, history>>

CallLate ==
  /\ mpc = "late"
  /\ CallOutput
  /\ Finish
  /\ UNCHANGED <<optimistic, src, paused, device, streamGen, ev, clientVars, history>>

\* Mutant: pausing nothing is not answered.
PauseNothingSilent ==
  /\ mpc = "nothing"
  /\ paused' = TRUE
  /\ Finish
  /\ UNCHANGED <<optimistic, src, out, device, streamGen, ev, clientVars, history>>

\* playerCmdPause with no output.
PauseNothing ==
  /\ mpc = "nothing"
  /\ paused' = TRUE
  /\ Reply(cmd.from, "ok")
  /\ Finish
  /\ UNCHANGED <<optimistic, src, out, device, streamGen, ev, asked, history>>

\* playerCmdSet of a secondary stream.
PutSecondary ==
  /\ mpc = "secondary"
  /\ src' = SetSecondary(src, cmd.arg)
  /\ Reply(cmd.from, "ok")
  /\ Finish
  /\ UNCHANGED <<optimistic, out, paused, device, streamGen, ev, asked, history>>

\* playerCmdStop: close the output, answer, then tell.
StopOutput ==
  /\ mpc = "stop"
  /\ out' = NoOutput
  /\ Reply(cmd.from, "ok")
  /\ mpc' = "stopped"
  /\ UNCHANGED <<optimistic, src, paused, device, streamGen, ev, cmd, asked, history>>

TellStopped ==
  /\ mpc = "stopped"
  /\ Len(ev) < EvCap
  /\ ev' = Append(ev, Event("stop", streamGen))
  /\ Finish
  /\ UNCHANGED <<optimistic, src, out, paused, device, streamGen, clientVars, history>>

\* playerCmdSeek: move the source first, flush the output, and resume unless
\* paused.  The sleep follows the flush.
SeekSource ==
  /\ mpc = "seek"
  /\ \E ok \in BOOLEAN :
       /\ src' = SetPosition(src, 0, ok)
       /\ IF ~ok
          THEN Reply(cmd.from, "error") /\ Finish /\ UNCHANGED out
          ELSE IF out = NoOutput
          THEN mpc' = "sought" /\ UNCHANGED <<out, cmd, answer>>
          ELSE \/ out' \in Dropped /\ mpc' = "sought" /\ UNCHANGED <<cmd, answer>>
               \/ out' = NoOutput /\ Reply(cmd.from, "error") /\ Finish
  /\ UNCHANGED <<optimistic, paused, device, streamGen, ev, asked, history>>

\* Mutant: a seek restarts the output also while paused.
SeekResumesAlways ==
  /\ mpc = "sought"
  /\ mpc' = "open"
  /\ UNCHANGED <<optimistic, src, out, paused, device, streamGen, ev, cmd, clientVars, history>>

SeekResumes ==
  /\ mpc = "sought"
  /\ IF paused THEN Reply(cmd.from, "ok") /\ Finish
     ELSE mpc' = "open" /\ UNCHANGED <<cmd, answer>>
  /\ UNCHANGED <<optimistic, src, out, paused, device, streamGen, ev, asked, history>>

\* playerCmdReopenOutput: close before opening again ...
ReopenOutput ==
  /\ mpc = "reopen"
  /\ device' = cmd.arg
  /\ IF out = NoOutput
     THEN Reply(cmd.from, "ok") /\ Finish /\ UNCHANGED out
     ELSE \/ out' = NoOutput /\ Reply(cmd.from, "error") /\ Finish
          \/ out' \in OpenedOn(cmd.arg) /\ mpc' = "restore" /\ UNCHANGED <<cmd, answer>>
  /\ UNCHANGED <<optimistic, src, paused, streamGen, ev, asked, history>>

\* ... and keep the pause.
RestoreOutput ==
  /\ mpc = "restore"
  /\ \/ out' = NoOutput /\ Reply(cmd.from, "error")
     \/ out' = Called(IF paused THEN "paused" ELSE "playing") /\ Reply(cmd.from, "ok")
  /\ Finish
  /\ UNCHANGED <<optimistic, src, paused, device, streamGen, ev, asked, history>>

\* playerCmdPosition
TellPosition ==
  /\ mpc = "position"
  /\ Reply(cmd.from, "ok")
  /\ Finish
  /\ UNCHANGED <<optimistic, src, out, paused, device, streamGen, ev, asked, history>>

\* playerCmdClose: no answer; p.closed first, then the output.
Close ==
  /\ mpc = "close"
  /\ mpc' = "closing"
  /\ cmd' = NoCommand
  /\ UNCHANGED <<optimistic, src, out, paused, device, streamGen, ev, clientVars, history>>

CloseOutput ==
  /\ mpc = "closing"
  /\ mpc' = "closed"
  /\ out' = NoOutput
  /\ UNCHANGED <<optimistic, src, paused, device, streamGen, ev, cmd, clientVars, history>>

\* The output reported an error, or that it exited.
OutputExited ==
  /\ mpc = "select"
  /\ out.state = "failed"
  /\ Len(ev) < EvCap
  /\ out' = NoOutput
  /\ ev' = Append(ev, Event("stop", streamGen))
  /\ UNCHANGED <<optimistic, src, paused, device, streamGen, mpc, cmd, clientVars, history>>

\* The token of reportDone, with the generation of the moment it is taken.
SourceDone ==
  /\ mpc = "select"
  /\ src.done
  /\ Len(ev) < EvCap
  /\ src' = [src EXCEPT !.done = FALSE]
  /\ ev' = Append(ev, Event("notplaying", streamGen))
  /\ told' = told \cup {streamGen}
  /\ UNCHANGED <<optimistic, out, paused, device, streamGen, mpc, cmd, clientVars, setGen, ended>>

---------------------------------------------------------------------------
(***************************************************************************)
(* The output device                                                       *)
(***************************************************************************)

\* The goroutine of the output reads the source: at the end it stops, at an
\* error it reports and exits.
OutputReads ==
  /\ out.state = "playing"
  /\ CanRead(src)
  /\ \E o \in Read(src, 1) :
       /\ src' = o.src
       /\ out' = [out EXCEPT !.state = CASE o.res.err = "EOF" -> "paused"
                                         [] o.res.err = "failed" -> "failed"
                                         [] OTHER -> @]
       /\ ended' = IF o.res.err = "EOF" \/ o.src.prim # src.prim
                   THEN ended \cup {setGen} ELSE ended
  /\ UNCHANGED <<optimistic, paused, device, streamGen, ev, mpc, cmd, clientVars, setGen, told>>

\* The device fails, or its server goes away.
OutputFails ==
  /\ out.state = "playing"
  /\ out' = [out EXCEPT !.state = "failed"]
  /\ UNCHANGED <<optimistic, src, paused, device, streamGen, ev, mpc, cmd, clientVars, history>>

---------------------------------------------------------------------------

Handle ==
  \/ EnsureOutput \/ CountStream \/ PutStream \/ RunOutputOp \/ Tell \/ CallLate
  \/ PauseNothing \/ PutSecondary \/ StopOutput \/ TellStopped \/ SeekSource
  \/ SeekResumes \/ ReopenOutput \/ RestoreOutput \/ TellPosition \/ Close \/ CloseOutput

ManageLoop ==
  \/ Handle
  \/ \E c \in Clients : Receive(c)
  \/ OutputExited
  \/ SourceDone

Next ==
  \/ \E s \in Streams, p, drop \in BOOLEAN : SetPrimaryStream(s, p, drop)
  \/ \E s \in Streams \cup {None} : SetSecondaryStream(s)
  \/ \E t \in Controls \ {"secondary", "reopen"} : Control(t)
  \/ \E d \in Devices : Reopen(d)
  \/ \E c \in Clients : Answered(c)
  \/ ReceiveEvent
  \/ ManageLoop
  \/ OutputReads
  \/ OutputFails

Spec == Init /\ [][Next]_vars

\* The goroutines run, a playing device reads, and the event loop comes back to
\* its select.  Commands and failures need not happen.
Fairness ==
  /\ WF_vars(ManageLoop)
  /\ WF_vars(OutputReads)
  /\ WF_vars(ReceiveEvent)
  /\ \A c \in Clients : WF_vars(Answered(c))

FairSpec == Spec /\ Fairness

---------------------------------------------------------------------------

Steps == {"select", "open", "nothing", "drop", "setprimary", "call", "tell", "late",
          "secondary", "stop", "stopped", "seek", "sought", "reopen", "restore",
          "position", "close", "closing", "closed"}

Commands ==
  [type : {"none", "set", "secondary", "play", "pause", "stop", "seek", "position",
           "reopen", "close"},
   from : Clients \cup {None}, arg : Streams \cup Devices \cup {None},
   paused : BOOLEAN, drop : BOOLEAN]

Outputs ==
  [state : {"none", "paused", "playing", "failed"}, device : Devices \cup {None},
   broken : BOOLEAN]

\* Types: manageLoop is at one of its steps, with the command that leads there.
TypeOK ==
  /\ optimistic \in BOOLEAN
  /\ src \in Sources
  /\ out \in Outputs
  /\ paused \in BOOLEAN
  /\ device \in Devices
  /\ streamGen \in Nat
  /\ ev \in Seq([type : {"play", "pause", "resume", "stop", "notplaying"}, gen : Nat])
  /\ Len(ev) <= EvCap
  /\ mpc \in Steps
  /\ cmd \in Commands
  /\ client \in [Clients -> Commands]
  /\ answer \in [Clients -> {"none", "ok", "error"}]
  /\ issued \in 0 .. MaxCommands
  /\ fresh \subseteq Streams
  /\ setGen \in Nat
  /\ ended \subseteq Nat
  /\ told \subseteq Nat

\* What manageLoop believes agrees with the device: between commands, an output
\* that plays was not paused.  A new output may play by itself, a seek flushes
\* and restarts it, a reopened one replaces a paused one, calls fail.
PauseIsKept == mpc = "select" /\ out.state = "playing" => ~paused

\* Between commands an open output is the one on the device chosen last
\* (playerCmdReopenOutput), whatever failed on the way.
DeviceIsCurrent == mpc = "select" /\ out # NoOutput => out.device = device

\* An answer belongs to a command: no client that waits for nothing finds one,
\* and manageLoop is never at work on a command it has answered, except in what
\* runOutputOp and Stop do after answering.  A second answer on an unbuffered
\* cmd.resp would block manageLoop for good.
AnswersOnce ==
  /\ \A c \in Clients : answer[c] # "none" => ~Idle(c)
  /\ cmd # NoCommand /\ mpc \notin {"tell", "late", "stopped"} =>
       ~Idle(cmd.from) /\ answer[cmd.from] = "none"

\* What manageLoop keeps agrees with the output and with its clients.
Consistent == TypeOK /\ PauseIsKept /\ DeviceIsCurrent /\ AnswersOnce

\* Every command is answered, or fails with ErrPlayerClosed, also when the
\* player closes meanwhile (the comment on send).
EveryCommandAnswered == \A c \in Clients : ~Idle(c) ~> Idle(c)

\* The end of a stream is announced with its generation, unless another stream
\* has been set or the player closed by then: eofReported is set once per
\* stream and done holds a single token.
EveryEndAnnounced ==
  \A g \in 1 .. MaxCommands : g \in ended ~> (g \in told \/ streamGen > g \/ Closed)

\* An event names the stream it came from (Event.StreamGen): the end of a stream
\* is only announced under the generation of a stream that ended.
EventNamesItsStream == told \subseteq ended

\* An output that failed a call is not called again (closeOutput).
FailedOutputNotReused == mpc \in {"call", "late"} => ~out.broken
=============================================================================
