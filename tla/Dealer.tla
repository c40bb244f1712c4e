------------------------------ MODULE Dealer ------------------------------
(***************************************************************************)
(* The dealer connection (dealer/dealer.go, dealer/recv.go): a websocket   *)
(* read by recvLoop, which reconnects it when it breaks; dispatchLoop,     *)
(* which hands every frame to the receiver registered for it and waits for *)
(* the answer to a request; the ping watchdog; and Close.  The consumer is *)
(* the player loop (daemon/player.go, Run).                                *)
(*                                                                         *)
(* A frame is numbered in the order the server sent it, over all           *)
(* connections.  recvLoop ends by starting its successor or for good, so   *)
(* one process stands for all of them.                                     *)
(***************************************************************************)
EXTENDS Integers, Sequences, FiniteSets

CONSTANTS
  DispatchCap,   \* cap(d.dispatchCh)
  MaxFrames,     \* messages and requests the server sends (a bound)
  MaxDials       \* connections made in a behaviour (a bound)

ASSUME DealerAssumption == DispatchCap \in Nat \ {0}

Receivers == {"message", "request"}
LoopPlaces ==
  {"none", "top", "read", "hand", "end", "test", "retry", "installed", "giveup", "receivers",
   "messages", "gone"}

VARIABLES
  conn,        \* d.conn, as a number; 0 is nil
  open,        \* the connections that are open
  dials,       \* connections made so far
  once,        \* how far closeOnce has come: free, done, conn, finished
  stopping,    \* AppPlayer.Close has begun
  loop,        \* recvLoop: where it is, see LoopPlaces
  frame,       \* the frame recvLoop hands over
  frames,      \* frames sent by the server so far
  ch,          \* d.dispatchCh
  disp,        \* dispatchLoop: its place and its frame
  pong,        \* whether the last pong is overdue
  ping,        \* pingTicker: none, idle, overdue, exit
  recv,        \* the receivers: none, open or closed
  consumer,    \* the player loop: where it is, see ConsumerPlaces
  resp,        \* the answer of the consumer, for the request being handled
  delivered,   \* history: frames received by the consumer
  replied      \* history: requests whose reply was written, or could not be

connVars == <<conn, open, dials>>
dispVars == <<disp, resp, replied>>
vars == <<connVars, once, stopping, loop, frame, frames, ch, dispVars, pong, ping, recv,
          consumer, delivered>>

NoFrame == [id |-> 0, type |-> "none"]
Done == once # "free"
Cancelled == once = "finished"

Init ==
  /\ conn = 0 /\ open = {} /\ dials = 0
  /\ once = "free" /\ stopping = FALSE
  /\ loop = "none" /\ frame = NoFrame /\ frames = 0 /\ ch = <<>>
  /\ disp = [pc |-> "none", frame |-> NoFrame] /\ resp = "none"
  /\ pong = "fresh" /\ ping = "none"
  /\ recv = [r \in Receivers |-> "none"]
  /\ consumer = "connect"
  /\ delivered = <<>> /\ replied = {}

---------------------------------------------------------------------------
(***************************************************************************)
(* Close, by whoever enters closeOnce first                                *)
(***************************************************************************)

\* The player is closed: Run is told to stop before the dealer is closed.
StopPlayer ==
  /\ ~stopping
  /\ stopping' = TRUE
  /\ UNCHANGED <<connVars, once, loop, frame, frames, ch, dispVars, pong, ping, recv,
                 consumer, delivered>>

CloseDone ==
  /\ once = "free"
  /\ stopping \/ loop = "giveup"
  /\ once' = "done"
  /\ UNCHANGED <<connVars, stopping, loop, frame, frames, ch, dispVars, pong, ping, recv,
                 consumer, delivered>>

\* closeConn
CloseConn ==
  /\ once = "done"
  /\ once' = "conn"
  /\ open' = open \ {conn}
  /\ UNCHANGED <<conn, dials, stopping, loop, frame, frames, ch, dispVars, pong, ping,
                 recv, consumer, delivered>>

CancelContext ==
  /\ once = "conn"
  /\ once' = "finished"
  /\ UNCHANGED <<connVars, stopping, loop, frame, frames, ch, dispVars, pong, ping, recv,
                 consumer, delivered>>

---------------------------------------------------------------------------
(***************************************************************************)
(* recvLoop and reconnect                                                  *)
(***************************************************************************)

Goto(from, to) == loop = from /\ loop' = to

TestDone ==
  /\ loop = "top"
  /\ loop' = IF Done THEN "end" ELSE "read"
  /\ UNCHANGED <<connVars, once, stopping, frame, frames, ch, dispVars, pong, ping, recv,
                 consumer, delivered>>

\* readConn returns a frame ...
ReadFrame ==
  /\ Goto("read", "hand")
  /\ conn \in open /\ ~Cancelled
  /\ frames < MaxFrames
  /\ frames' = frames + 1
  /\ \E type \in Receivers : frame' = [id |-> frames + 1, type |-> type]
  /\ UNCHANGED <<connVars, once, stopping, ch, dispVars, pong, ping, recv, consumer, delivered>>

\* ... a pong ...
ReadPong ==
  /\ Goto("read", "top")
  /\ conn \in open /\ ~Cancelled
  /\ pong' = "fresh"
  /\ UNCHANGED <<connVars, once, stopping, frame, frames, ch, dispVars, ping, recv,
                 consumer, delivered>>

\* ... something that cannot be unmarshalled ...
ReadGarbage ==
  /\ Goto("read", "end")
  /\ conn \in open /\ ~Cancelled
  /\ UNCHANGED <<connVars, once, stopping, frame, frames, ch, dispVars, pong, ping, recv,
                 consumer, delivered>>

\* Mutant: the loop goes on reading after an error.
ReadFailsContinues ==
  /\ Goto("read", "top")
  /\ conn \notin open \/ Cancelled
  /\ UNCHANGED <<connVars, once, stopping, frame, frames, ch, dispVars, pong, ping, recv,
                 consumer, delivered>>

\* ... or an error.
ReadFails ==
  /\ Goto("read", "end")
  /\ conn \notin open \/ Cancelled
  /\ UNCHANGED <<connVars, once, stopping, frame, frames, ch, dispVars, pong, ping, recv,
                 consumer, delivered>>

HandOver ==
  /\ loop = "hand"
  /\ \/ /\ Len(ch) < DispatchCap
        /\ ch' = Append(ch, frame)
        /\ loop' = "top"
     \/ /\ Done
        /\ loop' = "end"
        /\ UNCHANGED ch
  /\ frame' = NoFrame
  /\ UNCHANGED <<connVars, once, stopping, frames, dispVars, pong, ping, recv, consumer,
                 delivered>>

\* Mutant: the connection is left to whoever broke it.
EndLoopKeepsConn ==
  /\ Goto("end", "test")
  /\ UNCHANGED <<connVars, once, stopping, frame, frames, ch, dispVars, pong, ping, recv,
                 consumer, delivered>>

\* The loop is over: it always closes the connection, then looks whether the
\* dealer was closed.
EndLoop ==
  /\ loop = "end"
  /\ open' = open \ {conn}
  /\ loop' = "test"
  /\ UNCHANGED <<conn, dials, once, stopping, frame, frames, ch, dispVars, pong, ping, recv,
                 consumer, delivered>>

TestClosed ==
  /\ loop = "test"
  /\ loop' = IF Done THEN "receivers" ELSE "retry"
  /\ UNCHANGED <<connVars, once, stopping, frame, frames, ch, dispVars, pong, ping, recv,
                 consumer, delivered>>

\* reconnect: connect replaces the connection ...
Reconnect ==
  /\ Goto("retry", "installed")
  /\ ~Cancelled
  /\ dials < MaxDials
  /\ dials' = dials + 1
  /\ conn' = dials'
  /\ open' = (open \ {conn}) \cup {dials'}
  /\ UNCHANGED <<once, stopping, frame, frames, ch, dispVars, pong, ping, recv, consumer,
                 delivered>>

\* ... and the next recvLoop starts; the receivers stay as they are.
Reconnected ==
  /\ Goto("installed", "top")
  /\ pong' = "fresh"
  /\ UNCHANGED <<connVars, once, stopping, frame, frames, ch, dispVars, ping, recv,
                 consumer, delivered>>

\* The backoff is used up, or the context cancelled: Close.
GiveUp ==
  /\ Goto("retry", "giveup")
  /\ UNCHANGED <<connVars, once, stopping, frame, frames, ch, dispVars, pong, ping, recv,
                 consumer, delivered>>

GaveUp ==
  /\ Goto("giveup", "receivers")
  /\ once = "finished"
  /\ UNCHANGED <<connVars, once, stopping, frame, frames, ch, dispVars, pong, ping, recv,
                 consumer, delivered>>

\* The requests' receivers are closed before the messages'.
CloseReceivers ==
  /\ loop \in {"receivers", "messages"}
  /\ LET r == IF loop = "receivers" THEN "request" ELSE "message"
     IN  recv' = [recv EXCEPT ![r] = IF @ = "open" THEN "closed" ELSE @]
  /\ loop' = IF loop = "receivers" THEN "messages" ELSE "gone"
  /\ UNCHANGED <<connVars, once, stopping, frame, frames, ch, dispVars, pong, ping,
                 consumer, delivered>>

\* The network: the current connection breaks.
ConnBreaks ==
  /\ conn \in open
  /\ open' = open \ {conn}
  /\ UNCHANGED <<conn, dials, once, stopping, loop, frame, frames, ch, dispVars, pong,
                 ping, recv, consumer, delivered>>

---------------------------------------------------------------------------
(***************************************************************************)
(* dispatchLoop, handleMessage and handleRequest                           *)
(***************************************************************************)

\* A frame nobody registered for, or that cannot be decoded, is dropped.
TakeFrame ==
  /\ disp.pc = "idle"
  /\ ch # <<>>
  /\ ch' = Tail(ch)
  /\ \/ /\ recv[Head(ch).type] # "none"
        /\ disp' = [pc |-> "enter", frame |-> Head(ch)]
     \/ UNCHANGED disp
  /\ UNCHANGED <<connVars, once, stopping, loop, frame, frames, resp, replied, pong, ping,
                 recv, consumer, delivered>>

DispatcherReturns ==
  /\ disp.pc = "idle" /\ Done
  /\ disp' = [disp EXCEPT !.pc = "exit"]
  /\ UNCHANGED <<connVars, once, stopping, loop, frame, frames, ch, resp, replied, pong,
                 ping, recv, consumer, delivered>>

\* Mutant: the dispatcher does not wait for the answer to a request.
DeliverForgets ==
  /\ disp.pc = "enter" \/ (disp.pc = "blocked" /\ ~Done)
  /\ recv[disp.frame.type] = "open"
  /\ consumer = "serve"
  /\ delivered' = Append(delivered, disp.frame)
  /\ disp' = [pc |-> "idle", frame |-> NoFrame]
  /\ UNCHANGED <<connVars, once, stopping, loop, frame, frames, ch, resp, replied, pong,
                 ping, recv, consumer>>

\* The select that sends to the receiver.  One that is already waiting when done
\* is closed returns; one that comes to the select later may pick the send.
Deliver ==
  /\ disp.pc = "enter" \/ (disp.pc = "blocked" /\ ~Done)
  /\ recv[disp.frame.type] = "open"
  /\ consumer = "serve"
  /\ delivered' = Append(delivered, disp.frame)
  /\ IF disp.frame.type = "request"
     THEN /\ disp' = [disp EXCEPT !.pc = "wait"]
          /\ consumer' = "busy"
     ELSE /\ disp' = [pc |-> "idle", frame |-> NoFrame]
          /\ UNCHANGED consumer
  /\ UNCHANGED <<connVars, once, stopping, loop, frame, frames, ch, resp, replied, pong,
                 ping, recv>>

SendBlocks ==
  /\ disp.pc = "enter"
  /\ ~Done /\ recv[disp.frame.type] = "open" /\ consumer # "serve"
  /\ disp' = [disp EXCEPT !.pc = "blocked"]
  /\ UNCHANGED <<connVars, once, stopping, loop, frame, frames, ch, resp, replied, pong,
                 ping, recv, consumer, delivered>>

\* Mutant: the send to a receiver does not give way to done.
DispatchAbortsWaitOnly ==
  /\ disp.pc = "wait"
  /\ Done
  /\ disp' = [pc |-> "idle", frame |-> NoFrame]
  /\ resp' = "none"
  /\ UNCHANGED <<connVars, once, stopping, loop, frame, frames, ch, replied, pong, ping,
                 recv, consumer, delivered>>

\* Any of the three waits gives way to done.
DispatchAborts ==
  /\ disp.pc \in {"enter", "blocked", "wait"}
  /\ Done
  /\ disp' = [pc |-> "idle", frame |-> NoFrame]
  /\ resp' = "none"
  /\ UNCHANGED <<connVars, once, stopping, loop, frame, frames, ch, replied, pong, ping,
                 recv, consumer, delivered>>

\* A send on a closed channel panics, whatever else the select could do.
SendPanics ==
  /\ disp.pc = "enter"
  /\ recv[disp.frame.type] = "closed"
  /\ disp' = [disp EXCEPT !.pc = "panic"]
  /\ UNCHANGED <<connVars, once, stopping, loop, frame, frames, ch, resp, replied, pong,
                 ping, recv, consumer, delivered>>

\* sendReply, on the connection of the moment
SendReply ==
  /\ disp.pc = "wait" /\ resp # "none"
  /\ replied' = replied \cup {[id |-> disp.frame.id, sent |-> conn \in open /\ ~Done]}
  /\ disp' = [pc |-> "idle", frame |-> NoFrame]
  /\ resp' = "none"
  /\ UNCHANGED <<connVars, once, stopping, loop, frame, frames, ch, pong, ping, recv,
                 consumer, delivered>>

---------------------------------------------------------------------------
(***************************************************************************)
(* pingTicker.  A ping whose write fails closes the connection it was      *)
(* written to, which ConnBreaks includes.                                  *)
(***************************************************************************)

PongOverdue ==
  /\ pong = "fresh" /\ ping # "none"
  /\ pong' = "overdue"
  /\ UNCHANGED <<connVars, once, stopping, loop, frame, frames, ch, dispVars, ping, recv,
                 consumer, delivered>>

PingTick ==
  /\ ping = "idle" /\ pong = "overdue"
  /\ ping' = "overdue"
  /\ UNCHANGED <<connVars, once, stopping, loop, frame, frames, ch, dispVars, pong, recv,
                 consumer, delivered>>

PingCloses ==
  /\ ping = "overdue"
  /\ ping' = "idle"
  /\ open' = open \ {conn}
  /\ UNCHANGED <<conn, dials, once, stopping, loop, frame, frames, ch, dispVars, pong, recv,
                 consumer, delivered>>

PingReturns ==
  /\ ping = "idle" /\ Done
  /\ ping' = "exit"
  /\ UNCHANGED <<connVars, once, stopping, loop, frame, frames, ch, dispVars, pong, recv,
                 consumer, delivered>>

---------------------------------------------------------------------------
(***************************************************************************)
(* The consumer: Run connects, registers its receivers and serves them     *)
(***************************************************************************)

ConsumerPlaces ==
  {"connect", "message", "registerMessage", "request", "registerRequest", "serve", "busy",
   "over"}

\* Connect
Connect ==
  /\ consumer = "connect"
  /\ \/ /\ ~Done /\ dials < MaxDials
        /\ dials' = dials + 1 /\ conn' = dials' /\ open' = open \cup {dials'}
        /\ consumer' = "message"
        /\ UNCHANGED stopping
     \/ /\ consumer' = "over"
        /\ stopping' = TRUE
        /\ UNCHANGED connVars
  /\ UNCHANGED <<once, loop, frame, frames, ch, dispVars, pong, ping, recv, delivered>>

\* ReceiveMessage and ReceiveRequest: a dealer that was closed hands out a
\* closed channel ...
Receive ==
  /\ consumer \in Receivers
  /\ IF Done
     THEN /\ recv' = [recv EXCEPT ![consumer] = "closed"]
          /\ consumer' = IF consumer = "message" THEN "request" ELSE "serve"
     ELSE /\ consumer' = IF consumer = "message" THEN "registerMessage" ELSE "registerRequest"
          /\ UNCHANGED recv
  /\ UNCHANGED <<connVars, once, stopping, loop, frame, frames, ch, dispVars, pong, ping,
                 delivered>>

\* ... otherwise the receiver is added, and the first one starts the loops.
Register ==
  /\ consumer \in {"registerMessage", "registerRequest"}
  /\ IF consumer = "registerMessage"
     THEN recv' = [recv EXCEPT !["message"] = "open"] /\ consumer' = "request"
     ELSE recv' = [recv EXCEPT !["request"] = "open"] /\ consumer' = "serve"
  /\ IF loop = "none"
     THEN loop' = "top" /\ disp' = [disp EXCEPT !.pc = "idle"] /\ ping' = "idle" /\ pong' = "fresh"
     ELSE UNCHANGED <<loop, disp, ping, pong>>
  /\ UNCHANGED <<connVars, once, stopping, frame, frames, ch, resp, replied, delivered>>

\* The consumer has handled a request.
Answer ==
  /\ consumer = "busy"
  /\ consumer' = "serve"
  /\ resp' = IF disp.pc = "wait" THEN "answered" ELSE resp
  /\ UNCHANGED <<connVars, once, stopping, loop, frame, frames, ch, disp, replied, pong,
                 ping, recv, delivered>>

\* loseSession: a receiver was closed, the daemon closes the player.
LoseSession ==
  /\ consumer = "serve" /\ ~stopping
  /\ \E r \in Receivers : recv[r] = "closed"
  /\ stopping' = TRUE
  /\ UNCHANGED <<connVars, once, loop, frame, frames, ch, dispVars, pong, ping, recv,
                 consumer, delivered>>

ConsumerReturns ==
  /\ consumer = "serve" /\ stopping
  /\ consumer' = "over"
  /\ UNCHANGED <<connVars, once, stopping, loop, frame, frames, ch, dispVars, pong, ping,
                 recv, delivered>>

---------------------------------------------------------------------------

CloseStep == CloseDone \/ CloseConn \/ CancelContext

RecvLoop ==
  \/ TestDone \/ ReadFails \/ HandOver \/ EndLoop \/ TestClosed
  \/ Reconnect \/ Reconnected \/ GiveUp \/ GaveUp \/ CloseReceivers

DispatchLoop ==
  \/ TakeFrame \/ DispatcherReturns \/ Deliver \/ SendBlocks \/ DispatchAborts \/ SendPanics
  \/ SendReply

PingTicker == PingTick \/ PingCloses \/ PingReturns

Consumer == Connect \/ Receive \/ Register \/ Answer \/ LoseSession \/ ConsumerReturns

Environment == StopPlayer \/ ReadFrame \/ ReadPong \/ ReadGarbage \/ ConnBreaks \/ PongOverdue

\* A panic of one goroutine ends the process.
Next ==
  /\ disp.pc # "panic"
  /\ CloseStep \/ RecvLoop \/ DispatchLoop \/ PingTicker \/ Consumer \/ Environment

Spec == Init /\ [][Next]_vars

\* Goroutines that can go on do, and the consumer handles every request.  The
\* ticker's select finds done closed long before the next tick.
Fairness ==
  /\ SF_vars(PingReturns)
  /\ WF_vars(CloseStep) /\ WF_vars(RecvLoop) /\ WF_vars(PingTicker)
  /\ WF_vars(DispatchLoop) /\ WF_vars(Consumer)

FairSpec == Spec /\ Fairness

---------------------------------------------------------------------------

Requests == {delivered[i].id : i \in {j \in DOMAIN delivered : delivered[j].type = "request"}}

\* Types; the dispatch channel keeps its capacity and only the connection in use
\* is open.
TypeOK ==
  /\ conn \in 0 .. dials /\ open \subseteq {conn} \ {0}
  /\ once \in {"free", "done", "conn", "finished"} /\ stopping \in BOOLEAN
  /\ loop \in LoopPlaces /\ consumer \in ConsumerPlaces
  /\ (loop = "hand") <=> (frame # NoFrame)
  /\ Len(ch) <= DispatchCap
  /\ disp.pc \in {"none", "idle", "enter", "blocked", "wait", "exit", "panic"}
  /\ recv \in [Receivers -> {"none", "open", "closed"}]
  /\ pong \in {"fresh", "overdue"} /\ ping \in {"none", "idle", "overdue", "exit"}

\* The consumer gets frames in the order they were read, each once, also over a
\* reconnection: one dispatcher hands them on (dispatchLoop).
InOrder == \A i, j \in DOMAIN delivered : i < j => delivered[i].id < delivered[j].id

\* A request that was delivered was replied to, or is the one in hand, before
\* the next frame is delivered, unless the dealer was closed in between.
RepliedInTurn ==
  ~Done => Requests \subseteq {r.id : r \in replied} \cup {disp.frame.id}

\* The consumer sees one conversation, whatever happens to the connections.
Conversation == InOrder /\ RepliedInTurn

\* Receivers are only closed once the dealer is done for, not while it still
\* reconnects: the player loop takes a closed receiver for a lost session.
ClosedForGood == (\E r \in Receivers : recv[r] = "closed") => Done

\* When the last recvLoop has ended no connection is left open, not even one
\* that was dialled while Close ran.
NoConnectionLeft == loop = "gone" => open = {}

\* Connections, receivers and goroutines agree on whether the dealer is done for, and
\* carry one conversation.
Consistent == TypeOK /\ ClosedForGood /\ NoConnectionLeft /\ Conversation

\* No frame is sent to a receiver that was closed: losing the dealer ends the
\* session, not the process.
NoSendOnClosed == disp.pc # "panic"

Crashed == disp.pc = "panic"

\* A broken connection is replaced, or the dealer is closed (reconnect).
Reconnects ==
  (conn # 0 /\ conn \notin open /\ loop = "read") ~> (conn \in open \/ Done \/ Crashed)

\* Once the dealer is closed its goroutines end, whatever they waited for: a
\* consumer that no longer serves, a full channel or the next attempt to dial.
\* A receiver that was registered before is closed with it: the player loop
\* learns that its session is lost.
CloseEnds ==
  /\ (Done /\ loop # "none") ~>
       ((loop = "gone" /\ disp.pc = "exit" /\ ping = "exit") \/ Crashed)
  /\ \A r \in Receivers :
       []((recv[r] = "open" /\ ~Done) => [](Done => <>(recv[r] = "closed" \/ Crashed)))
=============================================================================
