---------------------------- MODULE DealerProofs ----------------------------
(***************************************************************************)
(* Proofs about Dealer, for any capacity of the dispatch channel and any   *)
(* number of frames and connections: the consumer gets the frames in the   *)
(* order they were sent, over all connections, and every request delivered *)
(* is replied to before the next; receivers are closed only with the       *)
(* dealer, and the last recvLoop leaves no connection behind.              *)
(***************************************************************************)
EXTENDS Dealer, TLAPS

Frames == [id : Nat, type : Receivers]
AnyFrame == Frames \cup {NoFrame}
Pcs == {"none", "idle", "enter", "blocked", "wait", "exit", "panic"}
Sending == {"enter", "blocked"}

\* The goroutines start with the first receiver, after Connect; a recvLoop that has ended has
\* closed its connection, and closes receivers when the dealer is closed.
Links ==
  /\ consumer = "connect" => loop = "none" /\ open = {}
  /\ loop = "none" => disp.pc = "none"
  /\ loop \in {"test", "retry", "giveup", "receivers", "messages", "gone"} => open = {}
  /\ loop \in {"receivers", "messages"} => Done
  /\ ClosedForGood

\* Connections and goroutines: their types, and how they are linked.
Life ==
  /\ dials \in Nat /\ conn \in 0 .. dials /\ open \subseteq {conn} \ {0}
  /\ once \in {"free", "done", "conn", "finished"}
  /\ loop \in LoopPlaces /\ consumer \in ConsumerPlaces
  /\ loop = "hand" <=> frame # NoFrame
  /\ recv \in [Receivers -> {"none", "open", "closed"}]
  /\ pong \in {"fresh", "overdue"} /\ ping \in {"none", "idle", "overdue", "exit"}
  /\ Links

\* Frames: their types.
FlowTypes ==
  /\ frames \in Nat /\ frame \in AnyFrame
  /\ ch \in Seq(Frames) /\ Len(ch) <= DispatchCap
  /\ disp \in [pc : Pcs, frame : AnyFrame]
  /\ disp.pc \in Sending \cup {"wait"} => disp.frame \in Frames
  /\ delivered \in Seq(Frames)

\* The frames that were delivered, the one the dispatcher is about to deliver, the ones in
\* dispatchCh and the one recvLoop hands over come in this order, and none is newer than the last
\* the server sent.
Order ==
  /\ \A i, j \in 1 .. Len(delivered) : i < j => delivered[i].id < delivered[j].id
  /\ \A i, j \in 1 .. Len(ch) : i < j => ch[i].id < ch[j].id
  /\ \A i \in 1 .. Len(delivered), j \in 1 .. Len(ch) : delivered[i].id < ch[j].id
  /\ \A i \in 1 .. Len(delivered) : delivered[i].id <= frames
  /\ \A j \in 1 .. Len(ch) : ch[j].id <= frames
  /\ disp.pc \in Sending =>
       /\ disp.frame.id <= frames
       /\ \A i \in 1 .. Len(delivered) : delivered[i].id < disp.frame.id
       /\ \A j \in 1 .. Len(ch) : disp.frame.id < ch[j].id
  /\ frame # NoFrame =>
       /\ frame.id = frames
       /\ \A i \in 1 .. Len(delivered) : delivered[i].id < frames
       /\ \A j \in 1 .. Len(ch) : ch[j].id < frames
       /\ disp.pc \in Sending => disp.frame.id < frames

\* A request that was delivered was replied to or the dispatcher waits for its answer.
InTurn ==
  ~Done => \A i \in 1 .. Len(delivered) :
             delivered[i].type = "request" =>
               \/ delivered[i].id \in {r.id : r \in replied}
               \/ disp.pc = "wait" /\ disp.frame.id = delivered[i].id

Flow == FlowTypes /\ Order /\ InTurn
IInv == Life /\ Flow /\ stopping \in BOOLEAN

---------------------------------------------------------------------------
\* What appending does to the elements of a sequence ...
LEMMA Appended ==
  ASSUME NEW S, NEW s \in Seq(S), NEW x \in S
  PROVE  /\ Append(s, x) \in Seq(S)
         /\ Len(Append(s, x)) = Len(s) + 1 /\ Len(s) \in Nat
         /\ \A i \in 1 .. Len(s) : Append(s, x)[i] = s[i]
         /\ Append(s, x)[Len(s) + 1] = x
OBVIOUS

\* ... and what taking the first one does.
LEMMA Shifted ==
  ASSUME NEW S, NEW s \in Seq(S), s # <<>>
  PROVE  /\ Head(s) = s[1] /\ Head(s) \in S /\ Len(s) \in Nat \ {0}
         /\ Tail(s) \in Seq(S)
         /\ Len(Tail(s)) = Len(s) - 1
         /\ \A i \in 1 .. Len(s) - 1 : Tail(s)[i] = s[i + 1]
OBVIOUS

\* NoFrame is told apart from the frames by its type.
LEMMA FrameFacts ==
  /\ NoFrame \notin Frames
  /\ \A f \in Frames : f.id \in Nat /\ f.type \in Receivers
  /\ \A f \in AnyFrame : f # NoFrame => f \in Frames
BY DEF Frames, AnyFrame, NoFrame, Receivers

\* The dealer starts without connection, goroutines and frames.
LEMMA InitInv ==
  ASSUME Init
  PROVE  IInv
<1>1. Life
  BY DEF Init, Life, Links, ClosedForGood, Receivers, LoopPlaces, ConsumerPlaces, Done
<1>2. FlowTypes
  BY DealerAssumption DEF Init, FlowTypes, AnyFrame, Pcs, Sending
<1>3. Order /\ InTurn
  BY DEF Init, Order, InTurn, Sending
<1>4. stopping \in BOOLEAN
  BY Zenon DEF Init
<1>5. QED BY <1>1, <1>2, <1>3, <1>4 DEF IInv, Flow

---------------------------------------------------------------------------
(***************************************************************************)
(* Connections and goroutines                                              *)
(***************************************************************************)

\* Close, step by step.
LEMMA ClosingLife ==
  ASSUME Life, CloseStep
  PROVE  Life'
<1> USE DealerAssumption
    DEF connVars, dispVars, Goto, Done, Receivers, LoopPlaces, ConsumerPlaces, Life, Links,
        ClosedForGood
<1>1. CASE CloseDone
  BY <1>1 DEF CloseDone
<1>2. CASE CloseConn
  BY <1>2 DEF CloseConn
<1>3. CASE CancelContext
  BY <1>3 DEF CancelContext
<1>4. QED BY <1>1, <1>2, <1>3 DEF CloseStep

\* recvLoop and reconnect.
LEMMA LoopLife ==
  ASSUME Life, RecvLoop
  PROVE  Life'
<1> USE DealerAssumption
    DEF connVars, dispVars, Goto, Done, Receivers, LoopPlaces, ConsumerPlaces, Life, Links,
        ClosedForGood
<1>1. CASE TestDone
  BY <1>1 DEF TestDone
<1>2. CASE ReadFails
  BY <1>2 DEF ReadFails
<1>3. CASE HandOver
  BY <1>3 DEF HandOver, NoFrame
<1>4. CASE EndLoop
  BY <1>4 DEF EndLoop
<1>5. CASE TestClosed
  BY <1>5 DEF TestClosed
<1>6. CASE Reconnect
  BY <1>6 DEF Reconnect
<1>7. CASE Reconnected
  BY <1>7 DEF Reconnected
<1>8. CASE GiveUp
  BY <1>8 DEF GiveUp
<1>9. CASE GaveUp
  BY <1>9 DEF GaveUp
<1>10. CASE CloseReceivers
  BY <1>10 DEF CloseReceivers
<1>11. QED BY <1>1, <1>2, <1>3, <1>4, <1>5, <1>6, <1>7, <1>8, <1>9, <1>10 DEF RecvLoop

\* dispatchLoop.
LEMMA DispatchLife ==
  ASSUME Life, DispatchLoop
  PROVE  Life'
<1> USE DealerAssumption
    DEF connVars, dispVars, Goto, Done, Receivers, LoopPlaces, ConsumerPlaces, Life, Links,
        ClosedForGood
<1>1. CASE TakeFrame
  BY <1>1 DEF TakeFrame
<1>2. CASE DispatcherReturns
  BY <1>2 DEF DispatcherReturns
<1>3. CASE Deliver
  BY <1>3 DEF Deliver
<1>4. CASE SendBlocks
  BY <1>4 DEF SendBlocks
<1>5. CASE DispatchAborts
  BY <1>5 DEF DispatchAborts
<1>6. CASE SendPanics
  BY <1>6 DEF SendPanics
<1>7. CASE SendReply
  BY <1>7 DEF SendReply
<1>8. QED BY <1>1, <1>2, <1>3, <1>4, <1>5, <1>6, <1>7 DEF DispatchLoop

\* The watchdog.
LEMMA PingLife ==
  ASSUME Life, PingTicker
  PROVE  Life'
<1> USE DealerAssumption
    DEF connVars, dispVars, Goto, Done, Receivers, LoopPlaces, ConsumerPlaces, Life, Links,
        ClosedForGood
<1>1. CASE PingTick
  BY <1>1 DEF PingTick
<1>2. CASE PingCloses
  BY <1>2 DEF PingCloses
<1>3. CASE PingReturns
  BY <1>3 DEF PingReturns
<1>4. QED BY <1>1, <1>2, <1>3 DEF PingTicker

\* Run, which connects and registers its receivers.
LEMMA ConsumerLife ==
  ASSUME Life, Consumer
  PROVE  Life'
<1> USE DealerAssumption
    DEF connVars, dispVars, Goto, Done, Receivers, LoopPlaces, ConsumerPlaces, Life, Links,
        ClosedForGood
<1>1. CASE Connect
  <2>1. loop = "none" /\ open = {} /\ UNCHANGED <<once, loop, frame, disp, pong, ping, recv>>
    BY <1>1 DEF Connect
  <2>2. CASE consumer' = "over" /\ UNCHANGED connVars
    BY <2>1, <2>2
  <2>3. CASE consumer' = "message" /\ dials' = dials + 1 /\ conn' = dials' /\ open' = {conn'}
    BY <2>1, <2>3
  <2>4. QED BY <1>1, <2>1, <2>2, <2>3 DEF Connect
<1>2. CASE Receive
  BY <1>2 DEF Receive
<1>3. CASE Register
  BY <1>3 DEF Register
<1>4. CASE Answer
  BY <1>4 DEF Answer
<1>5. CASE LoseSession
  BY <1>5 DEF LoseSession
<1>6. CASE ConsumerReturns
  BY <1>6 DEF ConsumerReturns
<1>7. QED BY <1>1, <1>2, <1>3, <1>4, <1>5, <1>6 DEF Consumer

\* The server, the network and the clock.
LEMMA EnvironmentLife ==
  ASSUME Life, Environment
  PROVE  Life'
<1> USE DealerAssumption
    DEF connVars, dispVars, Goto, Done, Receivers, LoopPlaces, ConsumerPlaces, Life, Links,
        ClosedForGood
<1>1. CASE StopPlayer
  BY <1>1 DEF StopPlayer
<1>2. CASE ReadFrame
  BY <1>2 DEF ReadFrame, NoFrame
<1>3. CASE ReadPong
  BY <1>3 DEF ReadPong
<1>4. CASE ReadGarbage
  BY <1>4 DEF ReadGarbage
<1>5. CASE ConnBreaks
  BY <1>5 DEF ConnBreaks
<1>6. CASE PongOverdue
  BY <1>6 DEF PongOverdue
<1>7. QED BY <1>1, <1>2, <1>3, <1>4, <1>5, <1>6 DEF Environment

---------------------------------------------------------------------------
(***************************************************************************)
(* Frames                                                                  *)
(***************************************************************************)

flowVars == <<frame, frames, ch, disp, delivered, replied>>

\* Most steps leave the frames alone.
LEMMA FlowKept ==
  ASSUME Flow, UNCHANGED flowVars, Done => Done'
  PROVE  Flow'
BY DEF Flow, FlowTypes, Order, InTurn, flowVars

\* The dispatcher moves on without a new frame and without leaving a wait.
LEMMA PcMoves ==
  ASSUME Flow, NEW pc \in Pcs \ {"wait"}, disp' = [disp EXCEPT !.pc = pc], disp.pc # "wait",
         pc \in Sending => disp.pc \in Sending,
         UNCHANGED <<frame, frames, ch, delivered, replied>>, Done => Done'
  PROVE  Flow'
<1>1. disp'.pc = pc /\ disp'.frame = disp.frame /\ disp' \in [pc : Pcs, frame : AnyFrame]
  BY DEF Flow, FlowTypes
<1>2. FlowTypes'
  BY <1>1 DEF Flow, FlowTypes
<1>3. Order'
  BY <1>1 DEF Flow, Order
<1>4. InTurn'
  BY <1>1 DEF Flow, InTurn
<1>5. QED BY <1>2, <1>3, <1>4 DEF Flow

\* recvLoop reads the next frame.
LEMMA ReadFrameFlow ==
  ASSUME IInv, ReadFrame
  PROVE  Flow'
<1>1. PICK type \in Receivers : frame' = [id |-> frames + 1, type |-> type]
  BY DEF ReadFrame
<1>2. /\ frames' = frames + 1 /\ frame'.id = frames' /\ frame = NoFrame /\ frames \in Nat
      /\ UNCHANGED <<ch, disp, delivered, replied, once>>
  BY <1>1 DEF ReadFrame, Goto, IInv, Life, Flow, FlowTypes, dispVars
<1>3. frame' \in Frames
  BY <1>1, <1>2 DEF Frames
<1>4. FlowTypes'
  BY <1>2, <1>3 DEF IInv, Flow, FlowTypes, AnyFrame
<1>5. Order'
  <2>1. \A i \in 1 .. Len(delivered) : delivered[i].id \in Nat
    BY FrameFacts DEF IInv, Flow, FlowTypes
  <2>2. \A i \in 1 .. Len(ch) : ch[i].id \in Nat
    BY FrameFacts DEF IInv, Flow, FlowTypes
  <2>3. disp.pc \in Sending => disp.frame.id \in Nat
    BY FrameFacts DEF IInv, Flow, FlowTypes
  <2>4. \A i \in 1 .. Len(delivered) : delivered[i].id <= frames' /\ delivered[i].id < frames'
    BY <1>2, <2>1 DEF IInv, Flow, Order
  <2>5. \A i \in 1 .. Len(ch) : ch[i].id <= frames' /\ ch[i].id < frames'
    BY <1>2, <2>2 DEF IInv, Flow, Order
  <2>6. disp.pc \in Sending => disp.frame.id <= frames' /\ disp.frame.id < frames'
    BY <1>2, <2>3 DEF IInv, Flow, Order
  <2>7. QED BY <1>2, <2>4, <2>5, <2>6, Zenon DEF IInv, Flow, Order
<1>6. InTurn'
  BY <1>2 DEF IInv, Flow, InTurn, Done
<1>7. QED BY <1>4, <1>5, <1>6 DEF Flow

\* It puts it into the channel behind the others, or drops it when the dealer is closed.
LEMMA HandOverFlow ==
  ASSUME IInv, HandOver
  PROVE  Flow'
<1>1. /\ frame \in Frames /\ frame' = NoFrame
      /\ UNCHANGED <<frames, disp, delivered, replied, once>>
  BY FrameFacts DEF HandOver, IInv, Life, Flow, FlowTypes, dispVars
<1>2. CASE Len(ch) < DispatchCap /\ ch' = Append(ch, frame)
  <2>1. /\ ch' \in Seq(Frames) /\ Len(ch') = Len(ch) + 1 /\ Len(ch) \in Nat
        /\ \A i \in 1 .. Len(ch) : ch'[i] = ch[i]
        /\ ch'[Len(ch) + 1] = frame
    <3>1. ch \in Seq(Frames)
      BY DEF IInv, Flow, FlowTypes
    <3>2. QED BY <1>1, <1>2, <3>1, Appended
  <2>2. FlowTypes'
    BY <1>1, <1>2, <2>1, DealerAssumption DEF IInv, Flow, FlowTypes, AnyFrame
  <2>3. Order'
    <3>1. /\ frame.id = frames
          /\ \A i \in 1 .. Len(delivered) : delivered[i].id < frames
          /\ \A j \in 1 .. Len(ch) : ch[j].id < frames
          /\ disp.pc \in Sending => disp.frame.id < frames
      BY <1>1, FrameFacts DEF IInv, Flow, Order
    <3>2. \A j \in 1 .. Len(ch') : j \in 1 .. Len(ch) \/ (j = Len(ch) + 1 /\ ch'[j].id = frames)
      BY <2>1, <3>1
    <3>3. \A i, j \in 1 .. Len(ch') : i < j => i \in 1 .. Len(ch)
      BY <2>1
    <3>4. frames \in Nat
      BY DEF IInv, Flow, FlowTypes
    <3>5. \A i, j \in 1 .. Len(ch') : i < j => ch'[i].id < ch'[j].id
      BY <2>1, <3>1, <3>2, <3>3 DEF IInv, Flow, Order
    <3>6. \A i \in 1 .. Len(delivered), j \in 1 .. Len(ch') : delivered[i].id < ch'[j].id
      BY <2>1, <3>1, <3>2 DEF IInv, Flow, Order
    <3>7. \A j \in 1 .. Len(ch') : ch'[j].id <= frames
      BY <2>1, <3>1, <3>2, <3>4 DEF IInv, Flow, Order
    <3>8. disp.pc \in Sending => \A j \in 1 .. Len(ch') : disp.frame.id < ch'[j].id
      BY <2>1, <3>1, <3>2 DEF IInv, Flow, Order
    <3>9. QED BY <1>1, <3>5, <3>6, <3>7, <3>8 DEF IInv, Flow, Order
  <2>4. InTurn'
    BY <1>1 DEF IInv, Flow, InTurn, Done
  <2>5. QED BY <2>2, <2>3, <2>4 DEF Flow
<1>3. CASE UNCHANGED ch
  <2>1. FlowTypes'
    BY <1>1, <1>3 DEF IInv, Flow, FlowTypes, AnyFrame
  <2>2. Order' /\ InTurn'
    BY <1>1, <1>3 DEF IInv, Flow, Order, InTurn, Done
  <2>3. QED BY <2>1, <2>2 DEF Flow
<1>4. QED BY <1>2, <1>3 DEF HandOver

\* The dispatcher takes the oldest frame of the channel, to deliver it or to drop it.
LEMMA TakeFrameFlow ==
  ASSUME IInv, TakeFrame
  PROVE  Flow'
<1>1. /\ disp.pc = "idle" /\ ch # <<>> /\ ch' = Tail(ch) /\ ch \in Seq(Frames)
      /\ disp' = [pc |-> "enter", frame |-> Head(ch)] \/ disp' = disp
      /\ UNCHANGED <<frame, frames, delivered, replied, once>>
  BY DEF TakeFrame, IInv, Flow, FlowTypes
<1>2. /\ Head(ch) = ch[1] /\ Head(ch) \in Frames /\ Len(ch) \in Nat \ {0}
      /\ ch' \in Seq(Frames) /\ Len(ch') = Len(ch) - 1
      /\ \A i \in 1 .. Len(ch) - 1 : ch'[i] = ch[i + 1]
  BY <1>1, Shifted
<1>3. \A i \in 1 .. Len(ch') : i + 1 \in 1 .. Len(ch) /\ ch'[i] = ch[i + 1] /\ 1 < i + 1
  BY <1>2
<1>4. 1 \in 1 .. Len(ch)
  BY <1>2
<1>5. /\ disp'.pc \in Sending => disp'.frame = ch[1]
      /\ disp'.pc # "wait" /\ disp' \in [pc : Pcs, frame : AnyFrame]
      /\ disp'.pc \in Sending \cup {"wait"} => disp'.frame \in Frames
  <2>1. CASE disp' = [pc |-> "enter", frame |-> Head(ch)]
    BY <2>1, <1>2 DEF Pcs, AnyFrame, Sending
  <2>2. CASE disp' = disp
    BY <2>2, <1>1 DEF IInv, Flow, FlowTypes, Sending
  <2>3. QED BY <1>1, <2>1, <2>2
<1>6. FlowTypes'
  BY <1>1, <1>2, <1>5, DealerAssumption DEF IInv, Flow, FlowTypes
<1>7. Order'
  <2>1. \A i, j \in 1 .. Len(ch') : i < j => ch'[i].id < ch'[j].id
    <3> SUFFICES ASSUME NEW i \in 1 .. Len(ch'), NEW j \in 1 .. Len(ch'), i < j
                 PROVE  ch'[i].id < ch'[j].id
      OBVIOUS
    <3>1. i + 1 < j + 1 /\ i + 1 \in 1 .. Len(ch) /\ j + 1 \in 1 .. Len(ch)
      BY <1>2, <1>3
    <3>2. QED BY <1>3, <3>1 DEF IInv, Flow, Order
  <2>2. \A i \in 1 .. Len(delivered), j \in 1 .. Len(ch') : delivered[i].id < ch'[j].id
    BY <1>3 DEF IInv, Flow, Order
  <2>3. \A j \in 1 .. Len(ch') : ch'[j].id <= frames /\ (frame # NoFrame => ch'[j].id < frames)
    BY <1>3 DEF IInv, Flow, Order
  <2>4. /\ ch[1].id <= frames
        /\ \A i \in 1 .. Len(delivered) : delivered[i].id < ch[1].id
        /\ \A j \in 1 .. Len(ch') : ch[1].id < ch'[j].id
        /\ frame # NoFrame => ch[1].id < frames
    BY <1>3, <1>4 DEF IInv, Flow, Order
  <2>5. QED BY <1>1, <1>5, <2>1, <2>2, <2>3, <2>4 DEF IInv, Flow, Order
<1>8. InTurn'
  BY <1>1 DEF IInv, Flow, InTurn, Done
<1>9. QED BY <1>6, <1>7, <1>8 DEF Flow

\* The frame the dispatcher sends becomes the last one delivered.
LEMMA DeliverFlow ==
  ASSUME IInv, Deliver
  PROVE  Flow'
<1>1. /\ disp.pc \in Sending /\ disp.frame \in Frames /\ delivered' = Append(delivered, disp.frame)
      /\ delivered \in Seq(Frames)
      /\ UNCHANGED <<frame, frames, ch, replied, once>>
  BY DEF Deliver, IInv, Flow, FlowTypes, Sending
<1>2. /\ delivered' \in Seq(Frames) /\ Len(delivered') = Len(delivered) + 1
      /\ Len(delivered) \in Nat
      /\ \A i \in 1 .. Len(delivered) : delivered'[i] = delivered[i]
      /\ delivered'[Len(delivered) + 1] = disp.frame
  BY <1>1, Appended
<1>3. /\ disp' \in [pc : Pcs, frame : AnyFrame] /\ disp'.pc \in {"idle", "wait"}
      /\ disp'.pc = "wait" => disp'.frame = disp.frame
      /\ disp.frame.type = "request" => disp'.pc = "wait"
  <2>1. CASE disp.frame.type = "request"
    <3>1. disp' = [disp EXCEPT !.pc = "wait"]
      BY <2>1 DEF Deliver
    <3>2. QED BY <3>1 DEF IInv, Flow, FlowTypes, Pcs
  <2>2. CASE disp.frame.type # "request"
    <3>1. disp' = [pc |-> "idle", frame |-> NoFrame]
      BY <2>2 DEF Deliver
    <3>2. QED BY <2>2, <3>1 DEF Pcs, AnyFrame
  <2>3. QED BY <2>1, <2>2
<1>4. \A i \in 1 .. Len(delivered') :
        (i \in 1 .. Len(delivered) /\ delivered'[i] = delivered[i])
        \/ (i = Len(delivered) + 1 /\ delivered'[i] = disp.frame)
  BY <1>2
<1>5. FlowTypes'
  BY <1>1, <1>2, <1>3 DEF IInv, Flow, FlowTypes, Sending
<1>6. Order'
  <2>1. \A i, j \in 1 .. Len(delivered') : i < j => i \in 1 .. Len(delivered)
    BY <1>2
  <2>2. \A i, j \in 1 .. Len(delivered') : i < j => delivered'[i].id < delivered'[j].id
    BY <1>1, <1>4, <2>1 DEF IInv, Flow, Order
  <2>3. \A i \in 1 .. Len(delivered') :
          /\ \A j \in 1 .. Len(ch) : delivered'[i].id < ch[j].id
          /\ delivered'[i].id <= frames
          /\ frame # NoFrame => delivered'[i].id < frames
    BY <1>1, <1>4 DEF IInv, Flow, Order
  <2>4. disp'.pc \notin Sending
    BY <1>3 DEF Sending
  <2>5. QED BY <1>1, <2>2, <2>3, <2>4 DEF IInv, Flow, Order
<1>7. InTurn'
  <2> SUFFICES ASSUME ~Done, NEW i \in 1 .. Len(delivered'), delivered'[i].type = "request"
               PROVE  \/ delivered'[i].id \in {r.id : r \in replied}
                      \/ disp'.pc = "wait" /\ disp'.frame.id = delivered'[i].id
    BY <1>1 DEF InTurn, Done
  <2>1. CASE i \in 1 .. Len(delivered) /\ delivered'[i] = delivered[i]
    BY <1>1, <2>1 DEF IInv, Flow, InTurn, Sending
  <2>2. CASE delivered'[i] = disp.frame
    BY <1>3, <2>2
  <2>3. QED BY <1>4, <2>1, <2>2
<1>8. QED BY <1>5, <1>6, <1>7 DEF Flow

\* The dispatcher is done with a frame: the dealer was closed, or it has replied.
LEMMA DispatchEnds ==
  ASSUME IInv, DispatchAborts \/ SendReply
  PROVE  Flow'
<1>1. /\ disp' = [pc |-> "idle", frame |-> NoFrame]
      /\ UNCHANGED <<frame, frames, ch, delivered, once>>
  BY DEF DispatchAborts, SendReply
<1>2. disp'.pc = "idle" /\ disp' \in [pc : Pcs, frame : AnyFrame]
  BY <1>1 DEF Pcs, AnyFrame
<1>3. FlowTypes'
  BY <1>1, <1>2 DEF IInv, Flow, FlowTypes, Sending
<1>4. Order'
  BY <1>1, <1>2 DEF IInv, Flow, Order, Sending
<1>5. InTurn'
  <2>1. CASE DispatchAborts
    BY <1>1, <2>1 DEF DispatchAborts, InTurn, Done
  <2>2. CASE SendReply
    <3> DEFINE r0 == [id |-> disp.frame.id, sent |-> conn \in open /\ ~Done]
    <3>0. replied' = replied \cup {r0} /\ r0.id = disp.frame.id
      BY <2>2 DEF SendReply
    <3> HIDE DEF r0
    <3>1. disp.frame.id \in {r.id : r \in replied'} /\ \A r \in replied : r \in replied'
      BY <3>0
    <3>2. QED BY <1>1, <3>1 DEF IInv, Flow, InTurn, Done
  <2>3. QED BY <2>1, <2>2
<1>6. QED BY <1>3, <1>4, <1>5 DEF Flow

---------------------------------------------------------------------------
\* AppPlayer.Close is not taken back.
LEMMA NextStopping ==
  ASSUME stopping \in BOOLEAN, Next
  PROVE  stopping' \in BOOLEAN
<1> USE DEF connVars, dispVars, Goto
<1>1. CASE CloseStep
  BY <1>1 DEF CloseStep, CloseDone, CloseConn, CancelContext
<1>2. CASE RecvLoop
  BY <1>2 DEF RecvLoop, TestDone, ReadFails, HandOver, EndLoop, TestClosed, Reconnect, Reconnected,
              GiveUp, GaveUp, CloseReceivers
<1>3. CASE DispatchLoop
  BY <1>3 DEF DispatchLoop, TakeFrame, DispatcherReturns, Deliver, SendBlocks, DispatchAborts,
              SendPanics, SendReply
<1>4. CASE PingTicker
  BY <1>4 DEF PingTicker, PingTick, PingCloses, PingReturns
<1>5. CASE Consumer
  BY <1>5, Zenon DEF Consumer, Connect, Receive, Register, Answer, LoseSession, ConsumerReturns
<1>6. CASE Environment
  BY <1>6, Zenon
  DEF Environment, StopPlayer, ReadFrame, ReadPong, ReadGarbage, ConnBreaks, PongOverdue
<1>7. QED BY <1>1, <1>2, <1>3, <1>4, <1>5, <1>6 DEF Next

\* Every step keeps the frames in order.
LEMMA NextFlow ==
  ASSUME IInv, Next
  PROVE  Flow'
<1> USE DEF connVars, dispVars, flowVars, Goto, Done
<1>1. CASE CloseStep
  BY <1>1, FlowKept DEF CloseStep, CloseDone, CloseConn, CancelContext, IInv
<1>2. CASE RecvLoop
  <2>1. CASE TestDone \/ ReadFails \/ EndLoop \/ TestClosed \/ Reconnect
    BY <2>1, FlowKept DEF TestDone, ReadFails, EndLoop, TestClosed, Reconnect, IInv
  <2>2. CASE Reconnected \/ GiveUp \/ GaveUp \/ CloseReceivers
    BY <2>2, FlowKept DEF Reconnected, GiveUp, GaveUp, CloseReceivers, IInv
  <2>3. QED BY <1>2, <2>1, <2>2, HandOverFlow DEF RecvLoop
<1>3. CASE DispatchLoop
  <2>1. CASE DispatcherReturns
    BY <2>1, PcMoves DEF DispatcherReturns, IInv, Pcs, Sending
  <2>2. CASE SendBlocks
    BY <2>2, PcMoves DEF SendBlocks, IInv, Pcs, Sending
  <2>3. CASE SendPanics
    BY <2>3, PcMoves DEF SendPanics, IInv, Pcs, Sending
  <2>4. QED BY <1>3, <2>1, <2>2, <2>3, TakeFrameFlow, DeliverFlow, DispatchEnds DEF DispatchLoop
<1>4. CASE PingTicker
  BY <1>4, FlowKept DEF PingTicker, PingTick, PingCloses, PingReturns, IInv
<1>5. CASE Consumer
  <2>1. CASE Connect \/ Receive \/ Answer \/ LoseSession \/ ConsumerReturns
    BY <2>1, FlowKept DEF Connect, Receive, Answer, LoseSession, ConsumerReturns, IInv
  <2>2. CASE Register
    <3>1. CASE loop = "none"
      BY <2>2, <3>1, PcMoves DEF Register, IInv, Life, Links, Pcs, Sending
    <3>2. CASE loop # "none"
      BY <2>2, <3>2, FlowKept DEF Register, IInv
    <3>3. QED BY <3>1, <3>2
  <2>3. QED BY <1>5, <2>1, <2>2 DEF Consumer
<1>6. CASE Environment
  <2>1. CASE StopPlayer \/ ReadPong \/ ReadGarbage \/ ConnBreaks \/ PongOverdue
    BY <2>1, FlowKept DEF StopPlayer, ReadPong, ReadGarbage, ConnBreaks, PongOverdue, IInv
  <2>2. QED BY <1>6, <2>1, ReadFrameFlow DEF Environment
<1>7. QED BY <1>1, <1>2, <1>3, <1>4, <1>5, <1>6 DEF Next

\* Every step keeps the invariant.
LEMMA NextInv ==
  ASSUME IInv, [Next]_vars
  PROVE  IInv'
<1>1. CASE Next
  <2>1. Life'
    BY <1>1, ClosingLife, LoopLife, DispatchLife, PingLife, ConsumerLife, EnvironmentLife
    DEF Next, IInv
  <2>2. stopping' \in BOOLEAN
    BY <1>1, NextStopping DEF IInv
  <2>3. QED BY <1>1, <2>1, <2>2, NextFlow DEF IInv
<1>2. CASE UNCHANGED vars
  <2>1. Life'
    BY <1>2 DEF vars, connVars, dispVars, IInv, Life, Links, ClosedForGood, Done
  <2>2. Flow'
    BY <1>2, FlowKept DEF vars, dispVars, flowVars, IInv, Done
  <2>3. stopping' = stopping
    BY <1>2 DEF vars
  <2>4. QED BY <2>1, <2>2, <2>3 DEF IInv
<1>3. QED BY <1>1, <1>2

\* Whatever breaks, is reconnected or is closed: frames reach the consumer in the order they were
\* read and each once (dispatchLoop), a request that was delivered is replied to before the next
\* frame is (handleRequest), receivers are closed with the dealer only, and no connection is left
\* when the last recvLoop has ended (its closeConn).
THEOREM DealerIsConsistent == Spec => []Consistent
<1>1. Init => IInv
  BY InitInv
<1>2. IInv /\ [Next]_vars => IInv'
  BY NextInv
<1>3. IInv => Consistent
  <2> SUFFICES ASSUME IInv PROVE Consistent
    OBVIOUS
  <2>1. TypeOK
    BY DEF IInv, Life, Flow, FlowTypes, Pcs, TypeOK
  <2>2. DOMAIN delivered = 1 .. Len(delivered)
    BY DEF IInv, Flow, FlowTypes
  <2>3. InOrder
    BY <2>2 DEF IInv, Flow, Order, InOrder
  <2>4. RepliedInTurn
    BY <2>2 DEF IInv, Flow, InTurn, RepliedInTurn, Requests
  <2>5. QED
    BY <2>1, <2>3, <2>4 DEF IInv, Life, Links, Consistent, Conversation, NoConnectionLeft
<1>4. QED BY <1>1, <1>2, <1>3, PTL DEF Spec
=============================================================================
