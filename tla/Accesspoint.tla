---------------------------- MODULE Accesspoint ----------------------------
(***************************************************************************)
(* The accesspoint connection (ap/ap.go): recvLoop, which reads packets,   *)
(* hands them to the receivers and reconnects with connMu held; the pong   *)
(* watchdog; Send and Receive, which take connMu for reading; and Close.   *)
(* The receivers are the pumps of RequestMux (audio/provider.go, mercury/  *)
(* client.go), which also send.                                            *)
(*                                                                         *)
(* A recvLoop ends by starting its successor or for good, so one process   *)
(* stands for all of them; a predecessor lives on only to unlock connMu.   *)
(* A connection is the number of its dial.  LinkInit is the accesspoint    *)
(* after a successful Connect, before which nobody shares it.  The names   *)
(* are apart from those of RequestMux, for a module that extends both.     *)
(***************************************************************************)
EXTENDS Integers

CONSTANTS
  Pumps,        \* the goroutines that receive and send
  RecvChanSize, \* recvChanSize
  MaxDials,     \* connections made in a behaviour (a bound)
  MaxPackets,   \* packets received in a behaviour (a bound)
  MaxSends      \* requests sent in a behaviour (a bound)

ASSUME AccesspointAssumption ==
  RecvChanSize \in Nat \ {0} /\ MaxDials \in Nat \ {0} /\ MaxPackets \in Nat /\ MaxSends \in Nat

LoopPlaces ==
  {"none", "top", "read", "pong", "pongWrite", "hand", "end", "test", "lock", "retry",
   "giveup", "receivers", "gone"}

VARIABLES
  conn,        \* ap.conn
  enc,         \* the connection of ap.encConn
  open,        \* the connections that are open
  loggedIn,    \* history: connections whose authentication succeeded
  dials,       \* connections made so far
  mu,          \* connMu: free, or locked by recvLoop or its predecessor
  once,        \* how far closeOnce has come: free, done, conn, finished
  loop,        \* recvLoop: where it is, see LoopPlaces
  target,      \* the pump recvLoop hands a packet to
  wire,        \* the connection a pong is written to
  received,    \* packets received so far
  pong,        \* whether the last pong ack is overdue
  ping,        \* pongAckTicker: none, idle, close, exit
  suspect,     \* history: the connection pongAckTicker found without a pong ack
  place,       \* the pumps: start, register, select, send, write, exit
  out,         \* the connection a pump writes to
  sends,       \* requests sent so far
  recv,        \* the pumps' channels: none, open, closed
  ch           \* packets in the pumps' channels

net == <<conn, enc, open, loggedIn, dials>>
loopVars == <<loop, target, wire, received>>
tickVars == <<ping, suspect>>
pumpVars == <<place, out, sends>>
linkVars == <<net, mu, once, loopVars, pong, tickVars, pumpVars, recv, ch>>

Done == once # "free"
Cancelled == once = "finished"

LinkInit ==
  /\ conn = 1 /\ enc = 1 /\ open = {1} /\ loggedIn = {1} /\ dials = 1
  /\ mu = "free" /\ once = "free"
  /\ loop = "none" /\ target \in Pumps /\ wire = 0 /\ received = 0
  /\ pong = "fresh" /\ ping = "none" /\ suspect = 0
  /\ place = [p \in Pumps |-> "start"] /\ out = [p \in Pumps |-> 0] /\ sends = 0
  /\ recv = [p \in Pumps |-> "none"] /\ ch = [p \in Pumps |-> 0]

---------------------------------------------------------------------------
(***************************************************************************)
(* Close, by the session or by a recvLoop that gives up                    *)
(***************************************************************************)

CloseDone ==
  /\ once = "free"
  /\ once' = "done"
  /\ UNCHANGED <<net, mu, loopVars, pong, tickVars, pumpVars, recv, ch>>

\* closeConn takes connMu for reading.
CloseConn ==
  /\ once = "done" /\ mu = "free"
  /\ once' = "conn"
  /\ open' = open \ {conn}
  /\ UNCHANGED <<conn, enc, loggedIn, dials, mu, loopVars, pong, tickVars, pumpVars, recv, ch>>

CancelContext ==
  /\ once = "conn"
  /\ once' = "finished"
  /\ UNCHANGED <<net, mu, loopVars, pong, tickVars, pumpVars, recv, ch>>

---------------------------------------------------------------------------
(***************************************************************************)
(* recvLoop                                                                *)
(***************************************************************************)

Goto(from, to) == loop = from /\ loop' = to

TestDone ==
  /\ loop = "top"
  /\ loop' = IF Done THEN "end" ELSE "read"
  /\ UNCHANGED <<net, mu, once, target, wire, received, pong, tickVars, pumpVars, recv, ch>>

\* receivePacket returns a packet for a receiver, or for none ...
ReceivePacket ==
  /\ loop = "read" /\ enc \in open
  /\ received < MaxPackets
  /\ received' = received + 1
  /\ target' \in Pumps
  /\ loop' = IF recv[target'] = "none" THEN "top" ELSE "hand"
  /\ UNCHANGED <<net, mu, once, wire, pong, tickVars, pumpVars, recv, ch>>

\* ... a ping ...
ReadPing ==
  /\ Goto("read", "pong")
  /\ enc \in open
  /\ UNCHANGED <<net, mu, once, target, wire, received, pong, tickVars, pumpVars, recv, ch>>

\* ... a pong ack ...
ReadPongAck ==
  /\ Goto("read", "top")
  /\ enc \in open
  /\ pong' = "fresh"
  /\ UNCHANGED <<net, mu, once, target, wire, received, tickVars, pumpVars, recv, ch>>

\* Mutant: the loop goes on reading after an error.
ReadFailsContinues ==
  /\ Goto("read", "top")
  /\ enc \notin open
  /\ UNCHANGED <<net, mu, once, target, wire, received, pong, tickVars, pumpVars, recv, ch>>

\* ... or an error.
ReadFails ==
  /\ Goto("read", "end")
  /\ enc \notin open
  /\ UNCHANGED <<net, mu, once, target, wire, received, pong, tickVars, pumpVars, recv, ch>>

\* Send of the pong: connMu, done and encConn ...
SendPong ==
  /\ loop = "pong" /\ mu = "free"
  /\ loop' = IF Done THEN "end" ELSE "pongWrite"
  /\ wire' = enc
  /\ UNCHANGED <<net, mu, once, target, received, pong, tickVars, pumpVars, recv, ch>>

\* ... and sendPacket.
WritePong ==
  /\ loop = "pongWrite"
  /\ loop' = IF wire \in open THEN "top" ELSE "end"
  /\ wire' = 0
  /\ UNCHANGED <<net, mu, once, target, received, pong, tickVars, pumpVars, recv, ch>>

HandOver ==
  /\ loop = "hand"
  /\ \/ /\ ch[target] < RecvChanSize
        /\ ch' = [ch EXCEPT ![target] = @ + 1]
        /\ loop' = "top"
     \/ /\ Done
        /\ loop' = "end"
        /\ UNCHANGED ch
  /\ UNCHANGED <<net, mu, once, target, wire, received, pong, tickVars, pumpVars, recv>>

\* The loop is over: it closes the connection ...
EndLoop ==
  /\ Goto("end", "test")
  /\ mu = "free"
  /\ open' = open \ {conn}
  /\ UNCHANGED <<conn, enc, loggedIn, dials, mu, once, target, wire, received, pong, tickVars,
                 pumpVars, recv, ch>>

\* ... and, unless the accesspoint is closed, ...
TestClosed ==
  /\ loop = "test"
  /\ loop' = IF Done THEN "receivers" ELSE "lock"
  /\ UNCHANGED <<net, mu, once, target, wire, received, pong, tickVars, pumpVars, recv, ch>>

\* Mutant: the retry runs without connMu.
LockConnNot ==
  /\ Goto("lock", "retry")
  /\ UNCHANGED <<net, mu, once, target, wire, received, pong, tickVars, pumpVars, recv, ch>>

\* ... locks connMu for the whole of the retry.
LockConn ==
  /\ Goto("lock", "retry")
  /\ mu = "free" /\ \A p \in Pumps : place[p] # "register"
  /\ mu' = "loop"
  /\ UNCHANGED <<net, once, target, wire, received, pong, tickVars, pumpVars, recv, ch>>

---------------------------------------------------------------------------
(***************************************************************************)
(* reconnect                                                               *)
(***************************************************************************)

\* init: the new connection replaces the previous one.
Dial ==
  /\ loop = "retry" /\ ~Cancelled
  /\ dials < MaxDials
  /\ dials' = dials + 1
  /\ conn' = dials'
  /\ open' = (open \ {conn}) \cup {dials'}

\* An attempt fails in the key exchange or in the authentication, which comes
\* after encConn is set.
ReconnectFails ==
  /\ Dial
  /\ enc' \in {enc, dials'}
  /\ UNCHANGED <<loggedIn, mu, once, loopVars, pong, tickVars, pumpVars, recv, ch>>

\* The next recvLoop starts while this one still has connMu.
Reconnect ==
  /\ Dial
  /\ enc' = dials'
  /\ loggedIn' = loggedIn \cup {dials'}
  /\ loop' = "top" /\ mu' = "predecessor"
  /\ pong' = "fresh"
  /\ UNCHANGED <<once, target, wire, received, tickVars, pumpVars, recv, ch>>

UnlockConn ==
  /\ mu = "predecessor"
  /\ mu' = "free"
  /\ UNCHANGED <<net, once, loopVars, pong, tickVars, pumpVars, recv, ch>>

\* Mutant: the loop that gives up keeps connMu.
GiveUpLocked ==
  /\ Goto("retry", "giveup")
  /\ UNCHANGED <<net, mu, once, target, wire, received, pong, tickVars, pumpVars, recv, ch>>

\* The backoff is used up or cancelled: connMu is unlocked, then the accesspoint
\* closed.
GiveUp ==
  /\ Goto("retry", "giveup")
  /\ mu' = "free"
  /\ UNCHANGED <<net, once, target, wire, received, pong, tickVars, pumpVars, recv, ch>>

\* closeOnce makes every Close wait for the first.
GaveUp ==
  /\ Goto("giveup", "receivers")
  /\ once = "finished"
  /\ UNCHANGED <<net, mu, once, target, wire, received, pong, tickVars, pumpVars, recv, ch>>

CloseReceivers ==
  /\ Goto("receivers", "gone")
  /\ recv' = [p \in Pumps |-> IF recv[p] = "open" THEN "closed" ELSE recv[p]]
  /\ UNCHANGED <<net, mu, once, target, wire, received, pong, tickVars, pumpVars, ch>>

---------------------------------------------------------------------------
(***************************************************************************)
(* pongAckTicker                                                           *)
(***************************************************************************)

TickerFires ==
  /\ ping = "idle" /\ pong = "overdue"
  /\ ping' = "close" /\ suspect' = conn
  /\ UNCHANGED <<net, mu, once, loopVars, pong, pumpVars, recv, ch>>

\* closeConn, which takes connMu for reading
TickerCloses ==
  /\ ping = "close" /\ mu = "free"
  /\ ping' = "idle" /\ suspect' = 0
  /\ open' = open \ {conn}
  /\ UNCHANGED <<conn, enc, loggedIn, dials, mu, once, loopVars, pong, pumpVars, recv, ch>>

TickerReturns ==
  /\ ping = "idle" /\ Done
  /\ ping' = "exit"
  /\ UNCHANGED <<net, mu, once, loopVars, pong, suspect, pumpVars, recv, ch>>

---------------------------------------------------------------------------
(***************************************************************************)
(* The pumps: Receive, Send, and reading the channel                       *)
(***************************************************************************)

\* Receive tests done with connMu taken for reading ...
Receive(p) ==
  /\ place[p] = "start" /\ mu = "free"
  /\ IF Done
     THEN place' = [place EXCEPT ![p] = "select"] /\ recv' = [recv EXCEPT ![p] = "closed"]
     ELSE place' = [place EXCEPT ![p] = "register"] /\ UNCHANGED recv
  /\ UNCHANGED <<net, mu, once, loopVars, pong, tickVars, out, sends, ch>>

\* ... and registers the channel; the first call starts recvLoop and the ticker.
Register(p) ==
  /\ place[p] = "register"
  /\ place' = [place EXCEPT ![p] = "select"]
  /\ recv' = [recv EXCEPT ![p] = "open"]
  /\ loop' = IF loop = "none" THEN "top" ELSE loop
  /\ ping' = IF ping = "none" THEN "idle" ELSE ping
  /\ UNCHANGED <<net, mu, once, target, wire, received, pong, suspect, out, sends, ch>>

TakePacket(p) ==
  /\ place[p] = "select" /\ ch[p] > 0
  /\ ch' = [ch EXCEPT ![p] = @ - 1]
  /\ UNCHANGED <<net, mu, once, loopVars, pong, tickVars, pumpVars, recv>>

\* The pump returns when done is closed, or its channel.
PumpExits(p) ==
  /\ place[p] = "select" /\ (Done \/ (recv[p] = "closed" /\ ch[p] = 0))
  /\ place' = [place EXCEPT ![p] = "exit"]
  /\ UNCHANGED <<net, mu, once, loopVars, pong, tickVars, out, sends, recv, ch>>

\* A request was handed to the pump, which calls Send.
BeginSend(p) ==
  /\ place[p] = "select" /\ sends < MaxSends
  /\ sends' = sends + 1
  /\ place' = [place EXCEPT ![p] = "send"]
  /\ UNCHANGED <<net, mu, once, loopVars, pong, tickVars, out, recv, ch>>

Send(p) ==
  /\ place[p] = "send" /\ mu = "free"
  /\ place' = [place EXCEPT ![p] = IF Done THEN "select" ELSE "write"]
  /\ out' = [out EXCEPT ![p] = IF Done THEN 0 ELSE enc]
  /\ UNCHANGED <<net, mu, once, loopVars, pong, tickVars, sends, recv, ch>>

\* sendPacket, which fails when the connection is closed
Write(p) ==
  /\ place[p] = "write"
  /\ place' = [place EXCEPT ![p] = "select"]
  /\ out' = [out EXCEPT ![p] = 0]
  /\ UNCHANGED <<net, mu, once, loopVars, pong, tickVars, sends, recv, ch>>

---------------------------------------------------------------------------
(***************************************************************************)
(* The network and the clock                                               *)
(***************************************************************************)

ConnBreaks ==
  /\ conn \in open
  /\ open' = open \ {conn}
  /\ UNCHANGED <<conn, enc, loggedIn, dials, mu, once, loopVars, pong, tickVars, pumpVars,
                 recv, ch>>

PongOverdue ==
  /\ pong = "fresh"
  /\ pong' = "overdue"
  /\ UNCHANGED <<net, mu, once, loopVars, tickVars, pumpVars, recv, ch>>

---------------------------------------------------------------------------

Closing == CloseConn \/ CancelContext \/ (loop = "giveup" /\ CloseDone)

Reading ==
  TestDone \/ ReceivePacket \/ ReadPing \/ ReadPongAck \/ ReadFails \/ SendPong \/ WritePong

Ending ==
  HandOver \/ EndLoop \/ TestClosed \/ LockConn \/ UnlockConn \/ GaveUp \/ CloseReceivers

Retrying == Reconnect \/ GiveUp

Ticker == TickerFires \/ TickerCloses \/ TickerReturns

PumpSteps(p) ==
  Receive(p) \/ Register(p) \/ TakePacket(p) \/ Send(p) \/ Write(p) \/ PumpExits(p)

LinkNext ==
  \/ CloseDone \/ CloseConn \/ CancelContext
  \/ Reading \/ Ending \/ Retrying \/ ReconnectFails
  \/ Ticker
  \/ \E p \in Pumps : PumpSteps(p) \/ BeginSend(p)
  \/ ConnBreaks \/ PongOverdue

LinkSpec == LinkInit /\ [][LinkNext]_linkVars

\* Goroutines go on, and take connMu in their turn; a read of an open connection
\* may wait for ever.
GoroutinesRun ==
  /\ WF_linkVars(Closing) /\ SF_linkVars(CloseConn)
  /\ WF_linkVars(TestDone) /\ WF_linkVars(ReadFails)
  /\ WF_linkVars(SendPong) /\ WF_linkVars(WritePong)
  /\ WF_linkVars(Ending)
  /\ SF_linkVars(Ticker)
  /\ \A p \in Pumps : WF_linkVars(PumpSteps(p)) /\ SF_linkVars(Send(p)) /\ SF_linkVars(PumpExits(p))

\* A retry ends by its budget at the latest ...
FairLinkSpec == LinkSpec /\ GoroutinesRun /\ WF_linkVars(Retrying)

\* ... or, were the budget without end, when the context is cancelled.
LongRetrySpec == LinkSpec /\ GoroutinesRun /\ WF_linkVars(Cancelled /\ GiveUp)

---------------------------------------------------------------------------

\* Types
LinkTypeOK ==
  /\ conn \in 1 .. MaxDials /\ enc \in 1 .. MaxDials /\ dials \in 1 .. MaxDials
  /\ open \subseteq 1 .. dials /\ loggedIn \subseteq 1 .. dials
  /\ mu \in {"free", "loop", "predecessor"}
  /\ once \in {"free", "done", "conn", "finished"}
  /\ loop \in LoopPlaces /\ target \in Pumps /\ wire \in 0 .. MaxDials
  /\ received \in 0 .. MaxPackets /\ sends \in 0 .. MaxSends
  /\ pong \in {"fresh", "overdue"} /\ ping \in {"none", "idle", "close", "exit"}
  /\ suspect \in 0 .. MaxDials
  /\ place \in [Pumps -> {"start", "register", "select", "send", "write", "exit"}]
  /\ out \in [Pumps -> 0 .. MaxDials]
  /\ recv \in [Pumps -> {"none", "open", "closed"}]
  /\ ch \in [Pumps -> 0 .. RecvChanSize]

\* No request and no pong is written to a connection that is not logged in, except
\* between giving up and closing the accesspoint: connMu keeps senders out of a
\* reconnect that is half done.
SendsLoggedIn ==
  loop \notin {"giveup", "receivers", "gone"} =>
    /\ \A p \in Pumps : place[p] = "write" => out[p] \in loggedIn
    /\ loop = "pongWrite" => wire \in loggedIn

\* recvLoop always closes the connection, however it ends: an accesspoint that is
\* closed leaves none behind.
NoConnectionLeft == (loop = "gone" /\ once = "finished") => open = {}

\* A receiver is closed only for good: a reconnect keeps it.
ClosedForGood == (\E p \in Pumps : recv[p] = "closed") => Done

\* Attempts that fail leave nothing behind but the last connection: a retry does
\* not collect open connections.
OneConnection == \A c, d \in open : c = d

\* Connections, receivers and senders agree on what connMu guards.
LinkConsistent == LinkTypeOK /\ SendsLoggedIn /\ OneConnection /\ ClosedForGood

\* Close ends, also against a reconnect, and the pumps end after it, one that is
\* registering or sending included.
CloseEnds ==
  /\ (once = "done") ~> (once = "finished")
  /\ \A p \in Pumps : (Done /\ place[p] # "start") ~> (place[p] = "exit")

\* A broken connection is replaced, or the accesspoint closed and its receivers told.
Recovers ==
  (loop # "none" /\ enc \notin open) ~> (enc \in open \/ loop = "gone")

\* ap/ap_test.go: a reconnect gives up as soon as the accesspoint is closed, and not
\* when its budget is spent.
CloseEndsReconnect == Done ~> Cancelled

\* README.md: a reconnect no longer blocks other operations, like the ping/pong
\* keepalive.
KeepaliveNotBlocked == ~(ping = "close" /\ mu = "loop")

\* pongAckTicker closes the connection that did not get its pong ack, so that its
\* read fails and a new connection is made; not that new connection.
ClosesSuspectOnly == [][ping = "close" /\ ping' = "idle" => conn = suspect]_linkVars
===========================================================================
