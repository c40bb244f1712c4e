---------------------------- MODULE RequestMux ----------------------------
(***************************************************************************)
(* The clients that share the accesspoint for requests, audio.KeyProvider  *)
(* (audio/provider.go) and mercury.Client (mercury/client.go): callers     *)
(* hand their request to one pump goroutine, which numbers it, sends it    *)
(* and routes the numbered answer back.  Both have this shape.             *)
(*                                                                         *)
(* A call is made once, so it stands for its request, its response channel *)
(* and the answer the server gives to it.  The server answers in any       *)
(* order, so the packets the pump has yet to read are a set.               *)
(***************************************************************************)
EXTENDS Integers, FiniteSets

CONSTANTS
  Calls,      \* calls of Request
  NoCall      \* no call

Errors == {"refused", "send failed", "timeout", "closed"}

ASSUME MuxAssumption ==
  /\ NoCall \notin Calls \cup Errors \cup {"empty", "none", "idle", "pending"}
  /\ Calls \cap (Errors \cup {"empty", "none", "idle", "pending"}) = {}

VARIABLES
  pc,         \* the callers: idle, submit, wait, returned
  result,     \* what Request returned
  resp,       \* the response channels, of capacity 1
  pump,       \* recvLoop: select, send, exit
  cur,        \* the request the pump is sending
  seq,        \* the next sequence number
  reqs,       \* the requests waiting for their answer, by sequence number
  server,     \* requests the server has not answered
  packets,    \* answers the pump has not read
  done        \* the accesspoint was closed

vars == <<pc, result, resp, pump, cur, seq, reqs, server, packets, done>>

Init ==
  /\ pc = [c \in Calls |-> "idle"]
  /\ result = [c \in Calls |-> "none"]
  /\ resp = [c \in Calls |-> "empty"]
  /\ pump = "select" /\ cur = NoCall
  /\ seq = 0
  /\ reqs = {} /\ server = {} /\ packets = {}
  /\ done = FALSE

---------------------------------------------------------------------------
(***************************************************************************)
(* Request                                                                 *)
(***************************************************************************)

Call(c) ==
  /\ pc[c] = "idle"
  /\ pc' = [pc EXCEPT ![c] = "submit"]
  /\ UNCHANGED <<result, resp, pump, cur, seq, reqs, server, packets, done>>

Return(c, outcome) ==
  /\ pc' = [pc EXCEPT ![c] = "returned"]
  /\ result' = [result EXCEPT ![c] = outcome]
  /\ UNCHANGED <<resp, pump, cur, seq, reqs, server, packets, done>>

\* Mutant: a caller whose request was not taken yet does not look at done.
ReturnClosedLate(c) ==
  /\ pc[c] = "wait" /\ done
  /\ Return(c, "closed")

\* The accesspoint is closed before the pump takes the request, or after.
ReturnClosed(c) ==
  /\ pc[c] \in {"submit", "wait"} /\ done
  /\ Return(c, "closed")

ReturnTimeout(c) ==
  /\ pc[c] = "wait"
  /\ Return(c, "timeout")

ReturnResponse(c) ==
  /\ pc[c] = "wait" /\ resp[c] # "empty"
  /\ Return(c, resp[c])

---------------------------------------------------------------------------
(***************************************************************************)
(* recvLoop, the pump                                                      *)
(***************************************************************************)

\* A request is taken off reqChan and numbered ...
TakeRequest(c) ==
  /\ pump = "select" /\ pc[c] = "submit"
  /\ pc' = [pc EXCEPT ![c] = "wait"]
  /\ pump' = "send" /\ cur' = c
  /\ seq' = seq + 1
  /\ reqs' = reqs \cup {[seq |-> seq, call |-> c]}
  /\ UNCHANGED <<result, resp, server, packets, done>>

\* (a mercury header that cannot be marshalled is refused there) ...
CannotMarshal(c) ==
  /\ pump = "select" /\ pc[c] = "submit"
  /\ pc' = [pc EXCEPT ![c] = "wait"]
  /\ seq' = seq + 1
  /\ resp' = [resp EXCEPT ![c] = "send failed"]
  /\ UNCHANGED <<result, pump, cur, reqs, server, packets, done>>

\* Mutant: the pump does not let go of the request it sent.
SentKeepsRequest ==
  /\ pump = "send"
  /\ pump' = "select"
  /\ server' = server \cup {[seq |-> seq - 1, call |-> cur]}
  /\ UNCHANGED <<pc, result, resp, cur, seq, reqs, packets, done>>

\* ... and sent, which blocks while the accesspoint reconnects.
Sent ==
  /\ pump = "send"
  /\ pump' = "select" /\ cur' = NoCall
  /\ server' = server \cup {[seq |-> seq - 1, call |-> cur]}
  /\ UNCHANGED <<pc, result, resp, seq, reqs, packets, done>>

\* Mutant: the request stays registered after its send failed.
SendFailedKeepsRequest ==
  /\ pump = "send"
  /\ pump' = "select" /\ cur' = NoCall
  /\ resp' = [resp EXCEPT ![cur] = "send failed"]
  /\ server' \in {server, server \cup {[seq |-> seq - 1, call |-> cur]}}
  /\ UNCHANGED <<pc, result, seq, reqs, packets, done>>

\* A send that failed may have got through.
SendFailed ==
  /\ pump = "send"
  /\ pump' = "select" /\ cur' = NoCall
  /\ reqs' = {r \in reqs : r.seq # seq - 1}
  /\ resp' = [resp EXCEPT ![cur] = "send failed"]
  /\ server' \in {server, server \cup {[seq |-> seq - 1, call |-> cur]}}
  /\ UNCHANGED <<pc, result, seq, packets, done>>

\* Mutant: answers are taken to come in the order of the requests.
ReadPacketInTurn(p) ==
  /\ pump = "select"
  /\ \E r \in reqs :
       /\ \A s \in reqs : r.seq <= s.seq
       /\ reqs' = reqs \ {r}
       /\ resp' = [resp EXCEPT ![r.call] = p.answer]
  /\ packets' = packets \ {p}
  /\ UNCHANGED <<pc, result, pump, cur, seq, server, done>>

\* An answer is routed to the request of its number.
ReadPacket(p) ==
  /\ pump = "select"
  /\ \E r \in reqs :
       /\ r.seq = p.seq
       /\ reqs' = reqs \ {r}
       /\ resp' = [resp EXCEPT ![r.call] = p.answer]
  /\ packets' = packets \ {p}
  /\ UNCHANGED <<pc, result, pump, cur, seq, server, done>>

\* A packet nobody waits for, or that mercury cannot read, is skipped.
SkipPacket(p) ==
  /\ pump = "select"
  /\ packets' = packets \ {p}
  /\ UNCHANGED <<pc, result, resp, pump, cur, seq, reqs, server, done>>

PumpReturns ==
  /\ pump = "select" /\ done
  /\ pump' = "exit"
  /\ UNCHANGED <<pc, result, resp, cur, seq, reqs, server, packets, done>>

---------------------------------------------------------------------------
(***************************************************************************)
(* The accesspoint and the server                                          *)
(***************************************************************************)

\* The server answers or refuses a request; the answer is only for that request.
ServerAnswers(r) ==
  /\ server' = server \ {r}
  /\ \E answer \in {r.call, "refused"} :
       packets' = packets \cup {[seq |-> r.seq, answer |-> answer]}
  /\ UNCHANGED <<pc, result, resp, pump, cur, seq, reqs, done>>

\* The connection breaks: what the server has not answered is lost.
ConnectionLost ==
  /\ server # {}
  /\ server' = {}
  /\ UNCHANGED <<pc, result, resp, pump, cur, seq, reqs, packets, done>>

CloseAccesspoint ==
  /\ ~done
  /\ done' = TRUE
  /\ UNCHANGED <<pc, result, resp, pump, cur, seq, reqs, server, packets>>

---------------------------------------------------------------------------

Returns(c) == ReturnClosed(c) \/ ReturnTimeout(c) \/ ReturnResponse(c)

Pump ==
  \/ \E c \in Calls : TakeRequest(c) \/ CannotMarshal(c)
  \/ Sent \/ SendFailed \/ PumpReturns
  \/ \E p \in packets : ReadPacket(p) \/ SkipPacket(p)

Next ==
  \/ \E c \in Calls : Call(c) \/ Returns(c)
  \/ Pump
  \/ \E r \in server : ServerAnswers(r)
  \/ ConnectionLost \/ CloseAccesspoint

Spec == Init /\ [][Next]_vars

\* Timeouts run, and the pump goes on: a Send returns at the latest when the
\* accesspoint gives up, and reqChan is ready time and again.
Fairness ==
  /\ \A c \in Calls : WF_vars(Returns(c)) /\ SF_vars(TakeRequest(c))
  /\ WF_vars(Pump)

FairSpec == Spec /\ Fairness

---------------------------------------------------------------------------

Numbered == [seq : Nat, call : Calls]

\* Types
TypeOK ==
  /\ pc \in [Calls -> {"idle", "submit", "wait", "returned"}]
  /\ result \in [Calls -> Calls \cup Errors \cup {"none"}]
  /\ resp \in [Calls -> Calls \cup Errors \cup {"empty"}]
  /\ pump \in {"select", "send", "exit"}
  /\ IF pump = "send" THEN cur \in Calls ELSE cur = NoCall
  /\ seq \in Nat
  /\ reqs \subseteq Numbered /\ server \subseteq Numbered
  /\ packets \subseteq [seq : Nat, answer : Calls \cup {"refused"}]
  /\ done \in BOOLEAN

\* A call that returned an answer returned its own, whatever the order of the
\* answers, lost connections, timeouts and failed sends.
AnswerIsOwn == \A c \in Calls : result[c] \in {"none", c} \cup Errors

\* The pump never finds a response channel full, where it would block for every
\* caller: a request it still has was not responded to.
PumpNeverBlocks ==
  /\ \A r \in reqs : resp[r.call] = "empty"
  /\ \A r, s \in reqs : r.call = s.call => r = s
  /\ pump = "send" => resp[cur] = "empty"

\* The pump and the callers agree on what is still to be answered.
Consistent == TypeOK /\ PumpNeverBlocks

\* Every call ends, also one made when the accesspoint is closing.
CallsReturn == \A c \in Calls : (pc[c] = "submit") ~> (pc[c] = "returned")

\* The status a caller sees
Status ==
  [c \in Calls |-> IF pc[c] = "idle" THEN "idle"
                   ELSE IF pc[c] = "returned" THEN result[c] ELSE "pending"]

Abstract == INSTANCE Requests WITH status <- Status

\* The clients implement calls that end once, with their own answer or an error.
ImplementsRequests == Abstract!Spec
===========================================================================
