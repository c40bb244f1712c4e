-------------------------- MODULE AccesspointProofs --------------------------
(***************************************************************************)
(* Proofs about RequestMux, for any set of calls: the types, that every    *)
(* answer reaches its own call, that the pump never blocks, and that the   *)
(* pump implements Requests.  Then proofs about Accesspoint, which carries *)
(* the pump's packets, for any pumps, channel size and number of dials:    *)
(* connMu keeps senders away from a connection that is not logged in, a    *)
(* retry leaves one connection at most, and receivers are closed for good. *)
(***************************************************************************)
EXTENDS RequestMux, Accesspoint, TLAPS

\* What holds of the numbers: each was given out before, a registered request and
\* the server's copy of it are the same, and an answer is for the request
\* registered under its number.
NumbersAgree ==
  /\ \A r \in reqs \cup server : r.seq < seq
  /\ \A p \in packets : p.seq < seq
  /\ \A r, s \in reqs : r.seq = s.seq => r = s
  /\ \A r \in reqs, s \in server : r.seq = s.seq => r.call = s.call
  /\ \A r \in reqs, p \in packets : r.seq = p.seq => p.answer \in {r.call, "refused"}

\* The request being sent is registered under the last number, which the server
\* has not seen.
SendingIsLast ==
  pump = "send" =>
    /\ seq > 0
    /\ [seq |-> seq - 1, call |-> cur] \in reqs
    /\ \A s \in server : s.seq # seq - 1
    /\ \A p \in packets : p.seq # seq - 1

\* A call the pump has not taken has left no trace.
NotTakenYet ==
  \A c \in Calls : pc[c] \in {"idle", "submit"} =>
    /\ resp[c] = "empty"
    /\ \A r \in reqs : r.call # c

ResponseIsOwn == \A c \in Calls : resp[c] \in {"empty", c} \cup Errors

IInv ==
  /\ TypeOK /\ NumbersAgree /\ SendingIsLast /\ NotTakenYet
  /\ PumpNeverBlocks /\ ResponseIsOwn /\ AnswerIsOwn

---------------------------------------------------------------------------
LEMMA SuccessorIsNat == \A n \in Nat : n + 1 \in Nat
OBVIOUS

LEMMA SuccessorIsLarger == \A m, n \in Nat : m < n => m < n + 1
OBVIOUS

LEMMA TypesInitially == Init => TypeOK
<1> SUFFICES ASSUME Init PROVE TypeOK
  OBVIOUS
<1>1. /\ pc \in [Calls -> {"idle", "submit", "wait", "returned"}]
      /\ result \in [Calls -> Calls \cup Errors \cup {"none"}]
      /\ resp \in [Calls -> Calls \cup Errors \cup {"empty"}]
  BY DEF Init
<1>2. reqs \subseteq Numbered /\ server \subseteq Numbered
      /\ packets \subseteq [seq : Nat, answer : Calls \cup {"refused"}]
  BY DEF Init
<1> QED
  BY <1>1, <1>2 DEF Init, TypeOK

LEMMA TypesKept == TypeOK /\ SendingIsLast /\ [Next]_vars => TypeOK'
<1> SUFFICES ASSUME TypeOK, SendingIsLast, [Next]_vars PROVE TypeOK'
  OBVIOUS
<1> USE DEF TypeOK
<1>1. ASSUME NEW c \in Calls, Call(c) PROVE TypeOK'
  BY <1>1 DEF Call
<1>2. ASSUME NEW c \in Calls, Returns(c) PROVE TypeOK'
  BY <1>2 DEF Returns, ReturnClosed, ReturnTimeout, ReturnResponse, Return, Errors
<1>3. ASSUME NEW c \in Calls, TakeRequest(c) PROVE TypeOK'
  BY <1>3 DEF TakeRequest, Numbered
<1>4. ASSUME NEW c \in Calls, CannotMarshal(c) PROVE TypeOK'
  <2>1. resp' \in [Calls -> Calls \cup Errors \cup {"empty"}]
    BY <1>4 DEF CannotMarshal, Errors
  <2>2. pc' \in [Calls -> {"idle", "submit", "wait", "returned"}]
    BY <1>4 DEF CannotMarshal
  <2>3. seq' \in Nat
    BY <1>4, SuccessorIsNat DEF CannotMarshal
  <2> QED
    BY <1>4, <2>1, <2>2, <2>3, Zenon DEF CannotMarshal
<1>12. CASE Sent
  BY <1>12 DEF Sent, Numbered, SendingIsLast
<1>13. CASE SendFailed
  <2>1. resp' \in [Calls -> Calls \cup Errors \cup {"empty"}]
    BY <1>13 DEF SendFailed, Errors
  <2>2. reqs' \subseteq Numbered /\ server' \subseteq Numbered
    BY <1>13 DEF SendFailed, Numbered, SendingIsLast
  <2> QED
    BY <1>13, <2>1, <2>2 DEF SendFailed
<1>5. CASE PumpReturns
  BY <1>5 DEF PumpReturns
<1>6. ASSUME NEW p \in packets, ReadPacket(p) PROVE TypeOK'
  BY <1>6 DEF ReadPacket, Numbered, Errors
<1>7. ASSUME NEW p \in packets, SkipPacket(p) PROVE TypeOK'
  BY <1>7 DEF SkipPacket
<1>8. ASSUME NEW r \in server, ServerAnswers(r) PROVE TypeOK'
  BY <1>8 DEF ServerAnswers, Numbered
<1>9. CASE ConnectionLost
  BY <1>9 DEF ConnectionLost
<1>10. CASE CloseAccesspoint
  BY <1>10 DEF CloseAccesspoint
<1>11. CASE UNCHANGED vars
  BY <1>11 DEF vars
<1> QED
  BY <1>1, <1>2, <1>3, <1>4, <1>5, <1>6, <1>7, <1>8, <1>9, <1>10, <1>11, <1>12, <1>13
     DEF Next, Pump

---------------------------------------------------------------------------
(***************************************************************************)
(* Steps that leave the pump's state alone                                 *)
(***************************************************************************)

Quiet == UNCHANGED <<resp, pump, cur, seq, reqs, server, packets>>

Steps ==
  \/ Quiet
  \/ \E c \in Calls : TakeRequest(c) \/ CannotMarshal(c)
  \/ Sent \/ SendFailed
  \/ pump = "select" /\ pump' = "exit" /\ UNCHANGED <<resp, cur, seq, reqs, server, packets>>
  \/ \E p \in packets : ReadPacket(p) \/ SkipPacket(p)
  \/ \E r \in server : ServerAnswers(r)
  \/ ConnectionLost

LEMMA NextSteps == [Next]_vars => Steps
<1> SUFFICES ASSUME [Next]_vars PROVE Steps
  OBVIOUS
<1>1. ASSUME NEW c \in Calls, Call(c) \/ Returns(c) PROVE Quiet
  BY <1>1 DEF Call, Returns, ReturnClosed, ReturnTimeout, ReturnResponse, Return, Quiet
<1>2. CloseAccesspoint \/ UNCHANGED vars => Quiet
  BY DEF CloseAccesspoint, vars, Quiet
<1>3. PumpReturns => pump = "select" /\ pump' = "exit"
                     /\ UNCHANGED <<resp, cur, seq, reqs, server, packets>>
  BY DEF PumpReturns
<1> QED
  BY <1>1, <1>2, <1>3 DEF Next, Pump, Steps

LEMMA NumbersKept ==
  TypeOK /\ NumbersAgree /\ SendingIsLast /\ Steps => NumbersAgree'
<1> SUFFICES ASSUME TypeOK, NumbersAgree, SendingIsLast, Steps PROVE NumbersAgree'
  OBVIOUS
<1> USE DEF NumbersAgree
<1>t. /\ seq \in Nat
      /\ \A r \in reqs \cup server : r.seq \in Nat
      /\ \A p \in packets : p.seq \in Nat
  BY DEF TypeOK, Numbered
<1>1. CASE Quiet
  BY <1>1 DEF Quiet
<1>2. ASSUME NEW c \in Calls, TakeRequest(c) PROVE NumbersAgree'
  BY <1>2, <1>t DEF TakeRequest
<1>3. ASSUME NEW c \in Calls, CannotMarshal(c) PROVE NumbersAgree'
  <2>1. UNCHANGED <<reqs, server, packets>> /\ seq' = seq + 1
    BY <1>3, Zenon DEF CannotMarshal
  <2>2. \A m \in Nat : m < seq => m < seq'
    BY <2>1, <1>t, SuccessorIsLarger, Zenon
  <2> QED
    BY <2>1, <2>2, <1>t, Zenon
<1>4. CASE Sent
  BY <1>4, <1>t DEF Sent, SendingIsLast
<1>5. CASE SendFailed
  BY <1>5, <1>t DEF SendFailed, SendingIsLast
<1>6. CASE pump = "select" /\ pump' = "exit" /\ UNCHANGED <<resp, cur, seq, reqs, server, packets>>
  BY <1>6
<1>7. ASSUME NEW p \in packets, ReadPacket(p) PROVE NumbersAgree'
  BY <1>7, <1>t DEF ReadPacket
<1>8. ASSUME NEW p \in packets, SkipPacket(p) PROVE NumbersAgree'
  BY <1>8, <1>t DEF SkipPacket
<1>9. ASSUME NEW r \in server, ServerAnswers(r) PROVE NumbersAgree'
  BY <1>9, <1>t DEF ServerAnswers
<1>10. CASE ConnectionLost
  BY <1>10 DEF ConnectionLost
<1> QED
  BY <1>1, <1>2, <1>3, <1>4, <1>5, <1>6, <1>7, <1>8, <1>9, <1>10 DEF Steps

LEMMA SendingKept ==
  TypeOK /\ NumbersAgree /\ SendingIsLast /\ Steps => SendingIsLast'
<1> SUFFICES ASSUME TypeOK, NumbersAgree, SendingIsLast, Steps, pump' = "send"
             PROVE  SendingIsLast'
  BY DEF SendingIsLast
<1> USE DEF SendingIsLast
<1>t. seq \in Nat
  BY DEF TypeOK
<1>1. CASE Quiet
  BY <1>1 DEF Quiet
<1>2. ASSUME NEW c \in Calls, TakeRequest(c) PROVE SendingIsLast'
  <2>1. seq' = seq + 1 /\ seq' > 0 /\ seq' - 1 = seq
    BY <1>2, <1>t DEF TakeRequest
  <2>2. /\ \A s \in server : s.seq # seq
        /\ \A p \in packets : p.seq # seq
    BY <1>t DEF NumbersAgree, TypeOK, Numbered
  <2> QED
    BY <1>2, <2>1, <2>2 DEF TakeRequest
<1>3. ASSUME NEW c \in Calls, CannotMarshal(c) PROVE FALSE
  BY <1>3 DEF CannotMarshal
<1>4. ASSUME Sent \/ SendFailed PROVE FALSE
  BY <1>4 DEF Sent, SendFailed
<1>5. ASSUME NEW p \in packets, ReadPacket(p) \/ SkipPacket(p) PROVE FALSE
  BY <1>5 DEF ReadPacket, SkipPacket
<1>6. ASSUME NEW r \in server, ServerAnswers(r) PROVE SendingIsLast'
  BY <1>6 DEF ServerAnswers
<1>7. CASE ConnectionLost
  BY <1>7 DEF ConnectionLost
<1> QED
  BY <1>1, <1>2, <1>3, <1>4, <1>5, <1>6, <1>7 DEF Steps

LEMMA PumpKept ==
  TypeOK /\ NumbersAgree /\ SendingIsLast /\ NotTakenYet /\ PumpNeverBlocks /\ Steps
    => PumpNeverBlocks'
<1> SUFFICES ASSUME TypeOK, NumbersAgree, SendingIsLast, NotTakenYet, PumpNeverBlocks, Steps
             PROVE  PumpNeverBlocks'
  OBVIOUS
<1> USE DEF PumpNeverBlocks
<1>t. resp \in [Calls -> Calls \cup Errors \cup {"empty"}] /\ \A r \in reqs : r.call \in Calls
  BY DEF TypeOK, Numbered
<1>1. CASE Quiet
  BY <1>1 DEF Quiet
<1>2. ASSUME NEW c \in Calls, TakeRequest(c) PROVE PumpNeverBlocks'
  BY <1>2 DEF TakeRequest, NotTakenYet
<1>3. ASSUME NEW c \in Calls, CannotMarshal(c) PROVE PumpNeverBlocks'
  BY <1>3, <1>t DEF CannotMarshal, NotTakenYet
<1>4. CASE Sent
  BY <1>4 DEF Sent
<1>5. CASE SendFailed
  <2>1. PICK last \in reqs : last.seq = seq - 1 /\ last.call = cur
    BY <1>5 DEF SendFailed, SendingIsLast
  <2>2. \A r \in reqs : r.seq # seq - 1 => r.call # cur
    BY <2>1
  <2> QED
    BY <1>5, <1>t, <2>2 DEF SendFailed
<1>6. CASE pump = "select" /\ pump' = "exit" /\ UNCHANGED <<resp, cur, seq, reqs, server, packets>>
  BY <1>6
<1>7. ASSUME NEW p \in packets, ReadPacket(p) PROVE PumpNeverBlocks'
  BY <1>7, <1>t DEF ReadPacket
<1>8. ASSUME NEW p \in packets, SkipPacket(p) PROVE PumpNeverBlocks'
  BY <1>8 DEF SkipPacket
<1>9. ASSUME NEW r \in server, ServerAnswers(r) PROVE PumpNeverBlocks'
  BY <1>9 DEF ServerAnswers
<1>10. CASE ConnectionLost
  BY <1>10 DEF ConnectionLost
<1> QED
  BY <1>1, <1>2, <1>3, <1>4, <1>5, <1>6, <1>7, <1>8, <1>9, <1>10 DEF Steps

LEMMA ResponsesKept ==
  TypeOK /\ NumbersAgree /\ ResponseIsOwn /\ Steps => ResponseIsOwn'
<1> SUFFICES ASSUME TypeOK, NumbersAgree, ResponseIsOwn, Steps PROVE ResponseIsOwn'
  OBVIOUS
<1> USE DEF ResponseIsOwn
<1>t. resp \in [Calls -> Calls \cup Errors \cup {"empty"}] /\ "send failed" \in Errors
      /\ "refused" \in Errors /\ \A r \in reqs : r.call \in Calls
  BY DEF TypeOK, Numbered, Errors
<1>1. CASE UNCHANGED resp
  BY <1>1
<1>2. ASSUME NEW c \in Calls, CannotMarshal(c) PROVE ResponseIsOwn'
  BY <1>2, <1>t DEF CannotMarshal
<1>3. CASE SendFailed
  BY <1>3, <1>t DEF SendFailed
<1>4. ASSUME NEW p \in packets, ReadPacket(p) PROVE ResponseIsOwn'
  <2>1. PICK r \in reqs : r.seq = p.seq /\ resp' = [resp EXCEPT ![r.call] = p.answer]
    BY <1>4 DEF ReadPacket
  <2>2. p.answer \in {r.call, "refused"}
    BY <2>1 DEF NumbersAgree
  <2> QED
    BY <2>1, <2>2, <1>t
<1> QED
  BY <1>1, <1>2, <1>3, <1>4
     DEF Steps, Quiet, TakeRequest, Sent, SkipPacket, ServerAnswers, ConnectionLost

LEMMA NotTakenKept ==
  TypeOK /\ SendingIsLast /\ NotTakenYet /\ [Next]_vars => NotTakenYet'
<1> SUFFICES ASSUME TypeOK, SendingIsLast, NotTakenYet, [Next]_vars PROVE NotTakenYet'
  OBVIOUS
<1> USE DEF NotTakenYet
<1>t. /\ pc \in [Calls -> {"idle", "submit", "wait", "returned"}]
      /\ resp \in [Calls -> Calls \cup Errors \cup {"empty"}]
      /\ \A r \in reqs : r.call \in Calls
  BY DEF TypeOK, Numbered
<1>1. ASSUME NEW c \in Calls, Call(c) PROVE NotTakenYet'
  BY <1>1, <1>t DEF Call
<1>2. ASSUME NEW c \in Calls, Returns(c) PROVE NotTakenYet'
  BY <1>2, <1>t DEF Returns, ReturnClosed, ReturnTimeout, ReturnResponse, Return
<1>3. ASSUME NEW c \in Calls, TakeRequest(c) PROVE NotTakenYet'
  BY <1>3, <1>t DEF TakeRequest
<1>4. ASSUME NEW c \in Calls, CannotMarshal(c) PROVE NotTakenYet'
  BY <1>4, <1>t DEF CannotMarshal
<1>5. CASE SendFailed
  BY <1>5, <1>t DEF SendFailed, SendingIsLast
<1>6. ASSUME NEW p \in packets, ReadPacket(p) PROVE NotTakenYet'
  BY <1>6, <1>t DEF ReadPacket
<1>7. CASE UNCHANGED <<pc, resp, reqs>>
  BY <1>7
<1> QED
  BY <1>1, <1>2, <1>3, <1>4, <1>5, <1>6, <1>7
     DEF Next, Pump, Sent, PumpReturns, SkipPacket, ServerAnswers, ConnectionLost,
         CloseAccesspoint, vars

LEMMA AnswersKept == TypeOK /\ ResponseIsOwn /\ AnswerIsOwn /\ [Next]_vars => AnswerIsOwn'
<1> SUFFICES ASSUME TypeOK, ResponseIsOwn, AnswerIsOwn, [Next]_vars PROVE AnswerIsOwn'
  OBVIOUS
<1>1. ASSUME NEW c \in Calls, Returns(c) PROVE AnswerIsOwn'
  <2>1. PICK outcome : /\ outcome \in {c} \cup Errors
                       /\ result' = [result EXCEPT ![c] = outcome]
    BY <1>1 DEF Returns, ReturnClosed, ReturnTimeout, ReturnResponse, Return, Errors,
                ResponseIsOwn
  <2> QED
    BY <2>1 DEF AnswerIsOwn, TypeOK
<1>2. CASE UNCHANGED result
  BY <1>2 DEF AnswerIsOwn
<1> QED
  BY <1>1, <1>2
     DEF Next, Pump, Call, TakeRequest, CannotMarshal, Sent, SendFailed, PumpReturns, ReadPacket,
         SkipPacket, ServerAnswers, ConnectionLost, CloseAccesspoint, vars

---------------------------------------------------------------------------
LEMMA InvariantInitially == Init => IInv
<1> SUFFICES ASSUME Init PROVE IInv
  OBVIOUS
<1>1. NumbersAgree /\ SendingIsLast
  BY DEF Init, NumbersAgree, SendingIsLast
<1>2. NotTakenYet /\ PumpNeverBlocks /\ ResponseIsOwn /\ AnswerIsOwn
  BY DEF Init, NotTakenYet, PumpNeverBlocks, ResponseIsOwn, AnswerIsOwn
<1> QED
  BY <1>1, <1>2, TypesInitially DEF IInv

LEMMA InvariantKept == IInv /\ [Next]_vars => IInv'
BY TypesKept, NextSteps, NumbersKept, SendingKept, NotTakenKept, PumpKept, ResponsesKept,
   AnswersKept, Zenon
   DEF IInv

\* The inductive invariant: the numbers tie requests, answers and callers together.
THEOREM Invariant == Spec => []IInv
BY InvariantInitially, InvariantKept, PTL DEF Spec

\* The types of the pump's state and of the callers'.
THEOREM Types == Spec => []TypeOK
<1>1. IInv => TypeOK
  BY DEF IInv
<1> QED
  BY <1>1, Invariant, PTL

\* Whatever calls are made, and however the answers, failures and timeouts fall,
\* Request returns the answer to its own request or an error.
THEOREM AnswersAreOwn == Spec => []AnswerIsOwn
<1>1. IInv => AnswerIsOwn
  BY DEF IInv
<1> QED
  BY <1>1, Invariant, PTL

\* recvLoop never writes to a response channel that is full, so it never waits for
\* a caller that has left.
THEOREM PumpIsFree == Spec => []PumpNeverBlocks
<1>1. IInv => PumpNeverBlocks
  BY DEF IInv
<1> QED
  BY <1>1, Invariant, PTL

\* The pump and any number of callers agree on what is still to be answered.
THEOREM PumpIsConsistent == Spec => []Consistent
BY Types, PumpIsFree, PTL DEF Consistent

---------------------------------------------------------------------------
(***************************************************************************)
(* The refinement                                                          *)
(***************************************************************************)

LEMMA StatusInitially == Init => Abstract!Init
BY DEF Init, Abstract!Init, Status

LEMMA StatusSteps == IInv /\ [Next]_vars => [Abstract!Next]_Status
<1> SUFFICES ASSUME IInv, [Next]_vars PROVE [Abstract!Next]_Status
  OBVIOUS
<1>t. /\ pc \in [Calls -> {"idle", "submit", "wait", "returned"}]
      /\ result \in [Calls -> Calls \cup Errors \cup {"none"}]
  BY DEF IInv, TypeOK
<1>1. ASSUME NEW c \in Calls, Call(c) PROVE Abstract!Next
  <2>1. Status[c] = "idle" /\ Status' = [Status EXCEPT ![c] = "pending"]
    BY <1>1, <1>t DEF Call, Status
  <2> QED
    BY <2>1 DEF Abstract!Next, Abstract!Call
<1>2. ASSUME NEW c \in Calls, Returns(c) PROVE Abstract!Next
  <2>1. PICK outcome : /\ outcome \in Errors \cup {c}
                       /\ pc[c] \in {"submit", "wait"}
                       /\ pc' = [pc EXCEPT ![c] = "returned"]
                       /\ result' = [result EXCEPT ![c] = outcome]
    BY <1>2 DEF Returns, ReturnClosed, ReturnTimeout, ReturnResponse, Return, Errors,
                IInv, ResponseIsOwn
  <2>2. Status[c] = "pending" /\ Status' = [Status EXCEPT ![c] = outcome]
    BY <2>1, <1>t DEF Status
  <2> QED
    BY <2>1, <2>2 DEF Abstract!Next, Abstract!Return, Abstract!Outcomes
<1>3. ASSUME NEW c \in Calls, TakeRequest(c) \/ CannotMarshal(c) PROVE UNCHANGED Status
  BY <1>3, <1>t DEF TakeRequest, CannotMarshal, Status
<1>4. CASE UNCHANGED <<pc, result>>
  BY <1>4 DEF Status
<1> QED
  BY <1>1, <1>2, <1>3, <1>4
     DEF Next, Pump, Sent, SendFailed, PumpReturns, ReadPacket, SkipPacket, ServerAnswers,
         ConnectionLost, CloseAccesspoint, vars

\* The clients implement Requests: a call ends once, with its own answer or an
\* error.
THEOREM Implementation == Spec => ImplementsRequests
BY StatusInitially, StatusSteps, Invariant, PTL DEF Spec, ImplementsRequests, Abstract!Spec

---------------------------------------------------------------------------
(***************************************************************************)
(* Accesspoint                                                             *)
(***************************************************************************)

\* The places of recvLoop after a retry was given up.
Over == {"giveup", "receivers", "gone"}

\* Only the last connection dialled can be open.
LastIsOpen == conn = dials /\ open \subseteq {conn}

\* connMu is held by recvLoop for the retry and for nothing else; encConn is that of a login
\* whenever it is not; so a sender that has passed connMu has one that is logged in.
Guarded ==
  /\ mu = "loop" <=> loop = "retry"
  /\ loop \notin Over \cup {"retry"} => enc \in loggedIn
  /\ loop \notin Over => \A p \in Pumps : place[p] = "write" => out[p] \in loggedIn
  /\ loop = "pongWrite" => wire \in loggedIn

\* The receivers are closed after done is, and recvLoop only closes them then.
ReceiversLast == ClosedForGood /\ (loop = "receivers" => Done)

LinkInv == LinkTypeOK /\ LastIsOpen /\ Guarded /\ ReceiversLast

---------------------------------------------------------------------------
\* The accesspoint starts connected and logged in, with nobody using it.
LEMMA InitInv ==
  ASSUME LinkInit
  PROVE  LinkInv
BY AccesspointAssumption
DEF LinkInit, LinkInv, LinkTypeOK, LastIsOpen, Guarded, ReceiversLast, ClosedForGood, Over,
    LoopPlaces, Done

\* Closing only ever raises once, and takes connections away.
LEMMA CloseStep ==
  ASSUME LinkInv, CloseDone \/ CloseConn \/ CancelContext
  PROVE  LinkInv'
<1> USE AccesspointAssumption
    DEF net, loopVars, tickVars, pumpVars, LinkInv, LinkTypeOK, LastIsOpen, Guarded, ReceiversLast,
        ClosedForGood, Over, LoopPlaces, Done
<1>1. CASE CloseDone
  BY <1>1 DEF CloseDone
<1>2. CASE CloseConn
  BY <1>2 DEF CloseConn
<1>3. CASE CancelContext
  BY <1>3 DEF CancelContext
<1>4. QED BY <1>1, <1>2, <1>3

\* recvLoop while it reads, and the pongs it sends with connMu taken for reading.
LEMMA ReadingStep ==
  ASSUME LinkInv, Reading
  PROVE  LinkInv'
<1> USE AccesspointAssumption
    DEF net, loopVars, tickVars, pumpVars, LinkInv, LinkTypeOK, LastIsOpen, Guarded, ReceiversLast,
        ClosedForGood, Over, LoopPlaces, Done, Goto
<1>1. CASE TestDone
  BY <1>1 DEF TestDone
<1>2. CASE ReceivePacket
  BY <1>2 DEF ReceivePacket
<1>3. CASE ReadPing
  BY <1>3 DEF ReadPing
<1>4. CASE ReadPongAck
  BY <1>4 DEF ReadPongAck
<1>5. CASE ReadFails
  BY <1>5 DEF ReadFails
<1>6. CASE SendPong
  BY <1>6 DEF SendPong
<1>7. CASE WritePong
  BY <1>7 DEF WritePong
<1>8. QED BY <1>1, <1>2, <1>3, <1>4, <1>5, <1>6, <1>7 DEF Reading

\* The end of recvLoop.
LEMMA EndingStep ==
  ASSUME LinkInv, Ending
  PROVE  LinkInv'
<1> USE AccesspointAssumption
    DEF net, loopVars, tickVars, pumpVars, LinkInv, LinkTypeOK, LastIsOpen, Guarded, ReceiversLast,
        ClosedForGood, Over, LoopPlaces, Done, Goto
<1>1. CASE HandOver
  BY <1>1 DEF HandOver
<1>2. CASE EndLoop
  BY <1>2 DEF EndLoop
<1>3. CASE TestClosed
  BY <1>3 DEF TestClosed
<1>4. CASE LockConn
  BY <1>4 DEF LockConn
<1>5. CASE UnlockConn
  BY <1>5 DEF UnlockConn
<1>6. CASE GaveUp
  BY <1>6 DEF GaveUp
<1>7. CASE CloseReceivers
  BY <1>7 DEF CloseReceivers
<1>8. QED BY <1>1, <1>2, <1>3, <1>4, <1>5, <1>6, <1>7 DEF Ending

\* The retry, with connMu held: an attempt replaces the connection, whatever comes of it.
LEMMA RetryStep ==
  ASSUME LinkInv, Retrying \/ ReconnectFails
  PROVE  LinkInv'
<1> USE AccesspointAssumption
    DEF net, loopVars, tickVars, pumpVars, LinkInv, LinkTypeOK, LastIsOpen, Guarded, ReceiversLast,
        ClosedForGood, Over, LoopPlaces, Done, Goto
<1>1. ASSUME Dial
      PROVE  /\ dials' \in 1..MaxDials /\ conn' = dials' /\ open' = {conn'} /\ dials < dials'
             /\ open' \subseteq 1..dials' /\ loggedIn \subseteq 1..dials'
  <2>1. dials' = dials + 1 /\ dials' \in 1..MaxDials /\ conn' = dials'
    BY <1>1 DEF Dial
  <2>2. open' = {conn'}
    BY <1>1, Zenon DEF Dial
  <2>3. QED BY <2>1, <2>2
<1>2. CASE ReconnectFails
  <2>1. loop = "retry" /\ Dial
    BY <1>2 DEF ReconnectFails, Dial
  <2>2. QED BY <1>1, <1>2, <2>1 DEF ReconnectFails
<1>3. CASE Reconnect
  <2>1. loop = "retry" /\ Dial
    BY <1>3, Zenon DEF Reconnect, Dial
  <2>2. QED BY <1>1, <1>3, <2>1 DEF Reconnect
<1>4. CASE GiveUp
  BY <1>4 DEF GiveUp
<1>5. QED BY <1>2, <1>3, <1>4 DEF Retrying

\* The watchdog and the network, which only close the connection.
LEMMA TickerStep ==
  ASSUME LinkInv, Ticker \/ ConnBreaks \/ PongOverdue
  PROVE  LinkInv'
<1> USE AccesspointAssumption
    DEF net, loopVars, tickVars, pumpVars, LinkInv, LinkTypeOK, LastIsOpen, Guarded, ReceiversLast,
        ClosedForGood, Over, LoopPlaces, Done
<1>1. CASE TickerFires
  BY <1>1 DEF TickerFires
<1>2. CASE TickerCloses
  BY <1>2 DEF TickerCloses
<1>3. CASE TickerReturns
  BY <1>3 DEF TickerReturns
<1>4. CASE ConnBreaks
  BY <1>4 DEF ConnBreaks
<1>5. CASE PongOverdue
  BY <1>5 DEF PongOverdue
<1>6. QED BY <1>1, <1>2, <1>3, <1>4, <1>5 DEF Ticker

\* A pump, which sends on the connection it found with connMu free.
LEMMA PumpStep ==
  ASSUME LinkInv, NEW p \in Pumps, PumpSteps(p) \/ BeginSend(p)
  PROVE  LinkInv'
<1> USE AccesspointAssumption
    DEF net, loopVars, tickVars, pumpVars, LinkInv, LinkTypeOK, LastIsOpen, Guarded, ReceiversLast,
        ClosedForGood, Over, LoopPlaces, Done
<1>1. CASE Receive(p)
  BY <1>1 DEF Receive
<1>2. CASE Register(p)
  BY <1>2 DEF Register
<1>3. CASE TakePacket(p)
  BY <1>3 DEF TakePacket
<1>4. CASE PumpExits(p)
  BY <1>4 DEF PumpExits
<1>5. CASE BeginSend(p)
  BY <1>5 DEF BeginSend
<1>6. CASE Send(p)
  BY <1>6 DEF Send
<1>7. CASE Write(p)
  BY <1>7 DEF Write
<1>8. QED BY <1>1, <1>2, <1>3, <1>4, <1>5, <1>6, <1>7 DEF PumpSteps

\* Every step keeps the invariant.
LEMMA NextInv ==
  ASSUME LinkInv, [LinkNext]_linkVars
  PROVE  LinkInv'
<1>1. CASE LinkNext
  BY <1>1, CloseStep, ReadingStep, EndingStep, RetryStep, TickerStep, PumpStep DEF LinkNext
<1>2. CASE UNCHANGED linkVars
  BY <1>2 DEF linkVars, net, loopVars, tickVars, pumpVars, LinkInv, LinkTypeOK, LastIsOpen, Guarded,
              ReceiversLast, ClosedForGood, Over, Done
<1>3. QED BY <1>1, <1>2

\* However connections break, retries fail and Close comes: until a retry is given up no request or
\* pong is written to a connection that is not logged in (Send and reconnect under connMu), at most
\* one connection is open, and a receiver is closed only once the accesspoint is.
THEOREM AccesspointIsConsistent == LinkSpec => []LinkConsistent
<1>1. LinkInit => LinkInv
  BY InitInv
<1>2. LinkInv /\ [LinkNext]_linkVars => LinkInv'
  BY NextInv
<1>3. LinkInv => LinkConsistent
  <2> SUFFICES ASSUME LinkInv PROVE LinkConsistent
    OBVIOUS
  <2>1. OneConnection
    BY DEF LinkInv, LastIsOpen, OneConnection
  <2>2. SendsLoggedIn
    BY DEF LinkInv, Guarded, SendsLoggedIn, Over
  <2>3. QED BY <2>1, <2>2 DEF LinkInv, ReceiversLast, LinkConsistent
<1>4. QED BY <1>1, <1>2, <1>3, PTL DEF LinkSpec
=============================================================================
