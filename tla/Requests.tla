----------------------------- MODULE Requests -----------------------------
(***************************************************************************)
(* What the request clients over the accesspoint promise (audio/           *)
(* provider.go, mercury/client.go): a call ends once, with the server's    *)
(* answer to that very call or with an error.                              *)
(***************************************************************************)
CONSTANTS
  Calls,     \* calls of Request, each made once
  Errors     \* what a call may end with instead of its answer

VARIABLE status   \* of a call: idle, pending or what it ended with

\* The answer to a call is known by the call.
Outcomes(c) == Errors \cup {c}

Init == status = [c \in Calls |-> "idle"]

Call(c) ==
  /\ status[c] = "idle"
  /\ status' = [status EXCEPT ![c] = "pending"]

Return(c, outcome) ==
  /\ status[c] = "pending"
  /\ status' = [status EXCEPT ![c] = outcome]

Next == \E c \in Calls : Call(c) \/ \E outcome \in Outcomes(c) : Return(c, outcome)

Spec == Init /\ [][Next]_status
===========================================================================
