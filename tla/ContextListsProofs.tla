------------------------ MODULE ContextListsProofs ------------------------
(***************************************************************************)
(* Proofs about ContextLists, for any contexts, callers and editors: one   *)
(* goroutine enumerates a context at a time, no sweep waits without a      *)
(* worker, and no listing is served that an answered edit has made stale.  *)
(***************************************************************************)
EXTENDS ContextLists, TLAPS

\* The version v of u is no older than any edit of u that was answered, or has got as
\* far as invalidating u.
Current(v, u) ==
  /\ v >= settled[u]
  /\ \A w \in Editors :
       u \in editor[w].group \ editor[w].left => v >= editor[w].version[u]

\* No edit is ahead of the backend.
EditsAreReal ==
  \A u \in Contexts :
    /\ settled[u] <= backend[u]
    /\ \A w \in Editors : editor[w].version[u] <= backend[u]

\* What is listed is current, and so is what a caller is about to list, unless an
\* invalidation has moved the generation on.
ListingsAreCurrent ==
  /\ \A u \in Contexts : list[u] # Absent => Current(list[u], u)
  /\ \A e \in Callers :
       caller[e].at = "put" /\ inFlight[caller[e].uri] = 0
         => Current(caller[e].version, caller[e].uri)

\* A caller that is busy has a context.
BusyHasContext == \A e \in Callers : caller[e].at # "idle" => caller[e].uri \in Contexts

IInv ==
  /\ TypeOK /\ BusyHasContext /\ OneEnumeration /\ SweepHasWorker
  /\ EditsAreReal /\ ListingsAreCurrent

---------------------------------------------------------------------------
LEMMA AbsentIsNoVersion == Absent \notin Nat
BY DEF Absent

Places == {"idle", "begin", "claim", "walk", "put", "sweep", "end"}
CallerType == [at : Places, uri : Contexts \cup {NoContext}, gen : {0}, version : Nat]
EditorType == [at : {"idle", "invalidate"}, group : SUBSET Contexts,
               left : SUBSET Contexts, version : [Contexts -> Nat]]

LEMMA Types ==
  /\ TypeOK <=>
       /\ backend \in [Contexts -> Nat] /\ settled \in [Contexts -> Nat]
       /\ list \in [Contexts -> Nat \cup {Absent}]
       /\ inFlight \in [Contexts -> Nat \cup {Absent}]
       /\ caller \in [Callers -> CallerType]
       /\ editor \in [Editors -> EditorType]
       /\ sweeps \in [running : BOOLEAN, pending : Contexts \cup {NoContext}]
       /\ worker \in {"none", "next", "sweep"}
       /\ done \in [edits : Nat, failures : Nat, drops : Nat]
  /\ TypeOK' <=>
       /\ backend' \in [Contexts -> Nat] /\ settled' \in [Contexts -> Nat]
       /\ list' \in [Contexts -> Nat \cup {Absent}]
       /\ inFlight' \in [Contexts -> Nat \cup {Absent}]
       /\ caller' \in [Callers -> CallerType]
       /\ editor' \in [Editors -> EditorType]
       /\ sweeps' \in [running : BOOLEAN, pending : Contexts \cup {NoContext}]
       /\ worker' \in {"none", "next", "sweep"}
       /\ done' \in [edits : Nat, failures : Nat, drops : Nat]
BY DEF TypeOK, CallerType, EditorType, Places

LEMMA RestingIsIdle == Resting \in CallerType /\ Resting.at = "idle"
BY DEF Resting, CallerType, Places

LEMMA HomeIsIdle ==
  /\ Home \in EditorType /\ Home.at = "idle" /\ Home.group = {} /\ Home.left = {}
  /\ Home.version = [u \in Contexts |-> 0]
BY DEF Home, EditorType

\* One caller moves: what it becomes, and that the others stay.
LEMMA CallerMoves ==
  ASSUME TypeOK, NEW e \in Callers, NEW r \in CallerType, caller' = [caller EXCEPT ![e] = r]
  PROVE  /\ caller' \in [Callers -> CallerType]
         /\ caller'[e] = r
         /\ \A f \in Callers : f # e => caller'[f] = caller[f]
BY Types

LEMMA EditorMoves ==
  ASSUME TypeOK, NEW w \in Editors, NEW r \in EditorType, editor' = [editor EXCEPT ![w] = r]
  PROVE  /\ editor' \in [Editors -> EditorType]
         /\ editor'[w] = r
         /\ \A x \in Editors : x # w => editor'[x] = editor[x]
BY Types

\* A caller that goes on keeps its context.
LEMMA GoesOn ==
  ASSUME TypeOK, NEW e \in Callers, NEW at \in Places, Goes(e, at)
  PROVE  /\ caller' \in [Callers -> CallerType]
         /\ caller'[e].at = at /\ caller'[e].uri = caller[e].uri
         /\ caller'[e].version = caller[e].version /\ caller'[e].gen = 0
         /\ \A f \in Callers : f # e => caller'[f] = caller[f]
<1>1. caller[e] \in CallerType
  BY Types
<1> DEFINE r == [caller[e] EXCEPT !.at = at]
<1>2. r \in CallerType /\ r.at = at /\ r.uri = caller[e].uri /\ r.gen = 0
      /\ r.version = caller[e].version
  BY <1>1 DEF CallerType
<1>3. caller' = [caller EXCEPT ![e] = r]
  BY DEF Goes
<1> HIDE DEF r
<1> QED
  BY <1>2, <1>3, CallerMoves

LEMMA EnqueueTypes ==
  ASSUME TypeOK, NEW u \in Contexts, Enqueue(u)
  PROVE /\ sweeps' \in [running : BOOLEAN, pending : Contexts \cup {NoContext}]
        /\ worker' \in {"none", "next", "sweep"}
BY Types DEF Enqueue

---------------------------------------------------------------------------
\* What each step of a caller does to the callers.
LEMMA AskMoves ==
  ASSUME TypeOK, NEW e \in Callers, NEW u \in Contexts, Ask(e, u), caller' # caller
  PROVE  /\ caller' \in [Callers -> CallerType]
         /\ caller'[e].at = "begin" /\ caller'[e].uri = u
         /\ \A f \in Callers : f # e => caller'[f] = caller[f]
<1> DEFINE r == [Resting EXCEPT !.at = "begin", !.uri = u]
<1>1. r \in CallerType /\ r.at = "begin" /\ r.uri = u
  BY DEF Resting, CallerType, Places
<1>2. caller' = [caller EXCEPT ![e] = r]
  BY DEF Ask
<1> HIDE DEF r
<1> QED
  BY <1>1, <1>2, CallerMoves

LEMMA LookAgainMoves ==
  ASSUME TypeOK, NEW e \in Callers, LookAgain(e)
  PROVE  /\ caller' \in [Callers -> CallerType]
         /\ \/ caller'[e].at = "idle"
            \/ caller'[e].at = "claim" /\ caller'[e].uri = caller[e].uri
         /\ \A f \in Callers : f # e => caller'[f] = caller[f]
<1>1. CASE list[caller[e].uri] # Absent
  <2>1. caller' = [caller EXCEPT ![e] = Resting]
    BY <1>1 DEF LookAgain
  <2> QED
    BY <2>1, RestingIsIdle, CallerMoves
<1>2. CASE list[caller[e].uri] = Absent
  <2>1. Goes(e, "claim")
    BY <1>2 DEF LookAgain, Goes
  <2> QED
    BY <2>1, GoesOn DEF Places
<1> QED
  BY <1>1, <1>2

\* Claim leaves the caller idle, or gives it the context with generation 0.
LEMMA ClaimMoves ==
  ASSUME TypeOK, NEW e \in Callers, Claim(e)
  PROVE  /\ caller' \in [Callers -> CallerType]
         /\ \/ inFlight[caller[e].uri] # Absent /\ caller'[e].at = "idle"
            \/ /\ inFlight[caller[e].uri] = Absent
               /\ caller'[e].at = "walk" /\ caller'[e].uri = caller[e].uri
         /\ \A f \in Callers : f # e => caller'[f] = caller[f]
<1>1. CASE inFlight[caller[e].uri] # Absent
  <2>1. caller' = [caller EXCEPT ![e] = Resting]
    BY <1>1 DEF Claim
  <2> QED
    BY <1>1, <2>1, RestingIsIdle, CallerMoves
<1>2. CASE inFlight[caller[e].uri] = Absent
  <2> DEFINE r == [caller[e] EXCEPT !.at = "walk", !.gen = 0]
  <2>1. caller[e] \in CallerType
    BY Types
  <2>2. r \in CallerType /\ r.at = "walk" /\ r.uri = caller[e].uri
    BY <2>1 DEF CallerType, Places
  <2>3. caller' = [caller EXCEPT ![e] = r]
    BY <1>2, <2>1 DEF Claim, CallerType
  <2> HIDE DEF r
  <2> QED
    BY <1>2, <2>2, <2>3, CallerMoves
<1> QED
  BY <1>1, <1>2

LEMMA WalkMoves ==
  ASSUME TypeOK, BusyHasContext, NEW e \in Callers, Walk(e)
  PROVE  /\ caller' \in [Callers -> CallerType]
         /\ caller'[e].at = "put" /\ caller'[e].uri = caller[e].uri
         /\ caller'[e].version = backend[caller[e].uri]
         /\ \A f \in Callers : f # e => caller'[f] = caller[f]
<1> DEFINE r == [caller[e] EXCEPT !.at = "put", !.version = backend[caller[e].uri]]
<1>1. caller[e] \in CallerType
  BY Types
<1>2. backend[caller[e].uri] \in Nat
  BY Types DEF Walk, BusyHasContext
<1>3. r \in CallerType /\ r.at = "put" /\ r.uri = caller[e].uri
      /\ r.version = backend[caller[e].uri]
  BY <1>1, <1>2 DEF CallerType, Places
<1>4. caller' = [caller EXCEPT ![e] = r]
  BY <1>1 DEF Walk, CallerType
<1> HIDE DEF r
<1> QED
  BY <1>3, <1>4, CallerMoves

\* A walk that fails, put and sweep move on with the same context and version.
LEMMA StepsOn ==
  ASSUME TypeOK, NEW e \in Callers, WalkFails(e) \/ Put(e) \/ Sweep(e)
  PROVE  /\ caller' \in [Callers -> CallerType]
         /\ caller'[e].at \in {"sweep", "end"} /\ caller'[e].uri = caller[e].uri
         /\ \A f \in Callers : f # e => caller'[f] = caller[f]
BY GoesOn DEF WalkFails, Put, Sweep, Places

LEMMA EndFetchMoves ==
  ASSUME TypeOK, NEW e \in Callers, EndFetch(e)
  PROVE  /\ caller' \in [Callers -> CallerType]
         /\ caller'[e].at = "idle"
         /\ \A f \in Callers : f # e => caller'[f] = caller[f]
BY CallerMoves, RestingIsIdle DEF EndFetch

---------------------------------------------------------------------------
\* What each step of an editor does to the editors.
LEMMA EditMoves ==
  ASSUME TypeOK, NEW w \in Editors, NEW group \in Groups, Edit(w, group)
  PROVE  /\ editor' \in [Editors -> EditorType]
         /\ editor'[w].group = group /\ editor'[w].left = group
         /\ editor'[w].version = Edited(group)
         /\ \A x \in Editors : x # w => editor'[x] = editor[x]
<1> DEFINE r == [at |-> "invalidate", group |-> group, left |-> group,
                 version |-> Edited(group)]
<1>1. group \in SUBSET Contexts /\ Edited(group) \in [Contexts -> Nat]
  BY ContextAssumption, Types DEF Edited
<1>2. r \in EditorType /\ r.group = group /\ r.left = group /\ r.version = Edited(group)
  BY <1>1 DEF EditorType
<1>3. editor' = [editor EXCEPT ![w] = r]
  BY DEF Edit
<1> HIDE DEF r
<1> QED
  BY <1>2, <1>3, EditorMoves

LEMMA InvalidateMoves ==
  ASSUME TypeOK, NEW w \in Editors, NEW u \in Contexts, Invalidate(w, u)
  PROVE  /\ editor' \in [Editors -> EditorType]
         /\ editor'[w].group = editor[w].group
         /\ editor'[w].left = editor[w].left \ {u}
         /\ editor'[w].version = editor[w].version
         /\ \A x \in Editors : x # w => editor'[x] = editor[x]
<1> DEFINE r == [editor[w] EXCEPT !.left = editor[w].left \ {u}]
<1>1. editor[w] \in EditorType
  BY Types
<1>2. r \in EditorType /\ r.group = editor[w].group /\ r.left = editor[w].left \ {u}
      /\ r.version = editor[w].version
  BY <1>1 DEF EditorType
<1>3. editor' = [editor EXCEPT ![w] = r]
  BY <1>1 DEF Invalidate, EditorType
<1> HIDE DEF r
<1> QED
  BY <1>2, <1>3, EditorMoves

LEMMA EditAnsweredMoves ==
  ASSUME TypeOK, NEW w \in Editors, EditAnswered(w)
  PROVE  /\ editor' \in [Editors -> EditorType]
         /\ editor'[w] = Home
         /\ \A x \in Editors : x # w => editor'[x] = editor[x]
BY EditorMoves, HomeIsIdle DEF EditAnswered

\* Every step keeps the types and the contexts of busy callers.
LEMMA TypesKept == TypeOK /\ BusyHasContext /\ [Next]_vars => TypeOK' /\ BusyHasContext'
<1> SUFFICES ASSUME TypeOK, BusyHasContext, [Next]_vars PROVE TypeOK' /\ BusyHasContext'
  OBVIOUS
<1> USE Types DEF BusyHasContext, lists, queue
<1>1. ASSUME NEW e \in Callers, NEW u \in Contexts, Ask(e, u) PROVE TypeOK' /\ BusyHasContext'
  <2>1. caller' \in [Callers -> CallerType] /\ BusyHasContext'
    BY <1>1, AskMoves
  <2>2. /\ sweeps' \in [running : BOOLEAN, pending : Contexts \cup {NoContext}]
        /\ worker' \in {"none", "next", "sweep"}
    BY <1>1, EnqueueTypes DEF Ask
  <2> QED
    BY <1>1, <2>1, <2>2 DEF Ask
<1>2. ASSUME NEW e \in Callers, LookAgain(e) PROVE TypeOK' /\ BusyHasContext'
  <2>1. caller' \in [Callers -> CallerType] /\ BusyHasContext'
    <3>1. caller[e].at # "idle"
      BY <1>2 DEF LookAgain
    <3> QED
      BY <1>2, <3>1, LookAgainMoves
  <2> QED
    BY <1>2, <2>1 DEF LookAgain
<1>3. ASSUME NEW e \in Callers, Claim(e) PROVE TypeOK' /\ BusyHasContext'
  <2>1. caller[e].at # "idle"
    BY <1>3 DEF Claim
  <2>2. caller' \in [Callers -> CallerType] /\ BusyHasContext'
    BY <1>3, <2>1, ClaimMoves
  <2> QED
    BY <1>3, <2>1, <2>2 DEF Claim
<1>4. ASSUME NEW e \in Callers, Walk(e) PROVE TypeOK' /\ BusyHasContext'
  <2>1. caller[e].at # "idle"
    BY <1>4 DEF Walk
  <2>2. caller' \in [Callers -> CallerType] /\ BusyHasContext'
    BY <1>4, <2>1, WalkMoves
  <2> QED
    BY <1>4, <2>2 DEF Walk
<1>5. ASSUME NEW e \in Callers, WalkFails(e) \/ Put(e) \/ Sweep(e)
      PROVE TypeOK' /\ BusyHasContext'
  <2>1. caller[e].at # "idle" /\ caller[e].uri \in Contexts /\ caller[e].version \in Nat
    BY <1>5 DEF WalkFails, Put, Sweep, CallerType
  <2>2. caller' \in [Callers -> CallerType] /\ BusyHasContext'
    BY <1>5, <2>1, StepsOn
  <2>3. CASE WalkFails(e)
    BY <2>2, <2>3 DEF WalkFails, Fails
  <2>4. CASE Put(e)
    BY <2>1, <2>2, <2>4 DEF Put
  <2>5. CASE Sweep(e)
    BY <2>1, <2>2, <2>5, EnqueueTypes DEF Sweep
  <2> QED
    BY <1>5, <2>3, <2>4, <2>5
<1>6. ASSUME NEW e \in Callers, EndFetch(e) PROVE TypeOK' /\ BusyHasContext'
  <2>1. caller' \in [Callers -> CallerType] /\ BusyHasContext'
    BY <1>6, EndFetchMoves
  <2> QED
    BY <1>6, <2>1 DEF EndFetch
<1>7. ASSUME NEW w \in Editors, NEW group \in Groups, Edit(w, group)
      PROVE TypeOK' /\ BusyHasContext'
  <2>1. backend' \in [Contexts -> Nat]
    BY <1>7 DEF Edit, Edited
  <2>2. editor' \in [Editors -> EditorType]
    BY <1>7, EditMoves
  <2>3. done' \in [edits : Nat, failures : Nat, drops : Nat]
    BY <1>7 DEF Edit
  <2>4. UNCHANGED <<list, inFlight, caller, sweeps, worker, settled>>
    BY <1>7 DEF Edit
  <2> QED
    BY <2>1, <2>2, <2>3, <2>4
<1>8. ASSUME NEW w \in Editors, NEW group \in Groups, EditFails(w, group)
      PROVE TypeOK' /\ BusyHasContext'
  BY <1>8 DEF EditFails, Fails, Edited
<1>9. ASSUME NEW w \in Editors, NEW u \in Contexts, Invalidate(w, u)
      PROVE TypeOK' /\ BusyHasContext'
  <2>1. inFlight' \in [Contexts -> Nat \cup {Absent}] /\ list' \in [Contexts -> Nat \cup {Absent}]
    BY <1>9 DEF Invalidate
  <2> QED
    BY <1>9, <2>1, InvalidateMoves DEF Invalidate
<1>10. ASSUME NEW w \in Editors, EditAnswered(w) PROVE TypeOK' /\ BusyHasContext'
  <2>1. settled' \in [Contexts -> Nat]
    BY <1>10 DEF EditAnswered, EditorType
  <2> QED
    BY <1>10, <2>1, EditAnsweredMoves DEF EditAnswered
<1>11. ASSUME NEW u \in Contexts, Drop(u) PROVE TypeOK' /\ BusyHasContext'
  BY <1>11 DEF Drop
<1>12. CASE NextSweep \/ SweepEnds
  <2>1. (sweeps.pending # NoContext) \in BOOLEAN
    OBVIOUS
  <2>2. CASE NextSweep
    <3>1. sweeps' \in [running : BOOLEAN, pending : Contexts \cup {NoContext}]
      BY <2>1, <2>2, Zenon DEF NextSweep
    <3> QED
      BY <2>2, <3>1 DEF NextSweep
  <2>3. CASE SweepEnds
    BY <2>3 DEF SweepEnds
  <2> QED
    BY <1>12, <2>2, <2>3
<1>13. CASE UNCHANGED vars
  BY <1>13 DEF vars
<1> QED
  BY <1>1, <1>2, <1>3, <1>4, <1>5, <1>6, <1>7, <1>8, <1>9, <1>10, <1>11, <1>12, <1>13
     DEF Next, Enumerate

---------------------------------------------------------------------------
\* The queue of sweeps and its worker agree, since only enqueue, next and the end of a
\* sweep touch them.
LEMMA SweepHasWorkerKept == TypeOK /\ BusyHasContext /\ SweepHasWorker /\ [Next]_vars => SweepHasWorker'
<1> SUFFICES ASSUME TypeOK, BusyHasContext, SweepHasWorker, [Next]_vars PROVE SweepHasWorker'
  OBVIOUS
<1> USE DEF SweepHasWorker, queue, lists
<1>1. ASSUME NEW u \in Contexts, Enqueue(u) PROVE SweepHasWorker'
  BY <1>1 DEF Enqueue
<1>2. CASE UNCHANGED queue
  BY <1>2
<1>3. CASE NextSweep
  BY <1>3, Zenon DEF NextSweep
<1>4. CASE SweepEnds
  BY <1>4 DEF SweepEnds
<1>5. ASSUME NEW e \in Callers, NEW u \in Contexts, Ask(e, u) PROVE SweepHasWorker'
  BY <1>1, <1>2, <1>5 DEF Ask
<1>6. ASSUME NEW e \in Callers, Sweep(e) PROVE SweepHasWorker'
  BY <1>1, <1>6 DEF Sweep, BusyHasContext
<1>7. ASSUME NEW e \in Callers,
             LookAgain(e) \/ Claim(e) \/ Walk(e) \/ WalkFails(e) \/ Put(e) \/ EndFetch(e)
      PROVE  SweepHasWorker'
  BY <1>2, <1>7 DEF LookAgain, Claim, Walk, WalkFails, Put, EndFetch
<1>8. ASSUME NEW w \in Editors, NEW group \in Groups, Edit(w, group) \/ EditFails(w, group)
      PROVE  SweepHasWorker'
  BY <1>2, <1>8 DEF Edit, EditFails
<1>9. ASSUME NEW w \in Editors, NEW u \in Contexts, Invalidate(w, u) PROVE SweepHasWorker'
  BY <1>2, <1>9 DEF Invalidate
<1>10. ASSUME NEW w \in Editors, EditAnswered(w) PROVE SweepHasWorker'
  BY <1>2, <1>10 DEF EditAnswered
<1>11. ASSUME NEW u \in Contexts, Drop(u) PROVE SweepHasWorker'
  BY <1>2, <1>11 DEF Drop
<1>12. CASE UNCHANGED vars
  BY <1>2, <1>12 DEF vars
<1> QED
  BY <1>3, <1>4, <1>5, <1>6, <1>7, <1>8, <1>9, <1>10, <1>11, <1>12 DEF Next, Enumerate

---------------------------------------------------------------------------
\* A step that moves no caller into or out of an enumeration, and makes no context start
\* or stop being in flight, keeps OneEnumeration.
LEMMA SameEnumerations ==
  ASSUME OneEnumeration,
         \A u \in Contexts : (inFlight'[u] # Absent) <=> (inFlight[u] # Absent),
         \A f \in Callers : \A u \in Contexts : Enumerating(f, u)' <=> Enumerating(f, u)
  PROVE  OneEnumeration'
BY DEF OneEnumeration

LEMMA OneEnumerationKept ==
  TypeOK /\ BusyHasContext /\ OneEnumeration /\ [Next]_vars => OneEnumeration'
<1> SUFFICES ASSUME TypeOK, BusyHasContext, OneEnumeration, [Next]_vars PROVE OneEnumeration'
  OBVIOUS
<1> USE DEF lists, queue
<1>1. ASSUME UNCHANGED <<inFlight, caller>> PROVE OneEnumeration'
  BY <1>1 DEF OneEnumeration, Enumerating
<1>2. ASSUME NEW e \in Callers, NEW u \in Contexts, Ask(e, u) PROVE OneEnumeration'
  <2>1. inFlight' = inFlight /\ caller[e].at = "idle"
    BY <1>2 DEF Ask
  <2> QED
    BY <1>1, <1>2, <2>1, AskMoves, SameEnumerations DEF Enumerating
<1>3. ASSUME NEW e \in Callers, LookAgain(e) PROVE OneEnumeration'
  <2>1. inFlight' = inFlight /\ caller[e].at = "begin"
    BY <1>3 DEF LookAgain
  <2> QED
    BY <1>3, <2>1, LookAgainMoves, SameEnumerations DEF Enumerating
<1>4. ASSUME NEW e \in Callers, Claim(e) PROVE OneEnumeration'
  <2> DEFINE u == caller[e].uri
  <2>1. u \in Contexts /\ caller[e].at = "claim"
    BY <1>4 DEF Claim, BusyHasContext
  <2>2. CASE inFlight[u] # Absent
    <3>1. inFlight' = inFlight /\ caller'[e].at = "idle"
      BY <1>4, <2>2, ClaimMoves DEF Claim
    <3> QED
      BY <1>4, <2>1, <3>1, ClaimMoves, SameEnumerations DEF Enumerating
  <2>3. CASE inFlight[u] = Absent
    <3>1. caller'[e].at = "walk" /\ caller'[e].uri = u
          /\ \A f \in Callers : f # e => caller'[f] = caller[f]
      BY <1>4, <2>3, ClaimMoves
    <3>2. /\ inFlight'[u] = 0
          /\ \A x \in Contexts : x # u => inFlight'[x] = inFlight[x]
      BY <1>4, <2>1, <2>3, Types DEF Claim
    <3>3. \A f \in Callers : ~ Enumerating(f, u)
      BY <2>1, <2>3 DEF OneEnumeration
    <3>4. \A f \in Callers : \A x \in Contexts :
            Enumerating(f, x)' <=> Enumerating(f, x) \/ (f = e /\ x = u)
      BY <2>1, <3>1 DEF Enumerating
    <3> HIDE DEF u
    <3> QED
      BY <2>1, <3>2, <3>3, <3>4, AbsentIsNoVersion DEF OneEnumeration
  <2> QED
    BY <2>2, <2>3
<1>5. ASSUME NEW e \in Callers, Walk(e) PROVE OneEnumeration'
  <2>1. inFlight' = inFlight /\ caller[e].at = "walk"
    BY <1>5 DEF Walk
  <2> QED
    BY <1>5, <2>1, WalkMoves, SameEnumerations DEF Enumerating
<1>6. ASSUME NEW e \in Callers, WalkFails(e) \/ Put(e) \/ Sweep(e) PROVE OneEnumeration'
  <2>1. inFlight' = inFlight /\ caller[e].at \in {"walk", "put", "sweep"}
    BY <1>6 DEF WalkFails, Put, Sweep
  <2>2. /\ caller'[e].at \in {"sweep", "end"} /\ caller'[e].uri = caller[e].uri
        /\ \A f \in Callers : f # e => caller'[f] = caller[f]
    BY <1>6, StepsOn
  <2> QED
    BY <2>1, <2>2, SameEnumerations DEF Enumerating
<1>7. ASSUME NEW e \in Callers, EndFetch(e) PROVE OneEnumeration'
  <2> DEFINE u == caller[e].uri
  <2>1. u \in Contexts /\ Enumerating(e, u)
    BY <1>7 DEF EndFetch, BusyHasContext, Enumerating
  <2>2. /\ inFlight'[u] = Absent
        /\ \A x \in Contexts : x # u => inFlight'[x] = inFlight[x]
    BY <1>7, <2>1, Types DEF EndFetch
  <2>3. \A f \in Callers : \A x \in Contexts :
          Enumerating(f, x)' <=> Enumerating(f, x) /\ f # e
    BY <1>7, EndFetchMoves DEF Enumerating
  <2>4. \A f \in Callers, x \in Contexts : Enumerating(f, x) /\ x # u => f # e
    BY DEF Enumerating
  <2> HIDE DEF u
  <2> QED
    BY <2>1, <2>2, <2>3, <2>4 DEF OneEnumeration
<1>8. ASSUME NEW w \in Editors, NEW u \in Contexts, Invalidate(w, u) PROVE OneEnumeration'
  <2>1. \A x \in Contexts : (inFlight'[x] # Absent) <=> (inFlight[x] # Absent)
    BY <1>8, Types DEF Invalidate, Absent
  <2> QED
    BY <1>8, <2>1, SameEnumerations DEF Invalidate, Enumerating
<1>9. ASSUME NEW w \in Editors, NEW group \in Groups, Edit(w, group) \/ EditFails(w, group)
      PROVE  OneEnumeration'
  BY <1>1, <1>9 DEF Edit, EditFails
<1>10. ASSUME NEW w \in Editors, EditAnswered(w) PROVE OneEnumeration'
  BY <1>1, <1>10 DEF EditAnswered
<1>11. ASSUME NEW u \in Contexts, Drop(u) PROVE OneEnumeration'
  BY <1>1, <1>11 DEF Drop
<1>12. CASE NextSweep \/ SweepEnds \/ UNCHANGED vars
  BY <1>1, <1>12 DEF NextSweep, SweepEnds, vars
<1> QED
  BY <1>2, <1>3, <1>4, <1>5, <1>6, <1>7, <1>8, <1>9, <1>10, <1>11, <1>12 DEF Next, Enumerate

---------------------------------------------------------------------------
\* An edit is never ahead of the backend, whose versions only grow.
LEMMA EditsAreRealKept == TypeOK /\ EditsAreReal /\ [Next]_vars => EditsAreReal'
<1> SUFFICES ASSUME TypeOK, EditsAreReal, [Next]_vars PROVE EditsAreReal'
  OBVIOUS
<1> USE DEF lists, queue
<1>1. ASSUME UNCHANGED <<backend, settled, editor>> PROVE EditsAreReal'
  BY <1>1 DEF EditsAreReal
<1>2. ASSUME NEW w \in Editors, NEW group \in Groups, Edit(w, group) PROVE EditsAreReal'
  <2>1. \A u \in Contexts : backend'[u] = Edited(group)[u] /\ backend'[u] >= backend[u]
    BY <1>2, Types DEF Edit, Edited
  <2>2. settled' = settled
    BY <1>2 DEF Edit
  <2>3. /\ editor'[w].version = Edited(group)
        /\ \A x \in Editors : x # w => editor'[x] = editor[x]
    BY <1>2, EditMoves
  <2>4. \A u \in Contexts : /\ backend[u] \in Nat /\ backend'[u] \in Nat /\ settled[u] \in Nat
                            /\ \A x \in Editors : editor[x].version[u] \in Nat
    BY <1>2, Types DEF Edit, Edited, EditorType
  <2> QED
    BY <2>1, <2>2, <2>3, <2>4 DEF EditsAreReal
<1>3. ASSUME NEW w \in Editors, NEW group \in Groups, EditFails(w, group) PROVE EditsAreReal'
  <2>1. \A u \in Contexts : backend'[u] >= backend[u] /\ backend'[u] \in Nat
    BY <1>3, Types DEF EditFails, Edited
  <2>2. \A u \in Contexts : /\ backend[u] \in Nat /\ settled[u] \in Nat
                            /\ \A x \in Editors : editor[x].version[u] \in Nat
    BY Types DEF EditorType
  <2>3. UNCHANGED <<settled, editor>>
    BY <1>3 DEF EditFails
  <2> QED
    BY <2>1, <2>2, <2>3 DEF EditsAreReal
<1>4. ASSUME NEW w \in Editors, NEW u \in Contexts, Invalidate(w, u) PROVE EditsAreReal'
  <2>1. \A x \in Editors : editor'[x].version = editor[x].version
    BY <1>4, InvalidateMoves
  <2> QED
    BY <1>4, <2>1 DEF EditsAreReal, Invalidate
<1>5. ASSUME NEW w \in Editors, EditAnswered(w) PROVE EditsAreReal'
  <2>1. \A u \in Contexts : settled'[u] \in {settled[u], editor[w].version[u]}
    BY <1>5 DEF EditAnswered
  <2>2. \A u \in Contexts : editor'[w].version[u] = 0 /\ 0 <= backend[u]
    BY <1>5, EditAnsweredMoves, HomeIsIdle, Types
  <2> QED
    BY <1>5, <2>1, <2>2, EditAnsweredMoves DEF EditsAreReal, EditAnswered
<1>6. ASSUME NEW e \in Callers,
             Enumerate(e) \/ WalkFails(e) \/ \E u \in Contexts : Ask(e, u)
      PROVE  EditsAreReal'
  BY <1>1, <1>6 DEF Enumerate, LookAgain, Claim, Walk, Put, Sweep, EndFetch, WalkFails, Ask
<1>7. ASSUME NEW u \in Contexts, Drop(u) PROVE EditsAreReal'
  BY <1>1, <1>7 DEF Drop
<1>8. CASE NextSweep \/ SweepEnds \/ UNCHANGED vars
  BY <1>1, <1>8 DEF NextSweep, SweepEnds, vars
<1> QED
  BY <1>2, <1>3, <1>4, <1>5, <1>6, <1>7, <1>8 DEF Next

\* What the backend holds now is current.
LEMMA BackendIsCurrent ==
  ASSUME TypeOK, EditsAreReal, NEW u \in Contexts
  PROVE  Current(backend[u], u)
BY Types DEF EditsAreReal, Current, EditorType

---------------------------------------------------------------------------
\* What was current stays current, at a context that is not invalidated.
LEMMA CurrentKept ==
  ASSUME TypeOK, [Next]_vars, NEW v \in Nat, NEW u \in Contexts, Current(v, u),
         \A w \in Editors : ~ Invalidate(w, u)
  PROVE  /\ v >= settled'[u]
         /\ \A w \in Editors :
              u \in editor'[w].group \ editor'[w].left => v >= editor'[w].version[u]
<1> DEFINE Goal == /\ v >= settled'[u]
                   /\ \A w \in Editors :
                        u \in editor'[w].group \ editor'[w].left => v >= editor'[w].version[u]
<1> USE DEF lists, queue
<1>1. ASSUME UNCHANGED <<settled, editor>> PROVE Goal
  BY <1>1 DEF Current
<1>2. ASSUME NEW w \in Editors, NEW group \in Groups, Edit(w, group) PROVE Goal
  BY <1>2, EditMoves DEF Current, Edit
<1>3. ASSUME NEW w \in Editors, NEW group \in Groups, EditFails(w, group) PROVE Goal
  BY <1>1, <1>3 DEF EditFails
<1>4. ASSUME NEW w \in Editors, NEW x \in Contexts, Invalidate(w, x) PROVE Goal
  <2>1. x # u /\ settled' = settled
    BY <1>4 DEF Invalidate
  <2> QED
    BY <1>4, <2>1, InvalidateMoves DEF Current
<1>5. ASSUME NEW w \in Editors, EditAnswered(w) PROVE Goal
  <2>1. editor[w].left = {}
    BY <1>5 DEF EditAnswered
  <2>2. v >= settled'[u]
    BY <1>5, <2>1 DEF EditAnswered, Current
  <2>3. editor'[w].group = {}
    BY <1>5, EditAnsweredMoves, HomeIsIdle
  <2> QED
    BY <1>5, <2>2, <2>3, EditAnsweredMoves DEF Current
<1>6. ASSUME NEW e \in Callers,
             Enumerate(e) \/ WalkFails(e) \/ \E x \in Contexts : Ask(e, x)
      PROVE  Goal
  BY <1>1, <1>6 DEF Enumerate, LookAgain, Claim, Walk, Put, Sweep, EndFetch, WalkFails, Ask
<1>7. ASSUME NEW x \in Contexts, Drop(x) PROVE Goal
  BY <1>1, <1>7 DEF Drop
<1>8. ASSUME NextSweep \/ SweepEnds \/ UNCHANGED vars PROVE Goal
  BY <1>1, <1>8 DEF NextSweep, SweepEnds, vars
<1> HIDE DEF Goal
<1>9. Goal
  BY <1>2, <1>3, <1>4, <1>5, <1>6, <1>7, <1>8 DEF Next
<1> QED
  BY <1>9 DEF Goal

\* The listings, and those under way, are current: an edit that invalidates a context
\* removes its listing, and moves the generation of an enumeration under way.
LEMMA ListingsKept == IInv /\ [Next]_vars => ListingsAreCurrent'
<1> SUFFICES ASSUME IInv, [Next]_vars PROVE ListingsAreCurrent'
  OBVIOUS
<1> USE DEF lists, queue
<1>0. /\ TypeOK /\ BusyHasContext /\ OneEnumeration /\ EditsAreReal /\ ListingsAreCurrent
      /\ TypeOK' /\ BusyHasContext'
  BY TypesKept DEF IInv
\* What was current still is.
<1>1. \A v \in Nat : \A u \in Contexts :
        Current(v, u) /\ (\A w \in Editors : ~ Invalidate(w, u))
          => /\ v >= settled'[u]
             /\ \A w \in Editors :
                  u \in editor'[w].group \ editor'[w].left => v >= editor'[w].version[u]
  BY <1>0, CurrentKept
\* An invalidation leaves neither a listing nor generation 0.
<1>2. \A w \in Editors : \A u \in Contexts :
        Invalidate(w, u) => list'[u] = Absent /\ inFlight'[u] # 0 /\ caller' = caller
  BY <1>0, Types DEF Invalidate, Absent
<1>3. ASSUME NEW u \in Contexts, list'[u] # Absent
      PROVE  /\ list'[u] >= settled'[u]
             /\ \A w \in Editors :
                  u \in editor'[w].group \ editor'[w].left => list'[u] >= editor'[w].version[u]
  <2>1. \A w \in Editors : ~ Invalidate(w, u)
    BY <1>2, <1>3
  <2>2. list'[u] \in Nat
    BY <1>0, <1>3, Types
  <2>3. CASE list'[u] = list[u]
    BY <1>0, <1>1, <1>3, <2>1, <2>2, <2>3 DEF ListingsAreCurrent
  <2>4. CASE list'[u] # list[u]
    <3>1. PICK e \in Callers : Put(e) /\ caller[e].uri = u
      <4>1. ASSUME NEW e \in Callers, Put(e) PROVE caller[e].uri = u
        BY <1>0, <2>4, <4>1, Types DEF Put
      <4>2. ASSUME NEW x \in Contexts, Drop(x) PROVE FALSE
        BY <1>0, <1>3, <2>4, <4>2, Types DEF Drop
      <4>3. ASSUME NEW w \in Editors, NEW x \in Contexts, Invalidate(w, x) PROVE FALSE
        BY <1>0, <1>3, <2>4, <4>3, Types DEF Invalidate
      <4>4. list' # list
        BY <2>4
      <4> QED
        BY <4>1, <4>2, <4>3, <4>4
           DEF Next, Enumerate, LookAgain, Claim, Walk, Sweep, EndFetch, WalkFails, Ask, Edit,
               EditFails, EditAnswered, NextSweep, SweepEnds, vars
    <3>2. caller[e].at = "put" /\ caller[e].gen = 0 /\ caller[e].version \in Nat
      BY <1>0, <3>1, Types DEF Put, CallerType
    <3>3. inFlight[u] # Absent
      BY <1>0, <3>1, <3>2 DEF OneEnumeration, Enumerating
    <3>4. inFlight[u] = 0 /\ list'[u] = caller[e].version
      BY <1>0, <2>4, <3>1, <3>2, <3>3, Types DEF Put
    <3>5. Current(caller[e].version, u)
      BY <1>0, <3>1, <3>2, <3>4 DEF ListingsAreCurrent
    <3> QED
      BY <1>1, <2>1, <3>2, <3>4, <3>5
  <2> QED
    BY <2>3, <2>4
<1>4. ASSUME NEW e \in Callers, caller'[e].at = "put", inFlight'[caller'[e].uri] = 0
      PROVE  /\ caller'[e].version >= settled'[caller'[e].uri]
             /\ \A w \in Editors :
                  caller'[e].uri \in editor'[w].group \ editor'[w].left
                    => caller'[e].version >= editor'[w].version[caller'[e].uri]
  <2> DEFINE u == caller'[e].uri
  <2>1. u \in Contexts /\ caller'[e].version \in Nat
    BY <1>0, <1>4, Types DEF BusyHasContext, CallerType
  <2>2. \A w \in Editors : ~ Invalidate(w, u)
    BY <1>2, <1>4, <2>1
  <2>3. CASE caller[e].at = "put" /\ caller'[e] = caller[e]
    <3>1. inFlight[u] = 0
      <4>1. Enumerating(e, u)
        BY <2>3 DEF Enumerating
      <4>2. inFlight[u] # Absent
        BY <1>0, <2>1, <4>1 DEF OneEnumeration
      <4>3. ASSUME NEW f \in Callers, Claim(f) PROVE inFlight'[u] = inFlight[u]
        BY <1>0, <2>1, <4>2, <4>3, Types DEF Claim
      <4>4. ASSUME NEW f \in Callers, EndFetch(f) PROVE inFlight'[u] = inFlight[u]
        BY <1>0, <1>4, <2>1, <4>4, AbsentIsNoVersion, Types DEF EndFetch
      <4>5. ASSUME NEW w \in Editors, NEW x \in Contexts, Invalidate(w, x)
            PROVE  inFlight'[u] = inFlight[u]
        BY <1>0, <2>1, <2>2, <4>5, Types DEF Invalidate
      <4>6. CASE inFlight' = inFlight
        BY <1>4, <4>6
      <4> HIDE DEF u
      <4>7. inFlight'[u] = inFlight[u]
        BY <4>3, <4>4, <4>5, <4>6
           DEF Next, Enumerate, LookAgain, Walk, Put, Sweep, WalkFails, Ask, Edit, EditFails,
               EditAnswered, Drop, NextSweep, SweepEnds, vars
      <4> QED
        BY <1>4, <4>7 DEF u
    <3>2. Current(caller'[e].version, u)
      BY <1>0, <2>3, <3>1 DEF ListingsAreCurrent
    <3> QED
      BY <1>1, <2>1, <2>2, <3>2
  <2>4. CASE ~ (caller[e].at = "put" /\ caller'[e] = caller[e])
    <3>1. Walk(e)
      <4>1. ASSUME NEW f \in Callers, f # e, Walk(f) PROVE caller'[e] = caller[e]
        BY <1>0, <4>1, WalkMoves
      <4>2. ASSUME NEW f \in Callers, WalkFails(f) \/ Put(f) \/ Sweep(f)
            PROVE  f # e /\ caller'[e] = caller[e]
        BY <1>0, <1>4, <4>2, StepsOn
      <4>3. ASSUME NEW f \in Callers, EndFetch(f) PROVE f # e /\ caller'[e] = caller[e]
        BY <1>0, <1>4, <4>3, EndFetchMoves
      <4>4. ASSUME NEW f \in Callers, Claim(f) PROVE f # e /\ caller'[e] = caller[e]
        BY <1>0, <1>4, <4>4, ClaimMoves
      <4>5. ASSUME NEW f \in Callers, LookAgain(f) PROVE f # e /\ caller'[e] = caller[e]
        BY <1>0, <1>4, <4>5, LookAgainMoves
      <4>6. ASSUME NEW f \in Callers, NEW x \in Contexts, Ask(f, x) PROVE caller'[e] = caller[e]
        BY <1>0, <1>4, <4>6, AskMoves
      <4>7. caller'[e] # caller[e]
        BY <1>4, <2>4
      <4> QED
        BY <4>1, <4>2, <4>3, <4>4, <4>5, <4>6, <4>7
           DEF Next, Enumerate, Edit, EditFails, Invalidate, EditAnswered, Drop, NextSweep,
               SweepEnds, vars
    <3>2. caller'[e].version = backend[u] /\ caller'[e].uri = caller[e].uri
      BY <1>0, <3>1, WalkMoves
    <3>3. Current(backend[u], u)
      BY <1>0, <2>1, BackendIsCurrent
    <3> QED
      BY <1>1, <2>1, <2>2, <3>2, <3>3
  <2> QED
    BY <2>3, <2>4
<1> QED
  BY <1>3, <1>4 DEF ListingsAreCurrent, Current

---------------------------------------------------------------------------
LEMMA InvariantInitially == Init => IInv
<1> SUFFICES ASSUME Init PROVE IInv
  OBVIOUS
<1>1. TypeOK
  BY RestingIsIdle, HomeIsIdle, Types DEF Init
<1>2. BusyHasContext /\ OneEnumeration
  BY RestingIsIdle DEF Init, BusyHasContext, OneEnumeration, Enumerating
<1>3. SweepHasWorker
  BY DEF Init, SweepHasWorker
<1>4. EditsAreReal
  <2>1. \A u \in Contexts : settled[u] = 0 /\ backend[u] = 0
    BY DEF Init
  <2>2. \A w \in Editors : \A u \in Contexts : editor[w].version[u] = 0
    <3>1. \A w \in Editors : editor[w].version = [u \in Contexts |-> 0]
      BY HomeIsIdle DEF Init
    <3> QED
      BY <3>1
  <2>3. 0 <= 0
    OBVIOUS
  <2> QED
    BY <2>1, <2>2, <2>3, Zenon DEF EditsAreReal
<1>5. ListingsAreCurrent
  BY RestingIsIdle DEF Init, ListingsAreCurrent
<1> QED
  BY <1>1, <1>2, <1>3, <1>4, <1>5 DEF IInv

LEMMA InvariantKept == IInv /\ [Next]_vars => IInv'
BY TypesKept, OneEnumerationKept, SweepHasWorkerKept, EditsAreRealKept, ListingsKept DEF IInv

\* In every state, one goroutine enumerates a context at a time, exactly while the
\* context is in flight (beginFetch and endFetch), and no sweep waits without a worker
\* (enqueue and next of metaSweepQueue).
THEOREM ListsAreConsistent == Spec => []Consistent
<1>1. Spec => []IInv
  BY InvariantInitially, InvariantKept, PTL DEF Spec
<1>2. IInv => Consistent
  BY DEF IInv, Consistent
<1> QED
  BY <1>1, <1>2, PTL

\* No listing that put leaves in the cache is older than an edit that was answered
\* before it is read: the generation that invalidate moves keeps out the listing of an
\* enumeration that was under way.
THEOREM ListingsAreFresh == Spec => []NoStaleListing
<1>1. Spec => []IInv
  BY InvariantInitially, InvariantKept, PTL DEF Spec
<1>2. IInv => NoStaleListing
  BY DEF IInv, ListingsAreCurrent, Current, NoStaleListing
<1> QED
  BY <1>1, <1>2, PTL
=============================================================================
