-------------------------- MODULE StatePushProofs --------------------------
(***************************************************************************)
(* Proofs about StatePush, for any size of the queue, any reasons and any  *)
(* number of changes and failures: no change of the state is forgotten,    *)
(* whatever timers, results and new changes interleave, a state still to   *)
(* be pushed has its timer running, and the queue keeps the order and the  *)
(* transitions it has room for.                                            *)
(*                                                                         *)
(* And about StateSaves, for any goroutines that change and save the       *)
(* state: no request of theirs is lost.                                    *)
(***************************************************************************)
EXTENDS StatePush, WellFoundedInduction, SequenceTheorems, TLAPS

Pushes == [seq : Nat \ {0}, reason : Transitions \cup {PlayerState}, version : Nat]
Results == [seq : Nat, ok : BOOLEAN]
Timers == {"off", "armed", "fired"}
Loops == [up : BOOLEAN, dirty : BOOLEAN, scheduled : BOOLEAN, timer : Timers,
          recent : BOOLEAN, seq : Nat, registered : BOOLEAN]
Taken == pc \in {"put", "send"}

\* What the loop schedules: types, and DirtyIsScheduled.
Schedule ==
  /\ version \in 0 .. MaxChanges
  /\ loop \in Loops
  /\ DirtyIsScheduled

\* Where the lane and Close are.
Life ==
  /\ pc \in {"next", "wait", "put", "send", "exit"}
  /\ IF Taken THEN push \in Pushes ELSE push = NoPush
  /\ pc = "send" => outcome \in {"ok", "failed"}
  /\ closing \in {"no", "stopping", "marked", "quit", "timeout", "done"}
  /\ closed <=> closing \notin {"no", "stopping"}

\* What is on its way: types and bounds.
Flow ==
  /\ queue \in Seq(Pushes) /\ Len(queue) <= QueueSize
  /\ results \in Seq(Results) /\ Len(results) <= QueueSize
  /\ backend \in [version : Nat, seq : Nat]

\* The backend, the push the lane has taken, the queue and the loop's counter come in this order.
Order ==
  /\ \A i, j \in 1 .. Len(queue) : i < j => queue[i].seq < queue[j].seq
  /\ \A i \in 1 .. Len(queue) :
       backend.seq < queue[i].seq /\ push.seq < queue[i].seq /\ queue[i].seq <= loop.seq
  /\ backend.seq <= loop.seq /\ push.seq <= loop.seq
  /\ pc = "put" => backend.seq < push.seq
  /\ pc = "send" /\ outcome = "ok" => backend.seq = push.seq

\* The newest push carries the state as it is, unless that is noted as dirty.
Newest ==
  ~loop.dirty =>
    /\ \A i \in 1 .. Len(queue) : queue[i].seq = loop.seq => queue[i].version = version
    /\ pc = "put" /\ push.seq = loop.seq => push.version = version
    /\ pc = "send" /\ outcome = "ok" /\ push.seq = loop.seq => backend.version = version

\* NothingForgotten, with the backend's version attributed to the newest push.
Pending ==
  ~closed =>
    \/ loop.dirty
    \/ \E i \in 1 .. Len(queue) : queue[i].seq = loop.seq
    \/ Taken /\ push.seq = loop.seq
    \/ \E i \in 1 .. Len(results) : results[i].seq = loop.seq /\ ~results[i].ok
    \/ \E s \in skipped : s.seq = loop.seq
    \/ backend.version = version /\ backend.seq = loop.seq

IInv == Schedule /\ Life /\ Flow /\ Order /\ Newest /\ Pending /\ TransitionsKept

---------------------------------------------------------------------------
(***************************************************************************)
(* The queue                                                               *)
(***************************************************************************)

\* submit puts the push last, in place of the last one where both coalesce.
LEMMA AddedFacts ==
  ASSUME NEW q \in Seq(Pushes), NEW p \in Pushes
  PROVE  /\ Added(q, p) \in Seq(Pushes)
         /\ Len(Added(q, p)) \in 1 .. Len(q) + 1
         /\ Len(Added(q, p)) >= Len(q)
         /\ Added(q, p)[Len(Added(q, p))] = p
         /\ \A i \in 1 .. Len(Added(q, p)) - 1 : i <= Len(q) /\ Added(q, p)[i] = q[i]
         /\ Len(Added(q, p)) = Len(q) => Coalesces(q[Len(q)])
<1>1. CASE q # <<>> /\ Coalesces(q[Len(q)]) /\ Coalesces(p)
  <2>1. Added(q, p) = [q EXCEPT ![Len(q)] = p]
    BY <1>1 DEF Added
  <2>2. Len(q) \in Nat /\ Len(q) >= 1
    BY <1>1
  <2>3. Added(q, p) \in Seq(Pushes) /\ Len(Added(q, p)) = Len(q)
    BY <2>1, <2>2
  <2>4. Added(q, p)[Len(q)] = p /\ \A i \in 1 .. Len(q) - 1 : Added(q, p)[i] = q[i]
    BY <2>1, <2>2
  <2>5. QED BY <1>1, <2>2, <2>3, <2>4
<1>2. CASE ~(q # <<>> /\ Coalesces(q[Len(q)]) /\ Coalesces(p))
  <2>1. Added(q, p) = Append(q, p)
    BY <1>2 DEF Added
  <2>2. QED BY <2>1
<1>3. QED BY <1>1, <1>2

\* Every set of natural numbers that is not empty has a least element.
LEMMA LeastNatural ==
  ASSUME NEW T, T \subseteq Nat, T # {}
  PROVE  \E x \in T : \A y \in T : x <= y
<1> DEFINE R == OpToRel(<, Nat)
<1>1. IsWellFoundedOn(R, Nat)
  BY NatLessThanWellFounded, Zenon
<1>2. \A x, y \in Nat : y < x => <<y, x>> \in R
  BY DEF OpToRel
<1> HIDE DEF R
<1>3. PICK x \in T : \A y \in T : ~ (<<y, x>> \in R)
  BY <1>1, WFMin, Zenon
<1>4. \A y \in T : ~(y < x)
  BY <1>2, <1>3, Zenon
<1>5. \A y \in T : x <= y
  BY <1>4
<1>6. QED BY <1>5

\* Overflow drops a push that coalesces as long as there is one.
LEMMA VictimFacts ==
  ASSUME NEW q \in Seq(Pushes), q # <<>>
  PROVE  /\ Victim(q) \in 1 .. Len(q)
         /\ ~Coalesces(q[Victim(q)]) => \A i \in 1 .. Len(q) : ~Coalesces(q[i])
<1> DEFINE states == {i \in DOMAIN q : Coalesces(q[i])}
<1>1. DOMAIN q = 1 .. Len(q) /\ Len(q) \in Nat /\ Len(q) >= 1
  OBVIOUS
<1>2. CASE states = {}
  <2>1. Victim(q) = 1
    BY <1>2 DEF Victim
  <2>2. QED BY <1>1, <1>2, <2>1
<1>3. CASE states # {}
  <2>1. states \subseteq Nat
    BY <1>1
  <2>2. \E i \in states : \A j \in states : i <= j
    BY <1>3, <2>1, LeastNatural, Zenon
  <2>3. Victim(q) \in states
    BY <1>3, <2>2 DEF Victim
  <2>4. QED BY <1>1, <2>3
<1>4. QED BY <1>2, <1>3

Without(q, v) == SubSeq(q, 1, v - 1) \o SubSeq(q, v + 1, Len(q))

\* What dropping the element at v does to a sequence.
LEMMA Dropped ==
  ASSUME NEW S, NEW q \in Seq(S), NEW v \in 1 .. Len(q)
  PROVE  /\ Without(q, v) \in Seq(S) /\ Len(Without(q, v)) = Len(q) - 1
         /\ \A i \in 1 .. Len(q) - 1 : Without(q, v)[i] = q[IF i < v THEN i ELSE i + 1]
<1> DEFINE a == SubSeq(q, 1, v - 1)
           b == SubSeq(q, v + 1, Len(q))
<1>0. Len(q) \in Nat /\ v \in Nat /\ 1 <= v /\ v <= Len(q)
  OBVIOUS
<1>1. a \in Seq(S) /\ Len(a) = v - 1 /\ \A i \in 1 .. v - 1 : a[i] = q[i]
  BY <1>0
<1>2. b \in Seq(S) /\ Len(b) = Len(q) - v /\ \A i \in 1 .. Len(q) - v : b[i] = q[v + i]
  <2>1. \A i \in v + 1 .. Len(q) : q[i] \in S
    BY <1>0
  <2>2. b \in Seq(S) /\ Len(b) = (IF v + 1 <= Len(q) THEN Len(q) - (v + 1) + 1 ELSE 0)
        /\ \A i \in 1 .. Len(q) - (v + 1) + 1 : b[i] = q[v + 1 + i - 1]
    BY <1>0, <2>1, SubSeqProperties
  <2>3. QED BY <1>0, <2>2
<1> HIDE DEF a, b
<1>3. a \o b \in Seq(S) /\ Len(a \o b) = Len(q) - 1
  <2>1. a \o b \in Seq(S) /\ Len(a \o b) = Len(a) + Len(b)
    BY <1>1, <1>2, ConcatProperties, Zenon
  <2>2. QED BY <1>0, <1>1, <1>2, <2>1
<1>4. \A i \in 1 .. Len(q) - 1 : (a \o b)[i] = q[IF i < v THEN i ELSE i + 1]
  <2> SUFFICES ASSUME NEW i \in 1 .. Len(q) - 1
               PROVE  (a \o b)[i] = q[IF i < v THEN i ELSE i + 1]
    BY Zenon
  <2>1. (a \o b)[i] = IF i <= Len(a) THEN a[i] ELSE b[i - Len(a)]
    BY <1>0, <1>1, <1>2
  <2>2. CASE i < v
    BY <1>0, <1>1, <2>1, <2>2
  <2>3. CASE i >= v
    <3>1. i - (v - 1) \in 1 .. Len(q) - v /\ ~(i <= Len(a))
      BY <1>0, <1>1, <2>3
    <3>2. b[i - (v - 1)] = q[i + 1]
      BY <1>0, <1>2, <3>1
    <3>3. QED BY <1>0, <1>1, <2>1, <2>3, <3>1, <3>2
  <2>4. i < v \/ i >= v
    BY <1>0
  <2>5. QED BY <2>2, <2>3, <2>4, Zenon
<1>5. QED BY <1>3, <1>4, Zenon DEF a, b, Without

Ordered(q) == \A i, j \in 1 .. Len(q) : i < j => q[i].seq < q[j].seq

\* The queue after submit: within its bound, in order and made of what was there and the new push;
\* a push that does not coalesce is missing only when no other in the full queue does.
LEMMA TrimmedFacts ==
  ASSUME NEW q \in Seq(Pushes), Len(q) <= QueueSize, Ordered(q), NEW p \in Pushes,
         \A i \in 1 .. Len(q) : q[i].seq < p.seq
  PROVE  LET t == Trimmed(Added(q, p))
         IN  /\ t \in Seq(Pushes) /\ Len(t) <= QueueSize /\ Ordered(t)
             /\ \A i \in 1 .. Len(t) : t[i] = p \/ \E j \in 1 .. Len(q) : t[i] = q[j]
             /\ \A x \in (Entries(q) \cup {p}) \ Entries(t) :
                  ~Coalesces(x) =>
                    Len(t) = QueueSize /\ \A i \in 1 .. Len(t) : ~Coalesces(t[i])
<1> DEFINE a == Added(q, p)
           t == Trimmed(a)
           v == Victim(a)
<1>1. /\ a \in Seq(Pushes) /\ Len(a) \in 1 .. Len(q) + 1 /\ Len(a) >= Len(q)
      /\ a[Len(a)] = p
      /\ \A i \in 1 .. Len(a) - 1 : i <= Len(q) /\ a[i] = q[i]
      /\ Len(a) = Len(q) => Coalesces(q[Len(q)])
  BY AddedFacts, Zenon
<1>2. Len(q) \in Nat /\ Len(a) \in Nat /\ QueueSize \in Nat /\ QueueSize >= 1
  BY <1>1, QueueAssumption
<1>3. \A i \in 1 .. Len(q) : q[i].seq \in Nat
  <2>1. \A i \in 1 .. Len(q) : q[i] \in Pushes
    OBVIOUS
  <2>2. \A x \in Pushes : x.seq \in Nat
    BY DEF Pushes
  <2>3. QED BY <2>1, <2>2
<1>4. p.seq \in Nat
  BY DEF Pushes
<1> HIDE DEF a
<1>5. Ordered(a)
  <2> SUFFICES ASSUME NEW i \in 1 .. Len(a), NEW j \in 1 .. Len(a), i < j
               PROVE  a[i].seq < a[j].seq
    BY DEF Ordered
  <2>1. i \in 1 .. Len(a) - 1 /\ a[i] = q[i] /\ i \in 1 .. Len(q)
    BY <1>1, <1>2
  <2>2. CASE j = Len(a)
    BY <1>1, <2>1, <2>2
  <2>3. CASE j # Len(a)
    <3>1. j \in 1 .. Len(a) - 1 /\ a[j] = q[j] /\ j \in 1 .. Len(q)
      BY <1>1, <1>2, <2>3
    <3>2. QED BY <2>1, <3>1 DEF Ordered
  <2>4. QED BY <2>2, <2>3
<1>6. \A i \in 1 .. Len(a) : a[i] = p \/ \E j \in 1 .. Len(q) : a[i] = q[j]
  <2> SUFFICES ASSUME NEW i \in 1 .. Len(a), i # Len(a)
               PROVE  \E j \in 1 .. Len(q) : a[i] = q[j]
    BY <1>1
  <2>1. i \in 1 .. Len(a) - 1 /\ i \in 1 .. Len(q)
    BY <1>1, <1>2
  <2>2. QED BY <1>1, <2>1
<1>7. \A x \in Entries(q) \cup {p} : ~Coalesces(x) => \E i \in 1 .. Len(a) : x = a[i]
  <2> SUFFICES ASSUME NEW x \in Entries(q) \cup {p}, ~Coalesces(x)
               PROVE  \E i \in 1 .. Len(a) : x = a[i]
    OBVIOUS
  <2>1. CASE x = p
    BY <1>1, <1>2, <2>1
  <2>2. CASE x # p
    <3>1. PICK j \in 1 .. Len(q) : x = q[j]
      BY <2>2 DEF Entries
    <3>2. j \in 1 .. Len(a) - 1
      BY <1>1, <1>2, <3>1
    <3>3. QED BY <1>1, <1>2, <3>1, <3>2
  <2>3. QED BY <2>1, <2>2
<1>8. CASE Len(a) <= QueueSize
  <2>1. t = a
    BY <1>8 DEF Trimmed
  <2>2. \A x \in (Entries(q) \cup {p}) \ Entries(t) : Coalesces(x)
    BY <1>1, <1>7, <2>1 DEF Entries
  <2>3. QED BY <1>1, <1>5, <1>6, <1>8, <2>1, <2>2 DEF a
<1>9. CASE ~(Len(a) <= QueueSize)
  <2>1. v \in 1 .. Len(a)
        /\ (~Coalesces(a[v]) => \A i \in 1 .. Len(a) : ~Coalesces(a[i]))
    BY <1>1, VictimFacts
  <2>2. t = Without(a, v)
    BY <1>9, Zenon DEF Trimmed, Without
  <2> HIDE DEF t, v
  <2>3. /\ t \in Seq(Pushes) /\ Len(t) = Len(a) - 1
        /\ \A i \in 1 .. Len(t) : t[i] = a[IF i < v THEN i ELSE i + 1]
    <3>1. a \in Seq(Pushes) /\ v \in 1 .. Len(a)
      BY <1>1, <2>1
    <3>2. /\ Without(a, v) \in Seq(Pushes) /\ Len(Without(a, v)) = Len(a) - 1
          /\ \A i \in 1 .. Len(a) - 1 : Without(a, v)[i] = a[IF i < v THEN i ELSE i + 1]
      BY <3>1, Dropped
    <3>3. QED BY <2>2, <3>2
  <2>4. Len(t) = QueueSize
    BY <1>1, <1>2, <1>9, <2>3
  <2>5. \A i \in 1 .. Len(t) : \E k \in 1 .. Len(a) : t[i] = a[k]
    BY <1>2, <2>1, <2>3
  <2>6. Ordered(t)
    <3> SUFFICES ASSUME NEW i \in 1 .. Len(t), NEW j \in 1 .. Len(t), i < j
                 PROVE  t[i].seq < t[j].seq
      BY DEF Ordered
    <3> DEFINE k == IF i < v THEN i ELSE i + 1
               l == IF j < v THEN j ELSE j + 1
    <3>1. k \in 1 .. Len(a) /\ l \in 1 .. Len(a) /\ k < l
      BY <1>2, <2>1, <2>3
    <3>2. t[i] = a[k] /\ t[j] = a[l]
      BY <2>3
    <3> HIDE DEF k, l
    <3>3. QED BY <1>5, <3>1, <3>2 DEF Ordered
  <2>7. \A k \in 1 .. Len(a) : k # v => \E i \in 1 .. Len(t) : a[k] = t[i]
    <3> SUFFICES ASSUME NEW k \in 1 .. Len(a), k # v
                 PROVE  \E i \in 1 .. Len(t) : a[k] = t[i]
      OBVIOUS
    <3>1. CASE k < v
      <4>1. k \in 1 .. Len(t)
        BY <1>2, <2>1, <2>3, <3>1
      <4>2. t[k] = a[k]
        BY <2>3, <3>1, <4>1
      <4>3. QED BY <4>1, <4>2
    <3>2. CASE k > v
      <4>1. k - 1 \in 1 .. Len(t) /\ ~(k - 1 < v)
        BY <1>2, <2>1, <2>3, <3>2
      <4>2. t[k - 1] = a[k]
        BY <2>3, <4>1
      <4>3. QED BY <4>1, <4>2
    <3>3. QED BY <1>2, <2>1, <3>1, <3>2
  <2>8. \A x \in (Entries(q) \cup {p}) \ Entries(t) :
          ~Coalesces(x) => \A i \in 1 .. Len(t) : ~Coalesces(t[i])
    <3> SUFFICES ASSUME NEW x \in (Entries(q) \cup {p}) \ Entries(t), ~Coalesces(x)
                 PROVE  \A i \in 1 .. Len(t) : ~Coalesces(t[i])
      OBVIOUS
    <3>1. PICK k \in 1 .. Len(a) : x = a[k]
      BY <1>7
    <3>2. k = v
      BY <2>3, <2>7, <3>1 DEF Entries
    <3>3. QED BY <2>1, <2>5, <3>1, <3>2
  <2>9. QED BY <1>6, <2>3, <2>4, <2>5, <2>6, <2>8 DEF t, a
<1>10. QED BY <1>8, <1>9

\* What pushState does: the queue keeps its bound and its order; the new push is in it or noted as
\* skipped, unless the lane is closed; and no transition is lost from a queue with room.
LEMMA Submitted ==
  ASSUME queue \in Seq(Pushes), Len(queue) <= QueueSize, Ordered(queue), TransitionsKept,
         loop.seq \in Nat, \A i \in 1 .. Len(queue) : queue[i].seq <= loop.seq,
         NEW reason \in Transitions \cup {PlayerState}, NEW v \in Nat, PushState(reason, v)
  PROVE  /\ queue' \in Seq(Pushes) /\ Len(queue') <= QueueSize /\ Ordered(queue')
         /\ \A i \in 1 .. Len(queue') :
              \/ queue'[i].seq = loop.seq + 1 /\ queue'[i].version = v
              \/ \E j \in 1 .. Len(queue) : queue'[i] = queue[j]
         /\ ~closed => \/ \E i \in 1 .. Len(queue') : queue'[i].seq = loop.seq + 1
                       \/ \E s \in skipped' : s.seq = loop.seq + 1
         /\ TransitionsKept'
<1> DEFINE p == [seq |-> loop.seq + 1, reason |-> reason, version |-> v]
           after == Trimmed(Added(queue, p))
           gone == (Entries(queue) \cup {p}) \ Entries(after)
           full == Len(after) = QueueSize /\ \A q \in Entries(after) : ~Coalesces(q)
           note(q) == [seq |-> q.seq, reason |-> q.reason, full |-> full, newest |-> q = p]
<1>1. CASE closed
  <2>1. queue' = queue /\ skipped' = skipped
    BY <1>1 DEF PushState
  <2>2. QED BY <1>1, <2>1 DEF TransitionsKept
<1>2. CASE ~closed
  <2>1. /\ queue' = after
        /\ skipped' = skipped \cup {note(q) : q \in {x \in gone : ~Coalesces(x) \/ x = p}}
    BY <1>2 DEF PushState
  <2>2. p \in Pushes
    BY DEF Pushes
  <2>3. p.seq = loop.seq + 1 /\ p.version = v /\ p.reason = reason
    OBVIOUS
  <2>4. \A i \in 1 .. Len(queue) : queue[i].seq \in Nat
    <3>1. \A i \in 1 .. Len(queue) : queue[i] \in Pushes
      OBVIOUS
    <3>2. QED BY <3>1 DEF Pushes
  <2> HIDE DEF p
  <2>5. \A i \in 1 .. Len(queue) : queue[i].seq < p.seq
    BY <2>3, <2>4
  <2>6. /\ after \in Seq(Pushes) /\ Len(after) <= QueueSize /\ Ordered(after)
        /\ \A i \in 1 .. Len(after) : after[i] = p \/ \E j \in 1 .. Len(queue) : after[i] = queue[j]
        /\ \A x \in gone :
             ~Coalesces(x) =>
               Len(after) = QueueSize /\ \A i \in 1 .. Len(after) : ~Coalesces(after[i])
    BY <2>2, <2>5, TrimmedFacts
  <2> HIDE DEF after
  <2>7. \A x \in gone : ~Coalesces(x) => full
    BY <2>6 DEF Entries
  <2>8. \/ \E i \in 1 .. Len(queue') : queue'[i].seq = loop.seq + 1
        \/ \E s \in skipped' : s.seq = loop.seq + 1
    <3>1. CASE p \in Entries(after)
      BY <2>1, <2>3, <2>6, <3>1 DEF Entries
    <3>2. CASE p \notin Entries(after)
      <4>1. p \in {x \in gone : ~Coalesces(x) \/ x = p}
        BY <3>2
      <4>2. note(p) \in skipped'
        BY <2>1, <4>1, Zenon
      <4>3. note(p).seq = loop.seq + 1
        BY <2>3
      <4>4. QED BY <4>2, <4>3
    <3>3. QED BY <3>1, <3>2
  <2>9. TransitionsKept'
    <3> SUFFICES ASSUME NEW s \in skipped', s.reason \in Transitions
                 PROVE  s.full
      BY DEF TransitionsKept
    <3>1. CASE s \in skipped
      BY <3>1 DEF TransitionsKept
    <3>2. CASE s \notin skipped
      <4>1. PICK q \in gone : s = note(q)
        BY <2>1, <3>2
      <4>2. s.reason = q.reason /\ s.full = full
        BY <4>1
      <4>3. ~Coalesces(q)
        BY <4>2, QueueAssumption DEF Coalesces, PlayerState
      <4>4. QED BY <2>7, <4>2, <4>3, Zenon
    <3>3. QED BY <3>1, <3>2
  <2>10. QED BY <2>1, <2>3, <2>6, <2>8, <2>9
<1>3. QED BY <1>1, <1>2

---------------------------------------------------------------------------
(***************************************************************************)
(* The steps                                                               *)
(***************************************************************************)

\* The fields of the loop.
LEMMA LoopFields ==
  ASSUME NEW l \in Loops
  PROVE  /\ l.dirty \in BOOLEAN /\ l.scheduled \in BOOLEAN /\ l.recent \in BOOLEAN
         /\ l.up \in BOOLEAN /\ l.registered \in BOOLEAN
         /\ l.timer \in Timers /\ l.seq \in Nat
BY DEF Loops

\* NoPush is told apart from the pushes by its number.
LEMMA PushFacts ==
  /\ NoPush.seq = 0 /\ NoPush \notin Pushes
  /\ \A p \in Pushes : p.seq \in Nat \ {0} /\ p.version \in Nat
BY DEF NoPush, Pushes

\* Every step that pushes, of whatever version the state then has.
LEMMA PushedInv ==
  ASSUME IInv, NEW reason \in Transitions \cup {PlayerState}, NEW v \in 0 .. MaxChanges,
         PushState(reason, v), version' = v,
         loop' \in Loops, loop'.seq = loop.seq + 1, DirtyIsScheduled',
         UNCHANGED <<closed, results, lane, closing>>
  PROVE  IInv'
<1> USE PushFacts
<1>1. v \in Nat /\ loop.seq \in Nat /\ backend.seq \in Nat /\ push.seq \in Nat
  BY QueueAssumption, LoopFields DEF IInv, Schedule, Flow, Life, Taken
<1>2. \A i \in 1 .. Len(queue) : queue[i] \in Pushes /\ queue[i].seq \in Nat
  BY DEF IInv, Flow
<1>3. /\ queue' \in Seq(Pushes) /\ Len(queue') <= QueueSize /\ Ordered(queue')
      /\ \A i \in 1 .. Len(queue') :
           \/ queue'[i].seq = loop.seq + 1 /\ queue'[i].version = v
           \/ \E j \in 1 .. Len(queue) : queue'[i] = queue[j]
      /\ ~closed => \/ \E i \in 1 .. Len(queue') : queue'[i].seq = loop.seq + 1
                    \/ \E s \in skipped' : s.seq = loop.seq + 1
      /\ TransitionsKept'
  BY <1>1, Submitted, Zenon DEF IInv, Flow, Order, Ordered
<1>4. Schedule' /\ Life' /\ Flow'
  BY <1>3 DEF IInv, Schedule, Life, Flow, Taken, lane
<1>5. Order'
  <2>1. \A i \in 1 .. Len(queue') :
          /\ backend.seq < queue'[i].seq /\ push.seq < queue'[i].seq
          /\ queue'[i].seq <= loop.seq + 1
    <3> SUFFICES ASSUME NEW i \in 1 .. Len(queue')
                 PROVE  /\ backend.seq < queue'[i].seq /\ push.seq < queue'[i].seq
                        /\ queue'[i].seq <= loop.seq + 1
      OBVIOUS
    <3>1. CASE queue'[i].seq = loop.seq + 1
      BY <1>1, <3>1 DEF IInv, Order
    <3>2. CASE queue'[i].seq # loop.seq + 1
      <4>1. PICK j \in 1 .. Len(queue) : queue'[i] = queue[j]
        BY <1>3, <3>2
      <4>2. QED BY <1>1, <1>2, <4>1 DEF IInv, Order
    <3>3. QED BY <3>1, <3>2
  <2>2. QED BY <1>1, <1>3, <2>1 DEF IInv, Order, Ordered, lane
<1>6. Newest'
  <2>1. \A i \in 1 .. Len(queue') : queue'[i].seq = loop.seq + 1 => queue'[i].version = v
    <3> SUFFICES ASSUME NEW i \in 1 .. Len(queue'), queue'[i].seq = loop.seq + 1
                 PROVE  queue'[i].version = v
      OBVIOUS
    <3>1. \A j \in 1 .. Len(queue) : queue[j].seq # loop.seq + 1
      BY <1>1, <1>2 DEF IInv, Order
    <3>2. QED BY <1>3, <3>1
  <2>2. push.seq # loop.seq + 1
    BY <1>1 DEF IInv, Order
  <2>3. QED BY <2>1, <2>2 DEF Newest, lane
<1>7. Pending'
  BY <1>3 DEF Pending
<1>8. QED BY <1>3, <1>4, <1>5, <1>6, <1>7 DEF IInv

\* The loop's own fields agree after a step that sets them all at once.
LEMMA ScheduleFields ==
  ASSUME NEW l \in Loops
  PROVE  /\ [l EXCEPT !.dirty = FALSE, !.recent = TRUE, !.seq = @ + 1] \in Loops
         /\ [l EXCEPT !.seq = @ + 1] \in Loops
         /\ [l EXCEPT !.timer = "off", !.scheduled = FALSE] \in Loops
         /\ [l EXCEPT !.timer = "off", !.scheduled = FALSE, !.dirty = FALSE,
                      !.recent = TRUE, !.seq = @ + 1] \in Loops
         /\ [l EXCEPT !.dirty = TRUE, !.scheduled = TRUE, !.timer = "armed"] \in Loops
         /\ [l EXCEPT !.dirty = TRUE, !.scheduled = TRUE,
                      !.timer = IF l.scheduled THEN @ ELSE "armed"] \in Loops
         /\ [l EXCEPT !.registered = TRUE] \in Loops
         /\ [l EXCEPT !.up = FALSE] \in Loops
         /\ [l EXCEPT !.timer = "fired"] \in Loops
         /\ [l EXCEPT !.recent = FALSE] \in Loops
<1> USE DEF Loops, Timers
<1>1. [l EXCEPT !.dirty = FALSE, !.recent = TRUE, !.seq = @ + 1] \in Loops
  <2>1. l.seq + 1 \in Nat
    OBVIOUS
  <2>2. \A n \in Nat : [l EXCEPT !.dirty = FALSE, !.recent = TRUE, !.seq = n] \in Loops
    BY Zenon
  <2>3. QED BY <2>1, <2>2, Zenon
<1>2. [l EXCEPT !.seq = @ + 1] \in Loops
  OBVIOUS
<1>3. [l EXCEPT !.timer = "off", !.scheduled = FALSE] \in Loops
  BY Zenon
<1>4. [l EXCEPT !.timer = "off", !.scheduled = FALSE, !.dirty = FALSE,
                !.recent = TRUE, !.seq = @ + 1] \in Loops
  <2>1. l.seq + 1 \in Nat
    OBVIOUS
  <2>2. \A n \in Nat : [l EXCEPT !.timer = "off", !.scheduled = FALSE, !.dirty = FALSE,
                                 !.recent = TRUE, !.seq = n] \in Loops
    BY Zenon
  <2>3. QED BY <2>1, <2>2, Zenon
<1>5. [l EXCEPT !.dirty = TRUE, !.scheduled = TRUE, !.timer = "armed"] \in Loops
  BY Zenon
<1>6. [l EXCEPT !.dirty = TRUE, !.scheduled = TRUE,
                !.timer = IF l.scheduled THEN @ ELSE "armed"] \in Loops
  BY Zenon
<1>7. [l EXCEPT !.registered = TRUE] \in Loops
  BY Zenon
<1>8. [l EXCEPT !.up = FALSE] \in Loops
  BY Zenon
<1>9. [l EXCEPT !.timer = "fired"] \in Loops
  OBVIOUS
<1>10. [l EXCEPT !.recent = FALSE] \in Loops
  BY Zenon
<1>11. QED BY <1>1, <1>2, <1>3, <1>4, <1>5, <1>6, <1>7, <1>8, <1>9, <1>10

\* A step that leaves the queue, the lane and Close alone, and keeps the newest push's number.
LEMMA NotedInv ==
  ASSUME IInv, loop' \in Loops, loop'.seq = loop.seq, DirtyIsScheduled',
         version' \in 0 .. MaxChanges,
         loop'.dirty \/ (~loop.dirty /\ version' = version),
         UNCHANGED <<queue, closed, results, lane, closing, skipped>>
  PROVE  IInv'
<1>1. Schedule' /\ Life' /\ Flow' /\ Order' /\ TransitionsKept'
  BY Zenon DEF IInv, Schedule, Life, Flow, Order, Taken, TransitionsKept, lane
<1>2. Newest' /\ Pending'
  BY DEF IInv, Newest, Pending, Taken, lane
<1>3. QED BY <1>1, <1>2 DEF IInv

\* updateState and flushState.
LEMMA UpdateInv ==
  ASSUME IInv, UpdateState \/ FlushState \/ PushTransition
  PROVE  IInv'
<1>1. /\ loop \in Loops /\ DirtyIsScheduled /\ version' = version + 1
      /\ version' \in 0 .. MaxChanges
      /\ UNCHANGED <<closed, results, lane, closing>>
  BY QueueAssumption DEF IInv, Schedule, UpdateState, FlushState, PushTransition, Changes
<1>2. CASE /\ loop' = [loop EXCEPT !.dirty = FALSE, !.recent = TRUE, !.seq = @ + 1]
           /\ PushState(PlayerState, version')
  <2>1. /\ loop' \in Loops /\ loop'.seq = loop.seq + 1 /\ loop'.dirty = FALSE
        /\ loop'.scheduled = loop.scheduled /\ loop'.timer = loop.timer
    <3>1. loop' \in Loops
      BY <1>1, <1>2, ScheduleFields, Zenon
    <3>2. QED BY <1>1, <1>2, <3>1 DEF Loops
  <2>2. DirtyIsScheduled'
    BY <1>1, <2>1 DEF DirtyIsScheduled
  <2>3. QED BY <1>1, <1>2, <2>1, <2>2, PushedInv
<1>3. CASE PushTransition
  <2>1. PICK reason \in Transitions : PushState(reason, version')
    BY <1>3 DEF PushTransition
  <2>2. /\ loop' \in Loops /\ loop'.seq = loop.seq + 1 /\ loop'.dirty = loop.dirty
        /\ loop'.scheduled = loop.scheduled /\ loop'.timer = loop.timer
    <3>1. loop' \in Loops
      BY <1>1, <1>3, ScheduleFields, Zenon DEF PushTransition
    <3>2. QED BY <1>1, <1>3, <3>1 DEF Loops, PushTransition
  <2>3. DirtyIsScheduled'
    BY <1>1, <2>2 DEF DirtyIsScheduled
  <2>4. QED BY <1>1, <2>1, <2>2, <2>3, PushedInv
<1>4. CASE UpdateState /\ (loop.scheduled \/ loop.recent)
  <2>1. /\ loop' = [loop EXCEPT !.dirty = TRUE, !.scheduled = TRUE,
                                !.timer = IF loop.scheduled THEN @ ELSE "armed"]
        /\ UNCHANGED <<queue, skipped>>
    BY <1>4 DEF UpdateState
  <2>2. /\ loop' \in Loops /\ loop'.seq = loop.seq /\ loop'.dirty /\ loop'.scheduled
        /\ loop'.timer = IF loop.scheduled THEN loop.timer ELSE "armed"
    <3>1. loop' \in Loops
      BY <1>1, <2>1, ScheduleFields, Zenon
    <3>2. QED BY <1>1, <2>1, <3>1 DEF Loops
  <2>3. DirtyIsScheduled'
    BY <1>1, <2>2 DEF DirtyIsScheduled
  <2>4. QED BY <1>1, <2>1, <2>2, <2>3, NotedInv
<1>5. QED BY <1>2, <1>3, <1>4 DEF UpdateState, FlushState

\* The stateTimer case of Run.
LEMMA TimerInv ==
  ASSUME IInv, StateTimer
  PROVE  IInv'
<1>1. /\ loop \in Loops /\ DirtyIsScheduled /\ version' = version
      /\ version \in 0 .. MaxChanges
      /\ UNCHANGED <<closed, results, lane, closing>>
  BY DEF IInv, Schedule, StateTimer
<1>2. CASE loop.dirty
  <2>1. /\ loop' = [loop EXCEPT !.timer = "off", !.scheduled = FALSE, !.dirty = FALSE,
                                !.recent = TRUE, !.seq = @ + 1]
        /\ PushState(PlayerState, version)
    BY <1>2 DEF StateTimer
  <2>2. /\ loop' \in Loops /\ loop'.seq = loop.seq + 1 /\ loop'.dirty = FALSE
        /\ loop'.scheduled = FALSE /\ loop'.timer = "off"
    <3>1. loop' \in Loops
      BY <1>1, <2>1, ScheduleFields, Zenon
    <3>2. QED BY <1>1, <2>1, <3>1 DEF Loops
  <2>3. DirtyIsScheduled'
    BY <2>2 DEF DirtyIsScheduled
  <2>4. QED BY <1>1, <2>1, <2>2, <2>3, PushedInv
<1>3. CASE ~loop.dirty
  <2>1. /\ loop' = [loop EXCEPT !.timer = "off", !.scheduled = FALSE]
        /\ UNCHANGED <<queue, skipped>>
    BY <1>3 DEF StateTimer
  <2>2. /\ loop' \in Loops /\ loop'.seq = loop.seq /\ loop'.dirty = loop.dirty
        /\ loop'.scheduled = FALSE /\ loop'.timer = "off"
    <3>1. loop' \in Loops
      BY <1>1, <2>1, ScheduleFields, Zenon
    <3>2. QED BY <1>1, <2>1, <3>1 DEF Loops
  <2>3. DirtyIsScheduled'
    BY <1>3, <2>2 DEF DirtyIsScheduled
  <2>4. QED BY <1>1, <1>3, <2>1, <2>2, <2>3, NotedInv
<1>4. QED BY <1>2, <1>3

\* Run returning, and the clocks: the fields that decide what is pushed stay.
LEMMA ClockInv ==
  ASSUME IInv, LoopReturns \/ TimerFires \/ IntervalPasses
  PROVE  IInv'
<1>1. /\ loop \in Loops /\ DirtyIsScheduled /\ version' = version
      /\ version \in 0 .. MaxChanges
      /\ UNCHANGED <<queue, closed, results, lane, closing, skipped>>
  BY DEF IInv, Schedule, LoopReturns, TimerFires, IntervalPasses
<1>2. /\ loop' \in Loops /\ loop'.seq = loop.seq /\ loop'.dirty = loop.dirty
      /\ loop'.scheduled = loop.scheduled
      /\ loop'.timer = loop.timer \/ (loop.timer = "armed" /\ loop'.timer = "fired")
  <2>1. CASE LoopReturns
    <3>1. loop' \in Loops
      BY <1>1, <2>1, ScheduleFields, Zenon DEF LoopReturns
    <3>2. QED BY <1>1, <2>1, <3>1 DEF LoopReturns, Loops
  <2>2. CASE TimerFires
    <3>1. loop' \in Loops
      BY <1>1, <2>2, ScheduleFields, Zenon DEF TimerFires
    <3>2. QED BY <1>1, <2>2, <3>1 DEF TimerFires, Loops
  <2>3. CASE IntervalPasses
    <3>1. loop' \in Loops
      BY <1>1, <2>3, ScheduleFields, Zenon DEF IntervalPasses
    <3>2. QED BY <1>1, <2>3, <3>1 DEF IntervalPasses, Loops
  <2>4. QED BY <2>1, <2>2, <2>3
<1>3. DirtyIsScheduled'
  BY <1>1, <1>2 DEF DirtyIsScheduled
<1>4. CASE loop.dirty
  BY <1>1, <1>2, <1>3, <1>4, NotedInv
<1>5. CASE ~loop.dirty
  BY <1>1, <1>2, <1>3, <1>5, NotedInv
<1>6. QED BY <1>4, <1>5

\* What taking the first element does to a sequence.
LEMMA Shifted ==
  ASSUME NEW S, NEW s \in Seq(S), s # <<>>
  PROVE  /\ Head(s) = s[1] /\ Head(s) \in S /\ Len(s) \in Nat \ {0}
         /\ Tail(s) \in Seq(S)
         /\ Len(Tail(s)) = Len(s) - 1
         /\ \A i \in 1 .. Len(s) - 1 : Tail(s)[i] = s[i + 1]
OBVIOUS

\* applyStatePushResult.
LEMMA ApplyInv ==
  ASSUME IInv, ApplyStatePushResult
  PROVE  IInv'
<1> DEFINE res == Head(results)
<1>1. /\ loop \in Loops /\ DirtyIsScheduled /\ version' = version
      /\ results \in Seq(Results) /\ Len(results) <= QueueSize /\ results # <<>>
      /\ results' = Tail(results)
      /\ UNCHANGED <<queue, closed, lane, closing, skipped>>
  BY DEF IInv, Schedule, Flow, ApplyStatePushResult
<1>2. /\ res = results[1] /\ Len(results) \in Nat \ {0}
      /\ results' \in Seq(Results) /\ Len(results') = Len(results) - 1
      /\ \A i \in 1 .. Len(results) - 1 : results'[i] = results[i + 1]
  BY <1>1, Shifted
<1>3. loop' = CASE res.ok -> [loop EXCEPT !.registered = TRUE]
                [] ~res.ok /\ res.seq = loop.seq ->
                     [loop EXCEPT !.dirty = TRUE, !.scheduled = TRUE, !.timer = "armed"]
                [] OTHER -> loop
  BY DEF ApplyStatePushResult
<1> HIDE DEF res
<1>4. /\ loop' \in Loops /\ loop'.seq = loop.seq /\ DirtyIsScheduled'
      /\ loop.dirty => loop'.dirty
      /\ ~res.ok /\ res.seq = loop.seq => loop'.dirty
      /\ ~(~res.ok /\ res.seq = loop.seq) => loop'.dirty = loop.dirty
  <2>1. CASE res.ok
    <3>1. loop' = [loop EXCEPT !.registered = TRUE]
      BY <1>3, <2>1
    <3>2. loop' \in Loops
      BY <1>1, <3>1, ScheduleFields, Zenon
    <3>3. /\ loop'.seq = loop.seq /\ loop'.dirty = loop.dirty /\ loop'.timer = loop.timer
          /\ loop'.scheduled = loop.scheduled
      BY <1>1, <3>1 DEF Loops
    <3>4. QED BY <1>1, <2>1, <3>2, <3>3 DEF DirtyIsScheduled
  <2>2. CASE ~res.ok /\ res.seq = loop.seq
    <3>1. loop' = [loop EXCEPT !.dirty = TRUE, !.scheduled = TRUE, !.timer = "armed"]
      BY <1>3, <2>2
    <3>2. loop' \in Loops
      BY <1>1, <3>1, ScheduleFields, Zenon
    <3>3. loop'.seq = loop.seq /\ loop'.dirty /\ loop'.timer = "armed" /\ loop'.scheduled
      BY <1>1, <3>1 DEF Loops
    <3>4. QED BY <2>2, <3>2, <3>3, Zenon DEF DirtyIsScheduled
  <2>3. CASE ~res.ok /\ res.seq # loop.seq
    <3>1. loop' = loop
      BY <1>3, <2>3
    <3>2. QED BY <1>1, <2>3, <3>1 DEF DirtyIsScheduled
  <2>4. QED BY <2>1, <2>2, <2>3
<1>5. Schedule' /\ Life' /\ Flow' /\ Order' /\ TransitionsKept'
  <2>1. Schedule' /\ Life' /\ Order' /\ TransitionsKept'
    BY <1>1, <1>4 DEF IInv, Schedule, Life, Order, Taken, TransitionsKept, lane
  <2>2. Flow'
    BY <1>1, <1>2, QueueAssumption DEF IInv, Flow, lane
  <2>3. QED BY <2>1, <2>2
<1>6. Newest'
  BY <1>1, <1>4 DEF IInv, Newest, lane
<1>7. Pending'
  <2> SUFFICES ASSUME ~closed, ~loop'.dirty
               PROVE  Pending'
    BY <1>1 DEF Pending
  <2>1. CASE \E i \in 1 .. Len(results) : results[i].seq = loop.seq /\ ~results[i].ok
    <3>1. PICK i \in 1 .. Len(results) : results[i].seq = loop.seq /\ ~results[i].ok
      BY <2>1
    <3>2. i # 1
      BY <1>2, <1>4, <3>1
    <3>3. i - 1 \in 1 .. Len(results') /\ results'[i - 1] = results[i]
      BY <1>2, <3>2
    <3>4. QED BY <1>4, <3>1, <3>3 DEF Pending
  <2>2. CASE ~\E i \in 1 .. Len(results) : results[i].seq = loop.seq /\ ~results[i].ok
    BY <1>1, <1>4, <2>2 DEF IInv, Pending, Taken, lane
  <2>3. QED BY <2>1, <2>2
<1>8. QED BY <1>5, <1>6, <1>7 DEF IInv

---------------------------------------------------------------------------
(***************************************************************************)
(* The lane and Close                                                      *)
(***************************************************************************)

\* next.
LEMMA TakeInv ==
  ASSUME IInv, TakeNext
  PROVE  IInv'
<1> USE PushFacts
<1>1. /\ UNCHANGED <<version, loop, closed, wake, results, outcome, closing, backend, failures,
                     skipped>>
      /\ pc = "next" /\ push = NoPush
      /\ queue \in Seq(Pushes) /\ Len(queue) <= QueueSize
  BY DEF IInv, Life, Flow, Taken, TakeNext
<1>2. CASE queue = <<>>
  <2>1. pc' = "wait" /\ UNCHANGED <<queue, push>>
    BY <1>2 DEF TakeNext
  <2>2. Schedule' /\ Flow' /\ TransitionsKept'
    BY <1>1, <2>1 DEF IInv, Schedule, DirtyIsScheduled, Flow, TransitionsKept
  <2>3. Life' /\ Order' /\ Newest' /\ Pending'
    BY <1>1, <2>1 DEF IInv, Life, Order, Newest, Pending, Taken
  <2>4. QED BY <2>2, <2>3 DEF IInv
<1>3. CASE queue # <<>>
  <2>1. /\ pc' = "put" /\ push' = Head(queue) /\ queue' = Tail(queue)
    BY <1>3 DEF TakeNext
  <2>2. /\ push' = queue[1] /\ push' \in Pushes /\ Len(queue) \in Nat \ {0}
        /\ queue' \in Seq(Pushes) /\ Len(queue') = Len(queue) - 1
        /\ \A i \in 1 .. Len(queue) - 1 : queue'[i] = queue[i + 1]
    BY <1>1, <1>3, <2>1, Shifted
  <2>3. Schedule' /\ Flow' /\ TransitionsKept'
    BY <1>1, <2>1, <2>2, QueueAssumption
    DEF IInv, Schedule, DirtyIsScheduled, Flow, TransitionsKept
  <2>4. Life'
    BY <1>1, <2>1, <2>2 DEF IInv, Life, Taken
  <2>5. Order'
    <3>0. \A i \in 1 .. Len(queue') : i + 1 \in 1 .. Len(queue) /\ queue'[i] = queue[i + 1]
      BY <2>2
    <3>1. \A i, j \in 1 .. Len(queue') : i < j => queue'[i].seq < queue'[j].seq
      <4> SUFFICES ASSUME NEW i \in 1 .. Len(queue'), NEW j \in 1 .. Len(queue'), i < j
                   PROVE  queue'[i].seq < queue'[j].seq
        OBVIOUS
      <4>1. i + 1 < j + 1
        BY <2>2
      <4>2. QED BY <3>0, <4>1, Zenon DEF IInv, Order
    <3>2. \A i \in 1 .. Len(queue') :
            backend.seq < queue'[i].seq /\ push'.seq < queue'[i].seq /\ queue'[i].seq <= loop.seq
      <4> SUFFICES ASSUME NEW i \in 1 .. Len(queue')
                   PROVE  /\ backend.seq < queue'[i].seq /\ push'.seq < queue'[i].seq
                          /\ queue'[i].seq <= loop.seq
        OBVIOUS
      <4>1. 1 \in 1 .. Len(queue) /\ 1 < i + 1
        BY <2>2
      <4>2. queue[1].seq < queue[i + 1].seq
        BY <3>0, <4>1 DEF IInv, Order
      <4>3. QED BY <2>2, <3>0, <4>2 DEF IInv, Order
    <3>3. backend.seq < push'.seq /\ push'.seq <= loop.seq
      BY <2>2 DEF IInv, Order
    <3>4. QED BY <1>1, <2>1, <3>1, <3>2, <3>3 DEF IInv, Order
  <2>6. Newest'
    BY <1>1, <2>1, <2>2 DEF IInv, Newest
  <2>7. Pending'
    <3> SUFFICES ASSUME ~closed
                 PROVE  Pending'
      BY <1>1 DEF Pending
    <3>1. CASE \E i \in 1 .. Len(queue) : queue[i].seq = loop.seq
      <4>1. PICK i \in 1 .. Len(queue) : queue[i].seq = loop.seq
        BY <3>1
      <4>2. CASE i = 1
        BY <1>1, <2>1, <2>2, <4>1, <4>2 DEF Pending, Taken
      <4>3. CASE i # 1
        <5>1. i - 1 \in 1 .. Len(queue') /\ queue'[i - 1] = queue[i]
          BY <2>2, <4>3
        <5>2. QED BY <1>1, <4>1, <5>1 DEF Pending
      <4>4. QED BY <4>2, <4>3
    <3>2. CASE ~\E i \in 1 .. Len(queue) : queue[i].seq = loop.seq
      BY <1>1, <3>2 DEF IInv, Pending, Taken
    <3>3. QED BY <3>1, <3>2
  <2>8. QED BY <2>3, <2>4, <2>5, <2>6, <2>7 DEF IInv
<1>4. QED BY <1>2, <1>3

\* The select of an empty lane.
LEMMA WokenInv ==
  ASSUME IInv, Woken
  PROVE  IInv'
<1>1. /\ UNCHANGED <<version, loop, queue, closed, results, push, outcome, closing, backend,
                     failures, skipped>>
      /\ pc = "wait" /\ pc' \in {"next", "exit"}
  BY DEF Woken
<1>2. Schedule' /\ Flow' /\ TransitionsKept'
  BY <1>1 DEF IInv, Schedule, DirtyIsScheduled, Flow, TransitionsKept
<1>3. Life' /\ Order' /\ Newest' /\ Pending'
  BY <1>1 DEF IInv, Life, Order, Newest, Pending, Taken
<1>4. QED BY <1>2, <1>3 DEF IInv

\* The PUT: what the backend has is older than the push on its way, and older than the queue.
LEMMA PutInv ==
  ASSUME IInv, PutSucceeds \/ PutFails
  PROVE  IInv'
<1> USE PushFacts
<1>1. /\ UNCHANGED <<version, loop, queue, closed, wake, results, push, closing, skipped>>
      /\ pc = "put" /\ pc' = "send" /\ push \in Pushes
      /\ outcome' \in {"ok", "failed"} /\ backend' \in {backend, Reached}
      /\ outcome' = "ok" => backend' = Reached
  BY DEF IInv, Life, Taken, PutSucceeds, PutFails
<1>2. /\ Reached \in [version : Nat, seq : Nat]
      /\ Reached.version = push.version /\ Reached.seq = push.seq
  BY <1>1 DEF Reached
<1> HIDE DEF Reached
<1>3. Schedule' /\ TransitionsKept' /\ Life' /\ Flow'
  BY <1>1, <1>2 DEF IInv, Schedule, DirtyIsScheduled, Flow, TransitionsKept, Life, Taken
<1>4. Order'
  BY <1>1, <1>2 DEF IInv, Order
<1>5. Newest'
  BY <1>1, <1>2 DEF IInv, Newest
<1>6. Pending'
  <2>1. backend.seq # loop.seq
    BY <1>1, LoopFields DEF IInv, Order, Flow, Schedule
  <2>2. QED BY <1>1, <2>1 DEF IInv, Pending, Taken
<1>7. QED BY <1>3, <1>4, <1>5, <1>6 DEF IInv

\* What appending does to the elements of a sequence.
LEMMA Appended ==
  ASSUME NEW S, NEW s \in Seq(S), NEW x \in S
  PROVE  /\ Append(s, x) \in Seq(S)
         /\ Len(Append(s, x)) = Len(s) + 1 /\ Len(s) \in Nat
         /\ \A i \in 1 .. Len(s) : Append(s, x)[i] = s[i]
         /\ Append(s, x)[Len(s) + 1] = x
OBVIOUS

\* The result goes to the loop.
LEMMA SendInv ==
  ASSUME IInv, SendResult
  PROVE  IInv'
<1> USE PushFacts
<1> DEFINE r == [seq |-> push.seq, ok |-> outcome = "ok"]
<1>1. /\ UNCHANGED <<version, loop, queue, closed, wake, closing, backend, failures, skipped>>
      /\ pc = "send" /\ pc' = "next" /\ push' = NoPush /\ outcome \in {"ok", "failed"}
      /\ push \in Pushes
      /\ \/ Len(results) < QueueSize /\ results' = Append(results, r)
         \/ closed /\ results' = results
  BY DEF IInv, Life, Taken, SendResult, Quit
<1>2. r \in Results /\ r.seq = push.seq /\ (outcome = "failed" => ~r.ok)
  <2>1. push.seq \in Nat
    BY <1>1
  <2>2. CASE outcome = "ok"
    BY <2>1, <2>2 DEF Results
  <2>3. CASE outcome = "failed"
    BY <2>1, <2>3, Zenon DEF Results
  <2>4. QED BY <1>1, <2>2, <2>3
<1> HIDE DEF r
<1>3. results \in Seq(Results) /\ Len(results) <= QueueSize
  BY DEF IInv, Flow
<1>4. /\ results' \in Seq(Results) /\ Len(results') <= QueueSize
      /\ Len(results) \in Nat /\ Len(results') \in Nat /\ Len(results') >= Len(results)
      /\ \A i \in 1 .. Len(results) : results'[i] = results[i]
      /\ ~closed => Len(results') = Len(results) + 1 /\ results'[Len(results) + 1] = r
  <2>1. CASE Len(results) < QueueSize /\ results' = Append(results, r)
    BY <1>2, <1>3, <2>1, QueueAssumption, Appended
  <2>2. CASE closed /\ results' = results
    BY <1>3, <2>2
  <2>3. QED BY <1>1, <2>1, <2>2
<1>5. Schedule' /\ TransitionsKept' /\ Life' /\ Flow' /\ Newest'
  <2>1. Schedule' /\ TransitionsKept' /\ Life' /\ Newest'
    BY <1>1 DEF IInv, Schedule, DirtyIsScheduled, TransitionsKept, Life, Newest, Taken
  <2>2. Flow'
    BY <1>1, <1>4 DEF IInv, Flow
  <2>3. QED BY <2>1, <2>2
<1>6. Order'
  <2>1. loop.seq \in Nat /\ \A i \in 1 .. Len(queue) : queue[i].seq \in Nat \ {0}
    BY LoopFields DEF IInv, Schedule, Flow
  <2>2. QED BY <1>1, <2>1 DEF IInv, Order
<1>7. Pending'
  <2> SUFFICES ASSUME ~closed, ~loop.dirty
               PROVE  Pending'
    BY <1>1 DEF Pending
  <2>1. CASE push.seq = loop.seq /\ outcome = "ok"
    BY <1>1, <2>1 DEF IInv, Newest, Order, Pending
  <2>2. CASE push.seq = loop.seq /\ outcome = "failed"
    <3>1. Len(results) + 1 \in 1 .. Len(results')
      BY <1>4
    <3>2. QED BY <1>1, <1>2, <1>4, <2>2, <3>1 DEF Pending
  <2>3. CASE push.seq # loop.seq
    <3>1. CASE \E i \in 1 .. Len(results) : results[i].seq = loop.seq /\ ~results[i].ok
      <4>1. PICK i \in 1 .. Len(results) : results[i].seq = loop.seq /\ ~results[i].ok
        BY <3>1
      <4>2. i \in 1 .. Len(results') /\ results'[i] = results[i]
        BY <1>4
      <4>3. QED BY <1>1, <4>1, <4>2 DEF Pending
    <3>2. CASE ~\E i \in 1 .. Len(results) : results[i].seq = loop.seq /\ ~results[i].ok
      BY <1>1, <2>3, <3>2 DEF IInv, Pending
    <3>3. QED BY <3>1, <3>2
  <2>4. QED BY <1>1, <2>1, <2>2, <2>3
<1>8. QED BY <1>5, <1>6, <1>7 DEF IInv

\* AppPlayer.Close: only the drain's timeout touches what is queued, and only of a closed lane.
LEMMA CloseInv ==
  ASSUME IInv, Close
  PROVE  IInv'
<1>1. /\ UNCHANGED <<version, loop, results, lane, skipped>>
      /\ queue' = queue \/ (queue' = <<>> /\ closed')
      /\ closing' \in {"no", "stopping", "marked", "quit", "timeout", "done"}
      /\ closed' <=> closing' \notin {"no", "stopping"}
      /\ closed => closed'
  BY DEF IInv, Life, Close, StopLoop, MarkClosed, CloseQuit, Drained, DrainTimeout, Cancel
<1>2. Schedule' /\ TransitionsKept' /\ Life'
  BY <1>1 DEF IInv, Schedule, DirtyIsScheduled, TransitionsKept, Life, Taken, lane
<1>3. CASE queue' = queue
  BY <1>1, <1>2, <1>3 DEF IInv, Flow, Order, Newest, Pending, Taken, lane
<1>4. CASE queue' = <<>> /\ closed'
  <2>1. Len(queue') = 0 /\ queue' \in Seq(Pushes)
    BY <1>4
  <2>2. Flow' /\ Order' /\ Newest' /\ Pending'
    BY <1>1, <1>4, <2>1, QueueAssumption DEF IInv, Flow, Order, Newest, Pending, lane
  <2>3. QED BY <1>2, <2>2 DEF IInv
<1>5. QED BY <1>1, <1>3, <1>4

---------------------------------------------------------------------------

\* The lane starts empty, with nothing to push.
LEMMA InitInv ==
  ASSUME Init
  PROVE  IInv
<1>1. loop \in Loops /\ loop.dirty = FALSE /\ loop.scheduled = FALSE /\ loop.timer = "off"
      /\ loop.seq = 0
  BY DEF Init, Loops, Timers
<1>2. Schedule
  BY <1>1, QueueAssumption DEF Init, Schedule, DirtyIsScheduled
<1>3. Life
  BY DEF Init, Life, Taken
<1>4. Flow /\ Order /\ Newest /\ Pending
  <2>1. queue \in Seq(Pushes) /\ Len(queue) = 0 /\ results \in Seq(Results) /\ Len(results) = 0
    BY DEF Init
  <2>2. backend \in [version : Nat, seq : Nat] /\ backend.version = 0 /\ backend.seq = 0
    BY DEF Init
  <2>3. QED BY <1>1, <2>1, <2>2, QueueAssumption, PushFacts
            DEF Init, Flow, Order, Newest, Pending
<1>5. TransitionsKept
  BY DEF Init, TransitionsKept
<1>6. QED BY <1>2, <1>3, <1>4, <1>5 DEF IInv

\* One case per action.
LEMMA NextInv ==
  ASSUME IInv, [Next]_vars
  PROVE  IInv'
<1>1. CASE UpdateState \/ FlushState \/ PushTransition
  BY <1>1, UpdateInv
<1>2. CASE StateTimer
  BY <1>2, TimerInv
<1>3. CASE ApplyStatePushResult
  BY <1>3, ApplyInv
<1>4. CASE LoopReturns \/ TimerFires \/ IntervalPasses
  BY <1>4, ClockInv
<1>5. CASE TakeNext
  BY <1>5, TakeInv
<1>6. CASE Woken
  BY <1>6, WokenInv
<1>7. CASE PutSucceeds \/ PutFails
  BY <1>7, PutInv
<1>8. CASE SendResult
  BY <1>8, SendInv
<1>9. CASE Close
  BY <1>9, CloseInv
<1>10. CASE UNCHANGED vars
  BY <1>10 DEF vars, lane, IInv, Schedule, DirtyIsScheduled, Life, Flow, Order, Newest, Pending,
     TransitionsKept, Taken
<1>11. QED
  BY <1>1, <1>2, <1>3, <1>4, <1>5, <1>6, <1>7, <1>8, <1>9, <1>10 DEF Next, Loop, Run

\* The invariant is stronger than what the loop, the lane and the backend are to agree on.
LEMMA InvImpliesConsistent ==
  ASSUME IInv
  PROVE  Consistent
<1> USE PushFacts
<1>1. DOMAIN queue = 1 .. Len(queue) /\ DOMAIN results = 1 .. Len(results)
  BY DEF IInv, Flow
<1>2. TypeOK
  <2>1. \A p \in Entries(queue) :
          p.seq \in 1 .. loop.seq /\ p.reason \in Transitions \cup {PlayerState}
    <3> SUFFICES ASSUME NEW i \in 1 .. Len(queue)
                 PROVE  /\ queue[i].seq \in 1 .. loop.seq
                        /\ queue[i].reason \in Transitions \cup {PlayerState}
      BY <1>1 DEF Entries
    <3>1. queue[i] \in Pushes
      BY DEF IInv, Flow
    <3>2. queue[i].seq <= loop.seq /\ loop.seq \in Nat
      BY LoopFields DEF IInv, Order, Schedule
    <3>3. QED BY <3>1, <3>2 DEF Pushes
  <2>2. QED BY <2>1, LoopFields DEF IInv, Schedule, Life, Flow, Taken, TypeOK, Timers
<1>3. NothingForgotten
  BY <1>1 DEF IInv, Pending, NothingForgotten, Carried, Entries
<1>4. InOrder
  BY <1>1 DEF IInv, Order, InOrder, Entries
<1>5. QED BY <1>2, <1>3, <1>4 DEF IInv, Schedule, Consistent, QueueFaithful

\* No change of the state is forgotten and none is left without a timer, whatever the timers, the
\* results, the failures and new changes do; pushes reach the backend in the order they were made,
\* and overflow costs a transition only where the queue is full of them.
THEOREM StatePushIsConsistent == Spec => []Consistent
<1>1. Init => IInv
  BY InitInv
<1>2. IInv /\ [Next]_vars => IInv'
  BY NextInv
<1>3. IInv => Consistent
  BY InvImpliesConsistent
<1>4. QED BY <1>1, <1>2, <1>3, PTL DEF Spec

---------------------------------------------------------------------------

\* A lane that has ended is closed and has nothing queued: submit adds nothing to it.
Ended == pc = "exit" => closed /\ queue = <<>>

\* Only the select of an empty lane ends it, and what is closed stays closed.
LEMMA EndedInv ==
  ASSUME IInv, Ended, [Next]_vars
  PROVE  Ended'
<1>1. closed => closed'
  BY Zenon DEF Next, Loop, Run, Close, UpdateState, FlushState, PushTransition, StateTimer,
     ApplyStatePushResult, LoopReturns, TimerFires, IntervalPasses, TakeNext, Woken, PutSucceeds,
     PutFails, SendResult, StopLoop, MarkClosed, CloseQuit, Drained, DrainTimeout, Cancel, vars
<1>2. CASE pc # "exit" /\ pc' = "exit"
  <2>1. Woken /\ Quit /\ queue = <<>> /\ queue' = queue
    BY <1>2 DEF Next, Loop, Run, Close, UpdateState, FlushState, PushTransition, StateTimer,
       ApplyStatePushResult, LoopReturns, TimerFires, IntervalPasses, TakeNext, Woken, PutSucceeds,
       PutFails, SendResult, StopLoop, MarkClosed, CloseQuit, Drained, DrainTimeout, Cancel, vars,
       lane
  <2>2. closed
    BY <2>1 DEF IInv, Life, Quit
  <2>3. QED BY <1>1, <2>1, <2>2 DEF Ended
<1>3. CASE pc = "exit"
  <2>1. closed /\ queue = <<>>
    BY <1>3 DEF Ended
  <2>2. queue' = <<>>
    <3>1. CASE Loop
      BY <2>1, <3>1, Zenon DEF Loop, UpdateState, FlushState, PushTransition, StateTimer, PushState,
         ApplyStatePushResult, LoopReturns
    <3>2. CASE TimerFires \/ IntervalPasses \/ Close
      BY <2>1, <3>2, Zenon DEF TimerFires, IntervalPasses, Close, StopLoop, MarkClosed, CloseQuit,
         Drained, DrainTimeout, Cancel
    <3>3. CASE Run
      BY <1>3, <3>3 DEF Run, TakeNext, Woken, PutSucceeds, PutFails, SendResult
    <3>4. CASE UNCHANGED vars
      BY <2>1, <3>4 DEF vars
    <3>5. QED BY <3>1, <3>2, <3>3, <3>4 DEF Next
  <2>3. QED BY <1>1, <2>1, <2>2 DEF Ended
<1>4. QED BY <1>2, <1>3 DEF Ended

\* However Close, the loop that still pushes and the lane interleave, a lane that ended without the
\* drain timing out has sent all that was queued: nothing slips in behind its last look.
THEOREM ClosedLaneIsDrained == Spec => []ClosedIsDrained
<1>1. Init => IInv /\ Ended
  BY InitInv, Zenon DEF Init, Ended
<1>2. IInv /\ Ended /\ [Next]_vars => IInv' /\ Ended'
  BY NextInv, EndedInv
<1>3. Ended => ClosedIsDrained
  BY DEF Ended, ClosedIsDrained
<1>4. QED BY <1>1, <1>2, <1>3, PTL DEF Spec

\* What the backend has is never replaced by an older push, not even by a PUT that failed and
\* arrived all the same.
NeverOlder == [][backend.seq <= backend'.seq]_vars

\* Pushes are put one at a time, in the order of the queue.
THEOREM BackendNeverGoesBack == Spec => NeverOlder
<1>1. Init => IInv
  BY InitInv
<1>2. IInv /\ [Next]_vars => IInv'
  BY NextInv
<1>3. IInv /\ [Next]_vars => [backend.seq <= backend'.seq]_vars
  <2> SUFFICES ASSUME IInv, Next
               PROVE  backend.seq <= backend'.seq
    OBVIOUS
  <2>1. backend.seq \in Nat
    BY DEF IInv, Flow
  <2>2. CASE PutSucceeds \/ PutFails
    <3>1. backend' \in {backend, Reached} /\ pc = "put"
      BY <2>2 DEF PutSucceeds, PutFails
    <3>2. backend.seq < push.seq /\ push.seq \in Nat
      BY <3>1, PushFacts DEF IInv, Order, Life, Taken
    <3>3. QED BY <2>1, <3>1, <3>2 DEF Reached
  <2>3. CASE ~(PutSucceeds \/ PutFails)
    <3>1. backend' = backend
      BY <2>3 DEF Next, Loop, Run, Close, UpdateState, FlushState, PushTransition, StateTimer,
         ApplyStatePushResult, LoopReturns, TimerFires, IntervalPasses, TakeNext, Woken,
         SendResult, StopLoop, MarkClosed, CloseQuit, Drained, DrainTimeout, Cancel, lane
    <3>2. QED BY <2>1, <3>1
  <2>4. QED BY <2>2, <2>3
<1>4. QED BY <1>1, <1>2, <1>3, PTL DEF Spec, NeverOlder

---------------------------------------------------------------------------
(***************************************************************************)
(* The state that is kept in a file: the names of StateSaves are those     *)
(* after File!.                                                            *)
(***************************************************************************)

CONSTANTS Setters, Savers, Others, MaxVersion

VARIABLES saved, asked, tried, failed, file, saveDirty, saving, setter, saver

File == INSTANCE StateSaves WITH version <- saved, pc <- saver

\* The daemon starts from the file, or without one, and nothing is asked for.
LEMMA FileInit ==
  ASSUME File!Init
  PROVE  File!IInv
<1>1. saved = 0 /\ asked = 0 /\ tried = 0
  BY DEF File!Init, File!Loaded
<1>2. failed \in BOOLEAN /\ (~failed => file # File!NoFile)
  <2>1. CASE file = File!NoFile
    BY <2>1 DEF File!Init
  <2>2. CASE file # File!NoFile
    BY <2>2 DEF File!Init
  <2>3. QED BY <2>1, <2>2
<1>3. File!TypeOK
  <2>1. /\ file \in {0, File!NoFile} /\ saveDirty = FALSE /\ saving = FALSE
        /\ setter = [s \in Setters |-> FALSE] /\ saver = [w \in File!Workers |-> "off"]
    BY DEF File!Init
  <2>2. saved \in Nat /\ asked \in Nat /\ tried \in Nat /\ file \in Nat \cup {File!NoFile}
    BY <1>1, <2>1
  <2>3. QED BY <1>2, <2>1, <2>2, Zenon DEF File!TypeOK
<1>4. File!stateMuFree /\ \A g \in Savers : saver[g] = "off"
  BY DEF File!Init, File!stateMuFree, File!InSave, File!Workers
<1>5. File!Saver /\ File!Pending /\ File!Saves
  BY <1>1, <1>2, <1>4 DEF File!Init, File!Saver, File!Pending, File!Saves, File!stateMuFree
<1>6. QED BY <1>3, <1>5 DEF File!IInv

\* Every step of the setters, the logins and the goroutines that save keeps it.
LEMMA FileNext ==
  ASSUME File!IInv, [File!Next]_File!vars
  PROVE  File!IInv'
<1> USE DEF File!IInv, File!TypeOK, File!Saver, File!Pending, File!Saves, File!stateMuFree,
            File!InSave, File!NoFile
<1>1. ASSUME NEW s \in Setters, File!Change(s) PROVE File!IInv'
  BY <1>1 DEF File!Change
<1>2. ASSUME NEW s \in Setters, File!RequestPersist(s) PROVE File!IInv'
  <2>1. CASE saving
    BY <1>2, <2>1 DEF File!RequestPersist
  <2>2. CASE ~saving
    <3>1. PICK g \in Savers : saver[g] = "off" /\ saver' = [saver EXCEPT ![g] = "check"]
      BY <1>2, <2>2 DEF File!RequestPersist
    <3>2. g \in File!Workers
      BY DEF File!Workers
    <3>3. QED BY <1>2, <2>2, <3>1, <3>2 DEF File!RequestPersist, File!Workers
  <2>3. QED BY <2>1, <2>2
<1>3. ASSUME NEW g \in Savers, File!Look(g) PROVE File!IInv'
  BY <1>3 DEF File!Look, File!Workers
<1>4. ASSUME NEW l \in File!Logins, File!StoreCredentials(l) PROVE File!IInv'
  BY <1>4 DEF File!StoreCredentials, File!Workers, File!Logins
<1>5. ASSUME NEW w \in File!Workers, File!PersistState(w) PROVE File!IInv'
  BY <1>5 DEF File!PersistState, File!Workers, File!Logins
<1>6. ASSUME NEW w \in File!Workers, File!Replaced(w) PROVE File!IInv'
  BY <1>6 DEF File!Replaced, File!Done, File!Workers, File!Logins
<1>7. ASSUME NEW w \in File!Workers, File!RemovedFirst(w) PROVE File!IInv'
  BY <1>7 DEF File!RemovedFirst, File!Workers, File!Logins
<1>8. ASSUME NEW w \in File!Workers, File!SaveFails(w) PROVE File!IInv'
  BY <1>8 DEF File!SaveFails, File!Done, File!Workers, File!Logins
<1>9. CASE File!Crash
  <2>1. failed' \in BOOLEAN /\ (~failed' => file # File!NoFile)
    <3>1. CASE file = File!NoFile
      BY <1>9, <3>1 DEF File!Crash
    <3>2. CASE file # File!NoFile
      BY <1>9, <3>2 DEF File!Crash
    <3>3. QED BY <3>1, <3>2
  <2>2. /\ saved' = File!Loaded(file) /\ asked' = saved' /\ tried' = saved' /\ file' = file
        /\ saveDirty' = FALSE /\ saving' = FALSE
        /\ setter' = [s \in Setters |-> FALSE] /\ saver' = [w \in File!Workers |-> "off"]
    BY <1>9 DEF File!Crash
  <2>3. File!TypeOK'
    BY <2>1, <2>2 DEF File!Loaded
  <2>4. File!stateMuFree' /\ \A g \in Savers : saver'[g] = "off"
    BY <2>2 DEF File!Workers
  <2>5. ~failed' => file' = tried'
    BY <2>1, <2>2 DEF File!Loaded
  <2>6. File!Saver' /\ File!Pending' /\ File!Saves'
    BY <2>2, <2>3, <2>4, <2>5
  <2>7. QED BY <2>3, <2>6
<1>10. CASE UNCHANGED File!vars
  BY <1>10 DEF File!vars
<1>11. QED
  BY <1>1, <1>2, <1>3, <1>4, <1>5, <1>6, <1>7, <1>8, <1>9, <1>10 DEF File!Next

\* However setVolume, the logins, their saves and restarts interleave, requestPersist loses
\* no request and has one goroutine at most.
THEOREM RequestsAreSaved == File!Spec => []File!RequestsSaved
<1>1. File!Init => File!IInv
  BY FileInit
<1>2. File!IInv /\ [File!Next]_File!vars => File!IInv'
  BY FileNext
<1>3. File!IInv => File!RequestsSaved
  <2> SUFFICES ASSUME File!IInv PROVE File!RequestsSaved
    OBVIOUS
  <2>1. ~saving => asked <= tried
    BY DEF File!IInv, File!Saver, File!Pending
  <2>2. QED BY <2>1 DEF File!IInv, File!TypeOK, File!Saver, File!Saves, File!RequestsSaved
<1>4. QED BY <1>1, <1>2, <1>3, PTL DEF File!Spec
=============================================================================
