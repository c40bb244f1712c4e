--------------------------- MODULE PlaybackProofs ---------------------------
(***************************************************************************)
(* Proofs about SourcePlayback and Player, for any streams and their       *)
(* lengths, and any crossfade, headroom and scratch.                       *)
(*                                                                         *)
(* SourcePlayback, for any sequence of reads, switches and seeks: every    *)
(* stream is heard in order, without a gap or a repetition and to its end, *)
(* PositionMs reports where the listener is, and a stream that had its     *)
(* reserve fades over the whole crossfade.                                 *)
(*                                                                         *)
(* Player, for any devices and any commands of its two clients, while the  *)
(* output reads, ends and fails: what manageLoop keeps agrees with the     *)
(* output and with its clients.                                            *)
(***************************************************************************)
EXTENDS SourcePlayback, Player, SwitchingSourceProofs

\* The source is sound for what was heard of its streams, its reserve is there when the history
\* says so, and the last read returned frames of the streams.
IInv ==
  /\ Sound(source, next, unset, cut)
  /\ Reserved(source, reserve)
  /\ res.frames \in Seq(Frames) /\ res.under \in Seq(Frames) /\ res.err \in Errors
  /\ set \in Streams \cup {None} /\ set \notin unset

---------------------------------------------------------------------------
(***************************************************************************)
(* SourcePlayback                                                          *)
(***************************************************************************)

\* The invariant the proofs are about; reserve is a truth value.
Inv == IInv /\ reserve \in BOOLEAN

\* It holds at the start ...
LEMMA Initially ==
  ASSUME PlaybackInit
  PROVE  Inv
<1>1. NewSource \in Sources
  <2>1. [s \in Streams |-> 0] \in [Streams -> Nat] /\ <<>> \in Seq(Frames)
    OBVIOUS
  <2>2. QED BY <2>1 DEF NewSource, Sources
<1>2. /\ NewSource.prim = None /\ NewSource.sec = None /\ NewSource.at = [s \in Streams |-> 0]
      /\ NewSource.ring = <<>> /\ NewSource.primaryEOF = FALSE /\ NewSource.fading = FALSE
  BY DEF NewSource
<1>3. None \notin Streams /\ Capacity \in Nat /\ \A x \in Streams : Length[x] \in Nat
  BY SourceAssumption DEF Capacity
<1>4. Fields(source)
  BY <1>1, <1>2, <1>3 DEF PlaybackInit, Fields
<1>5. Lookahead(source, next)
  BY <1>2 DEF PlaybackInit, Lookahead
<1>6. Told(source, next, unset, cut)
  BY <1>2, <1>3 DEF PlaybackInit, Told, Of
<1>7. res.frames \in Seq(Frames) /\ res.under \in Seq(Frames) /\ res.err \in Errors
  BY DEF PlaybackInit, Silence, Result, Errors
<1>8. QED BY <1>3, <1>4, <1>5, <1>6, <1>7, Zenon DEF PlaybackInit, Inv, IInv, Sound, Reserved

\* A step, seen by the action properties.
Step ==
  /\ \A q \in {res'.frames, res'.under} :
       q # <<>> => /\ q = FramesOf(q[1][1], next[q[1][1]], Len(q))
                   /\ q[1][1] \notin cut
  /\ (/\ reserve
      /\ Fade > 0
      /\ source.prim \notin NoFade
      /\ source'.prim # source.prim
      /\ UNCHANGED set)
       => Length[source.prim] - next[source.prim] = Fade

\* What a step that reads nothing leaves in res.
LEMMA Silent ==
  ASSUME res' = Silence
  PROVE  /\ res'.frames = <<>> /\ res'.under = <<>>
         /\ res'.frames \in Seq(Frames) /\ res'.under \in Seq(Frames) /\ res'.err \in Errors
BY DEF Silence, Result, Errors

\* ... after a read ...
LEMMA AfterRead ==
  ASSUME Inv, NEW n \in 1 .. MaxRead, ReadsSource(n)
  PROVE  Inv' /\ Step
<1>1. n \in Nat \ {0} /\ CanRead(source) /\ Sound(source, next, unset, cut) /\ Reserved(source, reserve)
      /\ reserve \in BOOLEAN /\ next \in [Streams -> Nat]
  <2>1. n \in Nat \ {0}
    BY PlaybackAssumption
  <2>2. Sound(source, next, unset, cut) /\ Reserved(source, reserve) /\ reserve \in BOOLEAN
    BY DEF Inv, IInv
  <2>3. next \in [Streams -> Nat]
    BY <2>2 DEF Sound, Lookahead
  <2>4. CanRead(source)
    BY DEF ReadsSource
  <2>5. QED BY <2>1, <2>2, <2>3, <2>4
<1>2. PICK o \in Read(source, n) :
        /\ source' = o.src /\ res' = o.res
        /\ next' = HeardAfter(next, o)
        /\ reserve' = ReserveAfter(source, reserve, o)
  BY Zenon DEF ReadsSource, HeardAfter, ReserveAfter
<1>3. Delivered(o, next, unset, cut) /\ Faded(source, next, reserve, o)
  BY <1>1, <1>2, ReadServed
<1>4. unset' = unset /\ set' = set /\ cut' = cut
  BY DEF ReadsSource
<1>5. Sound(source', next', unset', cut')
  BY <1>2, <1>3, <1>4 DEF Delivered
<1>6. Reserved(source', reserve')
  BY <1>2, <1>3 DEF Faded
<1>7. /\ res'.frames \in Seq(Frames) /\ res'.under \in Seq(Frames) /\ res'.err \in Errors
  BY <1>1, <1>2, <1>3, RunFacts DEF Delivered
<1>8. reserve' \in BOOLEAN
  BY <1>2 DEF ReserveAfter
<1>9. Inv'
  BY <1>4, <1>5, <1>6, <1>7, <1>8 DEF Inv, IInv
<1>10. Step
  <2>1. \A q \in {res'.frames, res'.under} :
          q # <<>> => q = FramesOf(q[1][1], next[q[1][1]], Len(q)) /\ q[1][1] \notin cut
    <3> SUFFICES ASSUME NEW q \in {res'.frames, res'.under}, q # <<>>
                 PROVE  q = FramesOf(q[1][1], next[q[1][1]], Len(q)) /\ q[1][1] \notin cut
      OBVIOUS
    <3>1. Run(q, next, cut)
      BY <1>2, <1>3 DEF Delivered
    <3>2. QED BY <1>1, <3>1, RunFacts
  <2>2. reserve /\ Fade > 0 /\ source.prim \notin NoFade /\ source'.prim # source.prim
          => Length[source.prim] - next[source.prim] = Fade
    BY <1>2, <1>3 DEF Faded
  <2>3. QED BY <2>1, <2>2 DEF Step
<1>11. QED BY <1>9, <1>10

\* ... after SetPrimary ...
LEMMA AfterSetPrimary ==
  ASSUME Inv, NEW s \in Streams, SetsPrimary(s)
  PROVE  Inv' /\ Step
<1>1. /\ Sound(source, next, unset, cut) /\ Reserved(source, reserve) /\ reserve \in BOOLEAN
      /\ set \notin unset /\ unset \subseteq Streams
  BY DEF Inv, IInv, Sound, Told
<1>2. /\ s \in unset \cup ({source.prim, source.sec} \ {set, None})
      /\ source' = SetPrimary(source, s) /\ set' = s /\ unset' = unset \ {s} /\ next' = next
      /\ reserve' = (reserve /\ s = source.prim) /\ res' = Silence
  BY DEF SetsPrimary
<1>3. /\ res'.frames = <<>> /\ res'.under = <<>>
      /\ res'.frames \in Seq(Frames) /\ res'.under \in Seq(Frames) /\ res'.err \in Errors
  BY <1>2, Silent
<1>4. set' \in Streams \cup {None} /\ set' \notin unset' /\ set' # set /\ reserve' \in BOOLEAN
  BY <1>1, <1>2
<1>5. Step
  BY <1>3, <1>4 DEF Step
<1>6. CASE s = source.prim
  <2>1. unset' = unset /\ cut' = cut /\ reserve' = reserve
    BY <1>1, <1>2, <1>6 DEF SetsPrimary, Sound, Told
  <2>2. /\ Sound(source', next, unset, cut) /\ source'.prim = source.prim /\ source'.ring = source.ring
        /\ source'.fading = source.fading /\ source'.pendingErr = source.pendingErr
    BY <1>1, <1>2, <1>6, SameStreamSet
  <2>3. Reserved(source', reserve')
    BY <1>1, <2>1, <2>2 DEF Reserved
  <2>4. Inv'
    BY <1>2, <1>3, <1>4, <2>1, <2>2, <2>3, Zenon DEF Inv, IInv
  <2>5. QED BY <1>5, <2>4
<1>7. CASE s # source.prim
  <2>1. cut' = cut \cup {source.ring[i][1] : i \in DOMAIN source.ring} \cup ({source.prim} \ {None})
    BY <1>7 DEF SetsPrimary, Buffered
  <2>2. s \in unset \cup {source.sec}
    BY <1>2, <1>7
  <2>3. Sound(source', next', unset', cut')
    BY <1>1, <1>2, <1>7, <2>1, <2>2, OtherStreamSet
  <2>4. Reserved(source', reserve')
    BY <1>2, <1>7, Zenon DEF Reserved
  <2>5. Inv'
    BY <1>3, <1>4, <2>3, <2>4 DEF Inv, IInv
  <2>6. QED BY <1>5, <2>5
<1>8. QED BY <1>6, <1>7

\* ... after SetSecondary ...
LEMMA AfterSetSecondary ==
  ASSUME Inv, NEW s \in Streams \cup {None}, SetsSecondary(s)
  PROVE  Inv' /\ Step
<1>1. /\ Sound(source, next, unset, cut) /\ Reserved(source, reserve) /\ reserve \in BOOLEAN
      /\ set \notin unset /\ set \in Streams \cup {None}
  BY DEF Inv, IInv
<1>2. /\ s \in unset \cup {None} /\ source' = SetSecondary(source, s) /\ unset' = unset \ {s}
      /\ cut' = cut \cup ({source.sec} \ {None}) /\ res' = Silence
      /\ set' = set /\ next' = next /\ reserve' = reserve
  BY DEF SetsSecondary
<1>3. /\ res'.frames = <<>> /\ res'.under = <<>>
      /\ res'.frames \in Seq(Frames) /\ res'.under \in Seq(Frames) /\ res'.err \in Errors
  BY <1>2, Silent
<1>4. /\ Sound(source', next, unset', cut') /\ source'.prim = source.prim /\ source'.ring = source.ring
      /\ source'.fading = source.fading /\ source'.pendingErr = source.pendingErr
  BY <1>1, <1>2, OtherSecondarySet, ZenonT(30)
<1>5. Reserved(source', reserve')
  BY <1>1, <1>2, <1>4 DEF Reserved
<1>6. Inv'
  BY <1>1, <1>2, <1>3, <1>4, <1>5 DEF Inv, IInv
<1>7. Step
  BY <1>3, <1>4 DEF Step
<1>8. QED BY <1>6, <1>7

\* ... after a seek ...
LEMMA AfterSeek ==
  ASSUME Inv, NEW pos \in SeekTargets, NEW ok \in BOOLEAN, Seek(pos, ok)
  PROVE  Inv' /\ Step
<1>1. /\ Sound(source, next, unset, cut) /\ source.prim # None
      /\ pos \in Nat /\ pos <= Length[source.prim]
      /\ set \notin unset /\ set \in Streams \cup {None}
  BY PlaybackAssumption DEF Inv, IInv, Seek
<1>2. /\ source' = SetPosition(source, pos, ok)
      /\ next' = [next EXCEPT ![source.prim] = source'.at[source.prim]]
      /\ cut' = IF Fade = 0 THEN cut
                ELSE cut \cup ({source.ring[i][1] : i \in DOMAIN source.ring} \ {source.prim})
      /\ reserve' = FALSE /\ res' = Silence /\ unset' = unset /\ set' = set
  BY DEF Seek, Buffered
<1>3. /\ res'.frames = <<>> /\ res'.under = <<>>
      /\ res'.frames \in Seq(Frames) /\ res'.under \in Seq(Frames) /\ res'.err \in Errors
  BY <1>2, Silent
<1>4. Sound(source', next', unset', cut')
  BY <1>1, <1>2, Sought, Zenon
<1>5. source'.prim = source.prim
  <2>1. Fields(source) /\ source \in Sources
    BY <1>1 DEF Sound, Fields
  <2>2. ResetCrossfade(source).prim = source.prim /\ ResetCrossfade(source) \in Sources
    BY <2>1, Resetted
  <2>3. QED BY <1>2, <2>2 DEF SetPosition, Sources
<1>6. Inv'
  BY <1>1, <1>2, <1>3, <1>4, Zenon DEF Inv, IInv, Reserved
<1>7. Step
  BY <1>3, <1>5 DEF Step
<1>8. QED BY <1>6, <1>7

\* ... and after the token is taken.
LEMMA AfterTakeDone ==
  ASSUME Inv, TakeDone
  PROVE  Inv' /\ Step
<1>1. /\ Sound(source, next, unset, cut) /\ Reserved(source, reserve) /\ source \in Sources
      /\ set \notin unset /\ set \in Streams \cup {None} /\ reserve \in BOOLEAN
  BY DEF Inv, IInv, Sound, Fields
<1>2. /\ source' = [source EXCEPT !.done = FALSE] /\ res' = Silence
      /\ unset' = unset /\ set' = set /\ next' = next /\ cut' = cut /\ reserve' = reserve
  BY DEF TakeDone
<1>3. /\ res'.frames = <<>> /\ res'.under = <<>>
      /\ res'.frames \in Seq(Frames) /\ res'.under \in Seq(Frames) /\ res'.err \in Errors
  BY <1>2, Silent
<1>4. /\ source' \in Sources /\ SameFade(source, source') /\ source'.prim = source.prim
      /\ source'.sec = source.sec
      /\ source'.at = source.at
  BY <1>1, <1>2, Zenon DEF Sources, SameFade
<1>5. Sound(source', next', unset', cut')
  BY <1>1, <1>2, <1>4, SameSound, Zenon
<1>6. Reserved(source', reserve')
  BY <1>1, <1>2, <1>4 DEF Reserved, SameFade
<1>7. Inv'
  BY <1>1, <1>2, <1>3, <1>5, <1>6 DEF Inv, IInv
<1>8. Step
  BY <1>3, <1>4 DEF Step
<1>9. QED BY <1>7, <1>8

\* Every step keeps the invariant and is one the action properties allow.
LEMMA EveryStep ==
  ASSUME Inv, PlaybackNext
  PROVE  Inv' /\ Step
BY AfterRead, AfterSetPrimary, AfterSetSecondary, AfterSeek, AfterTakeDone DEF PlaybackNext

\* So does a step that changes nothing.
LEMMA Stutters ==
  ASSUME Inv, UNCHANGED playbackVars
  PROVE  Inv'
BY DEF Inv, IInv, playbackVars

\* The invariant says what PositionMs, SetPrimary and the switches promise.
LEMMA InvImplies ==
  ASSUME Inv
  PROVE  PlaybackConsistent
<1>1. /\ Sound(source, next, unset, cut) /\ source \in Sources /\ next \in [Streams -> Nat]
      /\ None \notin Streams /\ Fade \in Nat
  BY SourceAssumption, SMTT(30) DEF Inv, IInv, Sound, Fields, Lookahead
<1>2. PlaybackTypeOK
  BY <1>1 DEF Inv, IInv, PlaybackTypeOK, Sound, Fields, Told, Errors
<1>3. NoAlias
  BY <1>1 DEF NoAlias, Sound, Fields
<1>4. TailHeard
  <2>1. Buffered = {Of(source)} \ {None}
    BY <1>1, OfFacts DEF Buffered
  <2>2. QED BY <1>1, <2>1 DEF TailHeard, Sound, Told
<1>5. PositionIsHeard
  <2> SUFFICES ASSUME source.prim # None
               PROVE  Position(source) = next[source.prim]
    BY DEF PositionIsHeard
  <2>1. /\ source.prim \in Streams /\ next[source.prim] \in Nat /\ Len(source.ring) \in Nat
        /\ source.at[source.prim] \in Nat
    BY <1>1, SourceFields
  <2>2. CASE source.fading
    <3>1. next[source.prim] = source.at[source.prim]
      BY <1>1, <2>2 DEF Sound, Lookahead
    <3>2. QED BY <2>1, <2>2, <3>1 DEF Position
  <2>3. CASE ~source.fading
    <3>1. next[source.prim] + Len(source.ring) = source.at[source.prim]
      BY <1>1, <2>3 DEF Sound, Lookahead
    <3>2. Fade = 0 => Len(source.ring) = 0
      BY <1>1 DEF Sound, Fields
    <3>3. QED BY <1>1, <2>1, <2>3, <3>1, <3>2 DEF Position
  <2>4. QED BY <2>2, <2>3
<1>6. QED BY <1>2, <1>3, <1>4, <1>5, SMTT(30) DEF PlaybackConsistent

\* The invariant always holds.
LEMMA Invariant == PlaybackSpec => []Inv
<1>1. PlaybackInit => Inv
  BY Initially
<1>2. Inv /\ [PlaybackNext]_playbackVars => Inv'
  BY EveryStep, Stutters
<1>3. QED BY <1>1, <1>2, PTL DEF PlaybackSpec

\* Whatever is read, switched and sought, PositionMs reports where the listener
\* is, a stream is never prefetched behind itself, the lookahead stays within its
\* buffer, and a stream that gave way at its own end was heard to its end.
THEOREM SourceIsConsistent == PlaybackSpec => []PlaybackConsistent
<1>1. Inv => PlaybackConsistent
  BY InvImplies
<1>2. QED BY <1>1, Invariant, PTL

\* Read delivers each stream's frames in order, without a gap or a repetition, and
\* nothing of a stream that was replaced.
THEOREM StreamsAreHeardInOrder == PlaybackSpec => HeardInOrder
<1>1. Inv /\ [PlaybackNext]_playbackVars
        => [\A q \in {res'.frames, res'.under} :
              q # <<>> => /\ q = FramesOf(q[1][1], next[q[1][1]], Len(q))
                          /\ q[1][1] \notin cut]_playbackVars
  BY EveryStep DEF Step
<1>2. QED BY <1>1, Invariant, PTL DEF PlaybackSpec, HeardInOrder

\* A stream whose lookahead had the reserve, and that ends with the next one
\* prefetched, fades over the complete crossfade length.
THEOREM FadesAreComplete == PlaybackSpec => FullFade
<1>1. Inv /\ [PlaybackNext]_playbackVars
        => [(/\ reserve
             /\ Fade > 0
             /\ source.prim \notin NoFade
             /\ source'.prim # source.prim
             /\ UNCHANGED set)
              => Length[source.prim] - next[source.prim] = Fade]_playbackVars
  BY EveryStep DEF Step
<1>2. QED BY <1>1, Invariant, PTL DEF PlaybackSpec, FullFade

---------------------------------------------------------------------------
(***************************************************************************)
(* The source of the player                                                *)
(***************************************************************************)

\* What the source keeps whichever streams it is given, one it has played included: no decoder is
\* past its end, and a fade has a stream to fade in and the tail it started with.
Tidy(s) ==
  /\ s \in Sources
  /\ \A x \in Streams : s.at[x] <= Length[x]
  /\ s.fading => s.prim \in Streams /\ s.fadePos + Len(s.ring) = s.fadeTotal

\* A position that moves on within its stream leaves all of them there.
LEMMA DecoderMoves ==
  ASSUME NEW at \in [Streams -> Nat], \A x \in Streams : at[x] <= Length[x],
         NEW p \in Streams, NEW k \in Nat, k <= Length[p] - at[p]
  PROVE  \A x \in Streams : [at EXCEPT ![p] = @ + k][x] <= Length[x]
<1>1. Length \in [Streams -> Nat]
  BY SourceAssumption
<1>2. at[p] \in Nat /\ Length[p] \in Nat /\ at[p] + k <= Length[p]
  BY <1>1
<1>3. QED BY <1>2, Zenon

\* A decoder that moves on stays within its stream.
LEMMA TidyAdvance ==
  ASSUME NEW s, Tidy(s), s.prim \in Streams, NEW m \in Nat \ {0}, NEW d \in Decode(s, m)
  PROVE  /\ d.n \in Nat /\ d.n <= m /\ Advance(s, d.n) \in Sources /\ SameFade(s, Advance(s, d.n))
         /\ Advance(s, d.n).prim = s.prim /\ Advance(s, d.n).sec = s.sec
         /\ Advance(s, d.n).at = [s.at EXCEPT ![s.prim] = @ + d.n]
         /\ \A x \in Streams : Advance(s, d.n).at[x] <= Length[x]
         /\ Tidy(Advance(s, d.n))
<1>1. /\ s \in Sources /\ s.at \in [Streams -> Nat] /\ s.at[s.prim] <= Length[s.prim]
      /\ Length \in [Streams -> Nat]
  BY SourceAssumption, SourceFields DEF Tidy
<1>2. d.n \in Nat /\ d.n <= m /\ d.n <= Length[s.prim] - s.at[s.prim]
  BY <1>1, Decoded
<1>3. /\ Advance(s, d.n) \in Sources /\ SameFade(s, Advance(s, d.n))
      /\ Advance(s, d.n).prim = s.prim /\ Advance(s, d.n).sec = s.sec
      /\ Advance(s, d.n).at = [s.at EXCEPT ![s.prim] = @ + d.n]
  BY <1>1, <1>2, Advanced
<1> DEFINE a == Advance(s, d.n)
<1> HIDE DEF a
<1>4. \A x \in Streams : s.at[x] <= Length[x]
  BY Zenon DEF Tidy
<1>5. \A x \in Streams : a.at[x] <= Length[x]
  BY <1>1, <1>2, <1>3, <1>4, DecoderMoves, Zenon DEF a
<1>6. Tidy(a)
  BY <1>3, <1>5 DEF Tidy, SameFade, a
<1>7. QED BY <1>2, <1>3, <1>5, <1>6 DEF a

\* readDirect keeps that ...
LEMMA TidyDirect ==
  ASSUME NEW s, Tidy(s), s.prim \in Streams, NEW n \in Nat \ {0}, NEW o \in ReadDirect(s, n)
  PROVE  Tidy(o.src)
<1>1. PICK d \in Decode(s, n) :
        \/ o.src = Advance(s, d.n)
        \/ o.src = ReportDone(Advance(s, d.n))
        \/ s.sec # None /\ o.src = Switch(ReportDone(Advance(s, d.n)))
  BY DEF ReadDirect
<1> DEFINE a == Advance(s, d.n)
           r == ReportDone(a)
           w == Switch(r)
<1>2. Tidy(a) /\ a \in Sources /\ a.prim = s.prim /\ a.sec = s.sec
  BY TidyAdvance, Zenon
<1> HIDE DEF a
<1>3. r \in Sources /\ SameFade(a, r) /\ r.at = a.at /\ r.prim = a.prim /\ r.sec = a.sec
  BY <1>2, Reported
<1> HIDE DEF r
<1>4. w \in Sources /\ SameFade(r, w) /\ w.at = r.at /\ w.prim = r.sec
  BY <1>3, Switched
<1> HIDE DEF w
<1>5. Tidy(r) /\ (s.sec # None => Tidy(w))
  <2>1. s.sec \in Streams \cup {None}
    BY SourceFields DEF Tidy
  <2>2. QED BY <1>2, <1>3, <1>4, <2>1 DEF Tidy, SameFade
<1>6. QED BY <1>1, <1>2, <1>5 DEF a, r, w

\* ... and so do popChunk ...
LEMMA TidyPop ==
  ASSUME NEW s, Tidy(s), ~s.fading, NEW n \in Nat, NEW limit \in Nat, NEW e
  PROVE  Tidy(Pop(s, n, limit, e).src)
<1> DEFINE k == LeastOf3(n, limit, Len(s.ring))
           q == SubSeq(s.ring, k + 1, Len(s.ring))
           t == [s EXCEPT !.ring = q]
<1>1. s \in Sources /\ s.ring \in Seq(Frames) /\ Len(s.ring) \in Nat
  BY SourceFields DEF Tidy
<1>2. k \in Nat /\ k <= Len(s.ring)
  BY <1>1, LeastFacts, Zenon
<1>3. Pop(s, n, limit, e).src = t
  BY DEF Pop
<1> HIDE DEF k
<1>4. q \in Seq(Frames)
  BY <1>1, <1>2
<1> HIDE DEF q
<1>5. t \in Sources /\ t.at = s.at /\ t.fading = s.fading
  BY <1>1, <1>4, Zenon DEF Sources
<1>6. QED BY <1>3, <1>5 DEF Tidy

\* ... the refill ...
LEMMA TidyRefill ==
  ASSUME NEW s, Tidy(s), ~s.fading, s.prim \in Streams \/ s.primaryEOF, NEW f \in Refill(s)
  PROVE  Tidy(f) /\ ~f.fading
<1> DEFINE p == s.prim
           from == s.at[p]
           free == Capacity - Len(s.ring)
           left == Length[p] - from
           most == LeastOf3(free, left, 2 * Scratch + Scratch - 1)
           ring(k) == s.ring \o FramesOf(p, from, k)
           read(k) == [Advance(s, k) EXCEPT !.ring = ring(k)]
<1>1. \/ f = s
      \/ /\ ~s.primaryEOF
         /\ \E k \in 0 .. most : \/ f = read(k)
                                 \/ f = [read(k) EXCEPT !.primaryEOF = TRUE]
                                 \/ f = [read(k) EXCEPT !.pendingErr = TRUE]
  <2>1. \A k : read(k) = [Advance(s, k) EXCEPT !.ring = @ \o FramesOf(p, from, k)]
    BY DEF Advance
  <2>2. \/ f = s
        \/ /\ ~s.primaryEOF
           /\ \/ \E k \in 1 .. most : f = read(k)
              \/ \E k \in 0 .. most : f = [read(k) EXCEPT !.primaryEOF = TRUE]
              \/ \E k \in 0 .. most : f = [read(k) EXCEPT !.pendingErr = TRUE]
    BY <2>1, ZenonT(30) DEF Refill
  <2> HIDE DEF most, read
  <2>3. 1 .. most \subseteq 0 .. most
    OBVIOUS
  <2>4. QED BY <2>2, <2>3, Zenon
<1>2. CASE f = s
  BY <1>2
<1>3. CASE f # s
  <2>1. /\ s \in Sources /\ p \in Streams /\ from \in Nat /\ s.at \in [Streams -> Nat]
        /\ Length[p] \in Nat /\ s.ring \in Seq(Frames) /\ Len(s.ring) \in Nat
        /\ Capacity \in Nat /\ Scratch \in Nat
    <3>1. s \in Sources /\ p \in Streams
      BY <1>1, <1>3, Zenon DEF Tidy
    <3>2. QED BY <3>1, SourceFields, SourceAssumption DEF Capacity
  <2>2. most \in Int /\ most <= left /\ left \in Int
    <3> HIDE DEF p, from
    <3>1. free \in Int /\ left \in Int /\ 2 * Scratch + Scratch - 1 \in Int
      BY <2>1
    <3> HIDE DEF free, left
    <3>2. QED BY <3>1 DEF LeastOf3, Least
  <2> HIDE DEF most, left, read
  <2>3. PICK k \in 0 .. most : \/ f = read(k)
                              \/ f = [read(k) EXCEPT !.primaryEOF = TRUE]
                              \/ f = [read(k) EXCEPT !.pendingErr = TRUE]
    BY <1>1, <1>3, Zenon
  <2>4. k \in Nat /\ k <= left
    BY <2>2
  <2> DEFINE a == Advance(s, k)
             g == FramesOf(p, from, k)
             q == s.ring \o g
             b == [a EXCEPT !.ring = q]
  <2>5. /\ a \in Sources /\ a.at = [s.at EXCEPT ![s.prim] = @ + k] /\ SameFade(s, a)
    BY <2>1, <2>4, Advanced, Zenon
  <2>6. g \in Seq(Frames)
    BY <2>1, <2>4, FramesType, Zenon
  <2>7. read(k) = b
    BY Zenon DEF read
  <2> HIDE DEF a, g
  <2>8. q \in Seq(Frames)
    BY <2>1, <2>6, JoinedFrames
  <2> HIDE DEF q
  <2>9. b \in Sources /\ b.at = a.at /\ b.fading = a.fading
    BY <2>5, <2>8, Zenon DEF Sources
  <2> HIDE DEF b
  <2>10. f \in Sources /\ f.at = a.at /\ f.fading = a.fading
    <3>1. f = b \/ f = [b EXCEPT !.primaryEOF = TRUE] \/ f = [b EXCEPT !.pendingErr = TRUE]
      BY <2>3, <2>7, Zenon
    <3>2. QED BY <2>9, <3>1, Zenon DEF Sources
  <2>11. \A x \in Streams : a.at[x] <= Length[x]
    <3>1. \A x \in Streams : s.at[x] <= Length[x]
      BY Zenon DEF Tidy
    <3>2. k <= Length[s.prim] - s.at[s.prim]
      BY <2>4 DEF left
    <3>3. \A x \in Streams : [s.at EXCEPT ![s.prim] = @ + k][x] <= Length[x]
      <4>1. s.at \in [Streams -> Nat] /\ s.prim \in Streams /\ k \in Nat
        BY <2>1, <2>4
      <4>2. QED BY <3>1, <3>2, <4>1, DecoderMoves, Zenon
    <3>4. QED BY <2>5, <3>3, Zenon
  <2>12. QED BY <2>5, <2>10, <2>11 DEF Tidy, SameFade
<1>4. QED BY <1>2, <1>3

\* ... readFade ...
LEMMA TidyFade ==
  ASSUME NEW s, Tidy(s), s.fading, NEW n \in Nat \ {0}, NEW o \in ReadFade(s, n)
  PROVE  Tidy(o.src)
<1> DEFINE len == Len(s.ring)
           want == LeastOf3(n, s.fadeTotal - s.fadePos, Scratch)
<1>1. /\ s \in Sources /\ s.prim \in Streams /\ s.ring \in Seq(Frames) /\ len \in Nat
      /\ s.fadeTotal \in Nat /\ s.fadePos \in Nat /\ Scratch \in Nat
      /\ s.fadePos + len = s.fadeTotal
  BY SourceFields, SourceAssumption DEF Tidy
<1>2. want \in Nat /\ want <= len
  <2>1. s.fadeTotal - s.fadePos = len
    BY <1>1
  <2>2. want = LeastOf3(n, len, Scratch)
    BY <2>1
  <2>3. QED BY <1>1, <2>2, LeastFacts, ZenonT(30)
<1>3. CASE want = 0
  <2>1. o = [src |-> FinishFade(s), res |-> Result(<<>>, <<>>, "nil")]
    <3>1. want <= 0
      BY <1>3
    <3>2. QED BY <3>1 DEF ReadFade
  <2>2. FinishFade(s) \in Sources /\ FinishFade(s).at = s.at /\ FinishFade(s).fading = FALSE
    BY <1>1, Finished, Zenon
  <2>3. QED BY <2>1, <2>2 DEF Tidy
<1>4. CASE want # 0
  <2>1. PICK d \in Decode(s, want) :
          LET chunk == IF d.n > 0 THEN d.n ELSE want
              mixed == [Advance(s, d.n) EXCEPT
                          !.ring = SubSeq(@, chunk + 1, Len(@)), !.fadePos = @ + chunk]
          IN  o = IF d.err = "failed"
                  THEN [src |-> Advance(s, d.n), res |-> Result(<<>>, <<>>, "failed")]
                  ELSE [src |-> IF mixed.fadePos >= mixed.fadeTotal
                                THEN FinishFade(mixed) ELSE mixed,
                        res |-> Result(SubSeq(s.ring, 1, chunk),
                                       FramesOf(s.prim, s.at[s.prim], d.n), "nil")]
    <3>1. ~(want <= 0)
      BY <1>2, <1>4
    <3>2. QED BY <3>1, Zenon DEF ReadFade
  <2> DEFINE a == Advance(s, d.n)
             chunk == IF d.n > 0 THEN d.n ELSE want
             q == SubSeq(a.ring, chunk + 1, Len(a.ring))
             pos == a.fadePos + chunk
             mixed == [a EXCEPT !.ring = q, !.fadePos = pos]
  <2>2. want \in Nat \ {0}
    BY <1>2, <1>4
  <2> HIDE DEF want
  <2>3. /\ d.n \in Nat /\ d.n <= want /\ a \in Sources /\ SameFade(s, a) /\ a.prim = s.prim
        /\ Tidy(a)
    BY <1>1, <2>2, TidyAdvance, Zenon
  <2> HIDE DEF a
  <2>4. chunk \in Nat /\ chunk <= len
    BY <1>1, <1>2, <2>3
  <2>5. o.src = a \/ o.src = FinishFade(mixed) \/ o.src = mixed
    BY <2>1, Zenon DEF a
  <2> HIDE DEF chunk
  <2>6. /\ a.ring = s.ring /\ a.fadePos = s.fadePos /\ a.fadeTotal = s.fadeTotal
        /\ a.fading = s.fading
    BY <2>3 DEF SameFade
  <2>7. q \in Seq(Frames) /\ Len(q) = len - chunk /\ pos \in Nat
    BY <1>1, <2>4, <2>6
  <2>8. pos + Len(q) = s.fadeTotal
    BY <1>1, <2>4, <2>6, <2>7, SMTT(30)
  <2> HIDE DEF q, pos
  <2>9. /\ mixed \in Sources /\ mixed.at = a.at /\ mixed.prim = a.prim /\ mixed.ring = q
        /\ mixed.fadePos = pos /\ mixed.fadeTotal = a.fadeTotal
    BY <2>3, <2>7, Zenon DEF Sources
  <2> HIDE DEF mixed
  <2>10. Tidy(mixed)
    BY <1>1, <2>3, <2>6, <2>8, <2>9 DEF Tidy
  <2>11. FinishFade(mixed) \in Sources /\ FinishFade(mixed).at = mixed.at
         /\ FinishFade(mixed).fading = FALSE
    BY <2>9, Finished, Zenon
  <2>12. Tidy(FinishFade(mixed))
    BY <2>10, <2>11 DEF Tidy
  <2>13. QED BY <2>3, <2>5, <2>10, <2>12
<1>5. QED BY <1>3, <1>4

\* ... and readCrossfade, ...
LEMMA TidyServe ==
  ASSUME NEW s, Tidy(s), ~s.fading, NEW n \in Nat \ {0}, NEW o \in ServeCrossfade(s, n)
  PROVE  Tidy(o.src)
<1> DEFINE len == Len(s.ring)
           r == ReportDone(s)
           w == Switch(r)
           t == [w EXCEPT !.fading = TRUE, !.fadeTotal = len, !.fadePos = 0]
<1>1. /\ s \in Sources /\ len \in Nat /\ Fade \in Nat /\ s.sec \in Streams \cup {None}
  BY SourceFields, SourceAssumption DEF Tidy
<1>2. r \in Sources /\ SameFade(s, r) /\ r.at = s.at /\ r.sec = s.sec
  BY <1>1, Reported
<1>3. \/ \E limit \in Nat, e \in {"nil", "EOF"} :
           o = Pop(s, n, limit, e) \/ o = Pop(r, n, limit, e)
      \/ o.src = [s EXCEPT !.pendingErr = FALSE]
      \/ s.sec # None /\ o \in ReadFade(t, n)
  <2> DEFINE over == len - Fade
             limit == IF over <= 0 THEN len ELSE over
  <2>1. limit \in Nat /\ (over > 0 => over \in Nat)
    BY <1>1
  <2>2. \/ o = Pop(s, n, limit, "nil") \/ o = Pop(s, n, len, "nil")
        \/ o = [src |-> [s EXCEPT !.pendingErr = FALSE], res |-> Result(<<>>, <<>>, "failed")]
        \/ over > 0 /\ o = Pop(s, n, over, "nil")
        \/ s.sec # None /\ o \in ReadFade(t, n)
        \/ o = Pop(r, n, len, "EOF")
    BY ZenonT(30) DEF ServeCrossfade
  <2> HIDE DEF over, limit, r, t, len
  <2>3. CASE o = [src |-> [s EXCEPT !.pendingErr = FALSE], res |-> Result(<<>>, <<>>, "failed")]
    BY <2>3
  <2>4. QED BY <1>1, <2>1, <2>2, <2>3, Zenon
<1> HIDE DEF r
<1>4. Tidy(r) /\ ~r.fading
  BY <1>2 DEF Tidy, SameFade
<1>5. CASE \E limit \in Nat, e \in {"nil", "EOF"} :
             o = Pop(s, n, limit, e) \/ o = Pop(r, n, limit, e)
  BY <1>4, <1>5, TidyPop
<1>6. CASE o.src = [s EXCEPT !.pendingErr = FALSE]
  <2>1. o.src \in Sources /\ o.src.at = s.at /\ o.src.fading = s.fading
    BY <1>1, <1>6, Zenon DEF Sources
  <2>2. QED BY <2>1 DEF Tidy
<1>7. CASE s.sec # None /\ o \in ReadFade(t, n)
  <2>1. w \in Sources /\ SameFade(r, w) /\ w.at = r.at /\ w.prim = s.sec
    BY <1>2, Switched
  <2> HIDE DEF w, len
  <2>2. /\ t \in Sources /\ t.at = w.at /\ t.prim = w.prim /\ t.ring = w.ring /\ t.fading = TRUE
        /\ t.fadeTotal = len /\ t.fadePos = 0
    BY <1>1, <2>1, Zenon DEF Sources
  <2> HIDE DEF t
  <2>3. 0 + Len(t.ring) = t.fadeTotal
    BY <1>1, <1>2, <2>1, <2>2 DEF SameFade, len
  <2>4. Tidy(t)
    BY <1>1, <1>2, <1>7, <2>1, <2>2, <2>3 DEF Tidy
  <2>5. QED BY <1>7, <2>2, <2>4, TidyFade
<1>8. QED BY <1>3, <1>5, <1>6, <1>7

\* ... so that every Read does.
LEMMA TidyRead ==
  ASSUME NEW s, Tidy(s), CanRead(s), NEW n \in Nat \ {0}, NEW o \in Read(s, n)
  PROVE  Tidy(o.src)
<1>1. s \in Sources /\ s.prim \in Streams \cup {None} /\ Fade \in Nat
  BY SourceFields, SourceAssumption DEF Tidy
<1>2. s.prim \in Streams \/ (Fade > 0 /\ s.primaryEOF)
  BY <1>1 DEF CanRead
<1>3. CASE s.fading
  <2>1. o \in ReadFade(s, n) \/ (Fade = 0 /\ o \in ReadDirect(s, n))
    BY <1>3 DEF Read, ReadCrossfade, DeclinesCrossfade
  <2>2. QED BY <1>3, <2>1, TidyFade, TidyDirect DEF Tidy
<1>4. CASE ~s.fading
  <2>1. CASE o \in ReadDirect(s, n) /\ (Fade = 0 \/ DeclinesCrossfade(s))
    <3>1. s.prim \in Streams
      BY <1>2, <2>1, SourceAssumption DEF DeclinesCrossfade
    <3>2. QED BY <1>4, <2>1, <3>1, TidyDirect
  <2>2. CASE o \in ReadCrossfade(s, n)
    <3>1. PICK f \in Refill(s) : o \in ServeCrossfade(f, n)
      BY <1>4, <2>2 DEF ReadCrossfade
    <3>2. Tidy(f) /\ ~f.fading
      BY <1>2, <1>4, TidyRefill
    <3>3. QED BY <3>1, <3>2, TidyServe
  <2>3. QED BY <2>1, <2>2 DEF Read
<1>5. QED BY <1>3, <1>4

\* The methods that set streams and seek keep it as well.
LEMMA TidySets ==
  ASSUME NEW s, Tidy(s)
  PROVE  /\ \A x \in Streams : Tidy(SetPrimary(s, x))
         /\ \A x \in Streams \cup {None} : Tidy(SetSecondary(s, x))
         /\ \A ok \in BOOLEAN : Tidy(SetPosition(s, 0, ok))
         /\ Tidy([s EXCEPT !.done = FALSE])
<1> DEFINE r == ResetCrossfade(s)
<1>1. s \in Sources /\ s.at \in [Streams -> Nat] /\ s.prim \in Streams \cup {None}
  BY SourceFields DEF Tidy
<1>2. /\ r \in Sources /\ r.at = s.at /\ r.prim = s.prim
      /\ r = s \/ r.fading = FALSE
  <2> DEFINE e == FinishFade(s)
  <2>1. e \in Sources /\ e.at = s.at /\ e.prim = s.prim /\ e.fading = FALSE
    BY <1>1, Finished, Zenon
  <2>2. r = s \/ r = [e EXCEPT !.pendingErr = FALSE]
    BY DEF ResetCrossfade
  <2> HIDE DEF e, r
  <2>3. QED BY <1>1, <2>1, <2>2, Zenon DEF Sources
<1> HIDE DEF r
<1>3. Tidy(r)
  BY <1>2 DEF Tidy
<1>4. ASSUME NEW x \in Streams
      PROVE  Tidy(SetPrimary(s, x))
  <2> DEFINE p == [r EXCEPT !.prim = x]
             t == IF s.prim # x THEN p ELSE s
             z == IF t.sec = x THEN None ELSE t.sec
             u == [t EXCEPT !.sec = z, !.eofReported = FALSE]
  <2>1. p \in Sources /\ p.at = r.at /\ p.prim = x /\ p.fading = r.fading
        /\ p.fadePos = r.fadePos /\ p.fadeTotal = r.fadeTotal /\ p.ring = r.ring
    BY <1>2, Zenon DEF Sources
  <2> HIDE DEF p
  <2>2. Tidy(p)
    BY <1>3, <2>1 DEF Tidy
  <2>3. Tidy(t) /\ t \in Sources
    BY <2>2 DEF Tidy
  <2>4. SetPrimary(s, x) = u
    BY Zenon DEF SetPrimary, r, p
  <2> HIDE DEF t
  <2>5. z \in Streams \cup {None}
    BY <2>3, SourceFields
  <2> HIDE DEF z
  <2>6. u \in Sources /\ u.at = t.at /\ u.prim = t.prim /\ u.fading = t.fading
        /\ u.fadePos = t.fadePos /\ u.fadeTotal = t.fadeTotal /\ u.ring = t.ring
    BY <2>3, <2>5, Zenon DEF Sources
  <2> HIDE DEF u
  <2>7. Tidy(u)
    BY <2>3, <2>6 DEF Tidy
  <2>8. QED BY <2>4, <2>7
<1>5. ASSUME NEW x \in Streams \cup {None}
      PROVE  Tidy(SetSecondary(s, x))
  <2> DEFINE u == SetSecondary(s, x)
  <2>1. u \in Sources /\ u.at = s.at /\ u.prim = s.prim /\ u.fading = s.fading
        /\ u.fadePos = s.fadePos /\ u.fadeTotal = s.fadeTotal /\ u.ring = s.ring
    BY <1>1, Zenon DEF Sources, SetSecondary
  <2> HIDE DEF u
  <2>2. Tidy(u)
    BY <2>1 DEF Tidy
  <2>3. QED BY <2>2 DEF u
<1>6. ASSUME NEW ok \in BOOLEAN
      PROVE  Tidy(SetPosition(s, 0, ok))
  <2>1. CASE SetPosition(s, 0, ok) \in {s, r}
    BY <1>3, <2>1
  <2>2. CASE SetPosition(s, 0, ok) \notin {s, r}
    <3> DEFINE at == [r.at EXCEPT ![s.prim] = 0]
               y == IF Fade > 0 THEN FALSE ELSE r.eofReported
               u == [r EXCEPT !.at = at, !.eofReported = y]
    <3>1. s.prim \in Streams /\ SetPosition(s, 0, ok) = u
      BY <1>1, <1>2, <2>2 DEF SetPosition, r, Sources
    <3>2. at \in [Streams -> Nat] /\ y \in BOOLEAN
      BY <1>1, <1>2, Zenon DEF Sources
    <3>3. \A x \in Streams : at[x] <= Length[x]
      <4>1. \A x \in Streams : r.at[x] <= Length[x]
        BY <1>3, Zenon DEF Tidy
      <4>2. \A x \in Streams : 0 <= Length[x]
        BY SourceAssumption
      <4>3. \A x \in Streams : at[x] = 0 \/ at[x] = r.at[x]
        BY <1>1, <1>2, <3>1
      <4>4. QED BY <4>1, <4>2, <4>3, Zenon
    <3> HIDE DEF at, y
    <3>4. u \in Sources /\ u.at = at /\ u.prim = r.prim /\ u.fading = r.fading
          /\ u.fadePos = r.fadePos /\ u.fadeTotal = r.fadeTotal /\ u.ring = r.ring
      BY <1>2, <3>2, Zenon DEF Sources
    <3> HIDE DEF u
    <3>5. Tidy(u)
      BY <1>3, <3>3, <3>4 DEF Tidy
    <3>6. QED BY <3>1, <3>5
  <2>3. QED BY <2>1, <2>2
<1>7. Tidy([s EXCEPT !.done = FALSE])
  <2> DEFINE u == [s EXCEPT !.done = FALSE]
  <2>1. u \in Sources /\ u.at = s.at /\ u.prim = s.prim /\ u.fading = s.fading
        /\ u.fadePos = s.fadePos /\ u.fadeTotal = s.fadeTotal /\ u.ring = s.ring
    BY <1>1, Zenon DEF Sources
  <2> HIDE DEF u
  <2>2. Tidy(u)
    BY <2>1 DEF Tidy
  <2>3. QED BY <2>2 DEF u
<1>8. QED BY <1>4, <1>5, <1>6, <1>7

\* A new source is tidy.
LEMMA TidyInitially == Tidy(NewSource)
<1>1. NewSource \in Sources
  <2>1. [x \in Streams |-> 0] \in [Streams -> Nat] /\ <<>> \in Seq(Frames)
    OBVIOUS
  <2>2. QED BY <2>1 DEF NewSource, Sources
<1>2. QED BY <1>1, SourceAssumption DEF Tidy, NewSource

---------------------------------------------------------------------------
(***************************************************************************)
(* The commands and their answers                                          *)
(***************************************************************************)

\* The steps between commands, and those after the answer.
Resting == {"select", "closing", "closed"}
Late == {"tell", "late", "stopped"}

\* A command as the methods of the player send it.
Proper(m) ==
  /\ m \in Commands /\ m # NoCommand /\ m.type # "none" /\ m.from \in Clients
  /\ m.type = "set" => m.arg \in Streams
  /\ m.type = "secondary" => m.arg \in Streams \cup {None}
  /\ m.type = "reopen" => m.arg \in Devices
  /\ m.type = "seek" => m.paused = FALSE

\* manageLoop is at a step of the command it handles, whose client waits until it is answered.
Conversing ==
  /\ \A c \in Clients : ~Idle(c) => Proper(client[c]) /\ client[c].from = c
  /\ \A c \in Clients : answer[c] # "none" => ~Idle(c)
  /\ mpc \in Resting <=> cmd = NoCommand
  /\ cmd # NoCommand => Proper(cmd)
  /\ cmd # NoCommand /\ mpc \notin Late =>
       client[cmd.from] = cmd /\ answer[cmd.from] = "none"
  /\ mpc \in {"drop", "setprimary"} => cmd.type = "set"
  /\ mpc \in {"secondary", "reopen"} => cmd.type = mpc

\* The types of what only manageLoop, its clients and their channels use.
Typed ==
  /\ mpc \in Steps /\ cmd \in Commands
  /\ client \in [Clients -> Commands] /\ answer \in [Clients -> {"none", "ok", "error"}]

\* A client sends a command.
Sends ==
  /\ \E c \in Clients, new \in Commands :
       /\ Proper(new) /\ new.from = c /\ Idle(c) /\ client' = [client EXCEPT ![c] = new]
  /\ issued < MaxCommands /\ issued' = issued + 1
  /\ fresh' \subseteq fresh
  /\ UNCHANGED <<playerVars, answer, history>>

\* manageLoop moves on, as far as its clients notice: to another step of the command, with the
\* answer to what is left to do, with the answer to its select, from there after the answer, or
\* to its end.
Moves ==
  /\ cmd # NoCommand
  /\ client' = client
  /\ \/ /\ mpc \notin Resting \cup Late /\ mpc' \in Steps \ (Resting \cup Late)
        /\ cmd' = cmd /\ answer' = answer
        /\ mpc' \in {"drop", "setprimary"} => cmd.type = "set"
        /\ mpc' \notin {"secondary", "reopen"}
     \/ /\ mpc \notin Resting \cup Late /\ mpc' \in {"tell", "stopped"}
        /\ cmd' = cmd /\ answer' = [answer EXCEPT ![cmd.from] = "ok"]
     \/ /\ mpc \notin Resting \cup Late /\ mpc' = "select" /\ cmd' = NoCommand
        /\ \E a \in {"ok", "error"} : answer' = [answer EXCEPT ![cmd.from] = a]
     \/ /\ mpc \in Late /\ answer' = answer
        /\ (mpc' = "late" /\ cmd' = cmd) \/ (mpc' = "select" /\ cmd' = NoCommand)
     \/ /\ mpc = "close" /\ mpc' = "closing" /\ cmd' = NoCommand /\ answer' = answer

\* A command built by a client is proper.
LEMMA CommandFacts ==
  /\ NoCommand \in Commands
  /\ \A type, from, arg, p, drop :
       /\ Command(type, from, arg, p, drop).type = type
       /\ Command(type, from, arg, p, drop).from = from
       /\ Command(type, from, arg, p, drop).arg = arg
       /\ Command(type, from, arg, p, drop).paused = p
       /\ type # "none" => Command(type, from, arg, p, drop) # NoCommand
  /\ \A type \in {"set", "secondary", "play", "pause", "stop", "seek", "position", "reopen",
                 "close"},
        from \in Clients, arg \in Streams \cup Devices \cup {None}, p, drop \in BOOLEAN :
       Command(type, from, arg, p, drop) \in Commands
<1>1. NoCommand \in Commands
  BY DEF NoCommand, Commands
<1>2. ASSUME NEW type, NEW from, NEW arg, NEW p, NEW drop
      PROVE  /\ Command(type, from, arg, p, drop).type = type
             /\ Command(type, from, arg, p, drop).from = from
             /\ Command(type, from, arg, p, drop).arg = arg
             /\ Command(type, from, arg, p, drop).paused = p
             /\ type # "none" => Command(type, from, arg, p, drop) # NoCommand
  BY DEF Command, NoCommand
<1>3. ASSUME NEW type \in {"set", "secondary", "play", "pause", "stop", "seek", "position",
                          "reopen", "close"},
             NEW from \in Clients, NEW arg \in Streams \cup Devices \cup {None},
             NEW p \in BOOLEAN, NEW drop \in BOOLEAN
      PROVE  Command(type, from, arg, p, drop) \in Commands
  BY DEF Command, Commands
<1>4. QED BY <1>1, <1>2, <1>3

\* The calls of the clients send proper commands.
LEMMA ClientsSend ==
  ASSUME fresh \subseteq Streams, src \in Sources
  PROVE  /\ \A s \in Streams, p, drop \in BOOLEAN : SetPrimaryStream(s, p, drop) => Sends
         /\ \A s \in Streams \cup {None} : SetSecondaryStream(s) => Sends
         /\ \A t \in Controls \ {"secondary", "reopen"} : Control(t) => Sends
         /\ \A d \in Devices : Reopen(d) => Sends
<1>1. RunLoop \in Clients /\ Loader \in Clients
  BY DEF Clients
<1>2. ASSUME NEW s \in Streams, NEW p \in BOOLEAN, NEW drop \in BOOLEAN,
             SetPrimaryStream(s, p, drop)
      PROVE  Sends
  <2> DEFINE new == Command("set", Loader, s, p, drop)
  <2>1. Send(Loader, new) /\ fresh' = fresh \ {s}
    BY <1>2 DEF SetPrimaryStream
  <2>2. Proper(new) /\ new.from = Loader /\ new \in Commands
    BY <1>1 DEF Proper, Command, Commands, NoCommand
  <2> HIDE DEF new
  <2>3. QED BY <1>1, <2>1, <2>2, Zenon DEF Send, Sends
<1>3. ASSUME NEW s \in Streams \cup {None}, SetSecondaryStream(s)
      PROVE  Sends
  <2> DEFINE new == Command("secondary", RunLoop, s, FALSE, FALSE)
  <2>1. Send(RunLoop, new) /\ fresh' = fresh \ {s}
    BY <1>3, Zenon DEF SetSecondaryStream
  <2>2. Proper(new) /\ new.from = RunLoop /\ new \in Commands
    BY <1>1 DEF Proper, Command, Commands, NoCommand
  <2> HIDE DEF new
  <2>3. QED BY <1>1, <2>1, <2>2, Zenon DEF Send, Sends
<1>4. ASSUME NEW t \in Controls \ {"secondary", "reopen"}, Control(t)
      PROVE  Sends
  <2> DEFINE new == Command(t, RunLoop, None, FALSE, FALSE)
  <2>1. Send(RunLoop, new) /\ fresh' = fresh
    BY <1>4, Zenon DEF Control
  <2>2. t \in {"play", "pause", "stop", "seek", "position", "close"}
    BY PlayerAssumption
  <2>3. Proper(new) /\ new.from = RunLoop /\ new \in Commands
    BY <1>1, <2>2 DEF Proper, Command, Commands, NoCommand
  <2> HIDE DEF new
  <2>4. QED BY <1>1, <2>1, <2>3, Zenon DEF Send, Sends
<1>5. ASSUME NEW d \in Devices, Reopen(d)
      PROVE  Sends
  <2> DEFINE new == Command("reopen", RunLoop, d, FALSE, FALSE)
  <2>1. Send(RunLoop, new) /\ fresh' = fresh
    BY <1>5, ZenonT(30) DEF Reopen
  <2>2. Proper(new) /\ new.from = RunLoop /\ new \in Commands
    BY <1>1 DEF Proper, Command, Commands, NoCommand
  <2> HIDE DEF new
  <2>3. QED BY <1>1, <2>1, <2>2, Zenon DEF Send, Sends
<1>6. QED BY <1>2, <1>3, <1>4, <1>5

\* Every step of a command is such a move.
LEMMA HandleMoves ==
  ASSUME Typed, Conversing, Handle, mpc # "closing"
  PROVE  Moves
<1> USE DEF Resting, Late, Moves, Steps, Reply, Finish, asked, clientVars
<1>1. mpc \notin Resting => cmd # NoCommand
  BY DEF Conversing
<1>2. CASE EnsureOutput
  BY <1>1, <1>2, SMTT(30) DEF EnsureOutput
<1>3. CASE CountStream
  BY <1>1, <1>3 DEF CountStream, Conversing
<1>4. CASE PutStream
  BY <1>1, <1>4 DEF PutStream
<1>5. CASE RunOutputOp
  BY <1>1, <1>5 DEF RunOutputOp
<1>6. CASE Tell
  BY <1>1, <1>6 DEF Tell
<1>7. CASE CallLate
  BY <1>1, <1>7 DEF CallLate
<1>8. CASE PauseNothing
  BY <1>1, <1>8 DEF PauseNothing
<1>9. CASE PutSecondary
  BY <1>1, <1>9 DEF PutSecondary
<1>10. CASE StopOutput
  BY <1>1, <1>10 DEF StopOutput
<1>11. CASE TellStopped
  BY <1>1, <1>11 DEF TellStopped
<1>12. CASE SeekSource
  BY <1>1, <1>12 DEF SeekSource
<1>13. CASE SeekResumes
  BY <1>1, <1>13 DEF SeekResumes
<1>14. CASE ReopenOutput
  BY <1>1, <1>14 DEF ReopenOutput
<1>15. CASE RestoreOutput
  BY <1>1, <1>15 DEF RestoreOutput
<1>16. CASE TellPosition
  BY <1>1, <1>16 DEF TellPosition
<1>17. CASE Close
  BY <1>1, <1>17 DEF Close
<1>18. CASE CloseOutput
  BY <1>18 DEF CloseOutput
<1>19. QED BY <1>2, <1>3, <1>4, <1>5, <1>6, <1>7, <1>8, <1>9, <1>10, <1>11, <1>12, <1>13, <1>14,
             <1>15, <1>16, <1>17, <1>18, ZenonT(30) DEF Handle

\* A move keeps the conversation ...
LEMMA MovesConverse ==
  ASSUME Typed, Conversing, Moves
  PROVE  Typed' /\ Conversing'
<1>1. cmd # NoCommand /\ Proper(cmd) /\ cmd.from \in Clients /\ NoCommand \in Commands
  BY CommandFacts DEF Moves, Conversing, Proper
<1>2. Typed'
  BY <1>1 DEF Typed, Moves, Steps, Resting, Late
<1>3. Conversing'
  BY <1>1 DEF Typed, Moves, Steps, Resting, Late, Conversing, Idle
<1>4. QED BY <1>2, <1>3, SMTT(30)

\* ... and so do the clients and the select.
LEMMA OthersConverse ==
  ASSUME Typed, Conversing,
         \/ Sends \/ (\E c \in Clients : Answered(c) \/ Receive(c))
         \/ (CloseOutput /\ mpc = "closing")
         \/ UNCHANGED <<mpc, cmd, client, answer>>
  PROVE  Typed' /\ Conversing'
<1>1. NoCommand \in Commands
  BY CommandFacts
<1>2. CASE Sends
  BY <1>2 DEF Sends, Typed, Conversing, Idle, playerVars
<1>3. ASSUME NEW c \in Clients, Answered(c)
      PROVE  Typed' /\ Conversing'
  BY <1>1, <1>3 DEF Answered, Typed, Conversing, Idle, playerVars, Closed, Resting, Late
<1>4. ASSUME NEW c \in Clients, Receive(c)
      PROVE  Typed' /\ Conversing'
  <2>1. client[c] \in Commands /\ Proper(client[c]) /\ client[c].from = c
    BY <1>4 DEF Receive, Typed, Conversing
  <2>2. /\ mpc' \in Steps \ (Resting \cup Late)
        /\ mpc' \notin {"drop", "setprimary"}
        /\ mpc' \in {"secondary", "reopen"} => client[c].type = mpc'
    <3>1. client[c].type \in {"set", "secondary", "play", "pause", "stop", "seek", "position",
                             "reopen", "close"}
      BY <2>1 DEF Proper, Commands
    <3>2. mpc' = CASE client[c].type \in {"set", "play"} -> "open"
                   [] client[c].type = "pause" -> IF out = NoOutput THEN "nothing" ELSE "call"
                   [] OTHER -> client[c].type
      BY <1>4 DEF Receive
    <3>3. QED BY <3>1, <3>2, SMTT(30) DEF Steps, Resting, Late
  <2>3. /\ cmd' = client[c] /\ client' = client /\ answer' = answer /\ ~Idle(c)
        /\ answer[c] = "none"
    BY <1>4 DEF Receive, clientVars, asked
  <2>4. Typed'
    BY <2>1, <2>2, <2>3, SMTT(30) DEF Typed
  <2>5. Conversing'
    BY <2>1, <2>2, <2>3, Zenon DEF Conversing, Idle, Proper
  <2>6. QED BY <2>4, <2>5
<1>5. CASE CloseOutput /\ mpc = "closing"
  BY <1>5 DEF CloseOutput, Typed, Conversing, Idle, Resting, Late, Steps, clientVars, asked
<1>6. CASE UNCHANGED <<mpc, cmd, client, answer>>
  BY <1>6 DEF Typed, Conversing, Idle
<1>7. QED BY <1>2, <1>3, <1>4, <1>5, <1>6

---------------------------------------------------------------------------
(***************************************************************************)
(* The output and the pause                                                *)
(***************************************************************************)

\* An output that is open is on device d.
OnDevice(o, d) ==
  /\ o \in Outputs
  /\ o # NoOutput => o.state \in {"paused", "playing", "failed"} /\ o.device = d

\* The steps that leave a playing output to the next command.
Trusting == {"select", "nothing", "secondary", "stopped", "seek", "sought", "position"}

\* The output is on the current device and there when it is called; and it does not play against
\* the pause, once the call that is under way is made.
OutputKept ==
  /\ optimistic \in BOOLEAN /\ paused \in BOOLEAN /\ device \in Devices
  /\ OnDevice(out, device)
  /\ mpc \in {"drop", "setprimary", "call", "tell", "late", "restore"} => out # NoOutput
  /\ mpc = "nothing" => out = NoOutput
  /\ mpc \in Trusting /\ out.state = "playing" => ~paused
  /\ mpc = "tell" /\ ~optimistic /\ out.state = "playing" => ~Pauses
  /\ mpc = "late" /\ paused => Pauses
  /\ cmd.type = "seek" /\ mpc \in {"open", "call", "tell", "late"} => ~paused

\* What the calls of the output device return.
LEMMA OutputCalls ==
  /\ NoOutput \in Outputs /\ NoOutput.state = "none"
  /\ \A d \in Devices : \A o \in OpenedOn(d) : OnDevice(o, d) /\ o # NoOutput
  /\ \A d \in Devices : OnDevice(out, d) /\ out # NoOutput =>
       /\ \A st \in {"paused", "playing"} :
            /\ OnDevice(Called(st), d) /\ Called(st) # NoOutput
            /\ Called(st).state \in {st, "failed"}
       /\ \A o \in Dropped \cup {Broken} :
            /\ OnDevice(o, d) /\ o # NoOutput
            /\ o.state = "playing" => out.state = "playing"
  /\ \A d \in Devices, st \in {"paused", "failed"} :
       OnDevice(out, d) /\ out # NoOutput =>
         /\ OnDevice([out EXCEPT !.state = st], d) /\ [out EXCEPT !.state = st] # NoOutput
         /\ [out EXCEPT !.state = st].state = st
<1>1. NoOutput \in Outputs /\ NoOutput.state = "none"
  BY DEF NoOutput, Outputs
<1>2. ASSUME NEW d \in Devices, NEW o \in OpenedOn(d)
      PROVE  OnDevice(o, d) /\ o # NoOutput
  <2>1. /\ o \in [state : {"paused", "playing"}, device : {d}, broken : {FALSE}]
        /\ o.state \in {"paused", "playing"} /\ o.device = d
    BY <1>2, Zenon DEF OpenedOn
  <2>2. o \in Outputs
    BY <2>1, Zenon DEF Outputs
  <2>3. QED BY <1>1, <2>1, <2>2 DEF OnDevice
<1>3. ASSUME NEW d \in Devices, OnDevice(out, d), out # NoOutput,
             NEW st \in {"paused", "playing", "failed"}
      PROVE  /\ OnDevice([out EXCEPT !.state = st], d) /\ [out EXCEPT !.state = st] # NoOutput
             /\ [out EXCEPT !.state = st].state = st
  BY <1>3 DEF OnDevice, Outputs, NoOutput
<1>4. ASSUME NEW d \in Devices, OnDevice(out, d), out # NoOutput, NEW st \in {"paused", "playing"}
      PROVE  /\ OnDevice(Called(st), d) /\ Called(st) # NoOutput
             /\ Called(st).state \in {st, "failed"}
  <2>1. CASE out.state = "failed"
    <3>1. Called(st) = out
      BY <1>4, <2>1 DEF Called, OnDevice, Outputs
    <3>2. QED BY <1>4, <2>1, <3>1
  <2>2. CASE out.state # "failed"
    <3>1. Called(st) = [out EXCEPT !.state = st]
      BY <1>4, <2>2 DEF Called, OnDevice, Outputs
    <3>2. QED BY <1>3, <1>4, <3>1
  <2>3. QED BY <2>1, <2>2
<1>5. ASSUME NEW d \in Devices, OnDevice(out, d), out # NoOutput
      PROVE  /\ OnDevice(Broken, d) /\ Broken # NoOutput /\ Broken.state = out.state
  BY <1>5, ZenonT(30) DEF Broken, OnDevice, Outputs, NoOutput
<1>6. ASSUME NEW d \in Devices, OnDevice(out, d), out # NoOutput, NEW o \in Dropped \cup {Broken}
      PROVE  /\ OnDevice(o, d) /\ o # NoOutput
             /\ o.state = "playing" => out.state = "playing"
  BY <1>4, <1>5, <1>6 DEF Dropped
<1>7. QED BY <1>1, <1>2, <1>3, <1>4, <1>6

\* Every step of a command keeps the output ...
LEMMA HandleKeeps ==
  ASSUME Typed, Conversing, OutputKept, Handle
  PROVE  OutputKept'
<1> USE DEF OutputKept, Trusting, Finish, Reply, asked, clientVars
<1>1. NoOutput.state = "none" /\ \A d \in Devices : OnDevice(NoOutput, d)
  BY OutputCalls DEF OnDevice
<1>2. NoCommand.type = "none"
  BY DEF NoCommand
<1>3. CASE EnsureOutput
  BY <1>1, <1>2, <1>3, OutputCalls, SMTT(30) DEF EnsureOutput
<1>4. CASE CountStream
  <2>1. OnDevice(out', device) /\ out' # NoOutput
    BY <1>4, OutputCalls, SMTT(30) DEF CountStream
  <2>2. QED BY <1>4, <2>1 DEF CountStream, Conversing
<1>5. CASE PutStream
  BY <1>5 DEF PutStream, Conversing
<1>6. CASE RunOutputOp
  BY <1>1, <1>2, <1>6, OutputCalls DEF RunOutputOp, CallOutput, Pauses
<1>7. CASE Tell
  BY <1>2, <1>7, Zenon DEF Tell, OnSuccess, Pauses
<1>8. CASE CallLate
  BY <1>1, <1>2, <1>8, OutputCalls DEF CallLate, CallOutput
<1>9. CASE PauseNothing
  BY <1>1, <1>2, <1>9 DEF PauseNothing
<1>10. CASE PutSecondary
  BY <1>2, <1>10 DEF PutSecondary
<1>11. CASE StopOutput
  BY <1>1, <1>11 DEF StopOutput
<1>12. CASE TellStopped
  BY <1>2, <1>12 DEF TellStopped
<1>13. CASE SeekSource
  BY <1>1, <1>2, <1>13, OutputCalls DEF SeekSource
<1>14. CASE SeekResumes
  BY <1>2, <1>14 DEF SeekResumes
<1>15. CASE ReopenOutput
  <2>1. cmd.arg \in Devices
    BY <1>15 DEF ReopenOutput, Conversing, Proper, Resting
  <2>2. QED BY <1>1, <1>2, <1>15, <2>1, OutputCalls, SMTT(30) DEF ReopenOutput
<1>16. CASE RestoreOutput
  BY <1>1, <1>2, <1>16, OutputCalls DEF RestoreOutput
<1>17. CASE TellPosition
  BY <1>2, <1>17 DEF TellPosition
<1>18. CASE Close
  BY <1>2, <1>18 DEF Close
<1>19. CASE CloseOutput
  BY <1>1, <1>19, SMTT(30) DEF CloseOutput
<1>20. QED BY <1>3, <1>4, <1>5, <1>6, <1>7, <1>8, <1>9, <1>10, <1>11, <1>12, <1>13, <1>14, <1>15,
             <1>16, <1>17, <1>18, <1>19, ZenonT(30) DEF Handle

\* ... and so do the select, the device and the clients.
LEMMA OthersKeep ==
  ASSUME Typed, Conversing, OutputKept,
         \/ Sends \/ (\E c \in Clients : Answered(c) \/ Receive(c))
         \/ ReceiveEvent \/ OutputExited \/ SourceDone \/ OutputReads \/ OutputFails
         \/ UNCHANGED vars
  PROVE  OutputKept'
<1> USE DEF OutputKept, Trusting
<1>1. CASE Sends
  BY <1>1 DEF Sends, playerVars, Pauses
<1>2. ASSUME NEW c \in Clients, Answered(c)
      PROVE  OutputKept'
  BY <1>2, SMTT(30) DEF Answered, playerVars, Pauses
<1>3. ASSUME NEW c \in Clients, Receive(c)
      PROVE  OutputKept'
  <2>1. /\ mpc = "select" /\ cmd' = client[c]
        /\ mpc' \in {"drop", "setprimary", "call", "tell", "late", "restore"} => out # NoOutput
        /\ mpc' = "nothing" => out = NoOutput
        /\ mpc' \notin {"tell", "late"}
        /\ cmd'.type = "seek" => mpc' = "seek"
    <3>1. client[c].type \in {"set", "secondary", "play", "pause", "stop", "seek", "position",
                             "reopen", "close"}
      BY <1>3 DEF Receive, Conversing, Proper, Commands
    <3>2. /\ mpc = "select" /\ cmd' = client[c]
          /\ mpc' = CASE client[c].type \in {"set", "play"} -> "open"
                      [] client[c].type = "pause" -> IF out = NoOutput THEN "nothing" ELSE "call"
                      [] OTHER -> client[c].type
      BY <1>3 DEF Receive
    <3>3. QED BY <3>1, <3>2
  <2>2. UNCHANGED <<optimistic, out, paused, device>>
    BY <1>3 DEF Receive
  <2>3. QED BY <2>1, <2>2, Zenon
<1>4. CASE ReceiveEvent
  BY <1>4 DEF ReceiveEvent, Pauses
<1>5. CASE OutputExited
  BY <1>5, OutputCalls DEF OutputExited, Pauses, OnDevice
<1>6. CASE SourceDone
  BY <1>6 DEF SourceDone, Pauses
<1>7. ASSUME out.state = "playing", out' = out \/ \E st \in {"paused", "failed"} :
                                                 out' = [out EXCEPT !.state = st],
             UNCHANGED <<optimistic, paused, device, mpc, cmd>>
      PROVE  OutputKept'
  <2>1. out # NoOutput
    BY <1>7, OutputCalls
  <2>2. /\ OnDevice(out', device) /\ out' # NoOutput
        /\ out'.state = "playing" => out.state = "playing"
    BY <1>7, <2>1, OutputCalls
  <2>3. QED BY <1>7, <2>1, <2>2 DEF Pauses
<1>8. CASE OutputReads
  <2>1. out' = out \/ \E st \in {"paused", "failed"} : out' = [out EXCEPT !.state = st]
    <3>1. PICK o \in Read(src, 1) :
             out' = [out EXCEPT !.state = CASE o.res.err = "EOF" -> "paused"
                                            [] o.res.err = "failed" -> "failed"
                                            [] OTHER -> @]
      BY <1>8 DEF OutputReads
    <3>2. out \in Outputs
      BY DEF OnDevice
    <3>3. CASE o.res.err = "EOF"
      BY <3>1, <3>3
    <3>4. CASE o.res.err = "failed"
      BY <3>1, <3>4
    <3>5. CASE o.res.err \notin {"EOF", "failed"}
      <4>1. out' = [out EXCEPT !.state = out.state]
        BY <3>1, <3>5
      <4>2. QED BY <3>2, <4>1 DEF Outputs
    <3>6. QED BY <3>3, <3>4, <3>5
  <2>2. out.state = "playing" /\ UNCHANGED <<optimistic, paused, device, mpc, cmd>>
    BY <1>8 DEF OutputReads
  <2>3. QED BY <1>7, <2>1, <2>2
<1>9. CASE OutputFails
  <2>1. out.state = "playing" /\ UNCHANGED <<optimistic, paused, device, mpc, cmd>>
        /\ out' = [out EXCEPT !.state = "failed"]
    BY <1>9, SMTT(30) DEF OutputFails
  <2>2. QED BY <1>7, <2>1
<1>10. CASE UNCHANGED vars
  BY <1>10 DEF vars, playerVars, Pauses
<1>11. QED BY <1>1, <1>2, <1>3, <1>4, <1>5, <1>6, <1>8, <1>9, <1>10, ZenonT(30)

---------------------------------------------------------------------------
(***************************************************************************)
(* Consistency                                                             *)
(***************************************************************************)

Events == [type : {"play", "pause", "resume", "stop", "notplaying"}, gen : Nat]

\* The types of the counters, the events and the history.
Counted ==
  /\ streamGen \in Nat /\ setGen \in Nat
  /\ ev \in Seq(Events) /\ Len(ev) <= EvCap
  /\ issued \in 0 .. MaxCommands
  /\ fresh \subseteq Streams
  /\ ended \subseteq Nat /\ told \subseteq Nat

\* The inductive invariant.
PlayerInv == Typed /\ Conversing /\ OutputKept /\ Counted /\ Tidy(src)

\* Every step keeps the types of the counters, and a tidy source.
LEMMA NextCounts ==
  ASSUME PlayerInv, [Next]_vars
  PROVE  Counted' /\ Tidy(src')
<1> DEFINE Telling == \E t \in {"play", "pause", "resume", "stop", "notplaying"} :
                        Len(ev) < EvCap /\ ev' = Append(ev, Event(t, streamGen))
           Evented == ev' \in Seq(Events) /\ Len(ev') <= EvCap
<1>1. Counted /\ Tidy(src) /\ MaxCommands \in Nat /\ EvCap \in Nat
  BY PlayerAssumption DEF PlayerInv
<1>2. ASSUME Telling
      PROVE  Evented
  <2>1. PICK t \in {"play", "pause", "resume", "stop", "notplaying"} :
           Len(ev) < EvCap /\ ev' = Append(ev, Event(t, streamGen))
    BY <1>2
  <2>2. Event(t, streamGen) \in Events
    BY <1>1 DEF Event, Events, Counted
  <2>3. QED BY <1>1, <2>1, <2>2 DEF Counted
<1>3. ASSUME ev' = ev
      PROVE  Evented
  BY <1>1, <1>3 DEF Counted
<1>4. ASSUME ev' = Tail(ev), ev # <<>>
      PROVE  Evented
  <2>1. Tail(ev) \in Seq(Events) /\ Len(Tail(ev)) = Len(ev) - 1 /\ Len(ev) \in Nat
    BY <1>1, <1>4 DEF Counted
  <2>2. QED BY <1>1, <1>4, <2>1 DEF Counted
<1> HIDE DEF Telling, Evented
<1>5. ASSUME Sends
      PROVE  Counted' /\ Tidy(src')
  <2>1. Evented
    BY <1>3, <1>5 DEF Sends, playerVars
  <2>2. QED BY <1>1, <1>5, <2>1 DEF Sends, Counted, playerVars, history, Evented
<1>6. ASSUME NEW c \in Clients, Answered(c) \/ Receive(c)
      PROVE  Counted' /\ Tidy(src')
  BY <1>1, <1>6 DEF Answered, Receive, Counted, playerVars, history, clientVars, asked
<1>7. CASE ReceiveEvent
  <2>1. Evented
    BY <1>4, <1>7 DEF ReceiveEvent
  <2>2. QED BY <1>1, <1>7, <2>1 DEF ReceiveEvent, Counted, history, clientVars, asked, Evented
<1>8. CASE OutputExited
  <2>1. Evented
    BY <1>2, <1>8 DEF OutputExited, Telling
  <2>2. QED BY <1>1, <1>8, <2>1 DEF OutputExited, Counted, history, clientVars, asked, Evented
<1>9. CASE SourceDone
  <2>1. Evented
    BY <1>2, <1>9 DEF SourceDone, Telling
  <2>2. Tidy(src')
    BY <1>1, <1>9, TidySets DEF SourceDone
  <2>3. QED BY <1>1, <1>9, <2>1, <2>2 DEF SourceDone, Counted, clientVars, asked, Evented
<1>10. CASE OutputReads
  <2>1. Tidy(src')
    <3>1. PICK o \in Read(src, 1) : src' = o.src
      BY <1>10 DEF OutputReads
    <3>2. CanRead(src)
      BY <1>10 DEF OutputReads
    <3>3. QED BY <1>1, <3>1, <3>2, TidyRead
  <2>2. ended' = ended \/ ended' = ended \cup {setGen}
    BY <1>10 DEF OutputReads
  <2>3. QED BY <1>1, <1>10, <2>1, <2>2 DEF OutputReads, Counted, clientVars, asked
<1>11. CASE OutputFails
  BY <1>1, <1>11 DEF OutputFails, Counted, history, clientVars, asked
<1>12. CASE Handle
  <2>1. cmd # NoCommand => Proper(cmd)
    BY DEF PlayerInv, Conversing
  <2>2. CASE CountStream
    BY <1>1, <2>2 DEF CountStream, Counted, history, clientVars, asked
  <2>3. CASE PutStream
    <3>1. cmd.arg \in Streams
      BY <2>3 DEF PutStream, PlayerInv, Conversing, Proper, Resting
    <3>2. Tidy(src')
      BY <1>1, <2>3, <3>1, TidySets, ZenonT(30) DEF PutStream
    <3>3. QED BY <1>1, <2>3, <3>2, SMTT(30) DEF PutStream, Counted, clientVars, asked
  <2>4. CASE PutSecondary
    <3>1. cmd.arg \in Streams \cup {None}
      BY <2>4, Zenon DEF PutSecondary, PlayerInv, Conversing, Proper, Resting
    <3>2. Tidy(src')
      BY <1>1, <2>4, <3>1, TidySets, ZenonT(30) DEF PutSecondary
    <3>3. QED BY <1>1, <2>4, <3>2, SMTT(30) DEF PutSecondary, Counted, history, asked
  <2>5. CASE SeekSource
    <3>1. Tidy(src')
      BY <1>1, <2>5, TidySets, Zenon DEF SeekSource
    <3>2. QED BY <1>1, <2>5, <3>1 DEF SeekSource, Counted, history, asked
  <2>6. CASE Tell
    <3>1. Evented
      <4>1. ev' = ev \/ Telling
        BY <2>6 DEF Tell, OnSuccess, Telling
      <4>2. QED BY <1>2, <1>3, <4>1
    <3>2. QED BY <1>1, <2>6, <3>1 DEF Tell, Counted, history, clientVars, asked, Evented
  <2>7. CASE TellStopped
    <3>1. Evented
      BY <1>2, <2>7 DEF TellStopped, Telling
    <3>2. QED BY <1>1, <2>7, <3>1 DEF TellStopped, Counted, history, clientVars, asked, Evented
  <2>8. CASE UNCHANGED <<src, streamGen, ev, asked, history>>
    BY <1>1, <2>8, SMTT(30) DEF Counted, history, asked
  <2>9. \/ CountStream \/ PutStream \/ PutSecondary \/ SeekSource \/ Tell \/ TellStopped
        \/ UNCHANGED <<src, streamGen, ev, asked, history>>
    BY <1>12, Zenon DEF Handle, EnsureOutput, RunOutputOp, CallLate, PauseNothing, StopOutput,
         SeekResumes, ReopenOutput, RestoreOutput, TellPosition, Close, CloseOutput, clientVars
  <2>10. QED BY <2>2, <2>3, <2>4, <2>5, <2>6, <2>7, <2>8, <2>9, SMTT(30)
<1>13. CASE UNCHANGED vars
  BY <1>1, <1>13 DEF vars, playerVars, Counted, history, clientVars, asked
<1>14. src \in Sources /\ fresh \subseteq Streams
  BY <1>1 DEF Counted, Tidy
<1>15. QED
  BY <1>5, <1>6, <1>7, <1>8, <1>9, <1>10, <1>11, <1>12, <1>13, <1>14, ClientsSend, SMTT(30)
     DEF Next, ManageLoop

\* Every step keeps the invariant.
LEMMA PlayerStep ==
  ASSUME PlayerInv, [Next]_vars
  PROVE  PlayerInv'
<1>1. Counted' /\ Tidy(src')
  BY NextCounts
<1>2. src \in Sources /\ fresh \subseteq Streams
  BY DEF PlayerInv, Counted, Tidy
<1>3. CASE Handle
  <2>1. OutputKept'
    BY <1>3, HandleKeeps DEF PlayerInv
  <2>2. Typed' /\ Conversing'
    <3>1. CASE mpc = "closing"
      <4>1. CloseOutput
        BY <1>3, <3>1, Zenon DEF Handle, EnsureOutput, CountStream, PutStream, RunOutputOp, Tell,
             CallLate, PauseNothing, PutSecondary, StopOutput, TellStopped, SeekSource, SeekResumes,
             ReopenOutput, RestoreOutput, TellPosition, Close
      <4>2. QED BY <3>1, <4>1, OthersConverse, SMTT(30) DEF PlayerInv
    <3>2. CASE mpc # "closing"
      BY <1>3, <3>2, HandleMoves, MovesConverse DEF PlayerInv
    <3>3. QED BY <3>1, <3>2
  <2>3. QED BY <1>1, <2>1, <2>2 DEF PlayerInv
<1>4. CASE Sends \/ (\E c \in Clients : Answered(c) \/ Receive(c))
  BY <1>1, <1>4, OthersKeep, OthersConverse DEF PlayerInv
<1>5. CASE ReceiveEvent \/ OutputExited \/ SourceDone \/ OutputReads \/ OutputFails
           \/ UNCHANGED vars
  <2>1. UNCHANGED <<mpc, cmd, client, answer>>
    BY <1>5 DEF ReceiveEvent, OutputExited, SourceDone, OutputReads, OutputFails, vars,
         playerVars, clientVars, asked
  <2>2. QED BY <1>1, <1>5, <2>1, OthersKeep, OthersConverse DEF PlayerInv
<1>6. QED BY <1>2, <1>3, <1>4, <1>5, ClientsSend DEF Next, ManageLoop

\* The invariant implies what the run checks.
LEMMA PlayerInvConsistent ==
  ASSUME PlayerInv
  PROVE  Consistent
<1>1. TypeOK
  BY DEF PlayerInv, TypeOK, Typed, OutputKept, OnDevice, Counted, Events, Tidy
<1>2. PauseIsKept /\ DeviceIsCurrent
  BY SMTT(30) DEF PlayerInv, PauseIsKept, DeviceIsCurrent, OutputKept, OnDevice, Trusting
<1>3. AnswersOnce
  BY DEF PlayerInv, AnswersOnce, Conversing, Idle, Proper, Late
<1>4. QED BY <1>1, <1>2, <1>3, SMTT(30) DEF Consistent

\* The invariant holds before the first command.
LEMMA PlayerInitially == Init => PlayerInv
<1> SUFFICES ASSUME Init
             PROVE  PlayerInv
  OBVIOUS
<1>1. NoCommand \in Commands /\ NoCommand.type = "none" /\ NoCommand.paused = FALSE
  BY CommandFacts DEF NoCommand
<1>2. Typed
  BY <1>1 DEF Init, Typed, Steps
<1>3. Conversing
  BY <1>1 DEF Init, Conversing, Idle, Resting
<1>4. OutputKept
  BY <1>1, OutputCalls, Zenon DEF Init, OutputKept, OnDevice, Trusting
<1>5. Counted
  BY PlayerAssumption DEF Init, Counted
<1>6. QED BY <1>2, <1>3, <1>4, <1>5, TidyInitially, SMTT(30) DEF Init, PlayerInv

\* What manageLoop keeps agrees with the output and with its clients, for any streams, devices and
\* commands and with or without crossfading: between commands no output plays against a pause, an
\* open output is on the device chosen last, and every command is answered at most once.
THEOREM PlayerIsConsistent == Spec => []Consistent
<1>1. Init => PlayerInv
  BY PlayerInitially
<1>2. PlayerInv /\ [Next]_vars => PlayerInv'
  BY PlayerStep
<1>3. PlayerInv => Consistent
  BY PlayerInvConsistent
<1>4. QED BY <1>1, <1>2, <1>3, PTL DEF Spec
=============================================================================
