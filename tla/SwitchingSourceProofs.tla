------------------------ MODULE SwitchingSourceProofs ------------------------
(***************************************************************************)
(* What the methods of the switching source keep true, for any streams and *)
(* their lengths, any crossfade, headroom and scratch: the lookahead goes  *)
(* on where the listener is, and nothing is lost but what was cut.         *)
(***************************************************************************)
EXTENDS SwitchingSource, TLAPS

\* The stream whose frames the lookahead holds.
Of(s) == IF s.ring = <<>> THEN None ELSE s.ring[1][1]

\* Types and the bound of the lookahead, which is not used without crossfading.
Fields(s) ==
  /\ s \in Sources
  /\ \A x \in Streams : s.at[x] <= Length[x]
  /\ Len(s.ring) <= Capacity
  /\ Fade = 0 => s.ring = <<>> /\ ~s.primaryEOF
  /\ s.primaryEOF => ~s.pendingErr
  /\ s.fading => s.primaryEOF
  /\ s.prim = None => s.ring = <<>> /\ ~s.primaryEOF
  /\ s.prim # None => s.prim # s.sec

\* The lookahead starts where the listener is; it belongs to the primary and ends
\* at the decoder's position or, during a fade, is the tail of the stream before.
Lookahead(s, nx) ==
  /\ nx \in [Streams -> Nat]
  /\ s.ring # <<>> => /\ Of(s) \in Streams
                      /\ s.ring = FramesOf(Of(s), nx[Of(s)], Len(s.ring))
  /\ s.prim # None /\ ~s.fading =>
       /\ Of(s) \in {s.prim, None}
       /\ nx[s.prim] + Len(s.ring) = s.at[s.prim]
       /\ s.primaryEOF => s.at[s.prim] = Length[s.prim]
  /\ s.fading =>
       /\ s.ring # <<>>
       /\ nx[s.prim] = s.at[s.prim]
       /\ s.fadePos + Len(s.ring) = s.fadeTotal
       /\ Len(s.ring) <= Fade
       /\ Of(s) \notin {s.prim, s.sec}
       /\ nx[Of(s)] + Len(s.ring) = Length[Of(s)]

\* Streams are handed over once and cut once; all others were heard to their end.
Told(s, nx, fr, ct) ==
  /\ fr \subseteq Streams /\ ct \subseteq Streams /\ fr \cap ct = {}
  /\ {s.prim, s.sec, Of(s)} \cap (fr \cup ct) = {}
  /\ \A x \in fr \cup ({s.sec} \ {None}) : nx[x] = 0 /\ s.at[x] = 0
  /\ \A x \in Streams \ (fr \cup ct \cup {s.prim, s.sec, Of(s)}) : nx[x] = Length[x]

Sound(s, nx, fr, ct) == Fields(s) /\ Lookahead(s, nx) /\ Told(s, nx, fr, ct)

\* Once the lookahead had the reserve it keeps it up to the end of the stream.
Reserved(s, rsv) ==
  rsv => /\ ~s.fading
         /\ Fade > 0 /\ s.prim \notin NoFade => Len(s.ring) >= Fade \/ s.pendingErr

Errors == {"nil", "EOF", "failed"}

---------------------------------------------------------------------------
(***************************************************************************)
(* Runs of frames                                                          *)
(***************************************************************************)

\* A run of frames is a sequence of its length.
LEMMA FramesType ==
  ASSUME NEW st \in Streams, NEW from \in Nat, NEW n \in Nat
  PROVE  /\ FramesOf(st, from, n) \in Seq(Frames)
         /\ Len(FramesOf(st, from, n)) = n
         /\ \A i \in 1 .. n : FramesOf(st, from, n)[i] = <<st, from + i - 1>>
<1>1. \A i \in 1 .. n : <<st, from + i - 1>> \in Frames
  BY DEF Frames
<1>2. FramesOf(st, from, n) \in [1 .. n -> Frames]
  BY <1>1 DEF FramesOf
<1>3. FramesOf(st, from, n) \in Seq(Frames)
  BY <1>2
<1>4. Len(FramesOf(st, from, n)) = n
  BY <1>2, <1>3
<1>5. \A i \in 1 .. n : FramesOf(st, from, n)[i] = <<st, from + i - 1>>
  BY DEF FramesOf
<1>6. QED BY <1>3, <1>4, <1>5

\* All frames of a run are of one stream, and it is empty when it is of length zero.
LEMMA FramesStream ==
  ASSUME NEW st \in Streams, NEW from \in Nat, NEW n \in Nat
  PROVE  /\ DOMAIN FramesOf(st, from, n) = 1 .. n
         /\ \A i \in 1 .. n : FramesOf(st, from, n)[i][1] = st
         /\ FramesOf(st, from, n) = <<>> <=> n = 0
<1>1. DOMAIN FramesOf(st, from, n) = 1 .. n
  BY DEF FramesOf
<1>2. \A i \in 1 .. n : FramesOf(st, from, n)[i][1] = st
  BY DEF FramesOf
<1>3. FramesOf(st, from, n) = <<>> <=> n = 0
  <2> DEFINE f == FramesOf(st, from, n)
  <2>1. f \in Seq(Frames) /\ Len(f) = n
    BY FramesType
  <2> HIDE DEF f
  <2>2. f = <<>> <=> n = 0
    BY <2>1
  <2>3. QED BY <2>2 DEF f
<1>4. QED BY <1>1, <1>2, <1>3

\* Sequences of frames are the same when all their elements are.
LEMMA SameFrames ==
  ASSUME NEW f \in Seq(Frames), NEW g \in Seq(Frames), Len(f) = Len(g),
         \A i \in 1 .. Len(f) : f[i] = g[i]
  PROVE  f = g
OBVIOUS

\* The elements of two sequences of frames joined.
LEMMA JoinedFrames ==
  ASSUME NEW f \in Seq(Frames), NEW g \in Seq(Frames)
  PROVE  /\ f \o g \in Seq(Frames) /\ Len(f \o g) = Len(f) + Len(g)
         /\ \A i \in 1 .. Len(f) + Len(g) :
              (f \o g)[i] = IF i <= Len(f) THEN f[i] ELSE g[i - Len(f)]
OBVIOUS

\* What comes first of a run, and what is left.
LEMMA FramesSplit ==
  ASSUME NEW st \in Streams, NEW from \in Nat, NEW n \in Nat, NEW k \in 0 .. n
  PROVE  /\ SubSeq(FramesOf(st, from, n), 1, k) = FramesOf(st, from, k)
         /\ SubSeq(FramesOf(st, from, n), k + 1, n) = FramesOf(st, from + k, n - k)
<1> DEFINE f == FramesOf(st, from, n)
<1>1. f \in Seq(Frames) /\ Len(f) = n /\ \A i \in 1 .. n : f[i] = <<st, from + i - 1>>
  BY FramesType, Zenon
<1>2. k \in Nat /\ n - k \in Nat /\ from + k \in Nat
  OBVIOUS
<1>3. /\ FramesOf(st, from, k) \in Seq(Frames) /\ Len(FramesOf(st, from, k)) = k
      /\ \A i \in 1 .. k : FramesOf(st, from, k)[i] = <<st, from + i - 1>>
  BY <1>2, FramesType, Zenon
<1>4. /\ FramesOf(st, from + k, n - k) \in Seq(Frames) /\ Len(FramesOf(st, from + k, n - k)) = n - k
      /\ \A i \in 1 .. n - k : FramesOf(st, from + k, n - k)[i] = <<st, from + k + i - 1>>
  BY <1>2, FramesType, Zenon
<1> HIDE DEF f
<1>5. SubSeq(f, 1, k) = FramesOf(st, from, k)
  <2>1. \A i \in 1 .. k : f[i] \in Frames
    BY <1>1, <1>2
  <2>2. /\ SubSeq(f, 1, k) \in Seq(Frames) /\ Len(SubSeq(f, 1, k)) = k
        /\ \A i \in 1 .. k : SubSeq(f, 1, k)[i] = f[i]
    BY <1>1, <1>2
  <2>3. \A i \in 1 .. k : SubSeq(f, 1, k)[i] = FramesOf(st, from, k)[i]
    <3> SUFFICES ASSUME NEW i \in 1 .. k
                 PROVE  SubSeq(f, 1, k)[i] = FramesOf(st, from, k)[i]
      OBVIOUS
    <3>1. i \in 1 .. n
      BY <1>2
    <3>2. SubSeq(f, 1, k)[i] = <<st, from + i - 1>>
      BY <1>1, <2>2, <3>1
    <3>3. QED BY <1>3, <3>2, Zenon
  <2>4. QED BY <1>3, <2>2, <2>3, SameFrames
<1>6. SubSeq(f, k + 1, n) = FramesOf(st, from + k, n - k)
  <2>1. /\ SubSeq(f, k + 1, n) \in Seq(Frames) /\ Len(SubSeq(f, k + 1, n)) = n - k
        /\ \A i \in 1 .. n - k : SubSeq(f, k + 1, n)[i] = f[k + i]
    BY <1>1, <1>2
  <2>2. \A i \in 1 .. n - k : SubSeq(f, k + 1, n)[i] = FramesOf(st, from + k, n - k)[i]
    <3> SUFFICES ASSUME NEW i \in 1 .. n - k
                 PROVE  SubSeq(f, k + 1, n)[i] = FramesOf(st, from + k, n - k)[i]
      OBVIOUS
    <3>1. k + i \in 1 .. n /\ from + (k + i) - 1 = from + k + i - 1
      BY <1>2
    <3>2. SubSeq(f, k + 1, n)[i] = f[k + i]
      BY <2>1
    <3>3. f[k + i] = <<st, from + (k + i) - 1>>
      BY <1>1, <3>1
    <3>4. QED BY <1>4, <3>1, <3>2, <3>3, Zenon
  <2>3. QED BY <1>4, <2>1, <2>2, SameFrames
<1>7. QED BY <1>5, <1>6 DEF f

\* A run that goes on where another ends.
LEMMA FramesJoin ==
  ASSUME NEW st \in Streams, NEW from \in Nat, NEW n \in Nat, NEW k \in Nat
  PROVE  FramesOf(st, from, n) \o FramesOf(st, from + n, k) = FramesOf(st, from, n + k)
<1> DEFINE f == FramesOf(st, from, n)
           g == FramesOf(st, from + n, k)
           h == FramesOf(st, from, n + k)
<1>1. f \in Seq(Frames) /\ Len(f) = n /\ \A i \in 1 .. n : f[i] = <<st, from + i - 1>>
  BY FramesType, Zenon
<1>2. g \in Seq(Frames) /\ Len(g) = k /\ \A i \in 1 .. k : g[i] = <<st, from + n + i - 1>>
  <2>1. from + n \in Nat
    OBVIOUS
  <2>2. QED BY <2>1, FramesType, Zenon
<1>3. h \in Seq(Frames) /\ Len(h) = n + k /\ \A i \in 1 .. n + k : h[i] = <<st, from + i - 1>>
  <2>1. n + k \in Nat
    OBVIOUS
  <2>2. QED BY <2>1, FramesType, Zenon
<1> HIDE DEF f, g, h
<1>4. /\ f \o g \in Seq(Frames) /\ Len(f \o g) = n + k
      /\ \A i \in 1 .. n + k : (f \o g)[i] = IF i <= n THEN f[i] ELSE g[i - n]
  <2>1. /\ f \o g \in Seq(Frames) /\ Len(f \o g) = Len(f) + Len(g)
        /\ \A i \in 1 .. Len(f) + Len(g) :
             (f \o g)[i] = IF i <= Len(f) THEN f[i] ELSE g[i - Len(f)]
    BY <1>1, <1>2, JoinedFrames, Zenon
  <2>2. Len(f) = n /\ Len(g) = k
    BY <1>1, <1>2
  <2>3. QED BY <2>1, <2>2, Zenon
<1>5. \A i \in 1 .. n + k : (f \o g)[i] = h[i]
  <2> SUFFICES ASSUME NEW i \in 1 .. n + k
               PROVE  (f \o g)[i] = h[i]
    BY Zenon
  <2>1. CASE i <= n
    <3>1. i \in 1 .. n
      BY <2>1
    <3>2. (f \o g)[i] = f[i] /\ f[i] = <<st, from + i - 1>>
      BY <1>1, <1>4, <2>1, <3>1
    <3>3. QED BY <1>3, <3>2
  <2>2. CASE ~(i <= n)
    <3>1. i - n \in 1 .. k /\ from + n + (i - n) - 1 = from + i - 1
      BY <2>2
    <3>2. g[i - n] = <<st, from + i - 1>>
      BY <1>2, <3>1
    <3>3. QED BY <1>3, <1>4, <2>2, <3>2, Zenon
  <2>3. QED BY <2>1, <2>2, Zenon
<1>6. f \o g = h
  BY <1>3, <1>4, <1>5, SameFrames, Zenon
<1>7. QED BY <1>6 DEF f, g, h

\* A run takes the listener to its end, in its stream.
LEMMA PastRun ==
  ASSUME NEW st \in Streams, NEW from \in Nat, NEW n \in Nat, NEW x, NEW l
  PROVE  Past(l, FramesOf(st, from, n), x) = IF x = st /\ n # 0 THEN from + n ELSE l
<1> DEFINE f == FramesOf(st, from, n)
<1>1. f = <<>> <=> n = 0
  BY FramesStream
<1>2. Len(f) = n
  BY FramesType
<1>3. n # 0 => f[n] = <<st, from + n - 1>>
  <2>1. n # 0 => n \in 1 .. n
    OBVIOUS
  <2>2. QED BY <2>1, FramesType, Zenon
<1> HIDE DEF f
<1>4. n # 0 => f[n][1] = st /\ f[n][2] + 1 = from + n
  BY <1>3
<1>5. Past(l, f, x) = IF x = st /\ n # 0 THEN from + n ELSE l
  BY <1>1, <1>2, <1>4 DEF Past
<1>6. QED BY <1>5 DEF f

---------------------------------------------------------------------------
(***************************************************************************)
(* The methods, field by field                                             *)
(***************************************************************************)

\* The types of the fields.
LEMMA SourceFields ==
  ASSUME NEW s \in Sources
  PROVE  /\ s.prim \in Streams \cup {None} /\ s.sec \in Streams \cup {None}
         /\ s.at \in [Streams -> Nat] /\ s.ring \in Seq(Frames) /\ Len(s.ring) \in Nat
         /\ s.fadeTotal \in Nat /\ s.fadePos \in Nat
         /\ s.primaryEOF \in BOOLEAN /\ s.pendingErr \in BOOLEAN /\ s.fading \in BOOLEAN
BY DEF Sources

\* The lookahead and the fade are the same.
SameFade(s, t) ==
  /\ t.ring = s.ring /\ t.primaryEOF = s.primaryEOF /\ t.pendingErr = s.pendingErr
  /\ t.fading = s.fading /\ t.fadeTotal = s.fadeTotal /\ t.fadePos = s.fadePos

\* The decoder moves on.
LEMMA Advanced ==
  ASSUME NEW s \in Sources, s.prim \in Streams, NEW n \in Nat
  PROVE  /\ Advance(s, n) \in Sources /\ SameFade(s, Advance(s, n))
         /\ Advance(s, n).prim = s.prim /\ Advance(s, n).sec = s.sec
         /\ Advance(s, n).at = [s.at EXCEPT ![s.prim] = @ + n]
<1>1. [s.at EXCEPT ![s.prim] = @ + n] \in [Streams -> Nat]
  BY DEF Sources
<1>2. Advance(s, n) = [s EXCEPT !.at = [s.at EXCEPT ![s.prim] = @ + n]]
  BY DEF Advance, Sources
<1>3. QED BY <1>1, <1>2, Zenon DEF Sources, SameFade

\* reportDone leaves the streams alone.
LEMMA Reported ==
  ASSUME NEW s \in Sources
  PROVE  /\ ReportDone(s) \in Sources /\ SameFade(s, ReportDone(s))
         /\ ReportDone(s).prim = s.prim /\ ReportDone(s).sec = s.sec /\ ReportDone(s).at = s.at
<1>1. CASE s.eofReported
  BY <1>1 DEF ReportDone, SameFade
<1>2. CASE ~s.eofReported
  BY <1>2, Zenon DEF ReportDone, SameFade, Sources
<1>3. QED BY <1>1, <1>2

\* The secondary becomes the primary.
LEMMA Switched ==
  ASSUME NEW s \in Sources
  PROVE  /\ Switch(s) \in Sources /\ SameFade(s, Switch(s))
         /\ Switch(s).prim = s.sec /\ Switch(s).sec = None /\ Switch(s).at = s.at
BY Zenon DEF Switch, Sources, SameFade

\* finishFade forgets the lookahead.
LEMMA Finished ==
  ASSUME NEW s \in Sources
  PROVE  /\ FinishFade(s) \in Sources
         /\ FinishFade(s).prim = s.prim /\ FinishFade(s).sec = s.sec /\ FinishFade(s).at = s.at
         /\ FinishFade(s).ring = <<>> /\ FinishFade(s).primaryEOF = FALSE
         /\ FinishFade(s).pendingErr = s.pendingErr /\ FinishFade(s).fading = FALSE
<1>1. <<>> \in Seq(Frames)
  OBVIOUS
<1>2. \A e \in Seq(Frames) :
        [s EXCEPT !.fading = FALSE, !.fadeTotal = 0, !.fadePos = 0, !.ring = e,
                  !.primaryEOF = FALSE] \in Sources
  BY Zenon DEF Sources
<1>3. FinishFade(s) \in Sources
  BY <1>1, <1>2, Zenon DEF FinishFade
<1>4. QED BY <1>3 DEF FinishFade, Sources

---------------------------------------------------------------------------
(***************************************************************************)
(* Reads                                                                   *)
(***************************************************************************)

\* The smallest of three numbers.
LEMMA LeastFacts ==
  ASSUME NEW i \in Nat, NEW j \in Nat, NEW k \in Nat
  PROVE  /\ LeastOf3(i, j, k) \in {i, j, k} /\ LeastOf3(i, j, k) \in Nat
         /\ LeastOf3(i, j, k) <= i /\ LeastOf3(i, j, k) <= j /\ LeastOf3(i, j, k) <= k
BY DEF LeastOf3, Least

\* The stream of a lookahead that is a run.
LEMMA RingOf ==
  ASSUME NEW s, NEW st \in Streams, NEW from \in Nat, NEW n \in Nat,
         s.ring = FramesOf(st, from, n)
  PROVE  /\ Len(s.ring) = n /\ s.ring \in Seq(Frames) /\ (s.ring = <<>> <=> n = 0)
         /\ Of(s) = IF n = 0 THEN None ELSE st
<1>1. Len(s.ring) = n /\ s.ring \in Seq(Frames)
  BY FramesType
<1>2. s.ring = <<>> <=> n = 0
  BY FramesStream
<1>3. n # 0 => s.ring[1][1] = st
  BY FramesStream
<1>4. QED BY <1>1, <1>2, <1>3 DEF Of

\* Outside a fade the lookahead is a run of the primary, if only an empty one.
LEMMA PlayingRing ==
  ASSUME NEW s, NEW nx, Fields(s), Lookahead(s, nx), s.prim \in Streams, ~s.fading
  PROVE  s.ring = FramesOf(s.prim, nx[s.prim], Len(s.ring))
<1>1. None \notin Streams /\ nx[s.prim] \in Nat
  BY SourceAssumption DEF Lookahead
<1>2. CASE s.ring = <<>>
  <2>1. Len(s.ring) = 0
    BY <1>2
  <2>2. QED BY <1>1, <1>2, <2>1, FramesStream
<1>3. CASE s.ring # <<>>
  <2>1. Of(s) \in Streams /\ s.ring = FramesOf(Of(s), nx[Of(s)], Len(s.ring)) /\ Of(s) = s.prim
    BY <1>1, <1>3 DEF Lookahead
  <2>2. QED BY <2>1
<1>4. QED BY <1>2, <1>3

\* A source outside a fade, without the detour over the stream of its lookahead.
Playing(s, nx, fr, ct) ==
  /\ s \in Sources /\ nx \in [Streams -> Nat]
  /\ s.prim \in Streams /\ ~s.fading /\ s.prim # s.sec
  /\ \A x \in Streams : s.at[x] <= Length[x]
  /\ s.ring = FramesOf(s.prim, nx[s.prim], Len(s.ring)) /\ Len(s.ring) <= Capacity
  /\ nx[s.prim] + Len(s.ring) = s.at[s.prim]
  /\ Fade = 0 => Len(s.ring) = 0 /\ ~s.primaryEOF
  /\ s.primaryEOF => ~s.pendingErr /\ s.at[s.prim] = Length[s.prim]
  /\ fr \subseteq Streams /\ ct \subseteq Streams /\ fr \cap ct = {}
  /\ {s.prim, s.sec} \cap (fr \cup ct) = {}
  /\ \A x \in fr \cup ({s.sec} \ {None}) : nx[x] = 0 /\ s.at[x] = 0
  /\ \A x \in Streams \ (fr \cup ct \cup {s.prim, s.sec}) : nx[x] = Length[x]

\* It is sound ...
LEMMA PlayingSound ==
  ASSUME NEW s, NEW nx, NEW fr, NEW ct, Playing(s, nx, fr, ct)
  PROVE  Sound(s, nx, fr, ct)
<1>0. /\ None \notin Streams /\ nx[s.prim] \in Nat /\ Len(s.ring) \in Nat
      /\ s.prim \in Streams /\ s.ring = FramesOf(s.prim, nx[s.prim], Len(s.ring))
  BY SourceAssumption, SourceFields DEF Playing
<1>1. /\ s.ring \in Seq(Frames) /\ (s.ring = <<>> <=> Len(s.ring) = 0)
      /\ Of(s) = IF Len(s.ring) = 0 THEN None ELSE s.prim
  BY <1>0, RingOf, Zenon
<1>2. Fields(s)
  BY <1>0, <1>1 DEF Fields, Playing
<1>3. Lookahead(s, nx)
  BY <1>0, <1>1 DEF Lookahead, Playing
<1>4. Told(s, nx, fr, ct)
  BY <1>0, <1>1 DEF Told, Playing
<1>5. QED BY <1>2, <1>3, <1>4 DEF Sound

\* ... and what is sound and not in a fade is such a source.
LEMMA SoundPlaying ==
  ASSUME NEW s, NEW nx, NEW fr, NEW ct, Sound(s, nx, fr, ct), s.prim \in Streams, ~s.fading
  PROVE  Playing(s, nx, fr, ct)
<1>0. None \notin Streams /\ s \in Sources /\ s.ring \in Seq(Frames)
  BY SourceAssumption, SourceFields DEF Sound, Fields
<1>1. s.ring = FramesOf(s.prim, nx[s.prim], Len(s.ring))
  BY PlayingRing DEF Sound
<1>2. s.ring = <<>> <=> Len(s.ring) = 0
  BY <1>0
<1>3. Of(s) \in {s.prim, None} /\ Told(s, nx, fr, ct)
  BY <1>0 DEF Sound, Lookahead
<1>4. /\ fr \subseteq Streams /\ ct \subseteq Streams /\ fr \cap ct = {}
      /\ {s.prim, s.sec} \cap (fr \cup ct) = {}
      /\ \A x \in fr \cup ({s.sec} \ {None}) : nx[x] = 0 /\ s.at[x] = 0
      /\ \A x \in Streams \ (fr \cup ct \cup {s.prim, s.sec}) : nx[x] = Length[x]
  BY <1>0, <1>3 DEF Told
<1>5. QED BY <1>0, <1>1, <1>2, <1>4 DEF Playing, Sound, Fields, Lookahead

\* What is sound does not depend on done and eofReported.
LEMMA SameSound ==
  ASSUME NEW s, NEW t \in Sources, NEW nx, NEW fr, NEW ct, Sound(s, nx, fr, ct),
         SameFade(s, t), t.prim = s.prim, t.sec = s.sec, t.at = s.at
  PROVE  Sound(t, nx, fr, ct)
<1>1. Of(t) = Of(s)
  BY DEF Of, SameFade
<1>2. Fields(t)
  BY DEF Sound, Fields, SameFade
<1>3. Lookahead(t, nx)
  BY <1>1 DEF Sound, Lookahead, SameFade
<1>4. Told(t, nx, fr, ct)
  BY <1>1 DEF Sound, Told, SameFade
<1>5. QED BY <1>2, <1>3, <1>4 DEF Sound

\* The listener has heard k more frames of stream a.
More(nx, a, k) == [nx EXCEPT ![a] = @ + k]

\* Nothing else changes by that.
LEMMA MoreFacts ==
  ASSUME NEW nx \in [Streams -> Nat], NEW a \in Streams, NEW k \in Nat
  PROVE  /\ More(nx, a, k) \in [Streams -> Nat] /\ More(nx, a, k)[a] = nx[a] + k
         /\ \A x \in Streams : x # a => More(nx, a, k)[x] = nx[x]
BY DEF More

\* Nor does what a source outside a fade is.
LEMMA SamePlaying ==
  ASSUME NEW s, NEW t, NEW nx, NEW fr, NEW ct, Playing(s, nx, fr, ct), t \in Sources,
         SameFade(s, t), t.prim = s.prim, t.sec = s.sec, t.at = s.at
  PROVE  Playing(t, nx, fr, ct)
BY DEF Playing, SameFade

\* A read of one run, delivered without an error ...
LEMMA HeardRun ==
  ASSUME NEW nx \in [Streams -> Nat], NEW o, NEW a \in Streams, NEW k \in Nat,
         o.res.frames = FramesOf(a, nx[a], k), o.res.under = <<>>, o.res.err # "failed"
  PROVE  HeardAfter(nx, o) = More(nx, a, k)
<1>1. nx[a] \in Nat
  OBVIOUS
<1>2. \A x \in Streams : HeardAfter(nx, o)[x] = IF x = a THEN nx[a] + k ELSE nx[x]
  <2> SUFFICES ASSUME NEW x \in Streams
               PROVE  HeardAfter(nx, o)[x] = IF x = a THEN nx[a] + k ELSE nx[x]
    BY Zenon
  <2>1. Past(nx[x], o.res.frames, x) = IF x = a /\ k # 0 THEN nx[a] + k ELSE nx[x]
    BY <1>1, PastRun
  <2>2. HeardAfter(nx, o)[x] = Past(nx[x], o.res.frames, x)
    BY DEF HeardAfter, Past
  <2>3. QED BY <1>1, <2>1, <2>2
<1>3. QED BY <1>2, Zenon DEF HeardAfter, More

\* ... and with one, which may have lost frames of the primary.
LEMMA FailedRun ==
  ASSUME NEW nx \in [Streams -> Nat], NEW o, NEW a \in Streams, NEW k \in Nat, NEW l \in Nat,
         o.res.frames = FramesOf(a, nx[a], k), o.res.under = <<>>, o.res.err = "failed",
         o.src.prim = a, o.src.at[a] = nx[a] + l
  PROVE  HeardAfter(nx, o) = More(nx, a, l)
<1>1. nx[a] \in Nat
  OBVIOUS
<1>2. \A x \in Streams : HeardAfter(nx, o)[x] = IF x = a THEN nx[a] + l ELSE nx[x]
  <2> SUFFICES ASSUME NEW x \in Streams
               PROVE  HeardAfter(nx, o)[x] = IF x = a THEN nx[a] + l ELSE nx[x]
    BY Zenon
  <2>1. x # a => Past(nx[x], o.res.frames, x) = nx[x]
    BY <1>1, PastRun
  <2>2. HeardAfter(nx, o)[x] = IF x = a THEN o.src.at[x] ELSE Past(nx[x], o.res.frames, x)
    BY DEF HeardAfter, Past
  <2>3. QED BY <2>1, <2>2
<1>3. QED BY <1>2, Zenon DEF HeardAfter, More

\* A run that goes on where the listener is, of a stream that was not cut.
Run(f, nx, ct) == \E st \in Streams \ ct, k \in Nat : f = FramesOf(st, nx[st], k)

\* A read keeps the source sound and delivers such runs.
Delivered(o, nx, fr, ct) ==
  /\ Sound(o.src, HeardAfter(nx, o), fr, ct)
  /\ Run(o.res.frames, nx, ct) /\ Run(o.res.under, nx, ct)
  /\ o.res.err \in Errors

\* Nothing at all is a run.
LEMMA EmptyRun ==
  ASSUME NEW nx \in [Streams -> Nat], NEW ct, NEW st \in Streams, st \notin ct
  PROVE  Run(<<>>, nx, ct)
<1>1. <<>> = FramesOf(st, nx[st], 0)
  BY FramesStream
<1>2. QED BY <1>1 DEF Run

\* What popChunk does: at most limit frames go from the lookahead to the output.
Serving(s, nx, fr, ct, limit, e, o) ==
  /\ Delivered(o, nx, fr, ct)
  /\ o.src.prim = s.prim /\ ~o.src.fading /\ o.res.err = e
  /\ o.src.primaryEOF = s.primaryEOF /\ o.src.pendingErr = s.pendingErr
  /\ \E k \in 0 .. Len(s.ring) :
       /\ k <= limit /\ Len(o.src.ring) = Len(s.ring) - k /\ Len(o.res.frames) = k

\* popChunk serves the lookahead from its start.
LEMMA Popped ==
  ASSUME NEW s, NEW nx, NEW fr, NEW ct, Playing(s, nx, fr, ct), NEW n \in Nat, NEW limit \in Nat,
         NEW e \in {"nil", "EOF"}
  PROVE  Serving(s, nx, fr, ct, limit, e, Pop(s, n, limit, e))
<1> DEFINE len == Len(s.ring)
           k == LeastOf3(n, limit, len)
           p == s.prim
           o == Pop(s, n, limit, e)
<1>1. Playing(s, nx, fr, ct) /\ p \notin ct /\ ~s.fading
  BY DEF Playing
<1>2. /\ s \in Sources /\ nx \in [Streams -> Nat] /\ len \in Nat /\ nx[p] \in Nat
      /\ s.ring = FramesOf(p, nx[p], len) /\ p \in Streams
  BY <1>1, SourceFields DEF Playing
<1>3. /\ o.src = [s EXCEPT !.ring = SubSeq(s.ring, k + 1, len)]
      /\ o.res = Result(SubSeq(s.ring, 1, k), <<>>, e)
  BY <1>2 DEF Pop, Sources
<1> HIDE DEF len, o
<1>4. k \in Nat /\ k <= limit /\ k <= len /\ k \in {n, limit, len}
  BY <1>2, LeastFacts, Zenon
<1> HIDE DEF k
<1>5. k \in 0 .. len /\ nx[p] + k \in Nat /\ len - k \in Nat
  BY <1>2, <1>4
<1>6. /\ SubSeq(s.ring, 1, k) = FramesOf(p, nx[p], k)
      /\ SubSeq(s.ring, k + 1, len) = FramesOf(p, nx[p] + k, len - k)
  <2>1. /\ SubSeq(FramesOf(p, nx[p], len), 1, k) = FramesOf(p, nx[p], k)
        /\ SubSeq(FramesOf(p, nx[p], len), k + 1, len) = FramesOf(p, nx[p] + k, len - k)
    BY <1>2, <1>5, FramesSplit, ZenonT(30)
  <2>2. QED BY <1>2, <2>1
<1>7. o.res.frames = FramesOf(p, nx[p], k) /\ o.res.under = <<>> /\ o.res.err = e
  BY <1>3, <1>6 DEF Result
<1>8. Len(o.res.frames) = k
  BY <1>2, <1>4, <1>7, FramesType
<1>9. /\ o.src \in Sources /\ o.src.ring = FramesOf(p, nx[p] + k, len - k)
      /\ o.src.prim = p /\ o.src.sec = s.sec /\ o.src.at = s.at
      /\ o.src.fading = s.fading /\ o.src.primaryEOF = s.primaryEOF
      /\ o.src.pendingErr = s.pendingErr /\ Len(o.src.ring) = len - k
  <2>1. /\ FramesOf(p, nx[p] + k, len - k) \in Seq(Frames)
        /\ Len(FramesOf(p, nx[p] + k, len - k)) = len - k
    BY <1>2, <1>5, FramesType, Zenon
  <2>2. QED BY <1>2, <1>3, <1>6, <2>1, Zenon DEF Sources
<1>10. HeardAfter(nx, o) = More(nx, p, k)
  <2>1. o.res.err # "failed"
    BY <1>7
  <2>2. QED BY <1>2, <1>4, <1>7, <2>1, HeardRun
<1> DEFINE nn == HeardAfter(nx, o)
<1>11. /\ nn \in [Streams -> Nat] /\ nn[p] = nx[p] + k
       /\ \A x \in Streams : x # p => nn[x] = nx[x]
  BY <1>2, <1>4, <1>10 DEF More
<1> HIDE DEF nn
<1>12. Playing(o.src, nn, fr, ct)
  <2>1. nn[p] + (len - k) = s.at[p] /\ len - k <= Capacity /\ (Fade = 0 => len - k = 0)
    <3>1. Capacity \in Nat /\ nx[p] + len = s.at[p] /\ len <= Capacity /\ (Fade = 0 => len = 0)
      BY <1>1, SourceAssumption DEF Capacity, Playing, len
    <3>2. QED BY <1>2, <1>4, <1>11, <3>1
  <2>2. /\ \A x \in fr \cup ({s.sec} \ {None}) : nn[x] = 0 /\ s.at[x] = 0
        /\ \A x \in Streams \ (fr \cup ct \cup {p, s.sec}) : nn[x] = Length[x]
    <3>1. fr \cup ({s.sec} \ {None}) \subseteq Streams \ {p}
      BY <1>1, SourceFields DEF Playing
    <3>2. QED BY <1>1, <1>11, <3>1 DEF Playing
  <2>3. QED BY <1>1, <1>9, <1>11, <2>1, <2>2 DEF Playing
<1>13. Sound(o.src, nn, fr, ct)
  BY <1>12, PlayingSound
<1>14. Run(o.res.frames, nx, ct) /\ Run(o.res.under, nx, ct)
  <2>1. Run(<<>>, nx, ct)
    BY <1>1, <1>2, EmptyRun DEF Playing
  <2>2. QED BY <1>1, <1>4, <1>7, <2>1 DEF Run, Playing
<1>15. Delivered(o, nx, fr, ct)
  BY <1>7, <1>13, <1>14 DEF Delivered, Errors, nn
<1>16. Serving(s, nx, fr, ct, limit, e, o)
  BY <1>1, <1>4, <1>5, <1>7, <1>8, <1>9, <1>15 DEF Serving, len
<1>17. QED BY <1>16 DEF o

\* What a decoder returns.
LEMMA Decoded ==
  ASSUME NEW s \in Sources, s.prim \in Streams, s.at[s.prim] <= Length[s.prim],
         NEW n \in Nat \ {0}, NEW d \in Decode(s, n)
  PROVE  /\ d.n \in Nat /\ d.n <= n /\ d.n <= Length[s.prim] - s.at[s.prim]
         /\ d.err \in Errors
         /\ d.err = "EOF" => d.n = Length[s.prim] - s.at[s.prim]
         /\ d.err = "nil" => d.n # 0
<1> DEFINE left == Length[s.prim] - s.at[s.prim]
<1>1. left \in Nat /\ s.at[s.prim] \in Nat /\ Length[s.prim] \in Nat
  BY SourceAssumption, SourceFields
<1>2. \/ \E k \in 1 .. Least(n, left) : d = [n |-> k, err |-> "nil"]
      \/ left <= n /\ d = [n |-> left, err |-> "EOF"]
      \/ \E k \in 0 .. Least(n, left) : d = [n |-> k, err |-> "failed"]
  BY DEF Decode
<1> HIDE DEF left
<1>3. Least(n, left) \in Nat /\ Least(n, left) <= n /\ Least(n, left) <= left
  BY <1>1 DEF Least
<1>4. /\ d.n \in Nat /\ d.n <= n /\ d.n <= left /\ d.err \in Errors
      /\ (d.err = "EOF" => d.n = left) /\ (d.err = "nil" => d.n # 0)
  <2>1. CASE \E k \in 1 .. Least(n, left) : d = [n |-> k, err |-> "nil"]
    BY <1>1, <1>3, <2>1 DEF Errors
  <2>2. CASE left <= n /\ d = [n |-> left, err |-> "EOF"]
    BY <1>1, <2>2 DEF Errors
  <2>3. CASE \E k \in 0 .. Least(n, left) : d = [n |-> k, err |-> "failed"]
    BY <1>1, <1>3, <2>3 DEF Errors
  <2>4. QED BY <1>2, <2>1, <2>2, <2>3
<1>5. QED BY <1>4 DEF left

\* readDirect: the decoder's frames, and at the end the switch to the other slot.
LEMMA DirectRead ==
  ASSUME NEW s, NEW nx, NEW fr, NEW ct, Sound(s, nx, fr, ct), s.prim \in Streams,
         s.ring = <<>>, ~s.fading, ~s.primaryEOF,
         NEW n \in Nat \ {0}, NEW o \in ReadDirect(s, n)
  PROVE  /\ \E k \in Nat : /\ o.res.frames = FramesOf(s.prim, nx[s.prim], k)
                            /\ o.res.under = <<>> /\ o.res.err \in Errors
         /\ o.src.prim \in {s.prim, s.sec} /\ o.src.fading = FALSE
         /\ Sound(o.src, HeardAfter(nx, o), fr, ct)
<1> DEFINE p == s.prim
<1>1. Playing(s, nx, fr, ct) /\ s \in Sources
  BY SoundPlaying DEF Sound, Fields
<1>2. /\ nx \in [Streams -> Nat] /\ nx[p] \in Nat /\ s.at \in [Streams -> Nat] /\ nx[p] = s.at[p]
      /\ s.at[p] <= Length[p] /\ p \in Streams /\ Length \in [Streams -> Nat]
      /\ s.ring = FramesOf(p, nx[p], 0) /\ Len(s.ring) = 0 /\ None \notin Streams
  <2>1. Len(s.ring) = 0
    OBVIOUS
  <2>2. QED BY <1>1, <2>1, SourceFields, SourceAssumption DEF Playing
<1>3. PICK d \in Decode(s, n) :
        LET got == FramesOf(s.prim, s.at[s.prim], d.n)
            read == Advance(s, d.n)
            ended == ReportDone(read)
        IN  o = IF d.err # "EOF" THEN [src |-> read, res |-> Result(got, <<>>, d.err)]
                ELSE IF s.sec = None THEN [src |-> ended, res |-> Result(got, <<>>, "EOF")]
                ELSE [src |-> Switch(ended), res |-> Result(got, <<>>, "nil")]
  BY DEF ReadDirect
<1> DEFINE k == d.n
           read == Advance(s, k)
           ended == ReportDone(read)
           nn == HeardAfter(nx, o)
<1>4. /\ k \in Nat /\ s.at[p] + k <= Length[p] /\ d.err \in Errors
      /\ d.err = "EOF" => s.at[p] + k = Length[p]
  <2>1. /\ d.n \in Nat /\ d.n <= Length[p] - s.at[p] /\ d.err \in Errors
        /\ d.err = "EOF" => d.n = Length[p] - s.at[p]
    BY <1>1, <1>2, Decoded
  <2>2. QED BY <1>2, <2>1
<1> HIDE DEF k
<1>5. /\ read \in Sources /\ SameFade(s, read) /\ read.prim = p /\ read.sec = s.sec
      /\ read.at = [s.at EXCEPT ![p] = @ + k]
  BY <1>1, <1>2, <1>4, Advanced
<1> HIDE DEF read
<1>6. /\ ended \in Sources /\ SameFade(read, ended) /\ ended.prim = p /\ ended.sec = s.sec
      /\ ended.at = read.at
  BY <1>5, Reported
<1> HIDE DEF ended
<1>7. /\ Switch(ended) \in Sources /\ SameFade(ended, Switch(ended))
      /\ Switch(ended).prim = s.sec /\ Switch(ended).sec = None /\ Switch(ended).at = read.at
  BY <1>6, Switched
<1>8. /\ read.at[p] = nx[p] + k /\ read.at \in [Streams -> Nat]
      /\ \A x \in Streams : x # p => read.at[x] = s.at[x]
      /\ \A x \in Streams : read.at[x] <= Length[x]
  <2>1. /\ read.at[p] = nx[p] + k /\ read.at \in [Streams -> Nat]
        /\ \A x \in Streams : x # p => read.at[x] = s.at[x]
    BY <1>2, <1>4, <1>5
  <2>2. \A x \in Streams : s.at[x] <= Length[x]
    BY <1>1, Zenon DEF Playing
  <2>3. QED BY <1>2, <1>4, <2>1, <2>2, Zenon
<1>9. /\ o.res.frames = FramesOf(p, nx[p], k) /\ o.res.under = <<>> /\ o.res.err \in Errors
      /\ \/ o.src = read
         \/ o.src = ended /\ o.res.err # "failed"
         \/ o.src = Switch(ended) /\ d.err = "EOF" /\ s.sec # None /\ o.res.err # "failed"
  <2>1. CASE d.err # "EOF"
    BY <1>2, <1>3, <1>4, <2>1 DEF Result, k, read
  <2>2. CASE d.err = "EOF" /\ s.sec = None
    BY <1>2, <1>3, <2>2 DEF Result, k, read, ended, Errors
  <2>3. CASE d.err = "EOF" /\ s.sec # None
    BY <1>2, <1>3, <2>3 DEF Result, k, read, ended, Errors
  <2>4. QED BY <2>1, <2>2, <2>3
<1>10. nn = More(nx, p, k)
  <2>1. o.res.err = "failed" => o.src.prim = p /\ o.src.at[p] = nx[p] + k
    BY <1>5, <1>8, <1>9
  <2>2. o.res.frames = FramesOf(p, nx[p], k) /\ o.res.under = <<>> /\ k \in Nat
    BY <1>4, <1>9
  <2>3. nx \in [Streams -> Nat] /\ p \in Streams
    BY <1>2
  <2> HIDE DEF p, nn
  <2>4. HeardAfter(nx, o) = More(nx, p, k)
    <3>1. CASE o.res.err # "failed"
      BY <2>2, <2>3, <3>1, HeardRun
    <3>2. CASE o.res.err = "failed"
      <4>1. o.src.prim = p /\ o.src.at[p] = nx[p] + k
        BY <2>1, <3>2
      <4>2. QED BY <2>2, <2>3, <3>2, <4>1, FailedRun
    <3>3. QED BY <3>1, <3>2
  <2>5. QED BY <2>4 DEF nn
<1>11. /\ nn \in [Streams -> Nat] /\ nn[p] = nx[p] + k
       /\ \A x \in Streams : x # p => nn[x] = nx[x]
  BY <1>2, <1>4, <1>10 DEF More
<1> HIDE DEF nn
<1>12. fr \cup ({s.sec} \ {None}) \subseteq Streams \ {p}
  BY <1>1, SourceFields DEF Playing
<1>13. Capacity \in Nat
  BY SourceAssumption DEF Capacity
<1>14. CASE o.src \in {read, ended}
  <2>1. /\ o.src \in Sources /\ SameFade(s, o.src) /\ o.src.prim = p /\ o.src.sec = s.sec
        /\ o.src.at = read.at
    BY <1>5, <1>6, <1>14 DEF SameFade
  <2>2. o.src.ring = FramesOf(p, nn[p], 0) /\ Len(o.src.ring) = 0
    BY <1>2, <1>11, <2>1, FramesStream DEF SameFade
  <2>3. Playing(o.src, nn, fr, ct)
    BY <1>1, <1>2, <1>4, <1>8, <1>11, <1>12, <1>13, <2>1, <2>2 DEF Playing, SameFade
  <2>4. QED BY <1>9, <1>4, <2>1, <2>3, PlayingSound DEF nn, SameFade
<1>15. CASE o.src = Switch(ended) /\ d.err = "EOF" /\ s.sec # None
  <2>1. /\ o.src \in Sources /\ SameFade(s, o.src) /\ o.src.prim = s.sec /\ o.src.sec = None
        /\ o.src.at = read.at /\ s.sec \in Streams \ {p}
    BY <1>5, <1>6, <1>7, <1>12, <1>15 DEF SameFade
  <2>2. nn[s.sec] = 0 /\ read.at[s.sec] = 0 /\ nn[p] = Length[p]
    <3>1. nx[s.sec] = 0 /\ s.at[s.sec] = 0
      BY <1>1, <1>15 DEF Playing
    <3>2. QED BY <1>2, <1>4, <1>8, <1>11, <1>15, <2>1, <3>1
  <2>3. o.src.ring = FramesOf(s.sec, nn[s.sec], 0) /\ Len(o.src.ring) = 0
    BY <1>2, <2>1, <2>2, FramesStream DEF SameFade
  <2>4. Playing(o.src, nn, fr, ct)
    <3>1. /\ fr \subseteq Streams /\ ct \subseteq Streams /\ fr \cap ct = {}
          /\ {s.sec, None} \cap (fr \cup ct) = {}
      BY <1>1, <1>2 DEF Playing
    <3>2. \A x \in fr : nn[x] = 0 /\ read.at[x] = 0
      BY <1>1, <1>8, <1>11, <1>12, Zenon DEF Playing
    <3>3. \A x \in Streams \ (fr \cup ct \cup {s.sec, None}) : nn[x] = Length[x]
      BY <1>1, <1>11, <2>2, Zenon DEF Playing
    <3>4. nn[s.sec] + 0 = read.at[s.sec] /\ ~o.src.fading /\ ~o.src.primaryEOF /\ s.sec # None
      BY <1>2, <2>1, <2>2 DEF SameFade
    <3>5. QED BY <1>2, <1>8, <1>11, <1>13, <2>1, <2>3, <3>1, <3>2, <3>3, <3>4 DEF Playing
  <2>5. QED BY <1>9, <1>4, <2>1, <2>4, PlayingSound DEF nn, SameFade
<1>16. QED BY <1>9, <1>14, <1>15, Zenon

\* The refill appends what comes next of the primary.
LEMMA Refilled ==
  ASSUME NEW s, NEW nx, NEW fr, NEW ct, Playing(s, nx, fr, ct), Fade # 0, NEW f \in Refill(s)
  PROVE  /\ Playing(f, nx, fr, ct) /\ f.prim = s.prim /\ f.sec = s.sec
         /\ Len(f.ring) >= Len(s.ring)
         /\ s.pendingErr => f.pendingErr
         /\ \/ f.primaryEOF \/ f.pendingErr
            \/ Len(f.ring) > Len(s.ring) \/ Len(s.ring) = Capacity
<1> DEFINE p == s.prim
           len == Len(s.ring)
           from == s.at[p]
           free == Capacity - len
           left == Length[p] - from
           budget == 2 * Scratch
           most == LeastOf3(free, left, budget + Scratch - 1)
           ring(k) == s.ring \o FramesOf(p, from, k)
           read(k) == [Advance(s, k) EXCEPT !.ring = ring(k)]
<1>1. /\ s \in Sources /\ nx \in [Streams -> Nat] /\ p \in Streams /\ len \in Nat /\ nx[p] \in Nat
      /\ from \in Nat /\ Length[p] \in Nat /\ Capacity \in Nat /\ len <= Capacity
      /\ from <= Length[p] /\ nx[p] + len = from /\ Scratch \in Nat \ {0}
      /\ s.ring = FramesOf(p, nx[p], len) /\ s.at \in [Streams -> Nat]
  BY SourceFields, SourceAssumption DEF Playing, Capacity
<1>2. free \in Nat /\ left \in Nat /\ budget + Scratch - 1 \in Nat
  <2>1. /\ len \in Nat /\ from \in Nat /\ Length[p] \in Nat /\ Capacity \in Nat
        /\ len <= Capacity /\ from <= Length[p] /\ Scratch \in Nat \ {0}
    BY <1>1, Zenon
  <2> HIDE DEF len, from, p
  <2>2. QED BY <2>1
<1>3. most \in Nat /\ most <= free /\ most <= left
  BY <1>2, LeastFacts, Zenon
<1>4. \/ f = s /\ (s.primaryEOF \/ s.pendingErr \/ free = 0)
      \/ /\ ~s.primaryEOF /\ ~s.pendingErr
         /\ \/ \E k \in 1 .. most : f = read(k)
            \/ \E k \in 0 .. most : k = left /\ f = [read(k) EXCEPT !.primaryEOF = TRUE]
            \/ \E k \in 0 .. most : f = [read(k) EXCEPT !.pendingErr = TRUE]
  <2>1. \A k : read(k) = [Advance(s, k) EXCEPT !.ring = @ \o FramesOf(p, from, k)]
    BY DEF Advance
  <2>2. QED BY <2>1, ZenonT(30) DEF Refill
<1> HIDE DEF most, free, left
<1>5. ASSUME NEW k \in 0 .. most
      PROVE  /\ read(k) \in Sources /\ read(k).prim = p /\ read(k).sec = s.sec
             /\ read(k).at = [s.at EXCEPT ![p] = @ + k]
             /\ read(k).ring = FramesOf(p, nx[p], len + k)
             /\ Len(read(k).ring) = len + k
             /\ read(k).fading = s.fading /\ read(k).primaryEOF = s.primaryEOF
             /\ read(k).pendingErr = s.pendingErr
  <2>1. k \in Nat /\ len + k \in Nat
    BY <1>1, <1>3
  <2>2. ring(k) = FramesOf(p, nx[p], len + k)
    <3>1. FramesOf(p, nx[p], len) \o FramesOf(p, nx[p] + len, k) = FramesOf(p, nx[p], len + k)
      <4> DEFINE a == nx[p]
      <4>1. a \in Nat /\ p \in Streams /\ len \in Nat
        BY <1>1
      <4> HIDE DEF p, len, from, a
      <4>2. FramesOf(p, a, len) \o FramesOf(p, a + len, k) = FramesOf(p, a, len + k)
        BY <4>1, <2>1, FramesJoin, Zenon
      <4>3. QED BY <4>2 DEF a
    <3>2. QED BY <1>1, <3>1, Zenon
  <2>3. FramesOf(p, nx[p], len + k) \in Seq(Frames) /\ Len(FramesOf(p, nx[p], len + k)) = len + k
    <3> DEFINE a == nx[p]
    <3>1. a \in Nat /\ p \in Streams
      BY <1>1
    <3> HIDE DEF p, len, from, a
    <3>2. FramesOf(p, a, len + k) \in Seq(Frames) /\ Len(FramesOf(p, a, len + k)) = len + k
      BY <2>1, <3>1, FramesType, Zenon
    <3>3. QED BY <3>2 DEF a
  <2>4. /\ Advance(s, k) \in Sources /\ SameFade(s, Advance(s, k))
        /\ Advance(s, k).prim = p /\ Advance(s, k).sec = s.sec
        /\ Advance(s, k).at = [s.at EXCEPT ![p] = @ + k]
    BY <1>1, <2>1, Advanced
  <2> HIDE DEF ring
  <2>5. QED BY <2>2, <2>3, <2>4, Zenon DEF Sources, SameFade
<1> HIDE DEF ring, read
<1>6. ASSUME NEW k \in 0 .. most, f \in Sources, f.prim = p, f.sec = s.sec,
             f.at = read(k).at, f.ring = read(k).ring, f.fading = s.fading,
             f.primaryEOF => k = left /\ ~f.pendingErr
      PROVE  Playing(f, nx, fr, ct) /\ Len(f.ring) = len + k
  <2>1. /\ k \in Nat /\ len + k <= Capacity /\ from + k <= Length[p]
        /\ k = left => from + k = Length[p]
    <3>1. /\ len \in Nat /\ from \in Nat /\ Length[p] \in Nat /\ Capacity \in Nat
          /\ len <= Capacity /\ from <= Length[p]
      BY <1>1, Zenon
    <3>2. k \in Nat /\ k <= free /\ k <= left
      BY <1>2, <1>3
    <3> HIDE DEF len, from, p
    <3>3. QED BY <3>1, <3>2 DEF free, left
  <2>2. /\ f.at[p] = from + k /\ f.at \in [Streams -> Nat]
        /\ \A x \in Streams : x # p => f.at[x] = s.at[x]
    <3>1. f.at = [s.at EXCEPT ![p] = @ + k]
      BY <1>5, <1>6
    <3>2. QED BY <1>1, <2>1, <3>1
  <2>3. f.ring = FramesOf(p, nx[p], len + k) /\ Len(f.ring) = len + k
    BY <1>5, <1>6, Zenon
  <2>4. nx[p] + (len + k) = f.at[p]
    BY <1>1, <2>1, <2>2
  <2>5. \A x \in Streams : f.at[x] <= Length[x]
    BY <2>1, <2>2, Zenon DEF Playing
  <2>6. \A x \in fr \cup ({s.sec} \ {None}) : nx[x] = 0 /\ f.at[x] = 0
    <3>1. fr \cup ({s.sec} \ {None}) \subseteq Streams \ {p}
      BY <1>1, SourceFields DEF Playing
    <3>2. QED BY <2>2, <3>1, Zenon DEF Playing
  <2>7. f.primaryEOF => ~f.pendingErr /\ f.at[p] = Length[p]
    BY <1>6, <2>1, <2>2
  <2>8. QED BY <1>1, <1>6, <2>1, <2>3, <2>4, <2>5, <2>6, <2>7, Zenon DEF Playing
<1>7. CASE f = s /\ (s.primaryEOF \/ s.pendingErr \/ free = 0)
  <2>1. Len(f.ring) >= Len(s.ring)
    BY <1>1, <1>7
  <2>2. free = 0 => Len(s.ring) = Capacity
    BY <1>1 DEF free
  <2>3. QED BY <1>7, <2>1, <2>2
<1>8. CASE /\ ~s.primaryEOF /\ ~s.pendingErr
           /\ \/ \E k \in 1 .. most : f = read(k)
              \/ \E k \in 0 .. most : k = left /\ f = [read(k) EXCEPT !.primaryEOF = TRUE]
              \/ \E k \in 0 .. most : f = [read(k) EXCEPT !.pendingErr = TRUE]
  <2>1. PICK k \in 0 .. most :
          \/ k # 0 /\ f = read(k)
          \/ k = left /\ f = [read(k) EXCEPT !.primaryEOF = TRUE]
          \/ f = [read(k) EXCEPT !.pendingErr = TRUE]
    BY <1>3, <1>8
  <2>2. ~s.primaryEOF /\ ~s.pendingErr
    BY <1>8
  <2>3. /\ f \in Sources /\ f.prim = p /\ f.sec = s.sec
        /\ f.at = read(k).at /\ f.ring = read(k).ring /\ f.fading = s.fading
        /\ f.primaryEOF => k = left /\ ~f.pendingErr
        /\ k # 0 \/ f.primaryEOF \/ f.pendingErr
    <3>1. CASE k # 0 /\ f = read(k)
      BY <1>5, <2>2, <3>1, Zenon
    <3>2. CASE k = left /\ f = [read(k) EXCEPT !.primaryEOF = TRUE]
      BY <1>5, <2>2, <3>2, Zenon DEF Sources
    <3>3. CASE f = [read(k) EXCEPT !.pendingErr = TRUE]
      BY <1>5, <2>2, <3>3, Zenon DEF Sources
    <3>4. QED BY <2>1, <3>1, <3>2, <3>3
  <2>4. Playing(f, nx, fr, ct) /\ Len(f.ring) = len + k
    BY <1>6, <2>3
  <2>5. k \in Nat
    BY <1>3
  <2>6. QED BY <1>1, <2>2, <2>3, <2>4, <2>5
<1>9. QED BY <1>4, <1>7, <1>8

---------------------------------------------------------------------------
(***************************************************************************)
(* Fades                                                                   *)
(***************************************************************************)

\* A source in a fade: the lookahead is the tail of stream q.
Mixing(t, nx, fr, ct, q) ==
  /\ t \in Sources /\ nx \in [Streams -> Nat]
  /\ t.prim \in Streams /\ t.fading /\ t.primaryEOF /\ ~t.pendingErr /\ t.prim # t.sec
  /\ q \in Streams /\ q # t.prim /\ q # t.sec /\ Fade # 0
  /\ \A x \in Streams : t.at[x] <= Length[x]
  /\ t.ring = FramesOf(q, nx[q], Len(t.ring)) /\ Len(t.ring) <= Fade
  /\ nx[q] + Len(t.ring) = Length[q]
  /\ nx[t.prim] = t.at[t.prim]
  /\ t.fadePos + Len(t.ring) = t.fadeTotal
  /\ fr \subseteq Streams /\ ct \subseteq Streams /\ fr \cap ct = {}
  /\ {t.prim, t.sec, q} \cap (fr \cup ct) = {}
  /\ \A x \in fr \cup ({t.sec} \ {None}) : nx[x] = 0 /\ t.at[x] = 0
  /\ \A x \in Streams \ (fr \cup ct \cup {t.prim, t.sec, q}) : nx[x] = Length[x]

\* It is sound while there is something left to mix ...
LEMMA MixingSound ==
  ASSUME NEW t, NEW nx, NEW fr, NEW ct, NEW q, Mixing(t, nx, fr, ct, q), Len(t.ring) # 0
  PROVE  Sound(t, nx, fr, ct)
<1>0. /\ None \notin Streams /\ nx[q] \in Nat /\ Len(t.ring) \in Nat /\ q \in Streams
      /\ t.prim \in Streams /\ t.ring = FramesOf(q, nx[q], Len(t.ring)) /\ Fade \in Nat
      /\ Headroom \in Nat /\ Len(t.ring) <= Fade
  BY SourceAssumption, SourceFields DEF Mixing
<1>1. t.ring \in Seq(Frames) /\ t.ring # <<>> /\ Of(t) = q
  BY <1>0, RingOf
<1>2. Len(t.ring) <= Capacity
  BY <1>0 DEF Capacity
<1>3. Fields(t)
  BY <1>0, <1>1, <1>2 DEF Fields, Mixing
<1>4. Lookahead(t, nx)
  BY <1>0, <1>1 DEF Lookahead, Mixing
<1>5. Told(t, nx, fr, ct)
  BY <1>0, <1>1 DEF Told, Mixing
<1>6. QED BY <1>3, <1>4, <1>5 DEF Sound

\* ... and what is sound and in a fade is such a source.
LEMMA SoundMixing ==
  ASSUME NEW t, NEW nx, NEW fr, NEW ct, Sound(t, nx, fr, ct), t.fading
  PROVE  Mixing(t, nx, fr, ct, Of(t))
<1>0. /\ None \notin Streams /\ t \in Sources /\ t.prim \in Streams /\ t.primaryEOF
      /\ t.ring # <<>> /\ Of(t) \in Streams
  BY SourceAssumption, SourceFields DEF Sound, Fields, Lookahead
<1>1. Fade # 0 /\ ~t.pendingErr /\ t.prim # t.sec
  BY <1>0 DEF Sound, Fields
<1>2. Of(t) # t.prim /\ Of(t) # t.sec
  BY DEF Sound, Lookahead
<1>3. QED BY <1>0, <1>1, <1>2 DEF Mixing, Sound, Fields, Lookahead, Told

\* How readCrossfade starts a fade.
StartFade(f) ==
  [Switch(ReportDone(f)) EXCEPT !.fading = TRUE, !.fadeTotal = Len(f.ring), !.fadePos = 0]

\* The fade starts with the lookahead of the stream that ended.
LEMMA FadeStarts ==
  ASSUME NEW f, NEW nx, NEW fr, NEW ct, Playing(f, nx, fr, ct), f.primaryEOF, f.sec # None,
         Len(f.ring) <= Fade, NEW t, t = StartFade(f)
  PROVE  Mixing(t, nx, fr, ct, f.prim) /\ t.prim = f.sec /\ t.ring = f.ring
<1> DEFINE r == ReportDone(f)
           w == Switch(r)
<1>1. f \in Sources /\ f.sec \in Streams /\ Len(f.ring) \in Nat /\ None \notin Streams
  BY SourceFields, SourceAssumption DEF Playing
<1>2. r \in Sources /\ SameFade(f, r) /\ r.prim = f.prim /\ r.sec = f.sec /\ r.at = f.at
  BY <1>1, Reported
<1> HIDE DEF r
<1>3. w \in Sources /\ SameFade(r, w) /\ w.prim = f.sec /\ w.sec = None /\ w.at = f.at
  BY <1>2, Switched
<1>4. t = [w EXCEPT !.fading = TRUE, !.fadeTotal = Len(f.ring), !.fadePos = 0]
  BY DEF r, StartFade
<1> HIDE DEF w
<1>5. /\ t \in Sources /\ t.prim = f.sec /\ t.sec = None /\ t.at = f.at /\ t.ring = f.ring
      /\ t.fading = TRUE /\ t.primaryEOF = f.primaryEOF /\ t.pendingErr = f.pendingErr
      /\ t.fadeTotal = Len(f.ring) /\ t.fadePos = 0
  <2>1. \A l \in Nat : [w EXCEPT !.fading = TRUE, !.fadeTotal = l, !.fadePos = 0] \in Sources
    BY <1>3, Zenon DEF Sources
  <2>2. t \in Sources
    <3>1. [w EXCEPT !.fading = TRUE, !.fadeTotal = Len(f.ring), !.fadePos = 0] \in Sources
      BY <1>1, <2>1, Zenon
    <3>2. QED BY <1>4, <3>1, Zenon
  <2>3. QED BY <1>2, <1>3, <1>4, <2>2, ZenonT(30) DEF Sources, SameFade
<1>6. t.fadePos + Len(t.ring) = t.fadeTotal /\ nx[f.sec] = 0 /\ f.at[f.sec] = 0
  BY <1>1, <1>5 DEF Playing
<1>7. nx[f.prim] + Len(f.ring) = Length[f.prim]
  BY DEF Playing
<1>8. {t.prim, t.sec, f.prim} \cap (fr \cup ct) = {}
  <2>1. {f.prim, f.sec} \cap (fr \cup ct) = {} /\ fr \subseteq Streams /\ ct \subseteq Streams
    BY DEF Playing
  <2>2. None \notin fr \cup ct /\ f.prim \notin fr \cup ct /\ f.sec \notin fr \cup ct
    BY <1>1, <2>1
  <2>3. QED BY <1>5, <2>2, Zenon
<1>9. QED BY <1>1, <1>5, <1>6, <1>7, <1>8 DEF Playing, Mixing

\* A read of a run mixed with a run of another stream.
LEMMA HeardMix ==
  ASSUME NEW nx \in [Streams -> Nat], NEW o, NEW a \in Streams, NEW b \in Streams, a # b,
         NEW k \in Nat, NEW l \in Nat, o.res.err # "failed",
         o.res.frames = FramesOf(a, nx[a], k), o.res.under = FramesOf(b, nx[b], l)
  PROVE  HeardAfter(nx, o) = More(More(nx, a, k), b, l)
<1>1. nx[a] \in Nat /\ nx[b] \in Nat
  OBVIOUS
<1>2. \A x \in Streams : HeardAfter(nx, o)[x] =
        IF x = a THEN nx[a] + k ELSE IF x = b THEN nx[b] + l ELSE nx[x]
  <2> SUFFICES ASSUME NEW x \in Streams
               PROVE  HeardAfter(nx, o)[x] =
                        IF x = a THEN nx[a] + k ELSE IF x = b THEN nx[b] + l ELSE nx[x]
    BY Zenon
  <2> DEFINE f == Past(nx[x], o.res.frames, x)
  <2>1. f = IF x = a /\ k # 0 THEN nx[a] + k ELSE nx[x]
    BY <1>1, PastRun
  <2>2. Past(f, o.res.under, x) = IF x = b /\ l # 0 THEN nx[b] + l ELSE f
    BY <1>1, PastRun
  <2>3. HeardAfter(nx, o)[x] = Past(f, o.res.under, x)
    BY DEF HeardAfter
  <2> HIDE DEF f
  <2>4. QED BY <1>1, <2>1, <2>2, <2>3
<1>3. QED BY <1>2, Zenon DEF HeardAfter, More

\* A source whose fade has used up the tail plays on without it.
LEMMA FadeEnds ==
  ASSUME NEW t, NEW nx, NEW fr, NEW ct, NEW q, Mixing(t, nx, fr, ct, q), Len(t.ring) = 0
  PROVE  Playing(FinishFade(t), nx, fr, ct)
<1> DEFINE e == FinishFade(t)
<1>1. /\ t \in Sources /\ t.prim \in Streams /\ nx \in [Streams -> Nat] /\ nx[t.prim] \in Nat
      /\ nx[q] \in Nat /\ Capacity \in Nat
  BY SourceAssumption DEF Mixing, Capacity
<1>2. /\ e \in Sources /\ e.prim = t.prim /\ e.sec = t.sec /\ e.at = t.at
      /\ e.ring = <<>> /\ e.primaryEOF = FALSE /\ e.fading = FALSE
  BY <1>1, Finished, Zenon
<1> HIDE DEF e
<1>3. e.ring = FramesOf(e.prim, nx[e.prim], 0) /\ Len(e.ring) = 0
  <2>1. FramesOf(t.prim, nx[t.prim], 0) = <<>>
    BY <1>1, FramesStream
  <2>2. Len(<<>>) = 0
    OBVIOUS
  <2>3. QED BY <1>2, <2>1, <2>2, Zenon
<1>4. nx[q] = Length[q]
  BY <1>1 DEF Mixing
<1>5. \A x \in Streams \ (fr \cup ct \cup {t.prim, t.sec}) : nx[x] = Length[x]
  BY <1>4, Zenon DEF Mixing
<1>6. nx[e.prim] + 0 = e.at[e.prim]
  BY <1>1, <1>2 DEF Mixing
<1>7. {t.prim, t.sec} \cap (fr \cup ct) = {}
  BY DEF Mixing
<1>8. Playing(e, nx, fr, ct)
  BY <1>1, <1>2, <1>3, <1>5, <1>6, <1>7 DEF Playing, Mixing
<1>9. QED BY <1>8 DEF e

\* Source m is t after c frames of its tail and l of the incoming stream.
Moved(t, m, c, l) ==
  /\ c \in Nat /\ c <= Len(t.ring) /\ l \in Nat /\ t.at[t.prim] + l <= Length[t.prim]
  /\ m \in Sources /\ m.prim = t.prim /\ m.sec = t.sec
  /\ m.at = [t.at EXCEPT ![t.prim] = @ + l]
  /\ m.ring = SubSeq(t.ring, c + 1, Len(t.ring))
  /\ m.fading = t.fading /\ m.primaryEOF = t.primaryEOF /\ m.pendingErr = t.pendingErr
  /\ m.fadePos = t.fadePos + c /\ m.fadeTotal = t.fadeTotal

\* The fade moves on: c frames of the tail and l of the incoming stream are heard.
LEMMA FadeMoves ==
  ASSUME NEW t, NEW nx, NEW fr, NEW ct, NEW q, Mixing(t, nx, fr, ct, q),
         NEW c, NEW l, NEW m, Moved(t, m, c, l), NEW nn, nn = More(More(nx, q, c), t.prim, l)
  PROVE  Mixing(m, nn, fr, ct, q) /\ Len(m.ring) = Len(t.ring) - c
<1> c \in Nat /\ c <= Len(t.ring) /\ l \in Nat /\ t.at[t.prim] + l <= Length[t.prim]
  BY DEF Moved
<1> DEFINE len == Len(t.ring)
           p == t.prim
<1>1. /\ t \in Sources /\ p \in Streams /\ q \in Streams /\ q # p /\ nx \in [Streams -> Nat]
      /\ nx[p] \in Nat /\ nx[q] \in Nat /\ len \in Nat /\ c \in Nat /\ c <= len
      /\ t.at \in [Streams -> Nat] /\ t.fadePos \in Nat /\ Fade \in Nat /\ len <= Fade
      /\ t.ring = FramesOf(q, nx[q], len)
  BY SourceAssumption, SourceFields DEF Mixing
<1>2. /\ nn \in [Streams -> Nat] /\ nn[p] = nx[p] + l /\ nn[q] = nx[q] + c
      /\ \A x \in Streams : x # p /\ x # q => nn[x] = nx[x]
  <2> DEFINE ny == More(nx, q, c)
  <2>1. /\ ny \in [Streams -> Nat] /\ ny[q] = nx[q] + c
        /\ \A x \in Streams : x # q => ny[x] = nx[x]
    BY <1>1, MoreFacts, ZenonT(30)
  <2> HIDE DEF ny
  <2>2. nn = More(ny, p, l)
    BY DEF ny
  <2>3. /\ nn \in [Streams -> Nat] /\ nn[p] = ny[p] + l
        /\ \A x \in Streams : x # p => nn[x] = ny[x]
    <3>1. p \in Streams /\ ny \in [Streams -> Nat] /\ l \in Nat
      BY <1>1, <2>1
    <3> HIDE DEF p
    <3>2. /\ More(ny, p, l) \in [Streams -> Nat] /\ More(ny, p, l)[p] = ny[p] + l
          /\ \A x \in Streams : x # p => More(ny, p, l)[x] = ny[x]
      BY <3>1, MoreFacts, Zenon
    <3>3. QED BY <2>2, <3>2
  <2>4. QED BY <1>1, <2>1, <2>3
<1>3. /\ m.at[p] = t.at[p] + l
      /\ \A x \in Streams : x # p => m.at[x] = t.at[x]
  BY <1>1 DEF Moved
<1>4. m.ring = FramesOf(q, nn[q], len - c) /\ Len(m.ring) = len - c
  <2> DEFINE a == nx[q]
  <2>1. /\ a \in Nat /\ len \in Nat /\ c \in 0 .. len /\ q \in Streams
        /\ a + c \in Nat /\ len - c \in Nat
    BY <1>1, SMTT(30)
  <2>2. t.ring = FramesOf(q, a, len) /\ m.ring = SubSeq(t.ring, c + 1, len) /\ nn[q] = a + c
    BY <1>1, <1>2 DEF Moved
  <2> HIDE DEF a, len
  <2>3. SubSeq(FramesOf(q, a, len), c + 1, len) = FramesOf(q, a + c, len - c)
    BY <2>1, FramesSplit, Zenon
  <2>4. Len(FramesOf(q, a + c, len - c)) = len - c
    BY <2>1, FramesType, Zenon
  <2>5. QED BY <2>2, <2>3, <2>4, Zenon
<1>5. m.fadePos + (len - c) = m.fadeTotal /\ len - c <= Fade
  <2>1. t.fadePos + len = t.fadeTotal
    BY DEF Mixing
  <2>2. QED BY <1>1, <2>1 DEF Moved
<1>6. nn[q] + (len - c) = Length[q] /\ nn[p] = m.at[p]
  <2>1. nx[q] + len = Length[q] /\ nx[p] = t.at[p]
    BY DEF Mixing
  <2>2. QED BY <1>1, <1>2, <1>3, <2>1
<1>7. \A x \in Streams : m.at[x] <= Length[x]
  BY <1>3, Zenon DEF Mixing
<1>8. \A x \in fr \cup ({t.sec} \ {None}) : nn[x] = 0 /\ m.at[x] = 0
  <2>1. fr \cup ({t.sec} \ {None}) \subseteq Streams \ {p, q}
    BY <1>1, SourceFields DEF Mixing
  <2>2. QED BY <1>2, <1>3, <2>1, ZenonT(30) DEF Mixing
<1>9. \A x \in Streams \ (fr \cup ct \cup {p, t.sec, q}) : nn[x] = Length[x]
  BY <1>2, Zenon DEF Mixing
<1>10. QED BY <1>1, <1>2, <1>4, <1>5, <1>6, <1>7, <1>8, <1>9, Zenon DEF Mixing, Moved

\* readFade: the tail under the incoming stream, up to the end of the fade.
LEMMA FadeRead ==
  ASSUME NEW t, NEW nx, NEW fr, NEW ct, NEW q, Mixing(t, nx, fr, ct, q),
         NEW n \in Nat \ {0}, NEW o \in ReadFade(t, n)
  PROVE  /\ Delivered(o, nx, fr, ct)
         /\ o.src.prim = t.prim
         /\ Len(o.res.frames) <= Fade
         /\ o.src.primaryEOF \/ o.src.ring = <<>>
<1> DEFINE len == Len(t.ring)
           p == t.prim
           want == LeastOf3(n, t.fadeTotal - t.fadePos, Scratch)
           nn == HeardAfter(nx, o)
<1>1. /\ t \in Sources /\ p \in Streams /\ q \in Streams /\ q # p /\ nx \in [Streams -> Nat]
      /\ p \notin ct /\ q \notin ct
  BY DEF Mixing
<1>2. /\ nx[p] \in Nat /\ nx[q] \in Nat /\ len \in Nat /\ t.at \in [Streams -> Nat]
      /\ t.fadePos \in Nat /\ t.fadeTotal \in Nat /\ Fade \in Nat /\ Scratch \in Nat \ {0}
      /\ Length[p] \in Nat /\ t.ring \in Seq(Frames)
  BY <1>1, SourceAssumption, SourceFields
<1>3. len <= Fade /\ t.fadePos + len = t.fadeTotal /\ t.ring = FramesOf(q, nx[q], len)
  BY DEF Mixing
<1>4. want \in Nat /\ want <= len /\ (want = 0 => len = 0) /\ t.fadeTotal - t.fadePos = len
  <2>1. t.fadeTotal - t.fadePos = len
    BY <1>2, <1>3
  <2>2. want = LeastOf3(n, len, Scratch)
    BY <2>1
  <2>3. /\ LeastOf3(n, len, Scratch) \in {n, len, Scratch} /\ LeastOf3(n, len, Scratch) \in Nat
        /\ LeastOf3(n, len, Scratch) <= len
    BY <1>2, LeastFacts, Zenon
  <2>4. QED BY <1>2, <2>1, <2>2, <2>3
<1>5. CASE want = 0
  <2>1. o = [src |-> FinishFade(t), res |-> Result(<<>>, <<>>, "nil")]
    <3>1. want <= 0
      BY <1>5
    <3>2. QED BY <3>1 DEF ReadFade
  <2>2. Playing(FinishFade(t), nx, fr, ct)
    BY <1>4, <1>5, FadeEnds
  <2>3. /\ o.src = FinishFade(t) /\ o.res.frames = <<>> /\ o.res.under = <<>> /\ o.res.err = "nil"
    BY <2>1 DEF Result
  <2>4. FinishFade(t).prim = p /\ FinishFade(t).ring = <<>>
    BY <1>1, Finished, Zenon
  <2>5. nn = nx
    <3>1. o.res.frames = FramesOf(p, nx[p], 0)
      BY <1>1, <1>2, <2>3, FramesStream
    <3>2. nn = More(nx, p, 0)
      BY <1>1, <2>3, <3>1, HeardRun
    <3>3. More(nx, p, 0) = nx
      BY <1>1, <1>2 DEF More
    <3>4. QED BY <3>2, <3>3
  <2>6. Sound(o.src, nn, fr, ct)
    BY <2>2, <2>3, <2>5, PlayingSound
  <2>7. Run(<<>>, nx, ct)
    BY <1>1, EmptyRun
  <2>8. QED BY <1>2, <2>3, <2>4, <2>6, <2>7 DEF Delivered, Errors
<1>6. CASE want # 0
  <2>1. PICK d \in Decode(t, want) :
          LET chunk == IF d.n > 0 THEN d.n ELSE want
              mixed == [Advance(t, d.n) EXCEPT
                          !.ring = SubSeq(@, chunk + 1, Len(@)), !.fadePos = @ + chunk]
          IN  o = IF d.err = "failed"
                  THEN [src |-> Advance(t, d.n), res |-> Result(<<>>, <<>>, "failed")]
                  ELSE [src |-> IF mixed.fadePos >= mixed.fadeTotal
                                THEN FinishFade(mixed) ELSE mixed,
                        res |-> Result(SubSeq(t.ring, 1, chunk),
                                       FramesOf(t.prim, t.at[t.prim], d.n), "nil")]
    <3>1. ~(want <= 0)
      BY <1>4, <1>6
    <3>2. QED BY <3>1, Zenon DEF ReadFade
  <2> HIDE DEF want
  <2> DEFINE l == d.n
             c == IF l > 0 THEN l ELSE want
             moved == Advance(t, l)
             mixed == [moved EXCEPT !.ring = SubSeq(@, c + 1, Len(@)), !.fadePos = @ + c]
  <2>2. t.at[p] <= Length[p] /\ nx[p] = t.at[p] /\ t.at[p] \in Nat
    BY <1>1, <1>2 DEF Mixing
  <2>3. /\ l \in Nat /\ t.at[p] + l <= Length[p] /\ c \in Nat /\ c <= len /\ c # 0
    <3>1. l \in Nat /\ l <= want /\ l <= Length[p] - t.at[p]
      BY <1>1, <1>4, <1>6, <2>2, Decoded
    <3>2. QED BY <1>2, <1>4, <1>6, <2>2, <3>1
  <2>4. /\ moved \in Sources /\ SameFade(t, moved) /\ moved.prim = p /\ moved.sec = t.sec
        /\ moved.at = [t.at EXCEPT ![p] = @ + l]
    BY <1>1, <2>3, Advanced
  <2>5. CASE d.err = "failed"
    <3>1. o = [src |-> moved, res |-> Result(<<>>, <<>>, "failed")]
      BY <2>1, <2>5
    <3> HIDE DEF moved, l
    <3>2. o.src = moved /\ o.res.frames = <<>> /\ o.res.under = <<>> /\ o.res.err = "failed"
      BY <3>1 DEF Result
    <3>3. nn = More(nx, p, l)
      <4>1. o.res.frames = FramesOf(p, nx[p], 0)
        BY <1>1, <1>2, <3>2, FramesStream
      <4>2. o.src.prim = p /\ o.src.at[p] = nx[p] + l
        BY <1>1, <1>2, <2>2, <2>3, <2>4, <3>2
      <4> HIDE DEF p
      <4>3. QED BY <1>1, <2>3, <3>2, <4>1, <4>2, FailedRun
    <3>4. nn = More(More(nx, q, 0), p, l)
      <4>1. More(nx, q, 0) = nx
        BY <1>1, <1>2 DEF More
      <4>2. QED BY <3>3, <4>1
    <3>5. Moved(t, moved, 0, l)
      <4>1. SubSeq(t.ring, 0 + 1, Len(t.ring)) = t.ring
        BY <1>2
      <4>2. t.fadePos + 0 = t.fadePos
        BY <1>2
      <4>3. 0 \in Nat /\ 0 <= Len(t.ring)
        BY <1>2
      <4>4. QED BY <2>3, <2>4, <4>1, <4>2, <4>3 DEF Moved, SameFade
    <3>6. Mixing(moved, nn, fr, ct, q) /\ Len(moved.ring) = len - 0
      <4> HIDE DEF nn
      <4>1. QED BY <3>4, <3>5, FadeMoves
    <3>7. Sound(moved, nn, fr, ct)
      BY <1>2, <2>3, <3>6, MixingSound
    <3>8. Run(<<>>, nx, ct)
      BY <1>1, EmptyRun
    <3>9. moved.primaryEOF
      BY <3>6, SMTT(30) DEF Mixing
    <3>10. QED BY <1>2, <2>4, <3>2, <3>7, <3>8, <3>9 DEF Delivered, Errors
  <2>6. CASE d.err # "failed"
    <3>1. o = [src |-> IF mixed.fadePos >= mixed.fadeTotal THEN FinishFade(mixed) ELSE mixed,
               res |-> Result(SubSeq(t.ring, 1, c), FramesOf(p, nx[p], l), "nil")]
      BY <2>1, <2>2, <2>6
    <3> HIDE DEF moved, l, c
    <3>2. Moved(t, mixed, c, l)
      <4>1. moved.ring = t.ring /\ moved.fadePos = t.fadePos /\ t.fadePos + c \in Nat
        BY <1>2, <2>3, <2>4 DEF SameFade
      <4>2. SubSeq(t.ring, c + 1, len) \in Seq(Frames)
        BY <1>2, <2>3
      <4>3. mixed = [moved EXCEPT !.ring = SubSeq(t.ring, c + 1, len), !.fadePos = t.fadePos + c]
        BY <4>1
      <4>4. \A r \in Seq(Frames), i \in Nat : [moved EXCEPT !.ring = r, !.fadePos = i] \in Sources
        BY <2>4, Zenon DEF Sources
      <4>5. mixed \in Sources
        BY <4>1, <4>2, <4>3, <4>4, Zenon
      <4>6. QED BY <2>3, <2>4, <4>3, <4>5, Zenon DEF Moved, SameFade, Sources
    <3> HIDE DEF mixed
    <3>3. SubSeq(t.ring, 1, c) = FramesOf(q, nx[q], c)
      <4> DEFINE a == nx[q]
      <4>1. /\ a \in Nat /\ len \in Nat /\ c \in 0 .. len /\ q \in Streams
            /\ t.ring = FramesOf(q, a, len)
        BY <1>1, <1>2, <1>3, <2>3
      <4> HIDE DEF a, len
      <4>2. SubSeq(FramesOf(q, a, len), 1, c) = FramesOf(q, a, c)
        BY <4>1, FramesSplit, Zenon
      <4>3. QED BY <4>1, <4>2 DEF a
    <3>4. /\ o.res.frames = FramesOf(q, nx[q], c) /\ o.res.under = FramesOf(p, nx[p], l)
          /\ o.res.err = "nil"
          /\ o.src = IF mixed.fadePos >= mixed.fadeTotal THEN FinishFade(mixed) ELSE mixed
      BY <3>1, <3>3, Zenon DEF Result
    <3>5. nn = More(More(nx, q, c), p, l)
      <4>1. o.res.err # "failed"
        BY <3>4
      <4> HIDE DEF p
      <4>2. QED BY <1>1, <2>3, <3>4, <4>1, HeardMix
    <3>6. Mixing(mixed, nn, fr, ct, q) /\ Len(mixed.ring) = len - c
      <4> HIDE DEF nn
      <4>1. QED BY <3>2, <3>5, FadeMoves
    <3>7. mixed.fadePos >= mixed.fadeTotal <=> Len(mixed.ring) = 0
      <4>1. mixed.fadePos \in Nat /\ mixed.fadePos + (len - c) = mixed.fadeTotal
        BY <3>6, SourceFields, SMTT(30) DEF Mixing
      <4>2. QED BY <1>2, <2>3, <3>6, <4>1, SMTT(30)
    <3>8. Sound(o.src, nn, fr, ct) /\ o.src.prim = p /\ (o.src.primaryEOF \/ o.src.ring = <<>>)
      <4> HIDE DEF nn
      <4>1. mixed \in Sources /\ mixed.prim = p /\ mixed.primaryEOF
        BY <3>2, <3>6 DEF Moved, Mixing
      <4>2. CASE Len(mixed.ring) = 0
        <5>1. o.src = FinishFade(mixed)
          BY <3>4, <3>7, <4>2
        <5>2. Playing(o.src, nn, fr, ct)
          BY <3>6, <4>2, <5>1, FadeEnds
        <5>3. Sound(o.src, nn, fr, ct)
          BY <5>2, PlayingSound
        <5>4. QED BY <4>1, <5>1, <5>3, Finished, ZenonT(30)
      <4>3. CASE Len(mixed.ring) # 0
        <5>1. o.src = mixed
          BY <3>4, <3>7, <4>3
        <5>2. Sound(o.src, nn, fr, ct)
          BY <3>6, <4>3, <5>1, MixingSound
        <5>3. QED BY <4>1, <5>1, <5>2
      <4>4. QED BY <4>2, <4>3, SMTT(30)
    <3>9. Len(o.res.frames) <= Fade
      <4>1. Len(FramesOf(q, nx[q], c)) = c
        BY <1>1, <1>2, <2>3, FramesType
      <4>2. QED BY <1>2, <1>3, <2>3, <3>4, <4>1
    <3>10. Run(o.res.frames, nx, ct) /\ Run(o.res.under, nx, ct)
      BY <1>1, <2>3, <3>4 DEF Run
    <3>11. Delivered(o, nx, fr, ct)
      BY <3>4, <3>8, <3>10 DEF Delivered, Errors
    <3>12. QED BY <3>8, <3>9, <3>11
  <2>7. QED BY <2>5, <2>6
<1>7. QED BY <1>5, <1>6

\* Whether the lookahead has the reserve after a read, as OutputReads notes it.
ReserveAfter(s, rsv, o) ==
  /\ o.src.prim = s.prim
  /\ o.res.err # "failed"
  /\ IF o.src.primaryEOF THEN rsv /\ s.sec # None
     ELSE rsv \/ Len(o.src.ring) + Len(o.res.frames) > Fade

\* The reserve is kept, and a stream that had it fades over the whole crossfade.
Faded(s, nx, rsv, o) ==
  /\ Reserved(o.src, ReserveAfter(s, rsv, o))
  /\ rsv /\ Fade > 0 /\ s.prim \notin NoFade /\ o.src.prim # s.prim
       => Length[s.prim] - nx[s.prim] = Fade

\* readCrossfade outside a fade.
LEMMA Served ==
  ASSUME NEW s, NEW nx, NEW fr, NEW ct, Playing(s, nx, fr, ct), Fade # 0,
         NEW n \in Nat \ {0}, NEW f \in Refill(s), NEW o \in ServeCrossfade(f, n),
         NEW rsv \in BOOLEAN, Reserved(s, rsv)
  PROVE  Delivered(o, nx, fr, ct) /\ Faded(s, nx, rsv, o)
<1> DEFINE len == Len(f.ring)
           over == len - Fade
<1>1. /\ Playing(f, nx, fr, ct) /\ f.prim = s.prim /\ f.sec = s.sec /\ len >= Len(s.ring)
      /\ s.pendingErr => f.pendingErr
      /\ \/ f.primaryEOF \/ f.pendingErr \/ len > Len(s.ring) \/ Len(s.ring) = Capacity
  BY Refilled
<1>2. /\ f \in Sources /\ s \in Sources /\ len \in Nat /\ Len(s.ring) \in Nat /\ Fade \in Nat
      /\ Headroom \in Nat \ {0} /\ Capacity = Fade + Headroom /\ n \in Nat
      /\ f.prim \in Streams /\ nx[f.prim] \in Nat /\ nx \in [Streams -> Nat] /\ f.prim \notin ct
  BY <1>1, SourceFields, SourceAssumption DEF Playing, Capacity
<1>3. rsv /\ s.prim \notin NoFade => f.pendingErr \/ len >= Fade
  BY <1>1, <1>2 DEF Reserved
<1>4. CASE ~f.primaryEOF /\ ~f.pendingErr
  <2> DEFINE limit == IF over <= 0 THEN len ELSE over
  <2>1. o = Pop(f, n, limit, "nil")
    BY <1>4 DEF ServeCrossfade
  <2>2. limit \in Nat /\ (len > Fade => limit = len - Fade)
    BY <1>2
  <2> HIDE DEF limit
  <2>3. Serving(f, nx, fr, ct, limit, "nil", o)
    BY <1>1, <1>2, <2>1, <2>2, Popped
  <2>4. /\ Delivered(o, nx, fr, ct) /\ o.src.prim = f.prim /\ ~o.src.fading
        /\ o.src.primaryEOF = f.primaryEOF
    BY <2>3 DEF Serving
  <2>5. PICK k \in 0 .. len :
          k <= limit /\ Len(o.src.ring) = len - k /\ Len(o.res.frames) = k
    BY <2>3 DEF Serving
  <2>6. rsv /\ s.prim \notin NoFade => len > Fade
    BY <1>1, <1>2, <1>4 DEF Reserved
  <2>7. len > Fade => Len(o.src.ring) >= Fade
    BY <1>2, <2>2, <2>5
  <2>8. ReserveAfter(s, rsv, o) => rsv \/ len > Fade
    BY <1>2, <1>4, <2>4, <2>5 DEF ReserveAfter
  <2>9. Reserved(o.src, ReserveAfter(s, rsv, o))
    BY <1>1, <2>4, <2>6, <2>7, <2>8 DEF Reserved
  <2>10. QED BY <1>1, <2>4, <2>9 DEF Faded
<1>5. CASE ~f.primaryEOF /\ f.pendingErr /\ len > 0
  <2>1. o = Pop(f, n, len, "nil")
    BY <1>5 DEF ServeCrossfade
  <2>2. /\ Delivered(o, nx, fr, ct) /\ o.src.prim = f.prim /\ ~o.src.fading
        /\ o.src.pendingErr = f.pendingErr
    <3>1. Serving(f, nx, fr, ct, len, "nil", o)
      BY <1>1, <1>2, <2>1, Popped
    <3>2. QED BY <3>1 DEF Serving
  <2>3. QED BY <1>1, <1>5, <2>2 DEF Faded, Reserved
<1>6. CASE ~f.primaryEOF /\ f.pendingErr /\ ~(len > 0)
  <2> DEFINE e == [f EXCEPT !.pendingErr = FALSE]
  <2>1. o = [src |-> e, res |-> Result(<<>>, <<>>, "failed")]
    BY <1>6 DEF ServeCrossfade
  <2>2. /\ e \in Sources /\ e.prim = f.prim /\ e.sec = f.sec /\ e.at = f.at /\ e.ring = f.ring
        /\ e.primaryEOF = f.primaryEOF /\ e.fading = f.fading
    BY <1>2, Zenon DEF Sources
  <2> HIDE DEF e
  <2>3. o.src = e /\ o.res.frames = <<>> /\ o.res.under = <<>> /\ o.res.err = "failed"
    BY <2>1 DEF Result
  <2>4. len = 0 /\ f.at[f.prim] = nx[f.prim] + 0
    BY <1>1, <1>2, <1>6 DEF Playing
  <2>5. HeardAfter(nx, o) = nx
    <3>1. o.res.frames = FramesOf(f.prim, nx[f.prim], 0)
      BY <1>2, <2>3, FramesStream
    <3>2. HeardAfter(nx, o) = More(nx, f.prim, 0)
      BY <1>2, <2>2, <2>3, <2>4, <3>1, FailedRun
    <3>3. More(nx, f.prim, 0) = nx
      BY <1>2 DEF More
    <3>4. QED BY <3>2, <3>3
  <2>6. Playing(e, nx, fr, ct)
    BY <1>1, <1>6, <2>2, SMTT(30) DEF Playing
  <2>7. Sound(o.src, HeardAfter(nx, o), fr, ct)
    BY <2>3, <2>5, <2>6, PlayingSound
  <2>8. Run(<<>>, nx, ct)
    BY <1>2, EmptyRun
  <2>9. Delivered(o, nx, fr, ct)
    BY <2>3, <2>7, <2>8 DEF Delivered, Errors
  <2>10. ~ReserveAfter(s, rsv, o)
    BY <2>3 DEF ReserveAfter
  <2>11. QED BY <1>1, <2>2, <2>3, <2>9, <2>10 DEF Faded, Reserved
<1>7. CASE f.primaryEOF /\ f.sec # None /\ over > 0
  <2>1. o = Pop(f, n, over, "nil") /\ over \in Nat
    BY <1>2, <1>7 DEF ServeCrossfade
  <2> HIDE DEF over
  <2>2. Serving(f, nx, fr, ct, over, "nil", o)
    BY <1>1, <1>2, <2>1, Popped
  <2>3. PICK k \in 0 .. len :
          k <= over /\ Len(o.src.ring) = len - k /\ Len(o.res.frames) = k
    BY <2>2 DEF Serving
  <2>4. Len(o.src.ring) >= Fade
    BY <1>2, <2>1, <2>3 DEF over
  <2>5. Delivered(o, nx, fr, ct) /\ o.src.prim = f.prim /\ ~o.src.fading
    BY <2>2 DEF Serving
  <2>6. QED BY <1>1, <2>4, <2>5 DEF Faded, Reserved
<1>8. CASE f.primaryEOF /\ f.sec # None /\ ~(over > 0)
  <2> DEFINE t == StartFade(f)
  <2>1. o \in ReadFade(t, n)
    BY <1>8 DEF ServeCrossfade, StartFade
  <2> HIDE DEF t
  <2>2. len <= Fade
    BY <1>2, <1>8
  <2>3. Mixing(t, nx, fr, ct, f.prim) /\ t.prim = f.sec
    BY <1>1, <1>8, <2>2, FadeStarts, Zenon DEF t
  <2>4. Delivered(o, nx, fr, ct) /\ o.src.prim = f.sec
    BY <2>1, <2>3, FadeRead
  <2>5. o.src.prim # s.prim
    BY <1>1, <2>4 DEF Playing
  <2>6. ~ReserveAfter(s, rsv, o)
    BY <2>5, Zenon DEF ReserveAfter
  <2>7. rsv /\ s.prim \notin NoFade => Length[s.prim] - nx[s.prim] = Fade
    <3>1. /\ nx[s.prim] + len = Length[s.prim] /\ ~f.pendingErr /\ Length[s.prim] \in Nat
          /\ nx[s.prim] \in Nat
      BY <1>1, <1>2, <1>8, SourceAssumption DEF Playing
    <3>2. QED BY <1>2, <1>3, <2>2, <3>1, SMTT(30)
  <2>8. QED BY <2>4, <2>6, <2>7 DEF Faded, Reserved
<1>9. CASE f.primaryEOF /\ f.sec = None
  <2> DEFINE r == ReportDone(f)
  <2>1. /\ r \in Sources /\ SameFade(f, r) /\ r.prim = f.prim /\ r.sec = f.sec /\ r.at = f.at
    BY <1>2, Reported
  <2>2. Playing(r, nx, fr, ct) /\ Len(r.ring) = len /\ r.primaryEOF
    <3> HIDE DEF r
    <3>1. Playing(r, nx, fr, ct)
      BY <1>1, <2>1, SamePlaying
    <3>2. QED BY <1>9, <2>1, <3>1 DEF SameFade
  <2>3. \E g \in {f, r}, e \in {"nil", "EOF"} : o = Pop(g, n, len, e)
    BY <1>9 DEF ServeCrossfade
  <2> HIDE DEF r
  <2>4. PICK g \in {f, r}, e \in {"nil", "EOF"} : o = Pop(g, n, len, e)
    BY <2>3
  <2>5. Playing(g, nx, fr, ct) /\ g.primaryEOF /\ g.prim = f.prim
    BY <1>1, <1>9, <2>1, <2>2
  <2>6. Delivered(o, nx, fr, ct) /\ o.src.prim = g.prim /\ o.src.primaryEOF = g.primaryEOF
    <3>1. Serving(g, nx, fr, ct, len, e, o)
      BY <1>2, <2>4, <2>5, Popped
    <3>2. QED BY <3>1 DEF Serving
  <2>7. ~ReserveAfter(s, rsv, o)
    BY <1>1, <1>9, <2>5, <2>6 DEF ReserveAfter
  <2>8. QED BY <1>1, <2>5, <2>6, <2>7 DEF Faded, Reserved
<1>10. QED BY <1>4, <1>5, <1>6, <1>7, <1>8, <1>9

\* Read, whichever path serves it.
LEMMA ReadServed ==
  ASSUME NEW s, NEW nx, NEW fr, NEW ct, Sound(s, nx, fr, ct), CanRead(s),
         NEW n \in Nat \ {0}, NEW o \in Read(s, n), NEW rsv \in BOOLEAN, Reserved(s, rsv)
  PROVE  Delivered(o, nx, fr, ct) /\ Faded(s, nx, rsv, o)
<1>1. /\ s \in Sources /\ nx \in [Streams -> Nat] /\ s.prim \in Streams /\ Fade \in Nat
      /\ s.prim \notin ct
  <2>1. s \in Sources /\ nx \in [Streams -> Nat] /\ s.prim \notin ct
    BY SMTT(30) DEF Sound, Fields, Lookahead, Told
  <2>2. s.prim # None
    BY DEF CanRead, Sound, Fields
  <2>3. QED BY <2>1, <2>2, SourceFields, SourceAssumption, SMTT(30)
<1>2. CASE Fade = 0 \/ DeclinesCrossfade(s)
  <2>1. s.ring = <<>> /\ ~s.fading /\ ~s.primaryEOF
    BY <1>2 DEF DeclinesCrossfade, Sound, Fields
  <2>2. o \in ReadDirect(s, n)
    BY <1>2 DEF Read
  <2>3. /\ \E k \in Nat : /\ o.res.frames = FramesOf(s.prim, nx[s.prim], k)
                           /\ o.res.under = <<>> /\ o.res.err \in Errors
        /\ o.src.fading = FALSE
        /\ Sound(o.src, HeardAfter(nx, o), fr, ct)
    BY <1>1, <2>1, <2>2, DirectRead, ZenonT(30)
  <2>4. Run(o.res.frames, nx, ct)
    BY <1>1, <2>3 DEF Run
  <2>5. Run(o.res.under, nx, ct)
    BY <1>1, <2>3, EmptyRun
  <2>6. Delivered(o, nx, fr, ct)
    BY <2>3, <2>4, <2>5 DEF Delivered
  <2>7. Fade = 0 \/ s.prim \in NoFade
    BY <1>2 DEF DeclinesCrossfade
  <2>8. ReserveAfter(s, rsv, o) => o.src.prim = s.prim
    BY DEF ReserveAfter
  <2>9. Faded(s, nx, rsv, o)
    BY <2>3, <2>7, <2>8 DEF Faded, Reserved
  <2>10. QED BY <2>6, <2>9
<1>3. CASE Fade # 0 /\ ~DeclinesCrossfade(s) /\ s.fading
  <2>1. o \in ReadFade(s, n)
    BY <1>3 DEF Read, ReadCrossfade
  <2>2. Mixing(s, nx, fr, ct, Of(s))
    BY <1>3, SoundMixing
  <2>3. /\ Delivered(o, nx, fr, ct) /\ o.src.prim = s.prim /\ Len(o.res.frames) <= Fade
        /\ o.src.primaryEOF \/ o.src.ring = <<>>
    BY <2>1, <2>2, FadeRead
  <2>4. ~rsv
    BY <1>3 DEF Reserved
  <2>5. ~ReserveAfter(s, rsv, o)
    <3>1. o.res.frames \in Seq(Frames)
      BY <1>1, <2>3, FramesType DEF Delivered, Run
    <3>2. CASE o.src.primaryEOF
      BY <2>4, <3>2 DEF ReserveAfter
    <3>3. CASE ~o.src.primaryEOF
      <4>1. Len(o.src.ring) = 0 /\ Len(o.res.frames) \in Nat
        BY <2>3, <3>1, <3>3
      <4>2. ~(Len(o.src.ring) + Len(o.res.frames) > Fade)
        BY <1>1, <2>3, <4>1
      <4>3. QED BY <2>4, <3>3, <4>2, Zenon DEF ReserveAfter
    <3>4. QED BY <3>2, <3>3
  <2>6. QED BY <2>3, <2>4, <2>5 DEF Faded, Reserved
<1>4. CASE Fade # 0 /\ ~DeclinesCrossfade(s) /\ ~s.fading
  <2>1. PICK f \in Refill(s) : o \in ServeCrossfade(f, n)
    BY <1>4 DEF Read, ReadCrossfade
  <2>2. Playing(s, nx, fr, ct)
    BY <1>1, <1>4, SoundPlaying
  <2>3. QED BY <1>4, <2>1, <2>2, Served
<1>5. QED BY <1>2, <1>3, <1>4

\* What the runs of a read are.
LEMMA RunFacts ==
  ASSUME NEW nx \in [Streams -> Nat], NEW ct, NEW f, Run(f, nx, ct)
  PROVE  /\ f \in Seq(Frames)
         /\ f # <<>> => /\ f = FramesOf(f[1][1], nx[f[1][1]], Len(f))
                        /\ f[1][1] \notin ct
<1>1. PICK st \in Streams \ ct, k \in Nat : f = FramesOf(st, nx[st], k)
  BY DEF Run
<1>2. nx[st] \in Nat
  OBVIOUS
<1>3. f \in Seq(Frames) /\ Len(f) = k
  BY <1>1, <1>2, FramesType
<1>4. f # <<>> => f[1][1] = st
  BY <1>1, <1>2, FramesStream
<1>5. QED BY <1>1, <1>3, <1>4

---------------------------------------------------------------------------
(***************************************************************************)
(* Setting streams and seeking                                             *)
(***************************************************************************)

\* The streams in the lookahead: none, or the one that plays or fades out.
LEMMA OfFacts ==
  ASSUME NEW s, NEW nx, NEW fr, NEW ct, Sound(s, nx, fr, ct)
  PROVE  /\ {s.ring[i][1] : i \in DOMAIN s.ring} = {Of(s)} \ {None}
         /\ Of(s) \in Streams \cup {None} /\ Of(s) \notin fr \cup ct
         /\ Of(s) # None => Of(s) # s.sec
<1>1. /\ None \notin Streams /\ s \in Sources /\ nx \in [Streams -> Nat]
      /\ s.ring \in Seq(Frames) /\ s.prim \in Streams \cup {None}
  BY SourceFields, SourceAssumption DEF Sound, Fields, Lookahead
<1>2. Of(s) \notin fr \cup ct
  BY DEF Sound, Told
<1>3. CASE s.ring = <<>>
  <2>1. {s.ring[i][1] : i \in DOMAIN s.ring} = {} /\ Of(s) = None
    BY <1>3 DEF Of
  <2>2. QED BY <1>2, <2>1, ZenonT(30)
<1>4. CASE s.ring # <<>>
  <2>1. Of(s) \in Streams /\ s.ring = FramesOf(Of(s), nx[Of(s)], Len(s.ring)) /\ Len(s.ring) \in Nat
    BY <1>1, <1>4 DEF Sound, Lookahead
  <2>2. /\ DOMAIN s.ring = 1 .. Len(s.ring) /\ Len(s.ring) # 0
        /\ \A i \in 1 .. Len(s.ring) : s.ring[i][1] = Of(s)
    <3> DEFINE len == Len(s.ring)
               st == Of(s)
               from == nx[st]
    <3>1. len \in Nat /\ st \in Streams /\ from \in Nat /\ s.ring = FramesOf(st, from, len)
      BY <1>1, <2>1, SMTT(30)
    <3> HIDE DEF len, st, from
    <3>2. DOMAIN s.ring = 1 .. len /\ len # 0 /\ \A i \in 1 .. len : s.ring[i][1] = st
      BY <1>4, <3>1, FramesStream
    <3>3. QED BY <3>2 DEF len, st
  <2>3. {s.ring[i][1] : i \in DOMAIN s.ring} = {Of(s)}
    BY <2>1, <2>2, SMTT(30)
  <2>4. Of(s) # s.sec
    <3>1. CASE s.fading
      BY <3>1 DEF Sound, Lookahead
    <3>2. CASE ~s.fading
      <4>1. s.prim # None
        BY <1>4 DEF Sound, Fields
      <4>2. Of(s) = s.prim
        BY <1>1, <2>1, <3>2, <4>1 DEF Sound, Lookahead
      <4>3. QED BY <4>1, <4>2 DEF Sound, Fields
    <3>3. QED BY <3>1, <3>2
  <2>5. QED BY <1>1, <1>2, <2>1, <2>3, <2>4, ZenonT(30)
<1>5. QED BY <1>3, <1>4

\* resetCrossfade: no lookahead, whether or not there is crossfading.
LEMMA Resetted ==
  ASSUME NEW s, Fields(s), NEW r, r = ResetCrossfade(s)
  PROVE  /\ r \in Sources /\ r.prim = s.prim /\ r.sec = s.sec /\ r.at = s.at
         /\ r.ring = <<>> /\ ~r.primaryEOF /\ ~r.fading
<1>1. s \in Sources
  BY DEF Fields
<1>2. CASE Fade = 0
  BY <1>1, <1>2 DEF ResetCrossfade, Fields
<1>3. CASE Fade # 0
  <2> DEFINE e == FinishFade(s)
  <2>1. /\ e \in Sources /\ e.prim = s.prim /\ e.sec = s.sec /\ e.at = s.at
        /\ e.ring = <<>> /\ e.primaryEOF = FALSE /\ e.fading = FALSE
    BY <1>1, Finished, Zenon
  <2>2. r = [e EXCEPT !.pendingErr = FALSE]
    BY <1>3 DEF ResetCrossfade
  <2> HIDE DEF e
  <2>3. QED BY <2>1, <2>2, Zenon DEF Sources
<1>4. QED BY <1>2, <1>3

\* A source that was just set or sought: nothing is decoded ahead.
AtRest(s, nx, fr, ct) ==
  /\ s \in Sources /\ nx \in [Streams -> Nat]
  /\ s.prim \in Streams /\ s.prim # s.sec /\ s.ring = <<>> /\ ~s.fading /\ ~s.primaryEOF
  /\ nx[s.prim] = s.at[s.prim] /\ \A x \in Streams : s.at[x] <= Length[x]
  /\ fr \subseteq Streams /\ ct \subseteq Streams /\ fr \cap ct = {}
  /\ {s.prim, s.sec} \cap (fr \cup ct) = {}
  /\ \A x \in fr \cup ({s.sec} \ {None}) : nx[x] = 0 /\ s.at[x] = 0
  /\ \A x \in Streams \ (fr \cup ct \cup {s.prim, s.sec}) : nx[x] = Length[x]

\* A source that starts a stream afresh at the decoder's position.
LEMMA Restarted ==
  ASSUME NEW s, NEW nx, NEW fr, NEW ct, AtRest(s, nx, fr, ct)
  PROVE  Sound(s, nx, fr, ct)
<1>1. nx[s.prim] \in Nat /\ Len(s.ring) = 0 /\ Capacity \in Nat
  BY SourceAssumption DEF Capacity, AtRest
<1>2. s.ring = FramesOf(s.prim, nx[s.prim], 0) /\ nx[s.prim] + 0 = s.at[s.prim]
  BY <1>1, FramesStream DEF AtRest
<1>3. Playing(s, nx, fr, ct)
  BY <1>1, <1>2 DEF Playing, AtRest
<1>4. QED BY <1>3, PlayingSound

\* SetPrimary with the stream that plays already.
LEMMA SameStreamSet ==
  ASSUME NEW s, NEW nx, NEW fr, NEW ct, Sound(s, nx, fr, ct), s.prim \in Streams
  PROVE  LET m == SetPrimary(s, s.prim)
         IN  /\ Sound(m, nx, fr, ct) /\ m.prim = s.prim /\ m.ring = s.ring
             /\ m.fading = s.fading /\ m.pendingErr = s.pendingErr
<1> DEFINE m == SetPrimary(s, s.prim)
<1>1. s \in Sources /\ s.prim # s.sec
  BY SourceAssumption DEF Sound, Fields
<1>2. m = [s EXCEPT !.sec = s.sec, !.eofReported = FALSE]
  BY <1>1, Zenon DEF SetPrimary, Sources
<1>3. m \in Sources /\ SameFade(s, m) /\ m.prim = s.prim /\ m.sec = s.sec /\ m.at = s.at
  BY <1>1, <1>2, Zenon DEF Sources, SameFade
<1> HIDE DEF m
<1>4. Sound(m, nx, fr, ct)
  BY <1>3, SameSound
<1>5. QED BY <1>3, <1>4 DEF m, SameFade

\* SetPrimary with another stream, a fresh one or the prefetched one.
LEMMA OtherStreamSet ==
  ASSUME NEW s, NEW nx, NEW fr, NEW ct, Sound(s, nx, fr, ct), NEW new \in Streams,
         new \in fr \cup {s.sec}, new # s.prim
  PROVE  Sound(SetPrimary(s, new), nx, fr \ {new},
               ct \cup {s.ring[i][1] : i \in DOMAIN s.ring} \cup ({s.prim} \ {None}))
<1> DEFINE m == SetPrimary(s, new)
           r == ResetCrossfade(s)
           of == Of(s)
           ft == fr \ {new}
           dt == ct \cup ({of} \ {None}) \cup ({s.prim} \ {None})
<1>1. /\ s \in Sources /\ nx \in [Streams -> Nat] /\ Fields(s) /\ None \notin Streams
      /\ s.prim \in Streams \cup {None} /\ s.sec \in Streams \cup {None}
      /\ s.at \in [Streams -> Nat]
  BY SourceFields, SourceAssumption DEF Sound, Fields, Lookahead
<1>2. /\ {s.ring[i][1] : i \in DOMAIN s.ring} = {of} \ {None}
      /\ of \in Streams \cup {None} /\ of \notin fr \cup ct
      /\ of # None => of # s.sec
  BY OfFacts
<1>3. /\ r \in Sources /\ r.prim = s.prim /\ r.sec = s.sec /\ r.at = s.at
      /\ r.ring = <<>> /\ ~r.primaryEOF /\ ~r.fading
  BY <1>1, Resetted
<1>4. m = [[r EXCEPT !.prim = new]
            EXCEPT !.sec = IF @ = new THEN None ELSE @, !.eofReported = FALSE]
  BY Zenon DEF SetPrimary
<1> HIDE DEF r
<1>5. /\ m \in Sources /\ m.prim = new /\ m.sec = (IF s.sec = new THEN None ELSE s.sec)
      /\ m.at = s.at /\ m.ring = <<>> /\ ~m.primaryEOF /\ ~m.fading
  BY <1>1, <1>3, <1>4, Zenon DEF Sources
<1> HIDE DEF m, of
<1>6. /\ fr \subseteq Streams /\ ct \subseteq Streams /\ fr \cap ct = {}
      /\ s.prim \notin fr \cup ct /\ s.sec \notin fr \cup ct
      /\ \A x \in fr \cup ({s.sec} \ {None}) : nx[x] = 0 /\ s.at[x] = 0
      /\ \A x \in Streams \ (fr \cup ct \cup {s.prim, s.sec, of}) : nx[x] = Length[x]
  BY DEF Sound, Told, of
<1>7. s.prim # None => s.prim # s.sec
  BY DEF Sound, Fields
<1>8. new \notin ct /\ new # of /\ nx[new] = 0 /\ s.at[new] = 0
  BY <1>1, <1>2, <1>6
<1>9. /\ ft \subseteq Streams /\ dt \subseteq Streams /\ ft \cap dt = {}
      /\ {m.prim, m.sec} \cap (ft \cup dt) = {}
  <2>1. ft \subseteq Streams /\ dt \subseteq Streams
    BY <1>1, <1>2, <1>6
  <2>2. ft \cap dt = {}
    BY <1>2, <1>6
  <2>3. m.prim \notin ft \cup dt
    BY <1>5, <1>8
  <2>4. m.sec \notin ft \cup dt
    BY <1>1, <1>2, <1>5, <1>6, <1>7, <2>1
  <2>5. QED BY <2>1, <2>2, <2>3, <2>4
<1>10. \A x \in ft \cup ({m.sec} \ {None}) : nx[x] = 0 /\ m.at[x] = 0
  BY <1>5, <1>6, Zenon
<1>11. \A x \in Streams \ (ft \cup dt \cup {m.prim, m.sec}) : nx[x] = Length[x]
  BY <1>1, <1>2, <1>5, <1>6, Zenon
<1>12. /\ m.prim # m.sec /\ nx[m.prim] = m.at[m.prim]
       /\ \A x \in Streams : m.at[x] <= Length[x]
  BY <1>1, <1>5, <1>8 DEF Fields
<1> HIDE DEF ft, dt
<1>13. AtRest(m, nx, ft, dt)
  BY <1>1, <1>5, <1>9, <1>10, <1>11, <1>12, Zenon DEF AtRest
<1>14. Sound(m, nx, ft, dt)
  BY <1>13, Restarted
<1>15. QED BY <1>2, <1>14, ZenonT(30) DEF m, ft, dt

\* SetSecondary with a fresh stream or with none.
LEMMA OtherSecondarySet ==
  ASSUME NEW s, NEW nx, NEW fr, NEW ct, Sound(s, nx, fr, ct), NEW new \in fr \cup {None}
  PROVE  LET m == SetSecondary(s, new)
         IN  /\ Sound(m, nx, fr \ {new}, ct \cup ({s.sec} \ {None}))
             /\ m.prim = s.prim /\ m.ring = s.ring
             /\ m.fading = s.fading /\ m.pendingErr = s.pendingErr
<1> DEFINE m == SetSecondary(s, new)
           of == Of(s)
           ft == fr \ {new}
           dt == ct \cup ({s.sec} \ {None})
<1>1. /\ s \in Sources /\ nx \in [Streams -> Nat] /\ Fields(s) /\ Lookahead(s, nx)
      /\ None \notin Streams
      /\ s.prim \in Streams \cup {None} /\ s.sec \in Streams \cup {None}
      /\ s.at \in [Streams -> Nat]
  BY SourceFields, SourceAssumption DEF Sound, Fields, Lookahead
<1>2. /\ of \in Streams \cup {None} /\ of \notin fr \cup ct
      /\ of # None => of # s.sec
  BY OfFacts
<1>3. /\ fr \subseteq Streams /\ ct \subseteq Streams /\ fr \cap ct = {}
      /\ s.prim \notin fr \cup ct /\ s.sec \notin fr \cup ct
      /\ \A x \in fr \cup ({s.sec} \ {None}) : nx[x] = 0 /\ s.at[x] = 0
      /\ \A x \in Streams \ (fr \cup ct \cup {s.prim, s.sec, of}) : nx[x] = Length[x]
  BY DEF Sound, Told
<1>4. /\ m \in Sources /\ SameFade(s, m) /\ m.prim = s.prim /\ m.sec = new /\ m.at = s.at
  <2>1. new \in Streams \cup {None}
    BY <1>3
  <2>2. QED BY <1>1, <2>1, Zenon DEF SetSecondary, Sources, SameFade
<1>5. Of(m) = of
  BY <1>4 DEF Of, SameFade
<1> HIDE DEF m, of
<1>6. s.prim # None => s.prim # s.sec /\ s.prim # new
  BY <1>1, <1>3 DEF Fields
<1>7. Fields(m)
  BY <1>1, <1>4, <1>6, SMTT(30) DEF Fields, SameFade
<1>8. Lookahead(m, nx)
  <2>1. s.fading => of # new
    <3>1. s.fading => of # None
      BY <1>1, <1>2 DEF Lookahead, of
    <3>2. QED BY <1>2, <3>1
  <2>2. s.fading => Of(m) \notin {m.prim, m.sec}
    BY <1>1, <1>4, <1>5, <2>1 DEF Lookahead, of
  <2>3. QED BY <1>1, <1>4, <1>5, <2>2 DEF Lookahead, SameFade, of
<1>9. Told(m, nx, ft, dt)
  <2>1. /\ ft \subseteq Streams /\ dt \subseteq Streams /\ ft \cap dt = {}
        /\ {m.prim, m.sec, of} \cap (ft \cup dt) = {}
    BY <1>1, <1>2, <1>3, <1>4, <1>6
  <2>2. \A x \in ft \cup ({m.sec} \ {None}) : nx[x] = 0 /\ m.at[x] = 0
    BY <1>3, <1>4, Zenon
  <2>3. \A x \in Streams \ (ft \cup dt \cup {m.prim, m.sec, of}) : nx[x] = Length[x]
    BY <1>1, <1>3, <1>4, Zenon
  <2>4. QED BY <1>5, <2>1, <2>2, <2>3 DEF Told
<1>10. Sound(m, nx, ft, dt)
  BY <1>7, <1>8, <1>9 DEF Sound
<1>11. QED BY <1>4, <1>10, SMTT(30) DEF m, SameFade

\* SetPositionMs: the listener is where the decoder is, wherever that is.
LEMMA Sought ==
  ASSUME NEW s, NEW nx, NEW fr, NEW ct, Sound(s, nx, fr, ct), s.prim # None,
         NEW pos \in Nat, pos <= Length[s.prim], NEW ok \in BOOLEAN, NEW nn,
         nn = [nx EXCEPT ![s.prim] = SetPosition(s, pos, ok).at[s.prim]],
         NEW dt,
         dt = IF Fade = 0 THEN ct ELSE ct \cup ({s.ring[i][1] : i \in DOMAIN s.ring} \ {s.prim})
  PROVE  Sound(SetPosition(s, pos, ok), nn, fr, dt)
<1> DEFINE m == SetPosition(s, pos, ok)
           r == ResetCrossfade(s)
           of == Of(s)
           p == s.prim
<1>1. /\ s \in Sources /\ nx \in [Streams -> Nat] /\ Fields(s) /\ None \notin Streams
      /\ p \in Streams /\ s.sec \in Streams \cup {None} /\ s.at \in [Streams -> Nat] /\ p # s.sec
      /\ \A x \in Streams : s.at[x] <= Length[x]
  BY SourceFields, SourceAssumption, SMTT(30) DEF Sound, Fields, Lookahead
<1>2. /\ {s.ring[i][1] : i \in DOMAIN s.ring} = {of} \ {None}
      /\ of \in Streams \cup {None} /\ of \notin fr \cup ct
      /\ of # None => of # s.sec
  BY OfFacts
<1>3. /\ r \in Sources /\ r.prim = p /\ r.sec = s.sec /\ r.at = s.at
      /\ r.ring = <<>> /\ ~r.primaryEOF /\ ~r.fading
  BY <1>1, Resetted
<1>4. /\ fr \subseteq Streams /\ ct \subseteq Streams /\ fr \cap ct = {}
      /\ p \notin fr \cup ct /\ s.sec \notin fr \cup ct
      /\ \A x \in fr \cup ({s.sec} \ {None}) : nx[x] = 0 /\ s.at[x] = 0
      /\ \A x \in Streams \ (fr \cup ct \cup {p, s.sec, of}) : nx[x] = Length[x]
  BY DEF Sound, Told
<1>5. dt = ct \cup (({of} \ {None}) \ {p})
  <2>1. CASE Fade = 0
    <3>1. of = None
      BY <1>1, <2>1 DEF Fields, Of
    <3>2. QED BY <2>1, <3>1
  <2>2. CASE Fade # 0
    BY <1>2, <2>2, SMTT(30)
  <2>3. QED BY <2>1, <2>2
<1>6. /\ m \in Sources /\ m.prim = p /\ m.sec = s.sec /\ m.at \in [Streams -> Nat]
      /\ m.ring = <<>> /\ ~m.primaryEOF /\ ~m.fading /\ m.at[p] <= Length[p]
      /\ \A x \in Streams : x # p => m.at[x] = s.at[x]
  <2>1. CASE ok
    <3> DEFINE at == [s.at EXCEPT ![p] = pos]
    <3>1. at \in [Streams -> Nat] /\ at[p] = pos /\ \A x \in Streams : x # p => at[x] = s.at[x]
      BY <1>1
    <3>2. m = [r EXCEPT !.at = at, !.eofReported = IF Fade > 0 THEN FALSE ELSE @]
      BY <1>3, <2>1 DEF SetPosition, Sources
    <3> HIDE DEF at, r, m
    <3>3. r.eofReported \in BOOLEAN
      BY <1>3 DEF Sources
    <3>4. QED BY <1>3, <3>1, <3>2, <3>3, ZenonT(30) DEF Sources
  <2>2. CASE ~ok
    <3>1. m = r
      BY <2>2 DEF SetPosition
    <3> HIDE DEF m, r
    <3>2. QED BY <1>1, <1>3, <3>1
  <2>3. QED BY <2>1, <2>2
<1>7. nn = [nx EXCEPT ![p] = m.at[p]]
  OBVIOUS
<1> HIDE DEF m, r, of
<1>8. /\ nn \in [Streams -> Nat] /\ nn[p] = m.at[p]
      /\ \A x \in Streams : x # p => nn[x] = nx[x]
  BY <1>1, <1>6, <1>7
<1>9. /\ dt \subseteq Streams /\ fr \cap dt = {} /\ {p, s.sec} \cap (fr \cup dt) = {}
  <2>1. dt \subseteq Streams
    BY <1>2, <1>4, <1>5
  <2>2. fr \cap dt = {}
    BY <1>2, <1>4, <1>5
  <2>3. p \notin dt /\ s.sec \notin dt
    BY <1>2, <1>4, <1>5
  <2>4. QED BY <1>4, <2>1, <2>2, <2>3
<1>10. \A x \in fr \cup ({s.sec} \ {None}) : nn[x] = 0 /\ m.at[x] = 0
  BY <1>1, <1>4, <1>6, <1>8, ZenonT(30)
<1>11. \A x \in Streams \ (fr \cup dt \cup {p, s.sec}) : nn[x] = Length[x]
  BY <1>1, <1>4, <1>5, <1>8, Zenon
<1>12. \A x \in Streams : m.at[x] <= Length[x]
  BY <1>1, <1>6, Zenon
<1> HIDE DEF p
<1>13. AtRest(m, nn, fr, dt)
  BY <1>1, <1>4, <1>6, <1>8, <1>9, <1>10, <1>11, <1>12, Zenon DEF AtRest
<1>14. Sound(m, nn, fr, dt)
  BY <1>13, Restarted
<1>15. QED BY <1>14, SMTT(30) DEF m
=============================================================================
