-------------------------- MODULE SwitchingSource --------------------------
(***************************************************************************)
(* player/source.go: the source the output device reads, which plays a     *)
(* primary stream, switches to a prefetched secondary one at its end and,  *)
(* with crossfading on, mixes the tail of the one with the head of the     *)
(* other.  Every method holds the source's mutex, so each is one step.     *)
(*                                                                         *)
(* The state is one record, src, and each method an operator on it, so     *)
(* that the player's model can run the same methods.  A frame is a pair    *)
(* <<stream, index>>; the unit of every count is a frame, since streams    *)
(* decode whole frames; the ring is the sequence of frames it holds.       *)
(* The two map entries under which and !which are prim and sec.            *)
(***************************************************************************)
EXTENDS Integers, Sequences

CONSTANTS
  Streams,     \* the audio streams that are ever handed over
  Length,      \* [Streams -> Nat]: frames in a stream
  NoFade,      \* streams whose NoCrossfade() is true (a narrated outro)
  Faulty,      \* streams whose decoder may fail
  None,        \* no stream in the slot
  Fade,        \* crossfadeSamples; zero disables crossfading
  Headroom,    \* lookaheadHeadroom
  Scratch      \* len(scratch): the most one decoder read may return

ASSUME SourceAssumption ==
  /\ Length \in [Streams -> Nat]
  /\ NoFade \subseteq Streams
  /\ Faulty \subseteq Streams
  /\ None \notin Streams
  /\ Fade \in Nat
  /\ Headroom \in Nat \ {0}
  /\ Scratch \in Nat \ {0}

Frames == Streams \X Nat
Least(a, b) == IF a < b THEN a ELSE b
LeastOf3(a, b, c) == Least(a, Least(b, c))

\* len(s.buf)
Capacity == Fade + Headroom

\* NewSwitchingAudioSource
NewSource ==
  [prim |-> None, sec |-> None, at |-> [s \in Streams |-> 0],
   done |-> FALSE, eofReported |-> FALSE,
   ring |-> <<>>, primaryEOF |-> FALSE, pendingErr |-> FALSE,
   fading |-> FALSE, fadeTotal |-> 0, fadePos |-> 0]

Sources ==
  [prim : Streams \cup {None}, sec : Streams \cup {None}, at : [Streams -> Nat],
   done : BOOLEAN, eofReported : BOOLEAN,
   ring : Seq(Frames), primaryEOF : BOOLEAN, pendingErr : BOOLEAN,
   fading : BOOLEAN, fadeTotal : Nat, fadePos : Nat]

---------------------------------------------------------------------------
(***************************************************************************)
(* Setting streams and seeking                                             *)
(***************************************************************************)

\* finishFade
FinishFade(s) ==
  [s EXCEPT !.fading = FALSE, !.fadeTotal = 0, !.fadePos = 0, !.ring = <<>>,
            !.primaryEOF = FALSE]

\* resetCrossfade
ResetCrossfade(s) == IF Fade = 0 THEN s ELSE [FinishFade(s) EXCEPT !.pendingErr = FALSE]

\* Mutant: the end of the new primary counts as reported.
SetPrimaryKeepsReported(s, new) ==
  LET set == IF s.prim # new THEN [ResetCrossfade(s) EXCEPT !.prim = new] ELSE s
  IN  [set EXCEPT !.sec = IF @ = new THEN None ELSE @]

\* SetPrimary: a stream that was already promoted keeps its fade; the alias in
\* the secondary slot goes.  A token left in done stays there.
SetPrimary(s, new) ==
  LET set == IF s.prim # new THEN [ResetCrossfade(s) EXCEPT !.prim = new] ELSE s
  IN  [set EXCEPT !.sec = IF @ = new THEN None ELSE @, !.eofReported = FALSE]

\* SetSecondary, also with no stream, to clear the slot.
SetSecondary(s, new) == [s EXCEPT !.sec = new]

\* SetPositionMs: the decoder's own error leaves the end reported.
SetPosition(s, pos, ok) ==
  IF s.prim = None THEN s
  ELSE LET reset == ResetCrossfade(s) IN
       IF ok THEN [reset EXCEPT !.at[s.prim] = pos,
                                !.eofReported = IF Fade > 0 THEN FALSE ELSE @]
       ELSE reset

\* reportDone: once per stream, and lost when the last token was not taken.
ReportDone(s) ==
  IF s.eofReported THEN s ELSE [s EXCEPT !.eofReported = TRUE, !.done = TRUE]

\* Delete the primary and switch to the other slot.
Switch(s) == [s EXCEPT !.prim = s.sec, !.sec = None]

---------------------------------------------------------------------------
(***************************************************************************)
(* Read                                                                    *)
(***************************************************************************)

\* What Read returns: the frames served as they are or fading out, the frames
\* of the incoming stream mixed with them, and the error.
Result(frames, under, err) == [frames |-> frames, under |-> under, err |-> err]

FramesOf(st, from, n) == [i \in 1 .. n |-> <<st, from + i - 1>>]

\* The stream's decoder, asked for n > 0 frames: it may read short, and reports
\* the end with the last frames or after them.
Decode(s, n) ==
  LET st == s.prim
      left == Length[st] - s.at[st]
  IN  {[n |-> k, err |-> "nil"] : k \in 1 .. Least(n, left)}
      \cup {[n |-> left, err |-> "EOF"] : x \in {y \in {left} : y <= n}}
      \cup {[n |-> k, err |-> "failed"] : k \in {y \in 0 .. Least(n, left) : st \in Faulty}}

\* The decoder has moved n frames on.
Advance(s, n) == [s EXCEPT !.at[s.prim] = @ + n]

\* readDirect, with a primary set.
ReadDirect(s, n) ==
  {LET got == FramesOf(s.prim, s.at[s.prim], d.n)
       read == Advance(s, d.n)
       ended == ReportDone(read)
   IN  IF d.err # "EOF" THEN [src |-> read, res |-> Result(got, <<>>, d.err)]
       ELSE IF s.sec = None THEN [src |-> ended, res |-> Result(got, <<>>, "EOF")]
       ELSE [src |-> Switch(ended), res |-> Result(got, <<>>, "nil")]
   : d \in Decode(s, n)}

\* Mutant: the newest frames are served first.
PopNewest(s, n, limit, err) ==
  LET k == LeastOf3(n, limit, Len(s.ring))
  IN  [src |-> [s EXCEPT !.ring = SubSeq(@, 1, Len(@) - k)],
       res |-> Result(SubSeq(s.ring, Len(s.ring) - k + 1, Len(s.ring)), <<>>, err)]

\* popChunk
Pop(s, n, limit, err) ==
  LET k == LeastOf3(n, limit, Len(s.ring))
  IN  [src |-> [s EXCEPT !.ring = SubSeq(@, k + 1, Len(@))],
       res |-> Result(SubSeq(s.ring, 1, k), <<>>, err)]

\* The refill loop of readCrossfade as a whole: it ends when the ring is full,
\* when the budget of two scratch reads is used up, or with the decoder.
Refill(s) ==
  LET st == s.prim
      from == s.at[st]
      free == Capacity - Len(s.ring)
      left == Length[st] - from
      budget == 2 * Scratch
      read(k) == [Advance(s, k) EXCEPT !.ring = @ \o FramesOf(st, from, k)]
      most == LeastOf3(free, left, budget + Scratch - 1)
  IN  IF s.primaryEOF \/ s.pendingErr \/ free = 0 THEN {s}
      ELSE {read(k) : k \in {y \in 1 .. most : y = free \/ y >= budget}}
           \cup {[read(k) EXCEPT !.primaryEOF = TRUE] : k \in {y \in 0 .. most : y = left}}
           \cup {[read(k) EXCEPT !.pendingErr = TRUE] : k \in {y \in 0 .. most : st \in Faulty}}

\* Mutant: the fade moves on by what was asked for, not by what was mixed.
ReadFadeCountsWant(s, n) ==
  LET want == LeastOf3(n, s.fadeTotal - s.fadePos, Scratch) IN
  IF want <= 0 THEN {[src |-> FinishFade(s), res |-> Result(<<>>, <<>>, "nil")]}
  ELSE {LET chunk == IF d.n > 0 THEN d.n ELSE want
            mixed == [Advance(s, d.n) EXCEPT
                        !.ring = SubSeq(@, chunk + 1, Len(@)), !.fadePos = @ + want]
        IN  [src |-> IF mixed.fadePos >= mixed.fadeTotal THEN FinishFade(mixed) ELSE mixed,
             res |-> Result(SubSeq(s.ring, 1, chunk),
                            FramesOf(s.prim, s.at[s.prim], d.n), "nil")]
        : d \in Decode(s, want)}

\* readFade: the tail in the ring under the incoming stream, or under silence
\* once that has ended.
ReadFade(s, n) ==
  LET want == LeastOf3(n, s.fadeTotal - s.fadePos, Scratch) IN
  IF want <= 0 THEN {[src |-> FinishFade(s), res |-> Result(<<>>, <<>>, "nil")]}
  ELSE {LET chunk == IF d.n > 0 THEN d.n ELSE want
            mixed == [Advance(s, d.n) EXCEPT
                        !.ring = SubSeq(@, chunk + 1, Len(@)), !.fadePos = @ + chunk]
        IN  IF d.err = "failed"
            THEN [src |-> Advance(s, d.n), res |-> Result(<<>>, <<>>, "failed")]
            ELSE [src |-> IF mixed.fadePos >= mixed.fadeTotal THEN FinishFade(mixed) ELSE mixed,
                  res |-> Result(SubSeq(s.ring, 1, chunk),
                                 FramesOf(s.prim, s.at[s.prim], d.n), "nil")]
        : d \in Decode(s, want)}

\* Mutant: playback is served from the reserve as well.
ServeCrossfadeSpendsReserve(s, n) ==
  LET buffered == Len(s.ring) IN
  IF ~s.primaryEOF THEN {Pop(s, n, buffered, "nil")}
  ELSE IF s.sec # None
  THEN ReadFade([Switch(ReportDone(s)) EXCEPT !.fading = TRUE, !.fadeTotal = buffered,
                                              !.fadePos = 0], n)
  ELSE {Pop(ReportDone(s), n, buffered, IF buffered <= n THEN "EOF" ELSE "nil")}

\* readCrossfade after the refill.
ServeCrossfade(s, n) ==
  LET buffered == Len(s.ring)
      over == buffered - Fade
  IN
  IF ~s.primaryEOF /\ ~s.pendingErr
  THEN {Pop(s, n, IF over <= 0 THEN buffered ELSE over, "nil")}
  ELSE IF ~s.primaryEOF
  THEN IF buffered > 0 THEN {Pop(s, n, buffered, "nil")}
       ELSE {[src |-> [s EXCEPT !.pendingErr = FALSE], res |-> Result(<<>>, <<>>, "failed")]}
  ELSE IF s.sec # None
  THEN IF over > 0 THEN {Pop(s, n, over, "nil")}
       ELSE ReadFade([Switch(ReportDone(s)) EXCEPT !.fading = TRUE, !.fadeTotal = buffered,
                                                   !.fadePos = 0], n)
  ELSE IF buffered <= n THEN {Pop(ReportDone(s), n, buffered, "EOF")}
  ELSE {Pop(s, n, buffered, "nil")}

ReadCrossfade(s, n) ==
  IF s.fading THEN ReadFade(s, n)
  ELSE UNION {ServeCrossfade(filled, n) : filled \in Refill(s)}

\* primaryDeclinesCrossfade: only at a clean boundary.
DeclinesCrossfade(s) ==
  /\ ~s.fading /\ s.ring = <<>> /\ ~s.primaryEOF
  /\ s.prim \in NoFade

\* Whether Read goes on without waiting for a stream to be set.
CanRead(s) == s.prim # None \/ (Fade > 0 /\ s.primaryEOF /\ s.ring # <<>>)

\* Read(p) with room for n frames.
Read(s, n) ==
  IF Fade = 0 \/ DeclinesCrossfade(s) THEN ReadDirect(s, n) ELSE ReadCrossfade(s, n)

\* The first frame of st that is not heard yet once q is, if it was from before.
Past(from, q, st) == IF q # <<>> /\ q[Len(q)][1] = st THEN q[Len(q)][2] + 1 ELSE from

\* The same of every stream once the read o is heard, if it was nx before.  A failing
\* decoder may lose the frames it returned with the error.
HeardAfter(nx, o) ==
  [st \in Streams |-> IF o.res.err = "failed" /\ st = o.src.prim THEN o.src.at[st]
                      ELSE Past(Past(nx[st], o.res.frames, st), o.res.under, st)]

\* Mutant: the lookahead is taken off during a fade too.
PositionIgnoresFade(s) ==
  IF s.prim = None THEN 0
  ELSE LET pos == s.at[s.prim] - Len(s.ring) IN IF pos < 0 THEN 0 ELSE pos

\* PositionMs, in frames: the decoder's position less the lookahead.
Position(s) ==
  IF s.prim = None THEN 0
  ELSE LET pos == s.at[s.prim] - (IF Fade > 0 /\ ~s.fading THEN Len(s.ring) ELSE 0)
       IN  IF pos < 0 THEN 0 ELSE pos
=============================================================================
