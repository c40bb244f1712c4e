--------------------------- MODULE SourcePlayback ---------------------------
(***************************************************************************)
(* The switching source alone: the output device reads it while the player *)
(* sets streams and seeks.  History variables record what the listener has *)
(* heard, for the properties.                                              *)
(*                                                                         *)
(* The names differ from those of Player, the other module that has a      *)
(* source, so that one module can hold the proofs about both.              *)
(***************************************************************************)
EXTENDS SwitchingSource

CONSTANTS
  MaxRead,     \* the most frames an output asks for
  SeekTargets  \* positions that are sought

ASSUME PlaybackAssumption == MaxRead \in Nat /\ SeekTargets \subseteq Nat

VARIABLES
  source,   \* the source
  res,      \* what the last Read returned
  unset,    \* streams not handed over yet
  set,      \* the stream the player last set as primary
  next,     \* history: [Streams -> Nat], the first frame not heard yet
  cut,      \* history: streams whose remaining audio was discarded on purpose
  reserve   \* history: the lookahead has exceeded the reserve since it was reset

playbackVars == <<source, res, unset, set, next, cut, reserve>>

Silence == Result(<<>>, <<>>, "nil")

PlaybackInit ==
  /\ source = NewSource
  /\ res = Silence
  /\ unset = Streams
  /\ set = None
  /\ next = [s \in Streams |-> 0]
  /\ cut = {}
  /\ reserve = FALSE

\* The streams with frames in the lookahead.
Buffered == {source.ring[i][1] : i \in DOMAIN source.ring}

\* The player sets the stream the daemon loaded: a new one, the one prefetched
\* into the secondary slot or, to acknowledge a switch, the one playing already.
SetsPrimary(s) ==
  /\ s \in unset \cup ({source.prim, source.sec} \ {set, None})
  /\ source' = SetPrimary(source, s)
  /\ set' = s
  /\ unset' = unset \ {s}
  /\ cut' = IF s = source.prim THEN cut ELSE cut \cup Buffered \cup ({source.prim} \ {None})
  /\ reserve' = (reserve /\ s = source.prim)
  /\ res' = Silence
  /\ UNCHANGED next

SetsSecondary(s) ==
  /\ s \in unset \cup {None}
  /\ source' = SetSecondary(source, s)
  /\ unset' = unset \ {s}
  /\ cut' = cut \cup ({source.sec} \ {None})
  /\ res' = Silence
  /\ UNCHANGED <<set, next, reserve>>

\* A seek, which the decoder may refuse; the lookahead is gone in either case.
Seek(pos, ok) ==
  /\ source.prim # None
  /\ pos <= Length[source.prim]
  /\ source' = SetPosition(source, pos, ok)
  /\ next' = [next EXCEPT ![source.prim] = source'.at[source.prim]]
  /\ cut' = IF Fade = 0 THEN cut ELSE cut \cup (Buffered \ {source.prim})
  /\ reserve' = FALSE
  /\ res' = Silence
  /\ UNCHANGED <<unset, set>>

\* The output device reads up to n frames.
ReadsSource(n) ==
  /\ CanRead(source)
  /\ \E o \in Read(source, n) :
       /\ source' = o.src
       /\ res' = o.res
       /\ next' = HeardAfter(next, o)
       /\ reserve' = (/\ o.src.prim = source.prim
                      /\ o.res.err # "failed"
                      /\ IF o.src.primaryEOF THEN reserve /\ source.sec # None
                         ELSE reserve \/ Len(o.src.ring) + Len(o.res.frames) > Fade)
  /\ UNCHANGED <<unset, set, cut>>

\* The player takes the token.
TakeDone ==
  /\ source.done
  /\ source' = [source EXCEPT !.done = FALSE]
  /\ res' = Silence
  /\ UNCHANGED <<unset, set, next, cut, reserve>>

PlaybackNext ==
  \/ \E s \in Streams : SetsPrimary(s)
  \/ \E s \in Streams \cup {None} : SetsSecondary(s)
  \/ \E pos \in SeekTargets, ok \in BOOLEAN : Seek(pos, ok)
  \/ \E n \in 1 .. MaxRead : ReadsSource(n)
  \/ TakeDone

PlaybackSpec == PlaybackInit /\ [][PlaybackNext]_playbackVars

---------------------------------------------------------------------------

PlaybackTypeOK ==
  /\ source \in Sources
  /\ Len(source.ring) <= Capacity
  /\ res.frames \in Seq(Frames) /\ res.under \in Seq(Frames)
  /\ res.err \in {"nil", "EOF", "failed"}
  /\ unset \subseteq Streams /\ cut \subseteq Streams
  /\ set \in Streams \cup {None}
  /\ next \in [Streams -> Nat]
  /\ reserve \in BOOLEAN

\* Read, whichever path serves it and whatever was set or sought in between,
\* delivers each stream's frames in order, without a gap or a repetition, and
\* nothing of a stream that was replaced, even as the tail of a fade: SetPrimary
\* and SetPositionMs drop the lookahead and the fade.
HeardInOrder ==
  [][\A q \in {res'.frames, res'.under} :
       q # <<>> => /\ q = FramesOf(q[1][1], next[q[1][1]], Len(q))
                   /\ q[1][1] \notin cut]_playbackVars

\* A stream that gave way to the next one at its own end was heard to its end.
TailHeard ==
  \A s \in Streams \ (unset \cup cut) :
    s \notin Buffered \cup {source.prim, source.sec} => next[s] = Length[s]

\* readCrossfade: once the lookahead exceeded the reserve, a stream that ends
\* with the next one prefetched fades over the complete crossfade length.
FullFade ==
  [][(/\ reserve
      /\ Fade > 0
      /\ source.prim \notin NoFade
      /\ source'.prim # source.prim
      /\ UNCHANGED set)
       => Length[source.prim] - next[source.prim] = Fade]_playbackVars

\* PositionMs reports where the listener is, not the decoder.
PositionIsHeard == source.prim # None => Position(source) = next[source.prim]

\* SetPrimary drops the alias, so the source never switches a stream into itself.
NoAlias == source.prim # None => source.prim # source.sec

\* What the source keeps, and has dropped, agrees with what was heard.
PlaybackConsistent == PlaybackTypeOK /\ PositionIsHeard /\ NoAlias /\ TailHeard
=============================================================================
