------------------------------- MODULE Tracks -------------------------------
(***************************************************************************)
(* tracks/tracks.go, tracks/paged-list.go and the Page method of           *)
(* spclient/context_resolver.go: the list of what plays next.  The pages   *)
(* of the context are loaded as walks need them, the list may be shuffled, *)
(* and a queue plays ahead of it.  One list job of daemon/controls.go runs *)
(* at a time on the loader lane, so every action here is one whole job,    *)
(* the Snapshot at its end included.                                       *)
(*                                                                         *)
(* A walk that runs past what is loaded asks for pages until it has enough *)
(* or a page is refused.  Which pages can be had is the network's choice:  *)
(* a walk gets those below its reach, and past the last page io.EOF.       *)
(***************************************************************************)
EXTENDS Integers, Sequences, FiniteSets, SequencesExt, FiniteSetsExt

CONSTANTS
  Contexts,      \* what may be played: sequences of pages, each a sequence of tracks
  Named,         \* the tracks a command may name
  SeekMaxPages,  \* seekMaxPages
  MaxTracks,     \* MaxTracksInContext
  MaxQueue,      \* a bound on the queue
  MaxQueueID,    \* a bound on the ids handed out
  MaxInjected    \* a bound on the tracks played ahead of a context

\* A uid is a kind and a number: of the context, or handed out as q<n>.
NoUid == <<>>
Track(uri, uid) == [uri |-> uri, uid |-> uid]
NoTrack == Track("", NoUid)

\* What resolveContext seeks when no track was asked for
AnyTrack == Track("any", NoUid)

VARIABLES
  tl,        \* p.state.tracks
  queueID,   \* p.state.queueID
  play       \* the queue a play command carries over to the context it resolves

vars == <<tl, queueID, play>>

\* p.state.tracks is nil; no play command is being carried out.
NoList == [none |-> TRUE]
NoPlay == <<NoTrack>>

\* The seed before any shuffle; the seed of a shuffle stands for its exchanges.
NoSeed == << -1 >>

\* NewTrackListFromContext, newTrackList and newPagedList.  The resolver behind the
\* list holds the first known pages.
NewList(pages) ==
  [none |-> FALSE, pages |-> pages, known |-> 0, list |-> <<>>, pos |-> -1, queue |-> <<>>,
   playingQueue |-> FALSE, shuffled |-> FALSE, seed |-> NoSeed, shuffleLen |-> 0,
   shuffleKeep |-> 0]

\* ContextTrackComparator.  A track is named by its uri (or a gid that stands for
\* the same one) and an entry of the list by its uid, if it has one.  Every track
\* will do when none was asked for.
Matches(target, track) ==
  \/ target = AnyTrack
  \/ track.uid # NoUid /\ track.uid = target.uid
  \/ track.uri # "" /\ track.uri = target.uri

\* current, the list being positioned
Current(l) == IF l.playingQueue THEN l.queue[1] ELSE l.list[l.pos + 1].track

\* UpcomingQueue
UpcomingQueue(l) == IF l.playingQueue THEN Tail(l.queue) ELSE l.queue

---------------------------------------------------------------------------
(***************************************************************************)
(* The paged list                                                          *)
(***************************************************************************)

\* Page p as fetchNextPage appends it
PageItems(l, p) ==
  [i \in 1 .. Len(l.pages[p + 1]) |-> [track |-> l.pages[p + 1][i], page |-> p, item |-> i - 1]]

\* fetchNextPage's pageIdx: the page after that of the last item.
NextPage(l) == IF l.list = <<>> THEN 0 ELSE Last(l.list).page + 1

\* k rounds of fetchNextPage and ContextResolver.Page
Fetch(l, k) ==
  LET first == NextPage(l) IN
  [l EXCEPT !.list = @ \o FlattenSeq([i \in 1 .. k |-> PageItems(l, first + i - 1)]),
            !.known = Max({@, first + k})]

\* The rounds of fetchNextPage that succeed when the pages below reach can be had
\* besides those the resolver holds
Rounds(l, reach) == 0 .. Max({0, Min({Len(l.pages), Max({reach, l.known})}) - NextPage(l)})

\* pagedListInterator.next as a loop uses it: pages are fetched one by one until
\* the walk has enough, or none can be had.
Fill(l, reach, enough) == Fetch(l, Min(enough \cup {Max(Rounds(l, reach))}))

\* A walk to the nth item after the position
Ahead(l, n, reach) ==
  Fill(l, reach, {k \in Rounds(l, reach) : Len(Fetch(l, k).list) > l.pos + n})

\* What a walk that may give up leaves: whether it succeeded, and the list.
Result(ok, l) == [ok |-> ok, tl |-> l]

\* moveStart and GoStart
MoveStart(l, reach) ==
  LET w == Ahead([l EXCEPT !.pos = -1], 1, reach)
  IN  IF w.list = <<>> THEN Result(FALSE, l) ELSE Result(TRUE, [w EXCEPT !.pos = 0])

\* moveInjected
MoveInjected(l, track) ==
  [l EXCEPT !.list = <<[track |-> track, page |-> -1, item |-> -1]>> \o @, !.pos = 0]

\* Mutant: the position does not follow its item.
SwapForgetsPos(l, i, j) ==
  [l EXCEPT !.list = [@ EXCEPT ![i + 1] = l.list[j + 1], ![j + 1] = l.list[i + 1]]]

\* swap, and one exchange of shuffle: the position follows its item.
Swap(l, i, j) ==
  [l EXCEPT !.list = [@ EXCEPT ![i + 1] = l.list[j + 1], ![j + 1] = l.list[i + 1]],
            !.pos = IF @ = i THEN j ELSE IF @ = j THEN i ELSE @]

Exchanges(l, seed, order) == FoldLeft(LAMBDA t, i : Swap(t, i, seed[i]), l, order)

\* The exchanges a random source yields for n items
Seeds(n) == {s \in [1 .. n - 1 -> 0 .. n - 1] : \A i \in 1 .. n - 1 : s[i] <= i}

\* shuffle and unshuffle, from the last item down and from the first up
Shuffle(l, seed) == Exchanges(l, seed, [i \in 1 .. Len(l.list) - 1 |-> Len(l.list) - i])
Unshuffle(l, seed) == Exchanges(l, seed, [i \in 1 .. Len(l.list) - 1 |-> i])

---------------------------------------------------------------------------
(***************************************************************************)
(* The list                                                                *)
(***************************************************************************)

\* The items a walk for target stops at: a match, or one past the page cap
Stops(items, target) ==
  {i \in 1 .. Len(items) : Matches(target, items[i].track) \/ items[i].page >= SeekMaxPages}

\* Seek: walk from the start to a match.
Seek(l, target, reach) ==
  LET w == Fill(l, reach, {k \in Rounds(l, reach) : Stops(Fetch(l, k).list, target) # {}})
      stops == Stops(w.list, target)
  IN  IF stops = {} \/ ~Matches(target, w.list[Min(stops)].track)
      THEN Result(FALSE, w)
      ELSE Result(TRUE, [w EXCEPT !.pos = Min(stops) - 1])

\* TrySeek, with a reach for the walk and one for moveStart
TrySeek(l, target, reach, again) ==
  LET s == Seek(l, target, reach) IN IF s.ok THEN s ELSE MoveStart(s.tl, again)

\* seekQueue: the entries that may be jumped to
Queued(l, track) ==
  {i \in (IF l.playingQueue THEN 2 ELSE 1) .. Len(l.queue) :
     IF track.uid # NoUid THEN l.queue[i].uid = track.uid ELSE Matches(track, l.queue[i])}

\* TrySeekTo: in the queue, in the context, or ahead of it.
TrySeekTo(l, track, reach) ==
  IF Queued(l, track) # {}
  THEN [l EXCEPT !.queue = SubSeq(@, Min(Queued(l, track)), Len(@)), !.playingQueue = TRUE]
  ELSE LET left == [l EXCEPT !.queue = UpcomingQueue(l), !.playingQueue = FALSE]
           s    == Seek(left, track, reach)
       IN  IF s.ok THEN s.tl ELSE MoveInjected(s.tl, track)

\* Mutant: the head of the queue is taken for the next track while it plays.
PeekNextHead(l, reach) ==
  IF l.queue # <<>> THEN [track |-> l.queue[1], tl |-> l]
  ELSE LET w == Ahead(l, 1, reach) IN
       [track |-> IF Len(w.list) > w.pos + 1 THEN w.list[w.pos + 2].track ELSE NoTrack, tl |-> w]

\* PeekNext
PeekNext(l, reach) ==
  IF UpcomingQueue(l) # <<>> THEN [track |-> Head(UpcomingQueue(l)), tl |-> l]
  ELSE LET w == Ahead(l, 1, reach) IN
       [track |-> IF Len(w.list) > w.pos + 1 THEN w.list[w.pos + 2].track ELSE NoTrack, tl |-> w]

\* GoNext
GoNext(l, reach) ==
  LET q == UpcomingQueue(l)
      w == Ahead([l EXCEPT !.queue = q, !.playingQueue = FALSE], 1, reach)
  IN  IF q # <<>> THEN Result(TRUE, [l EXCEPT !.queue = q, !.playingQueue = TRUE])
      ELSE IF Len(w.list) > w.pos + 1 THEN Result(TRUE, [w EXCEPT !.pos = @ + 1])
      ELSE Result(FALSE, w)

\* GoPrev: the queue is left, its entries kept.
GoPrev(l) ==
  LET left == [l EXCEPT !.playingQueue = FALSE]
  IN  IF l.pos = 0 THEN Result(FALSE, left) ELSE Result(TRUE, [left EXCEPT !.pos = @ - 1])

\* SetQueue, with the tracks of next that are marked as queued
SetQueue(l, queued) ==
  [l EXCEPT !.queue = (IF l.playingQueue THEN <<l.queue[1]>> ELSE <<>>) \o queued]

\* AddToQueue for every track, and SetPlayingQueue
WithQueue(l, queued, playing) ==
  [l EXCEPT !.queue = @ \o queued, !.playingQueue = l.queue \o queued # <<>> /\ playing]

\* ToggleShuffle(true): load everything, shuffle, and put the current track first.
ShuffleOn(l, reach) ==
  LET w == Seek(l, NoTrack, reach).tl
      Kept(s) == [(IF s.pos > 0 THEN Swap(s, 0, s.pos) ELSE s)
                    EXCEPT !.shuffled = TRUE, !.shuffleLen = Len(s.list),
                           !.shuffleKeep = IF s.pos > 0 THEN s.pos ELSE -1]
  IN  {Result(TRUE, [Kept(Shuffle(w, seed)) EXCEPT !.seed = seed]) : seed \in Seeds(Len(w.list))}

\* The list is in order again; what only describes a shuffle is forgotten.
Ordered(l) == [l EXCEPT !.shuffled = FALSE, !.seed = NoSeed, !.shuffleLen = 0, !.shuffleKeep = 0]

\* Mutant: a failed refetch is not rolled back.
ShuffleOffStranded(l, reach) ==
  IF l.seed # NoSeed /\ Len(l.list) = l.shuffleLen
  THEN LET k == IF l.shuffleKeep > 0 THEN Swap(l, 0, l.shuffleKeep) ELSE l
       IN  Result(TRUE, Ordered(Unshuffle(k, l.seed)))
  ELSE LET s == Seek([l EXCEPT !.list = <<>>, !.pos = -1], Current(l), reach)
       IN  IF s.ok THEN Result(TRUE, Ordered(s.tl))
           ELSE Result(FALSE, s.tl)

\* Mutant: the track moved to the front is not put back first.
ShuffleOffKeepsFirst(l, reach) ==
  IF l.seed # NoSeed /\ Len(l.list) = l.shuffleLen
  THEN Result(TRUE, Ordered(Unshuffle(l, l.seed)))
  ELSE LET s == Seek([l EXCEPT !.list = <<>>, !.pos = -1], Current(l), reach)
       IN  IF s.ok THEN Result(TRUE, Ordered(s.tl))
           ELSE Result(FALSE, [s.tl EXCEPT !.list = l.list, !.pos = l.pos])

\* ToggleShuffle(false): undo the exchanges, or load the context again when the
\* list has changed since, rolling back if the current track is not found.
ShuffleOff(l, reach) ==
  IF l.seed # NoSeed /\ Len(l.list) = l.shuffleLen
  THEN LET k == IF l.shuffleKeep > 0 THEN Swap(l, 0, l.shuffleKeep) ELSE l
       IN  Result(TRUE, Ordered(Unshuffle(k, l.seed)))
  ELSE LET s == Seek([l EXCEPT !.list = <<>>, !.pos = -1], Current(l), reach)
       IN  IF s.ok THEN Result(TRUE, Ordered(s.tl))
           ELSE Result(FALSE, [s.tl EXCEPT !.list = l.list, !.pos = l.pos])

\* ToggleShuffle: its possible outcomes
ToggleShuffle(l, on, reach) ==
  IF on = l.shuffled THEN {Result(TRUE, l)}
  ELSE IF on THEN ShuffleOn(l, reach)
  ELSE {ShuffleOff(l, reach)}

\* Snapshot: NextTracks walks on to show MaxTracks upcoming ones.
Snapshot(l, reach) == Ahead(l, Max({0, MaxTracks - Len(UpcomingQueue(l))}), reach)

---------------------------------------------------------------------------
(***************************************************************************)
(* The jobs                                                                *)
(***************************************************************************)

Init ==
  /\ tl = NoList
  /\ queueID = 0
  /\ play = NoPlay

\* How many pages the network gives a walk
Reach == 0 .. Max({Len(c) : c \in Contexts})

\* listJob: an error leaves the list as the walk left it, without a Snapshot.
ListJob(result) ==
  tl' \in IF result.ok THEN {Snapshot(result.tl, r) : r \in Reach} ELSE {result.tl}

\* ToggleShuffle of the lists a job may have so far
Toggles(results, on) == UNION {ToggleShuffle(s.tl, on, r) : s \in results, r \in Reach}

\* loadContext on the player loop: the queue is carried over, the context is
\* resolved later.
PlayContext ==
  /\ play' = IF tl = NoList THEN <<>> ELSE UpcomingQueue(tl)
  /\ UNCHANGED <<tl, queueID>>

\* resolveContext up to the queue: without a track asked for the shuffle comes
\* first, with one it is applied around that track.
ResolveContext(pages, target, shuffle) ==
  LET new    == Result(TRUE, NewList(pages))
      first  == IF target = AnyTrack THEN Toggles({new}, shuffle) ELSE {new}
      sought == {TrySeek(f.tl, target, r1, r2) : f \in first, r1, r2 \in Reach}
  IN  {t.tl : t \in Toggles({s \in sought : s.ok}, shuffle)}

Asked == [pages: Contexts, target: Named \cup {AnyTrack}, shuffle: BOOLEAN]
Resolvable == UNION {ResolveContext(a.pages, a.target, a.shuffle) : a \in Asked}

\* The end of resolveContext, and its commit
Resolve ==
  /\ play # NoPlay
  /\ \E l \in Resolvable : ListJob(Result(TRUE, WithQueue(l, play, FALSE)))
  /\ play' = NoPlay
  /\ UNCHANGED queueID

\* resolveContext fails: nothing could be loaded.  The list that was there stays.
ResolveFails ==
  /\ play # NoPlay
  /\ play' = NoPlay
  /\ UNCHANGED <<tl, queueID>>

\* playingQueuedTrack
PlayingQueuedTrack(queue, playing, current) ==
  /\ playing /\ queue # <<>> /\ current # NoTrack
  /\ IF queue[1].uid # NoUid /\ current.uid # NoUid
     THEN queue[1].uid = current.uid
     ELSE Matches(current, queue[1])

\* transferContext's seek: while a queued track plays, uid names the context track
\* after it and the list is left on the one before.
TransferSeek(l, uid, queued, current, r1, r2) ==
  LET s == IF queued /\ uid # NoUid THEN Seek(l, Track("", uid), r1) ELSE Result(FALSE, l)
  IN  IF s.ok /\ GoPrev(s.tl).ok THEN GoPrev(s.tl)
      ELSE IF current # NoTrack THEN Result(TRUE, TrySeekTo(s.tl, current, r2))
      ELSE MoveStart(s.tl, r2)

\* Mutant: the ids start again at 0.
HighestQueueIDZero(queue) == 0

\* highestQueueID
HighestQueueID(queue) ==
  Max({0} \cup {queue[i].uid[2] : i \in {j \in 1 .. Len(queue) :
                                          queue[j].uid # NoUid /\ queue[j].uid[1] = "q"}})

\* transferContext, of a context the backend gives or, refused, of the track alone
Transfer(pages, refused, current, uid, shuffle, queue, playing) ==
  LET l == NewList(IF refused THEN << <<Track(current.uri, NoUid)>> >> ELSE pages)
      queued == ~refused /\ PlayingQueuedTrack(queue, playing, current)
      sought == {TransferSeek(l, uid, queued, current, r1, r2) : r1, r2 \in Reach}
  IN
  /\ refused => current # NoTrack
  /\ \E t \in Toggles({s \in sought : s.ok}, shuffle) :
       ListJob(Result(TRUE, WithQueue(t.tl, queue, playing)))
  /\ queueID' = HighestQueueID(queue)
  /\ play' = NoPlay

\* transferContext fails, and abandonTransfer
TransferFails ==
  /\ tl' = NoList
  /\ queueID' = 0
  /\ play' = NoPlay

\* advanceNext: past the end, back to the start of the context.
Advance ==
  /\ tl # NoList
  /\ \E n \in {GoNext(tl, r) : r \in Reach} :
       ListJob(Result(TRUE, IF n.ok THEN n.tl ELSE MoveStart(n.tl, 0).tl))
  /\ UNCHANGED <<queueID, play>>

\* skipPrev
SkipPrev ==
  /\ tl # NoList
  /\ ListJob(Result(TRUE, GoPrev(tl).tl))
  /\ UNCHANGED <<queueID, play>>

Injected(l) == Cardinality({i \in 1 .. Len(l.list) : l.list[i].page < 0})

\* skipNext with a track
SkipTo(track) ==
  /\ tl # NoList
  /\ \E l \in {TrySeekTo(tl, track, r) : r \in Reach} :
       Injected(l) <= MaxInjected /\ ListJob(Result(TRUE, l))
  /\ UNCHANGED <<queueID, play>>

\* schedulePrefetchNext
Peek ==
  /\ tl # NoList
  /\ \E p \in {PeekNext(tl, r) : r \in Reach} : ListJob(Result(TRUE, p.tl))
  /\ UNCHANGED <<queueID, play>>

\* setModes with another shuffle mode
SetShuffle ==
  /\ tl # NoList
  /\ \E t \in Toggles({Result(TRUE, tl)}, ~tl.shuffled) : ListJob(t)
  /\ UNCHANGED <<queueID, play>>

\* addToQueue of a track without a uid
AddToQueue(track) ==
  /\ tl # NoList
  /\ track.uid = NoUid
  /\ Len(tl.queue) < MaxQueue /\ queueID < MaxQueueID
  /\ queueID' = queueID + 1
  /\ ListJob(Result(TRUE, [tl EXCEPT !.queue = Append(@, Track(track.uri, <<"q", queueID + 1>>))]))
  /\ UNCHANGED play

\* setQueue, with the queued tracks reordered or one of them removed; the upcoming
\* tracks are the ones given, so nothing is walked.
SetTheQueue ==
  /\ tl # NoList
  /\ LET q == UpcomingQueue(tl) IN
     \E queued \in {Reverse(q)} \cup {RemoveAt(q, i) : i \in 1 .. Len(q)} :
       tl' = SetQueue(tl, queued)
  /\ UNCHANGED <<queueID, play>>

Next ==
  \/ PlayContext \/ Resolve \/ ResolveFails
  \/ /\ tl = NoList   \* a bound: what a transfer makes does not depend on the old list
     /\ \E pages \in Contexts, current \in Named \cup {NoTrack},
           queue \in {<<>>} \cup {<<Track(t.uri, <<"q", 1>>)>> : t \in Named},
           refused, shuffle, playing \in BOOLEAN :
          \E uid \in {NoUid} \cup {t.uid : t \in Range(FlattenSeq(pages))} :
            Transfer(pages, refused, current, uid, shuffle, queue, playing)
  \/ TransferFails
  \/ Advance \/ SkipPrev \/ Peek \/ SetShuffle \/ SetTheQueue
  \/ \E track \in Named : SkipTo(track) \/ AddToQueue(track)

Spec == Init /\ [][Next]_vars

---------------------------------------------------------------------------
\* After every job, one whose pages could not be loaded included, the list has a
\* current track: reading it "would panic" otherwise (ToggleShuffle's rollback,
\* transferContext's GoStart), and so would the swap that undoes a shuffle.
Positioned ==
  tl # NoList =>
    /\ tl.pos \in 0 .. Len(tl.list) - 1
    /\ tl.playingQueue => tl.queue # <<>>
    /\ tl.shuffled => tl.shuffleKeep < Max({1, tl.shuffleLen})

\* Without shuffle the list is the pages of the context from the first on, each
\* once and in order, behind the tracks played ahead of it: unshuffle undoes what
\* shuffle did, after whatever was played, skipped or queued in between.
InOrder ==
  tl # NoList /\ ~tl.shuffled =>
    LET n == Injected(tl) IN
    /\ \A i \in 1 .. n : tl.list[i].page < 0
    /\ \E k \in 0 .. Len(tl.pages) :
         SubSeq(tl.list, n + 1, Len(tl.list)) = Fetch(NewList(tl.pages), k).list

\* PeekNext names what GoNext then plays, so that the stream prefetched for the
\* one is right for the other.
PeekIsNext ==
  tl # NoList =>
    \A reach \in Reach :
      LET n == GoNext(tl, reach) IN
      PeekNext(tl, reach).track = IF n.ok THEN Current(n.tl) ELSE NoTrack

\* No two entries of the queue have the same uid, which is how a client names the
\* one it reorders (highestQueueID).
QueueIdsUnique ==
  tl # NoList =>
    \A i, j \in 1 .. Len(tl.queue) : tl.queue[i].uid = tl.queue[j].uid => i = j

\* The list has a current track, and its queue tells its entries apart.
Consistent == Positioned /\ QueueIdsUnique

\* The step is one that turned shuffle on or off; other jobs leave the flag alone,
\* or replace the list.
Toggled == tl # NoList /\ tl' # NoList /\ play' = play /\ tl'.shuffled # tl.shuffled

\* Toggling shuffle keeps the current track, and turning it on puts that track
\* first, with all others to come.
CurrentKept ==
  [][Toggled => Matches(Current(tl), Current(tl')) /\ (tl'.shuffled => tl'.pos = 0)]_vars

\* The tracks of the context after the current one, as far as they are loaded
Upcoming(l) == SubSeq(l.list, l.pos + 2, Len(l.list))

\* api-spec.yml of shuffle_context: "enabling it after play only reshuffles the
\* upcoming queue and keeps the current (first) track".
ShuffleReorders ==
  [][Toggled /\ tl'.shuffled /\ tl.pos = 0 =>
       \A i, j \in 1 .. Len(Upcoming(tl)') :
         Upcoming(tl)'[i] = Upcoming(tl)'[j] => i = j]_vars

\* loadContext: "Starting a context leaves the queue alone".
QueueLeftAlone ==
  [][tl # NoList /\ tl' # NoList /\ play # NoPlay /\ play' = NoPlay =>
       UpcomingQueue(tl') = UpcomingQueue(tl)]_vars

\* transferContext: the session's uid "names the context track that comes after"
\* the queued track that plays, and with nothing before it, playing that track
\* ahead of the context "comes to the same thing".
TransferResumes ==
  [][\A pages \in Contexts, current \in Named :
       LET queue == <<Track(current.uri, <<"q", 1>>)>> IN
       tl = NoList /\ Transfer(pages, FALSE, current, pages[1][1].uid, FALSE, queue, TRUE) =>
         \E r \in Reach : Current(GoNext(tl', r).tl) = pages[1][1]]_vars
=============================================================================
