--------------------------- MODULE ChunkedReader ---------------------------
(***************************************************************************)
(* audio/chunked-reader.go: an audio file read over HTTP in chunks that    *)
(* the reading goroutine, the prefetch goroutines it starts and the        *)
(* completion callback fetch concurrently, and that Close tears down.      *)
(*                                                                         *)
(* A byte of the file is its offset, so the data a read returns can be     *)
(* compared with the file.  The network is external: a download ends at    *)
(* any time, with the range asked for or with an error (downloadChunk's    *)
(* three retries happen inside one download).                              *)
(***************************************************************************)
EXTENDS Integers, FiniteSets, Sequences

CONSTANTS
  FileLen,        \* r.len, from the Content-Range of the first chunk
  ChunkSize,      \* DefaultChunkSize
  PrefetchCount,  \* PrefetchCount
  ReadLens,       \* the buffer lengths the decoder reads with
  Prefetchers,    \* goroutines startPrefetch may have running (a bound)
  Stream,         \* the goroutine that decodes: Read and Seek
  Saver,          \* the goroutine of the completion callback: ReadAt
  None            \* no goroutine holds the lock

ASSUME SizesAssumption ==
  /\ FileLen \in Nat \ {0}
  /\ ChunkSize \in Nat \ {0}
  /\ PrefetchCount \in Nat
  /\ ReadLens \subseteq Nat

ASSUME ThreadsAssumption ==
  /\ IsFiniteSet(Prefetchers)
  /\ Stream # Saver
  /\ Stream \notin Prefetchers
  /\ Saver \notin Prefetchers
  /\ None \notin Prefetchers \cup {Stream, Saver}

Readers == {Stream, Saver}
Threads == Readers \cup Prefetchers

NumChunks == (FileLen + ChunkSize - 1) \div ChunkSize
Chunks == 0 .. NumChunks - 1

VARIABLES
  ctxDone,     \* r.ctx is cancelled
  data,        \* [Chunks -> BOOLEAN]: chunk.data is not nil
  fetching,    \* [Chunks -> BOOLEAN]: chunk.fetching
  lock,        \* [Chunks -> Threads \cup {None}]: holder of chunk.L
  pc,          \* where each goroutine is
  chunk,       \* the chunk each goroutine works on
  call,        \* the ReadAt each reader is in
  pos,         \* r.pos
  completed,   \* completedChunks
  registered,  \* onComplete is set
  fired,       \* onCompleteFired
  closePc,     \* where Close is: "open", "wake", "wait", "done"
  wakeNext     \* the chunk Close broadcasts on next

vars == <<ctxDone, data, fetching, lock, pc, chunk, call, pos, completed,
          registered, fired, closePc, wakeNext>>

\* The bytes of chunk c: the range downloadChunk asks for.
ChunkBytes(c) ==
  LET first == c * ChunkSize
      last  == (IF (c + 1) * ChunkSize < FileLen THEN (c + 1) * ChunkSize ELSE FileLen) - 1
  IN  [i \in 1 .. last - first + 1 |-> first + i - 1]

\* The first n bytes from offset p on, as far as the file goes.
FileBytes(p, n) ==
  LET len == IF p + n <= FileLen THEN n ELSE IF p < FileLen THEN FileLen - p ELSE 0
  IN  [i \in 1 .. len |-> p + i - 1]

NoCall == [at |-> 0, want |-> 0, got |-> <<>>, off |-> 0, next |-> 0, err |-> "nil"]

(***************************************************************************)
(* NewHttpChunkedReader returns with the first chunk in memory.            *)
(***************************************************************************)
Init ==
  /\ ctxDone = FALSE
  /\ data = [c \in Chunks |-> c = 0]
  /\ fetching = [c \in Chunks |-> FALSE]
  /\ lock = [c \in Chunks |-> None]
  /\ pc = [t \in Threads |-> "idle"]
  /\ chunk = [t \in Threads |-> 0]
  /\ call = [r \in Readers |-> NoCall]
  /\ pos = 0
  /\ completed = 1
  /\ registered = FALSE
  /\ fired = FALSE
  /\ closePc = "open"
  /\ wakeNext = 0

Goto(t, from, to) ==
  /\ pc[t] = from
  /\ pc' = [pc EXCEPT ![t] = to]

---------------------------------------------------------------------------
(***************************************************************************)
(* ReadAt                                                                  *)
(***************************************************************************)

\* ReadAt up to prefetchChunks: refuse a closed reader, answer EOF when the
\* position is past the last chunk.
BeginReadAt(r, at, want) ==
  LET idx == at \div ChunkSize
      refused == IF ctxDone THEN "closed" ELSE IF idx >= NumChunks THEN "EOF" ELSE "nil"
  IN  /\ pc' = [pc EXCEPT ![r] = IF refused = "nil" THEN "prefetch" ELSE "return"]
      /\ chunk' = [chunk EXCEPT ![r] = IF refused = "nil" THEN idx ELSE 0]
      /\ call' = [call EXCEPT ![r] = [at |-> at, want |-> want, got |-> <<>>,
                                      off |-> at % ChunkSize,
                                      next |-> IF refused = "nil" THEN idx + 1 ELSE 0,
                                      err |-> refused]]

\* Read: ReadAt from the stream's position.
Read(want) ==
  /\ pc[Stream] = "idle"
  /\ BeginReadAt(Stream, pos, want)
  /\ UNCHANGED <<ctxDone, data, fetching, lock, pos, completed, registered, fired,
                 closePc, wakeNext>>

\* Seek: a position outside the file is refused, the end included.
Seek(p) ==
  /\ pc[Stream] = "idle"
  /\ p >= 0 /\ p < FileLen
  /\ pos' = p
  /\ UNCHANGED <<ctxDone, data, fetching, lock, pc, chunk, call, completed,
                 registered, fired, closePc, wakeNext>>

PrefetchWindowCovered(r) ==
  \/ call[r].next >= NumChunks
  \/ call[r].next >= chunk[r] + 1 + PrefetchCount

\* One round of prefetchChunks.  startPrefetch tests the context and adds to the
\* wait group under prefetchMu, so the two are one step.
StartPrefetch(r) ==
  /\ pc[r] = "prefetch"
  /\ ~PrefetchWindowCovered(r)
  /\ ~ctxDone
  /\ \E g \in Prefetchers :
       /\ pc[g] = "idle"
       /\ pc' = [pc EXCEPT ![g] = "enter"]
       /\ chunk' = [chunk EXCEPT ![g] = call[r].next]
  /\ call' = [call EXCEPT ![r].next = @ + 1]
  /\ UNCHANGED <<ctxDone, data, fetching, lock, pos, completed, registered, fired,
                 closePc, wakeNext>>

\* prefetchChunks returns: the window is covered or the reader is closed.
EndPrefetch(r) ==
  /\ Goto(r, "prefetch", "loop")
  /\ PrefetchWindowCovered(r) \/ ctxDone
  /\ UNCHANGED <<ctxDone, data, fetching, lock, chunk, call, pos, completed,
                 registered, fired, closePc, wakeNext>>

\* The head of the copy loop: the buffer is full, the file is exhausted, or the
\* next chunk is fetched.
ReadLoop(r) ==
  /\ pc[r] = "loop"
  /\ LET full  == Len(call[r].got) = call[r].want
         ended == ~full /\ chunk[r] >= NumChunks
     IN  /\ pc' = [pc EXCEPT ![r] = IF full \/ ended THEN "return" ELSE "enter"]
         /\ call' = [call EXCEPT ![r].err = IF ended THEN "EOF" ELSE "nil"]
  /\ UNCHANGED <<ctxDone, data, fetching, lock, chunk, pos, completed, registered,
                 fired, closePc, wakeNext>>

\* Mutant: the offset into the first chunk is applied to the next ones too.
CopyChunkKeepsOffset(r) ==
  /\ pc[r] = "copy"
  /\ LET bytes == ChunkBytes(chunk[r])
         c     == SubSeq(bytes, call[r].off + 1, Len(bytes))
         room  == call[r].want - Len(call[r].got)
     IN  IF Len(c) > room
         THEN /\ call' = [call EXCEPT ![r].got = @ \o SubSeq(c, 1, room)]
              /\ pc' = [pc EXCEPT ![r] = "return"]
              /\ UNCHANGED chunk
         ELSE /\ call' = [call EXCEPT ![r].got = @ \o c]
              /\ chunk' = [chunk EXCEPT ![r] = @ + 1]
              /\ pc' = [pc EXCEPT ![r] = "loop"]
  /\ UNCHANGED <<ctxDone, data, fetching, lock, pos, completed, registered, fired,
                 closePc, wakeNext>>

\* The body of the copy loop, with the chunk fetchChunk returned: what fits of
\* it from off on; the loop goes on when all of it fitted.
CopyChunk(r) ==
  /\ pc[r] = "copy"
  /\ LET bytes == ChunkBytes(chunk[r])
         c     == SubSeq(bytes, call[r].off + 1, Len(bytes))
         room  == call[r].want - Len(call[r].got)
     IN  IF Len(c) > room
         THEN /\ call' = [call EXCEPT ![r].got = @ \o SubSeq(c, 1, room)]
              /\ pc' = [pc EXCEPT ![r] = "return"]
              /\ UNCHANGED chunk
         ELSE /\ call' = [call EXCEPT ![r].got = @ \o c, ![r].off = 0]
              /\ chunk' = [chunk EXCEPT ![r] = @ + 1]
              /\ pc' = [pc EXCEPT ![r] = "loop"]
  /\ UNCHANGED <<ctxDone, data, fetching, lock, pos, completed, registered, fired,
                 closePc, wakeNext>>

\* ReadAt returns to its caller; Read advances the position by what was copied.
Return(r) ==
  /\ Goto(r, "return", IF r = Stream THEN "idle" ELSE "saved")
  /\ pos' = IF r = Stream THEN pos + Len(call[r].got) ELSE pos
  /\ call' = [call EXCEPT ![r] = NoCall]
  /\ chunk' = [chunk EXCEPT ![r] = 0]
  /\ UNCHANGED <<ctxDone, data, fetching, lock, completed, registered, fired,
                 closePc, wakeNext>>

---------------------------------------------------------------------------
(***************************************************************************)
(* fetchChunk                                                              *)
(***************************************************************************)

\* fetchChunk returns: a prefetch goroutine is done whatever the outcome, a
\* reader copies the chunk or returns the error.
FetchReturns(t, err) ==
  /\ pc' = [pc EXCEPT ![t] = IF t \in Prefetchers THEN "idle"
                             ELSE IF err = "nil" THEN "copy" ELSE "return"]
  /\ chunk' = [chunk EXCEPT ![t] = IF t \in Prefetchers THEN 0 ELSE @]
  /\ call' = IF t \in Readers THEN [call EXCEPT ![t].err = err] ELSE call

\* Every goroutine waiting on chunk c leaves Wait and contends for the lock.
Broadcast(c, at) ==
  [t \in Threads |-> IF at[t] = "wait" /\ chunk[t] = c THEN "enter" ELSE at[t]]

LockChunk(t) ==
  /\ Goto(t, "enter", "locked")
  /\ lock[chunk[t]] = None
  /\ lock' = [lock EXCEPT ![chunk[t]] = t]
  /\ UNCHANGED <<ctxDone, data, fetching, chunk, call, pos, completed, registered,
                 fired, closePc, wakeNext>>

\* The isClosed test at the head of the loop, with the lock held.
TestClosed(t) ==
  /\ pc[t] = "locked"
  /\ IF ctxDone
     THEN /\ lock' = [lock EXCEPT ![chunk[t]] = None]
          /\ FetchReturns(t, "closed")
     ELSE /\ pc' = [pc EXCEPT ![t] = "inspect"]
          /\ UNCHANGED <<lock, chunk, call>>
  /\ UNCHANGED <<ctxDone, data, fetching, pos, completed, registered, fired,
                 closePc, wakeNext>>

\* The rest of the loop body: the chunk is there, nobody fetches it, or wait.
\* All three release the lock; the context may have been cancelled since the
\* test.
InspectChunk(t) ==
  LET c == chunk[t] IN
  /\ pc[t] = "inspect"
  /\ lock' = [lock EXCEPT ![c] = None]
  /\ \/ /\ data[c]
        /\ FetchReturns(t, "nil")
        /\ UNCHANGED fetching
     \/ /\ ~data[c] /\ ~fetching[c]
        /\ fetching' = [fetching EXCEPT ![c] = TRUE]
        /\ pc' = [pc EXCEPT ![t] = "download"]
        /\ UNCHANGED <<chunk, call>>
     \/ /\ ~data[c] /\ fetching[c]
        /\ pc' = [pc EXCEPT ![t] = "wait"]
        /\ UNCHANGED <<fetching, chunk, call>>
  /\ UNCHANGED <<ctxDone, data, pos, completed, registered, fired, closePc, wakeNext>>

\* downloadAndRead ends with the bytes of the range ...
DownloadDone(t) ==
  /\ Goto(t, "download", "store")
  /\ UNCHANGED <<ctxDone, data, fetching, lock, chunk, call, pos, completed,
                 registered, fired, closePc, wakeNext>>

\* ... or with an error, after the last retry or when the context is cancelled.
DownloadFailed(t) ==
  /\ Goto(t, "download", "giveup")
  /\ UNCHANGED <<ctxDone, data, fetching, lock, chunk, call, pos, completed,
                 registered, fired, closePc, wakeNext>>

\* The error path: let a waiting goroutine try the download itself.
GiveUp(t) ==
  LET c == chunk[t] IN
  /\ pc[t] = "giveup"
  /\ lock[c] = None
  /\ fetching' = [fetching EXCEPT ![c] = FALSE]
  /\ pc' = [Broadcast(c, pc) EXCEPT ![t] = "failed"]
  /\ UNCHANGED <<ctxDone, data, lock, chunk, call, pos, completed, registered,
                 fired, closePc, wakeNext>>

\* Mutant: a failed download is repeated until it works.
FailedRetries(t) ==
  /\ Goto(t, "failed", "download")
  /\ UNCHANGED <<ctxDone, data, fetching, lock, chunk, call, pos, completed,
                 registered, fired, closePc, wakeNext>>

Failed(t) ==
  /\ pc[t] = "failed"
  /\ FetchReturns(t, "failed")
  /\ UNCHANGED <<ctxDone, data, fetching, lock, pos, completed, registered, fired,
                 closePc, wakeNext>>

StoreChunk(t) ==
  LET c == chunk[t] IN
  /\ pc[t] = "store"
  /\ lock[c] = None
  /\ data' = [data EXCEPT ![c] = TRUE]
  /\ fetching' = [fetching EXCEPT ![c] = FALSE]
  /\ pc' = [Broadcast(c, pc) EXCEPT ![t] = "mark"]
  /\ UNCHANGED <<ctxDone, lock, chunk, call, pos, completed, registered, fired,
                 closePc, wakeNext>>

\* maybeFireComplete with count chunks done: the callback starts its goroutine,
\* which reads the whole file (player.NewStream hands the reader to SaveFile).
MaybeFire(reg, count, at) ==
  LET fire == ~fired /\ reg /\ count >= NumChunks IN
  /\ fired' = (fired \/ fire)
  /\ pc' = IF fire THEN [at EXCEPT ![Saver] = "save"] ELSE at

\* markChunkComplete, under completeMu.
MarkComplete(t) ==
  /\ pc[t] = "mark"
  /\ completed' = completed + 1
  /\ MaybeFire(registered, completed + 1, [pc EXCEPT ![t] = "fetched"])
  /\ UNCHANGED <<ctxDone, data, fetching, lock, chunk, call, pos, registered,
                 closePc, wakeNext>>

\* The isClosed test after a successful download.
Fetched(t) ==
  /\ pc[t] = "fetched"
  /\ FetchReturns(t, IF ctxDone THEN "closed" ELSE "nil")
  /\ UNCHANGED <<ctxDone, data, fetching, lock, pos, completed, registered, fired,
                 closePc, wakeNext>>

---------------------------------------------------------------------------
\* Mutant: registering the callback does not look whether the file is complete.
OnCompleteOnlyRegisters ==
  /\ ~registered
  /\ registered' = TRUE
  /\ UNCHANGED <<ctxDone, data, fetching, lock, pc, chunk, call, pos, completed,
                 fired, closePc, wakeNext>>

\* OnComplete, called once by player.NewStream.
OnComplete ==
  /\ ~registered
  /\ registered' = TRUE
  /\ MaybeFire(TRUE, completed, pc)
  /\ UNCHANGED <<ctxDone, data, fetching, lock, chunk, call, pos, completed,
                 closePc, wakeNext>>

\* The completion callback: read the complete file into the cache.
Save ==
  /\ pc[Saver] = "save"
  /\ BeginReadAt(Saver, 0, FileLen)
  /\ UNCHANGED <<ctxDone, data, fetching, lock, pos, completed, registered, fired,
                 closePc, wakeNext>>

---------------------------------------------------------------------------
(***************************************************************************)
(* Close                                                                   *)
(***************************************************************************)

\* Cancel the context, under prefetchMu.
Cancel ==
  /\ closePc = "open"
  /\ closePc' = "wake"
  /\ ctxDone' = TRUE
  /\ UNCHANGED <<data, fetching, lock, pc, chunk, call, pos, completed, registered,
                 fired, wakeNext>>

\* Mutant: Close broadcasts without taking the lock of the chunk.
WakeChunkUnlocked ==
  /\ closePc = "wake"
  /\ pc' = Broadcast(wakeNext, pc)
  /\ IF wakeNext = NumChunks - 1
     THEN closePc' = "wait" /\ UNCHANGED wakeNext
     ELSE wakeNext' = wakeNext + 1 /\ UNCHANGED closePc
  /\ UNCHANGED <<ctxDone, data, fetching, lock, chunk, call, pos, completed,
                 registered, fired>>

\* Mutant: Close's loop runs one chunk too far.
WakeChunkPastEnd ==
  /\ closePc = "wake"
  /\ lock[wakeNext] = None
  /\ pc' = Broadcast(wakeNext, pc)
  /\ IF wakeNext = NumChunks
     THEN closePc' = "wait" /\ UNCHANGED wakeNext
     ELSE wakeNext' = wakeNext + 1 /\ UNCHANGED closePc
  /\ UNCHANGED <<ctxDone, data, fetching, lock, chunk, call, pos, completed,
                 registered, fired>>

\* Broadcast on the next chunk, under its lock.
WakeChunk ==
  /\ closePc = "wake"
  /\ lock[wakeNext] = None
  /\ pc' = Broadcast(wakeNext, pc)
  /\ IF wakeNext = NumChunks - 1
     THEN closePc' = "wait" /\ UNCHANGED wakeNext
     ELSE wakeNext' = wakeNext + 1 /\ UNCHANGED closePc
  /\ UNCHANGED <<ctxDone, data, fetching, lock, chunk, call, pos, completed,
                 registered, fired>>

\* prefetchWg.Wait returns.
CloseReturns ==
  /\ closePc = "wait"
  /\ \A g \in Prefetchers : pc[g] = "idle"
  /\ closePc' = "done"
  /\ UNCHANGED <<ctxDone, data, fetching, lock, pc, chunk, call, pos, completed,
                 registered, fired, wakeNext>>

---------------------------------------------------------------------------
ThreadStep(t) ==
  \/ LockChunk(t) \/ TestClosed(t) \/ InspectChunk(t)
  \/ GiveUp(t) \/ Failed(t) \/ StoreChunk(t) \/ MarkComplete(t) \/ Fetched(t)

ReaderStep(r) ==
  \/ StartPrefetch(r) \/ EndPrefetch(r) \/ ReadLoop(r) \/ CopyChunk(r) \/ Return(r)

Close == Cancel \/ WakeChunk \/ CloseReturns

Next ==
  \/ \E n \in ReadLens : Read(n)
  \/ \E p \in 0 .. FileLen : Seek(p)
  \/ \E r \in Readers : ReaderStep(r)
  \/ \E t \in Threads : ThreadStep(t) \/ DownloadDone(t) \/ DownloadFailed(t)
  \/ OnComplete
  \/ Save
  \/ Close

Spec == Init /\ [][Next]_vars

\* Goroutines are scheduled, and a download ends once the context is cancelled.
\* Nothing makes the network answer an open reader, so that is not assumed.
Fairness ==
  /\ \A t \in Threads : WF_vars(ThreadStep(t))
  /\ \A t \in Threads : WF_vars(ctxDone /\ DownloadFailed(t))
  /\ \A r \in Readers : WF_vars(ReaderStep(r))
  /\ WF_vars(Save)
  /\ WF_vars(WakeChunk \/ CloseReturns)

FairSpec == Spec /\ Fairness

---------------------------------------------------------------------------
PCs == {"idle", "prefetch", "loop", "enter", "locked", "inspect", "download", "wait",
        "giveup", "failed", "store", "mark", "fetched", "copy", "return", "save", "saved"}

Calls == [at: Nat, want: Nat, got: Seq(Nat), off: Nat, next: Nat,
          err: {"nil", "EOF", "closed", "failed"}]

\* The variables of the reader and of its goroutines keep their types.
TypeOK ==
  /\ ctxDone \in BOOLEAN
  /\ data \in [Chunks -> BOOLEAN]
  /\ fetching \in [Chunks -> BOOLEAN]
  /\ lock \in [Chunks -> Threads \cup {None}]
  /\ pc \in [Threads -> PCs]
  /\ chunk \in [Threads -> 0 .. NumChunks]
  /\ call \in [Readers -> Calls]
  /\ pos \in Nat
  /\ completed \in Nat
  /\ registered \in BOOLEAN
  /\ fired \in BOOLEAN
  /\ closePc \in {"open", "wake", "wait", "done"}
  /\ wakeNext \in Chunks

\* fetchChunk's fetching flag: a chunk is downloaded by one goroutine at a time,
\* and never again once its data is in memory.
Fetching(t) == pc[t] \in {"download", "store", "giveup"}

SingleFetch ==
  \A t \in Threads : Fetching(t) =>
    /\ ~data[chunk[t]]
    /\ \A u \in Threads \ {t} : Fetching(u) => chunk[u] # chunk[t]

\* fetchChunk's Wait: a goroutine that waits for a chunk waits for a download in
\* progress, so that the Broadcast at its end, good or bad, wakes it up.
WaitersHaveFetcher ==
  \A t \in Threads : pc[t] = "wait" =>
    \E u \in Threads : Fetching(u) /\ chunk[u] = chunk[t]

\* Close broadcasts under the lock of the chunk after cancelling the context:
\* no goroutine is left waiting on a chunk Close has already passed.
NoWaiterLeftBehind ==
  \A t \in Threads : ctxDone /\ pc[t] = "wait" =>
    closePc = "wake" /\ wakeNext <= chunk[t]

\* startPrefetch and Close agree under prefetchMu: when Close has returned no
\* prefetch goroutine runs, and none starts any more.
CloseJoinsPrefetches ==
  closePc = "done" => \A g \in Prefetchers : pc[g] = "idle"

\* The protocol by which goroutines share downloads: one downloads a chunk, the
\* others wait for it and are woken, and Close waits for all.
FetchProtocol ==
  SingleFetch /\ WaitersHaveFetcher /\ NoWaiterLeftBehind /\ CloseJoinsPrefetches

\* maybeFireComplete: the completion callback, which stores the file in the
\* cache, starts only when every chunk is in memory.
CompletionSound == fired => \A c \in Chunks : data[c]

\* OnComplete and markChunkComplete: with a callback registered, a fully
\* downloaded file is reported, whichever of the two comes last.
CompletionReported ==
  (/\ registered
   /\ \A c \in Chunks : data[c]
   /\ \A t \in Threads : pc[t] # "mark") => fired

\* The callback is called when the file is complete, and only then.
CompletionExact == CompletionSound /\ CompletionReported

\* What the goroutines share agrees: downloads and those who wait for them
\* (fetchChunk, Close), and the count of chunks and the callback (OnComplete).
Consistent == TypeOK /\ FetchProtocol /\ CompletionExact

\* ReadAt returns the bytes of the file at the position asked for, however many
\* goroutines fetched them, all of them unless it says why not; io.EOF means
\* the file's end was reached.
ReadAtContract ==
  \A r \in Readers : pc[r] = "return" =>
    LET c == call[r] IN
    /\ c.got = SubSeq(FileBytes(c.at, c.want), 1, Len(c.got))
    /\ c.err = "nil" => Len(c.got) = c.want
    /\ c.err = "EOF" => c.got = FileBytes(c.at, c.want) /\ c.at + Len(c.got) >= FileLen

\* Close returns, whatever the network does, and cancelling the context releases
\* every reader from ReadAt.
CloseTerminates ==
  /\ closePc = "wake" ~> closePc = "done"
  /\ \A r \in Readers :
       (ctxDone /\ pc[r] # "idle") ~> pc[r] \in {"idle", "saved"}
===========================================================================
