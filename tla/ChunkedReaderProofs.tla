------------------------ MODULE ChunkedReaderProofs ------------------------
(***************************************************************************)
(* The safety of the chunked reader for any file, chunk size, prefetch     *)
(* window and number of prefetch goroutines.                               *)
(***************************************************************************)
EXTENDS ChunkedReader, FiniteSetTheorems, TLAPS

InFetch == {"enter", "locked", "inspect", "download", "wait", "giveup", "failed",
            "store", "mark", "fetched", "copy"}

\* A goroutine inside fetchChunk works on a chunk of the file, and the saver
\* does not run before the callback fired.
ControlInv ==
  /\ \A t \in Threads : pc[t] \in InFetch => chunk[t] \in Chunks
  /\ \A g \in Prefetchers : pc[g] \in ({"idle"} \cup InFetch) \ {"copy"}
  /\ ~fired => pc[Saver] = "idle"

\* chunk.L is held exactly between LockChunk and the end of the loop body.
LockInv ==
  /\ \A t \in Threads : pc[t] \in {"locked", "inspect"} => lock[chunk[t]] = t
  /\ \A c \in Chunks : lock[c] # None =>
       pc[lock[c]] \in {"locked", "inspect"} /\ chunk[lock[c]] = c

\* The fetching flag marks the one download of a chunk.
FetchInv ==
  /\ \A t \in Threads : Fetching(t) => fetching[chunk[t]] /\ ~data[chunk[t]]
  /\ \A t, u \in Threads : Fetching(t) /\ Fetching(u) /\ chunk[t] = chunk[u] => t = u
  /\ \A c \in Chunks : fetching[c] => \E t \in Threads : Fetching(t) /\ chunk[t] = c
  /\ \A t \in Threads : pc[t] = "wait" => fetching[chunk[t]]

\* Close's progress over the chunks: whoever passed the isClosed test before the
\* context was cancelled still holds the lock of a chunk Close has to wake.
CloseInv ==
  /\ ctxDone <=> closePc # "open"
  /\ closePc = "open" => wakeNext = 0
  /\ \A t \in Threads : ctxDone /\ pc[t] \in {"wait", "inspect"} =>
       closePc = "wake" /\ wakeNext <= chunk[t]
  /\ closePc = "done" => \A g \in Prefetchers : pc[g] = "idle"

Present == {c \in Chunks : data[c]}
Marking == {t \in Threads : pc[t] = "mark"}

\* completedChunks counts the chunks in memory, except those whose goroutine has
\* not reached markChunkComplete.
CountInv ==
  /\ Cardinality(Present) = completed + Cardinality(Marking)
  /\ fired => completed >= NumChunks
  /\ registered /\ completed >= NumChunks => fired

IInv == TypeOK /\ ControlInv /\ LockInv /\ FetchInv /\ CloseInv /\ CountInv

\* A file has at least one chunk: the first one is downloaded at construction.
LEMMA NumChunksPositive == NumChunks \in Nat \ {0}
  BY SizesAssumption DEF NumChunks

\* What CopyChunk does apart from the bytes it copies.
LEMMA CopyChunkControl ==
  ASSUME NEW r \in Readers, CopyChunk(r)
  PROVE  /\ pc[r] = "copy"
         /\ \/ UNCHANGED chunk /\ pc' = [pc EXCEPT ![r] = "return"]
            \/ chunk' = [chunk EXCEPT ![r] = @ + 1] /\ pc' = [pc EXCEPT ![r] = "loop"]
         /\ UNCHANGED <<ctxDone, data, fetching, lock, pos, completed, registered, fired,
                        closePc, wakeNext>>
  BY DEF CopyChunk

\* The state the constructor builds satisfies the inductive invariant.
LEMMA InitInv == Init => IInv
<1> SUFFICES ASSUME Init PROVE IInv
  OBVIOUS
<1> USE ThreadsAssumption, NumChunksPositive
<1>1. TypeOK
  <2>1. NoCall \in Calls
    BY DEF NoCall, Calls
  <2>2. call \in [Readers -> Calls]
    BY <2>1 DEF Init
  <2>3. /\ data \in [Chunks -> BOOLEAN] /\ fetching \in [Chunks -> BOOLEAN]
        /\ lock \in [Chunks -> Threads \cup {None}]
    BY DEF Init
  <2>4. pc \in [Threads -> PCs] /\ chunk \in [Threads -> 0 .. NumChunks]
    BY DEF Init, PCs
  <2>5. wakeNext \in Chunks
    BY DEF Init, Chunks
  <2>6. /\ ctxDone \in BOOLEAN /\ registered \in BOOLEAN /\ fired \in BOOLEAN
        /\ pos \in Nat /\ completed \in Nat /\ closePc \in {"open", "wake", "wait", "done"}
    BY Zenon DEF Init
  <2> QED
    BY <2>2, <2>3, <2>4, <2>5, <2>6 DEF TypeOK
<1>2. ControlInv /\ LockInv /\ FetchInv /\ CloseInv
  BY DEF Init, ControlInv, LockInv, FetchInv, CloseInv, InFetch, Fetching, Threads, Readers, Chunks
<1>3. Cardinality(Present) = 1
  <2>0. 0 \in Chunks
    BY DEF Chunks
  <2>1. \A c \in Chunks : data[c] <=> c = 0
    BY Zenon DEF Init
  <2>2. Present = {0}
    BY <2>0, <2>1 DEF Present
  <2> QED
    BY <2>2, FS_Singleton, Zenon
<1>4. Cardinality(Marking) = 0
  <2>1. Marking = {}
    BY DEF Init, Marking
  <2> QED
    BY <2>1, FS_EmptySet
<1>5. NumChunks \in Nat
  OBVIOUS
<1>6. CountInv
  BY <1>3, <1>4, <1>5 DEF Init, CountInv
<1> QED
  BY <1>1, <1>2, <1>6 DEF IInv

Errs == {"nil", "EOF", "closed", "failed"}

\* Updating one field of a call keeps it a call.
LEMMA CallTypes ==
  ASSUME NEW f \in [Readers -> Calls], NEW r \in Readers
  PROVE  /\ f[r].at \in Nat /\ f[r].want \in Nat /\ f[r].got \in Seq(Nat)
         /\ f[r].off \in Nat /\ f[r].next \in Nat
         /\ \A e \in Errs : [f EXCEPT ![r].err = e] \in [Readers -> Calls]
         /\ \A n \in Nat : [f EXCEPT ![r].next = n] \in [Readers -> Calls]
         /\ \A s \in Seq(Nat) : [f EXCEPT ![r].got = s] \in [Readers -> Calls]
         /\ \A s \in Seq(Nat) : [f EXCEPT ![r].got = s, ![r].off = 0] \in [Readers -> Calls]
         /\ \A c \in Calls : [f EXCEPT ![r] = c] \in [Readers -> Calls]
  BY Zenon DEF Calls, Errs

\* The bytes of a chunk are a sequence of file offsets.
LEMMA ChunkBytesType == ASSUME NEW c \in Nat PROVE ChunkBytes(c) \in Seq(Nat)
  <1> DEFINE first == c * ChunkSize
             last == (IF (c + 1) * ChunkSize < FileLen THEN (c + 1) * ChunkSize ELSE FileLen) - 1
  <1>1. first \in Nat /\ last \in Int
    BY SizesAssumption
  <1>2. \A i \in 1 .. last - first + 1 : first + i - 1 \in Nat
    BY <1>1
  <1>3. ChunkBytes(c) = [i \in 1 .. last - first + 1 |-> first + i - 1]
    BY DEF ChunkBytes
  <1> HIDE DEF first, last
  <1>4. CASE last - first + 1 \in Nat
    <2> DEFINE n == last - first + 1
    <2>1. ChunkBytes(c) \in [1 .. n -> Nat]
      BY <1>2, <1>3
    <2> QED
      BY <1>4, <2>1
  <1>5. CASE last - first + 1 \notin Nat
    <2>1. 1 .. last - first + 1 = 1 .. 0
      BY <1>1, <1>5
    <2>2. ChunkBytes(c) \in [1 .. 0 -> Nat]
      BY <1>2, <1>3, <2>1
    <2> QED
      BY <2>2
  <1> QED
    BY <1>4, <1>5

\* ReadAt splits a position into a chunk index and an offset in the chunk.
LEMMA ChunkIndex ==
  ASSUME NEW p \in Nat
  PROVE  p \div ChunkSize \in Nat /\ p % ChunkSize \in Nat
  BY SizesAssumption

\* Copying part of a chunk copies bytes.
LEMMA PrefixType ==
  ASSUME NEW s \in Seq(Nat), NEW k \in Int, Len(s) > k
  PROVE  SubSeq(s, 1, k) \in Seq(Nat)
  OBVIOUS

\* What follows the offset in a chunk is a sequence of bytes.
LEMMA SuffixType ==
  ASSUME NEW s \in Seq(Nat), NEW k \in Nat
  PROVE  SubSeq(s, k + 1, Len(s)) \in Seq(Nat)
  OBVIOUS

\* fetchChunk only sets the error of the call it returns to.
LEMMA FetchReturnsCalls ==
  ASSUME call \in [Readers -> Calls], NEW t \in Threads, NEW e \in Errs, FetchReturns(t, e)
  PROVE  call' \in [Readers -> Calls]
  BY CallTypes DEF FetchReturns

\* fetchChunk returns its goroutine to a known place.
LEMMA FetchReturnsTypes ==
  ASSUME pc \in [Threads -> PCs], chunk \in [Threads -> 0 .. NumChunks],
         NEW t \in Threads, NEW e, FetchReturns(t, e)
  PROVE  pc' \in [Threads -> PCs] /\ chunk' \in [Threads -> 0 .. NumChunks]
  BY NumChunksPositive DEF FetchReturns, PCs

\* Firing the callback starts the saver and nothing else.
LEMMA MaybeFireTypes ==
  ASSUME fired \in BOOLEAN, NEW reg \in BOOLEAN, NEW n \in Nat,
         NEW at \in [Threads -> PCs], MaybeFire(reg, n, at)
  PROVE  fired' \in BOOLEAN /\ pc' \in [Threads -> PCs]
  BY DEF MaybeFire, PCs, Threads, Readers

\* ReadAt starts on a chunk of the file.
LEMMA BeginReadAtTypes ==
  ASSUME pc \in [Threads -> PCs], chunk \in [Threads -> 0 .. NumChunks],
         NEW r \in Readers, NEW at \in Nat, NEW want, BeginReadAt(r, at, want)
  PROVE  pc' \in [Threads -> PCs] /\ chunk' \in [Threads -> 0 .. NumChunks]
<1> DEFINE idx == at \div ChunkSize
<1>1. idx \in Nat
  BY ChunkIndex
<1>2. /\ \E s \in {"prefetch", "return"} : pc' = [pc EXCEPT ![r] = s]
      /\ \E c \in 0 .. NumChunks : chunk' = [chunk EXCEPT ![r] = c]
  <2>1. \/ pc' = [pc EXCEPT ![r] = "prefetch"]
        \/ pc' = [pc EXCEPT ![r] = "return"]
    BY Zenon DEF BeginReadAt
  <2>2. \/ chunk' = [chunk EXCEPT ![r] = 0]
        \/ chunk' = [chunk EXCEPT ![r] = idx] /\ ~(idx >= NumChunks)
    BY Zenon DEF BeginReadAt
  <2> HIDE DEF idx
  <2>3. 0 \in 0 .. NumChunks /\ (~(idx >= NumChunks) => idx \in 0 .. NumChunks)
    BY <1>1, NumChunksPositive
  <2> QED
    BY <2>1, <2>2, <2>3
<1> QED
  BY <1>2 DEF PCs, Threads

\* BeginReadAt records a well-formed call.
LEMMA BeginReadAtCalls ==
  ASSUME call \in [Readers -> Calls], NEW r \in Readers, NEW at \in Nat, NEW want \in Nat,
         BeginReadAt(r, at, want)
  PROVE  call' \in [Readers -> Calls]
<1> DEFINE refused == IF ctxDone THEN "closed"
                     ELSE IF at \div ChunkSize >= NumChunks THEN "EOF" ELSE "nil"
           new == [at |-> at, want |-> want, got |-> <<>>, off |-> at % ChunkSize,
                   next |-> IF refused = "nil" THEN at \div ChunkSize + 1 ELSE 0,
                   err |-> refused]
<1>1. call' = [call EXCEPT ![r] = new]
  BY Zenon DEF BeginReadAt
<1>2. at \div ChunkSize \in Nat /\ at % ChunkSize \in Nat /\ refused \in Errs
  BY ChunkIndex DEF Errs
<1> HIDE DEF refused
<1>3. new \in Calls
  BY <1>2 DEF Calls, Errs
<1> QED
  BY <1>1, <1>3, CallTypes, Zenon

CallsOK == call \in [Readers -> Calls]

\* The calls in progress keep their shape.
LEMMA CallStep == IInv /\ [Next]_vars => CallsOK'
<1> SUFFICES ASSUME IInv, [Next]_vars PROVE CallsOK'
  OBVIOUS
<1>0. call \in [Readers -> Calls] /\ pos \in Nat /\ chunk \in [Threads -> 0 .. NumChunks]
  BY DEF IInv, TypeOK
<1> USE DEF CallsOK
<1>1. CASE \E n \in ReadLens : Read(n)
  BY <1>0, <1>1, BeginReadAtCalls, SizesAssumption DEF Read, Readers
<1>2. CASE \E p \in 0 .. FileLen : Seek(p)
  BY <1>2, <1>0, CallTypes DEF Seek, Errs
<1>3. ASSUME NEW r \in Readers, StartPrefetch(r) PROVE CallsOK'
  <2>1. call[r].next + 1 \in Nat
    BY <1>0, CallTypes
  <2>2. call' = [call EXCEPT ![r].next = call[r].next + 1]
    BY <1>3 DEF StartPrefetch
  <2> QED
    BY <1>0, <2>1, <2>2, CallTypes
<1>4. ASSUME NEW r \in Readers, EndPrefetch(r) PROVE CallsOK'
  BY <1>4, <1>0, CallTypes DEF EndPrefetch, Goto, Errs
<1>5. ASSUME NEW r \in Readers, ReadLoop(r) PROVE CallsOK'
  BY <1>5, <1>0, CallTypes, Zenon DEF ReadLoop, Errs
<1>6. ASSUME NEW r \in Readers, CopyChunk(r) PROVE CallsOK'
  <2>1. chunk[r] \in Nat
    BY <1>0, NumChunksPositive DEF Threads
  <2>2. ChunkBytes(chunk[r]) \in Seq(Nat)
    BY <2>1, ChunkBytesType
  <2> DEFINE bytes == ChunkBytes(chunk[r])
             c == SubSeq(bytes, call[r].off + 1, Len(bytes))
             room == call[r].want - Len(call[r].got)
  <2>3. /\ call[r].got \in Seq(Nat)
        /\ call[r].off \in Nat
        /\ room \in Int
    BY <1>0, CallTypes
  <2>4. c \in Seq(Nat)
    BY <2>2, <2>3, SuffixType
  <2>5. \/ /\ Len(c) > room
           /\ call' = [call EXCEPT ![r].got = @ \o SubSeq(c, 1, room)]
        \/ call' = [call EXCEPT ![r].got = @ \o c, ![r].off = 0]
    BY <1>6, Zenon DEF CopyChunk
  <2> HIDE DEF c, room
  <2>6. CASE Len(c) > room /\ call' = [call EXCEPT ![r].got = @ \o SubSeq(c, 1, room)]
    <3>1. call[r].got \o SubSeq(c, 1, room) \in Seq(Nat)
      BY <2>3, <2>4, <2>6, PrefixType
    <3> QED
      BY <1>0, <2>6, <3>1, CallTypes, Zenon
  <2>7. CASE call' = [call EXCEPT ![r].got = @ \o c, ![r].off = 0]
    <3>1. call[r].got \o c \in Seq(Nat)
      BY <2>3, <2>4
    <3> QED
      BY <1>0, <2>7, <3>1, CallTypes, Zenon
  <2> QED
    BY <2>5, <2>6, <2>7, Zenon
<1>7. ASSUME NEW r \in Readers, Return(r) PROVE CallsOK'
  BY <1>7, <1>0, CallTypes DEF Return, NoCall, Calls
<1>8. ASSUME NEW t \in Threads, LockChunk(t) PROVE CallsOK'
  BY <1>8, <1>0, CallTypes DEF LockChunk, Goto, Errs
<1>9. ASSUME NEW t \in Threads, TestClosed(t) PROVE CallsOK'
  BY <1>9, <1>0, FetchReturnsCalls DEF TestClosed, Errs
<1>10. ASSUME NEW t \in Threads, InspectChunk(t) PROVE CallsOK'
  BY <1>10, <1>0, FetchReturnsCalls DEF InspectChunk, Errs
<1>11. ASSUME NEW t \in Threads, DownloadDone(t) PROVE CallsOK'
  BY <1>11, <1>0, CallTypes DEF DownloadDone, Goto, Errs
<1>12. ASSUME NEW t \in Threads, DownloadFailed(t) PROVE CallsOK'
  BY <1>12, <1>0, CallTypes DEF DownloadFailed, Goto, Errs
<1>13. ASSUME NEW t \in Threads, GiveUp(t) PROVE CallsOK'
  BY <1>13, <1>0, CallTypes DEF GiveUp, Broadcast, Errs
<1>14. ASSUME NEW t \in Threads, Failed(t) PROVE CallsOK'
  BY <1>14, <1>0, FetchReturnsCalls DEF Failed, Errs
<1>15. ASSUME NEW t \in Threads, StoreChunk(t) PROVE CallsOK'
  BY <1>15, <1>0, CallTypes DEF StoreChunk, Broadcast, Errs
<1>16. ASSUME NEW t \in Threads, MarkComplete(t) PROVE CallsOK'
  BY <1>16, <1>0, CallTypes DEF MarkComplete, MaybeFire, Errs
<1>17. ASSUME NEW t \in Threads, Fetched(t) PROVE CallsOK'
  BY <1>17, <1>0, FetchReturnsCalls DEF Fetched, Errs
<1>18. CASE OnComplete
  BY <1>18, <1>0, CallTypes DEF OnComplete, MaybeFire, Errs
<1>19. CASE Save
  BY <1>0, <1>19, BeginReadAtCalls, SizesAssumption DEF Save, Readers
<1>20. CASE Cancel
  BY <1>20, <1>0, CallTypes DEF Cancel, Errs
<1>21. CASE WakeChunk
  BY <1>21, <1>0, CallTypes DEF WakeChunk, Broadcast, Errs
<1>22. CASE CloseReturns
  BY <1>22, <1>0, CallTypes DEF CloseReturns, Errs
<1>23. CASE UNCHANGED vars
  BY <1>0, <1>23 DEF vars
<1> HIDE DEF CallsOK
<1> QED
  BY <1>1, <1>2, <1>3, <1>4, <1>5, <1>6, <1>7, <1>8, <1>9, <1>10, <1>11, <1>12,
     <1>13, <1>14, <1>15, <1>16, <1>17, <1>18, <1>19, <1>20, <1>21, <1>22, <1>23
  DEF Next, ReaderStep, ThreadStep, Close

\* Every step preserves the types.
LEMMA TypeStep == IInv /\ [Next]_vars => TypeOK'
<1> SUFFICES ASSUME IInv, [Next]_vars PROVE TypeOK'
  OBVIOUS
<1> DEFINE Rest == /\ ctxDone \in BOOLEAN
                   /\ data \in [Chunks -> BOOLEAN]
                   /\ fetching \in [Chunks -> BOOLEAN]
                   /\ lock \in [Chunks -> Threads \cup {None}]
                   /\ pc \in [Threads -> PCs]
                   /\ chunk \in [Threads -> 0 .. NumChunks]
                   /\ pos \in Nat
                   /\ completed \in Nat
                   /\ registered \in BOOLEAN
                   /\ fired \in BOOLEAN
                   /\ closePc \in {"open", "wake", "wait", "done"}
                   /\ wakeNext \in Chunks
<1>a. Rest /\ call \in [Readers -> Calls] /\ ControlInv
  BY DEF IInv, TypeOK
<1> SUFFICES Rest'
  BY CallStep DEF TypeOK, CallsOK
<1> USE <1>a, ThreadsAssumption, NumChunksPositive DEF Threads, Readers, Chunks, PCs
<1>1. CASE \E n \in ReadLens : Read(n)
  <2> SUFFICES ASSUME NEW n \in ReadLens, Read(n) PROVE Rest'
    BY <1>1
  <2> QED
    BY BeginReadAtTypes DEF Read
<1>2. CASE \E p \in 0 .. FileLen : Seek(p)
  BY <1>2 DEF Seek
<1>3. ASSUME NEW r \in Readers, StartPrefetch(r) PROVE Rest'
  <2>1. call[r].next \in Nat
    BY CallTypes, Zenon
  <2> QED
    BY <1>3, <2>1 DEF StartPrefetch, PrefetchWindowCovered
<1>4. ASSUME NEW r \in Readers, EndPrefetch(r) PROVE Rest'
  BY <1>4 DEF EndPrefetch, Goto
<1>5. ASSUME NEW r \in Readers, ReadLoop(r) PROVE Rest'
  BY <1>5 DEF ReadLoop
<1>6. ASSUME NEW r \in Readers, CopyChunk(r) PROVE Rest'
  BY <1>6, CopyChunkControl DEF ControlInv, InFetch
<1>7. ASSUME NEW r \in Readers, Return(r) PROVE Rest'
  <2>1. Len(call[r].got) \in Nat
    BY CallTypes
  <2> QED
    BY <1>7, <2>1 DEF Return, Goto
<1>8. ASSUME NEW t \in Threads, LockChunk(t) PROVE Rest'
  BY <1>8 DEF LockChunk, Goto, ControlInv, InFetch
<1>9. ASSUME NEW t \in Threads, TestClosed(t) PROVE Rest'
  BY <1>9, FetchReturnsTypes, Zenon DEF TestClosed
<1>10. ASSUME NEW t \in Threads, InspectChunk(t) PROVE Rest'
  <2>0. chunk[t] \in Chunks
    BY <1>10 DEF InspectChunk, ControlInv, InFetch
  <2>1. pc' \in [Threads -> PCs] /\ chunk' \in [Threads -> 0 .. NumChunks]
    <3>1. CASE FetchReturns(t, "nil")
      BY <3>1, FetchReturnsTypes
    <3>2. CASE UNCHANGED chunk /\ \E s \in {"download", "wait"} : pc' = [pc EXCEPT ![t] = s]
      BY <3>2
    <3> QED
      BY <1>10, <3>1, <3>2 DEF InspectChunk
  <2>2. lock' \in [Chunks -> Threads \cup {None}] /\ fetching' \in [Chunks -> BOOLEAN]
    BY <1>10, <2>0, Zenon DEF InspectChunk
  <2> QED
    BY <1>10, <2>1, <2>2 DEF InspectChunk
<1>11. ASSUME NEW t \in Threads, DownloadDone(t) PROVE Rest'
  BY <1>11 DEF DownloadDone, Goto
<1>12. ASSUME NEW t \in Threads, DownloadFailed(t) PROVE Rest'
  BY <1>12 DEF DownloadFailed, Goto
<1>13. ASSUME NEW t \in Threads, GiveUp(t) PROVE Rest'
  BY <1>13, Zenon DEF GiveUp, Broadcast
<1>14. ASSUME NEW t \in Threads, Failed(t) PROVE Rest'
  BY <1>14 DEF Failed, FetchReturns
<1>15. ASSUME NEW t \in Threads, StoreChunk(t) PROVE Rest'
  BY <1>15, Zenon DEF StoreChunk, Broadcast
<1>16. ASSUME NEW t \in Threads, MarkComplete(t) PROVE Rest'
  <2>1. [pc EXCEPT ![t] = "fetched"] \in [Threads -> PCs] /\ completed + 1 \in Nat
    OBVIOUS
  <2>2. pc' \in [Threads -> PCs] /\ fired' \in BOOLEAN
    BY <1>16, <2>1, MaybeFireTypes, Zenon DEF MarkComplete
  <2> QED
    BY <1>16, <2>1, <2>2 DEF MarkComplete
<1>17. ASSUME NEW t \in Threads, Fetched(t) PROVE Rest'
  BY <1>17 DEF Fetched, FetchReturns
<1>18. CASE OnComplete
  BY <1>18 DEF OnComplete, MaybeFire
<1>19. CASE Save
  BY <1>19, BeginReadAtTypes DEF Save
<1>20. CASE Cancel
  BY <1>20 DEF Cancel
<1>21. CASE WakeChunk
  BY <1>21 DEF WakeChunk, Broadcast
<1>22. CASE CloseReturns
  BY <1>22 DEF CloseReturns
<1>23. CASE UNCHANGED vars
  BY <1>23, SMTT(20) DEF vars
<1> HIDE <1>a, ThreadsAssumption, NumChunksPositive DEF Rest, Threads, Readers, Chunks, PCs
<1> QED
  BY <1>1, <1>2, <1>3, <1>4, <1>5, <1>6, <1>7, <1>8, <1>9, <1>10, <1>11, <1>12,
     <1>13, <1>14, <1>15, <1>16, <1>17, <1>18, <1>19, <1>20, <1>21, <1>22, <1>23
  DEF Next, ReaderStep, ThreadStep, Close

\* Every step keeps the goroutines inside fetchChunk on chunks of the file.
LEMMA ControlStep == IInv /\ [Next]_vars => ControlInv'
<1> SUFFICES ASSUME IInv, [Next]_vars PROVE ControlInv'
  OBVIOUS
<1>0. /\ pc \in [Threads -> PCs]
      /\ chunk \in [Threads -> 0 .. NumChunks]
      /\ call \in [Readers -> Calls]
      /\ fired \in BOOLEAN
      /\ ControlInv
  BY DEF IInv, TypeOK
<1> USE <1>0, ThreadsAssumption DEF Threads, Readers, ControlInv, InFetch, Chunks
<1>1. CASE \E n \in ReadLens : Read(n)
  BY <1>1, NumChunksPositive DEF Read, BeginReadAt
<1>2. CASE \E p \in 0 .. FileLen : Seek(p)
  BY <1>2, NumChunksPositive DEF Seek
<1>3. ASSUME NEW r \in Readers, StartPrefetch(r) PROVE ControlInv'
  <2>0. call[r].next \in Nat
    <3> call \in [Readers -> Calls]
      OBVIOUS
    <3> HIDE DEF IInv
    <3> QED
      BY CallTypes, Zenon
  <2>1. call[r].next < NumChunks
    <3> HIDE DEF IInv
    <3> QED
      BY <1>3, <2>0, NumChunksPositive DEF StartPrefetch, PrefetchWindowCovered
  <2>2. PICK g \in Prefetchers : /\ pc[g] = "idle"
                                 /\ pc' = [pc EXCEPT ![g] = "enter"]
                                 /\ chunk' = [chunk EXCEPT ![g] = call[r].next]
    BY <1>3, Zenon DEF StartPrefetch
  <2> QED
    BY <1>3, <2>0, <2>1, <2>2, NumChunksPositive DEF StartPrefetch
<1>4. ASSUME NEW r \in Readers, EndPrefetch(r) PROVE ControlInv'
  BY <1>4, NumChunksPositive DEF EndPrefetch, Goto
<1>5. ASSUME NEW r \in Readers, ReadLoop(r) PROVE ControlInv'
  BY <1>5, NumChunksPositive DEF ReadLoop
<1>6. ASSUME NEW r \in Readers, CopyChunk(r) PROVE ControlInv'
  BY <1>6, CopyChunkControl, NumChunksPositive
<1>7. ASSUME NEW r \in Readers, Return(r) PROVE ControlInv'
  BY <1>7, NumChunksPositive DEF Return, Goto
<1>8. ASSUME NEW t \in Threads, LockChunk(t) PROVE ControlInv'
  BY <1>8, NumChunksPositive DEF LockChunk, Goto
<1>9. ASSUME NEW t \in Threads, TestClosed(t) PROVE ControlInv'
  <2>1. CASE ctxDone
    BY <1>9, <2>1 DEF TestClosed, FetchReturns
  <2>2. CASE ~ctxDone
    BY <1>9, <2>2 DEF TestClosed
  <2> QED
    BY <2>1, <2>2
<1>10. ASSUME NEW t \in Threads, InspectChunk(t) PROVE ControlInv'
  BY <1>10, NumChunksPositive DEF InspectChunk, FetchReturns
<1>11. ASSUME NEW t \in Threads, DownloadDone(t) PROVE ControlInv'
  BY <1>11, NumChunksPositive DEF DownloadDone, Goto
<1>12. ASSUME NEW t \in Threads, DownloadFailed(t) PROVE ControlInv'
  BY <1>12, NumChunksPositive DEF DownloadFailed, Goto
<1>13. ASSUME NEW t \in Threads, GiveUp(t) PROVE ControlInv'
  BY <1>13, NumChunksPositive DEF GiveUp, Broadcast
<1>14. ASSUME NEW t \in Threads, Failed(t) PROVE ControlInv'
  BY <1>14, NumChunksPositive DEF Failed, FetchReturns
<1>15. ASSUME NEW t \in Threads, StoreChunk(t) PROVE ControlInv'
  BY <1>15, NumChunksPositive DEF StoreChunk, Broadcast
<1>16. ASSUME NEW t \in Threads, MarkComplete(t) PROVE ControlInv'
  BY <1>16, NumChunksPositive, Zenon DEF MarkComplete, MaybeFire
<1>17. ASSUME NEW t \in Threads, Fetched(t) PROVE ControlInv'
  BY <1>17, NumChunksPositive DEF Fetched, FetchReturns
<1>18. CASE OnComplete
  BY <1>18, NumChunksPositive, Zenon DEF OnComplete, MaybeFire
<1>19. CASE Save
  BY <1>19, NumChunksPositive DEF Save, BeginReadAt
<1>20. CASE Cancel
  BY <1>20, NumChunksPositive DEF Cancel
<1>21. CASE WakeChunk
  BY <1>21, NumChunksPositive DEF WakeChunk, Broadcast
<1>22. CASE CloseReturns
  BY <1>22, NumChunksPositive DEF CloseReturns
<1>23. CASE UNCHANGED vars
  BY <1>23, SMTT(30) DEF vars
<1> HIDE <1>0, ThreadsAssumption DEF Threads, Readers, ControlInv, InFetch, Chunks
<1> QED
  BY <1>1, <1>2, <1>3, <1>4, <1>5, <1>6, <1>7, <1>8, <1>9, <1>10, <1>11, <1>12,
     <1>13, <1>14, <1>15, <1>16, <1>17, <1>18, <1>19, <1>20, <1>21, <1>22, <1>23
  DEF Next, ReaderStep, ThreadStep, Close

\* Every step keeps the chunk locks with the goroutines in the locked region.
LEMMA LockStep == IInv /\ [Next]_vars => LockInv'
<1> SUFFICES ASSUME IInv, [Next]_vars PROVE LockInv'
  OBVIOUS
<1>0. /\ pc \in [Threads -> PCs]
      /\ chunk \in [Threads -> 0 .. NumChunks]
      /\ lock \in [Chunks -> Threads \cup {None}]
      /\ ControlInv /\ LockInv
  BY DEF IInv, TypeOK
<1> USE <1>0, ThreadsAssumption DEF Threads, Readers, ControlInv, LockInv, InFetch
<1>1. CASE \E n \in ReadLens : Read(n)
  BY <1>1 DEF Read, BeginReadAt
<1>2. CASE \E p \in 0 .. FileLen : Seek(p)
  BY <1>2 DEF Seek
<1>3. ASSUME NEW r \in Readers, StartPrefetch(r) PROVE LockInv'
  BY <1>3 DEF StartPrefetch, PrefetchWindowCovered
<1>4. ASSUME NEW r \in Readers, EndPrefetch(r) PROVE LockInv'
  BY <1>4 DEF EndPrefetch, Goto
<1>5. ASSUME NEW r \in Readers, ReadLoop(r) PROVE LockInv'
  BY <1>5 DEF ReadLoop
<1>6. ASSUME NEW r \in Readers, CopyChunk(r) PROVE LockInv'
  BY <1>6, CopyChunkControl
<1>7. ASSUME NEW r \in Readers, Return(r) PROVE LockInv'
  BY <1>7 DEF Return, Goto
<1>8. ASSUME NEW t \in Threads, LockChunk(t) PROVE LockInv'
  BY <1>8 DEF LockChunk, Goto
<1>9. ASSUME NEW t \in Threads, TestClosed(t) PROVE LockInv'
  BY <1>9 DEF TestClosed, FetchReturns
<1>10. ASSUME NEW t \in Threads, InspectChunk(t) PROVE LockInv'
  BY <1>10 DEF InspectChunk, FetchReturns
<1>11. ASSUME NEW t \in Threads, DownloadDone(t) PROVE LockInv'
  BY <1>11 DEF DownloadDone, Goto
<1>12. ASSUME NEW t \in Threads, DownloadFailed(t) PROVE LockInv'
  BY <1>12 DEF DownloadFailed, Goto
<1>13. ASSUME NEW t \in Threads, GiveUp(t) PROVE LockInv'
  BY <1>13 DEF GiveUp, Broadcast
<1>14. ASSUME NEW t \in Threads, Failed(t) PROVE LockInv'
  BY <1>14 DEF Failed, FetchReturns
<1>15. ASSUME NEW t \in Threads, StoreChunk(t) PROVE LockInv'
  BY <1>15 DEF StoreChunk, Broadcast
<1>16. ASSUME NEW t \in Threads, MarkComplete(t) PROVE LockInv'
  BY <1>16 DEF MarkComplete, MaybeFire
<1>17. ASSUME NEW t \in Threads, Fetched(t) PROVE LockInv'
  BY <1>17 DEF Fetched, FetchReturns
<1>18. CASE OnComplete
  BY <1>18 DEF OnComplete, MaybeFire
<1>19. CASE Save
  BY <1>19 DEF Save, BeginReadAt
<1>20. CASE Cancel
  BY <1>20 DEF Cancel
<1>21. CASE WakeChunk
  BY <1>21 DEF WakeChunk, Broadcast
<1>22. CASE CloseReturns
  BY <1>22 DEF CloseReturns
<1>23. CASE UNCHANGED vars
  BY <1>23, SMTT(30) DEF vars
<1> HIDE <1>0, ThreadsAssumption DEF Threads, Readers, ControlInv, LockInv, InFetch
<1> QED
  BY <1>1, <1>2, <1>3, <1>4, <1>5, <1>6, <1>7, <1>8, <1>9, <1>10, <1>11, <1>12,
     <1>13, <1>14, <1>15, <1>16, <1>17, <1>18, <1>19, <1>20, <1>21, <1>22, <1>23
  DEF Next, ReaderStep, ThreadStep, Close

\* Every step keeps the fetching flag with the one download of the chunk.
LEMMA FetchStep == IInv /\ [Next]_vars => FetchInv'
<1> SUFFICES ASSUME IInv, [Next]_vars PROVE FetchInv'
  OBVIOUS
<1>0. /\ pc \in [Threads -> PCs]
      /\ chunk \in [Threads -> 0 .. NumChunks]
      /\ data \in [Chunks -> BOOLEAN]
      /\ fetching \in [Chunks -> BOOLEAN]
      /\ ControlInv /\ FetchInv
  BY DEF IInv, TypeOK
<1> USE <1>0, ThreadsAssumption DEF Threads, Readers, ControlInv, FetchInv, Fetching, InFetch
<1>1. CASE \E n \in ReadLens : Read(n)
  BY <1>1 DEF Read, BeginReadAt
<1>2. CASE \E p \in 0 .. FileLen : Seek(p)
  BY <1>2 DEF Seek
<1>3. ASSUME NEW r \in Readers, StartPrefetch(r) PROVE FetchInv'
  BY <1>3 DEF StartPrefetch, PrefetchWindowCovered
<1>4. ASSUME NEW r \in Readers, EndPrefetch(r) PROVE FetchInv'
  BY <1>4 DEF EndPrefetch, Goto
<1>5. ASSUME NEW r \in Readers, ReadLoop(r) PROVE FetchInv'
  BY <1>5 DEF ReadLoop
<1>6. ASSUME NEW r \in Readers, CopyChunk(r) PROVE FetchInv'
  BY <1>6, CopyChunkControl
<1>7. ASSUME NEW r \in Readers, Return(r) PROVE FetchInv'
  BY <1>7 DEF Return, Goto
<1>8. ASSUME NEW t \in Threads, LockChunk(t) PROVE FetchInv'
  BY <1>8 DEF LockChunk, Goto
<1>9. ASSUME NEW t \in Threads, TestClosed(t) PROVE FetchInv'
  BY <1>9 DEF TestClosed, FetchReturns
<1>10. ASSUME NEW t \in Threads, InspectChunk(t) PROVE FetchInv'
  BY <1>10 DEF InspectChunk, FetchReturns
<1>11. ASSUME NEW t \in Threads, DownloadDone(t) PROVE FetchInv'
  BY <1>11 DEF DownloadDone, Goto
<1>12. ASSUME NEW t \in Threads, DownloadFailed(t) PROVE FetchInv'
  BY <1>12 DEF DownloadFailed, Goto
<1>13. ASSUME NEW t \in Threads, GiveUp(t) PROVE FetchInv'
  BY <1>13, SMTT(30) DEF GiveUp, Broadcast
<1>14. ASSUME NEW t \in Threads, Failed(t) PROVE FetchInv'
  BY <1>14 DEF Failed, FetchReturns
<1>15. ASSUME NEW t \in Threads, StoreChunk(t) PROVE FetchInv'
  BY <1>15, SMTT(30) DEF StoreChunk, Broadcast
<1>16. ASSUME NEW t \in Threads, MarkComplete(t) PROVE FetchInv'
  BY <1>16 DEF MarkComplete, MaybeFire
<1>17. ASSUME NEW t \in Threads, Fetched(t) PROVE FetchInv'
  BY <1>17 DEF Fetched, FetchReturns
<1>18. CASE OnComplete
  BY <1>18 DEF OnComplete, MaybeFire
<1>19. CASE Save
  BY <1>19 DEF Save, BeginReadAt
<1>20. CASE Cancel
  BY <1>20 DEF Cancel
<1>21. CASE WakeChunk
  BY <1>21 DEF WakeChunk, Broadcast
<1>22. CASE CloseReturns
  BY <1>22 DEF CloseReturns
<1>23. CASE UNCHANGED vars
  BY <1>23, SMTT(30) DEF vars
<1> HIDE <1>0, ThreadsAssumption DEF Threads, Readers, ControlInv, FetchInv, Fetching, InFetch
<1> QED
  BY <1>1, <1>2, <1>3, <1>4, <1>5, <1>6, <1>7, <1>8, <1>9, <1>10, <1>11, <1>12,
     <1>13, <1>14, <1>15, <1>16, <1>17, <1>18, <1>19, <1>20, <1>21, <1>22, <1>23
  DEF Next, ReaderStep, ThreadStep, Close

\* Every step keeps Close ahead of the goroutines that may still wait.
LEMMA CloseStep == IInv /\ [Next]_vars => CloseInv'
<1> SUFFICES ASSUME IInv, [Next]_vars PROVE CloseInv'
  OBVIOUS
<1>0. /\ pc \in [Threads -> PCs]
      /\ chunk \in [Threads -> 0 .. NumChunks]
      /\ lock \in [Chunks -> Threads \cup {None}]
      /\ ctxDone \in BOOLEAN
      /\ wakeNext \in Chunks
      /\ ControlInv /\ LockInv /\ CloseInv
  BY DEF IInv, TypeOK
<1> USE <1>0, ThreadsAssumption DEF Threads, Readers, ControlInv, LockInv, CloseInv, InFetch, Chunks
<1>1. CASE \E n \in ReadLens : Read(n)
  BY <1>1, NumChunksPositive DEF Read, BeginReadAt
<1>2. CASE \E p \in 0 .. FileLen : Seek(p)
  BY <1>2, NumChunksPositive DEF Seek
<1>3. ASSUME NEW r \in Readers, StartPrefetch(r) PROVE CloseInv'
  BY <1>3, NumChunksPositive DEF StartPrefetch, PrefetchWindowCovered
<1>4. ASSUME NEW r \in Readers, EndPrefetch(r) PROVE CloseInv'
  BY <1>4, NumChunksPositive DEF EndPrefetch, Goto
<1>5. ASSUME NEW r \in Readers, ReadLoop(r) PROVE CloseInv'
  BY <1>5, NumChunksPositive DEF ReadLoop
<1>6. ASSUME NEW r \in Readers, CopyChunk(r) PROVE CloseInv'
  BY <1>6, CopyChunkControl, NumChunksPositive
<1>7. ASSUME NEW r \in Readers, Return(r) PROVE CloseInv'
  BY <1>7, NumChunksPositive DEF Return, Goto
<1>8. ASSUME NEW t \in Threads, LockChunk(t) PROVE CloseInv'
  BY <1>8, NumChunksPositive DEF LockChunk, Goto
<1>9. ASSUME NEW t \in Threads, TestClosed(t) PROVE CloseInv'
  <2>1. CASE ctxDone
    BY <1>9, <2>1, NumChunksPositive DEF TestClosed, FetchReturns
  <2>2. CASE ~ctxDone
    BY <1>9, <2>2, NumChunksPositive DEF TestClosed
  <2> QED
    BY <2>1, <2>2
<1>10. ASSUME NEW t \in Threads, InspectChunk(t) PROVE CloseInv'
  BY <1>10, NumChunksPositive, SMTT(60) DEF InspectChunk, FetchReturns
<1>11. ASSUME NEW t \in Threads, DownloadDone(t) PROVE CloseInv'
  BY <1>11, NumChunksPositive DEF DownloadDone, Goto
<1>12. ASSUME NEW t \in Threads, DownloadFailed(t) PROVE CloseInv'
  BY <1>12, NumChunksPositive DEF DownloadFailed, Goto
<1>13. ASSUME NEW t \in Threads, GiveUp(t) PROVE CloseInv'
  BY <1>13, NumChunksPositive DEF GiveUp, Broadcast
<1>14. ASSUME NEW t \in Threads, Failed(t) PROVE CloseInv'
  BY <1>14, NumChunksPositive DEF Failed, FetchReturns
<1>15. ASSUME NEW t \in Threads, StoreChunk(t) PROVE CloseInv'
  BY <1>15, NumChunksPositive DEF StoreChunk, Broadcast
<1>16. ASSUME NEW t \in Threads, MarkComplete(t) PROVE CloseInv'
  BY <1>16, NumChunksPositive DEF MarkComplete, MaybeFire
<1>17. ASSUME NEW t \in Threads, Fetched(t) PROVE CloseInv'
  BY <1>17, NumChunksPositive DEF Fetched, FetchReturns
<1>18. CASE OnComplete
  BY <1>18, NumChunksPositive DEF OnComplete, MaybeFire
<1>19. CASE Save
  BY <1>19, NumChunksPositive DEF Save, BeginReadAt
<1>20. CASE Cancel
  BY <1>20, NumChunksPositive DEF Cancel
<1>21. CASE WakeChunk
  BY <1>21, NumChunksPositive DEF WakeChunk, Broadcast
<1>22. CASE CloseReturns
  BY <1>22, NumChunksPositive DEF CloseReturns
<1>23. CASE UNCHANGED vars
  BY <1>23, SMTT(20) DEF vars
<1> HIDE <1>0, ThreadsAssumption DEF Threads, Readers, ControlInv, LockInv, CloseInv, InFetch, Chunks
<1> QED
  BY <1>1, <1>2, <1>3, <1>4, <1>5, <1>6, <1>7, <1>8, <1>9, <1>10, <1>11, <1>12,
     <1>13, <1>14, <1>15, <1>16, <1>17, <1>18, <1>19, <1>20, <1>21, <1>22, <1>23
  DEF Next, ReaderStep, ThreadStep, Close

\* There are finitely many goroutines.
LEMMA ThreadsFinite == IsFiniteSet(Threads)
<1>1. IsFiniteSet({Stream})
  BY FS_Singleton, Zenon
<1>2. IsFiniteSet({Stream} \cup {Saver})
  BY <1>1, FS_AddElement
<1>3. {Stream, Saver} = {Stream} \cup {Saver}
  OBVIOUS
<1> QED
  BY <1>2, <1>3, ThreadsAssumption, FS_Union, Zenon DEF Threads, Readers

\* There are NumChunks chunks.
LEMMA ChunksFinite == IsFiniteSet(Chunks) /\ Cardinality(Chunks) = NumChunks
<1>1. NumChunks - 1 \in Int /\ ~(0 > NumChunks - 1) /\ (NumChunks - 1) - 0 + 1 = NumChunks
  BY NumChunksPositive, SMTT(30)
<1> QED
  BY <1>1, FS_Interval DEF Chunks

\* Every step keeps the count of completed chunks.
LEMMA CountStep == IInv /\ [Next]_vars => CountInv'
<1> SUFFICES ASSUME IInv, [Next]_vars PROVE CountInv'
  OBVIOUS
<1>a. /\ data \in [Chunks -> BOOLEAN] /\ pc \in [Threads -> PCs]
      /\ completed \in Nat /\ fired \in BOOLEAN /\ registered \in BOOLEAN
  BY DEF IInv, TypeOK
<1>b. IsFiniteSet(Threads) /\ IsFiniteSet(Chunks)
  BY ThreadsFinite, ChunksFinite
<1>c. /\ IsFiniteSet(Present) /\ IsFiniteSet(Marking)
      /\ Cardinality(Present) \in Nat /\ Cardinality(Marking) \in Nat
  BY <1>b, FS_Subset, FS_CardinalityType DEF Present, Marking
<1>d. CountInv
  BY DEF IInv
\* Steps that neither store nor mark a chunk leave the three counts alone.
<1> DEFINE Quiet == /\ UNCHANGED <<data, completed, registered, fired>>
                    /\ \A u \in Threads : pc'[u] = "mark" <=> pc[u] = "mark"
<1>e. ASSUME Quiet PROVE CountInv'
  <2>1. Present' = Present /\ Marking' = Marking
    BY <1>e DEF Present, Marking
  <2> QED
    BY <1>d, <1>e, <2>1 DEF CountInv
<1> USE <1>a, ThreadsAssumption DEF Threads, Readers
<1>1. CASE \E n \in ReadLens : Read(n)
  <2> SUFFICES ASSUME NEW n \in ReadLens, Read(n) PROVE CountInv'
    BY <1>1
  <2> QED
    BY <1>e DEF Read, BeginReadAt
<1>2. CASE \E p \in 0 .. FileLen : Seek(p)
  BY <1>2, <1>e DEF Seek
<1>3. ASSUME NEW r \in Readers, StartPrefetch(r) PROVE CountInv'
  BY <1>3, <1>e DEF StartPrefetch, PrefetchWindowCovered
<1>4. ASSUME NEW r \in Readers, EndPrefetch(r) PROVE CountInv'
  BY <1>4, <1>e DEF EndPrefetch, Goto
<1>5. ASSUME NEW r \in Readers, ReadLoop(r) PROVE CountInv'
  BY <1>5, <1>e DEF ReadLoop
<1>6. ASSUME NEW r \in Readers, CopyChunk(r) PROVE CountInv'
  BY <1>6, <1>e, CopyChunkControl
<1>7. ASSUME NEW r \in Readers, Return(r) PROVE CountInv'
  BY <1>7, <1>e DEF Return, Goto
<1>8. ASSUME NEW t \in Threads, LockChunk(t) PROVE CountInv'
  BY <1>8, <1>e DEF LockChunk, Goto
<1>9. ASSUME NEW t \in Threads, TestClosed(t) PROVE CountInv'
  BY <1>9, <1>e DEF TestClosed, FetchReturns
<1>10. ASSUME NEW t \in Threads, InspectChunk(t) PROVE CountInv'
  BY <1>10, <1>e DEF InspectChunk, FetchReturns
<1>11. ASSUME NEW t \in Threads, DownloadDone(t) PROVE CountInv'
  BY <1>11, <1>e DEF DownloadDone, Goto
<1>12. ASSUME NEW t \in Threads, DownloadFailed(t) PROVE CountInv'
  BY <1>12, <1>e DEF DownloadFailed, Goto
<1>13. ASSUME NEW t \in Threads, GiveUp(t) PROVE CountInv'
  BY <1>13, <1>e DEF GiveUp, Broadcast
<1>14. ASSUME NEW t \in Threads, Failed(t) PROVE CountInv'
  BY <1>14, <1>e DEF Failed, FetchReturns
<1>15. ASSUME NEW t \in Threads, StoreChunk(t) PROVE CountInv'
  <2>1. chunk[t] \in Chunks /\ ~data[chunk[t]]
    BY <1>15 DEF StoreChunk, IInv, ControlInv, FetchInv, InFetch, Fetching
  <2>2. Present' = Present \cup {chunk[t]} /\ chunk[t] \notin Present
    BY <1>15, <2>1 DEF StoreChunk, Present
  <2>3. Marking' = Marking \cup {t} /\ t \notin Marking
    BY <1>15 DEF StoreChunk, Broadcast, Marking
  <2>4. /\ Cardinality(Present') = Cardinality(Present) + 1
        /\ Cardinality(Marking') = Cardinality(Marking) + 1
    BY <1>c, <2>2, <2>3, FS_AddElement, Zenon
  <2> QED
    BY <1>15, <1>c, <1>d, <2>4 DEF StoreChunk, CountInv
<1>16. ASSUME NEW t \in Threads, MarkComplete(t) PROVE CountInv'
  <2>1. Present' = Present
    BY <1>16 DEF MarkComplete, Present
  <2>2. pc[Saver] = "idle" \/ fired
    BY DEF IInv, ControlInv
  <2>3. Marking' = Marking \ {t} /\ t \in Marking
    BY <1>16, <2>2 DEF MarkComplete, MaybeFire, Marking
  <2>4. Cardinality(Marking') = Cardinality(Marking) - 1
    BY <1>c, <2>3, FS_RemoveElement, Zenon
  <2> QED
    BY <1>16, <1>c, <1>d, <2>1, <2>4, NumChunksPositive DEF MarkComplete, MaybeFire, CountInv
<1>17. ASSUME NEW t \in Threads, Fetched(t) PROVE CountInv'
  BY <1>17, <1>e DEF Fetched, FetchReturns
<1>18. CASE OnComplete
  <2>1. Present' = Present
    BY <1>18 DEF OnComplete, Present
  <2>2. pc[Saver] = "idle" \/ fired
    BY DEF IInv, ControlInv
  <2>3. Marking' = Marking
    BY <1>18, <2>2 DEF OnComplete, MaybeFire, Marking
  <2> QED
    BY <1>18, <1>d, <2>1, <2>3, NumChunksPositive, Zenon DEF OnComplete, MaybeFire, CountInv
<1>19. CASE Save
  BY <1>19, <1>e DEF Save, BeginReadAt
<1>20. CASE Cancel
  BY <1>20, <1>e DEF Cancel
<1>21. CASE WakeChunk
  BY <1>21, <1>e DEF WakeChunk, Broadcast
<1>22. CASE CloseReturns
  BY <1>22, <1>e DEF CloseReturns
<1>23. CASE UNCHANGED vars
  BY <1>23, <1>e DEF vars
<1> HIDE <1>a, ThreadsAssumption DEF Threads, Readers, Quiet
<1> QED
  BY <1>1, <1>2, <1>3, <1>4, <1>5, <1>6, <1>7, <1>8, <1>9, <1>10, <1>11, <1>12,
     <1>13, <1>14, <1>15, <1>16, <1>17, <1>18, <1>19, <1>20, <1>21, <1>22, <1>23
  DEF Next, ReaderStep, ThreadStep, Close

\* IInv is an invariant of the reader.
LEMMA Inductive == Spec => []IInv
<1>1. Init => IInv
  BY InitInv
<1>2. IInv /\ [Next]_vars => IInv'
  BY TypeStep, ControlStep, LockStep, FetchStep, CloseStep, CountStep DEF IInv
<1> QED
  BY <1>1, <1>2, PTL DEF Spec

\* The reader's variables keep their types, for any file and chunk size.
THEOREM TypeCorrect == Spec => []TypeOK
<1>1. IInv => TypeOK
  BY DEF IInv
<1> QED
  BY <1>1, Inductive, PTL

\* fetchChunk never downloads a chunk twice at a time or again.
THEOREM FetchIsExclusive == Spec => []SingleFetch
<1>1. IInv => SingleFetch
  BY DEF IInv, FetchInv, SingleFetch
<1> QED
  BY <1>1, Inductive, PTL

\* Whoever sleeps on a chunk's condition variable will be woken: by the download
\* in progress, and by Close as long as it has not passed the chunk.
THEOREM NoLostWakeup == Spec => [](WaitersHaveFetcher /\ NoWaiterLeftBehind)
<1>1. IInv => WaitersHaveFetcher
  BY DEF IInv, ControlInv, InFetch, FetchInv, WaitersHaveFetcher
<1>2. IInv => NoWaiterLeftBehind
  BY DEF IInv, CloseInv, NoWaiterLeftBehind
<1> QED
  BY <1>1, <1>2, Inductive, PTL

\* Close returns only after every prefetch goroutine has ended.
THEOREM CloseJoins == Spec => []CloseJoinsPrefetches
<1>1. IInv => CloseJoinsPrefetches
  BY DEF IInv, CloseInv, CloseJoinsPrefetches
<1> QED
  BY <1>1, Inductive, PTL

\* The completion callback runs on a complete file.
THEOREM CompletionIsSound == Spec => []CompletionSound
<1>1. IInv => CompletionSound
  <2> SUFFICES ASSUME IInv, fired PROVE Present = Chunks
    BY DEF CompletionSound, Present
  <2>1. Present \in SUBSET Chunks /\ Marking \in SUBSET Threads
    BY DEF Present, Marking
  <2>2. Cardinality(Present) \in Nat /\ Cardinality(Present) <= NumChunks
    BY <2>1, ChunksFinite, FS_Subset, FS_CardinalityType
  <2>3. IsFiniteSet(Marking)
    BY <2>1, ThreadsFinite, FS_Subset
  <2>4. Cardinality(Marking) \in Nat
    BY <2>3, FS_CardinalityType
  <2>5. Cardinality(Present) = NumChunks
    BY <2>2, <2>4, NumChunksPositive DEF IInv, TypeOK, CountInv
  <2> QED
    BY <2>1, <2>5, ChunksFinite, FS_Subset
<1> QED
  BY <1>1, Inductive, PTL

\* A registered callback does not miss the completion of the file.
THEOREM CompletionIsReported == Spec => []CompletionReported
<1>1. IInv => CompletionReported
  <2> SUFFICES ASSUME IInv, registered, \A c \in Chunks : data[c],
                      \A t \in Threads : pc[t] # "mark"
               PROVE  fired
    BY DEF CompletionReported
  <2>1. Present = Chunks /\ Marking = {}
    BY DEF Present, Marking
  <2>2. Cardinality(Present) = NumChunks /\ Cardinality(Marking) = 0
    BY <2>1, ChunksFinite, FS_EmptySet
  <2> QED
    BY <2>2, NumChunksPositive DEF IInv, TypeOK, CountInv
<1> QED
  BY <1>1, Inductive, PTL

\* Downloads are shared without loss: one goroutine downloads a chunk, whoever
\* waits for it is woken, and Close waits for the prefetches.
THEOREM FetchProtocolKept == Spec => []FetchProtocol
BY FetchIsExclusive, NoLostWakeup, CloseJoins, PTL DEF FetchProtocol

\* The callback is called when the file is complete, and only then.
THEOREM CompletionIsExact == Spec => []CompletionExact
BY CompletionIsSound, CompletionIsReported, PTL DEF CompletionExact

\* However many goroutines share a file of whatever length, what they share agrees:
\* downloads and waiters (fetchChunk, Close), chunks and callback (OnComplete).
THEOREM ReaderIsConsistent == Spec => []Consistent
BY TypeCorrect, FetchProtocolKept, CompletionIsExact, PTL DEF Consistent

---------------------------------------------------------------------------
(***************************************************************************)
(* ReadAt                                                                  *)
(***************************************************************************)

\* Where a reader is in ReadAt, before it returns.
InReadAt == {"prefetch", "loop"} \cup InFetch

\* The bytes in s are those of the file from offset p on: each is its offset.
Run(p, s) == s \in Seq(Nat) /\ \A i \in 1 .. Len(s) : s[i] = p + i - 1

\* The offset of a chunk's first byte.
First(k) == k * ChunkSize

\* What a call has copied so far: bytes of the file from the position on, as many as were
\* asked for at most.
Copied(c) ==
  /\ Run(c.at, c.got)
  /\ Len(c.got) <= c.want
  /\ c.at + Len(c.got) <= FileLen

\* The copy loop goes on where it stopped: at the offset in its chunk, or the end of the file.
Reached(c, k) ==
  /\ c.err = "nil"
  /\ c.off < ChunkSize
  /\ c.at + Len(c.got) = IF k < NumChunks THEN First(k) + c.off ELSE FileLen

\* What the error says of what was copied.
Answered(c) ==
  /\ c.err = "nil" => Len(c.got) = c.want
  /\ c.err = "EOF" => c.at + Len(c.got) = FileLen

\* The stream's position stays in the file, and is that of its ReadAt.
PositionInv ==
  /\ pos <= FileLen
  /\ pc[Stream] \in InReadAt \cup {"return"} => call[Stream].at = pos

\* A call is as far as its reader is.
CallOK(p, c, k) ==
  /\ p \in InReadAt \cup {"return"} => Copied(c)
  /\ p \in InReadAt => Reached(c, k)
  /\ p = "return" => Answered(c)

ReadInv == \A r \in Readers : CallOK(pc[r], call[r], chunk[r])

\* Quotient and remainder.
LEMMA DivMod ==
  ASSUME NEW a \in Int, NEW b \in Int, b > 0
  PROVE  a = b * (a \div b) + (a % b)
BY Z3T(20)

\* The chunks cover the file, and without the last one they do not.
LEMMA ChunksCover ==
  /\ NumChunks * ChunkSize >= FileLen
  /\ (NumChunks - 1) * ChunkSize < FileLen
<1>1. FileLen + ChunkSize - 1 = NumChunks * ChunkSize + ((FileLen + ChunkSize - 1) % ChunkSize)
  <2> DEFINE a == FileLen + ChunkSize - 1
  <2>1. a \in Int /\ ChunkSize \in Int /\ ChunkSize > 0
    BY SizesAssumption
  <2>2. a = ChunkSize * (a \div ChunkSize) + (a % ChunkSize)
    BY <2>1, DivMod, Zenon
  <2> QED BY <2>1, <2>2 DEF NumChunks
<1>2. (FileLen + ChunkSize - 1) % ChunkSize \in 0 .. ChunkSize - 1
  BY SizesAssumption
<1>3. (NumChunks - 1) * ChunkSize = NumChunks * ChunkSize - ChunkSize
  BY SizesAssumption, NumChunksPositive
<1>4. NumChunks * ChunkSize \in Int
  BY SizesAssumption, NumChunksPositive
<1> QED BY <1>1, <1>2, <1>3, <1>4, SizesAssumption

\* A position is its chunk's first plus the offset.
LEMMA ChunkOffset ==
  ASSUME NEW p \in Nat
  PROVE  /\ p \div ChunkSize \in Nat /\ p % ChunkSize \in 0 .. ChunkSize - 1
         /\ p = First(p \div ChunkSize) + (p % ChunkSize)
<1>1. p \div ChunkSize \in Nat /\ p % ChunkSize \in 0 .. ChunkSize - 1
  BY SizesAssumption
<1>2. p \in Int /\ ChunkSize \in Int /\ ChunkSize > 0
  BY SizesAssumption
<1>3. p = ChunkSize * (p \div ChunkSize) + (p % ChunkSize)
  BY <1>2, DivMod, Zenon
<1> QED BY <1>1, <1>3, SizesAssumption DEF First

\* A position in the file past the last chunk is its end.
LEMMA PastLastChunk ==
  ASSUME NEW p \in Nat, p <= FileLen, p \div ChunkSize >= NumChunks
  PROVE  p = FileLen
<1> DEFINE i == p \div ChunkSize
<1>1. i \in Nat /\ p >= i * ChunkSize /\ i * ChunkSize \in Nat
  BY ChunkOffset, SizesAssumption DEF First
<1>2. i * ChunkSize >= NumChunks * ChunkSize
  BY <1>1, NumChunksPositive, SizesAssumption
<1> QED BY <1>1, <1>2, ChunksCover, NumChunksPositive, SizesAssumption

\* A chunk of the file is the bytes from its first on, ChunkSize of them or up to the end.
LEMMA ChunkIsRun ==
  ASSUME NEW k \in Chunks
  PROVE  /\ Run(First(k), ChunkBytes(k))
         /\ First(k) \in Nat /\ Len(ChunkBytes(k)) \in Nat
         /\ First(k) + Len(ChunkBytes(k)) = IF k + 1 < NumChunks THEN First(k + 1) ELSE FileLen
         /\ First(k) + Len(ChunkBytes(k)) <= FileLen
<1> DEFINE first == k * ChunkSize
           end == IF (k + 1) * ChunkSize < FileLen THEN (k + 1) * ChunkSize ELSE FileLen
<1>1. k \in Nat /\ k <= NumChunks - 1
  BY NumChunksPositive DEF Chunks
<1>2. first \in Nat /\ (k + 1) * ChunkSize = first + ChunkSize
  BY <1>1, SizesAssumption
<1>3. first <= (NumChunks - 1) * ChunkSize
  BY <1>1, NumChunksPositive, SizesAssumption
<1>4. first < FileLen /\ end \in Nat /\ end > first
  BY <1>2, <1>3, ChunksCover, NumChunksPositive, SizesAssumption
<1>5. k + 1 < NumChunks => (k + 1) * ChunkSize <= (NumChunks - 1) * ChunkSize
  BY <1>1, NumChunksPositive, SizesAssumption
<1>6. k + 1 >= NumChunks => (k + 1) * ChunkSize >= FileLen
  <2>1. k + 1 >= NumChunks => k + 1 = NumChunks
    BY <1>1, NumChunksPositive
  <2> QED BY <2>1, ChunksCover
<1>7. IF k + 1 < NumChunks THEN end = first + ChunkSize ELSE end = FileLen
  BY <1>1, <1>2, <1>5, <1>6, ChunksCover, NumChunksPositive, SizesAssumption
<1>8. ChunkBytes(k) = [i \in 1 .. (end - 1) - first + 1 |-> first + i - 1]
  BY DEF ChunkBytes
<1> HIDE DEF first, end
<1>9. Run(first, ChunkBytes(k)) /\ Len(ChunkBytes(k)) = end - first
  BY <1>2, <1>4, <1>8 DEF Run
<1>10. end <= FileLen /\ (k + 1 < NumChunks => end = First(k + 1)) /\ first = First(k)
  BY <1>2, <1>7, SizesAssumption DEF first, end, First
<1> QED BY <1>2, <1>4, <1>7, <1>9, <1>10

\* Runs that follow each other are one.
LEMMA RunJoins ==
  ASSUME NEW p \in Nat, NEW s, NEW t, Run(p, s), Run(p + Len(s), t)
  PROVE  Run(p, s \o t) /\ Len(s \o t) = Len(s) + Len(t)
BY DEF Run

\* What is left of a run from an offset on,
LEMMA RunSuffix ==
  ASSUME NEW p \in Nat, NEW s, Run(p, s), NEW k \in 0 .. Len(s)
  PROVE  /\ Run(p + k, SubSeq(s, k + 1, Len(s)))
         /\ Len(SubSeq(s, k + 1, Len(s))) = Len(s) - k
BY DEF Run

\* and the beginning of one.
LEMMA RunPrefix ==
  ASSUME NEW p \in Nat, NEW s, Run(p, s), NEW k \in 0 .. Len(s)
  PROVE  Run(p, SubSeq(s, 1, k)) /\ Len(SubSeq(s, 1, k)) = k
BY DEF Run

\* A call that has copied a run of the file keeps ReadAt's contract.
LEMMA CopiedAnswers ==
  ASSUME NEW c \in Calls, Copied(c), Answered(c)
  PROVE  /\ c.got = SubSeq(FileBytes(c.at, c.want), 1, Len(c.got))
         /\ c.err = "nil" => Len(c.got) = c.want
         /\ c.err = "EOF" => c.got = FileBytes(c.at, c.want) /\ c.at + Len(c.got) >= FileLen
<1> DEFINE len == IF c.at + c.want <= FileLen THEN c.want
                  ELSE IF c.at < FileLen THEN FileLen - c.at ELSE 0
           n == Len(c.got)
<1>1. c.at \in Nat /\ c.want \in Nat /\ c.got \in Seq(Nat) /\ n \in Nat
  BY DEF Calls
<1>2. n <= len /\ len \in Nat
  BY <1>1, SizesAssumption DEF Copied
<1>3. FileBytes(c.at, c.want) = [i \in 1 .. len |-> c.at + i - 1]
  BY DEF FileBytes
<1>4. \A i \in 1 .. n : c.got[i] = c.at + i - 1
  BY DEF Copied, Run
<1> HIDE DEF len
<1>5. c.got = SubSeq(FileBytes(c.at, c.want), 1, n)
  BY <1>1, <1>2, <1>3, <1>4
<1>6. c.err = "EOF" => n = len
  BY <1>1, <1>2, SizesAssumption DEF Copied, Answered, len
<1>7. n = len => c.got = FileBytes(c.at, c.want)
  BY <1>1, <1>2, <1>3, <1>4
<1> QED BY <1>1, <1>5, <1>6, <1>7, SizesAssumption DEF Answered

\* fetchChunk leaves a call where it is, or ends it with an error.
LEMMA ErrorEnds ==
  ASSUME NEW c \in Calls, NEW p \in InReadAt, NEW k, CallOK(p, c, k), NEW e \in {"closed", "failed"}
  PROVE  CallOK("return", [c EXCEPT !.err = e], k)
BY DEF CallOK, Copied, Answered, Run, Calls, InReadAt, InFetch

\* Within fetchChunk a call is where it was.
LEMMA FetchKeeps ==
  ASSUME NEW c \in Calls, NEW p \in InReadAt, NEW k, CallOK(p, c, k)
  PROVE  /\ \A q \in InReadAt : CallOK(q, c, k)
         /\ [c EXCEPT !.err = "nil"] = c
<1>1. c.err = "nil"
  BY DEF CallOK, Reached
<1>2. [c EXCEPT !.err = "nil"] = c
  BY <1>1 DEF Calls
<1>3. \A q \in InReadAt : q # "return"
  BY DEF InReadAt, InFetch
<1> QED BY <1>2, <1>3 DEF CallOK

\* ReadAt begins at the position asked for.
LEMMA ReadBegins ==
  ASSUME NEW r \in Readers, NEW at \in Nat, at <= FileLen, NEW want \in Nat,
         pc \in [Threads -> PCs], chunk \in [Threads -> 0 .. NumChunks],
         call \in [Readers -> Calls], BeginReadAt(r, at, want)
  PROVE  CallOK(pc'[r], call'[r], chunk'[r]) /\ call'[r].at = at
<1> DEFINE idx == at \div ChunkSize
<1>1. /\ idx \in Nat /\ at % ChunkSize \in 0 .. ChunkSize - 1
      /\ at = First(idx) + (at % ChunkSize)
  BY ChunkOffset
<1>2. r \in Threads
  BY DEF Threads
<1>3. /\ call'[r].at = at /\ call'[r].want = want /\ call'[r].got = <<>>
      /\ call'[r].off = at % ChunkSize
  BY DEF BeginReadAt
<1>4. Copied(call'[r])
  BY <1>3 DEF Copied, Run
<1>5. CASE ctxDone
  <2>1. pc'[r] = "return" /\ call'[r].err = "closed"
    BY <1>2, <1>5 DEF BeginReadAt
  <2> QED BY <1>3, <1>4, <2>1 DEF CallOK, Answered, InReadAt, InFetch
<1>6. CASE ~ctxDone /\ idx >= NumChunks
  <2>1. pc'[r] = "return" /\ call'[r].err = "EOF"
    BY <1>2, <1>6 DEF BeginReadAt
  <2>2. at = FileLen
    BY <1>6, PastLastChunk, SMTT(30)
  <2> QED BY <1>3, <1>4, <2>1, <2>2 DEF CallOK, Answered, InReadAt, InFetch
<1>7. CASE ~ctxDone /\ ~(idx >= NumChunks)
  <2>1. pc'[r] = "prefetch" /\ call'[r].err = "nil" /\ chunk'[r] = idx
    BY <1>2, <1>7 DEF BeginReadAt
  <2>2. idx < NumChunks
    BY <1>1, <1>7, NumChunksPositive, SMTT(30)
  <2>3. Reached(call'[r], chunk'[r])
    BY <1>1, <1>3, <2>1, <2>2, SizesAssumption DEF Reached
  <2> QED BY <1>3, <1>4, <2>1, <2>3 DEF CallOK
<1> QED BY <1>5, <1>6, <1>7

\* The rest of the chunk follows what was copied.
LEMMA RestFollows ==
  ASSUME NEW c \in Calls, NEW k \in Chunks, Copied(c), Reached(c, k)
  PROVE  /\ Run(c.at + Len(c.got), SubSeq(ChunkBytes(k), c.off + 1, Len(ChunkBytes(k))))
         /\ c.at + Len(c.got) + Len(SubSeq(ChunkBytes(k), c.off + 1, Len(ChunkBytes(k))))
              = First(k) + Len(ChunkBytes(k))
<1> DEFINE bytes == ChunkBytes(k)
<1>1. c.at \in Nat /\ c.off \in Nat /\ Len(c.got) \in Nat
  BY DEF Calls
<1>2. k < NumChunks
  BY NumChunksPositive DEF Chunks
<1>3. c.at + Len(c.got) = First(k) + c.off /\ c.off < ChunkSize
  BY <1>2 DEF Reached
<1>4. /\ Run(First(k), bytes) /\ First(k) \in Nat /\ Len(bytes) \in Nat
      /\ First(k) + Len(bytes) = IF k + 1 < NumChunks THEN First(k + 1) ELSE FileLen
  BY ChunkIsRun
<1>5. c.off <= Len(bytes)
  <2>1. CASE k + 1 < NumChunks
    <3>1. k \in Nat /\ First(k + 1) = First(k) + ChunkSize
      BY NumChunksPositive, SizesAssumption DEF First, Chunks
    <3> QED BY <1>1, <1>3, <1>4, <2>1, <3>1, SizesAssumption
  <2>2. CASE ~(k + 1 < NumChunks)
    BY <1>1, <1>3, <1>4, <2>2, SizesAssumption DEF Copied
  <2> QED BY <2>1, <2>2
<1> HIDE DEF bytes
<1>6. /\ Run(First(k) + c.off, SubSeq(bytes, c.off + 1, Len(bytes)))
      /\ Len(SubSeq(bytes, c.off + 1, Len(bytes))) = Len(bytes) - c.off
  <2>1. c.off \in 0 .. Len(bytes)
    BY <1>1, <1>4, <1>5
  <2> QED BY <1>4, <2>1, RunSuffix, Zenon
<1>7. /\ Run(c.at + Len(c.got), SubSeq(bytes, c.off + 1, Len(bytes)))
      /\ c.at + Len(c.got) + Len(SubSeq(bytes, c.off + 1, Len(bytes))) = First(k) + Len(bytes)
  BY <1>1, <1>3, <1>4, <1>6
<1> QED BY <1>7, Zenon DEF bytes

\* A call that is full with the beginning of the rest returns it,
LEMMA CopyFills ==
  ASSUME NEW c \in Calls, NEW k \in Chunks, Copied(c), Reached(c, k), NEW rest,
         Run(c.at + Len(c.got), rest), c.at + Len(c.got) + Len(rest) <= FileLen,
         Len(rest) > c.want - Len(c.got)
  PROVE  CallOK("return", [c EXCEPT !.got = @ \o SubSeq(rest, 1, c.want - Len(c.got))], k)
<1> DEFINE room == c.want - Len(c.got)
           part == SubSeq(rest, 1, room)
           d == [c EXCEPT !.got = @ \o part]
<1>1. /\ c.at \in Nat /\ c.want \in Nat /\ Len(c.got) \in Nat /\ room \in Nat
      /\ Run(c.at, c.got)
  BY DEF Calls, Copied
<1>2. Len(rest) \in Nat /\ room \in 0 .. Len(rest) /\ c.at + Len(c.got) \in Nat
  BY <1>1 DEF Run
<1> HIDE DEF room
<1>3. Run(c.at + Len(c.got), part) /\ Len(part) = room
  BY <1>2, RunPrefix, Zenon
<1> HIDE DEF part, d
<1>4. Run(c.at, c.got \o part) /\ Len(c.got \o part) = Len(c.got) + Len(part)
  BY <1>1, <1>3, RunJoins, SMTT(30)
<1>5. d.at = c.at /\ d.want = c.want /\ d.err = "nil" /\ d.got = c.got \o part
  BY Zenon DEF Calls, Reached, d
<1>6. Len(d.got) = c.want
  BY <1>1, <1>3, <1>4, <1>5 DEF room
<1>7. c.at + c.want <= FileLen
  BY <1>1, <1>2, SizesAssumption
<1>8. Copied(d) /\ Answered(d)
  BY <1>1, <1>4, <1>5, <1>6, <1>7 DEF Copied, Answered
<1>9. CallOK("return", d, k)
  BY <1>8 DEF CallOK, InReadAt, InFetch
<1> QED BY <1>9 DEF d, part, room

\* and one with room for all of it goes on with the next chunk.
LEMMA CopyGoesOn ==
  ASSUME NEW c \in Calls, NEW k \in Chunks, Copied(c), Reached(c, k), NEW rest,
         Run(c.at + Len(c.got), rest), c.at + Len(c.got) + Len(rest) <= FileLen,
         c.at + Len(c.got) + Len(rest) = IF k + 1 < NumChunks THEN First(k + 1) ELSE FileLen,
         ~(Len(rest) > c.want - Len(c.got))
  PROVE  CallOK("loop", [c EXCEPT !.got = @ \o rest, !.off = 0], k + 1)
<1> DEFINE d == [c EXCEPT !.got = @ \o rest, !.off = 0]
<1>1. /\ c.at \in Nat /\ c.want \in Nat /\ Len(c.got) \in Nat
      /\ Run(c.at, c.got)
  BY DEF Calls, Copied
<1>2. Len(rest) \in Nat
  BY DEF Run
<1>3. Run(c.at, c.got \o rest) /\ Len(c.got \o rest) = Len(c.got) + Len(rest)
  BY <1>1, RunJoins
<1>4. d.at = c.at /\ d.want = c.want /\ d.err = "nil" /\ d.got = c.got \o rest /\ d.off = 0
  BY Zenon DEF Calls, Reached
<1> HIDE DEF d
<1>5. Copied(d)
  BY <1>1, <1>2, <1>3, <1>4, SizesAssumption DEF Copied
<1>6. d.at + Len(d.got) = IF k + 1 < NumChunks THEN First(k + 1) ELSE FileLen
  BY <1>1, <1>2, <1>3, <1>4
<1>7. k + 1 < NumChunks => First(k + 1) \in Nat
  BY NumChunksPositive, SizesAssumption DEF First, Chunks
<1>8. Reached(d, k + 1)
  BY <1>4, <1>6, <1>7, SizesAssumption DEF Reached
<1>9. CallOK("loop", d, k + 1)
  BY <1>5, <1>8 DEF CallOK, InReadAt, InFetch
<1> QED BY <1>9 DEF d

\* The body of the copy loop.
LEMMA CopyStep ==
  ASSUME NEW r \in Readers, CopyChunk(r), ReadInv, chunk[r] \in Chunks,
         pc \in [Threads -> PCs], chunk \in [Threads -> 0 .. NumChunks],
         call \in [Readers -> Calls]
  PROVE  CallOK(pc'[r], call'[r], chunk'[r]) /\ call'[r].at = call[r].at
<1> DEFINE k == chunk[r]
           c == call[r]
           bytes == ChunkBytes(k)
           rest == SubSeq(bytes, c.off + 1, Len(bytes))
<1>1. r \in Threads /\ pc[r] = "copy" /\ c \in Calls
  BY DEF Threads, CopyChunk
<1>2. Copied(c) /\ Reached(c, k)
  BY <1>1 DEF ReadInv, CallOK, InReadAt, InFetch
<1>3. Run(c.at + Len(c.got), rest) /\ c.at + Len(c.got) + Len(rest) = First(k) + Len(bytes)
  BY <1>1, <1>2, RestFollows, Zenon
<1>4. /\ First(k) + Len(bytes) = IF k + 1 < NumChunks THEN First(k + 1) ELSE FileLen
      /\ First(k) + Len(bytes) <= FileLen
  BY ChunkIsRun, Zenon
<1>5. CASE Len(rest) > c.want - Len(c.got)
  <2>1. /\ pc'[r] = "return" /\ chunk'[r] = k
        /\ call'[r] = [c EXCEPT !.got = @ \o SubSeq(rest, 1, c.want - Len(c.got))]
    BY <1>1, <1>5, Zenon DEF CopyChunk
  <2> HIDE DEF k, c, bytes, rest
  <2>2. k \in Chunks /\ c.at + Len(c.got) + Len(rest) <= FileLen
    BY <1>3, <1>4 DEF k
  <2>3. CallOK("return", [c EXCEPT !.got = @ \o SubSeq(rest, 1, c.want - Len(c.got))], k)
    BY <1>1, <1>2, <1>3, <1>5, <2>2, CopyFills, Zenon
  <2>4. call'[r].at = c.at
    BY <1>1, <2>1 DEF Calls
  <2> QED BY <2>1, <2>3, <2>4 DEF c
<1>6. CASE ~(Len(rest) > c.want - Len(c.got))
  <2>1. /\ pc'[r] = "loop" /\ chunk'[r] = k + 1
        /\ call'[r] = [c EXCEPT !.got = @ \o rest, !.off = 0]
    BY <1>1, <1>6, Zenon DEF CopyChunk
  <2> HIDE DEF k, c, bytes, rest
  <2>2. /\ k \in Chunks /\ c.at + Len(c.got) + Len(rest) <= FileLen
        /\ c.at + Len(c.got) + Len(rest) = IF k + 1 < NumChunks THEN First(k + 1) ELSE FileLen
    BY <1>3, <1>4 DEF k
  <2>3. CallOK("loop", [c EXCEPT !.got = @ \o rest, !.off = 0], k + 1)
    BY <1>1, <1>2, <1>3, <1>6, <2>2, CopyGoesOn, Zenon
  <2>4. call'[r].at = c.at
    BY <1>1, <2>1, SMTT(30) DEF Calls
  <2> QED BY <2>1, <2>3, <2>4 DEF c
<1> QED BY <1>5, <1>6, Zenon

\* A step of a goroutine in fetchChunk leaves every call where it is, or ends the one of the
\* reader that takes it with an error.
LEMMA FetchStepsKeepCalls ==
  ASSUME IInv, ReadInv, NEW t \in Threads,
         ThreadStep(t) \/ DownloadDone(t) \/ DownloadFailed(t), NEW r \in Readers
  PROVE  /\ CallOK(pc'[r], call'[r], chunk'[r]) /\ call'[r].at = call[r].at
         /\ pc'[r] \in InReadAt \cup {"return"} => pc[r] \in InReadAt \cup {"return"}
<1>1. /\ pc \in [Threads -> PCs] /\ chunk \in [Threads -> 0 .. NumChunks]
      /\ call \in [Readers -> Calls] /\ r \in Threads
      /\ CallOK(pc[r], call[r], chunk[r]) /\ call[r] \in Calls
  BY DEF IInv, TypeOK, ReadInv, Threads
<1>2. /\ \A q \in {"save", "idle"} : CallOK(q, call[r], chunk[r])
      /\ pc[r] \in InReadAt => \A q \in InReadAt : CallOK(q, call[r], chunk[r])
  <2>1. \A q \in {"save", "idle"} : CallOK(q, call[r], chunk[r])
    BY SMTT(30) DEF CallOK, InReadAt, InFetch
  <2> QED BY <1>1, <2>1, FetchKeeps, SMTT(30)
<1>3. ASSUME NEW e \in Errs \ {"EOF"}, FetchReturns(t, e), pc[t] \in InReadAt
      PROVE  /\ CallOK(pc'[r], call'[r], chunk'[r]) /\ call'[r].at = call[r].at
             /\ pc'[r] \in InReadAt \cup {"return"} => pc[r] \in InReadAt \cup {"return"}
  <2>1. CASE t # r
    <3>1. pc'[r] = pc[r] /\ chunk'[r] = chunk[r] /\ call'[r] = call[r]
      BY <1>1, <1>3, <2>1 DEF FetchReturns
    <3> QED BY <1>1, <3>1
  <2>2. CASE t = r
    <3>1. r \notin Prefetchers
      BY ThreadsAssumption DEF Readers
    <3>2. /\ pc'[r] = IF e = "nil" THEN "copy" ELSE "return"
          /\ chunk'[r] = chunk[r] /\ call'[r] = [call[r] EXCEPT !.err = e]
      BY <1>1, <1>3, <2>2, <3>1 DEF FetchReturns
    <3>3. CASE e = "nil"
      <4>1. call'[r] = call[r] /\ "copy" \in InReadAt
        BY <1>1, <1>3, <2>2, <3>2, <3>3, FetchKeeps DEF InReadAt, InFetch
      <4> QED BY <1>2, <1>3, <2>2, <3>2, <3>3, <4>1
    <3>4. CASE e # "nil"
      <4>1. e \in {"closed", "failed"}
        BY <1>3, <3>4 DEF Errs
      <4>2. CallOK("return", [call[r] EXCEPT !.err = e], chunk[r])
        BY <1>1, <1>3, <2>2, <4>1, ErrorEnds, Zenon
      <4>3. [call[r] EXCEPT !.err = e].at = call[r].at
        BY <1>1 DEF Calls
      <4> QED BY <1>3, <2>2, <3>2, <3>4, <4>2, <4>3
    <3> QED BY <3>3, <3>4
  <2> QED BY <2>1, <2>2, ZenonT(30)
<1>4. ASSUME UNCHANGED <<call, chunk>>,
             \/ pc'[r] \in {pc[r], "save"}
             \/ pc[r] \in InReadAt /\ pc'[r] \in InReadAt
      PROVE  /\ CallOK(pc'[r], call'[r], chunk'[r]) /\ call'[r].at = call[r].at
             /\ pc'[r] \in InReadAt \cup {"return"} => pc[r] \in InReadAt \cup {"return"}
  BY <1>1, <1>2, <1>4 DEF InReadAt, InFetch
<1> USE DEF InReadAt, InFetch
<1>5. CASE LockChunk(t)
  BY <1>1, <1>4, <1>5 DEF LockChunk, Goto
<1>6. CASE TestClosed(t)
  <2>1. CASE ctxDone
    BY <1>3, <1>6, <2>1, SMTT(30) DEF TestClosed, Errs
  <2>2. CASE ~ctxDone
    BY <1>1, <1>4, <1>6, <2>2, SMTT(30) DEF TestClosed
  <2> QED BY <2>1, <2>2, SMTT(30)
<1>7. CASE InspectChunk(t)
  <2>1. CASE data[chunk[t]]
    BY <1>3, <1>7, <2>1, ZenonT(30) DEF InspectChunk, Errs
  <2>2. CASE ~data[chunk[t]]
    BY <1>1, <1>4, <1>7, <2>2, ZenonT(30) DEF InspectChunk
  <2> QED BY <2>1, <2>2, SMTT(30)
<1>8. CASE DownloadDone(t) \/ DownloadFailed(t)
  BY <1>1, <1>4, <1>8 DEF DownloadDone, DownloadFailed, Goto
<1>9. CASE GiveUp(t)
  BY <1>1, <1>4, <1>9 DEF GiveUp, Broadcast
<1>10. CASE StoreChunk(t)
  BY <1>1, <1>4, <1>10 DEF StoreChunk, Broadcast
<1>11. CASE MarkComplete(t)
  BY <1>1, <1>4, <1>11, SMTT(30) DEF MarkComplete, MaybeFire
<1>12. CASE Failed(t)
  BY <1>3, <1>12, SMTT(30) DEF Failed, Errs
<1>13. CASE Fetched(t)
  BY <1>3, <1>13, SMTT(30) DEF Fetched, Errs
<1> QED BY <1>5, <1>6, <1>7, <1>8, <1>9, <1>10, <1>11, <1>12, <1>13, Zenon DEF ThreadStep

\* A reader's own steps, outside fetchChunk.
LEMMA ReaderStepsKeepCalls ==
  ASSUME IInv, ReadInv, NEW r \in Readers,
         StartPrefetch(r) \/ EndPrefetch(r) \/ ReadLoop(r) \/ CopyChunk(r)
  PROVE  /\ CallOK(pc'[r], call'[r], chunk'[r]) /\ call'[r].at = call[r].at
         /\ \A s \in Readers \ {r} : pc'[s] = pc[s] /\ call'[s] = call[s] /\ chunk'[s] = chunk[s]
<1>1. /\ pc \in [Threads -> PCs] /\ chunk \in [Threads -> 0 .. NumChunks]
      /\ call \in [Readers -> Calls] /\ r \in Threads /\ Readers \subseteq Threads
      /\ CallOK(pc[r], call[r], chunk[r]) /\ call[r] \in Calls
  BY DEF IInv, TypeOK, ReadInv, Threads
<1>2. pc[r] \in InReadAt => \A q \in InReadAt : CallOK(q, call[r], chunk[r])
  BY <1>1, FetchKeeps
<1>3. Readers \cap Prefetchers = {}
  BY ThreadsAssumption DEF Readers
<1>4. CASE StartPrefetch(r)
  <2>1. PICK g \in Prefetchers : pc' = [pc EXCEPT ![g] = "enter"]
                                /\ chunk' = [chunk EXCEPT ![g] = call[r].next]
    BY <1>4, ZenonT(30) DEF StartPrefetch
  <2>2. \A s \in Readers : pc'[s] = pc[s] /\ chunk'[s] = chunk[s]
    BY <1>1, <1>3, <2>1
  <2>3. call'[r] = [call[r] EXCEPT !.next = @ + 1] /\ \A s \in Readers \ {r} : call'[s] = call[s]
    BY <1>1, <1>4 DEF StartPrefetch
  <2>4. /\ call'[r].at = call[r].at /\ call'[r].got = call[r].got /\ call'[r].want = call[r].want
        /\ call'[r].off = call[r].off /\ call'[r].err = call[r].err
    BY <1>1, <2>3, SMTT(30) DEF Calls
  <2>5. CallOK(pc[r], call'[r], chunk[r])
    BY <1>1, <2>4, SMTT(30) DEF CallOK, Copied, Reached, Answered
  <2> QED BY <2>2, <2>3, <2>4, <2>5
<1>5. CASE EndPrefetch(r)
  <2>1. pc[r] = "prefetch" /\ pc'[r] = "loop" /\ UNCHANGED <<call, chunk>>
        /\ \A s \in Readers \ {r} : pc'[s] = pc[s]
    BY <1>1, <1>5, SMTT(30) DEF EndPrefetch, Goto
  <2> QED BY <1>2, <2>1 DEF InReadAt
<1>6. CASE ReadLoop(r)
  <2> DEFINE full == Len(call[r].got) = call[r].want
             ended == ~full /\ chunk[r] >= NumChunks
  <2>1. /\ pc[r] = "loop" /\ pc'[r] = IF full \/ ended THEN "return" ELSE "enter"
        /\ call'[r] = [call[r] EXCEPT !.err = IF ended THEN "EOF" ELSE "nil"] /\ chunk' = chunk
        /\ \A s \in Readers \ {r} : pc'[s] = pc[s] /\ call'[s] = call[s]
    BY <1>1, <1>6 DEF ReadLoop
  <2>2. /\ call'[r].at = call[r].at /\ call'[r].got = call[r].got /\ call'[r].want = call[r].want
        /\ call'[r].off = call[r].off /\ call'[r].err = IF ended THEN "EOF" ELSE "nil"
    BY <1>1, <2>1 DEF Calls
  <2>3. Copied(call[r]) /\ Reached(call[r], chunk[r])
    BY <1>1, <2>1, SMTT(30) DEF CallOK, InReadAt
  <2>4. Copied(call'[r])
    BY <2>2, <2>3 DEF Copied
  <2>5. CASE full
    BY <2>1, <2>2, <2>4, <2>5 DEF CallOK, Answered, InReadAt, InFetch
  <2>6. CASE ended
    <3>1. ~(chunk[r] < NumChunks)
      BY <1>1, <2>6, NumChunksPositive
    <3>2. call'[r].at + Len(call'[r].got) = FileLen
      BY <2>2, <2>3, <3>1 DEF Reached
    <3> QED BY <2>1, <2>2, <2>4, <2>6, <3>2 DEF CallOK, Answered, InReadAt, InFetch
  <2>7. CASE ~full /\ ~ended
    <3>1. Reached(call'[r], chunk'[r])
      BY <2>1, <2>2, <2>3, <2>7, SMTT(30) DEF Reached
    <3> QED BY <2>1, <2>2, <2>4, <2>7, <3>1 DEF CallOK, InReadAt, InFetch
  <2> QED BY <2>5, <2>6, <2>7, Zenon
<1>7. CASE CopyChunk(r)
  <2>1. chunk[r] \in Chunks
    BY <1>1, <1>7, ZenonT(30) DEF CopyChunk, IInv, ControlInv, InFetch
  <2>2. \A s \in Readers \ {r} : pc'[s] = pc[s] /\ call'[s] = call[s] /\ chunk'[s] = chunk[s]
    BY <1>1, <1>7, Zenon DEF CopyChunk
  <2> QED BY <1>1, <1>7, <2>1, <2>2, CopyStep, ZenonT(30)
<1> QED BY <1>4, <1>5, <1>6, <1>7, Zenon

\* Every step keeps what the calls have copied.
LEMMA ReadStep ==
  ASSUME IInv, PositionInv, ReadInv, [Next]_vars
  PROVE  PositionInv' /\ ReadInv'
<1>1. /\ pc \in [Threads -> PCs] /\ chunk \in [Threads -> 0 .. NumChunks]
      /\ call \in [Readers -> Calls] /\ pos \in Nat /\ pos <= FileLen
      /\ Readers \subseteq Threads /\ Stream \in Readers /\ Saver \in Readers /\ Stream # Saver
      /\ FileLen \in Nat
  BY SizesAssumption, ThreadsAssumption DEF IInv, TypeOK, PositionInv, Threads, Readers
<1>2. \A r \in Readers : CallOK(pc[r], call[r], chunk[r])
  BY DEF ReadInv
<1>3. ASSUME \A r \in Readers : CallOK(pc'[r], call'[r], chunk'[r]) /\ call'[r].at = call[r].at,
             pos' = pos,
             pc'[Stream] \in InReadAt \cup {"return"} => pc[Stream] \in InReadAt \cup {"return"}
      PROVE  PositionInv' /\ ReadInv'
  BY <1>1, <1>3, SMTT(30) DEF PositionInv, ReadInv
<1>4. ASSUME NEW n \in ReadLens, Read(n) PROVE PositionInv' /\ ReadInv'
  <2>1. n \in Nat
    BY SizesAssumption
  <2>2. CallOK(pc'[Stream], call'[Stream], chunk'[Stream]) /\ call'[Stream].at = pos
    BY <1>1, <1>4, <2>1, ReadBegins, ZenonT(30) DEF Read
  <2>3. pc'[Saver] = pc[Saver] /\ call'[Saver] = call[Saver] /\ chunk'[Saver] = chunk[Saver]
    BY <1>1, <1>4, SMTT(30) DEF Read, BeginReadAt
  <2> QED BY <1>1, <1>2, <1>4, <2>2, <2>3 DEF PositionInv, ReadInv, Readers, Read
<1>5. CASE Save
  <2>1. CallOK(pc'[Saver], call'[Saver], chunk'[Saver])
    <3>1. 0 \in Nat /\ 0 <= FileLen
      BY <1>1
    <3> QED BY <1>1, <1>5, <3>1, ReadBegins, ZenonT(30) DEF Save
  <2>2. pc'[Stream] = pc[Stream] /\ call'[Stream] = call[Stream] /\ chunk'[Stream] = chunk[Stream]
    BY <1>1, <1>5 DEF Save, BeginReadAt
  <2>3. \A s \in Readers : CallOK(pc'[s], call'[s], chunk'[s])
    <3>1. CallOK(pc[Stream], call[Stream], chunk[Stream])
      BY <1>1, <1>2, Zenon
    <3>2. \A s \in Readers : s \in {Stream, Saver}
      BY Zenon DEF Readers
    <3> QED BY <2>1, <2>2, <3>1, <3>2, Zenon
  <2>4. pos' = pos
    BY <1>5, Zenon DEF Save
  <2> QED BY <2>2, <2>3, <2>4, Zenon DEF PositionInv, ReadInv
<1>6. ASSUME NEW p \in 0 .. FileLen, Seek(p) PROVE PositionInv' /\ ReadInv'
  BY <1>1, <1>2, <1>6, SMTT(30) DEF Seek, PositionInv, ReadInv, InReadAt, InFetch
<1>7. ASSUME NEW r \in Readers,
             StartPrefetch(r) \/ EndPrefetch(r) \/ ReadLoop(r) \/ CopyChunk(r)
      PROVE  PositionInv' /\ ReadInv'
  <2>1. /\ CallOK(pc'[r], call'[r], chunk'[r]) /\ call'[r].at = call[r].at
        /\ \A s \in Readers \ {r} : pc'[s] = pc[s] /\ call'[s] = call[s] /\ chunk'[s] = chunk[s]
    BY <1>7, ReaderStepsKeepCalls, ZenonT(30)
  <2>2. pos' = pos /\ pc[r] \in InReadAt
    BY <1>7, Zenon DEF StartPrefetch, EndPrefetch, ReadLoop, CopyChunk, Goto, InReadAt, InFetch
  <2>3. \A s \in Readers : CallOK(pc'[s], call'[s], chunk'[s]) /\ call'[s].at = call[s].at
    <3>1. ASSUME NEW s \in Readers, s # r
          PROVE  CallOK(pc'[s], call'[s], chunk'[s]) /\ call'[s].at = call[s].at
      BY <1>2, <2>1, <3>1, Zenon
    <3> QED BY <2>1, <3>1, Zenon
  <2>4. pc'[Stream] \in InReadAt \cup {"return"} => pc[Stream] \in InReadAt \cup {"return"}
    BY <1>1, <2>1, <2>2, ZenonT(30)
  <2> QED BY <1>3, <2>2, <2>3, <2>4, Zenon
<1>8. ASSUME NEW r \in Readers, Return(r) PROVE PositionInv' /\ ReadInv'
  <2>1. Copied(call[r]) /\ pc[r] = "return" /\ Len(call[r].got) \in Nat
    BY <1>1, <1>2, <1>8 DEF Return, Goto, CallOK, Copied, Run
  <2>2. /\ pc'[r] \notin InReadAt \cup {"return"}
        /\ \A s \in Readers \ {r} : pc'[s] = pc[s] /\ call'[s] = call[s] /\ chunk'[s] = chunk[s]
    BY <1>1, <1>8 DEF Return, Goto, InReadAt, InFetch
  <2>3. ReadInv'
    BY <1>2, <2>2, SMTT(30) DEF ReadInv, CallOK
  <2>4. CASE r = Stream
    <3>1. pos' = pos + Len(call[r].got) /\ call[r].at = pos
      BY <1>8, <2>1, <2>4, SMTT(30) DEF Return, PositionInv
    <3> QED BY <1>1, <2>1, <2>2, <2>3, <2>4, <3>1 DEF PositionInv, Copied
  <2>5. CASE r # Stream
    <3>1. pos' = pos
      BY <1>8, <2>5, SMTT(30) DEF Return
    <3> QED BY <1>1, <2>2, <2>3, <2>5, <3>1 DEF PositionInv
  <2> QED BY <2>4, <2>5, SMTT(30)
<1>9. ASSUME NEW t \in Threads, ThreadStep(t) \/ DownloadDone(t) \/ DownloadFailed(t)
      PROVE  PositionInv' /\ ReadInv'
  <2>1. \A r \in Readers :
          /\ CallOK(pc'[r], call'[r], chunk'[r]) /\ call'[r].at = call[r].at
          /\ pc'[r] \in InReadAt \cup {"return"} => pc[r] \in InReadAt \cup {"return"}
    BY <1>9, FetchStepsKeepCalls, SMTT(30)
  <2>2. pos' = pos
    BY <1>9 DEF ThreadStep, LockChunk, TestClosed, InspectChunk, GiveUp, Failed, StoreChunk,
       MarkComplete, Fetched, DownloadDone, DownloadFailed
  <2> QED BY <1>1, <1>3, <2>1, <2>2, SMTT(30)
<1>10. CASE OnComplete
  <2>1. UNCHANGED <<call, chunk, pos>> /\ \A r \in Readers : pc'[r] \in {pc[r], "save"}
    BY <1>1, <1>10 DEF OnComplete, MaybeFire
  <2> QED BY <1>2, <1>3, <1>1, <2>1 DEF CallOK, InReadAt, InFetch
<1>11. CASE Close
  <2>1. /\ UNCHANGED <<call, chunk, pos>>
        /\ \A r \in Readers : pc'[r] = pc[r] \/ (pc[r] = "wait" /\ pc'[r] = "enter")
    <3>1. CASE WakeChunk
      BY <1>1, <3>1 DEF WakeChunk, Broadcast
    <3>2. CASE Cancel \/ CloseReturns
      BY <3>2 DEF Cancel, CloseReturns
    <3> QED BY <1>11, <3>1, <3>2 DEF Close
  <2> QED BY <1>2, <1>3, <1>1, <2>1 DEF CallOK, InReadAt, InFetch
<1>12. CASE UNCHANGED vars
  BY <1>1, <1>2, <1>3, <1>12 DEF vars
<1> QED BY <1>4, <1>5, <1>6, <1>7, <1>8, <1>9, <1>10, <1>11, <1>12, SMTT(30) DEF Next, ReaderStep

\* However many goroutines fetch the chunks of a file of whatever length, in whatever order,
\* ReadAt returns the bytes of the file, and its error says whether that is all of them.
THEOREM ReadAtIsFaithful == Spec => []ReadAtContract
<1>1. Init => PositionInv /\ ReadInv
  <2> SUFFICES ASSUME Init PROVE PositionInv /\ ReadInv
    OBVIOUS
  <2>1. \A r \in Readers : pc[r] = "idle"
    BY DEF Init, Threads
  <2>2. Stream \in Readers /\ pos = 0
    BY DEF Init, Readers
  <2> QED BY <2>1, <2>2, SizesAssumption DEF PositionInv, ReadInv, CallOK, InReadAt, InFetch
<1>2. IInv /\ PositionInv /\ ReadInv /\ [Next]_vars => PositionInv' /\ ReadInv'
  BY ReadStep
<1>3. IInv /\ ReadInv => ReadAtContract
  <2> SUFFICES ASSUME IInv, ReadInv, NEW r \in Readers, pc[r] = "return"
               PROVE  LET c == call[r] IN
                      /\ c.got = SubSeq(FileBytes(c.at, c.want), 1, Len(c.got))
                      /\ c.err = "nil" => Len(c.got) = c.want
                      /\ c.err = "EOF" => c.got = FileBytes(c.at, c.want)
                                          /\ c.at + Len(c.got) >= FileLen
    BY DEF ReadAtContract
  <2>1. call[r] \in Calls /\ Copied(call[r]) /\ Answered(call[r])
    BY DEF IInv, TypeOK, ReadInv, CallOK
  <2> QED BY <2>1, CopiedAnswers, Zenon
<1> QED BY <1>1, <1>2, <1>3, Inductive, PTL DEF Spec
===========================================================================
