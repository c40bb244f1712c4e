----------------------------- MODULE DiskCache -----------------------------
(***************************************************************************)
(* The on-disk cache of encrypted audio files: cache/cache.go and          *)
(* cache/limiter.go, as player/player.go uses them.  A stream that starts  *)
(* looks its file up (File); one that is fully downloaded saves it         *)
(* (SaveFile) in a goroutine of its own, so saves overlap each other and   *)
(* the lookups.  The process may die between any two steps and start       *)
(* again: the disk survives, the limiter is rebuilt from it.               *)
(*                                                                         *)
(* Only the order of timestamps matters, so the disk is the sequence of    *)
(* its objects by modification time and the limiter the sequence of its    *)
(* entries by access time, both oldest first.  An object is a file under   *)
(* its final name, or the temporary file of a saver.                       *)
(***************************************************************************)
EXTENDS Integers, Sequences, SequencesExt

CONSTANTS
  Files,      \* file ids
  Savers,     \* goroutines of OnComplete
  Readers,    \* goroutines that call File
  Size,       \* the size of each file
  Limit,      \* cfg.Cache.SizeLimit
  MaxSaves,   \* calls of SaveFile in a behaviour (a bound)
  MaxReads,   \* calls of File that find their file (a bound)
  MaxCrashes  \* deaths of the process (a bound)

ASSUME LimitAssumption == Limit \in Nat \ {0}
ASSUME SizeAssumption == Size \in [Files -> Nat]

VARIABLES
  disk,     \* the objects on disk, by modification time
  whole,    \* the objects that hold all of their bytes
  up,       \* whether the process runs: "down", "boot" (in New), "up"
  lru,      \* s.files, by access time
  inUse,    \* s.inUse
  saver,    \* where each saver is, and with what file
  reader,   \* likewise for each reader
  stuck,    \* files that could not be removed, and are no longer tracked
  calls,    \* how many saves, reads and crashes there were
  newer     \* history: <<f, g>> when g was last used after f had been

vars == <<disk, whole, up, lru, inUse, saver, reader, stuck, calls, newer>>

Free == [at |-> "idle", file |-> "none", before |-> {}]
Objects == Files \cup Savers
OnDisk == ToSet(disk) \cap Files

Init ==
  /\ disk = <<>> /\ whole = {}
  /\ up = "boot"
  /\ lru = <<>> /\ inUse = 0
  /\ saver = [p \in Savers |-> Free]
  /\ reader = [r \in Readers |-> Free]
  /\ stuck = {}
  /\ calls = [saves |-> 0, reads |-> 0, crashes |-> 0]
  /\ newer = {}

Without(seq, x) == SelectSeq(seq, LAMBDA y : y # x)
Latest(seq, x) == Append(Without(seq, x), x)
SizeOf(seq) == FoldSeq(LAMBDA f, n : Size[f] + n, 0, seq)

---------------------------------------------------------------------------
(***************************************************************************)
(* Uses.  A use of a file is one call of File or SaveFile; it is after     *)
(* another when it begins once the other has returned.                     *)
(***************************************************************************)

Busy(f) ==
  \/ \E p \in Savers : saver[p].at # "idle" /\ saver[p].file = f
  \/ \E r \in Readers : reader[r].at # "idle" /\ reader[r].file = f

(* A use of g begins: it is after the last use of every file that is not   *)
(* in use, unless g itself is.                                             *)
Begun(at, g) ==
  [at |-> at, file |-> g,
   before |-> IF Busy(g) THEN {} ELSE {f \in OnDisk \ {g} : ~Busy(f)}]

(* A use of g returns: what was after its last use no longer is.  Files    *)
(* that have left the disk are forgotten.                                  *)
Used(g, before) ==
  newer' = {w \in newer \cup {<<f, g>> : f \in before} :
              w[1] # g /\ (w[2] = g => w[1] \in before) /\ {w[1], w[2]} \subseteq OnDisk'}

(* A use of g that is not over while another of f returns is not after it. *)
Overlapped(ops, f) ==
  [o \in DOMAIN ops |-> [ops[o] EXCEPT !.before = IF ops[o].file = f THEN {} ELSE @ \ {f}]]

---------------------------------------------------------------------------
(***************************************************************************)
(* SaveFile                                                                *)
(***************************************************************************)

(* os.CreateTemp                                                           *)
CreateTemp(p, f) ==
  /\ up = "up" /\ saver[p] = Free /\ calls.saves < MaxSaves
  /\ saver' = [saver EXCEPT ![p] = Begun("copy", f)]
  /\ disk' = Append(disk, p)
  /\ calls' = [calls EXCEPT !.saves = @ + 1]
  /\ UNCHANGED <<whole, up, lru, inUse, reader, stuck, newer>>

\* Mutant: what was copied before an error is kept.
CopyStops(p) ==
  /\ saver[p].at = "copy"
  /\ saver' = [saver EXCEPT ![p].at = "rename"]
  /\ UNCHANGED <<disk, whole, up, lru, inUse, reader, stuck, newer, calls>>

(* io.Copy and Close: the last write stamps the file.                      *)
Copy(p) ==
  /\ saver[p].at = "copy"
  /\ disk' = Latest(disk, p)
  /\ whole' = whole \cup {p}
  /\ saver' = [saver EXCEPT ![p].at = "rename"]
  /\ UNCHANGED <<up, lru, inUse, reader, stuck, newer, calls>>

(* An error of io.Copy, Close or Rename: the temporary file is removed.    *)
SaveFails(p) ==
  /\ saver[p].at \in {"copy", "rename"}
  /\ disk' = Without(disk, p)
  /\ whole' = whole \ {p}
  /\ saver' = [saver EXCEPT ![p] = Free]
  /\ UNCHANGED <<up, lru, inUse, reader, stuck, newer, calls>>

(* os.Rename: the temporary file takes the name, with the time it has.     *)
Rename(p) ==
  LET f == saver[p].file IN
  /\ saver[p].at = "rename"
  /\ disk' = [i \in 1..Len(Without(disk, f)) |->
                IF Without(disk, f)[i] = p THEN f ELSE Without(disk, f)[i]]
  /\ whole' = (whole \ {p, f}) \cup (IF p \in whole THEN {f} ELSE {})
  /\ stuck' = stuck \ {f}
  /\ saver' = [saver EXCEPT ![p].at = "add"]
  /\ UNCHANGED <<up, lru, inUse, reader, newer, calls>>

(* limiter.add                                                             *)
Add(p) ==
  LET f == saver[p].file IN
  /\ saver[p].at = "add"
  /\ lru' = Latest(lru, f)
  /\ inUse' = (IF f \in ToSet(lru) THEN inUse - Size[f] ELSE inUse) + Size[f]
  /\ saver' = [saver EXCEPT ![p].at = "prune"]
  /\ UNCHANGED <<disk, whole, up, reader, stuck, newer, calls>>

(* The first n entries are evicted; the last of them could not be removed, *)
(* unless failed is empty, and stays on disk.                              *)
Evict(n, failed) ==
  LET gone == {lru[i] : i \in 1..n} \ failed IN
  /\ lru' = SubSeq(lru, n + 1, Len(lru))
  /\ inUse' = inUse - SizeOf(SubSeq(lru, 1, n))
  /\ disk' = SelectSeq(disk, LAMBDA x : x \notin gone)
  /\ whole' = whole \ gone
  /\ stuck' = stuck \cup failed

\* Mutant: one eviction is taken to be enough.
PruneOne ==
  IF inUse > Limit /\ lru # <<>>
    THEN Evict(1, {})
    ELSE UNCHANGED <<disk, whole, lru, inUse, stuck>>

(* limiter.prune: the oldest entries go until the rest is within the       *)
(* limit.  A file that is gone already is no failure; any other one that   *)
(* cannot be removed ends the loop.                                        *)
Prune ==
  LET Left(n) == inUse - SizeOf(SubSeq(lru, 1, n))
      enough == CHOOSE n \in 0..Len(lru) :
                  /\ n = Len(lru) \/ Left(n) <= Limit
                  /\ \A m \in 0..(n - 1) : Left(m) > Limit
  IN \/ Evict(enough, {})
     \/ \E n \in 1..enough : lru[n] \in OnDisk /\ Evict(n, {lru[n]})

(* SaveFile prunes and returns.                                            *)
SavePrunes(p) ==
  LET f == saver[p].file IN
  /\ saver[p].at = "prune"
  /\ Prune
  /\ saver' = Overlapped([saver EXCEPT ![p] = Free], f)
  /\ reader' = Overlapped(reader, f)
  /\ Used(f, saver[p].before)
  /\ UNCHANGED <<up, calls>>

---------------------------------------------------------------------------
(***************************************************************************)
(* File                                                                    *)
(***************************************************************************)

(* os.Open and Stat: a file that is not there is a miss, which does        *)
(* nothing.                                                                *)
Open(r, f) ==
  /\ up = "up" /\ reader[r] = Free /\ calls.reads < MaxReads
  /\ f \in OnDisk
  /\ reader' = [reader EXCEPT ![r] = Begun("touch", f)]
  /\ calls' = [calls EXCEPT !.reads = @ + 1]
  /\ UNCHANGED <<disk, whole, up, lru, inUse, saver, stuck, newer>>

(* limiter.touch                                                           *)
Touch(r) ==
  LET f == reader[r].file IN
  /\ reader[r].at = "touch"
  /\ lru' = IF f \in ToSet(lru) THEN Latest(lru, f) ELSE lru
  /\ reader' = [reader EXCEPT ![r].at = "chtimes"]
  /\ UNCHANGED <<disk, whole, up, inUse, saver, stuck, newer, calls>>

\* Mutant: the use is not recorded on disk.
NoChtimes(r) ==
  LET f == reader[r].file IN
  /\ reader[r].at = "chtimes"
  /\ disk' = disk
  /\ saver' = Overlapped(saver, f)
  /\ reader' = Overlapped([reader EXCEPT ![r] = Free], f)
  /\ Used(f, reader[r].before)
  /\ UNCHANGED <<whole, up, lru, inUse, stuck, calls>>

(* os.Chtimes, which fails without notice when the file is gone.           *)
Chtimes(r) ==
  LET f == reader[r].file IN
  /\ reader[r].at = "chtimes"
  /\ disk' = IF f \in OnDisk THEN Latest(disk, f) ELSE disk
  /\ saver' = Overlapped(saver, f)
  /\ reader' = Overlapped([reader EXCEPT ![r] = Free], f)
  /\ Used(f, reader[r].before)
  /\ UNCHANGED <<whole, up, lru, inUse, stuck, calls>>

---------------------------------------------------------------------------
(***************************************************************************)
(* The process dies and starts again                                       *)
(***************************************************************************)

(* What was under way is over, and may have left its mark or not: nothing  *)
(* is before or after it.                                                  *)
Crash ==
  /\ up # "down" /\ calls.crashes < MaxCrashes
  /\ up' = "down"
  /\ lru' = <<>> /\ inUse' = 0
  /\ saver' = [p \in Savers |-> Free]
  /\ reader' = [r \in Readers |-> Free]
  /\ stuck' = {}
  /\ newer' = {w \in newer : ~Busy(w[1]) /\ ~Busy(w[2])}
  /\ calls' = [calls EXCEPT !.crashes = @ + 1]
  /\ UNCHANGED <<disk, whole>>

(* New: limiter.init removes the temporary files and registers the others, *)
Walk ==
  LET files == SelectSeq(disk, LAMBDA x : x \in Files) IN
  /\ up = "down"
  /\ up' = "boot"
  /\ disk' = files
  /\ whole' = whole \cap Files
  /\ lru' = files
  /\ inUse' = SizeOf(files)
  /\ UNCHANGED <<saver, reader, stuck, newer, calls>>

(* and the limit, which may be another one, is applied at once.            *)
BootPrunes ==
  /\ up = "boot"
  /\ up' = "up"
  /\ Prune
  /\ newer' = {w \in newer : {w[1], w[2]} \subseteq OnDisk'}
  /\ UNCHANGED <<saver, reader, calls>>

---------------------------------------------------------------------------
Save(p) ==
  \/ \E f \in Files : CreateTemp(p, f)
  \/ Copy(p) \/ SaveFails(p) \/ Rename(p) \/ Add(p) \/ SavePrunes(p)

Read(r) == (\E f \in Files : Open(r, f)) \/ Touch(r) \/ Chtimes(r)

Next ==
  \/ \E p \in Savers : Save(p)
  \/ \E r \in Readers : Read(r)
  \/ Crash \/ Walk \/ BootPrunes

Spec == Init /\ [][Next]_vars

---------------------------------------------------------------------------
(***************************************************************************)
(* Properties                                                              *)
(***************************************************************************)

TypeOK ==
  /\ disk \in Seq(Objects) /\ whole \subseteq ToSet(disk) /\ IsInjective(disk)
  /\ up \in {"down", "boot", "up"}
  /\ lru \in Seq(Files) /\ IsInjective(lru)
  /\ \A p \in Savers : saver[p].at \in {"idle", "copy", "rename", "add", "prune"}
  /\ \A r \in Readers : reader[r].at \in {"idle", "touch", "chtimes"}
  /\ stuck \subseteq Files /\ newer \subseteq Files \X Files

(* "a crash never leaves a truncated cache entry": what File can open is   *)
(* complete at any time, also right after a crash, and a temporary file on *)
(* disk is that of a save under way or is removed when the process starts. *)
Atomic ==
  /\ TypeOK
  /\ OnDisk \subseteq whole
  /\ up = "up" => ToSet(disk) \cap Savers = {p \in Savers : saver[p].at \in {"copy", "rename"}}

(* The limiter's account is of the files it tracks, every file on disk is  *)
(* tracked but for one whose save is about to add it and one that could    *)
(* not be removed, and unless there is such a one the files take no more   *)
(* than the limit whenever no save is between its rename and its return.   *)
WithinLimit ==
  /\ inUse = SizeOf(lru)
  /\ up = "up" =>
       /\ \A f \in OnDisk :
            \/ f \in ToSet(lru) \cup stuck
            \/ \E p \in Savers : saver[p].at = "add" /\ saver[p].file = f
       /\ (stuck = {} /\ \A p \in Savers : saver[p].at \notin {"add", "prune"}) =>
            SizeOf(SelectSeq(disk, LAMBDA x : x \in Files)) <= Limit

(* Files are evicted in the order they were last used, restarts included:  *)
(* no file leaves the disk while one stays that was last used before it,   *)
(* as long as their uses do not overlap and none is under way.             *)
LeastRecentlyUsed ==
  [][\A e \in OnDisk \ OnDisk', k \in OnDisk' \cap ToSet(lru') :
       <<k, e>> \in newer => Busy(k) \/ Busy(e)]_vars
=============================================================================
