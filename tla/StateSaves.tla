------------------------------ MODULE StateSaves ------------------------------
(***************************************************************************)
(* The state the daemon keeps in a file: requestPersist and persistState   *)
(* (daemon/app.go), setVolume (daemon/controls.go), the logins that store  *)
(* credentials, and Save of cmd/daemon/file_state_store.go.                *)
(*                                                                         *)
(* stateMu is held over a whole Save; the other critical sections are one  *)
(* action each.  The state is a number, its version.  asked and tried are  *)
(* history: what requestPersist was last called with, and Save.            *)
(***************************************************************************)
EXTENDS Integers

CONSTANTS
  Setters,     \* goroutines in App.setVolume: player loops, and requests without a session
  Savers,      \* goroutines that requestPersist may have started
  Others,      \* goroutines that log in and call persistState themselves
  MaxVersion   \* how often the state is changed (a bound)

VARIABLES
  version,     \* app.state
  asked,       \* its version at the last requestPersist
  tried,       \* the version of the last Save
  failed,      \* whether that Save failed (or there was no file to load)
  file,        \* the version in the file, or NoFile
  saveDirty, saving,
  setter,      \* whether a setter has still to call requestPersist
  pc           \* where a goroutine that saves is

vars == <<version, asked, tried, failed, file, saveDirty, saving, setter, pc>>

NoFile == -1
Logins == Others \ Savers
Workers == Savers \cup Logins
InSave == {"save", "again"}
stateMuFree == \A w \in Workers : pc[w] \notin InSave

Loaded(f) == IF f = NoFile THEN 0 ELSE f

Init ==
  /\ file \in {0, NoFile} /\ failed = (file = NoFile)
  /\ version = Loaded(file) /\ asked = version /\ tried = version
  /\ saveDirty = FALSE /\ saving = FALSE
  /\ setter = [s \in Setters |-> FALSE]
  /\ pc = [w \in Workers |-> "off"]

---------------------------------------------------------------------------
(* setVolume changes the state,                                            *)
Change(s) ==
  /\ ~setter[s] /\ stateMuFree /\ version < MaxVersion
  /\ version' = version + 1
  /\ setter' = [setter EXCEPT ![s] = TRUE]
  /\ UNCHANGED <<asked, tried, failed, file, saveDirty, saving, pc>>

(* and requestPersist starts a goroutine unless one is still running.      *)
RequestPersist(s) ==
  /\ setter[s] /\ stateMuFree
  /\ setter' = [setter EXCEPT ![s] = FALSE]
  /\ asked' = version
  /\ saveDirty' = TRUE /\ saving' = TRUE
  /\ \/ saving /\ UNCHANGED pc
     \/ /\ ~saving
        /\ \E g \in Savers : pc[g] = "off" /\ pc' = [pc EXCEPT ![g] = "check"]
  /\ UNCHANGED <<version, tried, failed, file>>

(* The goroutine ends when nothing was requested since it last looked.     *)
Look(g) ==
  /\ pc[g] = "check" /\ stateMuFree
  /\ saveDirty' = FALSE /\ saving' = saveDirty
  /\ pc' = [pc EXCEPT ![g] = IF saveDirty THEN "persist" ELSE "off"]
  /\ UNCHANGED <<version, asked, tried, failed, file, setter>>

(* A login stores its credentials and has them saved.                      *)
StoreCredentials(l) ==
  /\ pc[l] = "off" /\ stateMuFree /\ version < MaxVersion
  /\ version' = version + 1
  /\ pc' = [pc EXCEPT ![l] = "persist"]
  /\ UNCHANGED <<asked, tried, failed, file, saveDirty, saving, setter>>

(* persistState takes stateMu and calls Save, which writes a copy.         *)
PersistState(w) ==
  /\ pc[w] = "persist" /\ stateMuFree
  /\ tried' = version
  /\ pc' = [pc EXCEPT ![w] = "save"]
  /\ UNCHANGED <<version, asked, failed, file, saveDirty, saving, setter>>

Done(w) == pc' = [pc EXCEPT ![w] = IF w \in Savers THEN "check" ELSE "off"]

(* replaceFile puts the copy in place,                                     *)
Replaced(w) ==
  /\ pc[w] \in InSave
  /\ file' = version /\ failed' = FALSE
  /\ Done(w)
  /\ UNCHANGED <<version, asked, tried, saveDirty, saving, setter>>

(* after removing the file if it cannot be replaced.                       *)
RemovedFirst(w) ==
  /\ pc[w] = "save"
  /\ file' = NoFile
  /\ pc' = [pc EXCEPT ![w] = "again"]
  /\ UNCHANGED <<version, asked, tried, failed, saveDirty, saving, setter>>

(* Any step of Save may fail; nobody tries again.                          *)
SaveFails(w) ==
  /\ pc[w] \in InSave
  /\ failed' = TRUE
  /\ Done(w)
  /\ UNCHANGED <<version, asked, tried, file, saveDirty, saving, setter>>

(* The process dies and starts again from the file.                        *)
Crash ==
  /\ version' = Loaded(file) /\ asked' = version' /\ tried' = version'
  /\ failed' = (file = NoFile)
  /\ saveDirty' = FALSE /\ saving' = FALSE
  /\ setter' = [s \in Setters |-> FALSE]
  /\ pc' = [w \in Workers |-> "off"]
  /\ UNCHANGED file

Next ==
  \/ \E s \in Setters : Change(s) \/ RequestPersist(s)
  \/ \E g \in Savers : Look(g)
  \/ \E l \in Logins : StoreCredentials(l)
  \/ \E w \in Workers : PersistState(w) \/ Replaced(w) \/ RemovedFirst(w) \/ SaveFails(w)
  \/ Crash

Spec == Init /\ [][Next]_vars

---------------------------------------------------------------------------
TypeOK ==
  /\ version \in Nat /\ asked \in Nat /\ tried \in Nat /\ file \in Nat \cup {NoFile}
  /\ failed \in BOOLEAN /\ saveDirty \in BOOLEAN /\ saving \in BOOLEAN
  /\ setter \in [Setters -> BOOLEAN]
  /\ pc \in [Workers -> {"off", "check", "persist"} \cup InSave]

(* "coalescing repeated requests into the one save still to come": there   *)
(* is never more than one goroutine of requestPersist, and when there is   *)
(* none, everything it was asked to save is in the file, with whatever     *)
(* changed since, unless the last save failed.                             *)
RequestsSaved ==
  /\ \A g, h \in Savers : pc[g] # "off" /\ pc[h] # "off" => g = h
  /\ ~saving /\ stateMuFree /\ ~failed => file \in asked..version

---------------------------------------------------------------------------
(***************************************************************************)
(* What is invariant                                                       *)
(***************************************************************************)

\* One goroutine runs for as long as saving is set, and it has still to look when saveDirty is.
Saver ==
  /\ saving <=> \E g \in Savers : pc[g] # "off"
  /\ saveDirty => saving
  /\ \A g, h \in Savers : pc[g] # "off" /\ pc[h] # "off" => g = h

\* What was asked for was given to Save, or will be.
Pending == asked <= tried \/ saveDirty \/ \E g \in Savers : pc[g] = "persist"

\* stateMu: one Save at a time, of the state as it is, and its outcome after it.
Saves ==
  /\ asked <= version /\ tried <= version
  /\ \A v, w \in Workers : pc[v] \in InSave /\ pc[w] \in InSave => v = w
  /\ ~stateMuFree => tried = version
  /\ stateMuFree /\ ~failed => file = tried

IInv == TypeOK /\ Saver /\ Pending /\ Saves

=============================================================================
