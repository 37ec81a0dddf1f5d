----------------------------- MODULE ConfigAccess -----------------------------
(***************************************************************************)
(* libs/config on top of libs/files/fileaccess: every configuration file   *)
(* is read and rewritten as a whole under one process-wide mutex, by any   *)
(* number of goroutines (applet reloads, package edits, the counters of    *)
(* the build config, the upload history).                                  *)
(*                                                                         *)
(* A goroutine runs SetToFile ("set": lock, load, edit one key, truncate   *)
(* and rewrite the file, unlock) or GetFromFile / Load ("get": lock, load, *)
(* use, Cancel).  The edit callback may fail, which cancels, or panic.  A  *)
(* panic unwinds to GoTry's handler *without* releasing the mutex: only    *)
(* Save defers its Unlock.  A goroutine may also panic in its own code,    *)
(* away from any file.  In both cases the handler, printCrash, either      *)
(* exits the process, whatever the others are writing, or calls            *)
(* IncreaseCrash, which is itself a SetToFile.                             *)
(*                                                                         *)
(* The value of a key is the number of updates it received, so that a lost *)
(* update is visible.                                                      *)
(***************************************************************************)
EXTENDS Naturals

CONSTANTS
  Procs,          \* goroutines, all started by Log.GoTry
  NoProc,         \* the mutex is free
  Keys,           \* keys of the file
  CrashKey,       \* the key IncreaseCrash updates
  CrashFile,      \* build.Current.File is set: crashes are counted in it
  Panics,         \* callbacks and the code around them may panic
  DiskFails,      \* WriteFile may fail after it truncated the file
  MaxOps          \* bound: operations started in a behaviour

ASSUME ConstantsAssumption ==
  /\ NoProc \notin Procs
  /\ CrashKey \in Keys
  /\ CrashFile \in BOOLEAN
  /\ Panics \in BOOLEAN /\ DiskFails \in BOOLEAN
  /\ MaxOps \in Nat

VARIABLES
  up,          \* the process runs
  recovery,    \* confown.Current.CrashRecovery, a setting read at the start
  holder,      \* goroutine that locked fileaccess.access, or NoProc
  pc,          \* where each goroutine is
  kind,        \* "set" or "get"
  key,         \* key its edit callback sets
  cfg,         \* Config.File: the content it loaded and edits
  recovering,  \* it runs printCrash in GoTry's deferred handler
  disk,        \* content of the file, when nobody is rewriting it
  ops          \* operations started

vars == <<up, recovery, holder, pc, kind, key, cfg, recovering, disk, ops>>

Locations == {"idle", "lock", "load", "call", "save", "write", "unlock", "panic"}
Critical  == {"load", "call", "save", "write", "unlock"}

Empty == [k \in Keys |-> 0]

\* Between the truncation and the write of ioutil.WriteFile the file is empty.
Truncated == \E p \in Procs : pc[p] = "write"

(***************************************************************************)
(* What a file may hold once the writing of c was cut: some keys are there *)
(* whole, some are missing, and the one the cut fell on (cut) reads as a   *)
(* smaller value.                                                          *)
(***************************************************************************)
CutsOf(c) ==
  UNION {{[k \in Keys |-> IF k \in kept THEN c[k] ELSE IF k = cut THEN v ELSE 0] :
             kept \in SUBSET Keys, v \in 0 .. c[cut]} : cut \in Keys}

Init ==
  /\ up = TRUE /\ recovery \in BOOLEAN
  /\ holder = NoProc
  /\ pc = [p \in Procs |-> "idle"]
  /\ kind = [p \in Procs |-> "get"]
  /\ key = [p \in Procs |-> CrashKey]
  /\ cfg = [p \in Procs |-> Empty]
  /\ recovering = [p \in Procs |-> FALSE]
  /\ disk = Empty
  /\ ops = 0

Goto(p, l) == pc' = [pc EXCEPT ![p] = l]

(***************************************************************************)
(* Plausible faults of the actions below, each compared with the original  *)
(* by a mutant run: Lock that does not wait, NewFromFile that releases the *)
(* lock once it has read the file, an error path that forgets to release   *)
(* it, a callback that sets a wrong value.                                 *)
(***************************************************************************)
LockWithoutWaiting(p) ==
  /\ up /\ pc[p] = "lock"
  /\ holder' = p
  /\ Goto(p, "load")
  /\ UNCHANGED <<up, recovery, kind, key, cfg, recovering, disk, ops>>

LoadThenUnlock(p) ==
  /\ up /\ pc[p] = "load"
  /\ cfg' = [cfg EXCEPT ![p] = IF Truncated THEN Empty ELSE disk]
  /\ holder' = NoProc
  /\ Goto(p, "call")
  /\ UNCHANGED <<up, recovery, kind, key, recovering, disk, ops>>

LoadErrorKeepsLock(p) ==
  /\ up /\ pc[p] = "load"
  /\ \/ /\ cfg' = [cfg EXCEPT ![p] = disk]
        /\ Goto(p, "call")
     \/ /\ Goto(p, "idle")
        /\ UNCHANGED cfg
  /\ UNCHANGED <<up, recovery, holder, kind, key, recovering, disk, ops>>

(* A call of SetToFile, GetFromFile or Load reaches fileaccess.Lock. *)
Begin(p, kd, k) ==
  /\ up /\ pc[p] = "idle" /\ ops < MaxOps
  /\ ops' = ops + 1
  /\ kind' = [kind EXCEPT ![p] = kd]
  /\ key' = [key EXCEPT ![p] = k]
  /\ Goto(p, "lock")
  /\ UNCHANGED <<up, recovery, holder, cfg, recovering, disk>>

(* A goroutine started by GoTry panics in its own code, holding nothing.   *)
PanicOutside(p) ==
  /\ Panics
  /\ up /\ pc[p] = "idle" /\ ops < MaxOps
  /\ ops' = ops + 1
  /\ Goto(p, "panic")
  /\ UNCHANGED <<up, recovery, holder, kind, key, cfg, recovering, disk>>

(* access.Lock() returns. *)
Lock(p) ==
  /\ up /\ pc[p] = "lock" /\ holder = NoProc
  /\ holder' = p
  /\ Goto(p, "load")
  /\ UNCHANGED <<up, recovery, kind, key, cfg, recovering, disk, ops>>

(* ini.LoadSources reads the whole file; on error the lock is released. *)
Load(p) ==
  /\ up /\ pc[p] = "load"
  /\ \/ /\ cfg' = [cfg EXCEPT ![p] = IF Truncated THEN Empty ELSE disk]
        /\ Goto(p, "call")
     \/ /\ Goto(p, "unlock")
        /\ UNCHANGED cfg
  /\ UNCHANGED <<up, recovery, holder, kind, key, recovering, disk, ops>>

(* The callback given to SetToFile sets its key, or returns an error. *)
Edit(p) ==
  /\ up /\ pc[p] = "call" /\ kind[p] = "set"
  /\ \/ /\ cfg' = [cfg EXCEPT ![p][key[p]] = @ + 1]
        /\ Goto(p, "save")
     \/ /\ Goto(p, "unlock")
        /\ UNCHANGED cfg
  /\ UNCHANGED <<up, recovery, holder, kind, key, recovering, disk, ops>>

(* The callback given to GetFromFile, or Unmarshall in Load, reads. *)
Read(p) ==
  /\ up /\ pc[p] = "call" /\ kind[p] = "get"
  /\ Goto(p, "unlock")
  /\ UNCHANGED <<up, recovery, holder, kind, key, cfg, recovering, disk, ops>>

(* The callback panics: nothing between here and GoTry's handler unlocks.  *)
(* IncreaseCrash's own callback, which marshals two numbers, does not.     *)
Panic(p) ==
  /\ Panics
  /\ up /\ pc[p] = "call" /\ ~recovering[p]
  /\ Goto(p, "panic")
  /\ UNCHANGED <<up, recovery, holder, kind, key, cfg, recovering, disk, ops>>

(* Save: WriteFile opens the file with O_TRUNC... *)
Truncate(p) ==
  /\ up /\ pc[p] = "save"
  /\ Goto(p, "write")
  /\ UNCHANGED <<up, recovery, holder, kind, key, cfg, recovering, disk, ops>>

(* ... then writes the new content, or fails and leaves a part of it. *)
Write(p) ==
  /\ up /\ pc[p] = "write"
  /\ \/ disk' = cfg[p]
     \/ DiskFails /\ disk' \in CutsOf(cfg[p])
  /\ Goto(p, "unlock")
  /\ UNCHANGED <<up, recovery, holder, kind, key, cfg, recovering, ops>>

(* Cancel, or the Unlock that Save defers; the operation returns. *)
Unlock(p) ==
  /\ up /\ pc[p] = "unlock"
  /\ holder' = NoProc
  /\ recovering' = [recovering EXCEPT ![p] = FALSE]
  /\ Goto(p, "idle")
  /\ UNCHANGED <<up, recovery, kind, key, cfg, disk, ops>>

(* printCrash counts the crash and lets the goroutine end. *)
Recover(p) ==
  /\ up /\ pc[p] = "panic" /\ recovery
  /\ IF CrashFile
       THEN /\ recovering' = [recovering EXCEPT ![p] = TRUE]
            /\ kind' = [kind EXCEPT ![p] = "set"]
            /\ key' = [key EXCEPT ![p] = CrashKey]
            /\ Goto(p, "lock")
       ELSE /\ Goto(p, "idle")
            /\ UNCHANGED <<recovering, kind, key>>
  /\ UNCHANGED <<up, recovery, holder, cfg, disk, ops>>

(* os.Exit in printCrash.  Of a file that another goroutine had truncated  *)
(* there is left what it had written by then.                              *)
Exit(p) ==
  /\ up /\ pc[p] = "panic" /\ ~recovery
  /\ up' = FALSE
  /\ IF Truncated
       THEN \E q \in Procs : pc[q] = "write" /\ disk' \in CutsOf(cfg[q])
       ELSE disk' = disk
  /\ pc' = [q \in Procs |-> "idle"]
  /\ UNCHANGED <<recovery, holder, kind, key, cfg, recovering, ops>>

(* The program is started again: new goroutines, a free mutex, and a       *)
(* setting that may have been edited.                                      *)
Restart ==
  /\ ~up
  /\ up' = TRUE /\ recovery' \in BOOLEAN
  /\ holder' = NoProc
  /\ recovering' = [p \in Procs |-> FALSE]
  /\ UNCHANGED <<pc, kind, key, cfg, disk, ops>>

Step(p) ==
  \/ Lock(p) \/ Load(p) \/ Edit(p) \/ Read(p) \/ Panic(p)
  \/ Truncate(p) \/ Write(p) \/ Unlock(p) \/ Recover(p) \/ Exit(p)

Next ==
  \/ \E p \in Procs, kd \in {"set", "get"}, k \in Keys : Begin(p, kd, k)
  \/ \E p \in Procs : PanicOutside(p) \/ Step(p)
  \/ Restart

Spec == Init /\ [][Next]_vars

(***************************************************************************)
(* A runnable goroutine is run, and sync.Mutex is not unfair for ever: a   *)
(* waiter that finds it free again and again gets it (starvation mode).    *)
(***************************************************************************)
Fairness ==
  \A p \in Procs :
    /\ SF_vars(Lock(p))
    /\ WF_vars(Load(p) \/ Edit(p) \/ Read(p) \/ Truncate(p) \/ Write(p)
                 \/ Unlock(p) \/ Recover(p) \/ Exit(p))

FairSpec == Spec /\ Fairness
-----------------------------------------------------------------------------
TypeOK ==
  /\ up \in BOOLEAN /\ recovery \in BOOLEAN
  /\ holder \in Procs \cup {NoProc}
  /\ pc \in [Procs -> Locations]
  /\ kind \in [Procs -> {"set", "get"}]
  /\ key \in [Procs -> Keys]
  /\ cfg \in [Procs -> [Keys -> Nat]]
  /\ recovering \in [Procs -> BOOLEAN]
  /\ disk \in [Keys -> Nat]
  /\ ops \in Nat

(* Files are accessed by the goroutine that holds the mutex, and only it. *)
LockHeld == \A p \in Procs : pc[p] \in Critical => up /\ holder = p

(***************************************************************************)
(* What a goroutine is about to save is the file as it is now plus its own *)
(* edit: no update made between its load and its save can be overwritten.  *)
(***************************************************************************)
FreshContent ==
  \A p \in Procs :
    /\ pc[p] = "call" => cfg[p] = disk
    /\ pc[p] \in {"save", "write"} =>
         kind[p] = "set" /\ cfg[p] = [disk EXCEPT ![key[p]] = @ + 1]

(***************************************************************************)
(* Nobody parses a file that is being rewritten: a load that succeeds      *)
(* never happens between another goroutine's truncation and its write.     *)
(***************************************************************************)
NoTornRead ==
  [][\A p \in Procs : pc[p] = "load" /\ pc'[p] = "call" => ~Truncated]_vars

(* Every history of the file is one of atomic updates (ConfStore). *)
Store == INSTANCE ConfStore WITH store <- disk,
                                 Lossy <- DiskFails \/ Panics
AtomicUpdates == Store!Spec

(***************************************************************************)
(* A setting goes back to an older value only in a write of the file that  *)
(* was cut short, by its own failure or by the exit of the process in the  *)
(* middle of it, and what is left is a part of what that write was to      *)
(* store: never because two saves overtook each other.                     *)
(***************************************************************************)
CutSave ==
  \E p \in Procs : /\ pc[p] = "write"
                   /\ disk' \in CutsOf(cfg[p]) \ {cfg[p]}
                   /\ up' => DiskFails /\ pc'[p] = "unlock"
LossNeedsCutSave == [][(\E k \in Keys : disk'[k] < disk[k]) => CutSave]_vars

(***************************************************************************)
(* A goroutine keeps the mutex outside of an access only after a panic in  *)
(* its callback, never after an access that failed; and if it counts that  *)
(* crash, it waits in GoTry's handler for the lock that it alone holds.    *)
(***************************************************************************)
RecoveryWaitsForItself ==
  \A p \in Procs :
    up /\ holder = p /\ pc[p] \notin Critical =>
      /\ Panics
      /\ CrashFile => /\ pc[p] \in {"panic", "lock"}
                      /\ pc[p] = "lock" <=> recovering[p]

(***************************************************************************)
(* A goroutine that panicked in its callback takes the mutex with it: from *)
(* then on no file is read or written until the program is restarted.      *)
(***************************************************************************)
Abandoned == up /\ holder # NoProc /\ pc[holder] \notin Critical
AbandonedLockIsFinal ==
  [][Abandoned => (up' => Abandoned') /\ disk' = disk]_vars

(* As long as no goroutine panics under the lock, everyone who asks for    *)
(* the file is served and returns.                                         *)
EveryAccessReturns ==
  [](\A p \in Procs : pc[p] = "panic" => holder # p) =>
    \A p \in Procs : pc[p] = "lock" ~> pc[p] = "idle"

(***************************************************************************)
(* logger.go:415 "Panic will be recovered and logged": a goroutine started *)
(* by GoTry that panics is done with its recovery at some point.           *)
(***************************************************************************)
PanicIsRecovered == \A p \in Procs : pc[p] = "panic" ~> pc[p] = "idle"
=============================================================================
