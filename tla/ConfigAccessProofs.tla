------------------------- MODULE ConfigAccessProofs -------------------------
(***************************************************************************)
(* Proofs about ConfigAccess, for any set of goroutines, any keys and any  *)
(* failures: mutual exclusion, freshness of what is saved, and that the    *)
(* locked read-modify-write implements the atomic updates of ConfStore.    *)
(***************************************************************************)
EXTENDS ConfigAccess, TLAPS

(* The mutex, the freshness of the loaded content and the types together   *)
(* are inductive: FreshContent is kept because LockHeld makes the saver    *)
(* the only goroutine in a critical section.                               *)
(* GoTry's handler counting a crash waits for the mutex, or has it and is  *)
(* in an access like any other; and only panics lead there.                *)
HandlerInAccess ==
  \A p \in Procs :
    /\ up /\ recovering[p] => pc[p] \in Critical \cup {"lock"}
    /\ pc[p] = "panic" => Panics

IInv ==
  TypeOK /\ LockHeld /\ FreshContent /\ HandlerInAccess /\ RecoveryWaitsForItself

LEMMA InitIInv == Init => IInv
BY ConstantsAssumption
   DEF Init, IInv, TypeOK, LockHeld, FreshContent, HandlerInAccess,
       RecoveryWaitsForItself, Locations, Critical, Empty

(* What is left of a cut content is a content of the same keys. *)
LEMMA CutsAreContents ==
  ASSUME NEW c \in [Keys -> Nat], NEW d \in CutsOf(c)
  PROVE  d \in [Keys -> Nat]
<1>1. PICK cut \in Keys : \E kept \in SUBSET Keys, v \in 0 .. c[cut] :
        d = [k \in Keys |-> IF k \in kept THEN c[k] ELSE IF k = cut THEN v ELSE 0]
  BY DEF CutsOf
<1>2. QED BY <1>1

(* Contents are cut in ConfStore as they are here. *)
LEMMA SameCuts == ASSUME NEW c PROVE CutsOf(c) = Store!PartsOf(c)
BY DEF CutsOf, Store!PartsOf

(* Every step keeps the types. *)
LEMMA NextTypeOK == TypeOK /\ [Next]_vars => TypeOK'
<1> SUFFICES ASSUME TypeOK, [Next]_vars PROVE TypeOK'
  OBVIOUS
<1> USE ConstantsAssumption DEF TypeOK, Locations, Empty, Goto
<1>1. ASSUME NEW p \in Procs, NEW kd \in {"set", "get"}, NEW k \in Keys,
             Begin(p, kd, k)
      PROVE  TypeOK'
  BY <1>1 DEF Begin
<1>2. ASSUME NEW p \in Procs, Step(p) PROVE TypeOK'
  <2>1. CASE Lock(p)      BY <2>1 DEF Lock
  <2>2. CASE Load(p)
    <3>1. CASE cfg' = cfg
      BY <2>2, <3>1 DEF Load
    <3>2. CASE cfg' # cfg
      <4>1. PICK c \in [Keys -> Nat] : cfg' = [cfg EXCEPT ![p] = c]
        BY <2>2, <3>2 DEF Load
      <4>2. QED BY <2>2, <4>1 DEF Load
    <3>3. QED BY <3>1, <3>2
  <2>3. CASE Edit(p)
    <3> DEFINE c == [cfg[p] EXCEPT ![key[p]] = cfg[p][key[p]] + 1]
    <3>1. cfg[p] \in [Keys -> Nat] /\ cfg[p][key[p]] + 1 \in Nat
      OBVIOUS
    <3>2. c \in [Keys -> Nat]
      BY <3>1
    <3>3. cfg' = cfg \/ cfg' = [cfg EXCEPT ![p] = c]
      BY <2>3 DEF Edit
    <3> HIDE DEF c
    <3>4. cfg' \in [Procs -> [Keys -> Nat]]
      BY <3>2, <3>3
    <3>5. QED BY <2>3, <3>4 DEF Edit
  <2>4. CASE Read(p)      BY <2>4 DEF Read
  <2>5. CASE Panic(p)     BY <2>5 DEF Panic
  <2>6. CASE Truncate(p)  BY <2>6 DEF Truncate
  <2>7. CASE Write(p)
    <3>1. disk' \in [Keys -> Nat]
      BY <2>7, CutsAreContents DEF Write
    <3>2. QED BY <2>7, <3>1 DEF Write
  <2>8. CASE Unlock(p)    BY <2>8 DEF Unlock
  <2>9. CASE Recover(p)
    <3>1. CASE CrashFile
      <4>1. kind' \in [Procs -> {"set", "get"}] /\ key' \in [Procs -> Keys]
        BY <2>9, <3>1 DEF Recover
      <4>2. recovering' \in [Procs -> BOOLEAN] /\ pc' \in [Procs -> Locations]
        BY <2>9, <3>1 DEF Recover
      <4>3. QED BY <2>9, <4>1, <4>2 DEF Recover
    <3>2. CASE ~CrashFile
      BY <2>9, <3>2 DEF Recover
    <3>3. QED BY <3>1, <3>2
  <2>10. CASE Exit(p)
    <3>1. disk' \in [Keys -> Nat]
      BY <2>10, CutsAreContents DEF Exit
    <3>2. QED BY <2>10, <3>1 DEF Exit
  <2>11. QED
    BY <1>2, <2>1, <2>2, <2>3, <2>4, <2>5, <2>6, <2>7, <2>8, <2>9, <2>10
    DEF Step
<1>3. ASSUME NEW p \in Procs, PanicOutside(p) PROVE TypeOK'
  BY <1>3 DEF PanicOutside
<1>4. CASE Restart        BY <1>4 DEF Restart
<1>5. CASE UNCHANGED vars BY <1>5 DEF vars
<1>6. QED BY <1>1, <1>2, <1>3, <1>4, <1>5 DEF Next

(* Only the goroutine that takes the mutex enters a critical section. *)
LEMMA NextLockHeld == TypeOK /\ LockHeld /\ [Next]_vars => LockHeld'
<1> SUFFICES ASSUME TypeOK, LockHeld, [Next]_vars PROVE LockHeld'
  OBVIOUS
<1> USE ConstantsAssumption DEF TypeOK, LockHeld, Locations, Critical, Goto
<1>1. ASSUME NEW p \in Procs, NEW kd \in {"set", "get"}, NEW k \in Keys,
             Begin(p, kd, k)
      PROVE  LockHeld'
  BY <1>1 DEF Begin
<1>2. ASSUME NEW p \in Procs, Step(p) PROVE LockHeld'
  <2>1. CASE Lock(p)      BY <2>1 DEF Lock
  <2>2. CASE Load(p)      BY <2>2 DEF Load
  <2>3. CASE Edit(p)      BY <2>3 DEF Edit
  <2>4. CASE Read(p)      BY <2>4 DEF Read
  <2>5. CASE Panic(p)     BY <2>5 DEF Panic
  <2>6. CASE Truncate(p)  BY <2>6 DEF Truncate
  <2>7. CASE Write(p)     BY <2>7 DEF Write
  <2>8. CASE Unlock(p)    BY <2>8 DEF Unlock
  <2>9. CASE Recover(p)   BY <2>9 DEF Recover
  <2>10. CASE Exit(p)     BY <2>10 DEF Exit
  <2>11. QED
    BY <1>2, <2>1, <2>2, <2>3, <2>4, <2>5, <2>6, <2>7, <2>8, <2>9, <2>10
    DEF Step
<1>3. ASSUME NEW p \in Procs, PanicOutside(p) PROVE LockHeld'
  BY <1>3 DEF PanicOutside
<1>4. CASE Restart        BY <1>4 DEF Restart
<1>5. CASE UNCHANGED vars BY <1>5 DEF vars
<1>6. QED BY <1>1, <1>2, <1>3, <1>4, <1>5 DEF Next

(* The content a goroutine works on stays the content of the file. *)
LEMMA NextFreshContent == IInv /\ [Next]_vars => FreshContent'
<1> SUFFICES ASSUME TypeOK, LockHeld, FreshContent, [Next]_vars
             PROVE  FreshContent'
  BY DEF IInv
<1> USE ConstantsAssumption
        DEF TypeOK, LockHeld, FreshContent, Locations, Critical, Goto
<1>1. ASSUME NEW p \in Procs, NEW kd \in {"set", "get"}, NEW k \in Keys,
             Begin(p, kd, k)
      PROVE  FreshContent'
  BY <1>1 DEF Begin
<1>2. ASSUME NEW p \in Procs, Step(p) PROVE FreshContent'
  <2>1. CASE Lock(p)      BY <2>1 DEF Lock
  <2>2. CASE Load(p)
    <3>1. ~Truncated
      BY <2>2 DEF Load, Truncated
    <3>2. QED BY <2>2, <3>1 DEF Load
  <2>3. CASE Edit(p)
    <3>1. ASSUME NEW q \in Procs, q # p
          PROVE  pc'[q] \notin {"call", "save", "write"}
      BY <2>3, <3>1 DEF Edit
    <3>2. pc'[p] # "call" /\ disk' = disk /\ key' = key /\ kind' = kind
      BY <2>3 DEF Edit
    <3>3. pc'[p] \in {"save", "write"} =>
            cfg'[p] = [disk EXCEPT ![key[p]] = @ + 1] /\ kind[p] = "set"
      <4>1. CASE pc'[p] = "unlock"
        BY <4>1
      <4>2. CASE cfg' = [cfg EXCEPT ![p][key[p]] = @ + 1]
        <5>1. cfg'[p] = [cfg[p] EXCEPT ![key[p]] = @ + 1]
          BY <4>2
        <5>2. cfg[p] = disk /\ kind[p] = "set"
          BY <2>3 DEF Edit
        <5>3. QED BY <5>1, <5>2
      <4>3. QED BY <2>3, <4>1, <4>2 DEF Edit
    <3>4. QED BY <3>1, <3>2, <3>3
  <2>4. CASE Read(p)      BY <2>4 DEF Read
  <2>5. CASE Panic(p)     BY <2>5 DEF Panic
  <2>6. CASE Truncate(p)  BY <2>6 DEF Truncate
  <2>7. CASE Write(p)
    <3>1. ASSUME NEW q \in Procs
          PROVE  pc'[q] \notin {"call", "save", "write"}
      BY <2>7 DEF Write
    <3>2. QED BY <3>1
  <2>8. CASE Unlock(p)    BY <2>8 DEF Unlock
  <2>9. CASE Recover(p)   BY <2>9 DEF Recover
  <2>10. CASE Exit(p)     BY <2>10 DEF Exit
  <2>11. QED
    BY <1>2, <2>1, <2>2, <2>3, <2>4, <2>5, <2>6, <2>7, <2>8, <2>9, <2>10
    DEF Step
<1>3. ASSUME NEW p \in Procs, PanicOutside(p) PROVE FreshContent'
  BY <1>3 DEF PanicOutside
<1>4. CASE Restart        BY <1>4 DEF Restart
<1>5. CASE UNCHANGED vars BY <1>5 DEF vars
<1>6. QED BY <1>1, <1>2, <1>3, <1>4, <1>5 DEF Next

(* The handler leaves an access only by the return of its Save or Cancel. *)
LEMMA NextHandler == IInv /\ [Next]_vars => HandlerInAccess'
<1> SUFFICES ASSUME TypeOK, LockHeld, HandlerInAccess, [Next]_vars
             PROVE  HandlerInAccess'
  BY DEF IInv
<1> USE ConstantsAssumption
        DEF TypeOK, LockHeld, HandlerInAccess, Locations, Critical, Goto
<1>1. ASSUME NEW p \in Procs, NEW kd \in {"set", "get"}, NEW k \in Keys,
             Begin(p, kd, k)
      PROVE  HandlerInAccess'
  BY <1>1 DEF Begin
<1>2. ASSUME NEW p \in Procs, Step(p) PROVE HandlerInAccess'
  <2>1. CASE Lock(p)      BY <2>1 DEF Lock
  <2>2. CASE Load(p)      BY <2>2 DEF Load
  <2>3. CASE Edit(p)      BY <2>3 DEF Edit
  <2>4. CASE Read(p)      BY <2>4 DEF Read
  <2>5. CASE Panic(p)     BY <2>5 DEF Panic
  <2>6. CASE Truncate(p)  BY <2>6 DEF Truncate
  <2>7. CASE Write(p)     BY <2>7 DEF Write
  <2>8. CASE Unlock(p)    BY <2>8 DEF Unlock
  <2>9. CASE Recover(p)   BY <2>9 DEF Recover
  <2>10. CASE Exit(p)     BY <2>10 DEF Exit
  <2>11. QED
    BY <1>2, <2>1, <2>2, <2>3, <2>4, <2>5, <2>6, <2>7, <2>8, <2>9, <2>10
    DEF Step
<1>3. ASSUME NEW p \in Procs, PanicOutside(p) PROVE HandlerInAccess'
  BY <1>3 DEF PanicOutside
<1>4. CASE Restart        BY <1>4 DEF Restart
<1>5. CASE UNCHANGED vars BY <1>5 DEF vars
<1>6. QED BY <1>1, <1>2, <1>3, <1>4, <1>5 DEF Next

(* The mutex stays with a goroutine out of an access after a panic only. *)
LEMMA NextRecovery == IInv /\ [Next]_vars => RecoveryWaitsForItself'
<1> SUFFICES ASSUME TypeOK, LockHeld, HandlerInAccess, RecoveryWaitsForItself,
                    [Next]_vars
             PROVE  RecoveryWaitsForItself'
  BY DEF IInv
<1> USE ConstantsAssumption
        DEF TypeOK, LockHeld, HandlerInAccess, RecoveryWaitsForItself,
            Locations, Critical, Goto
<1>1. ASSUME NEW p \in Procs, NEW kd \in {"set", "get"}, NEW k \in Keys,
             Begin(p, kd, k)
      PROVE  RecoveryWaitsForItself'
  BY <1>1 DEF Begin
<1>2. ASSUME NEW p \in Procs, Step(p) PROVE RecoveryWaitsForItself'
  <2>1. CASE Lock(p)      BY <2>1 DEF Lock
  <2>2. CASE Load(p)      BY <2>2 DEF Load
  <2>3. CASE Edit(p)      BY <2>3 DEF Edit
  <2>4. CASE Read(p)      BY <2>4 DEF Read
  <2>5. CASE Panic(p)     BY <2>5 DEF Panic
  <2>6. CASE Truncate(p)  BY <2>6 DEF Truncate
  <2>7. CASE Write(p)     BY <2>7 DEF Write
  <2>8. CASE Unlock(p)    BY <2>8 DEF Unlock
  <2>9. CASE Recover(p)   BY <2>9 DEF Recover
  <2>10. CASE Exit(p)     BY <2>10 DEF Exit
  <2>11. QED
    BY <1>2, <2>1, <2>2, <2>3, <2>4, <2>5, <2>6, <2>7, <2>8, <2>9, <2>10
    DEF Step
<1>3. ASSUME NEW p \in Procs, PanicOutside(p) PROVE RecoveryWaitsForItself'
  BY <1>3 DEF PanicOutside
<1>4. CASE Restart        BY <1>4 DEF Restart
<1>5. CASE UNCHANGED vars BY <1>5 DEF vars
<1>6. QED BY <1>1, <1>2, <1>3, <1>4, <1>5 DEF Next

LEMMA SpecIInv == Spec => []IInv
<1>1. IInv /\ [Next]_vars => IInv'
  BY NextTypeOK, NextLockHeld, NextFreshContent, NextHandler, NextRecovery
  DEF IInv
<1>2. QED BY InitIInv, <1>1, PTL DEF Spec

(* The variables keep their types, whatever panics or fails. *)
THEOREM TypeCorrect == Spec => []TypeOK
BY SpecIInv, PTL DEF IInv

(* Config files are touched by the holder of the mutex only. *)
THEOREM MutualExclusion == Spec => []LockHeld
BY SpecIInv, PTL DEF IInv

(* What is about to be saved is the current file plus one's own edit. *)
THEOREM SavesAreFresh == Spec => []FreshContent
BY SpecIInv, PTL DEF IInv

(* No file is parsed between its truncation and its rewriting. *)
THEOREM NeverTornRead == Spec => NoTornRead
<1>1. LockHeld /\ [Next]_vars
      => [\A p \in Procs : pc[p] = "load" /\ pc'[p] = "call" => ~Truncated]_vars
  BY DEF LockHeld, Truncated, Critical
<1>2. QED BY <1>1, MutualExclusion, PTL DEF Spec, NoTornRead

(* Only a goroutine that panicked keeps the mutex out of an access, and    *)
(* GoTry's handler makes it wait for itself.                               *)
THEOREM RecoveryDeadlocks == Spec => []RecoveryWaitsForItself
BY SpecIInv, PTL DEF IInv

(* After such a panic no configuration file changes until a restart.       *)
THEOREM AbandonedForever == Spec => AbandonedLockIsFinal
<1>1. IInv /\ [Next]_vars
      => [Abandoned => (up' => Abandoned') /\ disk' = disk]_vars
  <2> SUFFICES ASSUME TypeOK, LockHeld, Abandoned, [Next]_vars
               PROVE  (up' => Abandoned') /\ disk' = disk
    BY DEF IInv
  <2> USE DEF Abandoned, Critical
  <2>1. holder \in Procs /\ \A p \in Procs : pc[p] \notin Critical
    BY DEF TypeOK, LockHeld
  <2>2. ASSUME NEW p \in Procs, Step(p)
        PROVE  (up' => Abandoned') /\ disk' = disk
    <3>1. CASE Recover(p)
      BY <2>1, <3>1 DEF Recover, TypeOK, Goto
    <3>2. CASE Exit(p)
      BY <2>1, <3>2 DEF Exit, Truncated
    <3>3. CASE ~Recover(p) /\ ~Exit(p)
      BY <2>1, <2>2, <3>3
      DEF Step, Lock, Load, Edit, Read, Panic, Truncate, Write, Unlock
    <3>4. QED BY <3>1, <3>2, <3>3
  <2>3. ASSUME NEW p \in Procs, NEW kd \in {"set", "get"}, NEW k \in Keys,
               Begin(p, kd, k)
        PROVE  (up' => Abandoned') /\ disk' = disk
    BY <2>1, <2>3 DEF Begin, TypeOK, Goto
  <2>4. ASSUME NEW p \in Procs, PanicOutside(p)
        PROVE  (up' => Abandoned') /\ disk' = disk
    BY <2>1, <2>4 DEF PanicOutside, TypeOK, Goto
  <2>5. CASE Restart        BY <2>5 DEF Restart
  <2>6. CASE UNCHANGED vars BY <2>1, <2>6 DEF vars
  <2>7. QED BY <2>2, <2>3, <2>4, <2>5, <2>6 DEF Next
<1>2. QED BY <1>1, SpecIInv, PTL DEF Spec, AbandonedLockIsFinal

(***************************************************************************)
(* What a step does to the file, in any reachable state: nothing, one more *)
(* update of one key, or a part of that left by the goroutine that was     *)
(* writing it.  ConfStore and LossNeedsCutSave both follow.                *)
(***************************************************************************)
FileStep ==
  \/ disk' = disk
  \/ \E p \in Procs :
       /\ pc[p] = "write"
       /\ cfg[p] = [disk EXCEPT ![key[p]] = @ + 1]
       /\ \/ disk' = cfg[p]
          \/ /\ disk' \in CutsOf(cfg[p])
             /\ DiskFails \/ Panics
             /\ up' => DiskFails /\ pc'[p] = "unlock"

LEMMA FileSteps == IInv /\ [Next]_vars => FileStep
<1> SUFFICES ASSUME TypeOK, FreshContent, HandlerInAccess, [Next]_vars
             PROVE  FileStep
  BY DEF IInv
<1>1. ASSUME NEW p \in Procs, Step(p) PROVE FileStep
  <2>1. CASE Write(p)
    <3>1. pc[p] = "write" /\ cfg[p] = [disk EXCEPT ![key[p]] = @ + 1]
      BY <2>1 DEF Write, FreshContent
    <3>2. pc'[p] = "unlock"
      BY <2>1 DEF Write, Goto, TypeOK
    <3>3. disk' = cfg[p] \/ (DiskFails /\ disk' \in CutsOf(cfg[p]))
      BY <2>1 DEF Write
    <3>4. QED BY <3>1, <3>2, <3>3 DEF FileStep
  <2>2. CASE Exit(p)
    <3>1. CASE ~Truncated
      BY <2>2, <3>1 DEF Exit, FileStep
    <3>2. CASE Truncated
      <4>1. PICK q \in Procs : pc[q] = "write" /\ disk' \in CutsOf(cfg[q])
        BY <2>2, <3>2 DEF Exit
      <4>2. cfg[q] = [disk EXCEPT ![key[q]] = @ + 1]
        BY <4>1 DEF FreshContent
      <4>3. ~up' /\ pc[p] = "panic"
        BY <2>2 DEF Exit
      <4>4. Panics
        BY <4>3 DEF HandlerInAccess
      <4>5. QED BY <4>1, <4>2, <4>3, <4>4 DEF FileStep
    <3>3. QED BY <3>1, <3>2
  <2>3. CASE ~Write(p) /\ ~Exit(p)
    BY <1>1, <2>3
    DEF Step, Lock, Load, Edit, Read, Panic, Truncate, Unlock, Recover, FileStep
  <2>4. QED BY <2>1, <2>2, <2>3
<1>2. CASE \E p \in Procs, kd \in {"set", "get"}, c \in Keys : Begin(p, kd, c)
  BY <1>2 DEF Begin, FileStep
<1>3. CASE \E p \in Procs : PanicOutside(p)
  BY <1>3 DEF PanicOutside, FileStep
<1>4. CASE Restart        BY <1>4 DEF Restart, FileStep
<1>5. CASE UNCHANGED vars BY <1>5 DEF vars, FileStep
<1>6. QED BY <1>1, <1>2, <1>3, <1>4, <1>5 DEF Next

(* The locked read-modify-write of whole files implements atomic updates.  *)
THEOREM ImplementsConfStore == Spec => AtomicUpdates
<1>1. Init => Store!Init
  BY DEF Init, Store!Init, Empty, Store!Empty
<1>2. TypeOK /\ FileStep => [Store!Next]_disk
  BY SameCuts DEF TypeOK, FileStep, Store!Next, Store!Update, Store!Lose
<1>3. QED
  BY <1>1, <1>2, FileSteps, SpecIInv, PTL
  DEF Spec, AtomicUpdates, Store!Spec, IInv

(* A counter only goes back in a save that was cut short: the others write *)
(* the content they found and one more update.                             *)
THEOREM LossesAreCutSaves == Spec => LossNeedsCutSave
<1>1. TypeOK /\ FileStep => ((\E k \in Keys : disk'[k] < disk[k]) => CutSave)
  <2> SUFFICES ASSUME TypeOK, FileStep, NEW k \in Keys, disk'[k] < disk[k]
               PROVE  CutSave
    OBVIOUS
  <2>1. disk[k] \in Nat /\ disk' # disk
    BY DEF TypeOK
  <2>2. PICK p \in Procs :
          /\ pc[p] = "write"
          /\ cfg[p] = [disk EXCEPT ![key[p]] = @ + 1]
          /\ \/ disk' = cfg[p]
             \/ /\ disk' \in CutsOf(cfg[p])
                /\ up' => DiskFails /\ pc'[p] = "unlock"
    BY <2>1 DEF FileStep
  <2>3. cfg[p][k] \in {disk[k], disk[k] + 1}
    BY <2>2 DEF TypeOK
  <2>4. disk' # cfg[p]
    BY <2>1, <2>3
  <2>5. QED BY <2>2, <2>4 DEF CutSave
<1>2. IInv /\ [Next]_vars
      => [(\E k \in Keys : disk'[k] < disk[k]) => CutSave]_vars
  BY <1>1, FileSteps DEF IInv
<1>3. QED BY <1>2, SpecIInv, PTL DEF Spec, LossNeedsCutSave
=============================================================================
