--------------------------- MODULE AppletLoopProofs ---------------------------
(***************************************************************************)
(* Proofs about AppletLoop, for any applets, clicks and intervals: the     *)
(* types, when the poller checks, what a panic leaves behind, and how many *)
(* actions are at work as long as no two updates of their count overlap.   *)
(***************************************************************************)
EXTENDS AppletLoop, FiniteSetTheorems, FunctionTheorems, TLAPS

(***************************************************************************)
(* Types.                                                                  *)
(***************************************************************************)
LEMMA InitTypeOK == Init => TypeOK
<1> SUFFICES ASSUME Init PROVE TypeOK
  OBVIOUS
<1>1. /\ at \in [Threads -> Steps] /\ depth \in [Threads -> Nat] /\ reg \in [Threads -> Int]
  BY DEF Init, Steps
<1>2. app \in Applets /\ app.nest \in Nat /\ \A t \in Threads : depth[t] = 0
  BY AppletAssumption DEF Init
<1>3. \A t \in Threads : depth[t] <= app.nest
  BY <1>2
<1>4. /\ host \in {"alone", "service", "dock"} /\ recovers \in BOOLEAN /\ enabled \in BOOLEAN /\ waiter \in BOOLEAN
      /\ loop = "idle" /\ tick = "idle" /\ delay \in Delays /\ plop = 0 /\ plopReg = 0 /\ since = 0
      /\ current = 0 /\ leaked = 0 /\ mixed \subseteq {"count", "plop", "stopped"}
  BY DEF Init
<1>5. QED BY <1>1, <1>2, <1>3, <1>4 DEF TypeOK

LEMMA ReturnTypes ==
  ASSUME TypeOK, NEW t \in Threads, Return(t)
  PROVE  /\ at' \in [Threads -> Steps] /\ depth' \in [Threads -> Nat]
         /\ \A u \in Threads : depth'[u] <= app.nest
         /\ loop' \in {"idle", loop}
<1> USE AppletAssumption DEF TypeOK, Return, At, Steps
<1>1. app.nest \in Nat
  OBVIOUS
<1>2. at' \in [Threads -> Steps]
  <2>1. CASE depth[t] > 0      BY <2>1
  <2>2. CASE ~(depth[t] > 0)   BY <2>2
  <2>3. QED BY <2>1, <2>2
<1>3. depth' \in [Threads -> Nat] /\ \A u \in Threads : depth'[u] <= app.nest
  <2>1. CASE depth[t] > 0
    <3>1. depth' = [depth EXCEPT ![t] = depth[t] - 1] /\ depth[t] - 1 \in Nat
      BY <2>1
    <3>2. QED BY <1>1, <3>1
  <2>2. CASE ~(depth[t] > 0)
    <3>1. depth' = [depth EXCEPT ![t] = 0]
      BY <2>2
    <3>2. QED BY <1>1, <3>1
  <2>3. QED BY <2>1, <2>2
<1>4. QED BY <1>2, <1>3

LEMMA NextTypeOK == TypeOK /\ [Next]_vars => TypeOK'
<1> SUFFICES ASSUME TypeOK, [Next]_vars PROVE TypeOK'
  OBVIOUS
<1> USE AppletAssumption DEF setVars, pollVars, actVars
<1>0. 0 \in Nat /\ app.nest \in Nat
  BY DEF TypeOK
<1>1. CASE TickRead       BY <1>1 DEF TickRead, TypeOK
<1>2. CASE TickWrite      BY <1>2 DEF TickWrite, TypeOK
<1>3. CASE TickTest       BY <1>3 DEF TickTest, TypeOK
<1>4. CASE TimerFires     BY <1>4 DEF TimerFires, Restart, TypeOK
<1>5. CASE Reload         BY <1>5 DEF Reload, TypeOK
<1>6. CASE SetDefaults    BY <1>6 DEF SetDefaults, TypeOK
<1>7. CASE ReloadRestart  BY <1>7 DEF ReloadRestart, Restart, Overlaps, TypeOK
<1>8. CASE MenuSelect     BY <1>8 DEF MenuSelect, At, TypeOK, Threads, Steps
<1>9. ASSUME NEW t \in Threads, ThreadStep(t) PROVE TypeOK'
  <2> USE DEF Threads, Steps, At
  <2>1. CASE Click(t)        BY <2>1 DEF Click, TypeOK
  <2>2. CASE TestMax(t)
    <3>1. CASE Return(t) /\ UNCHANGED mixed
      BY <2>2, <3>1, ReturnTypes DEF TestMax, TypeOK
    <3>2. CASE ~(Return(t) /\ UNCHANGED mixed)
      BY <2>2, <3>2 DEF TestMax, TypeOK
    <3>3. QED BY <3>1, <3>2
  <2>3. CASE IncRead(t)      BY <2>3 DEF IncRead, ReadCurrent, TypeOK
  <2>4. CASE IncWrite(t)     BY <2>4 DEF IncWrite, WriteCurrent, TypeOK
  <2>5. CASE DecRead(t)      BY <2>5 DEF DecRead, ReadCurrent, TypeOK
  <2>6. CASE DecWrite(t)     BY <2>6, ReturnTypes DEF DecWrite, WriteCurrent, TypeOK
  <2>7. CASE CallLaunches(t)
    <3>1. depth' = [depth EXCEPT ![t] = depth[t] + 1] /\ depth[t] + 1 \in Nat /\ depth[t] + 1 <= app.nest
      BY <1>0, <2>7 DEF CallLaunches, TypeOK
    <3>2. depth' \in [Threads -> Nat] /\ \A u \in Threads : depth'[u] <= app.nest
      BY <3>1 DEF TypeOK
    <3>3. QED BY <2>7, <3>2 DEF CallLaunches, TypeOK
  <2>8. CASE CallRestarts(t) BY <2>8 DEF CallRestarts, Restart, Overlaps, TypeOK
  <2>9. CASE CallPanics(t)
    <3>1. Counted(t) \in Nat
      BY DEF Counted, TypeOK
    <3>2. QED BY <1>0, <2>9, <3>1 DEF CallPanics, TypeOK
  <2>10. CASE PanicExits(t)  BY <2>10 DEF PanicExits, TypeOK
  <2>11. QED
    BY <1>9, <2>1, <2>2, <2>3, <2>4, <2>5, <2>6, <2>7, <2>8, <2>9, <2>10 DEF ThreadStep
<1>10. CASE UNCHANGED vars
  BY <1>10 DEF vars, TypeOK
<1>11. QED
  BY <1>1, <1>2, <1>3, <1>4, <1>5, <1>6, <1>7, <1>8, <1>9, <1>10 DEF Next, LoopStep, TickStep

(***************************************************************************)
(* The poller. As long as no restart fell into a tick, its counter is the  *)
(* number of ticks since the last check, a tick that has read it included; *)
(* between two reloads it is below the interval before the tick.           *)
(***************************************************************************)
PInv ==
  /\ host = "alone" => tick = "idle"
  /\ at[Main] # "off" => loop \in {"action", "exited"}
  /\ waiter => host = "alone"
  /\ host = "alone" /\ "stopped" \notin mixed => waiter
  /\ "plop" \notin mixed =>
       /\ plop = since
       /\ tick = "write" => plopReg = plop
       /\ enabled /\ loop \in {"idle", "action"} /\ host # "alone" =>
            /\ tick # "test" => since < delay
            /\ tick = "test" => since <= delay

LEMMA InitPInv == Init => PInv
<1> SUFFICES ASSUME Init PROVE PInv
  OBVIOUS
<1>1. /\ tick = "idle" /\ plop = 0 /\ since = 0 /\ delay \in Nat \ {0} /\ at[Main] = "off"
  BY AppletAssumption DEF Init, Threads
<1>2. /\ waiter => host = "alone"
      /\ host = "alone" /\ "stopped" \notin mixed => waiter
  BY DEF Init
<1>3. QED BY <1>1, <1>2 DEF PInv

LEMMA NextPInv == TypeOK /\ PInv /\ [Next]_vars => PInv'
<1> SUFFICES ASSUME TypeOK, PInv, [Next]_vars PROVE PInv'
  OBVIOUS
<1> USE AppletAssumption DEF setVars, pollVars, actVars, PInv
<1>0. /\ plop \in Nat /\ since \in Nat /\ plopReg \in Nat /\ delay \in Nat \ {0}
      /\ loop \in {"idle", "action", "defaults", "restart", "exited"} /\ enabled \in BOOLEAN
      /\ tick \in {"idle", "write", "test"} /\ Main \in Threads
      /\ at \in [Threads -> Steps] /\ depth \in [Threads -> Nat]
  BY DEF TypeOK, Threads
<1>1. CASE TickRead       BY <1>0, <1>1 DEF TickRead
<1>2. CASE TickWrite      BY <1>0, <1>2 DEF TickWrite
<1>3. CASE TickTest       BY <1>0, <1>3 DEF TickTest
<1>4. CASE TimerFires
  <2>1. host = "alone" /\ tick = "idle" /\ waiter /\ loop = "idle" /\ UNCHANGED <<host, tick, loop, at>>
    BY <1>4 DEF TimerFires, Free
  <2>2. CASE enabled
    BY <1>0, <1>4, <2>1, <2>2 DEF TimerFires, Restart
  <2>3. CASE ~enabled
    BY <1>0, <1>4, <2>1, <2>3 DEF TimerFires, Restart
  <2>4. QED BY <2>2, <2>3
<1>5. CASE Reload         BY <1>0, <1>5 DEF Reload, Free
<1>6. CASE SetDefaults    BY <1>0, <1>6 DEF SetDefaults
<1>7. CASE ReloadRestart
  <2>1. CASE enabled /\ tick = "write"
    BY <1>0, <1>7, <2>1 DEF ReloadRestart, Restart, Overlaps
  <2>2. CASE enabled /\ tick # "write"
    BY <1>0, <1>7, <2>2 DEF ReloadRestart, Restart, Overlaps
  <2>3. CASE ~enabled
    BY <1>0, <1>7, <2>3 DEF ReloadRestart, Restart, Overlaps
  <2>4. QED BY <1>0, <2>1, <2>2, <2>3
<1>8. CASE MenuSelect     BY <1>0, <1>8 DEF MenuSelect, Free, At
<1>9. ASSUME NEW t \in Threads, ThreadStep(t), loop # "exited" PROVE PInv'
  <2>1. CASE CallRestarts(t)
    BY <1>0, <2>1 DEF CallRestarts, Restart, Overlaps
  <2>2. CASE ~CallRestarts(t)
    <3>1. UNCHANGED <<setVars, tick, pollVars, waiter>> /\ ("plop" \in mixed' <=> "plop" \in mixed)
          /\ ("stopped" \in mixed' <=> "stopped" \in mixed)
      BY <1>9, <2>2 DEF ThreadStep, Click, TestMax, IncRead, IncWrite, DecRead, DecWrite, CallLaunches,
                       CallPanics, PanicExits, ReadCurrent, WriteCurrent
    <3>2. /\ loop' \in {loop, "exited"} \/ (loop = "action" /\ loop' = "idle")
          /\ at'[Main] # "off" => loop' \in {"action", "exited"}
      <4>1. CASE PanicExits(t)
        BY <1>0, <1>9, <4>1 DEF PanicExits, actVars
      <4>2. CASE CallPanics(t)
        BY <1>0, <1>9, <4>2 DEF CallPanics
      <4>3. CASE Return(t) /\ at[t] # "off"
        BY <1>0, <1>9, <4>3 DEF Return, At
      <4>4. CASE loop' = loop /\ \E s \in Steps : at' = [at EXCEPT ![t] = s] /\ (t = Main => at[t] # "off")
        BY <1>0, <1>9, <4>4
      <4>5. QED
        BY <1>9, <2>2, <4>1, <4>2, <4>3, <4>4 DEF ThreadStep, Click, TestMax, IncRead, IncWrite, DecRead, DecWrite,
                       CallLaunches, ReadCurrent, WriteCurrent, At, Steps
    <3>3. QED BY <1>0, <3>1, <3>2
  <2>3. QED BY <2>1, <2>2
<1>10. CASE UNCHANGED vars
  BY <1>10 DEF vars
<1>11. QED
  BY <1>1, <1>2, <1>3, <1>4, <1>5, <1>6, <1>7, <1>8, <1>9, <1>10 DEF Next, LoopStep, TickStep

THEOREM TypeCorrect == Spec => []TypeOK
BY InitTypeOK, NextTypeOK, PTL DEF Spec

\* An enabled poller checks at the tick that completes its interval, no sooner and
\* no later, and a program of its own has a timer running, whatever reloads, stops
\* and restarts came before (Plop, Restart, StandAlone).
THEOREM ChecksInTime == Spec => []PollsInTime
<1>1. TypeOK /\ PInv => PollsInTime
  <2> SUFFICES ASSUME TypeOK, PInv PROVE PollsInTime
    OBVIOUS
  <2>1. plop \in Nat /\ since \in Nat /\ delay \in Nat \ {0}
    BY AppletAssumption DEF TypeOK
  <2>2. QED BY <2>1 DEF PInv, PollsInTime
<1>2. QED
  BY <1>1, InitTypeOK, NextTypeOK, InitPInv, NextPInv, PTL DEF Spec

(***************************************************************************)
(* The count of actions. A step changes the calls of one thread.           *)
(***************************************************************************)
OthersKeep(t) == app' = app /\ \A u \in Threads \ {t} : Counted(u)' = Counted(u)

LEMMA CountedType == TypeOK => \A t \in Threads : Counted(t) \in Nat /\ Counted(t) <= app.nest + 1
<1> SUFFICES ASSUME TypeOK, NEW t \in Threads PROVE Counted(t) \in Nat /\ Counted(t) <= app.nest + 1
  OBVIOUS
<1>1. depth[t] \in Nat /\ app.nest \in Nat /\ depth[t] <= app.nest
  BY AppletAssumption DEF TypeOK
<1> QED BY <1>1, SMT DEF Counted

LEMMA SameCalls ==
  ASSUME NEW t \in Threads, OthersKeep(t), Counted(t)' = Counted(t)
  PROVE  Calls' = Calls
BY DEF OthersKeep, Calls, Threads

LEMMA AddCall ==
  ASSUME TypeOK, NEW t \in Threads, OthersKeep(t), IsFiniteSet(Calls),
         Counted(t) <= app.nest, Counted(t)' = Counted(t) + 1
  PROVE  IsFiniteSet(Calls') /\ Launched' = Launched + 1
<1> DEFINE k == Counted(t)
<1>1. k \in Nat /\ app.nest \in Nat
  BY CountedType, AppletAssumption DEF TypeOK
<1>2. /\ k <= app.nest /\ Counted(t)' = k + 1
      /\ Calls = {c \in Threads \X (1..(app.nest + 1)) : c[2] <= Counted(c[1])}
      /\ Calls' = {c \in Threads \X (1..(app.nest + 1)) : c[2] <= Counted(c[1])'}
      /\ \A u \in Threads \ {t} : Counted(u)' = Counted(u)
  BY DEF Calls, OthersKeep, Threads
<1> HIDE DEF k
<1>3. ASSUME NEW c \in Threads \X (1..(app.nest + 1))
      PROVE  c \in Calls' <=> c \in Calls \/ c = <<t, k + 1>>
  <2>1. CASE c[1] = t
    <3>1. Counted(c[1]) = k /\ Counted(c[1])' = k + 1
      BY <1>2, <2>1 DEF k
    <3>2. c = <<t, c[2]>> /\ c[2] \in Nat
      BY <2>1
    <3>3. c[2] <= k + 1 <=> c[2] <= k \/ c[2] = k + 1
      BY <1>1, <3>2, SMT
    <3> QED BY <1>2, <3>1, <3>2, <3>3
  <2>2. CASE c[1] # t
    <3>1. Counted(c[1])' = Counted(c[1]) /\ c # <<t, k + 1>>
      BY <1>2, <2>2
    <3> QED BY <1>2, <3>1
  <2> QED BY <2>1, <2>2
<1>4. <<t, k + 1>> \in Threads \X (1..(app.nest + 1)) /\ <<t, k + 1>> \notin Calls
  <2>1. k + 1 \in 1..(app.nest + 1) /\ ~(k + 1 <= k)
    BY <1>1, <1>2, SMT
  <2> QED BY <1>2, <2>1 DEF k
<1>5. Calls' = Calls \cup {<<t, k + 1>>}
  BY <1>2, <1>3, <1>4
<1> QED BY <1>4, <1>5, FS_AddElement DEF Launched

LEMMA DropCalls ==
  ASSUME TypeOK, NEW t \in Threads, OthersKeep(t), IsFiniteSet(Calls),
         NEW n \in Nat, Counted(t)' = n, n <= Counted(t)
  PROVE  IsFiniteSet(Calls') /\ Launched' = Launched - (Counted(t) - n)
<1> DEFINE k == Counted(t)
           D == {<<t, i>> : i \in (n + 1)..k}
<1>1. k \in Nat /\ k <= app.nest + 1 /\ app.nest \in Nat /\ n <= k
  BY CountedType, AppletAssumption DEF TypeOK
<1>2. /\ Counted(t)' = n /\ Counted(t) = k
      /\ Calls = {c \in Threads \X (1..(app.nest + 1)) : c[2] <= Counted(c[1])}
      /\ Calls' = {c \in Threads \X (1..(app.nest + 1)) : c[2] <= Counted(c[1])'}
      /\ \A u \in Threads \ {t} : Counted(u)' = Counted(u)
  BY DEF Calls, OthersKeep, Threads
<1> HIDE DEF k
<1>3. ASSUME NEW c \in Threads \X (1..(app.nest + 1))
      PROVE  c \in Calls' <=> c \in Calls /\ c \notin D
  <2>1. CASE c[1] = t
    <3>1. c = <<t, c[2]>> /\ c[2] \in Nat
      BY <2>1
    <3>2. c \in D <=> c[2] \in (n + 1)..k
      BY <3>1
    <3>3. c[2] <= n <=> c[2] <= k /\ c[2] \notin (n + 1)..k
      BY <1>1, <3>1, SMT
    <3> QED BY <1>2, <2>1, <3>2, <3>3
  <2>2. CASE c[1] # t
    <3>1. Counted(c[1])' = Counted(c[1]) /\ c \notin D
      BY <1>2, <2>2
    <3> QED BY <1>2, <3>1
  <2> QED BY <2>1, <2>2
<1>4. D \subseteq Calls
  <2> SUFFICES ASSUME NEW i \in (n + 1)..k PROVE <<t, i>> \in Calls
    OBVIOUS
  <2>1. i \in 1..(app.nest + 1) /\ i <= k
    BY <1>1, SMT
  <2> QED BY <1>2, <2>1
<1>5. Calls' = Calls \ D
  BY <1>2, <1>3
<1>6. Cardinality(D) = k - n
  <2>1. [i \in (n + 1)..k |-> <<t, i>>] \in Bijection((n + 1)..k, D)
    BY DEF Bijection, Injection, Surjection, IsInjective
  <2>2. ExistsBijection((n + 1)..k, D)
    BY <2>1 DEF ExistsBijection
  <2>3. IsFiniteSet((n + 1)..k) /\ Cardinality((n + 1)..k) = k - n
    <3>1. n + 1 \in Int /\ k \in Int
      BY <1>1
    <3>2. IsFiniteSet((n + 1)..k) /\ Cardinality((n + 1)..k) = IF n + 1 > k THEN 0 ELSE k - (n + 1) + 1
      BY <3>1, FS_Interval
    <3> QED BY <1>1, <3>2, SMT
  <2> QED BY <2>2, <2>3, FS_Bijection
<1>7. Calls \cap D = D
  BY <1>4
<1>8. IsFiniteSet(Calls \ D) /\ Cardinality(Calls \ D) = Cardinality(Calls) - Cardinality(Calls \cap D)
  <2> HIDE DEF D
  <2> QED BY FS_Difference
<1> QED BY <1>2, <1>5, <1>6, <1>7, <1>8 DEF Launched

(***************************************************************************)
(* As long as no two updates overlapped, at most one thread is between the *)
(* read and the write of Current, and what it has read is still there; and *)
(* with a limit, at most one has passed the test and is not counted yet.   *)
(***************************************************************************)
Updating(t) == at[t] \in {"incw", "decw"}
Entering(t) == at[t] \in {"inc", "incw"}

OffIsOut == \A t \in Threads : at[t] = "off" => depth[t] = 0
Counts   == IsFiniteSet(Calls) /\ ("count" \notin mixed => current = Launched + leaked)
OneUpdate ==
  "count" \notin mixed =>
    \A t \in Threads : Updating(t) => reg[t] = current /\ \A u \in Threads : Updating(u) => u = t
OneEnters ==
  "count" \notin mixed /\ app.max > 0 =>
    /\ current <= app.max
    /\ \A t \in Threads : Entering(t) => current < app.max /\ \A u \in Threads : Entering(u) => u = t
CInv == OffIsOut /\ Counts /\ OneUpdate /\ OneEnters

LEMMA InitCInv == Init => CInv
<1> SUFFICES ASSUME Init PROVE CInv
  OBVIOUS
<1>1. /\ at = [t \in Threads |-> "off"] /\ depth = [t \in Threads |-> 0]
      /\ current = 0 /\ leaked = 0 /\ app.max \in Nat /\ app.nest \in Nat
  BY AppletAssumption DEF Init
<1>2. \A t \in Threads : Counted(t) = 0
  BY <1>1 DEF Counted
<1>3. Calls = {}
  BY <1>1, <1>2 DEF Calls
<1>4. IsFiniteSet(Calls) /\ Launched = 0
  BY <1>3, FS_EmptySet DEF Launched
<1> QED
  BY <1>1, <1>4 DEF CInv, OffIsOut, Counts, OneUpdate, OneEnters, Updating, Entering

\* A step that changes neither the count nor the calls, and lets nobody in.
LEMMA CallsStay ==
  ASSUME CInv, Calls' = Calls, UNCHANGED <<current, leaked, app, reg>>, OffIsOut',
         "count" \notin mixed' => "count" \notin mixed,
         \A t \in Threads : Updating(t)' => Updating(t),
         \A t \in Threads : Entering(t)' => Entering(t)
  PROVE  CInv'
<1>1. Counts'     BY DEF CInv, Counts, Launched
<1>2. OneUpdate'  BY DEF CInv, OneUpdate
<1>3. OneEnters'  BY DEF CInv, OneEnters
<1> QED BY <1>1, <1>2, <1>3 DEF CInv

LEMMA NextCInv == TypeOK /\ PInv /\ CInv /\ [Next]_vars => CInv'
<1> SUFFICES ASSUME TypeOK, PInv, CInv, [Next]_vars PROVE CInv'
  OBVIOUS
<1> USE DEF setVars, pollVars, actVars
<1>0. /\ Main \in Threads /\ Main \notin Clicks /\ app.max \in Nat /\ app.nest \in Nat /\ current \in Int /\ leaked \in Nat
      /\ at \in [Threads -> Steps] /\ depth \in [Threads -> Nat] /\ reg \in [Threads -> Int]
  BY AppletAssumption DEF TypeOK, Threads
<1>1. ASSUME UNCHANGED <<app, current, at, depth, reg, leaked>>, "count" \notin mixed' => "count" \notin mixed
      PROVE  CInv'
  <2>1. \A t \in Threads : Counted(t)' = Counted(t)
    BY <1>1 DEF Counted
  <2>2. Calls' = Calls
    BY <1>1, <2>1 DEF Calls, Threads
  <2>3. OffIsOut'
    BY <1>1 DEF CInv, OffIsOut
  <2> QED BY <1>1, <2>2, <2>3, CallsStay DEF Updating, Entering
<1>2. ASSUME NEW t \in Threads, NEW s \in Steps, At(t, s), UNCHANGED <<app, current, reg, leaked>>,
             "count" \notin mixed' => "count" \notin mixed,
             depth' \in [Threads -> Nat], \A u \in Threads \ {t} : depth'[u] = depth[u],
             Counted(t)' = Counted(t), s \notin {"inc", "incw", "decw"}, s = "off" => depth'[t] = 0
      PROVE  CInv'
  <2>1. /\ at'[t] = s /\ \A u \in Threads \ {t} : at'[u] = at[u]
    BY <1>0, <1>2 DEF At
  <2>2. OthersKeep(t)
    BY <1>2, <2>1 DEF OthersKeep, Counted
  <2>3. Calls' = Calls
    BY <1>2, <2>2, SameCalls
  <2>4. OffIsOut'
    BY <1>2, <2>1 DEF CInv, OffIsOut
  <2>5. \A u \in Threads : (Updating(u)' => Updating(u)) /\ (Entering(u)' => Entering(u))
    BY <1>2, <2>1 DEF Updating, Entering
  <2> QED BY <1>2, <2>3, <2>4, <2>5, CallsStay
<1>3. CASE LoopStep
  <2>1. CASE MenuSelect
    <3>1. at[Main] = "off" /\ depth[Main] = 0
      BY <1>0, <2>1 DEF MenuSelect, Free, PInv, CInv, OffIsOut
    <3>2. Counted(Main)' = Counted(Main)
      BY <1>0, <2>1, <3>1 DEF MenuSelect, At, Counted
    <3> QED BY <1>0, <1>2, <2>1, <3>2 DEF MenuSelect, Steps
  <2>2. CASE ~MenuSelect
    BY <1>1, <1>3, <2>2 DEF LoopStep, TimerFires, Reload, SetDefaults, ReloadRestart, Overlaps
  <2> QED BY <2>1, <2>2
<1>4. CASE TickStep
  BY <1>1, <1>4 DEF TickStep, TickRead, TickWrite, TickTest
<1>5. CASE UNCHANGED vars
  BY <1>1, <1>5 DEF vars
<1>6. ASSUME NEW t \in Threads, ThreadStep(t) PROVE CInv'
  <2>1. CASE Click(t)
    <3>1. Counted(t)' = Counted(t)
      BY <1>0, <2>1 DEF Click, At, Counted
    <3> QED BY <1>0, <1>2, <2>1, <3>1 DEF Click, Steps
  <2>2. CASE CallRestarts(t)
    BY <1>1, <2>2 DEF CallRestarts, Overlaps
  <2>3. CASE PanicExits(t)
    BY <1>1, <2>3 DEF PanicExits
  <2>4. CASE CallLaunches(t)
    <3>1. depth' \in [Threads -> Nat] /\ depth'[t] = depth[t] + 1 /\ \A u \in Threads \ {t} : depth'[u] = depth[u]
      BY <1>0, <2>4 DEF CallLaunches
    <3>2. Counted(t)' = Counted(t)
      BY <1>0, <2>4, <3>1 DEF CallLaunches, At, Counted
    <3> QED BY <1>0, <1>2, <2>4, <3>1, <3>2 DEF CallLaunches, Steps
  <2>5. CASE TestMax(t) /\ Return(t) /\ UNCHANGED mixed
    <3>1. /\ depth' \in [Threads -> Nat] /\ depth'[t] = (IF depth[t] > 0 THEN depth[t] - 1 ELSE 0)
          /\ \A u \in Threads \ {t} : depth'[u] = depth[u]
      <4>1. (IF depth[t] > 0 THEN depth[t] - 1 ELSE 0) \in Nat
        BY <1>0
      <4> QED BY <1>0, <2>5, <4>1 DEF Return
    <3>2. Counted(t)' = Counted(t)
      BY <1>0, <2>5, <3>1 DEF TestMax, Return, At, Counted
    <3>3. CASE depth[t] > 0
      BY <1>0, <1>2, <2>5, <3>1, <3>2, <3>3 DEF TestMax, Return, Steps
    <3>4. CASE ~(depth[t] > 0)
      BY <1>0, <1>2, <2>5, <3>1, <3>2, <3>4 DEF TestMax, Return, Steps
    <3> QED BY <3>3, <3>4
  <2>6. CASE TestMax(t) /\ ~(Return(t) /\ UNCHANGED mixed)
    <3>1. /\ at[t] = "test" /\ at'[t] = "inc" /\ (\A u \in Threads \ {t} : at'[u] = at[u])
          /\ app.max > 0 => current < app.max
          /\ "count" \notin mixed
          /\ "count" \notin mixed' /\ app.max > 0 => \A u \in Threads : ~Entering(u)
          /\ UNCHANGED <<app, current, leaked, depth, reg>>
      BY <1>0, <2>6 DEF TestMax, At, Entering
    <3>2. OthersKeep(t) /\ Counted(t)' = Counted(t)
      BY <3>1 DEF OthersKeep, Counted
    <3>3. Calls' = Calls
      BY <3>2, SameCalls
    <3>4. Counts' /\ OffIsOut'
      BY <3>1, <3>3 DEF CInv, Counts, OffIsOut, Launched
    <3>5. OneUpdate'
      BY <3>1 DEF CInv, OneUpdate, Updating
    <3>6. OneEnters'
      BY <3>1 DEF CInv, OneEnters, Entering
    <3> QED BY <3>4, <3>5, <3>6 DEF CInv
  <2>7. CASE IncRead(t) \/ DecRead(t)
    <3>1. /\ at[t] \in {"inc", "call"} /\ at'[t] = (IF at[t] = "inc" THEN "incw" ELSE "decw")
          /\ \A u \in Threads \ {t} : at'[u] = at[u] /\ reg'[u] = reg[u]
          /\ reg'[t] = current
          /\ "count" \notin mixed' => "count" \notin mixed /\ \A u \in Threads : ~Updating(u)
          /\ UNCHANGED <<app, current, leaked, depth>>
      BY <1>0, <2>7 DEF IncRead, DecRead, ReadCurrent, At, Updating
    <3>2. OthersKeep(t) /\ Counted(t)' = Counted(t)
      BY <3>1 DEF OthersKeep, Counted
    <3>3. Calls' = Calls
      BY <3>2, SameCalls
    <3>4. Counts' /\ OffIsOut'
      BY <3>1, <3>3 DEF CInv, Counts, OffIsOut, Launched
    <3>5. OneUpdate'
      BY <3>1 DEF CInv, OneUpdate, Updating
    <3>6. OneEnters'
      BY <3>1 DEF CInv, OneEnters, Entering
    <3> QED BY <3>4, <3>5, <3>6 DEF CInv
  <2>8. CASE IncWrite(t)
    <3>1. /\ at[t] = "incw" /\ at'[t] = "call" /\ (\A u \in Threads \ {t} : at'[u] = at[u] /\ reg'[u] = reg[u])
          /\ current' = reg[t] + 1
          /\ UNCHANGED <<app, leaked, depth, mixed>>
      BY <1>0, <2>8 DEF IncWrite, WriteCurrent, At
    <3>2. OthersKeep(t) /\ Counted(t)' = Counted(t) + 1 /\ Counted(t) <= app.nest
      BY <1>0, <3>1 DEF OthersKeep, Counted, TypeOK
    <3>3. IsFiniteSet(Calls') /\ Launched' = Launched + 1
      BY <3>2, AddCall DEF CInv, Counts
    <3>4. "count" \notin mixed =>
            /\ reg[t] = current /\ current = Launched + leaked
            /\ \A u \in Threads \ {t} : ~Updating(u)
            /\ app.max > 0 => current < app.max /\ \A u \in Threads \ {t} : ~Entering(u)
      BY <3>1 DEF CInv, Counts, OneUpdate, OneEnters, Updating, Entering
    <3>5. Launched \in Nat
      BY FS_CardinalityType DEF CInv, Counts, Launched
    <3>6. Counts' /\ OffIsOut'
      <4>1. "count" \notin mixed => current' = Launched + 1 + leaked
        BY <1>0, <3>1, <3>4, <3>5
      <4> QED BY <3>1, <3>3, <4>1 DEF CInv, Counts, OffIsOut
    <3>7. OneUpdate'
      BY <3>1, <3>4 DEF OneUpdate, Updating
    <3>8. OneEnters'
      BY <1>0, <3>1, <3>4 DEF OneEnters, Entering
    <3> QED BY <3>6, <3>7, <3>8 DEF CInv
  <2>9. CASE DecWrite(t)
    <3>1. /\ at[t] = "decw" /\ at'[t] \in {"call", "off"} /\ (at'[t] = "call" <=> depth[t] > 0)
          /\ (\A u \in Threads \ {t} : at'[u] = at[u] /\ reg'[u] = reg[u] /\ depth'[u] = depth[u])
          /\ depth'[t] = (IF depth[t] > 0 THEN depth[t] - 1 ELSE 0)
          /\ current' = reg[t] - 1
          /\ UNCHANGED <<app, leaked, mixed>>
      BY <1>0, <2>9 DEF DecWrite, WriteCurrent, Return, At
    <3>2. OthersKeep(t) /\ Counted(t) = depth[t] + 1 /\ Counted(t)' = depth[t] /\ depth[t] \in Nat
      BY <1>0, <3>1 DEF OthersKeep, Counted
    <3>3. IsFiniteSet(Calls') /\ Launched' = Launched - (Counted(t) - depth[t])
      BY <3>2, DropCalls DEF CInv, Counts
    <3>4. "count" \notin mixed =>
            /\ reg[t] = current /\ current = Launched + leaked
            /\ \A u \in Threads \ {t} : ~Updating(u)
      BY <3>1 DEF CInv, Counts, OneUpdate, Updating
    <3>5. Launched \in Nat
      BY FS_CardinalityType DEF CInv, Counts, Launched
    <3>6. Counts' /\ OffIsOut'
      <4>1. Launched' = Launched - 1
        BY <3>2, <3>3, <3>5
      <4>2. "count" \notin mixed => current' = (Launched - 1) + leaked
        BY <1>0, <3>1, <3>4, <3>5
      <4>3. \A u \in Threads : at'[u] = "off" => depth'[u] = 0
        BY <1>0, <3>1 DEF CInv, OffIsOut
      <4> QED BY <3>1, <3>3, <4>1, <4>2, <4>3 DEF Counts, OffIsOut, Threads
    <3>7. OneUpdate'
      BY <3>1, <3>4 DEF OneUpdate, Updating
    <3>8. OneEnters'
      BY <1>0, <3>1, <3>4 DEF CInv, OneEnters, Entering
    <3> QED BY <3>6, <3>7, <3>8 DEF CInv
  <2>10. CASE CallPanics(t)
    <3>1. /\ at[t] = "call" /\ at'[t] = "off" /\ depth'[t] = 0
          /\ (\A u \in Threads \ {t} : at'[u] = at[u] /\ depth'[u] = depth[u])
          /\ leaked' = leaked + Counted(t)
          /\ UNCHANGED <<app, current, reg, mixed>>
      BY <1>0, <2>10 DEF CallPanics
    <3>2. OthersKeep(t) /\ Counted(t)' = 0 /\ Counted(t) \in Nat
      BY <1>0, <3>1 DEF OthersKeep, Counted
    <3>3. IsFiniteSet(Calls') /\ Launched' = Launched - (Counted(t) - 0)
      BY <3>2, DropCalls DEF CInv, Counts
    <3>4. Launched \in Nat
      BY FS_CardinalityType DEF CInv, Counts, Launched
    <3>5. Counts' /\ OffIsOut'
      <4>1. "count" \notin mixed => current = (Launched - (Counted(t) - 0)) + leaked'
        BY <1>0, <3>1, <3>2, <3>4 DEF CInv, Counts
      <4>2. \A u \in Threads : at'[u] = "off" => depth'[u] = 0
        BY <3>1 DEF CInv, OffIsOut
      <4> QED BY <3>1, <3>3, <4>1, <4>2 DEF Counts, OffIsOut, Threads
    <3>6. OneUpdate'
      BY <3>1 DEF CInv, OneUpdate, Updating
    <3>7. OneEnters'
      BY <3>1 DEF CInv, OneEnters, Entering
    <3> QED BY <3>5, <3>6, <3>7 DEF CInv
  <2> QED
    BY <1>6, <2>1, <2>2, <2>3, <2>4, <2>5, <2>6, <2>7, <2>8, <2>9, <2>10 DEF ThreadStep
<1> QED
  BY <1>3, <1>4, <1>5, <1>6 DEF Next

\* Current counts the actions at work, the nested ones and those lost in a panic
\* included, and never more than the limit are at work, as long as no two updates
\* of Current overlapped (Actions.Launch).
THEOREM CurrentCounts == Spec => []CountIsExact
<1>1. TypeOK /\ CInv => CountIsExact
  <2> SUFFICES ASSUME TypeOK, CInv, "count" \notin mixed
               PROVE  current = Launched + leaked /\ (app.max > 0 => Launched <= app.max)
    BY DEF CountIsExact
  <2>1. Launched \in Nat /\ current = Launched + leaked /\ leaked \in Nat /\ (app.max > 0 => current <= app.max)
    BY FS_CardinalityType DEF CInv, Counts, OneEnters, Launched, TypeOK
  <2>2. app.max \in Nat
    BY AppletAssumption DEF TypeOK
  <2> QED BY <2>1, <2>2
<1>2. QED
  BY <1>1, InitTypeOK, NextTypeOK, InitPInv, NextPInv, InitCInv, NextCInv, PTL DEF Spec

=============================================================================
