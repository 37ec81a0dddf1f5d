------------------------------ MODULE AppletLoop ------------------------------
(***************************************************************************)
(* One applet: its events, its poller (libs/poller) and the actions it     *)
(* launches (libs/cdapplet/action), under each of its hosts:               *)
(*   "alone"    a program of its own (appdbus.StandAlone): one loop, where *)
(*              a timer stands for the poller's ticks;                     *)
(*   "service"  the applets service: one loop for events and ticks;        *)
(*   "dock"     the dock: events on its main thread, ticks in a goroutine. *)
(*                                                                         *)
(* A click runs Actions.Launch in a goroutine (GoTry), a menu entry or a   *)
(* shortkey in the loop.  A reload runs Init, SetDefaults and              *)
(* Poller.Restart in the loop.  An action may launch another or restart    *)
(* the poller.  Actions.Current and Poller.plop are shared without a lock. *)
(***************************************************************************)
EXTENDS Integers, FiniteSets

CONSTANTS
  Applets,     \* records [max, nest, stops]: Actions.Max, 0 is unlimited; levels
               \* of actions launched by actions; whether Init stops the poller
  Clicks,      \* goroutines of OnClick and the like
  Main,        \* the event loop, when it runs an action
  Delays,      \* poller intervals the user may set
  MaxPanics    \* bound: goroutines that panic in an action

ASSUME AppletAssumption ==
  /\ Applets \subseteq [max : Nat, nest : Nat, stops : BOOLEAN]
  /\ IsFiniteSet(Clicks) /\ Main \notin Clicks
  /\ Delays \subseteq Nat \ {0} /\ MaxPanics \in Nat

VARIABLES
  host, app,   \* where the applet runs and which it is
  recovers,    \* confown.Current.CrashRecovery, only ever set in the dock
  loop,        \* the event loop: "idle", "action", a step of a reload, "exited"
  tick,        \* step of Plop
  enabled,     \* Poller.enabled
  delay,       \* Poller.delay
  plop,        \* Poller.plop
  plopReg,     \* value read by plop++
  waiter,      \* StandAlone: a timer is running
  current,     \* Actions.Current
  at,          \* step of the innermost Launch of each thread
  depth,       \* number of Launch calls around it
  reg,         \* value of Current read by ++ or --
  leaked,      \* history variable: calls that panicked after ++ and before --
  since,       \* history variable: ticks since the last check was launched
  mixed        \* history variable: unlocked updates that overlapped, and
               \* "stopped" once a timer has fired with the poller disabled

setVars  == <<host, app, recovers>>
pollVars == <<enabled, delay, plop, plopReg, since>>
actVars  == <<current, at, depth, reg, leaked>>
vars     == <<setVars, loop, tick, pollVars, waiter, actVars, mixed>>

Threads == Clicks \cup {Main}
Steps   == {"off", "test", "inc", "incw", "call", "decw"}

\* Calls of Launch of thread t that count in Current.
Counted(t) == depth[t] + (IF at[t] \in {"call", "decw"} THEN 1 ELSE 0)
\* These calls, by thread and level; and how many they are.
Calls      == {c \in Threads \X (1..(app.nest + 1)) : c[2] <= Counted(c[1])}
Launched   == Cardinality(Calls)

\* The applet has been started: its first init has set the poller, and
\* StandAlone has called Wait.
Init ==
  /\ host \in {"alone", "service", "dock"} /\ app \in Applets
  /\ recovers \in IF host = "dock" THEN BOOLEAN ELSE {FALSE}
  /\ enabled \in IF app.stops THEN BOOLEAN ELSE {TRUE}
  /\ delay \in Delays /\ plop = 0 /\ plopReg = 0 /\ since = 0
  /\ waiter = (host = "alone" /\ enabled)
  /\ mixed = IF host = "alone" /\ ~enabled THEN {"stopped"} ELSE {}
  /\ loop = "idle" /\ tick = "idle" /\ current = 0 /\ leaked = 0
  /\ at = [t \in Threads |-> "off"] /\ depth = [t \in Threads |-> 0]
  /\ reg = [t \in Threads |-> 0]

\* The loop can take an event: in the service, a tick is one of its cases.
Free == loop = "idle" /\ (host = "service" => tick = "idle")

At(t, s) == at' = [at EXCEPT ![t] = s]

\* Launch returns, to the action around it or to its thread.
Return(t) ==
  /\ At(t, IF depth[t] > 0 THEN "call" ELSE "off")
  /\ depth' = [depth EXCEPT ![t] = IF @ > 0 THEN @ - 1 ELSE 0]
  /\ loop' = IF t = Main /\ depth[t] = 0 THEN "idle" ELSE loop

(***************************************************************************)
(* Poller.  The check it launches runs in a goroutine of its own and does  *)
(* not touch what is modelled here.                                        *)
(***************************************************************************)
\* Restart, called by the loop and by actions.
Restart ==
  /\ plop' = IF enabled THEN 0 ELSE plop
  /\ since' = IF enabled THEN 0 ELSE since
  /\ UNCHANGED <<enabled, delay, plopReg>>
Overlaps == IF enabled /\ tick = "write" THEN mixed \cup {"plop"} ELSE mixed

\* Plop, every second: plop++ is a read and a write.
TickRead ==
  /\ host # "alone" /\ tick = "idle" /\ enabled
  /\ host = "service" => loop = "idle"
  /\ loop # "exited"
  /\ plopReg' = plop
  /\ tick' = "write"
  /\ UNCHANGED <<setVars, loop, enabled, delay, plop, since, waiter, actVars, mixed>>

TickWrite ==
  /\ tick = "write" /\ loop # "exited"
  /\ plop' = plopReg + 1 /\ plopReg' = 0
  /\ since' = since + 1
  /\ tick' = "test"
  /\ UNCHANGED <<setVars, loop, enabled, delay, waiter, actVars, mixed>>

\* With a full counter, the check is launched.
TickTest ==
  /\ tick = "test" /\ loop # "exited"
  /\ \/ plop < delay /\ UNCHANGED <<plop, since>>
     \/ plop >= delay /\ plop' = 0 /\ since' = 0
  /\ tick' = "idle"
  /\ UNCHANGED <<setVars, loop, enabled, delay, plopReg, waiter, actVars, mixed>>

\* StandAlone: the timer has fired, Restart and Wait.
TimerFires ==
  /\ Free /\ waiter
  /\ Restart
  /\ waiter' = enabled
  /\ mixed' = IF enabled THEN mixed ELSE mixed \cup {"stopped"}
  /\ UNCHANGED <<setVars, loop, tick, actVars>>

(***************************************************************************)
(* Plausible faults, for the mutant runs.                                  *)
(***************************************************************************)
DecReadOld(t) ==             \* a nested call takes its caller off too
  /\ at[t] = "call"
  /\ reg' = [reg EXCEPT ![t] = current - depth[t]]
  /\ At(t, "decw")
  /\ UNCHANGED <<setVars, loop, tick, pollVars, waiter, current, depth, leaked, mixed>>

SetDefaultsNoRestart ==      \* the reload forgets to restart the poller
  /\ loop = "defaults"
  /\ delay' \in Delays
  /\ loop' = "idle"
  /\ UNCHANGED <<setVars, tick, enabled, plop, plopReg, since, waiter, actVars, mixed>>

(***************************************************************************)
(* on_reload_module: Init of the applet, which may start or stop the       *)
(* poller, SetDefaults, Restart.                                           *)
(***************************************************************************)
Reload ==
  /\ Free
  /\ enabled' \in IF app.stops THEN BOOLEAN ELSE {enabled}
  /\ loop' = "defaults"
  /\ UNCHANGED <<setVars, tick, delay, plop, plopReg, since, waiter, actVars, mixed>>

SetDefaults ==
  /\ loop = "defaults"
  /\ delay' \in Delays
  /\ loop' = "restart"
  /\ UNCHANGED <<setVars, tick, enabled, plop, plopReg, since, waiter, actVars, mixed>>

ReloadRestart ==
  /\ loop = "restart"
  /\ Restart
  /\ mixed' = Overlaps
  /\ loop' = "idle"
  /\ UNCHANGED <<setVars, tick, waiter, actVars>>

(***************************************************************************)
(* Actions.Launch, by thread t.                                            *)
(***************************************************************************)
\* A click: the loop starts a goroutine.
Click(t) ==
  /\ Free /\ t \in Clicks /\ at[t] = "off"
  /\ At(t, "test")
  /\ UNCHANGED <<setVars, loop, tick, pollVars, waiter, current, depth, reg, leaked, mixed>>

\* A menu entry or a shortkey: the loop runs the action.
MenuSelect ==
  /\ Free
  /\ loop' = "action"
  /\ At(Main, "test")
  /\ UNCHANGED <<setVars, tick, pollVars, waiter, current, depth, reg, leaked, mixed>>

\* An action without a call, or too many at work: nothing is done.
TestMax(t) ==
  /\ at[t] = "test"
  /\ \/ Return(t) /\ UNCHANGED mixed
     \/ /\ app.max > 0 => current < app.max
        /\ "count" \notin mixed     \* bound: nothing starts after an overlap
        /\ At(t, "inc")
        /\ mixed' = IF app.max > 0 /\ \E u \in Threads : at[u] \in {"inc", "incw"}
                      THEN mixed \cup {"count"} ELSE mixed
        /\ UNCHANGED <<depth, loop>>
  /\ UNCHANGED <<setVars, tick, pollVars, waiter, current, reg, leaked>>

\* Reading Current, maybe while another thread is about to write it.
ReadCurrent(t, s) ==
  /\ reg' = [reg EXCEPT ![t] = current]
  /\ mixed' = IF \E u \in Threads : at[u] \in {"incw", "decw"}
                THEN mixed \cup {"count"} ELSE mixed
  /\ At(t, s)
  /\ UNCHANGED <<setVars, loop, tick, pollVars, waiter, current, depth, leaked>>

WriteCurrent(t, n) ==
  /\ current' = reg[t] + n /\ reg' = [reg EXCEPT ![t] = 0]
  /\ UNCHANGED <<setVars, tick, pollVars, waiter, leaked, mixed>>

IncRead(t)  == at[t] = "inc" /\ ReadCurrent(t, "incw")
IncWrite(t) == at[t] = "incw" /\ WriteCurrent(t, 1) /\ At(t, "call") /\ UNCHANGED <<depth, loop>>

\* The action is over.
DecRead(t)  == at[t] = "call" /\ ReadCurrent(t, "decw")
DecWrite(t) == at[t] = "decw" /\ WriteCurrent(t, -1) /\ Return(t)

\* It launches another one.
CallLaunches(t) ==
  /\ at[t] = "call" /\ depth[t] < app.nest
  /\ depth' = [depth EXCEPT ![t] = @ + 1]
  /\ At(t, "test")
  /\ UNCHANGED <<setVars, loop, tick, pollVars, waiter, current, reg, leaked, mixed>>

\* It restarts the poller.
CallRestarts(t) ==
  /\ at[t] = "call"
  /\ Restart
  /\ mixed' = Overlaps
  /\ UNCHANGED <<setVars, loop, tick, waiter, actVars>>

\* It panics, in a goroutine: GoTry recovers, no call of Launch ends.
CallPanics(t) ==
  /\ at[t] = "call" /\ leaked < MaxPanics /\ t \in Clicks /\ recovers
  /\ leaked' = leaked + Counted(t)
  /\ at' = [at EXCEPT ![t] = "off"] /\ depth' = [depth EXCEPT ![t] = 0]
  /\ UNCHANGED <<setVars, loop, tick, pollVars, waiter, current, reg, mixed>>

\* It panics, in the loop or without CrashRecovery: the program ends.
PanicExits(t) ==
  /\ at[t] = "call" /\ (t = Main \/ ~recovers)
  /\ loop' = "exited"
  /\ UNCHANGED <<setVars, tick, pollVars, waiter, actVars, mixed>>

LoopStep == TimerFires \/ Reload \/ SetDefaults \/ ReloadRestart \/ MenuSelect
TickStep == TickRead \/ TickWrite \/ TickTest
ThreadStep(t) ==
  \/ Click(t) \/ TestMax(t) \/ IncRead(t) \/ IncWrite(t) \/ DecRead(t) \/ DecWrite(t)
  \/ CallLaunches(t) \/ CallRestarts(t) \/ CallPanics(t) \/ PanicExits(t)

Next == \/ LoopStep \/ TickStep
        \/ loop # "exited" /\ \E t \in Threads : ThreadStep(t)

Spec == Init /\ [][Next]_vars

(***************************************************************************)
(* Properties.                                                             *)
(***************************************************************************)
\* Each variable has its type; Current may fall below zero when updates of it
\* overlap (libs/cdapplet/action, libs/poller).
TypeOK ==
  /\ host \in {"alone", "service", "dock"} /\ app \in Applets
  /\ recovers \in BOOLEAN /\ enabled \in BOOLEAN /\ waiter \in BOOLEAN
  /\ loop \in {"idle", "action", "defaults", "restart", "exited"}
  /\ tick \in {"idle", "write", "test"}
  /\ delay \in Delays /\ plop \in Nat /\ plopReg \in Nat /\ since \in Nat
  /\ current \in Int /\ leaked \in Nat
  /\ at \in [Threads -> Steps] /\ depth \in [Threads -> Nat]
  /\ \A t \in Threads : depth[t] <= app.nest
  /\ reg \in [Threads -> Int]
  /\ mixed \subseteq {"count", "plop", "stopped"}

\* action.go:15 "Current number of active actions", 14 "Maximum number of concurrent
\* actions (simultaneous)": Current counts the actions at work, nested ones included,
\* and those lost in a panic, and there are never more than allowed, as long as no two
\* updates of it overlapped (Launch has no lock).
CountIsExact ==
  "count" \notin mixed =>
    /\ current = Launched + leaked
    /\ app.max > 0 => Launched <= app.max

\* Whatever reloads, stops and restarts came in between, an enabled poller
\* launches its check at the tick that completes the interval since the last
\* check, no sooner and no later, unless a restart fell into a tick; alone,
\* it has a timer running unless one fired while it was disabled (Plop,
\* Restart, StandAlone).
PollsInTime ==
  enabled /\ loop \in {"idle", "action"} =>
    /\ host # "alone" /\ tick = "idle" /\ "plop" \notin mixed => plop = since /\ since < delay
    /\ host = "alone" /\ "stopped" \notin mixed => waiter

(***************************************************************************)
(* Refuted: poller.go:162 "Start enable the polling ticker."               *)
(***************************************************************************)
\* Once Start has enabled the poller of a program of its own, it has a timer
\* running (StandAlone only waits again after a timer).
StartEnablesTicker == host = "alone" /\ enabled /\ loop = "idle" => waiter
=============================================================================
