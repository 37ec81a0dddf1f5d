------------------------------ MODULE DockApplets ------------------------------
(***************************************************************************)
(* The Go applets that run inside the dock: their manager                  *)
(* (libs/gldi/mgrgldi), the backend that lets their goroutines draw        *)
(* (libs/gldi/appgldi) and the ticker that polls them.                     *)
(*                                                                         *)
(* Three kinds of threads: the main loop of GTK, which starts and stops    *)
(* applets, receives the focus changes and flushes the list of calls to    *)
(* draw; the ticker; and the goroutines of the applets.                    *)
(***************************************************************************)
EXTENDS Integers, Sequences, FiniteSets

CONSTANTS
  Apps,      \* modules of the dock
  Addrs,     \* addresses their icons may get
  MaxStarts, \* bound: starts of applets
  MaxCalls,  \* bound: calls to addIdle
  MaxEvents  \* bound: focus changes

None == 0
Insts == 1..MaxStarts
ASSUME DockAssumption == None \notin Addrs /\ {MaxStarts, MaxCalls, MaxEvents} \subseteq Nat

VARIABLES
  module,     \* instance of each module, None
  icon,       \* address of the icon of each instance
  freed,      \* instances whose icon is freed
  actives,    \* table of the manager: instance known for an address, None
  writing,    \* the table is being written
  activeIcon, \* address of the icon that has the focus, None
  got,        \* last focus event an instance received
  unpaired,   \* instances that lost a focus they did not have, or gained it twice
  starts,     \* instances so far
  left,       \* addresses the ticker has to visit
  acting,     \* instances with a running goroutine
  idleDraw, idleRun,  \* list of calls, the flusher is running
  sources,    \* callbacks registered in GTK
  pc, todraw, \* the flusher in the main loop
  added, ran, \* all calls, those that were run
  index,      \* sub-icons in the index of an instance
  shown,      \* sub-icons in the dock
  clearing,   \* instances whose goroutine removes all its sub-icons
  late,       \* sub-icons that were removed while their insertion still waited
  up,         \* the dock runs
  events

tableVars == <<module, icon, freed, actives, writing, starts>>
focusVars == <<activeIcon, got, unpaired>>
idleVars  == <<idleDraw, idleRun, sources, added>>
flushVars == <<pc, todraw, ran>>
subVars   == <<index, shown, clearing, late>>
vars == <<tableVars, focusVars, left, acting, idleVars, flushVars, subVars, up, events>>

Init ==
  /\ module = [a \in Apps |-> None] /\ icon = [i \in Insts |-> None] /\ freed = {}
  /\ actives = [x \in Addrs |-> None] /\ writing = FALSE /\ starts = 0
  /\ activeIcon = None /\ got = [i \in Insts |-> FALSE] /\ unpaired = {}
  /\ left = {} /\ acting = {}
  /\ idleDraw = <<>> /\ idleRun = FALSE /\ sources = 0 /\ added = <<>>
  /\ pc = "loop" /\ todraw = <<>> /\ ran = <<>>
  /\ index = [i \in Insts |-> {}] /\ shown = {} /\ clearing = {} /\ late = {}
  /\ up = TRUE /\ events = 0

InLoop == up /\ pc = "loop" /\ ~writing
Live == (1..starts) \ freed
Icons == {icon[i] : i \in Live}
Event == events < MaxEvents /\ events' = events + 1

(***************************************************************************)
(* Plausible faults, for the mutant runs.                                  *)
(***************************************************************************)
TakeKeeps ==             \* the list is not emptied when it is taken
  /\ up /\ pc = "take" /\ todraw' = idleDraw /\ pc' = "run"
  /\ UNCHANGED <<tableVars, focusVars, left, acting, idleVars, ran, subVars, up, events>>
KeepFocus(x) == x        \* activeIcon is not reset
RemovedFromDock(i, n) == index[i] \* the index keeps a sub-icon that was removed

(***************************************************************************)
(* The manager, in the main loop.                                          *)
(***************************************************************************)
\* startApplet: the module is active in the dock even when the applet failed; the
\* table is written last.
StartApplet(a, x, ok) ==
  /\ InLoop /\ module[a] = None /\ starts < MaxStarts /\ x \notin Icons
  /\ LET i == starts + 1
     IN /\ starts' = i /\ module' = [module EXCEPT ![a] = i] /\ icon' = [icon EXCEPT ![i] = x]
        /\ actives' = IF ok THEN [actives EXCEPT ![x] = i] ELSE actives
        /\ acting' = IF ok THEN acting \cup {i} ELSE acting
  /\ writing' = ok /\ UNCHANGED freed
  /\ UNCHANGED <<focusVars, left, idleVars, flushVars, subVars, up, events>>

\* stopApplet: the applet may end its work in a goroutine, then the dock frees the
\* icon and its sub-icons.
StopApplet(a) ==
  /\ InLoop /\ module[a] # None
  /\ LET i == module[a]
     IN /\ actives' = [actives EXCEPT ![icon[i]] = None]
        /\ freed' = freed \cup {i}
        /\ shown' = {s \in shown : s.inst # i}
  /\ module' = [module EXCEPT ![a] = None] /\ writing' = TRUE
  /\ UNCHANGED <<icon, starts, focusVars, left, acting, idleVars, flushVars, index, clearing, late, up, events>>

TableWritten ==
  /\ up /\ writing /\ writing' = FALSE
  /\ UNCHANGED <<module, icon, freed, actives, starts, focusVars, left, acting, idleVars, flushVars, subVars, up, events>>

\* sendApp of on_change_focus to the applet the table has for the address.
Sent(g, bad, x, gain) ==
  LET i == actives[x]
  IN IF i = None THEN [got |-> g, bad |-> bad]
     ELSE [got |-> [g EXCEPT ![i] = gain], bad |-> IF g[i] = gain THEN bad \cup {i} ELSE bad]
Reset(x) == None

OnChangeFocus(x) ==
  /\ InLoop /\ Event /\ x \in Icons \cup {None}
  /\ LET lost == IF activeIcon = None THEN [got |-> got, bad |-> unpaired]
                 ELSE Sent(got, unpaired, activeIcon, FALSE)
         gain == IF x = None THEN lost ELSE Sent(lost.got, lost.bad, x, TRUE)
     IN got' = gain.got /\ unpaired' = gain.bad
  /\ activeIcon' = IF x = None THEN Reset(activeIcon) ELSE x
  /\ UNCHANGED <<tableVars, left, acting, idleVars, flushVars, subVars, up>>

(***************************************************************************)
(* The ticker: StartLoop ranges over the table.                            *)
(***************************************************************************)
Tick ==
  /\ up /\ left = {} /\ left' = {x \in Addrs : actives[x] # None}
  /\ UNCHANGED <<tableVars, focusVars, acting, idleVars, flushVars, subVars, up, events>>
\* A table that is being written may be detected, which ends the program.
Plop(x) ==
  /\ up /\ x \in left /\ left' = left \ {x}
  /\ \/ /\ acting' = IF actives[x] = None THEN acting ELSE acting \cup {actives[x]}
        /\ UNCHANGED up
     \/ writing /\ up' = FALSE /\ UNCHANGED acting
  /\ UNCHANGED <<tableVars, focusVars, idleVars, flushVars, subVars, events>>

(***************************************************************************)
(* Goroutines of the applets: appgldi.                                     *)
(***************************************************************************)
\* The list and the flag are changed under idleMu.
addIdle(call) ==
  /\ idleDraw' = Append(idleDraw, call) /\ added' = Append(added, call)
  /\ idleRun' = TRUE /\ sources' = IF idleRun THEN sources ELSE sources + 1

Acts(i) == up /\ i \in acting
CanAdd == Len(added) < MaxCalls
\* A use of the icon of a stopped applet, or of a freed sub-icon, reads freed memory.
Uses(isFreed) == up' \in (IF isFreed THEN BOOLEAN ELSE {TRUE})
Sub(i, n) == [inst |-> i, sub |-> n]

\* SetIcon, SetLabel, SetEmblem, Render, PopupDialog...
Draw(i) ==
  /\ Acts(i) /\ i \notin clearing /\ CanAdd /\ addIdle(Sub(i, 0))
  /\ UNCHANGED <<tableVars, focusVars, left, acting, flushVars, subVars, up, events>>
\* The sub-icon is created and indexed at once, and inserted by the main loop.
AddSubIcon(i) ==
  /\ Acts(i) /\ i \notin clearing /\ CanAdd /\ Uses(i \in freed)
  /\ LET n == Len(added) + 1
     IN index' = [index EXCEPT ![i] = @ \cup {n}] /\ addIdle(Sub(i, n))
  /\ UNCHANGED <<tableVars, focusVars, left, acting, flushVars, shown, clearing, late, events>>

\* A sub-icon is freed at once, by the goroutine, even when its insertion is still to
\* come; with a stopped applet the dock freed it before.
Unindexed(i, n) == index[i] \ {n}
RemoveSubIcon(i, n) ==
  /\ Acts(i) /\ n \in index[i] /\ Uses(i \in freed)
  /\ index' = [index EXCEPT ![i] = Unindexed(i, n)]
  /\ shown' = shown \ {Sub(i, n)}
  /\ late' = IF Sub(i, n) \in shown THEN late ELSE late \cup {<<i, n>>}
  /\ clearing' = IF index'[i] = {} THEN clearing \ {i} ELSE clearing
  /\ UNCHANGED <<tableVars, focusVars, left, acting, idleVars, flushVars, events>>
\* One by one: calls run and applets stop between two removals.
RemoveSubIcons(i) ==
  /\ Acts(i) /\ i \notin clearing /\ index[i] # {} /\ clearing' = clearing \cup {i}
  /\ UNCHANGED <<tableVars, focusVars, left, acting, idleVars, flushVars, index, shown, late, up, events>>
ActionEnds(i) ==
  /\ Acts(i) /\ i \notin clearing /\ acting' = acting \ {i}
  /\ UNCHANGED <<tableVars, focusVars, left, idleVars, flushVars, subVars, up, events>>

(***************************************************************************)
(* callIdle, in the main loop.                                             *)
(***************************************************************************)
CallIdle ==
  /\ InLoop /\ sources > 0 /\ sources' = sources - 1 /\ pc' = "test"
  /\ UNCHANGED <<tableVars, focusVars, left, acting, idleDraw, idleRun, added, todraw, ran, subVars, up, events>>
\* The list is tested without the lock.
Test ==
  /\ up /\ pc = "test" /\ pc' = IF idleDraw # <<>> THEN "take" ELSE "clear"
  /\ UNCHANGED <<tableVars, focusVars, left, acting, idleVars, todraw, ran, subVars, up, events>>
Take ==
  /\ up /\ pc = "take" /\ todraw' = idleDraw /\ idleDraw' = <<>> /\ pc' = "run"
  /\ UNCHANGED <<tableVars, focusVars, left, acting, idleRun, sources, added, ran, subVars, up, events>>
\* A call may use the icon of a stopped applet or a freed sub-icon. When that does
\* not end the program the freed sub-icon may be put in the dock.
RunCall ==
  /\ up /\ pc = "run" /\ todraw # <<>>
  /\ LET call == Head(todraw)
         gone == call.inst \in freed
         lost == call.sub # 0 /\ call.sub \notin index[call.inst]
     IN /\ ran' = Append(ran, call) /\ todraw' = Tail(todraw) /\ Uses(gone \/ lost)
        /\ \/ shown' = shown \cup {call} /\ call.sub # 0 /\ ~gone
           \/ shown' = shown /\ (call.sub = 0 \/ gone \/ lost)
  /\ UNCHANGED <<tableVars, focusVars, left, acting, idleVars, pc, index, clearing, late, events>>
RunEnd ==
  /\ up /\ pc = "run" /\ todraw = <<>> /\ pc' = "test"
  /\ UNCHANGED <<tableVars, focusVars, left, acting, idleVars, todraw, ran, subVars, up, events>>
ClearRun ==
  /\ up /\ pc = "clear" /\ idleRun' = FALSE /\ pc' = "loop"
  /\ UNCHANGED <<tableVars, focusVars, left, acting, idleDraw, sources, added, todraw, ran, subVars, up, events>>

Flush == CallIdle \/ Test \/ Take \/ RunCall \/ RunEnd \/ ClearRun
Next ==
  \/ \E a \in Apps : StopApplet(a) \/ \E x \in Addrs, ok \in BOOLEAN : StartApplet(a, x, ok)
  \/ TableWritten
  \/ \E x \in Addrs \cup {None} : OnChangeFocus(x)
  \/ Tick \/ \E x \in Addrs : Plop(x)
  \/ \E i \in Insts : Draw(i) \/ AddSubIcon(i) \/ RemoveSubIcons(i) \/ ActionEnds(i)
  \/ \E i \in Insts, n \in 1..MaxCalls : RemoveSubIcon(i, n)
  \/ Flush

\* GTK runs its callbacks, and a callback goes on.
Spec == Init /\ [][Next]_vars /\ WF_vars(Flush) /\ WF_vars(TableWritten)

(***************************************************************************)
(* Properties.                                                             *)
(***************************************************************************)
\* No call to draw is lost, run twice or overtaken, whatever goroutines add calls
\* while the main loop flushes the list.
CallsKeepTheirOrder == added = ran \o todraw \o idleDraw

\* An applet loses the focus it was told it had, once, and only then: unless its
\* icon got the address of the icon of an applet that stopped with the focus.
FocusIsPaired ==
  \A i \in unpaired : \E j \in freed : j < i /\ icon[j] = icon[i]

\* The dock and the index of an applet agree on its sub-icons at every moment, also
\* in the middle of RemoveSubIcons: what the index alone has waits for its insertion,
\* and what the dock alone has, memory that is freed, was removed by the applet while
\* its insertion waited.
Dock == {<<s.inst, s.sub>> : s \in shown}
Table == UNION {{i} \X index[i] : i \in Live}
Waits(call, list) == \E k \in DOMAIN list : list[k] = call
SubIconsAgree ==
  up => /\ Dock \ Table \subseteq late
        /\ \A s \in Table \ Dock : Waits(Sub(s[1], s[2]), todraw) \/ Waits(Sub(s[1], s[2]), idleDraw)

\* callIdle "will also process calls received while running, and stops only when
\* idleDraw is really empty" (appgldi.go:531-532).
StopsOnlyWhenEmpty == pc = "loop" /\ ~idleRun => idleDraw = <<>>
================================================================================
