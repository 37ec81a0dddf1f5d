------------------------------- MODULE DockMouse -------------------------------
(***************************************************************************)
(* Mouse events on the icons of the docks: libs/dock/eventmouse, and the   *)
(* applets manager that gets each event before it (libs/gldi/mgrgldi).     *)
(* Everything runs in the main loop. Icons, windows and sub-docks are      *)
(* those of the Cairo-Dock library, used through libs/gldi.                *)
(***************************************************************************)
EXTENDS Integers, FiniteSets, Sequences, SequencesExt

CONSTANTS
  NbIcons,   \* icons at a time, in the order of the dock
  NbDesktops \* desktops
DockIcons == 1..NbIcons
NoIcon == 0
ASSUME MouseAssumption == NbIcons \in Nat /\ NbDesktops \in Nat \ {0}

VARIABLES
  kind,   \* what each icon is, "none" when it is not in a dock
  owner,  \* the icon whose sub-dock holds it, NoIcon
  win,    \* window it controls: "none", "active", "shown" or "hidden"
  started,\* applets that started
  desk,   \* current desktop
  dockUp  \* the dock runs
iconVars == <<kind, owner, win, started>>
mouseVars == <<iconVars, desk, dockUp>>

Holds == {<<"stack", "launcher">>, <<"stack", "separator">>, <<"class", "appli">>, <<"applet", "subicon">>}
Members(i) == {j \in DockIcons : kind[j] # "none" /\ owner[j] = i}
IsIn(i) == kind[i] # "none"
IsAppli(i) == win[i] # "none"
IsMulti(i) == kind[i] = "class"
HasSub(i) == Members(i) # {}
Ordered(S) == SetToSortSeq(S, <)

(***************************************************************************)
(* Windows: a window that is shown takes the focus.                        *)
(***************************************************************************)
ShowOne(j) ==
  [i \in DockIcons |-> IF i = j THEN "active" ELSE IF win[i] = "active" THEN "shown" ELSE win[i]]
\* The last of several windows has the focus.
ShowAll(S) ==
  IF S = {} THEN win
  ELSE [i \in DockIcons |-> IF i = Last(Ordered(S)) THEN "active"
                        ELSE IF i \in S \/ win[i] = "active" THEN "shown" ELSE win[i]]
Hide(S) == [i \in DockIcons |-> IF i \in S THEN "hidden" ELSE win[i]]
SubWindows(i) == {j \in Members(i) : IsAppli(j)}

(***************************************************************************)
(* Who gets an event: the applet of the icon, or of the icon of its        *)
(* sub-dock, intercepts it when it is started.                             *)
(***************************************************************************)
appIcon(i) == IF owner[i] # NoIcon /\ kind[i] # "applet" THEN owner[i] ELSE i
Served(i) == IF i # NoIcon /\ appIcon(i) \in started THEN appIcon(i) ELSE NoIcon
Chain(i) == Served(i) = NoIcon
\* Handled by the applet alone, or by the dock with what its action does to windows.
Handled(i, windows) == win' = IF Chain(i) THEN windows ELSE win

(***************************************************************************)
(* Left click. The settings may be changed between two events.             *)
(***************************************************************************)
ClickSettings == [present : BOOLEAN, onClick : BOOLEAN, minimize : BOOLEAN]
ClickAct(i, modified, s, visible, presents) ==
  IF modified
  THEN IF kind[i] \in {"launcher", "stack"} \/ IsAppli(i) THEN "launch" ELSE "none"
  ELSE IF IsMulti(i) /\ s.present /\ (~s.onClick \/ (visible /\ presents)) THEN "showAll"
  ELSE IF HasSub(i) /\ (s.onClick \/ ~visible) THEN "subdock"
  ELSE IF IsAppli(i) /\ kind[i] # "applet" THEN IF win[i] = "active" /\ s.minimize THEN "minimize" ELSE "show"
  ELSE IF IsMulti(i) THEN IF s.onClick THEN "hideShow" ELSE "nothing"
  ELSE IF kind[i] = "launcher" THEN "launch" ELSE "none"

\* One of the windows has the focus: hide it. Else show those of this desktop.
hideShowInClassSubdock(i) ==
  LET active == {j \in SubWindows(i) : win[j] = "active"}
  IN IF active # {} THEN {Hide(active)} ELSE {ShowAll(here) : here \in SUBSET SubWindows(i)}

ClickWindows(i, act) ==
  CASE act = "showAll"  -> {ShowAll(SubWindows(i))}
    [] act = "minimize" -> {Hide({i})}
    [] act = "show"     -> {ShowOne(i)}
    [] act = "hideShow" -> hideShowInClassSubdock(i)
    [] OTHER            -> {win}

OnLeftClick(i) ==
  /\ dockUp /\ IsIn(i)
  /\ \E act \in {ClickAct(i, modified, s, visible, presents) :
                  modified, visible, presents \in BOOLEAN, s \in ClickSettings} :
       \E windows \in ClickWindows(i, act) : Handled(i, windows)
  /\ UNCHANGED <<kind, owner, started, desk, dockUp>>

\* On the empty part of a sub-dock the manager asks the icon what it is before it
\* tests that there is one.
OnEmptyPart(inSub) ==
  /\ dockUp /\ (inSub => \E i \in DockIcons : HasSub(i))
  /\ dockUp' = ~inSub
  /\ UNCHANGED <<kind, owner, win, started, desk>>

(***************************************************************************)
(* Middle click: the action of the setting, on one window or on all.       *)
(***************************************************************************)
MiddleAct(i, action) ==
  LET simple == IsAppli(i) /\ kind[i] # "applet"
  IN CASE (simple \/ IsMulti(i)) /\ action = 3 -> "launch"
       [] simple /\ action = 1     -> "close"
       [] simple /\ action = 2     -> "minimize"
       [] IsMulti(i) /\ action = 1 -> "closeAll"
       [] IsMulti(i) /\ action = 2 -> "hideShow"
       [] OTHER -> "none"
\* A window decides when it closes: WindowEvent of DockMenus.
OnMiddleClick(i) ==
  /\ dockUp /\ IsIn(i)
  /\ \E act \in {MiddleAct(i, action) : action \in 0..3} :
       \E windows \in ClickWindows(i, act) : Handled(i, windows)
  /\ UNCHANGED <<kind, owner, started, desk, dockUp>>

(***************************************************************************)
(* Scroll.                                                                 *)
(***************************************************************************)
Cycle(scrollUp, loop) ==
  LET n == desk + (IF scrollUp THEN 1 ELSE -1)
  IN IF n \in 0..(NbDesktops - 1) THEN n
     ELSE IF ~loop THEN desk
     ELSE IF scrollUp THEN 0 ELSE NbDesktops - 1

\* The previous or next window of the sub-dock: none beyond its ends.
showPrevNextInSubdock(i, next) ==
  LET apps == Ordered(Members(i))
      found == {n \in 1..Len(apps) : win[apps[n]] = "active"}
      to == IF found = {} THEN 1
            ELSE (CHOOSE n \in found : TRUE) + (IF next THEN 1 ELSE -1)
  IN IF to \in 1..Len(apps) THEN ShowOne(apps[to]) ELSE win

OnMouseScroll(i) ==
  /\ dockUp /\ IsIn(i) /\ UNCHANGED <<kind, owner, started>>
  /\ \E scrollUp \in BOOLEAN :
     \/ /\ kind[i] = "separator" /\ \E wheel \in 0..2 :
             desk' = IF wheel = 0 \/ ~Chain(i) THEN desk ELSE Cycle(scrollUp, wheel = 2)
        /\ Handled(i, win) /\ UNCHANGED dockUp
     \* The icons of a stack have no window to ask whether it is active: it is a crash.
     \/ /\ kind[i] = "stack" /\ dockUp' = (Members(i) = {} \/ ~Chain(i))
        /\ Handled(i, win) /\ UNCHANGED desk
     \/ /\ IsMulti(i) /\ Handled(i, showPrevNextInSubdock(i, scrollUp))
        /\ UNCHANGED <<desk, dockUp>>
     \/ /\ IsAppli(i) /\ \E j \in {j \in DockIcons : IsAppli(j)} : Handled(i, ShowOne(j))
        /\ UNCHANGED <<desk, dockUp>>
     \/ /\ ~IsAppli(i) /\ kind[i] \notin {"separator", "stack", "class"}
        /\ Handled(i, win) /\ UNCHANGED <<desk, dockUp>>
================================================================================
