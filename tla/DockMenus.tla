------------------------------- MODULE DockMenus -------------------------------
(***************************************************************************)
(* Menus of the docks (libs/dock/mainmenu, libs/gldi/backendmenu), drops,  *)
(* and the dialogs they and the applets open (libs/gldi/dialog).           *)
(***************************************************************************)
EXTENDS DockMouse

CONSTANTS
  MaxDialogs, \* bound: questions and popups of a run
  MaxMessages \* bound: messages on the screen
ASSUME MenuAssumption == MaxDialogs \in Nat /\ MaxMessages \in Nat

VARIABLES
  locked,    \* LockAll
  lockIcons, \* the user's lock of the icons
  menu,      \* the open menu: its icon, its entries, the icon is still there
  dialogs,   \* all questions and popups so far: what they ask about which icon
  onScreen,  \* those on the screen, by their place in dialogs
  messages,  \* messages on the screen, that the package forgets once they are shown
  dialogPtr, \* the dialog the package knows, NoIcon
  dialogCall,\* the dialog whose callback is set, NoIcon
  pending,   \* popups and messages of applets, in the list of calls of appgldi
  orphans,   \* questions and popups whose icon is gone
  gone       \* what answers removed: icon, another than the one asked about, what was
             \* asked, dialog that was answered
dialogVars == <<dialogs, onScreen, messages, dialogPtr, dialogCall, pending, orphans, gone>>
lockVars == <<locked, lockIcons>>
menusVars == <<mouseVars, lockVars, menu, dialogVars>>

NoMenu == [icon |-> NoIcon, entries |-> {}, here |-> TRUE]

Kinds == {"none", "launcher", "stack", "class", "appli", "applet", "subicon", "separator"}
MenusInit ==
  /\ kind \in [DockIcons -> Kinds] /\ owner \in [DockIcons -> DockIcons \cup {NoIcon}]
  /\ \A i \in DockIcons :
       /\ owner[i] # NoIcon => kind[i] # "none" /\ <<kind[owner[i]], kind[i]>> \in Holds
       /\ kind[i] = "none" => owner[i] = NoIcon
       /\ kind[i] = "subicon" => owner[i] # NoIcon
       /\ kind[i] = "class" => \E j \in DockIcons : owner[j] = i
  /\ win = [i \in DockIcons |-> IF kind[i] = "appli" THEN "shown" ELSE "none"]
  /\ started \in {{}, {i \in DockIcons : kind[i] = "applet"}}
  /\ desk = 0 /\ dockUp = TRUE
  /\ locked = FALSE /\ lockIcons \in BOOLEAN /\ menu = NoMenu
  /\ dialogs = <<>> /\ onScreen = {} /\ dialogPtr = NoIcon /\ dialogCall = NoIcon
  /\ messages \in 0..MaxMessages \* no plug-in was found
  /\ pending = <<>> /\ orphans = {} /\ gone = {}

(***************************************************************************)
(* Dialogs: questions and popups, of which "only one is allowed". The      *)
(* state of the package is passed along, since an answer may open another  *)
(* dialog. Messages have neither an answer nor a place in that state.      *)
(***************************************************************************)
D == [dialogs |-> dialogs, shown |-> onScreen, ptr |-> dialogPtr, call |-> dialogCall, up |-> TRUE]
DialogIs(d, isUp) ==
  /\ dialogs' = d.dialogs /\ onScreen' = d.shown /\ dialogPtr' = d.ptr /\ dialogCall' = d.call
  /\ dockUp' \in (IF isUp /\ d.up THEN {TRUE} ELSE BOOLEAN)

\* A dialog is freed; a popup's free function forgets the dialog of the package.
Freed(d, n) ==
  [d EXCEPT !.shown = d.shown \ {n}, !.ptr = IF d.dialogs[n].what = "popup" THEN NoIcon ELSE d.ptr]
\* The pointer may be that of a question that was destroyed with its icon: it is
\* then freed twice.
removeDialog(d) ==
  IF d.ptr = NoIcon THEN d
  ELSE IF d.ptr \in d.shown THEN [Freed(d, d.ptr) EXCEPT !.ptr = NoIcon]
  ELSE [d EXCEPT !.up = FALSE, !.ptr = NoIcon]
Opened(d, ask) ==
  LET n == Len(d.dialogs) + 1
  IN [d EXCEPT !.dialogs = Append(d.dialogs, ask), !.shown = d.shown \cup {n}, !.ptr = n]
\* Plausible faults, for the mutant runs: the dialog before is not removed; its
\* callback is not reset.
PointerIsKept(d, ask) ==
  Opened([d EXCEPT !.call = Len(d.dialogs) + 1, !.ptr = NoIcon], ask)
CallbackIsKept(d, ask, callback) ==
  Opened(removeDialog([d EXCEPT !.call = IF callback THEN Len(d.dialogs) + 1 ELSE d.call]), ask)
ShowWithQuestion(d, ask) ==
  Opened(removeDialog([d EXCEPT !.call = Len(d.dialogs) + 1]), ask)
\* A popup without a callback leaves none.
NewDialog(d, ask, callback) ==
  Opened(removeDialog([d EXCEPT !.call = IF callback THEN Len(d.dialogs) + 1 ELSE NoIcon]), ask)
CanOpen == Len(dialogs) < MaxDialogs
ShowMessage == messages < MaxMessages /\ messages' = messages + 1

(***************************************************************************)
(* Icons come and go.                                                      *)
(***************************************************************************)
FreeSlot == {i \in DockIcons : kind[i] = "none"}
Added(i, k, o) == kind' = [kind EXCEPT ![i] = k] /\ owner' = [owner EXCEPT ![i] = o]
\* An icon leaves with the icons of its sub-dock, under a menu and dialogs about them.
Removed(S) ==
  LET all == S \cup {j \in DockIcons : owner[j] \in S}
  IN /\ menu' = [menu EXCEPT !.here = menu.here /\ menu.icon \notin all]
     /\ orphans' = orphans \cup {n \in 1..Len(dialogs) : dialogs[n].icon \in all}
     /\ kind' = [i \in DockIcons |-> IF i \in all THEN "none" ELSE kind[i]]
     /\ owner' = [i \in DockIcons |-> IF i \in all THEN NoIcon ELSE owner[i]]
     /\ win' = [i \in DockIcons |-> IF i \in all THEN "none" ELSE win[i]]
     /\ started' = started \ all

\* Dialogs are destroyed with their icon, or by their icon's call.
Destroyed(lost) ==
  /\ onScreen' = onScreen \ lost
  /\ dialogPtr' = IF \E n \in lost : dialogs[n].what = "popup" THEN NoIcon ELSE dialogPtr
OnIcon(i) == {n \in onScreen : dialogs[n].icon = i}

\* The icon is freed after its animation; the library may destroy its dialogs.
IconFreed(i) ==
  /\ dockUp /\ IsIn(i) /\ \E g \in gone : g.icon = i /\ g.what = "removeIcon" /\ g.leaving
  /\ Removed({i})
  /\ gone' = {[g EXCEPT !.leaving = g.leaving /\ g.icon # i] : g \in gone}
  /\ \E lost \in SUBSET OnIcon(i) : Destroyed(lost)
  /\ UNCHANGED <<desk, dockUp, lockVars, dialogs, messages, dialogCall, pending>>

WindowEvent(i) ==
  /\ dockUp /\ kind[i] \in {"appli", "none"}
  /\ \/ kind[i] = "none" /\ Added(i, "appli", NoIcon) /\ win' = ShowOne(i) /\ UNCHANGED started
        /\ UNCHANGED <<menu, orphans>>
     \/ kind[i] = "appli" /\ owner[i] = NoIcon /\ Removed({i})
     \/ kind[i] = "appli" /\ win' = ShowOne(i) /\ UNCHANGED <<kind, owner, started, menu, orphans>>
  /\ UNCHANGED <<desk, dockUp, lockVars, dialogs, onScreen, messages, dialogPtr, dialogCall, pending, gone>>

\* What the user does with the mouse closes the menu that is open before.
Free == dockUp /\ menu = NoMenu

\* The configuration window locks and unlocks the docks.
SetLock(b) ==
  /\ Free /\ locked # b /\ locked' = b
  /\ UNCHANGED <<iconVars, desk, dockUp, lockIcons, menu, dialogVars>>

(***************************************************************************)
(* Drop of a launcher's file or of other data, on an icon or between two.  *)
(***************************************************************************)
DropLocked == locked
OnDropData(i, desktop, between, mix) ==
  /\ Free /\ (i # NoIcon => IsIn(i))
  /\ IF Served(i) # NoIcon THEN UNCHANGED <<kind, owner, win, dockUp>>
     ELSE LET onto == ~between /\ i # NoIcon
              crash == i = NoIcon /\ desktop /\ (~mix \/ ~between)
              refused == IF desktop THEN ~mix /\ i # NoIcon /\ IsAppli(i)
                         ELSE onto /\ kind[i] \notin {"stack", "launcher", "class"} /\ ~IsAppli(i)
              opened == ~desktop /\ onto /\ kind[i] # "stack" /\ ~refused
              target == IF onto /\ kind[i] = "stack" THEN i ELSE IF i # NoIcon THEN owner[i] ELSE NoIcon
          IN \/ crash /\ dockUp' = FALSE /\ UNCHANGED <<kind, owner, win>>
             \/ /\ ~crash /\ (refused \/ opened \/ DropLocked)
                /\ UNCHANGED <<kind, owner, win, dockUp>>
             \/ /\ ~crash /\ ~refused /\ ~opened /\ ~DropLocked
                /\ \/ /\ \E n \in FreeSlot : Added(n, "launcher", IF target # NoIcon /\ kind[target] = "stack" THEN target ELSE NoIcon)
                      /\ dockUp' = (i # NoIcon) \* the name of no icon is logged
                   \/ UNCHANGED <<kind, owner, dockUp>>
                /\ UNCHANGED win
  /\ UNCHANGED <<started, desk, lockVars, menu, dialogVars>>

(***************************************************************************)
(* Menus.                                                                  *)
(***************************************************************************)
\* The icon sub-menu: what the icon may be asked, its icons being free to move.
IconEntries(i) ==
  IF lockIcons THEN {}
  ELSE IF locked THEN IF IsAppli(i) THEN {"LaunchNew"} ELSE IF kind[i] = "applet" THEN {"Handbook"} ELSE {}
  ELSE (IF IsAppli(i) THEN {"LaunchNew"} ELSE {}) \cup
       CASE kind[i] \in {"launcher", "stack", "separator"} -> {"EditIcon", "RemoveIcon", "MoveToDock"}
         [] kind[i] = "appli" -> {"MakeLauncher", "CustomIconSet", "CustomIconRemove"}
         [] kind[i] = "applet" -> {"EditApplet", "DetachApplet", "RemoveApplet", "DuplicateApplet", "MoveToDock", "Handbook"}
         [] OTHER -> {}
DockEntries ==
  (IF locked THEN {}
   ELSE {"Configure", "LockIcons", "DeleteDock"} \cup
        IF lockIcons THEN {"EditTarget"} ELSE {"AddSubDock", "AddMainDock", "AddSeparator", "AddLauncher", "AddApplet"})
  \cup {"QuickHide", "Help", "About", "Quit"}
\* On the icons of a main dock and of a stack.
BuildMenuContainer(i) ==
  IF owner[i] # NoIcon /\ kind[owner[i]] # "stack" THEN {} ELSE DockEntries \cup IconEntries(i)
\* Actions on the windows of the icon.
BuildMenuIcon(i) ==
  IF IsAppli(i) THEN {"WindowClose", "WindowShow", "WindowKill", "MoveToDesktop"} \cup (IF win[i] # "hidden" THEN {"WindowMin"} ELSE {})
  ELSE IF IsMulti(i) THEN {"WindowCloseAll", "WindowMinAll", "WindowShowAll"} ELSE {}

OpenMenu(i) ==
  /\ Free /\ IsIn(i)
  /\ menu' = [icon |-> i, entries |-> BuildMenuContainer(i) \cup BuildMenuIcon(i), here |-> TRUE]
  /\ UNCHANGED <<mouseVars, lockVars, dialogVars>>
\* Without a choice, or with one that opens a page or a program.
MenuCloses ==
  /\ dockUp /\ menu # NoMenu /\ menu' = NoMenu /\ UNCHANGED <<mouseVars, lockVars, dialogVars>>
\* An entry acts on the icon of the menu when it is still there.
Picked(e, i) == dockUp /\ menu.icon = i /\ e \in menu.entries /\ menu' = NoMenu
Chosen(e, i) == Picked(e, i) /\ menu.here
\* Or on an icon that is freed.
ChosenLate ==
  /\ dockUp /\ menu.icon # NoIcon /\ ~menu.here /\ menu' = NoMenu /\ dockUp' \in BOOLEAN
  /\ UNCHANGED <<iconVars, desk, lockVars, dialogVars>>

\* A new icon, next to the one that was clicked.
AddIcon(e, k, i) ==
  /\ Chosen(e, i)
  /\ LET here == IF k # "stack" /\ owner[i] # NoIcon /\ kind[owner[i]] = "stack" THEN owner[i] ELSE NoIcon
     IN \E n \in FreeSlot : Added(n, k, here)
  /\ UNCHANGED <<win, started, desk, dockUp, lockVars, dialogVars>>
DuplicateApplet(i) ==
  /\ Chosen("DuplicateApplet", i)
  /\ \E n \in FreeSlot : Added(n, "applet", NoIcon) /\ started' \in {started, started \cup {n}}
  /\ UNCHANGED <<win, desk, dockUp, lockVars, dialogVars>>
LockIcons(i) ==
  /\ Picked("LockIcons", i) /\ lockIcons' = ~lockIcons
  /\ UNCHANGED <<iconVars, desk, dockUp, locked, dialogVars>>
Ask(e, what, i) ==
  /\ Chosen(e, i) /\ CanOpen
  /\ DialogIs(ShowWithQuestion(D, [what |-> what, icon |-> i]), TRUE)
  /\ UNCHANGED <<iconVars, desk, lockVars, messages, pending, orphans, gone>>
\* A message when the dock is a new one.
MoveToDock(i) ==
  /\ Chosen("MoveToDock", i) /\ owner' = [owner EXCEPT ![i] = NoIcon]
  /\ ShowMessage \/ UNCHANGED messages
  /\ UNCHANGED <<kind, win, started, desk, dockUp, lockVars, dialogs, onScreen, dialogPtr, dialogCall, pending, orphans, gone>>
\* A message when the icon has no file.
EditIcon(i) ==
  /\ Chosen("EditIcon", i) /\ ShowMessage
  /\ UNCHANGED <<mouseVars, lockVars, dialogs, onScreen, dialogPtr, dialogCall, pending, orphans, gone>>
WindowEntry(i) ==
  /\ \/ Chosen("WindowMin", i) /\ win' = Hide({i})
     \/ Chosen("WindowShow", i) /\ win' = ShowOne(i)
     \/ Chosen("WindowMinAll", i) /\ win' = Hide(SubWindows(i))
     \/ Chosen("WindowShowAll", i) /\ win' = ShowAll(SubWindows(i))
  /\ UNCHANGED <<kind, owner, started, desk, dockUp, lockVars, dialogVars>>

(***************************************************************************)
(* Dialogs of applets, and answers.                                        *)
(***************************************************************************)
\* appgldi.PopupDialog and ShowDialog add a call for the main loop, also from an answer.
AddCall(i, what) ==
  /\ dockUp /\ i \in started /\ Len(pending) = 0 /\ pending' = <<[icon |-> i, what |-> what]>>
  /\ UNCHANGED <<iconVars, desk, dockUp, lockVars, menu, dialogs, onScreen, messages, dialogPtr, dialogCall, orphans, gone>>
PopupDialog(i) == CanOpen /\ AddCall(i, "popup")
ShowDialog(i) == AddCall(i, "message")
Runs(what) == dockUp /\ pending # <<>> /\ Head(pending).what = what /\ pending' = Tail(pending)
RunPopup(callback) ==
  /\ Runs("popup") /\ CanOpen
  /\ DialogIs(NewDialog(D, Head(pending), callback), Head(pending).icon \in started)
  /\ UNCHANGED <<kind, owner, win, started, desk, lockVars, menu, messages, orphans, gone>>
\* The message replaces all dialogs of its icon.
RunMessage ==
  /\ Runs("message") /\ messages' \in 1..(messages + 1) /\ messages' <= MaxMessages
  /\ LET i == Head(pending).icon
     IN Destroyed(OnIcon(i)) /\ dockUp' \in (IF i \in started THEN {TRUE} ELSE BOOLEAN)
  /\ UNCHANGED <<kind, owner, win, started, desk, lockVars, menu, dialogs, dialogCall, orphans, gone>>

\* A popup that has a time limit, or that the user closes, is freed without an answer.
PopupEnds(n) ==
  /\ dockUp /\ n \in onScreen /\ dialogs[n].what = "popup" /\ DialogIs(Freed(D, n), TRUE)
  /\ UNCHANGED <<iconVars, desk, lockVars, menu, messages, pending, orphans, gone>>
MessageEnds ==
  /\ dockUp /\ messages > 0 /\ messages' = messages - 1
  /\ UNCHANGED <<mouseVars, lockVars, menu, dialogs, onScreen, dialogPtr, dialogCall, pending, orphans, gone>>

\* onDialogAnswer forgets the dialog, then runs the callback that is set; the
\* dialog is freed after it. The entries' callbacks act on OK only.
OnDialogAnswer(n, ok) ==
  /\ Free /\ n \in onScreen
  /\ LET d == [D EXCEPT !.ptr = NoIcon]
         c == dialogCall
         ask == IF c = NoIcon THEN [what |-> "none", icon |-> NoIcon] ELSE dialogs[c]
         i == ask.icon
         icon == [icon |-> i, other |-> c \in orphans, what |-> ask.what, dialog |-> n, leaving |-> TRUE]
         present == i # NoIcon /\ IsIn(i)
     IN \/ /\ ~ok \/ ask.what \in {"none", "popup"}
           /\ DialogIs(Freed(d, n), TRUE) /\ UNCHANGED <<iconVars, menu, orphans, gone>>
        \/ /\ ok /\ ask.what = "quit" /\ dockUp' = FALSE
           /\ UNCHANGED <<iconVars, menu, dialogs, onScreen, dialogPtr, dialogCall, orphans, gone>>
        \* A second question when the icon holds icons; the icon leaves at once.
        \/ /\ ok /\ ask.what = "removeIcon" /\ present /\ gone' = gone \cup {icon}
           /\ (HasSub(i) => CanOpen)
           /\ DialogIs(Freed(IF kind[i] = "stack" /\ HasSub(i)
                             THEN ShowWithQuestion(d, [what |-> "redispatch", icon |-> i]) ELSE d, n), TRUE)
           /\ UNCHANGED <<iconVars, menu, orphans>>
        \/ /\ ok /\ ask.what = "removeApplet" /\ present /\ gone' = gone \cup {icon}
           /\ Removed({i}) /\ DialogIs(Freed(d, n), TRUE)
        \/ /\ ok /\ ask.what = "redispatch" /\ present
           /\ owner' = [j \in DockIcons |-> IF owner[j] = i THEN owner[i] ELSE owner[j]]
           /\ DialogIs(Freed(d, n), TRUE) /\ UNCHANGED <<kind, win, started, menu, orphans, gone>>
        \* The icon was freed meanwhile.
        \/ /\ ok /\ ask.what \in {"removeIcon", "removeApplet", "redispatch"} /\ ~present
           /\ DialogIs(Freed(d, n), FALSE) /\ UNCHANGED <<iconVars, menu, orphans, gone>>
  /\ UNCHANGED <<desk, lockVars, messages, pending>>

MouseEvent(i) ==
  Free /\ (OnLeftClick(i) \/ OnMiddleClick(i) \/ OnMouseScroll(i)) /\ UNCHANGED <<lockVars, menu, dialogVars>>
EmptyPart(inSub) == Free /\ OnEmptyPart(inSub) /\ UNCHANGED <<lockVars, menu, dialogVars>>
MenuEntry(i) ==
  \/ AddIcon("AddLauncher", "launcher", i) \/ AddIcon("AddSeparator", "separator", i)
  \/ AddIcon("AddSubDock", "stack", i) \/ AddIcon("MakeLauncher", "launcher", i)
  \/ DuplicateApplet(i) \/ LockIcons(i) \/ MoveToDock(i) \/ EditIcon(i) \/ WindowEntry(i)
  \/ Ask("RemoveIcon", "removeIcon", i) \/ Ask("RemoveApplet", "removeApplet", i) \/ Ask("Quit", "quit", i)
MenusNext ==
  \/ \E i \in DockIcons :
       \/ MouseEvent(i) \/ IconFreed(i) \/ WindowEvent(i) \/ PopupDialog(i) \/ ShowDialog(i)
       \/ OpenMenu(i) \/ MenuEntry(i)
  \/ \E b \in BOOLEAN : EmptyPart(b) \/ SetLock(b) \/ RunPopup(b)
  \/ MenuCloses \/ ChosenLate \/ RunMessage \/ MessageEnds
  \/ \E i \in DockIcons \cup {NoIcon}, desktop, between, mix \in BOOLEAN : OnDropData(i, desktop, between, mix)
  \/ \E n \in onScreen : PopupEnds(n) \/ \E ok \in BOOLEAN : OnDialogAnswer(n, ok)
MenusSpec == MenusInit /\ [][MenusNext]_menusVars

(***************************************************************************)
(* Properties.                                                             *)
(***************************************************************************)
\* A question or a popup on the screen is the one the package knows, which the next one
\* removes, and an answer to it finds its own callback or none: also after dialogs
\* that were destroyed with their icon or by a message of its applet.
DialogIsKnown ==
  \A n \in onScreen : dialogPtr = n /\ dialogCall \in {NoIcon, n}

\* An icon is removed by the answer to the question about it, not by the answer to a
\* dialog that came after and finds its callback; it is another icon, at the address
\* of the one asked about, only when the answered question outlived its icon.
RemovesWhatWasAsked ==
  \A g \in gone :
    /\ dialogs[g.dialog].what = g.what /\ dialogs[g.dialog].icon = g.icon
    /\ g.other => g.dialog \in orphans

\* "Only one is allowed" (dialog.go:40).
OneOnScreen == Cardinality(onScreen) + messages <= 1

\* "Do you want to re-dispatch the icons contained inside this container into the
\* dock? (otherwise they will be destroyed)" (backendmenu.go:650).
IconsWaitForTheAnswer ==
  [][\A n \in onScreen : dialogs[n].what = "redispatch" =>
       \A j \in Members(dialogs[n].icon) : kind'[j] # "none"]_menusVars
================================================================================
