------------------------------ MODULE AppletDbus ------------------------------
(***************************************************************************)
(* The dialogs and the menu of an applet that talks to the dock over Dbus  *)
(* (libs/appdbus).  Its goroutines open dialogs at any time; the answers,  *)
(* like the menu requests, come back as signals to the event loop.  The    *)
(* applet keeps one callback for all its dialogs (CDDbus.dialogCall) and   *)
(* the actions of the last menu it built (CDDbus.menu).                    *)
(*                                                                         *)
(* The dock and its user are external: one dialog is open on the icon at a *)
(* time, a new one replaces it, and signals arrive in order.               *)
(***************************************************************************)
EXTENDS Naturals, Sequences, FiniteSets

CONSTANTS
  Threads,      \* goroutines that may open a dialog, Loop included
  Loop,         \* the event loop
  MaxSignals,   \* bound: signals on their way
  MaxEvents     \* bound: what the user and the outside of the applet do

ASSUME DbusAssumption == Loop \in Threads /\ {MaxSignals, MaxEvents} \subseteq Nat

VARIABLES
  signals,     \* signals sent by the dock and not handled yet
  dialogCall,  \* CDDbus.dialogCall: the dialog whose callback is set
  dialog,      \* dialog open in the dock
  popping,     \* dialog each thread opens: callback set, dock not called yet
  crossed,     \* history variable: the last dialog met another or an answer, or failed
  menu,        \* Menu.actions
  shown,       \* entries of the menu open in the dock
  events       \* events so far

dialogVars == <<dialogCall, dialog, popping, crossed>>
menuVars   == <<menu, shown>>
dbusVars   == <<signals, dialogVars, menuVars, events>>

NoDialog == [kind |-> "none"]

DbusInit ==
  /\ signals = <<>> /\ menu = <<>> /\ shown = <<>>
  /\ dialogCall = NoDialog /\ dialog = NoDialog
  /\ popping = [t \in Threads |-> NoDialog] /\ crossed = FALSE
  /\ events = 0

Event   == events < MaxEvents /\ events' = events + 1
Answers == {i \in DOMAIN signals : signals[i].sig = "answer"}
Builds  == {i \in DOMAIN signals : signals[i].sig = "build"}
Popping == {t \in Threads : popping[t] # NoDialog}

\* The goroutines of checks and clicks.
Workers == Threads \ {Loop}
\* A thread outside PopupDialog; the loop takes signals when it is.
Ready(t) == popping[t] = NoDialog

(***************************************************************************)
(* Plausible faults, for the mutant runs.                                  *)
(***************************************************************************)
PopupForgets(t, d) ==        \* keeps the callback of a dialog that waits
  /\ dialogCall' = IF dialog = NoDialog THEN d ELSE dialogCall
  /\ popping' = [popping EXCEPT ![t] = d]
  /\ crossed' = (Popping # {} \/ Answers # {})
  /\ UNCHANGED dialog

BuildKeepsActions(entries) ==   \* rebuilds the items without the callbacks
  /\ Len(menu) = 0 => menu' = entries
  /\ Len(menu) > 0 => menu' = menu
  /\ shown' = entries

(***************************************************************************)
(* PopupDialog, by thread t: the callback is set, then the dock called.    *)
(***************************************************************************)
PopupDialog(t, d) ==
  /\ dialogCall' = d
  /\ popping' = [popping EXCEPT ![t] = d]
  /\ crossed' = (Popping # {} \/ Answers # {})
  /\ UNCHANGED dialog

\* The call may fail, with the callback of the new dialog set for the old one.
PopupCalled(t) ==
  /\ popping[t] # NoDialog
  /\ popping' = [popping EXCEPT ![t] = NoDialog]
  /\ \/ dialog' = popping[t] /\ UNCHANGED crossed
     \/ UNCHANGED dialog /\ crossed' = (crossed \/ dialog # NoDialog)
  /\ UNCHANGED <<signals, dialogCall, menuVars, events>>

\* The user answers with one of the values of its widget or cancels it, or it goes
\* away: its time ends, or a message without callback (ShowDialog) takes its place.
UserAnswers(values) ==
  /\ dialog # NoDialog
  /\ dialog' = NoDialog
  /\ \/ /\ Len(signals) < MaxSignals
        /\ \E ok \in BOOLEAN, v \in values :
             /\ ok \/ v = ""
             /\ signals' = Append(signals, [sig |-> "answer", of |-> dialog, ok |-> ok, value |-> v])
        /\ crossed' = (crossed \/ Popping # {})
     \/ UNCHANGED <<signals, crossed>>
  /\ UNCHANGED <<dialogCall, popping, menuVars, events>>

(***************************************************************************)
(* Menus: on_build_menu clears the menu, has the applet fill it and sends  *)
(* the items; on_menu_select launches the action with the given id.        *)
(***************************************************************************)
UserOpensMenu ==
  /\ Len(signals) < MaxSignals /\ Event
  /\ signals' = Append(signals, [sig |-> "build"])
  /\ shown' = <<>>
  /\ UNCHANGED <<dialogVars, menu>>

UserSelects ==
  /\ Len(signals) < MaxSignals
  /\ \E id \in DOMAIN shown :
       /\ shown[id] # "separator"
       /\ signals' = Append(signals, [sig |-> "select", id |-> id, entry |-> shown[id],
                                       again |-> Builds # {}])
  /\ shown' = <<>>
  /\ UNCHANGED <<dialogVars, menu, events>>

\* The handler of the build signal, with the entries the applet adds.
BuildMenu(entries) == menu' = entries /\ shown' = entries

\* The signal the loop handles next.
Takes(sig) ==
  /\ signals # <<>> /\ Head(signals).sig = sig
  /\ signals' = Tail(signals)

\* Launch: the entry that is called, none for an id out of range.
Launched(id) == IF id \in DOMAIN menu THEN menu[id] ELSE "separator"

DbusStep(values) ==
  \/ \E t \in Threads : PopupCalled(t)
  \/ UserAnswers(values) \/ UserOpensMenu \/ UserSelects

(***************************************************************************)
(* Properties.                                                             *)
(***************************************************************************)
\* cdtype.go:980 "Callback when buttons are used": an answer calls the
\* callback of its own dialog, whatever dialogs were opened and closed before
\* it, if none was opened, or failed to open, between the moment it appeared and
\* the handling of its answer (OnSignal, PopupDialog).
AnswerReachesItsDialog ==
  signals # <<>> /\ Head(signals).sig = "answer" /\ ~crossed => dialogCall = Head(signals).of

\* appdbus.go:687 "storing callbacks at creation to be sure the answer match
\* the user request": a selected entry launches the action the user saw, even
\* when what the applet offers has changed since, unless another menu was asked
\* for before the first was built (Clear, addOne, Launch).
SelectionIsTheEntrySeen ==
  signals # <<>> =>
    LET s == Head(signals)
    IN  s.sig = "select" /\ ~s.again => Launched(s.id) = s.entry
=============================================================================
