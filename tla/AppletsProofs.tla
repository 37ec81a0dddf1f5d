----------------------------- MODULE AppletsProofs -----------------------------
(***************************************************************************)
(* Proofs about the applets on the Dbus backend.  GoGmail, with the        *)
(* dialogs and the menu of AppletDbus as the mail checker uses them, for   *)
(* any threads, mails and bounds: an answer finds the callback of its      *)
(* dialog, a selection the entry that was shown, and the icon counts the   *)
(* mails. Clouds, for any threads, places and days: the data is of the     *)
(* place in the settings and the icons agree with it.                      *)
(***************************************************************************)
EXTENDS GoGmail, Clouds, SequenceTheorems, TLAPS

(***************************************************************************)
(* What a step does to the dialogs and to the signals.                     *)
(***************************************************************************)
Entries   == {"open", "show", "check", "separator", "register"}
Dialogs   == {NoDialog, Register, MailList}
MailSteps == {"off", "init", "idle", "defaults", "exited", "check", "fetch", "alert", "show", "click", "list"}
Signals   ==
  [sig : {"answer"}, of : Dialogs, ok : BOOLEAN, value : {"", "pair", "word"}]
  \cup [sig : {"build"}]
  \cup [sig : {"select"}, id : Nat, entry : Entries, again : BOOLEAN]

DialogStep == UNCHANGED dialogVars \/ \E t \in Threads, d \in {Register, MailList} : PopupDialog(t, d)
Handles    == signals # <<>> /\ signals' = Tail(signals)
SignalStep ==
  \/ UNCHANGED <<signals, menuVars>>
  \/ Handles /\ UNCHANGED menuVars
  \/ Handles /\ Head(signals).sig = "build" /\ \E entries \in Seq(Entries) : BuildMenu(entries)
Afresh ==
  /\ signals' = <<>> /\ menu' = <<>> /\ shown' = <<>> /\ crossed' = FALSE
  /\ dialogCall' = NoDialog /\ dialog' = NoDialog /\ popping' = [t \in Threads |-> NoDialog]

LEMMA MenusAreEntries == {<<"register">>, MenuFull, Tail(MenuFull)} \subseteq Seq(Entries)
<1>1. <<"register">> \in Seq(Entries) /\ MenuFull \in Seq(Entries) /\ MenuFull # <<>>
  BY DEF MenuFull, Entries
<1>2. Tail(MenuFull) \in Seq(Entries)
  <2> HIDE DEF MenuFull
  <2> QED BY <1>1, HeadTailProperties
<1> QED BY <1>1, <1>2

LEMMA LaunchPopsOrNot ==
  ASSUME NEW t \in Threads, NEW a, Launch(t, a)
  PROVE  UNCHANGED menuVars /\ DialogStep
BY DEF Launch, AskLogin, DialogStep, dialogVars, menuVars

LEMMA Effects == [MailNext]_<<dbusVars, mailVars>> => DbusStep(Typed) \/ (DialogStep /\ SignalStep) \/ Afresh
<1> SUFFICES ASSUME [MailNext]_<<dbusVars, mailVars>>
             PROVE  DbusStep(Typed) \/ (DialogStep /\ SignalStep) \/ Afresh
  OBVIOUS
<1>1. CASE UNCHANGED <<dbusVars, mailVars>>
  BY <1>1 DEF dbusVars, DialogStep, SignalStep, menuVars
<1>2. ASSUME NEW t \in Threads, MailStep(t) PROVE DialogStep /\ SignalStep
  <2>1. CASE Check(t) \/ Fetch(t) \/ Alert(t) \/ Show(t)
    BY <2>1 DEF Check, Fetch, Alert, Show, dbusVars, DialogStep, SignalStep, menuVars
  <2>2. CASE ClickAction(t)
    BY <2>2, LaunchPopsOrNot DEF ClickAction, SignalStep, menuVars
  <2>3. CASE List(t)
    BY <2>3 DEF List, DialogStep, SignalStep, dialogVars, menuVars
  <2> QED BY <1>2, <2>1, <2>2, <2>3 DEF MailStep
<1>3. CASE HandleAnswer
  <2>1. UNCHANGED menuVars /\ DialogStep
    <3>1. AskLogin(Loop) => UNCHANGED menuVars /\ DialogStep
      BY DbusAssumption DEF AskLogin, DialogStep
    <3>2. Launch(Loop, "open") => UNCHANGED menuVars /\ DialogStep
      BY DbusAssumption, LaunchPopsOrNot
    <3>3. UNCHANGED <<dialogVars, menuVars>> => UNCHANGED menuVars /\ DialogStep
      BY DEF DialogStep
    <3> QED BY <1>3, <3>1, <3>2, <3>3 DEF HandleAnswer
  <2> QED BY <1>3, <2>1 DEF HandleAnswer, Takes, Handles, SignalStep
<1>4. CASE HandleBuild
  BY <1>4, MenusAreEntries DEF HandleBuild, Takes, Handles, SignalStep, DialogStep
<1>5. CASE HandleSelect
  <2>1. UNCHANGED menuVars /\ DialogStep
    BY <1>5, LaunchPopsOrNot, DbusAssumption DEF HandleSelect, DialogStep, dialogVars, menuVars
  <2> QED BY <1>5, <2>1 DEF HandleSelect, Takes, Handles, SignalStep
<1>6. CASE Tick \/ (\E t \in Workers : Click(t)) \/ MailboxChanges \/ Reload \/ LoopInit \/ LoopDefaults
  BY <1>6 DEF Tick, Click, MailboxChanges, Reload, LoopInit, LoopDefaults, dbusVars, DialogStep, SignalStep, menuVars
<1>7. CASE Start
  BY <1>7 DEF Start, Afresh
<1> QED
  BY <1>1, <1>2, <1>3, <1>4, <1>5, <1>6, <1>7 DEF MailNext

(***************************************************************************)
(* Types of the dialogs, the signals and the menu.                         *)
(***************************************************************************)
DbusTypes ==
  /\ signals \in Seq(Signals) /\ menu \in Seq(Entries) /\ shown \in {<<>>, menu}
  /\ dialogCall \in Dialogs /\ dialog \in Dialogs /\ popping \in [Threads -> Dialogs] /\ crossed \in BOOLEAN

LEMMA InitDbusTypes == MailInit => DbusTypes
BY EmptySeq DEF MailInit, DbusInit, DbusTypes, Dialogs

LEMMA NextDbusTypes == DbusTypes /\ [MailNext]_<<dbusVars, mailVars>> => DbusTypes'
<1> SUFFICES ASSUME DbusTypes, [MailNext]_<<dbusVars, mailVars>> PROVE DbusTypes'
  OBVIOUS
<1> USE DEF DbusTypes, dialogVars, menuVars
<1>1. CASE \E t \in Threads : PopupCalled(t)
  <2> PICK t \in Threads : PopupCalled(t)
    BY <1>1
  <2>1. NoDialog \in Dialogs
    BY DEF Dialogs
  <2> QED BY <2>1 DEF PopupCalled
<1>2. CASE UserAnswers(Typed)
  <2>1. UNCHANGED <<dialogCall, popping, menu, shown>> /\ dialog' \in Dialogs /\ crossed' \in BOOLEAN
    BY <1>2 DEF UserAnswers, Dialogs
  <2>2. signals' \in Seq(Signals)
    <3>1. CASE signals' = signals
      BY <3>1
    <3>2. CASE \E ok \in BOOLEAN, v \in Typed :
                 signals' = Append(signals, [sig |-> "answer", of |-> dialog, ok |-> ok, value |-> v])
      <4>1. PICK ok \in BOOLEAN, v \in Typed :
                 signals' = Append(signals, [sig |-> "answer", of |-> dialog, ok |-> ok, value |-> v])
        BY <3>2
      <4>2. [sig |-> "answer", of |-> dialog, ok |-> ok, value |-> v] \in Signals
        BY DEF Signals, Typed
      <4> QED BY <4>1, <4>2, AppendProperties
    <3> QED BY <1>2, <3>1, <3>2 DEF UserAnswers
  <2> QED BY <2>1, <2>2
<1>3. CASE UserOpensMenu
  <2>1. [sig |-> "build"] \in Signals
    BY DEF Signals
  <2> QED BY <1>3, <2>1, AppendProperties DEF UserOpensMenu
<1>4. CASE UserSelects
  <2>1. PICK id \in DOMAIN shown :
            signals' = Append(signals, [sig |-> "select", id |-> id, entry |-> shown[id], again |-> Builds # {}])
    BY <1>4 DEF UserSelects
  <2>2. id \in Nat /\ shown[id] \in Entries
    <3>1. shown \in Seq(Entries)
      OBVIOUS
    <3> QED BY <3>1, ElementOfSeq
  <2> DEFINE again == Builds # {}
  <2>3. again \in BOOLEAN
    OBVIOUS
  <2>4. signals' = Append(signals, [sig |-> "select", id |-> id, entry |-> shown[id], again |-> again])
    BY <2>1
  <2> HIDE DEF again
  <2>5. [sig |-> "select", id |-> id, entry |-> shown[id], again |-> again] \in Signals
    BY <2>2, <2>3 DEF Signals
  <2>6. signals' \in Seq(Signals)
    BY <2>4, <2>5, AppendProperties
  <2> QED BY <1>4, <2>6 DEF UserSelects
<1>5. CASE DialogStep /\ SignalStep
  <2>1. dialogCall' \in Dialogs /\ dialog' \in Dialogs /\ popping' \in [Threads -> Dialogs] /\ crossed' \in BOOLEAN
    BY <1>5 DEF DialogStep, PopupDialog, Dialogs
  <2>2. signals' \in Seq(Signals)
    BY <1>5, HeadTailProperties DEF SignalStep, Handles
  <2>3. menu' \in Seq(Entries) /\ shown' \in {<<>>, menu'}
    BY <1>5 DEF SignalStep, BuildMenu
  <2> QED BY <2>1, <2>2, <2>3
<1>6. CASE Afresh
  BY <1>6, EmptySeq DEF Afresh, Dialogs
<1> QED
  BY <1>1, <1>2, <1>3, <1>4, <1>5, <1>6, Effects DEF DbusStep

\* The first signal has been handled, or one has arrived.
LEMMA SignalsTail ==
  ASSUME DbusTypes, Handles
  PROVE  /\ Len(signals') = Len(signals) - 1 /\ Len(signals) \in Nat
         /\ \A i \in 1..Len(signals') : i + 1 \in 1..Len(signals) /\ signals'[i] = signals[i + 1]
BY HeadTailProperties DEF DbusTypes, Handles

LEMMA SignalsAppend ==
  ASSUME DbusTypes, NEW s \in Signals, signals' = Append(signals, s)
  PROVE  /\ Len(signals') = Len(signals) + 1 /\ Len(signals) \in Nat
         /\ \A i \in 1..Len(signals) : signals'[i] = signals[i]
         /\ signals'[Len(signals) + 1] = s
BY AppendProperties DEF DbusTypes

LEMMA SignalIndices ==
  ASSUME DbusTypes
  PROVE  /\ DOMAIN signals = 1..Len(signals) /\ Len(signals) \in Nat
         /\ signals # <<>> => Head(signals) = signals[1] /\ 1 \in 1..Len(signals)
BY EmptySeq DEF DbusTypes

\* What the user does sends one signal at the most.
Sends(s) == s \in Signals /\ signals' = Append(signals, s)

LEMMA UserSignals ==
  ASSUME DbusTypes, DbusStep(Typed)
  PROVE  \/ UNCHANGED signals
         \/ \E s : Sends(s) /\ s.sig = "answer" /\ s.of = dialog /\ UserAnswers(Typed)
         \/ \E s : Sends(s) /\ s.sig = "build" /\ UserOpensMenu
         \/ \E s : Sends(s) /\ s.sig = "select" /\ UserSelects /\ s.id \in DOMAIN shown /\ s.entry = shown[s.id]
                   /\ (~s.again => Builds = {})
<1>1. CASE \E t \in Threads : PopupCalled(t)
  BY <1>1 DEF PopupCalled
<1>2. CASE UserAnswers(Typed)
  <2>1. CASE UNCHANGED signals
    BY <2>1
  <2>2. CASE \E ok \in BOOLEAN, v \in Typed :
               signals' = Append(signals, [sig |-> "answer", of |-> dialog, ok |-> ok, value |-> v])
    <3>1. PICK ok \in BOOLEAN, v \in Typed :
               signals' = Append(signals, [sig |-> "answer", of |-> dialog, ok |-> ok, value |-> v])
      BY <2>2
    <3>2. [sig |-> "answer", of |-> dialog, ok |-> ok, value |-> v] \in Signals
      BY DEF Signals, Typed, DbusTypes
    <3> DEFINE s == [sig |-> "answer", of |-> dialog, ok |-> ok, value |-> v]
    <3>3. Sends(s) /\ s.sig = "answer" /\ s.of = dialog
      BY <3>1, <3>2 DEF Sends
    <3> HIDE DEF s
    <3> QED BY <1>2, <3>3
  <2> QED BY <1>2, <2>1, <2>2 DEF UserAnswers
<1>3. CASE UserOpensMenu
  <2> DEFINE s == [sig |-> "build"]
  <2>1. Sends(s) /\ s.sig = "build"
    BY <1>3 DEF UserOpensMenu, Sends, Signals
  <2> HIDE DEF s
  <2> QED BY <1>3, <2>1
<1>4. CASE UserSelects
  <2> DEFINE again == Builds # {}
  <2>1. PICK id \in DOMAIN shown :
            signals' = Append(signals, [sig |-> "select", id |-> id, entry |-> shown[id], again |-> again])
    BY <1>4 DEF UserSelects
  <2>2. id \in Nat /\ shown[id] \in Entries
    <3>1. shown \in Seq(Entries)
      BY EmptySeq DEF DbusTypes
    <3> QED BY <3>1, ElementOfSeq
  <2>3. again \in BOOLEAN /\ (~again => Builds = {})
    OBVIOUS
  <2> HIDE DEF again
  <2> DEFINE s == [sig |-> "select", id |-> id, entry |-> shown[id], again |-> again]
  <2>4. s \in Signals
    BY <2>2, <2>3 DEF Signals
  <2>5. s.sig = "select" /\ s.id = id /\ s.entry = shown[id] /\ s.again = again /\ signals' = Append(signals, s)
    BY <2>1
  <2> HIDE DEF s
  <2> QED BY <1>4, <2>3, <2>4, <2>5 DEF Sends
<1> QED BY <1>1, <1>2, <1>3, <1>4 DEF DbusStep

(***************************************************************************)
(* Dialogs. Unless two of them crossed, the callback is the one of the     *)
(* dialog that is being opened, then of the open one, then of the one      *)
(* answered; and no answer is on its way while one is opened or open.      *)
(***************************************************************************)
DialogInv ==
  ~crossed =>
    /\ \A t \in Threads : popping[t] # NoDialog => popping[t] = dialogCall /\ Answers = {}
    /\ dialog # NoDialog /\ Popping = {} => dialog = dialogCall /\ Answers = {}
    /\ \A i \in Answers : signals[i].of = dialogCall

LEMMA InitDialogInv == MailInit => DialogInv
BY DEF MailInit, DbusInit, DialogInv, Answers

LEMMA NextDialogInv == DbusTypes /\ DialogInv /\ [MailNext]_<<dbusVars, mailVars>> => DialogInv'
<1> SUFFICES ASSUME DbusTypes, DialogInv, [MailNext]_<<dbusVars, mailVars>> PROVE DialogInv'
  OBVIOUS
<1>a. DbusTypes'
  BY NextDbusTypes
<1>0. /\ DOMAIN signals = 1..Len(signals) /\ DOMAIN signals' = 1..Len(signals') /\ popping \in [Threads -> Dialogs]
      /\ Len(signals) \in Nat
  BY <1>a DEF DbusTypes
<1>1. CASE \E t \in Threads : PopupCalled(t)
  <2> PICK t \in Threads : PopupCalled(t)
    BY <1>1
  <2>1. /\ popping[t] # NoDialog /\ popping' = [popping EXCEPT ![t] = NoDialog]
        /\ UNCHANGED <<signals, dialogCall>>
        /\ \/ dialog' = popping[t] /\ crossed' = crossed
           \/ dialog' = dialog /\ crossed' = (crossed \/ dialog # NoDialog)
    BY DEF PopupCalled
  <2>2. Answers' = Answers
    BY <2>1 DEF Answers
  <2>3. ~crossed' => ~crossed /\ (dialog' # NoDialog => dialog' = dialogCall /\ Answers = {})
    <3>1. CASE dialog' = popping[t] /\ crossed' = crossed
      BY <2>1, <3>1 DEF DialogInv
    <3>2. CASE dialog' = dialog /\ crossed' = (crossed \/ dialog # NoDialog)
      <4>1. ~crossed' => ~crossed /\ dialog = NoDialog
        BY <3>2, Zenon
      <4> QED BY <3>2, <4>1
    <3> QED BY <2>1, <3>1, <3>2
  <2>4. \A u \in Threads : popping'[u] # NoDialog => popping'[u] = popping[u]
    BY <1>0, <2>1
  <2>5. \A i \in Answers' : ~crossed' => signals'[i].of = dialogCall'
    BY <2>1, <2>2, <2>3 DEF DialogInv
  <2> QED BY <2>1, <2>2, <2>3, <2>4, <2>5 DEF DialogInv
<1>2. CASE DbusStep(Typed) /\ ~(\E t \in Threads : PopupCalled(t))
  <2>0. UNCHANGED <<dialogCall, popping>> /\ (~crossed' => ~crossed)
    <3>1. CASE UserAnswers(Typed)
      <4>1. UNCHANGED <<dialogCall, popping>>
        BY <3>1 DEF UserAnswers
      <4>2. crossed' = (crossed \/ Popping # {}) \/ crossed' = crossed
        BY <3>1, Zenon DEF UserAnswers
      <4>3. ~crossed' => ~crossed
        BY <4>2, Zenon
      <4> QED BY <4>1, <4>3
    <3>2. CASE UserOpensMenu \/ UserSelects
      BY <3>2 DEF UserOpensMenu, UserSelects, dialogVars
    <3> QED BY <1>2, <3>1, <3>2 DEF DbusStep
  <2>1. Popping' = Popping
    BY <2>0 DEF Popping
  <2>2. CASE UNCHANGED signals
    <3>1. Answers' = Answers
      BY <2>2 DEF Answers
    <3>2. dialog' = dialog \/ dialog' = NoDialog
      BY <1>2 DEF DbusStep, UserAnswers, UserOpensMenu, UserSelects, dialogVars
    <3> QED BY <2>0, <2>1, <2>2, <3>1, <3>2 DEF DialogInv
  <2>3. ASSUME NEW s, Sends(s), s.sig = "answer", s.of = dialog, UserAnswers(Typed) PROVE DialogInv'
    <3>1. /\ dialog # NoDialog /\ dialog' = NoDialog
          /\ ~crossed' => Popping = {}
      <4>1. signals' # signals
        BY <2>3, SignalsAppend DEF Sends
      <4> QED BY <2>3, <4>1 DEF UserAnswers
    <3>2. /\ Len(signals') = Len(signals) + 1
          /\ \A i \in 1..Len(signals) : signals'[i] = signals[i]
          /\ signals'[Len(signals) + 1] = s
      BY <2>3, SignalsAppend DEF Sends
    <3>3. ASSUME ~crossed', NEW i \in Answers' PROVE signals'[i].of = dialogCall'
      <4>1. ~crossed /\ dialog = dialogCall /\ Answers = {}
        BY <2>0, <3>1, <3>3 DEF DialogInv
      <4>2. i \in 1..(Len(signals) + 1) /\ signals'[i].sig = "answer"
        BY <1>0, <3>2 DEF Answers
      <4>3. CASE i \in 1..Len(signals)
        BY <1>0, <3>2, <4>1, <4>2, <4>3 DEF Answers
      <4>4. CASE i = Len(signals) + 1
        BY <2>0, <2>3, <3>2, <4>1, <4>4
      <4> QED BY <1>0, <4>2, <4>3, <4>4
    <3>4. ~crossed' => Popping' = {} /\ \A t \in Threads : popping'[t] = NoDialog
      BY <2>0, <2>1, <3>1 DEF Popping
    <3> QED BY <3>1, <3>3, <3>4 DEF DialogInv
  <2>4. ASSUME NEW s, Sends(s), s.sig # "answer", dialog' = dialog PROVE DialogInv'
    <3>1. /\ Len(signals') = Len(signals) + 1
          /\ \A i \in 1..Len(signals) : signals'[i] = signals[i]
          /\ signals'[Len(signals) + 1] = s
      BY <2>4, SignalsAppend DEF Sends
    <3>2. Answers' = Answers
      <4>1. \A i \in 1..(Len(signals) + 1) : i \in 1..Len(signals) \/ i = Len(signals) + 1
        BY <1>0
      <4>2. 1..Len(signals) \subseteq 1..(Len(signals) + 1)
        BY <1>0
      <4> QED BY <1>0, <2>4, <3>1, <4>1, <4>2 DEF Answers
    <3>3. \A i \in Answers : signals'[i] = signals[i]
      BY <1>0, <3>1 DEF Answers
    <3> QED BY <2>0, <2>1, <2>4, <3>2, <3>3 DEF DialogInv
  <2> QED
    <3>1. UserOpensMenu \/ UserSelects => dialog' = dialog
      BY DEF UserOpensMenu, UserSelects, dialogVars
    <3> QED BY <1>2, <2>2, <2>3, <2>4, <3>1, UserSignals
<1>3. CASE DialogStep /\ SignalStep
  <2>1. ASSUME NEW i \in Answers'
        PROVE  \E j \in Answers : signals'[i] = signals[j]
    <3>1. CASE UNCHANGED signals
      BY <2>1, <3>1 DEF Answers
    <3>2. CASE Handles
      BY <1>0, <2>1, <3>2, SignalsTail DEF Answers
    <3> QED BY <1>3, <3>1, <3>2 DEF SignalStep
  <2>2. CASE UNCHANGED dialogVars
    <3>1. Popping' = Popping
      BY <2>2 DEF Popping, dialogVars
    <3> QED BY <2>1, <2>2, <3>1 DEF DialogInv, dialogVars
  <2>3. ASSUME NEW t \in Threads, NEW d \in {Register, MailList}, PopupDialog(t, d) PROVE DialogInv'
    <3>0. ~crossed' => Popping = {} /\ Answers = {}
      BY <2>3, Zenon DEF PopupDialog
    <3>1. dialogCall' = d /\ popping' = [popping EXCEPT ![t] = d] /\ d # NoDialog
      BY <2>3 DEF PopupDialog, Register, MailList, NoDialog
    <3>2. t \in Popping'
      BY <1>0, <3>1 DEF Popping
    <3>3. ~crossed' => Answers' = {}
      BY <2>1, <3>0
    <3>4. ~crossed' => \A u \in Threads : popping'[u] # NoDialog => popping'[u] = dialogCall'
      BY <1>0, <3>0, <3>1 DEF Popping
    <3> QED BY <3>2, <3>3, <3>4 DEF DialogInv
  <2> QED BY <1>3, <2>2, <2>3 DEF DialogStep
<1>4. CASE Afresh
  BY <1>4 DEF Afresh, DialogInv, Answers
<1> QED
  BY <1>1, <1>2, <1>3, <1>4, Effects

\* An answer calls the callback of its own dialog, whatever dialogs were opened and
\* closed before it, unless another one was opened, or failed to open, between the
\* moment it appeared and the handling of its answer (OnSignal, PopupDialog).
THEOREM AnswersFindTheirDialog == MailSpec => []AnswerReachesItsDialog
<1>1. DbusTypes /\ DialogInv => AnswerReachesItsDialog
  BY SignalIndices DEF AnswerReachesItsDialog, DialogInv, Answers
<1>2. QED
  BY <1>1, InitDbusTypes, NextDbusTypes, InitDialogInv, NextDialogInv, PTL DEF MailSpec

(***************************************************************************)
(* Menus. A selection made with no menu asked for is handled before any    *)
(* menu is built, and until then its entry stays in the menu.              *)
(***************************************************************************)
Entry(entries, id) == IF id \in DOMAIN entries THEN entries[id] ELSE "separator"
SelectInv ==
  \A i \in DOMAIN signals :
    signals[i].sig = "select" /\ ~signals[i].again =>
      /\ Entry(menu, signals[i].id) = signals[i].entry
      /\ \A j \in 1..(i - 1) : signals[j].sig # "build"

LEMMA InitSelectInv == MailInit => SelectInv
BY DEF MailInit, DbusInit, SelectInv

LEMMA NextSelectInv == DbusTypes /\ SelectInv /\ [MailNext]_<<dbusVars, mailVars>> => SelectInv'
<1> SUFFICES ASSUME DbusTypes, SelectInv, [MailNext]_<<dbusVars, mailVars>> PROVE SelectInv'
  OBVIOUS
<1>a. DbusTypes'
  BY NextDbusTypes
<1>0. DOMAIN signals = 1..Len(signals) /\ DOMAIN signals' = 1..Len(signals') /\ Len(signals) \in Nat
  BY <1>a DEF DbusTypes
<1>1. CASE DbusStep(Typed)
  <2>1. UNCHANGED menu
    BY <1>1 DEF DbusStep, PopupCalled, UserAnswers, UserOpensMenu, UserSelects, menuVars
  <2>3. CASE UNCHANGED signals
    BY <2>1, <2>3 DEF SelectInv
  <2>4. ASSUME NEW s, Sends(s),
               s.sig = "select" /\ ~s.again => Entry(menu, s.id) = s.entry /\ Builds = {}
        PROVE  SelectInv'
    <3>1. /\ Len(signals') = Len(signals) + 1
          /\ \A i \in 1..Len(signals) : signals'[i] = signals[i]
          /\ signals'[Len(signals) + 1] = s
      BY <2>4, SignalsAppend DEF Sends
    <3> SUFFICES ASSUME NEW i \in 1..(Len(signals) + 1), signals'[i].sig = "select", ~signals'[i].again
                 PROVE  /\ Entry(menu', signals'[i].id) = signals'[i].entry
                        /\ \A j \in 1..(i - 1) : signals'[j].sig # "build"
      BY <1>0, <3>1 DEF SelectInv
    <3>2. CASE i \in 1..Len(signals)
      <4>1. \A j \in 1..(i - 1) : signals'[j] = signals[j]
        BY <1>0, <3>1, <3>2
      <4> QED BY <1>0, <2>1, <3>1, <3>2, <4>1 DEF SelectInv
    <3>3. CASE i = Len(signals) + 1
      <4>1. Entry(menu, s.id) = s.entry /\ Builds = {}
        BY <2>4, <3>1, <3>3
      <4>2. \A j \in 1..(i - 1) : signals'[j] = signals[j] /\ j \in DOMAIN signals
        BY <1>0, <3>1, <3>3
      <4> QED BY <2>1, <3>1, <3>3, <4>1, <4>2 DEF Builds
    <3> QED BY <1>0, <3>2, <3>3
  <2>5. ASSUME NEW s, UserSelects, s.id \in DOMAIN shown, s.entry = shown[s.id]
        PROVE  Entry(menu, s.id) = s.entry
    <3>1. shown = menu
      BY <2>5 DEF DbusTypes
    <3> QED BY <2>5, <3>1 DEF Entry
  <2> QED BY <1>1, <2>3, <2>4, <2>5, UserSignals
<1>2. CASE DialogStep /\ SignalStep
  <2>1. CASE UNCHANGED <<signals, menuVars>>
    BY <2>1 DEF SelectInv, menuVars
  <2>2. CASE Handles
    <3>1. /\ Len(signals') = Len(signals) - 1 /\ signals # <<>> /\ Head(signals) = signals[1] /\ 1 \in 1..Len(signals)
          /\ \A i \in 1..Len(signals') : i + 1 \in 1..Len(signals) /\ signals'[i] = signals[i + 1]
      BY <2>2, SignalsTail, SignalIndices DEF Handles
    <3> SUFFICES ASSUME NEW i \in 1..Len(signals'), signals'[i].sig = "select", ~signals'[i].again
                 PROVE  /\ Entry(menu', signals'[i].id) = signals'[i].entry
                        /\ \A j \in 1..(i - 1) : signals'[j].sig # "build"
      BY <1>0 DEF SelectInv
    <3>2. /\ i + 1 \in DOMAIN signals /\ signals'[i] = signals[i + 1]
          /\ Entry(menu, signals'[i].id) = signals'[i].entry
          /\ \A j \in 1..i : signals[j].sig # "build"
      <4>1. i + 1 \in DOMAIN signals /\ signals'[i] = signals[i + 1] /\ (i + 1) - 1 = i
        BY <1>0, <3>1
      <4> QED BY <4>1 DEF SelectInv
    <3>3. Head(signals).sig # "build"
      <4>1. 1 \in 1..i
        OBVIOUS
      <4> QED BY <3>1, <3>2, <4>1
    <3>4. UNCHANGED menu
      BY <1>2, <3>3 DEF SignalStep, menuVars
    <3>5. \A j \in 1..(i - 1) : j + 1 \in 1..i /\ signals'[j] = signals[j + 1]
      BY <1>0, <3>1
    <3> QED BY <3>2, <3>4, <3>5
  <2> QED BY <1>2, <2>1, <2>2 DEF SignalStep
<1>3. CASE Afresh
  BY <1>3 DEF Afresh, SelectInv
<1> QED
  BY <1>1, <1>2, <1>3, Effects

\* A selected entry launches the action the user saw, even when the applet has
\* logged in since, unless another menu was asked for before (Clear, addOne, Launch).
THEOREM SelectionsFindTheirEntry == MailSpec => []SelectionIsTheEntrySeen
<1>1. DbusTypes /\ SelectInv => SelectionIsTheEntrySeen
  BY SignalIndices DEF SelectionIsTheEntrySeen, SelectInv, Launched, Entry
<1>2. QED
  BY <1>1, InitDbusTypes, NextDbusTypes, InitSelectInv, NextSelectInv, PTL DEF MailSpec

(***************************************************************************)
(* The feed. A check is under way from Clear to the redraw of the icon;    *)
(* without a login there are no mails; an alert is about new ones.         *)
(***************************************************************************)
FeedTypes ==
  /\ inbox \in Nat /\ login \in BOOLEAN /\ total \in Nat /\ mails \in Nat
  /\ shownMails \in Int /\ lastErr \in BOOLEAN /\ alone \in BOOLEAN
  /\ at \in [Threads -> MailSteps] /\ count \in [Threads -> Int] /\ delta \in [Threads -> Int]

LoopSteps == {"init", "idle", "defaults", "exited", "list"}
FeedInv ==
  /\ ~login => total = 0
  /\ at[Loop] \in LoopSteps
  /\ at[Loop] = "list" => delta[Loop] = 0
  /\ \A t \in Workers :
       /\ at[t] \in {"off", "check", "fetch", "alert", "show", "click", "list"}
       /\ at[t] = "fetch" => login
       /\ at[t] = "alert" => delta[t] > 0

\* What Launch leaves of the feed: its thread is back, lists mails that are no
\* news, or is back with a check launched.
Moves(t, s)  == at' = [at EXCEPT ![t] = s] /\ (s = "list" => delta'[t] = 0)
LaunchMoves(t) ==
  /\ \/ delta' = delta
     \/ delta' = [delta EXCEPT ![t] = 0]
  /\ \/ count' = count
     \/ \E n \in Nat : count' = [count EXCEPT ![t] = n]
  /\ \/ \E s \in {Back(t), "list"} : Moves(t, s)
     \/ Restart(t, Back(t))

LEMMA LaunchEffect ==
  ASSUME FeedTypes, NEW t \in Threads, NEW a, Launch(t, a)
  PROVE  LaunchMoves(t)
<1> USE DEF FeedTypes
<1>1. CASE AskLogin(t)
  BY <1>1, Zenon DEF AskLogin, LaunchMoves, Moves, Goto, Back
<1>2. CASE ~(a = "register" \/ ~login)
  <2>1. delta' = [delta EXCEPT ![t] = 0] /\ delta'[t] = 0
    BY <1>2 DEF Launch
  <2>2. CASE a = "open" /\ Goto(t, Back(t)) /\ UNCHANGED count
    BY <2>1, <2>2, Zenon DEF LaunchMoves, Moves, Goto
  <2>3. CASE a = "check" /\ Restart(t, Back(t)) /\ UNCHANGED count
    BY <2>1, <2>3 DEF LaunchMoves
  <2>4. CASE Goto(t, "list") /\ count' = [count EXCEPT ![t] = Least(DialogNbMail, mails)]
    <3>1. Least(DialogNbMail, mails) \in Nat
      BY MailAssumption DEF Least
    <3> HIDE DEF FeedTypes
    <3>2. Moves(t, "list")
      BY <2>1, <2>4 DEF Moves, Goto
    <3> QED BY <2>1, <2>4, <3>1, <3>2 DEF LaunchMoves
  <2> QED BY <1>2, <2>2, <2>3, <2>4 DEF Launch
<1> QED BY <1>1, <1>2 DEF Launch

\* A step of thread u outside of a check.
Calm(u) ==
  \/ at'[u] = at[u] /\ delta'[u] = delta[u] /\ count'[u] = count[u]
  \/ at[u] \in {"off", "click"} /\ at'[u] \in {"off", "check", "click"}
  \/ at[u] = "click" /\ at'[u] = "list" /\ delta'[u] = 0
  \/ at[u] = "list" /\ ~(delta[u] > 0) /\ at'[u] = "off"
LoopCalm ==
  \/ at'[Loop] = at[Loop] /\ delta'[Loop] = delta[Loop]
  \/ at[Loop] \notin {"defaults", "exited"} /\ at'[Loop] \in {"idle", "init", "exited"}
  \/ at[Loop] = "idle" /\ at'[Loop] = "list" /\ delta'[Loop] = 0

\* What LaunchMoves changes for each thread.
LEMMA MovesOne ==
  ASSUME FeedTypes, FeedInv, NEW t \in Threads, LaunchMoves(t), t # Loop => at[t] = "click", t = Loop => at[t] = "idle"
  PROVE  /\ at' \in [Threads -> MailSteps] /\ count' \in [Threads -> Int] /\ delta' \in [Threads -> Int]
         /\ LoopCalm /\ \A u \in Workers : Calm(u)
<1>1. /\ at \in [Threads -> MailSteps] /\ count \in [Threads -> Int] /\ delta \in [Threads -> Int]
      /\ Loop \in Threads /\ Workers = Threads \ {Loop} /\ Back(t) \in {"idle", "off"}
      /\ (t = Loop => Back(t) = "idle") /\ (t # Loop => Back(t) = "off")
  BY DbusAssumption DEF FeedTypes, Workers, Back
<1>2. /\ delta' \in [Threads -> Int] /\ \A u \in Threads \ {t} : delta'[u] = delta[u]
  BY <1>1 DEF LaunchMoves
<1>3. /\ count' \in [Threads -> Int] /\ \A u \in Threads \ {t} : count'[u] = count[u]
  <2>1. CASE count' = count
    BY <1>1, <2>1
  <2>2. CASE \E n \in Nat : count' = [count EXCEPT ![t] = n]
    BY <1>1, <2>2
  <2> QED BY <2>1, <2>2 DEF LaunchMoves
<1>4. CASE \E s \in {Back(t), "list"} : Moves(t, s)
  <2> PICK s \in {Back(t), "list"} : Moves(t, s)
    BY <1>4
  <2>1. at' \in [Threads -> MailSteps] /\ at'[t] = s /\ (\A u \in Threads \ {t} : at'[u] = at[u])
        /\ (s = "list" => delta'[t] = 0)
    BY <1>1 DEF Moves, MailSteps
  <2> QED BY <1>1, <1>2, <1>3, <2>1 DEF LoopCalm, Calm
<1>5. CASE Restart(t, Back(t))
  <2> PICK w \in Workers : at[w] = "off" /\ at' = [at EXCEPT ![w] = "check", ![t] = Back(t)]
    BY <1>5 DEF Restart
  <2>1. w # t
    BY <1>1
  <2>2. at' \in [Threads -> MailSteps] /\ at'[t] = Back(t) /\ at'[w] = "check" /\ \A u \in Threads \ {t, w} : at'[u] = at[u]
    BY <1>1, <2>1 DEF MailSteps
  <2> QED BY <1>1, <1>2, <1>3, <2>2 DEF LoopCalm, Calm
<1> QED BY <1>4, <1>5 DEF LaunchMoves

(***************************************************************************)
(* The icon. As long as nothing overlaps, at most one check is under way,  *)
(* none between Init and SetDefaults of a reload; outside of both the icon *)
(* is right, and within a check it still shows what the check has saved.   *)
(***************************************************************************)
Busy(t) == at[t] \in {"fetch", "alert", "show"} \/ (at[t] = "list" /\ delta[t] > 0)
Failed  == shownMails = Err /\ lastErr
Right   == shownMails = total \/ Failed
OneAtWork    == \A t, u \in Workers : Busy(t) /\ Busy(u) => t = u
ResetAlone   == at[Loop] = "defaults" => total = 0 /\ \A t \in Workers : ~Busy(t)
RightAtRest  == at[Loop] \notin {"defaults", "exited"} /\ (\A t \in Workers : ~Busy(t)) => Right
ShowsSaved(t) ==
  /\ at[t] = "fetch" => total = 0 /\ (shownMails = count[t] \/ Failed)
  /\ at[t] \in {"alert", "show"} \/ (at[t] = "list" /\ delta[t] > 0) =>
       delta[t] = total - shownMails \/ Failed
IconInv == alone => OneAtWork /\ ResetAlone /\ RightAtRest /\ \A t \in Workers : ShowsSaved(t)
MInv == FeedTypes /\ FeedInv /\ IconInv

LEMMA InitMInv == MailInit => MInv
<1> SUFFICES ASSUME MailInit PROVE MInv
  OBVIOUS
<1>1. /\ inbox = 0 /\ login = FALSE /\ total = 0 /\ mails = 0 /\ shownMails = 0 /\ lastErr = FALSE /\ alone = TRUE
      /\ at = [t \in Threads |-> IF t = Loop THEN "init" ELSE "off"]
      /\ count = [t \in Threads |-> 0] /\ delta = [t \in Threads |-> 0]
  BY DEF MailInit
<1>2. FeedTypes
  <2>1. at \in [Threads -> MailSteps]
    BY <1>1 DEF MailSteps
  <2>2. count \in [Threads -> Int] /\ delta \in [Threads -> Int]
    BY <1>1
  <2>3. inbox \in Nat /\ total \in Nat /\ mails \in Nat /\ shownMails \in Int
    BY <1>1
  <2>4. login \in BOOLEAN /\ lastErr \in BOOLEAN /\ alone \in BOOLEAN
    BY <1>1
  <2> QED BY <2>1, <2>2, <2>3, <2>4 DEF FeedTypes
<1>3. at[Loop] = "init" /\ \A t \in Workers : at[t] = "off"
  BY <1>1, DbusAssumption DEF Workers
<1> QED
  BY <1>1, <1>2, <1>3 DEF MInv, FeedInv, LoopSteps, IconInv, OneAtWork, ResetAlone, RightAtRest, ShowsSaved, Busy, Right, Failed

\* A step outside of checks and resets.
LEMMA CalmKeeps ==
  ASSUME MInv, FeedTypes', LoopCalm, \A u \in Workers : Calm(u),
         UNCHANGED <<iconVars, total, alone>>, login => login'
  PROVE  MInv'
<1> USE DEF MInv, iconVars
<1>1. FeedInv'
  BY DEF FeedInv, LoopSteps, LoopCalm, Calm
<1>2. \A u \in Workers : Busy(u)' => Busy(u) /\ at'[u] = at[u] /\ delta'[u] = delta[u] /\ count'[u] = count[u]
  BY DEF Busy, Calm, FeedTypes
<1>3. \A u \in Workers : Busy(u) => Busy(u)'
  BY DEF Busy, Calm
<1>4. OneAtWork /\ alone => OneAtWork'
  BY <1>2 DEF OneAtWork
<1>5. at'[Loop] = "defaults" => at[Loop] = "defaults"
  BY DEF LoopCalm
<1>6. at[Loop] = "exited" \/ at[Loop] = "defaults" => at'[Loop] = at[Loop]
  BY DEF LoopCalm
<1>7. ResetAlone => ResetAlone'
  BY <1>2, <1>5 DEF ResetAlone
<1>8. RightAtRest => RightAtRest'
  BY <1>3, <1>6 DEF RightAtRest, Right, Failed
<1>9. ASSUME NEW t \in Workers, ShowsSaved(t) PROVE ShowsSaved(t)'
  BY <1>2, <1>9 DEF ShowsSaved, Busy, Failed
<1> QED BY <1>1, <1>4, <1>7, <1>8, <1>9 DEF IconInv

\* A step of the check of thread t, which alone is under way.
LEMMA CheckKeeps ==
  ASSUME MInv, FeedTypes', NEW t \in Workers, UNCHANGED login,
         ~login' => total' = 0, at'[Loop] = at[Loop], at[Loop] # "exited", delta'[Loop] = delta[Loop],
         \A u \in Workers \ {t} : at'[u] = at[u] /\ delta'[u] = delta[u] /\ count'[u] = count[u],
         at'[t] \in {"off", "fetch", "alert", "show", "list"},
         at'[t] = "fetch" => login, at'[t] = "alert" => delta'[t] > 0,
         alone' => /\ alone /\ at[Loop] # "defaults"
                   /\ \A u \in Workers \ {t} : ~Busy(u)
                   /\ at'[t] = "off" => Right'
                   /\ at'[t] # "off" => Busy(t)'
                   /\ ShowsSaved(t)'
  PROVE  MInv'
<1> USE DEF MInv
<1>1. FeedInv'
  BY DEF FeedInv
<1>2. SUFFICES ASSUME alone' PROVE IconInv'
  BY <1>1 DEF IconInv
<1>3. \A u \in Workers \ {t} : ~Busy(u)'
  BY <1>2 DEF Busy
<1>4. OneAtWork'
  BY <1>3 DEF OneAtWork
<1>5. ResetAlone'
  BY <1>2 DEF ResetAlone
<1>6. RightAtRest'
  BY <1>2 DEF RightAtRest
<1>7. ASSUME NEW u \in Workers PROVE ShowsSaved(u)'
  <2>1. CASE u = t
    BY <1>2, <2>1
  <2>2. CASE u # t
    BY <1>3, <2>2 DEF ShowsSaved, Busy, Failed
  <2> QED BY <2>1, <2>2
<1> QED BY <1>4, <1>5, <1>6, <1>7 DEF IconInv

LEMMA NextMInv == MInv /\ [MailNext]_<<dbusVars, mailVars>> => MInv'
<1> SUFFICES ASSUME MInv, [MailNext]_<<dbusVars, mailVars>> PROVE MInv'
  OBVIOUS
<1> USE DEF feedVars, iconVars, mailVars
<1>0. /\ at \in [Threads -> MailSteps] /\ count \in [Threads -> Int] /\ delta \in [Threads -> Int]
      /\ inbox \in Nat /\ total \in Nat /\ mails \in Nat /\ shownMails \in Int /\ lastErr \in BOOLEAN
      /\ login \in BOOLEAN /\ alone \in BOOLEAN /\ Loop \in Threads /\ Workers = Threads \ {Loop}
      /\ FeedTypes /\ FeedInv /\ at[Loop] \in LoopSteps
  BY DbusAssumption DEF MInv, FeedTypes, FeedInv, Workers
<1>1. CASE UNCHANGED mailVars
  <2>1. FeedTypes'
    BY <1>0, <1>1 DEF FeedTypes
  <2>2. LoopCalm /\ \A u \in Workers : Calm(u)
    BY <1>1 DEF LoopCalm, Calm
  <2> QED BY <1>1, <2>1, <2>2, CalmKeeps
<1>2. ASSUME NEW t \in Threads, Running(t), Check(t) PROVE MInv'
  <2>0. at[t] = "check" /\ t \in Workers /\ at[Loop] # "exited"
    BY <1>0, <1>2 DEF Check, LoopSteps, Running
  <2>1. alone' => /\ alone /\ at[Loop] # "defaults" /\ (\A u \in Workers : ~Busy(u))
    <3>1. alone' = (alone /\ Checking = {} /\ at[Loop] # "defaults")
      BY <1>2 DEF Check
    <3>2. Checking = {} => \A u \in Workers : ~Busy(u)
      BY DEF Checking, Busy
    <3> QED BY <3>1, <3>2, Zenon
  <2>2. alone' => Right
    BY <2>0, <2>1 DEF MInv, IconInv, RightAtRest
  <2>a. alone' \in BOOLEAN
    BY <1>2 DEF Check
  <2>3. CASE login
    <3>1. /\ count' = [count EXCEPT ![t] = total] /\ total' = 0 /\ mails' = 0 /\ at' = [at EXCEPT ![t] = "fetch"]
          /\ UNCHANGED <<login, shownMails, lastErr, delta, inbox>>
      BY <1>2, <2>3 DEF Check, Goto
    <3>2. FeedTypes'
      BY <1>0, <2>a, <3>1 DEF FeedTypes, MailSteps
    <3>3. /\ at'[t] = "fetch" /\ count'[t] = total /\ at'[Loop] = at[Loop]
          /\ \A u \in Workers \ {t} : at'[u] = at[u] /\ delta'[u] = delta[u] /\ count'[u] = count[u]
      BY <1>0, <2>0, <3>1
    <3>4. alone' => ShowsSaved(t)' /\ Busy(t)'
      BY <2>2, <3>1, <3>3 DEF ShowsSaved, Busy, Right, Failed
    <3> QED BY <2>0, <2>1, <2>3, <3>1, <3>2, <3>3, <3>4, CheckKeeps
  <2>4. CASE ~login
    <3>1. /\ shownMails' \in IF lastErr THEN {shownMails, Err} ELSE {Err}
          /\ lastErr' = TRUE /\ at' = [at EXCEPT ![t] = "off"]
          /\ UNCHANGED <<login, total, mails, count, delta, inbox>>
      BY <1>2, <2>4 DEF Check, Goto
    <3>2. FeedTypes'
      BY <1>0, <2>a, <3>1 DEF FeedTypes, MailSteps, Err
    <3>3. /\ at'[t] = "off" /\ at'[Loop] = at[Loop]
          /\ \A u \in Workers \ {t} : at'[u] = at[u] /\ delta'[u] = delta[u] /\ count'[u] = count[u]
      BY <1>0, <2>0, <3>1
    <3>4. total = 0
      BY <1>0, <2>4 DEF FeedInv
    <3>5. alone' => Right'
      BY <2>2, <3>1 DEF Right, Failed
    <3>6. ShowsSaved(t)'
      BY <3>3 DEF ShowsSaved
    <3> QED BY <2>0, <2>1, <3>1, <3>2, <3>3, <3>4, <3>5, <3>6, CheckKeeps
  <2> QED BY <1>0, <2>3, <2>4
<1>3. ASSUME NEW t \in Threads, Running(t), Fetch(t) PROVE MInv'
  <2>0. at[t] = "fetch" /\ t \in Workers /\ at[Loop] # "exited" /\ UNCHANGED <<alone, login, count, inbox>>
    BY <1>0, <1>3 DEF Fetch, LoopSteps, Running
  <2>1. alone => /\ at[Loop] # "defaults" /\ (\A u \in Workers \ {t} : ~Busy(u))
                 /\ total = 0 /\ (shownMails = count[t] \/ Failed)
    BY <2>0 DEF MInv, IconInv, OneAtWork, ResetAlone, ShowsSaved, Busy
  <2>2. login
    BY <1>0, <2>0 DEF FeedInv
  <2>3. CASE /\ total' = inbox /\ mails' = mails + inbox
             /\ delta' = [delta EXCEPT ![t] = inbox - count[t]]
             /\ Goto(t, IF count[t] > 0 /\ inbox > count[t] THEN "alert" ELSE "show")
             /\ UNCHANGED iconVars
    <3>1. /\ at' \in [Threads -> MailSteps] /\ delta' \in [Threads -> Int] /\ delta'[t] = inbox - count[t]
          /\ at'[t] = (IF count[t] > 0 /\ inbox > count[t] THEN "alert" ELSE "show") /\ at'[Loop] = at[Loop]
          /\ delta'[Loop] = delta[Loop] /\ UNCHANGED <<shownMails, lastErr>> /\ total' = inbox /\ mails' \in Nat
          /\ \A u \in Workers \ {t} : at'[u] = at[u] /\ delta'[u] = delta[u] /\ count'[u] = count[u]
      BY <1>0, <2>0, <2>3 DEF Goto, MailSteps
    <3>2. FeedTypes'
      BY <1>0, <2>0, <3>1 DEF FeedTypes
    <3>3. /\ at'[t] \in {"alert", "show"} /\ Busy(t)'
          /\ (at'[t] = "alert" => count[t] > 0 /\ delta'[t] > 0)
      BY <1>0, <3>1 DEF Busy
    <3>4. alone => ShowsSaved(t)'
      <4>1. alone => delta'[t] = total' - shownMails' \/ Failed'
        BY <1>0, <2>1, <3>1 DEF Failed
      <4> QED BY <3>3, <4>1 DEF ShowsSaved
    <3> QED BY <2>0, <2>1, <2>2, <3>1, <3>2, <3>3, <3>4, CheckKeeps
  <2>4. CASE /\ \/ UNCHANGED <<total, mails>>
                \/ total' = inbox /\ mails' \in mails..mails + inbox
             /\ delta' = [delta EXCEPT ![t] = total' - count[t]]
             /\ shownMails' \in IF total' # count[t] THEN {total'} ELSE IF lastErr THEN {shownMails, Err} ELSE {Err}
             /\ lastErr' = TRUE
             /\ Goto(t, "off")
    <3>0. total' \in Nat /\ mails' \in Nat
      BY <1>0, <2>4
    <3>1. /\ at' \in [Threads -> MailSteps] /\ delta' \in [Threads -> Int] /\ shownMails' \in Int
          /\ at'[t] = "off" /\ at'[Loop] = at[Loop] /\ delta'[Loop] = delta[Loop]
          /\ \A u \in Workers \ {t} : at'[u] = at[u] /\ delta'[u] = delta[u] /\ count'[u] = count[u]
      BY <1>0, <2>0, <2>4, <3>0 DEF Goto, MailSteps, Err
    <3>2. FeedTypes'
      BY <1>0, <2>0, <2>4, <3>0, <3>1 DEF FeedTypes
    <3>3. ShowsSaved(t)'
      BY <3>1 DEF ShowsSaved
    <3>4. alone => Right'
      BY <1>0, <2>1, <2>4, <3>0 DEF Right, Failed
    <3> QED BY <2>0, <2>1, <2>2, <3>1, <3>2, <3>3, <3>4, CheckKeeps
  <2> QED BY <1>3, <2>3, <2>4 DEF Fetch
<1>4. ASSUME NEW t \in Threads, Running(t), Alert(t) PROVE MInv'
  <2>0. at[t] = "alert" /\ t \in Workers /\ at[Loop] # "exited"
        /\ UNCHANGED <<alone, login, delta, inbox, total, mails, shownMails, lastErr>>
    BY <1>0, <1>4 DEF Alert, LoopSteps, Running
  <2>1. alone => /\ at[Loop] # "defaults" /\ (\A u \in Workers \ {t} : ~Busy(u)) /\ (delta[t] = total - shownMails \/ Failed)
    BY <2>0 DEF MInv, IconInv, OneAtWork, ResetAlone, ShowsSaved, Busy
  <2>2. delta[t] > 0 /\ (~login => total = 0)
    BY <1>0, <2>0 DEF FeedInv
  <2>3. \E n \in Int : count' = [count EXCEPT ![t] = n] \/ count' = count
    <3>1. Least(Least(delta[t], DialogNbMail), mails) \in Int
      BY <1>0, <2>0, MailAssumption DEF Least
    <3> QED BY <1>4, <3>1 DEF Alert
  <2>4. count' \in [Threads -> Int] /\ \A u \in Workers \ {t} : count'[u] = count[u]
    BY <1>0, <2>3
  <2>5. /\ at' \in [Threads -> MailSteps] /\ at'[t] \in {"list", "show"} /\ at'[Loop] = at[Loop]
        /\ \A u \in Workers \ {t} : at'[u] = at[u]
    <3>1. at' = [at EXCEPT ![t] = "list"] \/ at' = [at EXCEPT ![t] = "show"]
      BY <1>4 DEF Alert, Goto
    <3> QED BY <1>0, <2>0, <3>1 DEF MailSteps
  <2>6. FeedTypes'
    BY <1>0, <2>0, <2>4, <2>5 DEF FeedTypes
  <2>7. Busy(t)'
    BY <2>0, <2>2, <2>5 DEF Busy
  <2>8. alone => ShowsSaved(t)'
    BY <2>0, <2>1, <2>5 DEF ShowsSaved, Failed
  <2> QED BY <2>0, <2>1, <2>2, <2>4, <2>5, <2>6, <2>7, <2>8, CheckKeeps
<1>5. ASSUME NEW t \in Threads, Running(t), Show(t) PROVE MInv'
  <2>0. at[t] = "show" /\ t \in Workers /\ at[Loop] # "exited" /\ UNCHANGED <<alone, login, count, delta, inbox, total, mails>>
        /\ lastErr' = FALSE /\ shownMails' = (IF delta[t] # 0 \/ lastErr THEN total ELSE shownMails)
        /\ at' = [at EXCEPT ![t] = "off"]
    BY <1>0, <1>5 DEF Show, LoopSteps, Running, Goto
  <2>1. alone => /\ at[Loop] # "defaults" /\ (\A u \in Workers \ {t} : ~Busy(u))
                 /\ delta[t] = total - shownMails \/ Failed
    BY <2>0 DEF MInv, IconInv, OneAtWork, ResetAlone, ShowsSaved, Busy
  <2>2. ~login => total = 0
    BY <1>0 DEF FeedInv
  <2>3. /\ at' \in [Threads -> MailSteps] /\ at'[t] = "off" /\ at'[Loop] = at[Loop]
        /\ \A u \in Workers \ {t} : at'[u] = at[u]
    BY <1>0, <2>0 DEF MailSteps
  <2>a. shownMails' \in Int
    BY <1>0, <2>0
  <2>4. FeedTypes'
    BY <1>0, <2>0, <2>3, <2>a DEF FeedTypes
  <2>5. ShowsSaved(t)'
    BY <2>3 DEF ShowsSaved
  <2>6. alone => Right'
    BY <1>0, <2>0, <2>1 DEF Right, Failed
  <2> QED BY <2>0, <2>1, <2>2, <2>3, <2>4, <2>5, <2>6, CheckKeeps
<1>6. ASSUME NEW t \in Threads, Running(t), List(t) PROVE MInv'
  <2>0. at[t] = "list" /\ at[Loop] # "exited"
        /\ UNCHANGED <<alone, login, count, delta, inbox, total, mails, shownMails, lastErr>>
    BY <1>6 DEF List, Running
  <2>1. CASE at' = [at EXCEPT ![Loop] = "exited"]
    <3>1. at' \in [Threads -> MailSteps] /\ at'[Loop] = "exited" /\ \A u \in Workers : at'[u] = at[u]
      BY <1>0, <2>1 DEF MailSteps
    <3>2. FeedTypes'
      BY <1>0, <2>0, <3>1 DEF FeedTypes
    <3>3. \A u \in Workers : Busy(u)' = Busy(u) /\ ShowsSaved(u)' = ShowsSaved(u)
      BY <2>0, <3>1 DEF Busy, ShowsSaved, Failed
    <3>4. FeedInv'
      BY <1>0, <2>0, <3>1 DEF FeedInv, LoopSteps
    <3>5. IconInv'
      BY <2>0, <3>1, <3>3 DEF MInv, IconInv, OneAtWork, ResetAlone, RightAtRest
    <3> QED BY <3>2, <3>4, <3>5 DEF MInv
  <2>2. CASE at' = [at EXCEPT ![t] = IF delta[t] > 0 THEN "show" ELSE Back(t)]
    <3>1. CASE delta[t] > 0
      <4>1. t \in Workers /\ (~login => total = 0)
        BY <1>0, <2>0, <3>1 DEF FeedInv
      <4>2. at' \in [Threads -> MailSteps] /\ at'[t] = "show" /\ at'[Loop] = at[Loop]
            /\ \A u \in Workers \ {t} : at'[u] = at[u]
        BY <1>0, <2>2, <3>1, <4>1 DEF MailSteps
      <4>3. FeedTypes'
        BY <1>0, <2>0, <4>2 DEF FeedTypes
      <4>4. alone => /\ at[Loop] # "defaults" /\ (\A u \in Workers \ {t} : ~Busy(u)) /\ ShowsSaved(t)' /\ Busy(t)'
        BY <2>0, <3>1, <4>1, <4>2 DEF MInv, IconInv, OneAtWork, ResetAlone, ShowsSaved, Busy, Failed
      <4> QED BY <2>0, <4>1, <4>2, <4>3, <4>4, CheckKeeps
    <3>2. CASE ~(delta[t] > 0)
      <4>1. at' \in [Threads -> MailSteps] /\ at'[t] = Back(t) /\ \A u \in Threads \ {t} : at'[u] = at[u]
        BY <1>0, <2>2, <3>2 DEF MailSteps, Back
      <4>2. FeedTypes'
        BY <1>0, <2>0, <4>1 DEF FeedTypes
      <4>3. LoopCalm /\ \A u \in Workers : Calm(u)
        BY <1>0, <2>0, <3>2, <4>1 DEF LoopCalm, Calm, Back
      <4> QED BY <2>0, <4>2, <4>3, CalmKeeps
    <3> QED BY <3>1, <3>2
  <2> QED BY <1>6, <2>1, <2>2 DEF List, Goto
<1>7. ASSUME NEW t \in Threads, LaunchMoves(t), t # Loop => at[t] = "click", t = Loop => at[t] = "idle",
             UNCHANGED <<inbox, total, mails, shownMails, lastErr, alone>>, login' \in BOOLEAN, login => login'
      PROVE  MInv'
  <2>1. /\ at' \in [Threads -> MailSteps] /\ count' \in [Threads -> Int] /\ delta' \in [Threads -> Int]
        /\ LoopCalm /\ \A u \in Workers : Calm(u)
    BY <1>0, <1>7, MovesOne
  <2>2. FeedTypes'
    BY <1>0, <1>7, <2>1 DEF FeedTypes
  <2> QED BY <1>7, <2>1, <2>2, CalmKeeps
<1>8. CASE \E t \in Threads : Running(t) /\ ClickAction(t)
  <2> PICK t \in Threads : Running(t) /\ ClickAction(t)
    BY <1>8
  <2>1. at[t] = "click" /\ t # Loop /\ \E a \in {"open", "show", "check"} : Launch(t, a)
    BY <1>0 DEF ClickAction, LoopSteps
  <2>2. LaunchMoves(t)
    BY <1>0, <2>1, LaunchEffect
  <2>3. UNCHANGED <<inbox, total, mails, shownMails, lastErr, alone, login>>
    BY DEF ClickAction
  <2> QED BY <1>0, <1>7, <2>1, <2>2, <2>3
<1>9. CASE HandleAnswer
  <2>1. at[Loop] = "idle" /\ UNCHANGED <<inbox, total, mails, shownMails, lastErr, alone>>
    BY <1>9 DEF HandleAnswer, LoopIdle
  <2>2. CASE LaunchMoves(Loop) /\ login' \in BOOLEAN /\ (login => login')
    BY <1>0, <1>7, <2>1, <2>2
  <2>3. CASE UNCHANGED <<login, at, count, delta>>
    <3>1. FeedTypes'
      BY <1>0, <2>1, <2>3 DEF FeedTypes
    <3>2. LoopCalm /\ \A u \in Workers : Calm(u)
      BY <2>3 DEF LoopCalm, Calm
    <3> QED BY <2>1, <2>3, <3>1, <3>2, CalmKeeps
  <2>4. CASE Goto(Loop, "exited") /\ UNCHANGED <<count, delta>> /\ login' \in BOOLEAN /\ (login => login')
    <3>1. at' \in [Threads -> MailSteps] /\ at'[Loop] = "exited" /\ \A u \in Workers : at'[u] = at[u]
      BY <1>0, <2>4 DEF Goto, MailSteps
    <3>2. FeedTypes'
      BY <1>0, <2>1, <2>4, <3>1 DEF FeedTypes
    <3>3. LoopCalm /\ \A u \in Workers : Calm(u)
      BY <2>1, <2>4, <3>1 DEF LoopCalm, Calm
    <3> QED BY <2>1, <2>4, <3>2, <3>3, CalmKeeps
  <2>5. \A v : SaveLogin(v) => login' \in BOOLEAN /\ (login => login')
    <3>1. \A v : SaveLogin(v) => login' = (login \/ file' = "pair")
      BY DEF SaveLogin
    <3> QED BY <1>0, <3>1
  <2>6. Restart(Loop, "idle") /\ UNCHANGED <<count, delta>> => LaunchMoves(Loop)
    BY DEF LaunchMoves, Back
  <2>7. Launch(Loop, "open") => LaunchMoves(Loop)
    BY <1>0, LaunchEffect
  <2>8. AskLogin(Loop) => LaunchMoves(Loop)
    BY Zenon DEF AskLogin, LaunchMoves, Moves, Goto, Back
  <2> QED BY <1>0, <1>9, <2>2, <2>3, <2>4, <2>5, <2>6, <2>7, <2>8 DEF HandleAnswer
<1>10. CASE HandleBuild
  BY <1>1, <1>10 DEF HandleBuild
<1>11. CASE HandleSelect
  <2>1. at[Loop] = "idle" /\ UNCHANGED <<inbox, total, mails, shownMails, lastErr, alone, login>>
    BY <1>11 DEF HandleSelect, LoopIdle
  <2>2. CASE \E a : Launch(Loop, a)
    <3>1. LaunchMoves(Loop)
      BY <1>0, <2>2, LaunchEffect
    <3> QED BY <1>0, <1>7, <2>1, <3>1
  <2>3. CASE UNCHANGED <<at, count, delta>>
    <3>1. FeedTypes'
      BY <1>0, <2>1, <2>3 DEF FeedTypes
    <3>2. LoopCalm /\ \A u \in Workers : Calm(u)
      BY <2>3 DEF LoopCalm, Calm
    <3> QED BY <2>1, <3>1, <3>2, CalmKeeps
  <2> QED BY <1>11, <2>2, <2>3 DEF HandleSelect
<1>12. CASE Tick
  <2>1. at[Loop] = "idle" /\ LaunchMoves(Loop) /\ UNCHANGED <<inbox, total, mails, shownMails, lastErr, alone, login>>
    BY <1>12 DEF Tick, LoopIdle, LaunchMoves, Back
  <2> QED BY <1>0, <1>7, <2>1
<1>13. ASSUME UNCHANGED <<total, mails, shownMails, lastErr, alone, login, count, delta>>, inbox' \in Nat,
              at' \in [Threads -> MailSteps], LoopCalm, \A u \in Workers : Calm(u)
       PROVE  MInv'
  <2>1. FeedTypes'
    BY <1>0, <1>13 DEF FeedTypes
  <2> QED BY <1>13, <2>1, CalmKeeps
<1>14. CASE \E t \in Workers : Click(t)
  <2> PICK t \in Workers : Click(t)
    BY <1>14
  <2>1. at[t] = "off" /\ at' = [at EXCEPT ![t] = "click"]
        /\ UNCHANGED <<inbox, total, mails, shownMails, lastErr, alone, login, count, delta>>
    BY DEF Click, Goto
  <2>2. at' \in [Threads -> MailSteps] /\ at'[t] = "click" /\ \A u \in Threads \ {t} : at'[u] = at[u]
    BY <1>0, <2>1 DEF MailSteps
  <2> QED BY <1>0, <1>13, <2>1, <2>2 DEF LoopCalm, Calm
<1>15. CASE MailboxChanges
  <2>1. inbox' \in Nat
    BY <1>15, MailAssumption DEF MailboxChanges
  <2> QED BY <1>0, <1>13, <1>15, <2>1 DEF MailboxChanges, LoopCalm, Calm
<1>16. CASE Reload
  <2>1. at[Loop] = "idle" /\ at' = [at EXCEPT ![Loop] = "init"]
        /\ UNCHANGED <<inbox, total, mails, shownMails, lastErr, alone, login, count, delta>>
    BY <1>16 DEF Reload, LoopIdle, Goto
  <2>2. at' \in [Threads -> MailSteps] /\ at'[Loop] = "init" /\ \A u \in Workers : at'[u] = at[u]
    BY <1>0, <2>1 DEF MailSteps
  <2> QED BY <1>0, <1>13, <2>1, <2>2 DEF LoopCalm, Calm
<1>17. CASE LoopInit
  <2>1. /\ total' = 0 /\ mails' = 0 /\ lastErr' = FALSE /\ UNCHANGED <<inbox, shownMails, count, delta>>
        /\ at' \in [Threads -> MailSteps] /\ at'[Loop] \in {"exited", "defaults"} /\ \A u \in Workers : at'[u] = at[u]
    BY <1>0, <1>17 DEF LoopInit, Goto, MailSteps
  <2>2. login' \in BOOLEAN /\ (login => login') /\ alone' \in BOOLEAN
    <3>1. login' = (login \/ file = "pair") /\ alone' = (Checking = {})
      BY <1>17 DEF LoopInit
    <3> QED BY <1>0, <3>1
  <2>3. alone' => \A u \in Workers : ~Busy(u)'
    <3>1. alone' = (Checking = {})
      BY <1>17 DEF LoopInit
    <3>2. Checking = {} => \A u \in Workers : ~Busy(u)
      BY DEF Checking, Busy
    <3> QED BY <2>1, <3>1, <3>2 DEF Busy
  <2>4. FeedTypes'
    BY <1>0, <2>1, <2>2 DEF FeedTypes
  <2>5. FeedInv'
    BY <1>0, <2>1, <2>2 DEF FeedInv, LoopSteps
  <2>6. IconInv'
    BY <2>1, <2>3 DEF IconInv, OneAtWork, ResetAlone, RightAtRest, ShowsSaved, Busy
  <2> QED BY <2>4, <2>5, <2>6 DEF MInv
<1>18. CASE LoopDefaults
  <2>1. /\ at[Loop] = "defaults" /\ shownMails' = 0 /\ Restart(Loop, "idle")
        /\ UNCHANGED <<inbox, login, total, mails, lastErr, count, delta, alone>>
    BY <1>18 DEF LoopDefaults
  <2> PICK w \in Workers : at[w] = "off" /\ at' = [at EXCEPT ![w] = "check", ![Loop] = "idle"]
    BY <2>1 DEF Restart
  <2>2. /\ at' \in [Threads -> MailSteps] /\ at'[Loop] = "idle" /\ at'[w] = "check"
        /\ \A u \in Workers \ {w} : at'[u] = at[u]
    BY <1>0 DEF MailSteps
  <2>3. FeedTypes'
    BY <1>0, <2>1, <2>2 DEF FeedTypes
  <2>4. FeedInv'
    BY <1>0, <2>1, <2>2 DEF FeedInv, LoopSteps
  <2>5. alone => total = 0 /\ \A u \in Workers : ~Busy(u)
    BY <2>1 DEF MInv, IconInv, ResetAlone
  <2>6. alone' => Right' /\ \A u \in Workers : ~Busy(u)'
    BY <2>1, <2>2, <2>5 DEF Busy, Right, Failed
  <2>7. IconInv'
    BY <2>2, <2>6 DEF IconInv, OneAtWork, ResetAlone, RightAtRest, ShowsSaved, Busy
  <2> QED BY <2>3, <2>4, <2>7 DEF MInv
<1>19. CASE Start
  <2>1. /\ login' = FALSE /\ total' = 0 /\ mails' = 0 /\ shownMails' = 0 /\ lastErr' = FALSE /\ alone' = TRUE /\ UNCHANGED inbox
        /\ at' = [t \in Threads |-> IF t = Loop THEN "init" ELSE "off"]
        /\ count' = [t \in Threads |-> 0] /\ delta' = [t \in Threads |-> 0]
    BY <1>19 DEF Start
  <2>2. FeedTypes'
    <3>1. at' \in [Threads -> MailSteps]
      BY <2>1 DEF MailSteps
    <3>2. count' \in [Threads -> Int] /\ delta' \in [Threads -> Int]
      BY <2>1
    <3>3. inbox' \in Nat /\ total' \in Nat /\ mails' \in Nat /\ shownMails' \in Int
      BY <1>0, <2>1
    <3>4. login' \in BOOLEAN /\ lastErr' \in BOOLEAN /\ alone' \in BOOLEAN
      BY <2>1
    <3> QED BY <3>1, <3>2, <3>3, <3>4 DEF FeedTypes
  <2>3. at'[Loop] = "init" /\ \A t \in Workers : at'[t] = "off"
    BY <1>0, <2>1
  <2> QED
    BY <2>1, <2>2, <2>3 DEF MInv, FeedInv, LoopSteps, IconInv, OneAtWork, ResetAlone, RightAtRest, ShowsSaved, Busy, Right, Failed
<1> QED
  BY <1>1, <1>2, <1>3, <1>4, <1>5, <1>6, <1>8, <1>9, <1>10, <1>11, <1>12, <1>14, <1>15, <1>16, <1>17, <1>18, <1>19
  DEF MailNext, MailStep

\* Once its checks are over, the icon shows the number of mails the feed holds, or the
\* error of the last check, and an alert is about the mails it does not count yet,
\* whatever changed, failed halfway and was reloaded before, if no two checks and no
\* check and reload overlapped (Feed.Check, updateDisplay, Init).
THEOREM IconCountsMails == MailSpec => []IconShowsCount
<1>1. MInv => IconShowsCount
  <2>1. MInv /\ alone /\ at[Loop] = "idle" /\ Checking = {} => Right
    BY DEF MInv, IconInv, RightAtRest, Checking, Busy
  <2>2. ASSUME MInv, alone, NEW t \in Workers, at[t] = "alert"
        PROVE  shownMails \in {Err, total - delta[t]}
    <3>1. delta[t] = total - shownMails \/ Failed
      BY <2>2 DEF MInv, IconInv, ShowsSaved
    <3>2. total \in Int /\ shownMails \in Int
      BY <2>2 DEF MInv, FeedTypes
    <3> QED BY <3>1, <3>2 DEF Failed
  <2> QED BY <2>1, <2>2 DEF IconShowsCount, Right, Failed
<1>2. QED
  BY <1>1, InitMInv, NextMInv, PTL DEF MailSpec

(***************************************************************************)
(* The weather applet: types.                                              *)
(***************************************************************************)
Checks     == Workers
Codes      == Places \cup {"", "nil", "empty"}
PlaceSteps == {"init", "idle", "detect", "detectInit", "save", "saveAuto", "restart", "recheck", "exited"}
CheckSteps == {"dl", "draw", "removed", "kept", "days", "add"}
Draws      == [of : Codes, next : Nat, last : Nat]
Downloads  == [cur : {"off", "start", "wait", "ok", "ko"}, curOf : Codes,
               fore : {"off", "start", "wait", "use", "ok", "ko"}, foreOf : Codes]
WeatherTypes ==
  /\ saved \in Places \cup {""} /\ conf \in Places \cup {"", "empty"} /\ wconf \in Places \cup {""}
  /\ forecast \in Checks \cup {"nil"} /\ filled \in Codes /\ days \in Nat
  /\ step \in [Threads -> PlaceSteps \cup {"off", "check"} \cup CheckSteps]
  /\ dl \in [Checks -> Downloads] /\ draw \in [Checks -> Draws]
  /\ overlaps \in Nat /\ neat \in BOOLEAN

WeatherVars == <<dbusVars, cloudsVars>>

LEMMA LoopIsNoCheck == Loop \in Threads /\ Loop \notin Checks /\ Checks \subseteq Threads
BY DbusAssumption DEF Checks, Workers

LEMMA InitWeatherTypes == CloudsInit => WeatherTypes
<1> SUFFICES ASSUME CloudsInit PROVE WeatherTypes
  OBVIOUS
<1>1. /\ saved \in Places \cup {""} /\ conf = "empty" /\ wconf = "" /\ forecast = "nil" /\ overlaps = 0 /\ neat \in BOOLEAN
      /\ filled = "empty" /\ days = 0 /\ step = [t \in Threads |-> IF t = Loop THEN "init" ELSE "off"]
      /\ dl = [t \in Checks |-> [cur |-> "off", curOf |-> "nil", fore |-> "off", foreOf |-> "nil"]]
      /\ draw = [t \in Checks |-> [of |-> "nil", next |-> 1, last |-> 0]]
  BY DEF CloudsInit, Checks, NoDraw, NoDl, Nil, Empty
<1>2. [cur |-> "off", curOf |-> "nil", fore |-> "off", foreOf |-> "nil"] \in Downloads
  BY DEF Downloads, Codes
<1>3. [of |-> "nil", next |-> 1, last |-> 0] \in Draws
  BY DEF Draws, Codes
<1>4. dl \in [Checks -> Downloads] /\ draw \in [Checks -> Draws] /\ filled \in Codes
  BY <1>1, <1>2, <1>3 DEF Codes
<1>5. step \in [Threads -> PlaceSteps \cup {"off", "check"} \cup CheckSteps]
  BY <1>1 DEF PlaceSteps
<1>6. QED BY <1>1, <1>4, <1>5 DEF WeatherTypes

\* The settings are empty only between a reload and the init that fills them.
ConfIsSet == conf = "empty" => step[Loop] \in {"init", "exited"}

\* A thread goes to a step; the loop starts a check.
LEMMA StepTypes ==
  ASSUME WeatherTypes
  PROVE  /\ \A t \in Threads, s \in PlaceSteps \cup {"off", "check"} \cup CheckSteps :
              [step EXCEPT ![t] = s] \in [Threads -> PlaceSteps \cup {"off", "check"} \cup CheckSteps]
         /\ \A s \in {"idle", "recheck"} : WeatherRestart(s) => step' \in [Threads -> PlaceSteps \cup {"off", "check"} \cup CheckSteps]
BY LoopIsNoCheck DEF WeatherTypes, WeatherRestart, PlaceSteps, Checks

LEMMA OverlapTypes ==
  ASSUME WeatherTypes
  PROVE  /\ \A b \in BOOLEAN : Meets(b) => overlaps' \in Nat /\ neat' \in BOOLEAN
         /\ Cleared => overlaps' \in Nat /\ neat' \in BOOLEAN
<1>0. overlaps \in Nat /\ neat \in BOOLEAN
  BY DEF WeatherTypes
<1>1. ASSUME NEW b \in BOOLEAN, Meets(b) PROVE overlaps' \in Nat /\ neat' \in BOOLEAN
  <2>1. overlaps' = (IF b THEN overlaps + 1 ELSE overlaps) /\ neat' = (neat /\ ~b)
    BY <1>1, Zenon DEF Meets
  <2>2. neat' \in BOOLEAN
    BY <2>1
  <2>3. QED BY <1>0, <2>1, <2>2
<1>2. Cleared => overlaps' \in Nat /\ neat' \in BOOLEAN
  <2>1. CASE WeatherChecking = {}
    BY <1>0, <2>1 DEF Cleared
  <2>2. CASE WeatherChecking # {}
    BY <1>1, <2>2 DEF Cleared
  <2>3. QED BY <2>1, <2>2
<1>3. QED BY <1>1, <1>2

LEMMA DlTypes ==
  ASSUME WeatherTypes, NEW t \in Checks
  PROVE  /\ \A f \in Downloads : [dl EXCEPT ![t] = f] \in [Checks -> Downloads]
         /\ \A c \in {"ok", "ko"} : [dl[t] EXCEPT !.cur = c, !.curOf = Nil] \in Downloads
         /\ \A c \in {"ko", "use"} : [dl[t] EXCEPT !.fore = c, !.foreOf = Nil] \in Downloads
         /\ [dl[t] EXCEPT !.fore = "ok"] \in Downloads
         /\ [dl[t] EXCEPT !.cur = "wait", !.curOf = wconf] \in Downloads
         /\ [dl[t] EXCEPT !.fore = "wait", !.foreOf = wconf] \in Downloads
         /\ NoDl \in Downloads /\ dl[t].foreOf \in Codes
         /\ [cur |-> "start", curOf |-> Nil, fore |-> "start", foreOf |-> Nil] \in Downloads
<1>1. dl[t] \in Downloads /\ wconf \in Codes /\ "nil" \in Codes
  BY DEF WeatherTypes, Codes
<1>2. \A f \in Downloads : [dl EXCEPT ![t] = f] \in [Checks -> Downloads]
  BY DEF WeatherTypes
<1>3. QED BY <1>1, <1>2 DEF Downloads, NoDl, Nil

LEMMA NextWeatherTypes == WeatherTypes /\ ConfIsSet /\ [CloudsNext]_WeatherVars => WeatherTypes'
<1> SUFFICES ASSUME WeatherTypes, ConfIsSet, [CloudsNext]_WeatherVars PROVE WeatherTypes'
  OBVIOUS
<1> DEFINE StepSet == [Threads -> PlaceSteps \cup {"off", "check"} \cup CheckSteps]
<1> USE DEF skyVars, checkVars, overlapVars, dataVars
<1>0. /\ saved \in Places \cup {""} /\ conf \in Places \cup {"", "empty"} /\ wconf \in Places \cup {""}
      /\ forecast \in Checks \cup {"nil"} /\ filled \in Codes /\ days \in Nat /\ step \in StepSet
      /\ dl \in [Checks -> Downloads] /\ draw \in [Checks -> Draws]
      /\ overlaps \in Nat /\ neat \in BOOLEAN
  BY DEF WeatherTypes
<1>a. \A t \in Threads, s \in {"off", "dl", "draw", "removed", "kept", "days", "add", "exited", "idle", "init", "restart", "detect",
                                "detectInit", "save", "saveAuto"} : WeatherGoto(t, s) => step' \in StepSet
  BY StepTypes DEF WeatherGoto, CheckSteps, PlaceSteps
<1> HIDE DEF StepSet
<1>1. ASSUME NEW t \in Checks, WeatherCheck(t) PROVE WeatherTypes'
  <2>1. UNCHANGED <<saved, conf, wconf, forecast, filled, days, draw>>
    BY <1>1 DEF WeatherCheck
  <2>2. step' \in StepSet
    BY <1>1, <1>a, LoopIsNoCheck DEF WeatherCheck
  <2>3. dl' \in [Checks -> Downloads]
    BY <1>0, <1>1, DlTypes DEF WeatherCheck, Set
  <2>4. overlaps' \in Nat /\ neat' \in BOOLEAN
    <3>1. CASE wconf = ""
      BY <1>0, <1>1, <3>1 DEF WeatherCheck
    <3>2. CASE wconf # ""
      <4>1. Meets(WeatherChecking # {} \/ step[Loop] \notin {"idle", "recheck"})
        BY <1>1, <3>2 DEF WeatherCheck
      <4>2. (WeatherChecking # {} \/ step[Loop] \notin {"idle", "recheck"}) \in BOOLEAN
        OBVIOUS
      <4>3. QED BY <4>1, <4>2, OverlapTypes
    <3>3. QED BY <3>1, <3>2
  <2>5. QED BY <1>0, <2>1, <2>2, <2>3, <2>4 DEF WeatherTypes, StepSet
<1>2. ASSUME NEW t \in Checks, DlCurrent(t) PROVE WeatherTypes'
  <2>1. UNCHANGED <<saved, conf, wconf, forecast, filled, days, step, draw, overlaps, neat>>
    BY <1>2 DEF DlCurrent
  <2>2. dl' \in [Checks -> Downloads]
    BY <1>2, DlTypes DEF DlCurrent, Set
  <2>3. QED BY <1>0, <2>1, <2>2 DEF WeatherTypes, StepSet
<1>3. ASSUME NEW t \in Checks, DlForecast(t) PROVE WeatherTypes'
  <2>1. UNCHANGED <<saved, conf, wconf, draw, overlaps, neat>>
    BY <1>3 DEF DlForecast
  <2>2. dl' \in [Checks -> Downloads]
    <3>1. \/ dl' = [dl EXCEPT ![t] = [dl[t] EXCEPT !.fore = "wait", !.foreOf = wconf]]
          \/ \E r \in {"use", "ko"} : dl' = [dl EXCEPT ![t] = [dl[t] EXCEPT !.fore = r, !.foreOf = Nil]]
          \/ dl' = dl
          \/ dl' = [dl EXCEPT ![t] = [dl[t] EXCEPT !.fore = "ok"]]
      BY <1>3 DEF DlForecast, Set
    <3>2. /\ \A f \in Downloads : [dl EXCEPT ![t] = f] \in [Checks -> Downloads]
          /\ \A r \in {"use", "ko"} : [dl[t] EXCEPT !.fore = r, !.foreOf = Nil] \in Downloads
          /\ [dl[t] EXCEPT !.fore = "ok"] \in Downloads
          /\ [dl[t] EXCEPT !.fore = "wait", !.foreOf = wconf] \in Downloads
      BY DlTypes
    <3>3. QED BY <1>0, <3>1, <3>2
  <2>3. forecast' \in Checks \cup {"nil"} /\ step' \in StepSet
    BY <1>0, <1>3, <1>a, LoopIsNoCheck DEF DlForecast, Exit
  <2>4. filled' \in Codes /\ days' \in Nat
    <3>1. \/ filled' = "empty" /\ days' = 0
          \/ filled' = dl[t].foreOf /\ days' \in 0..NbDays
          \/ UNCHANGED <<filled, days>>
      BY <1>3 DEF DlForecast, Empty
    <3>2. "empty" \in Codes /\ dl[t].foreOf \in Codes /\ \A n \in 0..NbDays : n \in Nat
      <4>1. "empty" \in Codes
        BY DEF Codes
      <4>2. dl[t].foreOf \in Codes
        BY DlTypes
      <4>3. NbDays \in Nat
        BY CloudsAssumption
      <4>4. \A n \in 0..NbDays : n \in Nat
        BY <4>3
      <4>5. QED BY <4>1, <4>2, <4>4
    <3>3. CASE filled' = dl[t].foreOf /\ days' \in 0..NbDays
      BY <3>2, <3>3
    <3>4. CASE filled' = "empty" /\ days' = 0
      BY <3>2, <3>4
    <3>5. QED BY <1>0, <3>1, <3>3, <3>4
  <2>5. QED BY <1>0, <2>1, <2>2, <2>3, <2>4 DEF WeatherTypes, StepSet
<1>4. ASSUME NEW t \in Checks, CheckEnd(t) PROVE WeatherTypes'
  <2>1. UNCHANGED <<saved, conf, wconf, forecast, filled, days, draw, overlaps, neat>>
    BY <1>4 DEF CheckEnd
  <2>2. dl' \in [Checks -> Downloads] /\ step' \in StepSet
    BY <1>4, <1>a, DlTypes, LoopIsNoCheck DEF CheckEnd, Set
  <2>3. QED BY <1>0, <2>1, <2>2 DEF WeatherTypes, StepSet
<1>5. ASSUME NEW t \in Checks, DrawIcon(t) PROVE WeatherTypes'
  <2>1. UNCHANGED <<saved, conf, wconf, forecast, filled, days, dl, draw, overlaps>>
    BY <1>5, Zenon DEF DrawIcon
  <2>2. step' \in StepSet
    BY <1>5, <1>a, LoopIsNoCheck DEF DrawIcon
  <2>3. neat' \in BOOLEAN
    <3>1. \E failed : neat' = (overlaps = 0 /\ ("subs" \in failed => neat))
      BY <1>5, Zenon DEF DrawIcon
    <3>2. QED BY <3>1
  <2>4. QED BY <1>0, <2>1, <2>2, <2>3 DEF WeatherTypes, StepSet
<1>6. ASSUME NEW t \in Checks,
             ListDays(t) \/ AddSubIcon(t) \/ SubIconAdded(t) \/ DrawEnd(t)
      PROVE  WeatherTypes'
  <2>1. UNCHANGED <<saved, conf, wconf, forecast, filled, days, dl, overlaps, neat>>
    BY <1>6 DEF ListDays, AddSubIcon, SubIconAdded, DrawEnd
  <2>2. step' \in StepSet
    BY <1>6, <1>a, LoopIsNoCheck
    DEF ListDays, AddSubIcon, SubIconAdded, DrawEnd, Exit
  <2>3. draw' \in [Checks -> Draws]
    <3>0. /\ \A d \in Draws : [draw EXCEPT ![t] = d] \in [Checks -> Draws]
          /\ draw[t] \in Draws
      BY <1>0
    <3>1. CASE ListDays(t)
      <4>1. draw' = draw \/ draw' = [draw EXCEPT ![t] = [of |-> filled, next |-> 1, last |-> days]]
        BY <3>1 DEF ListDays
      <4>2. [of |-> filled, next |-> 1, last |-> days] \in Draws
        BY <1>0 DEF Draws
      <4>3. QED BY <1>0, <3>0, <4>1, <4>2
    <3>2. CASE AddSubIcon(t)
      BY <1>0, <3>2 DEF AddSubIcon
    <3>3. CASE SubIconAdded(t)
      <4>1. draw' = [draw EXCEPT ![t] = [draw[t] EXCEPT !.next = @ + 1]]
        BY <1>0, <3>3 DEF SubIconAdded
      <4>2. [draw[t] EXCEPT !.next = @ + 1] \in Draws
        BY <3>0 DEF Draws
      <4>3. QED BY <3>0, <4>1, <4>2
    <3>4. CASE DrawEnd(t)
      <4>1. draw' = [draw EXCEPT ![t] = NoDraw] /\ NoDraw \in Draws
        BY <3>4 DEF DrawEnd, NoDraw, Nil, Codes, Draws
      <4>2. QED BY <3>0, <4>1
    <3>5. QED BY <1>6, <3>1, <3>2, <3>3, <3>4
  <2>4. QED BY <1>0, <2>1, <2>2, <2>3 DEF WeatherTypes, StepSet
<1>7. CASE UNCHANGED cloudsVars
  BY <1>7 DEF cloudsVars, WeatherTypes
<1>8. ASSUME NEW t \in Checks, WeatherClick(t) \/ SubClick(t) PROVE WeatherTypes'
  <2>1. CASE WeatherClick(t)
    BY <1>7, <2>1 DEF WeatherClick
  <2>2. CASE SubClick(t)
    <3>1. UNCHANGED <<saved, conf, wconf, forecast, filled, days, dl, draw, overlaps, neat>>
      BY <2>2 DEF SubClick
    <3>2. step' \in StepSet
      BY <1>0, <2>2, <1>a, LoopIsNoCheck DEF SubClick, ShowDay, Exit
    <3>3. QED BY <1>0, <3>1, <3>2 DEF WeatherTypes, StepSet
  <2>3. QED BY <1>8, <2>1, <2>2
<1>b. WeatherRestart("idle") \/ WeatherRestart("recheck") => step' \in StepSet
  BY StepTypes DEF StepSet
<1>9. CASE Detect
  <2>1. UNCHANGED <<saved, forecast, filled, days, dl, draw, overlaps, neat>> /\ step' \in StepSet
    BY <1>9, <1>a, LoopIsNoCheck DEF Detect
  <2>2. conf' \in Places \cup {"", "empty"} /\ wconf' \in Places \cup {""}
    BY <1>0, <1>9 DEF Detect
  <2>3. QED BY <1>0, <2>1, <2>2 DEF WeatherTypes, StepSet
<1>10. CASE SaveLocation
  <2>1. UNCHANGED <<conf, wconf, forecast, filled, days, dl, draw, overlaps, neat>> /\ step' \in StepSet
    BY <1>10, <1>b DEF SaveLocation
  <2>2. conf # "empty" /\ (saved' = saved \/ saved' = conf \/ saved' = "")
    BY <1>10 DEF SaveLocation, ConfIsSet
  <2>3. QED BY <1>0, <2>1, <2>2 DEF WeatherTypes, StepSet
<1>11. CASE WeatherTick \/ LoopRestart
  <2>1. UNCHANGED <<saved, conf, wconf, forecast, filled, days, dl, draw, overlaps, neat>>
    BY <1>11 DEF WeatherTick, LoopRestart
  <2>2. step' \in StepSet
    BY <1>11, <1>b DEF WeatherTick, LoopRestart
  <2>3. QED BY <1>0, <2>1, <2>2 DEF WeatherTypes, StepSet
<1>12. ASSUME NEW code \in Places \cup {""}, SetLocation(code), UNCHANGED <<saved, dl, draw>>
       PROVE  WeatherTypes'
  <2>1. conf' = code /\ wconf' = code /\ forecast' = "nil" /\ filled' = "empty" /\ days' = 0 /\ overlaps' \in Nat /\ neat' \in BOOLEAN
    BY <1>12, OverlapTypes DEF SetLocation, Nil, Empty
  <2>2. step' \in StepSet
    BY <1>12, <1>a, LoopIsNoCheck DEF SetLocation
  <2>3. QED BY <1>0, <1>12, <2>1, <2>2 DEF WeatherTypes, StepSet, Codes
<1>13. CASE WeatherHandleAnswer
  <2>1. UNCHANGED <<saved, dl, draw>>
    BY <1>13 DEF WeatherHandleAnswer
  <2>2. \/ \E code \in Places \cup {""} : SetLocation(code)
        \/ UNCHANGED <<forecast, filled, days, conf, wconf, overlaps, neat, step>>
    BY <1>13, Zenon DEF WeatherHandleAnswer
  <2>3. QED BY <1>0, <1>12, <2>1, <2>2 DEF WeatherTypes
<1>14. CASE WeatherHandleBuild
  BY <1>7, <1>14 DEF WeatherHandleBuild
<1>l. ASSUME NEW a, WeatherLaunch(a) PROVE WeatherTypes'
  <2>1. UNCHANGED <<saved, conf, wconf, forecast, filled, days, dl, draw, overlaps, neat>>
    BY <1>l DEF WeatherLaunch
  <2>2. step' \in StepSet
    BY <1>0, <1>a, <1>b, <1>l, LoopIsNoCheck DEF WeatherLaunch, ShowDay, Exit
  <2>3. QED BY <1>0, <2>1, <2>2 DEF WeatherTypes, StepSet
<1>m. CASE WeatherHandleSelect \/ WeatherShortkey
  BY <1>l, <1>m DEF WeatherHandleSelect, WeatherShortkey
<1>n. CASE LoopRechecked
  <2>1. UNCHANGED <<saved, conf, wconf, forecast, filled, days, dl, draw, overlaps, neat>>
    BY <1>n DEF LoopRechecked
  <2>2. step' \in StepSet
    BY <1>a, <1>n, LoopIsNoCheck DEF LoopRechecked
  <2>3. QED BY <1>0, <2>1, <2>2 DEF WeatherTypes, StepSet
<1>15. CASE WeatherReload
  <2>1. UNCHANGED <<saved, wconf, forecast, filled, days, dl, draw>> /\ conf' = "empty"
    BY <1>15 DEF WeatherReload, Empty
  <2>2. step' \in StepSet
    BY <1>15, <1>a, LoopIsNoCheck DEF WeatherReload
  <2>3. Meets(WeatherChecking # {}) /\ (WeatherChecking # {}) \in BOOLEAN
    BY <1>15 DEF WeatherReload
  <2>4. overlaps' \in Nat /\ neat' \in BOOLEAN
    BY <2>3, OverlapTypes
  <2>5. QED BY <1>0, <2>1, <2>2, <2>4 DEF WeatherTypes, StepSet
<1>16. CASE WeatherLoopInit
  <2>1. /\ UNCHANGED <<saved, dl, draw>> /\ conf' = saved /\ wconf' = saved
        /\ forecast' = "nil" /\ filled' = "empty" /\ days' = 0
    BY <1>16 DEF WeatherLoopInit, Nil, Empty
  <2>2. overlaps' \in Nat /\ neat' \in BOOLEAN
    BY <1>16, OverlapTypes DEF WeatherLoopInit
  <2>3. step' \in StepSet
    BY <1>16, <1>a, LoopIsNoCheck DEF WeatherLoopInit
  <2>4. QED BY <1>0, <2>1, <2>2, <2>3 DEF WeatherTypes, StepSet, Codes
<1>17. CASE UNCHANGED WeatherVars
  BY <1>7, <1>17 DEF WeatherVars
<1>18. QED
  BY <1>1, <1>2, <1>3, <1>4, <1>5, <1>6, <1>7, <1>8, <1>9, <1>10, <1>11, <1>13, <1>14, <1>m, <1>n, <1>15, <1>16, <1>17, Zenon
  DEF CloudsNext, CheckStep, LoopStep, Checks

(***************************************************************************)
(* What the steps of the threads and the count of overlaps become.         *)
(***************************************************************************)
LEMMA GoesTo ==
  ASSUME WeatherTypes
  PROVE  /\ \A t \in Threads : \A s : WeatherGoto(t, s) => step'[t] = s /\ \A u \in Threads \ {t} : step'[u] = step[u]
         /\ \A s \in {"idle", "recheck"} :
              WeatherRestart(s) => /\ step'[Loop] = s
                                   /\ \A u \in Checks : step'[u] # step[u] => step[u] = "off" /\ step'[u] = "check"
BY LoopIsNoCheck DEF WeatherTypes, WeatherGoto, WeatherRestart, Checks

NeatMeetsNone == neat => overlaps = 0

LEMMA OverlapEffects ==
  ASSUME WeatherTypes, NeatMeetsNone
  PROVE  /\ \A b \in BOOLEAN : Meets(b) => NeatMeetsNone' /\ (overlaps' = 0 => ~b /\ overlaps = 0) /\ (neat' => neat)
         /\ Cleared => NeatMeetsNone' /\ (overlaps' = 0 => WeatherChecking = {}) /\ (neat' => neat)
<1>0. overlaps \in Nat /\ neat \in BOOLEAN
  BY DEF WeatherTypes
<1>1. ASSUME NEW b \in BOOLEAN, Meets(b)
      PROVE  NeatMeetsNone' /\ (overlaps' = 0 => ~b /\ overlaps = 0) /\ (neat' => neat)
  <2>1. overlaps' = (IF b THEN overlaps + 1 ELSE overlaps) /\ neat' = (neat /\ ~b)
    BY <1>1, Zenon DEF Meets
  <2>2. neat' => neat /\ ~b
    BY <2>1
  <2>3. b => overlaps' = overlaps + 1
    BY <2>1
  <2>4. ~b => overlaps' = overlaps
    BY <2>1
  <2>5. QED BY <1>0, <2>2, <2>3, <2>4 DEF NeatMeetsNone
<1>2. Cleared => NeatMeetsNone' /\ (overlaps' = 0 => WeatherChecking = {}) /\ (neat' => neat)
  <2>1. CASE WeatherChecking = {}
    BY <2>1 DEF Cleared, NeatMeetsNone
  <2>2. CASE WeatherChecking # {}
    BY <1>1, <2>2 DEF Cleared
  <2>3. QED BY <2>1, <2>2
<1>3. QED BY <1>1, <1>2

LEMMA NextConfIsSet ==
  WeatherTypes /\ ConfIsSet /\ [CloudsNext]_WeatherVars => ConfIsSet'
<1> SUFFICES ASSUME WeatherTypes, ConfIsSet, [CloudsNext]_WeatherVars PROVE ConfIsSet'
  OBVIOUS
<1>0. "empty" \notin Places
  BY CloudsAssumption DEF Nil, Empty
<1>1. CASE conf' = conf /\ step'[Loop] \in {step[Loop], "exited"}
  BY <1>1 DEF ConfIsSet
<1>2. CASE conf' = conf /\ step[Loop] \notin {"init", "exited"}
  BY <1>2 DEF ConfIsSet
<1>3. CASE conf' # "empty"
  BY <1>3 DEF ConfIsSet
<1>4. ASSUME NEW t \in Checks, CheckStep(t) \/ WeatherClick(t) \/ SubClick(t) PROVE ConfIsSet'
  <2>1. conf' = conf
    BY <1>4
    DEF CheckStep, WeatherCheck, DlCurrent, DlForecast, CheckEnd, DrawIcon,
        ListDays, AddSubIcon, SubIconAdded, DrawEnd, WeatherClick, SubClick,
        cloudsVars
  <2>2. step' = step \/ (\E s : WeatherGoto(t, s)) \/ WeatherGoto(Loop, "exited")
    BY <1>4
    DEF CheckStep, WeatherCheck, DlCurrent, DlForecast, CheckEnd, DrawIcon,
        ListDays, AddSubIcon, SubIconAdded, DrawEnd, WeatherClick, SubClick,
        ShowDay, cloudsVars, Exit
  <2>3. step'[Loop] \in {step[Loop], "exited"}
    BY <2>2, GoesTo, LoopIsNoCheck
  <2>4. QED BY <1>1, <2>1, <2>3
<1>5. CASE Detect
  <2>1. conf' = conf \/ conf' \in Places
    BY <1>5 DEF Detect
  <2>2. QED BY <1>0, <1>2, <1>3, <1>5, <2>1 DEF Detect
<1>6. CASE SaveLocation
  BY <1>2, <1>6 DEF SaveLocation
<1>7. CASE WeatherHandleAnswer
  <2>1. (\E code \in Places \cup {""} : SetLocation(code)) \/ conf' = conf
    BY <1>7, Zenon DEF WeatherHandleAnswer
  <2>2. step[Loop] = "idle"
    BY <1>7 DEF WeatherHandleAnswer, WeatherLoopIdle
  <2>3. QED BY <1>0, <1>2, <1>3, <2>1, <2>2 DEF SetLocation
<1>8. CASE WeatherHandleBuild \/ UNCHANGED cloudsVars
  BY <1>1, <1>8 DEF WeatherHandleBuild, cloudsVars
<1>9. CASE WeatherHandleSelect \/ WeatherShortkey \/ LoopRechecked \/ WeatherTick \/ LoopRestart
  <2>1. conf' = conf
    BY <1>9 DEF WeatherHandleSelect, WeatherShortkey, WeatherLaunch, LoopRechecked, WeatherTick, LoopRestart
  <2>2. step[Loop] \in {"idle", "recheck", "restart"}
    BY <1>9 DEF WeatherHandleSelect, WeatherShortkey, LoopRechecked, WeatherTick, LoopRestart, WeatherLoopIdle
  <2>3. QED BY <1>2, <2>1, <2>2
<1>10. CASE WeatherReload
  BY <1>10, GoesTo, LoopIsNoCheck DEF WeatherReload, ConfIsSet
<1>11. CASE WeatherLoopInit
  BY <1>0, <1>3, <1>11 DEF WeatherLoopInit, WeatherTypes
<1>12. CASE UNCHANGED WeatherVars
  BY <1>8, <1>12 DEF WeatherVars
<1>13. QED
  BY <1>4, <1>5, <1>6, <1>7, <1>8, <1>9, <1>10, <1>11, <1>12, Zenon
  DEF CloudsNext, LoopStep, Checks

(***************************************************************************)
(* The data. Unless something overlapped a check since the data was        *)
(* cleared, one check is at work at a time and none while the loop changes *)
(* the place, so that what it downloads is of the place in the settings.   *)
(***************************************************************************)
OneCheck    == \A t, u \in WeatherChecking : t = u
LoopWaits   == WeatherChecking # {} => step[Loop] \in {"idle", "recheck", "exited"} /\ wconf \in Places
Detects     == step[Loop] \in {"detect", "detectInit"}
PlaceOfData == current \in {"nil", wconf} /\ filled \in {"empty", wconf}
Asked(t) ==
  /\ dl[t].cur = "wait" => dl[t].curOf = wconf
  /\ dl[t].cur = "ok" => current = wconf
  /\ dl[t].fore = "wait" => forecast = t /\ dl[t].foreOf = wconf
  /\ dl[t].fore \in {"use", "ok"} => forecast = t /\ filled = wconf
Drawn == current = wconf /\ forecast \in Checks /\ filled = wconf
CleanData ==
  /\ OneCheck /\ LoopWaits /\ PlaceOfData /\ (Detects => current = "nil" /\ filled = "empty")
  /\ \A t \in Checks : (step[t] = "dl" => Asked(t)) /\ (step[t] \in {"draw", "removed", "kept"} => Drawn)
WeatherData == NeatMeetsNone /\ (overlaps = 0 => CleanData)

\* A step that leaves the data alone.
LEMMA SameData ==
  ASSUME WeatherTypes, CleanData, UNCHANGED <<wconf, current, forecast, filled, dl>>,
         \A t \in Checks : /\ step'[t] \in CheckSteps => step[t] \in CheckSteps
                           /\ step'[t] = "dl" => step[t] = "dl"
                           /\ step'[t] \in {"draw", "removed", "kept"} => step[t] \in {"draw", "removed", "kept"},
         step'[Loop] \in {step[Loop], "idle", "recheck", "exited"} \/ (WeatherChecking = {} /\ ~Detects')
  PROVE  CleanData'
<1>1. WeatherChecking' \subseteq WeatherChecking
  BY DEF WeatherChecking, Checks, CheckSteps
<1>2. OneCheck' /\ LoopWaits'
  BY <1>1 DEF CleanData, OneCheck, LoopWaits
<1>3. PlaceOfData'
  BY DEF CleanData, PlaceOfData
<1>4. Detects' => Detects
  BY DEF Detects
<1>5. \A t \in Checks : (step'[t] = "dl" => Asked(t)') /\ (step'[t] \in {"draw", "removed", "kept"} => Drawn')
  BY DEF CleanData, Asked, Drawn
<1>6. QED BY <1>2, <1>3, <1>4, <1>5 DEF CleanData

LEMMA InitWeatherData == CloudsInit => WeatherData
<1> SUFFICES ASSUME CloudsInit PROVE WeatherData
  OBVIOUS
<1>1. /\ current = "nil" /\ forecast = "nil" /\ filled = "empty" /\ step = [t \in Threads |-> IF t = Loop THEN "init" ELSE "off"] /\ overlaps = 0
  BY DEF CloudsInit, Nil, Empty
<1>2. step[Loop] = "init" /\ \A t \in Checks : step[t] = "off"
  BY <1>1, LoopIsNoCheck
<1>3. WeatherChecking = {}
  BY <1>2 DEF WeatherChecking, Checks
<1>4. QED BY <1>1, <1>2, <1>3 DEF WeatherData, NeatMeetsNone, CleanData, OneCheck, LoopWaits, PlaceOfData, Detects

LEMMA NextWeatherData ==
  WeatherTypes /\ ConfIsSet /\ WeatherData /\ [CloudsNext]_WeatherVars => WeatherData'
<1> SUFFICES ASSUME WeatherTypes, ConfIsSet, WeatherData, [CloudsNext]_WeatherVars
             PROVE  WeatherData'
  OBVIOUS
<1> USE DEF skyVars, checkVars, overlapVars, dataVars, Nil, Empty
<1>0. /\ NeatMeetsNone /\ (overlaps = 0 => CleanData) /\ overlaps \in Nat
      /\ dl \in [Checks -> Downloads]
  BY DEF WeatherData, WeatherTypes
<1>g. /\ \A t \in Checks : \A s : WeatherGoto(t, s) => step'[t] = s /\ \A u \in Threads \ {t} : step'[u] = step[u]
      /\ \A s : WeatherGoto(Loop, s) => step'[Loop] = s /\ \A u \in Checks : step'[u] = step[u]
      /\ \A s \in {"idle", "recheck"} :
           WeatherRestart(s) => /\ step'[Loop] = s
                                /\ \A u \in Checks : step'[u] # step[u] => step[u] = "off" /\ step'[u] = "check"
  BY GoesTo, LoopIsNoCheck
<1>c. WeatherChecking = {t \in Checks : step[t] \in CheckSteps} /\ WeatherChecking' = {t \in Checks : step'[t] \in CheckSteps}
  BY DEF WeatherChecking, Checks, CheckSteps
<1>l. Loop \in Threads /\ Loop \notin Checks /\ Checks \subseteq Threads
  BY LoopIsNoCheck
<1>1. CASE UNCHANGED cloudsVars
  <2>1. UNCHANGED <<wconf, current, forecast, filled, dl, step, overlaps, neat>>
    BY <1>1 DEF cloudsVars
  <2>2. overlaps = 0 => CleanData'
    BY <1>0, <2>1, SameData
  <2>3. QED BY <1>0, <2>1, <2>2 DEF WeatherData, NeatMeetsNone
<1>2. ASSUME NEW t \in Checks, WeatherCheck(t) PROVE WeatherData'
  <2>0. step[t] = "check" /\ UNCHANGED <<wconf, current, forecast, filled>>
    BY <1>2 DEF WeatherCheck
  <2>1. CASE wconf = ""
    <3>1. UNCHANGED <<dl, overlaps, neat>> /\ WeatherGoto(t, "off")
      BY <1>2, <2>1 DEF WeatherCheck
    <3>2. overlaps = 0 => CleanData'
      BY <1>0, <1>g, <1>l, <2>0, <3>1, SameData DEF CheckSteps
    <3>3. QED BY <1>0, <3>1, <3>2 DEF WeatherData, NeatMeetsNone
  <2>2. CASE wconf # ""
    <3> DEFINE b == WeatherChecking # {} \/ step[Loop] \notin {"idle", "recheck"}
               f == [cur |-> "start", curOf |-> "nil", fore |-> "start", foreOf |-> "nil"]
    <3>1. Meets(b) /\ b \in BOOLEAN /\ WeatherGoto(t, "dl") /\ dl' = [dl EXCEPT ![t] = f]
      BY <1>2, <2>2 DEF WeatherCheck, Set
    <3> HIDE DEF b
    <3>2. NeatMeetsNone' /\ (overlaps' = 0 => ~b /\ overlaps = 0)
      BY <1>0, <3>1, OverlapEffects
    <3>3. ASSUME overlaps' = 0 PROVE CleanData'
      <4>1. WeatherChecking = {} /\ step[Loop] \in {"idle", "recheck"} /\ CleanData
        BY <1>0, <3>2, <3>3 DEF b
      <4>2. step'[Loop] = step[Loop] /\ step'[t] = "dl" /\ \A u \in Checks \ {t} : step'[u] = step[u] /\ step[u] \notin CheckSteps
        BY <1>c, <1>g, <1>l, <3>1, <4>1
      <4>3. WeatherChecking' = {t} /\ wconf \in Places
        BY <1>c, <2>2, <4>2 DEF CheckSteps, WeatherTypes
      <4>4. dl'[t] = f
        BY <1>0, <3>1
      <4>5. Asked(t)'
        BY <4>4 DEF Asked
      <4>6. OneCheck' /\ LoopWaits' /\ ~Detects' /\ PlaceOfData'
        BY <2>0, <4>1, <4>2, <4>3 DEF OneCheck, LoopWaits, Detects, PlaceOfData, CleanData
      <4>7. \A u \in Checks : (step'[u] = "dl" => u = t) /\ step'[u] \notin {"draw", "removed", "kept"}
        BY <4>2 DEF CheckSteps
      <4>8. QED BY <4>5, <4>6, <4>7 DEF CleanData
    <3>4. QED BY <3>2, <3>3 DEF WeatherData
  <2>3. QED BY <2>1, <2>2
<1>o. ASSUME overlaps = 0, NEW t \in Checks, step[t] \in CheckSteps
      PROVE  /\ CleanData /\ step[Loop] \in {"idle", "recheck", "exited"} /\ wconf \in Places
             /\ \A u \in Checks \ {t} : step[u] \notin CheckSteps
  BY <1>0, <1>c, <1>o DEF CleanData, OneCheck, LoopWaits
<1>d. ASSUME NEW t \in Checks, step[t] = "dl", UNCHANGED <<wconf, step, overlaps, neat>>,
             overlaps = 0 => PlaceOfData' /\ Asked(t)'
      PROVE  WeatherData'
  <2>1. ASSUME overlaps = 0 PROVE CleanData'
    <3>1. CleanData /\ ~Detects /\ \A u \in Checks \ {t} : step[u] \notin CheckSteps
      BY <1>d, <1>o, <2>1 DEF CheckSteps, Detects
    <3>2. OneCheck' /\ LoopWaits' /\ ~Detects'
      BY <1>d, <3>1, <1>c DEF OneCheck, LoopWaits, Detects, CleanData
    <3>3. QED BY <1>d, <2>1, <3>1, <3>2 DEF CleanData, CheckSteps
  <2>2. QED BY <1>0, <1>d, <2>1 DEF WeatherData, NeatMeetsNone
<1>3. ASSUME NEW t \in Checks, DlCurrent(t) PROVE WeatherData'
  <2>1. step[t] = "dl" /\ UNCHANGED <<wconf, forecast, filled, step, overlaps, neat>>
    BY <1>3 DEF DlCurrent
  <2>2. \/ dl' = [dl EXCEPT ![t] = [dl[t] EXCEPT !.cur = "wait", !.curOf = wconf]] /\ current' = current
        \/ /\ dl[t].cur = "wait" /\ current' = dl[t].curOf
           /\ \E r \in {"ok", "ko"} : dl' = [dl EXCEPT ![t] = [dl[t] EXCEPT !.cur = r, !.curOf = "nil"]]
        \/ dl' = [dl EXCEPT ![t] = [dl[t] EXCEPT !.cur = "ko", !.curOf = "nil"]] /\ current' = current
    BY <1>3 DEF DlCurrent, Set
  <2>3. dl[t] \in Downloads
    BY <1>0
  <2>4. /\ dl'[t].fore = dl[t].fore /\ dl'[t].foreOf = dl[t].foreOf
        /\ \/ dl'[t].cur = "wait" /\ dl'[t].curOf = wconf /\ current' = current
           \/ dl[t].cur = "wait" /\ dl'[t].cur \in {"ok", "ko"} /\ current' = dl[t].curOf
           \/ dl'[t].cur = "ko" /\ current' = current
    <3>1. \A f : dl' = [dl EXCEPT ![t] = f] => dl'[t] = f
      BY <1>0
    <3>2. QED BY <2>2, <2>3, <3>1 DEF Downloads
  <2>5. overlaps = 0 => PlaceOfData' /\ Asked(t)'
    BY <1>0, <2>1, <2>4 DEF CleanData, PlaceOfData, Asked
  <2>6. QED BY <1>d, <2>1, <2>5
<1>4. ASSUME NEW t \in Checks, DlForecast(t) PROVE WeatherData'
  <2>0. step[t] = "dl" /\ UNCHANGED <<wconf, current, overlaps, neat>> /\ dl[t] \in Downloads
    BY <1>0, <1>4 DEF DlForecast
  <2>1. \A f : dl' = [dl EXCEPT ![t] = f] => dl'[t] = f
    BY <1>0
  <2>2. CASE dl[t].fore = "start"
    <3>1. /\ forecast' = t /\ filled' = "empty" /\ step' = step
          /\ dl' = [dl EXCEPT ![t] = [dl[t] EXCEPT !.fore = "wait", !.foreOf = wconf]]
      BY <1>4, <2>2 DEF DlForecast, Set
    <3>2. dl'[t].cur = dl[t].cur /\ dl'[t].curOf = dl[t].curOf /\ dl'[t].fore = "wait" /\ dl'[t].foreOf = wconf
      <4>1. dl'[t] = [dl[t] EXCEPT !.fore = "wait", !.foreOf = wconf]
        BY <2>1, <3>1
      <4>2. QED BY <2>0, <4>1 DEF Downloads
    <3>3. overlaps = 0 => PlaceOfData' /\ Asked(t)'
      BY <1>0, <2>0, <3>1, <3>2 DEF CleanData, PlaceOfData, Asked
    <3>4. QED BY <1>d, <2>0, <3>1, <3>3
  <2>3. CASE dl[t].fore = "wait"
    <3>1. forecast' = forecast /\ step' = step
      BY <1>4, <2>3 DEF DlForecast
    <3>2. \/ /\ filled' = (IF forecast = t THEN dl[t].foreOf ELSE filled)
             /\ \E r \in {"use", "ko"} : dl' = [dl EXCEPT ![t] = [dl[t] EXCEPT !.fore = r, !.foreOf = "nil"]]
          \/ filled' = filled /\ dl' = [dl EXCEPT ![t] = [dl[t] EXCEPT !.fore = "ko", !.foreOf = "nil"]]
      BY <1>4, <2>3 DEF DlForecast, Set
    <3>3. /\ dl'[t].cur = dl[t].cur /\ dl'[t].curOf = dl[t].curOf /\ dl'[t].fore \in {"use", "ko"}
          /\ \/ filled' = (IF forecast = t THEN dl[t].foreOf ELSE filled)
             \/ filled' = filled /\ dl'[t].fore = "ko"
      BY <1>0, <2>0, <2>1, <3>2 DEF Downloads
    <3>4. overlaps = 0 => PlaceOfData' /\ Asked(t)'
      BY <1>0, <2>0, <2>3, <3>1, <3>3 DEF CleanData, PlaceOfData, Asked
    <3>5. QED BY <1>d, <2>0, <3>1, <3>4
  <2>4. CASE dl[t].fore = "use"
    <3>1. UNCHANGED <<forecast, filled>>
      BY <1>4, <2>4 DEF DlForecast
    <3>2. CASE forecast = "nil"
      <4>1. dl' = dl /\ WeatherGoto(Loop, "exited")
        BY <1>4, <2>4, <3>2 DEF DlForecast, Exit
      <4>2. overlaps = 0 => CleanData'
        BY <1>0, <1>g, <2>0, <3>1, <4>1, SameData
      <4>3. QED BY <1>0, <2>0, <4>2 DEF WeatherData, NeatMeetsNone
    <3>3. CASE forecast # "nil"
      <4>1. step' = step /\ dl' = [dl EXCEPT ![t] = [dl[t] EXCEPT !.fore = "ok"]]
        BY <1>4, <2>4, <3>3 DEF DlForecast, Set
      <4>2. dl'[t].cur = dl[t].cur /\ dl'[t].curOf = dl[t].curOf /\ dl'[t].fore = "ok"
        <5>1. dl'[t] = [dl[t] EXCEPT !.fore = "ok"]
          BY <2>1, <4>1
        <5>2. QED BY <2>0, <5>1 DEF Downloads
      <4>3. overlaps = 0 => PlaceOfData' /\ Asked(t)'
        BY <1>0, <2>0, <2>4, <3>1, <4>1, <4>2 DEF CleanData, PlaceOfData, Asked
      <4>4. QED BY <1>d, <2>0, <4>1, <4>3
    <3>4. QED BY <3>2, <3>3
  <2>5. QED BY <1>4, <2>2, <2>3, <2>4 DEF DlForecast
<1>5. ASSUME NEW t \in Checks, CheckEnd(t) PROVE WeatherData'
  <2>1. /\ step[t] = "dl" /\ UNCHANGED <<wconf, current, forecast, filled, overlaps, neat>>
        /\ \E s \in {"draw", "off"} : WeatherGoto(t, s) /\ (s = "draw" => dl[t].cur = "ok" /\ dl[t].fore = "ok")
    BY <1>5 DEF CheckEnd
  <2>2. ASSUME overlaps = 0 PROVE CleanData'
    <3>1. CleanData /\ ~Detects /\ \A u \in Checks \ {t} : step[u] \notin CheckSteps
      BY <1>o, <2>1, <2>2 DEF CheckSteps, Detects
    <3>2. /\ step'[Loop] = step[Loop] /\ \A u \in Checks \ {t} : step'[u] \notin CheckSteps
          /\ step'[t] \in {"draw", "off"} /\ (step'[t] = "draw" => dl[t].cur = "ok" /\ dl[t].fore = "ok")
      BY <1>g, <1>l, <2>1, <3>1
    <3>3. OneCheck' /\ LoopWaits' /\ ~Detects'
      BY <1>c, <2>1, <3>1, <3>2 DEF OneCheck, LoopWaits, Detects, CleanData, CheckSteps
    <3>4. PlaceOfData' /\ (step'[t] = "draw" => Drawn')
      BY <2>1, <3>1, <3>2 DEF CleanData, PlaceOfData, Drawn, Asked
    <3>5. QED BY <3>2, <3>3, <3>4 DEF CleanData, CheckSteps
  <2>3. QED BY <1>0, <2>1, <2>2 DEF WeatherData, NeatMeetsNone
<1>s. ASSUME UNCHANGED <<wconf, current, forecast, filled, dl, overlaps>>, NeatMeetsNone',
             \A t \in Checks : /\ step'[t] \in CheckSteps => step[t] \in CheckSteps
                               /\ step'[t] = "dl" => step[t] = "dl"
                               /\ step'[t] \in {"draw", "removed", "kept"} => step[t] \in {"draw", "removed", "kept"},
             step'[Loop] \in {step[Loop], "idle", "recheck", "exited"}
      PROVE  WeatherData'
  <2>1. overlaps = 0 => CleanData'
    BY <1>0, <1>s, SameData
  <2>2. QED BY <1>s, <2>1 DEF WeatherData
<1>6. ASSUME NEW t \in Checks,
             DrawIcon(t) \/ ListDays(t) \/ AddSubIcon(t) \/ SubIconAdded(t)
             \/ DrawEnd(t)
      PROVE  WeatherData'
  <2>1. UNCHANGED <<wconf, current, forecast, filled, dl, overlaps>>
    BY <1>6
    DEF DrawIcon, ListDays, AddSubIcon, SubIconAdded, DrawEnd
  <2>2. NeatMeetsNone'
    <3>1. DrawIcon(t) => NeatMeetsNone'
      <4>1. DrawIcon(t) => (\E failed : neat' = (overlaps = 0 /\ ("subs" \in failed => neat))) /\ overlaps' = overlaps
        BY Zenon DEF DrawIcon
      <4>2. QED BY <4>1 DEF NeatMeetsNone
    <3>2. ~DrawIcon(t) => UNCHANGED <<overlaps, neat>>
      BY <1>6 DEF ListDays, AddSubIcon, SubIconAdded, DrawEnd
    <3>3. QED BY <1>0, <3>1, <3>2 DEF NeatMeetsNone
  <2>3. \/ WeatherGoto(Loop, "exited")
        \/ step[t] = "draw" /\ \E s \in {"removed", "kept"} : WeatherGoto(t, s)
        \/ \E s \in {"days", "add", "off"} : step[t] \in CheckSteps /\ WeatherGoto(t, s)
    BY <1>6
    DEF DrawIcon, ListDays, AddSubIcon, SubIconAdded, DrawEnd,
        Exit, CheckSteps
  <2>4. /\ step'[Loop] \in {step[Loop], "exited"} /\ \A u \in Checks \ {t} : step'[u] = step[u]
        /\ \/ step'[t] = step[t]
           \/ step[t] = "draw" /\ step'[t] \in {"removed", "kept"}
           \/ step[t] \in CheckSteps /\ step'[t] \in {"days", "add", "off"}
    BY <1>g, <1>l, <2>3
  <2>5. \A u \in Checks : /\ step'[u] \in CheckSteps => step[u] \in CheckSteps
                          /\ step'[u] = "dl" => step[u] = "dl"
                          /\ step'[u] \in {"draw", "removed", "kept"} => step[u] \in {"draw", "removed", "kept"}
    BY <2>4 DEF CheckSteps
  <2>6. QED BY <1>s, <2>1, <2>2, <2>4, <2>5
<1>7. ASSUME NEW t \in Checks, WeatherClick(t) \/ SubClick(t) PROVE WeatherData'
  <2>1. CASE WeatherClick(t)
    BY <1>1, <2>1 DEF WeatherClick
  <2>2. CASE SubClick(t)
    <3>1. UNCHANGED <<wconf, current, forecast, filled, dl, overlaps, neat>> /\ (step' = step \/ WeatherGoto(Loop, "exited"))
      BY <2>2 DEF SubClick, ShowDay, Exit
    <3>2. step'[Loop] \in {step[Loop], "exited"} /\ \A u \in Checks : step'[u] = step[u]
      BY <1>g, <3>1
    <3>3. NeatMeetsNone'
      BY <1>0, <3>1 DEF NeatMeetsNone
    <3>4. QED BY <1>s, <3>1, <3>2, <3>3
  <2>3. QED BY <1>7, <2>1, <2>2
<1>8. CASE Detect
  <2>1. UNCHANGED <<current, forecast, filled, dl, overlaps, neat>> /\ Detects
    BY <1>8 DEF Detect, Detects
  <2>2. \E s \in {"saveAuto", "restart"} : WeatherGoto(Loop, s)
    BY <1>8 DEF Detect
  <2>3. step'[Loop] \in {"saveAuto", "restart"} /\ \A u \in Checks : step'[u] = step[u]
    BY <1>g, <2>2
  <2>4. ASSUME overlaps = 0 PROVE CleanData'
    <3>1. CleanData /\ current = "nil" /\ filled = "empty"
      BY <1>0, <2>1, <2>4 DEF CleanData
    <3>2. WeatherChecking = {} /\ \A u \in Checks : step[u] \notin CheckSteps
      BY <1>c, <2>1, <3>1 DEF CleanData, LoopWaits, Detects
    <3>3. WeatherChecking' = {}
      BY <1>c, <2>3, <3>2
    <3>4. QED BY <2>1, <2>3, <3>1, <3>2, <3>3 DEF CleanData, OneCheck, LoopWaits, PlaceOfData, Detects, CheckSteps
  <2>5. QED BY <1>0, <2>1, <2>4 DEF WeatherData, NeatMeetsNone
<1>9. CASE SaveLocation \/ WeatherTick \/ LoopRestart
  <2>1. UNCHANGED <<wconf, current, forecast, filled, dl, overlaps, neat>> /\ WeatherRestart("idle")
    BY <1>9 DEF SaveLocation, WeatherTick, LoopRestart
  <2>2. step'[Loop] = "idle" /\ \A u \in Checks : step'[u] \in {step[u], "check"}
    BY <1>g, <2>1
  <2>3. NeatMeetsNone'
    BY <1>0, <2>1 DEF NeatMeetsNone
  <2>4. \A u \in Checks : /\ step'[u] \in CheckSteps => step[u] \in CheckSteps
                          /\ step'[u] = "dl" => step[u] = "dl"
                          /\ step'[u] \in {"draw", "removed", "kept"} => step[u] \in {"draw", "removed", "kept"}
    BY <2>2 DEF CheckSteps
  <2>5. QED BY <1>s, <2>1, <2>2, <2>3, <2>4
\* The data is cleared: what was at work overlaps.
<1>10. ASSUME Cleared, NEW s, WeatherGoto(Loop, s), UNCHANGED dl, current' = "nil", forecast' = "nil", filled' = "empty"
       PROVE  WeatherData'
  <2>1. NeatMeetsNone' /\ (overlaps' = 0 => WeatherChecking = {})
    BY <1>0, <1>10, OverlapEffects
  <2>2. \A u \in Checks : step'[u] = step[u]
    BY <1>g, <1>10
  <2>3. ASSUME WeatherChecking = {} PROVE CleanData'
    <3>1. WeatherChecking' = {} /\ \A u \in Checks : step'[u] \notin CheckSteps
      BY <1>c, <2>2, <2>3
    <3>2. QED BY <1>10, <3>1 DEF CleanData, OneCheck, LoopWaits, PlaceOfData, Detects, CheckSteps
  <2>4. QED BY <2>1, <2>3 DEF WeatherData
<1>11. CASE WeatherHandleAnswer
  <2>1. UNCHANGED dl
    BY <1>11 DEF WeatherHandleAnswer
  <2>2. \/ \E code \in Places \cup {""} : SetLocation(code)
        \/ UNCHANGED <<current, forecast, filled, conf, wconf, overlaps, neat, step>>
    BY <1>11, Zenon DEF WeatherHandleAnswer
  <2>3. CASE \E code \in Places \cup {""} : SetLocation(code)
    BY <1>10, <2>1, <2>3 DEF SetLocation
  <2>4. CASE UNCHANGED <<current, forecast, filled, conf, wconf, overlaps, neat, step>>
    <3>1. NeatMeetsNone'
      BY <1>0, <2>4 DEF NeatMeetsNone
    <3>2. QED BY <1>s, <2>1, <2>4, <3>1
  <2>5. QED BY <2>2, <2>3, <2>4
<1>12. CASE WeatherHandleBuild
  BY <1>1, <1>12 DEF WeatherHandleBuild
<1>m. ASSUME NEW a, WeatherLaunch(a) PROVE WeatherData'
  <2>1. UNCHANGED <<wconf, current, forecast, filled, dl, overlaps, neat>>
    BY <1>m DEF WeatherLaunch
  <2>2. step' = step \/ WeatherGoto(Loop, "exited") \/ WeatherRestart("recheck")
    BY <1>m DEF WeatherLaunch, ShowDay, Exit
  <2>3. /\ step'[Loop] \in {step[Loop], "recheck", "exited"}
        /\ \A u \in Checks : step'[u] \in {step[u], "check"}
    BY <1>g, <2>2
  <2>4. \A u \in Checks : /\ step'[u] \in CheckSteps => step[u] \in CheckSteps
                          /\ step'[u] = "dl" => step[u] = "dl"
                          /\ step'[u] \in {"draw", "removed", "kept"} => step[u] \in {"draw", "removed", "kept"}
    BY <2>3 DEF CheckSteps
  <2>5. NeatMeetsNone'
    BY <1>0, <2>1 DEF NeatMeetsNone
  <2>6. QED BY <1>s, <2>1, <2>3, <2>4, <2>5
<1>n. CASE WeatherHandleSelect \/ WeatherShortkey
  BY <1>m, <1>n DEF WeatherHandleSelect, WeatherShortkey
<1>p. CASE LoopRechecked
  <2>1. UNCHANGED <<wconf, current, forecast, filled, dl, overlaps, neat>> /\ WeatherGoto(Loop, "idle")
    BY <1>p DEF LoopRechecked
  <2>2. step'[Loop] = "idle" /\ \A u \in Checks : step'[u] = step[u]
    BY <1>g, <2>1
  <2>3. NeatMeetsNone'
    BY <1>0, <2>1 DEF NeatMeetsNone
  <2>4. QED BY <1>s, <2>1, <2>2, <2>3
<1>13. CASE WeatherReload
  <2> DEFINE b == WeatherChecking # {}
  <2>1. UNCHANGED <<wconf, current, forecast, filled, dl>> /\ WeatherGoto(Loop, "init") /\ Meets(b) /\ b \in BOOLEAN
    BY <1>13 DEF WeatherReload
  <2> HIDE DEF b
  <2>2. NeatMeetsNone' /\ (overlaps' = 0 => ~b /\ overlaps = 0)
    BY <1>0, <2>1, OverlapEffects
  <2>3. step'[Loop] = "init" /\ \A u \in Checks : step'[u] = step[u]
    BY <1>g, <2>1
  <2>4. ASSUME overlaps' = 0 PROVE CleanData'
    <3>1. WeatherChecking = {} /\ CleanData
      BY <1>0, <2>2, <2>4 DEF b
    <3>2. ~Detects'
      BY <2>3 DEF Detects
    <3>3. QED BY <2>1, <2>3, <3>1, <3>2, SameData
  <2>5. QED BY <2>2, <2>4 DEF WeatherData
<1>14. CASE WeatherLoopInit
  <2>1. \E s : WeatherGoto(Loop, s)
    BY <1>14 DEF WeatherLoopInit
  <2>2. QED BY <1>10, <1>14, <2>1 DEF WeatherLoopInit
<1>15. CASE UNCHANGED WeatherVars
  BY <1>1, <1>15 DEF WeatherVars
<1>16. QED
  BY <1>1, <1>2, <1>3, <1>4, <1>5, <1>6, <1>7, <1>8, <1>9, <1>11, <1>12, <1>n, <1>p, <1>13, <1>14, <1>15, Zenon
  DEF CloudsNext, CheckStep, LoopStep, Checks

(***************************************************************************)
(* The sub-icons. While a check draws them, those of the dock have their   *)
(* object in the table, and those no failed call left there are of the     *)
(* place of the main icon.                                                 *)
(***************************************************************************)
Drawing == {"removed", "kept", "days", "add"}
Agree   == /\ DOMAIN subs \subseteq icons
           /\ icon # "nil" /\ 0 \notin behind => \A day \in DOMAIN subs \ behind : subs[day] = icon
DrawnSoFar(t) ==
  /\ step[t] = "removed" => DOMAIN subs = {} /\ (0 \in behind \/ icon = wconf)
  /\ step[t] = "kept" => DOMAIN subs \subseteq icons \cap behind /\ (0 \in behind \/ icon = wconf)
  /\ step[t] \in {"days", "add"} => /\ DOMAIN subs \subseteq icons
                                    /\ 0 \in behind \/ icon = draw[t].of
                                    /\ \A day \in DOMAIN subs \ behind : subs[day] = draw[t].of
  /\ step[t] = "add" => draw[t].next \in icons
NoDrawing == \A t \in Checks : step[t] \notin Drawing
IconsDrawn == neat => (NoDrawing => Agree) /\ \A t \in Checks : DrawnSoFar(t)

LEMMA InitIconsDrawn == CloudsInit => IconsDrawn
<1> SUFFICES ASSUME CloudsInit PROVE IconsDrawn
  OBVIOUS
<1>1. icon = "nil" /\ subs = <<>> /\ icons = {} /\ behind = {} /\ step = [t \in Threads |-> IF t = Loop THEN "init" ELSE "off"]
  BY DEF CloudsInit, Nil
<1>2. \A t \in Checks : step[t] = "off"
  BY <1>1, LoopIsNoCheck
<1>3. DOMAIN subs = {}
  BY <1>1
<1>4. QED BY <1>1, <1>2, <1>3 DEF IconsDrawn, Agree, DrawnSoFar

\* A step that leaves the icons and those who draw them alone.
LEMMA SameIcons ==
  ASSUME IconsDrawn, neat' => neat, UNCHANGED <<subs, icons, icon, behind, draw>>,
         \A t \in Checks : step'[t] \in Drawing \/ step[t] \in Drawing => step'[t] = step[t],
         wconf' = wconf \/ (neat' => NoDrawing)
  PROVE  IconsDrawn'
<1> SUFFICES ASSUME neat' PROVE (NoDrawing' => Agree') /\ \A t \in Checks : DrawnSoFar(t)'
  BY DEF IconsDrawn
<1>1. NoDrawing' => Agree'
  BY DEF IconsDrawn, NoDrawing, Agree
<1>2. ASSUME NEW t \in Checks PROVE DrawnSoFar(t)'
  BY DEF IconsDrawn, DrawnSoFar, NoDrawing, Drawing
<1>3. QED BY <1>1, <1>2

LEMMA NextIconsDrawn ==
  WeatherTypes /\ ConfIsSet /\ WeatherData /\ IconsDrawn /\ [CloudsNext]_WeatherVars => IconsDrawn'
<1> SUFFICES ASSUME WeatherTypes, ConfIsSet, WeatherData, IconsDrawn, [CloudsNext]_WeatherVars
             PROVE  IconsDrawn'
  OBVIOUS
<1> USE DEF skyVars, checkVars, overlapVars, dataVars, Nil, Empty
<1>0. NeatMeetsNone /\ (overlaps = 0 => CleanData) /\ draw \in [Checks -> Draws]
  BY DEF WeatherData, WeatherTypes
<1>g. /\ \A t \in Checks : \A s : WeatherGoto(t, s) => step'[t] = s /\ \A u \in Threads \ {t} : step'[u] = step[u]
      /\ \A s : WeatherGoto(Loop, s) => step'[Loop] = s /\ \A u \in Checks : step'[u] = step[u]
      /\ \A s \in {"idle", "recheck"} :
           WeatherRestart(s) => /\ step'[Loop] = s
                                /\ \A u \in Checks : step'[u] # step[u] => step[u] = "off" /\ step'[u] = "check"
  BY GoesTo, LoopIsNoCheck
<1>c. WeatherChecking = {t \in Checks : step[t] \in CheckSteps}
  BY DEF WeatherChecking, Checks, CheckSteps
<1>l. Loop \in Threads /\ Loop \notin Checks /\ Checks \subseteq Threads
  BY LoopIsNoCheck
<1>e. WeatherChecking = {} => NoDrawing
  BY <1>c DEF NoDrawing, Drawing, CheckSteps
<1>w. neat /\ step[Loop] \notin {"idle", "recheck", "exited"} => NoDrawing
  BY <1>0, <1>e DEF NeatMeetsNone, CleanData, LoopWaits
<1>o. ASSUME neat, NEW t \in Checks, step[t] \in CheckSteps
      PROVE  CleanData /\ wconf \in Places /\ step[Loop] \in {"idle", "recheck", "exited"} /\ \A u \in Checks \ {t} : step[u] \notin CheckSteps
  BY <1>0, <1>c, <1>o DEF NeatMeetsNone, CleanData, OneCheck, LoopWaits
<1>1. CASE UNCHANGED cloudsVars
  BY <1>1, SameIcons DEF cloudsVars
<1>2. ASSUME NEW t \in Checks,
             WeatherCheck(t) \/ DlCurrent(t) \/ DlForecast(t) \/ CheckEnd(t)
             \/ WeatherClick(t) \/ SubClick(t)
      PROVE  IconsDrawn'
  <2>1. UNCHANGED <<subs, icons, icon, behind, draw, wconf>>
    BY <1>2
    DEF WeatherCheck, DlCurrent, DlForecast, CheckEnd, WeatherClick, SubClick,
        cloudsVars
  <2>2. \/ step' = step \/ WeatherGoto(Loop, "exited")
        \/ step[t] \notin Drawing /\ \E s \in {"off", "dl", "draw"} : WeatherGoto(t, s)
    BY <1>2
    DEF WeatherCheck, DlCurrent, DlForecast, CheckEnd, WeatherClick, SubClick,
        ShowDay, cloudsVars, Exit, Drawing
  <2>3. \A u \in Checks : step'[u] \in Drawing \/ step[u] \in Drawing => step'[u] = step[u]
    BY <1>g, <1>l, <2>2 DEF Drawing
  <2>4. neat' => neat
    <3>1. CASE WeatherCheck(t)
      <4> DEFINE b == WeatherChecking # {} \/ step[Loop] \notin {"idle", "recheck"}
      <4>1. (Meets(b) \/ UNCHANGED neat) /\ b \in BOOLEAN
        BY <3>1 DEF WeatherCheck
      <4> HIDE DEF b
      <4>2. QED BY <1>0, <4>1, OverlapEffects
    <3>2. CASE ~WeatherCheck(t)
      BY <1>2, <3>2 DEF DlCurrent, DlForecast, CheckEnd, WeatherClick, SubClick, cloudsVars
    <3>3. QED BY <3>1, <3>2
  <2>5. QED BY <2>1, <2>3, <2>4, SameIcons
<1>3. ASSUME NEW t \in Checks, DrawIcon(t), step[Loop] # "exited" PROVE IconsDrawn'
  <2>1. /\ step[t] = "draw" /\ UNCHANGED <<current, wconf, icons, draw, overlaps>>
        /\ \E failed \in SUBSET {"icon", "subs"} :
             /\ icon' = IF "icon" \notin failed /\ current # "nil" /\ conf # "empty" THEN current ELSE icon
             /\ subs' = IF "subs" \in failed THEN subs ELSE <<>>
             /\ neat' = (overlaps = 0 /\ ("subs" \in failed => neat))
             /\ behind' = (IF neat' THEN DOMAIN subs' \cup (IF "icon" \in failed THEN {0} ELSE {}) ELSE {})
             /\ WeatherGoto(t, IF "subs" \in failed THEN "kept" ELSE "removed")
    BY <1>3, Zenon DEF DrawIcon, Nil, Empty
  <2>2. PICK failed \in SUBSET {"icon", "subs"} :
          /\ icon' = IF "icon" \notin failed /\ current # "nil" /\ conf # "empty" THEN current ELSE icon
          /\ subs' = IF "subs" \in failed THEN subs ELSE <<>>
          /\ neat' = (overlaps = 0 /\ ("subs" \in failed => neat))
          /\ behind' = (IF neat' THEN DOMAIN subs' \cup (IF "icon" \in failed THEN {0} ELSE {}) ELSE {})
          /\ WeatherGoto(t, IF "subs" \in failed THEN "kept" ELSE "removed")
    BY <2>1
  <2>3. neat' => overlaps = 0 /\ ("subs" \in failed => neat)
    BY <2>2
  <2>4. ASSUME neat' PROVE (NoDrawing' => Agree') /\ \A u \in Checks : DrawnSoFar(u)'
    <3>1. CleanData /\ step[t] \in CheckSteps
      BY <1>0, <2>1, <2>3, <2>4 DEF CheckSteps
    <3>2. /\ current = wconf /\ wconf \in Places /\ step[Loop] \in {"idle", "recheck"}
          /\ \A u \in Checks \ {t} : step[u] \notin CheckSteps
      BY <1>3, <1>c, <2>1, <3>1 DEF CleanData, Drawn, OneCheck, LoopWaits
    <3>3. current # "nil" /\ conf # "empty"
      BY <3>2, CloudsAssumption DEF ConfIsSet, Nil, Empty
    <3>4. 0 \in behind' \/ icon' = wconf'
      BY <2>1, <2>2, <2>4, <3>2, <3>3
    <3>5. step'[t] \in {"kept", "removed"} /\ \A u \in Checks \ {t} : step'[u] \notin Drawing
      BY <1>g, <1>l, <2>2, <3>2 DEF CheckSteps, Drawing
    <3>6. CASE "subs" \in failed
      <4>1. neat /\ NoDrawing
        BY <2>1, <2>3, <2>4, <3>2, <3>6 DEF NoDrawing, Drawing, CheckSteps
      <4>2. DOMAIN subs \subseteq icons
        BY <4>1 DEF IconsDrawn, Agree
      <4>3. subs' = subs /\ DOMAIN subs \subseteq behind' /\ icons' = icons
        BY <2>1, <2>2, <2>4, <3>6
      <4>4. step'[t] = "kept"
        BY <1>g, <1>l, <2>2, <3>6
      <4>5. QED BY <3>4, <3>5, <4>2, <4>3, <4>4 DEF DrawnSoFar, NoDrawing, Drawing
    <3>7. CASE "subs" \notin failed
      <4>1. subs' = <<>> /\ step'[t] = "removed"
        BY <1>g, <1>l, <2>2, <3>7
      <4>2. DOMAIN subs' = {}
        BY <4>1
      <4>3. QED BY <3>4, <3>5, <4>1, <4>2 DEF DrawnSoFar, NoDrawing, Drawing
    <3>8. QED BY <3>6, <3>7
  <2>5. QED BY <2>4 DEF IconsDrawn
<1>4. ASSUME NEW t \in Checks, neat' = neat, step[t] \in Drawing,
             neat => \A u \in Checks \ {t} : step'[u] = step[u],
             neat => DrawnSoFar(t)' /\ (step'[t] \in Drawing \/ (step'[t] = "off" /\ Agree'))
      PROVE  IconsDrawn'
  <2>1. neat => \A u \in Checks \ {t} : step[u] \notin Drawing
    BY <1>4, <1>o DEF Drawing, CheckSteps
  <2>2. neat => \A u \in Checks \ {t} : step'[u] \notin Drawing
    BY <1>4, <2>1
  <2>3. neat => \A u \in Checks : DrawnSoFar(u)'
    BY <1>4, <2>2 DEF DrawnSoFar, Drawing
  <2>4. QED BY <1>4, <2>3 DEF IconsDrawn, NoDrawing
<1>5. ASSUME NEW t \in Checks, ListDays(t) PROVE IconsDrawn'
  <2>1. /\ step[t] \in {"removed", "kept"} /\ UNCHANGED <<neat, icon, subs, behind, wconf>>
        /\ icons' = IF step[t] = "removed" THEN {} ELSE icons
    BY <1>5 DEF ListDays
  <2>2. \/ draw' = draw /\ WeatherGoto(Loop, "exited")
        \/ draw' = [draw EXCEPT ![t] = [of |-> filled, next |-> 1, last |-> days]] /\ WeatherGoto(t, "days")
    BY <1>5 DEF ListDays, Exit
  <2>3. neat => /\ DOMAIN subs \subseteq icons' /\ DOMAIN subs \subseteq behind
                /\ 0 \in behind \/ icon = wconf
    BY <2>1 DEF IconsDrawn, DrawnSoFar
  <2>4. CASE draw' = draw /\ WeatherGoto(Loop, "exited")
    <3>1. \A u \in Checks : step'[u] = step[u]
      BY <1>g, <2>4
    <3>2. neat => DrawnSoFar(t)'
      BY <2>1, <2>3, <2>4, <3>1 DEF DrawnSoFar, IconsDrawn
    <3>3. QED BY <1>4, <2>1, <3>1, <3>2 DEF Drawing
  <2>5. CASE draw' = [draw EXCEPT ![t] = [of |-> filled, next |-> 1, last |-> days]] /\ WeatherGoto(t, "days")
    <3>1. step'[t] = "days" /\ \A u \in Checks \ {t} : step'[u] = step[u]
      BY <1>g, <1>l, <2>5
    <3>2. draw'[t].of = filled
      BY <1>0, <2>5
    <3>3. neat => filled = wconf
      BY <1>o, <2>1 DEF CleanData, Drawn, CheckSteps
    <3>4. neat => DrawnSoFar(t)'
      BY <2>1, <2>3, <3>1, <3>2, <3>3 DEF DrawnSoFar
    <3>5. QED BY <1>4, <2>1, <3>1, <3>4 DEF Drawing
  <2>6. QED BY <2>2, <2>4, <2>5
<1>6. ASSUME NEW t \in Checks, AddSubIcon(t) PROVE IconsDrawn'
  <2>1. /\ step[t] = "days" /\ icons' = icons \cup {draw[t].next} /\ WeatherGoto(t, "add")
        /\ UNCHANGED <<neat, icon, subs, behind, wconf, draw>>
    BY <1>6 DEF AddSubIcon
  <2>2. step'[t] = "add" /\ \A u \in Checks \ {t} : step'[u] = step[u]
    BY <1>g, <1>l, <2>1
  <2>3. neat => DrawnSoFar(t)'
    BY <2>1, <2>2 DEF IconsDrawn, DrawnSoFar
  <2>4. QED BY <1>4, <2>1, <2>2, <2>3 DEF Drawing
<1>7. ASSUME NEW t \in Checks, SubIconAdded(t) PROVE IconsDrawn'
  <2>1. /\ step[t] = "add" /\ UNCHANGED <<neat, icon, icons, behind, wconf>> /\ WeatherGoto(t, "days")
        /\ \/ subs' = [day \in DOMAIN subs \cup {draw[t].next} |-> IF day = draw[t].next THEN draw[t].of ELSE subs[day]]
           \/ subs' = subs
        /\ draw' = [draw EXCEPT ![t] = [draw[t] EXCEPT !.next = draw[t].next + 1]]
    BY <1>0, <1>7 DEF SubIconAdded
  <2>2. step'[t] = "days" /\ \A u \in Checks \ {t} : step'[u] = step[u]
    BY <1>g, <1>l, <2>1
  <2>3. draw'[t].of = draw[t].of
    BY <1>0, <2>1 DEF Draws
  <2>4. DOMAIN subs' \subseteq DOMAIN subs \cup {draw[t].next}
    BY <2>1
  <2>5. \A day \in DOMAIN subs' : subs'[day] = draw[t].of \/ (day \in DOMAIN subs /\ subs'[day] = subs[day])
    BY <2>1
  <2>6. neat => DrawnSoFar(t)'
    BY <2>1, <2>2, <2>3, <2>4, <2>5 DEF IconsDrawn, DrawnSoFar
  <2>7. QED BY <1>4, <2>1, <2>2, <2>6 DEF Drawing
<1>8. ASSUME NEW t \in Checks, DrawEnd(t) PROVE IconsDrawn'
  <2>1. step[t] = "days" /\ WeatherGoto(t, "off") /\ UNCHANGED <<neat, icon, icons, subs, behind, wconf>>
    BY <1>8 DEF DrawEnd
  <2>2. step'[t] = "off" /\ \A u \in Checks \ {t} : step'[u] = step[u]
    BY <1>g, <1>l, <2>1
  <2>3. neat => DrawnSoFar(t)' /\ Agree'
    BY <2>1, <2>2 DEF IconsDrawn, DrawnSoFar, Agree
  <2>4. QED BY <1>4, <2>1, <2>2, <2>3 DEF Drawing
<1>9. CASE Detect
  <2>1. UNCHANGED <<subs, icons, icon, behind, draw, neat>> /\ step[Loop] \notin {"idle", "recheck", "exited"}
    BY <1>9 DEF Detect
  <2>2. \A u \in Checks : step'[u] = step[u]
    BY <1>9, <1>g DEF Detect
  <2>3. QED BY <1>w, <2>1, <2>2, SameIcons
<1>10. CASE SaveLocation \/ WeatherTick
  <2>1. UNCHANGED <<subs, icons, icon, behind, draw, neat, wconf>> /\ WeatherRestart("idle")
    BY <1>10 DEF SaveLocation, WeatherTick
  <2>3. \A u \in Checks : step'[u] # step[u] => step[u] = "off" /\ step'[u] = "check"
    BY <1>g, <2>1
  <2>4. \A u \in Checks : step'[u] \in Drawing \/ step[u] \in Drawing => step'[u] = step[u]
    BY <2>3 DEF Drawing
  <2>5. QED BY <2>1, <2>4, SameIcons
<1>11. CASE LoopRestart
  <2>1. UNCHANGED <<subs, icons, behind, draw, neat, wconf>> /\ icon' \in {"nil", icon} /\ WeatherRestart("idle") /\ step[Loop] = "restart"
    BY <1>11 DEF LoopRestart
  <2>2. \A u \in Checks : step'[u] \in {step[u], "check"}
    BY <1>g, <2>1
  <2>3. neat => NoDrawing /\ NoDrawing'
    BY <1>w, <2>1, <2>2 DEF NoDrawing, Drawing
  <2>4. QED BY <2>1, <2>3 DEF IconsDrawn, NoDrawing, Agree, DrawnSoFar, Drawing
\* The data is cleared for another place.
<1>12. ASSUME Cleared, NEW s, WeatherGoto(Loop, s), UNCHANGED <<subs, icons, icon, behind, draw>> PROVE IconsDrawn'
  <2>1. NeatMeetsNone' /\ (overlaps' = 0 => WeatherChecking = {}) /\ (neat' => neat)
    BY <1>0, <1>12, OverlapEffects
  <2>2. \A u \in Checks : step'[u] = step[u]
    BY <1>g, <1>12
  <2>3. neat' => NoDrawing
    BY <1>e, <2>1 DEF NeatMeetsNone
  <2>4. QED BY <1>12, <2>1, <2>2, <2>3, SameIcons
<1>13. CASE WeatherHandleAnswer
  <2>1. UNCHANGED <<subs, icons, icon, behind, draw>>
    BY <1>13 DEF WeatherHandleAnswer
  <2>2. \/ \E code \in Places \cup {""} : SetLocation(code)
        \/ UNCHANGED <<conf, wconf, overlaps, neat, step>>
    BY <1>13, Zenon DEF WeatherHandleAnswer
  <2>3. CASE \E code \in Places \cup {""} : SetLocation(code)
    BY <1>12, <2>1, <2>3 DEF SetLocation
  <2>4. CASE UNCHANGED <<conf, wconf, overlaps, neat, step>>
    BY <2>1, <2>4, SameIcons
  <2>5. QED BY <2>2, <2>3, <2>4
<1>14. CASE WeatherHandleBuild
  BY <1>1, <1>14 DEF WeatherHandleBuild
<1>m. ASSUME NEW a, WeatherLaunch(a) PROVE IconsDrawn'
  <2>1. UNCHANGED <<subs, icons, icon, behind, draw, neat, wconf>>
    BY <1>m DEF WeatherLaunch
  <2>2. step' = step \/ WeatherGoto(Loop, "exited") \/ WeatherRestart("recheck")
    BY <1>m DEF WeatherLaunch, ShowDay, Exit
  <2>3. \A u \in Checks : step'[u] # step[u] => step[u] = "off" /\ step'[u] = "check"
    BY <1>g, <2>2
  <2>4. \A u \in Checks : step'[u] \in Drawing \/ step[u] \in Drawing => step'[u] = step[u]
    BY <2>3 DEF Drawing
  <2>5. QED BY <2>1, <2>4, SameIcons
<1>n. CASE WeatherHandleSelect \/ WeatherShortkey
  BY <1>m, <1>n DEF WeatherHandleSelect, WeatherShortkey
<1>p. CASE LoopRechecked
  <2>1. UNCHANGED <<subs, icons, icon, behind, draw, neat, wconf>> /\ WeatherGoto(Loop, "idle")
    BY <1>p DEF LoopRechecked
  <2>2. \A u \in Checks : step'[u] = step[u]
    BY <1>g, <2>1
  <2>3. QED BY <2>1, <2>2, SameIcons
<1>15. CASE WeatherReload
  <2> DEFINE b == WeatherChecking # {}
  <2>1. UNCHANGED <<subs, icons, icon, behind, draw, wconf>> /\ WeatherGoto(Loop, "init") /\ Meets(b) /\ b \in BOOLEAN
    BY <1>15 DEF WeatherReload
  <2> HIDE DEF b
  <2>2. neat' => neat
    BY <1>0, <2>1, OverlapEffects
  <2>3. \A u \in Checks : step'[u] = step[u]
    BY <1>g, <2>1
  <2>4. QED BY <2>1, <2>2, <2>3, SameIcons
<1>16. CASE WeatherLoopInit
  <2>1. (\E s : WeatherGoto(Loop, s)) /\ UNCHANGED <<subs, icons, icon, behind, draw>> /\ Cleared
    BY <1>16 DEF WeatherLoopInit
  <2>2. QED BY <1>12, <2>1
<1>17. CASE UNCHANGED WeatherVars
  BY <1>1, <1>17 DEF WeatherVars
<1>18. QED
  BY <1>1, <1>2, <1>3, <1>5, <1>6, <1>7, <1>8, <1>9, <1>10, <1>11, <1>13, <1>14, <1>n, <1>p, <1>15, <1>16, <1>17, Zenon
  DEF CloudsNext, CheckStep, LoopStep, Checks

WeatherInv == WeatherTypes /\ ConfIsSet /\ WeatherData /\ IconsDrawn

LEMMA WeatherInvariant == CloudsSpec => []WeatherInv
<1>1. CloudsInit => WeatherInv
  <2>1. CloudsInit => ConfIsSet
    BY LoopIsNoCheck DEF CloudsInit, ConfIsSet
  <2>2. QED BY <2>1, InitWeatherTypes, InitWeatherData, InitIconsDrawn DEF WeatherInv
<1>2. WeatherInv /\ [CloudsNext]_WeatherVars => WeatherInv'
  BY NextWeatherTypes, NextConfIsSet, NextWeatherData, NextIconsDrawn DEF WeatherInv
<1>3. QED BY <1>1, <1>2, PTL DEF CloudsSpec, WeatherVars

\* Whatever was asked for, detected, saved or failed, the data is that of the place in
\* the settings, unless a check overlapped another one or a change since the data was
\* cleared (SetLocationCode, Init, Get).
THEOREM DataFollowsPlace == CloudsSpec => []DataIsOfPlace
<1>1. WeatherInv => DataIsOfPlace
  BY DEF WeatherInv, WeatherData, CleanData, PlaceOfData, DataIsOfPlace, Nil, Empty
<1>2. QED BY <1>1, WeatherInvariant, PTL

\* For any places, days and failing calls, every sub-icon of the dock has its object in
\* the table, and those the last Draw added show the place of the main icon, unless it
\* met another check or a change (RemoveSubIcons, AddSubIcon).
THEOREM IconsFollowTable == CloudsSpec => []IconsAgree
<1>1. WeatherInv => IconsAgree
  <2>1. WeatherChecking = {} => NoDrawing
    BY DEF WeatherChecking, Checks, NoDrawing, Drawing
  <2>2. QED BY <2>1 DEF WeatherInv, IconsDrawn, Agree, IconsAgree, Quiet, Nil
<1>2. QED BY <1>1, WeatherInvariant, PTL
=============================================================================
