-------------------------------- MODULE ConfGui --------------------------------
(***************************************************************************)
(* The configuration window of the dock: the page of the selected icon     *)
(* (widgets/conficons), the page of the main configuration                 *)
(* (widgets/confcore), the window that holds them (widgets/confgui,        *)
(* libs/dock/guibridge), the saving of their files (widgets/cfbuild,       *)
(* libs/dock/confown) and the grab of a window class                       *)
(* (libs/gldi/confdata).                                                   *)
(*                                                                         *)
(* All of it runs in the GTK thread but the grabs, which wait in           *)
(* goroutines.  The files are also changed by applets, and the dock calls  *)
(* ReloadItems when its icons change.                                      *)
(***************************************************************************)
EXTENDS ConfWidgets

CONSTANTS
  Layouts,   \* keys a page may hold, with vals, the values the file may have, and
             \* typed, those the user may enter
  Shared,    \* types used with both pages, the own settings and a dock that changes
  MaxSteps,  \* bound: edits of widgets, with the types that are not shared
  SharedSteps, \* bound: edits of widgets, with the shared ones
  MaxEvents, \* bound: events of the window and its outside
  MaxSaves,  \* bound: clicks on the save button
  Grabs      \* goroutines that may grab a class

\* Files: the main configuration, with a group on each page, the file of an applet
\* or launcher, the own settings.
Slots  == {"taskbar", "core", "icon", "own"}
Places == {"icons", "config"}
Conf(s) == CASE s = "icon" -> "item" [] s = "own" -> "own" [] OTHER -> "main"
SlotsAt(p) == IF p = "icons" THEN {"taskbar", "icon"} ELSE {"core", "own"}
Nothing == "none"

\* What a key file may hold for a key, and what is typed, are numbers.
IsKey(k) ==
  /\ k.n \in Nat /\ {k.auth, k.src, k.def} \subseteq Seq(Int)
  /\ k.vals \subseteq Seq(Int) /\ k.typed \subseteq Int
\* The help text of an entry is no value of its key, encrypted or not, and nobody
\* types it.
NotHelp(k) ==
  k.type \in {"text", "password", "class"} /\ HelpText(k) # <<>> =>
    \A v \in k.vals \cup {<<x>> : x \in k.typed} : v = <<>> \/ v[1] % Cipher # HelpText(k)[1] % Cipher
ASSUME GuiAssumption ==
  /\ Nothing \notin Slots \cup Grabs /\ {MaxSteps, SharedSteps, MaxEvents, MaxSaves} \subseteq Nat
  /\ \A k \in Layouts : IsKey(k) /\ NotHelp(k)

VARIABLES
  key,          \* layout of the keys, but for the own settings
  file,         \* value of each slot in the files
  rowsListed,   \* icons of the list, by their slot
  shownIcons,   \* icons of the dock
  selected,     \* row selected in the list, Nothing
  iconToSelect, \* cache of an icon that was not listed when asked for
  page,         \* page open at each place, NoPage
  enabled,      \* confown.Current.SaveEnabled
  editor,       \* confown.Current.SaveEditor is set
  docks,        \* main docks created by saves
  grab,         \* each grab: step, place, serial of its page and result
  winFocusChan, \* grab whose channel it is, Nothing
  together,     \* pages whose grab ran with another one (history)
  recovers,     \* confown.Current.CrashRecovery
  broken,       \* slots lost by the last write of their file (history)
  serial,       \* number of pages opened so far at each place
  up,           \* the dock runs
  steps, events, saves

confVars == <<key, enabled, editor, recovers, docks>>
rowVars == <<rowsListed, shownIcons, selected, iconToSelect>>
placeVars == <<page, serial>>
grabVars == <<grab, winFocusChan, together>>
fileVars == <<file, broken>>
bounds   == <<steps, events, saves>>
guiVars  == <<confVars, fileVars, rowVars, placeVars, grabVars, up, bounds>>

OwnKey == [type |-> "bool", n |-> 1, auth |-> <<>>, src |-> <<>>, def |-> <<0>>, shown |-> TRUE,
           vals |-> {<<0>>, <<1>>}, typed |-> {0, 1}]
KeyOf(s) == IF s = "own" THEN OwnKey ELSE key
NoPage == [slot |-> Nothing]
NoGrab == [step |-> "off"]
Many   == key.type \in Shared
Closed == [p \in Places |-> NoPage]

GuiInit ==
  /\ key \in Layouts
  /\ \E v \in key.vals, u \in key.vals, o \in OwnKey.vals :
       /\ file = [s \in Slots |-> IF s = "own" THEN o ELSE IF s = "icon" THEN v ELSE u]
       /\ enabled = (o = <<1>>)
  /\ editor \in (IF Many THEN BOOLEAN ELSE {FALSE})
  /\ recovers \in (IF key.type = "class" THEN BOOLEAN ELSE {TRUE})
  /\ Many \/ (enabled /\ file["core"] = file["icon"])
  /\ rowsListed = {} /\ shownIcons = {"taskbar", "icon"} /\ selected = Nothing /\ iconToSelect = Nothing
  /\ page = Closed /\ serial = [p \in Places |-> 0]
  /\ docks = {} /\ grab = [g \in Grabs |-> NoGrab] /\ winFocusChan = Nothing
  /\ together = {} /\ broken = {}
  /\ up = TRUE /\ steps = 0 /\ events = 0 /\ saves = 0

Event == up /\ events < MaxEvents /\ events' = events + 1 /\ UNCHANGED <<steps, saves>>
Step_ == up /\ steps < (IF Many THEN SharedSteps ELSE MaxSteps) /\ steps' = steps + 1 /\ UNCHANGED <<events, saves>>

(***************************************************************************)
(* Pages.                                                                  *)
(***************************************************************************)
\* NewFromFileSafe and BuildSingle: the whole file is read and the widgets of one
\* group are built; a file that cannot be read gives a page without save.
OpenPage(p, s) ==
  /\ serial' = [serial EXCEPT ![p] = @ + 1]
  /\ \/ /\ ~PastChoices(KeyOf(s), file[s])
        /\ page' = [page EXCEPT ![p] = [slot |-> s, copy |-> [t \in {u \in Slots : Conf(u) = Conf(s)} |-> file[t]],
                                         w |-> buildKey(KeyOf(s), file[s]), edited |-> FALSE, waits |-> FALSE]]
        /\ UNCHANGED up
     \/ /\ PastChoices(KeyOf(s), file[s])
        /\ page' = [page EXCEPT ![p] = NoPage] /\ up' = FALSE
     \/ Many /\ page' = [page EXCEPT ![p] = NoPage] /\ UNCHANGED up

\* A row that is selected already is not built again.
SelectRow_(s) ==
  /\ selected' = s
  /\ IF s = selected THEN UNCHANGED <<placeVars, up>> ELSE OpenPage("icons", s)

Load == rowsListed' = shownIcons

(***************************************************************************)
(* Plausible faults, for the mutant runs.                                  *)
(***************************************************************************)
WroteAll(p, value) == [t \in DOMAIN page[p].copy |-> value]   \* the value of a group in the others

RowsUnderPage ==             \* the page stays when the row that opened it goes
  /\ selected' = Nothing /\ UNCHANGED <<placeVars, up>>

FailedStaysBlocked(g, class) ==         \* a failed grab leaves the entry blocked
  LET p == grab[g].place
  IN  IF class = <<>> THEN page[p] ELSE [page[p] EXCEPT !.waits = FALSE, !.w = ValueSet(key, page[p].w, class)]

(***************************************************************************)
(* The window.                                                             *)
(***************************************************************************)
\* Create, Load and SelectIcons, from the menu of an icon of the dock.
ShowItems(s) ==
  /\ Event /\ s \in shownIcons
  /\ LET rows == IF rowsListed = {} THEN shownIcons ELSE rowsListed
     IN /\ rowsListed' = rows
        /\ IF s \in rows THEN SelectRow_(s) /\ iconToSelect' = Nothing
           ELSE iconToSelect' = s /\ UNCHANGED <<selected, placeVars, up>>
  /\ UNCHANGED <<confVars, fileVars, shownIcons, grabVars>>

ClickRow(s) ==
  /\ Event /\ s \in rowsListed /\ SelectRow_(s)
  /\ UNCHANGED <<confVars, fileVars, rowsListed, shownIcons, iconToSelect, grabVars>>

\* A row of the main configuration or the own settings.
SelectCore(s) ==
  /\ Event /\ Many /\ rowsListed # {} /\ OpenPage("config", s)
  /\ UNCHANGED <<confVars, fileVars, rowVars, grabVars>>

\* The icons of the dock change; the dock then calls ReloadItems.
IconsChange ==
  /\ Event /\ Many
  /\ shownIcons' \in {{"taskbar", "icon"}, {"taskbar"}} \ {shownIcons}
  /\ UNCHANGED <<confVars, fileVars, rowsListed, selected, iconToSelect, placeVars, grabVars, up>>

\* Clear destroys the page of the selected icon.
Unselect ==
  /\ selected' = Nothing /\ page' = [page EXCEPT !["icons"] = NoPage] /\ UNCHANGED <<serial, up>>

\* Clear, then Load and Select.
ReloadItems ==
  /\ Event /\ rowsListed # {} /\ Load
  /\ LET path == IF iconToSelect # Nothing THEN iconToSelect ELSE selected
     IN IF path \in shownIcons THEN selected' = path /\ OpenPage("icons", path) ELSE Unselect
  /\ iconToSelect' = Nothing
  /\ UNCHANGED <<confVars, fileVars, shownIcons, grabVars>>

\* The destroyed builders free their keys.
CloseGui ==
  /\ Event /\ rowsListed # {}
  /\ rowsListed' = {} /\ selected' = Nothing /\ iconToSelect' = Nothing /\ page' = Closed
  /\ UNCHANGED <<confVars, fileVars, shownIcons, serial, grabVars, up>>

\* An applet saves a value in its file, a package in the main one.
OutsideUpdates(s) ==
  /\ Event /\ Many /\ s # "own"
  /\ \E v \in key.vals \ {file[s]} : file' = [file EXCEPT ![s] = v] /\ broken' = broken \ {s}
  /\ UNCHANGED <<confVars, rowVars, placeVars, grabVars, up>>

\* confown.Init: the own settings are read at the start.
Restart ==
  /\ Event /\ Many /\ rowsListed = {}
  /\ enabled' = (file["own"] = <<1>>)
  /\ grab' = [g \in Grabs |-> NoGrab] /\ winFocusChan' = Nothing
  /\ UNCHANGED <<key, editor, recovers, docks, fileVars, rowVars, placeVars, together, up>>

(***************************************************************************)
(* The user edits the widget of a page.                                    *)
(***************************************************************************)
OnPage(p, w, edit) ==
  /\ Step_
  /\ page' = [page EXCEPT ![p].w = w, ![p].edited = @ \/ edit]
  /\ UNCHANGED <<confVars, fileVars, rowVars, serial, grabVars, up>>
Shows(p, kind) == page[p] # NoPage /\ page[p].w.kind = kind
Typed(p) == KeyOf(page[p].slot).typed

EditValue(p) ==
  /\ Shows(p, "values")
  /\ \E i \in DOMAIN page[p].w.vals, x \in Typed(p) :
       /\ page[p].w.min <= x /\ x <= page[p].w.max
       /\ OnPage(p, [page[p].w EXCEPT !.vals[i] = x], TRUE)
EditPair(p) ==
  /\ Shows(p, "pair")
  /\ \/ \E i \in 1..2, x \in Typed(p) : OnPage(p, onValuePairChanged(page[p].w, i, x), TRUE)
     \/ OnPage(p, [page[p].w EXCEPT !.linked = ~@], FALSE)
EditColor(p) ==
  /\ Shows(p, "color")
  /\ \E x \in Typed(p) : OnPage(p, [page[p].w EXCEPT !.vals[1] = x], TRUE)
EditChoice(p) ==
  /\ Shows(p, "combo") \/ Shows(p, "numbered")
  /\ \E i \in DOMAIN page[p].w.list : OnPage(p, [page[p].w EXCEPT !.active = i], TRUE)
EditFont(p) ==
  /\ Shows(p, "font")
  /\ \E x \in Typed(p) : OnPage(p, [page[p].w EXCEPT !.text = <<x>>], TRUE)
\* Typed with the focus, or chosen in a dialog and grabbed without.
EditText(p) ==
  /\ Shows(p, "entry") /\ ~page[p].waits
  /\ \E v \in {<<x>> : x \in Typed(p)} \cup {<<>>} :
       v # page[p].w.text /\ OnPage(p, onTextDefaultChanged(page[p].w, v), TRUE)
Focus(p) ==
  /\ Shows(p, "entry") /\ ~page[p].waits
  /\ OnPage(p, IF page[p].w.focus THEN onTextDefaultFocusOut(key, page[p].w) ELSE onTextDefaultFocusIn(page[p].w), FALSE)
EditTree(p) ==
  /\ Shows(p, "tree")
  /\ LET w == page[p].w
     IN \/ \E i \in DOMAIN w.rows : OnPage(p, [w EXCEPT !.sel = i], FALSE)
        \/ w.sel # 0 /\ (OnPage(p, onTreeviewMoveUp(w), TRUE) \/ OnPage(p, onTreeviewMoveDown(w), TRUE)
                          \/ OnPage(p, onTreeviewRemoveText(w), TRUE))
        \/ \E x \in Typed(p) : OnPage(p, onTreeviewAddText(w, x), TRUE)
Reset(p) ==
  /\ page[p] # NoPage /\ HasReset(KeyOf(page[p].slot), page[p].w) /\ KeyOf(page[p].slot).def # <<>>
  /\ \/ /\ ~CannotReset(KeyOf(page[p].slot), page[p].w)
        /\ OnPage(p, PackReset(KeyOf(page[p].slot), page[p].w), TRUE)
     \/ /\ CannotReset(KeyOf(page[p].slot), page[p].w) /\ Step_ /\ up' = FALSE
        /\ UNCHANGED <<confVars, fileVars, rowVars, placeVars, grabVars>>

(***************************************************************************)
(* Save.                                                                   *)
(***************************************************************************)
\* confown.ToVirtual and SaveFile.
ToVirtual(c) == ~enabled /\ ~editor /\ c # "own"
ToFile(c)    == enabled \/ c = "own"
NextDock == 80 + Cardinality(docks)

\* testNewMainDock: an icon that is not detached gets a dock of its own, created
\* before anything is written.
Updated(p) ==
  LET s == page[p].slot
      value == UpdateStorage(KeyOf(s), page[p].w, page[p].copy[s])
  IN  IF KeyOf(s).type # "dock" \/ value # <<NewDock>> THEN {value}
      ELSE {page[p].copy[s]} \cup (IF s = "icon" THEN {<<NextDock>>} ELSE {})

\* Save writes the group of the page in the copy of its file read when it was
\* opened.
Written(p, value) == [page[p].copy EXCEPT ![page[p].slot] = value]

\* WriteFile truncates the file first: a write that fails leaves it as it is, or
\* without the slots that come after the cut.
Failures(p) == IF Many THEN SUBSET DOMAIN page[p].copy ELSE {{}}

\* GuiIcons.Save, ConfCore.Save, Builder.Save and confown.SaveFile.  With an editor
\* the user gets both files, and the configuration is not written.
Save(p) ==
  /\ up /\ saves < MaxSaves /\ page[p] # NoPage /\ saves' = saves + 1
  /\ LET s == page[p].slot
     IN \/ /\ ToVirtual(Conf(s)) /\ UNCHANGED <<fileVars, docks, page, up>>
        \/ /\ ~ToVirtual(Conf(s)) /\ CannotUpdate(KeyOf(s), page[p].w)
           /\ up' = FALSE /\ UNCHANGED <<fileVars, docks, page>>
        \/ /\ ~ToVirtual(Conf(s)) /\ ~CannotUpdate(KeyOf(s), page[p].w)
           /\ \E value \in Updated(p), opened \in (IF Many THEN BOOLEAN ELSE {TRUE}), lost \in Failures(p) :
                LET copy  == Written(p, value)
                    wrote == opened /\ ToFile(Conf(s))
                    done  == wrote /\ lost = {}
                IN /\ docks' = IF value = <<NextDock>> THEN docks \cup {NextDock} ELSE docks
                   /\ page' = [page EXCEPT ![p].copy = copy, ![p].edited = @ /\ ~done]
                   /\ file' = [t \in Slots |-> IF ~wrote \/ t \notin DOMAIN copy THEN file[t]
                                               ELSE IF t \in lost THEN <<>> ELSE copy[t]]
                   /\ broken' = IF wrote THEN (broken \ DOMAIN copy) \cup lost ELSE broken
           /\ UNCHANGED up
  /\ UNCHANGED <<key, enabled, editor, recovers, rowVars, serial, grabVars, steps, events>>

(***************************************************************************)
(* The grab of a window class: a goroutine that waits for a focus.         *)
(***************************************************************************)
Runs(g) == grab[g].step \in {"waits", "closed"}
GrabStart(g, p) ==
  /\ Event /\ grab[g].step = "off" /\ Shows(p, "entry") /\ key.type = "class" /\ ~page[p].waits
  /\ page[p].slot # "own"
  /\ page' = [page EXCEPT ![p].waits = TRUE]
  /\ grab' = [grab EXCEPT ![g] = [step |-> "waits", place |-> p, serial |-> serial[p], class |-> <<>>]]
  /\ winFocusChan' = g
  /\ LET others == {h \in Grabs : Runs(h)}
     IN together' = IF others = {} THEN together
                    ELSE together \cup {<<grab[h].place, grab[h].serial>> : h \in others} \cup {<<p, serial[p]>>}
  /\ UNCHANGED <<confVars, fileVars, rowVars, serial, up>>

\* The rest of GrabWindowClass: the channel closed is that of the last grab, which
\* then reads no window.  Closing no channel panics in the goroutine: GoTry ends the
\* dock, or recovers and the callback that unblocks the entry is never called.
Finish(g, class) ==
  /\ winFocusChan' = Nothing
  /\ LET other == winFocusChan
     IN IF other = Nothing THEN up' = recovers /\ grab' = [grab EXCEPT ![g] = NoGrab]
        ELSE /\ UNCHANGED up
             /\ grab' = IF other = g THEN [grab EXCEPT ![g].step = "done", ![g].class = class]
                        ELSE [grab EXCEPT ![g].step = "done", ![g].class = class, ![other].step = "closed"]

\* onChangeFocus gives the class of the window to the last grab.
FocusChange(x) ==
  /\ up /\ winFocusChan # Nothing /\ Finish(winFocusChan, <<x>>)
  /\ UNCHANGED <<confVars, fileVars, rowVars, placeVars, together, bounds>>
GrabTimeout(g) ==
  /\ up /\ Runs(g) /\ Finish(g, <<>>)
  /\ UNCHANGED <<confVars, fileVars, rowVars, placeVars, together, bounds>>

Asks(g) == page[grab[g].place] # NoPage /\ serial[grab[g].place] = grab[g].serial
Answered(g, class) ==
  LET p == grab[g].place
      w == page[p].w
  IN  [page[p] EXCEPT !.waits = FALSE, !.edited = @ \/ class # <<>>,
                      !.w = IF class = <<>> THEN w ELSE ValueSet(key, w, class)]
\* The callback in the GTK thread: the logger of the key of a freed page is nil.
GrabDone(g) ==
  /\ up /\ grab[g].step = "done"
  /\ grab' = [grab EXCEPT ![g] = NoGrab]
  /\ IF Asks(g) THEN page' = [page EXCEPT ![grab[g].place] = Answered(g, grab[g].class)] /\ UNCHANGED up
     ELSE up' = FALSE /\ UNCHANGED page
  /\ UNCHANGED <<confVars, fileVars, rowVars, serial, winFocusChan, together, bounds>>

Edits(p) ==
  \/ EditValue(p) \/ EditPair(p) \/ EditColor(p) \/ EditChoice(p) \/ EditFont(p)
  \/ EditText(p) \/ EditTree(p) \/ Focus(p) \/ Reset(p)
GuiNext ==
  \/ \E s \in {"taskbar", "icon"} : ShowItems(s) \/ ClickRow(s)
  \/ \E s \in {"core", "own"} : SelectCore(s)
  \/ IconsChange \/ ReloadItems \/ CloseGui \/ Restart
  \/ \E s \in Slots : OutsideUpdates(s)
  \/ \E p \in Places : Edits(p) \/ Save(p)
  \/ \E g \in Grabs : GrabTimeout(g) \/ GrabDone(g) \/ \E p \in Places : GrabStart(g, p)
  \/ \E x \in key.typed : FocusChange(x)

GuiSpec == GuiInit /\ [][GuiNext]_guiVars

(***************************************************************************)
(* Properties.                                                             *)
(***************************************************************************)
\* Values a page gives back as it read them, by the documented formats.
Fits(k, v) ==
  LET inside == \A i \in DOMAIN v : Mini(k) <= v[i] /\ v[i] <= Maxi(k)
      in(list) == Len(v) = 1 /\ v[1] # 0 /\ \E i \in DOMAIN list : v[1] = list[i]
      \* a choice that no other row repeats after it
      at(list) == /\ Len(v) = 1 /\ v[1] \in 0..(Len(list) - 1) /\ list[v[1] + 1] # 0
                  /\ \A i \in DOMAIN list : list[i] = list[v[1] + 1] => i <= v[1] + 1
  IN IF ~k.shown THEN k.type # "password" ELSE
     CASE k.type \in {"bool", "boolCtrl"} -> Len(v) = k.n
       [] k.type \in {"intScale", "intSpin"} -> Len(v) = 1 /\ inside
       [] k.type = "float" -> Len(v) = k.n /\ inside
       [] k.type = "size" -> Len(v) = 2 /\ inside
       [] k.type = "rgb"  -> Len(v) = 3
       [] k.type = "rgba" -> Len(v) = 4
       [] k.type \in {"view", "decorator", "screen", "decoSimple", "decoDefault", "iconsDock", "theme"} ->
            \/ v = <<>> \/ (k.type = "decoDefault" /\ v = <<Custom>>)
            \/ in(k.src) /\ (k.type = "theme" => Len(k.auth) > 2)
       [] k.type \in {"animation", "desktopIcons"} -> v = <<>> \/ in(k.src) \/ (k.type = "desktopIcons" /\ v = <<Custom>>)
       [] k.type = "dock" -> in(k.src)
       [] k.type = "list" -> in(k.auth)
       [] k.type = "listEntry" -> v \notin {<<>>, <<0>>} \/ k.auth = <<>>
       [] k.type \in {"numbered", "ctrlSimple", "ctrlSelect"} -> at(KeyChoices(k))
       [] k.type = "password" -> v = <<>> \/ HelpText(k) # <<>>
       [] OTHER -> TRUE

\* A setting that a save changes is one the user edited on the page, one its widget
\* cannot show, or the choice of a new dock, which every save creates again.  Any
\* other gets the value its page has read (when the file has changed since, the newer
\* one is lost), or is lost by a write that failed: no save makes up a value.
KeepsUntouched ==
  saves' # saves =>
    \A s \in Slots : file'[s] # file[s] =>
      \E p \in Places : /\ page[p] # NoPage /\ s \in DOMAIN page[p].copy
                        /\ \/ file'[s] = page[p].copy[s] \/ s \in broken'
                           \/ /\ s = page[p].slot
                              /\ page[p].edited \/ ~Fits(KeyOf(s), page[p].copy[s]) \/ docks' # docks
SaveKeepsUntouched == [][KeepsUntouched]_guiVars

\* Texts of the rows, and a move that exchanges two of them.
Texts(w) == [i \in DOMAIN w.rows |-> w.rows[i].val]
Exchanged(w, moved, i, j) ==
  /\ moved.sel = j
  /\ Texts(moved) = [Texts(w) EXCEPT ![i] = Texts(w)[j], ![j] = Texts(w)[i]]
\* Moving a row of a sortable list exchanges it with the next one, whatever was
\* added, removed and moved before, as long as the last row was not moved down (its
\* order is then past the number of rows).
MovesByOne ==
  \A p \in Places : page[p] # NoPage /\ page[p].w.kind = "tree" /\ ~page[p].w.slipped =>
    \A i \in DOMAIN page[p].w.rows :
      LET w == [page[p].w EXCEPT !.sel = i]
      IN  /\ i > 1 => Exchanged(w, onTreeviewMoveUp(w), i, i - 1)
          /\ i < Len(w.rows) => Exchanged(w, onTreeviewMoveDown(w), i, i + 1)

\* The help text shown in an empty entry never reaches a file: the entry is marked
\* whatever the order of focus, reset, grab and typing.
HelpTextIsNotSaved ==
  key.type \in {"text", "password", "class"} /\ HelpText(key) # <<>> =>
    \A s \in Slots \ {"own"} : file[s] \notin {HelpText(key), Encrypt(HelpText(key))}

\* The save of the icons page goes to the file of the selected row: a page open at
\* this place is the page of the row, after any reload of the list.
PageIsOfSelection == up /\ page["icons"] # NoPage => page["icons"].slot = selected

\* The entry of a class is blocked while a grab it asked for is running.  Once it
\* is over the entry is free again, after a timeout too: only a grab that ran
\* together with another one may leave it blocked for good.
BlockedWhileGrabbed ==
  up => \A p \in Places : page[p] # NoPage =>
          LET asked == \E g \in Grabs : grab[g].step # "off" /\ grab[g].place = p /\ grab[g].serial = serial[p]
          IN  /\ asked => page[p].waits
              /\ page[p].waits => asked \/ <<p, serial[p]>> \in together
===============================================================================
