------------------------------ MODULE ConfWidgets ------------------------------
(***************************************************************************)
(* The widgets of the configuration pages (widgets/cfbuild/cfwidget): what *)
(* each kind shows of a value, what it gives back, and the callbacks that  *)
(* change it.                                                              *)
(*                                                                         *)
(* A value is the sequence of the elements the key file holds, <<>> when   *)
(* empty; a text is a number, 0 the empty one, a boolean 0 or 1.  A key is *)
(* a record: type, n (NbElements), auth (AuthorizedValues), src (the       *)
(* choices its data source lists), def (the value of the default file) and *)
(* shown (DisplayMode).  A widget is a record with the fields its kind     *)
(* needs, and NoWidget when no getValue was packed.                        *)
(***************************************************************************)
EXTENDS Integers, Sequences, FiniteSets

NoWidget == [kind |-> "none"]
NewDock  == 90              \* datatype.KeyNewDock
MainDock == 91              \* datatype.KeyMainDock
Custom   == 92              \* an entry a list puts before those of its source
Cipher   == 100             \* Encrypt adds it to a text
MaxSpin  == 9999

Elem(v, i)     == IF i <= Len(v) THEN v[i] ELSE 0
Mini(k)        == IF Len(k.auth) > 0 THEN k.auth[1] ELSE 0
Maxi(k)        == IF Len(k.auth) > 1 THEN k.auth[2] ELSE MaxSpin
Bound(k, x)    == IF x < Mini(k) THEN Mini(k) ELSE IF x > Maxi(k) THEN Maxi(k) ELSE x
\* fillModelWithFields: the last match is selected, 0 for none.
Selected(list, x) ==
  LET at == {i \in DOMAIN list : list[i] = x}
  IN  IF at = {} THEN 0 ELSE CHOOSE i \in at : \A j \in at : j <= i
SelectRow(list, v) == IF v = <<>> THEN Selected(list, 0) ELSE Selected(list, v[1])

(***************************************************************************)
(* Build: the widget of a key for the value of the storage.                *)
(***************************************************************************)
CheckButton(k, v) == [kind |-> "values", vals |-> [i \in 1..k.n |-> Elem(v, i)], min |-> 0, max |-> 1]

IntegerScale(k, v) == [kind |-> "values", vals |-> <<Bound(k, Elem(v, 1))>>, min |-> Mini(k), max |-> Maxi(k)]
IntegerSpin(k, v)  == IntegerScale(k, v)

\* A pair of values, linked by the toggle when they are equal in the file.
IntegerSize(k, v) ==
  [kind |-> "pair", vals |-> [i \in 1..2 |-> Bound(k, Elem(v, i))], linked |-> Elem(v, 1) = Elem(v, 2)]

Float(k, v) ==
  [kind |-> "values", vals |-> [i \in 1..k.n |-> Bound(k, Elem(v, i))], min |-> Mini(k), max |-> Maxi(k)]

\* Three values are completed with an opaque alpha, missing ones are zero.
ColorSelector(k, v) ==
  LET rgba == IF Len(v) = 3 THEN Append(v, 1) ELSE v
  IN  [kind |-> "color", vals |-> [i \in 1..4 |-> Elem(rgba, i)]]

Combo(list, v)         == [kind |-> "combo", list |-> list, active |-> SelectRow(list, v)]
ListThemeApplet(k, v)  == Combo(IF Len(k.auth) > 2 THEN k.src ELSE <<>>, v)
ListView(k, v)         == Combo(k.src, v)
ListIconsMainDock(k, v) == Combo(k.src, v)
ListThemeDesktopIcon(k, v) == Combo(<<0, Custom>> \o k.src, v)
ListAnimation(k, v)    == Combo(<<0>> \o k.src, v)
ListDialogDecorator(k, v) == Combo(k.src, v)
ListDeskletDecoration(k, v) ==
  Combo(IF k.type = "decoDefault" THEN <<Custom>> \o k.src ELSE k.src, v)
ListScreens(k, v)      == Combo(k.src, v)
\* A value that is empty means the main dock; a new dock can be chosen.
ListDock(k, v)         == Combo(Append(k.src, NewDock), IF v = <<>> THEN <<MainDock>> ELSE v)

Numbered(k)  == k.type \in {"numbered", "ctrlSimple", "ctrlSelect"}
Step(k)      == IF k.type = "ctrlSelect" THEN 3 ELSE 1
KeyChoices(k) == [i \in 1..((Len(k.auth) + Step(k) - 1) \div Step(k)) |-> k.auth[(i - 1) * Step(k) + 1]]
\* The index is tested against the number of fields, not of choices.
PastChoices(k, v) ==
  /\ k.type = "ctrlSelect" /\ v # <<>>
  /\ v[1] >= 0 /\ v[1] < Len(k.auth) /\ v[1] * Step(k) >= Len(k.auth)
\* The text of the current choice, of the first one when it is not in the list.
Lists(k, v) ==
  LET named == IF Numbered(k)
                 THEN IF v # <<>> /\ v[1] \in 0..(Len(k.auth) - 1) THEN <<k.auth[v[1] * Step(k) + 1]>> ELSE <<>>
                 ELSE IF k.type = "listEntry" \/ (v # <<>> /\ Selected(k.auth, v[1]) # 0) THEN v ELSE <<>>
      current == IF named \in {<<>>, <<0>>} /\ k.auth # <<>> THEN <<k.auth[1]>> ELSE named
      combo == Combo(KeyChoices(k), current)
  IN  IF k.type \in {"ctrlSimple", "ctrlSelect"} /\ k.auth = <<>> THEN NoWidget
      ELSE IF k.type = "listEntry" THEN [kind |-> "entry", text |-> current, isDefault |-> FALSE, focus |-> FALSE]
      ELSE IF Numbered(k) THEN [combo EXCEPT !.kind = "numbered"] ELSE combo

\* Rows of a list store sorted by order; row 0 is no selection.  The list of
\* choices is not implemented: no value is packed for it.
Rows(v) == [i \in DOMAIN v |-> [order |-> i - 1, val |-> v[i]]]
TreeView(k, v) ==
  IF k.type = "multiChoice" THEN NoWidget
  ELSE [kind |-> "tree", rows |-> Rows(v), sel |-> 0, slipped |-> FALSE]

FontSelector(k, v) == [kind |-> "font", text |-> v]
Link(k, v) == [kind |-> "font", text |-> IF Len(k.auth) > 1 THEN <<k.auth[2]>> ELSE v]

\* onTextDefaultFocusOut: with the handler of changes blocked, an empty text is
\* replaced by the default one, marked to be ignored.  The entry of a list has no
\* such text.
HelpText(k) == IF k.type = "listEntry" \/ k.auth = <<>> \/ k.auth[1] = 0 THEN <<>> ELSE <<k.auth[1]>>
HelpTextIsTyped(k, w) ==    \* for a mutant run: the handler of changes is not blocked
  [w EXCEPT !.focus = FALSE, !.isDefault = FALSE, !.text = IF w.text = <<>> THEN HelpText(k) ELSE w.text]
onTextDefaultFocusOut(k, w) ==
  IF HelpText(k) = <<>> THEN [w EXCEPT !.focus = FALSE]
  ELSE [w EXCEPT !.focus = FALSE, !.isDefault = (w.text = <<>>),
                 !.text = IF w.text = <<>> THEN HelpText(k) ELSE w.text]
onTextDefaultFocusIn(w) ==
  [w EXCEPT !.focus = TRUE, !.text = IF w.isDefault THEN <<>> ELSE w.text]
onTextDefaultChanged(w, v) == [w EXCEPT !.text = v, !.isDefault = FALSE]
Decrypt(v) == [i \in DOMAIN v |-> v[i] - Cipher]
Encrypt(v) == [i \in DOMAIN v |-> v[i] + Cipher]
\* The decrypted password reaches the entry only through a default text.
Strings(k, v) ==
  LET entry(t) == [kind |-> "entry", text |-> t, isDefault |-> FALSE, focus |-> FALSE]
      clear == IF k.type = "password" THEN Decrypt(v) ELSE v
  IN  IF HelpText(k) = <<>> THEN entry(v) ELSE onTextDefaultFocusOut(k, entry(clear))

Handbook(k, v) == IF k.src = <<>> THEN NoWidget ELSE [kind |-> "font", text |-> v]
\* Frames, labels, separators, buttons, empty boxes.
Frame(k, v) == NoWidget

\* buildKey, with the table of Types: a key of another display mode is dropped.
Maker(k, v) ==
  CASE k.type \in {"bool", "boolCtrl"}        -> CheckButton(k, v)
    [] k.type = "intScale"                    -> IntegerScale(k, v)
    [] k.type = "intSpin"                     -> IntegerSpin(k, v)
    [] k.type = "size"                        -> IntegerSize(k, v)
    [] k.type = "float"                       -> Float(k, v)
    [] k.type \in {"rgb", "rgba"}             -> ColorSelector(k, v)
    [] k.type = "theme"                       -> ListThemeApplet(k, v)
    [] k.type = "view"                        -> ListView(k, v)
    [] k.type = "desktopIcons"                -> ListThemeDesktopIcon(k, v)
    [] k.type = "animation"                   -> ListAnimation(k, v)
    [] k.type = "decorator"                   -> ListDialogDecorator(k, v)
    [] k.type \in {"decoSimple", "decoDefault"} -> ListDeskletDecoration(k, v)
    [] k.type = "screen"                      -> ListScreens(k, v)
    [] k.type = "dock"                        -> ListDock(k, v)
    [] k.type = "iconsDock"                   -> ListIconsMainDock(k, v)
    [] k.type \in {"list", "listEntry", "numbered", "ctrlSimple", "ctrlSelect"} -> Lists(k, v)
    [] k.type \in {"tree", "multiChoice"}     -> TreeView(k, v)
    [] k.type = "font"                        -> FontSelector(k, v)
    [] k.type = "link"                        -> Link(k, v)
    [] k.type \in {"text", "password", "class", "shortkey"} -> Strings(k, v)
    [] k.type = "handbook"                    -> Handbook(k, v)
    [] OTHER                                  -> Frame(k, v)
buildKey(k, v) == IF k.shown THEN Maker(k, v) ELSE NoWidget

(***************************************************************************)
(* Value, ValueSet and UpdateStorage of a key.                             *)
(***************************************************************************)
Value(k, w) ==
  CASE w.kind \in {"values", "pair"} -> w.vals
    [] w.kind = "color"    -> SubSeq(w.vals, 1, IF k.type = "rgb" THEN 3 ELSE 4)
    [] w.kind = "combo"    -> IF w.active = 0 \/ w.list[w.active] = 0 THEN <<>> ELSE <<w.list[w.active]>>
    [] w.kind = "numbered" -> <<w.active - 1>>
    [] w.kind = "tree"     -> [i \in DOMAIN w.rows |-> w.rows[i].val]
    [] w.kind = "entry"    -> IF w.isDefault THEN <<>> ELSE w.text
    [] w.kind = "font"     -> w.text

\* The handlers that link a pair are blocked while it is set.
SetPair(k, w, v) ==
  [w EXCEPT !.vals = [i \in 1..2 |-> Bound(k, IF Len(v) < 2 THEN 0 ELSE v[i])],
            !.linked = (Len(v) < 2 \/ v[1] = v[2])]
\* As called by the reset buttons and the grab of a class.
ValueSet(k, w, v) ==
  CASE w.kind = "values" -> [w EXCEPT !.vals = [i \in DOMAIN w.vals |-> Bound(k, Elem(v, i))]]
    [] w.kind = "pair"   -> SetPair(k, w, v)
    [] w.kind = "color"  -> [w EXCEPT !.vals = [i \in 1..4 |-> Elem(v, i)]]
    [] w.kind = "entry"  -> IF HelpText(k) = <<>> THEN [w EXCEPT !.text = v]
                            ELSE onTextDefaultFocusOut(k, onTextDefaultChanged(w, v))

\* PackReset: a button that sets the value of the default file.
HasReset(k, w) == w.kind \in {"pair", "color"} \/ (w.kind = "values" /\ k.type \in {"intScale", "intSpin", "float"})
PackReset(k, w) == ValueSet(k, w, k.def)
\* listValuerSet: several values are set from a default that has too few.
CannotReset(k, w) == w.kind = "values" /\ Len(w.vals) > 1 /\ Len(k.def) < Len(w.vals)

\* The types whose value is a text, taken from the storage without a widget, and
\* those that are not saved; the others call the nil getValue.
TextTypes == {"text", "password", "class", "shortkey", "font", "list", "listEntry", "theme", "view",
              "desktopIcons", "animation", "decorator", "decoSimple", "decoDefault", "screen", "iconsDock"}
Unsaved   == {"link", "handbook", "label", "frame", "launch"}
CannotUpdate(k, w) == w = NoWidget /\ k.type \notin TextTypes \cup Unsaved \cup {"dock"}
UpdateStorage(k, w, stored) ==
  LET value == IF w = NoWidget THEN stored ELSE Value(k, w)
  IN  IF k.type \in Unsaved THEN stored
      ELSE IF k.type = "password" THEN Encrypt(value) ELSE value

(***************************************************************************)
(* What the user does to a widget.                                         *)
(***************************************************************************)
\* onValuePairChanged: a linked value follows the one that changed.
onValuePairChanged(w, i, x) ==
  [w EXCEPT !.vals = IF w.linked THEN <<x, x>> ELSE [w.vals EXCEPT ![i] = x]]

\* The list store moves a row whose order changed, after the rows of a lower or
\* equal order, unless a neighbour has the same.
Sorted(rows, i) ==
  LET r == rows[i]
      others == SubSeq(rows, 1, i - 1) \o SubSeq(rows, i + 1, Len(rows))
      before == Cardinality({j \in DOMAIN others : others[j].order <= r.order})
  IN  IF \E j \in DOMAIN rows : j \in {i - 1, i + 1} /\ rows[j].order = r.order THEN [rows |-> rows, at |-> i]
      ELSE [rows |-> SubSeq(others, 1, before) \o <<r>> \o SubSeq(others, before + 1, Len(others)),
            at |-> before + 1]
SetOrder(rows, i, order) == Sorted([rows EXCEPT ![i] = [order |-> order, val |-> rows[i].val]], i)

\* SetOrder of the selected row, then of the row at distance d from it.
Swap(w, order, d) ==
  LET one  == SetOrder(w.rows, w.sel, order)
      next == one.at + d
      two  == SetOrder(one.rows, next, w.rows[w.sel].order)
      new  == one.at + (IF d = 1 /\ two.at <= one.at THEN 1 ELSE IF d = -1 /\ two.at >= one.at THEN -1 ELSE 0)
  IN  IF next \notin DOMAIN w.rows THEN [w EXCEPT !.rows = one.rows, !.sel = one.at]
      ELSE [w EXCEPT !.rows = two.rows, !.sel = new]

onTreeviewMoveUp(w) == Swap(w, w.rows[w.sel].order - 1, -1)

\* The last row passes the test of its position and gets an order of its own.
onTreeviewMoveDown(w) ==
  LET order == w.rows[w.sel].order
  IN  IF order >= Len(w.rows) THEN w
      ELSE [Swap(w, order + 1, 1) EXCEPT !.slipped = w.slipped \/ w.sel = Len(w.rows)]

onTreeviewAddText(w, x) ==
  LET added == Sorted(Append(w.rows, [order |-> Len(w.rows), val |-> x]), Len(w.rows) + 1)
  IN  [w EXCEPT !.rows = added.rows, !.sel = added.at]

RemovedOnly(w) ==           \* for a mutant run: the orders keep a gap
  [w EXCEPT !.sel = 0, !.rows = SubSeq(w.rows, 1, w.sel - 1) \o SubSeq(w.rows, w.sel + 1, Len(w.rows))]

onTreeviewRemoveText(w) ==
  LET gone == w.rows[w.sel].order
      rest == SubSeq(w.rows, 1, w.sel - 1) \o SubSeq(w.rows, w.sel + 1, Len(w.rows))
  IN  [w EXCEPT !.sel = 0, !.rows = [i \in DOMAIN rest |->
         [order |-> IF rest[i].order > gone THEN rest[i].order - 1 ELSE rest[i].order, val |-> rest[i].val]]]
===============================================================================
