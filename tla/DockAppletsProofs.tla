--------------------------- MODULE DockAppletsProofs ---------------------------
(***************************************************************************)
(* Proofs about the dock.  DockApplets, for any modules, addresses and     *)
(* bounds: the calls to draw are run once and in order, the focus events   *)
(* of an applet come in pairs, and the dock and the applets agree on their *)
(* sub-icons.  DockMenus, for any icons, desktops and dialogs: the dialog  *)
(* on the screen is the known one, and an answer removes what it was asked.*)
(***************************************************************************)
EXTENDS DockApplets, DockMenus, FiniteSetTheorems, TLAPS

Calls == [inst : Insts, sub : Nat]

(***************************************************************************)
(* Facts about sequences.                                                  *)
(***************************************************************************)
LEMMA AppendMoves ==
  ASSUME NEW a \in Seq(Calls), NEW b \in Seq(Calls), NEW c \in Seq(Calls), NEW x \in Calls
  PROVE  Append(a \o b \o c, x) = a \o b \o Append(c, x)
BY SMTT(30)

LEMMA HeadMoves ==
  ASSUME NEW a \in Seq(Calls), NEW b \in Seq(Calls), NEW c \in Seq(Calls), b # <<>>
  PROVE  /\ Head(b) \in Calls /\ Tail(b) \in Seq(Calls)
         /\ Append(a, Head(b)) \o Tail(b) \o c = a \o b \o c
BY SMTT(30)

LEMMA TakeMoves ==
  ASSUME NEW a \in Seq(Calls), NEW c \in Seq(Calls)
  PROVE  a \o c \o <<>> = a \o <<>> \o c
BY SMTT(30)

LEMMA AppendWaits ==
  ASSUME NEW c \in Seq(Calls), NEW x \in Calls
  PROVE  Waits(x, Append(c, x)) /\ \A call : Waits(call, c) => Waits(call, Append(c, x))
<1>1. Len(c) + 1 \in DOMAIN Append(c, x) /\ Append(c, x)[Len(c) + 1] = x
  OBVIOUS
<1>2. \A n \in DOMAIN c : n \in DOMAIN Append(c, x) /\ Append(c, x)[n] = c[n]
  OBVIOUS
<1>3. QED BY <1>1, <1>2 DEF Waits

LEMMA AppendedWaits ==
  ASSUME NEW c \in Seq(Calls), NEW x \in Calls
  PROVE  \A call : Waits(call, Append(c, x)) => Waits(call, c) \/ call = x
<1>1. \A n \in DOMAIN Append(c, x) : n \in DOMAIN c \/ n = Len(c) + 1
  OBVIOUS
<1>2. \A n \in DOMAIN c : Append(c, x)[n] = c[n]
  OBVIOUS
<1>3. Append(c, x)[Len(c) + 1] = x
  OBVIOUS
<1>4. QED BY <1>1, <1>2, <1>3 DEF Waits

LEMMA WaitsBefore ==
  ASSUME NEW c \in Seq(Calls), c # <<>>, NEW call, Waits(call, Tail(c))
  PROVE  Waits(call, c)
<1>1. PICK n \in DOMAIN Tail(c) : Tail(c)[n] = call
  BY DEF Waits
<1>2. n + 1 \in DOMAIN c /\ c[n + 1] = Tail(c)[n]
  BY <1>1
<1>3. QED BY <1>1, <1>2 DEF Waits

LEMMA TailWaits ==
  ASSUME NEW c \in Seq(Calls), c # <<>>, NEW call, Waits(call, c), call # Head(c)
  PROVE  Waits(call, Tail(c))
<1>1. PICK n \in DOMAIN c : c[n] = call
  BY DEF Waits
<1>2. n # 1 /\ n \in 1..Len(c) /\ Len(c) \in Nat
  BY <1>1
<1>3. n - 1 \in DOMAIN Tail(c) /\ Tail(c)[n - 1] = c[n]
  BY <1>2
<1>4. QED BY <1>1, <1>3 DEF Waits

(***************************************************************************)
(* Types and order of the calls: a list is taken when the last is run.     *)
(***************************************************************************)
CInv ==
  /\ idleDraw \in Seq(Calls) /\ todraw \in Seq(Calls) /\ ran \in Seq(Calls) /\ added \in Seq(Calls)
  /\ pc # "run" => todraw = <<>>
  /\ CallsKeepTheirOrder

LEMMA NextCInv == CInv /\ [Next]_vars => CInv'
<1> SUFFICES ASSUME CInv, [Next]_vars PROVE CInv'
  OBVIOUS
<1> USE DEF CInv, CallsKeepTheirOrder, tableVars, focusVars, idleVars, flushVars, subVars
<1>1. ASSUME NEW call \in Calls, addIdle(call), UNCHANGED flushVars PROVE CInv'
  <2>1. /\ idleDraw' = Append(idleDraw, call) /\ added' = Append(added, call)
        /\ ran' = ran /\ todraw' = todraw /\ pc' = pc
    BY <1>1 DEF addIdle
  <2>2. added' = ran' \o todraw' \o idleDraw'
    BY <2>1, AppendMoves, ZenonT(30)
  <2>3. idleDraw' \in Seq(Calls) /\ added' \in Seq(Calls)
    BY <1>1, <2>1
  <2>4. QED BY <2>1, <2>2, <2>3
<1>2. CASE UNCHANGED <<idleDraw, todraw, ran, added, pc>>
  BY <1>2
<1>3. ASSUME NEW i \in Insts, Draw(i) PROVE CInv'
  <2>1. Sub(i, 0) \in Calls
    BY DEF Calls, Sub
  <2>2. QED BY <1>1, <1>3, <2>1 DEF Draw
<1>4. ASSUME NEW i \in Insts, AddSubIcon(i) PROVE CInv'
  <2>1. Sub(i, Len(added) + 1) \in Calls
    BY DEF Calls, Sub
  <2>2. QED BY <1>1, <1>4, <2>1 DEF AddSubIcon
<1>5. CASE CallIdle   BY <1>5 DEF CallIdle, InLoop
<1>6. CASE Test       BY <1>6 DEF Test
<1>7. CASE Take       BY <1>7, TakeMoves DEF Take
<1>8. CASE RunCall    BY <1>8, HeadMoves DEF RunCall
<1>9. CASE RunEnd     BY <1>9 DEF RunEnd
<1>10. CASE ClearRun  BY <1>10 DEF ClearRun
<1>11. QED
  BY <1>2, <1>3, <1>4, <1>5, <1>6, <1>7, <1>8, <1>9, <1>10
  DEF Next, Flush, vars, StopApplet, StartApplet, TableWritten, OnChangeFocus, Tick, Plop, RemoveSubIcon, RemoveSubIcons, ActionEnds

\* No call to draw is lost, run twice or overtaken, whatever goroutines add calls
\* while the main loop flushes the list (addIdle, callIdle).
THEOREM OrderOfCalls == Spec => []CallsKeepTheirOrder
<1>1. Init => CInv
  BY DEF Init, CInv, CallsKeepTheirOrder
<1>2. CInv => CallsKeepTheirOrder
  BY DEF CInv
<1>3. QED
  BY <1>1, <1>2, NextCInv, PTL DEF Spec

(***************************************************************************)
(* Applets: an instance keeps the address of its icon, two icons that live *)
(* have different addresses, and the table knows instances that live.      *)
(***************************************************************************)
AInv ==
  /\ starts \in Nat /\ starts <= MaxStarts /\ freed \subseteq 1..starts
  /\ module \in [Apps -> {None} \cup 1..starts]
  /\ \A a \in Apps : module[a] # None => module[a] \notin freed
  /\ \A a, b \in Apps : module[a] = module[b] /\ module[a] # None => a = b
  /\ icon \in [Insts -> Addrs \cup {None}] /\ \A i \in 1..starts : icon[i] \in Addrs
  /\ \A i, j \in (1..starts) \ freed : icon[i] = icon[j] => i = j
  /\ actives \in [Addrs -> {None} \cup 1..starts]
  /\ \A x \in Addrs : actives[x] # None => actives[x] \notin freed /\ icon[actives[x]] = x

LEMMA NextAInv == AInv /\ [Next]_vars => AInv'
<1> SUFFICES ASSUME AInv, [Next]_vars PROVE AInv'
  OBVIOUS
<1> USE DockAssumption DEF tableVars, focusVars, idleVars, flushVars, subVars, None
<1>1. ASSUME NEW a \in Apps, NEW x \in Addrs, NEW ok \in BOOLEAN, StartApplet(a, x, ok) PROVE AInv'
  <2> DEFINE i == starts + 1
  <2>1. /\ i \in Nat /\ i <= MaxStarts /\ i \in Insts /\ starts' = i /\ freed' = freed
        /\ module' = [module EXCEPT ![a] = i] /\ icon' = [icon EXCEPT ![i] = x]
        /\ x \notin Icons /\ i \notin 1..starts /\ 1..i = 1..starts \cup {i} /\ 1..starts \subseteq Insts
    BY <1>1 DEF StartApplet, AInv, Insts
  <2>2. \A j \in (1..starts) \ freed : icon[j] # x
    BY <2>1 DEF Icons, Live
  <2>3. \A j \in 1..starts : icon'[j] = icon[j]
    BY <2>1 DEF AInv
  <2>4. icon'[i] = x /\ icon' \in [Insts -> Addrs \cup {None}]
    BY <2>1 DEF AInv
  <2>5. actives' = [actives EXCEPT ![x] = i] \/ actives' = actives
    BY <1>1 DEF StartApplet
  <2> HIDE DEF i
  <2>6. module' \in [Apps -> {None} \cup 1..starts'] /\ freed' \subseteq 1..starts'
    BY <2>1 DEF AInv
  <2>7. \A b \in Apps : module'[b] # None => module'[b] \notin freed'
    BY <2>1 DEF AInv
  <2>14. \A b, c \in Apps : module'[b] = module'[c] /\ module'[b] # None => b = c
    <3>1. \A b \in Apps : module[b] # i
      BY <2>1 DEF AInv
    <3>2. QED BY <2>1, <3>1 DEF AInv
  <2>8. \A j, k \in (1..starts') \ freed' : icon'[j] = icon'[k] => j = k
    <3> SUFFICES ASSUME NEW j \in (1..starts') \ freed', NEW k \in (1..starts') \ freed', icon'[j] = icon'[k]
                 PROVE  j = k
      OBVIOUS
    <3>1. CASE j \in 1..starts /\ k \in 1..starts
      BY <2>1, <2>3, <3>1 DEF AInv
    <3>2. CASE j = i /\ k \in 1..starts
      BY <2>1, <2>2, <2>3, <2>4, <3>2
    <3>3. CASE k = i /\ j \in 1..starts
      BY <2>1, <2>2, <2>3, <2>4, <3>3
    <3>4. QED BY <2>1, <3>1, <3>2, <3>3
  <2>9. actives' \in [Addrs -> {None} \cup 1..starts']
    BY <2>1, <2>5 DEF AInv
  <2>10. i \notin freed
    BY <2>1 DEF AInv
  <2>11. ASSUME NEW y \in Addrs, actives'[y] # None
         PROVE  actives'[y] \notin freed' /\ icon'[actives'[y]] = y
    <3>1. CASE actives'[y] = actives[y]
      BY <2>1, <2>3, <2>11, <3>1 DEF AInv
    <3>2. CASE actives'[y] # actives[y]
      <4>1. y = x /\ actives'[y] = i
        BY <2>5, <3>2 DEF AInv
      <4>2. QED BY <2>1, <2>4, <2>10, <4>1
    <3>3. QED BY <3>1, <3>2
  <2>12. \A j \in 1..starts' : icon'[j] \in Addrs
    BY <2>1, <2>3, <2>4 DEF AInv
  <2>13. QED BY <2>1, <2>4, <2>6, <2>7, <2>8, <2>9, <2>11, <2>12, <2>14 DEF AInv
<1>2. ASSUME NEW a \in Apps, StopApplet(a) PROVE AInv'
  <2> DEFINE i == module[a]
  <2>1. /\ i \in 1..starts /\ i \notin freed /\ freed' = freed \cup {i} /\ icon' = icon /\ starts' = starts
        /\ module' = [module EXCEPT ![a] = None] /\ actives' = [actives EXCEPT ![icon[i]] = None]
        /\ icon[i] \in Addrs
    BY <1>2 DEF StopApplet, AInv
  <2>2. i # None
    BY <1>2 DEF StopApplet
  <2> HIDE DEF i
  <2>3. /\ starts' \in Nat /\ starts' <= MaxStarts /\ freed' \subseteq 1..starts'
        /\ module' \in [Apps -> {None} \cup 1..starts']
        /\ icon' \in [Insts -> Addrs \cup {None}] /\ \A j \in 1..starts' : icon'[j] \in Addrs
        /\ \A j, k \in (1..starts') \ freed' : icon'[j] = icon'[k] => j = k
    BY <2>1 DEF AInv
  <2>4. \A b, c \in Apps : module'[b] = module'[c] /\ module'[b] # None => b = c
    BY <2>1 DEF AInv
  <2>5. ASSUME NEW b \in Apps, module'[b] # None PROVE module'[b] \notin freed'
    <3>1. module'[b] = module[b] /\ b # a
      BY <2>1, <2>5 DEF AInv
    <3>2. module[b] # i
      BY <2>2, <3>1 DEF AInv, i
    <3>3. QED BY <2>1, <2>5, <3>1, <3>2 DEF AInv
  <2>6. actives' \in [Addrs -> {None} \cup 1..starts']
    BY <2>1 DEF AInv
  <2>7. ASSUME NEW y \in Addrs, actives'[y] # None
        PROVE  actives'[y] \notin freed' /\ icon'[actives'[y]] = y
    <3>1. y # icon[i] /\ actives'[y] = actives[y]
      BY <2>1, <2>7 DEF AInv
    <3>2. QED BY <2>1, <2>7, <3>1 DEF AInv
  <2>8. QED BY <2>3, <2>4, <2>5, <2>6, <2>7 DEF AInv
<1>3. CASE UNCHANGED <<module, icon, freed, actives, starts>>
  BY <1>3 DEF AInv
<1>4. QED
  BY <1>1, <1>2, <1>3
  DEF Next, Flush, vars, TableWritten, OnChangeFocus, Tick, Plop, Draw, AddSubIcon, RemoveSubIcon, RemoveSubIcons,
      ActionEnds,
      CallIdle, Test, Take, RunCall, RunEnd, ClearRun

LEMMA InitAInv == Init => AInv
BY DockAssumption DEF Init, AInv, None

(***************************************************************************)
(* Focus: apart from instances whose address was that of an icon freed     *)
(* before, an applet of the table has the focus when the manager says so.  *)
(***************************************************************************)
Excused(i) == \E j \in freed : j < i /\ icon[j] = icon[i]

FInv ==
  /\ got \in [Insts -> BOOLEAN] /\ \A i \in Insts : got[i] => i <= starts
  /\ unpaired \subseteq 1..starts /\ FocusIsPaired
  /\ activeIcon \in Addrs \cup {None}
  /\ activeIcon # None => \E j \in 1..starts : icon[j] = activeIcon
  /\ \A x \in Addrs : actives[x] # None /\ ~Excused(actives[x]) => (got[actives[x]] <=> activeIcon = x)

LEMMA StartFInv ==
  ASSUME AInv, FInv, NEW a \in Apps, NEW x \in Addrs, NEW ok \in BOOLEAN, StartApplet(a, x, ok)
  PROVE  FInv'
<1> USE DockAssumption DEF None
<1> DEFINE i == starts + 1
<1>1. /\ i \in Insts /\ starts' = i /\ freed' = freed /\ icon' = [icon EXCEPT ![i] = x] /\ x \notin Icons
      /\ starts \in Nat /\ 1..starts \subseteq Insts /\ 1..starts \subseteq 1..i /\ freed \subseteq 1..starts
      /\ got' = got /\ activeIcon' = activeIcon /\ unpaired' = unpaired
  BY DEF StartApplet, AInv, focusVars, Insts
<1>2. actives' = [actives EXCEPT ![x] = i] \/ actives' = actives
  BY DEF StartApplet
<1>3. \A j \in 1..starts : icon'[j] = icon[j]
  BY <1>1 DEF AInv
<1>4. icon'[i] = x
  BY <1>1 DEF AInv
<1>5. \A k \in 1..starts : Excused(k)' <=> Excused(k)
  BY <1>1, <1>3 DEF Excused
<1>6. \A k \in unpaired : Excused(k)
  BY DEF FInv, FocusIsPaired, Excused
<1>7. \A k \in unpaired' : Excused(k)'
  BY <1>1, <1>5, <1>6 DEF FInv
<1>8. activeIcon' # None => \E j \in 1..starts' : icon'[j] = activeIcon'
  BY <1>1, <1>3 DEF FInv
<1>9. ASSUME NEW y \in Addrs, actives'[y] # None, ~Excused(actives[y])'
      PROVE  got'[actives'[y]] <=> activeIcon' = y
  <2>1. CASE actives'[y] = actives[y]
    <3>1. actives[y] \in 1..starts
      BY <1>9, <2>1 DEF AInv
    <3>2. ~Excused(actives[y])
      BY <1>5, <1>9, <2>1, <3>1
    <3>3. QED BY <1>1, <1>9, <2>1, <3>2 DEF FInv
  <2>2. CASE actives'[y] # actives[y]
    <3>1. y = x /\ actives'[y] = i
      BY <1>2, <2>2 DEF AInv
    <3>2. ~got[i]
      BY <1>1 DEF FInv
    <3>3. \A j \in freed : icon[j] # x
      BY <1>1, <1>3, <1>4, <1>9, <3>1 DEF Excused
    <3>4. \A j \in 1..starts : icon[j] # x
      BY <1>1, <3>3 DEF Icons, Live
    <3>5. activeIcon # x
      BY <1>1, <3>4 DEF FInv
    <3>6. QED BY <1>1, <3>1, <3>2, <3>5
  <2>3. QED BY <2>1, <2>2
<1>10. /\ got' \in [Insts -> BOOLEAN] /\ \A k \in Insts : got'[k] => k <= starts'
       /\ unpaired' \subseteq 1..starts' /\ activeIcon' \in Addrs \cup {None}
  BY <1>1 DEF FInv, Insts
<1>11. FocusIsPaired'
  BY <1>7 DEF FocusIsPaired, Excused
<1>12. QED BY <1>8, <1>9, <1>10, <1>11 DEF FInv

LEMMA StopFInv ==
  ASSUME AInv, FInv, NEW a \in Apps, StopApplet(a)
  PROVE  FInv'
<1> USE DockAssumption DEF None
<1>1. /\ icon' = icon /\ starts' = starts /\ freed \subseteq freed'
      /\ got' = got /\ activeIcon' = activeIcon /\ unpaired' = unpaired
      /\ actives' = [actives EXCEPT ![icon[module[a]]] = None]
  BY DEF StopApplet, focusVars
<1>2. \A k : Excused(k) => Excused(k)'
  BY <1>1 DEF Excused
<1>3. ASSUME NEW y \in Addrs, actives'[y] # None, ~Excused(actives[y])'
      PROVE  got'[actives'[y]] <=> activeIcon' = y
  <2>1. actives'[y] = actives[y]
    BY <1>1, <1>3 DEF AInv
  <2>2. ~Excused(actives[y])
    BY <1>1, <1>3, <2>1 DEF Excused
  <2>3. QED BY <1>1, <1>3, <2>1, <2>2 DEF FInv
<1>4. FocusIsPaired'
  BY <1>1 DEF FInv, FocusIsPaired
<1>5. QED BY <1>1, <1>3, <1>4 DEF FInv

\* Addresses the table knows have instances of their own.
LEMMA ActivesDiffer ==
  ASSUME AInv, NEW x \in Addrs, NEW y \in Addrs, x # y, actives[y] # None
  PROVE  actives[y] \in Insts /\ actives[y] \in 1..starts /\ actives[x] # actives[y]
BY DockAssumption DEF AInv, Insts, None

LEMMA FocusFInv ==
  ASSUME AInv, FInv, NEW x \in Addrs \cup {None}, OnChangeFocus(x)
  PROVE  FInv'
<1> USE DockAssumption DEF None
<1> DEFINE lost == IF activeIcon = None THEN [got |-> got, bad |-> unpaired]
                   ELSE Sent(got, unpaired, activeIcon, FALSE)
           gain == IF x = None THEN lost ELSE Sent(lost.got, lost.bad, x, TRUE)
<1>1. /\ got' = gain.got /\ unpaired' = gain.bad /\ activeIcon' = x /\ x \in Icons \cup {None}
      /\ UNCHANGED <<icon, freed, actives, starts>>
  BY DEF OnChangeFocus, Reset, tableVars
<1>2. \A k : Excused(k)' <=> Excused(k)
  BY <1>1 DEF Excused
<1>3. \A k \in unpaired : k \in 1..starts /\ Excused(k)
  BY DEF FInv, FocusIsPaired, Excused
<1>4. /\ lost.got \in [Insts -> BOOLEAN]
      /\ \A k \in lost.bad : k \in 1..starts /\ Excused(k)
      /\ \A y \in Addrs : actives[y] # None /\ ~Excused(actives[y]) => ~lost.got[actives[y]]
  <2>1. CASE activeIcon = None
    BY <1>3, <2>1 DEF FInv
  <2>2. CASE activeIcon # None
    <3>1. activeIcon \in Addrs /\ lost = Sent(got, unpaired, activeIcon, FALSE)
      BY <2>2 DEF FInv
    <3>2. actives[activeIcon] # None /\ ~Excused(actives[activeIcon]) => got[actives[activeIcon]]
      BY <3>1 DEF FInv
    <3>3. got \in [Insts -> BOOLEAN]
      BY DEF FInv
    <3>4. /\ lost.got \in [Insts -> BOOLEAN]
          /\ \A k \in lost.bad : k \in 1..starts /\ Excused(k)
          /\ actives[activeIcon] # None => ~lost.got[actives[activeIcon]]
          /\ \A k \in Insts : k # actives[activeIcon] => lost.got[k] = got[k]
      <4>1. activeIcon \in Addrs /\ lost = Sent(got, unpaired, activeIcon, FALSE)
        BY <3>1
      <4>2. actives[activeIcon] # None => actives[activeIcon] \in 1..starts /\ actives[activeIcon] \in Insts
        BY <4>1 DEF AInv, Insts
      <4>3. CASE actives[activeIcon] = None
        BY <1>3, <3>3, <4>1, <4>3 DEF Sent
      <4>4. CASE actives[activeIcon] # None
        <5>1. /\ lost.got = [got EXCEPT ![actives[activeIcon]] = FALSE]
              /\ lost.bad = IF got[actives[activeIcon]] = FALSE THEN unpaired \cup {actives[activeIcon]} ELSE unpaired
          BY <4>1, <4>4 DEF Sent
        <5>2. got[actives[activeIcon]] = FALSE => Excused(actives[activeIcon])
          BY <3>2, <4>4
        <5> HIDE DEF lost
        <5>3. QED BY <1>3, <3>3, <4>2, <4>4, <5>1, <5>2
      <4>5. QED BY <4>3, <4>4
    <3> HIDE DEF lost
    <3>5. ASSUME NEW y \in Addrs, actives[y] # None, ~Excused(actives[y]) PROVE ~lost.got[actives[y]]
      <4>1. CASE y = activeIcon
        BY <3>4, <3>5, <4>1
      <4>2. CASE y # activeIcon
        <5>1. actives[y] \in Insts /\ actives[y] # actives[activeIcon]
          BY <3>1, <3>5, <4>2, ActivesDiffer
        <5>2. ~got[actives[y]]
          BY <3>5, <4>2 DEF FInv
        <5>3. QED BY <3>3, <3>4, <5>1, <5>2
      <4>3. QED BY <4>1, <4>2
    <3>6. QED BY <3>4, <3>5
  <2>3. QED BY <2>1, <2>2
<1> HIDE DEF lost
<1>5. /\ gain.got \in [Insts -> BOOLEAN]
      /\ \A k \in gain.bad : k \in 1..starts /\ Excused(k)
      /\ \A y \in Addrs : actives[y] # None /\ ~Excused(actives[y]) => (gain.got[actives[y]] <=> x = y)
      /\ \A k \in Insts : gain.got[k] => k <= starts
  <2>0. \A k \in Insts : lost.got[k] => k <= starts
    <3>1. CASE activeIcon = None
      BY <3>1 DEF FInv, lost
    <3>2. CASE activeIcon # None
      BY <3>2 DEF FInv, lost, Sent, AInv, Insts
    <3>3. QED BY <3>1, <3>2
  <2>1. CASE x = None
    BY <1>4, <2>0, <2>1
  <2>2. CASE x # None
    <3>1. x \in Addrs /\ gain = Sent(lost.got, lost.bad, x, TRUE)
      BY <2>2
    <3>2. actives[x] # None /\ ~Excused(actives[x]) => ~lost.got[actives[x]]
      BY <1>4, <3>1
    <3>3. /\ gain.got \in [Insts -> BOOLEAN]
          /\ \A k \in gain.bad : k \in 1..starts /\ Excused(k)
          /\ actives[x] # None => gain.got[actives[x]]
          /\ \A k \in Insts : k # actives[x] => gain.got[k] = lost.got[k]
      <4>1. x \in Addrs /\ gain = Sent(lost.got, lost.bad, x, TRUE)
        BY <3>1
      <4>2. actives[x] # None => actives[x] \in 1..starts /\ actives[x] \in Insts
        BY <4>1 DEF AInv, Insts
      <4>3. CASE actives[x] = None
        BY <1>4, <4>1, <4>3 DEF Sent
      <4>4. CASE actives[x] # None
        <5>1. /\ gain.got = [lost.got EXCEPT ![actives[x]] = TRUE]
              /\ gain.bad = IF lost.got[actives[x]] = TRUE THEN lost.bad \cup {actives[x]} ELSE lost.bad
          BY <4>1, <4>4 DEF Sent
        <5>2. lost.got[actives[x]] = TRUE => Excused(actives[x])
          BY <3>2, <4>4
        <5> HIDE DEF gain
        <5>3. QED BY <1>4, <4>2, <4>4, <5>1, <5>2
      <4>5. QED BY <4>3, <4>4
    <3> HIDE DEF gain
    <3>4. ASSUME NEW y \in Addrs, actives[y] # None, ~Excused(actives[y]) PROVE gain.got[actives[y]] <=> x = y
      <4>1. CASE y = x
        BY <3>3, <3>4, <4>1
      <4>2. CASE y # x
        BY <1>4, <3>1, <3>3, <3>4, <4>2, ActivesDiffer
      <4>3. QED BY <4>1, <4>2
    <3>5. actives[x] # None => actives[x] <= starts /\ actives[x] \in Insts
      BY <3>1 DEF AInv, Insts
    <3>6. \A k \in Insts : gain.got[k] => k <= starts
      <4> SUFFICES ASSUME NEW k \in Insts, gain.got[k] PROVE k <= starts
        OBVIOUS
      <4>1. CASE k = actives[x] /\ actives[x] # None
        BY <3>5, <4>1
      <4>2. CASE k # actives[x]
        <5>1. gain.got[k] = lost.got[k]
          BY <3>3, <4>2
        <5>2. QED BY <2>0, <5>1
      <4>3. QED BY <4>1, <4>2 DEF Insts
    <3>7. QED BY <3>3, <3>4, <3>6
  <2>3. QED BY <2>1, <2>2
<1> HIDE DEF gain
<1>6. x # None => \E j \in 1..starts : icon[j] = x
  BY <1>1 DEF Icons, Live
<1>7. FocusIsPaired'
  BY <1>1, <1>5 DEF FocusIsPaired, Excused
<1>8. \A y \in Addrs : actives'[y] # None /\ ~Excused(actives[y])' => (got'[actives'[y]] <=> activeIcon' = y)
  BY <1>1, <1>5 DEF Excused
<1>9. unpaired' \subseteq 1..starts' /\ activeIcon' \in Addrs \cup {None}
  BY <1>1, <1>5
<1>10. QED BY <1>1, <1>5, <1>6, <1>7, <1>8, <1>9 DEF FInv

LEMMA NextFInv == AInv /\ FInv /\ [Next]_vars => FInv'
<1> SUFFICES ASSUME AInv, FInv, [Next]_vars PROVE FInv'
  OBVIOUS
<1> USE DEF tableVars, focusVars, idleVars, flushVars, subVars
<1>1. ASSUME NEW a \in Apps, NEW x \in Addrs, NEW ok \in BOOLEAN, StartApplet(a, x, ok) PROVE FInv'
  BY <1>1, StartFInv
<1>2. ASSUME NEW a \in Apps, StopApplet(a) PROVE FInv'
  BY <1>2, StopFInv
<1>3. ASSUME NEW x \in Addrs \cup {None}, OnChangeFocus(x) PROVE FInv'
  BY <1>3, FocusFInv
<1>4. CASE UNCHANGED <<icon, freed, actives, starts, got, unpaired, activeIcon>>
  BY <1>4 DEF FInv, FocusIsPaired, Excused
<1>5. QED
  BY <1>1, <1>2, <1>3, <1>4
  DEF Next, Flush, vars, TableWritten, Tick, Plop, Draw, AddSubIcon, RemoveSubIcon, RemoveSubIcons,
      ActionEnds,
      CallIdle, Test, Take, RunCall, RunEnd, ClearRun

\* An applet loses the focus it was told it had, once, and only then: unless its icon
\* got the address of an icon freed before it (onChangeFocus, startApplet, stopApplet).
THEOREM FocusPairs == Spec => []FocusIsPaired
<1>1. Init => AInv /\ FInv
  BY InitAInv, DockAssumption DEF Init, FInv, FocusIsPaired, Excused, None, Insts
<1>2. FInv => FocusIsPaired
  BY DEF FInv
<1>3. QED
  BY <1>1, <1>2, NextAInv, NextFInv, PTL DEF Spec

(***************************************************************************)
(* Sub-icons.  A call that inserts one bears its number among all calls, so *)
(* that one that waits is not in the dock yet.                             *)
(***************************************************************************)
NInv == \A k \in DOMAIN added : added[k].sub \in {0, k}

LEMMA NextNInv == CInv /\ NInv /\ [Next]_vars => NInv'
<1> SUFFICES ASSUME CInv, NInv, [Next]_vars PROVE NInv'
  OBVIOUS
<1> USE DEF tableVars, focusVars, idleVars, flushVars, subVars
<1>1. ASSUME NEW call \in Calls, addIdle(call), call.sub \in {0, Len(added) + 1} PROVE NInv'
  <2>1. added \in Seq(Calls) /\ added' = Append(added, call)
    BY <1>1 DEF addIdle, CInv
  <2>2. \A k \in DOMAIN added' : k = Len(added) + 1 \/ k \in DOMAIN added
    BY <2>1
  <2>3. \A k \in DOMAIN added : added'[k] = added[k]
    BY <2>1
  <2>4. added'[Len(added) + 1] = call
    BY <2>1
  <2>5. QED BY <1>1, <2>2, <2>3, <2>4 DEF NInv
<1>2. CASE UNCHANGED added
  BY <1>2 DEF NInv
<1>3. ASSUME NEW i \in Insts, Draw(i) \/ AddSubIcon(i) PROVE NInv'
  <2>1. Len(added) + 1 \in Nat
    BY DEF CInv
  <2>2. Sub(i, 0) \in Calls /\ Sub(i, Len(added) + 1) \in Calls
    BY <2>1 DEF Calls, Sub
  <2>3. Sub(i, 0).sub = 0 /\ Sub(i, Len(added) + 1).sub = Len(added) + 1
    BY DEF Sub
  <2>4. addIdle(Sub(i, 0)) \/ addIdle(Sub(i, Len(added) + 1))
    BY <1>3 DEF Draw, AddSubIcon
  <2>5. QED BY <1>1, <2>2, <2>3, <2>4
<1>4. QED
  BY <1>2, <1>3
  DEF Next, Flush, vars, StopApplet, StartApplet, TableWritten, OnChangeFocus, Tick, Plop, RemoveSubIcon,
      RemoveSubIcons, ActionEnds, CallIdle, Test, Take, RunCall, RunEnd, ClearRun

\* The sequences of the calls, split.
LEMMA SplitNumbers ==
  ASSUME NEW a \in Seq(Calls), NEW b \in Seq(Calls), NEW c \in Seq(Calls),
         \A k \in DOMAIN (a \o b \o c) : (a \o b \o c)[k].sub \in {0, k}
  PROVE  /\ \A k \in DOMAIN b : b[k].sub \in {0, Len(a) + k}
         /\ \A k \in DOMAIN c : c[k].sub \in {0, Len(a) + Len(b) + k}
<1>1. /\ Len(a) \in Nat /\ Len(b) \in Nat /\ Len(c) \in Nat
      /\ DOMAIN b = 1..Len(b) /\ DOMAIN c = 1..Len(c)
      /\ DOMAIN (a \o b \o c) = 1..(Len(a) + Len(b) + Len(c))
  OBVIOUS
<1>2. ASSUME NEW k \in DOMAIN b PROVE b[k].sub \in {0, Len(a) + k}
  <2>1. Len(a) + k \in DOMAIN (a \o b \o c) /\ (a \o b \o c)[Len(a) + k] = b[k]
    BY <1>1
  <2>2. QED BY <2>1
<1>3. ASSUME NEW k \in DOMAIN c PROVE c[k].sub \in {0, Len(a) + Len(b) + k}
  <2>1. Len(a) + Len(b) + k \in DOMAIN (a \o b \o c) /\ (a \o b \o c)[Len(a) + Len(b) + k] = c[k]
    BY <1>1
  <2>2. QED BY <2>1
<1>4. QED BY <1>2, <1>3

\* What waits to be inserted has a number above those of the calls that were run, and
\* the next to run has the next number.
LEMMA WaitsLater ==
  ASSUME CInv, NInv
  PROVE  /\ Len(ran) \in Nat
         /\ \A call : (Waits(call, todraw) \/ Waits(call, idleDraw)) /\ call.sub # 0 => call.sub > Len(ran)
         /\ todraw # <<>> /\ Head(todraw).sub # 0 => Head(todraw).sub = Len(ran) + 1
<1>1. /\ ran \in Seq(Calls) /\ todraw \in Seq(Calls) /\ idleDraw \in Seq(Calls)
      /\ added = ran \o todraw \o idleDraw
  BY DEF CInv, CallsKeepTheirOrder
<1>2. /\ \A k \in DOMAIN todraw : todraw[k].sub \in {0, Len(ran) + k}
      /\ \A k \in DOMAIN idleDraw : idleDraw[k].sub \in {0, Len(ran) + Len(todraw) + k}
  BY <1>1, SplitNumbers DEF NInv
<1>3. Len(ran) \in Nat /\ Len(todraw) \in Nat
  BY <1>1
<1>4. /\ \A k \in DOMAIN todraw : k \in Nat /\ k > 0
      /\ \A k \in DOMAIN idleDraw : k \in Nat /\ k > 0
  BY <1>1
<1>5. ASSUME NEW call, Waits(call, todraw) \/ Waits(call, idleDraw), call.sub # 0 PROVE call.sub > Len(ran)
  <2>1. CASE Waits(call, todraw)
    <3>1. PICK k \in DOMAIN todraw : todraw[k] = call
      BY <2>1 DEF Waits
    <3>2. call.sub = Len(ran) + k
      BY <1>2, <1>5, <3>1
    <3>3. QED BY <1>3, <1>4, <3>2
  <2>2. CASE Waits(call, idleDraw)
    <3>1. PICK k \in DOMAIN idleDraw : idleDraw[k] = call
      BY <2>2 DEF Waits
    <3>2. call.sub = Len(ran) + Len(todraw) + k
      BY <1>2, <1>5, <3>1
    <3>3. QED BY <1>3, <1>4, <3>2
  <2>3. QED BY <1>5, <2>1, <2>2
<1>6. ASSUME todraw # <<>>, Head(todraw).sub # 0 PROVE Head(todraw).sub = Len(ran) + 1
  <2>1. 1 \in DOMAIN todraw /\ Head(todraw) = todraw[1]
    BY <1>1, <1>6
  <2>2. QED BY <1>2, <1>6, <2>1
<1>7. QED BY <1>3, <1>5, <1>6

(***************************************************************************)
(* A sub-icon of the dock, or one that waits, is indexed or was removed    *)
(* too soon; one of an index is in the dock or waits.                      *)
(***************************************************************************)
Kept(s) == s.sub \in index[s.inst] \/ <<s.inst, s.sub>> \in late

SInv ==
  /\ index \in [Insts -> SUBSET (Nat \ {0})] /\ acting \subseteq 1..starts
  /\ \A i \in Insts : i > starts => index[i] = {}
  /\ \A s \in shown : s \in Calls /\ s.inst \in Live /\ s.sub <= Len(ran) /\ Kept(s)
  /\ \A s \in Calls : Waits(s, todraw) \/ Waits(s, idleDraw) => s.inst \in 1..starts /\ (s.sub = 0 \/ Kept(s))
  /\ \A i \in Live : \A n \in index[i] :
       Sub(i, n) \in shown \/ Waits(Sub(i, n), todraw) \/ Waits(Sub(i, n), idleDraw)

LEMMA StartSInv ==
  ASSUME AInv, SInv, NEW a \in Apps, NEW x \in Addrs, NEW ok \in BOOLEAN, StartApplet(a, x, ok)
  PROVE  SInv'
<1> DEFINE i == starts + 1
<1>1. /\ i \in Insts /\ starts' = i /\ freed' = freed /\ index' = index /\ shown' = shown /\ late' = late
      /\ todraw' = todraw /\ idleDraw' = idleDraw /\ ran' = ran /\ acting' \subseteq acting \cup {i}
      /\ starts \in Nat /\ 1..i = (1..starts) \cup {i}
  BY DockAssumption DEF StartApplet, AInv, Insts, subVars, flushVars, idleVars
<1>2. index[i] = {}
  BY <1>1 DEF SInv
<1> HIDE DEF i
<1>3. /\ index' \in [Insts -> SUBSET (Nat \ {0})] /\ acting' \subseteq 1..starts'
      /\ \A s \in shown' : s \in Calls /\ s.inst \in Live' /\ s.sub <= Len(ran') /\ Kept(s)'
  BY <1>1 DEF SInv, Live, Kept
<1>4. \A k \in Insts : k > starts' => index'[k] = {}
  BY <1>1 DEF SInv, i, Insts
<1>5. \A s \in Calls : Waits(s, todraw)' \/ Waits(s, idleDraw)' =>
        s.inst \in 1..starts' /\ (s.sub = 0 \/ Kept(s)')
  BY <1>1 DEF SInv, Kept, Waits
<1>6. \A k \in Live' : \A n \in index'[k] :
        Sub(k, n) \in shown' \/ Waits(Sub(k, n), todraw)' \/ Waits(Sub(k, n), idleDraw)'
  BY <1>1, <1>2 DEF SInv, Live, Waits
<1>7. QED BY <1>3, <1>4, <1>5, <1>6 DEF SInv

LEMMA StopSInv ==
  ASSUME AInv, SInv, NEW a \in Apps, StopApplet(a)
  PROVE  SInv'
<1> DEFINE i == module[a]
<1>1. /\ starts' = starts /\ freed' = freed \cup {i} /\ index' = index /\ late' = late
      /\ shown' = {s \in shown : s.inst # i}
      /\ todraw' = todraw /\ idleDraw' = idleDraw /\ ran' = ran /\ acting' = acting
  BY DEF StopApplet, flushVars, idleVars
<1> HIDE DEF i
<1>2. \A s \in shown' : s \in Calls /\ s.inst \in Live' /\ s.sub <= Len(ran') /\ Kept(s)'
  BY <1>1 DEF SInv, Live, Kept
<1>3. ASSUME NEW k \in Live', NEW n \in index'[k]
      PROVE  Sub(k, n) \in shown' \/ Waits(Sub(k, n), todraw)' \/ Waits(Sub(k, n), idleDraw)'
  <2>1. k \in Live /\ k # i /\ n \in index[k] /\ Sub(k, n).inst = k
    BY <1>1, <1>3 DEF Live, Sub
  <2>2. QED BY <1>1, <2>1 DEF SInv, Waits
<1>4. \A s \in Calls : Waits(s, todraw)' \/ Waits(s, idleDraw)' =>
        s.inst \in 1..starts' /\ (s.sub = 0 \/ Kept(s)')
  BY <1>1 DEF SInv, Kept, Waits
<1>5. QED BY <1>1, <1>2, <1>3, <1>4 DEF SInv

LEMMA AddSInv ==
  ASSUME AInv, CInv, SInv, NEW i \in Insts, Draw(i) \/ AddSubIcon(i)
  PROVE  SInv'
<1>1. PICK n \in Nat :
        /\ added \in Seq(Calls) /\ i \in 1..starts
        /\ idleDraw' = Append(idleDraw, Sub(i, n)) /\ todraw' = todraw /\ shown' = shown
        /\ starts' = starts /\ freed' = freed /\ acting' = acting /\ late' = late /\ ran' = ran
        /\ \/ n = 0 /\ index' = index
           \/ n # 0 /\ index' = [index EXCEPT ![i] = @ \cup {n}]
  <2>1. added \in Seq(Calls) /\ i \in 1..starts /\ Len(added) \in Nat
    <3>1. i \in acting
      BY DEF Draw, AddSubIcon, Acts
    <3>2. added \in Seq(Calls)
      BY DEF CInv
    <3>3. QED BY <3>1, <3>2 DEF SInv
  <2>2. CASE Draw(i)
    <3>1. /\ idleDraw' = Append(idleDraw, Sub(i, 0)) /\ todraw' = todraw /\ shown' = shown
          /\ starts' = starts /\ freed' = freed /\ acting' = acting /\ late' = late /\ ran' = ran
          /\ index' = index
      BY <2>2, Zenon DEF Draw, addIdle, tableVars, flushVars, subVars
    <3>2. QED BY <2>1, <3>1
  <2>3. CASE AddSubIcon(i)
    <3>1. /\ idleDraw' = Append(idleDraw, Sub(i, Len(added) + 1)) /\ todraw' = todraw /\ shown' = shown
          /\ starts' = starts /\ freed' = freed /\ acting' = acting /\ late' = late /\ ran' = ran
          /\ index' = [index EXCEPT ![i] = @ \cup {Len(added) + 1}]
      BY <2>3, Zenon DEF AddSubIcon, addIdle, tableVars, flushVars
    <3>2. Len(added) + 1 \in Nat /\ Len(added) + 1 # 0
      BY <2>1
    <3>3. QED BY <2>1, <3>1, <3>2
  <2>4. QED BY <2>2, <2>3
<1>2. Sub(i, n) \in Calls /\ idleDraw \in Seq(Calls)
  BY DEF Sub, Calls, CInv
<1>3. Waits(Sub(i, n), idleDraw') /\ \A call : Waits(call, idleDraw) => Waits(call, idleDraw')
  BY <1>1, <1>2, AppendWaits
<1>4. \A call : Waits(call, idleDraw') => Waits(call, idleDraw) \/ call = Sub(i, n)
  BY <1>1, <1>2, AppendedWaits
<1>5. index' \in [Insts -> SUBSET (Nat \ {0})] /\ \A k \in Insts : index[k] \subseteq index'[k]
  BY <1>1 DEF SInv
<1>6. \A k \in Insts : \A m \in index'[k] : m \in index[k] \/ (k = i /\ m = n)
  BY <1>1 DEF SInv
<1>7. \A k \in Insts : k > starts' => index'[k] = {}
  <2>1. \A k \in Insts : k > starts => k # i
    BY <1>1 DEF Insts, AInv
  <2>2. QED BY <1>1, <2>1 DEF SInv
<1>8. \A s \in Calls : Kept(s) => Kept(s)'
  BY <1>1, <1>5 DEF Kept, Calls
<1>9. \A s \in shown' : s \in Calls /\ s.inst \in Live' /\ s.sub <= Len(ran') /\ Kept(s)'
  BY <1>1, <1>8 DEF SInv, Live
<1>10. ASSUME NEW s \in Calls, Waits(s, todraw') \/ Waits(s, idleDraw')
       PROVE  s.inst \in 1..starts' /\ (s.sub = 0 \/ Kept(s)')
  <2>1. CASE s = Sub(i, n)
    <3>1. s.inst = i /\ s.sub = n
      BY <2>1 DEF Sub
    <3>2. n # 0 => n \in index'[i]
      BY <1>1 DEF SInv
    <3>3. QED BY <1>1, <3>1, <3>2 DEF Kept
  <2>2. CASE s # Sub(i, n)
    <3>1. Waits(s, todraw) \/ Waits(s, idleDraw)
      BY <1>1, <1>4, <1>10, <2>2
    <3>2. QED BY <1>1, <1>8, <3>1 DEF SInv
  <2>3. QED BY <2>1, <2>2
<1>11. ASSUME NEW k \in Live', NEW m \in index'[k]
      PROVE  Sub(k, m) \in shown' \/ Waits(Sub(k, m), todraw') \/ Waits(Sub(k, m), idleDraw')
  <2>1. k \in Live /\ k \in Insts
    BY <1>1, <1>11, DockAssumption DEF Live, AInv, Insts
  <2>2. CASE m \in index[k]
    <3>1. Sub(k, m) \in shown \/ Waits(Sub(k, m), todraw) \/ Waits(Sub(k, m), idleDraw)
      BY <2>1, <2>2 DEF SInv
    <3>2. QED BY <1>1, <1>3, <3>1
  <2>3. CASE k = i /\ m = n
    BY <1>3, <2>3
  <2>4. QED BY <1>6, <1>11, <2>1, <2>2, <2>3
<1>12. QED
  <2>1. \A s \in Calls : Waits(s, todraw)' \/ Waits(s, idleDraw)' => s.inst \in 1..starts' /\ (s.sub = 0 \/ Kept(s)')
    BY <1>10 DEF Waits
  <2>2. \A k \in Live' : \A m \in index'[k] :
          Sub(k, m) \in shown' \/ Waits(Sub(k, m), todraw)' \/ Waits(Sub(k, m), idleDraw)'
    BY <1>11 DEF Waits
  <2>3. acting' \subseteq 1..starts'
    BY <1>1 DEF SInv
  <2>4. QED BY <1>5, <1>7, <1>9, <2>1, <2>2, <2>3 DEF SInv

LEMMA RemoveSInv ==
  ASSUME AInv, CInv, NInv, SInv, NEW i \in Insts, NEW n \in 1..MaxCalls, RemoveSubIcon(i, n)
  PROVE  SInv'
<1>1. /\ index' = [index EXCEPT ![i] = index[i] \ {n}] /\ shown' = shown \ {Sub(i, n)}
      /\ late' = IF Sub(i, n) \in shown THEN late ELSE late \cup {<<i, n>>}
      /\ starts' = starts /\ freed' = freed /\ acting' = acting
      /\ todraw' = todraw /\ idleDraw' = idleDraw /\ ran' = ran
  BY Zenon DEF RemoveSubIcon, Unindexed, tableVars, idleVars, flushVars
<1>2. /\ index' \in [Insts -> SUBSET (Nat \ {0})] /\ \A k \in Insts : k # i => index'[k] = index[k]
      /\ index'[i] = index[i] \ {n}
  BY <1>1 DEF SInv
<1>3. \A k \in Insts : k > starts' => index'[k] = {}
  BY <1>1, <1>2 DEF SInv
<1>4. \A s \in Calls : s # Sub(i, n) /\ Kept(s) => Kept(s)'
  <2> SUFFICES ASSUME NEW s \in Calls, s # Sub(i, n), Kept(s) PROVE Kept(s)'
    OBVIOUS
  <2>1. s.inst \in Insts /\ (s.inst # i \/ s.sub # n)
    BY DEF Calls, Sub
  <2>2. s.sub \in index[s.inst] => s.sub \in index'[s.inst]
    BY <1>2, <2>1
  <2>3. late \subseteq late'
    BY <1>1
  <2>4. QED BY <2>2, <2>3 DEF Kept
<1>5. \A s \in shown' : s \in Calls /\ s.inst \in Live' /\ s.sub <= Len(ran') /\ Kept(s)'
  BY <1>1, <1>4 DEF SInv, Live
<1>6. ASSUME NEW s \in Calls, Waits(s, todraw) \/ Waits(s, idleDraw)
      PROVE  s.inst \in 1..starts' /\ (s.sub = 0 \/ Kept(s)')
  <2>1. CASE s = Sub(i, n)
    <3>1. s.inst = i /\ s.sub = n /\ n # 0
      BY <2>1, DockAssumption DEF Sub
    <3>2. s.sub > Len(ran) /\ Len(ran) \in Nat /\ s.sub \in Nat
      BY <1>6, <3>1, WaitsLater DEF Calls
    <3>3. s \notin shown
      BY <3>2 DEF SInv
    <3>4. <<i, n>> \in late'
      BY <1>1, <2>1, <3>3
    <3>5. QED BY <1>1, <1>6, <3>1, <3>4 DEF SInv, Kept
  <2>2. CASE s # Sub(i, n)
    BY <1>1, <1>4, <1>6, <2>2 DEF SInv
  <2>3. QED BY <2>1, <2>2
<1>7. ASSUME NEW k \in Live', NEW m \in index'[k]
      PROVE  Sub(k, m) \in shown' \/ Waits(Sub(k, m), todraw') \/ Waits(Sub(k, m), idleDraw')
  <2>1. k \in Live /\ k \in Insts
    BY <1>1, <1>7, DockAssumption DEF Live, AInv, Insts
  <2>2. m \in index[k] /\ (k # i \/ m # n)
    BY <1>2, <1>7, <2>1
  <2>3. Sub(k, m) # Sub(i, n)
    <3>1. Sub(k, m).inst = k /\ Sub(k, m).sub = m /\ Sub(i, n).inst = i /\ Sub(i, n).sub = n
      BY DEF Sub
    <3>2. QED BY <2>2, <3>1
  <2>4. Sub(k, m) \in shown \/ Waits(Sub(k, m), todraw) \/ Waits(Sub(k, m), idleDraw)
    BY <2>1, <2>2 DEF SInv
  <2>5. QED BY <1>1, <2>3, <2>4
<1>8. QED
  <2>1. \A s \in Calls : Waits(s, todraw)' \/ Waits(s, idleDraw)' => s.inst \in 1..starts' /\ (s.sub = 0 \/ Kept(s)')
    BY <1>1, <1>6 DEF Waits
  <2>2. \A k \in Live' : \A m \in index'[k] :
          Sub(k, m) \in shown' \/ Waits(Sub(k, m), todraw)' \/ Waits(Sub(k, m), idleDraw)'
    BY <1>7 DEF Waits
  <2>3. acting' \subseteq 1..starts'
    BY <1>1 DEF SInv
  <2>4. QED BY <1>2, <1>3, <1>5, <2>1, <2>2, <2>3 DEF SInv

LEMMA RunSInv ==
  ASSUME AInv, CInv, NInv, SInv, RunCall
  PROVE  SInv'
<1> DEFINE call == Head(todraw)
           ended == call.inst \in freed
           lost == call.sub # 0 /\ call.sub \notin index[call.inst]
<1>1. /\ todraw # <<>> /\ todraw' = Tail(todraw) /\ idleDraw' = idleDraw /\ ran' = Append(ran, call)
      /\ \/ shown' = shown \cup {call} /\ call.sub # 0 /\ ~ended
         \/ shown' = shown /\ (call.sub = 0 \/ ended \/ lost)
      /\ starts' = starts /\ freed' = freed /\ acting' = acting /\ index' = index /\ late' = late
  BY Zenon DEF RunCall, tableVars, idleVars
<1>2. call \in Calls /\ todraw \in Seq(Calls) /\ ran \in Seq(Calls)
  BY <1>1, HeadMoves DEF CInv
<1>3. call.inst \in Insts /\ call.sub \in Nat /\ call = Sub(call.inst, call.sub)
  BY <1>2 DEF Calls, Sub
<1>4. Len(ran) \in Nat /\ Len(ran') = Len(ran) + 1
  BY <1>1, <1>2
<1>5. call.inst \in 1..starts /\ (call.sub = 0 \/ Kept(call))
  <2>1. Waits(call, todraw)
    <3>1. 1 \in DOMAIN todraw /\ todraw[1] = Head(todraw)
      BY <1>1, <1>2
    <3>2. QED BY <3>1 DEF Waits
  <2>2. QED BY <1>2, <2>1 DEF SInv
<1>6. call.sub # 0 => call.sub = Len(ran) + 1
  BY <1>1, WaitsLater
<1>7. ASSUME NEW s \in shown' PROVE s \in Calls /\ s.inst \in Live' /\ s.sub <= Len(ran') /\ Kept(s)'
  <2>1. CASE s \in shown
    <3>1. s \in Calls /\ s.inst \in Live /\ s.sub <= Len(ran) /\ Kept(s) /\ s.sub \in Nat
      BY <2>1 DEF SInv, Calls
    <3> HIDE DEF call
    <3>2. QED BY <1>1, <1>4, <3>1 DEF Live, Kept
  <2>2. CASE s \notin shown
    <3>1. s = call /\ call.sub # 0 /\ ~ended
      BY <1>1, <2>2
    <3> HIDE DEF call
    <3>2. s \in Calls /\ s.inst \in 1..starts /\ s.inst \notin freed /\ s.sub = Len(ran) + 1 /\ Kept(s)
      BY <1>2, <1>5, <1>6, <3>1
    <3> HIDE DEF ended, lost
    <3>3. s.inst \in Live' /\ s.sub <= Len(ran')
      BY <1>1, <1>4, <3>2 DEF Live
    <3>4. Kept(s)'
      BY <1>1, <3>2 DEF Kept
    <3>5. QED BY <3>2, <3>3, <3>4
  <2>3. QED BY <2>1, <2>2
<1>8. ASSUME NEW s \in Calls, Waits(s, Tail(todraw)) \/ Waits(s, idleDraw)
      PROVE  s.inst \in 1..starts' /\ (s.sub = 0 \/ Kept(s)')
  <2>1. Waits(s, todraw) \/ Waits(s, idleDraw)
    BY <1>1, <1>2, <1>8, WaitsBefore
  <2>2. s.inst \in 1..starts /\ (s.sub = 0 \/ Kept(s))
    BY <2>1 DEF SInv
  <2> HIDE DEF call
  <2>3. QED BY <1>1, <2>2 DEF Kept
<1>9. ASSUME NEW k \in Live', NEW m \in index'[k]
      PROVE  Sub(k, m) \in shown' \/ Waits(Sub(k, m), todraw') \/ Waits(Sub(k, m), idleDraw')
  <2>1. k \in Live /\ k \in Insts /\ m \in index[k] /\ m # 0
    BY <1>1, <1>9, DockAssumption, SMTT(30) DEF Live, AInv, Insts, SInv
  <2>2. Sub(k, m) \in shown \/ Waits(Sub(k, m), todraw) \/ Waits(Sub(k, m), idleDraw)
    BY <2>1 DEF SInv
  <2>3. shown \subseteq shown'
    BY <1>1
  <2>4. CASE Sub(k, m) = call
    <3>1. call.inst = k /\ call.sub = m
      BY <2>4 DEF Sub
    <3>2. call.sub # 0 /\ ~ended /\ ~lost
      BY <2>1, <3>1 DEF Live
    <3>3. QED BY <1>1, <2>4, <3>2
  <2>5. CASE Sub(k, m) # call
    <3>1. Waits(Sub(k, m), todraw) => Waits(Sub(k, m), Tail(todraw))
      BY <1>1, <1>2, <2>5, TailWaits
    <3> HIDE DEF call, ended, lost
    <3>2. QED BY <1>1, <2>2, <2>3, <3>1
  <2>6. QED BY <2>4, <2>5
<1> HIDE DEF call, ended, lost
<1>10. QED
  <2>1. \A s \in Calls : Waits(s, todraw)' \/ Waits(s, idleDraw)' => s.inst \in 1..starts' /\ (s.sub = 0 \/ Kept(s)')
    BY <1>1, <1>8 DEF Waits
  <2>2. \A k \in Live' : \A m \in index'[k] :
          Sub(k, m) \in shown' \/ Waits(Sub(k, m), todraw)' \/ Waits(Sub(k, m), idleDraw)'
    BY <1>9 DEF Waits
  <2>3. /\ index' \in [Insts -> SUBSET (Nat \ {0})] /\ acting' \subseteq 1..starts'
        /\ \A i \in Insts : i > starts' => index'[i] = {}
    BY <1>1 DEF SInv
  <2>4. QED BY <1>7, <2>1, <2>2, <2>3 DEF SInv

LEMMA TakeSInv ==
  ASSUME CInv, SInv, Take
  PROVE  SInv'
<1>1. todraw' = idleDraw /\ idleDraw' = <<>> /\ todraw = <<>>
  BY DEF Take, CInv
<1>2. UNCHANGED <<index, acting, starts, shown, freed, late, ran>>
  BY Zenon DEF Take, subVars, tableVars
<1>3. \A call : Waits(call, todraw) \/ Waits(call, idleDraw) <=> Waits(call, todraw') \/ Waits(call, idleDraw')
  BY <1>1 DEF Waits
<1>4. \A i \in Live' : \A n \in index'[i] :
        Sub(i, n) \in shown' \/ Waits(Sub(i, n), todraw)' \/ Waits(Sub(i, n), idleDraw)'
  BY <1>2, <1>3 DEF SInv, Live, Waits
<1>5. \A s \in Calls : Waits(s, todraw)' \/ Waits(s, idleDraw)' => s.inst \in 1..starts' /\ (s.sub = 0 \/ Kept(s)')
  BY <1>2, <1>3 DEF SInv, Kept, Waits
<1>6. \A s \in shown' : s \in Calls /\ s.inst \in Live' /\ s.sub <= Len(ran') /\ Kept(s)'
  BY <1>2 DEF SInv, Live, Kept
<1>7. QED BY <1>2, <1>4, <1>5, <1>6 DEF SInv

LEMMA NextSInv == AInv /\ CInv /\ NInv /\ SInv /\ [Next]_vars => SInv'
<1> SUFFICES ASSUME AInv, CInv, NInv, SInv, [Next]_vars PROVE SInv'
  OBVIOUS
<1> USE DEF tableVars, focusVars, idleVars, flushVars, subVars
<1>1. ASSUME NEW a \in Apps, NEW x \in Addrs, NEW ok \in BOOLEAN, StartApplet(a, x, ok) PROVE SInv'
  BY <1>1, StartSInv
<1>2. ASSUME NEW a \in Apps, StopApplet(a) PROVE SInv'
  BY <1>2, StopSInv
<1>3. ASSUME NEW i \in Insts, Draw(i) \/ AddSubIcon(i) PROVE SInv'
  BY <1>3, AddSInv
<1>4. ASSUME NEW i \in Insts, NEW n \in 1..MaxCalls, RemoveSubIcon(i, n) PROVE SInv'
  BY <1>4, RemoveSInv
<1>5. CASE RunCall
  BY <1>5, RunSInv
<1>6. CASE Take
  BY <1>6, TakeSInv
<1>7. CASE UNCHANGED <<starts, freed, index, shown, todraw, idleDraw, late, ran>> /\ acting' \subseteq 1..starts
  BY <1>7 DEF SInv, Live, Waits, Kept
<1>8. ASSUME NEW x \in Addrs, Plop(x) PROVE acting' \subseteq 1..starts
  <2>1. acting' = acting \/ (actives[x] # None /\ acting' = acting \cup {actives[x]})
    BY <1>8 DEF Plop
  <2>2. actives \in [Addrs -> {None} \cup 1..starts] /\ acting \subseteq 1..starts
    BY DEF AInv, SInv
  <2>3. actives[x] \in {None} \cup 1..starts
    BY <2>2
  <2>4. QED BY <2>1, <2>2, <2>3
<1>9. acting \subseteq 1..starts
  BY DEF SInv
<1>10. QED
  BY <1>1, <1>2, <1>3, <1>4, <1>5, <1>6, <1>7, <1>8, <1>9
  DEF Next, Flush, vars, TableWritten, OnChangeFocus, Tick, Plop, RemoveSubIcons, ActionEnds, CallIdle, Test,
      RunEnd, ClearRun

\* At every moment what the index of an applet has and the dock has not waits for its
\* insertion, and what the dock has without the index was removed while its insertion
\* waited (AddSubIcon, RemoveSubIcon, RemoveSubIcons, callIdle).
THEOREM SubIconsOfIndex == Spec => []SubIconsAgree
<1>1. Init => AInv /\ CInv /\ NInv /\ SInv
  <2>1. Init => SInv
    BY DockAssumption DEF Init, SInv, Live, Insts, Waits
  <2>2. Init => CInv /\ NInv
    BY DEF Init, CInv, NInv, CallsKeepTheirOrder
  <2>3. QED BY <2>1, <2>2, InitAInv
<1>2. AInv /\ SInv => SubIconsAgree
  <2> SUFFICES ASSUME AInv, SInv
               PROVE  /\ Dock \ Table \subseteq late
                      /\ \A s \in Table \ Dock : Waits(Sub(s[1], s[2]), todraw) \/ Waits(Sub(s[1], s[2]), idleDraw)
    BY DEF SubIconsAgree
  <2>1. ASSUME NEW s \in shown, <<s.inst, s.sub>> \notin Table PROVE <<s.inst, s.sub>> \in late
    <3>1. s.inst \in Live /\ Kept(s)
      BY DEF SInv
    <3>2. s.sub \notin index[s.inst]
      BY <2>1, <3>1 DEF Table
    <3>3. QED BY <3>1, <3>2 DEF Kept
  <2>2. ASSUME NEW i \in Live, NEW n \in index[i], <<i, n>> \notin Dock
        PROVE  Waits(Sub(i, n), todraw) \/ Waits(Sub(i, n), idleDraw)
    <3>1. Sub(i, n) \in shown => <<i, n>> \in Dock
      <4>1. Sub(i, n).inst = i /\ Sub(i, n).sub = n
        BY DEF Sub
      <4>2. QED BY <4>1 DEF Dock
    <3>2. QED BY <2>2, <3>1 DEF SInv
  <2>3. Dock \ Table \subseteq late
    BY <2>1 DEF Dock
  <2>4. ASSUME NEW s \in Table \ Dock PROVE Waits(Sub(s[1], s[2]), todraw) \/ Waits(Sub(s[1], s[2]), idleDraw)
    <3>1. PICK i \in Live : s \in {i} \X index[i]
      BY DEF Table
    <3>2. s[1] = i /\ s[2] \in index[i] /\ s = <<i, s[2]>>
      BY <3>1
    <3>3. QED BY <2>2, <3>2
  <2>5. QED BY <2>3, <2>4
<1>3. QED
  BY <1>1, <1>2, NextAInv, NextCInv, NextNInv, NextSInv, PTL DEF Spec

(***************************************************************************)
(* The dialogs of the dock.  What the package knows of them is passed      *)
(* along as a record.                                                      *)
(***************************************************************************)
Whats == {"removeIcon", "removeApplet", "redispatch", "quit", "popup"}
Asks == [what : Whats, icon : Int]
Package == [dialogs : Seq(Asks), shown : SUBSET Nat, ptr : Nat, call : Nat, up : BOOLEAN]

\* The dialog on the screen, if any, is the one the package knows, and the
\* callback that is set is its own or none.
Known(d) ==
  /\ d \in Package
  /\ d.shown \subseteq 1..Len(d.dialogs) /\ d.shown \subseteq {d.ptr}
  /\ d.call \in 0..Len(d.dialogs)
  /\ d.shown # {} => d.call \in {0} \cup d.shown

LEMMA RemovedIsGone ==
  ASSUME NEW d \in Package, d.shown \subseteq {d.ptr}, 0 \notin d.shown
  PROVE  LET r == removeDialog(d)
         IN r \in Package /\ r.shown = {} /\ r.dialogs = d.dialogs /\ r.call = d.call
<1>1. CASE d.ptr = 0
  BY <1>1 DEF removeDialog, NoIcon, Package
<1>2. CASE d.ptr # 0 /\ d.ptr \in d.shown
  BY <1>2 DEF removeDialog, Freed, NoIcon, Package
<1>3. CASE d.ptr # 0 /\ d.ptr \notin d.shown
  BY <1>3 DEF removeDialog, NoIcon, Package
<1>4. QED BY <1>1, <1>2, <1>3

LEMMA FreedIsGone ==
  ASSUME NEW d, Known(d), NEW n \in d.shown
  PROVE  LET f == Freed(d, n)
         IN Known(f) /\ f.shown = {} /\ f.dialogs = d.dialogs
BY DEF Known, Freed, NoIcon, Package

\* Whatever the package knew, the dialog that is opened is the only one.
LEMMA OpenedIsKnown ==
  ASSUME NEW d, Known(d), NEW ask \in Asks, NEW c \in {0, Len(d.dialogs) + 1}
  PROVE  LET r == Opened(removeDialog([d EXCEPT !.call = c]), ask)
         IN Known(r) /\ r.dialogs = Append(d.dialogs, ask)
<1> DEFINE e == [d EXCEPT !.call = c]
           f == removeDialog(e)
           n == Len(d.dialogs) + 1
<1>1. e \in Package /\ e.shown = d.shown /\ e.ptr = d.ptr /\ e.dialogs = d.dialogs /\ e.call = c
  BY DEF Known, Package
<1>2. f \in Package /\ f.shown = {} /\ f.dialogs = d.dialogs /\ f.call = c
  <2>1. e.shown \subseteq {e.ptr} /\ 0 \notin e.shown
    BY <1>1 DEF Known
  <2> HIDE DEF e
  <2>2. QED BY <1>1, <2>1, RemovedIsGone
<1>3. d.dialogs \in Seq(Asks)
  BY DEF Known, Package
<1>4. Append(d.dialogs, ask) \in Seq(Asks) /\ Len(Append(d.dialogs, ask)) = n /\ n \in Nat \ {0}
  BY <1>3
<1> HIDE DEF f
<1>5. Opened(f, ask) = [f EXCEPT !.dialogs = Append(d.dialogs, ask), !.shown = {n}, !.ptr = n]
  BY <1>2 DEF Opened
<1> DEFINE r == Opened(f, ask)
<1> HIDE DEF r
<1>6. r \in Package /\ r.dialogs = Append(d.dialogs, ask) /\ r.shown = {n} /\ r.ptr = n /\ r.call = c
  BY <1>2, <1>4, <1>5, ZenonT(30) DEF Package, r
<1>7. Known(r)
  BY <1>4, <1>6 DEF Known
<1>8. QED BY <1>6, <1>7 DEF f, r

\* An answer forgets its dialog, which is freed last; the answer to a question may
\* open another in between.
LEMMA AnsweredIsGone ==
  ASSUME NEW d, Known(d), NEW n \in d.shown
  PROVE  LET f == Freed([d EXCEPT !.ptr = 0], n)
         IN Known(f) /\ f.dialogs = d.dialogs
BY DEF Known, Freed, NoIcon, Package

LEMMA AskedAgainIsKnown ==
  ASSUME NEW d, Known(d), NEW n \in d.shown, d.dialogs[n].what # "popup", NEW ask \in Asks
  PROVE  LET r == Freed(ShowWithQuestion([d EXCEPT !.ptr = 0], ask), n)
         IN Known(r) /\ r.dialogs = Append(d.dialogs, ask)
<1> DEFINE m == Len(d.dialogs) + 1
           e == [d EXCEPT !.ptr = 0, !.call = m]
           o == Opened(e, ask)
<1>1. d.dialogs \in Seq(Asks) /\ n \in 1..Len(d.dialogs) /\ d.shown = {n} /\ d \in Package
  BY DEF Known, Package
<1>2. /\ Append(d.dialogs, ask) \in Seq(Asks) /\ Len(Append(d.dialogs, ask)) = m /\ m \in Nat \ {0}
      /\ Append(d.dialogs, ask)[n] = d.dialogs[n] /\ n # m
  BY <1>1
<1>3. ShowWithQuestion([d EXCEPT !.ptr = 0], ask) = o
  BY <1>1 DEF ShowWithQuestion, removeDialog, NoIcon, Package
<1>4. /\ o \in Package /\ o.dialogs = Append(d.dialogs, ask) /\ o.shown = {n, m} /\ o.ptr = m /\ o.call = m
  BY <1>1, <1>2 DEF Opened, Package
<1> HIDE DEF o, m
<1>5. Freed(o, n) = [o EXCEPT !.shown = {n, m} \ {n}, !.ptr = m]
  BY <1>2, <1>4 DEF Freed, Package
<1> DEFINE r == Freed(o, n)
<1> HIDE DEF r
<1>6. r \in Package /\ r.dialogs = Append(d.dialogs, ask) /\ r.shown = {m} /\ r.ptr = m /\ r.call = m
  BY <1>2, <1>4, <1>5 DEF Package, r
<1>7. Known(r)
  BY <1>2, <1>6 DEF Known
<1>8. QED BY <1>3, <1>6, <1>7 DEF r

(***************************************************************************)
(* The invariant of the dialogs: each removal was answered by the dialog   *)
(* that asked for it, and a dialog without its icon stays one.             *)
(***************************************************************************)
Matches(g) ==
  /\ g.dialog \in 1..Len(dialogs)
  /\ dialogs[g.dialog].what = g.what /\ dialogs[g.dialog].icon = g.icon
  /\ g.other => g.dialog \in orphans
AnswersMatch == \A g \in gone : Matches(g)
Leavings == [icon : Int, other : BOOLEAN, what : Whats, dialog : Nat, leaving : BOOLEAN]
AppCalls == [icon : Int, what : {"popup", "message"}]
MenuInv ==
  /\ Known(D) /\ AnswersMatch
  /\ gone \subseteq Leavings /\ pending \in Seq(AppCalls)

LEMMA KnownNext ==
  ASSUME NEW d, Known(d), NEW b, DialogIs(d, b)
  PROVE  Known(D)' /\ dialogs' = d.dialogs
BY DEF Known, DialogIs, D, Package

LEMMA AnswersStay ==
  ASSUME AnswersMatch, dialogs \in Seq(Asks), \A g \in gone' : g \in gone \/ Matches(g),
         orphans \subseteq orphans',
         dialogs' = dialogs \/ \E ask \in Asks : dialogs' = Append(dialogs, ask)
  PROVE  AnswersMatch'
<1>1. ASSUME NEW ask \in Asks
      PROVE  /\ Len(Append(dialogs, ask)) = Len(dialogs) + 1
             /\ \A n \in 1..Len(dialogs) : Append(dialogs, ask)[n] = dialogs[n]
  OBVIOUS
<1>2. Len(dialogs) \in Nat
  OBVIOUS
<1>3. \A n \in 1..Len(dialogs) : n \in 1..Len(dialogs') /\ dialogs'[n] = dialogs[n]
  BY <1>1, <1>2
<1>4. QED BY <1>3 DEF AnswersMatch, Matches

\* A step that keeps what the dialogs are, and those on the screen or some of them.
LEMMA FewerDialogs ==
  ASSUME MenuInv, NEW i, NEW lost \in SUBSET OnIcon(i), Destroyed(lost),
         UNCHANGED <<dialogs, dialogCall>>
  PROVE  Known(D)'
BY DEF MenuInv, Known, Package, D, Destroyed, OnIcon, NoIcon

LEMMA NextMenuInv == MenuInv /\ [MenusNext]_menusVars => MenuInv'
<1> SUFFICES ASSUME MenuInv, [MenusNext]_menusVars PROVE MenuInv'
  OBVIOUS
<1> DEFINE d == D
<1>0. /\ Known(d) /\ d.dialogs = dialogs /\ d.shown = onScreen /\ d.ptr = dialogPtr /\ d.call = dialogCall
      /\ dialogs \in Seq(Asks) /\ pending \in Seq(AppCalls) /\ gone \subseteq Leavings /\ AnswersMatch
  BY DEF MenuInv, Known, Package, D
<1>1. CASE UNCHANGED <<dialogs, onScreen, dialogPtr, dialogCall, pending, gone>> /\ orphans \subseteq orphans'
  BY <1>1 DEF MenuInv, Known, AnswersMatch, Matches, D
<1>2. ASSUME NEW e, NEW b, Known(e), DialogIs(e, b), pending' \in Seq(AppCalls),
             gone' \subseteq Leavings, \A g \in gone' : g \in gone \/ Matches(g), orphans \subseteq orphans',
             e.dialogs = dialogs \/ \E ask \in Asks : e.dialogs = Append(dialogs, ask)
      PROVE  MenuInv'
  <2>1. Known(D)' /\ dialogs' = e.dialogs
    BY <1>2, KnownNext
  <2>2. AnswersMatch'
    BY <1>0, <1>2, <2>1, AnswersStay
  <2>3. QED BY <1>0, <1>2, <2>1, <2>2 DEF MenuInv
<1>3. ASSUME NEW e, NEW what \in Whats, NEW i \in DockIcons, Ask(e, what, i) PROVE MenuInv'
  <2> DEFINE ask == [what |-> what, icon |-> i]
             o == ShowWithQuestion(d, ask)
  <2>1. ask \in Asks
    BY DEF Asks, DockIcons
  <2>2. DialogIs(o, TRUE) /\ pending' = pending /\ gone' = gone /\ orphans' = orphans
    BY <1>3 DEF Ask
  <2>3. o = Opened(removeDialog([d EXCEPT !.call = Len(d.dialogs) + 1]), ask)
    BY DEF ShowWithQuestion
  <2> HIDE DEF d, ask, o
  <2>4. Known(o) /\ o.dialogs = Append(d.dialogs, ask)
    BY <1>0, <2>1, <2>3, OpenedIsKnown
  <2>5. QED BY <1>0, <1>2, <2>1, <2>2, <2>4
<1>4. ASSUME NEW callback \in BOOLEAN, RunPopup(callback) PROVE MenuInv'
  <2> DEFINE ask == Head(pending)
             o == NewDialog(d, ask, callback)
             c == IF callback THEN Len(d.dialogs) + 1 ELSE 0
  <2>1. /\ pending # <<>> /\ pending' = Tail(pending) /\ gone' = gone /\ orphans' = orphans
        /\ Head(pending).what = "popup" /\ DialogIs(o, Head(pending).icon \in started)
    BY <1>4, Zenon DEF RunPopup, Runs
  <2>2. Head(pending) \in AppCalls /\ Tail(pending) \in Seq(AppCalls)
    BY <1>0, <2>1
  <2>3. ask \in Asks
    <3>1. \A x \in AppCalls : x.what = "popup" => x \in Asks
      BY DEF Asks, Whats, AppCalls
    <3>2. QED BY <2>1, <2>2, <3>1, Zenon
  <2>4. o = Opened(removeDialog([d EXCEPT !.call = c]), ask) /\ c \in {0, Len(d.dialogs) + 1}
    BY DEF NewDialog, NoIcon
  <2> HIDE DEF d, ask, o, c
  <2>5. Known(o) /\ o.dialogs = Append(d.dialogs, ask)
    BY <1>0, <2>3, <2>4, OpenedIsKnown
  <2>6. QED BY <1>0, <1>2, <2>1, <2>2, <2>3, <2>5
<1>5. ASSUME NEW n \in onScreen, PopupEnds(n) PROVE MenuInv'
  <2> DEFINE o == Freed(d, n)
  <2>1. DialogIs(o, TRUE) /\ pending' = pending /\ gone' = gone /\ orphans' = orphans
    BY <1>5 DEF PopupEnds
  <2> HIDE DEF d
  <2>2. Known(o) /\ o.dialogs = d.dialogs
    BY <1>0, FreedIsGone
  <2> HIDE DEF o
  <2>3. QED BY <1>0, <1>2, <2>1, <2>2
<1>6. ASSUME NEW i \in DockIcons, PopupDialog(i) \/ ShowDialog(i) PROVE MenuInv'
  <2>1. PICK what \in {"popup", "message"} : AddCall(i, what)
    BY <1>6 DEF PopupDialog, ShowDialog
  <2> DEFINE call == [icon |-> i, what |-> what]
  <2>2. pending' = <<call>> /\ UNCHANGED <<dialogs, onScreen, dialogPtr, dialogCall, orphans, gone>>
    BY <2>1, Zenon DEF AddCall
  <2>3. call \in AppCalls
    BY DEF DockIcons, AppCalls
  <2> HIDE DEF call
  <2>4. pending' \in Seq(AppCalls)
    BY <2>2, <2>3
  <2>5. QED BY <2>2, <2>4 DEF MenuInv, Known, AnswersMatch, Matches, D
<1>7. ASSUME NEW i \in DockIcons, IconFreed(i) PROVE MenuInv'
  <2>1. /\ UNCHANGED <<dialogs, dialogCall, pending>> /\ orphans \subseteq orphans'
        /\ gone' = {[g EXCEPT !.leaving = g.leaving /\ g.icon # i] : g \in gone}
    BY <1>7 DEF IconFreed, Removed
  <2>2. PICK lost \in SUBSET OnIcon(i) : Destroyed(lost)
    BY <1>7, Zenon DEF IconFreed
  <2>3. Known(D)'
    BY <2>1, <2>2, FewerDialogs
  <2>4. \A h \in gone' : \E g \in gone :
          h \in Leavings /\ h.dialog = g.dialog /\ h.what = g.what /\ h.icon = g.icon /\ h.other = g.other
    BY <1>0, <2>1 DEF Leavings
  <2>5. AnswersMatch' /\ gone' \subseteq Leavings
    BY <1>0, <2>1, <2>4 DEF AnswersMatch, Matches
  <2>6. QED BY <1>0, <2>1, <2>3, <2>5 DEF MenuInv
<1>8. ASSUME NEW n \in onScreen, NEW ok \in BOOLEAN, OnDialogAnswer(n, ok) PROVE MenuInv'
  <2> DEFINE f == [d EXCEPT !.ptr = 0]
             q == dialogs[dialogCall]
             h == [icon |-> q.icon, other |-> dialogCall \in orphans, what |-> q.what, dialog |-> n, leaving |-> TRUE]
             again == ShowWithQuestion(f, [what |-> "redispatch", icon |-> q.icon])
  <2>1. pending' = pending /\ orphans \subseteq orphans'
    BY <1>8 DEF OnDialogAnswer, Removed
  <2>2. \/ \E b \in BOOLEAN : DialogIs(Freed(f, n), b) /\ gone' = gone
        \/ UNCHANGED <<dialogs, onScreen, dialogPtr, dialogCall, gone>>
        \/ /\ dialogCall # 0 /\ q.what \in {"removeIcon", "removeApplet"} /\ gone' = gone \cup {h}
           /\ DialogIs(Freed(f, n), TRUE) \/ DialogIs(Freed(again, n), TRUE)
    BY <1>8, ZenonT(60) DEF OnDialogAnswer, NoIcon
  <2>3. n \in 1..Len(dialogs) /\ dialogCall \in {0, n} /\ dialogs[n] \in Asks
    BY <1>0 DEF Known
  <2>4. CASE \E b \in BOOLEAN : DialogIs(Freed(f, n), b) /\ gone' = gone
    <3> HIDE DEF d
    <3>1. Known(Freed(f, n)) /\ Freed(f, n).dialogs = dialogs
      BY <1>0, AnsweredIsGone
    <3> HIDE DEF f
    <3>2. QED BY <1>0, <1>2, <2>1, <2>4, <3>1
  <2>5. CASE UNCHANGED <<dialogs, onScreen, dialogPtr, dialogCall, gone>>
    BY <1>1, <2>1, <2>5
  <2>6. ASSUME dialogCall # 0, q.what \in {"removeIcon", "removeApplet"}, gone' = gone \cup {h},
               DialogIs(Freed(f, n), TRUE) \/ DialogIs(Freed(again, n), TRUE)
        PROVE  MenuInv'
    <3>1. dialogCall = n /\ dialogs[n].what # "popup" /\ [what |-> "redispatch", icon |-> q.icon] \in Asks
      <4>1. dialogCall = n /\ dialogs[n].what # "popup"
        BY <2>3, <2>6
      <4>2. \A x \in Asks : [what |-> "redispatch", icon |-> x.icon] \in Asks
        BY DEF Asks, Whats
      <4>3. QED BY <2>3, <4>1, <4>2, Zenon
    <3>2. h \in Leavings /\ Matches(h)
      <4>1. h.dialog = n /\ h.what = q.what /\ h.icon = q.icon /\ (h.other <=> n \in orphans)
        BY <3>1
      <4>2. q \in Asks /\ n \in Nat
        BY <2>3, <3>1
      <4>3. h \in Leavings
        BY <4>2 DEF Leavings, Asks
      <4>4. QED BY <2>3, <3>1, <4>1, <4>3 DEF Matches
    <3>3. gone' \subseteq Leavings /\ \A g \in gone' : g \in gone \/ Matches(g)
      BY <1>0, <2>6, <3>2
    <3> HIDE DEF d, h
    <3>4. Known(Freed(f, n)) /\ Freed(f, n).dialogs = dialogs
      BY <1>0, AnsweredIsGone
    <3>5. Known(Freed(again, n)) /\ Freed(again, n).dialogs = Append(dialogs, [what |-> "redispatch", icon |-> q.icon])
      BY <1>0, <3>1, AskedAgainIsKnown
    <3> HIDE DEF f, again, q
    <3>6. QED BY <1>0, <1>2, <2>1, <2>6, <3>1, <3>3, <3>4, <3>5
  <2>7. QED BY <2>2, <2>4, <2>5, <2>6
<1>9. ASSUME RunMessage PROVE MenuInv'
  <2> DEFINE i == Head(pending).icon
  <2>1. /\ pending # <<>> /\ pending' = Tail(pending) /\ UNCHANGED <<dialogs, dialogCall, orphans, gone>>
        /\ Destroyed(OnIcon(i))
    BY <1>9, Zenon DEF RunMessage, Runs
  <2> HIDE DEF i
  <2>2. Known(D)'
    BY <2>1, FewerDialogs
  <2>3. pending' \in Seq(AppCalls)
    BY <1>0, <2>1
  <2>4. QED BY <1>0, <2>1, <2>2, <2>3 DEF MenuInv, AnswersMatch, Matches
<1>10. ASSUME NEW i, MouseEvent(i) \/ WindowEvent(i) PROVE MenuInv'
  BY <1>1, <1>10 DEF MouseEvent, WindowEvent, Removed, dialogVars
<1>11. ASSUME NEW b, EmptyPart(b) \/ SetLock(b) PROVE MenuInv'
  BY <1>1, <1>11 DEF EmptyPart, SetLock, dialogVars
<1>12. ASSUME NEW i, NEW desktop, NEW between, NEW mix, OnDropData(i, desktop, between, mix) PROVE MenuInv'
  BY <1>1, <1>12 DEF OnDropData, dialogVars
<1>13. ASSUME NEW i \in DockIcons, MenuEntry(i) PROVE MenuInv'
  <2>1. ASSUME NEW e, NEW k, AddIcon(e, k, i) PROVE MenuInv'
    BY <1>1, <2>1 DEF AddIcon, dialogVars
  <2>2. CASE DuplicateApplet(i)
    BY <1>1, <2>2 DEF DuplicateApplet, dialogVars
  <2>3. CASE LockIcons(i)
    BY <1>1, <2>3 DEF LockIcons, dialogVars
  <2>4. CASE MoveToDock(i) \/ EditIcon(i)
    BY <1>1, <2>4 DEF MoveToDock, EditIcon
  <2>5. CASE WindowEntry(i)
    BY <1>1, <2>5 DEF WindowEntry, dialogVars
  <2>6. ASSUME NEW e, NEW what \in {"removeIcon", "removeApplet", "quit"}, Ask(e, what, i) PROVE MenuInv'
    BY <1>3, <2>6 DEF Whats
  <2>7. QED BY <1>13, <2>1, <2>2, <2>3, <2>4, <2>5, <2>6, Zenon DEF MenuEntry
<1>14. ASSUME (\E i \in DockIcons : OpenMenu(i)) \/ MenuCloses \/ ChosenLate \/ MessageEnds PROVE MenuInv'
  BY <1>1, <1>14 DEF OpenMenu, MenuCloses, ChosenLate, MessageEnds, dialogVars
<1>15. CASE UNCHANGED menusVars
  BY <1>1, <1>15 DEF menusVars, dialogVars
<1>16. QED
  BY <1>3, <1>4, <1>5, <1>6, <1>7, <1>8, <1>9, <1>10, <1>11, <1>12, <1>13, <1>14, <1>15 DEF MenusNext, NoIcon

LEMMA InitMenuInv == MenusInit => MenuInv
BY DEF MenusInit, MenuInv, Known, Package, AnswersMatch, D, NoIcon

\* For any icons, messages and number of dialogs, a question or popup on the screen is
\* the one the package knows and its callback is its own or none (ShowWithQuestion,
\* NewDialog, onDialogAnswer, onDialogDestroyed).
THEOREM TheDialogIsKnown == MenusSpec => []DialogIsKnown
<1>1. MenuInv => DialogIsKnown
  BY DEF MenuInv, Known, D, DialogIsKnown, NoIcon
<1>2. QED BY <1>1, InitMenuInv, NextMenuInv, PTL DEF MenusSpec

\* An icon or an applet is removed by the answer to the question about it, and it is
\* another one at its address only when the question outlived its icon (onDialogAnswer,
\* MenuRemoveIcon, MenuRemoveApplet).
THEOREM RemovalsWereAsked == MenusSpec => []RemovesWhatWasAsked
<1>1. MenuInv => RemovesWhatWasAsked
  BY DEF MenuInv, AnswersMatch, Matches, RemovesWhatWasAsked
<1>2. QED BY <1>1, InitMenuInv, NextMenuInv, PTL DEF MenusSpec
=============================================================================
