-------------------------- MODULE AppletServiceProofs --------------------------
(***************************************************************************)
(* Proofs about AppletService, for any number of processes and applets:    *)
(* the name on the bus elects one server, in spite of the processes that   *)
(* take it for a moment to look for one (IInv); a launch that met it gets  *)
(* there (MetServes); and the queue of its signals goes from an instance   *)
(* to the next of the same applet with the stop of the first one (SInv).   *)
(***************************************************************************)
EXTENDS AppletService, TLAPS

Holding == {"export", "own", "loop", "count", "leave", "unprobe"}

(* OneServer is not inductive.  A process that sends a call must not send  *)
(* it to itself, so the name is held at these places only; a start must    *)
(* run in a process that exports, called by one that waits for it.         *)
NameHeld == \A p \in Procs : owner = p <=> pc[p] \in Holding
Hosted   == \A p \in Procs, a \in Paths : actives[p][a] # Nobody => pc[p] \in Exported
CallsPlaced ==
  \A l \in Procs : step[l] # "no" =>
    /\ srv[l] \in Procs
    /\ pc[l] = IF srv[l] = l THEN "own" ELSE "wait"
    /\ step[l] \in Starts => pc[srv[l]] \in Exported

Places == NameHeld /\ Hosted /\ CallsPlaced
IInv   == TypeOK /\ Places

LEMMA InitIInv == Init => IInv
BY ServiceAssumption
   DEF Init, IInv, Places, TypeOK, NameHeld, Hosted, CallsPlaced, Holding, Locations,
       Exported, Outcomes, Starts, Procs, Nobody, NoApplet, Signal

(* The end of a process keeps the types. *)
LEMMA ExitTypeOK ==
  ASSUME TypeOK, NEW p \in Procs, Exit(p),
         owner' \in Procs \cup {Nobody}, met' \in [Procs -> Procs \cup {Nobody}]
  PROVE  TypeOK'
<1>1. pc' \in [Procs -> Locations]
  BY DEF Exit, TypeOK, Locations
<1>2. step' \in [Procs -> {"no", "sent"} \cup Starts]
  BY DEF Exit, TypeOK
<1>3. outcome' \in [Procs -> Outcomes]
  BY DEF Exit, TypeOK, Outcomes
<1>4. actives' \in [Procs -> [Paths -> Procs \cup {Nobody}]]
  BY DEF Exit, TypeOK, NoApplet
<1>5. matched' \in [Procs -> SUBSET Paths] /\ signals' \in [Procs -> Seq(Signal)]
  BY DEF Exit, TypeOK
<1>6. QED
  BY <1>1, <1>2, <1>3, <1>4, <1>5 DEF Exit, TypeOK, dockVars

(* The bus only appends a signal. *)
LEMMA DeliverType ==
  ASSUME signals \in [Procs -> Seq(Signal)], NEW s \in Signal, NEW lostAt, Deliver(s, lostAt)
  PROVE  signals' \in [Procs -> Seq(Signal)]
BY DEF Deliver

(* Every step keeps the types. *)
LEMMA NextTypeOK == TypeOK /\ [Next]_vars => TypeOK'
<1> SUFFICES ASSUME TypeOK, [Next]_vars PROVE TypeOK'
  OBVIOUS
<1> USE ServiceAssumption
<1> USE DEF TypeOK, Locations, Exported, Starts, Outcomes, Goto, dockVars, mgrVars, callVars
<1>1. ASSUME NEW p \in Procs, DockLaunch(p) PROVE TypeOK'
  BY <1>1 DEF DockLaunch, Procs
<1>2. ASSUME NEW p \in Procs, List(p) PROVE TypeOK'
  BY <1>2 DEF List
<1>3. ASSUME NEW a \in Paths, DockEvent(a) PROVE TypeOK'
  <2>1. PICK lostAt : Deliver([path |-> a, inst |-> dock[a], stop |-> FALSE], lostAt)
    BY <1>3 DEF DockEvent
  <2>2. [path |-> a, inst |-> dock[a], stop |-> FALSE] \in Signal
    BY <1>3 DEF DockEvent, Signal
  <2>3. signals' \in [Procs -> Seq(Signal)]
    BY <2>1, <2>2, DeliverType
  <2>4. events' \in 0..MaxEvents
    BY <1>3 DEF DockEvent
  <2>5. QED BY <1>3, <2>3, <2>4 DEF DockEvent
<1>4. ASSUME NEW a \in Paths, DockStop(a) PROVE TypeOK'
  <2>1. PICK lostAt : Deliver([path |-> a, inst |-> dock[a], stop |-> TRUE], lostAt)
    BY <1>4 DEF DockStop
  <2>2. [path |-> a, inst |-> dock[a], stop |-> TRUE] \in Signal
    BY <1>4 DEF DockStop, Signal
  <2>3. signals' \in [Procs -> Seq(Signal)]
    BY <2>1, <2>2, DeliverType
  <2>4. raced' \subseteq Paths
    BY <1>4 DEF DockStop
  <2>5. QED BY <1>4, <2>3, <2>4 DEF DockStop
<1>5. ASSUME NEW p \in Procs, MainStep(p) PROVE TypeOK'
  <2>1. CASE RequestName(p)
    <3>1. met' = met \/ \E q \in Procs \cup {Nobody} : met' = [met EXCEPT ![p] = q]
      BY <2>1 DEF RequestName
    <3>2. met' \in [Procs -> Procs \cup {Nobody}]
      BY <3>1
    <3>3. pc' \in [Procs -> Locations] /\ owner' \in Procs \cup {Nobody}
      BY <2>1 DEF RequestName
    <3>4. QED BY <2>1, <3>2, <3>3 DEF RequestName
  <2>2. CASE Export(p)      BY <2>2 DEF Export
  <2>3. CASE Probe(p)       BY <2>3 DEF Probe
  <2>4. CASE Unprobe(p)     BY <2>4 DEF Unprobe
  <2>5. CASE Send(p)
    <3>1. outcome' = outcome \/ outcome' = [outcome EXCEPT ![p] = "nobody"]
          \/ outcome' = [outcome EXCEPT ![p] = "list"]
      BY <2>5 DEF Send
    <3>2. outcome' \in [Procs -> Outcomes]
      BY <3>1
    <3>3. step' \in [Procs -> {"no", "sent"} \cup Starts] /\ pc' \in [Procs -> Locations]
      BY <2>5 DEF Send
    <3>4. srv' \in [Procs -> Procs \cup {Nobody}]
      BY <2>5 DEF Send
    <3>5. QED BY <2>5, <3>2, <3>3, <3>4 DEF Send
  <2>6. CASE Loop(p)
    <3>1. signals' \in [Procs -> Seq(Signal)]
      BY <2>6 DEF Loop
    <3>2. actives' \in [Procs -> [Paths -> Procs \cup {Nobody}]]
      <4> DEFINE left == [actives[p] EXCEPT ![Head(signals[p]).path] = Nobody]
      <4>1. left \in [Paths -> Procs \cup {Nobody}]
        OBVIOUS
      <4>2. actives' = actives \/ actives' = [actives EXCEPT ![p] = left]
        BY <2>6 DEF Loop
      <4> HIDE DEF left
      <4>3. QED BY <4>1, <4>2
    <3>3. pc' = pc \/ pc' = [pc EXCEPT ![p] = "count"]
      BY <2>6 DEF Loop
    <3>4. pc' \in [Procs -> Locations]
      BY <3>3
    <3>5. QED BY <2>6, <3>1, <3>2, <3>4 DEF Loop
  <2>10. CASE Count(p)
    <3>1. pc' \in [Procs -> Locations]
      BY <2>10 DEF Count, AfterStop
    <3>2. met' = met \/ Forget(p)
      BY <2>10 DEF Count
    <3>3. met' \in [Procs -> Procs \cup {Nobody}]
      BY <3>2 DEF Forget
    <3>4. QED BY <2>10, <3>1, <3>3 DEF Count
  <2>7. CASE Release(p)     BY <2>7 DEF Release
  <2>8. CASE Close(p)
    BY <2>8, ExitTypeOK DEF Close
  <2>9. QED BY <1>5, <2>1, <2>2, <2>3, <2>4, <2>5, <2>6, <2>7, <2>8, <2>10 DEF MainStep
<1>6. ASSUME NEW l \in Procs, CallStep(l) PROVE TypeOK'
  <2> USE DEF Finish, EndCall
  <2>1. CASE Dispatch(l)    BY <2>1 DEF Dispatch
  <2>2. CASE CheckActive(l) BY <2>2 DEF CheckActive
  <2>3. CASE Connect(l)
    <3>1. App[l] \in Paths
      BY DEF Procs
    <3>2. matched' = matched \/ matched' = [matched EXCEPT ![srv[l]] = @ \cup {App[l]}]
      BY <2>3 DEF Connect
    <3>3. matched' \in [Procs -> SUBSET Paths]
      <4>1. CASE srv[l] \in Procs
        <5> DEFINE m == matched[srv[l]] \cup {App[l]}
        <5>1. m \in SUBSET Paths
          BY <3>1, <4>1
        <5>2. matched' = matched \/ matched' = [matched EXCEPT ![srv[l]] = m]
          BY <3>2
        <5> HIDE DEF m
        <5>3. QED BY <5>1, <5>2
      <4>2. CASE srv[l] \notin Procs
        BY <3>2, <4>2
      <4>3. QED BY <4>1, <4>2
    <3>4. CASE step' = [step EXCEPT ![l] = "insert"] /\ UNCHANGED <<pc, outcome>>
      BY <2>3, <3>3, <3>4 DEF Connect
    <3>5. CASE Finish(l, "error")
      BY <2>3, <3>3, <3>5 DEF Connect
    <3>6. QED BY <2>3, <3>4, <3>5 DEF Connect
  <2>4. CASE Insert(l)      BY <2>4 DEF Insert, Procs
  <2>5. CASE InitApplet(l)  BY <2>5 DEF InitApplet
  <2>6. QED BY <1>6, <2>1, <2>2, <2>3, <2>4, <2>5 DEF CallStep
<1>7. ASSUME NEW p \in Procs, MapRace(p) PROVE TypeOK'
  <2>1. met' \in [Procs -> Procs \cup {Nobody}]
    BY <1>7 DEF MapRace, Forget
  <2>2. owner' \in Procs \cup {Nobody}
    BY <1>7 DEF MapRace
  <2>3. QED BY <1>7, <2>1, <2>2, ExitTypeOK DEF MapRace
<1>8. CASE UNCHANGED vars
  BY <1>8 DEF vars
<1>9. QED
  BY <1>1, <1>2, <1>3, <1>4, <1>5, <1>6, <1>7, <1>8 DEF Next, DockStep

(* Every variable keeps its type, whatever the processes do. *)
THEOREM TypeCorrect == Spec => []TypeOK
<1>1. Init => TypeOK BY InitIInv DEF IInv
<1>2. QED BY <1>1, NextTypeOK, PTL DEF Spec

(* The end of a process that gives the name back keeps the places: those   *)
(* who waited for it had nothing but their wait.                           *)
LEMMA ExitPlaces ==
  ASSUME IInv, NEW p \in Procs, Exit(p), owner' = IF owner = p THEN Nobody ELSE owner
  PROVE  Places'
<1> USE DEF IInv, TypeOK, Places, NameHeld, Hosted, CallsPlaced
<1>1. \A q \in Calls(p) : pc[q] = "wait" /\ step[q] # "no"
  BY DEF Calls
<1>2. \A q \in Procs : pc'[q] = IF q = p \/ q \in Calls(p) THEN "ended" ELSE pc[q]
  BY DEF Exit
<1>3. \A q \in Procs : step'[q] = IF q = p \/ q \in Calls(p) THEN "no" ELSE step[q]
  BY DEF Exit
<1>4. NameHeld'
  <2> SUFFICES ASSUME NEW q \in Procs PROVE owner' = q <=> pc'[q] \in Holding
    BY DEF NameHeld
  <2>1. q # Nobody
    BY ServiceAssumption DEF Procs, Nobody
  <2>2. CASE q = p \/ q \in Calls(p)
    <3>1. pc'[q] \notin Holding
      BY <1>2, <2>2 DEF Holding
    <3>2. q = p \/ owner # q
      BY <1>1, <2>2 DEF Holding
    <3>3. QED BY <2>1, <3>1, <3>2
  <2>3. CASE q # p /\ q \notin Calls(p)
    <3>1. pc'[q] = pc[q]
      BY <1>2, <2>3
    <3>2. owner' = q <=> owner = q
      BY <2>1, <2>3
    <3>3. QED BY <3>1, <3>2
  <2>4. QED BY <2>2, <2>3
<1>5. Hosted'
  <2> SUFFICES ASSUME NEW q \in Procs, NEW a \in Paths, actives'[q][a] # Nobody
               PROVE  pc'[q] \in Exported
    BY DEF Hosted
  <2>1. q # p
    BY DEF Exit, NoApplet
  <2>2. actives[q][a] # Nobody
    BY <2>1 DEF Exit
  <2>3. pc[q] \in Exported
    BY <2>2
  <2>4. q \notin Calls(p)
    BY <1>1, <2>3 DEF Exported
  <2>5. QED BY <2>1, <2>3, <2>4, <1>2
<1>6. CallsPlaced'
  <2> SUFFICES ASSUME NEW l \in Procs, step'[l] # "no"
               PROVE  /\ srv'[l] \in Procs
                      /\ pc'[l] = IF srv'[l] = l THEN "own" ELSE "wait"
                      /\ step'[l] \in Starts => pc'[srv'[l]] \in Exported
    BY DEF CallsPlaced
  <2>1. l # p /\ l \notin Calls(p) /\ step[l] # "no" /\ step'[l] = step[l] /\ srv' = srv
    BY <1>3 DEF Exit
  <2>2. srv[l] # p /\ srv[l] \in Procs /\ pc'[l] = pc[l]
    BY <2>1, <1>2 DEF Calls
  <2>3. ASSUME step[l] \in Starts PROVE pc'[srv[l]] \in Exported
    <3>1. pc[srv[l]] \in Exported
      BY <2>1, <2>3
    <3>2. srv[l] \notin Calls(p)
      BY <1>1, <3>1 DEF Exported
    <3>3. QED BY <1>2, <2>2, <3>1, <3>2
  <2>4. QED BY <2>1, <2>2, <2>3
<1>7. QED BY <1>4, <1>5, <1>6

(* The end of a call lets its process go on, and nothing else move.        *)
LEMMA FinishPlaces ==
  ASSUME IInv, NEW l \in Procs, NEW o, Finish(l, o), step[l] # "no",
         UNCHANGED <<owner, srv, actives>>
  PROVE  Places'
<1> USE DEF IInv, TypeOK, Places, NameHeld, Hosted, CallsPlaced
<1>1. pc[l] = IF srv[l] = l THEN "own" ELSE "wait"
  OBVIOUS
<1>2. pc' = [pc EXCEPT ![l] = IF srv[l] = l THEN "loop" ELSE "ended"]
  BY DEF Finish
<1>3. step' = [step EXCEPT ![l] = "no"]
  BY DEF Finish, EndCall
<1>4. NameHeld'
  BY <1>1, <1>2 DEF Holding
<1>5. \A q \in Procs : pc[q] \in Exported => pc'[q] \in Exported
  BY <1>1, <1>2 DEF Exported
<1>6. Hosted'
  BY <1>5
<1>7. CallsPlaced'
  BY <1>2, <1>3, <1>5
<1>8. QED BY <1>4, <1>6, <1>7

(* Every step keeps the places.                                            *)
LEMMA NextPlaces == IInv /\ [Next]_vars => Places'
<1> SUFFICES ASSUME IInv, [Next]_vars PROVE Places'
  OBVIOUS
<1> USE ServiceAssumption
<1> USE DEF IInv, TypeOK, Places, NameHeld, Hosted, CallsPlaced, Holding, Exported,
            Goto, dockVars, mgrVars, callVars
<1>1. ASSUME NEW p \in Procs, DockLaunch(p) PROVE Places'
  BY <1>1 DEF DockLaunch, Fresh
<1>2. ASSUME NEW p \in Procs, List(p) PROVE Places'
  BY <1>2 DEF List, Fresh
<1>3. ASSUME NEW a \in Paths, DockEvent(a) PROVE Places'
  BY <1>3 DEF DockEvent
<1>4. ASSUME NEW a \in Paths, DockStop(a) PROVE Places'
  BY <1>4 DEF DockStop
<1>5. ASSUME NEW p \in Procs, MainStep(p) PROVE Places'
  <2>1. CASE RequestName(p)
    <3>1. pc[p] = "request" /\ step[p] = "no" /\ UNCHANGED <<step, srv, actives>>
      BY <2>1 DEF RequestName
    <3>2. CASE owner = Nobody /\ owner' = p /\ Goto(p, "export")
      <4>1. \A q \in Procs : pc[q] \notin Holding /\ Nobody # q
        BY <3>2 DEF Procs, Nobody
      <4>2. NameHeld'
        BY <3>2, <4>1
      <4>3. Hosted' /\ CallsPlaced'
        BY <3>1, <3>2
      <4>4. QED BY <4>2, <4>3
    <3>3. CASE Goto(p, "probe") /\ UNCHANGED owner
      <4>1. NameHeld'
        BY <3>1, <3>3
      <4>2. Hosted' /\ CallsPlaced'
        BY <3>1, <3>3
      <4>3. QED BY <4>1, <4>2
    <3>4. QED BY <2>1, <3>2, <3>3 DEF RequestName
  <2>2. CASE Export(p)
    BY <2>2 DEF Export, Starts
  <2>3. CASE Probe(p)
    <3>1. pc[p] = "probe" /\ UNCHANGED <<step, srv, actives>>
      BY <2>3 DEF Probe
    <3>2. CASE owner = Nobody /\ owner' = p /\ Goto(p, "unprobe")
      BY <3>1, <3>2 DEF Procs, Nobody
    <3>3. CASE Goto(p, "send") /\ UNCHANGED owner
      BY <3>1, <3>3
    <3>4. QED BY <2>3, <3>2, <3>3 DEF Probe
  <2>4. CASE Unprobe(p)
    BY <2>4 DEF Unprobe, Procs, Nobody
  <2>5. CASE Send(p)
    <3>1. pc[p] = "send" /\ step[p] = "no" /\ owner # p /\ UNCHANGED <<owner, actives>>
      BY <2>5 DEF Send
    <3>2. CASE /\ owner # Nobody /\ srv' = [srv EXCEPT ![p] = owner]
               /\ step' = [step EXCEPT ![p] = "sent"] /\ Goto(p, "wait")
      BY <3>1, <3>2 DEF Starts
    <3>3. CASE Goto(p, "ended") /\ UNCHANGED <<srv, step>>
      BY <3>1, <3>3
    <3>4. QED BY <2>5, <3>2, <3>3 DEF Send
  <2>6. CASE Loop(p)
    <3>1. pc' = pc \/ pc' = [pc EXCEPT ![p] = "count"]
      BY <2>6 DEF Loop
    <3>2. pc[p] = "loop" /\ UNCHANGED <<owner, step, srv>>
      BY <2>6 DEF Loop
    <3>3. NameHeld' /\ CallsPlaced'
      BY <3>1, <3>2
    <3>4. \A q \in Procs \ {p} : actives'[q] = actives[q]
      BY <2>6 DEF Loop
    <3>5. pc'[p] \in Exported /\ \A q \in Procs \ {p} : pc'[q] = pc[q]
      BY <3>1, <3>2
    <3>6. Hosted'
      <4> SUFFICES ASSUME NEW q \in Procs, NEW a \in Paths, actives'[q][a] # Nobody
                   PROVE  pc'[q] \in Exported
        BY DEF Hosted
      <4>1. CASE q = p
        BY <3>5, <4>1
      <4>2. CASE q # p
        BY <3>4, <3>5, <4>2
      <4>3. QED BY <4>1, <4>2
    <3>7. QED BY <3>3, <3>6
  <2>10. CASE Count(p)
    <3>1. /\ \E l \in {"leave", "loop"} : pc' = [pc EXCEPT ![p] = l]
          /\ pc[p] = "count" /\ UNCHANGED <<owner, step, srv, actives>>
      BY <2>10 DEF Count, AfterStop
    <3>2. NameHeld' /\ CallsPlaced' /\ Hosted'
      BY <3>1
    <3>3. QED BY <3>2
  <2>7. CASE Release(p)
    BY <2>7 DEF Release, Procs, Nobody
  <2>8. CASE Close(p)
    <3>1. owner # p
      BY <2>8 DEF Close
    <3>2. QED BY <2>8, <3>1, ExitPlaces DEF Close
  <2>9. QED BY <1>5, <2>1, <2>2, <2>3, <2>4, <2>5, <2>6, <2>7, <2>8, <2>10 DEF MainStep
<1>6. ASSUME NEW l \in Procs, CallStep(l) PROVE Places'
  <2>1. CASE Dispatch(l)
    <3>1. CASE Finish(l, "nobody")
      BY <2>1, <3>1, FinishPlaces DEF Dispatch
    <3>2. CASE ~Finish(l, "nobody")
      BY <2>1, <3>2 DEF Dispatch, Starts
    <3>3. QED BY <3>1, <3>2
  <2>2. CASE CheckActive(l)
    <3>1. CASE Finish(l, "error")
      BY <2>2, <3>1, FinishPlaces DEF CheckActive
    <3>2. CASE ~Finish(l, "error")
      BY <2>2, <3>2 DEF CheckActive, Starts
    <3>3. QED BY <3>1, <3>2
  <2>3. CASE Connect(l)
    <3>1. CASE Finish(l, "error")
      BY <2>3, <3>1, FinishPlaces DEF Connect
    <3>2. CASE ~Finish(l, "error")
      BY <2>3, <3>2 DEF Connect, Starts
    <3>3. QED BY <3>1, <3>2
  <2>4. CASE Insert(l)
    <3>1. step[l] \in Starts /\ srv[l] \in Procs /\ pc[srv[l]] \in Exported
      BY <2>4 DEF Insert, Starts
    <3>2. Hosted'
      BY <2>4, <3>1 DEF Insert
    <3>3. QED BY <2>4, <3>1, <3>2 DEF Insert, Starts
  <2>5. CASE InitApplet(l)
    BY <2>5, FinishPlaces DEF InitApplet
  <2>6. QED BY <1>6, <2>1, <2>2, <2>3, <2>4, <2>5 DEF CallStep
<1>7. ASSUME NEW p \in Procs, MapRace(p) PROVE Places'
  BY <1>7, ExitPlaces DEF MapRace
<1>8. CASE UNCHANGED vars
  BY <1>8 DEF vars
<1>9. QED
  BY <1>1, <1>2, <1>3, <1>4, <1>5, <1>6, <1>7, <1>8 DEF Next, DockStep

LEMMA PlacesOneServer == IInv => OneServer
<1> SUFFICES ASSUME IInv, NEW p \in Procs
             PROVE  /\ pc[p] \in Holding => owner = p
                    /\ Managed(p) \cup Handlers(p) # {} => pc[p] \in Exported
  BY DEF OneServer, Holding
<1>1. Managed(p) # {} => pc[p] \in Exported
  BY DEF IInv, Places, Hosted, Managed
<1>2. Handlers(p) # {} => pc[p] \in Exported
  BY DEF IInv, Places, CallsPlaced, Handlers, Starts
<1>3. QED BY <1>1, <1>2 DEF IInv, Places, NameHeld

(* There is one server at a time, for any number of processes that start   *)
(* applets or look for the service, and applets and starts live in it or   *)
(* in one that is leaving.                                                 *)
THEOREM ServerIsUnique == Spec => []OneServer
<1>1. IInv /\ [Next]_vars => IInv'
  BY NextTypeOK, NextPlaces DEF IInv
<1>2. QED BY <1>1, InitIInv, PlacesOneServer, PTL DEF Spec

(* What a launch knows of the server it met: while that one serves, it has *)
(* the name, so the launch finds it again and its call gets there.         *)
MetServes ==
  \A l \in Procs : met[l] # Nobody =>
    /\ pc[met[l]] \in Serving
    /\ pc[l] \in {"probe", "send", "wait", "ended"}
    /\ step[l] # "no" => srv[l] = met[l]
    /\ pc[l] = "ended" => outcome[l] # "nobody"

(* The end of a process that nobody has met, or that is forgotten.         *)
LEMMA ExitMetServes ==
  ASSUME IInv, MetServes, NEW p \in Procs, Exit(p),
         \A l \in Procs : met'[l] = IF met[l] = p THEN Nobody ELSE met[l],
         pc[p] \in Exported
  PROVE  MetServes'
<1> USE DEF IInv, TypeOK, Places, CallsPlaced, MetServes
<1> SUFFICES ASSUME NEW l \in Procs, met'[l] # Nobody
             PROVE  /\ pc'[met'[l]] \in Serving
                    /\ pc'[l] \in {"probe", "send", "wait", "ended"}
                    /\ step'[l] # "no" => srv'[l] = met'[l]
                    /\ pc'[l] = "ended" => outcome'[l] # "nobody"
  BY DEF MetServes
<1>1. met'[l] = met[l] /\ met[l] # p /\ met[l] \in Procs
  OBVIOUS
<1>2. met[l] \notin Calls(p) /\ pc[met[l]] \in Serving
  BY <1>1 DEF Calls, Serving
<1>3. l # p
  BY <1>1 DEF Exported
<1>4. l \notin Calls(p)
  BY <1>1, <1>3 DEF Calls
<1>5. pc'[l] = pc[l] /\ step'[l] = step[l] /\ outcome'[l] = outcome[l]
      /\ pc'[met[l]] = pc[met[l]] /\ srv' = srv
  BY <1>1, <1>2, <1>3, <1>4 DEF Exit
<1>6. QED BY <1>1, <1>2, <1>5

(* The end of a call whose server is there.                                *)
LEMMA FinishMetServes ==
  ASSUME IInv, MetServes, NEW l \in Procs, NEW o, Finish(l, o), step[l] # "no",
         met[l] # Nobody => o # "nobody", UNCHANGED <<srv, met>>
  PROVE  MetServes'
<1> USE DEF IInv, TypeOK, Places, CallsPlaced, MetServes
<1>1. pc[l] = IF srv[l] = l THEN "own" ELSE "wait"
  OBVIOUS
<1>2. pc' = [pc EXCEPT ![l] = IF srv[l] = l THEN "loop" ELSE "ended"]
      /\ step' = [step EXCEPT ![l] = "no"] /\ outcome' = [outcome EXCEPT ![l] = o]
  BY DEF Finish, EndCall
<1>3. \A q \in Procs : pc[q] \in Serving => pc'[q] \in Serving
  BY <1>1, <1>2 DEF Serving
<1>4. met[l] # Nobody => pc[l] = "wait" /\ pc'[l] = "ended"
  BY <1>1, <1>2
<1>5. QED BY <1>2, <1>3, <1>4

LEMMA NextMetServes == IInv /\ MetServes /\ [Next]_vars => MetServes'
<1> SUFFICES ASSUME IInv, MetServes, [Next]_vars PROVE MetServes'
  OBVIOUS
<1> USE ServiceAssumption
<1> USE DEF IInv, TypeOK, Places, NameHeld, CallsPlaced, Holding, MetServes, Serving,
            Goto, dockVars, mgrVars, callVars
<1>1. ASSUME NEW p \in Procs, DockLaunch(p) PROVE MetServes'
  BY <1>1 DEF DockLaunch, Fresh
<1>2. ASSUME NEW p \in Procs, List(p) PROVE MetServes'
  BY <1>2 DEF List, Fresh
<1>3. ASSUME NEW a \in Paths, DockEvent(a) PROVE MetServes'
  BY <1>3 DEF DockEvent
<1>4. ASSUME NEW a \in Paths, DockStop(a) PROVE MetServes'
  BY <1>4 DEF DockStop
<1>5. ASSUME NEW p \in Procs, MainStep(p) PROVE MetServes'
  <2>1. CASE RequestName(p)
    BY <2>1 DEF RequestName
  <2>2. CASE Export(p)
    BY <2>2 DEF Export
  <2>3. CASE Probe(p)
    BY <2>3 DEF Probe
  <2>4. CASE Unprobe(p)
    BY <2>4 DEF Unprobe
  <2>5. CASE Send(p)
    BY <2>5 DEF Send
  <2>6. CASE Loop(p)
    <3>1. UNCHANGED pc \/ Goto(p, "count")
      BY <2>6 DEF Loop
    <3>2. QED BY <2>6, <3>1 DEF Loop
  <2>10. CASE Count(p)
    <3>1. CASE Goto(p, "leave") /\ Forget(p)
      BY <2>10, <3>1 DEF Count, Forget
    <3>2. CASE UNCHANGED met /\ Goto(p, "loop")
      BY <2>10, <3>2 DEF Count
    <3>3. QED BY <2>10, <3>1, <3>2 DEF Count, AfterStop
  <2>7. CASE Release(p)
    BY <2>7 DEF Release
  <2>8. CASE Close(p)
    <3>1. \A l \in Procs : met'[l] = IF met[l] = p THEN Nobody ELSE met[l]
      BY <2>8 DEF Close
    <3>2. QED BY <2>8, <3>1, ExitMetServes DEF Close, Exported
  <2>9. QED BY <1>5, <2>1, <2>2, <2>3, <2>4, <2>5, <2>6, <2>7, <2>8, <2>10 DEF MainStep
<1>6. ASSUME NEW l \in Procs, CallStep(l) PROVE MetServes'
  <2>1. CASE Dispatch(l)
    <3>1. CASE pc[srv[l]] \notin Exported /\ Finish(l, "nobody")
      <4>1. met[l] = Nobody
        BY <2>1, <3>1 DEF Dispatch, Exported
      <4>2. QED BY <2>1, <3>1, <4>1, FinishMetServes DEF Dispatch
    <3>2. CASE step' = [step EXCEPT ![l] = "check"] /\ UNCHANGED <<pc, outcome>>
      BY <2>1, <3>2 DEF Dispatch
    <3>3. QED BY <2>1, <3>1, <3>2 DEF Dispatch
  <2>2. CASE CheckActive(l)
    <3>1. CASE Finish(l, "error")
      BY <2>2, <3>1, FinishMetServes DEF CheckActive
    <3>2. CASE ~Finish(l, "error")
      BY <2>2, <3>2 DEF CheckActive
    <3>3. QED BY <3>1, <3>2
  <2>3. CASE Connect(l)
    <3>1. CASE Finish(l, "error")
      BY <2>3, <3>1, FinishMetServes DEF Connect
    <3>2. CASE ~Finish(l, "error")
      BY <2>3, <3>2 DEF Connect
    <3>3. QED BY <3>1, <3>2
  <2>4. CASE Insert(l)
    BY <2>4 DEF Insert
  <2>5. CASE InitApplet(l)
    BY <2>5, FinishMetServes DEF InitApplet
  <2>6. QED BY <1>6, <2>1, <2>2, <2>3, <2>4, <2>5 DEF CallStep
<1>7. ASSUME NEW p \in Procs, MapRace(p) PROVE MetServes'
  <2>1. pc[p] \in Exported
    BY <1>7 DEF MapRace, Handlers, Exported, Starts
  <2>2. \A l \in Procs : met'[l] = IF met[l] = p THEN Nobody ELSE met[l]
    BY <1>7 DEF MapRace, Forget
  <2>3. QED BY <1>7, <2>1, <2>2, ExitMetServes DEF MapRace
<1>8. CASE UNCHANGED vars
  BY <1>8 DEF vars
<1>9. QED
  BY <1>1, <1>2, <1>3, <1>4, <1>5, <1>6, <1>7, <1>8 DEF Next, DockStep

(* A start that meets a server that stays is handled by it: those who look *)
(* for the service at the same time, any number of them, do not hide it.   *)
THEOREM MetServerIsReached == Spec => []StartsReachTheServer
<1>1. Init => MetServes
  BY DEF Init, MetServes, Procs, Nobody
<1>2. IInv /\ MetServes /\ [Next]_vars => IInv' /\ MetServes'
  BY NextTypeOK, NextPlaces, NextMetServes DEF IInv
<1>3. MetServes => StartsReachTheServer
  BY DEF MetServes, StartsReachTheServer
<1>4. QED BY <1>1, <1>2, <1>3, InitIInv, PTL DEF Spec

(***************************************************************************)
(* Signals.  The queue of a server holds, for a path, the events of the    *)
(* instance it runs up to its stop, and then those of the instance the     *)
(* dock shows now: Queues, below.  It rests on where a launch is while the *)
(* dock shows it.                                                          *)
(***************************************************************************)
(* A launch whose instance is not inserted yet. *)
NotYet(l) ==
  \/ pc[l] \in {"request", "export"}
  \/ pc[l] \in {"probe", "send"} /\ outcome[l] = "none"
  \/ step[l] \in {"sent", "check", "connect", "insert"}

(* It is the one the dock shows, or its stop came too early. *)
Pending == \A l \in Procs : NotYet(l) => App[l] \in raced \/ dock[App[l]] = l
(* Its path was found free, and nobody else takes it. *)
Vacant  == \A l \in Procs : step[l] \in {"connect", "insert"} =>
             App[l] \in raced \/ actives[srv[l]][App[l]] = Nobody
(* An instance is where its launch was sent, and was inserted once. *)
Hosts   == \A p \in Procs, a \in Paths :
             LET l == actives[p][a]
             IN l # Nobody =>
                  /\ App[l] = a /\ srv[l] = p /\ step[l] \in {"no", "init"}
                  /\ pc[l] \in {"own", "wait", "loop", "count", "leave", "close", "ended"}
                  /\ pc[p] \in {"leave", "close"} => l \in late
Docked  == \A a \in Paths : dock[a] # Nobody => App[dock[a]] = a /\ pc[dock[a]] # "off"
(* A server receives the signals of the paths it manages, and of no other. *)
Matches ==
  /\ \A p \in Procs :
       /\ pc[p] \notin Exported => matched[p] = {}
       /\ \A a \in Paths : actives[p][a] # Nobody => a \in matched[p]
       /\ \A k \in DOMAIN signals[p] : signals[p][k].path \in matched[p]
  /\ \A l \in Procs : step[l] = "insert" => App[l] \in matched[srv[l]]

Lives == Pending /\ Vacant /\ Hosts /\ Docked /\ Matches

LEMMA InitLives == Init => Lives
BY ServiceAssumption
   DEF Init, Lives, Pending, Vacant, Hosts, Docked, Matches, NotYet, NoApplet, Procs, Nobody

(* What no message and no launch touches. *)
(* The end of a process: what it ran is gone, those who waited for it end. *)
LEMMA ExitLives ==
  ASSUME IInv, Lives, NEW p \in Procs, Exit(p)
  PROVE  Lives'
<1> USE ServiceAssumption DEF IInv, TypeOK, Lives
<1>1. Nobody \notin Procs /\ \A l \in Procs : App[l] \in Paths
  BY DEF Procs, Nobody
<1>2. \A l \in Procs :
        /\ pc'[l] = pc[l] \/ pc'[l] = "ended"
        /\ step'[l] = step[l] \/ step'[l] = "no"
        /\ pc'[l] = pc[l] => outcome[l] = "none" \/ outcome'[l] = outcome[l]
        /\ actives'[l] = IF l = p THEN NoApplet ELSE actives[l]
        /\ matched'[l] = IF l = p THEN {} ELSE matched[l]
        /\ signals'[l] = IF l = p THEN <<>> ELSE signals[l]
  BY DEF Exit
<1>3. UNCHANGED <<srv, dock, raced, late>>
  BY DEF Exit, dockVars
<1>4. \A l \in Procs : /\ l \in Calls(p) => pc[l] = "wait" /\ step'[l] = "no"
                       /\ l # p /\ l \notin Calls(p) => pc'[l] = pc[l] /\ step'[l] = step[l]
                       /\ step'[l] # "no" => srv[l] # p
  BY DEF Exit, Calls, Places, CallsPlaced
<1>5. Pending'
  <2> SUFFICES ASSUME NEW l \in Procs, NotYet(l)' PROVE App[l] \in raced \/ dock[App[l]] = l
    BY <1>3 DEF Pending
  <2>1. NotYet(l)
    BY <1>2 DEF NotYet, Exit
  <2> QED BY <2>1 DEF Pending
<1>6. Vacant'
  <2> SUFFICES ASSUME NEW l \in Procs, step'[l] \in {"connect", "insert"}
               PROVE  App[l] \in raced \/ actives'[srv[l]][App[l]] = Nobody
    BY <1>3 DEF Vacant
  <2>1. step[l] = step'[l] /\ srv[l] # p /\ srv[l] \in Procs
    BY <1>2, <1>4 DEF Places, CallsPlaced
  <2> QED BY <1>2, <2>1 DEF Vacant
<1>7. Hosts'
  <2> SUFFICES ASSUME NEW q \in Procs, NEW a \in Paths, actives'[q][a] # Nobody
               PROVE  LET l == actives'[q][a]
                      IN /\ App[l] = a /\ srv[l] = q /\ step'[l] \in {"no", "init"}
                         /\ pc'[l] \in {"own", "wait", "loop", "count", "leave", "close", "ended"}
                         /\ pc'[q] \in {"leave", "close"} => l \in late
    BY <1>3 DEF Hosts
  <2> DEFINE l == actives[q][a]
  <2>1. q # p /\ actives'[q][a] = l /\ l \in Procs
    BY <1>2 DEF NoApplet
  <2>2. /\ App[l] = a /\ srv[l] = q /\ step[l] \in {"no", "init"}
        /\ pc[l] \in {"own", "wait", "loop", "count", "leave", "close", "ended"}
        /\ pc[q] \in {"leave", "close"} => l \in late
    BY <2>1 DEF Hosts
  <2> HIDE DEF l
  <2> QED BY <1>2, <2>1, <2>2
<1>8. Docked'
  BY <1>2, <1>3 DEF Docked
<1>9. Matches'
  <2>1. ASSUME NEW q \in Procs
        PROVE  /\ pc'[q] \notin Exported => matched'[q] = {}
               /\ \A a \in Paths : actives'[q][a] # Nobody => a \in matched'[q]
               /\ \A k \in DOMAIN signals'[q] : signals'[q][k].path \in matched'[q]
    <3>1. CASE q = p
      BY <1>2, <3>1 DEF NoApplet
    <3>2. CASE q # p
      <4>1. pc'[q] \notin Exported => matched'[q] = {}
        BY <1>2, <1>4, <3>2 DEF Matches, Exported
      <4> QED BY <1>2, <3>2, <4>1 DEF Matches
    <3> QED BY <3>1, <3>2
  <2>2. ASSUME NEW l \in Procs, step'[l] = "insert" PROVE App[l] \in matched'[srv[l]]
    <3>1. step[l] = "insert" /\ srv[l] # p /\ srv[l] \in Procs
      BY <1>2, <1>4, <2>2 DEF Places, CallsPlaced
    <3> QED BY <1>2, <3>1 DEF Matches
  <2> QED BY <1>3, <2>1, <2>2 DEF Matches
<1> QED BY <1>5, <1>6, <1>7, <1>8, <1>9

(* The end of a call. *)
LEMMA FinishLives ==
  ASSUME IInv, Lives, NEW l \in Procs, NEW o, Finish(l, o), step[l] # "no",
         UNCHANGED <<srv, dock, raced, actives, signals, late>>,
         \A p \in Procs : matched[p] \subseteq matched'[p] /\ (pc[p] \notin Exported => matched'[p] = matched[p])
  PROVE  Lives'
<1> USE DEF IInv, TypeOK, Lives
<1>1. pc[l] = IF srv[l] = l THEN "own" ELSE "wait"
  BY DEF Places, CallsPlaced
<1>2. /\ pc' = [pc EXCEPT ![l] = IF srv[l] = l THEN "loop" ELSE "ended"]
      /\ step' = [step EXCEPT ![l] = "no"] /\ outcome' = [outcome EXCEPT ![l] = o]
  BY DEF Finish, EndCall
<1>3. Pending'
  BY <1>1, <1>2 DEF Pending, NotYet
<1>4. Vacant'
  BY <1>2 DEF Vacant
<1>5. Hosts'
  BY <1>1, <1>2 DEF Hosts
<1>6. Docked'
  BY <1>2 DEF Docked
<1>7. \A q \in Procs : pc'[q] \notin Exported => pc[q] \notin Exported
  BY <1>1, <1>2 DEF Exported
<1>8. Matches'
  <2>1. ASSUME NEW q \in Procs PROVE pc'[q] \notin Exported => matched'[q] = {}
    BY <1>7 DEF Matches
  <2>2. ASSUME NEW q \in Procs, step'[q] = "insert" PROVE App[q] \in matched'[srv[q]]
    <3>1. step[q] = "insert" /\ srv[q] \in Procs
      BY <1>2, <2>2 DEF Places, CallsPlaced
    <3> QED BY <3>1 DEF Matches
  <2> QED BY <2>1, <2>2 DEF Matches
<1> QED BY <1>3, <1>4, <1>5, <1>6, <1>8

LEMMA NextLives == IInv /\ Lives /\ [Next]_vars => Lives'
<1> SUFFICES ASSUME IInv, Lives, [Next]_vars PROVE Lives'
  OBVIOUS
<1> USE ServiceAssumption DEF IInv, Lives, Goto, dockVars, mgrVars, callVars
<1>0. Nobody \notin Procs /\ \A l \in Procs : App[l] \in Paths
  BY DEF Procs, Nobody
<1>1. ASSUME NEW p \in Procs, DockLaunch(p) PROVE Lives'
  <2>1. pc[p] = "off" /\ step[p] = "no" /\ dock[App[p]] = Nobody
    BY <1>1 DEF DockLaunch, Fresh, Places, CallsPlaced
  <2>2. pc' = [pc EXCEPT ![p] = "request"] /\ dock' = [dock EXCEPT ![App[p]] = p]
        /\ UNCHANGED <<step, srv, outcome, raced, actives, matched, signals, late>>
    BY <1>1 DEF DockLaunch
  <2> USE DEF TypeOK
  <2>3. Pending'
    BY <1>0, <2>1, <2>2 DEF Pending, NotYet
  <2>4. Vacant'
    BY <2>2 DEF Vacant
  <2>5. Hosts'
    BY <1>0, <2>1, <2>2 DEF Hosts
  <2>6. Docked'
    BY <1>0, <2>1, <2>2 DEF Docked
  <2>7. Matches'
    BY <2>1, <2>2 DEF Matches, Exported
  <2> QED BY <2>3, <2>4, <2>5, <2>6, <2>7
<1>2. ASSUME NEW p \in Procs, List(p) PROVE Lives'
  <2>1. pc[p] = "off" /\ step[p] = "no"
    BY <1>2 DEF List, Fresh, Places, CallsPlaced
  <2>2. pc' = [pc EXCEPT ![p] = "probe"] /\ outcome' = [outcome EXCEPT ![p] = "list"]
        /\ UNCHANGED <<step, srv, dock, raced, actives, matched, signals, late>>
    BY <1>2 DEF List
  <2> USE DEF TypeOK
  <2>3. Pending'
    BY <2>2 DEF Pending, NotYet
  <2>4. Vacant'
    BY <2>2 DEF Vacant
  <2>5. Hosts'
    BY <1>0, <2>1, <2>2 DEF Hosts
  <2>6. Docked'
    BY <2>2 DEF Docked
  <2>7. Matches'
    BY <2>1, <2>2 DEF Matches, Exported
  <2> QED BY <2>3, <2>4, <2>5, <2>6, <2>7
<1>3. ASSUME NEW s \in Signal, NEW lostAt, Deliver(s, lostAt),
             UNCHANGED <<pc, callVars, actives, matched, late>>, raced \subseteq raced', Docked', Pending'
      PROVE  Lives'
  <2>1. Vacant' /\ Hosts'
    BY <1>3 DEF Vacant, Hosts
  <2>2. Matches'
    <3>1. ASSUME NEW p \in Procs, NEW k \in DOMAIN signals'[p] PROVE signals'[p][k].path \in matched[p]
      <4>1. signals'[p] = signals[p] \/ (s.path \in matched[p] /\ signals'[p] = Append(signals[p], s))
        BY <1>3 DEF Deliver
      <4>2. signals[p] \in Seq(Signal)
        BY DEF TypeOK
      <4>3. CASE s.path \in matched[p] /\ signals'[p] = Append(signals[p], s)
        <5>1. (k \in DOMAIN signals[p] /\ signals'[p][k] = signals[p][k]) \/ signals'[p][k] = s
          BY <4>2, <4>3, SMT
        <5> QED BY <5>1, <4>3 DEF Matches
      <4> QED BY <4>1, <4>3 DEF Matches
    <3> QED BY <1>3, <3>1 DEF Matches
  <2> QED BY <1>3, <2>1, <2>2
<1>4. ASSUME NEW a \in Paths, DockEvent(a) PROVE Lives'
  <2>1. PICK lostAt : Deliver([path |-> a, inst |-> dock[a], stop |-> FALSE], lostAt)
    BY <1>4 DEF DockEvent
  <2>2. [path |-> a, inst |-> dock[a], stop |-> FALSE] \in Signal
    BY <1>4 DEF DockEvent, Signal, TypeOK
  <2>3. Docked' /\ Pending'
    BY <1>4 DEF DockEvent, Docked, Pending, NotYet
  <2>4. UNCHANGED <<pc, callVars, actives, matched, late>> /\ raced \subseteq raced'
    BY <1>4 DEF DockEvent
  <2> QED BY <1>3, <2>1, <2>2, <2>3, <2>4
<1>5. ASSUME NEW a \in Paths, DockStop(a) PROVE Lives'
  <2>1. PICK lostAt : /\ Deliver([path |-> a, inst |-> dock[a], stop |-> TRUE], lostAt)
                      /\ raced' = IF lostAt # {} \/ ~Active(dock[a]) THEN raced \cup {a} ELSE raced
    BY <1>5 DEF DockStop
  <2>2. [path |-> a, inst |-> dock[a], stop |-> TRUE] \in Signal
    BY <1>5 DEF DockStop, Signal, TypeOK
  <2>3. dock[a] # Nobody /\ dock' = [dock EXCEPT ![a] = Nobody] /\ UNCHANGED <<pc, step, srv, outcome>>
    BY <1>5 DEF DockStop
  <2>4. Docked'
    BY <2>3 DEF Docked, TypeOK
  <2>5. Active(dock[a]) => ~NotYet(dock[a])
    <3> SUFFICES ASSUME NEW q \in Procs, NEW b \in Paths, actives[q][b] = dock[a]
                 PROVE  ~NotYet(dock[a])
      BY DEF Active, Managed
    <3> QED BY <2>3 DEF Hosts, NotYet
  <2>6. Pending'
    <3> SUFFICES ASSUME NEW l \in Procs, NotYet(l) PROVE App[l] \in raced' \/ dock'[App[l]] = l
      BY <2>3 DEF Pending, NotYet
    <3>1. App[l] \in raced \/ dock[App[l]] = l
      BY DEF Pending
    <3>2. CASE App[l] \in raced
      BY <2>1, <3>2
    <3>3. CASE dock[App[l]] = l /\ App[l] = a
      BY <2>1, <2>5, <3>3
    <3>4. CASE dock[App[l]] = l /\ App[l] # a
      BY <1>0, <2>3, <3>4 DEF TypeOK
    <3> QED BY <3>1, <3>2, <3>3, <3>4
  <2>7. UNCHANGED <<pc, callVars, actives, matched, late>> /\ raced \subseteq raced'
    BY <1>5, <2>1 DEF DockStop
  <2> QED BY <1>3, <2>1, <2>2, <2>4, <2>6, <2>7
<1>6. ASSUME NEW p \in Procs, MainStep(p) PROVE Lives'
  <2> USE DEF TypeOK
  <2>1. ASSUME NEW w \in Locations, Goto(p, w), pc[p] # w,
               \/ pc[p] \in {"request", "probe"} /\ w \in {"export", "probe", "unprobe", "send"}
                  /\ (w = "export" => pc[p] = "request") /\ UNCHANGED outcome
               \/ pc[p] = "unprobe" /\ w = "ended"
               \/ pc[p] = "leave" /\ w = "close" /\ UNCHANGED outcome,
               UNCHANGED <<step, srv, dock, raced, actives, matched, signals, late>>,
               \A l \in Procs \ {p} : outcome'[l] = outcome[l]
        PROVE  Lives'
    <3>1. Pending'
      <4> SUFFICES ASSUME NEW l \in Procs, NotYet(l)' PROVE NotYet(l)
        BY <2>1 DEF Pending
      <4> QED BY <2>1 DEF NotYet
    <3>2. Vacant'
      BY <2>1 DEF Vacant
    <3>3. Hosts'
      BY <2>1 DEF Hosts
    <3>4. Docked'
      BY <2>1 DEF Docked
    <3>5. Matches'
      BY <2>1 DEF Matches, Exported
    <3> QED BY <3>1, <3>2, <3>3, <3>4, <3>5
  <2>2. CASE RequestName(p)
    <3>1. CASE Goto(p, "export")
      BY <2>1, <2>2, <3>1 DEF RequestName, Locations, Exported
    <3>2. CASE Goto(p, "probe")
      BY <2>1, <2>2, <3>2 DEF RequestName, Locations
    <3> QED BY <2>2, <3>1, <3>2 DEF RequestName
  <2>3. CASE Export(p)
    <3>1. pc[p] = "export" /\ pc' = [pc EXCEPT ![p] = "own"]
          /\ srv' = [srv EXCEPT ![p] = p] /\ step' = [step EXCEPT ![p] = "check"]
          /\ UNCHANGED <<outcome, dock, raced, actives, matched, signals, late>>
      BY <2>3 DEF Export
    <3>2. Pending'
      BY <3>1 DEF Pending, NotYet
    <3>3. Vacant'
      BY <3>1 DEF Vacant
    <3>4. Hosts'
      BY <1>0, <3>1 DEF Hosts
    <3>5. Docked'
      BY <3>1 DEF Docked
    <3>6. Matches'
      BY <3>1 DEF Matches, Exported
    <3> QED BY <3>2, <3>3, <3>4, <3>5, <3>6
  <2>4. CASE Probe(p)
    <3>1. CASE Goto(p, "unprobe")
      BY <2>1, <2>4, <3>1 DEF Probe, Locations
    <3>2. CASE Goto(p, "send")
      BY <2>1, <2>4, <3>2 DEF Probe, Locations
    <3> QED BY <2>4, <3>1, <3>2 DEF Probe
  <2>5. CASE Unprobe(p)
    BY <2>1, <2>5 DEF Unprobe, Locations
  <2>6. CASE Send(p)
    <3>1. pc[p] = "send" /\ UNCHANGED <<dock, raced, actives, matched, signals, late>>
      BY <2>6 DEF Send
    <3>2. CASE /\ owner # Nobody /\ outcome[p] = "none" /\ srv' = [srv EXCEPT ![p] = owner]
               /\ step' = [step EXCEPT ![p] = "sent"] /\ Goto(p, "wait") /\ UNCHANGED outcome
      <4>1. Pending'
        BY <3>1, <3>2 DEF Pending, NotYet
      <4>2. Vacant'
        BY <3>1, <3>2 DEF Vacant
      <4>3. Hosts'
        BY <1>0, <3>1, <3>2 DEF Hosts
      <4>4. Docked'
        BY <3>1, <3>2 DEF Docked
      <4>5. Matches'
        BY <3>1, <3>2 DEF Matches, Exported
      <4> QED BY <4>1, <4>2, <4>3, <4>4, <4>5
    <3>3. CASE Goto(p, "ended") /\ UNCHANGED <<srv, step>>
      <4>1. \A l \in Procs \ {p} : outcome'[l] = outcome[l]
        BY <2>6 DEF Send
      <4>2. Pending'
        BY <3>1, <3>3, <4>1 DEF Pending, NotYet
      <4>3. Vacant' /\ Hosts' /\ Docked'
        BY <1>0, <3>1, <3>3 DEF Vacant, Hosts, Docked
      <4>4. Matches'
        BY <3>1, <3>3 DEF Matches, Exported
      <4> QED BY <4>2, <4>3, <4>4
    <3> QED BY <2>6, <3>2, <3>3 DEF Send
  <2>7. CASE Loop(p)
    <3> DEFINE s    == Head(signals[p])
               left == [actives[p] EXCEPT ![s.path] = Nobody]
    <3>1. /\ pc[p] = "loop" /\ signals[p] # <<>> /\ signals' = [signals EXCEPT ![p] = Tail(signals[p])]
          /\ UNCHANGED <<step, srv, outcome, dock, raced, matched, late>>
      BY <2>7 DEF Loop
    <3>2. \/ actives' = [actives EXCEPT ![p] = left] /\ Goto(p, "count")
          \/ UNCHANGED <<actives, pc>>
      BY <2>7 DEF Loop
    <3>3. \A l \in Procs : pc'[l] = pc[l] \/ (l = p /\ pc[l] = "loop" /\ pc'[l] = "count")
      BY <3>1, <3>2
    <3>4. \A q \in Procs, a \in Paths : actives'[q][a] = actives[q][a] \/ actives'[q][a] = Nobody
      <4>1. \A a \in Paths : left[a] = actives[p][a] \/ left[a] = Nobody
        OBVIOUS
      <4>2. actives' = actives \/ actives' = [actives EXCEPT ![p] = left]
        BY <3>2
      <4> HIDE DEF left
      <4> QED BY <4>1, <4>2
    <3>6. Pending'
      BY <3>1, <3>3 DEF Pending, NotYet
    <3>7. Vacant'
      <4> SUFFICES ASSUME NEW l \in Procs, step[l] \in {"connect", "insert"}
                   PROVE  App[l] \in raced \/ actives'[srv[l]][App[l]] = Nobody
        BY <3>1 DEF Vacant
      <4>1. srv[l] \in Procs
        BY DEF Places, CallsPlaced
      <4> QED BY <1>0, <3>4, <4>1 DEF Vacant
    <3>8. Hosts'
      <4> SUFFICES ASSUME NEW q \in Procs, NEW a \in Paths, actives'[q][a] # Nobody
                   PROVE  LET l == actives'[q][a]
                          IN /\ App[l] = a /\ srv[l] = q /\ step[l] \in {"no", "init"}
                             /\ pc'[l] \in {"own", "wait", "loop", "count", "leave", "close", "ended"}
                             /\ pc'[q] \in {"leave", "close"} => l \in late
        BY <3>1 DEF Hosts
      <4> DEFINE l == actives[q][a]
      <4>1. actives'[q][a] = l /\ l \in Procs
        BY <3>4
      <4>2. /\ App[l] = a /\ srv[l] = q /\ step[l] \in {"no", "init"}
            /\ pc[l] \in {"own", "wait", "loop", "count", "leave", "close", "ended"}
            /\ pc[q] \in {"leave", "close"} => l \in late
        BY <4>1 DEF Hosts
      <4> HIDE DEF l
      <4> QED BY <3>3, <4>1, <4>2
    <3>9. Docked'
      BY <3>1, <3>3 DEF Docked
    <3>10. Matches'
      <4>1. ASSUME NEW k \in DOMAIN signals'[p] PROVE signals'[p][k].path \in matched[p]
        <5>1. k + 1 \in DOMAIN signals[p] /\ signals'[p][k] = signals[p][k + 1]
          BY <3>1, SMT
        <5> QED BY <5>1 DEF Matches
      <4>2. \A q \in Procs : pc'[q] \notin Exported => pc[q] \notin Exported
        BY <3>3 DEF Exported
      <4>3. \A q \in Procs \ {p} : signals'[q] = signals[q]
        BY <3>1
      <4> QED BY <3>1, <3>4, <4>1, <4>2, <4>3 DEF Matches
    <3> QED BY <3>6, <3>7, <3>8, <3>9, <3>10
  <2>10. CASE Count(p)
    <3>1. /\ pc[p] = "count" /\ Goto(p, AfterStop(p, actives[p]))
          /\ UNCHANGED <<step, srv, outcome, dock, raced, actives, matched, signals, late>>
      BY <2>10 DEF Count
    <3>2. /\ \A l \in Procs : pc'[l] = pc[l] \/ (l = p /\ pc'[l] \in {"leave", "loop"})
          /\ pc'[p] = "leave" => \A a \in Paths : actives[p][a] = Nobody
          /\ pc'[p] \in {"leave", "loop"}
      BY <3>1 DEF AfterStop, NoApplet
    <3>3. Pending'
      BY <3>1, <3>2 DEF Pending, NotYet
    <3>4. Vacant'
      BY <3>1 DEF Vacant
    <3>5. Hosts'
      BY <3>1, <3>2 DEF Hosts
    <3>6. Docked'
      BY <3>1, <3>2 DEF Docked
    <3>7. Matches'
      BY <3>1, <3>2 DEF Matches, Exported
    <3> QED BY <3>3, <3>4, <3>5, <3>6, <3>7
  <2>8. CASE Release(p)
    BY <2>1, <2>8 DEF Release, Locations, Exported
  <2>9. CASE Close(p)
    BY <2>9, ExitLives DEF Close
  <2> QED BY <1>6, <2>2, <2>3, <2>4, <2>5, <2>6, <2>7, <2>8, <2>9, <2>10 DEF MainStep
<1>7. ASSUME NEW l \in Procs, CallStep(l) PROVE Lives'
  <2> USE DEF TypeOK
  <2>1. ASSUME NEW w \in {"check", "connect"}, step[l] \in {"sent", "check"}, step' = [step EXCEPT ![l] = w],
               w = "connect" => actives[srv[l]][App[l]] = Nobody,
               UNCHANGED <<pc, outcome, srv, dock, raced, actives, matched, signals, late>>
        PROVE  Lives'
    <3>1. Pending' /\ Docked'
      BY <2>1 DEF Pending, NotYet, Docked
    <3>2. Vacant'
      BY <2>1 DEF Vacant
    <3>3. Hosts'
      BY <2>1 DEF Hosts
    <3>4. Matches'
      BY <2>1 DEF Matches
    <3> QED BY <3>1, <3>2, <3>3, <3>4
  <2>2. CASE Dispatch(l)
    <3>1. CASE Finish(l, "nobody")
      BY <2>2, <3>1, FinishLives DEF Dispatch
    <3>2. CASE ~Finish(l, "nobody")
      BY <2>1, <2>2, <3>2 DEF Dispatch
    <3> QED BY <3>1, <3>2
  <2>3. CASE CheckActive(l)
    <3>1. CASE Finish(l, "error")
      BY <2>3, <3>1, FinishLives DEF CheckActive
    <3>2. CASE ~Finish(l, "error")
      BY <2>1, <2>3, <3>2 DEF CheckActive
    <3> QED BY <3>1, <3>2
  <2>4. CASE Connect(l)
    <3>1. step[l] = "connect" /\ UNCHANGED <<srv, dock, raced, actives, signals, late>>
      BY <2>4 DEF Connect
    <3>2. srv[l] \in Procs /\ pc[srv[l]] \in Exported
      BY <3>1 DEF Places, CallsPlaced, Starts
    <3>3. \/ matched' = matched
          \/ matched' = [matched EXCEPT ![srv[l]] = @ \cup {App[l]}]
      BY <2>4 DEF Connect
    <3>4. \A p \in Procs : /\ matched[p] \subseteq matched'[p]
                           /\ pc[p] \notin Exported => matched'[p] = matched[p]
      BY <3>2, <3>3
    <3>5. CASE Finish(l, "error")
      BY <3>1, <3>4, <3>5, FinishLives
    <3>6. CASE ~Finish(l, "error")
      <4>1. /\ step' = [step EXCEPT ![l] = "insert"] /\ UNCHANGED <<pc, outcome>>
            /\ matched' = [matched EXCEPT ![srv[l]] = @ \cup {App[l]}]
        BY <2>4, <3>6 DEF Connect
      <4>2. Pending' /\ Docked'
        BY <3>1, <4>1 DEF Pending, NotYet, Docked
      <4>3. Vacant'
        BY <3>1, <4>1 DEF Vacant
      <4>4. Hosts'
        BY <3>1, <4>1 DEF Hosts
      <4>5. App[l] \in matched'[srv[l]]
        BY <3>2, <4>1
      <4>6. \A q \in Procs : step'[q] = "insert" => App[q] \in matched'[srv[q]]
        <5> SUFFICES ASSUME NEW q \in Procs, q # l, step'[q] = "insert" PROVE App[q] \in matched'[srv[q]]
          BY <4>5
        <5>1. step[q] = "insert" /\ srv[q] \in Procs
          BY <4>1 DEF Places, CallsPlaced
        <5> QED BY <3>4, <5>1 DEF Matches
      <4>7. Matches'
        BY <3>1, <3>4, <4>1, <4>6 DEF Matches
      <4> QED BY <4>2, <4>3, <4>4, <4>7
    <3> QED BY <3>5, <3>6
  <2>5. CASE Insert(l)
    <3> DEFINE p == srv[l]
               a == App[l]
    <3>1. /\ step[l] = "insert" /\ step' = [step EXCEPT ![l] = "init"]
          /\ UNCHANGED <<pc, outcome, srv, dock, raced, matched, signals>>
          /\ late' = IF pc[p] \in {"leave", "close"} THEN late \cup {l} ELSE late
          /\ actives' = [actives EXCEPT ![p][a] = l]
      BY <2>5 DEF Insert
    <3>2. p \in Procs /\ a \in Paths /\ pc[p] \in Exported /\ pc[l] \in {"own", "wait"}
      BY <1>0, <3>1 DEF Places, CallsPlaced, Starts
    <3>3. p = srv[l] /\ a = App[l]
      OBVIOUS
    <3> HIDE DEF p, a
    <3>4. \A q \in Procs, b \in Paths :
            actives'[q][b] = IF q = p /\ b = a THEN l ELSE actives[q][b]
      BY <3>1, <3>2
    <3>5. Pending' /\ Docked'
      BY <3>1 DEF Pending, NotYet, Docked
    <3>6. Vacant'
      <4> SUFFICES ASSUME NEW m \in Procs, step'[m] \in {"connect", "insert"}, App[m] \notin raced
                   PROVE  actives'[srv[m]][App[m]] = Nobody
        BY <3>1 DEF Vacant
      <4>1. m # l /\ step[m] = step'[m] /\ srv[m] \in Procs
        BY <3>1 DEF Places, CallsPlaced
      <4>2. actives[srv[m]][App[m]] = Nobody /\ dock[App[m]] = m
        BY <4>1 DEF Vacant, Pending, NotYet
      <4>3. App[m] # a
        <5> SUFFICES ASSUME App[m] = a PROVE FALSE
          OBVIOUS
        <5>1. dock[a] = l
          BY <3>1, <3>3 DEF Pending, NotYet
        <5> QED BY <4>1, <4>2, <5>1
      <4> QED BY <1>0, <3>4, <4>1, <4>2, <4>3
    <3>7. Hosts'
      <4> SUFFICES ASSUME NEW q \in Procs, NEW b \in Paths, actives'[q][b] # Nobody
                   PROVE  LET m == actives'[q][b]
                          IN /\ App[m] = b /\ srv[m] = q /\ step'[m] \in {"no", "init"}
                             /\ pc[m] \in {"own", "wait", "loop", "count", "leave", "close", "ended"}
                             /\ pc[q] \in {"leave", "close"} => m \in late'
        BY <3>1 DEF Hosts
      <4>1. CASE q = p /\ b = a
        BY <3>1, <3>2, <3>3, <3>4, <4>1
      <4>2. CASE ~(q = p /\ b = a)
        <5> DEFINE m == actives[q][b]
        <5>1. actives'[q][b] = m /\ m \in Procs
          BY <3>4, <4>2
        <5>2. /\ App[m] = b /\ srv[m] = q /\ step[m] \in {"no", "init"}
              /\ pc[m] \in {"own", "wait", "loop", "count", "leave", "close", "ended"}
              /\ pc[q] \in {"leave", "close"} => m \in late
          BY <5>1 DEF Hosts
        <5> HIDE DEF m
        <5> QED BY <3>1, <5>1, <5>2
      <4> QED BY <4>1, <4>2
    <3>8. Matches'
      BY <3>1, <3>2, <3>3, <3>4 DEF Matches
    <3> QED BY <3>5, <3>6, <3>7, <3>8
  <2>6. CASE InitApplet(l)
    BY <2>6, FinishLives DEF InitApplet
  <2> QED BY <1>7, <2>2, <2>3, <2>4, <2>5, <2>6 DEF CallStep
<1>8. ASSUME NEW p \in Procs, MapRace(p) PROVE Lives'
  BY <1>8, ExitLives DEF MapRace
<1>9. CASE UNCHANGED vars
  BY <1>9 DEF vars, Pending, NotYet, Vacant, Hosts, Docked, Matches
<1> QED BY <1>1, <1>2, <1>4, <1>5, <1>6, <1>7, <1>8, <1>9 DEF Next, DockStep

(* The signals of path a at the places K of a queue are events of instance i. *)
EventsOf(q, a, i, K) == \A k \in K : q[k].path = a => q[k].inst = i /\ ~q[k].stop

(* The queue of a server that runs x, or nothing, for path a, while the    *)
(* dock shows d: events of d, after those of x and its stop if x is not d. *)
Follows(q, a, x, d) ==
  IF x \in {Nobody, d} THEN EventsOf(q, a, d, DOMAIN q)
  ELSE \E n \in DOMAIN q :
         /\ q[n] = [path |-> a, inst |-> x, stop |-> TRUE]
         /\ EventsOf(q, a, x, 1..(n - 1)) /\ EventsOf(q, a, d, (n + 1)..Len(q))

(* An event of the instance the dock shows, or any signal of another path. *)
LEMMA FollowsEvent ==
  ASSUME NEW q \in Seq(Signal), NEW s \in Signal, NEW a, NEW x, NEW d, Follows(q, a, x, d),
         s.path # a \/ (s.inst = d /\ ~s.stop)
  PROVE  Follows(Append(q, s), a, x, d)
<1>1. /\ Append(q, s) \in Seq(Signal) /\ Len(Append(q, s)) = Len(q) + 1 /\ Len(q) \in Nat
      /\ \A k \in DOMAIN Append(q, s) : \/ k = Len(q) + 1 /\ Append(q, s)[k] = s
                                        \/ k \in DOMAIN q /\ Append(q, s)[k] = q[k]
      /\ DOMAIN q = 1..Len(q) /\ DOMAIN Append(q, s) = 1..(Len(q) + 1)
  BY SMT
<1>2. CASE x \in {Nobody, d}
  BY <1>1, <1>2 DEF Follows, EventsOf
<1>3. CASE x \notin {Nobody, d}
  <2>1. PICK n \in DOMAIN q : /\ q[n] = [path |-> a, inst |-> x, stop |-> TRUE]
                              /\ EventsOf(q, a, x, 1..(n - 1)) /\ EventsOf(q, a, d, (n + 1)..Len(q))
    BY <1>3 DEF Follows
  <2> DEFINE r == Append(q, s)
  <2> HIDE DEF r
  <2>2. /\ Len(r) = Len(q) + 1 /\ Len(q) \in Nat /\ n \in 1..Len(q)
        /\ \A k \in 1..(Len(q) + 1) : (k = Len(q) + 1 /\ r[k] = s) \/ (k \in 1..Len(q) /\ r[k] = q[k])
        /\ DOMAIN r = 1..(Len(q) + 1)
    BY <1>1 DEF r
  <2>3. n \in DOMAIN r /\ r[n] = [path |-> a, inst |-> x, stop |-> TRUE]
    <3>1. n \in 1..(Len(q) + 1) /\ n # Len(q) + 1
      BY <2>2, SMT
    <3> QED BY <2>1, <2>2, <3>1, Zenon
  <2>4. EventsOf(r, a, x, 1..(n - 1))
    BY <2>1, <2>2, SMT DEF EventsOf
  <2>5. EventsOf(r, a, d, (n + 1)..Len(r))
    BY <2>1, <2>2, SMT DEF EventsOf
  <2>6. Follows(r, a, x, d)
    BY <1>3, <2>3, <2>4, <2>5 DEF Follows
  <2> QED BY <2>6 DEF r
<1> QED BY <1>2, <1>3

(* The stop of the instance the dock shows, which the server runs. *)
LEMMA FollowsStop ==
  ASSUME NEW q \in Seq(Signal), NEW a, NEW d, d # Nobody, Follows(q, a, d, d)
  PROVE  Follows(Append(q, [path |-> a, inst |-> d, stop |-> TRUE]), a, d, Nobody)
<1> DEFINE s == [path |-> a, inst |-> d, stop |-> TRUE]
           r == Append(q, s)
           n == Len(q) + 1
<1>1. /\ Len(r) = n /\ Len(q) \in Nat /\ r[n] = s /\ n \in DOMAIN r
      /\ \A k \in 1..Len(q) : r[k] = q[k]
  BY SMT
<1>2. EventsOf(r, a, d, 1..(n - 1))
  BY <1>1, SMT DEF Follows, EventsOf
<1>3. EventsOf(r, a, Nobody, (n + 1)..Len(r))
  BY <1>1, SMT DEF EventsOf
<1> HIDE DEF r, n, s
<1>4. Follows(r, a, d, Nobody)
  BY <1>1, <1>2, <1>3 DEF Follows, s
<1> QED BY <1>4 DEF r, s

(* The first signal of path a is for x, if there is an x. *)
LEMMA FollowsHead ==
  ASSUME NEW q \in Seq(Signal), q # <<>>, NEW a, NEW x, NEW d, Follows(q, a, x, d), Head(q).path = a
  PROVE  /\ x \in {Nobody, Head(q).inst}
         /\ Head(q).stop => x \notin {Nobody, d}
<1>1. Head(q) = q[1] /\ 1 \in DOMAIN q /\ DOMAIN q = 1..Len(q) /\ Len(q) \in Nat
  BY SMT
<1>2. CASE x \in {Nobody, d}
  BY <1>1, <1>2 DEF Follows, EventsOf
<1>3. CASE x \notin {Nobody, d}
  <2>1. PICK n \in DOMAIN q : /\ q[n] = [path |-> a, inst |-> x, stop |-> TRUE]
                              /\ EventsOf(q, a, x, 1..(n - 1))
    BY <1>3 DEF Follows
  <2>2. n = 1 \/ 1 \in 1..(n - 1)
    BY <1>1, SMT
  <2> QED BY <1>1, <1>3, <2>1, <2>2 DEF EventsOf
<1> QED BY <1>2, <1>3

(* It is taken: the stop of x ends it. *)
LEMMA FollowsTail ==
  ASSUME NEW q \in Seq(Signal), q # <<>>, NEW a, NEW x, NEW d, Follows(q, a, x, d)
  PROVE  /\ Head(q).path # a \/ ~Head(q).stop => Follows(Tail(q), a, x, d)
         /\ Head(q).path = a /\ Head(q).stop => Follows(Tail(q), a, Nobody, d)
<1> DEFINE t == Tail(q)
<1>1. /\ Head(q) = q[1] /\ DOMAIN q = 1..Len(q) /\ Len(q) \in Nat \ {0} /\ Len(t) = Len(q) - 1
      /\ DOMAIN t = 1..(Len(q) - 1) /\ \A k \in 1..(Len(q) - 1) : t[k] = q[k + 1]
  BY SMT
<1> HIDE DEF t
<1>2. CASE x \in {Nobody, d}
  <2>1. EventsOf(t, a, d, DOMAIN t)
    BY <1>1, <1>2, SMT DEF Follows, EventsOf
  <2>2. Follows(t, a, x, d)
    BY <1>2, <2>1 DEF Follows
  <2> QED BY <1>2, <2>2, FollowsHead DEF t
<1>3. CASE x \notin {Nobody, d}
  <2>1. PICK n \in DOMAIN q : /\ q[n] = [path |-> a, inst |-> x, stop |-> TRUE]
                              /\ EventsOf(q, a, x, 1..(n - 1)) /\ EventsOf(q, a, d, (n + 1)..Len(q))
    BY <1>3 DEF Follows
  <2>2. CASE n = 1
    <3>1. EventsOf(t, a, d, DOMAIN t)
      BY <1>1, <2>1, <2>2, SMT DEF EventsOf
    <3>2. Follows(t, a, Nobody, d)
      BY <3>1 DEF Follows
    <3>3. Head(q).path = a /\ Head(q).stop
      BY <1>1, <2>1, <2>2
    <3> QED BY <3>2, <3>3 DEF t
  <2>3. CASE n # 1
    <3> DEFINE m == n - 1
    <3>1. m \in DOMAIN t /\ m + 1 = n /\ t[m] = q[n]
      BY <1>1, <2>3, SMT
    <3>2. EventsOf(t, a, x, 1..(m - 1))
      BY <1>1, <2>1, <2>3, SMT DEF EventsOf
    <3>3. EventsOf(t, a, d, (m + 1)..Len(t))
      BY <1>1, <2>1, <2>3, SMT DEF EventsOf
    <3> HIDE DEF m
    <3>4. Follows(t, a, x, d)
      BY <1>3, <2>1, <3>1, <3>2, <3>3 DEF Follows
    <3>5. 1 \in 1..(n - 1)
      BY <1>1, <2>3, SMT
    <3>6. Head(q).path = a => ~Head(q).stop
      BY <1>1, <2>1, <3>5 DEF EventsOf
    <3> QED BY <3>4, <3>6 DEF t
  <2> QED BY <2>2, <2>3
<1> QED BY <1>2, <1>3

(* The dock shows another instance, when it showed none. *)
LEMMA FollowsLaunch ==
  ASSUME NEW q \in Seq(Signal), NEW a, NEW x, NEW l, l # x, Follows(q, a, x, Nobody)
  PROVE  Follows(q, a, x, l)
<1>1. ASSUME NEW k \in DOMAIN q PROVE q[k].inst # Nobody
  <2>1. q[k] \in Signal
    OBVIOUS
  <2> QED BY <2>1, ServiceAssumption DEF Signal, Procs, Nobody
<1>2. CASE x = Nobody
  BY <1>1, <1>2 DEF Follows, EventsOf
<1>3. CASE x # Nobody
  <2>1. PICK n \in DOMAIN q : /\ q[n] = [path |-> a, inst |-> x, stop |-> TRUE]
                              /\ EventsOf(q, a, x, 1..(n - 1)) /\ EventsOf(q, a, Nobody, (n + 1)..Len(q))
    BY <1>3 DEF Follows
  <2>2. \A k \in (n + 1)..Len(q) : k \in DOMAIN q
    BY SMT
  <2>3. EventsOf(q, a, l, (n + 1)..Len(q))
    BY <1>1, <2>1, <2>2 DEF EventsOf
  <2> QED BY <1>3, <2>1, <2>3 DEF Follows
<1> QED BY <1>2, <1>3

(* The instance the dock shows, once its launch is sent, is at the server  *)
(* that receives the signals of its path.                                  *)
ServesDock ==
  \A p \in Procs, a \in Paths :
    pc[p] \in Serving /\ a \in matched[p] /\ a \notin raced /\ dock[a] # Nobody =>
      /\ step[dock[a]] # "no" => srv[dock[a]] = p
      /\ \A q \in Procs, b \in Paths : actives[q][b] = dock[a] => q = p
Queues ==
  \A p \in Procs, a \in Paths :
    pc[p] \in Serving /\ a \notin raced => Follows(signals[p], a, actives[p][a], dock[a])

SInv == IInv /\ Lives /\ ServesDock /\ Queues

(* Steps that start nothing and match nothing. *)
LEMMA ServesKept ==
  ASSUME SInv, srv' = srv, raced \subseteq raced',
         \A q \in Procs : /\ pc'[q] \in Serving => pc[q] \in Serving /\ matched'[q] \subseteq matched[q]
                          /\ step'[q] # "no" => step[q] # "no"
                          /\ \A a \in Paths : actives'[q][a] \in {Nobody, actives[q][a]},
         \A a \in Paths : dock'[a] \in {Nobody, dock[a]}
  PROVE  ServesDock'
<1> USE DEF SInv, IInv, TypeOK
<1> SUFFICES ASSUME NEW p \in Procs, NEW a \in Paths,
                    pc'[p] \in Serving, a \in matched'[p], a \notin raced', dock'[a] # Nobody
             PROVE  /\ step'[dock'[a]] # "no" => srv'[dock'[a]] = p
                    /\ \A q \in Procs, b \in Paths : actives'[q][b] = dock'[a] => q = p
  BY DEF ServesDock
<1>1. pc[p] \in Serving /\ a \in matched[p] /\ a \notin raced /\ dock'[a] = dock[a] /\ dock[a] \in Procs
  OBVIOUS
<1>2. /\ step[dock[a]] # "no" => srv[dock[a]] = p
      /\ \A q \in Procs, b \in Paths : actives[q][b] = dock[a] => q = p
  BY <1>1 DEF ServesDock
<1> QED BY <1>1, <1>2

LEMMA QueuesKept ==
  ASSUME SInv, dock' = dock, raced \subseteq raced',
         \A q \in Procs : pc'[q] \in Serving =>
                          pc[q] \in Serving /\ signals'[q] = signals[q] /\ actives'[q] = actives[q]
  PROVE  Queues'
BY Zenon DEF SInv, Queues

LEMMA ExitSignals ==
  ASSUME SInv, NEW p \in Procs, Exit(p)
  PROVE  ServesDock' /\ Queues'
<1> USE DEF SInv, IInv, TypeOK
<1>1. \A l \in Procs :
        /\ pc'[l] = pc[l] \/ pc'[l] = "ended"
        /\ step'[l] = step[l] \/ step'[l] = "no"
        /\ actives'[l] = IF l = p THEN NoApplet ELSE actives[l]
        /\ matched'[l] = IF l = p THEN {} ELSE matched[l]
        /\ signals'[l] = IF l = p THEN <<>> ELSE signals[l]
  BY DEF Exit
<1>2. pc'[p] = "ended" /\ UNCHANGED <<srv, dock, raced>>
  BY DEF Exit, dockVars
<1>3. \A q \in Procs : pc'[q] \in Serving => pc[q] \in Serving /\ q # p
  BY <1>1, <1>2 DEF Serving
<1>4. \A q \in Procs, a \in Paths : actives'[q][a] \in {Nobody, actives[q][a]}
  BY <1>1, ZenonT(30) DEF NoApplet
<1>5. ServesDock'
  BY <1>1, <1>2, <1>3, <1>4, ServesKept
<1>6. Queues'
  BY <1>1, <1>2, <1>3, QueuesKept
<1> QED BY <1>5, <1>6

LEMMA NextSignals == SInv /\ [Next]_vars => ServesDock' /\ Queues'
<1> SUFFICES ASSUME SInv, [Next]_vars PROVE ServesDock' /\ Queues'
  OBVIOUS
<1> USE ServiceAssumption DEF SInv, IInv, TypeOK, Goto, dockVars, mgrVars, callVars
<1>0. Nobody \notin Procs /\ \A l \in Procs : App[l] \in Paths
  BY DEF Procs, Nobody
<1>1. ASSUME NEW p \in Procs, DockLaunch(p) PROVE ServesDock' /\ Queues'
  <2> DEFINE b == App[p]
  <2>1. pc[p] = "off" /\ step[p] = "no" /\ dock[b] = Nobody
    BY <1>1 DEF DockLaunch, Fresh, Places, CallsPlaced
  <2>2. pc' = [pc EXCEPT ![p] = "request"] /\ dock' = [dock EXCEPT ![b] = p]
        /\ UNCHANGED <<step, srv, raced, actives, matched, signals>>
    BY <1>1 DEF DockLaunch
  <2>3. ASSUME NEW q \in Procs, NEW a \in Paths PROVE actives[q][a] # p
    <3>1. p # Nobody
      BY <1>0
    <3> QED BY <2>1, <3>1, ZenonT(30) DEF Lives, Hosts
  <2>4. \A q \in Procs : pc'[q] \in Serving => pc[q] \in Serving
    BY <2>2 DEF Serving
  <2>5. b \in Paths
    BY <1>0
  <2> HIDE DEF b
  <2>6. ServesDock'
    <3> SUFFICES ASSUME NEW q \in Procs, NEW a \in Paths,
                        pc'[q] \in Serving, a \in matched'[q], a \notin raced', dock'[a] # Nobody
                 PROVE  /\ step'[dock'[a]] # "no" => srv'[dock'[a]] = q
                        /\ \A r \in Procs, c \in Paths : actives'[r][c] = dock'[a] => r = q
      BY DEF ServesDock
    <3>1. CASE a = b
      BY <2>1, <2>2, <2>3, <2>5, <3>1
    <3>2. CASE a # b
      BY <2>2, <2>4, <2>5, <3>2 DEF ServesDock
    <3> QED BY <3>1, <3>2
  <2>7. Queues'
    <3> SUFFICES ASSUME NEW q \in Procs, NEW a \in Paths, pc'[q] \in Serving, a \notin raced
                 PROVE  Follows(signals[q], a, actives[q][a], dock'[a])
      BY <2>2 DEF Queues
    <3>1. Follows(signals[q], a, actives[q][a], dock[a])
      BY <2>4 DEF Queues
    <3>2. CASE a = b
      BY <2>1, <2>2, <2>3, <2>5, <3>1, <3>2, FollowsLaunch
    <3>3. CASE a # b
      BY <2>2, <2>5, <3>1, <3>3
    <3> QED BY <3>2, <3>3
  <2> QED BY <2>6, <2>7
<1>2. ASSUME NEW p \in Procs, List(p) PROVE ServesDock' /\ Queues'
  <2>1. \A q \in Procs : pc'[q] \in Serving => pc[q] \in Serving
    BY <1>2 DEF List, Serving
  <2> QED BY <1>2, <2>1, ServesKept, QueuesKept DEF List
<1>3. ASSUME NEW a \in Paths, DockEvent(a) PROVE ServesDock' /\ Queues'
  <2> DEFINE s == [path |-> a, inst |-> dock[a], stop |-> FALSE]
  <2>1. PICK lostAt : Deliver(s, lostAt)
    BY <1>3 DEF DockEvent
  <2>2. s \in Signal /\ UNCHANGED <<pc, step, srv, dock, raced, actives, matched>>
    BY <1>3 DEF DockEvent, Signal
  <2>3. ServesDock'
    BY <2>2, ServesKept
  <2>4. Queues'
    <3> SUFFICES ASSUME NEW q \in Procs, NEW b \in Paths, pc[q] \in Serving, b \notin raced
                 PROVE  Follows(signals'[q], b, actives[q][b], dock[b])
      BY <2>2 DEF Queues
    <3>1. Follows(signals[q], b, actives[q][b], dock[b])
      BY DEF Queues
    <3>2. signals'[q] = signals[q] \/ signals'[q] = Append(signals[q], s)
      BY <2>1 DEF Deliver
    <3>3. s.path # b \/ (s.inst = dock[b] /\ ~s.stop)
      OBVIOUS
    <3>4. signals[q] \in Seq(Signal)
      OBVIOUS
    <3> HIDE DEF s
    <3>5. Follows(Append(signals[q], s), b, actives[q][b], dock[b])
      BY <2>2, <3>1, <3>3, <3>4, FollowsEvent, Zenon
    <3> QED BY <3>1, <3>2, <3>5
  <2> QED BY <2>3, <2>4
<1>4. ASSUME NEW a \in Paths, DockStop(a) PROVE ServesDock' /\ Queues'
  <2> DEFINE s == [path |-> a, inst |-> dock[a], stop |-> TRUE]
  <2>1. PICK lostAt : /\ Deliver(s, lostAt)
                      /\ raced' = IF lostAt # {} \/ ~Active(dock[a]) THEN raced \cup {a} ELSE raced
    BY <1>4 DEF DockStop
  <2>2. /\ s \in Signal /\ dock[a] # Nobody /\ dock' = [dock EXCEPT ![a] = Nobody]
        /\ UNCHANGED <<pc, step, srv, actives, matched>>
    BY <1>4 DEF DockStop, Signal
  <2>3. ServesDock'
    BY <2>1, <2>2, ServesKept
  <2>4. Queues'
    <3> SUFFICES ASSUME NEW q \in Procs, NEW b \in Paths, pc[q] \in Serving, b \notin raced'
                 PROVE  Follows(signals'[q], b, actives[q][b], dock'[b])
      BY <2>2 DEF Queues
    <3>1. Follows(signals[q], b, actives[q][b], dock[b])
      BY <2>1 DEF Queues
    <3>2. CASE b # a
      <4>1. signals'[q] = signals[q] \/ signals'[q] = Append(signals[q], s)
        BY <2>1 DEF Deliver
      <4>2. s.path # b /\ dock'[b] = dock[b]
        BY <2>2, <3>2
      <4>3. signals[q] \in Seq(Signal)
        OBVIOUS
      <4> HIDE DEF s
      <4>4. Follows(Append(signals[q], s), b, actives[q][b], dock[b])
        BY <2>2, <3>1, <4>2, <4>3, FollowsEvent, Zenon
      <4> QED BY <3>1, <4>1, <4>2, <4>4
    <3>3. CASE b = a
      <4>1. lostAt = {} /\ Active(dock[a]) /\ a \notin raced /\ dock'[b] = Nobody
        BY <2>1, <2>2, <3>3
      <4>2. signals'[q] = IF a \in matched[q] THEN Append(signals[q], s) ELSE signals[q]
        BY <2>1, <4>1 DEF Deliver
      <4>3. CASE a \in matched[q]
        <5>2. actives[q][a] = dock[a]
          <6>1. PICK r \in Procs, c \in Paths : actives[r][c] = dock[a]
            BY <4>1 DEF Active, Managed
          <6>2. c = App[dock[a]] /\ r = q
            BY <2>2, <4>1, <4>3, <6>1 DEF Lives, Hosts, ServesDock
          <6>3. App[dock[a]] = a
            BY <2>2 DEF Lives, Docked
          <6> QED BY <6>1, <6>2, <6>3
        <5>3. Follows(Append(signals[q], s), a, dock[a], Nobody)
          BY <2>2, <3>1, <3>3, <5>2, FollowsStop
        <5> QED BY <3>3, <4>1, <4>2, <4>3, <5>2, <5>3
      <4>4. CASE a \notin matched[q]
        <5>1. actives[q][a] = Nobody /\ \A k \in DOMAIN signals[q] : signals[q][k].path # a
          BY <4>4 DEF Lives, Matches
        <5>2. Follows(signals[q], a, Nobody, Nobody)
          BY <5>1 DEF Follows, EventsOf
        <5> QED BY <3>3, <4>1, <4>2, <4>4, <5>1, <5>2
      <4> QED BY <4>3, <4>4
    <3> QED BY <3>2, <3>3
  <2> QED BY <2>3, <2>4
<1>5. ASSUME NEW p \in Procs, MainStep(p) PROVE ServesDock' /\ Queues'
  <2>1. CASE RequestName(p)
    <3>1. UNCHANGED <<srv, step, dock, raced, actives, matched, signals>>
      BY <2>1 DEF RequestName
    <3>2. \A q \in Procs : pc'[q] \in Serving => pc[q] \in Serving
      BY <2>1 DEF RequestName, Serving
    <3> QED BY <3>1, <3>2, ServesKept, QueuesKept
  <2>2. CASE Export(p)
    <3>1. /\ pc[p] = "export" /\ owner = p /\ pc' = [pc EXCEPT ![p] = "own"]
          /\ UNCHANGED <<dock, raced, actives, matched, signals>>
      BY <2>2 DEF Export, Places, NameHeld, Holding
    <3>2. /\ matched[p] = {} /\ \A a \in Paths : actives[p][a] = Nobody
          /\ \A k \in DOMAIN signals[p] : FALSE
      BY <3>1 DEF Lives, Matches, Exported
    <3>3. \A q \in Procs : pc'[q] \in Serving => q = p
      BY <3>1 DEF Serving, Places, NameHeld, Holding
    <3>4. ServesDock'
      BY <3>1, <3>2, <3>3 DEF ServesDock
    <3>5. \A a \in Paths : Follows(signals[p], a, actives[p][a], dock[a])
      BY <3>2 DEF Follows, EventsOf
    <3>6. Queues'
      BY <3>1, <3>3, <3>5, Zenon DEF Queues
    <3> QED BY <3>4, <3>6
  <2>3. CASE Probe(p)
    <3>1. UNCHANGED <<srv, step, dock, raced, actives, matched, signals>>
      BY <2>3 DEF Probe
    <3>2. \A q \in Procs : pc'[q] \in Serving => pc[q] \in Serving
      BY <2>3 DEF Probe, Serving
    <3> QED BY <3>1, <3>2, ServesKept, QueuesKept
  <2>4. CASE Unprobe(p)
    <3>1. UNCHANGED <<srv, step, dock, raced, actives, matched, signals>>
      BY <2>4 DEF Unprobe
    <3>2. \A q \in Procs : pc'[q] \in Serving => pc[q] \in Serving
      BY <2>4 DEF Unprobe, Serving
    <3> QED BY <3>1, <3>2, ServesKept, QueuesKept
  <2>5. CASE Send(p)
    <3>1. pc[p] = "send" /\ UNCHANGED <<dock, raced, actives, matched, signals>>
      BY <2>5 DEF Send
    <3>2. \A q \in Procs : pc'[q] \in Serving => pc[q] \in Serving
      BY <2>5 DEF Send, Serving
    <3>3. Queues'
      BY <3>1, <3>2, QueuesKept
    <3>4. CASE UNCHANGED <<srv, step>>
      BY <3>1, <3>2, <3>3, <3>4, ServesKept
    <3>5. CASE srv' = [srv EXCEPT ![p] = owner] /\ step' = [step EXCEPT ![p] = "sent"]
      <4> SUFFICES ASSUME NEW q \in Procs, NEW a \in Paths,
                          pc'[q] \in Serving, a \in matched[q], a \notin raced, dock[a] # Nobody
                   PROVE  /\ step'[dock[a]] # "no" => srv'[dock[a]] = q
                          /\ \A r \in Procs, c \in Paths : actives[r][c] = dock[a] => r = q
        BY <3>1, <3>3 DEF ServesDock
      <4>1. owner = q /\ pc[q] \in Serving
        BY <3>2 DEF Places, NameHeld, Holding, Serving
      <4>2. /\ step[dock[a]] # "no" => srv[dock[a]] = q
            /\ \A r \in Procs, c \in Paths : actives[r][c] = dock[a] => r = q
        BY <4>1 DEF ServesDock
      <4> QED BY <3>5, <4>1, <4>2
    <3> QED BY <2>5, <3>4, <3>5 DEF Send
  <2>6. CASE Loop(p)
    <3> DEFINE s    == Head(signals[p])
               left == [actives[p] EXCEPT ![s.path] = Nobody]
    <3>1. /\ pc[p] = "loop" /\ signals[p] # <<>> /\ signals' = [signals EXCEPT ![p] = Tail(signals[p])]
          /\ UNCHANGED <<step, srv, dock, raced, matched>>
      BY <2>6 DEF Loop
    <3>2. \/ /\ actives[p][s.path] # Nobody /\ s.stop
             /\ actives' = [actives EXCEPT ![p] = left] /\ pc' = [pc EXCEPT ![p] = "count"]
          \/ (actives[p][s.path] = Nobody \/ ~s.stop) /\ UNCHANGED <<actives, pc>>
      BY <2>6 DEF Loop
    <3>3. \A q \in Procs : pc'[q] \in Serving => pc[q] \in Serving
      BY <3>1, <3>2 DEF Serving
    <3>4. \A q \in Procs, a \in Paths : actives'[q][a] \in {Nobody, actives[q][a]}
      <4>1. \A a \in Paths : left[a] \in {Nobody, actives[p][a]}
        OBVIOUS
      <4>2. actives' = actives \/ actives' = [actives EXCEPT ![p] = left]
        BY <3>2
      <4> HIDE DEF left
      <4> QED BY <4>1, <4>2
    <3>5. ServesDock'
      BY <3>1, <3>3, <3>4, ServesKept
    <3>6. Queues'
      <4> SUFFICES ASSUME NEW q \in Procs, NEW a \in Paths, pc'[q] \in Serving, a \notin raced
                   PROVE  Follows(signals'[q], a, actives'[q][a], dock[a])
        BY <3>1 DEF Queues
      <4>1. Follows(signals[q], a, actives[q][a], dock[a])
        BY <3>3 DEF Queues
      <4>2. CASE q # p
        BY <3>1, <3>2, <4>1, <4>2
      <4>3. CASE q = p
        <5>1. signals[p] \in Seq(Signal) /\ signals[p] # <<>> /\ signals'[p] = Tail(signals[p])
          BY <3>1
        <5>2. /\ s.path # a \/ ~s.stop => Follows(signals'[p], a, actives[p][a], dock[a])
              /\ s.path = a /\ s.stop => Follows(signals'[p], a, Nobody, dock[a])
          BY <4>1, <4>3, <5>1, FollowsTail
        <5>3. s.path # a \/ ~s.stop => actives'[p][a] = actives[p][a]
          BY <3>2
        <5>4. s.path = a /\ s.stop => actives'[p][a] = Nobody
          BY <3>2
        <5> HIDE DEF s
        <5> QED BY <4>3, <5>2, <5>3, <5>4
      <4> QED BY <4>2, <4>3
    <3> QED BY <3>5, <3>6
  <2>9. CASE Count(p)
    <3>1. UNCHANGED <<srv, step, dock, raced, actives, matched, signals>>
      BY <2>9 DEF Count
    <3>2. \A q \in Procs : pc'[q] \in Serving => pc[q] \in Serving
      BY <2>9 DEF Count, Serving
    <3> QED BY <3>1, <3>2, ServesKept, QueuesKept
  <2>7. CASE Release(p)
    <3>1. UNCHANGED <<srv, step, dock, raced, actives, matched, signals>>
      BY <2>7 DEF Release
    <3>2. \A q \in Procs : pc'[q] \in Serving => pc[q] \in Serving
      BY <2>7 DEF Release, Serving
    <3> QED BY <3>1, <3>2, ServesKept, QueuesKept
  <2>8. CASE Close(p)
    BY <2>8, ExitSignals DEF Close
  <2> QED BY <1>5, <2>1, <2>2, <2>3, <2>4, <2>5, <2>6, <2>7, <2>8, <2>9 DEF MainStep
<1>6. ASSUME NEW l \in Procs, CallStep(l) PROVE ServesDock' /\ Queues'
  <2>1. /\ step[l] # "no" /\ srv[l] \in Procs /\ pc[l] = IF srv[l] = l THEN "own" ELSE "wait"
        /\ step[l] \in Starts => pc[srv[l]] \in Exported
    BY <1>6 DEF CallStep, Dispatch, CheckActive, Connect, Insert, InitApplet, Places, CallsPlaced
  <2>2. UNCHANGED <<srv, dock, raced, signals>>
    BY <1>6 DEF CallStep, Dispatch, CheckActive, Connect, Insert, InitApplet, Finish, EndCall
  <2>3. \A q \in Procs : step'[q] # "no" => step[q] # "no"
    BY <1>6, <2>1 DEF CallStep, Dispatch, CheckActive, Connect, Insert, InitApplet, Finish, EndCall
  <2>4. \A q \in Procs : pc'[q] \in Serving => pc[q] \in Serving
    BY <1>6, <2>1 DEF CallStep, Dispatch, CheckActive, Connect, Insert, InitApplet, Finish, EndCall, Serving
  <2>5. CASE UNCHANGED <<actives, matched>>
    BY <2>2, <2>3, <2>4, <2>5, ServesKept, QueuesKept
  <2>6. CASE Connect(l)
    <3>1. step[l] = "connect" /\ UNCHANGED actives
      BY <2>6 DEF Connect
    <3>2. Queues'
      BY <2>2, <2>4, <3>1, QueuesKept
    <3>3. matched' = matched \/ matched' = [matched EXCEPT ![srv[l]] = @ \cup {App[l]}]
      BY <2>6 DEF Connect
    <3>4. ServesDock'
      <4> SUFFICES ASSUME NEW q \in Procs, NEW a \in Paths,
                          pc'[q] \in Serving, a \in matched'[q], a \notin raced, dock[a] # Nobody
                   PROVE  /\ step'[dock[a]] # "no" => srv[dock[a]] = q
                          /\ \A r \in Procs, c \in Paths : actives[r][c] = dock[a] => r = q
        BY <2>2, <3>1 DEF ServesDock
      <4>1. CASE a \in matched[q]
        BY <2>3, <2>4, <4>1 DEF ServesDock
      <4>2. CASE a \notin matched[q]
        <5>1. q = srv[l] /\ a = App[l]
          BY <2>1, <3>3, <4>2
        <5>2. dock[a] = l
          BY <3>1, <5>1 DEF Lives, Pending, NotYet
        <5>3. ASSUME NEW r \in Procs, NEW c \in Paths PROVE actives[r][c] # l
          <6>1. l # Nobody /\ step[l] \notin {"no", "init"}
            BY <1>0, <3>1
          <6> QED BY <6>1 DEF Lives, Hosts
        <5> QED BY <5>1, <5>2, <5>3
      <4> QED BY <4>1, <4>2
    <3> QED BY <3>2, <3>4
  <2>7. CASE Insert(l)
    <3> DEFINE p == srv[l]
               b == App[l]
    <3>1. /\ step[l] = "insert" /\ UNCHANGED matched /\ actives' = [actives EXCEPT ![p][b] = l]
          /\ UNCHANGED pc
      BY <2>7 DEF Insert
    <3>2. p \in Procs /\ b \in Paths
      BY <1>0, <2>1
    <3>3. b \notin raced => dock[b] = l /\ actives[p][b] = Nobody
      BY <3>1 DEF Lives, Pending, NotYet, Vacant
    <3>4. p = srv[l] /\ b = App[l]
      OBVIOUS
    <3> HIDE DEF p, b
    <3>5. \A q \in Procs, a \in Paths : actives'[q][a] = IF q = p /\ a = b THEN l ELSE actives[q][a]
      BY <3>1, <3>2
    <3>6. ServesDock'
      <4> SUFFICES ASSUME NEW q \in Procs, NEW a \in Paths,
                          pc[q] \in Serving, a \in matched[q], a \notin raced, dock[a] # Nobody
                   PROVE  /\ step'[dock[a]] # "no" => srv[dock[a]] = q
                          /\ \A r \in Procs, c \in Paths : actives'[r][c] = dock[a] => r = q
        BY <2>2, <3>1 DEF ServesDock
      <4>1. /\ step[dock[a]] # "no" => srv[dock[a]] = q
            /\ \A r \in Procs, c \in Paths : actives[r][c] = dock[a] => r = q
        BY DEF ServesDock
      <4>2. dock[a] = l => p = q
        BY <2>1, <3>4, <4>1
      <4> QED BY <2>3, <3>5, <4>1, <4>2
    <3>7. Queues'
      <4> SUFFICES ASSUME NEW q \in Procs, NEW a \in Paths, pc[q] \in Serving, a \notin raced
                   PROVE  Follows(signals[q], a, actives'[q][a], dock[a])
        BY <2>2, <3>1 DEF Queues
      <4>1. Follows(signals[q], a, actives[q][a], dock[a])
        BY DEF Queues
      <4>2. CASE q = p /\ a = b
        <5>1. Follows(signals[q], a, Nobody, dock[a]) /\ dock[a] = l /\ actives'[q][a] = l
          BY <3>3, <3>5, <4>1, <4>2
        <5> QED BY <5>1 DEF Follows
      <4>3. CASE ~(q = p /\ a = b)
        BY <3>5, <4>1, <4>3
      <4> QED BY <4>2, <4>3
    <3> QED BY <3>6, <3>7
  <2> QED BY <1>6, <2>5, <2>6, <2>7 DEF CallStep, Dispatch, CheckActive, InitApplet
<1>7. ASSUME NEW p \in Procs, MapRace(p) PROVE ServesDock' /\ Queues'
  BY <1>7, ExitSignals DEF MapRace
<1>8. CASE UNCHANGED vars
  BY <1>8, ServesKept, QueuesKept DEF vars
<1> QED BY <1>1, <1>2, <1>3, <1>4, <1>5, <1>6, <1>7, <1>8 DEF Next, DockStep

LEMMA SpecSInv == Spec => []SInv
<1>1. Init => SInv
  <2>1. Init => ServesDock
    BY DEF Init, ServesDock, Serving
  <2>2. Init => Queues
    BY DEF Init, Queues, Serving
  <2> QED BY <2>1, <2>2, InitIInv, InitLives DEF SInv
<1>2. SInv /\ [Next]_vars => SInv'
  BY NextTypeOK, NextPlaces, NextLives, NextSignals DEF SInv, IInv
<1> QED BY <1>1, <1>2, PTL DEF Spec

(* A signal reaches the instance it was emitted for or none, for any       *)
(* number of processes that start and stop the same applets               *)
(* (dispatchDbusSignal, StartApplet), as long as the stop of its path came *)
(* when the instance was there to get it.                                  *)
THEOREM SignalsFindTheirInstance == Spec => []SignalsReachTheirInstance
<1>1. SInv => SignalsReachTheirInstance
  <2> SUFFICES ASSUME SInv, NEW p \in Procs, pc[p] = "loop", signals[p] # <<>>,
                      Head(signals[p]).path \notin raced
               PROVE  actives[p][Head(signals[p]).path] \in {Head(signals[p]).inst, Nobody}
    BY DEF SignalsReachTheirInstance
  <2> DEFINE a == Head(signals[p]).path
  <2>1. signals[p] \in Seq(Signal) /\ Head(signals[p]) \in Signal
    BY DEF SInv, IInv, TypeOK
  <2>2. a \in Paths
    BY <2>1 DEF Signal
  <2>3. Follows(signals[p], a, actives[p][a], dock[a])
    BY <2>2 DEF SInv, Queues, Serving
  <2> QED BY <2>1, <2>3, FollowsHead
<1> QED BY <1>1, SpecSInv, PTL

(* An instance stays managed until its own stop (OnSignal, StartLoop),     *)
(* but for a stop that came too early, a start handled after the loop has  *)
(* ended and an abort of the program.                                      *)
THEOREM InstancesStay == Spec => ManagedUntilStopped
<1> DEFINE Stays ==
      \A p \in Procs, a \in Paths :
       LET l == actives[p][a]
       IN l # Nobody /\ actives'[p][a] # l =>
            \/ a \in raced
            \/ pc[p] = "loop" /\ signals[p] # <<>>
               /\ Head(signals[p]) = [path |-> a, inst |-> l, stop |-> TRUE]
            \/ pc'[p] = "ended" /\ (l \in late \/ pc[p] \in Serving)
<1>1. SInv /\ [Next]_vars => [Stays]_vars
  <2> SUFFICES ASSUME SInv, Next, NEW p \in Procs, NEW a \in Paths,
                      actives[p][a] # Nobody, actives'[p][a] # actives[p][a], a \notin raced
               PROVE  \/ pc[p] = "loop" /\ signals[p] # <<>>
                         /\ Head(signals[p]) = [path |-> a, inst |-> actives[p][a], stop |-> TRUE]
                      \/ pc'[p] = "ended" /\ (actives[p][a] \in late \/ pc[p] \in Serving)
    OBVIOUS
  <2> USE ServiceAssumption DEF SInv, IInv, TypeOK
  <2>1. ASSUME NEW q \in Procs, Loop(q)
        PROVE  /\ pc[p] = "loop" /\ signals[p] # <<>>
               /\ Head(signals[p]) = [path |-> a, inst |-> actives[p][a], stop |-> TRUE]
    <3> DEFINE s    == Head(signals[q])
               left == [actives[q] EXCEPT ![s.path] = Nobody]
    <3>1. actives' = [actives EXCEPT ![q] = left] /\ s.stop /\ pc[q] = "loop" /\ signals[q] # <<>>
      BY <2>1 DEF Loop
    <3>2. q = p /\ s.path = a
      BY <3>1
    <3>3. s \in Signal /\ signals[p] \in Seq(Signal)
      BY <3>1, <3>2
    <3>4. Follows(signals[p], a, actives[p][a], dock[a])
      BY <3>1, <3>2 DEF Queues, Serving
    <3>5. actives[p][a] = s.inst
      BY <3>1, <3>2, <3>3, <3>4, FollowsHead
    <3>6. s = [path |-> a, inst |-> actives[p][a], stop |-> TRUE]
      BY <3>1, <3>2, <3>3, <3>5 DEF Signal
    <3> QED BY <3>1, <3>2, <3>6
  <2>2. ASSUME NEW q \in Procs, Exit(q), pc[q] \in Exported
        PROVE  pc'[p] = "ended" /\ (actives[p][a] \in late \/ pc[p] \in Serving)
    <3>1. q = p /\ pc'[p] = "ended"
      BY <2>2 DEF Exit
    <3>2. pc[p] \in Serving \/ actives[p][a] \in late
      BY <2>2, <3>1 DEF Lives, Hosts, Exported, Serving
    <3> QED BY <3>1, <3>2
  <2>3. ASSUME NEW l \in Procs, Insert(l) PROVE FALSE
    <3>1. srv[l] \in Procs /\ App[l] \in Paths /\ step[l] = "insert"
      BY <2>3 DEF Insert, Places, CallsPlaced, Procs
    <3>2. p = srv[l] /\ a = App[l]
      BY <2>3, <3>1 DEF Insert
    <3> QED BY <3>1, <3>2 DEF Lives, Vacant
  <2>4. \/ \E q \in Procs : Loop(q) \/ Close(q) \/ MapRace(q) \/ Insert(q)
        \/ actives' = actives
    BY Zenon DEF Next, DockStep, MainStep, CallStep, DockLaunch, List, DockEvent, DockStop, RequestName, Export,
       Probe, Unprobe, Send, Count, Release, Dispatch, CheckActive, Connect, InitApplet, mgrVars
  <2>5. ASSUME NEW q \in Procs, Close(q) PROVE Exit(q) /\ pc[q] \in Exported
    BY <2>5 DEF Close, Exported
  <2>6. ASSUME NEW q \in Procs, MapRace(q) PROVE Exit(q) /\ pc[q] \in Exported
    BY <2>6 DEF MapRace, Handlers, Places, CallsPlaced
  <2> QED BY <2>1, <2>2, <2>3, <2>4, <2>5, <2>6
<1> QED BY <1>1, SpecSInv, PTL DEF Spec, ManagedUntilStopped
=============================================================================
