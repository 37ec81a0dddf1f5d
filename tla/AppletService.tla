----------------------------- MODULE AppletService -----------------------------
(***************************************************************************)
(* The grouped applets service: cmd/cdc (service), libs/srvdbus,           *)
(* libs/srvdbus/mgrdbus and libs/srvdbus/dbuscommon.                       *)
(*                                                                         *)
(* For each applet it activates the dock launches a process "cdc service". *)
(* The process that gets the bus name is the server: it runs its applet    *)
(* and those the other processes forward to it, until the dock has stopped *)
(* the last of them.  The others find the server by asking for the name    *)
(* themselves (GetClient), forward their start and quit.  The server runs  *)
(* each forwarded call in a goroutine, next to its loop.  Signals of the   *)
(* dock come in a channel the loop reads.                                  *)
(*                                                                         *)
(* A launch is named by its process, and so is the applet instance made    *)
(* for it, wherever it runs.                                               *)
(***************************************************************************)
EXTENDS Naturals, Sequences

CONSTANTS
  MaxProcs,    \* bound: processes launched
  Paths,       \* dbus paths of applets, keys of Manager.actives
  App,         \* path of the applet each process is launched for
  ChanCap,     \* capacity of the channel of signals (10 in SessionBus)
  MaxEvents    \* bound: events of the dock other than stop_module

ASSUME ServiceAssumption ==
  /\ MaxProcs \in Nat /\ App \in [1..MaxProcs -> Paths]
  /\ ChanCap \in Nat \ {0} /\ MaxEvents \in Nat

Procs  == 1..MaxProcs   \* in the order they are launched
Nobody == 0             \* no process, no instance

VARIABLES
  pc,        \* main goroutine of each process
  owner,     \* owner of the bus name SrvObj
  step,      \* Manager.StartApplet of each launch: "no", "sent", "check", ...
  srv,       \* process that runs it
  actives,   \* Manager.actives of each process
  matched,   \* paths each process receives the signals of
  signals,   \* Server.Events of each process
  dock,      \* the dock's view: launch that stands for each path
  events,    \* events emitted so far
  outcome,   \* history variable: how each launch ended
  met,       \* history variable: running server found by a launch, while it runs
  late,      \* history variable: instances inserted after the loop had ended
  raced      \* history variable: paths with a stop discarded, or for an applet not started

vars == <<pc, owner, step, srv, actives, matched, signals, dock, events,
          outcome, met, late, raced>>
dockVars == <<dock, events, raced>>
mgrVars  == <<actives, matched, signals, late>>
callVars == <<step, srv, outcome>>

Starts   == {"check", "connect", "insert", "init"}
Outcomes == {"none", "list", "served", "error", "nobody"}
Exported == {"own", "loop", "count", "leave", "close"}   \* the service object answers
Serving  == {"own", "loop", "count"}   \* and is there, to stay if it does not quit
Locations == {"off", "request", "export", "probe", "unprobe", "send", "wait", "ended"}
             \cup Exported
NoApplet == [a \in Paths |-> Nobody]

Managed(p)  == {actives[p][a] : a \in Paths} \ {Nobody}
Active(l)   == \E p \in Procs : l \in Managed(p)
Signal      == [path : Paths, inst : Procs, stop : BOOLEAN]
\* Handlers of Manager.StartApplet that process p runs.
Handlers(p) == {l \in Procs : srv[l] = p /\ step[l] \in Starts}
\* Calls that are lost with the connection of p.
Calls(p)    == {l \in Procs \ {p} : srv[l] = p /\ step[l] # "no"}

Init ==
  /\ pc = [p \in Procs |-> "off"] /\ owner = Nobody
  /\ step = [p \in Procs |-> "no"] /\ srv = [p \in Procs |-> Nobody]
  /\ actives = [p \in Procs |-> NoApplet]
  /\ matched = [p \in Procs |-> {}] /\ signals = [p \in Procs |-> <<>>]
  /\ dock = NoApplet /\ events = 0
  /\ outcome = [p \in Procs |-> "none"] /\ met = [p \in Procs |-> Nobody]
  /\ late = {} /\ raced = {}

Goto(p, l) == pc' = [pc EXCEPT ![p] = l]

\* The launches that had met server p meet nobody any more.
Forget(p) == met' = [l \in Procs |-> IF met[l] = p THEN Nobody ELSE met[l]]

EndCall(l, o) ==
  /\ step' = [step EXCEPT ![l] = "no"]
  /\ outcome' = [outcome EXCEPT ![l] = o]

(***************************************************************************)
(* The dock: it launches a process for an applet that has none, sends      *)
(* events to the applets it shows and stop_module to those it removes.     *)
(***************************************************************************)
Fresh(p) == pc[p] = "off" /\ \A q \in Procs : q < p => pc[q] # "off"

DockLaunch(p) ==
  /\ Fresh(p) /\ dock[App[p]] = Nobody
  /\ dock' = [dock EXCEPT ![App[p]] = p]
  /\ Goto(p, "request")
  /\ UNCHANGED <<owner, events, raced, callVars, mgrVars, met>>

\* A process "cdc service list": it only looks for the server.
List(p) ==
  /\ Fresh(p) /\ Goto(p, "probe")
  /\ outcome' = [outcome EXCEPT ![p] = "list"]
  /\ UNCHANGED <<owner, step, srv, dockVars, mgrVars, met>>

\* The bus gives signal s to the processes that match its path; a full
\* channel may discard it.
Deliver(s, lostAt) ==
  /\ lostAt \subseteq {p \in Procs : s.path \in matched[p] /\ Len(signals[p]) >= ChanCap}
  /\ signals' = [p \in Procs |-> IF s.path \in matched[p] /\ p \notin lostAt
                                   THEN Append(signals[p], s) ELSE signals[p]]

DockEvent(a) ==
  /\ dock[a] # Nobody /\ events < MaxEvents
  /\ \E lostAt \in SUBSET Procs : Deliver([path |-> a, inst |-> dock[a], stop |-> FALSE], lostAt)
  /\ events' = events + 1
  /\ UNCHANGED <<pc, owner, dock, raced, callVars, actives, matched, late, met>>

DockStop(a) ==
  /\ dock[a] # Nobody
  /\ \E lostAt \in SUBSET Procs :
       /\ Deliver([path |-> a, inst |-> dock[a], stop |-> TRUE], lostAt)
       /\ raced' = IF lostAt # {} \/ ~Active(dock[a]) THEN raced \cup {a} ELSE raced
  /\ dock' = [dock EXCEPT ![a] = Nobody]
  /\ UNCHANGED <<pc, owner, events, callVars, actives, matched, late, met>>

(***************************************************************************)
(* Plausible faults, for the mutant runs.                                  *)
(***************************************************************************)
RequestNameQueued(p) ==      \* the reply is not tested
  /\ pc[p] = "request"
  /\ owner' = IF owner = Nobody THEN p ELSE owner
  /\ Goto(p, "export")
  /\ UNCHANGED <<dockVars, callVars, mgrVars, met>>

ProbeNever(p) ==             \* GetClient takes a queued name for its own
  /\ pc[p] = "probe"
  /\ owner' = IF owner = Nobody THEN p ELSE owner
  /\ Goto(p, "unprobe")
  /\ UNCHANGED <<dockVars, callVars, mgrVars, met>>

CheckNothing(l) ==           \* an applet may be started twice
  /\ step[l] = "check"
  /\ step' = [step EXCEPT ![l] = "connect"]
  /\ UNCHANGED <<pc, srv, outcome, owner, dockVars, mgrVars, met>>

FinishNoReply(l, o) ==       \* the caller waits for ever
  /\ EndCall(l, o)
  /\ pc' = [pc EXCEPT ![l] = IF srv[l] = l THEN "loop" ELSE pc[l]]

AfterStopFirst(p, table) == "leave"    \* the loop ends with any applet

(***************************************************************************)
(* A process of cdc.  service: Server.Start asks for the name.             *)
(***************************************************************************)
RequestName(p) ==
  /\ pc[p] = "request"
  /\ \/ /\ owner = Nobody
        /\ owner' = p /\ Goto(p, "export") /\ UNCHANGED met
     \/ /\ owner # Nobody
        /\ met' = [met EXCEPT ![p] = IF pc[owner] \in Serving THEN owner ELSE Nobody]
        /\ Goto(p, "probe") /\ UNCHANGED owner
  /\ UNCHANGED <<dockVars, callVars, mgrVars>>

\* Server.Start exports the object, service starts its own applet.
Export(p) ==
  /\ pc[p] = "export"
  /\ Goto(p, "own")
  /\ srv' = [srv EXCEPT ![p] = p]
  /\ step' = [step EXCEPT ![p] = "check"]
  /\ UNCHANGED <<owner, outcome, dockVars, mgrVars, met>>

\* GetClient: takes the name if nobody has it, which means there is no server.
Probe(p) ==
  /\ pc[p] = "probe"
  /\ \/ owner = Nobody /\ owner' = p /\ Goto(p, "unprobe")
     \/ owner # Nobody /\ Goto(p, "send") /\ UNCHANGED owner
  /\ UNCHANGED <<dockVars, callVars, mgrVars, met>>

Unprobe(p) ==
  /\ pc[p] = "unprobe"
  /\ owner' = IF owner = p THEN Nobody ELSE owner
  /\ outcome' = [outcome EXCEPT ![p] = "nobody"]
  /\ Goto(p, "ended")
  /\ UNCHANGED <<step, srv, dockVars, mgrVars, met>>

\* The call goes to the owner the name has now.
Send(p) ==
  /\ pc[p] = "send"
  /\ \/ /\ owner # Nobody /\ outcome[p] = "none"
        /\ srv' = [srv EXCEPT ![p] = owner]
        /\ step' = [step EXCEPT ![p] = "sent"]
        /\ Goto(p, "wait") /\ UNCHANGED outcome
     \/ /\ owner = Nobody \/ outcome[p] = "list"   \* no server, or only a list
        /\ outcome' = [outcome EXCEPT ![p] = IF @ = "list" THEN @ ELSE "nobody"]
        /\ Goto(p, "ended") /\ UNCHANGED <<srv, step>>
  /\ UNCHANGED <<owner, dockVars, mgrVars, met>>

(***************************************************************************)
(* Manager.StartApplet for launch l, in process srv[l].  Its end lets the  *)
(* server's main goroutine enter the loop, or the caller quit.             *)
(***************************************************************************)
Finish(l, o) ==
  /\ EndCall(l, o)
  /\ pc' = [pc EXCEPT ![l] = IF srv[l] = l THEN "loop" ELSE "ended"]

\* The connection dispatches the call, or answers that no object has it.
Dispatch(l) ==
  /\ step[l] = "sent"
  /\ \/ /\ pc[srv[l]] \in Exported
        /\ step' = [step EXCEPT ![l] = "check"] /\ UNCHANGED <<pc, outcome>>
     \/ pc[srv[l]] \notin Exported /\ Finish(l, "nobody")
  /\ UNCHANGED <<owner, srv, dockVars, mgrVars, met>>

CheckActive(l) ==
  /\ step[l] = "check"
  /\ \/ actives[srv[l]][App[l]] # Nobody /\ Finish(l, "error")
     \/ /\ actives[srv[l]][App[l]] = Nobody
        /\ step' = [step EXCEPT ![l] = "connect"] /\ UNCHANGED <<pc, outcome>>
  /\ UNCHANGED <<owner, srv, dockVars, mgrVars, met>>

\* New, ConnectEvents: may fail, with or without the first match added.
Connect(l) ==
  /\ step[l] = "connect"
  /\ \/ /\ step' = [step EXCEPT ![l] = "insert"]
        /\ matched' = [matched EXCEPT ![srv[l]] = @ \cup {App[l]}]
        /\ UNCHANGED <<pc, outcome>>
     \/ /\ Finish(l, "error")
        /\ matched' \in {matched, [matched EXCEPT ![srv[l]] = @ \cup {App[l]}]}
  /\ UNCHANGED <<owner, srv, dockVars, actives, signals, late, met>>

Insert(l) ==
  /\ step[l] = "insert"
  /\ actives' = [actives EXCEPT ![srv[l]][App[l]] = l]
  /\ late' = IF pc[srv[l]] \in {"leave", "close"} THEN late \cup {l} ELSE late
  /\ step' = [step EXCEPT ![l] = "init"]
  /\ UNCHANGED <<pc, srv, outcome, owner, dockVars, matched, signals, met>>

\* callinit: an error is answered, the entry stays.
InitApplet(l) ==
  /\ step[l] = "init"
  /\ \E o \in {"served", "error"} : Finish(l, o)
  /\ UNCHANGED <<owner, srv, dockVars, mgrVars, met>>

(***************************************************************************)
(* Loader.StartLoop: dispatchDbusSignal, OnSignal, StopApplet, CountActive.*)
(***************************************************************************)
\* Where the loop goes after a stop, with the table it finds then.
AfterStop(p, table) == IF table = NoApplet THEN "leave" ELSE "loop"

Loop(p) ==
  /\ pc[p] = "loop" /\ signals[p] # <<>>
  /\ LET s == Head(signals[p])
     IN \/ /\ actives[p][s.path] # Nobody /\ s.stop
           /\ actives' = [actives EXCEPT ![p][s.path] = Nobody]
           /\ Goto(p, "count")
        \/ /\ actives[p][s.path] = Nobody \/ ~s.stop   \* unknown, or an event
           /\ UNCHANGED <<actives, pc>>
  /\ signals' = [signals EXCEPT ![p] = Tail(@)]
  /\ UNCHANGED <<owner, callVars, dockVars, matched, late, met>>

\* CountActive, after a stop: a handler may have inserted an applet meanwhile.
Count(p) ==
  /\ pc[p] = "count"
  /\ Goto(p, AfterStop(p, actives[p]))
  /\ IF AfterStop(p, actives[p]) = "leave" THEN Forget(p) ELSE UNCHANGED met
  /\ UNCHANGED <<owner, callVars, dockVars, mgrVars>>

\* The deferred ReleaseName of StartLoop.
Release(p) ==
  /\ pc[p] = "leave"
  /\ owner' = IF owner = p THEN Nobody ELSE owner
  /\ Goto(p, "close")
  /\ UNCHANGED <<dockVars, callVars, mgrVars, met>>

\* The end of process p: the calls it runs get no answer but an error.
Exit(p) ==
  /\ pc' = [l \in Procs |-> IF l = p \/ l \in Calls(p) THEN "ended" ELSE pc[l]]
  /\ step' = [l \in Procs |-> IF l = p \/ l \in Calls(p) THEN "no" ELSE step[l]]
  /\ outcome' = [l \in Procs |-> IF (l = p \/ l \in Calls(p)) /\ outcome[l] = "none"
                                   THEN "nobody" ELSE outcome[l]]
  /\ actives' = [actives EXCEPT ![p] = NoApplet]
  /\ matched' = [matched EXCEPT ![p] = {}]
  /\ signals' = [signals EXCEPT ![p] = <<>>]
  /\ UNCHANGED <<srv, dockVars, late>>

\* Conn.Close, then service returns and the program ends.
Close(p) == pc[p] = "close" /\ Exit(p) /\ UNCHANGED <<owner, met>>

\* A handler writes the map of actives while the loop or another handler
\* uses it, without a lock: the Go runtime may abort the program.
MapRace(p) ==
  /\ \E l \in Handlers(p) :
       /\ step[l] = "insert"
       /\ pc[p] = "loop" \/ \E m \in Handlers(p) \ {l} : step[m] \in {"check", "insert"}
  /\ Exit(p) /\ Forget(p)
  /\ owner' = IF owner = p THEN Nobody ELSE owner

DockStep == (\E p \in Procs : DockLaunch(p) \/ List(p))
            \/ \E a \in Paths : DockEvent(a) \/ DockStop(a)
MainStep(p) == RequestName(p) \/ Export(p) \/ Probe(p) \/ Unprobe(p) \/ Send(p)
               \/ Loop(p) \/ Count(p) \/ Release(p) \/ Close(p)
CallStep(l) == Dispatch(l) \/ CheckActive(l) \/ Connect(l) \/ Insert(l) \/ InitApplet(l)

Next == DockStep \/ \E p \in Procs : MainStep(p) \/ CallStep(p) \/ MapRace(p)

\* Go and the bus run what can run.  The main goroutine of p and the handler of
\* its launch are never both able to run: one waits for the other.
Fairness == \A p \in Procs : WF_vars(MainStep(p) \/ CallStep(p))

Spec == Init /\ [][Next]_vars /\ Fairness

(***************************************************************************)
(* Properties.                                                             *)
(***************************************************************************)
\* Each variable has its type.
TypeOK ==
  /\ pc \in [Procs -> Locations]
  /\ owner \in Procs \cup {Nobody}
  /\ step \in [Procs -> {"no", "sent"} \cup Starts]
  /\ srv \in [Procs -> Procs \cup {Nobody}]
  /\ actives \in [Procs -> [Paths -> Procs \cup {Nobody}]]
  /\ matched \in [Procs -> SUBSET Paths]
  /\ signals \in [Procs -> Seq(Signal)]
  /\ dock \in [Paths -> Procs \cup {Nobody}] /\ events \in 0..MaxEvents
  /\ outcome \in [Procs -> Outcomes]
  /\ met \in [Procs -> Procs \cup {Nobody}]
  /\ late \subseteq Procs /\ raced \subseteq Paths

\* There is one server: whoever exports, runs applets or loops holds the name,
\* however many processes ask for it to look for a server (Server.Start,
\* GetClient), and an instance or a start in progress is in such a process or
\* in one that is leaving.
OneServer ==
  \A p \in Procs :
    /\ pc[p] \in {"export", "own", "loop", "count", "leave", "unprobe"} => owner = p
    /\ Managed(p) \cup Handlers(p) # {} => pc[p] \in Exported

\* A signal reaches the instance it was emitted for, or none: an applet that
\* is removed and added again never gets the events, nor the stop, of its
\* former life (dispatchDbusSignal, OnSignal, StartApplet), unless a stop was
\* discarded or came for an instance that was not started, or not yet.
SignalsReachTheirInstance ==
  \A p \in Procs : pc[p] = "loop" /\ signals[p] # <<>> =>
    LET s == Head(signals[p])
    IN s.path \in raced \/ actives[p][s.path] \in {s.inst, Nobody}

\* A start that meets a running server is handled by a server, if that one
\* stays: other processes that look for the service never hide it (GetClient).
StartsReachTheServer ==
  \A l \in Procs : met[l] # Nobody /\ pc[l] = "ended" => outcome[l] # "nobody"

\* An instance stays managed until its own stop: other stops do not end it, nor
\* the loop.  What is excepted is what the code leaves open: a stop that came
\* too early or was discarded, a start handled after the loop has ended, an abort of the program.
ManagedUntilStopped ==
  [][\A p \in Procs, a \in Paths :
       LET l == actives[p][a]
       IN l # Nobody /\ actives'[p][a] # l =>
            \/ a \in raced
            \/ pc[p] = "loop" /\ signals[p] # <<>>
               /\ Head(signals[p]) = [path |-> a, inst |-> l, stop |-> TRUE]
            \/ pc'[p] = "ended" /\ (l \in late \/ pc[p] \in Serving)]_vars

\* Once the dock launches nothing more every process comes to rest: it serves
\* in its loop, or it quits.  No caller waits for a server that is gone, no
\* process keeps the name it took to look for one (service, StartApplet,
\* GetClient).
LaunchesEnd == <>[](\A p \in Procs : pc[p] \in {"off", "loop", "ended"})

(***************************************************************************)
(* Refuted: srvdbus.go:98 says "Keep service alive if we still manage some *)
(* applets."                                                               *)
(***************************************************************************)
\* A service that has given its name back manages no applet.
AliveWhileManaging == \A p \in Procs : pc[p] = "close" => Managed(p) = {}
=============================================================================
