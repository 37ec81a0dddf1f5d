------------------------------- MODULE Uploader -------------------------------
(***************************************************************************)
(* libs/net/uptoshare: UploadGuess, its channel of pending items and the   *)
(* history of links.                                                       *)
(*                                                                         *)
(* Each item dropped on the icon is handed to UploadGuess in a goroutine   *)
(* of its own (uploadConfirm).  It sends the item on a buffered channel,   *)
(* blocking when it is full; the goroutine that finds active unset becomes *)
(* the worker and empties the channel.  The event loop may at any time     *)
(* reload the applet, which reads the history file again.                  *)
(***************************************************************************)
EXTENDS Naturals, Sequences, FiniteSets, SequencesExt

CONSTANTS
  Items,        \* one per goroutine of uploadConfirm; a link is its item
  Cap,          \* capacity of the channel (10 in New)
  Idle,         \* a worker that has received nothing
  HistoryMax,   \* historyMax; 0 is unlimited
  Panics,       \* uploadOne may panic
  MaxReloads    \* bound: reloads of the applet

ASSUME ConstantsAssumption ==
  /\ Idle \notin Items
  /\ Cap \in Nat \ {0} /\ HistoryMax \in Nat /\ MaxReloads \in Nat
  /\ Panics \in BOOLEAN

VARIABLES
  queue,       \* chan string
  active,      \* Uploader.active
  pc,          \* goroutine of each item
  cur,         \* item a worker received
  reg,         \* list a worker computed from the history it read
  history,     \* Uploader.history
  file,        \* history file
  linked,      \* history variable: items uploaded with a link, in order
  sent,        \* history variable: items sent on the channel, in order
  received,    \* history variable: items received from it, in order
  raced,       \* history variable: two updates of the list overlapped
  reload,      \* step of a reload: "no", "clear", "read", "trim"
  reloads      \* reloads so far

hist     == <<history, file, reload, reloads>>
chanVars == <<sent, received>>
vars == <<queue, active, pc, cur, reg, hist, linked, chanVars, raced>>

Working   == {"loop", "recv", "upload", "append", "appendw", "trim", "save",
              "post"}
Locations == {"off", "send", "test", "set", "done", "dead"} \cup Working
Workers   == {i \in Items : pc[i] \in Working}

\* trimHistory
Trimmed(h) == IF HistoryMax > 0 /\ Len(h) > HistoryMax
                THEN SubSeq(h, Len(h) - HistoryMax + 1, Len(h)) ELSE h

Init ==
  /\ queue = <<>> /\ active = FALSE
  /\ pc = [i \in Items |-> "off"] /\ cur = [i \in Items |-> Idle]
  /\ reg = [i \in Items |-> <<>>]
  /\ history = <<>> /\ file = <<>>
  /\ linked = <<>> /\ sent = <<>> /\ received = <<>>
  /\ raced = FALSE
  /\ reload = "no" /\ reloads = 0

(***************************************************************************)
(* The list is read, updated and written back without a lock: two workers  *)
(* overlap between the read and the trim, a reload until the save as well. *)
(***************************************************************************)
Updating == {"appendw", "trim"}
Races(pcs, r) ==
  \/ \E i, j \in Items : i # j /\ pcs[i] \in Updating /\ pcs[j] \in Updating
  \/ r # "no" /\ \E i \in Items : pcs[i] \in Updating \cup {"save"}
Goto(i, l) ==
  /\ pc' = [pc EXCEPT ![i] = l]
  /\ raced' = (raced \/ Races(pc', reload))
ReloadAt(r) ==
  /\ reload' = r
  /\ raced' = (raced \/ Races(pc, r))

(***************************************************************************)
(* Plausible faults, for the mutant runs.                                  *)
(***************************************************************************)
SaveLeaves(i) ==             \* return instead of the next turn of the loop
  /\ pc[i] = "save"
  /\ file' = history
  /\ cur' = [cur EXCEPT ![i] = Idle]
  /\ Goto(i, "post")
  /\ UNCHANGED <<queue, active, reg, history, reload, reloads, linked, chanVars>>

SaveForgets(i) ==
  /\ pc[i] = "save"
  /\ cur' = [cur EXCEPT ![i] = Idle]
  /\ Goto(i, "loop")
  /\ UNCHANGED <<queue, active, reg, hist, linked, chanVars>>

ReloadKeeps ==               \* loadHistory without up.history = nil
  /\ reload = "no" /\ reloads < MaxReloads
  /\ reloads' = reloads + 1
  /\ ReloadAt("read")
  /\ UNCHANGED <<queue, active, pc, cur, reg, history, file, linked, chanVars>>

(***************************************************************************)
(* UploadGuess, in the goroutine of item i.                                *)
(***************************************************************************)

Drop(i) ==
  /\ pc[i] = "off"
  /\ Goto(i, "send")
  /\ UNCHANGED <<queue, active, cur, reg, hist, linked, chanVars>>

Send(i) ==
  /\ pc[i] = "send" /\ Len(queue) < Cap
  /\ queue' = Append(queue, i)
  /\ sent' = Append(sent, i)
  /\ Goto(i, "test")
  /\ UNCHANGED <<active, cur, reg, hist, linked, received>>

\* if !up.active: another goroutine is the worker, or this one becomes it.
TestActive(i) ==
  /\ pc[i] = "test"
  /\ Goto(i, IF active THEN "done" ELSE "set")
  /\ UNCHANGED <<queue, active, cur, reg, hist, linked, chanVars>>

SetActive(i) ==
  /\ pc[i] = "set"
  /\ active' = TRUE
  /\ Goto(i, "loop")
  /\ UNCHANGED <<queue, cur, reg, hist, linked, chanVars>>

\* for len(up.queue) > 0
Loop(i) ==
  /\ pc[i] = "loop"
  /\ Goto(i, IF queue # <<>> THEN "recv" ELSE "post")
  /\ UNCHANGED <<queue, active, cur, reg, hist, linked, chanVars>>

\* Blocks when another worker has taken the last item since the test.
Receive(i) ==
  /\ pc[i] = "recv" /\ queue # <<>>
  /\ queue' = Tail(queue)
  /\ cur' = [cur EXCEPT ![i] = Head(queue)]
  /\ received' = Append(received, Head(queue))
  /\ Goto(i, "upload")
  /\ UNCHANGED <<active, reg, hist, linked, sent>>

\* uploadOne returns links, or an error that is not recorded, or panics.
Upload(i) ==
  /\ pc[i] = "upload"
  /\ \/ Goto(i, "append") /\ UNCHANGED cur
     \/ Goto(i, "loop") /\ cur' = [cur EXCEPT ![i] = Idle]
     \/ Panics /\ Goto(i, "dead") /\ cur' = [cur EXCEPT ![i] = Idle]
  /\ UNCHANGED <<queue, active, reg, hist, linked, chanVars>>

\* addHistory: up.history = append(up.history, list) ...
AddHistory(i) ==
  /\ pc[i] = "append"
  /\ reg' = [reg EXCEPT ![i] = Append(history, cur[i])]
  /\ Goto(i, "appendw")
  /\ UNCHANGED <<queue, active, cur, hist, linked, chanVars>>

AddHistoryWrite(i) ==
  /\ pc[i] = "appendw"
  /\ history' = reg[i]
  /\ linked' = Append(linked, cur[i])
  /\ reg' = [reg EXCEPT ![i] = <<>>]
  /\ Goto(i, "trim")
  /\ UNCHANGED <<queue, active, cur, file, reload, reloads, chanVars>>

\* ... trimHistory ...
TrimHistory(i) ==
  /\ pc[i] = "trim"
  /\ history' = Trimmed(history)
  /\ Goto(i, "save")
  /\ UNCHANGED <<queue, active, cur, reg, file, reload, reloads, linked, chanVars>>

\* ... and saveHistory, which reads the list and writes the file under the
\* config lock. Then onResult, a dialog and the clipboard.
SaveHistory(i) ==
  /\ pc[i] = "save"
  /\ file' = history
  /\ cur' = [cur EXCEPT ![i] = Idle]
  /\ Goto(i, "loop")
  /\ UNCHANGED <<queue, active, reg, history, reload, reloads, linked, chanVars>>

\* actionPost, then active = false.
Post(i) ==
  /\ pc[i] = "post"
  /\ active' = FALSE
  /\ Goto(i, "done")
  /\ UNCHANGED <<queue, cur, reg, hist, linked, chanVars>>

Step(i) ==
  \/ Send(i) \/ TestActive(i) \/ SetActive(i) \/ Loop(i) \/ Receive(i)
  \/ Upload(i) \/ AddHistory(i) \/ AddHistoryWrite(i) \/ TrimHistory(i)
  \/ SaveHistory(i) \/ Post(i)

(***************************************************************************)
(* Applet.Init on a reload: SetHistoryFile clears the list, then appends   *)
(* what it reads (under the config lock); SetHistorySize trims.            *)
(***************************************************************************)
ReloadClear ==
  /\ reload = "no" /\ reloads < MaxReloads
  /\ reloads' = reloads + 1
  /\ history' = <<>> /\ ReloadAt("read")
  /\ UNCHANGED <<queue, active, pc, cur, reg, file, linked, chanVars>>

ReloadRead ==
  /\ reload = "read"
  /\ history' = history \o file
  /\ ReloadAt("trim")
  /\ UNCHANGED <<queue, active, pc, cur, reg, file, reloads, linked, chanVars>>

ReloadTrim ==
  /\ reload = "trim"
  /\ history' = Trimmed(history)
  /\ ReloadAt("no")
  /\ UNCHANGED <<queue, active, pc, cur, reg, file, reloads, linked, chanVars>>

Next ==
  \/ \E i \in Items : Drop(i) \/ Step(i)
  \/ ReloadClear \/ ReloadRead \/ ReloadTrim

Spec == Init /\ [][Next]_vars

\* Goroutines that can run do; an upload comes to an end.
FairSpec == Spec /\ \A i \in Items : WF_vars(Step(i))
-----------------------------------------------------------------------------
TypeOK ==
  /\ queue \in Seq(Items) /\ Len(queue) <= Cap /\ active \in BOOLEAN
  /\ pc \in [Items -> Locations] /\ cur \in [Items -> Items \cup {Idle}]
  /\ reg \in [Items -> Seq(Items)]
  /\ history \in Seq(Items) /\ file \in Seq(Items)
  /\ linked \in Seq(Items) /\ sent \in Seq(Items) /\ received \in Seq(Items)
  /\ raced \in BOOLEAN /\ reload \in {"no", "read", "trim"} /\ reloads \in Nat

(* Every item is uploaded at most once (TaskPool), whoever works.          *)
Pool == INSTANCE TaskPool WITH Tasks <- Items,
                               pending <- ToSet(queue), taken <- ToSet(received)
TakenOnce == Pool!Spec

(* Several workers may run, for active is tested and set without a lock,   *)
(* and take each other's items: one of them then waits in the receive for  *)
(* ever. Whoever becomes a worker, its own item goes out all the same,     *)
(* unless a worker panicked.                                               *)
WorkerTakesItsItem ==
  \A i \in Items : pc[i] = "set" ~>
    i \in ToSet(received) \/ \E j \in Items : pc[j] = "dead"

(* The file is the history as soon as no save is pending, even when        *)
(* several workers add links in turn, and reloads between the updates of   *)
(* the list change neither.                                                *)
NoReload == reload = "no" /\ ~raced
FileIsHistory ==
  NoReload /\ (\A i \in Items : pc[i] \notin {"trim", "save"}) => file = history

(* The history holds the last historyMax links, each once and in the order *)
(* in which they were obtained, as long as updates of the list by workers  *)
(* and reloads did not overlap.                                            *)
LinksKept ==
  NoReload /\ (\A i \in Items : pc[i] # "trim") =>
    /\ \E n \in 0..Len(linked) : linked = SubSeq(linked, 1, n) \o history
    /\ Len(history) = IF HistoryMax = 0 \/ Len(linked) <= HistoryMax
                         THEN Len(linked) ELSE HistoryMax

(* When a worker panics, active stays set behind it: later items wait in   *)
(* the channel, and when it is full their goroutines block for ever.       *)
Orphaned == active /\ Workers = {} /\ \A i \in Items : pc[i] # "set"
OrphanedIsFinal == [][Orphaned => Orphaned' /\ received' = received]_vars

(* NetActivity.go:216 "UpToShareLinks gets all links of items sent to      *)
(* one-click hosting services": unlimited, the history holds all of them.  *)
AllLinksKept ==
  HistoryMax = 0 /\ Workers = {} /\ reload = "no" => ToSet(linked) \subseteq ToSet(history)
=============================================================================
