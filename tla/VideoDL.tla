------------------------------- MODULE VideoDL -------------------------------
(***************************************************************************)
(* libs/net/videodl: the download Manager and its HistoryVideo.            *)
(*                                                                         *)
(* The event loop of the applet (one goroutine: menu and dialog answers)   *)
(* enqueues videos and toggles the activity; Manager.Start launches worker *)
(* goroutines that take the head of the queue, download it and move it to  *)
(* the done list; both sides rewrite the history file after each change.   *)
(* The web service removes videos from the done list, one request at a     *)
(* time here, and saves nothing.  Nothing is locked: each read and each    *)
(* write of a field is a step of its own, the queue and the list being     *)
(* read, updated and written back.                                         *)
(*                                                                         *)
(* trim does nothing: History.Max is -1 from history.New and only uploads  *)
(* call SetHistorySize.                                                    *)
(***************************************************************************)
EXTENDS Naturals, Sequences, FiniteSets, SequencesExt

CONSTANTS
  Videos,          \* *Video values
  Workers,         \* goroutines that Start may launch
  None,            \* no video
  Edits,           \* the quality of a known video may be edited
  TestsFail,       \* testFiler may fail (host unreachable)
  DiskFails,       \* WriteFile may fail
  Toggles,         \* EnabledDL may be toggled
  Removals,        \* the web page may remove videos
  Crashes,         \* the process may crash
  MaxAdds,         \* bound: calls of EnqueueAndStart
  MaxEvents        \* bound: those, toggles, removals and crashes

ASSUME ConstantsAssumption ==
  /\ None \notin Videos /\ IsFiniteSet(Videos)
  /\ Edits \in BOOLEAN /\ TestsFail \in BOOLEAN /\ DiskFails \in BOOLEAN
  /\ Toggles \in BOOLEAN /\ Removals \in BOOLEAN /\ Crashes \in BOOLEAN
  /\ MaxAdds \in Nat /\ MaxEvents \in Nat

VARIABLES
  queue, list,     \* HistoryVideo.Queue and .List
  dated,           \* videos with DateDone set
  file,            \* content of the history file: <<video, dated>> pairs, or
                   \* <<>> when its JSON does not parse
  active,          \* Manager.active
  enabled,         \* Config.EnabledDL
  loop, reg,       \* what the event loop does; the slice or data it computed
  job,             \* video the event loop is enqueueing
  web, wbreg, gone,\* same for a web request, and the video it removes
  wpc, wreg,       \* same for each worker
  wvid,            \* video a worker downloads
  order,           \* history: enqueued videos that nobody removed, oldest first
  marshalled,      \* history: order and its dates when a save marshalled
  stored,          \* history: the same, of the last save that wrote the file
  unsaved,         \* history: videos removed by the page since that marshalling
  broken,          \* history: the last write of the file failed
  crowded,         \* history: two workers have been running together
  mixed,           \* history: updates that overlapped: of the same "slices",
                   \* of the lists by loop and worker until their "saves"
  crashed,         \* history: the process crashed
  adds, events     \* bounded counters

memory   == <<queue, list, dated>>
loopVars == <<loop, reg, job>>
webVars  == <<web, wbreg, gone>>
workVars == <<wpc, wreg, wvid>>
saveVars == <<marshalled, stored, unsaved, broken>>
histVars == <<order, crowded>>
counters == <<crashed, adds, events>>
vars == <<memory, file, active, enabled, loopVars, webVars, workVars, saveVars,
          histVars, mixed, counters>>

LoopSteps   == {"idle", "rmw", "add", "addw", "save", "savew", "start"}
WorkerSteps == {"off", "begin", "next", "test", "download", "append", "appendw",
                "pop", "popw", "save", "savew", "post"}

\* Workers between active = true and active = false.
Running == {w \in Workers : wpc[w] \notin {"off", "begin"}}

(***************************************************************************)
(* Which updates overlap when the loop is at l, the web request at b and   *)
(* the workers at ws: between its read and its write of a slice ("rmw",    *)
(* "appendw": the list; "addw", "popw": the queue) nobody else may be.     *)
(***************************************************************************)
Saving   == {"rmw", "add", "addw", "save", "savew"}
Updating == {"append", "appendw", "pop", "popw", "save", "savew"}
Mixing(l, b, ws) ==
  LET at(S) == \E w \in Workers : ws[w] \in S
  IN (IF \/ l = "addw" /\ at({"popw"})
         \/ l = "rmw" /\ (b = "rmw" \/ at({"appendw"}))
         \/ b = "rmw" /\ at({"appendw"})
        THEN {"slices"} ELSE {}) \cup
     (IF l \in Saving /\ at(Updating) THEN {"saves"} ELSE {})

LoopAt(l) == loop' = l /\ mixed' = mixed \cup Mixing(l, web, wpc)
WebAt(b) == web' = b /\ mixed' = mixed \cup Mixing(loop, b, wpc)
WorkerAt(w, l) ==
  /\ wpc' = [wpc EXCEPT ![w] = l]
  /\ mixed' = mixed \cup Mixing(loop, web, wpc')

\* Something the user or the system does, up to the bound.
Event == events < MaxEvents /\ events' = events + 1 /\ UNCHANGED crashed

\* Videos with their dates, as they are saved: DateDone is a field of each video.
RecordsOf(s) == [i \in 1..Len(s) |-> <<s[i], s[i] \in dated>>]

\* The applet starts with what an earlier session has saved as done.
Init ==
  /\ queue = <<>> /\ dated \in SUBSET Videos /\ list = SetToSeq(dated)
  /\ file = RecordsOf(list)
  /\ active = FALSE /\ enabled = TRUE
  /\ loop = "idle" /\ reg = <<>> /\ job = None
  /\ web = "idle" /\ wbreg = <<>> /\ gone = None
  /\ wpc = [w \in Workers |-> "off"]
  /\ wreg = [w \in Workers |-> <<>>]
  /\ wvid = [w \in Workers |-> None]
  /\ order = list /\ crowded = FALSE /\ mixed = {}
  /\ marshalled = <<>> /\ stored = file /\ unsaved = {} /\ broken = FALSE
  /\ crashed = FALSE /\ adds = 0 /\ events = 0

(***************************************************************************)
(* The history file.                                                       *)
(***************************************************************************)

\* save marshals the done list, then the queue...
Snapshot == RecordsOf(list \o queue)
Marshal ==
  /\ marshalled' = RecordsOf(order) /\ unsaved' = {}
  /\ UNCHANGED <<stored, broken>>

\* ... then writes the file, or fails, which leaves a file that does not parse.
WriteFile(data) ==
  /\ \/ file' = data /\ stored' = marshalled /\ broken' = FALSE
     \/ DiskFails /\ file' = <<>> /\ stored' = <<>> /\ broken' = TRUE
  /\ marshalled' = <<>> /\ UNCHANGED unsaved

\* load: what has a DateDone goes to the list, the rest to the queue, each in
\* the order of the file.
Nth(S, i) == CHOOSE n \in S : Cardinality({m \in S : m <= n}) = i
Loaded(f, done) ==
  LET S == {n \in DOMAIN f : f[n][2] = done}
  IN [i \in 1..Cardinality(S) |-> f[Nth(S, i)][1]]
LoadedList(f)  == Loaded(f, TRUE)
LoadedQueue(f) == Loaded(f, FALSE)

(***************************************************************************)
(* Plausible faults, for the mutant runs.                                  *)
(***************************************************************************)
PopForgets(w) ==
  /\ wpc[w] = "append" /\ queue # <<>>
  /\ dated' = dated \cup {Head(queue)}
  /\ WorkerAt(w, "pop")
  /\ UNCHANGED <<queue, list, file, active, enabled, loopVars, webVars, wreg, wvid,
                 saveVars, histVars, counters>>

NextTakesLast(w) ==
  /\ wpc[w] = "next"
  /\ IF queue = <<>> \/ ~enabled
       THEN WorkerAt(w, "post") /\ UNCHANGED wvid
       ELSE /\ wvid' = [wvid EXCEPT ![w] = Last(queue)]
            /\ WorkerAt(w, "test")
  /\ UNCHANGED <<memory, file, active, enabled, loopVars, webVars, wreg, saveVars,
                 histVars, counters>>

DownloadLoops(w) ==
  /\ wpc[w] = "download"
  /\ WorkerAt(w, "next")
  /\ UNCHANGED <<memory, file, active, enabled, loopVars, webVars, wreg, wvid,
                 saveVars, histVars, counters>>

DoneSavesList(w) ==
  \/ /\ wpc[w] = "save"
     /\ wreg' = [wreg EXCEPT ![w] = RecordsOf(list)]
     /\ Marshal
     /\ WorkerAt(w, "savew")
     /\ UNCHANGED <<memory, file, active, enabled, loopVars, webVars, wvid, histVars,
                    counters>>
  \/ /\ wpc[w] = "savew"
     /\ WriteFile(wreg[w])
     /\ wreg' = [wreg EXCEPT ![w] = <<>>]
     /\ WorkerAt(w, "next")
     /\ UNCHANGED <<memory, active, enabled, loopVars, webVars, wvid, histVars,
                    counters>>

(***************************************************************************)
(* The event loop.                                                         *)
(***************************************************************************)

\* The answer of a quality dialog: a new video, or one whose quality is
\* edited, which is first removed from the done list if it is there.
Download(v) ==
  /\ loop = "idle" /\ adds < MaxAdds /\ Event
  /\ adds' = adds + 1
  /\ job' = v
  /\ IF Contains(list, v)
       THEN Edits /\ reg' = RemoveFirst(list, v) /\ LoopAt("rmw")
       ELSE (Contains(order, v) => Edits) /\ LoopAt("add") /\ UNCHANGED reg
  /\ UNCHANGED <<memory, file, active, enabled, webVars, workVars, saveVars, histVars>>

RemoveWrite ==
  /\ loop = "rmw"
  /\ list' = reg /\ order' = RemoveFirst(order, job) /\ reg' = <<>>
  /\ LoopAt("add")
  /\ UNCHANGED <<queue, dated, file, active, enabled, job, webVars, workVars,
                 saveVars, crowded, counters>>

\* Add: h.Queue = append(h.Queue, q).
AddRead ==
  /\ loop = "add"
  /\ reg' = Append(queue, job) /\ LoopAt("addw")
  /\ UNCHANGED <<memory, file, active, enabled, job, webVars, workVars, saveVars,
                 histVars, counters>>

AddWrite ==
  /\ loop = "addw"
  /\ queue' = reg /\ order' = Append(order, job) /\ reg' = <<>>
  /\ LoopAt("save")
  /\ UNCHANGED <<list, dated, file, active, enabled, job, webVars, workVars,
                 saveVars, crowded, counters>>

LoopSave ==
  \/ /\ loop = "save"
     /\ reg' = Snapshot /\ Marshal /\ LoopAt("savew")
     /\ UNCHANGED <<memory, file, active, enabled, job, webVars, workVars, histVars,
                    counters>>
  \/ /\ loop = "savew"
     /\ WriteFile(reg) /\ reg' = <<>> /\ job' = None /\ LoopAt("start")
     /\ UNCHANGED <<memory, active, enabled, webVars, workVars, histVars, counters>>

\* Start: "only one worker" rests on active, which the worker itself sets.
Start ==
  /\ loop = "start"
  /\ IF active \/ queue = <<>>
       THEN UNCHANGED wpc
       ELSE \E w \in Workers :
              wpc[w] = "off" /\ wpc' = [wpc EXCEPT ![w] = "begin"]
  /\ LoopAt("idle")
  /\ UNCHANGED <<memory, file, active, enabled, reg, job, webVars, wreg, wvid,
                 saveVars, histVars, counters>>

ToggleEnableDownload ==
  /\ Toggles /\ loop = "idle" /\ Event
  /\ enabled' = ~enabled
  /\ LoopAt(IF enabled' THEN "start" ELSE "idle")
  /\ UNCHANGED <<memory, file, active, reg, job, webVars, workVars, saveVars, histVars,
                 adds>>

(***************************************************************************)
(* A request of the web page: remove one video from the done list.  The    *)
(* lists are not saved; the file follows with the next save, if any.       *)
(***************************************************************************)
WebRemoveOne(v) ==
  /\ Removals /\ web = "idle" /\ Contains(list, v) /\ Event
  /\ gone' = v /\ wbreg' = RemoveFirst(list, v)
  /\ WebAt("rmw")
  /\ UNCHANGED <<memory, file, active, enabled, loopVars, workVars, saveVars, histVars,
                 adds>>

WebRemoveWrite ==
  /\ web = "rmw"
  /\ list' = wbreg /\ order' = RemoveFirst(order, gone)
  /\ unsaved' = unsaved \cup {gone}
  /\ wbreg' = <<>> /\ gone' = None
  /\ WebAt("idle")
  /\ UNCHANGED <<queue, dated, file, active, enabled, loopVars, workVars, marshalled,
                 stored, broken, crowded, counters>>

(***************************************************************************)
(* A worker.                                                               *)
(***************************************************************************)

Begin(w) ==
  /\ wpc[w] = "begin"
  /\ active' = TRUE
  /\ crowded' = (crowded \/ Running # {})
  /\ WorkerAt(w, "next")
  /\ UNCHANGED <<memory, file, enabled, loopVars, webVars, wreg, wvid, saveVars, order,
                 counters>>

NextVideo(w) ==
  /\ wpc[w] = "next"
  /\ IF queue = <<>> \/ ~enabled
       THEN WorkerAt(w, "post") /\ UNCHANGED wvid
       ELSE /\ wvid' = [wvid EXCEPT ![w] = Head(queue)]
            /\ WorkerAt(w, "test")
  /\ UNCHANGED <<memory, file, active, enabled, loopVars, webVars, wreg, saveVars,
                 histVars, counters>>

TestFiler(w) ==
  /\ wpc[w] = "test"
  /\ \/ WorkerAt(w, "download")
     \/ TestsFail /\ WorkerAt(w, "post")
  /\ UNCHANGED <<memory, file, active, enabled, loopVars, webVars, wreg, wvid,
                 saveVars, histVars, counters>>

\* DownloadCmd returns; success or not, the video will be moved.
DownloadCmd(w) ==
  /\ wpc[w] = "download"
  /\ WorkerAt(w, "append")
  /\ UNCHANGED <<memory, file, active, enabled, loopVars, webVars, wreg, wvid,
                 saveVars, histVars, counters>>

\* Done: date the head, then h.List = append(h.List, h.Queue[0])...
DoneAppend(w) ==
  /\ wpc[w] = "append" /\ queue # <<>>
  /\ dated' = dated \cup {Head(queue)}
  /\ wreg' = [wreg EXCEPT ![w] = Append(list, Head(queue))]
  /\ WorkerAt(w, "appendw")
  /\ UNCHANGED <<queue, list, file, active, enabled, loopVars, webVars, wvid, saveVars,
                 histVars, counters>>

DoneAppendWrite(w) ==
  /\ wpc[w] = "appendw"
  /\ list' = wreg[w]
  /\ wreg' = [wreg EXCEPT ![w] = <<>>] /\ wvid' = [wvid EXCEPT ![w] = None]
  /\ WorkerAt(w, "pop")
  /\ UNCHANGED <<queue, dated, file, active, enabled, loopVars, webVars, saveVars,
                 histVars, counters>>

\* ... then h.Queue = h.Queue[1:] ...
DonePop(w) ==
  /\ wpc[w] = "pop" /\ queue # <<>>
  /\ wreg' = [wreg EXCEPT ![w] = Tail(queue)]
  /\ WorkerAt(w, "popw")
  /\ UNCHANGED <<memory, file, active, enabled, loopVars, webVars, wvid, saveVars,
                 histVars, counters>>

DonePopWrite(w) ==
  /\ wpc[w] = "popw"
  /\ queue' = wreg[w]
  /\ wreg' = [wreg EXCEPT ![w] = <<>>]
  /\ WorkerAt(w, "save")
  /\ UNCHANGED <<list, dated, file, active, enabled, loopVars, webVars, wvid, saveVars,
                 histVars, counters>>

\* ... on an empty queue, both panic: GoTry's goroutine ends after its defer.
DonePanics(w) ==
  /\ wpc[w] \in {"append", "pop"} /\ queue = <<>>
  /\ WorkerAt(w, "post")
  /\ UNCHANGED <<memory, file, active, enabled, loopVars, webVars, wreg, wvid,
                 saveVars, histVars, counters>>

DoneSave(w) ==
  \/ /\ wpc[w] = "save"
     /\ wreg' = [wreg EXCEPT ![w] = Snapshot]
     /\ Marshal
     /\ WorkerAt(w, "savew")
     /\ UNCHANGED <<memory, file, active, enabled, loopVars, webVars, wvid, histVars,
                    counters>>
  \/ /\ wpc[w] = "savew"
     /\ WriteFile(wreg[w])
     /\ wreg' = [wreg EXCEPT ![w] = <<>>]
     /\ WorkerAt(w, "next")
     /\ UNCHANGED <<memory, active, enabled, loopVars, webVars, wvid, histVars,
                    counters>>

\* The deferred call: actionPost, then active = false.
Post(w) ==
  /\ wpc[w] = "post"
  /\ active' = FALSE
  /\ WorkerAt(w, "off")
  /\ wvid' = [wvid EXCEPT ![w] = None]
  /\ UNCHANGED <<memory, file, enabled, loopVars, webVars, wreg, saveVars, histVars,
                 counters>>

WorkerStep(w) ==
  \/ Begin(w) \/ NextVideo(w) \/ TestFiler(w) \/ DownloadCmd(w)
  \/ DoneAppend(w) \/ DoneAppendWrite(w) \/ DonePop(w) \/ DonePopWrite(w)
  \/ DonePanics(w) \/ DoneSave(w) \/ Post(w)

LoopStep == RemoveWrite \/ AddRead \/ AddWrite \/ LoopSave \/ Start

(***************************************************************************)
(* The process is killed and started again: NewApplet loads the file, and  *)
(* nothing restarts the downloads by itself.  A write that was under way   *)
(* leaves the old file, or one whose JSON does not parse.                  *)
(***************************************************************************)
Writing == loop = "savew" \/ \E w \in Workers : wpc[w] = "savew"
CrashAndReload ==
  /\ Crashes /\ events < MaxEvents
  /\ crashed' = TRUE /\ events' = events + 1
  /\ \/ UNCHANGED <<file, stored>>
     \/ Writing /\ file' = <<>> /\ stored' = <<>>
  /\ list' = LoadedList(file') /\ queue' = LoadedQueue(file')
  /\ dated' = {file'[i][1] : i \in {j \in 1..Len(file') : file'[j][2]}}
  /\ order' = LoadedList(stored') \o LoadedQueue(stored')
  /\ active' = FALSE /\ enabled' = TRUE
  /\ loop' = "idle" /\ reg' = <<>> /\ job' = None
  /\ web' = "idle" /\ wbreg' = <<>> /\ gone' = None
  /\ wpc' = [w \in Workers |-> "off"]
  /\ wreg' = [w \in Workers |-> <<>>]
  /\ wvid' = [w \in Workers |-> None]
  /\ marshalled' = <<>> /\ unsaved' = {} /\ broken' = FALSE
  /\ UNCHANGED <<crowded, mixed, adds>>

Next ==
  \/ \E v \in Videos : Download(v) \/ WebRemoveOne(v)
  \/ ToggleEnableDownload
  \/ LoopStep
  \/ WebRemoveWrite
  \/ \E w \in Workers : WorkerStep(w)
  \/ CrashAndReload

Spec == Init /\ [][Next]_vars

\* Goroutines that can run do: the loop finishes what it started, a worker
\* moves on (a download ends, in success or error), a web request too.
FairSpec == /\ Spec /\ WF_vars(LoopStep) /\ WF_vars(WebRemoveWrite)
            /\ \A w \in Workers : WF_vars(WorkerStep(w))
-----------------------------------------------------------------------------
TypeOK ==
  /\ queue \in Seq(Videos) /\ list \in Seq(Videos) /\ dated \subseteq Videos
  /\ file \in Seq(Videos \X BOOLEAN)
  /\ active \in BOOLEAN /\ enabled \in BOOLEAN /\ crowded \in BOOLEAN
  /\ loop \in LoopSteps /\ job \in Videos \cup {None}
  /\ web \in {"idle", "rmw"} /\ gone \in Videos \cup {None}
  /\ wpc \in [Workers -> WorkerSteps] /\ wvid \in [Workers -> Videos \cup {None}]
  /\ order \in Seq(Videos)
  /\ stored \in Seq(Videos \X BOOLEAN) /\ unsaved \subseteq Videos
  /\ mixed \subseteq {"slices", "saves"}

(***************************************************************************)
(* As long as two workers never overlapped, nor two updates of the list or *)
(* of the queue, the done list followed by the queue is the sequence of    *)
(* the enqueued videos: none is lost, doubled or overtaken, also when      *)
(* qualities are edited and videos removed meanwhile.  After a crash it is *)
(* what the last save that wrote the file had been given, if the saves of  *)
(* the loop and of the worker did not overlap either.                      *)
(***************************************************************************)
Clean == ~crowded /\ "slices" \notin mixed
Remaining == IF \E w \in Workers : wpc[w] \in {"pop", "popw"}
               THEN Tail(queue) ELSE queue
InOrder ==
  Clean /\ (crashed => "saves" \notin mixed) => list \o Remaining = order

(* A single worker works on the head of the queue until it has moved it,   *)
(* whatever the event loop appends meanwhile: Done marks the right video.  *)
HeadIsMine ==
  Clean => \A w \in Workers :
    wpc[w] \in {"test", "download", "append"} =>
      queue # <<>> /\ Head(queue) = wvid[w]

(***************************************************************************)
(* When nobody is at work, the file holds the videos of both lists with    *)
(* their state and besides only videos that the web page removed since the *)
(* last save, unless the last write failed or a save of the loop           *)
(* overlapped an update by a worker (no lock orders the marshalling and    *)
(* the writes: history.go:108).                                            *)
(***************************************************************************)
Covers(f) ==
  /\ ToSet(Snapshot) \subseteq ToSet(f)
  /\ \A e \in ToSet(f) \ ToSet(Snapshot) : e[1] \in unsaved
Quiet == loop = "idle" /\ web = "idle" /\ \A w \in Workers : wpc[w] = "off"
SavedWhenQuiet ==
  Clean /\ "saves" \notin mixed /\ ~broken /\ Quiet => Covers(file)

(* Every worker comes to an end: it cannot loop over the same item, even   *)
(* one that always fails.                                                  *)
WorkerEnds == active ~> ~active

(* manager.go:465 "EnqueueAndStart enqueues an item and starts             *)
(* downloading": with downloads enabled and a reachable host, a video that *)
(* went through it is downloaded.                                          *)
EnqueuedIsDownloaded ==
  \A v \in Videos : (loop = "start" /\ job = None /\ Contains(queue, v)) ~>
    \E w \in Workers : wpc[w] = "append" /\ wvid[w] = v

(* videodl/history.go:16 "Queue []*Video // still to do": a video saved in *)
(* the queue is still to do after a reload.                                *)
QueueSurvivesReload == Quiet /\ file = Snapshot => LoadedQueue(file) = queue
=============================================================================
