# Verification of godock

godock is a Go rewrite of the Cairo-Dock launcher (`cmd/cdc`), with a family of applets
(`services/*`), configuration windows (`widgets/*`) and the libraries they share
(`libs/*`). This directory holds TLA+ models of its parts that keep state and interact,
the TLC runs that check them on small instances, and TLAPS proofs for every instance.
`PROJECT.json` gives for each definition the source lines it stands for, for each
property a plausible bug that breaks it, and the list of hazards the properties are for.

The code has two recurrent shapes. An applet outside the dock is an event loop that takes
signals of the dock one by one; what may take time (clicks, checks, uploads, downloads)
runs in a goroutine started by `Log.GoTry`, which recovers a panic; almost nothing is
locked, except the configuration files. In the dock and its windows everything runs in
the main loop of GTK, where the difficulty is in sequences: an answer that comes long
after its question, a page that shows what has changed since, an icon that is gone.

## 1. Inventory

| Part | State | Operations | Hard behaviours | Modules |
|---|---|---|---|---|
| Configuration files (`libs/config`, `files/fileaccess`, `log` GoTry, `packages/build` crash counter) | INI files, one process-wide mutex | SetToFile, GetFromFile, Load, crash recovery | panics under the lock, cut-off saves, concurrent edits | ConfStore, ConfigAccess |
| Video downloads (`libs/net/videodl`) | queue, done list, history file, active flag | Enqueue, Start, worker loop, edit, remove, toggle, reload | unlocked slices shared by loop and workers, lost wake-up, crashes | VideoDL |
| Uploads (`libs/net/uptoshare`, `services/NetActivity`) | bounded channel, active flag, history and its file | UploadGuess, worker, reload, links | two workers, a worker that panics, a full channel | TaskPool, Uploader |
| Applets service (`libs/srvdbus`, `mgrdbus`, `dbuscommon`) | bus name, active applets, channel of signals, loops | election, look-up, StartApplet, StopApplet, dispatch, end | processes racing for a name, calls forwarded to a server that quits | AppletService |
| Applet loop (`libs/poller`, `cdapplet`, `action`, `appdbus.StandAlone`) | counter of ticks, enabled, interval, count of actions | Plop, Restart, Start, Stop, Launch, init and reload | unlocked counters, panics, timers that are not renewed | AppletLoop |
| Dbus backend of applets (`libs/appdbus`) | dialog callback, menu, sub-icons | PopupDialog, OnSignal, BuildMenu, AddSubIcon, RemoveSubIcons | answers to older dialogs, stale menus, half-replaced icons | AppletDbus |
| Mail applet (`services/GoGmail`) | login, feed, icon | Check, updateDisplay, dialogs, actions, Init | checks that overlap checks and reloads, a login that cannot be used | GoGmail |
| Weather applet (`services/Clouds`, `libs/get/weather`) | settings, current conditions, forecast, icons | Check, Get, Draw, location dialogs, detection, Init | two downloads per check, a place that changes meanwhile | Clouds |
| Configuration window (`widgets/confgui`, `conficons`, `confcore`, `libs/dock/confown`) | page, copy of the file, selection, own settings | select, reload, edit, save, grab | pages that save an older copy, a list reloaded under a page | ConfGui |
| Widgets of the pages (`widgets/cfbuild`) | value of each widget | build, callbacks, getValue | values the widget cannot show, help texts, rows moved at the ends | ConfWidgets |
| Applets in the dock (`libs/gldi/mgrgldi`, `appgldi`) | active applets, ticker, focus, list of calls to draw, sub-icons | start, stop, tick, focus events, addIdle, callIdle | a list filled by goroutines and flushed by the loop, addresses used again | DockApplets |
| Mouse events (`libs/dock/eventmouse`) | windows, sub-docks | click, middle click, scroll, drop | every kind of icon, settings that change | DockMouse |
| Menus and dialogs (`libs/dock/mainmenu`, `gldi/backendmenu`, `gldi/dialog`) | locks, the one dialog, its callback | menu entries, questions, popups | answers about icons that are gone, dialogs that replace dialogs | DockMenus |
| Packages of applets (`libs/packages`, `widgets/confapplets`, `appletlist`, `appletpreview`, `appinfo`, `editpack`, `cmd/cdc` external) | packages on disk, modules, rows, switches, preview, versions | list, install, remove, activate, preview, edit | failed installs, changes from outside, cut saves, two editors | Packages |
| Updates of sources (`services/Update`, `libs/packages/build`, `versions`) | builds, news | build, restart, check | a failed build that counts as done, targets that change meanwhile | not modelled |
| Notifications, Sound, TV, system activity, log history, web monitor | a list, or what another program holds | show, clear, sample, start, stop | unlocked lists, values that wrap | not modelled |
| Bindings of the C library (`libs/gldi`), toolkit helpers, texts, HTTP helpers, `cmd`, data | the dock's, the toolkit's, none | wrappers | | external or not modelled |

How they interact: the dock emits signals on the bus; `AppletService` or `StandAlone`
hands them to `AppletDbus`, that to `CDApplet.OnEvent`, and that to the applet (`GoGmail`,
`Clouds`), in the loop (reload, menus, stop) or in a goroutine (clicks, scrolls, drops).
The handlers launch actions and restart the poller (`AppletLoop`), upload (`Uploader`),
download (`VideoDL`) and update configuration files (`ConfigAccess`), from any goroutine.
An applet built into the dock meets `DockApplets` instead: mouse events and menus
(`DockMouse`, `DockMenus`) are offered to its icon first, and what it draws goes through a
list of calls the main loop flushes. The configuration window (`ConfGui`) shows pages of
widgets (`ConfWidgets`) and the pages of `Packages`, which start and stop the applets.

## 2. Order of the work

1. Files and goroutines: ConfStore, ConfigAccess, VideoDL, TaskPool, Uploader.
2. Processes and hosts of an applet: AppletService, AppletLoop.
3. The Dbus backend under two applets: AppletDbus composed with GoGmail, then with Clouds.
4. The dock's own side: DockApplets, then DockMouse and DockMenus.
5. The configuration window: ConfWidgets composed in ConfGui, then Packages.
6. Proofs: ConfigAccess, VideoDL, Uploader, AppletService, AppletLoop, the two applets,
   DockApplets and the menus, Packages and the configuration window.

`AppletDbus`, `ConfWidgets` and `DockMouse` are components that other modules extend:
each composed module takes their actions into its own next-state relation. No module uses
RECURSIVE operators, and the parameters of each are constants with a named assumption.

## 3. Modules

A comment above every definition names the code. In each module a section "Plausible
faults" holds mutated forms of definitions; nothing else uses them. History variables are
named as such: they record when an unlocked update was torn (`mixed`, `crossed`,
`alone`, `neat`), and the properties say what holds apart from those.

### ConfStore, ConfigAccess

`ConfStore` is the abstract promise: a file is a map of keys, an update changes one of
them in one step, and content is only ever lost as a whole. `ConfigAccess` is the code: lock,
load, edit, truncate, write, unlock for `SetToFile`; lock, load, use, cancel for readers.
A callback may fail (Cancel) or panic; only Save defers its Unlock, so a panic leaves the
mutex locked; `printCrash` exits the process or calls `IncreaseCrash`, itself a
`SetToFile`. A key's value is the number of updates it received, so that a lost update shows.

### VideoDL

The loop (enqueue, edit, remove, toggle, reload) and the workers of `Manager.Start` are
processes; each read and each write of `queue`, `list` and `active` is a step, because
nothing is locked. History variables record when two workers overlapped (`crowded`) and
when two halves of updates did (`mixed`).

### TaskPool, Uploader

`TaskPool` promises that a submitted task is taken once. `Uploader` refines it: one
goroutine per dropped item sends on the bounded channel, tests `active`, and may become
the worker; the upload may panic; a reload clears and reads the history meanwhile.

### AppletService

One process per applet the dock launches. `RequestName` is atomic on the bus; everything
after it is not: export, the server's own start, the loop, look-ups by `GetClient` (which
takes the name for a moment), forwarded starts with a goroutine per call in the server, the
test of `CountActive`, the release of the name and the end. Signals sit in a bounded
channel, where godbus discards what does not fit; the dock and the bus are environment.

### AppletLoop

One applet under each of three hosts: a program of its own (`StandAlone`, a timer), the
service (one loop), the dock (a ticker goroutine). A click launches an action in a goroutine, a
menu entry in the loop; `Current++`, `Current--` and `plop++` are a read and a write.
The recovery of panics needs `confown.Current.CrashRecovery`, which only the dock ever
sets: elsewhere a panic in any goroutine ends the program.

### AppletDbus, GoGmail, Clouds

`AppletDbus` is the backend one applet has: one callback for all dialogs, the actions of
the last menu. `PopupDialog` sets the callback before it calls the dock, so that another
thread or an answer may come between. The dock and its user are external: one dialog is open at
a time, signals arrive in order. `GoGmail` and `Clouds` extend it with the whole applet,
one step per access to what the goroutines share. A mailbox is a number of mails, a login
has a colon or not; a forecast is the place it was filled for, because what the properties
tell apart is whose weather is shown.

### ConfWidgets, ConfGui

`ConfWidgets` gives, for each kind of key, the widget `Build` makes of a value
(what it can show of it), its callbacks, and the value it gives back. `ConfGui`
composes these with the two pages of one file that can be open at once (the icons page and
the main configuration), the reload of the list of icons, the save of a page (which writes its whole
copy of the file), the own settings, a virtual save, a restart, and the goroutine that
waits for the click which grabs the class of a window.

### DockApplets

The table of active applets is keyed by the address of their icon, as in the code, and an
address is used again after a stop. `addIdle` is one step (`idleMu`); `callIdle`, in the
main loop, tests the list without the lock, takes it, runs each call, and clears its flag
in a step of its own. The ticker visits the table address by address while the loop writes it,
which may end the program.

### DockMouse, DockMenus

`DockMouse` translates each event for every kind of icon: who gets it (an active applet
first), and what it does to windows and sub-docks. A window that is shown takes the focus,
which is how the library behaves as `eventmouse` uses it. `DockMenus` adds the entries of
both menus that change icons, windows, locks or dialogs, and the package `dialog`, with
its pointer to the one dialog and the callback beside it. Every arrangement of the icons
is an initial state. The places where the code dereferences a nil icon or frees a dialog
twice end the run of the dock (`dockUp`).

### Packages

Three lists of the same applets kept by different parts: packages on disk, modules
registered in the dock, rows of the two pages. The dock tells the pages at once what it
starts and stops; the command line and the console editor, which are other processes, tell
nobody. An install drops an archive on the dock, which may download it, register its module
and start it (`ArchiveComes`), find the module registered (`ModuleFound`) or fail
(`InstallFails`); a save of a version is two files one after the other, and can be cut in
between. The text of a preview is loaded by a goroutine, while the title is set at once.

## 4. Runs

| Run | What it shows | Bounds |
|---|---|---|
| config_access | fresh content and atomic updates (refinement of ConfStore), no torn read, loss only by a cut save, what a panic under the lock leads to, and that every access returns if nobody panics under the lock | 3 goroutines, 2 keys, 3 operations |
| videodl | order and uniqueness of videos, the worker's head is its own, the file is right when quiet, every worker ends | 2 videos, 2 workers, 2 enqueues, 1 toggle, 1 crash |
| uploader | items received once and in order, file and history agree | 3 items, channel of 2, history of 2, 1 reload |
| service | one server, signals reach the instance they were emitted for, a start that meets a server is handled by it, an applet stays until its own stop, launches come to rest | 3 processes, 2 applets of which one twice, channel of 2, 1 other event |
| applet_loop | the count of actions and its limit, what a panic costs, checks in time | 2 clicks and the loop, intervals 1 and 3, 2 panics, actions nested or limited to 1 |
| mail | answers reach their dialog, a selection runs the entry seen, icon and alerts agree with the feed | 3 threads, 2 signals on their way, 2 mails, 1 restart, 4 events |
| clouds | data and sub-icons are of the place in the settings | 3 threads, 2 places, 1 day, 1 overlap, 2 events |
| conf_gui | help texts are not saved, a save changes what the user changed or what is excepted, the page is that of the selection, grabs, moved rows | one key of every kind (37 layouts), 3 edits (1 with the types that meet both pages), 4 events, 2 saves, 2 grabs |
| dock_applets | calls to draw keep their order, focus events come in pairs, sub-icons agree with the index | 2 modules, 2 addresses, 2 starts, 2 calls, 3 focus changes |
| dock_menus | one dialog at a time, an answer acts on what it was asked | every arrangement of 2 icons, 2 desktops, 2 dialogs |
| packages | both pages follow the dock, packages that cannot be downloaded again are kept, what ends the dock, texts and titles, versions move by one | 3 applets (built in, served, the user's own), version 2, 9 operations of all actors |
| dock_redispatch (refuted) | icons of a container wait for the answer to the question about them | as dock_menus |

Why the bounds are enough: three processes are needed for the third-party cases (one
holds, one waits, one overtakes; a server, a launch and a look-up); two suffice for every race on a
single variable, which is between one reader and one writer. A channel of two is both
full and non-empty with three items. Two starts of one address tell an instance from the
next. An interval of three has a tick that is neither first nor last. Two icons have every
relation an icon can have to another (owner, neighbour, none); two dialogs are one and the
one that replaces it (three dialogs were run as well, with the same result). Three
applets are one of each origin; nine operations are as many as the longest
sequence we know a property to need (open, list, select, remove, install again, activate,
close, and two changes from outside). An overlap and the check after it show what is left
behind by the first. In `AppletLoop`, no action starts once two updates of the count have
overlapped: what follows is excluded from the count's properties anyhow, and the drift
has no end. Symmetry is used for goroutines, clicks, modules and addresses that nothing
tells apart, in runs without liveness properties.

Deadlock is not checked in these runs: bounded operations come to an end, programs
exit, and what must not wait for ever is a liveness property instead.

### What the code does against its comments

`dock_redispatch` is the run that is expected to fail: `backendmenu.go:650` asks whether
the icons of a container shall be kept "otherwise they will be destroyed", and the container is removed
before the answer.

Further configurations give a counterexample when run by hand
(`tlc -config VideoDLWakeup.cfg MCVideoDL`):

| Configuration | Module | Property | Comment in the source |
|---|---|---|---|
| ConfigAccessGoTry | MCConfigAccess | PanicIsRecovered | `log/logger.go:415`: GoTry's recovery of a panic under the config lock waits for that lock |
| VideoDLWakeup | MCVideoDL | EnqueuedIsDownloaded | `videodl/manager.go:465`: a video enqueued while the worker is about to leave waits for the next one |
| VideoDLReload | MCVideoDL | QueueSurvivesReload | `videodl/history.go:16`: a done video queued again with another quality counts as done after a reload |
| UploaderLinks | MCUploader | AllLinksKept | `NetActivity.go:216`: an unlimited history may lose links when a reload meets a save |
| AppletLoopStart | MCAppletLoop | StartEnablesTicker | `poller.go:162`: a poller that is started again has no timer in a program of its own |
| AppletServiceAlive | MCAppletService | AliveWhileManaging | `srvdbus.go:98`: a service may quit with an applet it has just accepted |
| DockIdle | MCDockApplets | StopsOnlyWhenEmpty | `appgldi.go:531`: a call added between the last test and the reset of the flag waits for the next one |
| PackagesSwitch | MCPackages | ActiveNeedsInstalled | `confapplets.go:325`: a failed install enables the switch of a package that is not there |

### What else was met while modelling

These follow from reading the lines; where a module has the step, it is told.

Configuration window. The own settings' `postSave` reads the file again and drops the result,
so that SaveEnabled changes only at a restart. Two pages of the main configuration revert
each other when both are saved (the exception in `SaveKeepsUntouched`). Keys that are
hidden and of a kind without a widget panic on save; a numbered choice whose index is
below the number of fields but not of choices panics; a password without a help text is encrypted
again at each save; combos reset values that are not in their list; a new dock is
created again at each save. The icon kept for a later selection overrides a later choice.
The last row of a sortable list slips when it is moved down. Two overlapping grabs close
a nil channel, and one that outlives its page panics.

Dock. `maindock.getChangelog` does not end once the change log has an entry. A scroll on
a stack of launchers (`eventmouse.go:336`), a click or a menu on the empty part of a
sub-dock (`mgrgldi.go:424`), and the drop of a .desktop file on no icon
(`eventmouse.go:180`) dereference a nil icon. `MenuDeleteDock` is shown for
a dock its callback then refuses (`backendmenu.go:279`). `MenuRemoveIcon` may ask its
second question after the removal. A question that is destroyed with its icon stays in
`dialogPtr` and is freed again (`dialog.go:111`). A sub-icon may be freed before it is inserted, and
calls may draw on the icon of an applet that stopped. An applet may lose a focus it never
had when its icon has the address of a freed one. An init that fails leaves the applet
among the active ones (`mgrdbus.go:127`).

Packages. A failed install leaves the Active switch enabled, and it then panics on a nil
module, as does a package the command line installed, until a restart. A second install
without an archive counts as a success when the module is registered: the package is then on
with nothing on disk, and cannot be removed. The module of a removed package stays
registered. The command line removes the user's own packages too. The address of an install lacks
a separator between server and tag (`confdata.go:328`). Texts of previews may
arrive out of order, and their files are not removed. A module registered while the window is
open is not on its add page, and the page panics when its only selected row goes. A save
of a version that was cut is refused for ever (`config.go:622`). The console editor
stores a category as a number, where its save expects the type.

Applets and services. A mail login without a colon ends the program at this start and
each later one (`mail.go:139`). The forecast dialog of Clouds dereferences a
forecast that has not come. `StopLoop` waits for ever when the loop does not run. The
service's client calls `Upload` where the server exports `UploadString` and `UploadFiles`
(`srvdbus.go:304`). In the Update applet, which is not modelled: a make that fails counts as a
success when the counter behind it is saved, so that the program restarts without its build; the target
is read again after the build; a target may be past the end of a shorter list; the count
of new revisions is not reset; checks keep the last error only.

## 5. Fairness

- ConfigAccess: weak fairness of every step of a goroutine, because the Go scheduler runs what
  is runnable; strong fairness of Lock, because `sync.Mutex` hands itself to a waiter in
  its starvation mode. An operation is started, and a panic happens, without any fairness.
- VideoDL: weak fairness of the event loop's own steps and of each worker.
- AppletService: weak fairness of each process and of the call it runs. The dock is not fair:
  it may stop nothing and launch nothing.
- DockApplets: weak fairness of the flusher and of a write of the table, which are code
  of the main loop; its properties are safety all the same.
- Uploader, AppletLoop, the applets, the window, menus and packages: none. Users answer
  and servers reply when they like, and their properties are safety.

## 6. Proofs

Every invariant and action property of the runs is stated by a theorem, and so are both refinements;
liveness, and the property that is refuted, are not. The theorems assume nothing but the named
assumptions on the constants: what is proved holds for any number of goroutines, processes,
items, applets, addresses, dialogs, operations and versions, any place names, and any layout of a key that
`GuiAssumption` allows. Modules whose components are proved about together (GoGmail and
Clouds, DockApplets and DockMenus, Packages and ConfGui) have no name in common, so that
one proof module extends both.

`ConfigAccessProofs`: types, `LockHeld`, `FreshContent`, `NoTornRead`, `LossNeedsCutSave`,
`RecoveryWaitsForItself`, `AbandonedLockIsFinal` and the refinement of ConfStore. The inductive
invariant is `TypeOK /\ LockHeld /\ FreshContent /\ RecoveryWaitsForItself`: FreshContent
needs LockHeld (no one else writes between a load and its save), and so does
RecoveryWaitsForItself (the one who panicked is the holder, and only the holder unlocks).
The refinement follows: a `Write` of fresh content is `Update` of one key. What a file
loses, it loses by a save that was cut: no other step empties it.

`VideoDLProofs`: `InOrder`, `HeadIsMine` and `SavedWhenQuiet`. The invariant `VInv` says that
a worker is alone until `crowded` is set and its updates exclude those of the loop until `mixed` is
set (`Alone`, `Apart`), that what was read is still true when it is written back (`Halves`), that no
file holds a video both with and without a date (`FilesAgree`), and that the file is up to date unless
somebody is on the way to write it (`Saved`). The order is that of what was enqueued: the lemmas
say what the removal of the first occurrence leaves of two sequences in a row.

`AppletServiceProofs`: types, `OneServer`, `StartsReachTheServer`,
`SignalsReachTheirInstance` and `ManagedUntilStopped`. `OneServer` is not
inductive: a process in the middle of a look-up also holds the name. The invariant adds
`NameHeld` (the owner of the name is exactly the process at one of the places between
request and release), `Hosted` (applets are in exporting processes) and `CallsPlaced` (a
start runs in an exporting process for a caller that waits). `StartsReachTheServer` adds
`MetServes`: the server a launch has met still serves, thus still has the name, thus
receives the call. The two properties of the instances need `SInv`: a launch that has not
arrived is the one the dock shows (`Pending`), a server knows what its applets matched (`Matches`) and
serves what the dock shows (`ServesDock`), and the channel holds, for each applet, events of the instance
it has, then that one's stop, then events of the next (`Queues`). The proof of
`ManagedUntilStopped` found a step that its earlier form did not excuse: a program that still
has an instance which came late may end before it closes, too.

`UploaderProofs`: `ReceivedInOrder`, the refinement of `TaskPool`, `FileIsHistory` and
`OrphanedIsFinal`. Order alone is inductive with the types; that a task is taken once needs
`SentOnce`: each item is sent by its own goroutine, once, so what was sent has no double, and its two halves
(received, in the channel) have no item in common. `FileIsHistory` adds what each step of a reload leaves to do,
and that the file was trimmed when it was saved.

`AppletLoopProofs`: types, `PollsInTime` and `CountIsExact`. The counter of ticks is the number of ticks since the
last check, a tick that has read it included, and below the interval between two reloads
(`PInv`). The count of actions is the cardinality of the calls at work plus what was
lost in panics (`CInv`): the set of calls is finite and gains or loses one, and at most one
thread is at a time between its read and its write.

`AppletsProofs`, the mail applet: `AnswerReachesItsDialog` (until `crossed`, the callback is that of
the dialog on the screen or of every answer on its way), `SelectionIsTheEntrySeen`
(an entry selected and not yet handled is still that of the menu, and no other menu is asked for before
it) and `IconShowsCount`. The last needs `IconInv`: while no two checks and no check and reload overlapped, one
thread at most is at work on the feed, a reset finds none, each step of the one at work knows by how much the
icon is behind the count (`ShowsSaved`), and nobody at work means that the icon is right. The
weather applet: `DataIsOfPlace` and `IconsAgree`. `WeatherData` says that, without an overlap, there is one
check, all it has asked for and received is of the place in the settings, and what detects or saves
a place has cleared the data; `IconsDrawn` says at each step of the drawing which sub-icons
are there.

`DockAppletsProofs`: `CallsKeepTheirOrder`, `FocusIsPaired` and `SubIconsAgree`. The first
needs that the list taken is empty outside its flush (`CInv`). The second rests on `AInv`
(icons that live have different addresses, and the table knows instances that live)
and `FInv`: apart from instances at a used address, an applet of the table has the focus exactly when the
manager says so. The third adds `SInv`: a sub-icon of an index is in the dock or waits in one of the
lists, and one in the dock is in the index of an instance that lives. For the menus,
`OnlyOneDialog` and `RemovesWhatWasAsked`: the dialog on the screen is the one the package knows and the
callback is its own or none (`Known`), through every entry of both menus; an answer that removes
carries the icon and the question of its dialog (`AnswersMatch`).

`WindowProofs`, the pages of packages: `AddListFollowsDock`, `SwitchShowsDock`,
`PanicIsExplained`, `PageKeepsPackages`, `VersionsGoTogether` and `TextIsOfTitle`. The
invariant has six parts: types, switches
(`TInv`, `BInv`), the add page (`LInv`), what is listed and when (`KInv`), the
modules the page knows while nothing changed from outside (`MInv`: a package it
shows as installed has one), and the switches of the selection (`SInv`). `SwitchShowsDock` is not inductive
without MInv: the switch of an applet whose module the page does not know is
off whatever runs. `PageKeepsPackages` follows from KInv (only a package of the server's
list can be removed); versions need their type only, and one lemma about a save; the text
is that of the title because the last load asked for is (`PInv`).

`WindowProofs`, the pages of configuration files: `HelpTextIsNotSaved`,
`SaveKeepsUntouched`, `PageIsOfSelection`, `BlockedWhileGrabbed` and `MovesByOne`. The invariant `GuiInv` has two halves. `Held` relates lists,
pages and grabs: a page waits exactly while a grab of its own serial number runs
(`Waits`), and the icons page is that of the selection (`Chosen`). `PageOk` relates a page to its key:
an entry that holds the help text is marked as such (`Honest`), the orders of a sortable list
increase and stay below their places (`Ordered`), and a page that was not
edited gives back what it read (`Trip`). Each kind of widget has its lemma for what it is built from, for what
each edit leaves, and for the value it gives. The proofs corrected the model in several
places: a reset of several values from a default that is shorter, hidden keys that have no
reset, choices with the same text, entries of lists, which have no help text, and the cases of `Fits`, two of which overlapped.

Only model-checked: liveness (`EveryAccessReturns`, `WorkerEnds`, `LaunchesEnd`), which is
beyond the prover, and `IconsWaitForTheAnswer`, which the code does not keep.
What a reload of VideoDL keeps is stated by the rank of each record (`Nth`), and not by a filter of the
library, which is recursive.

## 7. Not modelled

- Conversions: reflection of `Unmarshall`, INI syntax, formats of upload sites, templates,
  video metadata, units. The properties do not depend on their result.
- go-ini's DEFAULT section; a save replaces a file as a whole.
- In AppletService, the other remote methods (uploads, videos, debug, window of the log),
  which only read the table of applets.
- Calls of the Dbus backend that forward one value to the dock (labels, emblems, renderers).
- In the configuration window: themes, shortkeys, file choosers, layout and sensitivity of
  widgets. In the menus: entries that open a page or a program. Desklets.
- The Update applet and the builds behind it: its state is a list of targets and external
  commands; its limit of one action and its stops of the poller are part of AppletLoop.
- Notifications, Sound, TV, system activity, the log's history and the web monitor: each
  keeps one variable or what another program holds; the hazard of the list of
  notifications is listed without a property.
- Unsynchronised map accesses of Go may abort the process: AppletService and DockApplets
  have that outcome. Torn reads of single words do not exist on the platforms of the build.
- The C dock behind `libs/gldi`, PulseAudio, UPnP, git, tar and GTK are external; what the
  models need of them is taken from how the code uses them.
- What `PROJECT.json` lists as `not_modelled`, with the reason for each; hazards without a
  property say what is missing.
