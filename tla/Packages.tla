-------------------------------- MODULE Packages --------------------------------
(***************************************************************************)
(* The external applets of the user: their packages on disk                *)
(* (libs/packages), the page that downloads, removes and activates them,   *)
(* the page that adds an applet (widgets/confapplets, appletlist,          *)
(* libs/gldi/confdata), the two editors of a package (widgets/appinfo,     *)
(* libs/packages/editpack) and the command line (cmd/cdc/external).        *)
(*                                                                         *)
(* The pages run in the GTK thread, and so does the save of a package by   *)
(* its editor; the dock tells them at once when a module is activated or   *)
(* not. The command line and the console editor are other processes: the   *)
(* mutex of config files (config.go:158) does not keep them out.           *)
(***************************************************************************)
EXTENDS Integers

CONSTANTS
  Applets,     \* names of applets
  Internal,    \* those the dock is built with
  Served,      \* those the server has
  Multi,       \* those that may have several instances
  Hidden,      \* those of the category of themes, that are never offered
  MaxVersion,  \* bound: version of a package
  MaxOps       \* bound: operations of all actors

None == "none"

ASSUME PackagesAssumption ==
  /\ Internal \subseteq Applets /\ Served \subseteq Applets \ Internal /\ {Multi, Hidden} \subseteq SUBSET Applets
  /\ None \notin Applets /\ MaxVersion \in Nat /\ MaxOps \in Nat

VARIABLES
  disk,       \* packages in the directory of the user
  vers,       \* versions of a package, in its default config file and in its own file
  modules,    \* modules registered in the dock
  active,     \* those with an instance
  open,       \* the configuration window is shown
  addRows, addUnused, \* the add page: applets listed, applets kept aside
  listed,     \* modules there were when the add page was filled
  typ,        \* the download page: type of each package, None if it is not listed
  app,        \* packages whose module the page knows
  sel,        \* package selected
  installed, isActive,      \* the two switches
  canInstall, canActivate,  \* and whether the user may turn them
  seen,       \* version of each package as each editor has read it, Unread
  save,       \* save of each editor: its next step, its package, the new version
  top,        \* highest version the config file of a package has had since it was installed
  mixed,      \* packages saved by both editors, or installed during a save
  panic,      \* why the dock ended, None
  aided,      \* packages were changed from outside, or a module without package was
              \* activated by another part of the dock, since it started
  refused,    \* an install failed since the selection
  ops

dockVars    == <<modules, active>>
addVars     == <<addRows, addUnused, listed>>
listVars    == <<typ, app>>
menuVars    == <<installed, isActive, canInstall, canActivate>>
packVars    == <<vers, top, mixed>>
editVars    == <<seen, save>>
pageVars    == <<addVars, listVars, sel, menuVars, refused>>
vars == <<disk, packVars, dockVars, open, pageVars, editVars, panic, aided, ops>>

External  == Applets \ Internal
Types     == {"distant", "user", "dev"}
Original  == [conf |-> 0, pack |-> 0]
Unread    == -1
Unseen    == [a \in Applets |-> Unread]
Editors   == {"page", "console"}
Idle      == [step |-> "idle", app |-> None, new |-> Unread]

\* An operation of any process, and one of the dock: the GTK thread does nothing else
\* while its editor saves.
AnyOp == panic = None /\ ops < MaxOps /\ ops' = ops + 1
Op    == AnyOp /\ save.page = Idle

(***************************************************************************)
(* Packages and modules.                                                   *)
(***************************************************************************)
IsInstalled(a) == typ[a] \in {"user", "dev"}
IsActive(a)    == a \in app /\ a \in active

\* AppletConf.CanAdd and AppletDownload.CanUninstall, with the modules active in act.
CanAdd(a, act) == (a \in Multi \/ a \notin act) /\ a \notin Hidden
CanUninstall(a, type, known, act) == type # "dev" /\ ~(known /\ a \in act)

\* A package is being saved.
UnderSave(a) == \E e \in Editors : save[e].app = a

\* A package is unpacked, over any that was there.
Unpacked(a) ==
  /\ disk' = disk \cup {a} /\ vers' = [vers EXCEPT ![a] = Original]
  /\ IF UnderSave(a) THEN mixed' = mixed \cup {a} /\ UNCHANGED top
     ELSE mixed' = mixed \ {a} /\ top' = [top EXCEPT ![a] = 0]

(***************************************************************************)
(* Plausible faults, for the mutant runs.                                  *)
(***************************************************************************)
ListsAllAsUser == [a \in Applets |-> IF a \in disk THEN "user" ELSE IF a \in Served THEN "distant" ELSE None]

ListForgets(a, on, act) ==        \* a row that leaves the list is not kept aside
  LET moves == IF on THEN a \in addRows /\ ~CanAdd(a, act) ELSE a \in addUnused /\ CanAdd(a, act)
  IN  /\ addRows'   = IF ~moves THEN addRows ELSE IF on THEN addRows \ {a} ELSE addRows \cup {a}
      /\ addUnused' = IF moves THEN addUnused \ {a} ELSE addUnused
      /\ panic' = None

AnySelection(a, type, known, on, act) ==   \* the name of the event is not compared
  IF sel = None THEN UNCHANGED <<isActive, canInstall>>
  ELSE isActive' = on /\ canInstall' = CanUninstall(sel, type, known, act)

ActiveStaysOn(a) ==               \* the active switch is not disabled
  /\ \/ /\ CanUninstall(a, typ[a], a \in app, active) /\ typ[a] = "user"
        /\ disk' = disk \ {a} /\ typ' = [typ EXCEPT ![a] = "distant"] /\ app' = app \ {a}
        /\ installed' = FALSE /\ UNCHANGED <<canActivate, canInstall, isActive>>
     \/ /\ installed' = TRUE /\ canActivate' = FALSE /\ UNCHANGED <<canInstall, isActive, disk, listVars>>
  /\ UNCHANGED <<packVars, dockVars, addRows, addUnused, refused, panic>>

StaleVersion(e, a) ==             \* the version found in the first file is not compared
  /\ a \in disk /\ seen[e][a] \in 0..(MaxVersion - 1)
  /\ save' = [save EXCEPT ![e] = [step |-> "conf", app |-> a, new |-> seen[e][a] + 1]]
  /\ mixed' = IF UnderSave(a) THEN mixed \cup {a} ELSE mixed

\* ListDownloadIndex: local packages replace those of the server; one the server does
\* not know is the user's own.
ListDownloadIndex ==
  [a \in Applets |-> IF a \in disk THEN IF a \in Served THEN "user" ELSE "dev"
                     ELSE IF a \in Served THEN "distant" ELSE None]

(***************************************************************************)
(* What a module activated or not does to the pages.                       *)
(***************************************************************************)
\* ListAdd.UpdateModuleState. A row deleted may be the one selected: the list then
\* selects another, and calls OnSelect(nil), which panics, when there is none.
AddPageState(a, on, act) ==
  LET moves == IF on THEN a \in addRows /\ ~CanAdd(a, act) ELSE a \in addUnused /\ CanAdd(a, act)
  IN  /\ addRows'   = IF ~moves THEN addRows ELSE IF on THEN addRows \ {a} ELSE addRows \cup {a}
      /\ addUnused' = IF ~moves THEN addUnused ELSE IF on THEN addUnused \cup {a} ELSE addUnused \ {a}
      /\ panic' \in (IF on /\ moves /\ addRows = {a} THEN {None, "selection"} ELSE {None})

\* MenuDownload.SetActiveState, when the package is the one selected.
MenuState(a, type, known, on, act) ==
  IF sel # a THEN UNCHANGED <<isActive, canInstall>>
  ELSE isActive' = on /\ canInstall' = CanUninstall(a, type, known, act)

\* The modules active become act. The pages are told of a change, if there are any.
Becomes(a, on, act) ==
  /\ active' = act
  /\ IF open /\ act # active
     THEN AddPageState(a, on, act) /\ MenuState(a, typ[a], a \in app, on, act)
     ELSE UNCHANGED <<addRows, addUnused, isActive, canInstall, panic>>
  /\ UNCHANGED listed

(***************************************************************************)
(* The window and its lists.                                               *)
(***************************************************************************)
Unselected ==
  /\ sel' = None /\ refused' = FALSE
  /\ installed' = FALSE /\ isActive' = FALSE /\ canInstall' = TRUE /\ canActivate' = TRUE

NoDownload == typ' = [a \in Applets |-> None] /\ app' = {} /\ Unselected

NoPages ==
  /\ open' = FALSE /\ addRows' = {} /\ addUnused' = {} /\ listed' = {} /\ NoDownload
  /\ seen' = [seen EXCEPT !.page = Unseen] /\ save' = [save EXCEPT !.page = Idle]

Init ==
  /\ disk \in SUBSET External /\ vers = [a \in Applets |-> Original]
  /\ modules = disk \cup Internal /\ active \in SUBSET modules
  /\ open = FALSE /\ addRows = {} /\ addUnused = {} /\ listed = {}
  /\ typ = [a \in Applets |-> None] /\ app = {} /\ sel = None
  /\ installed = FALSE /\ isActive = FALSE /\ canInstall = TRUE /\ canActivate = TRUE
  /\ seen = [e \in Editors |-> Unseen] /\ save = [e \in Editors |-> Idle]
  /\ top = [a \in Applets |-> 0] /\ mixed = {}
  /\ panic = None /\ aided = FALSE /\ refused = FALSE /\ ops = 0

\* The window is opened: ListKnownApplets, ListAdd.Load.
OpenWindow ==
  /\ Op /\ ~open /\ open' = TRUE
  /\ listed' = modules
  /\ addRows' = {a \in modules : CanAdd(a, active)}
  /\ addUnused' = {a \in modules : ~CanAdd(a, active)}
  /\ UNCHANGED <<disk, packVars, dockVars, listVars, sel, menuVars, editVars, refused, panic, aided>>

CloseWindow ==
  /\ Op /\ open /\ NoPages
  /\ UNCHANGED <<disk, packVars, dockVars, panic, aided>>

\* The download page: ListDownloadApplets, ListExternal.Load. Any error, of the server
\* or of the directory, leaves the list empty.
OpenDownload ==
  /\ Op /\ open
  /\ \/ NoDownload
     \/ typ' = ListDownloadIndex /\ app' = {a \in modules : typ'[a] # None} /\ Unselected
  /\ UNCHANGED <<disk, packVars, dockVars, open, addVars, editVars, panic, aided>>

\* MenuDownload.OnSelect.
SelectPackage(a) ==
  /\ Op /\ typ[a] # None /\ sel # a /\ sel' = a /\ refused' = FALSE
  /\ canInstall' = CanUninstall(a, typ[a], a \in app, active)
  /\ installed' = IsInstalled(a)
  /\ canActivate' = IsInstalled(a)
  /\ isActive' = IsActive(a)
  /\ UNCHANGED <<disk, packVars, dockVars, open, addVars, listVars, editVars, panic, aided>>

(***************************************************************************)
(* The switches of the download page.                                      *)
(***************************************************************************)
\* MenuDownload.SetInstalledState, after a failure.
SetInstalledState(state) ==
  installed' = state /\ canActivate' = ~state /\ UNCHANGED <<canInstall, isActive>>

\* AppletDownload.Install: the archive is dropped on the dock, whose Dbus applet may
\* download it, register its module and activate it.
ArchiveComes(a) ==
  /\ Unpacked(a)
  /\ modules' = modules \cup {a} /\ active' = active \cup {a}
  /\ app' = app \cup {a} /\ typ' = [typ EXCEPT ![a] = "user"]
  /\ IF a \in active THEN UNCHANGED <<addRows, addUnused, isActive, panic>>
     ELSE AddPageState(a, TRUE, active \cup {a}) /\ isActive' = TRUE
  /\ installed' = TRUE /\ canActivate' = TRUE /\ canInstall' = FALSE
  /\ UNCHANGED refused

\* Nothing came, but only the module is looked for, and it is known. The switch is set
\* with it.
ModuleFound(a) ==
  /\ a \in modules
  /\ app' = app \cup {a} /\ typ' = [typ EXCEPT ![a] = IF a \in disk THEN "user" ELSE @]
  /\ installed' = TRUE /\ canActivate' = TRUE
  /\ canInstall' = CanUninstall(a, typ'[a], TRUE, active)
  /\ UNCHANGED <<disk, packVars, dockVars, addRows, addUnused, isActive, refused, panic>>

InstallFails(a) ==
  /\ a \notin modules
  /\ app' = app \ {a} /\ refused' = TRUE
  /\ SetInstalledState(FALSE)
  /\ UNCHANGED <<disk, packVars, dockVars, addRows, addUnused, typ, panic>>

Install(a) == ArchiveComes(a) \/ ModuleFound(a) \/ InstallFails(a)

\* AppletDownload.Uninstall.
Removable(a) == CanUninstall(a, typ[a], a \in app, active) /\ typ[a] = "user"

PackageGoes(a) ==
  /\ Removable(a)
  /\ disk' = disk \ {a} /\ typ' = [typ EXCEPT ![a] = "distant"] /\ app' = app \ {a}
  /\ installed' = FALSE /\ canActivate' = FALSE
  /\ UNCHANGED <<canInstall, isActive, packVars, dockVars, addRows, addUnused, refused, panic>>

\* Files may resist: what is left of the package is whole, or is not one.
UninstallFails(a) ==
  /\ SetInstalledState(TRUE)
  /\ disk' \in {disk} \cup (IF Removable(a) THEN {disk \ {a}} ELSE {})
  /\ UNCHANGED <<listVars, packVars, dockVars, addRows, addUnused, refused, panic>>

Uninstall(a) == PackageGoes(a) \/ UninstallFails(a)

ToggleInstalled ==
  /\ Op /\ sel # None /\ canInstall
  /\ IF installed THEN Uninstall(sel) ELSE Install(sel)
  /\ UNCHANGED <<open, listed, sel, editVars, aided>>

\* MenuDownload.toggledActive: the module is called, known or not.
ToggleActive ==
  /\ Op /\ sel # None /\ canActivate
  /\ IF sel \notin app
     THEN /\ panic' = "module" /\ isActive' = ~isActive
          /\ UNCHANGED <<active, addVars, canInstall>>
     ELSE LET act == IF isActive THEN active \ {sel} ELSE active \cup {sel}
          IN  /\ active' = act /\ isActive' = ~isActive
              /\ IF act = active THEN UNCHANGED <<addRows, addUnused, canInstall, panic>>
                 ELSE AddPageState(sel, ~isActive, act) /\ canInstall' = CanUninstall(sel, typ[sel], TRUE, act)
              /\ UNCHANGED listed
  /\ UNCHANGED <<disk, packVars, modules, open, listVars, sel, installed, canActivate, editVars, refused, aided>>

(***************************************************************************)
(* The add page.                                                           *)
(***************************************************************************)
\* ConfApplet.Save: Activate, or AddInstance; the event moves the row, so that the
\* Delete that follows finds none.
AddApplet(a) ==
  /\ Op /\ a \in addRows
  /\ Becomes(a, TRUE, active \cup {a})
  /\ aided' = (aided \/ a \in External \ disk)
  /\ UNCHANGED <<disk, packVars, modules, open, listVars, sel, installed, canActivate, editVars, refused>>

\* With no row selected there is no applet to activate.
AddNothing ==
  /\ Op /\ open /\ panic' = "selection"
  /\ UNCHANGED <<disk, packVars, dockVars, open, pageVars, editVars, aided>>

(***************************************************************************)
(* The editors.                                                            *)
(***************************************************************************)
\* The page reads a package when it is selected.
SelectEdit(a) ==
  /\ Op /\ open /\ a \in modules \cap disk
  /\ seen' = [seen EXCEPT !.page = [Unseen EXCEPT ![a] = vers[a].pack]]
  /\ UNCHANGED <<disk, packVars, dockVars, open, pageVars, save, panic, aided>>

\* The console reads them all when it starts; it may have been killed before.
StartConsole ==
  /\ AnyOp /\ disk # {}
  /\ seen' = [seen EXCEPT !.console = [a \in Applets |-> IF a \in disk THEN vers[a].pack ELSE Unread]]
  /\ save' = [save EXCEPT !.console = Idle]
  /\ UNCHANGED <<disk, packVars, dockVars, open, pageVars, panic, aided>>

\* SaveUpdated with a new version: the default config file is read, and must have the
\* version the editor has read.
TestVersion(e, a) ==
  /\ a \in disk /\ seen[e][a] \in 0..(MaxVersion - 1) /\ vers[a].conf = seen[e][a]
  /\ save' = [save EXCEPT ![e] = [step |-> "conf", app |-> a, new |-> seen[e][a] + 1]]
  /\ mixed' = IF UnderSave(a) THEN mixed \cup {a} ELSE mixed

SaveEdit(e, a) ==
  /\ (IF e = "page" THEN Op ELSE AnyOp /\ save[e] = Idle)
  /\ TestVersion(e, a)
  /\ UNCHANGED <<disk, vers, top, dockVars, open, pageVars, seen, panic, aided>>

SaveEnds(e) == save' = [save EXCEPT ![e] = Idle]

\* Then it is written, whole: it ends with the new version, or the write fails and it is
\* as it was, or cut, before its version or after it.
WriteConf(e) ==
  LET a == save[e].app  new == save[e].new
  IN  /\ save[e].step = "conf"
      /\ \E v \in {vers[a].conf} \cup (IF a \in disk THEN {new, Unread} ELSE {}) :
           /\ vers' = [vers EXCEPT ![a] = [conf |-> v, pack |-> vers[a].pack]]
           /\ top' = [top EXCEPT ![a] = IF v > top[a] THEN v ELSE top[a]]
           /\ \/ SaveEnds(e)
              \/ v = new /\ a \in disk /\ save' = [save EXCEPT ![e] = [step |-> "pack", app |-> a, new |-> new]]
      /\ UNCHANGED seen

\* Then the file of the package, in the same way, whatever its version. An edited
\* category makes the console panic before, and end.
WritePack(e) ==
  LET a == save[e].app  new == save[e].new
  IN  /\ save[e].step = "pack"
      /\ \E v \in {vers[a].pack} \cup (IF a \in disk THEN {new, Unread} ELSE {}) :
           /\ vers' = [vers EXCEPT ![a] = [conf |-> vers[a].conf, pack |-> v]]
           /\ \/ SaveEnds(e) /\ UNCHANGED seen
              \/ /\ v = new /\ a \in disk /\ UNCHANGED seen
                 /\ save' = [save EXCEPT ![e] = [step |-> "reload", app |-> a, new |-> new]]
              \/ /\ v = vers[a].pack /\ e = "console" /\ SaveEnds(e)
                 /\ seen' = [seen EXCEPT ![e] = Unseen]
      /\ UNCHANGED top

\* Then the package is read again, if it can be.
Reload(e) ==
  LET a == save[e].app
  IN  /\ save[e].step = "reload" /\ SaveEnds(e)
      /\ seen' \in {seen} \cup (IF a \in disk THEN {[seen EXCEPT ![e] = [seen[e] EXCEPT ![a] = vers[a].pack]]} ELSE {})
      /\ UNCHANGED <<vers, top>>

SaveStep(e) ==
  /\ WriteConf(e) \/ WritePack(e) \/ Reload(e)
  /\ UNCHANGED <<disk, mixed, dockVars, open, pageVars, panic, aided, ops>>

(***************************************************************************)
(* The rest of the dock, and other processes.                              *)
(***************************************************************************)
\* A menu or a page of the dock activates or stops a module.
DockActivates(a) ==
  /\ Op /\ a \in modules \ active
  /\ Becomes(a, TRUE, active \cup {a})
  /\ aided' = (aided \/ a \in External \ disk)
  /\ UNCHANGED <<disk, packVars, modules, open, listVars, sel, installed, canActivate, editVars, refused>>

DockStops(a) ==
  /\ Op /\ a \in active
  /\ Becomes(a, FALSE, active \ {a})
  /\ UNCHANGED <<disk, packVars, modules, open, listVars, sel, installed, canActivate, editVars, refused, aided>>

\* The user drops an archive of the web site on the dock.
DockGetsArchive(a) ==
  /\ Op /\ a \in Served /\ Unpacked(a) /\ modules' = modules \cup {a}
  /\ Becomes(a, TRUE, active \cup {a}) /\ aided' = TRUE
  /\ UNCHANGED <<open, listVars, sel, installed, canActivate, editVars, refused>>

\* cdc external: the dock is not told.
CliInstall(a) ==
  /\ AnyOp /\ a \in Served /\ Unpacked(a) /\ aided' = TRUE
  /\ UNCHANGED <<dockVars, open, pageVars, editVars, panic>>

\* cdc external -r: ListFromDir gives every package the type of one of the user.
CliRemove(a) ==
  /\ AnyOp /\ a \in disk /\ disk' = disk \ {a} /\ aided' = TRUE
  /\ UNCHANGED <<packVars, dockVars, open, pageVars, editVars, panic>>

\* The dock registers the packages it finds when it starts.
RestartDock ==
  /\ ops < MaxOps /\ ops' = ops + 1
  /\ modules' = disk \cup Internal /\ active' = active \cap (disk \cup Internal)
  /\ NoPages /\ panic' = None /\ aided' = FALSE
  /\ UNCHANGED <<disk, packVars>>

Next ==
  \/ OpenWindow \/ CloseWindow \/ OpenDownload \/ ToggleInstalled \/ ToggleActive \/ RestartDock
  \/ AddNothing \/ StartConsole \/ SaveStep("page") \/ SaveStep("console")
  \/ \E a \in Applets : \/ SelectPackage(a) \/ AddApplet(a) \/ SelectEdit(a) \/ SaveEdit("page", a) \/ SaveEdit("console", a)
                        \/ DockActivates(a) \/ DockStops(a) \/ DockGetsArchive(a)
                        \/ CliInstall(a) \/ CliRemove(a)

Spec == Init /\ [][Next]_vars

(***************************************************************************)
(* Properties.                                                             *)
(***************************************************************************)
TypeOK ==
  /\ disk \subseteq External /\ modules \subseteq Applets /\ active \subseteq modules
  /\ Internal \subseteq modules /\ open \in BOOLEAN
  /\ addRows \subseteq Applets /\ addUnused \subseteq Applets /\ listed \subseteq Applets
  /\ typ \in [Applets -> Types \cup {None}] /\ app \subseteq Applets /\ sel \in Applets \cup {None}
  /\ {installed, isActive, canInstall, canActivate, aided, refused} \subseteq BOOLEAN
  /\ vers \in [Applets -> [conf : Nat \cup {Unread}, pack : Nat \cup {Unread}]]
  /\ seen \in [Editors -> [Applets -> Nat \cup {Unread}]]
  /\ save \in [Editors -> {Idle} \cup [step : {"conf", "pack", "reload"}, app : Applets, new : Nat]]
  /\ top \in [Applets -> Nat] /\ mixed \subseteq Applets
  /\ panic \in {None, "selection", "module"} /\ ops \in Nat

\* The add page offers the applets that can be added, and no module it has listed is
\* lost: the two lists follow the dock, whoever starts or stops an applet.
AddListFollowsDock ==
  open /\ panic = None =>
    /\ addRows = {a \in listed : CanAdd(a, active)}
    /\ addUnused = listed \ addRows

\* The download page removes no package that the server cannot give back ("dev by user
\* to prevent deletion"), and none of an active applet while nothing is changed from
\* outside; the command line removes any.
PageKeepsPackages ==
  [][\A a \in disk \ disk' : CliRemove(a) \/ (a \in Served /\ (a \notin active \/ aided))]_vars

\* The switch of the selected package tells whether its applet runs: never an applet
\* that does not, and any that does while nothing is changed from outside.
SwitchShowsDock ==
  sel # None /\ panic = None =>
    /\ isActive => sel \in active
    /\ sel \in active /\ ~aided => isActive

\* The dock calls a module the page does not know, and ends, only once packages were
\* changed from outside or the install of the selected package has failed.
PanicIsExplained == panic = "module" => aided \/ refused

\* A save moves the config file of a package by one version, then the package to the
\* same one, or one of them is cut, or the save ends: no version goes back or is skipped.
\* A save of the other editor, which the mutex does not keep out, or an install meanwhile
\* may bring an older version back; but no file is ever more than one version ahead of
\* the config files there were, and the package never is: its upgrade is always one of
\* the configurations ("so the config upgrade becomes mandatory").
VersionsGoTogether ==
  [][\A a \in Applets :
       LET old == vers[a]  new == vers'[a]
       IN  /\ new.conf <= top[a] + 1 /\ new.pack <= top'[a]
           /\ \/ a \in mixed'
              \/ new \in {old, Original}
              \/ new.conf \in {old.conf + 1, Unread} /\ new.pack = old.pack
              \/ new.conf = old.conf /\ new.pack \in {new.conf, Unread}]_vars

\* The comment of OnSelect (confapplets.go:325): the active switch is disabled while
\* the package is not installed. A failed install enables it.
ActiveNeedsInstalled == sel # None /\ canActivate => IsInstalled(sel)
================================================================================
