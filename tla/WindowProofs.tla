------------------------------ MODULE WindowProofs ------------------------------
(***************************************************************************)
(* Proofs about the pages of the configuration window: those of the        *)
(* packages (Packages), then those of the configuration files (ConfGui),   *)
(* for any values of the constants.                                        *)
(*                                                                         *)
(* A page of packages tells the truth about the dock because of three      *)
(* facts: the lists follow every event of the dock (LInv), what is listed  *)
(* was on the server or on disk (KInv), and, as long as nothing is changed *)
(* from outside, the page knows the module of each package that is on disk *)
(* or active (MInv).  The switches (SInv) follow from them.                *)
(*                                                                         *)
(* The configuration window keeps the lists, pages and grabs together      *)
(* (Held), and each page fits the key it shows (PageOk): its widget is     *)
(* well made, an entry that holds the help text is marked (Honest), the    *)
(* rows of a sortable list are in order (Increasing), and a page that was  *)
(* not edited gives back what it read (Trip).  Most of the proof is about  *)
(* the widgets: what each is built from, what every edit leaves, and what  *)
(* it gives to the file.                                                   *)
(***************************************************************************)
EXTENDS Packages, ConfGui, SequenceTheorems, FiniteSetTheorems, WellFoundedInduction, TLAPS

USE DEF None

TInv ==
  /\ disk \subseteq External /\ modules \subseteq Applets /\ Internal \subseteq modules
  /\ active \subseteq modules /\ app \subseteq modules /\ listed \subseteq modules
  /\ typ \in [Applets -> Types \cup {None}] /\ sel \in Applets \cup {None}

\* The switches and flags.
BInv ==
  /\ open \in BOOLEAN /\ installed \in BOOLEAN /\ isActive \in BOOLEAN /\ canInstall \in BOOLEAN
  /\ canActivate \in BOOLEAN /\ aided \in BOOLEAN /\ refused \in BOOLEAN

\* The add page.
LInv == AddListFollowsDock /\ (~open => addRows = {})

\* What the download page lists, and when.
KInv ==
  /\ ~open => sel = None /\ \A a \in Applets : typ[a] = None
  /\ sel # None => typ[sel] # None /\ (canInstall => typ[sel] # "dev")
  /\ \A a \in Applets : /\ typ[a] # None => a \in External
                        /\ typ[a] \in {"distant", "user"} => a \in Served

\* The modules the page knows.
MInv ==
  ~aided =>
    /\ disk \subseteq modules
    /\ \A a \in Applets : /\ typ[a] # None /\ (a \in disk \/ a \in active) => a \in app
                          /\ IsInstalled(a) => a \in app

\* The switches of the package selected.
SInv ==
  /\ SwitchShowsDock
  /\ sel # None /\ canActivate /\ ~aided /\ ~refused => sel \in app
  /\ PanicIsExplained

IInv == TInv /\ BInv /\ LInv /\ KInv /\ MInv /\ SInv

\* What the invariant reads.
read == <<disk, modules, active, open, addVars, listVars, sel, menuVars, panic, aided, refused>>

LEMMA InitInv == Init => IInv
<1> SUFFICES ASSUME Init PROVE IInv
  OBVIOUS
<1> USE PackagesAssumption DEF Init
<1>1. TInv
  BY SMT DEF TInv, External, Types
<1>2. BInv
  BY Zenon DEF BInv
<1>3. LInv
  BY SMT DEF TInv, External, Types, LInv, AddListFollowsDock, CanAdd
<1>4. KInv
  BY SMT DEF TInv, External, Types, BInv, KInv
<1>5. MInv
  BY SMT DEF TInv, External, Types, BInv, KInv, MInv, IsInstalled
<1>6. SInv
  BY SMT DEF TInv, External, Types, BInv, KInv, MInv, IsInstalled, SInv, SwitchShowsDock,
     PanicIsExplained
<1> QED BY <1>1, <1>2, <1>3, <1>4, <1>5, <1>6 DEF IInv

LEMMA SameInv == IInv /\ UNCHANGED read => IInv'
<1> SUFFICES ASSUME IInv, UNCHANGED read PROVE IInv'
  OBVIOUS
<1> USE DEF read, IInv, addVars, listVars, menuVars
<1>1. TInv'
  BY SMT DEF TInv, External, Types
<1>2. BInv'
  BY Zenon DEF BInv
<1>3. LInv'
  BY SMT DEF TInv, External, Types, LInv, AddListFollowsDock, CanAdd
<1>4. KInv'
  BY SMT DEF TInv, External, Types, BInv, KInv
<1>5. MInv'
  BY SMT DEF TInv, External, Types, BInv, KInv, MInv, IsInstalled
<1>6. SInv'
  BY SMT DEF TInv, External, Types, BInv, KInv, MInv, IsInstalled, SInv, SwitchShowsDock,
     PanicIsExplained
<1> QED BY <1>1, <1>2, <1>3, <1>4, <1>5, <1>6

LEMMA NextInv == IInv /\ [Next]_vars => IInv'
<1> SUFFICES ASSUME IInv, [Next]_vars PROVE IInv'
  OBVIOUS
<1> USE PackagesAssumption DEF IInv, dockVars, addVars, listVars, menuVars, pageVars
<1>1. CASE OpenWindow
  <2>1. TInv'
    BY <1>1, SMT DEF OpenWindow, Op, AnyOp, TInv, External, Types
  <2>2. BInv'
    BY <1>1, Zenon DEF OpenWindow, Op, AnyOp, BInv
  <2>3. LInv'
    BY <1>1, SMT DEF OpenWindow, Op, AnyOp, TInv, External, Types, LInv, AddListFollowsDock, CanAdd
  <2>4. KInv'
    BY <1>1, SMT DEF OpenWindow, Op, AnyOp, TInv, External, Types, BInv, KInv
  <2>5. MInv'
    BY <1>1, SMT DEF OpenWindow, Op, AnyOp, TInv, External, Types, BInv, KInv, MInv, IsInstalled
  <2>6. SInv'
    BY <1>1, SMT DEF OpenWindow, Op, AnyOp, TInv, External, Types, BInv, KInv, MInv, IsInstalled, SInv,
       SwitchShowsDock, PanicIsExplained
  <2> QED BY <2>1, <2>2, <2>3, <2>4, <2>5, <2>6 DEF IInv
<1>2. CASE CloseWindow
  <2>1. TInv'
    BY <1>2, SMT DEF CloseWindow, Op, AnyOp, NoPages, NoDownload, Unselected, TInv, External, Types
  <2>2. BInv'
    BY <1>2, Zenon DEF CloseWindow, Op, AnyOp, NoPages, NoDownload, Unselected, BInv
  <2>3. LInv'
    BY <1>2, SMT DEF CloseWindow, Op, AnyOp, NoPages, NoDownload, Unselected, TInv, External, Types, LInv,
       AddListFollowsDock, CanAdd
  <2>4. KInv'
    BY <1>2, SMT DEF CloseWindow, Op, AnyOp, NoPages, NoDownload, Unselected, TInv, External, Types, BInv, KInv
  <2>5. MInv'
    BY <1>2, SMT DEF CloseWindow, Op, AnyOp, NoPages, NoDownload, Unselected, TInv, External, Types, BInv, KInv, MInv,
       IsInstalled
  <2>6. SInv'
    BY <1>2, SMT DEF CloseWindow, Op, AnyOp, NoPages, NoDownload, Unselected, TInv, External, Types, BInv, KInv, MInv,
       IsInstalled, SInv, SwitchShowsDock, PanicIsExplained
  <2> QED BY <2>1, <2>2, <2>3, <2>4, <2>5, <2>6 DEF IInv
<1>3. CASE OpenDownload
  <2>1. TInv'
    BY <1>3, SMTT(30) DEF OpenDownload, Op, AnyOp, NoDownload, Unselected, ListDownloadIndex, TInv, External, Types
  <2>2. BInv'
    BY <1>3, Zenon DEF OpenDownload, Op, AnyOp, NoDownload, Unselected, ListDownloadIndex, BInv
  <2>3. LInv'
    BY <1>3, SMT DEF OpenDownload, Op, AnyOp, NoDownload, Unselected, ListDownloadIndex, TInv, External, Types, LInv,
       AddListFollowsDock, CanAdd
  <2>4. KInv'
    BY <1>3, SMT DEF OpenDownload, Op, AnyOp, NoDownload, Unselected, ListDownloadIndex, TInv, External, Types, BInv, KInv
  <2>5. MInv'
    BY <1>3, SMT DEF OpenDownload, Op, AnyOp, NoDownload, Unselected, ListDownloadIndex, TInv, External, Types, BInv, KInv,
       MInv, IsInstalled
  <2>6. SInv'
    BY <1>3, SMT DEF OpenDownload, Op, AnyOp, NoDownload, Unselected, ListDownloadIndex, TInv, External, Types, BInv, KInv,
       MInv, IsInstalled, SInv, SwitchShowsDock, PanicIsExplained
  <2> QED BY <2>1, <2>2, <2>3, <2>4, <2>5, <2>6 DEF IInv
<1>4. CASE ToggleInstalled
  <2>1. CASE ~installed /\ ArchiveComes(sel)
    <3>1. TInv'
      BY <1>4, <2>1, SMT DEF ToggleInstalled, Op, AnyOp, CanUninstall, ArchiveComes, Unpacked, AddPageState, TInv, KInv,
         External, Types
    <3>2. BInv'
      BY <1>4, <2>1, Zenon DEF ToggleInstalled, Op, AnyOp, CanUninstall, ArchiveComes, Unpacked, AddPageState, BInv
    <3>3. LInv'
      BY <1>4, <2>1, SMT DEF ToggleInstalled, Op, AnyOp, CanUninstall, ArchiveComes, Unpacked, AddPageState, TInv,
         External, Types, LInv, AddListFollowsDock, CanAdd
    <3>4. KInv'
      BY <1>4, <2>1, SMT DEF ToggleInstalled, Op, AnyOp, CanUninstall, ArchiveComes, Unpacked, AddPageState, TInv,
         External, Types, BInv, KInv
    <3>5. MInv'
      BY <1>4, <2>1, SMT DEF ToggleInstalled, Op, AnyOp, CanUninstall, ArchiveComes, Unpacked, AddPageState, TInv,
         External, Types, BInv, KInv, MInv, IsInstalled
    <3>6. SInv'
      BY <1>4, <2>1, SMT DEF ToggleInstalled, Op, AnyOp, CanUninstall, ArchiveComes, Unpacked, AddPageState, TInv,
         External, Types, BInv, KInv, MInv, IsInstalled, SInv, SwitchShowsDock, PanicIsExplained
    <3> QED BY <3>1, <3>2, <3>3, <3>4, <3>5, <3>6 DEF IInv
  <2>2. CASE ~installed /\ ModuleFound(sel)
    <3>1. TInv'
      BY <1>4, <2>2, SMT DEF ToggleInstalled, Op, AnyOp, CanUninstall, ModuleFound, TInv, External, Types
    <3>2. BInv'
      BY <1>4, <2>2, Zenon DEF ToggleInstalled, Op, AnyOp, CanUninstall, ModuleFound, BInv
    <3>3. LInv'
      BY <1>4, <2>2, SMT DEF ToggleInstalled, Op, AnyOp, CanUninstall, ModuleFound, TInv, External, Types,
         LInv, AddListFollowsDock, CanAdd
    <3>4. KInv'
      BY <1>4, <2>2, SMT DEF ToggleInstalled, Op, AnyOp, CanUninstall, ModuleFound, TInv, External, Types,
         BInv, KInv
    <3>5. MInv'
      BY <1>4, <2>2, SMT DEF ToggleInstalled, Op, AnyOp, CanUninstall, ModuleFound, TInv, External, Types,
         BInv, KInv, MInv, IsInstalled
    <3>6. SInv'
      BY <1>4, <2>2, SMT DEF ToggleInstalled, Op, AnyOp, CanUninstall, ModuleFound, TInv, External, Types,
         BInv, KInv, MInv, IsInstalled, SInv, SwitchShowsDock, PanicIsExplained
    <3> QED BY <3>1, <3>2, <3>3, <3>4, <3>5, <3>6 DEF IInv
  <2>3. CASE ~installed /\ InstallFails(sel)
    <3>1. TInv'
      BY <1>4, <2>3, SMT DEF ToggleInstalled, Op, AnyOp, CanUninstall, InstallFails, SetInstalledState, TInv,
         External, Types
    <3>2. BInv'
      BY <1>4, <2>3, Zenon DEF ToggleInstalled, Op, AnyOp, CanUninstall, InstallFails, SetInstalledState, BInv
    <3>3. LInv'
      BY <1>4, <2>3, SMT DEF ToggleInstalled, Op, AnyOp, CanUninstall, InstallFails, SetInstalledState, TInv,
         External, Types, LInv, AddListFollowsDock, CanAdd
    <3>4. KInv'
      BY <1>4, <2>3, SMT DEF ToggleInstalled, Op, AnyOp, CanUninstall, InstallFails, SetInstalledState, TInv,
         External, Types, BInv, KInv
    <3>5. MInv'
      BY <1>4, <2>3, SMT DEF ToggleInstalled, Op, AnyOp, CanUninstall, InstallFails, SetInstalledState, TInv,
         External, Types, BInv, KInv, MInv, IsInstalled
    <3>6. SInv'
      BY <1>4, <2>3, SMT DEF ToggleInstalled, Op, AnyOp, CanUninstall, InstallFails, SetInstalledState, TInv,
         External, Types, BInv, KInv, MInv, IsInstalled, SInv, SwitchShowsDock, PanicIsExplained
    <3> QED BY <3>1, <3>2, <3>3, <3>4, <3>5, <3>6 DEF IInv
  <2>4. CASE installed /\ PackageGoes(sel)
    <3>1. TInv'
      BY <1>4, <2>4, SMT DEF ToggleInstalled, Op, AnyOp, CanUninstall, PackageGoes, Removable, TInv, External, Types
    <3>2. BInv'
      BY <1>4, <2>4, Zenon DEF ToggleInstalled, Op, AnyOp, CanUninstall, PackageGoes, Removable, BInv
    <3>3. LInv'
      BY <1>4, <2>4, SMT DEF ToggleInstalled, Op, AnyOp, CanUninstall, PackageGoes, Removable, TInv, External, Types,
         LInv, AddListFollowsDock, CanAdd
    <3>4. KInv'
      BY <1>4, <2>4, SMT DEF ToggleInstalled, Op, AnyOp, CanUninstall, PackageGoes, Removable, TInv, External, Types,
         BInv, KInv
    <3>5. MInv'
      BY <1>4, <2>4, SMT DEF ToggleInstalled, Op, AnyOp, CanUninstall, PackageGoes, Removable, TInv, External, Types,
         BInv, KInv, MInv, IsInstalled
    <3>6. SInv'
      BY <1>4, <2>4, SMT DEF ToggleInstalled, Op, AnyOp, CanUninstall, PackageGoes, Removable, TInv, External, Types,
         BInv, KInv, MInv, IsInstalled, SInv, SwitchShowsDock, PanicIsExplained
    <3> QED BY <3>1, <3>2, <3>3, <3>4, <3>5, <3>6 DEF IInv
  <2>5. CASE installed /\ UninstallFails(sel)
    <3>1. TInv'
      BY <1>4, <2>5, SMT DEF ToggleInstalled, Op, AnyOp, CanUninstall, UninstallFails, Removable, SetInstalledState, TInv,
         External, Types
    <3>2. BInv'
      BY <1>4, <2>5, Zenon DEF ToggleInstalled, Op, AnyOp, CanUninstall, UninstallFails, Removable, SetInstalledState,
         BInv
    <3>3. LInv'
      BY <1>4, <2>5, SMT DEF ToggleInstalled, Op, AnyOp, CanUninstall, UninstallFails, Removable, SetInstalledState, TInv,
         External, Types, LInv, AddListFollowsDock, CanAdd
    <3>4. KInv'
      BY <1>4, <2>5, SMT DEF ToggleInstalled, Op, AnyOp, CanUninstall, UninstallFails, Removable, SetInstalledState, TInv,
         External, Types, BInv, KInv
    <3>5. MInv'
      BY <1>4, <2>5, SMT DEF ToggleInstalled, Op, AnyOp, CanUninstall, UninstallFails, Removable, SetInstalledState, TInv,
         External, Types, BInv, KInv, MInv, IsInstalled
    <3>6. SInv'
      BY <1>4, <2>5, SMT DEF ToggleInstalled, Op, AnyOp, CanUninstall, UninstallFails, Removable, SetInstalledState, TInv,
         External, Types, BInv, KInv, MInv, IsInstalled, SInv, SwitchShowsDock, PanicIsExplained
    <3> QED BY <3>1, <3>2, <3>3, <3>4, <3>5, <3>6 DEF IInv
  <2> QED BY <1>4, <2>1, <2>2, <2>3, <2>4, <2>5 DEF ToggleInstalled, Op, AnyOp, Install, Uninstall
<1>5. CASE ToggleActive
  <2>1. CASE sel \notin app
    <3>1. TInv'
      BY <1>5, <2>1, SMT DEF ToggleActive, Op, AnyOp, CanUninstall, TInv, External, Types
    <3>2. BInv'
      BY <1>5, <2>1, Zenon DEF ToggleActive, Op, AnyOp, CanUninstall, BInv
    <3>3. LInv'
      BY <1>5, <2>1, SMT DEF ToggleActive, Op, AnyOp, CanUninstall, TInv, External, Types, BInv, KInv, LInv,
         AddListFollowsDock, CanAdd
    <3>4. KInv'
      BY <1>5, <2>1, SMT DEF ToggleActive, Op, AnyOp, CanUninstall, TInv, External, Types, BInv, KInv
    <3>5. MInv'
      BY <1>5, <2>1, SMT DEF ToggleActive, Op, AnyOp, CanUninstall, TInv, External, Types, BInv, KInv, MInv,
         IsInstalled
    <3>6. SInv'
      BY <1>5, <2>1, SMT DEF ToggleActive, Op, AnyOp, CanUninstall, TInv, External, Types, BInv, KInv, MInv,
         IsInstalled, SInv, SwitchShowsDock, PanicIsExplained
    <3> QED BY <3>1, <3>2, <3>3, <3>4, <3>5, <3>6 DEF IInv
  <2>2. CASE sel \in app /\ isActive
    <3>1. TInv'
      BY <1>5, <2>2, SMT DEF ToggleActive, Op, AnyOp, CanUninstall, AddPageState, TInv, External, Types
    <3>2. BInv'
      BY <1>5, <2>2, Zenon DEF ToggleActive, Op, AnyOp, CanUninstall, AddPageState, BInv
    <3>3. LInv'
      BY <1>5, <2>2, SMT DEF ToggleActive, Op, AnyOp, CanUninstall, AddPageState, TInv, External, Types, BInv,
         KInv, LInv, AddListFollowsDock, CanAdd
    <3>4. KInv'
      BY <1>5, <2>2, SMT DEF ToggleActive, Op, AnyOp, CanUninstall, AddPageState, TInv, External, Types, BInv,
         KInv
    <3>5. MInv'
      BY <1>5, <2>2, SMT DEF ToggleActive, Op, AnyOp, CanUninstall, AddPageState, TInv, External, Types, BInv,
         KInv, MInv, IsInstalled
    <3>6. SInv'
      <4>1. isActive' = ~isActive /\ ~isActive'
        BY <1>5, <2>2, Zenon DEF ToggleActive
      <4>2. panic' # "module"
        <5>1. panic' = None \/ AddPageState(sel, ~isActive, active \ {sel})
          BY <1>5, <2>2, Zenon DEF ToggleActive, Op, AnyOp
        <5>2. CASE AddPageState(sel, ~isActive, active \ {sel})
          BY <5>2, SMT DEF AddPageState
        <5> QED BY <5>1, <5>2
      <4> QED BY <4>1, <4>2, <1>5, <2>2, SMT DEF ToggleActive, Op, AnyOp, TInv, External, Types, BInv, KInv,
           MInv, IsInstalled, SInv, SwitchShowsDock, PanicIsExplained
    <3> QED BY <3>1, <3>2, <3>3, <3>4, <3>5, <3>6 DEF IInv
  <2>3. CASE sel \in app /\ ~isActive
    <3>1. TInv'
      BY <1>5, <2>3, SMT DEF ToggleActive, Op, AnyOp, CanUninstall, AddPageState, TInv, External, Types
    <3>2. BInv'
      BY <1>5, <2>3, Zenon DEF ToggleActive, Op, AnyOp, CanUninstall, AddPageState, BInv
    <3>3. LInv'
      BY <1>5, <2>3, SMT DEF ToggleActive, Op, AnyOp, CanUninstall, AddPageState, TInv, External, Types, BInv,
         KInv, LInv, AddListFollowsDock, CanAdd
    <3>4. KInv'
      BY <1>5, <2>3, SMT DEF ToggleActive, Op, AnyOp, CanUninstall, AddPageState, TInv, External, Types, BInv,
         KInv
    <3>5. MInv'
      BY <1>5, <2>3, SMT DEF ToggleActive, Op, AnyOp, CanUninstall, AddPageState, TInv, External, Types, BInv,
         KInv, MInv, IsInstalled
    <3>6. SInv'
      BY <1>5, <2>3, SMT DEF ToggleActive, Op, AnyOp, CanUninstall, AddPageState, TInv, External, Types, BInv,
         KInv, MInv, IsInstalled, SInv, SwitchShowsDock, PanicIsExplained
    <3> QED BY <3>1, <3>2, <3>3, <3>4, <3>5, <3>6 DEF IInv
  <2> QED BY <2>1, <2>2, <2>3
<1>6. CASE RestartDock
  <2>1. TInv'
    BY <1>6, SMT DEF RestartDock, NoPages, NoDownload, Unselected, TInv, External, Types
  <2>2. BInv'
    BY <1>6, Zenon DEF RestartDock, NoPages, NoDownload, Unselected, BInv
  <2>3. LInv'
    BY <1>6, SMT DEF RestartDock, NoPages, NoDownload, Unselected, TInv, External, Types, LInv,
       AddListFollowsDock, CanAdd
  <2>4. KInv'
    BY <1>6, SMT DEF RestartDock, NoPages, NoDownload, Unselected, TInv, External, Types, BInv, KInv
  <2>5. MInv'
    BY <1>6, SMT DEF RestartDock, NoPages, NoDownload, Unselected, TInv, External, Types, BInv, KInv, MInv,
       IsInstalled
  <2>6. SInv'
    BY <1>6, SMT DEF RestartDock, NoPages, NoDownload, Unselected, TInv, External, Types, BInv, KInv, MInv,
       IsInstalled, SInv, SwitchShowsDock, PanicIsExplained
  <2> QED BY <2>1, <2>2, <2>3, <2>4, <2>5, <2>6 DEF IInv
<1>7. CASE StartConsole
  BY <1>7, SameInv, Zenon DEF StartConsole, read
<1>8. ASSUME NEW a \in Applets, SelectPackage(a) PROVE IInv'
  <2>1. isActive' = (a \in app /\ a \in active)
    BY <1>8 DEF SelectPackage, Op, AnyOp, IsActive
  <2>2. canInstall' = (typ[a] # "dev" /\ ~(a \in app /\ a \in active))
    BY <1>8 DEF SelectPackage, Op, AnyOp, CanUninstall
  <2>3. /\ installed' = IsInstalled(a)
        /\ canActivate' = IsInstalled(a)
    BY <1>8 DEF SelectPackage
  <2>4. TInv'
    BY <1>8, SMT DEF SelectPackage, Op, AnyOp, TInv, External, Types
  <2>5. BInv'
    <3>1. open' \in BOOLEAN /\ aided' \in BOOLEAN
      BY <1>8, Zenon DEF SelectPackage, Op, AnyOp, BInv
    <3>2. refused' \in BOOLEAN
      BY <1>8 DEF SelectPackage
    <3>3. isActive' \in BOOLEAN
      BY <2>1
    <3>4. canInstall' \in BOOLEAN
      BY <2>2
    <3>5. installed' \in BOOLEAN /\ canActivate' \in BOOLEAN
      BY <2>3 DEF IsInstalled
    <3> QED BY <3>1, <3>2, <3>3, <3>4, <3>5 DEF BInv
  <2>6. LInv'
    BY <1>8, SMT DEF SelectPackage, Op, AnyOp, TInv, External, Types, LInv, AddListFollowsDock, CanAdd
  <2>7. KInv'
    <3>1. canInstall' => typ[a] # "dev"
      BY <2>2, Zenon
    <3> QED BY <3>1, <1>8, SMT DEF SelectPackage, Op, AnyOp, TInv, External, Types, BInv, KInv
  <2>8. MInv'
    BY <1>8, SMT DEF SelectPackage, Op, AnyOp, TInv, External, Types, BInv, KInv, MInv, IsInstalled
  <2>9. SInv'
    <3>1. /\ isActive' => a \in app /\ a \in active
          /\ a \in app /\ a \in active => isActive'
      BY <2>1, Zenon
    <3>2. canActivate' => IsInstalled(a)
      BY <2>3, Zenon
    <3> QED BY <3>1, <3>2, <1>8, SMT DEF SelectPackage, Op, AnyOp, TInv, External, Types, BInv, KInv, MInv,
         IsInstalled, SInv, SwitchShowsDock, PanicIsExplained
  <2> QED BY <2>4, <2>5, <2>6, <2>7, <2>8, <2>9 DEF IInv
<1>9. ASSUME NEW a \in Applets, AddApplet(a) PROVE IInv'
  <2>1. TInv'
    BY <1>9, SMT DEF AddApplet, Op, AnyOp, LInv, AddListFollowsDock, CanAdd, Becomes, AddPageState, MenuState,
       CanUninstall, TInv, External, Types
  <2>2. BInv'
    BY <1>9, Zenon DEF AddApplet, Op, AnyOp, LInv, AddListFollowsDock, CanAdd, Becomes, AddPageState,
       MenuState, CanUninstall, BInv
  <2>3. LInv'
    BY <1>9, SMT DEF AddApplet, Op, AnyOp, LInv, AddListFollowsDock, CanAdd, Becomes, AddPageState, MenuState,
       CanUninstall, TInv, External, Types, LInv, AddListFollowsDock, CanAdd
  <2>4. KInv'
    BY <1>9, SMT DEF AddApplet, Op, AnyOp, LInv, AddListFollowsDock, CanAdd, Becomes, AddPageState, MenuState,
       CanUninstall, TInv, External, Types, BInv, KInv
  <2>5. MInv'
    BY <1>9, SMT DEF AddApplet, Op, AnyOp, LInv, AddListFollowsDock, CanAdd, Becomes, AddPageState, MenuState,
       CanUninstall, TInv, External, Types, BInv, KInv, MInv, IsInstalled
  <2>6. SInv'
    BY <1>9, SMT DEF AddApplet, Op, AnyOp, LInv, AddListFollowsDock, CanAdd, Becomes, AddPageState, MenuState,
       CanUninstall, TInv, External, Types, BInv, KInv, MInv, IsInstalled, SInv, SwitchShowsDock,
       PanicIsExplained
  <2> QED BY <2>1, <2>2, <2>3, <2>4, <2>5, <2>6 DEF IInv
<1>10. ASSUME NEW a \in Applets, SelectEdit(a) PROVE IInv'
  BY <1>10, SameInv DEF SelectEdit, read
<1>11. ASSUME NEW a \in Applets, SaveEdit("page", a) PROVE IInv'
  BY <1>11, SameInv DEF SaveEdit, read
<1>12. ASSUME NEW a \in Applets, SaveEdit("console", a) PROVE IInv'
  BY <1>12, SameInv DEF SaveEdit, read
<1>13. ASSUME NEW a \in Applets, DockActivates(a) PROVE IInv'
  <2>1. TInv'
    BY <1>13, SMT DEF DockActivates, Op, AnyOp, Becomes, AddPageState, MenuState, CanUninstall, TInv, External,
       Types
  <2>2. BInv'
    BY <1>13, Zenon DEF DockActivates, Op, AnyOp, Becomes, AddPageState, MenuState, CanUninstall, BInv
  <2>3. LInv'
    BY <1>13, SMT DEF DockActivates, Op, AnyOp, Becomes, AddPageState, MenuState, CanUninstall, TInv, External,
       Types, LInv, AddListFollowsDock, CanAdd
  <2>4. KInv'
    BY <1>13, SMT DEF DockActivates, Op, AnyOp, Becomes, AddPageState, MenuState, CanUninstall, TInv, External,
       Types, BInv, KInv
  <2>5. MInv'
    BY <1>13, SMT DEF DockActivates, Op, AnyOp, Becomes, AddPageState, MenuState, CanUninstall, TInv, External,
       Types, BInv, KInv, MInv, IsInstalled
  <2>6. SInv'
    BY <1>13, SMT DEF DockActivates, Op, AnyOp, Becomes, AddPageState, MenuState, CanUninstall, TInv, External,
       Types, BInv, KInv, MInv, IsInstalled, SInv, SwitchShowsDock, PanicIsExplained
  <2> QED BY <2>1, <2>2, <2>3, <2>4, <2>5, <2>6 DEF IInv
<1>14. ASSUME NEW a \in Applets, DockStops(a) PROVE IInv'
  <2>1. TInv'
    BY <1>14, SMT DEF DockStops, Op, AnyOp, Becomes, AddPageState, MenuState, CanUninstall, TInv, External,
       Types
  <2>2. BInv'
    BY <1>14, Zenon DEF DockStops, Op, AnyOp, Becomes, AddPageState, MenuState, CanUninstall, BInv
  <2>3. LInv'
    BY <1>14, SMT DEF DockStops, Op, AnyOp, Becomes, AddPageState, MenuState, CanUninstall, TInv, External,
       Types, LInv, AddListFollowsDock, CanAdd
  <2>4. KInv'
    BY <1>14, SMT DEF DockStops, Op, AnyOp, Becomes, AddPageState, MenuState, CanUninstall, TInv, External,
       Types, BInv, KInv
  <2>5. MInv'
    BY <1>14, SMT DEF DockStops, Op, AnyOp, Becomes, AddPageState, MenuState, CanUninstall, TInv, External,
       Types, BInv, KInv, MInv, IsInstalled
  <2>6. SInv'
    BY <1>14, SMT DEF DockStops, Op, AnyOp, Becomes, AddPageState, MenuState, CanUninstall, TInv, External,
       Types, BInv, KInv, MInv, IsInstalled, SInv, SwitchShowsDock, PanicIsExplained
  <2> QED BY <2>1, <2>2, <2>3, <2>4, <2>5, <2>6 DEF IInv
<1>15. ASSUME NEW a \in Applets, DockGetsArchive(a) PROVE IInv'
  <2>1. TInv'
    BY <1>15, SMT DEF DockGetsArchive, Op, AnyOp, Unpacked, Becomes, AddPageState, MenuState, CanUninstall, TInv,
       External, Types
  <2>2. BInv'
    BY <1>15, Zenon DEF DockGetsArchive, Op, AnyOp, Unpacked, Becomes, AddPageState, MenuState, CanUninstall, BInv
  <2>3. LInv'
    BY <1>15, SMT DEF DockGetsArchive, Op, AnyOp, Unpacked, Becomes, AddPageState, MenuState, CanUninstall, TInv,
       External, Types, LInv, AddListFollowsDock, CanAdd
  <2>4. KInv'
    BY <1>15, SMT DEF DockGetsArchive, Op, AnyOp, Unpacked, Becomes, AddPageState, MenuState, CanUninstall, TInv,
       External, Types, BInv, KInv
  <2>5. MInv'
    BY <1>15, SMT DEF DockGetsArchive, Op, AnyOp, Unpacked, Becomes, AddPageState, MenuState, CanUninstall, TInv,
       External, Types, BInv, KInv, MInv, IsInstalled
  <2>6. SInv'
    BY <1>15, SMT DEF DockGetsArchive, Op, AnyOp, Unpacked, Becomes, AddPageState, MenuState, CanUninstall, TInv,
       External, Types, BInv, KInv, MInv, IsInstalled, SInv, SwitchShowsDock, PanicIsExplained
  <2> QED BY <2>1, <2>2, <2>3, <2>4, <2>5, <2>6 DEF IInv
<1>16. ASSUME NEW a \in Applets, CliInstall(a) PROVE IInv'
  <2>1. TInv'
    BY <1>16, SMT DEF CliInstall, Op, AnyOp, Unpacked, TInv, External, Types
  <2>2. BInv'
    BY <1>16, Zenon DEF CliInstall, Op, AnyOp, Unpacked, BInv
  <2>3. LInv'
    BY <1>16, SMT DEF CliInstall, Op, AnyOp, Unpacked, TInv, External, Types, LInv, AddListFollowsDock, CanAdd
  <2>4. KInv'
    BY <1>16, SMT DEF CliInstall, Op, AnyOp, Unpacked, TInv, External, Types, BInv, KInv
  <2>5. MInv'
    BY <1>16, SMT DEF CliInstall, Op, AnyOp, Unpacked, TInv, External, Types, BInv, KInv, MInv, IsInstalled
  <2>6. SInv'
    BY <1>16, SMT DEF CliInstall, Op, AnyOp, Unpacked, TInv, External, Types, BInv, KInv, MInv, IsInstalled, SInv,
       SwitchShowsDock, PanicIsExplained
  <2> QED BY <2>1, <2>2, <2>3, <2>4, <2>5, <2>6 DEF IInv
<1>17. ASSUME NEW a \in Applets, CliRemove(a) PROVE IInv'
  <2>1. TInv'
    BY <1>17, SMT DEF CliRemove, Op, AnyOp, TInv, External, Types
  <2>2. BInv'
    BY <1>17, Zenon DEF CliRemove, Op, AnyOp, BInv
  <2>3. LInv'
    BY <1>17, SMT DEF CliRemove, Op, AnyOp, TInv, External, Types, LInv, AddListFollowsDock, CanAdd
  <2>4. KInv'
    BY <1>17, SMT DEF CliRemove, Op, AnyOp, TInv, External, Types, BInv, KInv
  <2>5. MInv'
    BY <1>17, SMT DEF CliRemove, Op, AnyOp, TInv, External, Types, BInv, KInv, MInv, IsInstalled
  <2>6. SInv'
    BY <1>17, SMT DEF CliRemove, Op, AnyOp, TInv, External, Types, BInv, KInv, MInv, IsInstalled, SInv,
       SwitchShowsDock, PanicIsExplained
  <2> QED BY <2>1, <2>2, <2>3, <2>4, <2>5, <2>6 DEF IInv
<1>18. ASSUME NEW e \in Editors, SaveStep(e) PROVE IInv'
  BY <1>18, SameInv, Zenon DEF SaveStep, read
<1>19. CASE AddNothing
  <2>1. TInv'
    BY <1>19, Zenon DEF AddNothing, TInv
  <2>2. BInv'
    BY <1>19, Zenon DEF AddNothing, BInv
  <2>3. panic' = "selection" /\ panic' # "module" /\ panic' # None
    BY <1>19 DEF AddNothing
  <2>4. LInv' /\ SwitchShowsDock' /\ PanicIsExplained'
    BY <1>19, <2>3, Zenon DEF AddNothing, LInv, AddListFollowsDock, SwitchShowsDock, PanicIsExplained
  <2>5. KInv'
    BY <1>19, SMT DEF AddNothing, KInv
  <2>6. MInv'
    BY <1>19, SMT DEF AddNothing, MInv, IsInstalled
  <2>7. SInv'
    BY <1>19, <2>4, Zenon DEF AddNothing, SInv
  <2> QED BY <2>1, <2>2, <2>4, <2>5, <2>6, <2>7 DEF IInv
<1>20. CASE UNCHANGED vars
  BY <1>20, SameInv DEF vars, read
<1> QED BY <1>1, <1>2, <1>3, <1>4, <1>5, <1>6, <1>7, <1>8, <1>9, <1>10, <1>11, <1>12, <1>13, <1>14,
     <1>15, <1>16, <1>17, <1>18, <1>19, <1>20 DEF Next, Editors

LEMMA SpecInv == Spec => []IInv
  BY InitInv, NextInv, PTL DEF Spec

\* The two lists of the add page follow the dock, whoever starts or stops an applet
\* (ListAdd.UpdateModuleState).
THEOREM AddPageFollows == Spec => []AddListFollowsDock
<1>1. IInv => AddListFollowsDock
  BY DEF IInv, LInv
<1> QED BY <1>1, SpecInv, PTL

\* The switch of the package selected tells whether its applet runs
\* (MenuDownload.SetActiveState).
THEOREM SwitchIsTrue == Spec => []SwitchShowsDock
<1>1. IInv => SwitchShowsDock
  BY DEF IInv, SInv
<1> QED BY <1>1, SpecInv, PTL

\* Turning the active switch calls a module that is not known only after a change from
\* outside or a failed install (AppletDownload.Activate).
THEOREM NilModuleIsExplained == Spec => []PanicIsExplained
<1>1. IInv => PanicIsExplained
  BY DEF IInv, SInv
<1> QED BY <1>1, SpecInv, PTL

\* The page deletes only what the server can give back, and no running applet unless
\* something was changed from outside (AppletDownload.CanUninstall, Uninstall).
THEOREM PackagesAreKept == Spec => PageKeepsPackages
<1> DEFINE Keeps == \A a \in disk \ disk' : CliRemove(a) \/ (a \in Served /\ (a \notin active \/ aided))
<1>1. IInv /\ [Next]_vars => [Keeps]_vars
  <2> SUFFICES ASSUME IInv, Next, NEW b \in disk \ disk'
               PROVE  CliRemove(b) \/ (b \in Served /\ (b \notin active \/ aided))
    OBVIOUS
  <2>1. ASSUME NEW a \in Applets, CliRemove(a) PROVE CliRemove(b)
    <3>1. a = b
      BY <2>1, SMT DEF CliRemove
    <3> QED BY <2>1, <3>1
  <2>2. CASE ToggleInstalled
    <3>1. sel = b /\ Removable(b)
      <4>1. ArchiveComes(sel) \/ ModuleFound(sel) \/ InstallFails(sel) \/ PackageGoes(sel) \/ UninstallFails(sel)
        BY <2>2 DEF ToggleInstalled, Install, Uninstall
      <4>2. disk \subseteq disk' \/ (Removable(sel) /\ disk' = disk \ {sel})
        <5>1. CASE UninstallFails(sel)
          BY <5>1, SMT DEF UninstallFails
        <5> QED BY <4>1, <5>1, Zenon DEF ArchiveComes, Unpacked, ModuleFound, InstallFails, PackageGoes
      <4>3. Removable(sel) /\ disk' = disk \ {sel}
        BY <4>2
      <4>4. sel = b
        BY <4>3, SMT
      <4> QED BY <4>3, <4>4
    <3>2. b \in Served
      BY <3>1, SMT DEF IInv, TInv, External, KInv, Removable
    <3>3. CASE b \in active /\ ~aided
      <4>1. b \in app
        BY <3>1, <3>3, SMT DEF IInv, TInv, External, MInv, Removable
      <4> QED BY <3>1, <3>3, <4>1, Zenon DEF Removable, CanUninstall
    <3> QED BY <3>2, <3>3
  <2>3. disk \subseteq disk' \/ ToggleInstalled \/ \E a \in Applets : CliRemove(a)
    BY Zenon DEF Next, OpenWindow, CloseWindow, NoPages, OpenDownload, ToggleActive, RestartDock,
       StartConsole, SelectPackage, AddApplet, SelectEdit, SaveEdit, DockActivates, DockStops,
       DockGetsArchive, CliInstall, Unpacked, AddNothing, SaveStep
  <2> QED BY <2>1, <2>2, <2>3
<1> QED BY <1>1, SpecInv, PTL DEF Spec, PageKeepsPackages

\* The saves.
Saved == [step : {"idle", "conf", "pack", "reload"}, app : Applets \cup {None}, new : Int]

VTypes ==
  /\ vers \in [Applets -> [conf : Int, pack : Int]] /\ top \in [Applets -> Nat] /\ mixed \subseteq Applets
  /\ save \in [Editors -> Saved]

\* No file of a package is ahead of the config files there were, nor is a save, but by
\* the one version it will write.
Behind == \A a \in Applets : vers[a].conf <= top[a] /\ vers[a].pack <= top[a]

SaveOk(e) ==
  LET a == save[e].app  new == save[e].new
  IN  a # None =>
        /\ new \in Nat
        /\ save[e].step = "conf" => new <= top[a] + 1 /\ (a \in mixed \/ vers[a].conf = new - 1)
        /\ save[e].step = "pack" => new <= top[a] /\ (a \in mixed \/ vers[a].conf = new)

\* A step that writes has a package, and two saves of one are known to be mixed.
Alone ==
  /\ \A e \in Editors : save[e].step \in {"conf", "pack", "reload"} => save[e].app # None
  /\ \A e, f \in Editors : e # f /\ save[e].app = save[f].app /\ save[e].app # None => save[e].app \in mixed

VInv == VTypes /\ Behind /\ (\A e \in Editors : SaveOk(e)) /\ Alone

\* What happens to the saves and to the versions of the packages.
Keeps  == UNCHANGED packVars /\ \A e \in Editors : save'[e] \in {save[e], Idle}
Tests(e, a) == save[e] = Idle /\ TestVersion(e, a) /\ UNCHANGED <<vers, top>>
Writes(e) == (WriteConf(e) \/ WritePack(e) \/ Reload(e)) /\ UNCHANGED mixed

LEMMA VersionSteps ==
  TInv /\ VTypes /\ [Next]_vars =>
    /\ save' \in [Editors -> Saved]
    /\ \/ Keeps
       \/ \E a \in Applets : Unpacked(a) /\ UNCHANGED save
       \/ \E e \in Editors, a \in Applets : Tests(e, a)
       \/ \E e \in Editors : Writes(e)
<1> SUFFICES ASSUME TInv, VTypes, [Next]_vars
             PROVE  /\ save' \in [Editors -> Saved]
                    /\ \/ Keeps
                       \/ \E a \in Applets : Unpacked(a) /\ UNCHANGED save
                       \/ \E e \in Editors, a \in Applets : Tests(e, a)
                       \/ \E e \in Editors : Writes(e)
  OBVIOUS
<1>0. Idle \in Saved
  BY SMT DEF Idle, Saved, Unread
<1>1. ASSUME UNCHANGED save, UNCHANGED packVars \/ \E a \in Applets : Unpacked(a)
      PROVE  save' \in [Editors -> Saved] /\ (Keeps \/ \E a \in Applets : Unpacked(a) /\ UNCHANGED save)
  BY <1>1, Zenon DEF VTypes, Keeps
<1>2. ASSUME NEW e \in Editors, SaveEnds(e)
      PROVE  save' \in [Editors -> Saved] /\ \A f \in Editors : save'[f] \in {save[f], Idle}
  BY <1>0, <1>2, Zenon DEF SaveEnds, VTypes
<1>3. CASE CloseWindow \/ RestartDock \/ StartConsole
  <2>1. UNCHANGED packVars /\ (SaveEnds("page") \/ SaveEnds("console"))
    BY <1>3, Zenon DEF CloseWindow, RestartDock, NoPages, StartConsole, SaveEnds, packVars
  <2> QED BY <1>2, <2>1 DEF Keeps, Editors
<1>4. CASE \E a \in Applets : SaveEdit("page", a) \/ SaveEdit("console", a)
  <2>1. PICK e \in Editors, a \in Applets : SaveEdit(e, a)
    BY <1>4 DEF Editors
  <2>2. Tests(e, a)
    <3>1. save[e] = Idle
      BY <2>1, Zenon DEF SaveEdit, Op, Editors
    <3> QED BY <2>1, <3>1, Zenon DEF SaveEdit, Tests
  <2>3. save' \in [Editors -> Saved]
    <3>1. seen[e][a] + 1 \in Int
      BY <2>2, PackagesAssumption, SMT DEF Tests, TestVersion
    <3> DEFINE new == [step |-> "conf", app |-> a, new |-> seen[e][a] + 1]
    <3>2. new \in Saved
      BY <3>1 DEF Saved
    <3>3. save' = [save EXCEPT ![e] = new]
      BY <2>2 DEF Tests, TestVersion
    <3> HIDE DEF new
    <3> QED BY <3>2, <3>3 DEF VTypes
  <2> QED BY <2>2, <2>3
<1>5. CASE \E e \in Editors : SaveStep(e)
  <2>1. PICK e \in Editors : SaveStep(e)
    BY <1>5
  <2>2. Writes(e)
    BY <2>1, Zenon DEF SaveStep, Writes
  <2>3. \/ SaveEnds(e)
        \/ \E t \in {"pack", "reload"} : save' = [save EXCEPT ![e] = [step |-> t, app |-> save[e].app, new |-> save[e].new]]
    BY <2>2, Zenon DEF Writes, WriteConf, WritePack, Reload
  <2>4. ASSUME NEW t \in {"pack", "reload"} PROVE [step |-> t, app |-> save[e].app, new |-> save[e].new] \in Saved
    BY SMT DEF VTypes, Saved
  <2>5. save' \in [Editors -> Saved]
    BY <1>2, <2>3, <2>4, Zenon DEF VTypes
  <2> QED BY <2>2, <2>5
<1>6. \/ UNCHANGED save /\ (UNCHANGED packVars \/ \E a \in Applets : Unpacked(a))
      \/ CloseWindow \/ RestartDock \/ StartConsole
      \/ \E a \in Applets : SaveEdit("page", a) \/ SaveEdit("console", a)
      \/ \E e \in Editors : SaveStep(e)
  <2>1. CASE ToggleInstalled
    <3>1. UNCHANGED save /\ sel \in Applets
      BY <2>1 DEF ToggleInstalled, editVars, TInv
    <3>2. Unpacked(sel) \/ UNCHANGED packVars
      BY <2>1, Zenon DEF ToggleInstalled, Install, Uninstall, ArchiveComes, ModuleFound, InstallFails, PackageGoes,
         UninstallFails, packVars
    <3> QED BY <3>1, <3>2
  <2>2. CASE \E a \in Applets : DockGetsArchive(a) \/ CliInstall(a)
    BY <2>2, Zenon DEF DockGetsArchive, CliInstall, editVars
  <2>3. ASSUME OpenWindow \/ OpenDownload \/ ToggleActive \/ AddNothing \/ UNCHANGED vars
        PROVE  UNCHANGED save /\ UNCHANGED packVars
    BY <2>3, Zenon DEF vars, packVars, editVars, OpenWindow, OpenDownload, ToggleActive, AddNothing
  <2>4. ASSUME NEW a \in Applets,
               SelectPackage(a) \/ AddApplet(a) \/ SelectEdit(a) \/ DockActivates(a) \/ DockStops(a) \/ CliRemove(a)
        PROVE  UNCHANGED save /\ UNCHANGED packVars
    BY <2>4, Zenon DEF packVars, editVars, SelectPackage, AddApplet, SelectEdit, DockActivates, DockStops, CliRemove
  <2> QED BY <2>1, <2>2, <2>3, <2>4, Zenon DEF Next, Editors
<1> QED BY <1>1, <1>3, <1>4, <1>5, <1>6, <1>2

\* What a step of a save may do to the versions of its package.
MovesOf(a, old, new) ==
  /\ new.conf <= top[a] + 1 /\ new.pack <= top'[a]
  /\ \/ a \in mixed'
     \/ new \in {old, Original}
     \/ new.conf \in {old.conf + 1, Unread} /\ new.pack = old.pack
     \/ new.conf = old.conf /\ new.pack \in {new.conf, Unread}

\* Nothing is written, and saves end or stay as they are.
LEMMA KeepSteps ==
  ASSUME VInv, Keeps, save' \in [Editors -> Saved]
  PROVE  VInv' /\ \A a \in Applets : MovesOf(a, vers[a], vers'[a])
<1> USE DEF Keeps, packVars
<1>1. VTypes' /\ Behind'
  BY Zenon DEF VInv, VTypes, Behind
<1>2. Idle.step = "idle" /\ Idle.app = None
  BY DEF Idle
<1>3. ASSUME NEW e \in Editors PROVE SaveOk(e)'
  <2>1. CASE save'[e] = Idle
    BY <1>2, <2>1 DEF SaveOk
  <2>2. CASE save'[e] = save[e]
    BY <2>2, Zenon DEF SaveOk, VInv
  <2> QED BY <2>1, <2>2
<1>4. Alone'
  BY <1>2, Zenon DEF VInv, Alone
<1>5. ASSUME NEW a \in Applets PROVE MovesOf(a, vers[a], vers'[a])
  <2>1. vers[a].conf <= top[a] + 1 /\ vers[a].pack <= top[a]
    BY SMT DEF VInv, VTypes, Behind
  <2> QED BY <2>1, Zenon DEF MovesOf
<1> QED BY <1>1, <1>3, <1>4, <1>5 DEF VInv

\* A package is unpacked: its versions are those it came with, and a save under way is
\* known to be mixed.
LEMMA UnpackSteps ==
  ASSUME VInv, NEW b \in Applets, Unpacked(b), UNCHANGED save
  PROVE  VInv' /\ \A a \in Applets : MovesOf(a, vers[a], vers'[a])
<1> DEFINE zero == Original
<1>1. zero \in [conf : Int, pack : Int] /\ zero.conf = 0 /\ zero.pack = 0
  BY DEF Original
<1>2. zero = Original
  OBVIOUS
<1>3. vers' = [vers EXCEPT ![b] = zero]
  BY DEF Unpacked
<1> HIDE DEF zero
<1>4. CASE UnderSave(b)
  <2>1. mixed' = mixed \cup {b} /\ top' = top
    BY <1>4, Zenon DEF Unpacked
  <2>2. VTypes'
    BY <1>1, <1>3, <2>1, SMT DEF VInv, VTypes
  <2>3. Behind'
    BY <1>1, <1>3, <2>1, SMT DEF VInv, VTypes, Behind
  <2>4. ASSUME NEW e \in Editors PROVE SaveOk(e)'
    <3>1. CASE save[e].app = b
      <4>1. SaveOk(e)
        BY DEF VInv
      <4> QED BY <2>1, <3>1, <4>1, Zenon DEF SaveOk
    <3>2. CASE save[e].app # b
      <4>1. save[e].app \in Applets => vers'[save[e].app] = vers[save[e].app]
        BY <1>3, <3>2 DEF VInv, VTypes
      <4>2. SaveOk(e) /\ save[e].app \in Applets \cup {None}
        BY SMT DEF VInv, VTypes, Saved
      <4>3. save[e].app \in mixed => save[e].app \in mixed'
        BY <2>1
      <4> QED BY <2>1, <4>1, <4>2, <4>3, Zenon DEF SaveOk
    <3> QED BY <3>1, <3>2
  <2>5. Alone'
    BY <2>1, Zenon DEF VInv, Alone
  <2>6. ASSUME NEW a \in Applets PROVE MovesOf(a, vers[a], vers'[a])
    <3>1. vers'[a] = vers[a] \/ vers'[a] = zero
      BY <1>3, SMT DEF VInv, VTypes
    <3>2. vers'[a].conf <= top[a] + 1 /\ vers'[a].pack <= top'[a]
      BY <1>1, <3>1, <2>1, SMT DEF VInv, VTypes, Behind
    <3> QED BY <1>2, <3>1, <3>2 DEF MovesOf
  <2> QED BY <2>2, <2>3, <2>4, <2>5, <2>6 DEF VInv
<1>5. CASE ~UnderSave(b)
  <2>1. mixed' = mixed \ {b} /\ top' = [top EXCEPT ![b] = 0]
    BY <1>5, Zenon DEF Unpacked
  <2>2. \A e \in Editors : save[e].app # b
    BY <1>5 DEF UnderSave
  <2>3. VTypes'
    BY <1>1, <1>3, <2>1, SMT DEF VInv, VTypes
  <2>4. Behind'
    BY <1>1, <1>3, <2>1, SMT DEF VInv, VTypes, Behind
  <2>5. ASSUME NEW e \in Editors PROVE SaveOk(e)'
    <3>1. SaveOk(e) /\ save[e].app \in Applets \cup {None}
      BY SMT DEF VInv, VTypes, Saved
    <3>2. save[e].app \in Applets => /\ vers'[save[e].app] = vers[save[e].app]
                                     /\ top'[save[e].app] = top[save[e].app]
      BY <1>3, <2>1, <2>2 DEF VInv, VTypes
    <3>3. save[e].app \in mixed => save[e].app \in mixed'
      BY <2>1, <2>2
    <3> QED BY <3>1, <3>2, <3>3, Zenon DEF SaveOk
  <2>6. Alone'
    BY <2>1, <2>2, Zenon DEF VInv, Alone
  <2>7. ASSUME NEW a \in Applets PROVE MovesOf(a, vers[a], vers'[a])
    <3>1. \/ a = b /\ vers'[a] = zero /\ top'[a] = 0
          \/ vers'[a] = vers[a] /\ top'[a] = top[a]
      BY <1>3, <2>1, SMT DEF VInv, VTypes
    <3>2. vers'[a].conf <= top[a] + 1 /\ vers'[a].pack <= top'[a]
      BY <1>1, <3>1, SMT DEF VInv, VTypes, Behind
    <3> QED BY <1>2, <3>1, <3>2 DEF MovesOf
  <2> QED BY <2>3, <2>4, <2>5, <2>6, <2>7 DEF VInv
<1> QED BY <1>4, <1>5

\* The version of the config file is tested: it is the one before the new one.
LEMMA TestSteps ==
  ASSUME VInv, NEW e \in Editors, NEW b \in Applets, Tests(e, b), save' \in [Editors -> Saved]
  PROVE  VInv' /\ \A a \in Applets : MovesOf(a, vers[a], vers'[a])
<1> DEFINE new == seen[e][b] + 1
<1>1. new \in Nat /\ vers[b].conf = new - 1
  BY PackagesAssumption, SMT DEF Tests, TestVersion
<1>2. /\ save'[e].step = "conf" /\ save'[e].app = b /\ save'[e].new = new
      /\ \A f \in Editors : f # e => save'[f] = save[f]
  <2>1. save' = [save EXCEPT ![e] = [step |-> "conf", app |-> b, new |-> new]]
    BY DEF Tests, TestVersion
  <2> QED BY <2>1 DEF VInv, VTypes
<1>3. mixed \subseteq mixed' /\ mixed' \subseteq Applets /\ (UnderSave(b) => b \in mixed')
  BY SMT DEF Tests, TestVersion, VInv, VTypes
<1>4. vers' = vers /\ top' = top
  BY DEF Tests
<1>5. b # None
  BY PackagesAssumption
<1> HIDE DEF new
<1>6. VTypes' /\ Behind'
  BY <1>3, <1>4, Zenon DEF VInv, VTypes, Behind
<1>7. ASSUME NEW f \in Editors PROVE SaveOk(f)'
  <2>1. CASE f = e
    <3>1. new <= top[b] + 1
      BY <1>1, SMT DEF VInv, VTypes, Behind
    <3> QED BY <1>1, <1>2, <1>4, <2>1, <3>1 DEF SaveOk
  <2>2. CASE f # e
    <3>1. SaveOk(f) /\ save'[f] = save[f]
      BY <1>2, <2>2 DEF VInv
    <3>2. save[f].app \in mixed => save[f].app \in mixed'
      BY <1>3
    <3> QED BY <1>4, <3>1, <3>2, Zenon DEF SaveOk
  <2> QED BY <2>1, <2>2
<1>8. Alone'
  <2>1. ASSUME NEW f \in Editors, save'[f].step \in {"conf", "pack", "reload"} PROVE save'[f].app # None
    BY <1>2, <1>5, <2>1, Zenon DEF VInv, Alone
  <2>2. ASSUME NEW f \in Editors, NEW g \in Editors, f # g, save'[f].app = save'[g].app, save'[f].app # None
        PROVE  save'[f].app \in mixed'
    <3>1. CASE f # e /\ g # e
      <4>1. save'[f] = save[f] /\ save'[g] = save[g]
        BY <1>2, <3>1
      <4>2. save[f].app \in mixed
        BY <2>2, <4>1, Zenon DEF VInv, Alone
      <4> QED BY <1>3, <4>1, <4>2
    <3>2. CASE f = e \/ g = e
      <4>1. save'[f].app = b /\ UnderSave(b)
        BY <1>2, <2>2, <3>2, Zenon DEF UnderSave
      <4> QED BY <1>3, <4>1
    <3> QED BY <3>1, <3>2
  <2> QED BY <2>1, <2>2 DEF Alone
<1>9. ASSUME NEW a \in Applets PROVE MovesOf(a, vers[a], vers'[a])
  <2>1. vers[a].conf <= top[a] + 1 /\ vers[a].pack <= top[a]
    BY SMT DEF VInv, VTypes, Behind
  <2> QED BY <1>4, <2>1, Zenon DEF MovesOf
<1> QED BY <1>6, <1>7, <1>8, <1>9 DEF VInv

\* A file is written, or the package is read again.
LEMMA WriteSteps ==
  ASSUME VInv, NEW e \in Editors, Writes(e), save' \in [Editors -> Saved]
  PROVE  VInv' /\ \A a \in Applets : MovesOf(a, vers[a], vers'[a])
<1> DEFINE b == save[e].app  new == save[e].new
<1>1. save[e].step \in {"conf", "pack", "reload"} /\ mixed' = mixed
  BY Zenon DEF Writes, WriteConf, WritePack, Reload
<1>2. b \in Applets /\ b # None
  <2>1. save[e].app \in Applets \cup {None}
    BY SMT DEF VInv, VTypes, Saved
  <2>2. save[e].app # None
    BY <1>1, Zenon DEF VInv, Alone
  <2> QED BY <2>1, <2>2
<1>3. /\ new \in Nat
      /\ save[e].step = "conf" => new <= top[b] + 1 /\ (b \in mixed \/ vers[b].conf = new - 1)
      /\ save[e].step = "pack" => new <= top[b] /\ (b \in mixed \/ vers[b].conf = new)
  BY <1>2 DEF VInv, SaveOk
<1>4. vers[b] \in [conf : Int, pack : Int] /\ top[b] \in Nat /\ vers[b].conf <= top[b] /\ vers[b].pack <= top[b]
  BY <1>2 DEF VInv, VTypes, Behind
<1>5. \A f \in Editors : f # e => save'[f] = save[f]
  BY Zenon DEF Writes, WriteConf, WritePack, Reload, SaveEnds, VInv, VTypes
<1>6. \A f \in Editors : f # e /\ save[f].app = b => b \in mixed
  BY <1>2, Zenon DEF VInv, Alone
<1>7. Idle.step = "idle" /\ Idle.app = None
  BY DEF Idle
\* What the step leaves of the package, and of the save.
<1>8. \E r \in [conf : Int, pack : Int], n \in Nat :
        /\ vers' = [vers EXCEPT ![b] = r] /\ top' = [top EXCEPT ![b] = n]
        /\ top[b] <= n /\ r.conf <= n /\ r.pack <= n /\ r.conf <= top[b] + 1
        /\ \/ r = vers[b]
           \/ b \in mixed
           \/ r.conf \in {vers[b].conf + 1, Unread} /\ r.pack = vers[b].pack
           \/ r.conf = vers[b].conf /\ r.pack \in {r.conf, Unread}
        /\ \/ save'[e] = Idle
           \/ /\ save'[e].app = b /\ save'[e].new = new /\ new <= n
              /\ \/ save'[e].step = "pack" /\ r.conf = new
                 \/ save'[e].step = "reload"
  <2>0. Unread \in Int /\ Unread <= top[b] /\ Unread <= top[b] + 1
    BY <1>4, SMT DEF Unread
  <2>1. CASE WriteConf(e)
    <3>1. PICK v \in {vers[b].conf} \cup (IF b \in disk THEN {new, Unread} ELSE {}) :
            /\ vers' = [vers EXCEPT ![b] = [conf |-> v, pack |-> vers[b].pack]]
            /\ top' = [top EXCEPT ![b] = IF v > top[b] THEN v ELSE top[b]]
            /\ \/ SaveEnds(e)
               \/ v = new /\ b \in disk /\ save' = [save EXCEPT ![e] = [step |-> "pack", app |-> b, new |-> new]]
      BY <2>1, Zenon DEF WriteConf
    <3>2. v \in {vers[b].conf, new, Unread}
      BY <3>1
    <3> DEFINE r == [conf |-> v, pack |-> vers[b].pack]  n == IF v > top[b] THEN v ELSE top[b]
    <3>3. v \in Int /\ v <= top[b] + 1
      BY <1>3, <1>4, <2>0, <2>1, <3>2, SMT DEF WriteConf
    <3>4. r \in [conf : Int, pack : Int] /\ r.conf = v /\ r.pack = vers[b].pack
      BY <1>4, <3>3
    <3>5. n \in Nat /\ top[b] <= n /\ v <= n /\ vers[b].pack <= n
      BY <1>4, <3>3, SMT
    <3>6. save[e].step = "conf"
      BY <2>1 DEF WriteConf
    <3>7. \/ v = vers[b].conf \/ b \in mixed \/ v \in {vers[b].conf + 1, Unread}
      BY <1>3, <1>4, <3>2, <3>6, SMT
    <3>8. v = vers[b].conf => r = vers[b]
      BY <1>4
    <3>9. \/ save'[e] = Idle
          \/ v = new /\ save'[e].app = b /\ save'[e].new = new /\ save'[e].step = "pack"
      BY <3>1 DEF SaveEnds, VInv, VTypes
    <3>10. vers' = [vers EXCEPT ![b] = r] /\ top' = [top EXCEPT ![b] = n]
      BY <3>1
    <3> HIDE DEF r, n
    <3> USE <3>4, <3>5
    <3> WITNESS r \in [conf : Int, pack : Int], n \in Nat
    <3> QED BY <3>3, <3>4, <3>5, <3>7, <3>8, <3>9, <3>10, Zenon
  <2>2. CASE WritePack(e)
    <3>1. PICK v \in {vers[b].pack} \cup (IF b \in disk THEN {new, Unread} ELSE {}) :
            /\ vers' = [vers EXCEPT ![b] = [conf |-> vers[b].conf, pack |-> v]]
            /\ \/ SaveEnds(e)
               \/ save' = [save EXCEPT ![e] = [step |-> "reload", app |-> b, new |-> new]]
      BY <2>2, Zenon DEF WritePack
    <3>2. v \in {vers[b].pack, new, Unread} /\ top' = top /\ save[e].step = "pack"
      BY <2>2, <3>1, Zenon DEF WritePack
    <3> DEFINE r == [conf |-> vers[b].conf, pack |-> v]  n == top[b]
    <3>3. v \in Int /\ v <= top[b] /\ new <= top[b]
      BY <1>3, <1>4, <2>0, <3>2, SMT
    <3>4. r \in [conf : Int, pack : Int] /\ r.conf = vers[b].conf /\ r.pack = v
      BY <1>4, <3>3
    <3>5. top' = [top EXCEPT ![b] = n] /\ n \in Nat /\ n = top[b] /\ top[b] <= top[b]
      BY <1>2, <1>4, <3>2, SMT DEF VInv, VTypes
    <3>6. v = vers[b].pack \/ b \in mixed \/ v \in {vers[b].conf, Unread}
      BY <1>3, <3>2, Zenon
    <3>7. v = vers[b].pack => r = vers[b]
      BY <1>4
    <3>8. \/ save'[e] = Idle
          \/ save'[e].app = b /\ save'[e].new = new /\ save'[e].step = "reload"
      BY <3>1 DEF SaveEnds, VInv, VTypes
    <3>9. vers' = [vers EXCEPT ![b] = r] /\ vers[b].conf <= top[b] + 1
      BY <1>4, <3>1, SMT
    <3> HIDE DEF r, n
    <3> USE <3>4, <3>5
    <3> WITNESS r \in [conf : Int, pack : Int], n \in Nat
    <3> QED BY <1>4, <3>3, <3>4, <3>5, <3>6, <3>7, <3>8, <3>9, Zenon
  <2>3. CASE Reload(e)
    <3> DEFINE r == vers[b]  n == top[b]
    <3>1. vers' = vers /\ top' = top /\ save'[e] = Idle
      BY <2>3 DEF Reload, SaveEnds, VInv, VTypes
    <3>2. vers' = [vers EXCEPT ![b] = r] /\ top' = [top EXCEPT ![b] = n]
      BY <1>2, <3>1 DEF VInv, VTypes
    <3>3. r \in [conf : Int, pack : Int] /\ n \in Nat /\ r.conf <= n /\ r.pack <= n
      BY <1>4
    <3>4. top[b] <= n /\ r.conf <= top[b] + 1 /\ r = vers[b]
      BY <1>4, SMT
    <3> HIDE DEF r, n
    <3> USE <3>3
    <3> WITNESS r \in [conf : Int, pack : Int], n \in Nat
    <3> QED BY <3>1, <3>2, <3>3, <3>4, Zenon
  <2> QED BY <2>1, <2>2, <2>3 DEF Writes
<1>9. PICK r \in [conf : Int, pack : Int], n \in Nat :
        /\ vers' = [vers EXCEPT ![b] = r] /\ top' = [top EXCEPT ![b] = n]
        /\ top[b] <= n /\ r.conf <= n /\ r.pack <= n /\ r.conf <= top[b] + 1
        /\ \/ r = vers[b]
           \/ b \in mixed
           \/ r.conf \in {vers[b].conf + 1, Unread} /\ r.pack = vers[b].pack
           \/ r.conf = vers[b].conf /\ r.pack \in {r.conf, Unread}
        /\ \/ save'[e] = Idle
           \/ /\ save'[e].app = b /\ save'[e].new = new /\ new <= n
              /\ \/ save'[e].step = "pack" /\ r.conf = new
                 \/ save'[e].step = "reload"
  BY <1>8
<1> HIDE DEF b, new
<1>10. /\ vers'[b] = r /\ top'[b] = n
       /\ \A a \in Applets : a # b => vers'[a] = vers[a] /\ top'[a] = top[a]
  BY <1>2, <1>9 DEF VInv, VTypes
<1>11. VTypes'
  <2>1. vers' \in [Applets -> [conf : Int, pack : Int]]
    BY <1>9, Zenon DEF VInv, VTypes
  <2>2. top' \in [Applets -> Nat]
    BY <1>9, Zenon DEF VInv, VTypes
  <2>3. mixed' \subseteq Applets
    BY <1>1, Zenon DEF VInv, VTypes
  <2> QED BY <2>1, <2>2, <2>3, Zenon DEF VTypes
<1>12. Behind'
  BY <1>9, <1>10, Zenon DEF VInv, Behind
<1>13. ASSUME NEW f \in Editors PROVE SaveOk(f)'
  <2>1. CASE f = e
    <3>1. CASE save'[e] = Idle
      BY <1>7, <2>1, <3>1 DEF SaveOk
    <3>2. CASE save'[e] # Idle
      <4>1. /\ save'[e].app = b /\ save'[e].new = new /\ new <= n
            /\ \/ save'[e].step = "pack" /\ r.conf = new
               \/ save'[e].step = "reload"
        BY <1>9, <3>2
      <4> QED BY <1>3, <1>10, <2>1, <4>1 DEF SaveOk
    <3> QED BY <3>1, <3>2
  <2>2. CASE f # e
    <3>1. SaveOk(f) /\ save'[f] = save[f] /\ save[f].app \in Applets \cup {None}
      <4>1. save[f] \in Saved
        BY DEF VInv, VTypes
      <4> QED BY <1>5, <2>2, <4>1 DEF VInv, Saved
    <3>2. CASE save[f].app = b
      <4>1. b \in mixed /\ b \in mixed'
        BY <1>1, <1>6, <2>2, <3>2
      <4>2. \A m \in Int : (m <= top[b] + 1 => m <= n + 1) /\ (m <= top[b] => m <= n)
        BY <1>4, <1>9, SMT
      <4>3. save[f].new \in Nat /\ (save[f].step = "conf" => save[f].new <= top[b] + 1)
            /\ (save[f].step = "pack" => save[f].new <= top[b])
        BY <1>2, <3>1, <3>2, Zenon DEF SaveOk
      <4>4. (save[f].step = "conf" => save[f].new <= n + 1) /\ (save[f].step = "pack" => save[f].new <= n)
        BY <4>2, <4>3
      <4> QED BY <1>10, <3>1, <3>2, <4>1, <4>3, <4>4, Zenon DEF SaveOk
    <3>3. CASE save[f].app # b
      BY <1>1, <1>10, <3>1, <3>3, Zenon DEF SaveOk
    <3> QED BY <3>2, <3>3
  <2> QED BY <2>1, <2>2
<1>14. Alone'
  <2>1. save'[e] = Idle \/ save'[e].app = save[e].app
    BY <1>9 DEF b
  <2>2. ASSUME NEW f \in Editors, save'[f].step \in {"conf", "pack", "reload"} PROVE save'[f].app # None
    <3>1. CASE f = e
      <4>1. save'[e] # Idle
        BY <1>7, <2>2, <3>1
      <4> QED BY <1>2, <2>1, <3>1, <4>1 DEF b
    <3> QED BY <1>5, <2>2, <3>1, Zenon DEF VInv, Alone
  <2>3. ASSUME NEW f \in Editors, NEW g \in Editors, f # g, save'[f].app = save'[g].app, save'[f].app # None
        PROVE  save'[f].app \in mixed'
    <3>1. save'[f].app = save[f].app /\ save'[g].app = save[g].app
      BY <1>5, <1>7, <2>1, <2>3, Zenon
    <3>2. save[f].app \in mixed
      BY <2>3, <3>1, Zenon DEF VInv, Alone
    <3> QED BY <1>1, <3>1, <3>2
  <2> QED BY <2>2, <2>3 DEF Alone
<1>15. ASSUME NEW a \in Applets PROVE MovesOf(a, vers[a], vers'[a])
  <2>1. CASE a = b
    BY <1>1, <1>9, <1>10, <2>1, Zenon DEF MovesOf
  <2>2. CASE a # b
    <3>1. vers[a].conf <= top[a] + 1 /\ vers[a].pack <= top[a]
      BY SMT DEF VInv, VTypes, Behind
    <3> QED BY <1>10, <2>2, <3>1, Zenon DEF MovesOf
  <2> QED BY <2>1, <2>2
<1> QED BY <1>11, <1>12, <1>13, <1>14, <1>15 DEF VInv

\* The files of a package move by one version, the config file first, and no file is
\* more than one ahead of the config files there were, whatever the editors have read
\* and however their saves and the installs mix (SaveUpdated, config.SetFileVersion).
THEOREM VersionsMoveByOne == Spec => VersionsGoTogether
<1> DEFINE Moves == \A a \in Applets : MovesOf(a, vers[a], vers'[a])
<1>1. Init => VInv
  <2> SUFFICES ASSUME Init PROVE VInv
    OBVIOUS
  <2>1. Idle.step = "idle" /\ Idle.app = None /\ Idle \in Saved
    BY DEF Idle, Saved, Unread
  <2>2. \A e \in Editors : save[e] = Idle
    BY DEF Init
  <2>3. \A a \in Applets : vers[a].conf = 0 /\ vers[a].pack = 0 /\ top[a] = 0
    BY DEF Init, Original
  <2>4. VTypes
    <3>1. vers \in [Applets -> [conf : Int, pack : Int]] /\ top \in [Applets -> Nat] /\ mixed \subseteq Applets
      BY DEF Init, Original
    <3>2. save \in [Editors -> Saved]
      BY <2>1 DEF Init
    <3> QED BY <3>1, <3>2 DEF VTypes
  <2>5. Behind
    <3> SUFFICES ASSUME NEW a \in Applets PROVE vers[a].conf <= top[a] /\ vers[a].pack <= top[a]
      BY DEF Behind
    <3>1. vers[a].conf = 0 /\ vers[a].pack = 0 /\ top[a] = 0
      BY <2>3
    <3> QED BY <3>1, SMT
  <2>6. (\A e \in Editors : SaveOk(e)) /\ Alone
    BY <2>1, <2>2, Zenon DEF SaveOk, Alone
  <2> QED BY <2>4, <2>5, <2>6 DEF VInv
<1>2. IInv /\ VInv /\ [Next]_vars => VInv' /\ [Moves]_vars
  <2> SUFFICES ASSUME IInv, VInv, [Next]_vars PROVE VInv' /\ Moves
    OBVIOUS
  <2>1. TInv /\ VTypes
    BY DEF IInv, VInv
  <2> HIDE DEF Moves
  <2>2. /\ save' \in [Editors -> Saved]
        /\ \/ Keeps
           \/ \E a \in Applets : Unpacked(a) /\ UNCHANGED save
           \/ \E e \in Editors, a \in Applets : Tests(e, a)
           \/ \E e \in Editors : Writes(e)
    BY <2>1, VersionSteps
  <2> QED BY <2>2, KeepSteps, UnpackSteps, TestSteps, WriteSteps DEF Moves
<1>3. [Moves]_vars => [\A a \in Applets :
       LET old == vers[a]  new == vers'[a]
       IN  /\ new.conf <= top[a] + 1 /\ new.pack <= top'[a]
           /\ \/ a \in mixed'
              \/ new \in {old, Original}
              \/ new.conf \in {old.conf + 1, Unread} /\ new.pack = old.pack
              \/ new.conf = old.conf /\ new.pack \in {new.conf, Unread}]_vars
  BY DEF MovesOf
<1> QED BY <1>1, <1>2, <1>3, SpecInv, PTL DEF Spec, VersionsGoTogether

(***************************************************************************)
(* The pages of the configuration files.                                   *)
(***************************************************************************)
(***************************************************************************)
(* Values and widgets.                                                     *)
(***************************************************************************)
Values == Seq(Int)

Widgets ==
  {NoWidget} \cup [kind : {"values"}, vals : Values, min : Int, max : Int]
  \cup [kind : {"pair"}, vals : Values, linked : BOOLEAN]
  \cup [kind : {"color"}, vals : Values]
  \cup [kind : {"combo", "numbered"}, list : Values, active : Nat]
  \cup [kind : {"font"}, text : Values]
  \cup [kind : {"entry"}, text : Values, isDefault : BOOLEAN, focus : BOOLEAN]
  \cup [kind : {"tree"}, rows : Seq([order : Int, val : Int]), sel : Nat, slipped : BOOLEAN]

\* How much a widget holds; an entry with the focus does not show the help text.
Sized(w) ==
  /\ w.kind = "pair" => Len(w.vals) = 2
  /\ w.kind = "color" => Len(w.vals) = 4
  /\ w.kind \in {"combo", "numbered"} => w.active <= Len(w.list)
  /\ w.kind = "tree" => w.sel <= Len(w.rows)
  /\ w.kind = "entry" /\ w.focus /\ w.isDefault => w.text = <<>>

IsWidget(w) == w \in Widgets /\ Sized(w)

LEMMA LeastOf ==
  ASSUME NEW S \in SUBSET Nat, S # {}
  PROVE  \E x \in S : \A y \in S : x <= y
<1>1. IsWellFoundedOn(OpToRel(<, Nat), Nat)
  BY NatLessThanWellFounded
<1>2. PICK x \in S : \A y \in S : ~(<<y, x>> \in OpToRel(<, Nat))
  BY <1>1, WFMin
<1>3. ASSUME NEW y \in S PROVE ~(y < x)
  BY <1>2, Zenon DEF OpToRel
<1> QED
  BY <1>3, SMT

LEMMA GreatestOf ==
  ASSUME NEW n \in Nat, NEW S \in SUBSET (1..n), S # {}
  PROVE  \E x \in S : \A y \in S : y <= x
<1> DEFINE R == {m \in Nat : \A y \in S : y <= m}
<1>1. n \in R
  BY SMT
<1>2. PICK m \in R : \A y \in R : m <= y
  <2> HIDE DEF R
  <2>1. R \in SUBSET Nat
    BY DEF R
  <2> QED
    BY <1>1, <2>1, LeastOf
<1>3. m \in S
  <2> SUFFICES ASSUME m \notin S PROVE FALSE
    OBVIOUS
  <2>1. PICK y \in S : TRUE
    OBVIOUS
  <2>2. m - 1 \in R
    BY <1>2, <2>1, SMT
  <2> QED
    BY <1>2, <2>2, SMT
<1> QED
  BY <1>2, <1>3

\* The last row with a text is selected, row 0 if there is none.
LEMMA SelectedIsLast ==
  ASSUME NEW list \in Values, NEW x \in Int
  PROVE  LET s == Selected(list, x)
         IN /\ s \in 0..Len(list) /\ (s # 0 => list[s] = x)
            /\ \A i \in 1..Len(list) : list[i] = x => i <= s
<1> DEFINE at == {i \in DOMAIN list : list[i] = x}
           s == Selected(list, x)
<1>0. DOMAIN list = 1..Len(list) /\ Len(list) \in Nat
  BY SMT DEF Values
<1>1. CASE at = {}
  <2>1. s = 0
    BY <1>1, Zenon DEF Selected
  <2> QED
    BY <1>0, <1>1, <2>1, SMT
<1>2. CASE at # {}
  <2>1. s = CHOOSE i \in at : \A j \in at : j <= i
    BY <1>2, Zenon DEF Selected
  <2>2. \E i \in at : \A j \in at : j <= i
    <3>1. at \in SUBSET (1..Len(list))
      BY <1>0
    <3> QED
      BY <1>0, <1>2, <3>1, GreatestOf
  <2>3. s \in at /\ \A j \in at : j <= s
    BY <2>1, <2>2, Zenon
  <2> QED
    BY <1>0, <2>3, SMT
<1> QED
  BY <1>1, <1>2

LEMMA ElemIsInt ==
  ASSUME NEW v \in Values, NEW i \in Nat, i > 0
  PROVE  Elem(v, i) \in Int
BY SMT DEF Values, Elem

LEMMA BoundIsInt ==
  ASSUME NEW k, IsKey(k), NEW x \in Int
  PROVE  /\ Bound(k, x) \in Int /\ Mini(k) \in Int /\ Maxi(k) \in Int
         /\ Mini(k) <= x /\ x <= Maxi(k) => Bound(k, x) = x
<1>1. k.auth \in Seq(Int)
  BY DEF IsKey
<1>2. Mini(k) \in Int /\ Maxi(k) \in Int
  BY <1>1, SMT DEF Mini, Maxi, MaxSpin
<1> QED
  BY <1>2, SMT DEF Bound

\* A list of choices, and its value when the text of the file is in it.
LEMMA ComboShows ==
  ASSUME NEW list \in Values, NEW v \in Values
  PROVE  LET c == Combo(list, v)
         IN /\ c \in [kind : {"combo"}, list : Values, active : Nat]
            /\ c.kind = "combo" /\ c.list = list /\ c.active <= Len(list)
            /\ Len(v) = 1 => (c.active # 0 => list[c.active] = v[1])
            /\ \A i \in 1..Len(list) : Len(v) = 1 /\ list[i] = v[1] => i <= c.active
            /\ v = <<>> => (c.active # 0 => list[c.active] = 0)
<1> DEFINE s == SelectRow(list, v)
<1>1. /\ s \in 0..Len(list) /\ Len(list) \in Nat
      /\ Len(v) = 1 => (s # 0 => list[s] = v[1])
      /\ \A i \in 1..Len(list) : Len(v) = 1 /\ list[i] = v[1] => i <= s
      /\ v = <<>> => (s # 0 => list[s] = 0)
  <2>1. CASE v = <<>>
    <3>1. s = Selected(list, 0)
      BY <2>1, Zenon DEF SelectRow
    <3>2. Len(v) = 0
      BY <2>1, SMT
    <3> QED
      BY <2>1, <3>1, <3>2, SelectedIsLast, SMT DEF Values
  <2>2. CASE v # <<>>
    <3>1. s = Selected(list, v[1])
      BY <2>2, Zenon DEF SelectRow
    <3>2. v[1] \in Int
      BY <2>2, SMT DEF Values
    <3>3. /\ s \in 0..Len(list) /\ (s # 0 => list[s] = v[1])
          /\ \A i \in 1..Len(list) : list[i] = v[1] => i <= s
      BY <3>1, <3>2, SelectedIsLast
    <3> QED
      BY <2>2, <3>3, SMT DEF Values
  <2> QED
    BY <2>1, <2>2
<1>2. Combo(list, v) = [kind |-> "combo", list |-> list, active |-> s]
  BY Zenon DEF Combo
<1> HIDE DEF s
<1> QED
  BY <1>1, <1>2, SMT

LEMMA ComboIsWidget ==
  ASSUME NEW list \in Values, NEW v \in Values
  PROVE  IsWidget(Combo(list, v)) /\ Combo(list, v).kind = "combo"
<1>1. /\ Combo(list, v) \in [kind : {"combo"}, list : Values, active : Nat]
      /\ Combo(list, v).kind = "combo" /\ Combo(list, v).list = list
      /\ Combo(list, v).active <= Len(list)
  BY ComboShows
<1> QED
  BY <1>1, SMT DEF IsWidget, Widgets, Sized

\* The text 0 is the empty one.
LEMMA ComboGivesBack ==
  ASSUME NEW k, NEW list \in Values, NEW v \in Values,
         v = <<>> \/ (Len(v) = 1 /\ v[1] # 0 /\ \E i \in DOMAIN list : v[1] = list[i])
  PROVE  Value(k, Combo(list, v)) = v
<1> DEFINE c == Combo(list, v)
<1>1. /\ c.kind = "combo" /\ c.list = list /\ c.active \in Nat /\ c.active <= Len(list)
      /\ Len(v) = 1 => (c.active # 0 => list[c.active] = v[1])
      /\ \A i \in 1..Len(list) : Len(v) = 1 /\ list[i] = v[1] => i <= c.active
      /\ v = <<>> => (c.active # 0 => list[c.active] = 0)
  BY ComboShows, SMT
<1> SUFFICES Value(k, c) = v
  OBVIOUS
<1> HIDE DEF c
<1>2. Value(k, c) = IF c.active = 0 \/ list[c.active] = 0 THEN <<>> ELSE <<list[c.active]>>
  BY <1>1, SMT DEF Value
<1>3. CASE v = <<>>
  BY <1>1, <1>2, <1>3, SMT
<1>4. CASE Len(v) = 1 /\ v[1] # 0 /\ \E i \in DOMAIN list : v[1] = list[i]
  <2>1. c.active # 0 /\ list[c.active] = v[1]
    BY <1>1, <1>4, SMT DEF Values
  <2>2. v = <<v[1]>>
    BY <1>4, SMT DEF Values
  <2> QED
    BY <1>2, <1>4, <2>1, <2>2, Zenon
<1> QED
  BY <1>3, <1>4

\* The widget made for each type.
Combos == {"theme", "view", "desktopIcons", "animation", "decorator", "decoSimple", "decoDefault",
           "screen", "dock", "iconsDock"}
LEMMA MakerIs ==
  ASSUME NEW k, NEW v
  PROVE  /\ k.type \in {"bool", "boolCtrl"} => Maker(k, v) = CheckButton(k, v)
         /\ k.type \in {"intScale", "intSpin"} => Maker(k, v) = IntegerScale(k, v)
         /\ k.type = "size" => Maker(k, v) = IntegerSize(k, v)
         /\ k.type = "float" => Maker(k, v) = Float(k, v)
         /\ k.type \in {"rgb", "rgba"} => Maker(k, v) = ColorSelector(k, v)
         /\ k.type = "theme" => Maker(k, v) = Combo(IF Len(k.auth) > 2 THEN k.src ELSE <<>>, v)
         /\ k.type \in {"view", "decorator", "decoSimple", "screen", "iconsDock"} =>
              Maker(k, v) = Combo(k.src, v)
         /\ k.type = "desktopIcons" => Maker(k, v) = Combo(<<0, Custom>> \o k.src, v)
         /\ k.type = "animation" => Maker(k, v) = Combo(<<0>> \o k.src, v)
         /\ k.type = "decoDefault" => Maker(k, v) = Combo(<<Custom>> \o k.src, v)
         /\ k.type = "dock" => Maker(k, v) = ListDock(k, v)
         /\ k.type \in {"list", "listEntry", "numbered", "ctrlSimple", "ctrlSelect"} =>
              Maker(k, v) = Lists(k, v)
         /\ k.type \in {"tree", "multiChoice"} => Maker(k, v) = TreeView(k, v)
         /\ k.type = "font" => Maker(k, v) = FontSelector(k, v)
         /\ k.type = "link" => Maker(k, v) = Link(k, v)
         /\ k.type \in {"text", "password", "class", "shortkey"} => Maker(k, v) = Strings(k, v)
         /\ k.type = "handbook" => Maker(k, v) = Handbook(k, v)
         /\ k.type \notin Combos \cup {"bool", "boolCtrl", "intScale", "intSpin", "size", "float", "rgb", "rgba",
               "list", "listEntry", "numbered", "ctrlSimple", "ctrlSelect", "tree", "multiChoice", "font", "link",
               "text", "password", "class", "shortkey", "handbook"} => Maker(k, v) = NoWidget
<1>1. /\ k.type \in {"bool", "boolCtrl"} => Maker(k, v) = CheckButton(k, v)
      /\ k.type \in {"intScale", "intSpin"} => Maker(k, v) = IntegerScale(k, v)
      /\ k.type = "size" => Maker(k, v) = IntegerSize(k, v)
      /\ k.type = "float" => Maker(k, v) = Float(k, v)
      /\ k.type \in {"rgb", "rgba"} => Maker(k, v) = ColorSelector(k, v)
  BY SMTT(30) DEF Maker, IntegerSpin
<1>2. /\ k.type = "theme" => Maker(k, v) = Combo(IF Len(k.auth) > 2 THEN k.src ELSE <<>>, v)
      /\ k.type \in {"view", "decorator", "decoSimple", "screen", "iconsDock"} =>
              Maker(k, v) = Combo(k.src, v)
      /\ k.type = "desktopIcons" => Maker(k, v) = Combo(<<0, Custom>> \o k.src, v)
      /\ k.type = "animation" => Maker(k, v) = Combo(<<0>> \o k.src, v)
      /\ k.type = "decoDefault" => Maker(k, v) = Combo(<<Custom>> \o k.src, v)
      /\ k.type = "dock" => Maker(k, v) = ListDock(k, v)
  BY SMTT(30) DEF Maker, ListThemeApplet, ListView, ListIconsMainDock, ListThemeDesktopIcon, ListAnimation,
     ListDialogDecorator, ListDeskletDecoration, ListScreens
<1>3. /\ k.type \in {"list", "listEntry", "numbered", "ctrlSimple", "ctrlSelect"} =>
              Maker(k, v) = Lists(k, v)
      /\ k.type \in {"tree", "multiChoice"} => Maker(k, v) = TreeView(k, v)
      /\ k.type = "font" => Maker(k, v) = FontSelector(k, v)
      /\ k.type = "link" => Maker(k, v) = Link(k, v)
      /\ k.type \in {"text", "password", "class", "shortkey"} => Maker(k, v) = Strings(k, v)
      /\ k.type = "handbook" => Maker(k, v) = Handbook(k, v)
  BY SMTT(30) DEF Maker
<1>4. /\ k.type \notin Combos \cup {"bool", "boolCtrl", "intScale", "intSpin", "size", "float", "rgb", "rgba",
            "list", "listEntry", "numbered", "ctrlSimple", "ctrlSelect", "tree", "multiChoice", "font", "link",
            "text", "password", "class", "shortkey", "handbook"} => Maker(k, v) = NoWidget
  BY SMTT(30) DEF Combos, Maker, Frame
<1> QED
  BY <1>1, <1>2, <1>3, <1>4, Zenon

LEMMA AppendIsLonger ==
  ASSUME NEW v \in Seq(Int), NEW x \in Int
  PROVE  /\ Append(v, x) \in Seq(Int) /\ Len(Append(v, x)) = Len(v) + 1
         /\ \A i \in 1..Len(v) : Append(v, x)[i] = v[i]
         /\ Append(v, x)[Len(v) + 1] = x
BY AppendProperties

\* The widgets that hold numbers.
LEMMA NumbersShow ==
  ASSUME NEW k, IsKey(k), NEW v \in Values
  PROVE  /\ IsWidget(CheckButton(k, v)) /\ CheckButton(k, v).kind = "values"
         /\ IsWidget(IntegerScale(k, v)) /\ IntegerScale(k, v).kind = "values"
         /\ IsWidget(IntegerSize(k, v)) /\ IntegerSize(k, v).kind = "pair"
         /\ IsWidget(Float(k, v)) /\ Float(k, v).kind = "values"
         /\ IsWidget(ColorSelector(k, v)) /\ ColorSelector(k, v).kind = "color"
<1>1. k.n \in Nat /\ Mini(k) \in Int /\ Maxi(k) \in Int
  BY BoundIsInt, 0 \in Int DEF IsKey
<1>2. ASSUME NEW i \in Nat, i > 0 PROVE Elem(v, i) \in Int /\ Bound(k, Elem(v, i)) \in Int
  BY <1>2, ElemIsInt, BoundIsInt
<1>3. IsWidget(CheckButton(k, v)) /\ CheckButton(k, v).kind = "values"
  <2>1. [i \in 1..k.n |-> Elem(v, i)] \in Values
    BY <1>1, <1>2, SMTT(30) DEF Values
  <2> QED
    BY <2>1, SMT DEF CheckButton, IsWidget, Widgets, Sized
<1>4. IsWidget(IntegerScale(k, v)) /\ IntegerScale(k, v).kind = "values"
  <2>1. <<Bound(k, Elem(v, 1))>> \in Values
    BY <1>2, SMT DEF Values
  <2> QED
    BY <1>1, <2>1, SMT DEF IntegerScale, IsWidget, Widgets, Sized
<1>5. IsWidget(IntegerSize(k, v)) /\ IntegerSize(k, v).kind = "pair"
  <2> DEFINE two == [i \in 1..2 |-> Bound(k, Elem(v, i))]
             same == Elem(v, 1) = Elem(v, 2)
  <2>1. two \in Values /\ Len(two) = 2
    BY <1>2, SMT DEF Values
  <2>2. same \in BOOLEAN
    BY Zenon
  <2>3. IntegerSize(k, v) = [kind |-> "pair", vals |-> two, linked |-> same]
    BY Zenon DEF IntegerSize
  <2> HIDE DEF two, same
  <2> QED
    BY <2>1, <2>2, <2>3, SMT DEF IsWidget, Widgets, Sized
<1>6. IsWidget(Float(k, v)) /\ Float(k, v).kind = "values"
  <2>1. [i \in 1..k.n |-> Bound(k, Elem(v, i))] \in Values
    BY <1>1, <1>2, SMTT(30) DEF Values
  <2> QED
    BY <1>1, <2>1, SMT DEF Float, IsWidget, Widgets, Sized
<1>7. IsWidget(ColorSelector(k, v)) /\ ColorSelector(k, v).kind = "color"
  <2> DEFINE rgba == IF Len(v) = 3 THEN Append(v, 1) ELSE v
             four == [i \in 1..4 |-> Elem(rgba, i)]
  <2>1. rgba \in Values
    BY SMT DEF Values
  <2>2. four \in Values /\ Len(four) = 4
    <3> HIDE DEF rgba
    <3>1. \A i \in 1..4 : Elem(rgba, i) \in Int
      BY <2>1, ElemIsInt, SMT
    <3> QED
      BY <3>1, SMT DEF Values
  <2>3. ColorSelector(k, v) = [kind |-> "color", vals |-> four]
    BY Zenon DEF ColorSelector
  <2> HIDE DEF four, rgba
  <2> QED
    BY <2>2, <2>3, SMT DEF IsWidget, Widgets, Sized
<1> QED
  BY <1>3, <1>4, <1>5, <1>6, <1>7

\* They give back what they show, in the bounds of the key.
LEMMA NumbersGiveBack ==
  ASSUME NEW k, IsKey(k), NEW v \in Values
  PROVE  LET inside == \A i \in DOMAIN v : Mini(k) <= v[i] /\ v[i] <= Maxi(k)
         IN /\ Len(v) = k.n => Value(k, CheckButton(k, v)) = v
            /\ Len(v) = 1 /\ inside => Value(k, IntegerScale(k, v)) = v
            /\ Len(v) = 2 /\ inside => Value(k, IntegerSize(k, v)) = v
            /\ Len(v) = k.n /\ inside => Value(k, Float(k, v)) = v
            /\ Len(v) = 3 /\ k.type = "rgb" => Value(k, ColorSelector(k, v)) = v
            /\ Len(v) = 4 /\ k.type = "rgba" => Value(k, ColorSelector(k, v)) = v
<1> DEFINE inside == \A i \in DOMAIN v : Mini(k) <= v[i] /\ v[i] <= Maxi(k)
<1>1. k.n \in Nat
  BY DEF IsKey
<1>2. \A i \in 1..Len(v) : Elem(v, i) = v[i] /\ v[i] \in Int
  BY SMT DEF Values, Elem
<1>3. inside => \A i \in 1..Len(v) : Bound(k, Elem(v, i)) = v[i]
  <2>1. ASSUME inside, NEW i \in 1..Len(v) PROVE Bound(k, v[i]) = v[i]
    <3>1. v[i] \in Int /\ Mini(k) <= v[i] /\ v[i] <= Maxi(k)
      BY <1>2, <2>1, SMT DEF Values
    <3> QED
      BY <3>1, BoundIsInt
  <2> QED
    BY <1>2, <2>1, Zenon
<1> HIDE DEF inside
<1>v. v = [i \in 1..Len(v) |-> v[i]] /\ Len(v) \in Nat
  BY SMT DEF Values
<1>4. Len(v) = k.n => Value(k, CheckButton(k, v)) = v
  <2>1. Value(k, CheckButton(k, v)) = [i \in 1..k.n |-> Elem(v, i)]
    BY SMT DEF CheckButton, Value
  <2> QED
    BY <1>2, <1>v, <2>1, SMT
<1>5. Len(v) = 1 /\ inside => Value(k, IntegerScale(k, v)) = v
  <2>1. Value(k, IntegerScale(k, v)) = <<Bound(k, Elem(v, 1))>>
    BY SMT DEF IntegerScale, Value
  <2>2. Len(v) = 1 => v = <<v[1]>>
    BY SMT DEF Values
  <2> QED
    BY <1>3, <2>1, <2>2, SMT
<1>6. Len(v) = 2 /\ inside => Value(k, IntegerSize(k, v)) = v
  <2>1. Value(k, IntegerSize(k, v)) = [i \in 1..2 |-> Bound(k, Elem(v, i))]
    BY SMT DEF IntegerSize, Value
  <2> QED
    BY <1>3, <1>v, <2>1, SMT
<1>7. Len(v) = k.n /\ inside => Value(k, Float(k, v)) = v
  <2>1. Value(k, Float(k, v)) = [i \in 1..k.n |-> Bound(k, Elem(v, i))]
    BY SMT DEF Float, Value
  <2> QED
    BY <1>3, <1>v, <2>1, SMT
<1>8. Len(v) = 3 /\ k.type = "rgb" => Value(k, ColorSelector(k, v)) = v
  <2> SUFFICES ASSUME Len(v) = 3, k.type = "rgb" PROVE Value(k, ColorSelector(k, v)) = v
    OBVIOUS
  <2> DEFINE four == [i \in 1..4 |-> Elem(Append(v, 1), i)]
  <2>1. ColorSelector(k, v) = [kind |-> "color", vals |-> four]
    BY Zenon DEF ColorSelector
  <2>2. four \in Seq(Int) /\ Len(four) = 4 /\ four[1] = v[1] /\ four[2] = v[2] /\ four[3] = v[3]
    <3>1. /\ Append(v, 1) \in Seq(Int) /\ Len(Append(v, 1)) = 4
          /\ \A i \in 1..3 : Append(v, 1)[i] = v[i]
      <4>1. v \in Seq(Int)
        BY DEF Values
      <4>2. 1 \in Int
        BY SMT
      <4>3. Append(v, 1) \in Seq(Int)
        BY <4>1, <4>2, AppendIsLonger
      <4>4. Len(Append(v, 1)) = Len(v) + 1
        BY <4>1, <4>2, AppendIsLonger
      <4>5. \A i \in 1..Len(v) : Append(v, 1)[i] = v[i]
        BY <4>1, <4>2, AppendIsLonger
      <4> QED
        BY <4>3, <4>4, <4>5, SMT
    <3>2. \A i \in 1..4 : Elem(Append(v, 1), i) = Append(v, 1)[i]
      BY <3>1, SMT DEF Elem
    <3> QED
      BY <3>1, <3>2, SMT
  <2> HIDE DEF four
  <2>3. Value(k, ColorSelector(k, v)) = SubSeq(four, 1, 3)
    BY <2>1, SMT DEF Value
  <2>4. SubSeq(four, 1, 3) \in Seq(Int) /\ Len(SubSeq(four, 1, 3)) = 3 /\ \A i \in 1..3 : SubSeq(four, 1, 3)[i] = four[i]
    BY <2>2, SMT
  <2>5. \A i \in 1..3 : SubSeq(four, 1, 3)[i] = v[i]
    BY <2>2, <2>4, SMT
  <2>6. SubSeq(four, 1, 3) = v
    BY <2>4, <2>5, SeqEqual, SMT DEF Values
  <2> QED
    BY <2>3, <2>6
<1>9. Len(v) = 4 /\ k.type = "rgba" => Value(k, ColorSelector(k, v)) = v
  <2> SUFFICES ASSUME Len(v) = 4, k.type = "rgba" PROVE Value(k, ColorSelector(k, v)) = v
    OBVIOUS
  <2> DEFINE four == [i \in 1..4 |-> Elem(v, i)]
  <2>1. ColorSelector(k, v) = [kind |-> "color", vals |-> four]
    BY SMT DEF ColorSelector
  <2>2. four = v
    BY <1>2, <1>v, SMT
  <2>3. Value(k, ColorSelector(k, v)) = SubSeq(v, 1, 4)
    BY <2>1, <2>2, SMT DEF Value
  <2>4. SubSeq(v, 1, 4) = v
    BY SubSeqFull, SMT DEF Values
  <2> QED
    BY <2>3, <2>4
<1> QED
  BY <1>4, <1>5, <1>6, <1>7, <1>8, <1>9 DEF inside

LEMMA Thirds ==
  ASSUME NEW L \in Nat
  PROVE  /\ (L + 3 - 1) \div 3 \in Nat /\ (L + 3 - 1) \div 3 <= L
         /\ \A i \in 1..((L + 3 - 1) \div 3) : (i - 1) * 3 + 1 \in 1..L
         /\ (L + 1 - 1) \div 1 = L
BY SMT

\* The texts of a list of choices.
LEMMA ChoicesAreValues ==
  ASSUME NEW k, IsKey(k)
  PROVE  /\ Step(k) \in {1, 3} /\ KeyChoices(k) \in Values
         /\ Len(KeyChoices(k)) \in Nat
         /\ \A i \in 1..Len(KeyChoices(k)) :
              /\ (i - 1) * Step(k) + 1 \in 1..Len(k.auth)
              /\ KeyChoices(k)[i] = k.auth[(i - 1) * Step(k) + 1]
         /\ k.type # "ctrlSelect" => Step(k) = 1 /\ KeyChoices(k) = k.auth
         /\ Len(KeyChoices(k)) <= Len(k.auth)
<1> DEFINE n == (Len(k.auth) + Step(k) - 1) \div Step(k)
<1>1. k.auth \in Seq(Int) /\ Len(k.auth) \in Nat
  BY SMT DEF IsKey
<1>2. Step(k) = IF k.type = "ctrlSelect" THEN 3 ELSE 1
  BY Zenon DEF Step
<1>3. KeyChoices(k) = [i \in 1..n |-> k.auth[(i - 1) * Step(k) + 1]]
  BY Zenon DEF KeyChoices
<1>4. CASE k.type = "ctrlSelect"
  <2>1. Step(k) = 3 /\ n = (Len(k.auth) + 3 - 1) \div 3
    BY <1>2, <1>4, Zenon
  <2>2. n \in Nat /\ n <= Len(k.auth) /\ \A i \in 1..n : (i - 1) * 3 + 1 \in 1..Len(k.auth)
    BY <1>1, <2>1, Thirds, Zenon
  <2> HIDE DEF n
  <2>3. KeyChoices(k) = [i \in 1..n |-> k.auth[(i - 1) * 3 + 1]]
    BY <1>3, <2>1, Zenon
  <2>4. \A i \in 1..n : k.auth[(i - 1) * 3 + 1] \in Int
    BY <1>1, <2>2, ElementOfSeq
  <2>5. KeyChoices(k) \in Seq(Int) /\ Len(KeyChoices(k)) = n
    BY <2>2, <2>3, <2>4, SMT
  <2>6. \A i \in 1..Len(KeyChoices(k)) :
          /\ (i - 1) * 3 + 1 \in 1..Len(k.auth)
          /\ KeyChoices(k)[i] = k.auth[(i - 1) * 3 + 1]
    BY <2>2, <2>3, <2>5, SMT
  <2> QED
    BY <1>4, <2>1, <2>2, <2>5, <2>6, Zenon DEF Values
<1>5. CASE k.type # "ctrlSelect"
  <2>1. Step(k) = 1 /\ n = (Len(k.auth) + 1 - 1) \div 1
    BY <1>2, <1>5, Zenon
  <2>0. n = Len(k.auth)
    BY <1>1, <2>1, Thirds, Zenon
  <2> HIDE DEF n
  <2>2. KeyChoices(k) = [i \in 1..Len(k.auth) |-> k.auth[i]]
    <3>1. KeyChoices(k) = [i \in 1..Len(k.auth) |-> k.auth[(i - 1) * 1 + 1]]
      BY <1>3, <2>0, <2>1, Zenon
    <3>2. \A i \in 1..Len(k.auth) : (i - 1) * 1 + 1 = i
      BY <1>1, SMT
    <3> QED
      BY <3>1, <3>2, Zenon
  <2>3. KeyChoices(k) = k.auth
    <3>1. k.auth = [i \in 1..Len(k.auth) |-> k.auth[i]]
      BY <1>1, SMT
    <3> QED
      BY <2>2, <3>1
  <2> QED
    BY <1>1, <1>2, <1>5, <2>3, SMT DEF Values
<1> QED
  BY <1>4, <1>5

\* The text of the current choice, and the widgets Lists makes of it.
Named(k, v) ==
  IF Numbered(k)
    THEN IF v # <<>> /\ v[1] \in 0..(Len(k.auth) - 1) THEN <<k.auth[v[1] * Step(k) + 1]>> ELSE <<>>
    ELSE IF k.type = "listEntry" \/ (v # <<>> /\ Selected(k.auth, v[1]) # 0) THEN v ELSE <<>>
Current(k, v) == IF Named(k, v) \in {<<>>, <<0>>} /\ k.auth # <<>> THEN <<k.auth[1]>> ELSE Named(k, v)

LEMMA ListsAre ==
  ASSUME NEW k, NEW v
  PROVE  /\ k.type \in {"ctrlSimple", "ctrlSelect"} /\ k.auth = <<>> => Lists(k, v) = NoWidget
         /\ k.type = "listEntry" =>
              Lists(k, v) = [kind |-> "entry", text |-> Current(k, v), isDefault |-> FALSE, focus |-> FALSE]
         /\ Numbered(k) /\ ~(k.type \in {"ctrlSimple", "ctrlSelect"} /\ k.auth = <<>>) =>
              Lists(k, v) = [Combo(KeyChoices(k), Current(k, v)) EXCEPT !.kind = "numbered"]
         /\ k.type = "list" => Lists(k, v) = Combo(KeyChoices(k), Current(k, v))
<1>1. Lists(k, v) =
        IF k.type \in {"ctrlSimple", "ctrlSelect"} /\ k.auth = <<>> THEN NoWidget
        ELSE IF k.type = "listEntry" THEN [kind |-> "entry", text |-> Current(k, v), isDefault |-> FALSE, focus |-> FALSE]
        ELSE IF Numbered(k) THEN [Combo(KeyChoices(k), Current(k, v)) EXCEPT !.kind = "numbered"]
        ELSE Combo(KeyChoices(k), Current(k, v))
  BY Zenon DEF Lists, Current, Named
<1> DEFINE L == Lists(k, v)
           C == Combo(KeyChoices(k), Current(k, v))
           e == [kind |-> "entry", text |-> Current(k, v), isDefault |-> FALSE, focus |-> FALSE]
           N == [C EXCEPT !.kind = "numbered"]
<1> HIDE DEF L, C, e, N
<1> QED
  BY <1>1, SMT DEF Numbered, L, C, e, N

LEMMA CurrentIsValue ==
  ASSUME NEW k, IsKey(k), NEW v \in Values, ~PastChoices(k, v)
  PROVE  Current(k, v) \in Values
<1>1. k.auth \in Seq(Int) /\ v \in Seq(Int) /\ Step(k) = IF k.type = "ctrlSelect" THEN 3 ELSE 1
  BY SMT DEF IsKey, Values, Step
<1>2. Named(k, v) \in Seq(Int)
  <2>1. CASE Numbered(k) /\ v # <<>> /\ v[1] \in 0..(Len(k.auth) - 1)
    <3>1. v[1] * Step(k) + 1 \in 1..Len(k.auth)
      BY <1>1, <2>1, SMT DEF PastChoices, Numbered
    <3>2. k.auth[v[1] * Step(k) + 1] \in Int
      BY <1>1, <3>1, ElementOfSeq
    <3>3. Named(k, v) = <<k.auth[v[1] * Step(k) + 1]>>
      BY <2>1, Zenon DEF Named
    <3> QED
      BY <3>2, <3>3, SMT
  <2>2. CASE ~(Numbered(k) /\ v # <<>> /\ v[1] \in 0..(Len(k.auth) - 1))
    <3>1. Named(k, v) \in {<<>>, v}
      BY <2>2, Zenon DEF Named
    <3>2. <<>> \in Seq(Int)
      BY EmptySeq
    <3> QED
      BY <1>1, <3>1, <3>2, Zenon
  <2> QED
    BY <2>1, <2>2
<1> QED
  BY <1>1, <1>2, SMT DEF Current, Values

LEMMA ListsShow ==
  ASSUME NEW k, IsKey(k), NEW v \in Values, ~PastChoices(k, v),
         k.type \in {"list", "listEntry", "numbered", "ctrlSimple", "ctrlSelect"}
  PROVE  IsWidget(Lists(k, v)) /\ Lists(k, v).kind \in {"none", "entry", "combo", "numbered"}
         /\ (Lists(k, v).kind = "entry" => ~Lists(k, v).isDefault)
<1> DEFINE c == Combo(KeyChoices(k), Current(k, v))
<1>1. Current(k, v) \in Values /\ KeyChoices(k) \in Values
  BY CurrentIsValue, ChoicesAreValues
<1>2. /\ c \in [kind : {"combo"}, list : Values, active : Nat] /\ c.kind = "combo"
      /\ c.list = KeyChoices(k) /\ c.active <= Len(KeyChoices(k)) /\ IsWidget(c)
  BY <1>1, ComboShows, ComboIsWidget
<1> HIDE DEF c
<1>3. /\ k.type \in {"ctrlSimple", "ctrlSelect"} /\ k.auth = <<>> => Lists(k, v) = NoWidget
      /\ k.type = "listEntry" =>
           Lists(k, v) = [kind |-> "entry", text |-> Current(k, v), isDefault |-> FALSE, focus |-> FALSE]
      /\ Numbered(k) /\ ~(k.type \in {"ctrlSimple", "ctrlSelect"} /\ k.auth = <<>>) =>
           Lists(k, v) = [c EXCEPT !.kind = "numbered"]
      /\ k.type = "list" => Lists(k, v) = c
  BY ListsAre DEF c
<1>4. IsWidget(NoWidget) /\ NoWidget.kind = "none"
  BY SMT DEF IsWidget, Widgets, Sized, NoWidget
<1>5. LET e == [kind |-> "entry", text |-> Current(k, v), isDefault |-> FALSE, focus |-> FALSE]
      IN IsWidget(e) /\ e.kind = "entry" /\ ~e.isDefault
  BY <1>1, SMT DEF IsWidget, Widgets, Sized
<1>6. LET w == [c EXCEPT !.kind = "numbered"] IN IsWidget(w) /\ w.kind = "numbered"
  BY <1>2, SMT DEF IsWidget, Widgets, Sized
<1> QED
  BY <1>2, <1>3, <1>4, <1>5, <1>6, Zenon DEF Numbered

LEMMA OneText ==
  ASSUME NEW v \in Values, Len(v) = 1
  PROVE  v # <<>> /\ v = <<v[1]>> /\ v[1] \in Int
<1>1. v = <<v[1]>> /\ v[1] \in Int
  BY SMT DEF Values
<1>2. Len(<<>>) = 0
  BY EmptySeq
<1>3. v # <<>>
  <2> SUFFICES ASSUME v = <<>> PROVE FALSE
    OBVIOUS
  <2>1. Len(v) = 0
    BY <1>2, Zenon
  <2> QED
    BY <2>1, SMT
<1> QED
  BY <1>1, <1>3

\* The choice of a list is found again if no later one has the same text.
LEMMA ChoiceFound ==
  ASSUME NEW k, IsKey(k), NEW v \in Values, Numbered(k),
         Len(v) = 1, v[1] \in 0..(Len(KeyChoices(k)) - 1), KeyChoices(k)[v[1] + 1] # 0,
         \A i \in DOMAIN KeyChoices(k) : KeyChoices(k)[i] = KeyChoices(k)[v[1] + 1] => i <= v[1] + 1
  PROVE  Combo(KeyChoices(k), Current(k, v)).active = v[1] + 1
<1> DEFINE list == KeyChoices(k)
           text == list[v[1] + 1]
<1>1. /\ list \in Values /\ Len(list) \in Nat /\ DOMAIN list = 1..Len(list) /\ Len(list) <= Len(k.auth)
      /\ v[1] + 1 \in 1..Len(list) /\ v[1] \in Nat /\ v # <<>> /\ v[1] \in 0..(Len(k.auth) - 1)
  <2>1. list \in Seq(Int) /\ Len(list) \in Nat /\ Len(list) <= Len(k.auth)
    BY ChoicesAreValues DEF Values
  <2>2. k.auth \in Seq(Int)
    BY DEF IsKey
  <2> HIDE DEF list
  <2>3. v[1] \in 0..(Len(list) - 1)
    BY DEF list
  <2>4. DOMAIN list = 1..Len(list) /\ Len(k.auth) \in Nat
    BY <2>1, <2>2, LenProperties
  <2>5. v # <<>>
    BY OneText
  <2> QED
    BY <2>1, <2>3, <2>4, <2>5, SMT DEF Values
<1>2. text = k.auth[v[1] * Step(k) + 1] /\ text \in Int
  <2>1. list[v[1] + 1] = k.auth[(v[1] + 1 - 1) * Step(k) + 1]
    BY <1>1, ChoicesAreValues
  <2>2. v[1] + 1 - 1 = v[1]
    BY <1>1, SMT
  <2>3. list[v[1] + 1] \in Int
    BY <1>1, ElementOfSeq DEF Values
  <2> QED
    BY <2>1, <2>2, <2>3, Zenon
<1>3. Named(k, v) = <<text>>
  BY <1>1, <1>2, Zenon DEF Named
<1>4. Current(k, v) = <<text>>
  <2>1. text # 0
    OBVIOUS
  <2> HIDE DEF text
  <2>2. <<text>> \notin {<<>>, <<0>>}
    BY <1>2, <2>1, SMT
  <2> QED
    BY <1>3, <2>2, Zenon DEF Current
<1> DEFINE c == Combo(list, <<text>>)
<1>5. \A i \in 1..Len(list) : list[i] = text => i <= v[1] + 1
  BY <1>1
<1>6. list[v[1] + 1] = text
  OBVIOUS
<1> HIDE DEF list, text
<1>7. /\ c.active \in Nat /\ c.active <= Len(list) /\ (c.active # 0 => list[c.active] = text)
      /\ \A i \in 1..Len(list) : list[i] = text => i <= c.active
  <2>1. <<text>> \in Values /\ Len(<<text>>) = 1 /\ <<text>>[1] = text
    BY <1>2, SMT DEF Values
  <2> DEFINE one == <<text>>
  <2>4. one \in Values
    BY <2>1
  <2> HIDE DEF one
  <2>5. /\ Combo(list, one) \in [kind : {"combo"}, list : Values, active : Nat]
        /\ Combo(list, one).active <= Len(list)
        /\ Len(one) = 1 => (Combo(list, one).active # 0 => list[Combo(list, one).active] = one[1])
        /\ \A i \in 1..Len(list) : Len(one) = 1 /\ list[i] = one[1] => i <= Combo(list, one).active
    BY <1>1, <2>4, ComboShows, SMTT(30)
  <2>2. /\ c \in [kind : {"combo"}, list : Values, active : Nat]
        /\ c.active <= Len(list)
        /\ c.active # 0 => list[c.active] = text
        /\ \A i \in 1..Len(list) : list[i] = text => i <= c.active
    BY <2>1, <2>5, Zenon DEF one
  <2>3. c.active \in Nat
    <3> HIDE DEF c
    <3> QED
      BY <2>2, SMT
  <2> QED
    BY <2>1, <2>2, <2>3, Zenon
<1> HIDE DEF c
<1>8. c.active = v[1] + 1
  BY <1>1, <1>5, <1>6, <1>7, SMT
<1> QED
  BY <1>4, <1>8 DEF c, list

\* The values a list of choices can show: a text of the list, any text of an entry,
\* the number of a choice whose text has no later double.
TextOfList(k, v)  == k.type = "list" /\ Len(v) = 1 /\ v[1] # 0 /\ \E i \in DOMAIN k.auth : v[1] = k.auth[i]
TextOfEntry(k, v) == k.type = "listEntry" /\ (v \notin {<<>>, <<0>>} \/ k.auth = <<>>)
NumberOf(k, v) ==
  /\ Numbered(k) /\ Len(v) = 1 /\ v[1] \in 0..(Len(KeyChoices(k)) - 1)
  /\ KeyChoices(k)[v[1] + 1] # 0
  /\ \A i \in DOMAIN KeyChoices(k) :
       KeyChoices(k)[i] = KeyChoices(k)[v[1] + 1] => i <= v[1] + 1

LEMMA ListsGiveBack ==
  ASSUME NEW k, IsKey(k), NEW v \in Values, Lists(k, v) # NoWidget,
         TextOfList(k, v) \/ TextOfEntry(k, v) \/ NumberOf(k, v)
  PROVE  Value(k, Lists(k, v)) = v
<1> USE DEF TextOfList, TextOfEntry, NumberOf
<1>1. CASE TextOfList(k, v)
  <2>1. ~Numbered(k) /\ k.type # "ctrlSelect"
    BY <1>1, SMT DEF Numbered
  <2>2. KeyChoices(k) = k.auth /\ k.auth \in Values
    BY <2>1, ChoicesAreValues, Zenon
  <2>3. v # <<>> /\ v # <<0>> /\ v[1] \in Int
    <3>1. v # <<>> /\ v = <<v[1]>> /\ v[1] \in Int
      BY <1>1, OneText
    <3>2. <<0>>[1] = 0
      BY SMT
    <3> QED
      BY <1>1, <3>1, <3>2, Zenon
  <2>4. Selected(k.auth, v[1]) # 0
    <3> DEFINE s == Selected(k.auth, v[1])
    <3>1. \A i \in 1..Len(k.auth) : k.auth[i] = v[1] => i <= s
      BY <2>2, <2>3, SelectedIsLast
    <3>2. s \in 0..Len(k.auth)
      BY <2>2, <2>3, SelectedIsLast
    <3> HIDE DEF s
    <3>3. s # 0
      BY <1>1, <2>2, <3>1, <3>2, SMT DEF Values
    <3> QED
      BY <3>3 DEF s
  <2>5. Current(k, v) = v
    BY <2>1, <2>3, <2>4, Zenon DEF Current, Named
  <2>6. Lists(k, v) = Combo(k.auth, v)
    BY <1>1, <2>2, <2>5, ListsAre
  <2> QED
    BY <1>1, <2>2, <2>6, ComboGivesBack
<1>2. CASE TextOfEntry(k, v)
  <2>1. ~Numbered(k)
    BY <1>2, SMT DEF Numbered
  <2>2. Current(k, v) = v
    BY <1>2, <2>1, Zenon DEF Current, Named
  <2>3. Lists(k, v) = [kind |-> "entry", text |-> v, isDefault |-> FALSE, focus |-> FALSE]
    BY <1>2, <2>2, ListsAre
  <2> QED
    BY <2>3, SMT DEF Value
<1>3. CASE NumberOf(k, v)
  <2> DEFINE c == Combo(KeyChoices(k), Current(k, v))
             N == [c EXCEPT !.kind = "numbered"]
  <2>1. c.active = v[1] + 1
    BY <1>3, ChoiceFound
  <2>2. Lists(k, v) = N
    BY <1>3, ListsAre
  <2>3. c = [kind |-> "combo", list |-> KeyChoices(k), active |-> v[1] + 1]
    BY <2>1, SMT DEF Combo
  <2> HIDE DEF c
  <2>6. N = [kind |-> "numbered", list |-> KeyChoices(k), active |-> v[1] + 1]
    BY <2>3, SMT
  <2> HIDE DEF N
  <2>7. N.kind = "numbered" /\ N.active = v[1] + 1
    BY <2>6, SMT
  <2>4. Value(k, N) = <<(v[1] + 1) - 1>>
    BY <2>7, SMT DEF Value
  <2>5. v = <<(v[1] + 1) - 1>>
    <3>1. v = <<v[1]>> /\ v[1] \in Int
      BY <1>3, OneText
    <3>2. (v[1] + 1) - 1 = v[1]
      BY <3>1, SMT
    <3> QED
      BY <3>1, <3>2, Zenon
  <2> QED
    BY <2>2, <2>4, <2>5, Zenon DEF N
<1> QED
  BY <1>1, <1>2, <1>3

(***************************************************************************)
(* Entries.                                                                *)
(***************************************************************************)
Entries == [kind : {"entry"}, text : Values, isDefault : BOOLEAN, focus : BOOLEAN]
Entry(t) == [kind |-> "entry", text |-> t, isDefault |-> FALSE, focus |-> FALSE]

LEMMA EntryField ==
  ASSUME NEW w \in Entries
  PROVE  /\ w.kind = "entry" /\ w.text \in Values /\ w.isDefault \in BOOLEAN /\ w.focus \in BOOLEAN
         /\ \A f \in BOOLEAN : [w EXCEPT !.focus = f] \in Entries
         /\ \A b \in BOOLEAN : [w EXCEPT !.isDefault = b] \in Entries
         /\ \A t \in Values : [w EXCEPT !.text = t] \in Entries
<1>1. w = [kind |-> "entry", text |-> w.text, isDefault |-> w.isDefault, focus |-> w.focus]
  BY SMT DEF Entries
<1>2. w.kind = "entry" /\ w.text \in Values /\ w.isDefault \in BOOLEAN /\ w.focus \in BOOLEAN
  BY SMT DEF Entries
<1>3. PICK x \in Values, y \in BOOLEAN, z \in BOOLEAN : x = w.text /\ y = w.isDefault /\ z = w.focus
  BY <1>2
<1>4. w = [kind |-> "entry", text |-> x, isDefault |-> y, focus |-> z]
  BY <1>1, <1>3
<1>5. ASSUME NEW f \in BOOLEAN PROVE [w EXCEPT !.focus = f] \in Entries
  BY <1>4, SMT DEF Entries
<1>6. ASSUME NEW b \in BOOLEAN PROVE [w EXCEPT !.isDefault = b] \in Entries
  BY <1>4, SMT DEF Entries
<1>7. ASSUME NEW t \in Values PROVE [w EXCEPT !.text = t] \in Entries
  BY <1>4, SMT DEF Entries
<1> QED
  BY <1>2, <1>5, <1>6, <1>7

LEMMA EntryFields ==
  ASSUME NEW w \in Entries, NEW t \in Values, NEW b \in BOOLEAN, NEW f \in BOOLEAN
  PROVE  /\ [w EXCEPT !.focus = f, !.isDefault = b, !.text = t] \in Entries
         /\ [w EXCEPT !.text = t, !.isDefault = b] \in Entries
         /\ [w EXCEPT !.focus = f, !.text = t] \in Entries
<1>1. [w EXCEPT !.focus = f, !.isDefault = b, !.text = t] =
        [[[w EXCEPT !.focus = f] EXCEPT !.isDefault = b] EXCEPT !.text = t]
  OBVIOUS
<1>2. [w EXCEPT !.text = t, !.isDefault = b] = [[w EXCEPT !.text = t] EXCEPT !.isDefault = b]
  OBVIOUS
<1>3. [w EXCEPT !.focus = f, !.text = t] = [[w EXCEPT !.focus = f] EXCEPT !.text = t]
  OBVIOUS
<1>4. [w EXCEPT !.focus = f] \in Entries /\ [w EXCEPT !.text = t] \in Entries
  BY EntryField
<1>5. [[w EXCEPT !.focus = f] EXCEPT !.isDefault = b] \in Entries /\ [[w EXCEPT !.focus = f] EXCEPT !.text = t] \in Entries
  BY <1>4, EntryField
<1>6. [[[w EXCEPT !.focus = f] EXCEPT !.isDefault = b] EXCEPT !.text = t] \in Entries
  BY <1>5, EntryField
<1>7. [[w EXCEPT !.text = t] EXCEPT !.isDefault = b] \in Entries
  BY <1>4, EntryField
<1> QED
  BY <1>1, <1>2, <1>3, <1>5, <1>6, <1>7

LEMMA HelpIsValue ==
  ASSUME NEW k, IsKey(k)
  PROVE  /\ HelpText(k) \in Values
         /\ HelpText(k) # <<>> => HelpText(k) = <<k.auth[1]>> /\ k.auth[1] \in Int
<1>1. k.auth \in Seq(Int)
  BY DEF IsKey
<1>2. k.auth # <<>> => k.auth[1] \in Int
  BY <1>1, SMT
<1>3. <<>> \in Seq(Int)
  BY EmptySeq
<1>4. k.auth[1] \in Int => <<k.auth[1]>> \in Seq(Int)
  BY SMT
<1> QED
  BY <1>2, <1>3, <1>4, Zenon DEF HelpText, Values

LEMMA CipherIsValue ==
  ASSUME NEW v \in Values
  PROVE  /\ Decrypt(v) \in Values /\ Encrypt(v) \in Values
         /\ Encrypt(Decrypt(v)) = v
         /\ v = <<>> => Encrypt(v) = v
         /\ Decrypt(v) = <<>> => v = <<>>
<1>1. v = [i \in 1..Len(v) |-> v[i]] /\ Len(v) \in Nat /\ \A i \in 1..Len(v) : v[i] \in Int /\ v[i] - 100 \in Int
  BY SMT DEF Values
<1>2. Decrypt(v) = [i \in 1..Len(v) |-> v[i] - 100] /\ Encrypt(v) = [i \in 1..Len(v) |-> v[i] + 100]
  BY SMT DEF Decrypt, Encrypt, Cipher, Values
<1>3. Decrypt(v) \in Values /\ Encrypt(v) \in Values /\ Len(Decrypt(v)) = Len(v)
  BY <1>1, <1>2, SMT DEF Values
<1>4. Encrypt(Decrypt(v)) = [i \in 1..Len(v) |-> (v[i] - 100) + 100]
  BY <1>1, <1>2, SMT DEF Encrypt, Cipher
<1>5. \A i \in 1..Len(v) : (v[i] - 100) + 100 = v[i]
  BY <1>1, SMT
<1>6. Encrypt(Decrypt(v)) = v
  BY <1>1, <1>4, <1>5, Zenon
<1>7. v = <<>> => Encrypt(v) = v
  <2>1. ASSUME v = <<>> PROVE Encrypt(v) = v
    <3>1. Len(v) = 0
      BY <2>1, SMT
    <3>2. \A i \in 1..Len(v) : v[i] + 100 = v[i]
      BY <3>1, SMT
    <3> QED
      BY <1>1, <1>2, <3>2, Zenon
  <2> QED
    BY <2>1
<1>8. Decrypt(v) = <<>> => v = <<>>
  BY <1>3, SMT DEF Values
<1> QED
  BY <1>3, <1>6, <1>7, <1>8

LEMMA FocusOutShows ==
  ASSUME NEW k, IsKey(k), NEW w \in Entries
  PROVE  LET o == onTextDefaultFocusOut(k, w)
         IN /\ o \in Entries /\ ~o.focus /\ IsWidget(o)
            /\ HelpText(k) = <<>> => o.text = w.text /\ (o.isDefault <=> w.isDefault)
            /\ HelpText(k) # <<>> =>
                 /\ o.isDefault <=> w.text = <<>>
                 /\ w.text # <<>> => o.text = w.text
<1> DEFINE o == onTextDefaultFocusOut(k, w)
           b == w.text = <<>>
           t == IF w.text = <<>> THEN HelpText(k) ELSE w.text
<1>1. o = IF HelpText(k) = <<>> THEN [w EXCEPT !.focus = FALSE]
          ELSE [w EXCEPT !.focus = FALSE, !.isDefault = b, !.text = t]
  BY Zenon DEF onTextDefaultFocusOut
<1>2. b \in BOOLEAN /\ t \in Values
  BY HelpIsValue, SMT DEF Entries
<1>3. ASSUME w.text # <<>> PROVE t = w.text
  BY <1>3
<1>4. b <=> w.text = <<>>
  OBVIOUS
<1> SUFFICES /\ o \in Entries /\ ~o.focus
             /\ HelpText(k) = <<>> => o.text = w.text /\ (o.isDefault <=> w.isDefault)
             /\ HelpText(k) # <<>> => (o.isDefault <=> b) /\ o.text = t
  <2>1. ASSUME o \in Entries, ~o.focus PROVE IsWidget(o)
    <3> HIDE DEF o
    <3> QED
      BY <2>1, SMT DEF IsWidget, Widgets, Sized, Entries
  <2> HIDE DEF o, b, t
  <2> QED
    BY <1>3, <2>1 DEF o, b
<1> HIDE DEF o, b, t
<1>5. CASE HelpText(k) = <<>>
  <2>1. o = [w EXCEPT !.focus = FALSE]
    BY <1>1, <1>5, Zenon
  <2>2. o \in Entries
    BY <2>1, EntryField
  <2>3. o.text = w.text /\ o.isDefault = w.isDefault /\ o.focus = FALSE
    BY <2>1, SMT DEF Entries
  <2> QED
    BY <1>5, <2>2, <2>3, Zenon
<1>6. CASE HelpText(k) # <<>>
  <2>1. o = [w EXCEPT !.focus = FALSE, !.isDefault = b, !.text = t]
    BY <1>1, <1>6, Zenon
  <2>2. o \in Entries
    BY <1>2, <2>1, EntryFields
  <2>3. o.text = t /\ o.isDefault = b /\ o.focus = FALSE
    BY <1>2, <2>1, SMT DEF Entries
  <2> QED
    BY <1>6, <2>2, <2>3, Zenon
<1> QED
  BY <1>5, <1>6

LEMMA EntryValue ==
  ASSUME NEW k, NEW w \in Entries
  PROVE  Value(k, w) = IF w.isDefault THEN <<>> ELSE w.text
<1>1. w.kind = "entry"
  BY SMT DEF Entries
<1> QED
  BY <1>1, SMT DEF Value

LEMMA FocusOutKeeps ==
  ASSUME NEW k, IsKey(k), NEW w \in Entries, w.isDefault => w.text = <<>>
  PROVE  Value(k, onTextDefaultFocusOut(k, w)) = Value(k, w)
<1> DEFINE o == onTextDefaultFocusOut(k, w)
<1>1. /\ o \in Entries
      /\ HelpText(k) = <<>> => o.text = w.text /\ (o.isDefault <=> w.isDefault)
      /\ HelpText(k) # <<>> =>
                 /\ o.isDefault <=> w.text = <<>>
                 /\ w.text # <<>> => o.text = w.text
  BY FocusOutShows
<1> HIDE DEF o
<1>2. /\ Value(k, w) = IF w.isDefault THEN <<>> ELSE w.text
      /\ Value(k, o) = IF o.isDefault THEN <<>> ELSE o.text
  BY <1>1, EntryValue
<1>3. Value(k, o) = Value(k, w)
  <2>1. CASE HelpText(k) = <<>>
    BY <1>1, <1>2, <2>1, SMT
  <2>2. CASE HelpText(k) # <<>> /\ w.text = <<>>
    BY <1>1, <1>2, <2>2, SMT
  <2>3. CASE HelpText(k) # <<>> /\ w.text # <<>>
    BY <1>1, <1>2, <2>3, Zenon
  <2> QED
    BY <2>1, <2>2, <2>3
<1> QED
  BY <1>3 DEF o

LEMMA StringsShow ==
  ASSUME NEW k, IsKey(k), NEW v \in Values
  PROVE  LET s == Strings(k, v)
         IN /\ s \in Entries /\ IsWidget(s) /\ s.kind = "entry" /\ (s.isDefault => HelpText(k) # <<>>)
            /\ Value(k, s) = IF k.type = "password" /\ HelpText(k) # <<>> THEN Decrypt(v) ELSE v
<1> DEFINE clear == IF k.type = "password" THEN Decrypt(v) ELSE v
           s == Strings(k, v)
<1>1. clear \in Values
  BY CipherIsValue
<1>2. s = IF HelpText(k) = <<>> THEN Entry(v) ELSE onTextDefaultFocusOut(k, Entry(clear))
  BY Zenon DEF Strings, Entry
<1>3. ASSUME NEW t \in Values PROVE Entry(t) \in Entries /\ ~Entry(t).isDefault /\ Entry(t).text = t /\ IsWidget(Entry(t))
  BY <1>3, SMT DEF Entry, Entries, IsWidget, Widgets, Sized
<1>4. ASSUME NEW t \in Values PROVE Value(k, Entry(t)) = t
  BY <1>3, <1>4, EntryValue
<1>5. \A w \in Entries : w.kind = "entry"
  BY SMT DEF Entries
<1>6. HelpText(k) = <<>> => s = Entry(v)
  BY <1>2, Zenon
<1>7. HelpText(k) # <<>> => s = onTextDefaultFocusOut(k, Entry(clear))
  BY <1>2, Zenon
<1> SUFFICES /\ s \in Entries /\ IsWidget(s) /\ (s.isDefault => HelpText(k) # <<>>)
             /\ Value(k, s) = IF HelpText(k) # <<>> THEN clear ELSE v
  BY <1>5
<1> HIDE DEF s, clear
<1>8. CASE HelpText(k) = <<>>
  BY <1>3, <1>4, <1>6, <1>8
<1>9. CASE HelpText(k) # <<>>
  <2>1. Entry(clear) \in Entries /\ ~Entry(clear).isDefault /\ Value(k, Entry(clear)) = clear
    BY <1>1, <1>3, <1>4
  <2>2. s \in Entries /\ IsWidget(s)
    BY <1>7, <1>9, <2>1, FocusOutShows
  <2>3. Value(k, s) = clear
    BY <1>7, <1>9, <2>1, FocusOutKeeps
  <2> QED
    BY <1>9, <2>2, <2>3
<1> QED
  BY <1>8, <1>9

(***************************************************************************)
(* What buildKey makes of a value.                                         *)
(***************************************************************************)
LEMMA NoneIsWidget == IsWidget(NoWidget) /\ NoWidget.kind = "none"
BY SMT DEF IsWidget, Widgets, Sized, NoWidget

LEMMA FontIsWidget ==
  ASSUME NEW t \in Values
  PROVE  LET f == [kind |-> "font", text |-> t]
         IN IsWidget(f) /\ f.kind = "font" /\ \A k : Value(k, f) = t
BY SMT DEF IsWidget, Widgets, Sized, Value

LEMMA TreeIsWidget ==
  ASSUME NEW v \in Values
  PROVE  LET t == [kind |-> "tree", rows |-> Rows(v), sel |-> 0, slipped |-> FALSE]
         IN /\ IsWidget(t) /\ t.kind = "tree" /\ t.rows = Rows(v)
            /\ \A k : Value(k, t) = v
            /\ \A i \in DOMAIN Rows(v) : Rows(v)[i].order = i - 1
<1> DEFINE R == Rows(v)
           t == [kind |-> "tree", rows |-> R, sel |-> 0, slipped |-> FALSE]
<1>1. v = [i \in 1..Len(v) |-> v[i]] /\ Len(v) \in Nat /\ DOMAIN v = 1..Len(v) /\ \A i \in 1..Len(v) : v[i] \in Int
  BY SMT DEF Values
<1>2. R = [i \in 1..Len(v) |-> [order |-> i - 1, val |-> v[i]]]
  BY <1>1, Zenon DEF Rows
<1>3. \A i \in 1..Len(v) : [order |-> i - 1, val |-> v[i]] \in [order : Int, val : Int]
  BY <1>1, SMT
<1>4. R \in Seq([order : Int, val : Int]) /\ Len(R) = Len(v) /\ DOMAIN R = 1..Len(v)
  BY <1>1, <1>2, <1>3, SMT
<1>5. \A i \in 1..Len(v) : R[i].order = i - 1 /\ R[i].val = v[i]
  BY <1>2, SMT
<1> HIDE DEF R
<1>6. t.kind = "tree" /\ t.rows = R /\ t.sel = 0
  BY SMT
<1>7. t \in [kind : {"tree"}, rows : Seq([order : Int, val : Int]), sel : Nat, slipped : BOOLEAN]
  BY <1>4, SMT
<1> HIDE DEF t
<1>8. IsWidget(t)
  <2>1. t \in Widgets
    BY <1>7, Zenon DEF Widgets
  <2>2. Sized(t)
    BY <1>4, <1>6, SMT DEF Sized
  <2> QED
    BY <2>1, <2>2 DEF IsWidget
<1>9. ASSUME NEW k PROVE Value(k, t) = v
  <2>1. Value(k, t) = [i \in DOMAIN R |-> R[i].val]
    BY <1>6, SMT DEF Value
  <2> QED
    BY <1>1, <1>4, <1>5, <2>1, SMT
<1> QED
  BY <1>4, <1>5, <1>6, <1>8, <1>9 DEF t, R

LEMMA SourcesAreValues ==
  ASSUME NEW k, IsKey(k)
  PROVE  /\ k.src \in Values /\ <<0>> \o k.src \in Values /\ <<0, Custom>> \o k.src \in Values
         /\ <<Custom>> \o k.src \in Values /\ Append(k.src, NewDock) \in Values
         /\ (IF Len(k.auth) > 2 THEN k.src ELSE <<>>) \in Values
         /\ <<>> \in Values /\ <<MainDock>> \in Values
         /\ Len(k.auth) > 1 => <<k.auth[2]>> \in Values
<1>1. k.src \in Seq(Int) /\ k.auth \in Seq(Int)
  BY DEF IsKey
<1>2. <<>> \in Seq(Int) /\ <<0>> \in Seq(Int) /\ <<0, 92>> \in Seq(Int) /\ <<92>> \in Seq(Int) /\ <<91>> \in Seq(Int)
  BY SMT
<1>3. <<0>> \o k.src \in Seq(Int) /\ <<0, 92>> \o k.src \in Seq(Int) /\ <<92>> \o k.src \in Seq(Int)
  BY <1>1, <1>2, ConcatProperties
<1>4. Append(k.src, 90) \in Seq(Int)
  BY <1>1, AppendIsLonger, SMT
<1>5. Len(k.auth) > 1 => <<k.auth[2]>> \in Seq(Int)
  <2>1. Len(k.auth) > 1 => k.auth[2] \in Int
    BY <1>1, SMT
  <2> QED
    BY <2>1, SMT
<1> QED
  BY <1>1, <1>2, <1>3, <1>4, <1>5 DEF Custom, NewDock, MainDock, Values

\* Each widget is one of its kind, and the entries of texts, the lists of rows and
\* the switches are where the types say.
LEMMA MadeIsWidget ==
  ASSUME NEW k, IsKey(k), NEW v \in Values, ~PastChoices(k, v)
  PROVE  LET w == Maker(k, v)
         IN /\ IsWidget(w)
            /\ w.kind = "tree" => w = [kind |-> "tree", rows |-> Rows(v), sel |-> 0, slipped |-> FALSE]
            /\ k.type \in {"text", "password", "class"} => w = Strings(k, v)
            /\ k.type \in {"bool", "boolCtrl"} => w.kind = "values"
            /\ w.kind = "entry" /\ w.isDefault => HelpText(k) # <<>>
<1> DEFINE w == Maker(k, v)
           tree == [kind |-> "tree", rows |-> Rows(v), sel |-> 0, slipped |-> FALSE]
           P == IsWidget(w) /\ (w.kind = "tree" => w = tree)
<1>1. ASSUME k.type \in {"bool", "boolCtrl"} PROVE IsWidget(w) /\ w.kind = "values"
  BY <1>1, MakerIs, NumbersShow
<1>2. ASSUME k.type \in {"intScale", "intSpin"} PROVE IsWidget(w) /\ w.kind = "values"
  BY <1>2, MakerIs, NumbersShow
<1>3. ASSUME k.type = "size" PROVE IsWidget(w) /\ w.kind = "pair"
  BY <1>3, MakerIs, NumbersShow
<1>4. ASSUME k.type = "float" PROVE IsWidget(w) /\ w.kind = "values"
  BY <1>4, MakerIs, NumbersShow
<1>5. ASSUME k.type \in {"rgb", "rgba"} PROVE IsWidget(w) /\ w.kind = "color"
  BY <1>5, MakerIs, NumbersShow
<1>6. ASSUME k.type \in Combos PROVE IsWidget(w) /\ w.kind = "combo"
  <2> SUFFICES \E list, u \in Values : w = Combo(list, u)
    BY ComboIsWidget
  <2>1. CASE k.type = "theme"
    BY <2>1, MakerIs, SourcesAreValues, ZenonT(30)
  <2>2. CASE k.type \in {"view", "decorator", "decoSimple", "screen", "iconsDock"}
    <3>1. w = Combo(k.src, v)
      BY <2>2, MakerIs, Zenon
    <3> QED
      BY <3>1, SourcesAreValues
  <2>3. CASE k.type = "desktopIcons"
    <3>1. w = Combo(<<0, Custom>> \o k.src, v)
      BY <2>3, MakerIs, Zenon
    <3> QED
      BY <3>1, SourcesAreValues
  <2>4. CASE k.type = "animation"
    <3>1. w = Combo(<<0>> \o k.src, v)
      BY <2>4, MakerIs, Zenon
    <3> QED
      BY <3>1, SourcesAreValues
  <2>5. CASE k.type = "decoDefault"
    <3>1. w = Combo(<<Custom>> \o k.src, v)
      BY <2>5, MakerIs, Zenon
    <3> QED
      BY <3>1, SourcesAreValues
  <2>6. CASE k.type = "dock"
    <3>1. w = Combo(Append(k.src, NewDock), IF v = <<>> THEN <<MainDock>> ELSE v)
      BY <2>6, MakerIs, Zenon DEF ListDock
    <3>2. (IF v = <<>> THEN <<MainDock>> ELSE v) \in Values
      BY SourcesAreValues
    <3> QED
      BY <3>1, <3>2, SourcesAreValues
  <2> QED
    BY <1>6, <2>1, <2>2, <2>3, <2>4, <2>5, <2>6, SMT DEF Combos
<1>7. ASSUME k.type \in {"list", "listEntry", "numbered", "ctrlSimple", "ctrlSelect"}
      PROVE  IsWidget(w) /\ w.kind \in {"none", "entry", "combo", "numbered"} /\ (w.kind = "entry" => ~w.isDefault)
  BY <1>7, MakerIs, ListsShow
<1>8. ASSUME k.type \in {"tree", "multiChoice"} PROVE IsWidget(w) /\ (w = NoWidget \/ w = tree)
  <2>1. w \in {NoWidget, tree}
    BY <1>8, MakerIs, Zenon DEF TreeView
  <2> QED
    BY <2>1, NoneIsWidget, TreeIsWidget
<1>9. ASSUME k.type \in {"font", "link", "handbook"} PROVE IsWidget(w) /\ w.kind \in {"none", "font"}
  <2>1. \/ w = NoWidget
        \/ \E t \in Values : w = [kind |-> "font", text |-> t]
    <3>1. CASE k.type = "font"
      BY <3>1, MakerIs, Zenon DEF FontSelector
    <3>2. CASE k.type = "link"
      <4>1. (IF Len(k.auth) > 1 THEN <<k.auth[2]>> ELSE v) \in Values
        BY SourcesAreValues
      <4> QED
        BY <3>2, <4>1, MakerIs, Zenon DEF Link
    <3>3. CASE k.type = "handbook"
      BY <3>3, MakerIs, Zenon DEF Handbook
    <3> QED
      BY <1>9, <3>1, <3>2, <3>3
  <2> QED
    BY <2>1, NoneIsWidget, FontIsWidget
<1>10. ASSUME k.type \in {"text", "password", "class", "shortkey"}
       PROVE  IsWidget(w) /\ w.kind = "entry" /\ w = Strings(k, v) /\ (w.isDefault => HelpText(k) # <<>>)
  BY <1>10, MakerIs, StringsShow
<1>11. ASSUME k.type \notin Combos \cup {"bool", "boolCtrl", "intScale", "intSpin", "size", "float", "rgb", "rgba",
               "list", "listEntry", "numbered", "ctrlSimple", "ctrlSelect", "tree", "multiChoice", "font", "link",
               "text", "password", "class", "shortkey", "handbook"}
       PROVE  IsWidget(w) /\ w.kind = "none"
  BY <1>11, MakerIs, NoneIsWidget
<1> HIDE DEF w, tree
<1>12. IsWidget(w) /\ (w.kind \in {"none", "values", "pair", "color", "combo", "entry", "numbered", "font"} \/ w = tree)
  BY <1>1, <1>2, <1>3, <1>4, <1>5, <1>6, <1>7, <1>8, <1>9, <1>10, <1>11, NoneIsWidget, SMT
<1>13. w.kind = "tree" => w = tree
  BY <1>12, SMT
<1>t. tree.kind = "tree"
  BY TreeIsWidget DEF tree
<1>14. w.kind = "entry" /\ w.isDefault => HelpText(k) # <<>>
  <2> DEFINE D == w.isDefault
             H == HelpText(k) = <<>>
  <2>1. k.type \in {"text", "password", "class", "shortkey"} => (D => ~H)
    BY <1>10
  <2>2. k.type \in {"list", "listEntry", "numbered", "ctrlSimple", "ctrlSelect"} => (w.kind = "entry" => ~D)
    BY <1>7
  <2> HIDE DEF D, H
  <2>3. w.kind = "entry" => (D => ~H)
    BY <1>1, <1>2, <1>3, <1>4, <1>5, <1>6, <1>8, <1>9, <1>11, <1>t, <2>1, <2>2, NoneIsWidget, SMT
  <2> QED
    BY <2>3 DEF D, H
<1> QED
  BY <1>1, <1>10, <1>12, <1>13, <1>14 DEF w, tree


\* What gives back its value, by the type of the key.
In(list, v) == Len(v) = 1 /\ v[1] # 0 /\ \E i \in DOMAIN list : v[1] = list[i]
At(list, v) == /\ Len(v) = 1 /\ v[1] \in 0..(Len(list) - 1) /\ list[v[1] + 1] # 0
               /\ \A i \in DOMAIN list : list[i] = list[v[1] + 1] => i <= v[1] + 1
Inside(k, v) == \A i \in DOMAIN v : Mini(k) <= v[i] /\ v[i] <= Maxi(k)

LEMMA FitsIs ==
  ASSUME NEW k, NEW v, Fits(k, v)
  PROVE  /\ ~k.shown => k.type # "password"
         /\ k.shown =>
              /\ k.type \in {"bool", "boolCtrl"} => Len(v) = k.n
              /\ k.type \in {"intScale", "intSpin"} => Len(v) = 1 /\ Inside(k, v)
              /\ k.type = "float" => Len(v) = k.n /\ Inside(k, v)
              /\ k.type = "size" => Len(v) = 2 /\ Inside(k, v)
              /\ k.type = "rgb" => Len(v) = 3
              /\ k.type = "rgba" => Len(v) = 4
              /\ k.type \in {"view", "decorator", "screen", "decoSimple", "iconsDock", "animation"} =>
                   v = <<>> \/ In(k.src, v)
              /\ k.type = "theme" => v = <<>> \/ (In(k.src, v) /\ Len(k.auth) > 2)
              /\ k.type \in {"decoDefault", "desktopIcons"} => v = <<>> \/ v = <<Custom>> \/ In(k.src, v)
              /\ k.type = "dock" => In(k.src, v)
              /\ k.type = "list" => In(k.auth, v)
              /\ k.type = "listEntry" => v \notin {<<>>, <<0>>} \/ k.auth = <<>>
              /\ k.type \in {"numbered", "ctrlSimple", "ctrlSelect"} => At(KeyChoices(k), v)
              /\ k.type = "password" => v = <<>> \/ HelpText(k) # <<>>
<1> DEFINE empty == v = <<>>
           custom == v = <<Custom>>
           noHelp == HelpText(k) = <<>>
           noAuth == k.auth = <<>>
           zero == v = <<0>>
           insrc == In(k.src, v)
           inauth == In(k.auth, v)
           atc == At(KeyChoices(k), v)
           ins == Inside(k, v)
           l1 == Len(v) = 1
           l2 == Len(v) = 2
           l3 == Len(v) = 3
           l4 == Len(v) = 4
           ln == Len(v) = k.n
           la == Len(k.auth) > 2
<1>1. IF ~k.shown THEN k.type # "password" ELSE
      CASE k.type \in {"bool", "boolCtrl"} -> ln
       [] k.type \in {"intScale", "intSpin"} -> l1 /\ ins
       [] k.type = "float" -> ln /\ ins
       [] k.type = "size" -> l2 /\ ins
       [] k.type = "rgb"  -> l3
       [] k.type = "rgba" -> l4
       [] k.type \in {"view", "decorator", "screen", "decoSimple", "decoDefault", "iconsDock", "theme"} ->
            \/ empty \/ (k.type = "decoDefault" /\ custom)
            \/ insrc /\ (k.type = "theme" => la)
       [] k.type \in {"animation", "desktopIcons"} -> empty \/ insrc \/ (k.type = "desktopIcons" /\ custom)
       [] k.type = "dock" -> insrc
       [] k.type = "list" -> inauth
       [] k.type = "listEntry" -> v \notin {<<>>, <<0>>} \/ noAuth
       [] k.type \in {"numbered", "ctrlSimple", "ctrlSelect"} -> atc
       [] k.type = "password" -> empty \/ ~noHelp
       [] OTHER -> TRUE
  BY Zenon DEF Fits, In, At, Inside
<1>2. v \notin {<<>>, <<0>>} <=> ~empty /\ ~zero
  OBVIOUS
<1> HIDE DEF empty, custom, noHelp, noAuth, zero, insrc, inauth, atc, ins, l1, l2, l3, l4, ln, la
<1>3. /\ ~k.shown => k.type # "password"
      /\ k.shown =>
              /\ k.type \in {"bool", "boolCtrl"} => ln
              /\ k.type \in {"intScale", "intSpin"} => l1 /\ ins
              /\ k.type = "float" => ln /\ ins
              /\ k.type = "size" => l2 /\ ins
              /\ k.type = "rgb" => l3
              /\ k.type = "rgba" => l4
              /\ k.type \in {"view", "decorator", "screen", "decoSimple", "iconsDock", "animation"} => empty \/ insrc
              /\ k.type = "theme" => empty \/ (insrc /\ la)
              /\ k.type \in {"decoDefault", "desktopIcons"} => empty \/ custom \/ insrc
              /\ k.type = "dock" => insrc
              /\ k.type = "list" => inauth
              /\ k.type = "listEntry" => v \notin {<<>>, <<0>>} \/ noAuth
              /\ k.type \in {"numbered", "ctrlSimple", "ctrlSelect"} => atc
              /\ k.type = "password" => empty \/ ~noHelp
  BY <1>1, SMTT(60)
<1> QED
  BY <1>3, Zenon DEF empty, custom, noHelp, noAuth, insrc, inauth, atc, ins, l1, l2, l3, l4, ln, la

\* An element stays in a list that gets one before or after it.
LEMMA InLonger ==
  ASSUME NEW list \in Values, NEW v \in Values, In(list, v), NEW before \in Values, NEW x \in Int
  PROVE  In(before \o list, v) /\ In(Append(list, x), v)
<1>1. PICK i \in DOMAIN list : v[1] = list[i]
  BY DEF In
<1>2. /\ DOMAIN list = 1..Len(list) /\ Len(list) \in Nat /\ Len(before) \in Nat
      /\ list \in Seq(Int) /\ before \in Seq(Int)
  BY SMT DEF Values
<1>3. In(before \o list, v)
  <2>1. /\ Len(before \o list) = Len(before) + Len(list)
        /\ \A j \in 1..(Len(before) + Len(list)) :
             (before \o list)[j] = IF j <= Len(before) THEN before[j] ELSE list[j - Len(before)]
        /\ before \o list \in Seq(Int)
    BY <1>2, ConcatProperties
  <2>2. DOMAIN (before \o list) = 1..(Len(before) + Len(list))
    BY <2>1, SMT
  <2>3. Len(before) + i \in DOMAIN (before \o list)
    BY <1>1, <1>2, <2>2, SMT
  <2>4. (before \o list)[Len(before) + i] = list[i]
    <3>1. Len(before) + i \in 1..(Len(before) + Len(list)) /\ ~(Len(before) + i <= Len(before))
          /\ (Len(before) + i) - Len(before) = i
      BY <1>1, <1>2, SMT
    <3> QED
      BY <2>1, <3>1, Zenon
  <2> QED
    BY <1>1, <2>3, <2>4, Zenon DEF In
<1>4. In(Append(list, x), v)
  <2>1. /\ Append(list, x) \in Seq(Int) /\ Len(Append(list, x)) = Len(list) + 1
        /\ \A j \in 1..Len(list) : Append(list, x)[j] = list[j]
    BY <1>2, AppendIsLonger
  <2>2. DOMAIN Append(list, x) = 1..(Len(list) + 1)
    BY <1>2, <2>1, SMT
  <2>3. i \in DOMAIN Append(list, x) /\ Append(list, x)[i] = list[i]
    BY <1>1, <1>2, <2>1, <2>2, SMT
  <2> QED
    BY <1>1, <2>3, Zenon DEF In
<1> QED
  BY <1>3, <1>4

LEMMA CombosGiveBack ==
  ASSUME NEW k, IsKey(k), NEW v \in Values, k.shown, k.type \in Combos, Fits(k, v)
  PROVE  Value(k, Maker(k, v)) = v
<1> DEFINE src == k.src
           w == Maker(k, v)
<1>1. /\ src \in Values /\ <<0>> \in Values /\ <<0, Custom>> \in Values /\ <<Custom>> \in Values
      /\ NewDock \in Int /\ Custom = 92
  BY SourcesAreValues, SMT DEF Custom, NewDock, Values
<1>2. /\ k.type \in {"view", "decorator", "screen", "decoSimple", "iconsDock", "animation"} => v = <<>> \/ In(src, v)
      /\ k.type = "theme" => v = <<>> \/ (In(src, v) /\ Len(k.auth) > 2)
      /\ k.type \in {"decoDefault", "desktopIcons"} => v = <<>> \/ v = <<Custom>> \/ In(src, v)
      /\ k.type = "dock" => In(src, v)
  BY FitsIs
<1>3. ASSUME NEW list \in Values, v = <<>> \/ In(list, v), w = Combo(list, v)
      PROVE  Value(k, w) = v
  BY <1>3, ComboGivesBack DEF In
<1>4. ASSUME In(src, v), NEW b \in Values PROVE In(b \o src, v) /\ In(Append(src, NewDock), v)
  BY <1>1, <1>4, InLonger
<1>5. /\ <<0>> \o src \in Values /\ <<0, Custom>> \o src \in Values /\ <<Custom>> \o src \in Values
      /\ Append(src, NewDock) \in Values /\ (IF Len(k.auth) > 2 THEN src ELSE <<>>) \in Values
  BY SourcesAreValues
<1>6. v = <<Custom>> => In(<<Custom>> \o src, v) /\ In(<<0, Custom>> \o src, v)
  <2> SUFFICES ASSUME v = << 92 >>
               PROVE  In(<<92>> \o src, v) /\ In(<<0, 92>> \o src, v)
    BY DEF Custom
  <2>1. ASSUME NEW b \in Seq(Int), NEW j \in 1..Len(b), b[j] = 92 PROVE In(b \o src, v)
    <3>1. /\ Len(b \o src) = Len(b) + Len(src)
          /\ \A i \in 1..(Len(b) + Len(src)) : (b \o src)[i] = IF i <= Len(b) THEN b[i] ELSE src[i - Len(b)]
          /\ b \o src \in Seq(Int)
      BY <1>1, ConcatProperties DEF Values
    <3>2. Len(b) \in Nat /\ Len(src) \in Nat
      BY <1>1, SMT DEF Values
    <3>3. j \in 1..(Len(b) + Len(src)) /\ j <= Len(b)
      BY <3>2, SMT
    <3>4. (b \o src)[j] = 92
      BY <2>1, <3>1, <3>3, Zenon
    <3>5. j \in DOMAIN (b \o src)
      BY <3>1, <3>3, SMT
    <3>6. Len(v) = 1 /\ v[1] = 92 /\ v[1] # 0
      BY SMT
    <3> QED
      BY <3>4, <3>5, <3>6, Zenon DEF In
  <2>2. <<92>> \in Seq(Int) /\ 1 \in 1..Len(<<92>>) /\ <<92>>[1] = 92
    BY SMT
  <2>3. <<0, 92>> \in Seq(Int) /\ 2 \in 1..Len(<<0, 92>>) /\ <<0, 92>>[2] = 92
    BY SMT
  <2> QED
    BY <2>1, <2>2, <2>3
<1> HIDE DEF src
<1>7. CASE k.type \in {"view", "decorator", "decoSimple", "screen", "iconsDock"}
  <2>1. w = Combo(src, v)
    BY <1>7, MakerIs, Zenon DEF src
  <2>2. v = <<>> \/ In(src, v)
    BY <1>2, <1>7, SMT
  <2> QED
    BY <1>1, <1>3, <2>1, <2>2
<1>8. CASE k.type = "theme"
  <2>1. w = Combo(IF Len(k.auth) > 2 THEN src ELSE <<>>, v)
    BY <1>8, MakerIs, Zenon DEF src
  <2>2. v = <<>> \/ In(IF Len(k.auth) > 2 THEN src ELSE <<>>, v)
    BY <1>2, <1>8, Zenon
  <2> QED
    BY <1>3, <1>5, <2>1, <2>2
<1>9. CASE k.type = "desktopIcons"
  <2>1. w = Combo(<<0, Custom>> \o src, v)
    BY <1>9, MakerIs, Zenon DEF src
  <2>2. v = <<>> \/ In(<<0, Custom>> \o src, v)
    BY <1>1, <1>2, <1>4, <1>6, <1>9, Zenon
  <2> QED
    BY <1>3, <1>5, <2>1, <2>2
<1>10. CASE k.type = "animation"
  <2>1. w = Combo(<<0>> \o src, v)
    BY <1>10, MakerIs, Zenon DEF src
  <2>2. v = <<>> \/ In(<<0>> \o src, v)
    BY <1>1, <1>2, <1>4, <1>10, Zenon
  <2> QED
    BY <1>3, <1>5, <2>1, <2>2
<1>11. CASE k.type = "decoDefault"
  <2>1. w = Combo(<<Custom>> \o src, v)
    BY <1>11, MakerIs, Zenon DEF src
  <2>2. v = <<>> \/ In(<<Custom>> \o src, v)
    BY <1>1, <1>2, <1>4, <1>6, <1>11, Zenon
  <2> QED
    BY <1>3, <1>5, <2>1, <2>2
<1>12. CASE k.type = "dock"
  <2>1. In(src, v) /\ Len(v) = 1
    BY <1>2, <1>12, Zenon DEF In
  <2>2. v # <<>>
    BY <2>1, OneText
  <2>3. w = Combo(Append(src, NewDock), v)
    BY <1>12, <2>2, MakerIs, Zenon DEF ListDock, src
  <2> QED
    BY <1>1, <1>3, <1>4, <1>5, <2>1, <2>3
<1> QED
  BY <1>7, <1>8, <1>9, <1>10, <1>11, <1>12, SMT DEF Combos

\* A widget that can show a value gives it back to the storage.
LEMMA MadeGivesBack ==
  ASSUME NEW k, IsKey(k), NEW v \in Values, ~PastChoices(k, v), Fits(k, v)
  PROVE  UpdateStorage(k, buildKey(k, v), v) = v
<1> DEFINE w == buildKey(k, v)
           value == IF w = NoWidget THEN v ELSE Value(k, w)
<1>1. UpdateStorage(k, w, v) =
        IF k.type \in Unsaved THEN v ELSE IF k.type = "password" THEN Encrypt(value) ELSE value
  BY Zenon DEF UpdateStorage
<1>0. w = IF k.shown THEN Maker(k, v) ELSE NoWidget
  BY Zenon DEF buildKey
<1> SUFFICES UpdateStorage(k, w, v) = v
  OBVIOUS
<1> HIDE DEF w
<1>2. CASE ~k.shown
  <2>1. w = NoWidget
    BY <1>0, <1>2, Zenon
  <2>2. k.type # "password"
    BY <1>2, FitsIs
  <2> QED
    BY <1>1, <2>1, <2>2, Zenon
<1>3. CASE k.type \in Unsaved
  BY <1>1, <1>3, Zenon
<1>4. CASE k.shown /\ k.type \notin Unsaved
  <2>0. w = Maker(k, v)
    BY <1>0, <1>4, Zenon
  <2> SUFFICES \/ k.type # "password" /\ (w = NoWidget \/ Value(k, w) = v)
               \/ k.type = "password" /\ w # NoWidget /\ Encrypt(Value(k, w)) = v
    <3>1. (w = NoWidget => value = v) /\ (w # NoWidget => value = Value(k, w))
      OBVIOUS
    <3> HIDE DEF value
    <3> QED
      BY <1>1, <1>4, <3>1, SMT
  <2>1. CASE k.type \in Combos
    <3>1. Value(k, w) = v
      BY <1>4, <2>0, <2>1, CombosGiveBack
    <3> QED
      BY <2>1, <3>1, SMT DEF Combos
  <2>2. CASE k.type \in {"bool", "boolCtrl", "intScale", "intSpin", "size", "float", "rgb", "rgba"}
    <3>1. /\ k.type \in {"bool", "boolCtrl"} => Len(v) = k.n
          /\ k.type \in {"intScale", "intSpin"} => Len(v) = 1 /\ Inside(k, v)
          /\ k.type = "float" => Len(v) = k.n /\ Inside(k, v)
          /\ k.type = "size" => Len(v) = 2 /\ Inside(k, v)
          /\ k.type = "rgb" => Len(v) = 3
          /\ k.type = "rgba" => Len(v) = 4
      BY <1>4, FitsIs
    <3>2. /\ Len(v) = k.n => Value(k, CheckButton(k, v)) = v
          /\ Len(v) = 1 /\ Inside(k, v) => Value(k, IntegerScale(k, v)) = v
          /\ Len(v) = 2 /\ Inside(k, v) => Value(k, IntegerSize(k, v)) = v
          /\ Len(v) = k.n /\ Inside(k, v) => Value(k, Float(k, v)) = v
          /\ Len(v) = 3 /\ k.type = "rgb" => Value(k, ColorSelector(k, v)) = v
          /\ Len(v) = 4 /\ k.type = "rgba" => Value(k, ColorSelector(k, v)) = v
      BY NumbersGiveBack DEF Inside
    <3>3. /\ k.type \in {"bool", "boolCtrl"} => w = CheckButton(k, v)
          /\ k.type \in {"intScale", "intSpin"} => w = IntegerScale(k, v)
          /\ k.type = "size" => w = IntegerSize(k, v)
          /\ k.type = "float" => w = Float(k, v)
          /\ k.type \in {"rgb", "rgba"} => w = ColorSelector(k, v)
      BY <2>0, MakerIs
    <3>4. Value(k, w) = v
      BY <2>2, <3>1, <3>2, <3>3, Zenon
    <3>5. k.type # "password"
      BY <2>2, SMT
    <3> QED
      BY <3>4, <3>5
  <2>3. CASE k.type \in {"list", "listEntry", "numbered", "ctrlSimple", "ctrlSelect"}
    <3>1. /\ k.type = "list" => In(k.auth, v)
          /\ k.type = "listEntry" => v \notin {<<>>, <<0>>} \/ k.auth = <<>>
          /\ k.type \in {"numbered", "ctrlSimple", "ctrlSelect"} => At(KeyChoices(k), v)
      BY <1>4, FitsIs
    <3>2. w = Lists(k, v)
      BY <2>0, <2>3, MakerIs, Zenon
    <3>3. \/ k.type = "list" /\ In(k.auth, v)
          \/ k.type = "listEntry" /\ (v \notin {<<>>, <<0>>} \/ k.auth = <<>>)
          \/ Numbered(k) /\ At(KeyChoices(k), v)
      BY <2>3, <3>1, Zenon DEF Numbered
    <3>4. w = NoWidget \/ Value(k, w) = v
      BY <3>2, <3>3, ListsGiveBack DEF In, At, TextOfList, TextOfEntry, NumberOf
    <3>5. k.type # "password"
      BY <2>3, SMT
    <3> QED
      BY <3>4, <3>5
  <2>4. CASE k.type \in {"tree", "multiChoice"}
    <3>1. w = NoWidget \/ w = [kind |-> "tree", rows |-> Rows(v), sel |-> 0, slipped |-> FALSE]
      BY <2>0, <2>4, MakerIs, Zenon DEF TreeView
    <3>2. w = NoWidget \/ Value(k, w) = v
      BY <3>1, TreeIsWidget
    <3>3. k.type # "password"
      BY <2>4, SMT
    <3> QED
      BY <3>2, <3>3
  <2>5. CASE k.type = "font"
    <3>1. w = [kind |-> "font", text |-> v]
      BY <2>0, <2>5, MakerIs, Zenon DEF FontSelector
    <3> QED
      BY <2>5, <3>1, FontIsWidget
  <2>6. CASE k.type \in {"text", "class", "shortkey"}
    <3>1. w = Strings(k, v)
      BY <2>0, <2>6, MakerIs, Zenon
    <3>2. k.type # "password"
      BY <2>6, SMT
    <3>3. Value(k, w) = v
      BY <3>1, <3>2, StringsShow
    <3> QED
      BY <3>2, <3>3
  <2>7. CASE k.type = "password"
    <3>0. v = <<>> \/ HelpText(k) # <<>>
      BY <1>4, <2>7, FitsIs
    <3>1. w = Strings(k, v) /\ (v = <<>> \/ HelpText(k) # <<>>)
      BY <2>0, <2>7, <3>0, MakerIs
    <3>2. w.kind = "entry" /\ Value(k, w) = IF HelpText(k) # <<>> THEN Decrypt(v) ELSE v
      BY <2>7, <3>1, StringsShow, Zenon
    <3>3. Encrypt(Value(k, w)) = v
      BY <3>1, <3>2, CipherIsValue, Zenon
    <3>4. w # NoWidget
      BY <3>2, NoneIsWidget, SMT
    <3> QED
      BY <2>7, <3>3, <3>4
  <2>8. CASE k.type \notin Combos \cup {"bool", "boolCtrl", "intScale", "intSpin", "size", "float", "rgb", "rgba",
               "list", "listEntry", "numbered", "ctrlSimple", "ctrlSelect", "tree", "multiChoice", "font", "link",
               "text", "password", "class", "shortkey", "handbook"}
    <3>1. w = NoWidget
      BY <2>0, <2>8, MakerIs
    <3>2. k.type # "password"
      BY <2>8, SMT
    <3> QED
      BY <3>1, <3>2
  <2> QED
    BY <1>4, <2>1, <2>2, <2>3, <2>4, <2>5, <2>6, <2>7, <2>8, SMT DEF Unsaved
<1> QED
  BY <1>2, <1>3, <1>4

(***************************************************************************)
(* Rows of a sortable list.                                                *)
(***************************************************************************)
Cells == [order : Int, val : Int]
Others(r, i) == SubSeq(r, 1, i - 1) \o SubSeq(r, i + 1, Len(r))
Insert(s, p, c) == SubSeq(s, 1, p - 1) \o <<c>> \o SubSeq(s, p, Len(s))

LEMMA PartOf ==
  ASSUME NEW S, NEW s \in Seq(S), NEW a \in Nat, NEW b \in Nat, a >= 1, b <= Len(s), a <= b + 1
  PROVE  /\ SubSeq(s, a, b) \in Seq(S) /\ Len(SubSeq(s, a, b)) = (b - a) + 1
         /\ \A j \in 1..((b - a) + 1) : SubSeq(s, a, b)[j] = s[(a + j) - 1]
<1>1. Len(s) \in Nat /\ \A j \in 1..Len(s) : s[j] \in S
  BY ElementOfSeq, LenProperties
<1>2. SubSeq(s, a, b) = [j \in 1..((1 + b) - a) |-> s[(j + a) - 1]]
  BY SMT
<1>3. \A j \in 1..((1 + b) - a) : (j + a) - 1 \in 1..Len(s)
  BY <1>1, SMT
<1>4. (1 + b) - a = (b - a) + 1 /\ (b - a) + 1 \in Nat
  BY SMT
<1>5. \A j \in 1..((b - a) + 1) : (j + a) - 1 = (a + j) - 1
  BY SMT
<1>6. SubSeq(s, a, b) = [j \in 1..((b - a) + 1) |-> s[(j + a) - 1]]
  BY <1>2, <1>4, Zenon
<1>7. \A j \in 1..((b - a) + 1) : s[(j + a) - 1] \in S
  BY <1>1, <1>3, <1>4, Zenon
<1> DEFINE n == (b - a) + 1
           f == [j \in 1..n |-> s[(j + a) - 1]]
<1>8. f \in Seq(S) /\ Len(f) = n
  <2> HIDE DEF n
  <2>1. n \in Nat
    BY <1>4 DEF n
  <2>2. \A j \in 1..n : s[(j + a) - 1] \in S
    BY <1>7 DEF n
  <2> QED
    BY <2>1, <2>2, SMT
<1>9. \A j \in 1..n : f[j] = s[(a + j) - 1]
  BY <1>5, SMT
<1> QED
  BY <1>6, <1>8, <1>9

LEMMA OthersAre ==
  ASSUME NEW S, NEW r \in Seq(S), NEW i \in 1..Len(r)
  PROVE  /\ Others(r, i) \in Seq(S) /\ Len(Others(r, i)) = Len(r) - 1
         /\ \A j \in 1..(Len(r) - 1) : Others(r, i)[j] = IF j < i THEN r[j] ELSE r[j + 1]
<1> DEFINE a == SubSeq(r, 1, i - 1)
           b == SubSeq(r, i + 1, Len(r))
<1>1. Len(r) \in Nat /\ i \in Nat /\ i - 1 \in Nat /\ i + 1 \in Nat /\ i <= Len(r) /\ 1 <= i
  BY SMT
<1>2. a \in Seq(S) /\ Len(a) = i - 1 /\ \A j \in 1..(i - 1) : a[j] = r[j]
  <2>1. /\ a \in Seq(S) /\ Len(a) = ((i - 1) - 1) + 1
        /\ \A j \in 1..(((i - 1) - 1) + 1) : a[j] = r[(1 + j) - 1]
    <3>1. 1 \in Nat /\ 1 >= 1 /\ i - 1 <= Len(r) /\ 1 <= (i - 1) + 1
      BY <1>1, SMT
    <3> QED
      BY <1>1, <3>1, PartOf
  <2>2. ((i - 1) - 1) + 1 = i - 1
    BY <1>1, SMT
  <2>3. \A j \in 1..(i - 1) : (1 + j) - 1 = j
    BY SMT
  <2> QED
    BY <2>1, <2>2, <2>3, Zenon
<1>3. b \in Seq(S) /\ Len(b) = Len(r) - i /\ \A j \in 1..(Len(r) - i) : b[j] = r[i + j]
  <2>1. /\ b \in Seq(S) /\ Len(b) = (Len(r) - (i + 1)) + 1
        /\ \A j \in 1..((Len(r) - (i + 1)) + 1) : b[j] = r[((i + 1) + j) - 1]
    <3>1. i + 1 >= 1 /\ i + 1 <= Len(r) + 1 /\ Len(r) <= Len(r)
      BY <1>1, SMT
    <3> QED
      BY <1>1, <3>1, PartOf
  <2>2. (Len(r) - (i + 1)) + 1 = Len(r) - i
    BY <1>1, SMT
  <2>3. \A j \in 1..(Len(r) - i) : ((i + 1) + j) - 1 = i + j
    BY <1>1, SMT
  <2> QED
    BY <2>1, <2>2, <2>3, Zenon
<1> HIDE DEF a, b
<1>4. /\ a \o b \in Seq(S) /\ Len(a \o b) = Len(a) + Len(b)
      /\ \A j \in 1..(Len(a) + Len(b)) : (a \o b)[j] = IF j <= Len(a) THEN a[j] ELSE b[j - Len(a)]
  BY <1>2, <1>3, ConcatProperties
<1>5. Len(a) + Len(b) = Len(r) - 1
  BY <1>1, <1>2, <1>3, SMT
<1>6. ASSUME NEW j \in 1..(Len(r) - 1) PROVE (a \o b)[j] = IF j < i THEN r[j] ELSE r[j + 1]
  <2>1. (a \o b)[j] = IF j <= i - 1 THEN a[j] ELSE b[j - (i - 1)]
    BY <1>2, <1>4, <1>5, Zenon
  <2>2. CASE j < i
    <3>1. j <= i - 1 /\ j \in 1..(i - 1)
      BY <1>1, <2>2, SMT
    <3> QED
      BY <1>2, <2>1, <2>2, <3>1, Zenon
  <2>3. CASE ~(j < i)
    <3>1. ~(j <= i - 1) /\ j - (i - 1) \in 1..(Len(r) - i) /\ i + (j - (i - 1)) = j + 1
      BY <1>1, <2>3, SMT
    <3> QED
      BY <1>3, <2>1, <2>3, <3>1, Zenon
  <2> QED
    BY <2>2, <2>3
<1> QED
  BY <1>4, <1>5, <1>6 DEF Others, a, b

LEMMA InsertIs ==
  ASSUME NEW S, NEW s \in Seq(S), NEW p \in 1..(Len(s) + 1), NEW c \in S
  PROVE  /\ Insert(s, p, c) \in Seq(S) /\ Len(Insert(s, p, c)) = Len(s) + 1
         /\ \A j \in 1..(Len(s) + 1) :
              Insert(s, p, c)[j] = IF j < p THEN s[j] ELSE IF j = p THEN c ELSE s[j - 1]
<1> DEFINE a == SubSeq(s, 1, p - 1)
           b == SubSeq(s, p, Len(s))
           m == a \o <<c>>
<1>1. Len(s) \in Nat /\ p \in Nat /\ p - 1 \in Nat /\ p <= Len(s) + 1 /\ 1 <= p
  BY LenProperties, SMT
<1>2. a \in Seq(S) /\ Len(a) = p - 1 /\ \A j \in 1..(p - 1) : a[j] = s[j]
  <2>1. /\ a \in Seq(S) /\ Len(a) = ((p - 1) - 1) + 1
        /\ \A j \in 1..(((p - 1) - 1) + 1) : a[j] = s[(1 + j) - 1]
    <3>1. 1 \in Nat /\ 1 >= 1 /\ p - 1 <= Len(s) /\ 1 <= (p - 1) + 1
      BY <1>1, SMT
    <3> QED
      BY <1>1, <3>1, PartOf
  <2>2. ((p - 1) - 1) + 1 = p - 1
    BY <1>1, SMT
  <2>3. \A j \in 1..(p - 1) : (1 + j) - 1 = j
    BY SMT
  <2> QED
    BY <2>1, <2>2, <2>3, Zenon
<1>3. b \in Seq(S) /\ Len(b) = (Len(s) - p) + 1 /\ \A j \in 1..((Len(s) - p) + 1) : b[j] = s[(p + j) - 1]
  <2>1. p >= 1 /\ p <= Len(s) + 1 /\ Len(s) <= Len(s)
    BY <1>1, SMT
  <2> QED
    BY <1>1, <2>1, PartOf
<1>4. m \in Seq(S) /\ Len(m) = p /\ \A j \in 1..p : m[j] = IF j < p THEN s[j] ELSE c
  <2>0. <<c>> \in Seq(S) /\ Len(<<c>>) = 1 /\ <<c>>[1] = c
    BY SMT
  <2> DEFINE one == <<c>>
  <2> SUFFICES a \o one \in Seq(S) /\ Len(a \o one) = p /\ \A j \in 1..p : (a \o one)[j] = IF j < p THEN s[j] ELSE c
    OBVIOUS
  <2>1. one \in Seq(S) /\ Len(one) = 1 /\ one[1] = c
    BY <2>0
  <2> HIDE DEF one, a
  <2>2. /\ a \o one \in Seq(S) /\ Len(a \o one) = Len(a) + Len(one)
        /\ \A j \in 1..(Len(a) + Len(one)) : (a \o one)[j] = IF j <= Len(a) THEN a[j] ELSE one[j - Len(a)]
    BY <1>2, <2>1, ConcatProperties
  <2>3. Len(a) + Len(one) = p
    BY <1>1, <1>2, <2>1, SMT
  <2>4. ASSUME NEW j \in 1..p PROVE (a \o one)[j] = IF j < p THEN s[j] ELSE c
    <3>1. (a \o one)[j] = IF j <= p - 1 THEN a[j] ELSE one[j - (p - 1)]
      BY <1>2, <2>2, <2>3, Zenon
    <3>2. CASE j < p
      <4>1. j <= p - 1 /\ j \in 1..(p - 1)
        BY <1>1, <3>2, SMT
      <4> QED
        BY <1>2, <3>1, <3>2, <4>1, Zenon
    <3>3. CASE ~(j < p)
      <4>1. ~(j <= p - 1) /\ j - (p - 1) = 1
        BY <1>1, <3>3, SMT
      <4> QED
        BY <2>1, <3>1, <3>3, <4>1, Zenon
    <3> QED
      BY <3>2, <3>3
  <2> QED
    BY <2>2, <2>3, <2>4
<1> HIDE DEF a, b, m
<1>5. /\ m \o b \in Seq(S) /\ Len(m \o b) = Len(m) + Len(b)
      /\ \A j \in 1..(Len(m) + Len(b)) : (m \o b)[j] = IF j <= Len(m) THEN m[j] ELSE b[j - Len(m)]
  BY <1>3, <1>4, ConcatProperties
<1>6. Len(m) + Len(b) = Len(s) + 1
  BY <1>1, <1>3, <1>4, SMT
<1>7. ASSUME NEW j \in 1..(Len(s) + 1)
      PROVE  (m \o b)[j] = IF j < p THEN s[j] ELSE IF j = p THEN c ELSE s[j - 1]
  <2>1. (m \o b)[j] = IF j <= p THEN m[j] ELSE b[j - p]
    BY <1>4, <1>5, <1>6, Zenon
  <2>2. CASE j <= p
    <3>1. j \in 1..p /\ (j < p \/ j = p)
      BY <1>1, <2>2, SMT
    <3>2. ~(p < p)
      BY <1>1, SMT
    <3> QED
      BY <1>4, <2>1, <2>2, <3>1, <3>2, Zenon
  <2>3. CASE ~(j <= p)
    <3>1. ~(j < p) /\ j # p /\ j - p \in 1..((Len(s) - p) + 1) /\ (p + (j - p)) - 1 = j - 1
      BY <1>1, <2>3, SMT
    <3> QED
      BY <1>3, <2>1, <2>3, <3>1, Zenon
  <2> QED
    BY <2>2, <2>3
<1> QED
  BY <1>5, <1>6, <1>7 DEF Insert, a, b, m

\* Where the list store moves a row, and what it leaves.
LowerOthers(r, i) == {j \in DOMAIN Others(r, i) : Others(r, i)[j].order <= r[i].order}
Same(r, i) == \E j \in DOMAIN r : j \in {i - 1, i + 1} /\ r[j].order = r[i].order

LEMMA CountsAgree == \A S : Cardinality(S) = Cardinality(S)
BY DEF Cardinality, Cardinality

LEMMA LowerCount ==
  ASSUME NEW r \in Seq(Cells), NEW i \in 1..Len(r)
  PROVE  /\ Cardinality(LowerOthers(r, i)) \in Nat
         /\ Cardinality(LowerOthers(r, i)) <= Len(r) - 1
<1>1. Others(r, i) \in Seq(Cells) /\ Len(Others(r, i)) = Len(r) - 1
  BY OthersAre
<1>2. DOMAIN Others(r, i) = 1..(Len(r) - 1)
  BY <1>1, LenProperties
<1>3. LowerOthers(r, i) \subseteq 1..(Len(r) - 1)
  BY <1>2, Zenon DEF LowerOthers
<1>4. IsFiniteSet(1..(Len(r) - 1)) /\ Cardinality(1..(Len(r) - 1)) = Len(r) - 1
  <2>1. Len(r) - 1 \in Int /\ 1 \in Int /\ ~(1 > Len(r)) /\ (1 > Len(r) - 1 => Len(r) - 1 = 0)
    <3> DEFINE n == Len(r)
    <3>1. n \in Nat /\ i \in 1..n
      BY LenProperties
    <3> HIDE DEF n
    <3>2. n - 1 \in Int /\ 1 \in Int /\ ~(1 > n) /\ (1 > n - 1 => n - 1 = 0)
      BY <3>1, SMT
    <3> QED
      BY <3>2 DEF n
  <2>2. Cardinality(1..(Len(r) - 1)) = IF 1 > Len(r) - 1 THEN 0 ELSE (Len(r) - 1) - 1 + 1
    BY <2>1, FS_Interval
  <2> QED
    BY <2>1, <2>2, FS_Interval, SMT
<1>5. IsFiniteSet(LowerOthers(r, i)) /\ Cardinality(LowerOthers(r, i)) <= Cardinality(1..(Len(r) - 1))
  BY <1>3, <1>4, FS_Subset
<1> QED
  BY <1>4, <1>5, FS_CardinalityType

LEMMA SortedIs ==
  ASSUME NEW r \in Seq(Cells), NEW i \in 1..Len(r)
  PROVE  Sorted(r, i) =
           IF Same(r, i) THEN [rows |-> r, at |-> i]
           ELSE [rows |-> Insert(Others(r, i), Cardinality(LowerOthers(r, i)) + 1, r[i]),
                 at |-> Cardinality(LowerOthers(r, i)) + 1]
<1> DEFINE c == Cardinality(LowerOthers(r, i))
<1>1. Sorted(r, i) =
        IF Same(r, i) THEN [rows |-> r, at |-> i]
        ELSE [rows |-> SubSeq(Others(r, i), 1, c) \o <<r[i]>> \o SubSeq(Others(r, i), c + 1, Len(Others(r, i))),
              at |-> c + 1]
  BY CountsAgree, Zenon DEF Sorted, Same, Others, LowerOthers
<1>2. Insert(Others(r, i), c + 1, r[i]) =
        SubSeq(Others(r, i), 1, (c + 1) - 1) \o <<r[i]>> \o SubSeq(Others(r, i), c + 1, Len(Others(r, i)))
  BY Zenon DEF Insert
<1>3. (c + 1) - 1 = c
  <2>1. c \in Nat
    BY LowerCount
  <2> HIDE DEF c
  <2> QED
    BY <2>1, SMT
<1> QED
  BY <1>1, <1>2, <1>3, Zenon

LEMMA SortedKeeps ==
  ASSUME NEW r \in Seq(Cells), NEW i \in 1..Len(r)
  PROVE  /\ Sorted(r, i).rows \in Seq(Cells) /\ Len(Sorted(r, i).rows) = Len(r)
         /\ Sorted(r, i).at \in 1..Len(r)
<1> DEFINE p == Cardinality(LowerOthers(r, i)) + 1
           t == Sorted(r, i)
<1>1. CASE Same(r, i)
  <2>1. t = [rows |-> r, at |-> i]
    BY <1>1, SortedIs, Zenon
  <2> HIDE DEF t
  <2>2. t.rows = r /\ t.at = i
    BY <2>1, SMT
  <2> QED
    BY <2>2 DEF t
<1>2. CASE ~Same(r, i)
  <2>1. t = [rows |-> Insert(Others(r, i), p, r[i]), at |-> p]
    BY <1>2, SortedIs, Zenon
  <2>2. p \in 1..Len(r)
    <3>1. Cardinality(LowerOthers(r, i)) \in Nat /\ Cardinality(LowerOthers(r, i)) <= Len(r) - 1 /\ Len(r) \in Nat
      BY LowerCount, LenProperties
    <3> QED
      BY <3>1, SMT
  <2> HIDE DEF p, t
  <2>3. Others(r, i) \in Seq(Cells) /\ Len(Others(r, i)) + 1 = Len(r) /\ r[i] \in Cells
    BY OthersAre, LenProperties, ElementOfSeq, SMT
  <2>4. Insert(Others(r, i), p, r[i]) \in Seq(Cells) /\ Len(Insert(Others(r, i), p, r[i])) = Len(r)
    BY <2>2, <2>3, InsertIs
  <2>5. t.rows = Insert(Others(r, i), p, r[i]) /\ t.at = p
    BY <2>1, SMT
  <2> QED
    BY <2>2, <2>4, <2>5 DEF t
<1> QED
  BY <1>1, <1>2

\* A row that is after the p - 1 first others and before the rest goes to place p.
LEMMA SortedTo ==
  ASSUME NEW r \in Seq(Cells), NEW i \in 1..Len(r), NEW p \in 1..Len(r), ~Same(r, i),
         \A j \in 1..(Len(r) - 1) : Others(r, i)[j].order <= r[i].order <=> j < p
  PROVE  Sorted(r, i) = [rows |-> Insert(Others(r, i), p, r[i]), at |-> p]
<1>1. Others(r, i) \in Seq(Cells) /\ Len(Others(r, i)) = Len(r) - 1
  BY OthersAre
<1>2. DOMAIN Others(r, i) = 1..(Len(r) - 1) /\ Len(r) \in Nat
  BY <1>1, LenProperties
<1>3. LowerOthers(r, i) = 1..(p - 1)
  <2>1. LowerOthers(r, i) = {j \in 1..(Len(r) - 1) : Others(r, i)[j].order <= r[i].order}
    BY <1>2, Zenon DEF LowerOthers
  <2>2. LowerOthers(r, i) = {j \in 1..(Len(r) - 1) : j < p}
    BY <2>1, Zenon
  <2>3. \A j \in 1..(p - 1) : j \in 1..(Len(r) - 1) /\ j < p
    BY <1>2, SMT
  <2>4. \A j \in 1..(Len(r) - 1) : j < p => j \in 1..(p - 1)
    BY <1>2, SMT
  <2> QED
    BY <2>2, <2>3, <2>4, Zenon
<1>4. Cardinality(1..(p - 1)) + 1 = p
  <2>1. p - 1 \in Int /\ 1 \in Int /\ (1 > p - 1 => p - 1 = 0)
    BY SMT
  <2>2. Cardinality(1..(p - 1)) = IF 1 > p - 1 THEN 0 ELSE (p - 1) - 1 + 1
    BY <2>1, FS_Interval
  <2> QED
    BY <2>1, <2>2, SMT
<1> QED
  BY <1>3, <1>4, SortedIs, Zenon

\* The moves of MovesByOne: a row that stays, or goes one place up or down.
Exchange(r, s, i, j) ==
  /\ s \in Seq(Cells) /\ Len(s) = Len(r) /\ s[i] = r[j] /\ s[j] = r[i]
  /\ \A n \in 1..Len(r) : n \notin {i, j} => s[n] = r[n]

Lowers(r, i, p) ==
  \A j \in 1..Len(r) : /\ j < i => (r[j].order <= r[i].order <=> j < p)
                       /\ j > i => (r[j].order <= r[i].order <=> j <= p)

\* InsertIs for the rows of a list.
LEMMA CellInserted ==
  \A o \in Seq(Cells) : \A p \in 1..(Len(o) + 1) : \A c \in Cells :
    /\ Insert(o, p, c) \in Seq(Cells) /\ Len(Insert(o, p, c)) = Len(o) + 1
    /\ \A j \in 1..(Len(o) + 1) :
         Insert(o, p, c)[j] = IF j < p THEN o[j] ELSE IF j = p THEN c ELSE o[j - 1]
  BY InsertIs

LEMMA SortedNear ==
  ASSUME NEW r \in Seq(Cells), NEW i \in 1..Len(r), NEW p \in 1..Len(r), p \in {i - 1, i, i + 1},
         ~Same(r, i), Lowers(r, i, p)
  PROVE  Sorted(r, i).at = p /\ Exchange(r, Sorted(r, i).rows, i, p)
<1> DEFINE o == Others(r, i)
           s == Insert(o, p, r[i])
           t == Sorted(r, i)
<1>1. /\ o \in Seq(Cells) /\ Len(o) = Len(r) - 1
      /\ \A j \in 1..(Len(r) - 1) : o[j] = IF j < i THEN r[j] ELSE r[j + 1]
  BY OthersAre
<1>2. Len(r) \in Nat /\ r[i] \in Cells
  BY LenProperties, ElementOfSeq
<1> HIDE DEF o
<1>3. ASSUME NEW j \in 1..(Len(r) - 1) PROVE o[j].order <= r[i].order <=> j < p
  <2>1. CASE j < i
    <3>1. o[j] = r[j] /\ j \in 1..Len(r)
      BY <1>1, <1>2, <2>1, SMT
    <3> QED
      BY <2>1, <3>1 DEF Lowers
  <2>2. CASE ~(j < i)
    <3>1. o[j] = r[j + 1] /\ j + 1 \in 1..Len(r) /\ j + 1 > i /\ (j + 1 <= p <=> j < p)
      BY <1>1, <1>2, <2>2, SMT
    <3> QED
      BY <3>1, Zenon DEF Lowers
  <2> QED
    BY <2>1, <2>2
<1>4. t = [rows |-> s, at |-> p]
  BY <1>3, SortedTo DEF o
<1>5. /\ s \in Seq(Cells) /\ Len(s) = Len(r)
      /\ \A j \in 1..Len(r) : s[j] = IF j < p THEN o[j] ELSE IF j = p THEN r[i] ELSE o[j - 1]
  <2>1. Len(o) + 1 = Len(r)
    BY <1>1, <1>2, SMT
  <2>2. p \in 1..(Len(o) + 1)
    BY <2>1
  <2>3. /\ s \in Seq(Cells) /\ Len(s) = Len(o) + 1
        /\ \A j \in 1..(Len(o) + 1) : s[j] = IF j < p THEN o[j] ELSE IF j = p THEN r[i] ELSE o[j - 1]
    <3> DEFINE c == r[i]
    <3> SUFFICES /\ Insert(o, p, c) \in Seq(Cells) /\ Len(Insert(o, p, c)) = Len(o) + 1
                 /\ \A j \in 1..(Len(o) + 1) :
                      Insert(o, p, c)[j] = IF j < p THEN o[j] ELSE IF j = p THEN c ELSE o[j - 1]
      OBVIOUS
    <3>1. c \in Cells /\ o \in Seq(Cells)
      BY <1>1, <1>2
    <3> HIDE DEF c
    <3> QED
      BY <2>2, <3>1, CellInserted, ZenonT(40)
  <2> QED
    BY <2>1, <2>3, Zenon
<1> HIDE DEF s, t
<1>6. t.at = p /\ t.rows = s
  BY <1>4, SMT
<1>7. s[p] = r[i] /\ s[i] = r[p]
  BY <1>1, <1>2, <1>5, SMT
<1>8. ASSUME NEW n \in 1..Len(r), n \notin {i, p} PROVE s[n] = r[n]
  <2>1. CASE n < p
    <3>1. n < i /\ n \in 1..(Len(r) - 1) /\ n \in 1..Len(r)
      BY <1>2, <1>8, <2>1, SMT
    <3> QED
      BY <1>1, <1>5, <2>1, <3>1, Zenon
  <2>2. CASE ~(n < p)
    <3>1. n # p /\ ~(n - 1 < i) /\ n - 1 \in 1..(Len(r) - 1) /\ (n - 1) + 1 = n
      BY <1>2, <1>8, <2>2, SMT
    <3> QED
      BY <1>1, <1>5, <2>2, <3>1, Zenon
  <2> QED
    BY <2>1, <2>2
<1> QED
  BY <1>5, <1>6, <1>7, <1>8 DEF Exchange, t

\* Rows of a list whose orders were never made equal: the order of a row is below
\* its place and that of the next one.
Increasing(r) ==
  \A i \in 1..Len(r) : r[i].order < i /\ \A j \in 1..Len(r) : i < j => r[i].order < r[j].order

With(r, i, o) == [r EXCEPT ![i] = [order |-> o, val |-> r[i].val]]

LEMMA CellFields ==
  ASSUME NEW r \in Seq(Cells)
  PROVE  /\ Len(r) \in Nat /\ DOMAIN r = 1..Len(r)
         /\ \A i \in 1..Len(r) : r[i] \in Cells /\ r[i].order \in Int /\ r[i].val \in Int
<1>1. Len(r) \in Nat /\ DOMAIN r = 1..Len(r) /\ \A i \in 1..Len(r) : r[i] \in Cells
  BY LenProperties, ElementOfSeq
<1>2. \A c \in Cells : c.order \in Int /\ c.val \in Int
  BY SMT DEF Cells
<1> QED
  BY <1>1, <1>2

LEMMA WithIs ==
  ASSUME NEW r \in Seq(Cells), NEW i \in 1..Len(r), NEW o \in Int
  PROVE  /\ With(r, i, o) \in Seq(Cells) /\ Len(With(r, i, o)) = Len(r)
         /\ With(r, i, o)[i].order = o /\ With(r, i, o)[i].val = r[i].val
         /\ \A j \in 1..Len(r) : j # i => With(r, i, o)[j] = r[j]
<1> DEFINE c == [order |-> o, val |-> r[i].val]
<1>1. c \in Cells
  BY CellFields, SMT DEF Cells
<1>2. c.order = o /\ c.val = r[i].val
  BY SMT
<1>3. With(r, i, o) = [r EXCEPT ![i] = c]
  BY Zenon DEF With
<1> HIDE DEF c
<1>4. With(r, i, o) \in Seq(Cells) /\ Len(With(r, i, o)) = Len(r)
  <2>1. r = [j \in 1..Len(r) |-> r[j]] /\ Len(r) \in Nat /\ \A j \in 1..Len(r) : r[j] \in Cells
    BY CellFields, SMT
  <2>2. With(r, i, o) = [j \in 1..Len(r) |-> IF j = i THEN c ELSE r[j]]
    BY <1>3, <2>1, Zenon
  <2>3. \A j \in 1..Len(r) : (IF j = i THEN c ELSE r[j]) \in Cells
    BY <1>1, <2>1, Zenon
  <2> QED
    BY <2>1, <2>2, <2>3, SMT
<1>5. With(r, i, o)[i] = c /\ \A j \in 1..Len(r) : j # i => With(r, i, o)[j] = r[j]
  BY <1>3, CellFields, Zenon
<1> QED
  BY <1>2, <1>4, <1>5, Zenon

LEMMA SetOrderKeeps ==
  ASSUME NEW r \in Seq(Cells), NEW i \in 1..Len(r), NEW o \in Int
  PROVE  /\ SetOrder(r, i, o) = Sorted(With(r, i, o), i)
         /\ SetOrder(r, i, o).rows \in Seq(Cells) /\ Len(SetOrder(r, i, o).rows) = Len(r)
         /\ SetOrder(r, i, o).at \in 1..Len(r)
<1>1. SetOrder(r, i, o) = Sorted(With(r, i, o), i)
  BY Zenon DEF SetOrder, With
<1>2. With(r, i, o) \in Seq(Cells) /\ Len(With(r, i, o)) = Len(r)
  BY WithIs
<1>3. i \in 1..Len(With(r, i, o))
  BY <1>2
<1> DEFINE R == With(r, i, o)
<1> HIDE DEF R
<1>4. /\ Sorted(R, i).rows \in Seq(Cells) /\ Len(Sorted(R, i).rows) = Len(R)
      /\ Sorted(R, i).at \in 1..Len(R)
  BY <1>2, <1>3, SortedKeeps DEF R
<1> QED
  BY <1>1, <1>2, <1>4, Zenon DEF R

\* Nothing moves when the new order is between those of the neighbours, or that of
\* one of them.
LEMMA SortedStays ==
  ASSUME NEW r \in Seq(Cells), NEW i \in 1..Len(r),
         \A j \in 1..Len(r) : (j < i => r[j].order <= r[i].order) /\ (j > i => r[i].order <= r[j].order),
         \A j \in 1..Len(r) : j > i /\ r[j].order = r[i].order => Same(r, i)
  PROVE  Sorted(r, i).at = i /\ Sorted(r, i).rows = r
<1> DEFINE t == Sorted(r, i)
<1>0. \A j \in 1..Len(r) : r[j].order \in Int
  BY CellFields
<1>1. CASE Same(r, i)
  <2>1. t = [rows |-> r, at |-> i]
    BY <1>1, SortedIs, Zenon
  <2> HIDE DEF t
  <2>2. t.rows = r /\ t.at = i
    BY <2>1, SMT
  <2> QED
    BY <2>2 DEF t
<1>2. CASE ~Same(r, i)
  <2>1. Lowers(r, i, i)
    <3> SUFFICES ASSUME NEW j \in 1..Len(r)
                 PROVE  /\ j < i => (r[j].order <= r[i].order <=> j < i)
                        /\ j > i => (r[j].order <= r[i].order <=> j <= i)
      BY DEF Lowers
    <3>1. CASE j < i
      BY <3>1, SMT
    <3>2. CASE j > i
      <4>1. ~(r[j].order <= r[i].order)
        <5>1. r[i].order <= r[j].order /\ r[j].order # r[i].order
          BY <1>2, <3>2, Zenon
        <5>2. r[i].order \in Int /\ r[j].order \in Int
          BY <1>0
        <5> QED
          BY <5>1, <5>2, SMT
      <4>2. ~(j <= i) /\ ~(j < i)
        BY <3>2, SMT
      <4> QED
        BY <4>1, <4>2, Zenon
    <3>3. CASE j = i
      BY <3>3, SMT
    <3> QED
      BY <3>1, <3>2, <3>3, SMT
  <2>2. t.at = i /\ Exchange(r, t.rows, i, i)
    <3>1. i \in {i - 1, i, i + 1}
      OBVIOUS
    <3> QED
      BY <1>2, <2>1, <3>1, SortedNear
  <2> HIDE DEF t
  <2>3. t.rows = r
    <3>1. /\ t.rows \in Seq(Cells) /\ Len(t.rows) = Len(r) /\ \A n \in 1..Len(r) : t.rows[n] = r[n]
      BY <2>2, Zenon DEF Exchange
    <3> QED
      BY <3>1, SeqEqual
  <2> QED
    BY <2>2, <2>3 DEF t
<1> QED
  BY <1>1, <1>2

Swapped(r, s, i, j) ==
  /\ s \in Seq(Cells) /\ Len(s) = Len(r) /\ s[i].val = r[j].val /\ s[j].val = r[i].val
  /\ \A n \in 1..Len(r) : n \notin {i, j} => s[n].val = r[n].val

\* A row and its new order, then the previous one.
LEMMA UpRows ==
  ASSUME NEW r \in Seq(Cells), NEW i \in 1..Len(r), Increasing(r)
  PROVE  LET one == SetOrder(r, i, r[i].order - 1)
             two == SetOrder(one.rows, i - 1, r[i].order)
         IN /\ one.at = i /\ Len(one.rows) = Len(r) /\ (i = 1 => Increasing(one.rows)) /\ one.rows \in Seq(Cells)
            /\ \A j \in 1..Len(r) : one.rows[j].val = r[j].val
            /\ i > 1 => two.at = i /\ Swapped(r, two.rows, i - 1, i) /\ Increasing(two.rows)
<1> DEFINE o == r[i].order
           R == With(r, i, o - 1)
           one == SetOrder(r, i, o - 1)
           two == SetOrder(R, i - 1, o)
<1>1. /\ Len(r) \in Nat /\ \A j \in 1..Len(r) : r[j].order \in Int /\ r[j].order < j
      /\ \A j, n \in 1..Len(r) : j < n => r[j].order < r[n].order
  BY CellFields DEF Increasing
<1>2. o \in Int /\ o - 1 \in Int
  BY <1>1, SMT
<1>3. /\ R \in Seq(Cells) /\ Len(R) = Len(r) /\ R[i].order = o - 1 /\ R[i].val = r[i].val
      /\ \A j \in 1..Len(r) : j # i => R[j] = r[j]
  BY <1>2, WithIs
<1>4. one.at = i /\ one.rows = R
  <2>1. \A j \in 1..Len(r) : (j < i => r[j].order <= o - 1) /\ (j > i => o - 1 < r[j].order)
    BY <1>1, <1>2, SMT
  <2>2. one = Sorted(R, i)
    BY <1>2, SetOrderKeeps
  <2> HIDE DEF R, o
  <2>3. \A j \in 1..Len(R) : (j < i => R[j].order <= R[i].order) /\ (j > i => R[i].order <= R[j].order)
    <3> SUFFICES ASSUME NEW j \in 1..Len(R) PROVE (j < i => R[j].order <= R[i].order) /\ (j > i => R[i].order <= R[j].order)
      OBVIOUS
    <3>1. j # i => R[j].order = r[j].order /\ r[j].order \in Int
      BY <1>1, <1>3
    <3>2. j \in 1..Len(r) /\ i \in Int
      BY <1>3
    <3> QED
      BY <1>2, <1>3, <2>1, <3>1, <3>2, SMT
  <2>4. \A j \in 1..Len(R) : ~(j > i /\ R[j].order = R[i].order)
    <3> SUFFICES ASSUME NEW j \in 1..Len(R), j > i PROVE R[j].order # R[i].order
      OBVIOUS
    <3>1. j # i /\ j \in 1..Len(r)
      BY <1>3, SMT
    <3>2. R[j].order = r[j].order /\ r[j].order \in Int
      BY <1>1, <1>3, <3>1
    <3> QED
      BY <1>2, <1>3, <2>1, <3>1, <3>2, SMT
  <2>5. i \in 1..Len(R)
    BY <1>3
  <2>6. Sorted(R, i).at = i /\ Sorted(R, i).rows = R
    BY <1>3, <2>3, <2>4, <2>5, SortedStays
  <2> QED
    BY <2>2, <2>6, Zenon
<1>5. (i = 1 => Increasing(R)) /\ \A j \in 1..Len(r) : R[j].val = r[j].val
  <2>1. \A j \in 1..Len(r) : R[j].order = IF j = i THEN o - 1 ELSE r[j].order
    BY <1>3, Zenon
  <2>2. \A j \in 1..Len(r) : R[j].val = r[j].val
    BY <1>3, Zenon
  <2>3. o = r[i].order
    OBVIOUS
  <2> HIDE DEF R, o
  <2>4. ASSUME i = 1 PROVE Increasing(R)
    <3> SUFFICES ASSUME NEW a \in 1..Len(r), NEW b \in 1..Len(r)
                 PROVE  R[a].order < a /\ (a < b => R[a].order < R[b].order)
      BY <1>3, Zenon DEF Increasing
    <3>a. /\ a \in Int /\ b \in Int /\ i \in Int /\ r[a].order \in Int /\ r[b].order \in Int
          /\ r[a].order < a /\ o < i /\ (a < b => r[a].order < r[b].order)
          /\ (a < i => r[a].order < o) /\ (i < b => o < r[b].order)
      BY <1>1, <2>3
    <3>b. /\ R[a].order = IF a = i THEN o - 1 ELSE r[a].order
          /\ R[b].order = IF b = i THEN o - 1 ELSE r[b].order
      BY <2>1
    <3> QED
      BY <1>2, <2>4, <3>a, <3>b, SMT
  <2> QED
    BY <2>2, <2>4
<1>6. ASSUME i > 1 PROVE two.at = i /\ Swapped(r, two.rows, i - 1, i) /\ Increasing(two.rows)
  <2> DEFINE S == With(R, i - 1, o)
             s == two.rows
  <2>0. o = r[i].order
    OBVIOUS
  <2> HIDE DEF R, o
  <2>1. i - 1 \in 1..Len(R) /\ i - 1 \in 1..Len(r) /\ i \in 1..Len(r) /\ i # i - 1
    BY <1>1, <1>3, <1>6, SMT
  <2>2. /\ S \in Seq(Cells) /\ Len(S) = Len(r) /\ S[i - 1].order = o /\ S[i - 1].val = R[i - 1].val
        /\ \A j \in 1..Len(r) : j # i - 1 => S[j] = R[j]
    <3>1. /\ S \in Seq(Cells) /\ Len(S) = Len(R) /\ S[i - 1].order = o /\ S[i - 1].val = R[i - 1].val
          /\ \A j \in 1..Len(R) : j # i - 1 => S[j] = R[j]
      BY <1>2, <1>3, <2>1, WithIs
    <3> QED
      BY <1>3, <3>1, Zenon
  <2>3. two = Sorted(S, i - 1)
    BY <1>2, <1>3, <2>1, SetOrderKeeps
  <2> HIDE DEF S
  <2>4. \A j \in 1..Len(r) : S[j].order = IF j = i - 1 THEN o ELSE IF j = i THEN o - 1 ELSE r[j].order
    BY <1>3, <2>1, <2>2, Zenon
  <2>5. ~Same(S, i - 1)
    <3> SUFFICES ASSUME NEW j \in 1..Len(r), j \in {(i - 1) - 1, (i - 1) + 1} PROVE S[j].order # S[i - 1].order
      BY <2>2, CellFields, Zenon DEF Same
    <3>1. j = i \/ (j < i - 1 /\ j < i)
      BY <2>1, SMT
    <3> QED
      BY <1>1, <1>2, <2>0, <2>1, <2>4, <3>1, SMT
  <2>6. Lowers(S, i - 1, i)
    <3> SUFFICES ASSUME NEW j \in 1..Len(r)
                 PROVE  /\ j < i - 1 => (S[j].order <= S[i - 1].order <=> j < i)
                        /\ j > i - 1 => (S[j].order <= S[i - 1].order <=> j <= i)
      BY <2>2, Zenon DEF Lowers
    <3>1. /\ j \in Int /\ i \in Int /\ r[j].order \in Int
          /\ (j < i => r[j].order < o) /\ (i < j => o < r[j].order)
      BY <1>1, <2>0
    <3>2. S[j].order = IF j = i - 1 THEN o ELSE IF j = i THEN o - 1 ELSE r[j].order
      BY <2>4
    <3>3. S[i - 1].order = o
      BY <2>2
    <3> QED
      BY <1>2, <3>1, <3>2, <3>3, SMT
  <2>7. two.at = i /\ Exchange(S, s, i - 1, i)
    <3>1. i \in {(i - 1) - 1, i - 1, (i - 1) + 1}
      BY <2>1, SMT
    <3>2. Sorted(S, i - 1).at = i /\ Exchange(S, Sorted(S, i - 1).rows, i - 1, i)
      <4> DEFINE h == i - 1
      <4>1. h \in 1..Len(S) /\ i \in 1..Len(S) /\ i \in {h - 1, h, h + 1} /\ ~Same(S, h) /\ Lowers(S, h, i)
        BY <2>1, <2>2, <2>5, <2>6, <3>1
      <4> HIDE DEF h
      <4>2. Sorted(S, h).at = i /\ Exchange(S, Sorted(S, h).rows, h, i)
        BY <2>2, <4>1, SortedNear
      <4> QED
        BY <4>2 DEF h
    <3> QED
      BY <2>3, <3>2, Zenon
  <2> HIDE DEF s
  <2>8. /\ s \in Seq(Cells) /\ Len(s) = Len(r) /\ s[i - 1] = S[i] /\ s[i] = S[i - 1]
        /\ \A n \in 1..Len(r) : n \notin {i - 1, i} => s[n] = S[n]
    BY <2>2, <2>7, Zenon DEF Exchange
  <2>9. Swapped(r, s, i - 1, i)
    <3>1. s[i - 1].val = r[i].val
      BY <1>3, <2>1, <2>2, <2>8, Zenon
    <3>2. s[i].val = r[i - 1].val
      BY <1>3, <2>1, <2>2, <2>8, Zenon
    <3>3. \A n \in 1..Len(r) : n \notin {i - 1, i} => s[n].val = r[n].val
      BY <1>3, <2>2, <2>8, Zenon
    <3> QED
      BY <2>8, <3>1, <3>2, <3>3, Zenon DEF Swapped
  <2>10. Increasing(s)
    <3>1. \A j \in 1..Len(r) : s[j].order = IF j = i - 1 THEN o - 1 ELSE IF j = i THEN o ELSE r[j].order
      BY <2>1, <2>4, <2>8, Zenon
    <3> SUFFICES ASSUME NEW a \in 1..Len(r), NEW b \in 1..Len(r)
                 PROVE  s[a].order < a /\ (a < b => s[a].order < s[b].order)
      BY <2>8, Zenon DEF Increasing
    <3>a. /\ a \in Int /\ b \in Int /\ i \in Int /\ r[a].order \in Int /\ r[b].order \in Int
          /\ r[a].order < a /\ o < i /\ (a < b => r[a].order < r[b].order)
          /\ (a < i => r[a].order < o) /\ (i < b => o < r[b].order)
      BY <1>1, <2>0
    <3>b. /\ s[a].order = IF a = i - 1 THEN o - 1 ELSE IF a = i THEN o ELSE r[a].order
          /\ s[b].order = IF b = i - 1 THEN o - 1 ELSE IF b = i THEN o ELSE r[b].order
      BY <3>1
    <3>c. i - 1 \in 1..Len(r) /\ r[i - 1].order \in Int /\ r[i - 1].order < o /\ (a < i - 1 => r[a].order < r[i - 1].order)
      <4>1. i - 1 < i
        BY <2>1, SMT
      <4> QED
        BY <1>1, <2>0, <2>1, <4>1
    <3> QED
      BY <1>2, <3>a, <3>b, <3>c, SMT
  <2> QED
    BY <2>7, <2>9, <2>10 DEF s
<1> HIDE DEF R
<1> QED
  BY <1>3, <1>4, <1>5, <1>6, Zenon

\* A row that is not the last one and its new order, then the next one.
LEMMA DownRows ==
  ASSUME NEW r \in Seq(Cells), NEW i \in 1..(Len(r) - 1), Increasing(r)
  PROVE  LET one == SetOrder(r, i, r[i].order + 1)
             two == SetOrder(one.rows, i + 1, r[i].order)
         IN one.at = i /\ two.at = i /\ Swapped(r, two.rows, i + 1, i) /\ Increasing(two.rows)
<1> DEFINE o == r[i].order
           R == With(r, i, o + 1)
           S == With(R, i + 1, o)
           one == SetOrder(r, i, o + 1)
           two == SetOrder(R, i + 1, o)
           s == two.rows
<1>1. /\ Len(r) \in Nat /\ \A j \in 1..Len(r) : r[j].order \in Int /\ r[j].order < j
      /\ \A j, n \in 1..Len(r) : j < n => r[j].order < r[n].order
  BY CellFields DEF Increasing
<1>0. i \in 1..Len(r) /\ i + 1 \in 1..Len(r) /\ i \in Int
  BY <1>1, SMT
<1>2. o \in Int /\ o + 1 \in Int
  BY <1>0, <1>1, SMT
<1>n. r[i + 1].order \in Int /\ o < r[i + 1].order
  <2>1. i < i + 1
    BY <1>0, SMT
  <2> QED
    BY <1>0, <1>1, <2>1
<1>j. ASSUME NEW j \in 1..Len(r)
      PROVE  /\ j \in Int /\ r[j].order \in Int /\ (j < i => r[j].order < o) /\ (i < j => o < r[j].order)
             /\ (i + 1 < j => r[i + 1].order < r[j].order)
  BY <1>0, <1>1
<1>3. /\ R \in Seq(Cells) /\ Len(R) = Len(r) /\ R[i].order = o + 1 /\ R[i].val = r[i].val
      /\ \A j \in 1..Len(r) : j # i => R[j] = r[j]
  BY <1>0, <1>2, WithIs
<1>o. o = r[i].order
  OBVIOUS
<1> HIDE DEF o
<1>4. one.at = i /\ one.rows = R
  <2>2. one = Sorted(R, i)
    BY <1>0, <1>2, SetOrderKeeps
  <2> HIDE DEF R
  <2>3. \A j \in 1..Len(R) : (j < i => R[j].order <= R[i].order) /\ (j > i => R[i].order <= R[j].order)
    <3> SUFFICES ASSUME NEW j \in 1..Len(r) PROVE (j < i => R[j].order <= R[i].order) /\ (j > i => R[i].order <= R[j].order)
      BY <1>3
    <3>1. j # i => R[j].order = r[j].order
      BY <1>3
    <3> QED
      BY <1>0, <1>2, <1>3, <1>j, <3>1, SMT
  <2>4. ASSUME NEW j \in 1..Len(R), j > i, R[j].order = R[i].order PROVE Same(R, i)
    <3>1. j \in 1..Len(r) /\ j # i
      BY <1>0, <1>3, <2>4, SMT
    <3>2. r[j].order = o + 1
      BY <1>3, <2>4, <3>1, Zenon
    <3>3. j \in Int /\ (i + 1 < j => r[i + 1].order < r[j].order) /\ r[j].order \in Int
      BY <1>j, <3>1
    <3>4. j = i + 1
      BY <1>0, <1>2, <1>n, <2>4, <3>2, <3>3, SMT
    <3>5. j \in DOMAIN R
      BY <1>3, CellFields
    <3> QED
      BY <2>4, <3>4, <3>5, Zenon DEF Same
  <2>5. i \in 1..Len(R)
    BY <1>0, <1>3
  <2>6. Sorted(R, i).at = i /\ Sorted(R, i).rows = R
    BY <1>3, <2>3, <2>4, <2>5, SortedStays
  <2> QED
    BY <2>2, <2>6, Zenon
<1>5. /\ S \in Seq(Cells) /\ Len(S) = Len(r) /\ S[i + 1].order = o /\ S[i + 1].val = R[i + 1].val
      /\ \A j \in 1..Len(r) : j # i + 1 => S[j] = R[j]
  <2> HIDE DEF R
  <2>1. i + 1 \in 1..Len(R)
    BY <1>0, <1>3
  <2>2. /\ S \in Seq(Cells) /\ Len(S) = Len(R) /\ S[i + 1].order = o /\ S[i + 1].val = R[i + 1].val
        /\ \A j \in 1..Len(R) : j # i + 1 => S[j] = R[j]
    BY <1>2, <1>3, <2>1, WithIs
  <2> QED
    BY <1>3, <2>2, Zenon
<1>6. two = Sorted(S, i + 1)
  <2> HIDE DEF R
  <2>1. i + 1 \in 1..Len(R)
    BY <1>0, <1>3
  <2> QED
    BY <1>2, <1>3, <2>1, SetOrderKeeps
<1>7. i # i + 1
  BY <1>0, SMT
<1> HIDE DEF R, S, one
<1>8. ASSUME NEW j \in 1..Len(r)
      PROVE  S[j].order = IF j = i + 1 THEN o ELSE IF j = i THEN o + 1 ELSE r[j].order
  BY <1>3, <1>5, <1>7, Zenon
<1>9. two.at = i /\ Exchange(S, s, i + 1, i)
  <2> DEFINE h == i + 1
  <2>1. ~Same(S, h)
    <3> SUFFICES ASSUME NEW j \in 1..Len(r), j \in {h - 1, h + 1} PROVE S[j].order # S[h].order
      BY <1>5, CellFields, Zenon DEF Same
    <3>1. j = i \/ i + 1 < j
      BY <1>0, SMT
    <3> QED
      BY <1>0, <1>2, <1>5, <1>7, <1>8, <1>j, <1>n, <3>1, SMT
  <2>2. Lowers(S, h, i)
    <3> SUFFICES ASSUME NEW j \in 1..Len(r)
                 PROVE  /\ j < h => (S[j].order <= S[h].order <=> j < i)
                        /\ j > h => (S[j].order <= S[h].order <=> j <= i)
      BY <1>5, Zenon DEF Lowers
    <3> QED
      BY <1>0, <1>2, <1>5, <1>8, <1>j, <1>n, SMT
  <2>3. h \in 1..Len(S) /\ i \in 1..Len(S) /\ i \in {h - 1, h, h + 1}
    BY <1>0, <1>5, SMT
  <2>4. two = Sorted(S, h)
    BY <1>6
  <2> SUFFICES two.at = i /\ Exchange(S, two.rows, h, i)
    OBVIOUS
  <2> HIDE DEF h, two
  <2>5. Sorted(S, h).at = i /\ Exchange(S, Sorted(S, h).rows, h, i)
    BY <1>5, <2>1, <2>2, <2>3, SortedNear
  <2> QED
    BY <2>4, <2>5, Zenon
<1> HIDE DEF s
<1>10. /\ s \in Seq(Cells) /\ Len(s) = Len(r) /\ s[i + 1] = S[i] /\ s[i] = S[i + 1]
       /\ \A n \in 1..Len(r) : n \notin {i + 1, i} => s[n] = S[n]
  BY <1>5, <1>9, Zenon DEF Exchange
<1>11. Swapped(r, s, i + 1, i)
  <2>1. s[i + 1].val = r[i].val
    BY <1>0, <1>3, <1>5, <1>7, <1>10, Zenon
  <2>2. s[i].val = r[i + 1].val
    BY <1>0, <1>3, <1>5, <1>7, <1>10, Zenon
  <2>3. \A n \in 1..Len(r) : n \notin {i + 1, i} => s[n].val = r[n].val
    BY <1>3, <1>5, <1>10, Zenon
  <2> QED
    BY <1>10, <2>1, <2>2, <2>3, Zenon DEF Swapped
<1>12. Increasing(s)
  <2>1. \A j \in 1..Len(r) : s[j].order = IF j = i + 1 THEN o + 1 ELSE IF j = i THEN o ELSE r[j].order
    BY <1>0, <1>7, <1>8, <1>10, Zenon
  <2> SUFFICES ASSUME NEW a \in 1..Len(r), NEW b \in 1..Len(r)
               PROVE  s[a].order < a /\ (a < b => s[a].order < s[b].order)
    BY <1>10, Zenon DEF Increasing
  <2>2. /\ a \in Int /\ b \in Int /\ r[a].order \in Int /\ r[b].order \in Int
        /\ r[a].order < a /\ o < i /\ (a < b => r[a].order < r[b].order)
        /\ (a < i => r[a].order < o) /\ (i < b => o < r[b].order)
        /\ (i + 1 < b => r[i + 1].order < r[b].order)
    BY <1>0, <1>1, <1>o
  <2>3. /\ s[a].order = IF a = i + 1 THEN o + 1 ELSE IF a = i THEN o ELSE r[a].order
        /\ s[b].order = IF b = i + 1 THEN o + 1 ELSE IF b = i THEN o ELSE r[b].order
    BY <2>1
  <2> QED
    BY <1>0, <1>2, <1>n, <2>2, <2>3, SMT
<1> QED
  BY <1>4, <1>9, <1>11, <1>12, <1>o, Zenon DEF one, s

(***************************************************************************)
(* What is done to a sortable list.                                        *)
(***************************************************************************)
Trees == [kind : {"tree"}, rows : Seq(Cells), sel : Nat, slipped : BOOLEAN]
IsTree(w) == w \in Trees /\ w.sel <= Len(w.rows)
Ordered(w) == ~w.slipped => Increasing(w.rows)

LEMMA TreeFields ==
  ASSUME NEW w \in Trees
  PROVE  /\ w.kind = "tree" /\ w.rows \in Seq(Cells) /\ w.sel \in Nat /\ w.slipped \in BOOLEAN
         /\ w = [kind |-> "tree", rows |-> w.rows, sel |-> w.sel, slipped |-> w.slipped]
BY SMT DEF Trees

LEMMA TreeRows ==
  ASSUME NEW w \in Trees, NEW a \in Seq(Cells)
  PROVE  LET m == [w EXCEPT !.rows = a] IN m \in Trees /\ m.rows = a /\ m.sel = w.sel /\ m.slipped = w.slipped
<1>1. PICK x \in Seq(Cells), y \in Nat, z \in BOOLEAN : x = w.rows /\ y = w.sel /\ z = w.slipped
  BY TreeFields
<1>2. w = [kind |-> "tree", rows |-> x, sel |-> y, slipped |-> z]
  BY <1>1, TreeFields
<1> DEFINE m == [w EXCEPT !.rows = a]
<1>3. m = [kind |-> "tree", rows |-> a, sel |-> y, slipped |-> z]
  BY <1>2, SMT
<1> HIDE DEF m
<1>4. m \in Trees /\ m.rows = a /\ m.sel = y /\ m.slipped = z
  BY <1>3, SMT DEF Trees
<1> QED
  BY <1>1, <1>4, Zenon DEF m

LEMMA TreeSel ==
  ASSUME NEW w \in Trees, NEW b \in Nat
  PROVE  LET m == [w EXCEPT !.sel = b] IN m \in Trees /\ m.rows = w.rows /\ m.sel = b /\ m.slipped = w.slipped
<1>1. PICK x \in Seq(Cells), y \in Nat, z \in BOOLEAN : x = w.rows /\ y = w.sel /\ z = w.slipped
  BY TreeFields
<1>2. w = [kind |-> "tree", rows |-> x, sel |-> y, slipped |-> z]
  BY <1>1, TreeFields
<1> DEFINE m == [w EXCEPT !.sel = b]
<1>3. m = [kind |-> "tree", rows |-> x, sel |-> b, slipped |-> z]
  BY <1>2, SMT
<1> HIDE DEF m
<1>4. m \in Trees /\ m.rows = x /\ m.sel = b /\ m.slipped = z
  BY <1>3, SMT DEF Trees
<1> QED
  BY <1>1, <1>4, Zenon DEF m

LEMMA TreeSlipped ==
  ASSUME NEW w \in Trees, NEW c \in BOOLEAN
  PROVE  LET m == [w EXCEPT !.slipped = c] IN m \in Trees /\ m.rows = w.rows /\ m.sel = w.sel /\ m.slipped = c
<1>1. PICK x \in Seq(Cells), y \in Nat, z \in BOOLEAN : x = w.rows /\ y = w.sel /\ z = w.slipped
  BY TreeFields
<1>2. w = [kind |-> "tree", rows |-> x, sel |-> y, slipped |-> z]
  BY <1>1, TreeFields
<1> DEFINE m == [w EXCEPT !.slipped = c]
<1>3. m = [kind |-> "tree", rows |-> x, sel |-> y, slipped |-> c]
  BY <1>2, SMT
<1> HIDE DEF m
<1>4. m \in Trees /\ m.rows = x /\ m.sel = y /\ m.slipped = c
  BY <1>3, SMT DEF Trees
<1> QED
  BY <1>1, <1>4, Zenon DEF m

Edited(w, a, b) == [w EXCEPT !.rows = a, !.sel = b]
LEMMA TreeEdited ==
  ASSUME NEW w \in Trees, NEW a \in Seq(Cells), NEW b \in Nat
  PROVE  /\ Edited(w, a, b) \in Trees /\ Edited(w, a, b).rows = a
         /\ Edited(w, a, b).sel = b /\ Edited(w, a, b).slipped = w.slipped
<1> DEFINE m == [w EXCEPT !.rows = a]
<1>1. [w EXCEPT !.rows = a, !.sel = b] = [m EXCEPT !.sel = b]
  OBVIOUS
<1>3. m \in Trees /\ m.rows = a /\ m.slipped = w.slipped
  BY TreeRows
<1> HIDE DEF m
<1>5. LET h == [m EXCEPT !.sel = b]
      IN h \in Trees /\ h.rows = a /\ h.sel = b /\ h.slipped = w.slipped
  BY <1>3, TreeSel
<1> QED
  BY <1>1, <1>5, Zenon DEF Edited

SwapOne(w, o) == SetOrder(w.rows, w.sel, o)
SwapTwo(w, o, d) == SetOrder(SwapOne(w, o).rows, SwapOne(w, o).at + d, w.rows[w.sel].order)
SwapSel(w, o, d) ==
  SwapOne(w, o).at + (IF d = 1 /\ SwapTwo(w, o, d).at <= SwapOne(w, o).at THEN 1
                      ELSE IF d = -1 /\ SwapTwo(w, o, d).at >= SwapOne(w, o).at THEN -1 ELSE 0)
LEMMA SwapIs ==
  ASSUME NEW w, NEW o, NEW d
  PROVE  Swap(w, o, d) =
           IF SwapOne(w, o).at + d \notin DOMAIN w.rows
             THEN Edited(w, SwapOne(w, o).rows, SwapOne(w, o).at)
             ELSE Edited(w, SwapTwo(w, o, d).rows, SwapSel(w, o, d))
BY Zenon DEF Edited, Swap, SwapOne, SwapTwo, SwapSel

LEMMA SwapKeeps ==
  ASSUME NEW w, IsTree(w), w.sel # 0, NEW o \in Int, NEW d \in {-1, 1}
  PROVE  /\ IsTree(Swap(w, o, d)) /\ Swap(w, o, d).slipped = w.slipped
         /\ SwapOne(w, o).at + d \notin DOMAIN w.rows =>
              Swap(w, o, d).rows = SwapOne(w, o).rows /\ Swap(w, o, d).sel = SwapOne(w, o).at
         /\ SwapOne(w, o).at + d \in DOMAIN w.rows =>
              Swap(w, o, d).rows = SwapTwo(w, o, d).rows /\ Swap(w, o, d).sel = SwapSel(w, o, d)
<1> DEFINE m == Swap(w, o, d)
           one == SwapOne(w, o)
           two == SwapTwo(w, o, d)
           new == SwapSel(w, o, d)
           n == Len(w.rows)
<1>1. w \in Trees /\ w.rows \in Seq(Cells) /\ n \in Nat /\ w.sel \in 1..n /\ DOMAIN w.rows = 1..n
  <2>1. w \in Trees /\ w.rows \in Seq(Cells) /\ w.sel \in Nat /\ w.sel <= n
    BY TreeFields, EmptySeq DEF IsTree
  <2>2. n \in Nat /\ DOMAIN w.rows = 1..n
    BY <2>1, CellFields
  <2> HIDE DEF n
  <2> QED
    BY <2>1, <2>2, SMT
<1>2. one.rows \in Seq(Cells) /\ Len(one.rows) = n /\ one.at \in 1..n
  BY <1>1, SetOrderKeeps DEF SwapOne
<1>3. w.rows[w.sel].order \in Int
  BY <1>1, CellFields
<1>4. m = IF one.at + d \notin DOMAIN w.rows THEN Edited(w, one.rows, one.at)
          ELSE Edited(w, two.rows, new)
  BY SwapIs
<1>5. ASSUME one.at + d \in 1..n PROVE two.rows \in Seq(Cells) /\ Len(two.rows) = n /\ two.at \in 1..n
  <2> DEFINE q == one.at + d
  <2>1. q \in 1..Len(one.rows)
    BY <1>2, <1>5
  <2>2. two = SetOrder(one.rows, q, w.rows[w.sel].order)
    BY DEF SwapTwo
  <2> HIDE DEF q, one, two
  <2> QED
    BY <1>2, <1>3, <2>1, <2>2, SetOrderKeeps
<1>6. new = one.at + (IF d = 1 /\ two.at <= one.at THEN 1 ELSE IF d = -1 /\ two.at >= one.at THEN -1 ELSE 0)
  BY Zenon DEF SwapSel
<1> SUFFICES /\ IsTree(m) /\ m.slipped = w.slipped
             /\ one.at + d \notin DOMAIN w.rows => m.rows = one.rows /\ m.sel = one.at
             /\ one.at + d \in DOMAIN w.rows => m.rows = two.rows /\ m.sel = new
  OBVIOUS
<1> HIDE DEF m, one, two, new, n
<1>7. CASE one.at + d \notin 1..n
  <2>1. m = Edited(w, one.rows, one.at)
    BY <1>1, <1>4, <1>7, Zenon
  <2>2. one.at \in Nat /\ one.at <= n
    BY <1>2, <1>1, SMT
  <2>3. m \in Trees /\ m.rows = one.rows /\ m.sel = one.at /\ m.slipped = w.slipped
    <3>1. w \in Trees /\ one.rows \in Seq(Cells) /\ one.at \in Nat
      BY <1>1, <1>2, <2>2
    <3>2. /\ Edited(w, one.rows, one.at) \in Trees /\ Edited(w, one.rows, one.at).rows = one.rows
          /\ Edited(w, one.rows, one.at).sel = one.at /\ Edited(w, one.rows, one.at).slipped = w.slipped
      BY <3>1, TreeEdited, Zenon
    <3> QED
      BY <2>1, <3>2, Zenon
  <2> QED
    BY <1>1, <1>2, <1>7, <2>2, <2>3, Zenon DEF IsTree
<1>8. CASE one.at + d \in 1..n
  <2>1. m = Edited(w, two.rows, new)
    BY <1>1, <1>4, <1>8, Zenon
  <2>2. new \in Nat /\ new <= n
    BY <1>1, <1>2, <1>5, <1>6, <1>8, SMT
  <2>3. m \in Trees /\ m.rows = two.rows /\ m.sel = new /\ m.slipped = w.slipped
    <3>1. w \in Trees /\ two.rows \in Seq(Cells) /\ new \in Nat
      BY <1>1, <1>5, <1>8, <2>2
    <3>2. /\ Edited(w, two.rows, new) \in Trees /\ Edited(w, two.rows, new).rows = two.rows
          /\ Edited(w, two.rows, new).sel = new /\ Edited(w, two.rows, new).slipped = w.slipped
      BY <3>1, TreeEdited, Zenon
    <3> QED
      BY <2>1, <3>2, Zenon
  <2> QED
    BY <1>1, <1>5, <1>8, <2>2, <2>3, Zenon DEF IsTree
<1> QED
  BY <1>7, <1>8

LEMMA EditedEither ==
  ASSUME NEW w, NEW a, NEW b
  PROVE  [w EXCEPT !.sel = b, !.rows = a] = Edited(w, a, b)
BY DEF Edited

LEMMA TreeRange ==
  ASSUME NEW w, IsTree(w)
  PROVE  /\ w \in Trees /\ w.rows \in Seq(Cells) /\ Len(w.rows) \in Nat /\ DOMAIN w.rows = 1..Len(w.rows)
         /\ w.slipped \in BOOLEAN /\ w.sel \in Nat /\ (w.sel # 0 => w.sel \in 1..Len(w.rows))
<1>1. w \in Trees /\ w.rows \in Seq(Cells) /\ w.sel \in Nat /\ w.sel <= Len(w.rows) /\ w.slipped \in BOOLEAN
  BY TreeFields, Zenon DEF IsTree
<1>2. Len(w.rows) \in Nat /\ DOMAIN w.rows = 1..Len(w.rows)
  BY <1>1, CellFields
<1> DEFINE n == Len(w.rows)
<1>3. n \in Nat /\ w.sel \in Nat /\ w.sel <= n
  BY <1>1, <1>2
<1> HIDE DEF n
<1>4. w.sel # 0 => w.sel \in 1..n
  BY <1>3, SMT
<1> QED
  BY <1>1, <1>2, <1>4, Zenon DEF n

LEMMA UpTree ==
  ASSUME NEW w, IsTree(w), Ordered(w), w.sel # 0
  PROVE  LET m == onTreeviewMoveUp(w)
         IN /\ IsTree(m) /\ Ordered(m)
            /\ ~w.slipped /\ w.sel > 1 => m.sel = w.sel - 1 /\ Swapped(w.rows, m.rows, w.sel - 1, w.sel)
<1> DEFINE r == w.rows
           i == w.sel
           o == r[i].order - 1
           m == Swap(w, o, -1)
           one == SwapOne(w, o)
           two == SwapTwo(w, o, -1)
<1>1. /\ r \in Seq(Cells) /\ Len(r) \in Nat /\ DOMAIN r = 1..Len(r) /\ i \in 1..Len(r)
      /\ w.slipped \in BOOLEAN /\ i \in Int
  <2>1. /\ r \in Seq(Cells) /\ Len(r) \in Nat /\ DOMAIN r = 1..Len(r) /\ i \in 1..Len(r)
        /\ w.slipped \in BOOLEAN /\ i \in Nat
    BY TreeRange
  <2> QED
    BY <2>1, SMT
<1>2. o \in Int
  <2>1. r[i].order \in Int
    BY <1>1, CellFields
  <2> QED
    BY <2>1, SMT
<1>3. /\ IsTree(m) /\ m.slipped = w.slipped
      /\ one.at + (-1) \notin DOMAIN r => m.rows = one.rows /\ m.sel = one.at
      /\ one.at + (-1) \in DOMAIN r => m.rows = two.rows /\ m.sel = SwapSel(w, o, -1)
  <2>1. -1 \in {-1, 1}
    OBVIOUS
  <2> QED
    BY <1>2, <2>1, SwapKeeps
<1>4. m = onTreeviewMoveUp(w)
  BY Zenon DEF onTreeviewMoveUp
<1>5. ASSUME Increasing(r)
      PROVE  /\ Increasing(m.rows)
             /\ i > 1 => m.sel = i - 1 /\ Swapped(r, m.rows, i - 1, i)
  <2>1. /\ one.at = i /\ (i = 1 => Increasing(one.rows))
        /\ LET t == SetOrder(one.rows, i - 1, r[i].order)
           IN i > 1 => t.at = i /\ Swapped(r, t.rows, i - 1, i) /\ Increasing(t.rows)
    BY <1>1, <1>5, UpRows, Zenon DEF SwapOne
  <2>2. one.at + (-1) = i - 1 /\ (i = 1 => i - 1 \notin 1..Len(r)) /\ (i # 1 => i > 1 /\ i - 1 \in 1..Len(r)) /\ ~(1 > 1)
    BY <1>1, <2>1, SMT
  <2>3. two = SetOrder(one.rows, i - 1, r[i].order)
    <3>1. two = SetOrder(one.rows, one.at + (-1), r[i].order)
      BY Zenon DEF SwapTwo
    <3> QED
      BY <2>2, <3>1, Zenon
  <2>4. SwapSel(w, o, -1) = one.at + (IF -1 = 1 /\ two.at <= one.at THEN 1 ELSE IF -1 = -1 /\ two.at >= one.at THEN -1 ELSE 0)
    BY Zenon DEF SwapSel
  <2> HIDE DEF one, two, m, o, r, i
  <2>5. CASE i = 1
    BY <1>1, <1>3, <2>1, <2>2, <2>5, Zenon
  <2>6. CASE i # 1
    <3>1. i > 1 /\ two.at = i /\ Swapped(r, two.rows, i - 1, i) /\ Increasing(two.rows)
      BY <2>1, <2>2, <2>3, <2>6, Zenon
    <3>2. SwapSel(w, o, -1) = i - 1
      BY <1>1, <2>1, <2>4, <3>1, SMT
    <3>3. m.rows = two.rows /\ m.sel = SwapSel(w, o, -1)
      BY <1>1, <1>3, <2>2, <2>6, Zenon
    <3> QED
      BY <3>1, <3>2, <3>3, Zenon
  <2> QED
    BY <2>5, <2>6
<1> SUFFICES /\ IsTree(m) /\ Ordered(m)
             /\ ~w.slipped /\ i > 1 => m.sel = i - 1 /\ Swapped(r, m.rows, i - 1, i)
  BY <1>4, Zenon
<1> HIDE DEF m
<1> QED
  BY <1>3, <1>5, Zenon DEF Ordered

LEMMA DownTree ==
  ASSUME NEW w, IsTree(w), Ordered(w), w.sel # 0
  PROVE  LET m == onTreeviewMoveDown(w)
         IN /\ IsTree(m) /\ Ordered(m)
            /\ ~w.slipped /\ w.sel < Len(w.rows) => m.sel = w.sel + 1 /\ Swapped(w.rows, m.rows, w.sel + 1, w.sel)
<1> DEFINE r == w.rows
           i == w.sel
           o == r[i].order + 1
           m == Swap(w, o, 1)
           one == SwapOne(w, o)
           two == SwapTwo(w, o, 1)
           b == w.slipped \/ i = Len(r)
           f == onTreeviewMoveDown(w)
<1>1. /\ r \in Seq(Cells) /\ Len(r) \in Nat /\ DOMAIN r = 1..Len(r) /\ i \in 1..Len(r)
      /\ w.slipped \in BOOLEAN /\ i \in Int
  <2>1. /\ r \in Seq(Cells) /\ Len(r) \in Nat /\ DOMAIN r = 1..Len(r) /\ i \in 1..Len(r)
        /\ w.slipped \in BOOLEAN /\ i \in Nat
    BY TreeRange
  <2> QED
    BY <2>1, SMT
<1>2. o \in Int /\ r[i].order \in Int
  <2>1. r[i].order \in Int
    BY <1>1, CellFields
  <2> QED
    BY <2>1, SMT
<1>3. /\ IsTree(m) /\ m.slipped = w.slipped
      /\ one.at + 1 \notin DOMAIN r => m.rows = one.rows /\ m.sel = one.at
      /\ one.at + 1 \in DOMAIN r => m.rows = two.rows /\ m.sel = SwapSel(w, o, 1)
  <2>1. 1 \in {-1, 1}
    OBVIOUS
  <2> QED
    BY <1>2, <2>1, SwapKeeps
<1>4. f = IF r[i].order >= Len(r) THEN w ELSE [m EXCEPT !.slipped = b]
  BY Zenon DEF onTreeviewMoveDown
<1>5. ASSUME Increasing(r), i < Len(r)
      PROVE  Increasing(m.rows) /\ m.sel = i + 1 /\ Swapped(r, m.rows, i + 1, i)
  <2>0. i \in 1..(Len(r) - 1)
    BY <1>1, <1>5, SMT
  <2>1. /\ one.at = i
        /\ LET t == SetOrder(one.rows, i + 1, r[i].order)
           IN t.at = i /\ Swapped(r, t.rows, i + 1, i) /\ Increasing(t.rows)
    BY <1>1, <1>5, <2>0, DownRows, Zenon DEF SwapOne
  <2>2. one.at + 1 = i + 1 /\ i + 1 \in 1..Len(r)
    <3>1. one.at = i
      BY <2>1, Zenon
    <3> HIDE DEF one, r, i
    <3> QED
      BY <1>1, <1>5, <3>1, SMT
  <2>3. two = SetOrder(one.rows, i + 1, r[i].order)
    <3>1. two = SetOrder(one.rows, one.at + 1, r[i].order)
      BY Zenon DEF SwapTwo
    <3> QED
      BY <2>2, <3>1, Zenon
  <2>4. SwapSel(w, o, 1) = one.at + (IF 1 = 1 /\ two.at <= one.at THEN 1 ELSE IF 1 = -1 /\ two.at >= one.at THEN -1 ELSE 0)
    BY Zenon DEF SwapSel
  <2> HIDE DEF one, two, m, o, r, i
  <2>5. two.at = i /\ Swapped(r, two.rows, i + 1, i) /\ Increasing(two.rows)
    BY <2>1, <2>3, Zenon
  <2>6. SwapSel(w, o, 1) = i + 1
    BY <1>1, <2>1, <2>4, <2>5, SMT
  <2>7. m.rows = two.rows /\ m.sel = SwapSel(w, o, 1)
    BY <1>1, <1>3, <2>2, Zenon
  <2> QED
    BY <2>5, <2>6, <2>7, Zenon
<1>6. b \in BOOLEAN /\ (b <=> w.slipped \/ i = Len(r))
  OBVIOUS
<1>7. ASSUME Increasing(r) PROVE r[i].order < i
  BY <1>1, <1>7 DEF Increasing
<1> SUFFICES /\ IsTree(f) /\ Ordered(f)
             /\ ~w.slipped /\ i < Len(r) => f.sel = i + 1 /\ Swapped(r, f.rows, i + 1, i)
  OBVIOUS
<1> HIDE DEF m, f, b, o
<1>8. LET h == [m EXCEPT !.slipped = b] IN h \in Trees /\ h.rows = m.rows /\ h.sel = m.sel /\ h.slipped = b
  BY <1>3, <1>6, TreeSlipped DEF IsTree
<1>9. CASE r[i].order >= Len(r)
  <2>1. f = w
    BY <1>4, <1>9, Zenon
  <2>2. ~Increasing(r)
    BY <1>1, <1>2, <1>7, <1>9, SMT
  <2> QED
    BY <2>1, <2>2, Zenon DEF Ordered
<1>10. CASE ~(r[i].order >= Len(r))
  <2>1. f = [m EXCEPT !.slipped = b]
    BY <1>4, <1>10, Zenon
  <2>2. f \in Trees /\ f.rows = m.rows /\ f.sel = m.sel /\ f.slipped = b
    BY <1>8, <2>1, Zenon
  <2>3. IsTree(f)
    BY <1>3, <2>2, Zenon DEF IsTree
  <2>4. ~w.slipped => Increasing(r)
    BY DEF Ordered
  <2>5. i # Len(r) => i < Len(r)
    BY <1>1, SMT
  <2>6. ~(i < Len(r)) \/ i # Len(r)
    BY <1>1, SMT
  <2> QED
    BY <1>5, <1>6, <2>2, <2>3, <2>4, <2>5, <2>6, Zenon DEF Ordered
<1> QED
  BY <1>9, <1>10

LEMMA AppendedRow ==
  ASSUME NEW r \in Seq(Cells), NEW c \in Cells
  PROVE  /\ Append(r, c) \in Seq(Cells) /\ Len(Append(r, c)) = Len(r) + 1
         /\ Append(r, c)[Len(r) + 1] = c /\ \A j \in 1..Len(r) : Append(r, c)[j] = r[j]
BY AppendProperties

LEMMA AddTree ==
  ASSUME NEW w, IsTree(w), Ordered(w), NEW x \in Int
  PROVE  IsTree(onTreeviewAddText(w, x)) /\ Ordered(onTreeviewAddText(w, x))
<1> DEFINE r == w.rows
           n == Len(w.rows)
           c == [order |-> n, val |-> x]
           A == Append(r, c)
           t == Sorted(A, n + 1)
           m == onTreeviewAddText(w, x)
<1>1. w \in Trees /\ r \in Seq(Cells) /\ n \in Nat
  BY TreeRange
<1>2. c \in Cells /\ c.order = n
  BY <1>1, SMT DEF Cells
<1>0. m = Edited(w, t.rows, t.at)
  BY Zenon DEF onTreeviewAddText, Edited
<1>r. n = Len(r)
  OBVIOUS
<1> HIDE DEF c, n, r
<1>3. A \in Seq(Cells) /\ Len(A) = n + 1 /\ A[n + 1] = c /\ \A j \in 1..n : A[j] = r[j]
  BY <1>1, <1>2, <1>r, AppendedRow
<1> HIDE DEF A
<1>4. n + 1 \in 1..Len(A)
  BY <1>1, <1>3, SMT
<1>5. t.rows \in Seq(Cells) /\ Len(t.rows) = Len(A) /\ t.at \in 1..Len(A)
  <2> DEFINE h == n + 1
  <2> SUFFICES /\ Sorted(A, h).rows \in Seq(Cells) /\ Len(Sorted(A, h).rows) = Len(A)
               /\ Sorted(A, h).at \in 1..Len(A)
    OBVIOUS
  <2>1. h \in 1..Len(A)
    BY <1>4
  <2> HIDE DEF h
  <2> QED
    BY <1>3, <2>1, SortedKeeps
<1>6. ASSUME Increasing(r) PROVE Increasing(t.rows)
  <2>1. ASSUME NEW j \in 1..n PROVE A[j].order \in Int /\ A[j].order < j /\ A[j].order = r[j].order
    BY <1>1, <1>3, <1>6, <1>r, CellFields DEF Increasing
  <2>2. A[n + 1].order = n
    BY <1>2, <1>3
  <2>3. ASSUME NEW j \in 1..(n + 1) PROVE j \in 1..n \/ j = n + 1
    BY <1>1, SMT
  <2>4. t.rows = A
    <3> DEFINE h == n + 1
    <3>1. \A j \in 1..Len(A) : (j < h => A[j].order <= A[h].order) /\ (j > h => A[h].order <= A[j].order)
      <4> SUFFICES ASSUME NEW j \in 1..(n + 1)
                   PROVE  (j < h => A[j].order <= A[h].order) /\ (j > h => A[h].order <= A[j].order)
        BY <1>3
      <4> QED
        BY <1>1, <2>1, <2>2, <2>3, SMT
    <3>2. \A j \in 1..Len(A) : ~(j > h)
      BY <1>1, <1>3, SMT
    <3>3. h \in 1..Len(A)
      BY <1>4
    <3> SUFFICES Sorted(A, h).rows = A
      OBVIOUS
    <3> HIDE DEF h
    <3> QED
      BY <1>3, <3>1, <3>2, <3>3, SortedStays
  <2>5. Increasing(A)
    <3> SUFFICES ASSUME NEW a \in 1..(n + 1), NEW b \in 1..(n + 1)
                 PROVE  A[a].order < a /\ (a < b => A[a].order < A[b].order)
      BY <1>3, Zenon DEF Increasing
    <3>1. a \in 1..n /\ b \in 1..n /\ a < b => r[a].order < r[b].order
      BY <1>6, <1>r, Zenon DEF Increasing
    <3> QED
      BY <1>1, <2>1, <2>2, <2>3, <3>1, SMTT(30)
  <2> QED
    BY <2>4, <2>5
<1> HIDE DEF t, m
<1>7. t.at \in Nat /\ t.at <= Len(A)
  BY <1>3, <1>5, <1>1, SMT
<1>8. m \in Trees /\ m.rows = t.rows /\ m.sel = t.at /\ m.slipped = w.slipped
  <2>1. w \in Trees /\ t.rows \in Seq(Cells) /\ t.at \in Nat
    BY <1>1, <1>5, <1>7
  <2> QED
    BY <1>0, <2>1, TreeEdited
<1> QED
  BY <1>5, <1>6, <1>7, <1>8, Zenon DEF IsTree, Ordered, m, r

LEMMA RemoveTree ==
  ASSUME NEW w, IsTree(w), Ordered(w), w.sel # 0
  PROVE  IsTree(onTreeviewRemoveText(w)) /\ Ordered(onTreeviewRemoveText(w))
<1> DEFINE r == w.rows
           i == w.sel
           g == r[i].order
           s == Others(r, i)
           new == [j \in DOMAIN s |->
                    [order |-> IF s[j].order > g THEN s[j].order - 1 ELSE s[j].order, val |-> s[j].val]]
           m == onTreeviewRemoveText(w)
<1>1. w \in Trees /\ r \in Seq(Cells) /\ Len(r) \in Nat /\ i \in 1..Len(r)
  BY TreeRange
<1>0. m = [w EXCEPT !.sel = 0, !.rows = new]
  BY Zenon DEF onTreeviewRemoveText, Others
<1>2. m = Edited(w, new, 0)
  BY <1>0, EditedEither
<1> HIDE DEF m, r, i
<1>3. /\ s \in Seq(Cells) /\ Len(s) = Len(r) - 1
      /\ \A j \in 1..(Len(r) - 1) : s[j] = IF j < i THEN r[j] ELSE r[j + 1]
  BY <1>1, OthersAre
<1>4. g \in Int
  BY <1>1, CellFields
<1> HIDE DEF s, g
<1>5. /\ DOMAIN s = 1..Len(s) /\ Len(s) \in Nat
      /\ \A j \in 1..Len(s) : s[j].order \in Int /\ s[j].val \in Int
  BY <1>3, CellFields
<1>6. /\ new \in Seq(Cells) /\ Len(new) = Len(s)
      /\ \A j \in 1..Len(s) : new[j].order = IF s[j].order > g THEN s[j].order - 1 ELSE s[j].order
  <2>1. ASSUME NEW j \in 1..Len(s)
        PROVE  [order |-> IF s[j].order > g THEN s[j].order - 1 ELSE s[j].order, val |-> s[j].val] \in Cells
    <3>1. (IF s[j].order > g THEN s[j].order - 1 ELSE s[j].order) \in Int /\ s[j].val \in Int
      BY <1>4, <1>5, SMT
    <3> QED
      BY <3>1, SMT DEF Cells
  <2>2. new = [j \in 1..Len(s) |-> [order |-> IF s[j].order > g THEN s[j].order - 1 ELSE s[j].order, val |-> s[j].val]]
    BY <1>5
  <2>3. new \in Seq(Cells) /\ Len(new) = Len(s)
    BY <1>5, <2>1, <2>2, SMT
  <2>4. \A j \in 1..Len(s) : new[j].order = IF s[j].order > g THEN s[j].order - 1 ELSE s[j].order
    BY <2>2, SMT
  <2> QED
    BY <2>3, <2>4
<1>7. ASSUME Increasing(r) PROVE Increasing(new)
  <2> SUFFICES ASSUME NEW a \in 1..Len(s), NEW b \in 1..Len(s)
               PROVE  new[a].order < a /\ (a < b => new[a].order < new[b].order)
    BY <1>6, Zenon DEF Increasing
  <2>1. /\ Len(r) \in Nat /\ \A j \in 1..Len(r) : r[j].order \in Int /\ r[j].order < j
        /\ \A j, n \in 1..Len(r) : j < n => r[j].order < r[n].order
    BY <1>1, <1>7, CellFields DEF Increasing
  <2>2. ASSUME NEW j \in 1..Len(s)
        PROVE  /\ j \in 1..Len(r) /\ j + 1 \in 1..Len(r) /\ i \in Int /\ j \in Int
               /\ s[j].order = IF j < i THEN r[j].order ELSE r[j + 1].order
               /\ j < i => r[j].order < g
               /\ ~(j < i) => g < r[j + 1].order
               /\ r[j].order \in Int /\ r[j + 1].order \in Int /\ r[j].order < j /\ r[j + 1].order < j + 1
    <3>1. j \in 1..Len(r) /\ j + 1 \in 1..Len(r) /\ i \in Int /\ j \in Int /\ j \in 1..(Len(r) - 1)
          /\ (~(j < i) => i < j + 1)
      BY <1>1, <1>3, SMT
    <3>2. s[j].order = IF j < i THEN r[j].order ELSE r[j + 1].order
      BY <1>3, <3>1, Zenon
    <3>3. (j < i => r[j].order < g) /\ (~(j < i) => g < r[j + 1].order)
      BY <1>1, <2>1, <3>1, Zenon DEF g
    <3> QED
      BY <2>1, <3>1, <3>2, <3>3, Zenon
  <2>3. ASSUME NEW j \in 1..Len(s)
        PROVE  new[j].order = IF j < i THEN r[j].order ELSE r[j + 1].order - 1
    <3>1. new[j].order = IF s[j].order > g THEN s[j].order - 1 ELSE s[j].order
      BY <1>6
    <3> QED
      BY <1>4, <2>2, <3>1, SMT
  <2>4. (a < b => r[a].order < r[b].order) /\ (a + 1 < b + 1 => r[a + 1].order < r[b + 1].order)
    BY <2>1, <2>2
  <2>5. /\ a \in Int /\ i \in Int /\ r[a].order \in Int /\ r[a + 1].order \in Int
        /\ r[a].order < a /\ r[a + 1].order < a + 1
        /\ (a < i => r[a].order < g) /\ (~(a < i) => g < r[a + 1].order)
    BY <2>2
  <2>6. /\ b \in Int /\ r[b].order \in Int /\ r[b + 1].order \in Int
        /\ (b < i => r[b].order < g) /\ (~(b < i) => g < r[b + 1].order)
    BY <2>2
  <2>7. /\ new[a].order = IF a < i THEN r[a].order ELSE r[a + 1].order - 1
        /\ new[b].order = IF b < i THEN r[b].order ELSE r[b + 1].order - 1
    BY <2>3
  <2> HIDE DEF new
  <2> DEFINE ra == r[a].order
             rb == r[b].order
             sa == r[a + 1].order
             sb == r[b + 1].order
             na == new[a].order
             nb == new[b].order
  <2>8. /\ a \in Int /\ i \in Int /\ ra \in Int /\ sa \in Int
        /\ ra < a /\ sa < a + 1
        /\ (a < i => ra < g) /\ (~(a < i) => g < sa)
        /\ b \in Int /\ rb \in Int /\ sb \in Int
        /\ (b < i => rb < g) /\ (~(b < i) => g < sb)
        /\ na = (IF a < i THEN ra ELSE sa - 1)
        /\ nb = (IF b < i THEN rb ELSE sb - 1)
        /\ (a < b => ra < rb) /\ (a + 1 < b + 1 => sa < sb)
    BY <2>4, <2>5, <2>6, <2>7, Zenon
  <2> SUFFICES na < a /\ (a < b => na < nb)
    OBVIOUS
  <2> HIDE DEF ra, rb, sa, sb, na, nb
  <2> QED
    BY <1>4, <2>8, SMT
<1> HIDE DEF new
<1>8. m \in Trees /\ m.rows = new /\ m.sel = 0 /\ m.slipped = w.slipped
  <2>1. 0 \in Nat
    BY SMT
  <2> QED
    BY <1>1, <1>2, <1>6, <2>1, TreeEdited
<1>9. 0 <= Len(new)
  BY <1>5, <1>6, SMT
<1> QED
  BY <1>6, <1>7, <1>8, <1>9, Zenon DEF IsTree, Ordered, m, r

LEMMA MadeTreeOrdered ==
  ASSUME NEW v \in Values
  PROVE  LET t == [kind |-> "tree", rows |-> Rows(v), sel |-> 0, slipped |-> FALSE]
         IN Ordered(t)
<1> DEFINE R == Rows(v)
           t == [kind |-> "tree", rows |-> R, sel |-> 0, slipped |-> FALSE]
<1>1. IsWidget(t) /\ t.rows = R /\ \A i \in DOMAIN R : R[i].order = i - 1
  BY TreeIsWidget
<1>2. DOMAIN R = 1..Len(R) /\ Len(R) \in Nat
  <2>1. DOMAIN v = 1..Len(v) /\ Len(v) \in Nat
    BY LenProperties DEF Values
  <2>2. R = [i \in 1..Len(v) |-> [order |-> i - 1, val |-> v[i]]]
    BY <2>1, Zenon DEF Rows
  <2> HIDE DEF R
  <2>3. DOMAIN R = 1..Len(v) /\ Len(R) = Len(v)
    BY <2>1, <2>2, SMT
  <2> QED
    BY <2>1, <2>3
<1> HIDE DEF R, t
<1>3. Increasing(R)
  BY <1>1, <1>2, SMT DEF Increasing
<1> QED
  BY <1>1, <1>3, Zenon DEF Ordered, t, R

(***************************************************************************)
(* Edits of the other widgets.                                             *)
(***************************************************************************)
LEMMA KindIs ==
  ASSUME NEW w, IsWidget(w)
  PROVE  /\ w.kind = "values" => w \in [kind : {"values"}, vals : Values, min : Int, max : Int]
         /\ w.kind = "pair" => w \in [kind : {"pair"}, vals : Values, linked : BOOLEAN] /\ Len(w.vals) = 2
         /\ w.kind = "color" => w \in [kind : {"color"}, vals : Values] /\ Len(w.vals) = 4
         /\ w.kind \in {"combo", "numbered"} =>
              w \in [kind : {"combo", "numbered"}, list : Values, active : Nat] /\ w.active <= Len(w.list)
         /\ w.kind = "font" => w \in [kind : {"font"}, text : Values]
         /\ w.kind = "entry" => w \in Entries /\ (w.focus /\ w.isDefault => w.text = <<>>)
         /\ w.kind = "tree" => IsTree(w)
         /\ w.kind \in {"none", "values", "pair", "color", "combo", "numbered", "font", "entry", "tree"}
         /\ w.kind = "none" <=> w = NoWidget
<1>1. w \in Widgets
  BY DEF IsWidget
<1>2. /\ w.kind = "values" => w \in [kind : {"values"}, vals : Values, min : Int, max : Int]
      /\ w.kind = "pair" => w \in [kind : {"pair"}, vals : Values, linked : BOOLEAN]
      /\ w.kind = "color" => w \in [kind : {"color"}, vals : Values]
  BY <1>1, SMT DEF Widgets, NoWidget
<1>3. /\ w.kind \in {"combo", "numbered"} => w \in [kind : {"combo", "numbered"}, list : Values, active : Nat]
      /\ w.kind = "font" => w \in [kind : {"font"}, text : Values]
  BY <1>1, SMT DEF Widgets, NoWidget
<1>4. /\ w.kind = "entry" => w \in Entries
      /\ w.kind = "tree" => w \in Trees
  BY <1>1, SMT DEF Widgets, NoWidget, Entries, Trees, Cells
<1>5. /\ w.kind \in {"none", "values", "pair", "color", "combo", "numbered", "font", "entry", "tree"}
      /\ w.kind = "none" <=> w = NoWidget
  BY <1>1, SMT DEF Widgets, NoWidget
<1>6. /\ w.kind = "pair" => Len(w.vals) = 2
      /\ w.kind = "color" => Len(w.vals) = 4
      /\ w.kind \in {"combo", "numbered"} => w.active <= Len(w.list)
      /\ w.kind = "tree" => w.sel <= Len(w.rows)
      /\ w.kind = "entry" /\ w.focus /\ w.isDefault => w.text = <<>>
  BY DEF IsWidget, Sized
<1> QED
  BY <1>2, <1>3, <1>4, <1>5, <1>6, Zenon DEF IsTree

LEMMA WidgetIs ==
  ASSUME NEW w
  PROVE  /\ w \in [kind : {"values"}, vals : Values, min : Int, max : Int] => IsWidget(w) /\ w.kind = "values"
         /\ w \in [kind : {"pair"}, vals : Values, linked : BOOLEAN] /\ Len(w.vals) = 2 => IsWidget(w) /\ w.kind = "pair"
         /\ w \in [kind : {"color"}, vals : Values] /\ Len(w.vals) = 4 => IsWidget(w) /\ w.kind = "color"
         /\ w \in [kind : {"combo", "numbered"}, list : Values, active : Nat] /\ w.active <= Len(w.list) => IsWidget(w)
         /\ w \in [kind : {"font"}, text : Values] => IsWidget(w) /\ w.kind = "font"
         /\ w \in Entries /\ (w.focus /\ w.isDefault => w.text = <<>>) => IsWidget(w) /\ w.kind = "entry"
         /\ IsTree(w) => IsWidget(w) /\ w.kind = "tree"
<1>1. w \in [kind : {"values"}, vals : Values, min : Int, max : Int] => IsWidget(w) /\ w.kind = "values"
  BY SMT DEF IsWidget, Widgets, Sized
<1>2. w \in [kind : {"pair"}, vals : Values, linked : BOOLEAN] /\ Len(w.vals) = 2 => IsWidget(w) /\ w.kind = "pair"
  BY SMT DEF IsWidget, Widgets, Sized
<1>3. w \in [kind : {"color"}, vals : Values] /\ Len(w.vals) = 4 => IsWidget(w) /\ w.kind = "color"
  BY SMT DEF IsWidget, Widgets, Sized
<1>4. w \in [kind : {"combo", "numbered"}, list : Values, active : Nat] /\ w.active <= Len(w.list) => IsWidget(w)
  BY SMT DEF IsWidget, Widgets, Sized
<1>5. w \in [kind : {"font"}, text : Values] => IsWidget(w) /\ w.kind = "font"
  BY SMT DEF IsWidget, Widgets, Sized
<1>6. w \in Entries /\ (w.focus /\ w.isDefault => w.text = <<>>) => IsWidget(w) /\ w.kind = "entry"
  BY SMT DEF IsWidget, Widgets, Sized, Entries
<1>7. IsTree(w) => IsWidget(w) /\ w.kind = "tree"
  BY SMT DEF IsWidget, Widgets, Sized, IsTree, Trees, Cells
<1> QED
  BY <1>1, <1>2, <1>3, <1>4, <1>5, <1>6, <1>7, Zenon

LEMMA OneChanged ==
  ASSUME NEW v \in Values, NEW i \in DOMAIN v, NEW x \in Int
  PROVE  [v EXCEPT ![i] = x] \in Values /\ Len([v EXCEPT ![i] = x]) = Len(v)
<1>1. v = [j \in 1..Len(v) |-> v[j]] /\ Len(v) \in Nat /\ DOMAIN v = 1..Len(v) /\ \A j \in 1..Len(v) : v[j] \in Int
  BY SMT DEF Values
<1>2. [v EXCEPT ![i] = x] = [j \in 1..Len(v) |-> IF j = i THEN x ELSE v[j]]
  BY <1>1, Zenon
<1> QED
  BY <1>1, <1>2, SMT DEF Values

LEMMA ValuesEdited ==
  ASSUME NEW w, IsWidget(w), w.kind \in {"values", "pair", "color"},
         NEW v \in Values, w.kind # "values" => Len(v) = Len(w.vals)
  PROVE  LET m == [w EXCEPT !.vals = v] IN IsWidget(m) /\ m.kind = w.kind
<1> DEFINE m == [w EXCEPT !.vals = v]
<1>1. CASE w.kind = "values"
  <2>1. PICK a \in Values, b \in Int, c \in Int : w = [kind |-> "values", vals |-> a, min |-> b, max |-> c]
    <3>1. w = [kind |-> "values", vals |-> w.vals, min |-> w.min, max |-> w.max] /\ w.vals \in Values /\ w.min \in Int /\ w.max \in Int
      BY <1>1, KindIs, SMT
    <3> QED
      BY <3>1
  <2>2. m = [kind |-> "values", vals |-> v, min |-> b, max |-> c]
    BY <2>1, SMT
  <2> HIDE DEF m
  <2>3. m \in [kind : {"values"}, vals : Values, min : Int, max : Int]
    BY <2>2, SMT
  <2> QED
    BY <1>1, <2>3, WidgetIs DEF m
<1>2. CASE w.kind = "pair"
  <2>1. PICK a \in Values, b \in BOOLEAN : w = [kind |-> "pair", vals |-> a, linked |-> b]
    <3>1. w = [kind |-> "pair", vals |-> w.vals, linked |-> w.linked] /\ w.vals \in Values /\ w.linked \in BOOLEAN
      BY <1>2, KindIs, SMT
    <3> QED
      BY <3>1
  <2>2. m = [kind |-> "pair", vals |-> v, linked |-> b]
    BY <2>1, SMT
  <2>4. Len(v) = 2
    BY <1>2, KindIs, SMT
  <2> HIDE DEF m
  <2>3. m \in [kind : {"pair"}, vals : Values, linked : BOOLEAN] /\ m.vals = v
    BY <2>2, SMT
  <2> QED
    BY <1>2, <2>3, <2>4, WidgetIs DEF m
<1>3. CASE w.kind = "color"
  <2>1. PICK a \in Values : w = [kind |-> "color", vals |-> a]
    <3>1. w = [kind |-> "color", vals |-> w.vals] /\ w.vals \in Values
      BY <1>3, KindIs, SMT
    <3> QED
      BY <3>1
  <2>2. m = [kind |-> "color", vals |-> v]
    BY <2>1, SMT
  <2>4. Len(v) = 4
    BY <1>3, KindIs, SMT
  <2> HIDE DEF m
  <2>3. m \in [kind : {"color"}, vals : Values] /\ m.vals = v
    BY <2>2, SMT
  <2> QED
    BY <1>3, <2>3, <2>4, WidgetIs DEF m
<1> QED
  BY <1>1, <1>2, <1>3

LEMMA LinkEdited ==
  ASSUME NEW w, IsWidget(w), w.kind = "pair", NEW b \in BOOLEAN
  PROVE  LET m == [w EXCEPT !.linked = b] IN IsWidget(m) /\ m.kind = "pair" /\ m.vals = w.vals
<1> DEFINE m == [w EXCEPT !.linked = b]
<1>1. PICK a \in Values, c \in BOOLEAN : w = [kind |-> "pair", vals |-> a, linked |-> c] /\ Len(a) = 2
  <2>1. w = [kind |-> "pair", vals |-> w.vals, linked |-> w.linked] /\ w.vals \in Values /\ w.linked \in BOOLEAN
    BY KindIs, SMT
  <2>2. Len(w.vals) = 2
    BY KindIs
  <2> QED
    BY <2>1, <2>2
<1>2. m = [kind |-> "pair", vals |-> a, linked |-> b]
  BY <1>1, SMT
<1>4. w.vals = a
  BY <1>1, SMT
<1> HIDE DEF m
<1>3. m \in [kind : {"pair"}, vals : Values, linked : BOOLEAN] /\ m.vals = a
  BY <1>2, SMT
<1> QED
  BY <1>1, <1>3, <1>4, WidgetIs DEF m

LEMMA ChoiceEdited ==
  ASSUME NEW w, IsWidget(w), w.kind \in {"combo", "numbered"}, NEW i \in DOMAIN w.list
  PROVE  LET m == [w EXCEPT !.active = i] IN IsWidget(m) /\ m.kind = w.kind
<1> DEFINE m == [w EXCEPT !.active = i]
<1>1. PICK c \in {"combo", "numbered"}, a \in Values, n \in Nat : w = [kind |-> c, list |-> a, active |-> n]
  <2>1. w = [kind |-> w.kind, list |-> w.list, active |-> w.active] /\ w.list \in Values /\ w.active \in Nat
    BY KindIs, SMT
  <2> QED
    BY <2>1
<1>2. w.list = a /\ w.kind = c
  BY <1>1, SMT
<1>3. i \in Nat /\ i <= Len(a)
  BY <1>2, SMT DEF Values
<1>4. m = [kind |-> c, list |-> a, active |-> i]
  BY <1>1, SMT
<1> HIDE DEF m
<1>5. m \in [kind : {"combo", "numbered"}, list : Values, active : Nat] /\ m.active = i /\ m.list = a /\ m.kind = c
  BY <1>3, <1>4, SMT
<1> QED
  BY <1>2, <1>3, <1>5, WidgetIs DEF m

LEMMA FontEdited ==
  ASSUME NEW w, IsWidget(w), w.kind = "font", NEW v \in Values
  PROVE  LET m == [w EXCEPT !.text = v] IN IsWidget(m) /\ m.kind = "font"
<1> DEFINE m == [w EXCEPT !.text = v]
<1>1. PICK a \in Values : w = [kind |-> "font", text |-> a]
  <2>1. w = [kind |-> "font", text |-> w.text] /\ w.text \in Values
    BY KindIs, SMT
  <2> QED
    BY <2>1
<1>2. m = [kind |-> "font", text |-> v]
  BY <1>1, SMT
<1> HIDE DEF m
<1>3. m \in [kind : {"font"}, text : Values]
  BY <1>2, SMT
<1> QED
  BY <1>3, WidgetIs DEF m

\* A default text is marked where there is one.
Marked(k, w) == w.kind = "entry" /\ w.isDefault => HelpText(k) # <<>>
Rowed(w) == w.kind = "tree" => Ordered(w)
WidgetOk(k, w) == IsWidget(w) /\ Marked(k, w) /\ Rowed(w)

\* The help text, also encrypted, is not what an entry gives.
Clean(k, v) == 1 \in DOMAIN v => v[1] % Cipher # HelpText(k)[1] % Cipher
Helps(k) == k.type \in {"text", "password", "class"} /\ HelpText(k) # <<>> /\ NotHelp(k)
Honest(k, w) == Helps(k) /\ w # NoWidget => w.kind = "entry" /\ (w.isDefault \/ Clean(k, w.text))

\* What an edit of a widget keeps; one that is not a change keeps its value.
Edit(k, w, m, edit) ==
  /\ WidgetOk(k, w) => WidgetOk(k, m) /\ m.kind = w.kind
  /\ Honest(k, w) => Honest(k, m)
  /\ ~edit => Value(k, m) = Value(k, w)

LEMMA ChangedText ==
  ASSUME NEW k, NEW w, IsWidget(w), w.kind = "entry", NEW v \in Values
  PROVE  LET m == onTextDefaultChanged(w, v)
         IN /\ IsWidget(m) /\ m.kind = "entry" /\ m \in Entries /\ m.text = v /\ ~m.isDefault
<1> DEFINE m == onTextDefaultChanged(w, v)
           n == [w EXCEPT !.text = v]
           m2 == [n EXCEPT !.isDefault = FALSE]
<1>1. w \in Entries
  BY KindIs
<1>2. n \in Entries /\ n.text = v
  <2>1. n \in Entries
    BY <1>1, EntryField
  <2>2. n.text = v
    BY <1>1, SMT DEF Entries
  <2> QED
    BY <2>1, <2>2
<1>3. m = m2
  BY DEF onTextDefaultChanged
<1> HIDE DEF n
<1>4. m2 \in Entries
  BY <1>2, EntryField
<1>5. m2.text = v /\ m2.isDefault = FALSE
  BY <1>2, SMT DEF Entries
<1> HIDE DEF m, m2
<1>6. m \in Entries /\ m.text = v /\ ~m.isDefault
  BY <1>3, <1>4, <1>5
<1> QED
  BY <1>6, WidgetIs DEF m

LEMMA FocusIn ==
  ASSUME NEW k, NEW w, IsWidget(w), w.kind = "entry"
  PROVE  LET m == onTextDefaultFocusIn(w)
         IN /\ IsWidget(m) /\ m.kind = "entry" /\ m \in Entries /\ (m.isDefault <=> w.isDefault)
            /\ w.isDefault => m.text = <<>>
            /\ ~w.isDefault => m.text = w.text
<1> DEFINE m == onTextDefaultFocusIn(w)
           t == IF w.isDefault THEN <<>> ELSE w.text
           n == [w EXCEPT !.focus = TRUE]
           m2 == [n EXCEPT !.text = t]
<1>1. w \in Entries /\ w.text \in Values /\ w.isDefault \in BOOLEAN
  BY KindIs, EntryField
<1>t. t \in Values /\ (w.isDefault => t = <<>>) /\ (~w.isDefault => t = w.text)
  BY <1>1, EmptySeq DEF Values
<1> HIDE DEF t
<1>2. n \in Entries /\ (n.isDefault <=> w.isDefault)
  <2>1. n \in Entries
    BY <1>1, EntryField
  <2>2. n.isDefault = w.isDefault
    BY <1>1, SMT DEF Entries
  <2> QED
    BY <2>1, <2>2
<1>3. m = m2
  BY DEF onTextDefaultFocusIn, t
<1> HIDE DEF n
<1>4. m2 \in Entries
  BY <1>2, <1>t, EntryField
<1>5. m2.text = t /\ m2.isDefault = n.isDefault
  BY <1>2, SMT DEF Entries
<1> HIDE DEF m, m2
<1>6. m \in Entries /\ m.text = t /\ (m.isDefault <=> w.isDefault)
  BY <1>2, <1>3, <1>4, <1>5
<1> QED
  BY <1>6, <1>t, WidgetIs DEF m

(***************************************************************************)
(* Pages and grabs.                                                        *)
(***************************************************************************)
Make(s, c, w, e, b) == [slot |-> s, copy |-> c, w |-> w, edited |-> e, waits |-> b]
IsPage(r) ==
  /\ r = Make(r.slot, r.copy, r.w, r.edited, r.waits)
  /\ r.slot \in Slots /\ r.edited \in BOOLEAN /\ r.waits \in BOOLEAN
Asked(s, p, n, c) == [step |-> s, place |-> p, serial |-> n, class |-> c]
IsGrab(h) ==
  \/ h = NoGrab
  \/ /\ h = Asked(h.step, h.place, h.serial, h.class)
     /\ h.step \in {"waits", "closed", "done"} /\ h.place \in Places /\ h.serial \in Nat

LEMMA OneReplaced ==
  ASSUME NEW D, NEW f, f = [x \in D |-> f[x]], NEW d \in D, NEW r
  PROVE  LET g == [f EXCEPT ![d] = r]
         IN /\ g = [x \in D |-> g[x]] /\ g[d] = r
            /\ \A x \in D : x # d => g[x] = f[x]
<1> DEFINE g == [f EXCEPT ![d] = r]
<1>1. DOMAIN f = D
  OBVIOUS
<1>2. g = [x \in D |-> IF x = d THEN r ELSE f[x]]
  BY <1>1
<1> HIDE DEF g
<1>3. g[d] = r /\ \A x \in D : x # d => g[x] = f[x]
  BY <1>2
<1>4. g = [x \in D |-> g[x]]
  BY <1>2
<1> QED
  BY <1>3, <1>4 DEF g

LEMMA MakeFields ==
  ASSUME NEW s \in Slots, NEW c, NEW w, NEW e \in BOOLEAN, NEW b \in BOOLEAN
  PROVE  LET r == Make(s, c, w, e, b)
         IN /\ IsPage(r) /\ r # NoPage
            /\ r.slot = s /\ r.copy = c /\ r.w = w /\ (r.edited <=> e) /\ (r.waits <=> b)
<1> DEFINE r == Make(s, c, w, e, b)
<1>1. r.slot = s /\ r.copy = c /\ r.w = w /\ r.edited = e /\ r.waits = b
  BY SMT DEF Make
<1>2. NoPage.slot = "none" /\ "none" \notin Slots
  BY SMT DEF NoPage, Nothing, Slots
<1> HIDE DEF r
<1>3. r # NoPage
  BY <1>1, <1>2
<1>4. IsPage(r)
  BY <1>1, Zenon DEF IsPage, r
<1> QED
  BY <1>1, <1>3, <1>4 DEF r

BuiltPage(s, c, w) == [slot |-> s, copy |-> c, w |-> w, edited |-> FALSE, waits |-> FALSE]
LEMMA NewFields ==
  ASSUME NEW s \in Slots, NEW c, NEW w
  PROVE  LET r == BuiltPage(s, c, w)
         IN /\ IsPage(r) /\ r # NoPage
            /\ r.slot = s /\ r.copy = c /\ r.w = w /\ ~r.edited /\ ~r.waits
<1> DEFINE r == BuiltPage(s, c, w)
<1>1. r.slot = s /\ r.copy = c /\ r.w = w /\ r.edited = FALSE /\ r.waits = FALSE
  BY SMT DEF BuiltPage
<1>2. NoPage.slot = "none" /\ "none" \notin Slots
  BY SMT DEF NoPage, Nothing, Slots
<1>3. r = Make(r.slot, r.copy, r.w, r.edited, r.waits)
  BY <1>1 DEF BuiltPage, Make
<1> HIDE DEF r
<1>4. r # NoPage
  BY <1>1, <1>2
<1>5. IsPage(r)
  BY <1>1, <1>3, Zenon DEF IsPage
<1> QED
  BY <1>1, <1>4, <1>5 DEF r

LEMMA PageEdits ==
  ASSUME NEW r, IsPage(r), NEW x, NEW e \in BOOLEAN
  PROVE  /\ [r EXCEPT !.w = x] = Make(r.slot, r.copy, x, r.edited, r.waits)
         /\ [r EXCEPT !.edited = e] = Make(r.slot, r.copy, r.w, e, r.waits)
         /\ [r EXCEPT !.waits = e] = Make(r.slot, r.copy, r.w, r.edited, e)
         /\ [r EXCEPT !.copy = x] = Make(r.slot, x, r.w, r.edited, r.waits)
<1>1. PICK s, c, w, d, b : r = [slot |-> s, copy |-> c, w |-> w, edited |-> d, waits |-> b] /\ d \in BOOLEAN /\ b \in BOOLEAN
  <2>1. r = [slot |-> r.slot, copy |-> r.copy, w |-> r.w, edited |-> r.edited, waits |-> r.waits]
        /\ r.edited \in BOOLEAN /\ r.waits \in BOOLEAN
    BY Zenon DEF IsPage, Make
  <2> QED
    BY <2>1
<1>2. r.slot = s /\ r.copy = c /\ r.w = w /\ r.edited = d /\ r.waits = b
  BY <1>1, SMT
<1>3. [r EXCEPT !.w = x] = [slot |-> s, copy |-> c, w |-> x, edited |-> d, waits |-> b]
  BY <1>1, SMT
<1>4. [r EXCEPT !.edited = e] = [slot |-> s, copy |-> c, w |-> w, edited |-> e, waits |-> b]
  BY <1>1, SMT
<1>5. [r EXCEPT !.waits = e] = [slot |-> s, copy |-> c, w |-> w, edited |-> d, waits |-> e]
  BY <1>1, SMT
<1>6. [r EXCEPT !.copy = x] = [slot |-> s, copy |-> x, w |-> w, edited |-> d, waits |-> b]
  BY <1>1, SMT
<1> QED
  BY <1>2, <1>3, <1>4, <1>5, <1>6, Zenon DEF Make

LEMMA GrabEdits ==
  ASSUME NEW h, IsGrab(h), h # NoGrab, NEW x
  PROVE  /\ [h EXCEPT !.step = x] = Asked(x, h.place, h.serial, h.class)
         /\ [h EXCEPT !.class = x] = Asked(h.step, h.place, h.serial, x)
<1>1. PICK s, p, n, c : h = [step |-> s, place |-> p, serial |-> n, class |-> c]
  BY Zenon DEF IsGrab, Asked
<1>2. h.step = s /\ h.place = p /\ h.serial = n /\ h.class = c
  BY <1>1, SMT
<1>3. [h EXCEPT !.step = x] = [step |-> x, place |-> p, serial |-> n, class |-> c]
  BY <1>1, SMT
<1>4. [h EXCEPT !.class = x] = [step |-> s, place |-> p, serial |-> n, class |-> x]
  BY <1>1, SMT
<1> QED
  BY <1>2, <1>3, <1>4, Zenon DEF Asked

LEMMA AskedFields ==
  ASSUME NEW s \in {"waits", "closed", "done"}, NEW p \in Places, NEW n \in Nat, NEW c
  PROVE  LET h == Asked(s, p, n, c)
         IN IsGrab(h) /\ h.step = s /\ h.place = p /\ h.serial = n /\ h.class = c /\ h # NoGrab
<1> DEFINE h == Asked(s, p, n, c)
<1>1. h.step = s /\ h.place = p /\ h.serial = n /\ h.class = c
  BY SMT DEF Asked
<1>2. NoGrab.step = "off" /\ s # "off"
  BY SMT DEF NoGrab
<1> HIDE DEF h
<1>3. IsGrab(h)
  BY <1>1, Zenon DEF IsGrab, h
<1> QED
  BY <1>1, <1>2, <1>3 DEF h

LEMMA NoGrabIs == NoGrab.step = "off" /\ IsGrab(NoGrab)
<1>1. NoGrab.step = "off"
  BY SMT DEF NoGrab
<1> QED
  BY <1>1 DEF IsGrab

LEMMA GrabIs ==
  ASSUME NEW h, IsGrab(h)
  PROVE  /\ h.step # "off" => /\ h # NoGrab /\ h = Asked(h.step, h.place, h.serial, h.class)
                              /\ h.step \in {"waits", "closed", "done"} /\ h.place \in Places /\ h.serial \in Nat
         /\ h # NoGrab => h.step # "off"
<1>3. h # NoGrab => h.step \in {"waits", "closed", "done"}
  BY DEF IsGrab
<1> QED
  BY <1>3, NoGrabIs DEF IsGrab

\* The shapes of the state, and what the lists say of the pages.
Pages == /\ page = [p \in Places |-> page[p]]
         /\ \A p \in Places : page[p] # NoPage => IsPage(page[p])
Grabbed  == /\ grab = [g \in Grabs |-> grab[g]] /\ \A g \in Grabs : IsGrab(grab[g])
            /\ serial \in [Places -> Nat]
Icons == /\ shownIcons \subseteq {"taskbar", "icon"} /\ shownIcons # {} /\ rowsListed \subseteq {"taskbar", "icon"}
         /\ (rowsListed = {} => page = Closed)

\* A grab runs for a page: the last one of its place that was open when it started.
Of(g, p) == grab[g].step # "off" /\ grab[g].place = p /\ grab[g].serial = serial[p]
\* The entry of a page is blocked by the grab of the page, or one that ran with another.
Page(g) == <<grab[g].place, grab[g].serial>>
Blocked(p) == /\ (\E g \in Grabs : Of(g, p)) => page[p].waits
              /\ page[p].waits => (\E g \in Grabs : Of(g, p)) \/ <<p, serial[p]>> \in together
\* A grab that lost its channel ran with the one that took it.
Crossing ==
  /\ \A g \in Grabs : Runs(g) /\ winFocusChan # g => Page(g) \in together
  /\ \A g \in Grabs, h \in Grabs : Runs(g) /\ Runs(h) /\ g # h => Page(g) \in together
Waits ==
  /\ winFocusChan # Nothing => winFocusChan \in Grabs /\ grab[winFocusChan].step = "waits"
  /\ \A g \in Grabs : grab[g].step # "off" => grab[g].serial <= serial[grab[g].place]
  /\ \A g \in Grabs, h \in Grabs, p \in Places : Of(g, p) /\ Of(h, p) => g = h
  /\ \A p \in Places : page[p] # NoPage => Blocked(p)
  /\ Crossing
Chosen == page["icons"] # NoPage => page["icons"].slot = selected
Held == Pages /\ Grabbed /\ Icons /\ (up => Waits /\ Chosen)

LEMMA StillCrossing ==
  ASSUME Crossing, UNCHANGED <<grab, winFocusChan, together>>
  PROVE  Crossing'
<1>1. \A g : (Runs(g)' <=> Runs(g)) /\ Page(g)' = Page(g)
  BY Zenon DEF Runs, Page
<1> QED
  BY <1>1, Zenon DEF Crossing

\* A page that opens is not that of a running grab.
LEMMA OpenedWaits ==
  ASSUME Pages, Grabbed, Waits, NEW p \in Places, NEW s \in Slots,
         OpenPage(p, s), UNCHANGED <<grab, winFocusChan, together>>
  PROVE  /\ Pages' /\ Grabbed' /\ Waits'
         /\ page'[p] # NoPage => page'[p].slot = s
         /\ \A q \in Places : q # p => page'[q] = page[q]
<1>1. PICK r : /\ page' = [page EXCEPT ![p] = r]
               /\ r = NoPage \/ (IsPage(r) /\ r.slot = s /\ ~r.waits /\ r # NoPage)
  <2> DEFINE c == [t \in {u \in Slots : Conf(u) = Conf(s)} |-> file[t]]
             w == buildKey(KeyOf(s), file[s])
             r == [slot |-> s, copy |-> c, w |-> w, edited |-> FALSE, waits |-> FALSE]
  <2>1. \/ page' = [page EXCEPT ![p] = r]
        \/ page' = [page EXCEPT ![p] = NoPage]
    BY Zenon DEF OpenPage
  <2>2. r = BuiltPage(s, c, w)
    BY DEF BuiltPage
  <2> HIDE DEF c, w, r
  <2>3. IsPage(r) /\ r.slot = s /\ ~r.waits /\ r # NoPage
    BY <2>2, NewFields
  <2> HIDE DEF r
  <2> QED
    BY <2>1, <2>3
<1>2. /\ page' = [q \in Places |-> page'[q]] /\ page'[p] = r
      /\ \A q \in Places : q # p => page'[q] = page[q]
  BY <1>1, OneReplaced, Zenon DEF Pages
<1>3. Pages'
  BY <1>1, <1>2, Zenon DEF Pages
<1>4. /\ serial' \in [Places -> Nat] /\ serial'[p] = serial[p] + 1 /\ serial[p] \in Nat
      /\ \A q \in Places : q # p => serial'[q] = serial[q]
  BY SMT DEF OpenPage, Grabbed
<1>5. Grabbed'
  BY <1>4, Zenon DEF Grabbed
<1>6. \A g \in Grabs : ~Of(g, p)'
  BY <1>4, GrabIs, SMT DEF Of, Waits, Grabbed
<1>7. \A g \in Grabs : \A q \in Places : q # p => (Of(g, q)' <=> Of(g, q))
  BY <1>4, Zenon DEF Of
<1>8. \A g \in Grabs : grab'[g].step # "off" => grab'[g].serial <= serial'[grab'[g].place]
  <2> TAKE g \in Grabs
  <2> HAVE grab'[g].step # "off"
  <2>1. /\ grab'[g] = grab[g] /\ grab[g].place \in Places /\ grab[g].serial \in Nat
        /\ grab[g].serial <= serial[grab[g].place] /\ serial[grab[g].place] \in Nat
    BY GrabIs, Zenon DEF Waits, Grabbed
  <2>2. serial'[grab[g].place] = serial[grab[g].place] \/ serial'[grab[g].place] = serial[grab[g].place] + 1
    BY <1>4, <2>1
  <2> QED
    BY <2>1, <2>2, SMT
<1>9. Waits'
  <2>1. \A g \in Grabs, h \in Grabs, q \in Places : Of(g, q)' /\ Of(h, q)' => g = h
    BY <1>6, <1>7, Zenon DEF Waits
  <2>2. \A q \in Places : page'[q] # NoPage => Blocked(q)'
    <3> TAKE q \in Places
    <3> HAVE page'[q] # NoPage
    <3>1. CASE q = p
      BY <1>1, <1>2, <1>6, <3>1, Zenon DEF Blocked
    <3>2. CASE q # p
      <4>1. page'[q] = page[q] /\ serial'[q] = serial[q] /\ Blocked(q)
        BY <1>2, <1>4, <3>2, Zenon DEF Waits
      <4> QED
        BY <1>7, <3>2, <4>1, Zenon DEF Blocked
    <3> QED
      BY <3>1, <3>2
  <2>3. winFocusChan' # Nothing => winFocusChan' \in Grabs /\ grab'[winFocusChan'].step = "waits"
    BY Zenon DEF Waits
  <2>4. Crossing'
    BY StillCrossing DEF Waits
  <2> QED
    BY <1>8, <2>1, <2>2, <2>3, <2>4, Zenon DEF Waits
<1> QED
  BY <1>1, <1>2, <1>3, <1>5, <1>9

\* Pages that stay, or are closed, keep their grab.
LEMMA KeptWaits ==
  ASSUME Grabbed, Waits, UNCHANGED <<grab, winFocusChan, together, serial>>,
         \A p \in Places : page'[p] # NoPage =>
           page[p] # NoPage /\ (page'[p].waits <=> page[p].waits)
  PROVE  Grabbed' /\ Waits'
<1>1. \A g : \A p : Of(g, p)' <=> Of(g, p)
  BY Zenon DEF Of
<1>2. \A p \in Places : page'[p] # NoPage => Blocked(p)'
  BY <1>1, Zenon DEF Waits, Blocked
<1>3. \A g \in Grabs, h \in Grabs, p \in Places : Of(g, p)' /\ Of(h, p)' => g = h
  BY <1>1, Zenon DEF Waits
<1>4. \A g \in Grabs : grab'[g].step # "off" => grab'[g].serial <= serial'[grab'[g].place]
  BY Zenon DEF Waits
<1>5. winFocusChan' # Nothing => winFocusChan' \in Grabs /\ grab'[winFocusChan'].step = "waits"
  BY Zenon DEF Waits
<1>6. Crossing'
  BY StillCrossing DEF Waits
<1> QED
  BY <1>2, <1>3, <1>4, <1>5, <1>6, Zenon DEF Waits, Grabbed

\* An edit changes the widget and the mark of a page.
LEMMA OnePage ==
  ASSUME Pages, NEW p \in Places, page[p] # NoPage, NEW w, NEW e \in BOOLEAN,
         OnPage(p, w, e)
  PROVE  /\ Pages' /\ page'[p] = Make(page[p].slot, page[p].copy, w, page[p].edited \/ e, page[p].waits)
         /\ page'[p] # NoPage /\ page'[p].slot = page[p].slot /\ (page'[p].waits <=> page[p].waits)
         /\ \A q \in Places : q # p => page'[q] = page[q]
<1> DEFINE f == page[p].edited \/ e
           r == Make(page[p].slot, page[p].copy, w, f, page[p].waits)
           one == [page[p] EXCEPT !.w = w]
           two == [one EXCEPT !.edited = f]
<1>1. IsPage(page[p]) /\ page[p].slot \in Slots /\ page[p].edited \in BOOLEAN /\ page[p].waits \in BOOLEAN
  BY DEF Pages, IsPage
<1>2. one = Make(page[p].slot, page[p].copy, w, page[p].edited, page[p].waits)
  BY <1>1, PageEdits
<1> HIDE DEF one
<1>3. /\ IsPage(one) /\ one.slot = page[p].slot /\ one.copy = page[p].copy /\ one.w = w
      /\ (one.edited <=> page[p].edited) /\ (one.waits <=> page[p].waits) /\ one.waits \in BOOLEAN /\ one.edited \in BOOLEAN
  <2>1. /\ IsPage(one) /\ one.slot = page[p].slot /\ one.copy = page[p].copy /\ one.w = w
        /\ (one.edited <=> page[p].edited) /\ (one.waits <=> page[p].waits)
    BY <1>1, <1>2, MakeFields
  <2> QED
    BY <2>1 DEF IsPage
<1>4. f \in BOOLEAN
  BY <1>1
<1>5. two = r
  <2> HIDE DEF f
  <2>1. two = Make(one.slot, one.copy, one.w, f, one.waits)
    BY <1>3, <1>4, PageEdits
  <2>2. one.waits = page[p].waits
    BY <1>1, <1>3
  <2> QED
    BY <1>3, <2>1, <2>2
<1> HIDE DEF f
<1>6. /\ page' = [q \in Places |-> page'[q]] /\ page'[p] = two
      /\ \A q \in Places : q # p => page'[q] = page[q]
  <2> DEFINE first == [page EXCEPT ![p] = one]
             last == [first EXCEPT ![p] = two]
  <2>1. page' = [page EXCEPT ![p].w = w, ![p].edited = @ \/ e]
    BY DEF OnPage
  <2>2. /\ first = [q \in Places |-> first[q]] /\ first[p] = one
        /\ \A q \in Places : q # p => first[q] = page[q]
    BY OneReplaced, Zenon DEF Pages
  <2>3. page' = [first EXCEPT ![p].edited = @ \/ e]
    BY <2>1 DEF one
  <2> HIDE DEF first
  <2>4. page' = [first EXCEPT ![p] = [first[p] EXCEPT !.edited = first[p].edited \/ e]]
    BY <2>3
  <2>5. page' = last
    BY <2>4, <2>2, <1>3 DEF f
  <2> HIDE DEF two
  <2>6. /\ last = [q \in Places |-> last[q]] /\ last[p] = two
        /\ \A q \in Places : q # p => last[q] = first[q]
    BY <2>2, OneReplaced, Zenon
  <2> QED
    BY <2>2, <2>5, <2>6
<1> HIDE DEF two
<1>7. IsPage(r) /\ r # NoPage /\ r.slot = page[p].slot /\ (r.waits <=> page[p].waits)
  BY <1>1, <1>4, MakeFields
<1> HIDE DEF r
<1>8. /\ page' = [q \in Places |-> page'[q]] /\ page'[p] = r
      /\ \A q \in Places : q # p => page'[q] = page[q]
  BY <1>5, <1>6
<1> QED
  BY <1>7, <1>8, Zenon DEF Pages, r, f

LEMMA ClosedPages ==
  /\ Closed = [p \in Places |-> Closed[p]]
  /\ \A p \in Places : Closed[p] = NoPage
  /\ "icons" \in Places /\ "config" \in Places /\ "icons" # "config"
  /\ \A s \in {"taskbar", "icon", "core", "own"} : s \in Slots
  BY SMT DEF Closed, Places, Slots

LEMMA HeldInit ==
  ASSUME GuiInit
  PROVE  Held
<1>1. /\ page = Closed /\ serial = [p \in Places |-> 0] /\ grab = [g \in Grabs |-> NoGrab]
      /\ winFocusChan = Nothing /\ rowsListed = {} /\ shownIcons = {"taskbar", "icon"}
  BY Zenon DEF GuiInit
<1>2. Pages
  BY <1>1, ClosedPages, Zenon DEF Pages
<1>3. /\ \A g \in Grabs : grab[g] = NoGrab
      /\ grab = [g \in Grabs |-> grab[g]]
  BY <1>1
<1>4. Grabbed
  <2>1. serial \in [Places -> Nat]
    BY <1>1, SMT
  <2> QED
    BY <1>3, <2>1, NoGrabIs, Zenon DEF Grabbed
<1>5. Icons
  BY <1>1, SMT DEF Icons
<1>6. Waits
  <2>1. \A g \in Grabs : grab[g].step = "off"
    BY <1>3, NoGrabIs, Zenon
  <2>2. \A p \in Places : page[p] = NoPage
    BY <1>1, ClosedPages, Zenon
  <2>3. \A g \in Grabs : ~Runs(g)
    BY <2>1 DEF Runs
  <2> QED
    BY <1>1, <2>1, <2>2, <2>3, Zenon DEF Waits, Of, Crossing
<1>7. Chosen
  BY <1>1, ClosedPages, Zenon DEF Chosen
<1> QED
  BY <1>2, <1>4, <1>5, <1>6, <1>7 DEF Held

\* The page of the selected row is built again, or stays.
LEMMA RowHeld ==
  ASSUME Held, up, NEW s \in {"taskbar", "icon"}, selected' = s, UNCHANGED <<grab, winFocusChan, together>>,
         OpenPage("icons", s) \/ (s = selected /\ UNCHANGED <<page, serial>>)
  PROVE  Pages' /\ Grabbed' /\ Waits' /\ Chosen'
<1>1. Pages /\ Grabbed /\ Waits /\ Chosen
  BY DEF Held
<1>2. CASE OpenPage("icons", s)
  <2>1. /\ Pages' /\ Grabbed' /\ Waits'
        /\ page'["icons"] # NoPage => page'["icons"].slot = s
    <3>1. "icons" \in Places /\ s \in Slots
      BY ClosedPages
    <3> QED
      BY <1>1, <1>2, <3>1, OpenedWaits
  <2> QED
    BY <2>1 DEF Chosen
<1>3. CASE s = selected /\ UNCHANGED <<page, serial>>
  <2>1. Pages' /\ Chosen'
    BY <1>1, <1>3 DEF Pages, Chosen
  <2>2. Grabbed' /\ Waits'
    BY <1>1, <1>3, KeptWaits
  <2> QED
    BY <2>1, <2>2
<1> QED
  BY <1>2, <1>3

LEMMA ShowItemsHeld ==
  ASSUME Held, NEW s \in {"taskbar", "icon"}, ShowItems(s)
  PROVE  Held'
<1> DEFINE rows == IF rowsListed = {} THEN shownIcons ELSE rowsListed
<1>1. /\ up /\ rowsListed' = rows /\ s \in shownIcons
      /\ shownIcons' = shownIcons /\ grab' = grab /\ winFocusChan' = winFocusChan /\ together' = together
      /\ \/ s \in rows /\ SelectRow_(s)
         \/ UNCHANGED <<selected, page, serial, up>>
  BY Zenon DEF ShowItems, Event, grabVars, placeVars
<1>2. Pages /\ Grabbed /\ Icons /\ Waits /\ Chosen
  BY <1>1 DEF Held
<1>3. Icons'
  BY <1>1, <1>2 DEF Icons
<1>4. CASE s \in rows /\ SelectRow_(s)
  <2>1. selected' = s /\ (OpenPage("icons", s) \/ (s = selected /\ UNCHANGED <<page, serial>>))
    BY <1>4, Zenon DEF SelectRow_, placeVars
  <2>2. Pages' /\ Grabbed' /\ Waits' /\ Chosen'
    BY <1>1, <2>1, RowHeld
  <2> QED
    BY <1>3, <2>2 DEF Held
<1>5. CASE UNCHANGED <<selected, page, serial, up>>
  <2>1. Pages' /\ Chosen'
    BY <1>2, <1>5 DEF Pages, Chosen
  <2>2. Grabbed' /\ Waits'
    BY <1>1, <1>2, <1>5, KeptWaits
  <2> QED
    BY <1>3, <2>1, <2>2 DEF Held
<1> QED
  BY <1>1, <1>4, <1>5

LEMMA ClickRowHeld ==
  ASSUME Held, NEW s \in {"taskbar", "icon"}, ClickRow(s)
  PROVE  Held'
<1>1. /\ up /\ rowsListed' = rowsListed /\ s \in rowsListed
      /\ shownIcons' = shownIcons /\ grab' = grab /\ winFocusChan' = winFocusChan /\ together' = together
      /\ selected' = s /\ (OpenPage("icons", s) \/ (s = selected /\ UNCHANGED <<page, serial>>))
  BY Zenon DEF ClickRow, Event, grabVars, placeVars, SelectRow_
<1>2. Icons'
  BY <1>1 DEF Icons, Held
<1>3. Pages' /\ Grabbed' /\ Waits' /\ Chosen'
  BY <1>1, RowHeld
<1> QED
  BY <1>2, <1>3 DEF Held

LEMMA SelectCoreHeld ==
  ASSUME Held, NEW s \in {"core", "own"}, SelectCore(s)
  PROVE  Held'
<1>1. /\ up /\ rowsListed' = rowsListed /\ rowsListed # {} /\ shownIcons' = shownIcons
      /\ grab' = grab /\ winFocusChan' = winFocusChan /\ together' = together /\ selected' = selected /\ OpenPage("config", s)
  BY Zenon DEF SelectCore, Event, grabVars, rowVars
<1>2. /\ Pages' /\ Grabbed' /\ Waits'
      /\ \A q \in Places : q # "config" => page'[q] = page[q]
  <2>1. "config" \in Places /\ s \in Slots
    BY ClosedPages
  <2> QED
    BY <1>1, <2>1, OpenedWaits DEF Held
<1>3. Chosen'
  BY <1>1, <1>2, ClosedPages DEF Held, Chosen
<1>4. Icons'
  BY <1>1 DEF Icons, Held
<1> QED
  BY <1>2, <1>3, <1>4 DEF Held

\* Steps that leave the pages and the grabs as they are.
LEMMA StillHeld ==
  ASSUME Held, up, UNCHANGED <<page, serial, grab, winFocusChan, together, selected, rowsListed>>,
         shownIcons' \subseteq {"taskbar", "icon"}, shownIcons' # {}
  PROVE  Held'
<1>1. Pages' /\ Chosen' /\ Icons'
  BY DEF Pages, Chosen, Held, Icons
<1>2. Grabbed' /\ Waits'
  BY KeptWaits DEF Held
<1> QED
  BY <1>1, <1>2 DEF Held

LEMMA UnselectHeld ==
  ASSUME Held, up, Unselect, UNCHANGED <<grab, winFocusChan, together>>
  PROVE  Pages' /\ Grabbed' /\ Waits' /\ Chosen'
<1>1. page' = [page EXCEPT !["icons"] = NoPage] /\ serial' = serial
  BY Zenon DEF Unselect
<1>2. /\ page' = [q \in Places |-> page'[q]] /\ page'["icons"] = NoPage
      /\ \A q \in Places : q # "icons" => page'[q] = page[q]
  BY <1>1, ClosedPages, OneReplaced, Zenon DEF Held, Pages
<1>3. Pages' /\ Chosen'
  BY <1>2, Zenon DEF Held, Pages, Chosen
<1>4. Grabbed' /\ Waits'
  <2>1. \A p \in Places : page'[p] # NoPage =>
           page[p] # NoPage /\ (page'[p].waits <=> page[p].waits)
    BY <1>2, Zenon
  <2> QED
    BY <1>1, <2>1, KeptWaits DEF Held
<1> QED
  BY <1>3, <1>4

LEMMA ReloadItemsHeld ==
  ASSUME Held, ReloadItems
  PROVE  Held'
<1> DEFINE path == IF iconToSelect # Nothing THEN iconToSelect ELSE selected
<1>1. /\ up /\ rowsListed' = shownIcons /\ shownIcons' = shownIcons /\ grab' = grab /\ winFocusChan' = winFocusChan /\ together' = together
      /\ \/ path \in shownIcons /\ selected' = path /\ OpenPage("icons", path)
         \/ Unselect
  BY Zenon DEF ReloadItems, Event, grabVars, Load
<1>2. Icons'
  BY <1>1 DEF Icons, Held
<1>3. Pages' /\ Grabbed' /\ Waits' /\ Chosen'
  <2>1. CASE path \in shownIcons /\ selected' = path /\ OpenPage("icons", path)
    <3>1. path \in {"taskbar", "icon"}
      BY <2>1 DEF Held, Icons
    <3> QED
      BY <1>1, <2>1, <3>1, RowHeld
  <2>2. CASE Unselect
    BY <1>1, <2>2, UnselectHeld
  <2> QED
    BY <1>1, <2>1, <2>2
<1> QED
  BY <1>2, <1>3 DEF Held

LEMMA CloseGuiHeld ==
  ASSUME Held, CloseGui
  PROVE  Held'
<1>1. /\ up /\ page' = Closed /\ rowsListed' = {} /\ shownIcons' = shownIcons
      /\ UNCHANGED <<grab, winFocusChan, together, serial>>
  BY Zenon DEF CloseGui, Event, grabVars
<1>2. \A p \in Places : page'[p] = NoPage
  BY <1>1, ClosedPages, Zenon
<1>3. Pages' /\ Chosen'
  BY <1>1, <1>2, ClosedPages, Zenon DEF Pages, Chosen
<1>4. Icons'
  BY <1>1, SMT DEF Icons, Held
<1>5. Grabbed' /\ Waits'
  BY <1>1, <1>2, KeptWaits DEF Held
<1> QED
  BY <1>3, <1>4, <1>5 DEF Held

LEMMA RestartHeld ==
  ASSUME Held, Restart
  PROVE  Held'
<1>1. /\ up /\ rowsListed = {} /\ grab' = [g \in Grabs |-> NoGrab] /\ winFocusChan' = Nothing
      /\ UNCHANGED <<page, serial, selected, rowsListed, shownIcons>>
  BY Zenon DEF Restart, Event, rowVars, placeVars
<1>2. Pages' /\ Icons' /\ Chosen'
  BY <1>1 DEF Held, Pages, Icons, Chosen
<1>3. /\ \A g \in Grabs : grab'[g] = NoGrab
      /\ grab' = [g \in Grabs |-> grab'[g]]
  BY <1>1
<1>4. Grabbed'
  BY <1>1, <1>3, NoGrabIs, Zenon DEF Grabbed, Held
<1>5. \A p \in Places : page'[p] = NoPage
  BY <1>1, ClosedPages, Zenon DEF Held, Icons
<1>6. Waits'
  <2>1. \A g \in Grabs : grab'[g].step = "off"
    BY <1>3, NoGrabIs, Zenon
  <2>2. \A g \in Grabs : ~Runs(g)'
    BY <2>1 DEF Runs
  <2> QED
    BY <1>1, <1>5, <2>1, <2>2, Zenon DEF Waits, Of, Crossing
<1> QED
  BY <1>2, <1>4, <1>6 DEF Held

\* A page open at one place is changed, and keeps its slot and its grab.
LEMMA ChangedHeld ==
  ASSUME Held, up, NEW p \in Places, page[p] # NoPage, Pages',
         page'[p].slot = page[p].slot, page'[p].waits <=> page[p].waits,
         \A q \in Places : q # p => page'[q] = page[q],
         UNCHANGED <<serial, grab, winFocusChan, together, selected, rowsListed, shownIcons>>
  PROVE  Held'
<1>1. rowsListed # {}
  BY ClosedPages DEF Held, Icons
<1>2. Icons'
  BY <1>1 DEF Held, Icons
<1>3. Chosen'
  <2>1. CASE p = "icons"
    BY <2>1, Zenon DEF Held, Chosen
  <2>2. CASE p # "icons"
    <3>1. page'["icons"] = page["icons"]
      BY <2>2, ClosedPages
    <3> QED
      BY <3>1, Zenon DEF Held, Chosen
  <2> QED
    BY <2>1, <2>2
<1>4. Grabbed' /\ Waits'
  <2>1. \A q \in Places : page'[q] # NoPage =>
           page[q] # NoPage /\ (page'[q].waits <=> page[q].waits)
    <3> TAKE q \in Places
    <3>1. CASE q = p
      BY <3>1
    <3>2. CASE q # p
      <4>1. page'[q] = page[q]
        BY <3>2
      <4> QED
        BY <4>1
    <3> QED
      BY <3>1, <3>2
  <2> QED
    BY <2>1, KeptWaits DEF Held
<1> QED
  BY <1>2, <1>3, <1>4 DEF Held

\* What the edits have in common.
LEMMA EditsAre ==
  ASSUME NEW p \in Places, Edits(p)
  PROVE  /\ page[p] # NoPage /\ up
         /\ \/ \E w : \E e \in BOOLEAN : OnPage(p, w, e)
            \/ ~up' /\ UNCHANGED <<page, serial, selected, rowsListed, shownIcons, grab, winFocusChan, together, file, key, saves>>
<1> DEFINE On == \E w : \E e \in BOOLEAN : OnPage(p, w, e)
           Open == page[p] # NoPage
<1>t. TRUE \in BOOLEAN /\ FALSE \in BOOLEAN
  OBVIOUS
<1>1. EditValue(p) => Open /\ On
  BY <1>t, Zenon DEF EditValue, Shows
<1>2. EditPair(p) => Open /\ On
  BY <1>t, Zenon DEF EditPair, Shows
<1>3. EditColor(p) => Open /\ On
  BY <1>t, Zenon DEF EditColor, Shows
<1>4. EditChoice(p) => Open /\ On
  BY <1>t, Zenon DEF EditChoice, Shows
<1>5. EditFont(p) => Open /\ On
  BY <1>t, Zenon DEF EditFont, Shows
<1>6. EditText(p) => Open /\ On
  BY <1>t, Zenon DEF EditText, Shows
<1>7. EditTree(p) => Open /\ On
  BY <1>t, Zenon DEF EditTree, Shows
<1>8. Focus(p) => Open /\ On
  BY <1>t, Zenon DEF Focus, Shows
<1>9. On => up
  BY Zenon DEF OnPage, Step_
<1>10. Reset(p) =>
         Open /\ (On \/ (up /\ ~up' /\ UNCHANGED <<page, serial, selected, rowsListed, shownIcons, grab, winFocusChan, together, file, key, saves>>))
  <2> HAVE Reset(p)
  <2>1. Open
    BY DEF Reset
  <2>2. CASE OnPage(p, PackReset(KeyOf(page[p].slot), page[p].w), TRUE)
    BY <1>t, <2>1, <2>2, Zenon
  <2>3. CASE /\ Step_ /\ up' = FALSE
             /\ UNCHANGED <<confVars, fileVars, rowVars, placeVars, grabVars>>
    BY <2>1, <2>3, Zenon DEF Step_, confVars, fileVars, rowVars, placeVars, grabVars
  <2> QED
    BY <2>2, <2>3, Zenon DEF Reset
<1> HIDE DEF On
<1>11. Open /\ (On \/ (up /\ ~up' /\ UNCHANGED <<page, serial, selected, rowsListed, shownIcons, grab, winFocusChan, together, file, key, saves>>))
  BY <1>1, <1>2, <1>3, <1>4, <1>5, <1>6, <1>7, <1>8, <1>10, Zenon DEF Edits
<1> QED
  BY <1>9, <1>11 DEF On

LEMMA EditsHeld ==
  ASSUME Held, NEW p \in Places, Edits(p)
  PROVE  Held'
<1>1. page[p] # NoPage /\ up
  BY EditsAre
<1>2. ASSUME NEW w, NEW e \in BOOLEAN, OnPage(p, w, e) PROVE Held'
  <2>1. UNCHANGED <<serial, grab, winFocusChan, together, selected, rowsListed, shownIcons>>
    BY <1>2, Zenon DEF OnPage, rowVars, grabVars
  <2>2. /\ Pages' /\ page'[p].slot = page[p].slot /\ (page'[p].waits <=> page[p].waits)
        /\ \A q \in Places : q # p => page'[q] = page[q]
    BY <1>1, <1>2, OnePage DEF Held
  <2> QED
    BY <1>1, <2>1, <2>2, ChangedHeld
<1>3. CASE ~up' /\ UNCHANGED <<page, serial, selected, rowsListed, shownIcons, grab, winFocusChan, together, file, key, saves>>
  BY <1>1, <1>3, StillHeld DEF Held, Icons
<1> QED
  BY <1>2, <1>3, EditsAre

\* A save changes the copy of the file and the mark of a page.
LEMMA SavedPage ==
  ASSUME Pages, NEW p \in Places, page[p] # NoPage, NEW c, NEW d \in BOOLEAN,
         page' = [page EXCEPT ![p].copy = c, ![p].edited = @ /\ ~d]
  PROVE  /\ Pages' /\ page'[p] = Make(page[p].slot, c, page[p].w, page[p].edited /\ ~d, page[p].waits)
         /\ page'[p] # NoPage /\ page'[p].slot = page[p].slot /\ (page'[p].waits <=> page[p].waits)
         /\ \A q \in Places : q # p => page'[q] = page[q]
<1> DEFINE f == page[p].edited /\ ~d
           r == Make(page[p].slot, c, page[p].w, f, page[p].waits)
           one == [page[p] EXCEPT !.copy = c]
           two == [one EXCEPT !.edited = f]
<1>1. IsPage(page[p]) /\ page[p].slot \in Slots /\ page[p].edited \in BOOLEAN /\ page[p].waits \in BOOLEAN
  BY DEF Pages, IsPage
<1>2. one = Make(page[p].slot, c, page[p].w, page[p].edited, page[p].waits)
  BY <1>1, PageEdits
<1> HIDE DEF one
<1>3. /\ IsPage(one) /\ one.slot = page[p].slot /\ one.copy = c /\ one.w = page[p].w
      /\ (one.edited <=> page[p].edited) /\ (one.waits <=> page[p].waits) /\ one.waits \in BOOLEAN /\ one.edited \in BOOLEAN
  <2>1. /\ IsPage(one) /\ one.slot = page[p].slot /\ one.copy = c /\ one.w = page[p].w
        /\ (one.edited <=> page[p].edited) /\ (one.waits <=> page[p].waits)
    BY <1>1, <1>2, MakeFields
  <2> QED
    BY <2>1 DEF IsPage
<1>4. f \in BOOLEAN
  BY <1>1
<1>5. two = r
  <2> HIDE DEF f
  <2>1. two = Make(one.slot, one.copy, one.w, f, one.waits)
    BY <1>3, <1>4, PageEdits
  <2>2. one.waits = page[p].waits
    BY <1>1, <1>3
  <2> QED
    BY <1>3, <2>1, <2>2
<1> HIDE DEF f
<1>6. /\ page' = [q \in Places |-> page'[q]] /\ page'[p] = two
      /\ \A q \in Places : q # p => page'[q] = page[q]
  <2> DEFINE first == [page EXCEPT ![p] = one]
             last == [first EXCEPT ![p] = two]
  <2>2. /\ first = [q \in Places |-> first[q]] /\ first[p] = one
        /\ \A q \in Places : q # p => first[q] = page[q]
    BY OneReplaced, Zenon DEF Pages
  <2>3. page' = [first EXCEPT ![p].edited = @ /\ ~d]
    BY DEF one
  <2> HIDE DEF first
  <2>4. page' = [first EXCEPT ![p] = [first[p] EXCEPT !.edited = first[p].edited /\ ~d]]
    BY <2>3
  <2>5. page' = last
    BY <2>4, <2>2, <1>3 DEF f
  <2> HIDE DEF two
  <2>6. /\ last = [q \in Places |-> last[q]] /\ last[p] = two
        /\ \A q \in Places : q # p => last[q] = first[q]
    BY <2>2, OneReplaced, Zenon
  <2> QED
    BY <2>2, <2>5, <2>6
<1> HIDE DEF two
<1>7. IsPage(r) /\ r # NoPage /\ r.slot = page[p].slot /\ (r.waits <=> page[p].waits)
  BY <1>1, <1>4, MakeFields
<1> HIDE DEF r
<1>8. /\ page' = [q \in Places |-> page'[q]] /\ page'[p] = r
      /\ \A q \in Places : q # p => page'[q] = page[q]
  BY <1>5, <1>6
<1> QED
  BY <1>7, <1>8, Zenon DEF Pages, r, f

LEMMA SaveHeld ==
  ASSUME Held, NEW p \in Places, Save(p)
  PROVE  Held'
<1>1. /\ up /\ page[p] # NoPage
      /\ UNCHANGED <<serial, grab, winFocusChan, together, selected, rowsListed, shownIcons>>
  BY Zenon DEF Save, rowVars, grabVars
<1>2. CASE page' = page
  BY <1>1, <1>2, StillHeld DEF Held, Icons
<1>3. CASE page' # page
  <2> DEFINE s == page[p].slot
  <2>1. PICK value, ok :
          /\ ok \in BOOLEAN
          /\ page' = [page EXCEPT ![p].copy = Written(p, value), ![p].edited = @ /\ ~ok]
    <3>1. PICK value \in Updated(p), opened \in (IF Many THEN BOOLEAN ELSE {TRUE}), lost \in Failures(p) :
            page' = [page EXCEPT ![p].copy = Written(p, value),
                                 ![p].edited = @ /\ ~((opened /\ ToFile(Conf(s))) /\ lost = {})]
      BY <1>3, Zenon DEF Save
    <3> DEFINE done == (opened /\ ToFile(Conf(s))) /\ lost = {}
    <3>2. done \in BOOLEAN
      OBVIOUS
    <3> QED
      BY <3>1, <3>2, Zenon
  <2> DEFINE d == ok
             c == Written(p, value)
  <2>2. d \in BOOLEAN
    BY <2>1
  <2>3. page' = [page EXCEPT ![p].copy = c, ![p].edited = @ /\ ~d]
    BY <2>1
  <2> HIDE DEF d, c
  <2>4. /\ Pages' /\ page'[p].slot = page[p].slot /\ (page'[p].waits <=> page[p].waits)
        /\ \A q \in Places : q # p => page'[q] = page[q]
    BY <1>1, <2>2, <2>3, SavedPage DEF Held
  <2> QED
    BY <1>1, <2>4, ChangedHeld
<1> QED
  BY <1>2, <1>3

LEMMA GrabStartHeld ==
  ASSUME Held, NEW g \in Grabs, NEW p \in Places, GrabStart(g, p)
  PROVE  Held'
<1> DEFINE h == Asked("waits", p, serial[p], <<>>)
           m == [page[p] EXCEPT !.waits = TRUE]
<1>1. /\ up /\ grab[g].step = "off" /\ page[p] # NoPage /\ ~page[p].waits
      /\ page' = [page EXCEPT ![p].waits = TRUE] /\ winFocusChan' = g
      /\ UNCHANGED <<serial, up, selected, rowsListed, shownIcons>>
  BY Zenon DEF GrabStart, Event, Shows, rowVars
<1>2. Pages /\ Grabbed /\ Waits /\ Chosen /\ Icons
  BY <1>1 DEF Held
<1>3. grab' = [grab EXCEPT ![g] = h]
  BY DEF GrabStart, Asked
<1>4. serial[p] \in Nat
  BY <1>2, Zenon DEF Grabbed
<1>5. IsGrab(h) /\ h.step = "waits" /\ h.place = p /\ h.serial = serial[p]
  BY <1>4, AskedFields
<1> HIDE DEF h
<1>6. /\ grab' = [x \in Grabs |-> grab'[x]] /\ grab'[g] = h
      /\ \A x \in Grabs : x # g => grab'[x] = grab[x]
  BY <1>2, <1>3, OneReplaced, Zenon DEF Grabbed
<1>7. Grabbed'
  <2>1. \A x \in Grabs : IsGrab(grab'[x])
    BY <1>2, <1>5, <1>6, Zenon DEF Grabbed
  <2> QED
    BY <1>1, <1>2, <1>6, <2>1, Zenon DEF Grabbed
<1>8. /\ IsPage(m) /\ m # NoPage /\ m.slot = page[p].slot /\ m.waits
  <2>1. IsPage(page[p]) /\ page[p].slot \in Slots /\ page[p].edited \in BOOLEAN /\ TRUE \in BOOLEAN
    BY <1>1, <1>2 DEF Pages, IsPage
  <2>2. PICK b \in BOOLEAN : b
    OBVIOUS
  <2>3. m = [page[p] EXCEPT !.waits = b]
    BY <2>2
  <2>4. m = Make(page[p].slot, page[p].copy, page[p].w, page[p].edited, b)
    BY <2>1, <2>3, PageEdits
  <2> HIDE DEF m
  <2>5. IsPage(m) /\ m # NoPage /\ m.slot = page[p].slot /\ (m.waits <=> b)
    BY <2>1, <2>4, MakeFields
  <2> QED
    BY <2>2, <2>5
<1>9. /\ page' = [q \in Places |-> page'[q]] /\ page'[p] = m
      /\ \A q \in Places : q # p => page'[q] = page[q]
  <2>1. page' = [page EXCEPT ![p] = m]
    BY <1>1
  <2> HIDE DEF m
  <2> QED
    BY <1>2, <2>1, OneReplaced, Zenon DEF Pages
<1> HIDE DEF m
<1>10. Pages'
  BY <1>2, <1>8, <1>9, Zenon DEF Pages
<1>11. Chosen' /\ Icons'
  <2>1. rowsListed # {}
    BY <1>1, <1>2, ClosedPages, Zenon DEF Icons
  <2>2. Icons'
    BY <1>1, <1>2, <2>1 DEF Icons
  <2>3. CASE p = "icons"
    BY <1>1, <1>2, <1>8, <1>9, <2>2, <2>3, Zenon DEF Chosen
  <2>4. CASE p # "icons"
    <3>1. page'["icons"] = page["icons"]
      BY <1>9, <2>4, ClosedPages
    <3> QED
      BY <1>1, <1>2, <3>1, <2>2, Zenon DEF Chosen
  <2> QED
    BY <2>3, <2>4
<1>t. together \subseteq together'
  <2>1. PICK t : together' = together \/ together' = together \cup t
    <3> DEFINE t == {<<grab[y].place, grab[y].serial>> : y \in {z \in Grabs : Runs(z)}} \cup {<<p, serial[p]>>}
    <3>1. together' = together \/ together' = together \cup t
      BY DEF GrabStart
    <3> HIDE DEF t
    <3> QED
      BY <3>1
  <2> QED
    BY <2>1
<1>r. \A x \in Grabs : Runs(x) => Page(x) \in together' /\ <<p, serial[p]>> \in together'
  <2> TAKE x \in Grabs
  <2> HAVE Runs(x)
  <2> DEFINE others == {y \in Grabs : Runs(y)}
  <2>1. x \in others
    OBVIOUS
  <2>2. together' = IF others = {} THEN together
                    ELSE together \cup {<<grab[y].place, grab[y].serial>> : y \in others} \cup {<<p, serial[p]>>}
    BY DEF GrabStart
  <2> HIDE DEF others
  <2> QED
    BY <2>1, <2>2 DEF Page
<1>c. Crossing'
  <2>1. \A x \in Grabs : x # g => (Runs(x)' <=> Runs(x)) /\ Page(x)' = Page(x)
    BY <1>6, Zenon DEF Runs, Page
  <2>2. Page(g)' = <<p, serial[p]>>
    BY <1>5, <1>6 DEF Page
  <2>3. \A x \in Grabs : Runs(x)' /\ winFocusChan' # x => Page(x)' \in together'
    BY <1>1, <1>r, <2>1, Zenon
  <2>4. \A x \in Grabs, y \in Grabs : Runs(x)' /\ Runs(y)' /\ x # y => Page(x)' \in together'
    <3> TAKE x \in Grabs, y \in Grabs
    <3> HAVE Runs(x)' /\ Runs(y)' /\ x # y
    <3>1. CASE x # g
      BY <1>r, <2>1, <3>1, Zenon
    <3>2. CASE x = g
      <4>1. Runs(y)
        BY <2>1, <3>2, Zenon
      <4> QED
        BY <1>r, <2>2, <3>2, <4>1, Zenon
    <3> QED
      BY <3>1, <3>2
  <2> QED
    BY <2>3, <2>4, Zenon DEF Crossing
<1>12. /\ \A x \in Grabs : x # g => \A q : (Of(x, q)' <=> Of(x, q))
       /\ Of(g, p)' /\ \A q : q # p => ~Of(g, q)'
       /\ \A x \in Grabs : ~Of(x, p)
  <2>1. \A x \in Grabs : x # g => \A q : (Of(x, q)' <=> Of(x, q))
    BY <1>1, <1>6, Zenon DEF Of
  <2>2. Of(g, p)'
    <3>1. "waits" # "off"
      OBVIOUS
    <3> QED
      BY <1>1, <1>5, <1>6, <3>1, Zenon DEF Of
  <2>3. \A q : q # p => ~Of(g, q)'
    BY <1>5, <1>6, Zenon DEF Of
  <2>4. \A x \in Grabs : ~Of(x, p)
    BY <1>1, <1>2, Zenon DEF Waits, Blocked
  <2> QED
    BY <2>1, <2>2, <2>3, <2>4
<1>13. Waits'
  <2>1. winFocusChan' \in Grabs /\ grab'[winFocusChan'].step = "waits"
    BY <1>1, <1>5, <1>6, Zenon
  <2>2. \A x \in Grabs : grab'[x].step # "off" => grab'[x].serial <= serial'[grab'[x].place]
    <3> TAKE x \in Grabs
    <3> HAVE grab'[x].step # "off"
    <3>1. CASE x = g
      <4>1. grab'[x].serial = serial[p] /\ serial'[grab'[x].place] = serial[p]
        BY <1>1, <1>5, <1>6, <3>1, Zenon
      <4> QED
        BY <1>4, <4>1
    <3>2. CASE x # g
      BY <1>1, <1>2, <1>6, <3>2, Zenon DEF Waits
    <3> QED
      BY <3>1, <3>2
  <2>3. \A x \in Grabs, y \in Grabs, q \in Places : Of(x, q)' /\ Of(y, q)' => x = y
    <3> TAKE x \in Grabs, y \in Grabs, q \in Places
    <3> HAVE Of(x, q)' /\ Of(y, q)'
    <3>1. CASE x = g /\ y = g
      BY <3>1
    <3>2. CASE x = g /\ y # g
      BY <1>12, <3>2, Zenon
    <3>3. CASE x # g /\ y = g
      BY <1>12, <3>3, Zenon
    <3>4. CASE x # g /\ y # g
      <4>1. Of(x, q) /\ Of(y, q)
        BY <1>12, <3>4, Zenon
      <4> QED
        BY <1>2, <4>1, Zenon DEF Waits
    <3> QED
      BY <3>1, <3>2, <3>3, <3>4
  <2>4. \A q \in Places : page'[q] # NoPage => Blocked(q)'
    <3> TAKE q \in Places
    <3> HAVE page'[q] # NoPage
    <3>1. CASE q = p
      BY <1>8, <1>9, <1>12, <3>1, Zenon DEF Blocked
    <3>2. CASE q # p
      <4>1. page'[q] = page[q] /\ serial'[q] = serial[q] /\ Blocked(q)
        BY <1>1, <1>2, <1>9, <3>2, Zenon DEF Waits
      <4>2. Of(g, q)' <=> Of(g, q)
        <5>1. ~Of(g, q)
          BY <1>1, Zenon DEF Of
        <5> QED
          BY <1>12, <3>2, <5>1, Zenon
      <4>3. \A x \in Grabs : Of(x, q)' <=> Of(x, q)
        BY <1>12, <4>2, Zenon
      <4> QED
        BY <1>t, <4>1, <4>3 DEF Blocked
    <3> QED
      BY <3>1, <3>2
  <2> QED
    BY <1>c, <2>1, <2>2, <2>3, <2>4, Zenon DEF Waits
<1> QED
  BY <1>7, <1>10, <1>11, <1>13 DEF Held

\* Grabs that go on to another step run for the same pages.
Stepped(c) ==
  /\ grab' = [x \in Grabs |-> grab'[x]]
  /\ \A x \in Grabs : /\ IsGrab(grab'[x]) /\ (grab'[x].step = "off" <=> grab[x].step = "off")
                      /\ grab'[x].place = grab[x].place /\ grab'[x].serial = grab[x].serial
                      /\ grab'[x].class \in {grab[x].class, c}
LEMMA SteppedWaits ==
  ASSUME Grabbed, Waits, winFocusChan \in Grabs, winFocusChan' = Nothing, UNCHANGED <<page, serial, together>>,
         NEW c, Stepped(c), NEW g \in Grabs, Runs(g), ~Runs(g)',
         \A x \in Grabs : x # winFocusChan => (Runs(x)' => Runs(x))
  PROVE  Grabbed' /\ Waits'
<1>1. \A x \in Grabs : \A q : Of(x, q)' <=> Of(x, q)
  BY Zenon DEF Of, Stepped
<1>2. \A q \in Places : page'[q] # NoPage => Blocked(q)'
  BY <1>1, Zenon DEF Waits, Blocked
<1>3. \A x \in Grabs, y \in Grabs, q \in Places : Of(x, q)' /\ Of(y, q)' => x = y
  BY <1>1, Zenon DEF Waits
<1>4. \A x \in Grabs : grab'[x].step # "off" => grab'[x].serial <= serial'[grab'[x].place]
  BY Zenon DEF Waits, Stepped
<1>5. \A x \in Grabs : Runs(x)' => Page(x)' \in together'
  <2> TAKE x \in Grabs
  <2> HAVE Runs(x)'
  <2>1. Page(x)' = Page(x) /\ x # g
    BY Zenon DEF Stepped, Page
  <2>2. Runs(x)
    <3>1. CASE x = winFocusChan
      <4>1. winFocusChan # Nothing
        BY GuiAssumption
      <4>2. grab[winFocusChan].step = "waits"
        BY <4>1 DEF Waits
      <4> QED
        BY <3>1, <4>2 DEF Runs
    <3> QED
      BY <3>1
  <2> QED
    BY <2>1, <2>2, Zenon DEF Waits, Crossing
<1>6. Crossing'
  BY <1>5, Zenon DEF Crossing
<1>7. winFocusChan' # Nothing => winFocusChan' \in Grabs /\ grab'[winFocusChan'].step = "waits"
  OBVIOUS
<1> QED
  BY <1>2, <1>3, <1>4, <1>6, <1>7, Zenon DEF Waits, Grabbed, Stepped

\* A grab that closes no channel is over: its page ran with another.
LEMMA LostHeld ==
  ASSUME Grabbed, Waits, winFocusChan = Nothing, UNCHANGED <<winFocusChan, page, serial, together>>,
         NEW g \in Grabs, Runs(g), g # Nothing, grab' = [grab EXCEPT ![g] = NoGrab]
  PROVE  Grabbed' /\ Waits' /\ grab'[g] = NoGrab /\ \A x \in Grabs : x # g => grab'[x] = grab[x]
<1>1. /\ grab' = [x \in Grabs |-> grab'[x]] /\ grab'[g] = NoGrab
      /\ \A x \in Grabs : x # g => grab'[x] = grab[x]
  BY OneReplaced, Zenon DEF Grabbed
<1>2. Grabbed'
  <2>1. \A x \in Grabs : IsGrab(grab'[x])
    BY <1>1, NoGrabIs, Zenon DEF Grabbed
  <2> QED
    BY <1>1, <2>1, Zenon DEF Grabbed
<1>3. /\ \A q : ~Of(g, q)'
      /\ \A x \in Grabs : x # g => \A q : (Of(x, q)' <=> Of(x, q))
      /\ ~Runs(g)' /\ \A x \in Grabs : x # g => (Runs(x)' <=> Runs(x)) /\ Page(x)' = Page(x)
  <2>1. \A q : ~Of(g, q)'
    BY <1>1, NoGrabIs, Zenon DEF Of
  <2>2. \A x \in Grabs : x # g => \A q : (Of(x, q)' <=> Of(x, q))
    BY <1>1, Zenon DEF Of
  <2>3. ~Runs(g)'
    BY <1>1, NoGrabIs DEF Runs
  <2>4. \A x \in Grabs : x # g => (Runs(x)' <=> Runs(x)) /\ Page(x)' = Page(x)
    BY <1>1, Zenon DEF Runs, Page
  <2> QED
    BY <2>1, <2>2, <2>3, <2>4
<1>4. Page(g) \in together
  BY Zenon DEF Waits, Crossing
<1>5. \A q \in Places : page'[q] # NoPage => Blocked(q)'
  <2> TAKE q \in Places
  <2> HAVE page'[q] # NoPage
  <2>1. Blocked(q)
    BY Zenon DEF Waits
  <2>2. (\E x \in Grabs : Of(x, q)') => \E x \in Grabs : Of(x, q)
    BY <1>3, Zenon
  <2>3. Of(g, q) => <<q, serial[q]>> \in together
    BY <1>4 DEF Of, Page
  <2>4. (\E x \in Grabs : Of(x, q)) => Of(g, q) \/ \E x \in Grabs : Of(x, q)'
    BY <1>3, Zenon
  <2> QED
    BY <2>1, <2>2, <2>3, <2>4, Zenon DEF Blocked
<1>6. \A x \in Grabs, y \in Grabs, q \in Places : Of(x, q)' /\ Of(y, q)' => x = y
  <2> TAKE x \in Grabs, y \in Grabs, q \in Places
  <2> HAVE Of(x, q)' /\ Of(y, q)'
  <2>1. x # g /\ y # g
    BY <1>3, Zenon
  <2>2. Of(x, q) /\ Of(y, q)
    BY <1>3, <2>1, Zenon
  <2> QED
    BY <2>2, Zenon DEF Waits
<1>7. \A x \in Grabs : grab'[x].step # "off" => grab'[x].serial <= serial'[grab'[x].place]
  <2> TAKE x \in Grabs
  <2> HAVE grab'[x].step # "off"
  <2>1. x # g
    BY <1>1, NoGrabIs, Zenon
  <2> QED
    BY <1>1, <2>1, Zenon DEF Waits
<1>8. Crossing'
  BY <1>3, Zenon DEF Waits, Crossing
<1>9. Waits'
  BY <1>5, <1>6, <1>7, <1>8, Zenon DEF Waits
<1> QED
  BY <1>1, <1>2, <1>9

\* A grab that ends, and the one whose channel it closes, run on.
LEMMA FinishHeld ==
  ASSUME Held, up, NEW g \in Grabs, Runs(g), winFocusChan # Nothing, NEW c, Finish(g, c),
         UNCHANGED <<page, serial, together, selected, rowsListed, shownIcons>>
  PROVE  Held' /\ Stepped(c)
<1> DEFINE other == winFocusChan
           one == Asked("done", grab[g].place, grab[g].serial, c)
           mid == [grab EXCEPT ![g] = one]
           two == [mid[other] EXCEPT !.step = "closed"]
<1>1. Pages /\ Grabbed /\ Waits /\ Chosen /\ Icons
  BY DEF Held
<1>2. /\ IsGrab(grab[g]) /\ grab[g] # NoGrab /\ grab[g].place \in Places /\ grab[g].serial \in Nat
  <2>1. grab[g].step # "off"
    BY DEF Runs
  <2> QED
    BY <1>1, <2>1, GrabIs DEF Grabbed
<1>3. IsGrab(one) /\ one.step = "done" /\ one.place = grab[g].place /\ one.serial = grab[g].serial /\ one # NoGrab
      /\ one.class = c
  BY <1>2, AskedFields
<1>4. mid = [grab EXCEPT ![g].step = "done", ![g].class = c]
  <2> DEFINE a == [grab[g] EXCEPT !.step = "done"]
             first == [grab EXCEPT ![g] = a]
  <2>1. a = Asked("done", grab[g].place, grab[g].serial, grab[g].class)
    BY <1>2, GrabEdits
  <2> HIDE DEF a
  <2>2. /\ IsGrab(a) /\ a # NoGrab /\ a.step = "done" /\ a.place = grab[g].place /\ a.serial = grab[g].serial
    BY <1>2, <2>1, AskedFields
  <2>3. [a EXCEPT !.class = c] = one
    <3>1. [a EXCEPT !.class = c] = Asked(a.step, a.place, a.serial, c)
      BY <2>2, GrabEdits
    <3> QED
      BY <2>2, <3>1
  <2>4. [grab EXCEPT ![g].step = "done", ![g].class = c] = [first EXCEPT ![g].class = c]
    BY DEF a
  <2>5. first = [x \in Grabs |-> first[x]] /\ first[g] = a /\ \A x \in Grabs : x # g => first[x] = grab[x]
    BY <1>1, OneReplaced, Zenon DEF Grabbed
  <2> HIDE DEF first
  <2>6. [first EXCEPT ![g].class = c] = [first EXCEPT ![g] = one]
    BY <2>3, <2>5
  <2> HIDE DEF one
  <2> DEFINE last == [first EXCEPT ![g] = one]
  <2>7. last = [x \in Grabs |-> last[x]] /\ last[g] = one /\ \A x \in Grabs : x # g => last[x] = first[x]
    BY <2>5, OneReplaced, Zenon
  <2>8. mid = [x \in Grabs |-> mid[x]] /\ mid[g] = one /\ \A x \in Grabs : x # g => mid[x] = grab[x]
    BY <1>1, OneReplaced, Zenon DEF Grabbed
  <2> HIDE DEF last, mid
  <2>9. \A x \in Grabs : mid[x] = last[x]
    BY <2>5, <2>7, <2>8, Zenon
  <2>10. mid = last
    BY <2>7, <2>8, <2>9
  <2> QED
    BY <2>4, <2>6, <2>10 DEF last
<1> HIDE DEF one
<1>5. mid = [x \in Grabs |-> mid[x]] /\ mid[g] = one /\ \A x \in Grabs : x # g => mid[x] = grab[x]
  BY <1>1, OneReplaced, Zenon DEF Grabbed
<1> HIDE DEF mid
<1>6. ASSUME other = g PROVE Stepped(c)
  <2>1. grab' = mid
    BY <1>4, <1>6, Zenon DEF Finish
  <2>2. \A x \in Grabs : /\ IsGrab(grab'[x]) /\ (grab'[x].step = "off" <=> grab[x].step = "off")
                         /\ grab'[x].place = grab[x].place /\ grab'[x].serial = grab[x].serial
                         /\ grab'[x].class \in {grab[x].class, c}
    <3> TAKE x \in Grabs
    <3>1. CASE x = g
      <4>1. grab'[x] = one /\ "done" # "off" /\ grab[x].step # "off"
        BY <1>5, <2>1, <3>1 DEF Runs
      <4> QED
        BY <1>3, <3>1, <4>1, Zenon
    <3>2. CASE x # g
      BY <1>1, <1>5, <2>1, <3>2, Zenon DEF Grabbed
    <3> QED
      BY <3>1, <3>2
  <2> QED
    BY <1>5, <2>1, <2>2 DEF Stepped
<1>7. ASSUME other # g PROVE Stepped(c) /\ grab'[g] = one /\ \A x \in Grabs : x # other /\ x # g => grab'[x] = grab[x]
  <2>1. other \in Grabs /\ grab[other].step = "waits" /\ other # g /\ mid[other] = grab[other]
    BY <1>1, <1>5, <1>7, Zenon DEF Waits
  <2>2. IsGrab(grab[other]) /\ grab[other] # NoGrab /\ grab[other].place \in Places /\ grab[other].serial \in Nat
    <3>1. IsGrab(grab[other]) /\ grab[other].step # "off"
      BY <1>1, <2>1 DEF Grabbed
    <3> QED
      BY <3>1, GrabIs
  <2>3. grab' = [mid EXCEPT ![other] = two]
    <3>1. grab' = [grab EXCEPT ![g].step = "done", ![g].class = c, ![other].step = "closed"]
      BY <1>7, Zenon DEF Finish
    <3>2. grab' = [[grab EXCEPT ![g].step = "done", ![g].class = c] EXCEPT ![other].step = "closed"]
      BY <3>1
    <3>3. grab' = [mid EXCEPT ![other].step = "closed"]
      BY <1>4, <3>2
    <3> QED
      BY <3>3
  <2>4. /\ IsGrab(two) /\ two.step = "closed" /\ two.place = grab[other].place /\ two.serial = grab[other].serial
        /\ two.class = grab[other].class
    <3>1. two = Asked("closed", grab[other].place, grab[other].serial, grab[other].class)
      BY <2>1, <2>2, GrabEdits
    <3> HIDE DEF two
    <3> QED
      BY <2>2, <3>1, AskedFields
  <2> HIDE DEF two
  <2>5. grab' = [x \in Grabs |-> grab'[x]] /\ grab'[other] = two /\ \A x \in Grabs : x # other => grab'[x] = mid[x]
    BY <1>5, <2>1, <2>3, OneReplaced, Zenon
  <2>6. \A x \in Grabs : /\ IsGrab(grab'[x]) /\ (grab'[x].step = "off" <=> grab[x].step = "off")
                         /\ grab'[x].place = grab[x].place /\ grab'[x].serial = grab[x].serial
                         /\ grab'[x].class \in {grab[x].class, c}
    <3> TAKE x \in Grabs
    <3>1. CASE x = g
      <4>1. grab'[x] = one /\ "done" # "off" /\ grab[x].step # "off"
        BY <1>5, <2>1, <2>5, <3>1 DEF Runs
      <4> QED
        BY <1>3, <3>1, <4>1, Zenon
    <3>2. CASE x = other
      <4>1. grab'[x] = two /\ "closed" # "off" /\ grab[x].step # "off"
        BY <2>1, <2>5, <3>2
      <4> QED
        BY <2>4, <3>2, <4>1, Zenon
    <3>3. CASE x # g /\ x # other
      BY <1>1, <1>5, <2>5, <3>3, Zenon DEF Grabbed
    <3> QED
      BY <3>1, <3>2, <3>3
  <2> QED
    BY <1>5, <2>1, <2>5, <2>6 DEF Stepped
<1>o. other # g => grab'[g] = one /\ \A x \in Grabs : x # other /\ x # g => grab'[x] = grab[x]
  BY <1>7
<1>8. Stepped(c)
  BY <1>6, <1>7
<1>9. winFocusChan' = Nothing
  BY Zenon DEF Finish
<1>r. ~Runs(g)' /\ \A x \in Grabs : x # other => (Runs(x)' => Runs(x))
  <2>1. grab'[g] = one
    <3>1. CASE other = g
      <4>1. grab' = mid
        BY <1>4, <3>1, Zenon DEF Finish
      <4> QED
        BY <1>5, <4>1
    <3>2. CASE other # g
      BY <1>o, <3>2
    <3> QED
      BY <3>1, <3>2
  <2>2. \A x \in Grabs : x # other /\ x # g => grab'[x] = grab[x]
    <3>1. CASE other = g
      <4>1. grab' = mid
        BY <1>4, <3>1, Zenon DEF Finish
      <4> QED
        BY <1>5, <4>1, Zenon
    <3>2. CASE other # g
      BY <1>o, <3>2
    <3> QED
      BY <3>1, <3>2
  <2>3. "done" \notin {"waits", "closed"}
    OBVIOUS
  <2>4. ~Runs(g)'
    BY <1>3, <2>1, <2>3 DEF Runs
  <2> QED
    BY <2>2, <2>4, Zenon DEF Runs
<1>10. Grabbed' /\ Waits'
  <2>1. winFocusChan \in Grabs
    BY <1>1 DEF Waits
  <2> QED
    BY <1>1, <1>8, <1>9, <1>r, <2>1, SteppedWaits
<1>11. Pages' /\ Chosen' /\ Icons'
  BY <1>1 DEF Pages, Chosen, Icons
<1> QED
  BY <1>8, <1>10, <1>11 DEF Held

\* What the end of a grab leaves: no new grab, and no other class.
LEMMA EndHeld ==
  ASSUME Held, up, NEW g \in Grabs, Runs(g), NEW c, Finish(g, c),
         UNCHANGED <<page, serial, together, selected, rowsListed, shownIcons>>
  PROVE  /\ Held'
         /\ \A x \in Grabs : grab'[x].step # "off" =>
              grab[x].step # "off" /\ grab'[x].class \in {grab[x].class, c}
<1>1. CASE winFocusChan # Nothing
  BY <1>1, FinishHeld, Zenon DEF Stepped
<1>2. CASE winFocusChan = Nothing
  <2>1. winFocusChan' = winFocusChan /\ grab' = [grab EXCEPT ![g] = NoGrab]
    BY <1>2, Zenon DEF Finish
  <2>2. g # Nothing
    BY GuiAssumption
  <2>3. Grabbed' /\ Waits' /\ grab'[g] = NoGrab /\ \A x \in Grabs : x # g => grab'[x] = grab[x]
    BY <1>2, <2>1, <2>2, LostHeld DEF Held
  <2>4. Pages' /\ Chosen' /\ Icons'
    BY DEF Held, Pages, Chosen, Icons
  <2>5. \A x \in Grabs : grab'[x].step # "off" =>
           grab[x].step # "off" /\ grab'[x].class \in {grab[x].class, c}
    BY <2>3, NoGrabIs
  <2> QED
    BY <2>3, <2>4, <2>5 DEF Held
<1> QED
  BY <1>1, <1>2

GivenAnswer(r, d, x) == [r EXCEPT !.waits = FALSE, !.edited = @ \/ d, !.w = x]
LEMMA AnsweredIs ==
  ASSUME NEW r, IsPage(r), NEW x, NEW d \in BOOLEAN
  PROVE  LET m == GivenAnswer(r, d, x)
         IN /\ IsPage(m) /\ m # NoPage /\ m.slot = r.slot /\ ~m.waits
            /\ m.copy = r.copy /\ m.w = x /\ (m.edited <=> r.edited \/ d)
<1> DEFINE f == r.edited \/ d
           m == [r EXCEPT !.waits = FALSE, !.edited = @ \/ d, !.w = x]
<1>1. PICK s, c, w, g, b :
        r = [slot |-> s, copy |-> c, w |-> w, edited |-> g, waits |-> b] /\ g \in BOOLEAN /\ b \in BOOLEAN /\ s \in Slots
  <2>1. r = [slot |-> r.slot, copy |-> r.copy, w |-> r.w, edited |-> r.edited, waits |-> r.waits]
        /\ r.edited \in BOOLEAN /\ r.waits \in BOOLEAN /\ r.slot \in Slots
    BY Zenon DEF IsPage, Make
  <2> QED
    BY <2>1
<1>2. r.slot = s /\ r.copy = c /\ r.edited = g
  BY <1>1, SMT
<1>3. PICK n \in BOOLEAN : ~n
  OBVIOUS
<1>4. f \in BOOLEAN /\ f = (g \/ d)
  BY <1>1, <1>2
<1> DEFINE one == [r EXCEPT !.waits = FALSE]
           two == [one EXCEPT !.edited = f]
           last == [two EXCEPT !.w = x]
<1>5. m = last
  <2>1. one.edited = g
    BY <1>1, SMT
  <2>2. m = [[one EXCEPT !.edited = @ \/ d] EXCEPT !.w = x]
    OBVIOUS
  <2> HIDE DEF one
  <2>3. [one EXCEPT !.edited = @ \/ d] = [one EXCEPT !.edited = one.edited \/ d]
    OBVIOUS
  <2>4. (one.edited \/ d) = f
    BY <1>2, <2>1 DEF f
  <2> QED
    BY <2>2, <2>3, <2>4
<1> HIDE DEF f
<1>6. one = Make(s, c, w, g, n)
  <2>1. one = [r EXCEPT !.waits = n]
    BY <1>3
  <2>2. [r EXCEPT !.waits = n] = [slot |-> s, copy |-> c, w |-> w, edited |-> g, waits |-> n]
    BY <1>1, SMT
  <2> QED
    BY <2>1, <2>2 DEF Make
<1> HIDE DEF one
<1>7. IsPage(one) /\ one.slot = s /\ one.copy = c /\ one.w = w /\ (one.waits <=> n) /\ one.waits \in BOOLEAN
  <2>1. IsPage(one) /\ one.slot = s /\ one.copy = c /\ one.w = w /\ (one.waits <=> n)
    BY <1>1, <1>6, MakeFields
  <2> QED
    BY <2>1 DEF IsPage
<1>8. two = Make(s, c, w, f, one.waits)
  BY <1>4, <1>7, PageEdits
<1> HIDE DEF two
<1>9. IsPage(two) /\ two.slot = s /\ two.copy = c /\ (two.edited <=> f) /\ (two.waits <=> n) /\ two.waits \in BOOLEAN /\ two.edited \in BOOLEAN
  <2>1. IsPage(two) /\ two.slot = s /\ two.copy = c /\ (two.edited <=> f) /\ (two.waits <=> one.waits)
    BY <1>1, <1>4, <1>7, <1>8, MakeFields
  <2> QED
    BY <1>7, <2>1 DEF IsPage
<1>10. last = Make(s, c, x, two.edited, two.waits)
  BY <1>9, PageEdits
<1> HIDE DEF last
<1>11. IsPage(last) /\ last # NoPage /\ last.slot = s /\ last.copy = c /\ last.w = x /\ (last.edited <=> two.edited) /\ (last.waits <=> two.waits)
  BY <1>1, <1>9, <1>10, MakeFields
<1> HIDE DEF m
<1>12. IsPage(m) /\ m # NoPage /\ m.slot = s /\ ~m.waits /\ m.copy = c /\ m.w = x /\ (m.edited <=> f)
  BY <1>3, <1>5, <1>9, <1>11
<1> QED
  BY <1>2, <1>4, <1>12 DEF m, GivenAnswer

LEMMA GrabDoneHeld ==
  ASSUME Held, NEW g \in Grabs, GrabDone(g)
  PROVE  Held'
<1>0. PICK p : p = grab[g].place
  OBVIOUS
<1> DEFINE class == grab[g].class
           x == IF class = <<>> THEN page[p].w ELSE ValueSet(key, page[p].w, class)
           m == [page[p] EXCEPT !.waits = FALSE, !.edited = @ \/ class # <<>>, !.w = x]
<1>1. /\ up /\ grab[g].step = "done" /\ grab' = [grab EXCEPT ![g] = NoGrab]
      /\ UNCHANGED <<serial, winFocusChan, together, selected, rowsListed, shownIcons>>
      /\ \/ Asks(g) /\ page' = [page EXCEPT ![p] = Answered(g, class)]
         \/ ~up' /\ page' = page
  BY <1>0, Zenon DEF GrabDone, rowVars
<1>2. Pages /\ Grabbed /\ Waits /\ Chosen /\ Icons
  BY <1>1 DEF Held
<1>3. /\ grab' = [y \in Grabs |-> grab'[y]] /\ grab'[g] = NoGrab
      /\ \A y \in Grabs : y # g => grab'[y] = grab[y]
  BY <1>1, <1>2, OneReplaced, Zenon DEF Grabbed
<1>4. Grabbed'
  <2>1. \A y \in Grabs : IsGrab(grab'[y])
    BY <1>2, <1>3, NoGrabIs, Zenon DEF Grabbed
  <2> QED
    BY <1>1, <1>2, <1>3, <2>1, Zenon DEF Grabbed
<1>5. CASE Asks(g) /\ page' = [page EXCEPT ![p] = Answered(g, class)]
  <2>1. p \in Places /\ grab[g].step # "off"
    <3>1. grab[g].step # "off" /\ IsGrab(grab[g])
      BY <1>1, <1>2 DEF Grabbed
    <3> QED
      BY <1>0, <3>1, GrabIs
  <2>2. page[p] # NoPage /\ IsPage(page[p]) /\ serial[p] = grab[g].serial
    BY <1>0, <1>2, <1>5, <2>1, Zenon DEF Asks, Pages
  <2>3. Answered(g, class) = m
    BY <1>0 DEF Answered
  <2>4. IsPage(m) /\ m # NoPage /\ m.slot = page[p].slot /\ ~m.waits
    <3> DEFINE d == class # <<>>
    <3>1. d \in BOOLEAN
      OBVIOUS
    <3>2. m = GivenAnswer(page[p], d, x)
      BY DEF GivenAnswer
    <3> HIDE DEF d, m, x
    <3> QED
      BY <2>2, <3>1, <3>2, AnsweredIs
  <2>5. page' = [q \in Places |-> page'[q]] /\ page'[p] = m /\ \A q \in Places : q # p => page'[q] = page[q]
    <3> HIDE DEF m
    <3> QED
      BY <1>2, <1>5, <2>1, <2>3, OneReplaced, Zenon DEF Pages
  <2> HIDE DEF m, x
  <2>6. Pages'
    BY <1>2, <2>4, <2>5, Zenon DEF Pages
  <2>7. Icons'
    <3>1. rowsListed # {}
      BY <1>2, <2>1, <2>2, ClosedPages, Zenon DEF Icons
    <3> QED
      BY <1>1, <1>2, <3>1 DEF Icons
  <2>8. Chosen'
    <3>1. CASE p = "icons"
      BY <1>1, <1>2, <2>2, <2>4, <2>5, <3>1, Zenon DEF Chosen
    <3>2. CASE p # "icons"
      <4>1. page'["icons"] = page["icons"]
        BY <2>5, <3>2, ClosedPages
      <4> QED
        BY <1>1, <1>2, <4>1, Zenon DEF Chosen
    <3> QED
      BY <3>1, <3>2
  <2>9. /\ Of(g, p) /\ \A q : ~Of(g, q)'
        /\ \A y \in Grabs : y # g => \A q : (Of(y, q)' <=> Of(y, q))
    <3>1. Of(g, p)
      BY <1>0, <2>1, <2>2, Zenon DEF Of
    <3>2. \A q : ~Of(g, q)'
      BY <1>3, NoGrabIs, Zenon DEF Of
    <3>3. \A y \in Grabs : y # g => \A q : (Of(y, q)' <=> Of(y, q))
      BY <1>1, <1>3, Zenon DEF Of
    <3> QED
      BY <3>1, <3>2, <3>3
  <2>c. Crossing'
    <3>1. \A y \in Grabs : y # g => (Runs(y)' <=> Runs(y)) /\ Page(y)' = Page(y)
      BY <1>3, Zenon DEF Runs, Page
    <3>2. ~Runs(g)'
      BY <1>3, NoGrabIs DEF Runs
    <3> QED
      BY <1>1, <1>2, <3>1, <3>2, Zenon DEF Waits, Crossing
  <2>10. Waits'
    <3>1. winFocusChan' # Nothing => winFocusChan' \in Grabs /\ grab'[winFocusChan'].step = "waits"
      <4>1. CASE winFocusChan = g
        <5>1. "done" # "waits"
          OBVIOUS
        <5> QED
          BY <1>1, <1>2, <4>1, <5>1, Zenon DEF Waits
      <4>2. CASE winFocusChan # g
        BY <1>1, <1>2, <1>3, <4>2, Zenon DEF Waits
      <4> QED
        BY <4>1, <4>2
    <3>2. \A y \in Grabs : grab'[y].step # "off" => grab'[y].serial <= serial'[grab'[y].place]
      <4> TAKE y \in Grabs
      <4> HAVE grab'[y].step # "off"
      <4>1. y # g
        BY <1>3, NoGrabIs, Zenon
      <4> QED
        BY <1>1, <1>2, <1>3, <4>1, Zenon DEF Waits
    <3>3. \A y \in Grabs, z \in Grabs, q \in Places : Of(y, q)' /\ Of(z, q)' => y = z
      <4> TAKE y \in Grabs, z \in Grabs, q \in Places
      <4> HAVE Of(y, q)' /\ Of(z, q)'
      <4>1. y # g /\ z # g
        BY <2>9, Zenon
      <4>2. Of(y, q) /\ Of(z, q)
        BY <2>9, <4>1, Zenon
      <4> QED
        BY <1>2, <4>2, Zenon DEF Waits
    <3>4. \A q \in Places : page'[q] # NoPage => Blocked(q)'
      <4> TAKE q \in Places
      <4> HAVE page'[q] # NoPage
      <4>1. CASE q = p
        <5>1. \A y \in Grabs : ~Of(y, p)'
          <6> TAKE y \in Grabs
          <6>1. CASE y = g
            BY <2>9, <6>1, Zenon
          <6>2. CASE y # g
            <7>1. ~Of(y, p)
              BY <1>2, <2>1, <2>9, <6>2, Zenon DEF Waits
            <7> QED
              BY <2>9, <6>2, <7>1, Zenon
          <6> QED
            BY <6>1, <6>2
        <5> QED
          BY <2>4, <2>5, <4>1, <5>1, Zenon DEF Blocked
      <4>2. CASE q # p
        <5>1. page'[q] = page[q] /\ serial'[q] = serial[q] /\ Blocked(q)
          BY <1>1, <1>2, <2>5, <4>2, Zenon DEF Waits
        <5>2. ~Of(g, q)
          BY <1>0, <4>2, Zenon DEF Of
        <5>3. \A y \in Grabs : Of(y, q)' <=> Of(y, q)
          BY <2>9, <5>2, Zenon
        <5> QED
          BY <1>1, <5>1, <5>3, Zenon DEF Blocked
      <4> QED
        BY <4>1, <4>2
    <3> QED
      BY <2>c, <3>1, <3>2, <3>3, <3>4, Zenon DEF Waits
  <2> QED
    BY <1>4, <2>6, <2>7, <2>8, <2>10 DEF Held
<1>6. CASE ~up' /\ page' = page
  <2>1. Pages' /\ Icons'
    BY <1>1, <1>2, <1>6 DEF Pages, Icons
  <2> QED
    BY <1>4, <1>6, <2>1 DEF Held
<1> QED
  BY <1>1, <1>5, <1>6

LEMMA HeldStep ==
  ASSUME Held, GuiNext
  PROVE  Held'
<1>1. ASSUME NEW s \in {"taskbar", "icon"}, ShowItems(s) \/ ClickRow(s) PROVE Held'
  BY <1>1, ShowItemsHeld, ClickRowHeld
<1>2. ASSUME NEW s \in {"core", "own"}, SelectCore(s) PROVE Held'
  BY <1>2, SelectCoreHeld
<1>3. CASE IconsChange
  <2>1. /\ up /\ UNCHANGED <<page, serial, grab, winFocusChan, together, selected, rowsListed>>
        /\ shownIcons' \in {{"taskbar", "icon"}, {"taskbar"}}
    BY <1>3, Zenon DEF IconsChange, Event, placeVars, grabVars
  <2>2. shownIcons' \subseteq {"taskbar", "icon"} /\ shownIcons' # {}
    BY <2>1
  <2> QED
    BY <2>1, <2>2, StillHeld
<1>4. CASE ReloadItems \/ CloseGui \/ Restart
  BY <1>4, ReloadItemsHeld, CloseGuiHeld, RestartHeld
<1>5. ASSUME NEW s \in Slots, OutsideUpdates(s) PROVE Held'
  <2>1. up /\ UNCHANGED <<page, serial, grab, winFocusChan, together, selected, rowsListed, shownIcons>>
    BY <1>5, Zenon DEF OutsideUpdates, Event, rowVars, placeVars, grabVars
  <2> QED
    BY <2>1, StillHeld DEF Held, Icons
<1>6. ASSUME NEW p \in Places, Edits(p) \/ Save(p) PROVE Held'
  BY <1>6, EditsHeld, SaveHeld
<1>7. ASSUME NEW g \in Grabs, GrabTimeout(g) PROVE Held'
  <2>1. /\ up /\ Runs(g) /\ Finish(g, <<>>)
        /\ UNCHANGED <<page, serial, together, selected, rowsListed, shownIcons>>
    BY <1>7, Zenon DEF GrabTimeout, rowVars, placeVars
  <2> QED
    BY <2>1, EndHeld
<1>8. ASSUME NEW x, FocusChange(x) PROVE Held'
  <2>1. /\ up /\ winFocusChan # Nothing /\ Finish(winFocusChan, <<x>>)
        /\ UNCHANGED <<page, serial, together, selected, rowsListed, shownIcons>>
    BY <1>8, Zenon DEF FocusChange, rowVars, placeVars
  <2>2. winFocusChan \in Grabs /\ Runs(winFocusChan)
    BY <2>1 DEF Held, Waits, Runs
  <2> QED
    BY <2>1, <2>2, EndHeld
<1>9. ASSUME NEW g \in Grabs, GrabDone(g) \/ \E p \in Places : GrabStart(g, p) PROVE Held'
  BY <1>9, GrabDoneHeld, GrabStartHeld
<1> QED
  BY <1>1, <1>2, <1>3, <1>4, <1>5, <1>6, <1>7, <1>8, <1>9, Zenon DEF GuiNext

(* The list of icons, the pages and the grabs go together: a page that is  *)
(* open was built for the selected row (GuiIcons.Select, ReloadItems), and *)
(* no two grabs run for the same page (GrabWindowClass).                   *)
LEMMA HeldAlways == GuiSpec => []Held
<1>1. Held /\ [GuiNext]_guiVars => Held'
  <2> SUFFICES ASSUME Held, [GuiNext]_guiVars PROVE Held'
    OBVIOUS
  <2>1. CASE UNCHANGED guiVars
    <3>1. UNCHANGED <<page, serial, grab, winFocusChan, together, selected, rowsListed, shownIcons, up>>
      BY <2>1, Zenon DEF guiVars, rowVars, placeVars, grabVars
    <3>2. Pages' /\ Grabbed' /\ Icons' /\ (Chosen' <=> Chosen)
      BY <3>1 DEF Held, Pages, Grabbed, Icons, Chosen
    <3>3. up => Waits'
      BY <3>1, KeptWaits DEF Held
    <3> QED
      BY <3>1, <3>2, <3>3 DEF Held
  <2> QED
    BY <2>1, HeldStep
<1> QED
  BY <1>1, HeldInit, PTL DEF GuiSpec

(* The save of the icons page goes to the file of the selected row: the    *)
(* page open at this place is that of the row, whatever was shown, clicked *)
(* and reloaded (GuiIcons.onSelect, Clear, Load).                          *)
THEOREM PagesFollowSelection == GuiSpec => []PageIsOfSelection
<1>1. Held => PageIsOfSelection
  BY DEF Held, Chosen, PageIsOfSelection
<1> QED
  BY <1>1, HeldAlways, PTL

(* The entry of a class is blocked while a grab of its own page runs, and  *)
(* free once it is over: only a grab that ran together with another one    *)
(* leaves it blocked (onGrabClicked, GrabWindowClass, GoTry), for any      *)
(* number of grabs and pages.                                              *)
THEOREM GrabsBlockTheirEntry == GuiSpec => []BlockedWhileGrabbed
<1>1. Held => BlockedWhileGrabbed
  <2> SUFFICES ASSUME Held, up, NEW p \in Places, page[p] # NoPage
               PROVE  LET asked == \E g \in Grabs : grab[g].step # "off" /\ grab[g].place = p /\ grab[g].serial = serial[p]
                      IN  /\ asked => page[p].waits
                          /\ page[p].waits => asked \/ <<p, serial[p]>> \in together
    BY Zenon DEF BlockedWhileGrabbed
  <2>1. Blocked(p)
    BY DEF Held, Waits
  <2> QED
    BY <2>1, Zenon DEF Blocked, Of
<1> QED
  BY <1>1, HeldAlways, PTL

(***************************************************************************)
(* Every edit keeps the widget of its key.                                 *)
(***************************************************************************)
\* The widgets that are no entry hold no help text.
LEMMA EditOther ==
  ASSUME NEW k, NEW w, NEW m, NEW edit \in BOOLEAN, IsWidget(m), m.kind = w.kind, w.kind \notin {"entry", "none"},
         Rowed(m), ~edit => Value(k, m) = Value(k, w)
  PROVE  Edit(k, w, m, edit)
<1>1. Marked(k, m)
  BY Zenon DEF Marked
<1>2. w # NoWidget
  BY NoneIsWidget
<1>3. Honest(k, w) => ~Helps(k)
  BY <1>2, Zenon DEF Honest
<1>4. Honest(k, w) => Honest(k, m)
  BY <1>3, Zenon DEF Honest
<1> QED
  BY <1>1, <1>4, Zenon DEF Edit, WidgetOk

\* An entry that has no help text to hide, or marks it.
LEMMA EditEntry ==
  ASSUME NEW k, NEW w, NEW m, NEW edit \in BOOLEAN, IsWidget(m), m.kind = "entry", w.kind = "entry",
         m.isDefault => HelpText(k) # <<>>,
         Helps(k) /\ Honest(k, w) => m.isDefault \/ Clean(k, m.text),
         ~edit => Value(k, m) = Value(k, w)
  PROVE  Edit(k, w, m, edit)
<1>1. Marked(k, m) /\ Rowed(m)
  BY Zenon DEF Marked, Rowed
<1>2. Honest(k, w) => Honest(k, m)
  BY Zenon DEF Honest
<1> QED
  BY <1>1, <1>2, Zenon DEF Edit, WidgetOk

LEMMA EditValueIs ==
  ASSUME NEW k, IsKey(k), NEW w, IsWidget(w), w.kind \in {"values", "color"},
         NEW i \in DOMAIN w.vals, NEW x \in k.typed
  PROVE  Edit(k, w, [w EXCEPT !.vals[i] = x], TRUE)
<1> DEFINE v == [w.vals EXCEPT ![i] = x]
           m == [w EXCEPT !.vals = v]
<1>1. w.vals \in Values
  BY KindIs, SMT
<1>2. x \in Int
  BY DEF IsKey
<1>3. v \in Values /\ Len(v) = Len(w.vals)
  BY <1>1, <1>2, OneChanged
<1>4. [w EXCEPT !.vals[i] = x] = m
  OBVIOUS
<1> HIDE DEF v
<1>5. IsWidget(m) /\ m.kind = w.kind
  BY <1>3, ValuesEdited
<1> HIDE DEF m
<1>6. Rowed(m) /\ w.kind \notin {"entry", "none"}
  BY <1>5, SMT DEF Rowed
<1>7. TRUE \in BOOLEAN
  OBVIOUS
<1>8. Edit(k, w, m, TRUE)
  BY <1>5, <1>6, <1>7, EditOther
<1> QED
  BY <1>4, <1>8

LEMMA EditPairIs ==
  ASSUME NEW k, IsKey(k), NEW w, IsWidget(w), w.kind = "pair", NEW i \in 1..2, NEW x \in k.typed
  PROVE  Edit(k, w, onValuePairChanged(w, i, x), TRUE)
<1>1. w.vals \in Values /\ w.linked \in BOOLEAN /\ Len(w.vals) = 2 /\ DOMAIN w.vals = 1..2
  <2>1. w \in [kind : {"pair"}, vals : Values, linked : BOOLEAN] /\ Len(w.vals) = 2
    BY KindIs
  <2>2. w.vals \in Values /\ w.linked \in BOOLEAN
    BY <2>1
  <2> QED
    BY <2>1, <2>2, SMT DEF Values
<1>2. x \in Int
  BY DEF IsKey
<1>3. Edit(k, w, onValuePairChanged(w, i, x), TRUE)
  <2> DEFINE v == IF w.linked THEN <<x, x>> ELSE [w.vals EXCEPT ![i] = x]
             m == [w EXCEPT !.vals = v]
  <2>1. v \in Values /\ Len(v) = 2
    <3>1. <<x, x>> \in Values /\ Len(<<x, x>>) = 2
      BY <1>2, SMT DEF Values
    <3>2. [w.vals EXCEPT ![i] = x] \in Values /\ Len([w.vals EXCEPT ![i] = x]) = 2
      BY <1>1, <1>2, OneChanged
    <3> QED
      BY <3>1, <3>2
  <2>2. onValuePairChanged(w, i, x) = m
    BY DEF onValuePairChanged
  <2> HIDE DEF v
  <2>3. IsWidget(m) /\ m.kind = w.kind
    BY <1>1, <2>1, ValuesEdited
  <2> HIDE DEF m
  <2>4. Rowed(m) /\ w.kind \notin {"entry", "none"}
    BY <2>3, SMT DEF Rowed
  <2>5. TRUE \in BOOLEAN
    OBVIOUS
  <2>6. Edit(k, w, m, TRUE)
    BY <2>3, <2>4, <2>5, EditOther
  <2> QED
    BY <2>2, <2>6
<1> QED
  BY <1>3

LEMMA LinkIs ==
  ASSUME NEW k, NEW w, IsWidget(w), w.kind = "pair"
  PROVE  Edit(k, w, [w EXCEPT !.linked = ~@], FALSE)
<1>0. w.linked \in BOOLEAN
  BY KindIs, SMT
<1>1. PICK b \in BOOLEAN : b = ~w.linked
  BY <1>0
<1> DEFINE m == [w EXCEPT !.linked = b]
<1>2. [w EXCEPT !.linked = ~@] = m
  BY <1>1
<1>3. IsWidget(m) /\ m.kind = "pair" /\ m.vals = w.vals
  BY LinkEdited
<1> HIDE DEF m
<1>4. Rowed(m) /\ w.kind \notin {"entry", "none"}
  BY <1>3, SMT DEF Rowed
<1>5. Value(k, m) = Value(k, w)
  BY <1>3, SMT DEF Value
<1>6. FALSE \in BOOLEAN
  OBVIOUS
<1>7. Edit(k, w, m, FALSE)
  BY <1>3, <1>4, <1>5, <1>6, EditOther
<1> QED
  BY <1>2, <1>7

LEMMA EditChoiceIs ==
  ASSUME NEW k, NEW w, IsWidget(w), w.kind \in {"combo", "numbered"}, NEW i \in DOMAIN w.list
  PROVE  Edit(k, w, [w EXCEPT !.active = i], TRUE)
<1> DEFINE m == [w EXCEPT !.active = i]
<1>1. IsWidget(m) /\ m.kind = w.kind
  BY ChoiceEdited
<1> HIDE DEF m
<1>2. Rowed(m) /\ w.kind \notin {"entry", "none"}
  BY <1>1, SMT DEF Rowed
<1>3. TRUE \in BOOLEAN
  OBVIOUS
<1>4. Edit(k, w, m, TRUE)
  BY <1>1, <1>2, <1>3, EditOther
<1> QED
  BY <1>4 DEF m

LEMMA EditFontIs ==
  ASSUME NEW k, IsKey(k), NEW w, IsWidget(w), w.kind = "font", NEW x \in k.typed
  PROVE  Edit(k, w, [w EXCEPT !.text = <<x>>], TRUE)
<1> DEFINE m == [w EXCEPT !.text = <<x>>]
<1>0. <<x>> \in Values
  BY SMT DEF IsKey, Values
<1>1. IsWidget(m) /\ m.kind = "font"
  BY <1>0, FontEdited
<1> HIDE DEF m
<1>2. Rowed(m) /\ w.kind \notin {"entry", "none"}
  BY <1>1, SMT DEF Rowed
<1>3. TRUE \in BOOLEAN
  OBVIOUS
<1>4. Edit(k, w, m, TRUE)
  BY <1>1, <1>2, <1>3, EditOther
<1> QED
  BY <1>4 DEF m

LEMMA EditTreeIs ==
  ASSUME NEW k, IsKey(k), NEW w, IsWidget(w), w.kind = "tree", Rowed(w)
  PROVE  /\ \A i \in DOMAIN w.rows : Edit(k, w, [w EXCEPT !.sel = i], FALSE)
         /\ w.sel # 0 => /\ Edit(k, w, onTreeviewMoveUp(w), TRUE)
                         /\ Edit(k, w, onTreeviewMoveDown(w), TRUE)
                         /\ Edit(k, w, onTreeviewRemoveText(w), TRUE)
         /\ \A x \in k.typed : Edit(k, w, onTreeviewAddText(w, x), TRUE)
<1>1. IsTree(w) /\ Ordered(w)
  BY KindIs DEF Rowed
<1>2. TRUE \in BOOLEAN /\ FALSE \in BOOLEAN
  OBVIOUS
<1>3. ASSUME NEW m, IsTree(m), Ordered(m) PROVE Edit(k, w, m, TRUE)
  <2>1. IsWidget(m) /\ m.kind = "tree"
    BY <1>3, WidgetIs
  <2>2. Rowed(m) /\ w.kind \notin {"entry", "none"}
    BY <1>3 DEF Rowed
  <2> QED
    BY <1>2, <2>1, <2>2, EditOther
<1>4. ASSUME NEW i \in DOMAIN w.rows PROVE Edit(k, w, [w EXCEPT !.sel = i], FALSE)
  <2> DEFINE m == [w EXCEPT !.sel = i]
  <2>0. w \in Trees /\ i \in 1..Len(w.rows) /\ i \in Nat /\ Len(w.rows) \in Nat
    BY <1>1, TreeRange
  <2>1. m \in Trees /\ m.rows = w.rows /\ m.sel = i /\ m.slipped = w.slipped
    BY <2>0, TreeSel
  <2> HIDE DEF m
  <2>2. IsTree(m) /\ Ordered(m)
    <3>1. i <= Len(w.rows)
      BY <2>0
    <3>2. IsTree(m)
      BY <2>1, <3>1 DEF IsTree
    <3>3. Ordered(m)
      BY <1>1, <2>1 DEF Ordered
    <3> QED
      BY <3>2, <3>3
  <2>3. IsWidget(m) /\ m.kind = "tree"
    BY <2>2, WidgetIs
  <2>4. Rowed(m) /\ w.kind \notin {"entry", "none"}
    BY <2>2 DEF Rowed
  <2>5. Value(k, m) = Value(k, w)
    BY <2>1, <2>3, SMT DEF Value
  <2>6. Edit(k, w, m, FALSE)
    BY <1>2, <2>3, <2>4, <2>5, EditOther
  <2> QED
    BY <2>6 DEF m
<1>5. ASSUME w.sel # 0
      PROVE  /\ Edit(k, w, onTreeviewMoveUp(w), TRUE)
             /\ Edit(k, w, onTreeviewMoveDown(w), TRUE)
             /\ Edit(k, w, onTreeviewRemoveText(w), TRUE)
  BY <1>1, <1>3, <1>5, UpTree, DownTree, RemoveTree
<1>6. ASSUME NEW x \in k.typed PROVE Edit(k, w, onTreeviewAddText(w, x), TRUE)
  <2>1. x \in Int
    BY DEF IsKey
  <2> QED
    BY <1>1, <1>3, <2>1, AddTree
<1> QED
  BY <1>4, <1>5, <1>6

LEMMA EditTextIs ==
  ASSUME NEW k, IsKey(k), NEW w, IsWidget(w), w.kind = "entry",
         NEW v \in Values, Helps(k) => Clean(k, v)
  PROVE  Edit(k, w, onTextDefaultChanged(w, v), TRUE)
<1> DEFINE m == onTextDefaultChanged(w, v)
<1>1. IsWidget(m) /\ m.kind = "entry" /\ m.text = v /\ ~m.isDefault
  BY ChangedText
<1> HIDE DEF m
<1>2. TRUE \in BOOLEAN
  OBVIOUS
<1>3. Edit(k, w, m, TRUE)
  BY <1>1, <1>2, EditEntry
<1> QED
  BY <1>3 DEF m

\* Leaving the entry shows the help text in an empty one, and marks it.
LEMMA LeftEntry ==
  ASSUME NEW k, IsKey(k), NEW w \in Entries, Marked(k, w), Honest(k, w),
         w.isDefault => w.text = <<>>
  PROVE  LET m == onTextDefaultFocusOut(k, w)
         IN /\ IsWidget(m) /\ m.kind = "entry"
            /\ m.isDefault => HelpText(k) # <<>>
            /\ Helps(k) => m.isDefault \/ Clean(k, m.text)
<1> DEFINE m == onTextDefaultFocusOut(k, w)
<1>1. /\ m \in Entries /\ IsWidget(m)
      /\ HelpText(k) = <<>> => m.text = w.text /\ (m.isDefault <=> w.isDefault)
      /\ HelpText(k) # <<>> => (m.isDefault <=> w.text = <<>>) /\ (w.text # <<>> => m.text = w.text)
  BY FocusOutShows
<1>2. w.kind = "entry" /\ m.kind = "entry"
  BY <1>1, EntryField
<1> HIDE DEF m
<1>3. m.isDefault => HelpText(k) # <<>>
  BY <1>1, <1>2 DEF Marked
<1>4. ASSUME Helps(k) PROVE m.isDefault \/ Clean(k, m.text)
  <2>1. HelpText(k) # <<>>
    BY <1>4 DEF Helps
  <2>2. w # NoWidget
    BY <1>2, NoneIsWidget
  <2>3. CASE w.text = <<>>
    BY <1>1, <2>1, <2>3
  <2>4. CASE w.text # <<>>
    BY <1>1, <1>4, <2>1, <2>2, <2>4, Zenon DEF Honest
  <2> QED
    BY <2>3, <2>4
<1> QED
  BY <1>1, <1>2, <1>3, <1>4 DEF m

LEMMA EditFocusIs ==
  ASSUME NEW k, IsKey(k), NEW w, WidgetOk(k, w), w.kind = "entry"
  PROVE  /\ w.focus => Edit(k, w, onTextDefaultFocusOut(k, w), FALSE)
         /\ ~w.focus => Edit(k, w, onTextDefaultFocusIn(w), FALSE)
<1>1. /\ w \in Entries /\ (w.focus /\ w.isDefault => w.text = <<>>) /\ IsWidget(w) /\ Marked(k, w) /\ Rowed(w)
  BY KindIs DEF WidgetOk
<1>f. FALSE \in BOOLEAN
  OBVIOUS
<1>2. ASSUME w.focus PROVE Edit(k, w, onTextDefaultFocusOut(k, w), FALSE)
  <2> DEFINE m == onTextDefaultFocusOut(k, w)
  <2>0. w.isDefault => w.text = <<>>
    BY <1>1, <1>2
  <2>1. m \in Entries /\ IsWidget(m) /\ Value(k, m) = Value(k, w)
    BY <1>1, <2>0, FocusOutShows, FocusOutKeeps
  <2>2. m.kind = "entry"
    BY <2>1, EntryField
  <2>3. m.isDefault => HelpText(k) # <<>>
    BY <1>1, <2>0, FocusOutShows DEF Marked
  <2>4. Helps(k) /\ Honest(k, w) => m.isDefault \/ Clean(k, m.text)
    BY <1>1, <2>0, LeftEntry
  <2> HIDE DEF m
  <2>5. Edit(k, w, m, FALSE)
    BY <1>f, <2>1, <2>2, <2>3, <2>4, EditEntry
  <2> QED
    BY <2>5 DEF m
<1>3. ASSUME ~w.focus PROVE Edit(k, w, onTextDefaultFocusIn(w), FALSE)
  <2> DEFINE m == onTextDefaultFocusIn(w)
  <2>1. /\ IsWidget(m) /\ m.kind = "entry" /\ m \in Entries /\ (m.isDefault <=> w.isDefault)
        /\ w.isDefault => m.text = <<>>
        /\ ~w.isDefault => m.text = w.text
    BY <1>1, FocusIn
  <2> HIDE DEF m
  <2>2. m.isDefault => HelpText(k) # <<>>
    BY <1>1, <2>1 DEF Marked
  <2>3. w # NoWidget
    BY NoneIsWidget
  <2>4. Helps(k) /\ Honest(k, w) => m.isDefault \/ Clean(k, m.text)
    BY <2>1, <2>3, Zenon DEF Honest
  <2>5. Value(k, m) = Value(k, w)
    BY <1>1, <2>1, EntryValue
  <2>6. Edit(k, w, m, FALSE)
    BY <1>f, <2>1, <2>2, <2>4, <2>5, EditEntry
  <2> QED
    BY <2>6 DEF m
<1> QED
  BY <1>2, <1>3

\* A class that is grabbed is set as if it was typed.
LEMMA GrabbedIs ==
  ASSUME NEW k, IsKey(k), NEW w, WidgetOk(k, w), w.kind = "entry",
         NEW v \in Values, Helps(k) => Clean(k, v)
  PROVE  Edit(k, w, ValueSet(k, w, v), TRUE)
<1>1. w \in Entries /\ IsWidget(w) /\ Marked(k, w)
  BY KindIs DEF WidgetOk
<1>t. TRUE \in BOOLEAN
  OBVIOUS
<1>2. CASE HelpText(k) = <<>>
  <2> DEFINE m == [w EXCEPT !.text = v]
  <2>1. ValueSet(k, w, v) = m
    BY <1>2, SMT DEF ValueSet
  <2>2. m \in Entries /\ m.text = v /\ m.isDefault = w.isDefault
    <3>1. m \in Entries
      BY <1>1, EntryField
    <3>2. m.text = v /\ m.isDefault = w.isDefault
      BY <1>1, SMT DEF Entries
    <3> QED
      BY <3>1, <3>2
  <2> HIDE DEF m
  <2>3. ~w.isDefault /\ ~m.isDefault
    BY <1>1, <1>2, <2>2 DEF Marked
  <2>4. IsWidget(m) /\ m.kind = "entry"
    BY <2>2, <2>3, WidgetIs
  <2>5. Edit(k, w, m, TRUE)
    BY <1>t, <2>2, <2>3, <2>4, EditEntry
  <2> QED
    BY <2>1, <2>5
<1>3. CASE HelpText(k) # <<>>
  <2> DEFINE c == onTextDefaultChanged(w, v)
             m == onTextDefaultFocusOut(k, c)
  <2>1. ValueSet(k, w, v) = m
    BY <1>3, SMT DEF ValueSet
  <2>2. c \in Entries /\ c.kind = "entry" /\ c.text = v /\ ~c.isDefault
    BY <1>1, ChangedText
  <2> HIDE DEF c
  <2>3. Marked(k, c)
    BY <2>2 DEF Marked
  <2>4. Honest(k, c)
    BY <2>2 DEF Honest
  <2>5. IsWidget(m) /\ m.kind = "entry" /\ (m.isDefault => HelpText(k) # <<>>)
        /\ (Helps(k) => m.isDefault \/ Clean(k, m.text))
    BY <2>2, <2>3, <2>4, LeftEntry
  <2> HIDE DEF m
  <2>6. Edit(k, w, m, TRUE)
    BY <1>t, <2>5, EditEntry
  <2> QED
    BY <2>1, <2>6
<1> QED
  BY <1>2, <1>3

\* The default value is set in the widgets that have a reset button.
LEMMA ResetIs ==
  ASSUME NEW k, IsKey(k), NEW w, IsWidget(w), HasReset(k, w)
  PROVE  Edit(k, w, PackReset(k, w), TRUE)
<1> DEFINE v == k.def
<1>1. v \in Values /\ Len(v) \in Nat /\ DOMAIN v = 1..Len(v) /\ \A i \in 1..Len(v) : v[i] \in Int
  BY SMT DEF IsKey, Values
<1>2. w.kind \in {"pair", "color", "values"}
  BY DEF HasReset
<1>3. w.vals \in Values /\ Len(w.vals) \in Nat /\ DOMAIN w.vals = 1..Len(w.vals)
  <2>1. w.vals \in Values
    BY <1>2, KindIs, SMT
  <2> QED
    BY <2>1, SMT DEF Values
<1>4. \A i \in Nat : i > 0 => Elem(v, i) \in Int
  BY <1>1, ElemIsInt
<1>5. \A x \in Int : Bound(k, x) \in Int
  BY BoundIsInt
<1>6. PackReset(k, w) = ValueSet(k, w, v)
  BY DEF PackReset
<1> HIDE DEF v
<1>t. TRUE \in BOOLEAN
  OBVIOUS
<1>7. ASSUME NEW m, IsWidget(m), m.kind = w.kind PROVE Edit(k, w, m, TRUE)
  <2>1. Rowed(m) /\ w.kind \notin {"entry", "none"}
    BY <1>2, <1>7, SMT DEF Rowed
  <2> QED
    BY <1>t, <1>7, <2>1, EditOther
<1>8. CASE w.kind = "values"
  <2> DEFINE u == [i \in DOMAIN w.vals |-> Bound(k, Elem(v, i))]
             m == [w EXCEPT !.vals = u]
  <2>1. ValueSet(k, w, v) = m
    BY <1>8, SMT DEF ValueSet
  <2>2. u \in Values
    <3>1. u = [i \in 1..Len(w.vals) |-> Bound(k, Elem(v, i))]
      BY <1>3
    <3>2. \A i \in 1..Len(w.vals) : Bound(k, Elem(v, i)) \in Int
      <4> TAKE i \in 1..Len(w.vals)
      <4>1. i \in Nat /\ i > 0
        BY <1>3
      <4>2. Elem(v, i) \in Int
        BY <1>4, <4>1
      <4> QED
        BY <1>5, <4>2
    <3> HIDE DEF u
    <3> QED
      BY <1>3, <3>1, <3>2, SMT DEF Values
  <2> HIDE DEF u
  <2>3. IsWidget(m) /\ m.kind = w.kind
    BY <1>8, <2>2, ValuesEdited
  <2> HIDE DEF m
  <2> QED
    BY <1>6, <1>7, <2>1, <2>3
<1>9. CASE w.kind = "color"
  <2> DEFINE u == [i \in 1..4 |-> Elem(v, i)]
             m == [w EXCEPT !.vals = u]
  <2>1. ValueSet(k, w, v) = m
    BY <1>9, SMT DEF ValueSet
  <2>2. u \in Values /\ Len(u) = 4
    <3>1. \A i \in 1..4 : Elem(v, i) \in Int
      BY <1>4
    <3> QED
      BY <3>1, SMT DEF Values
  <2> HIDE DEF u
  <2>4. Len(w.vals) = 4
    BY <1>9, KindIs
  <2>3. IsWidget(m) /\ m.kind = w.kind
    BY <1>9, <2>2, <2>4, ValuesEdited
  <2> HIDE DEF m
  <2> QED
    BY <1>6, <1>7, <2>1, <2>3
<1>10. CASE w.kind = "pair"
  <2> DEFINE u == [i \in 1..2 |-> Bound(k, IF Len(v) < 2 THEN 0 ELSE v[i])]
             m == [w EXCEPT !.vals = u]
  <2>1. PICK b \in BOOLEAN : b = (Len(v) < 2 \/ v[1] = v[2])
    OBVIOUS
  <2>2. ValueSet(k, w, v) = [m EXCEPT !.linked = b]
    <3>1. ValueSet(k, w, v) = SetPair(k, w, v)
      BY <1>10, SMT DEF ValueSet
    <3>2. SetPair(k, w, v) = [w EXCEPT !.vals = u, !.linked = b]
      BY <2>1 DEF SetPair
    <3>3. [w EXCEPT !.vals = u, !.linked = b] = [m EXCEPT !.linked = b]
      OBVIOUS
    <3> QED
      BY <3>1, <3>2, <3>3
  <2>3. u \in Values /\ Len(u) = 2
    <3>1. \A i \in 1..2 : Bound(k, IF Len(v) < 2 THEN 0 ELSE v[i]) \in Int
      <4> TAKE i \in 1..2
      <4>1. (IF Len(v) < 2 THEN 0 ELSE v[i]) \in Int
        BY <1>1
      <4> QED
        BY <1>5, <4>1
    <3> QED
      BY <3>1, SMT DEF Values
  <2> HIDE DEF u
  <2>4. Len(w.vals) = 2
    BY <1>10, KindIs
  <2>5. IsWidget(m) /\ m.kind = "pair"
    BY <1>10, <2>3, <2>4, ValuesEdited
  <2> HIDE DEF m
  <2> DEFINE n == [m EXCEPT !.linked = b]
  <2>6. IsWidget(n) /\ n.kind = "pair"
    BY <2>5, LinkEdited
  <2> HIDE DEF n
  <2> QED
    BY <1>6, <1>7, <1>10, <2>2, <2>6 DEF n
<1> QED
  BY <1>2, <1>8, <1>9, <1>10

(***************************************************************************)
(* The values that the widgets give.                                       *)
(***************************************************************************)
LEMMA ValueIs ==
  ASSUME NEW k, NEW w, IsWidget(w), w # NoWidget
  PROVE  Value(k, w) \in Values
<1>1. w.kind \in {"values", "pair", "color", "combo", "numbered", "font", "entry", "tree"}
  BY KindIs
<1>2. CASE w.kind \in {"values", "pair"}
  <2>1. w.vals \in Values
    BY <1>2, KindIs, SMT
  <2> QED
    BY <1>2, <2>1, SMT DEF Value
<1>3. CASE w.kind = "color"
  <2>1. w.vals \in Values /\ Len(w.vals) = 4
    <3>1. w \in [kind : {"color"}, vals : Values] /\ Len(w.vals) = 4
      BY <1>3, KindIs
    <3> QED
      BY <3>1
  <2>2. SubSeq(w.vals, 1, 3) \in Values /\ SubSeq(w.vals, 1, 4) \in Values
    BY <2>1, PartOf, SMT DEF Values
  <2>3. Value(k, w) \in {SubSeq(w.vals, 1, 3), SubSeq(w.vals, 1, 4)}
    BY <1>3, SMT DEF Value
  <2> QED
    BY <2>2, <2>3
<1>4. CASE w.kind = "combo"
  <2>1. w.list \in Values /\ w.active \in Nat /\ w.active <= Len(w.list)
    <3>1. w \in [kind : {"combo", "numbered"}, list : Values, active : Nat] /\ w.active <= Len(w.list)
      BY <1>4, KindIs
    <3> QED
      BY <3>1
  <2>2. Value(k, w) = IF w.active = 0 \/ w.list[w.active] = 0 THEN <<>> ELSE <<w.list[w.active]>>
    BY <1>4, SMT DEF Value
  <2>3. w.active # 0 => w.list[w.active] \in Int
    BY <2>1, SMT DEF Values
  <2> QED
    BY <2>2, <2>3, SMT DEF Values
<1>5. CASE w.kind = "numbered"
  <2>1. w.active \in Nat
    BY <1>5, KindIs, SMT
  <2>2. Value(k, w) = <<w.active - 1>>
    BY <1>5, SMT DEF Value
  <2> QED
    BY <2>1, <2>2, SMT DEF Values
<1>6. CASE w.kind = "font"
  <2>1. w.text \in Values
    BY <1>6, KindIs, SMT
  <2> QED
    BY <1>6, <2>1, SMT DEF Value
<1>7. CASE w.kind = "entry"
  <2>1. w \in Entries /\ w.text \in Values
    BY <1>7, KindIs, EntryField
  <2>2. Value(k, w) = IF w.isDefault THEN <<>> ELSE w.text
    BY <2>1, EntryValue
  <2>3. <<>> \in Values
    BY EmptySeq DEF Values
  <2> QED
    BY <2>1, <2>2, <2>3
<1>8. CASE w.kind = "tree"
  <2>1. IsTree(w)
    BY <1>8, KindIs
  <2>2. Value(k, w) = [i \in DOMAIN w.rows |-> w.rows[i].val]
    BY <1>8, SMT DEF Value
  <2>3. w.rows \in Seq(Cells) /\ Len(w.rows) \in Nat /\ DOMAIN w.rows = 1..Len(w.rows)
    BY <2>1, TreeRange
  <2>4. \A i \in 1..Len(w.rows) : w.rows[i].val \in Int
    BY <2>3, CellFields
  <2>5. Value(k, w) = [i \in 1..Len(w.rows) |-> w.rows[i].val]
    BY <2>2, <2>3
  <2> QED
    BY <2>3, <2>4, <2>5, SMT DEF Values
<1> QED
  BY <1>1, <1>2, <1>3, <1>4, <1>5, <1>6, <1>7, <1>8

LEMMA CleanEncrypted ==
  ASSUME NEW k, IsKey(k), Helps(k), NEW v \in Values
  PROVE  /\ Clean(k, v) => Clean(k, Encrypt(v)) /\ Clean(k, Decrypt(v))
         /\ Clean(k, v) => v \notin {HelpText(k), Encrypt(HelpText(k))}
<1>1. PICK h \in Int : HelpText(k) = <<h>>
  BY HelpIsValue DEF Helps
<1>2. HelpText(k)[1] = h
  BY <1>1
<1>3. ASSUME 1 \notin DOMAIN v
      PROVE 1 \notin DOMAIN Encrypt(v) /\ 1 \notin DOMAIN Decrypt(v)
  BY <1>3, SMT DEF Encrypt, Decrypt
<1>4. ASSUME 1 \in DOMAIN v
      PROVE /\ v[1] \in Int /\ Encrypt(v)[1] = v[1] + 100 /\ Decrypt(v)[1] = v[1] - 100
  BY <1>4, SMT DEF Encrypt, Decrypt, Cipher, Values
<1>5. \A a \in Int : (a + 100) % 100 = a % 100 /\ (a - 100) % 100 = a % 100
  BY SMT
<1>6. ASSUME Clean(k, v) PROVE Clean(k, Encrypt(v)) /\ Clean(k, Decrypt(v))
  <2>1. CASE 1 \in DOMAIN v
    <3>1. v[1] % 100 # h % 100
      BY <1>2, <1>6, <2>1 DEF Clean, Cipher
    <3> QED
      BY <1>2, <1>4, <1>5, <2>1, <3>1, SMT DEF Clean, Cipher
  <2>2. CASE 1 \notin DOMAIN v
    BY <1>3, <2>2 DEF Clean
  <2> QED
    BY <2>1, <2>2
<1>7. ASSUME Clean(k, v) PROVE v \notin {HelpText(k), Encrypt(HelpText(k))}
  <2>1. v # <<h>>
    BY <1>2, <1>7, SMT DEF Clean, Cipher
  <2>2. v # Encrypt(<<h>>)
    <3>1. Encrypt(<<h>>)[1] = h + 100 /\ 1 \in DOMAIN Encrypt(<<h>>)
      BY SMT DEF Encrypt, Cipher
    <3>2. (h + 100) % 100 = h % 100
      BY <1>5
    <3> QED
      BY <1>2, <1>7, <3>1, <3>2, SMT DEF Clean, Cipher
  <2> QED
    BY <1>1, <2>1, <2>2
<1> QED
  BY <1>6, <1>7

\* The page of a key shows it with a widget that is well made.
LEMMA BuiltIsWidget ==
  ASSUME NEW k, IsKey(k), NEW v \in Values, ~PastChoices(k, v)
  PROVE  LET w == buildKey(k, v)
         IN /\ WidgetOk(k, w)
            /\ k.shown /\ k.type \in {"bool", "boolCtrl"} => w.kind = "values"
            /\ k.shown /\ k.type = "password" => w # NoWidget
            /\ (Helps(k) => Clean(k, v)) => Honest(k, w)
<1> DEFINE w == buildKey(k, v)
           made == Maker(k, v)
<1>1. w = IF k.shown THEN made ELSE NoWidget
  BY DEF buildKey
<1>2. CASE ~k.shown
  <2>1. w = NoWidget
    BY <1>1, <1>2
  <2> HIDE DEF w
  <2>2. WidgetOk(k, w) /\ Honest(k, w)
    BY <2>1, NoneIsWidget, SMT DEF WidgetOk, Marked, Rowed, Honest
  <2> QED
    BY <1>2, <2>2 DEF w
<1>3. CASE k.shown
  <2>1. w = made
    BY <1>1, <1>3
  <2>2. /\ IsWidget(made)
        /\ made.kind = "tree" => made = [kind |-> "tree", rows |-> Rows(v), sel |-> 0, slipped |-> FALSE]
        /\ k.type \in {"text", "password", "class"} => made = Strings(k, v)
        /\ k.type \in {"bool", "boolCtrl"} => made.kind = "values"
        /\ made.kind = "entry" /\ made.isDefault => HelpText(k) # <<>>
    BY MadeIsWidget
  <2> HIDE DEF made, w
  <2>3. Rowed(made)
    BY <2>2, MadeTreeOrdered DEF Rowed
  <2>4. Marked(k, made)
    BY <2>2 DEF Marked
  <2>5. k.type \in {"text", "password", "class"} => made \in Entries /\ made.kind = "entry" /\ made # NoWidget
    BY <2>2, StringsShow, NoneIsWidget
  <2>6. ASSUME Helps(k), Clean(k, v) PROVE Honest(k, made)
    <3> DEFINE t == IF k.type = "password" THEN Decrypt(v) ELSE v
    <3>1. t \in Values /\ Clean(k, t)
      BY <2>6, CipherIsValue, CleanEncrypted
    <3>2. made = onTextDefaultFocusOut(k, Entry(t))
      BY <2>2, <2>6, Zenon DEF Helps, Strings, Entry
    <3> HIDE DEF t
    <3>3. Entry(t) \in Entries /\ ~Entry(t).isDefault /\ Entry(t).text = t
      BY <3>1, SMT DEF Entry, Entries
    <3>4. Marked(k, Entry(t))
      BY <3>3 DEF Marked
    <3>5. Honest(k, Entry(t))
      BY <3>1, <3>3, EntryField DEF Honest
    <3>6. made.kind = "entry" /\ (made.isDefault \/ Clean(k, made.text))
      BY <2>6, <3>2, <3>3, <3>4, <3>5, LeftEntry
    <3> QED
      BY <3>6 DEF Honest
  <2>7. ~Helps(k) => Honest(k, made)
    BY DEF Honest
  <2>8. WidgetOk(k, made)
    BY <2>2, <2>3, <2>4 DEF WidgetOk
  <2>9. /\ WidgetOk(k, w)
        /\ k.type \in {"bool", "boolCtrl"} => w.kind = "values"
        /\ k.type = "password" => w # NoWidget
        /\ (Helps(k) => Clean(k, v)) => Honest(k, w)
    BY <2>1, <2>2, <2>5, <2>6, <2>7, <2>8
  <2> QED
    BY <2>9 DEF w
<1> QED
  BY <1>2, <1>3

\* What a page gives to its file.
LEMMA StoredIs ==
  ASSUME NEW k, IsKey(k), NEW w, WidgetOk(k, w), NEW v \in Values
  PROVE  LET u == UpdateStorage(k, w, v)
         IN /\ u \in Values
            /\ Helps(k) /\ Honest(k, w) /\ Clean(k, v) => Clean(k, u)
<1> DEFINE value == IF w = NoWidget THEN v ELSE Value(k, w)
           u == UpdateStorage(k, w, v)
<1>1. u \in {v, value, Encrypt(value)}
  BY Zenon DEF UpdateStorage
<1>2. value \in Values
  BY ValueIs DEF WidgetOk
<1>3. ASSUME Helps(k), Honest(k, w), Clean(k, v) PROVE Clean(k, value)
  <2>1. CASE w = NoWidget
    BY <1>3, <2>1
  <2>2. CASE w # NoWidget
    <3>1. w.kind = "entry" /\ (w.isDefault \/ Clean(k, w.text))
      BY <1>3, <2>2 DEF Honest
    <3>2. w \in Entries
      BY <3>1, KindIs DEF WidgetOk
    <3>3. value = IF w.isDefault THEN <<>> ELSE w.text
      BY <2>2, <3>2, EntryValue
    <3>4. Clean(k, <<>>)
      BY SMT DEF Clean
    <3> QED
      BY <3>1, <3>3, <3>4
  <2> QED
    BY <2>1, <2>2
<1> HIDE DEF value, u
<1>4. Encrypt(value) \in Values
  BY <1>2, CipherIsValue
<1>5. ASSUME Helps(k), Honest(k, w), Clean(k, v) PROVE Clean(k, u)
  BY <1>1, <1>2, <1>3, <1>5, CleanEncrypted
<1> QED
  BY <1>1, <1>2, <1>4, <1>5 DEF u

LEMMA StoredAgain ==
  ASSUME NEW k, NEW w, NEW v, w = NoWidget => k.type # "password"
  PROVE  UpdateStorage(k, w, UpdateStorage(k, w, v)) = UpdateStorage(k, w, v)
<1>1. CASE k.type \in Unsaved
  BY <1>1, Zenon DEF UpdateStorage
<1>2. CASE w = NoWidget /\ k.type \notin Unsaved
  BY <1>2, Zenon DEF UpdateStorage
<1>3. CASE w # NoWidget /\ k.type \notin Unsaved
  BY <1>3, Zenon DEF UpdateStorage
<1> QED
  BY <1>1, <1>2, <1>3

LEMMA StoredSame ==
  ASSUME NEW k, NEW w, NEW m, NEW v, w = NoWidget <=> m = NoWidget,
         Value(k, m) = Value(k, w)
  PROVE  UpdateStorage(k, m, v) = UpdateStorage(k, w, v)
  BY Zenon DEF UpdateStorage

(***************************************************************************)
(* Pages and what they give to their file.                                 *)
(***************************************************************************)
Slotted(s) == {t \in Slots : Conf(t) = Conf(s)}
\* A page that was not edited gives back what it read, if its widget can show it, or
\* makes a new dock.
Trip(k, r) ==
  ~r.edited /\ Fits(k, r.copy[r.slot]) =>
    \/ UpdateStorage(k, r.w, r.copy[r.slot]) = r.copy[r.slot]
    \/ k.type = "dock" /\ UpdateStorage(k, r.w, r.copy[r.slot]) = <<NewDock>>
PageOk(k, r) ==
  /\ IsPage(r) /\ r.copy \in [Slotted(r.slot) -> Values]
  /\ WidgetOk(k, r.w) /\ Honest(k, r.w)
  /\ k.shown /\ k.type = "password" => r.w # NoWidget
  /\ r.slot = "own" => r.w.kind = "values"
  /\ r.waits => r.w.kind = "entry"
  /\ Helps(k) => \A t \in Slotted(r.slot) : Clean(k, r.copy[t])
  /\ Trip(k, r)

LEMMA PageOpened ==
  ASSUME NEW k, IsKey(k), NEW s \in Slots, NEW f \in [Slots -> Values],
         ~PastChoices(k, f[s]), Helps(k) => \A t \in Slotted(s) : Clean(k, f[t]),
         s = "own" => k.shown /\ k.type = "bool"
  PROVE  PageOk(k, BuiltPage(s, [t \in Slotted(s) |-> f[t]], buildKey(k, f[s])))
<1> DEFINE c == [t \in Slotted(s) |-> f[t]]
           w == buildKey(k, f[s])
           r == BuiltPage(s, c, w)
<1>1. /\ s \in Slotted(s) /\ Slotted(s) \subseteq Slots /\ f[s] \in Values
  BY DEF Slotted
<1>2. /\ WidgetOk(k, w) /\ Honest(k, w)
      /\ k.shown /\ k.type \in {"bool", "boolCtrl"} => w.kind = "values"
      /\ k.shown /\ k.type = "password" => w # NoWidget
  BY <1>1, BuiltIsWidget
<1>3. c[s] = f[s] /\ c \in [Slotted(s) -> Values] /\ \A t \in Slotted(s) : c[t] = f[t]
  BY <1>1
<1>4. Fits(k, f[s]) => UpdateStorage(k, w, f[s]) = f[s]
  BY <1>1, MadeGivesBack
<1> HIDE DEF c, w
<1>5. /\ IsPage(r) /\ r.slot = s /\ r.copy = c /\ r.w = w /\ ~r.edited /\ ~r.waits
  BY NewFields
<1> HIDE DEF r
<1>6. Trip(k, r)
  BY <1>3, <1>4, <1>5, Zenon DEF Trip
<1>7. Helps(k) => \A t \in Slotted(r.slot) : Clean(k, r.copy[t])
  BY <1>3, <1>5, Zenon
<1>8. /\ k.shown /\ k.type = "password" => r.w # NoWidget
      /\ r.slot = "own" => r.w.kind = "values"
      /\ r.waits => r.w.kind = "entry"
  BY <1>2, <1>5
<1>9. r.copy \in [Slotted(r.slot) -> Values] /\ WidgetOk(k, r.w) /\ Honest(k, r.w)
  BY <1>2, <1>3, <1>5
<1>10. PageOk(k, r)
  BY <1>5, <1>6, <1>7, <1>8, <1>9, Zenon DEF PageOk
<1> QED
  BY <1>10 DEF r, c, w

LEMMA PageEdited ==
  ASSUME NEW k, NEW r, PageOk(k, r), NEW m, NEW e \in BOOLEAN, Edit(k, r.w, m, e),
         NEW b \in BOOLEAN, b => r.w.kind = "entry"
  PROVE  PageOk(k, Make(r.slot, r.copy, m, r.edited \/ e, b))
<1> DEFINE d == r.edited \/ e
           n == Make(r.slot, r.copy, m, d, b)
<1>1. /\ IsPage(r) /\ r.copy \in [Slotted(r.slot) -> Values] /\ WidgetOk(k, r.w) /\ Honest(k, r.w)
      /\ r.slot \in Slots /\ r.edited \in BOOLEAN
      /\ k.shown /\ k.type = "password" => r.w # NoWidget
      /\ r.slot = "own" => r.w.kind = "values"
      /\ Helps(k) => \A t \in Slotted(r.slot) : Clean(k, r.copy[t])
  BY Zenon DEF PageOk, IsPage
<1>2. /\ WidgetOk(k, m) /\ m.kind = r.w.kind /\ Honest(k, m)
      /\ ~e => Value(k, m) = Value(k, r.w)
  BY <1>1 DEF Edit
<1>3. d \in BOOLEAN /\ (d <=> r.edited \/ e)
  BY <1>1
<1> HIDE DEF d
<1>4. /\ IsPage(n) /\ n.slot = r.slot /\ n.copy = r.copy /\ n.w = m /\ (n.edited <=> d) /\ (n.waits <=> b)
  BY <1>1, <1>3, MakeFields
<1> HIDE DEF n
<1>5. m = NoWidget <=> r.w = NoWidget
  BY <1>1, <1>2, KindIs DEF WidgetOk
<1>6. Trip(k, n)
  <2>1. CASE d
    BY <1>4, <2>1, Zenon DEF Trip
  <2>2. CASE ~d
    <3>1. \A v : UpdateStorage(k, m, v) = UpdateStorage(k, r.w, v)
      BY <1>2, <1>3, <1>5, <2>2, StoredSame
    <3>2. ~r.edited /\ Trip(k, r)
      BY <1>3, <2>2, Zenon DEF PageOk
    <3> QED
      BY <1>4, <3>1, <3>2, Zenon DEF Trip
  <2> QED
    BY <2>1, <2>2
<1>7. Helps(k) => \A t \in Slotted(n.slot) : Clean(k, n.copy[t])
  BY <1>1, <1>4, Zenon
<1>8. /\ k.shown /\ k.type = "password" => n.w # NoWidget
      /\ n.slot = "own" => n.w.kind = "values"
      /\ n.waits => n.w.kind = "entry"
  BY <1>1, <1>2, <1>4, <1>5
<1>9. n.copy \in [Slotted(n.slot) -> Values] /\ WidgetOk(k, n.w) /\ Honest(k, n.w)
  BY <1>1, <1>2, <1>4
<1>10. PageOk(k, n)
  BY <1>4, <1>6, <1>7, <1>8, <1>9, Zenon DEF PageOk
<1> QED
  BY <1>10 DEF n, d

LEMMA PageSaved ==
  ASSUME NEW k, NEW r, PageOk(k, r), NEW v \in Values, Helps(k) => Clean(k, v), NEW d \in BOOLEAN,
         LET u == UpdateStorage(k, r.w, r.copy[r.slot])
         IN v = u \/ (k.type = "dock" /\ u = <<NewDock>>)
  PROVE  PageOk(k, Make(r.slot, [r.copy EXCEPT ![r.slot] = v], r.w, r.edited /\ ~d, r.waits))
<1> DEFINE s == r.slot
           w == r.w
           u == UpdateStorage(k, w, r.copy[s])
           e == r.edited /\ ~d
           c == [r.copy EXCEPT ![s] = v]
           n == Make(s, c, w, e, r.waits)
<1>1. /\ IsPage(r) /\ r.copy \in [Slotted(s) -> Values] /\ WidgetOk(k, w) /\ Honest(k, w)
      /\ s \in Slots /\ r.edited \in BOOLEAN /\ r.waits \in BOOLEAN
      /\ k.shown /\ k.type = "password" => w # NoWidget
      /\ s = "own" => w.kind = "values"
      /\ r.waits => w.kind = "entry"
      /\ Helps(k) => \A t \in Slotted(s) : Clean(k, r.copy[t])
  BY Zenon DEF PageOk, IsPage
<1>2. s \in Slotted(s)
  BY <1>1 DEF Slotted
<1>3. c \in [Slotted(s) -> Values] /\ c[s] = v /\ \A t \in Slotted(s) : t # s => c[t] = r.copy[t]
  BY <1>1, <1>2
<1>4. e \in BOOLEAN
  BY <1>1
<1> HIDE DEF c, e
<1>5. IsPage(n) /\ n.slot = s /\ n.copy = c /\ n.w = w /\ (n.waits <=> r.waits)
  BY <1>1, <1>4, MakeFields
<1>6. Fits(k, v) => \/ UpdateStorage(k, w, v) = v
                    \/ k.type = "dock" /\ UpdateStorage(k, w, v) = <<NewDock>>
  <2> HAVE Fits(k, v)
  <2>1. w = NoWidget => k.type # "password"
    BY <1>1, FitsIs
  <2>2. CASE v = u
    BY <2>1, <2>2, StoredAgain
  <2>3. CASE k.type = "dock" /\ u = <<NewDock>>
    <3>1. k.type \notin Unsaved /\ k.type # "password"
      BY <2>3, SMT DEF Unsaved
    <3>2. CASE w = NoWidget
      BY <3>1, <3>2, Zenon DEF UpdateStorage
    <3>3. CASE w # NoWidget
      <4>1. UpdateStorage(k, w, v) = u
        BY <3>1, <3>3, Zenon DEF UpdateStorage
      <4> QED
        BY <2>3, <4>1
    <3> QED
      BY <3>2, <3>3
  <2> QED
    BY <2>2, <2>3
<1> HIDE DEF n
<1>7. Trip(k, n)
  BY <1>3, <1>5, <1>6, Zenon DEF Trip
<1>8. Helps(k) => \A t \in Slotted(n.slot) : Clean(k, n.copy[t])
  BY <1>1, <1>3, <1>5, Zenon
<1>9. /\ k.shown /\ k.type = "password" => n.w # NoWidget
      /\ n.slot = "own" => n.w.kind = "values"
      /\ n.waits => n.w.kind = "entry"
  BY <1>1, <1>5
<1>10. n.copy \in [Slotted(n.slot) -> Values] /\ WidgetOk(k, n.w) /\ Honest(k, n.w)
  BY <1>1, <1>3, <1>5
<1>11. PageOk(k, n)
  BY <1>5, <1>7, <1>8, <1>9, <1>10, Zenon DEF PageOk
<1> QED
  BY <1>11 DEF n, c, e

(***************************************************************************)
(* The configuration window.                                               *)
(***************************************************************************)
\* The pages fit the key they show.
PagesOk == \A p \in Places : page[p] # NoPage => PageOk(KeyOf(page[p].slot), page[p])
\* The files, and the classes that grabs bring, hold values and no help text.
Files   == /\ key \in Layouts /\ file \in [Slots -> Values]
           /\ Helps(key) => \A s \in Slots \ {"own"} : Clean(key, file[s])
Classes == \A g \in Grabs : grab[g].step # "off" =>
             grab[g].class \in Values /\ (Helps(key) => Clean(key, grab[g].class))
\* The main docks created have the numbers from 80 on: the next one is new.
Docks   == \E n \in Nat : docks = 80..(79 + n)
\* The inductive invariant of the window.
GuiInv  == Held /\ PagesOk /\ Files /\ Classes /\ Docks

\* The key of a page, and that of the own settings.
LEMMA KeysAre ==
  ASSUME key \in Layouts, NEW s \in Slots
  PROVE  /\ IsKey(KeyOf(s))
         /\ s # "own" => KeyOf(s) = key
         /\ s = "own" => /\ KeyOf(s).shown /\ KeyOf(s).type = "bool" /\ ~Helps(KeyOf(s))
<1>1. CASE s = "own"
  <2>1. KeyOf(s) = OwnKey
    BY <1>1 DEF KeyOf
  <2>2. OwnKey.type = "bool" /\ OwnKey.shown = TRUE
    BY SMT DEF OwnKey
  <2>3. IsKey(OwnKey)
    <3>1. /\ OwnKey.n = 1 /\ OwnKey.auth = <<>> /\ OwnKey.src = <<>> /\ OwnKey.def = <<0>>
          /\ OwnKey.vals = {<<0>>, <<1>>} /\ OwnKey.typed = {0, 1}
      BY SMT DEF OwnKey
    <3>2. <<>> \in Seq(Int) /\ <<0>> \in Seq(Int) /\ <<1>> \in Seq(Int) /\ 1 \in Nat /\ {0, 1} \subseteq Int
      BY SMT
    <3> QED
      BY <3>1, <3>2, Zenon DEF IsKey
  <2>4. ~Helps(OwnKey)
    BY <2>2 DEF Helps
  <2> QED
    BY <1>1, <2>1, <2>2, <2>3, <2>4
<1>2. CASE s # "own"
  BY <1>2, GuiAssumption DEF KeyOf
<1> QED
  BY <1>1, <1>2

LEMMA SlottedAre ==
  ASSUME NEW s \in Slots
  PROVE  /\ s \in Slotted(s) /\ Slotted(s) \subseteq Slots
         /\ s # "own" => "own" \notin Slotted(s)
         /\ Slotted(s) = {u \in Slots : Conf(u) = Conf(s)}
<1>1. s # "own" => Conf(s) # "own"
  BY SMT DEF Conf, Slots
<1>2. Conf("own") = "own"
  BY SMT DEF Conf
<1> QED
  BY <1>1, <1>2, Zenon DEF Slotted

LEMMA OpenedOk ==
  ASSUME GuiInv, NEW p \in Places, NEW s \in Slots, OpenPage(p, s), key' = key
  PROVE  PagesOk'
<1> DEFINE k == KeyOf(s)
           c == [t \in Slotted(s) |-> file[t]]
           r == BuiltPage(s, c, buildKey(k, file[s]))
<1>1. Pages /\ key \in Layouts /\ file \in [Slots -> Values] /\ PagesOk
      /\ (Helps(key) => \A t \in Slots \ {"own"} : Clean(key, file[t]))
  BY DEF GuiInv, Held, Files
<1>2. \/ page' = [page EXCEPT ![p] = r] /\ ~PastChoices(k, file[s])
      \/ page' = [page EXCEPT ![p] = NoPage]
  BY Zenon DEF OpenPage, BuiltPage, Slotted
<1>3. /\ IsKey(k) /\ (s # "own" => k = key)
      /\ s = "own" => k.shown /\ k.type = "bool" /\ ~Helps(k)
  BY <1>1, KeysAre
<1>4. Helps(k) => \A t \in Slotted(s) : Clean(k, file[t])
  BY <1>1, <1>3, SlottedAre
<1> HIDE DEF k
<1>5. ~PastChoices(k, file[s]) => PageOk(k, r)
  BY <1>1, <1>3, <1>4, PageOpened
<1>6. r.slot = s
  BY NewFields
<1> HIDE DEF r
<1>7. PICK x : page' = [page EXCEPT ![p] = x] /\ (x = NoPage \/ (PageOk(k, x) /\ x.slot = s))
  BY <1>2, <1>5, <1>6
<1>8. page'[p] = x /\ \A q \in Places : q # p => page'[q] = page[q]
  BY <1>1, <1>7, OneReplaced, Zenon DEF Pages
<1>9. \A q \in Places : page'[q] # NoPage => PageOk(KeyOf(page'[q].slot), page'[q])
  <2> TAKE q \in Places
  <2> HAVE page'[q] # NoPage
  <2>1. CASE q = p
    BY <1>7, <1>8, <2>1 DEF k
  <2>2. CASE q # p
    <3>1. page'[q] = page[q]
      BY <1>8, <2>2
    <3> QED
      BY <1>1, <3>1 DEF PagesOk
  <2> QED
    BY <2>1, <2>2
<1> QED
  BY <1>9, Zenon DEF PagesOk, KeyOf

\* The pages that stay are still well made.
LEMMA StillOk ==
  ASSUME PagesOk, key' = key,
         \A q \in Places : page'[q] = page[q] \/ page'[q] = NoPage
                                  \/ PageOk(KeyOf(page'[q].slot), page'[q])
  PROVE  PagesOk'
<1>1. \A q \in Places : page'[q] # NoPage => PageOk(KeyOf(page'[q].slot), page'[q])
  <2> TAKE q \in Places
  <2> HAVE page'[q] # NoPage
  <2>1. CASE page'[q] = page[q]
    BY <2>1 DEF PagesOk
  <2> QED
    BY <2>1
<1> QED
  BY <1>1, Zenon DEF PagesOk, KeyOf

\* What the user types is a value, and no help text.
LEMMA TypedIs ==
  ASSUME NEW k, IsKey(k), NEW x \in k.typed
  PROVE  <<x>> \in Values /\ (Helps(k) => Clean(k, <<x>>))
<1>1. x \in Int
  BY DEF IsKey
<1>2. <<x>> \in Values
  BY <1>1, SMT DEF Values
<1>3. ASSUME Helps(k) PROVE Clean(k, <<x>>)
  <2>1. <<x>> = <<>> \/ <<x>>[1] % Cipher # HelpText(k)[1] % Cipher
    <3>1. <<x>> \in k.vals \cup {<<y>> : y \in k.typed}
      OBVIOUS
    <3> QED
      BY <1>3, <3>1, Zenon DEF Helps, NotHelp
  <2>2. <<x>> # <<>>
    OBVIOUS
  <2> QED
    BY <2>1, <2>2 DEF Clean
<1> QED
  BY <1>2, <1>3

LEMMA EmptyIsClean == <<>> \in Values /\ \A k : Clean(k, <<>>)
<1>1. 1 \notin DOMAIN <<>>
  OBVIOUS
<1> QED
  BY <1>1, EmptySeq DEF Values, Clean

LEMMA EditsEdit ==
  ASSUME GuiInv, NEW p \in Places, Edits(p)
  PROVE  \/ page' = page
         \/ \E w : \E e \in BOOLEAN :
              OnPage(p, w, e) /\ Edit(KeyOf(page[p].slot), page[p].w, w, e)
<1> DEFINE k == KeyOf(page[p].slot)
           v == page[p].w
           Done == \E w : \E e \in BOOLEAN : OnPage(p, w, e) /\ Edit(k, v, w, e)
<1>1. page[p] # NoPage
  BY EditsAre
<1>2. /\ PageOk(k, page[p]) /\ page[p].slot \in Slots /\ key \in Layouts
  BY <1>1, Zenon DEF GuiInv, PagesOk, Files, PageOk, IsPage
<1>3. IsKey(k) /\ (page[p].slot # "own" => k = key)
  BY <1>2, KeysAre
<1>4. WidgetOk(k, v) /\ IsWidget(v) /\ Rowed(v) /\ (page[p].slot = "own" => v.kind = "values")
  BY <1>2, Zenon DEF PageOk, WidgetOk
<1>5. Typed(p) = k.typed
  BY DEF Typed
<1>t. TRUE \in BOOLEAN /\ FALSE \in BOOLEAN
  OBVIOUS
<1> HIDE DEF k
<1>6. ASSUME EditValue(p) PROVE Done
  <2>1. PICK i \in DOMAIN v.vals, x \in k.typed : OnPage(p, [v EXCEPT !.vals[i] = x], TRUE)
    BY <1>5, <1>6, Zenon DEF EditValue
  <2>2. v.kind = "values"
    BY <1>6 DEF EditValue, Shows
  <2> DEFINE m == [v EXCEPT !.vals[i] = x]
  <2>3. Edit(k, v, m, TRUE)
    BY <1>3, <1>4, <2>2, EditValueIs
  <2> HIDE DEF m
  <2>4. OnPage(p, m, TRUE)
    BY <2>1 DEF m
  <2> QED
    BY <1>t, <2>3, <2>4, Zenon
<1>7. ASSUME EditPair(p) PROVE Done
  <2>1. v.kind = "pair"
    BY <1>7 DEF EditPair, Shows
  <2>2. CASE \E i \in 1..2, x \in k.typed : OnPage(p, onValuePairChanged(v, i, x), TRUE)
    <3>1. PICK i \in 1..2, x \in k.typed : OnPage(p, onValuePairChanged(v, i, x), TRUE)
      BY <2>2
    <3>2. Edit(k, v, onValuePairChanged(v, i, x), TRUE)
      BY <1>3, <1>4, <2>1, EditPairIs
    <3> QED
      BY <1>t, <3>1, <3>2, Zenon
  <2>3. CASE OnPage(p, [v EXCEPT !.linked = ~@], FALSE)
    <3> DEFINE m == [v EXCEPT !.linked = ~@]
    <3>1. Edit(k, v, m, FALSE)
      BY <1>4, <2>1, LinkIs
    <3> HIDE DEF m
    <3>2. OnPage(p, m, FALSE)
      BY <2>3 DEF m
    <3> QED
      BY <1>t, <3>1, <3>2, Zenon
  <2> QED
    BY <1>5, <1>7, <2>2, <2>3, Zenon DEF EditPair
<1>8. ASSUME EditColor(p) PROVE Done
  <2>1. PICK x \in k.typed : OnPage(p, [v EXCEPT !.vals[1] = x], TRUE)
    BY <1>5, <1>8, Zenon DEF EditColor
  <2>2. v.kind = "color"
    BY <1>8 DEF EditColor, Shows
  <2>5. 1 \in DOMAIN v.vals
    <3>1. v \in [kind : {"color"}, vals : Values] /\ Len(v.vals) = 4
      BY <1>4, <2>2, KindIs
    <3> QED
      BY <3>1, SMT DEF Values
  <2> DEFINE m == [v EXCEPT !.vals[1] = x]
  <2>3. Edit(k, v, m, TRUE)
    BY <1>3, <1>4, <2>2, <2>5, EditValueIs
  <2> HIDE DEF m
  <2>4. OnPage(p, m, TRUE)
    BY <2>1 DEF m
  <2> QED
    BY <1>t, <2>3, <2>4, Zenon
<1>9. ASSUME EditChoice(p) PROVE Done
  <2>1. PICK i \in DOMAIN v.list : OnPage(p, [v EXCEPT !.active = i], TRUE)
    BY <1>9, Zenon DEF EditChoice
  <2>2. v.kind \in {"combo", "numbered"}
    BY <1>9 DEF EditChoice, Shows
  <2> DEFINE m == [v EXCEPT !.active = i]
  <2>3. Edit(k, v, m, TRUE)
    BY <1>3, <1>4, <2>2, EditChoiceIs
  <2> HIDE DEF m
  <2>4. OnPage(p, m, TRUE)
    BY <2>1 DEF m
  <2> QED
    BY <1>t, <2>3, <2>4, Zenon
<1>10. ASSUME EditFont(p) PROVE Done
  <2>1. PICK x \in k.typed : OnPage(p, [v EXCEPT !.text = <<x>>], TRUE)
    BY <1>5, <1>10, Zenon DEF EditFont
  <2>2. v.kind = "font"
    BY <1>10 DEF EditFont, Shows
  <2> DEFINE m == [v EXCEPT !.text = <<x>>]
  <2>3. Edit(k, v, m, TRUE)
    BY <1>3, <1>4, <2>2, EditFontIs
  <2> HIDE DEF m
  <2>4. OnPage(p, m, TRUE)
    BY <2>1 DEF m
  <2> QED
    BY <1>t, <2>3, <2>4, Zenon
<1>11. ASSUME EditText(p) PROVE Done
  <2>1. PICK u \in {<<x>> : x \in k.typed} \cup {<<>>} : OnPage(p, onTextDefaultChanged(v, u), TRUE)
    BY <1>5, <1>11, Zenon DEF EditText
  <2>2. v.kind = "entry"
    BY <1>11 DEF EditText, Shows
  <2>3. u \in Values /\ (Helps(k) => Clean(k, u))
    <3>1. CASE u = <<>>
      BY <3>1, EmptyIsClean
    <3>2. CASE u \in {<<x>> : x \in k.typed}
      <4>1. PICK x \in k.typed : u = <<x>>
        BY <3>2
      <4> QED
        BY <1>3, <4>1, TypedIs
    <3> QED
      BY <2>1, <3>1, <3>2
  <2>4. Edit(k, v, onTextDefaultChanged(v, u), TRUE)
    BY <1>3, <1>4, <2>2, <2>3, EditTextIs
  <2> QED
    BY <1>t, <2>1, <2>4, Zenon
<1>12. ASSUME EditTree(p) PROVE Done
  <2>1. v.kind = "tree"
    BY <1>12 DEF EditTree, Shows
  <2>2. /\ \A i \in DOMAIN v.rows : Edit(k, v, [v EXCEPT !.sel = i], FALSE)
        /\ v.sel # 0 => /\ Edit(k, v, onTreeviewMoveUp(v), TRUE)
                        /\ Edit(k, v, onTreeviewMoveDown(v), TRUE)
                        /\ Edit(k, v, onTreeviewRemoveText(v), TRUE)
        /\ \A x \in k.typed : Edit(k, v, onTreeviewAddText(v, x), TRUE)
    BY <1>3, <1>4, <2>1, EditTreeIs
  <2>3. \/ \E i \in DOMAIN v.rows : OnPage(p, [v EXCEPT !.sel = i], FALSE)
        \/ v.sel # 0 /\ (OnPage(p, onTreeviewMoveUp(v), TRUE) \/ OnPage(p, onTreeviewMoveDown(v), TRUE)
                          \/ OnPage(p, onTreeviewRemoveText(v), TRUE))
        \/ \E x \in k.typed : OnPage(p, onTreeviewAddText(v, x), TRUE)
    BY <1>5, <1>12, Zenon DEF EditTree
  <2> QED
    BY <1>t, <2>2, <2>3, Zenon
<1>13. ASSUME Focus(p) PROVE Done
  <2>1. v.kind = "entry"
    BY <1>13 DEF Focus, Shows
  <2>2. k = key
    <3>1. page[p].slot # "own"
      <4>1. "values" # "entry"
        OBVIOUS
      <4> QED
        BY <1>4, <2>1, <4>1
    <3> QED
      BY <1>3, <3>1
  <2>3. /\ v.focus => Edit(k, v, onTextDefaultFocusOut(k, v), FALSE)
        /\ ~v.focus => Edit(k, v, onTextDefaultFocusIn(v), FALSE)
    BY <1>3, <1>4, <2>1, EditFocusIs
  <2>4. OnPage(p, IF v.focus THEN onTextDefaultFocusOut(k, v) ELSE onTextDefaultFocusIn(v), FALSE)
    BY <1>13, <2>2 DEF Focus
  <2>5. CASE v.focus
    <3>1. OnPage(p, onTextDefaultFocusOut(k, v), FALSE)
      BY <2>4, <2>5
    <3> QED
      BY <1>t, <2>3, <2>5, <3>1, Zenon
  <2>6. CASE ~v.focus
    <3>1. OnPage(p, onTextDefaultFocusIn(v), FALSE)
      BY <2>4, <2>6
    <3> QED
      BY <1>t, <2>3, <2>6, <3>1, Zenon
  <2> QED
    BY <2>5, <2>6
<1>14. ASSUME Reset(p) PROVE page' = page \/ Done
  <2>1. HasReset(k, v)
    BY <1>14 DEF Reset, k
  <2>2. Edit(k, v, PackReset(k, v), TRUE)
    BY <1>3, <1>4, <2>1, ResetIs
  <2>3. OnPage(p, PackReset(k, v), TRUE) \/ page' = page
    BY <1>14, Zenon DEF Reset, placeVars, k
  <2> QED
    BY <1>t, <2>2, <2>3, Zenon
<1> HIDE DEF Done
<1>15. page' = page \/ Done
  BY <1>6, <1>7, <1>8, <1>9, <1>10, <1>11, <1>12, <1>13, <1>14, Zenon DEF Edits
<1> QED
  BY <1>15 DEF Done, k

LEMMA NextDockIs ==
  ASSUME NEW n \in Nat, docks = 80..(79 + n)
  PROVE  /\ NextDock = 80 + n /\ NextDock \notin docks /\ <<NextDock>> \in Values
         /\ docks \cup {NextDock} = 80..(79 + (n + 1))
<1>1. Cardinality(docks) = n
  <2>1. Cardinality(80..(79 + n)) = IF 80 > 79 + n THEN 0 ELSE ((79 + n) - 80) + 1
    BY FS_Interval
  <2> QED
    BY <2>1
<1>2. NextDock = 80 + n
  BY <1>1, CountsAgree DEF NextDock
<1>3. <<80 + n>> \in Values
  BY SMT DEF Values
<1> QED
  BY <1>2, <1>3

\* What a save may write for a page.
LEMMA UpdatedIs ==
  ASSUME GuiInv, NEW p \in Places, page[p] # NoPage, NEW v \in Updated(p)
  PROVE  LET k == KeyOf(page[p].slot)
             u == UpdateStorage(k, page[p].w, page[p].copy[page[p].slot])
         IN /\ v \in Values /\ (Helps(k) => Clean(k, v))
            /\ \/ v = u
               \/ k.type = "dock" /\ u = <<NewDock>>
            /\ k.type = "dock" /\ u = <<NewDock>> =>
                 v = page[p].copy[page[p].slot] \/ v = <<NextDock>>
<1> DEFINE s == page[p].slot
           k == KeyOf(s)
           c == page[p].copy[s]
           u == UpdateStorage(k, page[p].w, c)
<1>1. /\ PageOk(k, page[p]) /\ s \in Slots /\ key \in Layouts
  BY Zenon DEF GuiInv, PagesOk, Files, PageOk, IsPage
<1>2. /\ IsKey(k) /\ WidgetOk(k, page[p].w) /\ Honest(k, page[p].w) /\ c \in Values
      /\ Helps(k) => Clean(k, c)
  <2>1. s \in Slotted(s)
    BY <1>1, SlottedAre
  <2>2. page[p].copy \in [Slotted(s) -> Values]
    BY <1>1, Zenon DEF PageOk
  <2>3. IsKey(k)
    BY <1>1, KeysAre
  <2>4. WidgetOk(k, page[p].w) /\ Honest(k, page[p].w) /\ (Helps(k) => Clean(k, c))
    BY <1>1, <2>1, Zenon DEF PageOk
  <2> QED
    BY <2>1, <2>2, <2>3, <2>4
<1> HIDE DEF k, c
<1>3. u \in Values /\ (Helps(k) => Clean(k, u))
  BY <1>2, StoredIs
<1>4. v \in IF k.type # "dock" \/ u # <<NewDock>> THEN {u}
            ELSE {c} \cup (IF s = "icon" THEN {<<NextDock>>} ELSE {})
  BY Zenon DEF Updated, k, c
<1> HIDE DEF u
<1>5. CASE k.type # "dock" \/ u # <<NewDock>>
  <2>1. v = u
    BY <1>4, <1>5
  <2> QED
    BY <1>3, <1>5, <2>1 DEF k, c, u
<1>6. CASE ~(k.type # "dock" \/ u # <<NewDock>>)
  <2>1. v = c \/ v = <<NextDock>>
    BY <1>4, <1>6
  <2>2. <<NextDock>> \in Values
    BY NextDockIs DEF GuiInv, Docks
  <2>3. ~Helps(k)
    BY <1>6 DEF Helps
  <2>4. v \in Values
    BY <1>2, <2>1, <2>2
  <2> QED
    BY <1>6, <2>1, <2>3, <2>4 DEF k, c, u
<1> QED
  BY <1>5, <1>6

\* A save that writes: what it does to the page, the file and the docks.
Saves(p, v, d, w, lost) ==
  /\ lost \subseteq DOMAIN page[p].copy /\ broken' = IF w THEN (broken \ DOMAIN page[p].copy) \cup lost ELSE broken
  /\ page' = [page EXCEPT ![p].copy = Written(p, v), ![p].edited = @ /\ ~d]
  /\ file' = [t \in Slots |-> IF ~w \/ t \notin DOMAIN page[p].copy THEN file[t]
                              ELSE IF t \in lost THEN <<>> ELSE Written(p, v)[t]]
  /\ docks' = IF v = <<NextDock>> THEN docks \cup {NextDock} ELSE docks

LEMMA SaveIs ==
  ASSUME NEW p \in Places, Save(p)
  PROVE  /\ page[p] # NoPage /\ key' = key /\ UNCHANGED grab
         /\ \/ UNCHANGED <<page, file, broken, docks>>
            \/ \E v \in Updated(p) : \E d \in BOOLEAN, w \in BOOLEAN : \E lost : Saves(p, v, d, w, lost)
<1> DEFINE s == page[p].slot
<1>1. /\ page[p] # NoPage /\ key' = key /\ UNCHANGED grab
  BY Zenon DEF Save, grabVars
<1>2. ASSUME ~(UNCHANGED <<page, file, broken, docks>>)
      PROVE  \E v \in Updated(p) : \E d \in BOOLEAN, w \in BOOLEAN : \E lost : Saves(p, v, d, w, lost)
  <2>1. PICK v \in Updated(p), ok \in (IF Many THEN BOOLEAN ELSE {TRUE}), lost \in Failures(p) :
          /\ docks' = IF v = <<NextDock>> THEN docks \cup {NextDock} ELSE docks
          /\ page' = [page EXCEPT ![p].copy = Written(p, v),
                                  ![p].edited = @ /\ ~((ok /\ ToFile(Conf(s))) /\ lost = {})]
          /\ file' = [t \in Slots |-> IF ~(ok /\ ToFile(Conf(s))) \/ t \notin DOMAIN Written(p, v) THEN file[t]
                                      ELSE IF t \in lost THEN <<>> ELSE Written(p, v)[t]]
          /\ broken' = IF ok /\ ToFile(Conf(s)) THEN (broken \ DOMAIN Written(p, v)) \cup lost ELSE broken
    BY <1>2, Zenon DEF Save, fileVars
  <2> DEFINE w == ok /\ ToFile(Conf(s))
             d == w /\ lost = {}
  <2>2. w \in BOOLEAN /\ d \in BOOLEAN
    BY DEF ToFile
  <2>3. DOMAIN Written(p, v) = DOMAIN page[p].copy
    BY DEF Written
  <2>5. lost \subseteq DOMAIN page[p].copy
    BY DEF Failures
  <2>4. Saves(p, v, d, w, lost)
    BY <2>1, <2>3, <2>5, Zenon DEF Saves
  <2> QED
    BY <2>2, <2>4
<1> QED
  BY <1>1, <1>2

LEMMA SavedOk ==
  ASSUME GuiInv, NEW p \in Places, Save(p)
  PROVE  PagesOk' /\ Files' /\ Docks'
<1>1. page[p] # NoPage /\ key' = key
  BY SaveIs
<1>2. Pages /\ PagesOk /\ Files /\ Docks
  BY DEF GuiInv, Held
<1>3. CASE UNCHANGED <<page, file, docks>>
  <2>1. PagesOk'
    BY <1>1, <1>2, <1>3, StillOk
  <2>2. Files' /\ Docks'
    BY <1>1, <1>2, <1>3 DEF Files, Docks
  <2> QED
    BY <2>1, <2>2
<1>4. ASSUME NEW v \in Updated(p), NEW d \in BOOLEAN, NEW w \in BOOLEAN, NEW lost, Saves(p, v, d, w, lost)
      PROVE  PagesOk' /\ Files' /\ Docks'
  <2> DEFINE s == page[p].slot
             k == KeyOf(s)
             u == UpdateStorage(k, page[p].w, page[p].copy[s])
             c == Written(p, v)
             n == Make(s, c, page[p].w, page[p].edited /\ ~d, page[p].waits)
  <2>1. /\ v \in Values /\ (Helps(k) => Clean(k, v))
        /\ v = u \/ (k.type = "dock" /\ u = <<NewDock>>)
    BY <1>1, UpdatedIs
  <2>2. PageOk(k, page[p]) /\ s \in Slots
    BY <1>1, <1>2, Zenon DEF PagesOk, PageOk, IsPage
  <2>3. PageOk(k, n)
    BY <2>1, <2>2, PageSaved DEF Written
  <2>4. page'[p] = n /\ page'[p].slot = s /\ \A q \in Places : q # p => page'[q] = page[q]
    <3>1. page' = [page EXCEPT ![p].copy = c, ![p].edited = @ /\ ~d]
      BY <1>4 DEF Saves
    <3> HIDE DEF c
    <3> QED
      BY <1>1, <1>2, <3>1, SavedPage
  <2>5. PagesOk'
    <3> HIDE DEF n
    <3>1. \A q \in Places : page'[q] = page[q] \/ page'[q] = NoPage
                                  \/ PageOk(KeyOf(page'[q].slot), page'[q])
      BY <2>3, <2>4
    <3> QED
      BY <1>1, <1>2, <3>1, StillOk
  <2>6. Docks'
    <3>1. PICK m \in Nat : docks = 80..(79 + m)
      BY <1>2 DEF Docks
    <3>2. docks \cup {NextDock} = 80..(79 + (m + 1)) /\ m + 1 \in Nat
      BY <3>1, NextDockIs
    <3>3. docks' = docks \/ docks' = docks \cup {NextDock}
      BY <1>4, Zenon DEF Saves
    <3> QED
      BY <3>1, <3>2, <3>3 DEF Docks
  <2>7. page[p].copy \in [Slotted(s) -> Values] /\ (Helps(k) => \A t \in Slotted(s) : Clean(k, page[p].copy[t]))
    BY <2>2, Zenon DEF PageOk
  <2>8. s \in Slotted(s) /\ Slotted(s) \subseteq Slots /\ (s # "own" => "own" \notin Slotted(s))
    BY <2>2, SlottedAre
  <2>9. c \in [Slotted(s) -> Values] /\ (Helps(k) => \A t \in Slotted(s) : Clean(k, c[t]))
    <3>1. c = [page[p].copy EXCEPT ![s] = v]
      BY DEF Written
    <3>2. c[s] = v /\ c \in [Slotted(s) -> Values] /\ \A t \in Slotted(s) : t # s => c[t] = page[p].copy[t]
      BY <2>1, <2>7, <2>8, <3>1
    <3> QED
      BY <2>1, <2>7, <3>2
  <2>10. file' = [t \in Slots |-> IF ~w \/ t \notin Slotted(s) THEN file[t]
                                 ELSE IF t \in lost THEN <<>> ELSE c[t]]
    <3>1. DOMAIN page[p].copy = Slotted(s)
      BY <2>7
    <3> QED
      BY <1>4, <3>1, Zenon DEF Saves
  <2> HIDE DEF c
  <2>11. file' \in [Slots -> Values]
    <3>1. <<>> \in Values
      BY EmptyIsClean
    <3>2. file \in [Slots -> Values]
      BY <1>2 DEF Files
    <3> QED
      BY <2>9, <2>10, <3>1, <3>2
  <2>12. Helps(key) => \A t \in Slots \ {"own"} : Clean(key, file'[t])
    <3> HAVE Helps(key)
    <3> TAKE t \in Slots \ {"own"}
    <3>e. CASE file'[t] = <<>>
      BY <3>e, EmptyIsClean
    <3>1. CASE w /\ t \in Slotted(s) /\ t \notin lost
      <4>1. s # "own"
        <5>1. Conf(t) # "own"
          BY SMT DEF Conf, Slots
        <5>2. Conf("own") = "own"
          BY SMT DEF Conf
        <5> QED
          BY <3>1, <5>1, <5>2 DEF Slotted
      <4>2. k = key
        BY <1>2, <2>2, <4>1, KeysAre DEF Files
      <4>3. file'[t] = c[t]
        BY <2>10, <3>1
      <4> QED
        BY <2>9, <3>1, <4>2, <4>3
    <3>2. CASE ~(w /\ t \in Slotted(s))
      BY <1>2, <2>10, <3>2 DEF Files
    <3>3. CASE w /\ t \in Slotted(s) /\ t \in lost
      BY <2>10, <3>3, <3>e
    <3> QED
      BY <3>1, <3>2, <3>3
  <2>13. Files'
    <3>1. /\ key' \in Layouts /\ file' \in [Slots -> Values]
          /\ Helps(key') => \A t \in Slots \ {"own"} : Clean(key', file'[t])
      BY <1>1, <1>2, <2>11, <2>12 DEF Files
    <3> QED
      BY <3>1 DEF Files
  <2> QED
    BY <2>5, <2>6, <2>13
<1> QED
  BY <1>3, <1>4, SaveIs

LEMMA InitGui ==
  ASSUME GuiInit
  PROVE  GuiInv
<1>1. Held
  BY HeldInit
<1>2. /\ key \in Layouts /\ page = Closed /\ docks = {} /\ grab = [g \in Grabs |-> NoGrab]
  BY Zenon DEF GuiInit
<1>3. PICK v \in key.vals, u \in key.vals, o \in OwnKey.vals :
        file = [s \in Slots |-> IF s = "own" THEN o ELSE IF s = "icon" THEN v ELSE u]
  BY Zenon DEF GuiInit
<1>4. IsKey(key)
  BY <1>2, GuiAssumption
<1>5. v \in Values /\ u \in Values /\ o \in Values
  <2>1. o \in {<<0>>, <<1>>}
    BY <1>3, SMT DEF OwnKey
  <2>2. <<0>> \in Seq(Int) /\ <<1>> \in Seq(Int)
    OBVIOUS
  <2> QED
    BY <1>4, <2>1, <2>2 DEF IsKey, Values
<1>6. ASSUME Helps(key) PROVE Clean(key, v) /\ Clean(key, u)
  <2>1. \A x \in key.vals : Clean(key, x)
    <3> TAKE x \in key.vals
    <3>1. x = <<>> \/ x[1] % Cipher # HelpText(key)[1] % Cipher
      BY <1>6, Zenon DEF Helps, NotHelp
    <3> QED
      BY <3>1, EmptyIsClean DEF Clean
  <2> QED
    BY <2>1
<1>7. \A s \in Slots : /\ file[s] = v \/ file[s] = u \/ file[s] = o
                       /\ s # "own" => file[s] = v \/ file[s] = u
  BY <1>3
<1>8. Files
  <2>1. file \in [Slots -> Values]
    BY <1>3, <1>5
  <2>2. Helps(key) => \A s \in Slots \ {"own"} : Clean(key, file[s])
    BY <1>6, <1>7
  <2> QED
    BY <1>2, <2>1, <2>2 DEF Files
<1>9. PagesOk
  BY <1>2, ClosedPages, Zenon DEF PagesOk
<1>10. Classes
  <2>1. \A g \in Grabs : grab[g] = NoGrab
    BY <1>2
  <2> QED
    BY <2>1, NoGrabIs, Zenon DEF Classes
<1>11. Docks
  <2>1. {} = 80..(79 + 0)
    OBVIOUS
  <2> QED
    BY <1>2, <2>1 DEF Docks
<1> QED
  BY <1>1, <1>8, <1>9, <1>10, <1>11 DEF GuiInv

\* What the actions that do not write leave.
LEMMA RestStays ==
  ASSUME GuiInv, UNCHANGED <<key, file, docks, grab>>
  PROVE  Files' /\ Classes' /\ Docks'
  BY Zenon DEF GuiInv, Files, Classes, Docks

LEMMA RowOk ==
  ASSUME GuiInv, NEW s \in {"taskbar", "icon"}, key' = key,
         OpenPage("icons", s) \/ page' = page
  PROVE  PagesOk'
<1>1. CASE OpenPage("icons", s)
  <2>1. "icons" \in Places /\ s \in Slots
    BY ClosedPages
  <2> QED
    BY <1>1, <2>1, OpenedOk
<1>2. CASE page' = page
  BY <1>2, StillOk DEF GuiInv
<1> QED
  BY <1>1, <1>2

LEMMA ListOk ==
  ASSUME GuiInv,
         \/ \E s \in {"taskbar", "icon"} : ShowItems(s) \/ ClickRow(s)
         \/ \E s \in {"core", "own"} : SelectCore(s)
         \/ IconsChange \/ ReloadItems \/ CloseGui
  PROVE  PagesOk' /\ Files' /\ Classes' /\ Docks'
<1>1. ASSUME NEW s \in {"taskbar", "icon"}, ShowItems(s)
      PROVE  PagesOk' /\ UNCHANGED <<key, file, docks, grab>>
  <2>1. /\ UNCHANGED <<key, file, docks, grab>>
        /\ OpenPage("icons", s) \/ page' = page
    BY <1>1, Zenon DEF ShowItems, SelectRow_, confVars, fileVars, grabVars, placeVars
  <2> QED
    BY <2>1, RowOk
<1>2. ASSUME NEW s \in {"taskbar", "icon"}, ClickRow(s)
      PROVE  PagesOk' /\ UNCHANGED <<key, file, docks, grab>>
  <2>1. /\ UNCHANGED <<key, file, docks, grab>>
        /\ OpenPage("icons", s) \/ page' = page
    BY <1>2, Zenon DEF ClickRow, SelectRow_, confVars, fileVars, grabVars, placeVars
  <2> QED
    BY <2>1, RowOk
<1>3. ASSUME NEW s \in {"core", "own"}, SelectCore(s)
      PROVE  PagesOk' /\ UNCHANGED <<key, file, docks, grab>>
  <2>1. UNCHANGED <<key, file, docks, grab>> /\ OpenPage("config", s)
    BY <1>3, Zenon DEF SelectCore, confVars, fileVars, grabVars
  <2>2. "config" \in Places /\ s \in Slots
    BY ClosedPages
  <2> QED
    BY <2>1, <2>2, OpenedOk
<1>4. ASSUME IconsChange
      PROVE  PagesOk' /\ UNCHANGED <<key, file, docks, grab>>
  <2>1. UNCHANGED <<key, file, docks, grab, page>>
    BY <1>4, Zenon DEF IconsChange, confVars, fileVars, grabVars, placeVars
  <2> QED
    BY <2>1, StillOk DEF GuiInv
<1>5. ASSUME ReloadItems
      PROVE  PagesOk' /\ UNCHANGED <<key, file, docks, grab>>
  <2> DEFINE path == IF iconToSelect # Nothing THEN iconToSelect ELSE selected
  <2>1. /\ UNCHANGED <<key, file, docks, grab>>
        /\ \/ path \in shownIcons /\ OpenPage("icons", path)
           \/ page' = [page EXCEPT !["icons"] = NoPage]
    BY <1>5, Zenon DEF ReloadItems, Unselect, confVars, fileVars, grabVars
  <2>2. CASE path \in shownIcons /\ OpenPage("icons", path)
    <3>1. path \in {"taskbar", "icon"}
      BY <2>2 DEF GuiInv, Held, Icons
    <3> HIDE DEF path
    <3> QED
      BY <2>1, <2>2, <3>1, RowOk
  <2>3. CASE page' = [page EXCEPT !["icons"] = NoPage]
    <3>1. /\ page'["icons"] = NoPage /\ \A q \in Places : q # "icons" => page'[q] = page[q]
      BY <2>3, ClosedPages, OneReplaced, Zenon DEF GuiInv, Held, Pages
    <3> QED
      BY <2>1, <3>1, StillOk DEF GuiInv
  <2> QED
    BY <2>1, <2>2, <2>3
<1>6. ASSUME CloseGui
      PROVE  PagesOk' /\ UNCHANGED <<key, file, docks, grab>>
  <2>1. UNCHANGED <<key, file, docks, grab>> /\ page' = Closed
    BY <1>6, Zenon DEF CloseGui, confVars, fileVars, grabVars
  <2>2. \A q \in Places : page'[q] = NoPage
    BY <2>1, ClosedPages, Zenon
  <2> QED
    BY <2>1, <2>2, StillOk DEF GuiInv
<1>7. PagesOk' /\ UNCHANGED <<key, file, docks, grab>>
  BY <1>1, <1>2, <1>3, <1>4, <1>5, <1>6
<1> QED
  BY <1>7, RestStays

LEMMA OutsideOk ==
  ASSUME GuiInv, NEW s \in Slots, OutsideUpdates(s)
  PROVE  PagesOk' /\ Files' /\ Classes' /\ Docks'
<1>1. UNCHANGED <<key, docks, grab, page>> /\ s # "own"
  BY Zenon DEF OutsideUpdates, confVars, grabVars, placeVars
<1>2. PICK v \in key.vals : file' = [file EXCEPT ![s] = v]
  BY Zenon DEF OutsideUpdates
<1>3. key \in Layouts /\ file \in [Slots -> Values]
      /\ (Helps(key) => \A t \in Slots \ {"own"} : Clean(key, file[t]))
  BY DEF GuiInv, Files
<1>4. v \in Values
  BY <1>2, <1>3, GuiAssumption DEF IsKey, Values
<1>5. Helps(key) => Clean(key, v)
  <2> HAVE Helps(key)
  <2>1. v = <<>> \/ v[1] % Cipher # HelpText(key)[1] % Cipher
    BY <1>2, Zenon DEF Helps, NotHelp
  <2> QED
    BY <2>1, EmptyIsClean DEF Clean
<1>6. file' \in [Slots -> Values] /\ file'[s] = v /\ \A t \in Slots : t # s => file'[t] = file[t]
  BY <1>2, <1>3, <1>4
<1>7. Files'
  <2>1. Helps(key) => \A t \in Slots \ {"own"} : Clean(key, file'[t])
    BY <1>3, <1>5, <1>6
  <2> QED
    BY <1>1, <1>3, <1>6, <2>1, Zenon DEF Files
<1>8. PagesOk'
  BY <1>1, StillOk DEF GuiInv
<1>9. Classes' /\ Docks'
  BY <1>1, Zenon DEF GuiInv, Classes, Docks
<1> QED
  BY <1>7, <1>8, <1>9

LEMMA RestartOk ==
  ASSUME GuiInv, Restart
  PROVE  PagesOk' /\ Files' /\ Classes' /\ Docks'
<1>1. UNCHANGED <<key, docks, file, page>> /\ grab' = [g \in Grabs |-> NoGrab]
  BY Zenon DEF Restart, placeVars, fileVars
<1>2. PagesOk'
  BY <1>1, StillOk DEF GuiInv
<1>3. Classes'
  <2>1. \A g \in Grabs : grab'[g] = NoGrab
    BY <1>1
  <2> QED
    BY <2>1, NoGrabIs, Zenon DEF Classes
<1>4. Files' /\ Docks'
  BY <1>1, Zenon DEF GuiInv, Files, Docks
<1> QED
  BY <1>2, <1>3, <1>4

LEMMA EditsOk ==
  ASSUME GuiInv, NEW p \in Places, Edits(p)
  PROVE  PagesOk' /\ Files' /\ Classes' /\ Docks'
<1>1. page[p] # NoPage
  BY EditsAre
<1>2. UNCHANGED <<key, docks, file, grab>>
  <2>1. \A w, e : OnPage(p, w, e) => UNCHANGED <<key, docks, file, grab>>
    BY Zenon DEF OnPage, confVars, fileVars, grabVars
  <2>2. Reset(p) => UNCHANGED <<key, docks, file, grab>>
    BY <2>1, Zenon DEF Reset, confVars, fileVars, grabVars
  <2> QED
    BY <2>1, <2>2, Zenon DEF Edits, EditValue, EditPair, EditColor, EditChoice,
       EditFont, EditText, EditTree, Focus
<1>3. CASE page' = page
  BY <1>2, <1>3, RestStays, StillOk DEF GuiInv
<1>4. ASSUME NEW w, NEW e \in BOOLEAN, OnPage(p, w, e), Edit(KeyOf(page[p].slot), page[p].w, w, e)
      PROVE  PagesOk' /\ Files' /\ Classes' /\ Docks'
  <2> DEFINE k == KeyOf(page[p].slot)
             n == Make(page[p].slot, page[p].copy, w, page[p].edited \/ e, page[p].waits)
  <2>1. PageOk(k, page[p]) /\ page[p].waits \in BOOLEAN /\ (page[p].waits => page[p].w.kind = "entry")
    BY <1>1, Zenon DEF GuiInv, PagesOk, PageOk, IsPage
  <2>2. PageOk(k, n)
    BY <1>4, <2>1, PageEdited
  <2>3. page'[p] = n /\ page'[p].slot = page[p].slot /\ \A q \in Places : q # p => page'[q] = page[q]
    BY <1>1, <1>4, OnePage DEF GuiInv, Held
  <2> HIDE DEF n
  <2>4. \A q \in Places : page'[q] = page[q] \/ page'[q] = NoPage
                                  \/ PageOk(KeyOf(page'[q].slot), page'[q])
    BY <2>2, <2>3
  <2>5. PagesOk'
    BY <1>2, <2>4, StillOk DEF GuiInv
  <2> QED
    BY <1>2, <2>5, RestStays
<1> QED
  BY <1>3, <1>4, EditsEdit

LEMMA GrabStartOk ==
  ASSUME GuiInv, NEW g \in Grabs, NEW p \in Places, GrabStart(g, p)
  PROVE  PagesOk' /\ Files' /\ Classes' /\ Docks'
<1> DEFINE k == KeyOf(page[p].slot)
           h == Asked("waits", p, serial[p], <<>>)
           m == [page[p] EXCEPT !.waits = TRUE]
<1>1. /\ UNCHANGED <<key, docks, file>> /\ page[p] # NoPage /\ page[p].w.kind = "entry"
      /\ page' = [page EXCEPT ![p].waits = TRUE]
  BY Zenon DEF GrabStart, Shows, confVars, fileVars
<1>2. grab' = [grab EXCEPT ![g] = h]
  BY DEF GrabStart, Asked
<1>3. Pages /\ Grabbed
  BY DEF GuiInv, Held
<1>4. h.class = <<>>
  BY SMT DEF Asked
<1> HIDE DEF h
<1>5. grab'[g] = h /\ \A x \in Grabs : x # g => grab'[x] = grab[x]
  BY <1>2, <1>3, OneReplaced, Zenon DEF Grabbed
<1>6. Classes'
  <2>1. \A x \in Grabs : grab'[x].step # "off" =>
          grab'[x].class \in Values /\ (Helps(key) => Clean(key, grab'[x].class))
    <3> TAKE x \in Grabs
    <3>1. CASE x = g
      BY <1>4, <1>5, <3>1, EmptyIsClean
    <3>2. CASE x # g
      BY <1>5, <3>2 DEF GuiInv, Classes
    <3> QED
      BY <3>1, <3>2
  <2> QED
    BY <1>1, <2>1, Zenon DEF Classes
<1>7. PageOk(k, page[p]) /\ IsPage(page[p]) /\ page[p].slot \in Slots /\ page[p].edited \in BOOLEAN
  BY <1>1, Zenon DEF GuiInv, PagesOk, PageOk, IsPage
<1>8. PICK b \in BOOLEAN : b
  OBVIOUS
<1>9. PICK e \in BOOLEAN : ~e
  OBVIOUS
<1>10. m = Make(page[p].slot, page[p].copy, page[p].w, page[p].edited, b)
  <2>1. m = [page[p] EXCEPT !.waits = b]
    BY <1>8
  <2> QED
    BY <1>7, <2>1, PageEdits
<1> HIDE DEF m
<1>11. (page[p].edited \/ e) = page[p].edited
  BY <1>7, <1>9
<1>12. Edit(k, page[p].w, page[p].w, e)
  BY DEF Edit
<1>13. PageOk(k, m)
  <2>1. PageOk(k, Make(page[p].slot, page[p].copy, page[p].w, page[p].edited \/ e, b))
    BY <1>1, <1>7, <1>12, PageEdited
  <2> QED
    BY <1>10, <1>11, <2>1
<1>14. m.slot = page[p].slot
  BY <1>7, <1>10, MakeFields
<1>15. page'[p] = m /\ \A q \in Places : q # p => page'[q] = page[q]
  <2>1. page' = [page EXCEPT ![p] = m]
    BY <1>1 DEF m
  <2> QED
    BY <1>3, <2>1, OneReplaced, Zenon DEF Pages
<1>16. PagesOk'
  <2>1. \A q \in Places : page'[q] = page[q] \/ page'[q] = NoPage
                                  \/ PageOk(KeyOf(page'[q].slot), page'[q])
    BY <1>13, <1>14, <1>15
  <2> QED
    BY <1>1, <2>1, StillOk DEF GuiInv
<1>17. Files' /\ Docks'
  BY <1>1, Zenon DEF GuiInv, Files, Docks
<1> QED
  BY <1>6, <1>16, <1>17

\* The class a grab ends with is one of the values the user may give, or none.
LEMMA FinishOk ==
  ASSUME GuiInv, up, NEW g \in Grabs, Runs(g),
         NEW c \in Values, Helps(key) => Clean(key, c), Finish(g, c),
         UNCHANGED <<page, serial, together, selected, rowsListed, shownIcons, key, file, docks>>
  PROVE  PagesOk' /\ Files' /\ Classes' /\ Docks'
<1>1. \A x \in Grabs : grab'[x].step # "off" =>
        grab[x].step # "off" /\ grab'[x].class \in {grab[x].class, c}
  BY EndHeld DEF GuiInv
<1>2. PagesOk'
  BY StillOk DEF GuiInv
<1>3. Files' /\ Docks'
  BY Zenon DEF GuiInv, Files, Docks
<1>4. Classes'
  <2>1. \A x \in Grabs : grab'[x].step # "off" =>
          grab'[x].class \in Values /\ (Helps(key) => Clean(key, grab'[x].class))
    <3> TAKE x \in Grabs
    <3> HAVE grab'[x].step # "off"
    <3>1. grab[x].step # "off" /\ (grab'[x].class = grab[x].class \/ grab'[x].class = c)
      BY <1>1
    <3> QED
      BY <3>1 DEF GuiInv, Classes
  <2> QED
    BY <2>1, Zenon DEF Classes
<1> QED
  BY <1>2, <1>3, <1>4

LEMMA GrabDoneOk ==
  ASSUME GuiInv, NEW g \in Grabs, GrabDone(g)
  PROVE  PagesOk' /\ Files' /\ Classes' /\ Docks'
<1>0. PICK p : p = grab[g].place
  OBVIOUS
<1>c. PICK class : class = grab[g].class
  OBVIOUS
<1> DEFINE k == KeyOf(page[p].slot)
           x == IF class = <<>> THEN page[p].w ELSE ValueSet(key, page[p].w, class)
           d == class # <<>>
           m == [page[p] EXCEPT !.waits = FALSE, !.edited = @ \/ class # <<>>, !.w = x]
<1>1. /\ up /\ grab[g].step = "done" /\ grab' = [grab EXCEPT ![g] = NoGrab]
      /\ UNCHANGED <<key, docks, file>>
      /\ \/ Asks(g) /\ page' = [page EXCEPT ![p] = Answered(g, class)]
         \/ page' = page
  BY <1>0, <1>c, Zenon DEF GrabDone, confVars, fileVars
<1>2. Pages /\ Grabbed /\ Waits
  BY <1>1 DEF GuiInv, Held
<1>3. /\ grab'[g] = NoGrab /\ \A y \in Grabs : y # g => grab'[y] = grab[y]
  BY <1>1, <1>2, OneReplaced, Zenon DEF Grabbed
<1>4. Classes'
  <2>1. \A y \in Grabs : grab'[y].step # "off" =>
          grab'[y].class \in Values /\ (Helps(key) => Clean(key, grab'[y].class))
    <3> TAKE y \in Grabs
    <3>1. CASE y = g
      BY <1>3, <3>1, NoGrabIs
    <3>2. CASE y # g
      BY <1>3, <3>2 DEF GuiInv, Classes
    <3> QED
      BY <3>1, <3>2
  <2> QED
    BY <1>1, <2>1, Zenon DEF Classes
<1>5. Files' /\ Docks'
  BY <1>1, Zenon DEF GuiInv, Files, Docks
<1>6. CASE page' = page
  BY <1>1, <1>4, <1>5, <1>6, StillOk DEF GuiInv
<1>7. CASE Asks(g) /\ page' = [page EXCEPT ![p] = Answered(g, class)]
  <2>1. /\ grab[g].step # "off" /\ p \in Places /\ page[p] # NoPage /\ serial[p] = grab[g].serial
    <3>1. "done" # "off"
      OBVIOUS
    <3>2. IsGrab(grab[g]) /\ grab[g].step # "off"
      BY <1>1, <1>2, <3>1 DEF Grabbed
    <3>3. grab[g].place \in Places
      BY <3>2, GrabIs
    <3> QED
      BY <1>0, <1>7, <3>2, <3>3, Zenon DEF Asks
  <2>2. page[p].waits
    BY <1>0, <1>2, <2>1, Zenon DEF Waits, Blocked, Of
  <2>3. /\ PageOk(k, page[p]) /\ IsPage(page[p]) /\ page[p].w.kind = "entry" /\ page[p].slot \in Slots
        /\ page[p].edited \in BOOLEAN /\ WidgetOk(k, page[p].w) /\ (page[p].slot = "own" => page[p].w.kind = "values")
    BY <2>1, <2>2, Zenon DEF GuiInv, PagesOk, PageOk, IsPage
  <2>4. k = key /\ IsKey(k)
    <3>1. page[p].slot # "own"
      <4>1. "values" # "entry"
        OBVIOUS
      <4> QED
        BY <2>3, <4>1
    <3> QED
      BY <2>3, <3>1, KeysAre DEF GuiInv, Files
  <2>5. class \in Values /\ (Helps(k) => Clean(k, class))
    BY <1>c, <2>1, <2>4 DEF GuiInv, Classes
  <2>6. d \in BOOLEAN /\ (d <=> class # <<>>)
    OBVIOUS
  <2>7. Edit(k, page[p].w, x, d)
    <3>1. CASE class = <<>>
      <4>1. x = page[p].w
        BY <3>1
      <4> QED
        BY <4>1 DEF Edit
    <3>2. CASE class # <<>>
      <4>1. x = ValueSet(k, page[p].w, class)
        BY <2>4, <3>2
      <4>2. Edit(k, page[p].w, x, TRUE)
        BY <2>3, <2>4, <2>5, <4>1, GrabbedIs
      <4> HIDE DEF x
      <4> QED
        BY <4>2, <3>2 DEF Edit
    <3> QED
      BY <3>1, <3>2
  <2> HIDE DEF d, k
  <2>8. Answered(g, class) = m
    BY <1>0 DEF Answered
  <2>9. m = GivenAnswer(page[p], d, x)
    BY DEF GivenAnswer, d
  <2> HIDE DEF m, x
  <2>10. /\ IsPage(m) /\ m.slot = page[p].slot /\ ~m.waits
         /\ m.copy = page[p].copy /\ m.w = x /\ (m.edited <=> page[p].edited \/ d)
    BY <2>3, <2>6, <2>9, AnsweredIs
  <2>11. PageOk(k, m)
    <3>1. PICK b \in BOOLEAN : ~b
      OBVIOUS
    <3> DEFINE e == page[p].edited \/ d
    <3>2. PageOk(k, Make(page[p].slot, page[p].copy, x, e, b))
      BY <2>3, <2>6, <2>7, <3>1, PageEdited
    <3>3. e \in BOOLEAN /\ (m.edited <=> e)
      BY <2>3, <2>6, <2>10
    <3> HIDE DEF e
    <3>4. m = Make(page[p].slot, page[p].copy, x, e, b)
      <4>1. m = Make(m.slot, m.copy, m.w, m.edited, m.waits) /\ m.edited \in BOOLEAN /\ m.waits \in BOOLEAN
        BY <2>10, Zenon DEF IsPage
      <4>2. m.edited = e /\ m.waits = b
        BY <2>10, <3>1, <3>3, <4>1
      <4> QED
        BY <2>10, <4>1, <4>2
    <3> QED
      BY <3>2, <3>4
  <2>12. page'[p] = m /\ \A q \in Places : q # p => page'[q] = page[q]
    <3>1. page' = [page EXCEPT ![p] = m]
      BY <1>7, <2>8
    <3> QED
      BY <1>2, <2>1, <3>1, OneReplaced, Zenon DEF Pages
  <2>13. PagesOk'
    <3>1. \A q \in Places : page'[q] = page[q] \/ page'[q] = NoPage
                                  \/ PageOk(KeyOf(page'[q].slot), page'[q])
      BY <2>10, <2>11, <2>12 DEF k
    <3> QED
      BY <1>1, <3>1, StillOk DEF GuiInv
  <2> QED
    BY <1>4, <1>5, <2>13
<1> QED
  BY <1>1, <1>6, <1>7

LEMMA GuiStep ==
  ASSUME GuiInv, GuiNext
  PROVE  GuiInv'
<1> DEFINE Ok == PagesOk' /\ Files' /\ Classes' /\ Docks'
<1>1. Held'
  BY HeldStep DEF GuiInv
<1>2. ASSUME \/ \E s \in {"taskbar", "icon"} : ShowItems(s) \/ ClickRow(s)
             \/ \E s \in {"core", "own"} : SelectCore(s)
             \/ IconsChange \/ ReloadItems \/ CloseGui
      PROVE  Ok
  BY <1>2, ListOk
<1>3. ASSUME Restart PROVE Ok
  BY <1>3, RestartOk
<1>4. ASSUME NEW s \in Slots, OutsideUpdates(s) PROVE Ok
  BY <1>4, OutsideOk
<1>5. ASSUME NEW p \in Places, Edits(p) PROVE Ok
  BY <1>5, EditsOk
<1>6. ASSUME NEW p \in Places, Save(p) PROVE Ok
  <2>1. UNCHANGED <<key, grab>>
    BY <1>6, SaveIs
  <2>2. Classes'
    BY <2>1, Zenon DEF GuiInv, Classes
  <2> QED
    BY <1>6, <2>2, SavedOk
<1>7. ASSUME NEW g \in Grabs, GrabTimeout(g) PROVE Ok
  <2>1. /\ up /\ Runs(g) /\ Finish(g, <<>>)
        /\ UNCHANGED <<page, serial, together, selected, rowsListed, shownIcons, key, file, docks>>
    BY <1>7, Zenon DEF GrabTimeout, rowVars, placeVars, confVars, fileVars
  <2> QED
    BY <2>1, FinishOk, EmptyIsClean
<1>8. ASSUME NEW x \in key.typed, FocusChange(x) PROVE Ok
  <2>1. /\ up /\ winFocusChan # Nothing /\ Finish(winFocusChan, <<x>>)
        /\ UNCHANGED <<page, serial, together, selected, rowsListed, shownIcons, key, file, docks>>
    BY <1>8, Zenon DEF FocusChange, rowVars, placeVars, confVars, fileVars
  <2>2. winFocusChan \in Grabs /\ Runs(winFocusChan)
    BY <2>1 DEF GuiInv, Held, Waits, Runs
  <2>3. IsKey(key)
    BY GuiAssumption DEF GuiInv, Files
  <2>4. <<x>> \in Values /\ (Helps(key) => Clean(key, <<x>>))
    BY <2>3, TypedIs
  <2> QED
    BY <2>1, <2>2, <2>4, FinishOk
<1>9. ASSUME NEW g \in Grabs, GrabDone(g) PROVE Ok
  BY <1>9, GrabDoneOk
<1>10. ASSUME NEW g \in Grabs, NEW p \in Places, GrabStart(g, p) PROVE Ok
  BY <1>10, GrabStartOk
<1> HIDE DEF Ok
<1>11. Ok
  BY <1>2, <1>3, <1>4, <1>5, <1>6, <1>7, <1>8, <1>9, <1>10, Zenon DEF GuiNext
<1> QED
  BY <1>1, <1>11 DEF GuiInv, Ok

LEMMA GuiAlways == GuiSpec => []GuiInv
<1>1. GuiInit => GuiInv
  BY InitGui
<1>2. GuiInv /\ [GuiNext]_guiVars => GuiInv'
  <2> SUFFICES ASSUME GuiInv, [GuiNext]_guiVars PROVE GuiInv'
    OBVIOUS
  <2>1. CASE UNCHANGED guiVars
    <3>1. /\ UNCHANGED <<page, serial, grab, winFocusChan, together, selected, rowsListed, shownIcons, up>>
          /\ UNCHANGED <<key, file, docks>>
      BY <2>1, Zenon DEF guiVars, rowVars, placeVars, grabVars, confVars, fileVars
    <3>2. Held'
      <4>1. Pages' /\ Grabbed' /\ Icons' /\ (Chosen' <=> Chosen)
        BY <3>1 DEF GuiInv, Held, Pages, Grabbed, Icons, Chosen
      <4>2. up => Waits'
        BY <3>1, KeptWaits DEF GuiInv, Held
      <4> QED
        BY <3>1, <4>1, <4>2 DEF GuiInv, Held
    <3>3. Files' /\ Classes' /\ Docks'
      BY <3>1, RestStays
    <3>4. PagesOk'
      BY <3>1, StillOk DEF GuiInv
    <3> QED
      BY <3>2, <3>3, <3>4 DEF GuiInv
  <2> QED
    BY <2>1, GuiStep
<1> QED
  BY <1>1, <1>2, PTL DEF GuiSpec

\* A row that moves exchanges its text with the next one.
LEMMA TextsExchanged ==
  ASSUME NEW w, NEW m, w.rows \in Seq(Cells), NEW i \in 1..Len(w.rows), NEW j \in 1..Len(w.rows), i # j,
         Swapped(w.rows, m.rows, i, j)
  PROVE  Texts(m) = [Texts(w) EXCEPT ![i] = Texts(w)[j], ![j] = Texts(w)[i]]
<1> DEFINE n == Len(w.rows)
           f == Texts(w)
           g == Texts(m)
           h == [f EXCEPT ![i] = f[j], ![j] = f[i]]
<1>1. /\ DOMAIN w.rows = 1..n /\ DOMAIN m.rows = 1..n
      /\ m.rows[i].val = w.rows[j].val /\ m.rows[j].val = w.rows[i].val
      /\ \A x \in 1..n : x # i /\ x # j => m.rows[x].val = w.rows[x].val
  BY CellFields, Zenon DEF Swapped
<1> HIDE DEF n
<1>2. f = [x \in 1..n |-> w.rows[x].val] /\ g = [x \in 1..n |-> m.rows[x].val]
  BY <1>1 DEF Texts
<1>3. i \in 1..n /\ j \in 1..n
  BY DEF n
<1> HIDE DEF f, g
<1>4. h = [x \in 1..n |-> IF x = j THEN f[i] ELSE IF x = i THEN f[j] ELSE f[x]]
  BY <1>2, <1>3
<1> HIDE DEF h
<1>5. \A x \in 1..n : h[x] = g[x]
  BY <1>1, <1>2, <1>3, <1>4
<1>6. g = [x \in 1..n |-> g[x]] /\ h = [x \in 1..n |-> h[x]]
  BY <1>2, <1>4
<1>7. g = h
  BY <1>5, <1>6
<1> QED
  BY <1>7 DEF f, g, h

\* The same for any two lists.
LEMMA TextsOfMoved ==
  \A w, m : w.rows \in Seq(Cells) =>
    \A i, j \in 1..Len(w.rows) :
      i # j /\ Swapped(w.rows, m.rows, i, j) => Texts(m) = [Texts(w) EXCEPT ![i] = Texts(w)[j], ![j] = Texts(w)[i]]
  BY TextsExchanged

LEMMA MovesExchange ==
  ASSUME NEW w, IsTree(w), Ordered(w), ~w.slipped, NEW i \in DOMAIN w.rows
  PROVE  LET m == [w EXCEPT !.sel = i]
         IN /\ i > 1 => Exchanged(m, onTreeviewMoveUp(m), i, i - 1)
            /\ i < Len(m.rows) => Exchanged(m, onTreeviewMoveDown(m), i, i + 1)
<1> DEFINE m == [w EXCEPT !.sel = i]
           up1 == onTreeviewMoveUp(m)
           down == onTreeviewMoveDown(m)
           n == Len(w.rows)
<1>1. w \in Trees /\ w.rows \in Seq(Cells) /\ n \in Nat /\ DOMAIN w.rows = 1..n
  BY TreeRange
<1>2. i \in 1..n /\ i \in Nat /\ i # 0 /\ i <= n
  BY <1>1
<1>3. m \in Trees /\ m.rows = w.rows /\ m.sel = i /\ m.slipped = w.slipped
  BY <1>1, <1>2, TreeSel
<1> HIDE DEF m, n
<1>4. IsTree(m) /\ Ordered(m) /\ m.sel # 0 /\ ~m.slipped
  BY <1>2, <1>3 DEF IsTree, Ordered, n
<1>5. /\ i > 1 => up1.sel = i - 1 /\ Swapped(w.rows, up1.rows, i - 1, i)
      /\ i < n => down.sel = i + 1 /\ Swapped(w.rows, down.rows, i + 1, i)
  BY <1>3, <1>4, UpTree, DownTree DEF n
<1> HIDE DEF up1, down
<1>6. ASSUME i > 1 PROVE Exchanged(m, up1, i, i - 1)
  <2> DEFINE j == i - 1
  <2>1. j \in 1..n /\ i # j
    BY <1>1, <1>2, <1>6
  <2>2. up1.sel = j /\ Swapped(m.rows, up1.rows, j, i)
    BY <1>3, <1>5, <1>6
  <2> HIDE DEF j
  <2>3. Swapped(m.rows, up1.rows, i, j)
    BY <2>2, Zenon DEF Swapped
  <2>4. Texts(up1) = [Texts(m) EXCEPT ![i] = Texts(m)[j], ![j] = Texts(m)[i]]
    <3>1. m.rows \in Seq(Cells) /\ i \in 1..Len(m.rows) /\ j \in 1..Len(m.rows) /\ i # j
      BY <1>1, <1>2, <1>3, <2>1 DEF n
    <3> QED
      BY <2>3, <3>1, TextsOfMoved
  <2>5. Exchanged(m, up1, i, j)
    BY <2>2, <2>4 DEF Exchanged
  <2> QED
    BY <2>5 DEF j
<1>7. ASSUME i < n PROVE Exchanged(m, down, i, i + 1)
  <2> DEFINE j == i + 1
  <2>1. j \in 1..n /\ i # j
    BY <1>1, <1>2, <1>7
  <2>2. down.sel = j /\ Swapped(m.rows, down.rows, j, i)
    BY <1>3, <1>5, <1>7
  <2> HIDE DEF j
  <2>3. Swapped(m.rows, down.rows, i, j)
    BY <2>2, Zenon DEF Swapped
  <2>4. Texts(down) = [Texts(m) EXCEPT ![i] = Texts(m)[j], ![j] = Texts(m)[i]]
    <3>1. m.rows \in Seq(Cells) /\ i \in 1..Len(m.rows) /\ j \in 1..Len(m.rows) /\ i # j
      BY <1>1, <1>2, <1>3, <2>1 DEF n
    <3> QED
      BY <2>3, <3>1, TextsOfMoved
  <2>5. Exchanged(m, down, i, j)
    BY <2>2, <2>4 DEF Exchanged
  <2> QED
    BY <2>5 DEF j
<1> QED
  BY <1>3, <1>6, <1>7 DEF m, n, up1, down

(* Moving a row of a sortable list exchanges it with the next one, after   *)
(* any rows were added, removed, moved and reset: the orders of the rows   *)
(* increase and stay below their places (onTreeviewMoveUp, MoveDown).      *)
THEOREM RowsMoveByOne == GuiSpec => []MovesByOne
<1>1. GuiInv => MovesByOne
  <2> SUFFICES ASSUME GuiInv, NEW p \in Places, page[p] # NoPage, page[p].w.kind = "tree",
                      ~page[p].w.slipped, NEW i \in DOMAIN page[p].w.rows
               PROVE  LET w == [page[p].w EXCEPT !.sel = i]
                      IN  /\ i > 1 => Exchanged(w, onTreeviewMoveUp(w), i, i - 1)
                          /\ i < Len(w.rows) => Exchanged(w, onTreeviewMoveDown(w), i, i + 1)
    BY Zenon DEF MovesByOne
  <2>1. WidgetOk(KeyOf(page[p].slot), page[p].w)
    BY Zenon DEF GuiInv, PagesOk, PageOk
  <2>2. IsTree(page[p].w) /\ Ordered(page[p].w)
    BY <2>1, KindIs DEF WidgetOk, Rowed
  <2> QED
    BY <2>2, MovesExchange
<1> QED
  BY <1>1, GuiAlways, PTL

(* The help text of an empty entry reaches no file, encrypted or not,      *)
(* whatever the order of focus, reset, grab, typing and saves: it is shown *)
(* only where the entry is marked (onTextDefaultFocusOut, updateStorage).  *)
THEOREM HelpTextStaysOut == GuiSpec => []HelpTextIsNotSaved
<1>1. GuiInv => HelpTextIsNotSaved
  <2> SUFFICES ASSUME GuiInv, key.type \in {"text", "password", "class"}, HelpText(key) # <<>>,
                      NEW s \in Slots \ {"own"}
               PROVE  file[s] \notin {HelpText(key), Encrypt(HelpText(key))}
    BY Zenon DEF HelpTextIsNotSaved
  <2>1. key \in Layouts /\ file[s] \in Values /\ (Helps(key) => Clean(key, file[s]))
    BY DEF GuiInv, Files
  <2>2. IsKey(key) /\ Helps(key)
    BY <2>1, GuiAssumption DEF Helps
  <2> QED
    BY <2>1, <2>2, CleanEncrypted
<1> QED
  BY <1>1, GuiAlways, PTL

LEMMA OnlySaves ==
  ASSUME GuiNext, saves' # saves
  PROVE  \E p \in Places : Save(p)
<1>1. ASSUME NEW s, ShowItems(s) \/ ClickRow(s) \/ SelectCore(s) \/ OutsideUpdates(s) PROVE FALSE
  BY <1>1, Zenon DEF ShowItems, ClickRow, SelectCore, OutsideUpdates, Event
<1>2. CASE IconsChange \/ ReloadItems \/ CloseGui \/ Restart
  BY <1>2, Zenon DEF IconsChange, ReloadItems, CloseGui, Restart, Event
<1>3. ASSUME NEW p, Edits(p) PROVE FALSE
  <2>1. \A w, e : OnPage(p, w, e) => saves' = saves
    BY Zenon DEF OnPage, Step_
  <2>2. Reset(p) => saves' = saves
    BY <2>1, Zenon DEF Reset, Step_
  <2> QED
    BY <1>3, <2>1, <2>2, Zenon DEF Edits, EditValue, EditPair, EditColor, EditChoice,
       EditFont, EditText, EditTree, Focus
<1>4. ASSUME NEW g, NEW p, GrabStart(g, p) PROVE FALSE
  BY <1>4, Zenon DEF GrabStart, Event
<1>5. ASSUME NEW g, GrabTimeout(g) \/ GrabDone(g) \/ FocusChange(g) PROVE FALSE
  BY <1>5, Zenon DEF GrabTimeout, GrabDone, FocusChange, bounds
<1> QED
  BY <1>1, <1>2, <1>3, <1>4, <1>5, Zenon DEF GuiNext

LEMMA SavedIsTouched ==
  ASSUME GuiInv, NEW p \in Places, Save(p),
         NEW s \in Slots, file'[s] # file[s]
  PROVE  /\ page[p] # NoPage /\ s \in DOMAIN page[p].copy
         /\ \/ file'[s] = page[p].copy[s] \/ s \in broken'
            \/ s = page[p].slot /\ (\/ page[p].edited \/ ~Fits(KeyOf(s), page[p].copy[s])
                                    \/ docks' # docks)
<1>1. /\ page[p] # NoPage
      /\ \E v \in Updated(p) : \E d \in BOOLEAN, w \in BOOLEAN : \E lost : Saves(p, v, d, w, lost)
  BY SaveIs
<1>2. PICK v \in Updated(p), d \in BOOLEAN, w \in BOOLEAN : \E lost : Saves(p, v, d, w, lost)
  BY <1>1
<1>3. PICK lost : Saves(p, v, d, w, lost)
  BY <1>2
<1> DEFINE slot == page[p].slot
           c == page[p].copy
           k == KeyOf(slot)
           u == UpdateStorage(k, page[p].w, c[slot])
<1>4. PageOk(k, page[p]) /\ slot \in Slots
  BY <1>1, Zenon DEF GuiInv, PagesOk, PageOk, IsPage
<1>5. s \in DOMAIN c /\ (file'[s] = Written(p, v)[s] \/ s \in broken')
  <2>1. file'[s] = IF ~w \/ s \notin DOMAIN c THEN file[s] ELSE IF s \in lost THEN <<>> ELSE Written(p, v)[s]
    BY <1>3 DEF Saves
  <2>2. w => broken' = (broken \ DOMAIN c) \cup lost
    BY <1>3 DEF Saves
  <2> QED
    BY <2>1, <2>2
<1>6. CASE file'[s] = c[s] \/ s \in broken'
  BY <1>1, <1>5, <1>6
<1>7. CASE file'[s] # c[s] /\ s \notin broken'
  <2>1. s = slot /\ v # c[slot]
    <3>1. Written(p, v) = [c EXCEPT ![slot] = v]
      BY DEF Written
    <3>2. s # slot => Written(p, v)[s] = c[s]
      BY <1>5, <3>1
    <3>3. s = slot => Written(p, v)[s] = v
      BY <1>5, <3>1
    <3> QED
      BY <1>5, <1>7, <3>2, <3>3
  <2>2. CASE page[p].edited \/ ~Fits(k, c[slot])
    BY <1>1, <1>5, <2>1, <2>2
  <2>3. CASE ~page[p].edited /\ Fits(k, c[slot])
    <3>1. u = c[slot] \/ (k.type = "dock" /\ u = <<NewDock>>)
      BY <1>4, <2>3, Zenon DEF PageOk, Trip
    <3>2. /\ v = u \/ (k.type = "dock" /\ u = <<NewDock>>)
          /\ k.type = "dock" /\ u = <<NewDock>> => v = c[slot] \/ v = <<NextDock>>
      BY <1>1, UpdatedIs
    <3>3. v = <<NextDock>>
      BY <2>1, <3>1, <3>2
    <3>4. docks' = docks \cup {NextDock}
      BY <1>3, <3>3 DEF Saves
    <3>5. NextDock \notin docks
      BY NextDockIs DEF GuiInv, Docks
    <3>6. docks' # docks
      BY <3>4, <3>5
    <3> QED
      BY <1>1, <1>5, <2>1, <3>6
  <2> QED
    BY <2>2, <2>3
<1> QED
  BY <1>6, <1>7

(* A setting the user did not edit is changed by a save of a page only to  *)
(* the value its page has read, when the widget cannot show the value,     *)
(* when a new dock is made, or when the write fails (Builder.Save,         *)
(* updateStorage, SaveFile): what a widget is built from is what it gives  *)
(* back.                                                                   *)
THEOREM SavesKeepUntouched == GuiSpec => SaveKeepsUntouched
<1>1. GuiInv /\ [GuiNext]_guiVars => [KeepsUntouched]_guiVars
  <2> SUFFICES ASSUME GuiInv, GuiNext, saves' # saves, NEW s \in Slots, file'[s] # file[s]
               PROVE  \E p \in Places :
                        /\ page[p] # NoPage /\ s \in DOMAIN page[p].copy
                        /\ \/ file'[s] = page[p].copy[s] \/ s \in broken'
                           \/ /\ s = page[p].slot
                              /\ page[p].edited \/ ~Fits(KeyOf(s), page[p].copy[s]) \/ docks' # docks
    BY Zenon DEF KeepsUntouched
  <2>1. PICK p \in Places : Save(p)
    BY OnlySaves
  <2> QED
    BY <2>1, SavedIsTouched
<1> QED
  BY <1>1, GuiAlways, PTL DEF GuiSpec, SaveKeepsUntouched
=================================================================================
