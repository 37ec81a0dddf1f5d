-------------------------------- MODULE Clouds --------------------------------
(***************************************************************************)
(* The weather applet (services/Clouds), its data source (libs/get/weather)*)
(* and its sub-icons in the dock, on its Dbus backend (libs/appdbus).      *)
(*                                                                         *)
(* A check runs in a goroutine of the poller, and downloads the current    *)
(* conditions and the forecast in two more; the location is chosen in two  *)
(* dialogs, answered in the event loop, which also reloads the settings.   *)
(* Nothing locks the settings, the data or the table of sub-icons.         *)
(***************************************************************************)
EXTENDS AppletDbus

CONSTANTS
  Places,     \* location codes
  NbDays,     \* days of a forecast, one sub-icon each
  MaxOverlaps \* bound: overlaps of checks, reloads and changes before the data is cleared

Nil   == "nil"
Empty == "empty"
ASSUME CloudsAssumption ==
  {"", Nil, Empty} \cap Places = {} /\ {NbDays, MaxOverlaps} \subseteq Nat

VARIABLES
  saved,      \* LocationCode in the settings file, "" to detect it
  conf,       \* Applet.conf: its LocationCode, Empty while it is filled again
  wconf,      \* LocationCode of the settings the data source uses
  current,    \* place of weatherCom.current, Nil
  forecast,   \* check whose Forecast is in weatherCom.forecast, Nil
  filled,     \* place that Forecast was filled for, Empty
  days,       \* days it holds
  icon,       \* place the main icon shows, Nil
  subs,       \* sub-icons in the dock: day -> place
  icons,      \* CDDbus.icons: days with an object
  step,       \* step of each thread
  awaited,    \* the check the loop runs itself and waits for, Nil
  dl,         \* the two downloads of each check: step and place asked for
  draw,       \* each Draw: place of the days it adds, next one, last one
  behind,     \* history variable: what the calls that failed in the last Draw left as
              \* it was: days of sub-icons, 0 for the main icon
  overlaps,   \* history variable: since the data was cleared, times that a check met
              \* another one, a reload or a change of the location
  neat        \* history variable: no such overlap since a Draw that had none and removed
              \* the sub-icons before it

dataVars   == <<current, forecast, filled, days>>
skyVars    == <<icon, subs, icons, behind>>
overlapVars == <<overlaps, neat>>
checkVars  == <<dl, draw>>
cloudsVars == <<saved, conf, wconf, dataVars, skyVars, step, awaited, checkVars, overlapVars>>

Ask     == [kind |-> "ask"]                  \* AskLocationText
Info    == [kind |-> "info"]                 \* a dialog without a callback
WeatherTyped == CASE dialog = Ask -> {"", "name"} [] dialog.kind = "list" -> Places \cup {""} [] OTHER -> {""}
ListOf(places) == [kind |-> "list", places |-> places]
WeatherChecking == {t \in Workers : step[t] \in {"dl", "draw", "removed", "kept", "days", "add"}}
NoDraw   == [of |-> Nil, next |-> 1, last |-> 0]
NoDl     == [cur |-> "off", curOf |-> Nil, fore |-> "off", foreOf |-> Nil]

CloudsInit ==
  /\ DbusInit
  /\ saved \in Places \cup {""} /\ conf = Empty /\ wconf = ""
  /\ current = Nil /\ forecast = Nil /\ filled = Empty /\ days = 0
  /\ icon = Nil /\ subs = <<>> /\ icons = {} /\ behind = {}
  /\ awaited = Nil
  /\ step = [t \in Threads |-> IF t = Loop THEN "init" ELSE "off"]
  /\ dl = [t \in Workers |-> NoDl] /\ draw = [t \in Workers |-> NoDraw]
  /\ overlaps = 0 /\ neat = TRUE

WeatherGoto(t, s) == step' = [step EXCEPT ![t] = s]
WeatherLoopIdle    == step[Loop] = "idle" /\ Ready(Loop)
WeatherRunning(t) == step[Loop] # "exited" /\ Ready(t)
WeatherRestart(s) == \E u \in Workers : step[u] = "off" /\ step' = [step EXCEPT ![u] = "check", ![Loop] = s]
Exit       == WeatherGoto(Loop, "exited")
Meets(b)   == /\ b => overlaps < MaxOverlaps
              /\ overlaps' = IF b THEN overlaps + 1 ELSE overlaps
              /\ neat' = (neat /\ ~b)
Cleared    == IF WeatherChecking = {} THEN overlaps' = 0 /\ UNCHANGED neat ELSE Meets(TRUE)
Set(t, f)  == dl' = [dl EXCEPT ![t] = f]

(***************************************************************************)
(* Plausible faults, for the mutant runs.                                  *)
(***************************************************************************)
DrawOnAnySuccess(t) ==       \* draws when one of the downloads failed
  /\ step[t] = "dl" /\ dl[t].cur \in {"ok", "ko"} /\ dl[t].fore \in {"ok", "ko"}
  /\ WeatherGoto(t, IF dl[t].cur = "ok" \/ dl[t].fore = "ok" THEN "draw" ELSE "off")
  /\ Set(t, NoDl)
  /\ UNCHANGED <<dbusVars, saved, conf, wconf, dataVars, skyVars, awaited, draw, overlapVars>>

RemoveIgnoresFailure(t) ==   \* resets the table though the dock kept its sub-icons
  /\ step[t] = "draw"
  /\ \E failed \in SUBSET {"icon", "subs"} :
       /\ icon' = IF "icon" \notin failed /\ current # Nil /\ conf # Empty THEN current ELSE icon
       /\ subs' = IF "subs" \in failed THEN subs ELSE <<>>
       /\ neat' = (overlaps = 0 /\ ("subs" \in failed => neat))
       /\ behind' = (IF neat' THEN DOMAIN subs' \cup (IF "icon" \in failed THEN {0} ELSE {}) ELSE {})
       /\ WeatherGoto(t, "removed")
  /\ UNCHANGED <<dbusVars, saved, conf, wconf, dataVars, icons, awaited, checkVars, overlaps>>

SetLocationLate(code) ==     \* changes the setting without clearing the data
  /\ conf' = code /\ wconf' = code
  /\ Cleared
  /\ WeatherGoto(Loop, IF code = "" THEN "detect" ELSE "save")
  /\ UNCHANGED <<current, forecast, filled, days>>

(***************************************************************************)
(* Check, by a goroutine: Get starts the two downloads and waits for both. *)
(***************************************************************************)
WeatherCheck(t) ==
  /\ step[t] = "check"
  /\ IF wconf = "" THEN WeatherGoto(t, "off") /\ UNCHANGED <<dl, overlapVars>>      \* ErrMissingLocationCode
     ELSE /\ WeatherGoto(t, "dl")
          /\ Set(t, [cur |-> "start", curOf |-> Nil, fore |-> "start", foreOf |-> Nil])
          /\ Meets(WeatherChecking # {} \/ step[Loop] \notin {"idle", "recheck"})
  /\ UNCHANGED <<dbusVars, saved, conf, wconf, dataVars, skyVars, awaited, draw>>

\* dlCurrent: the data replaces the current one when it is complete, and before
\* its update time is parsed, which may fail.
DlCurrent(t) ==
  /\ step[t] = "dl"
  /\ \/ /\ dl[t].cur = "start"
        /\ Set(t, [dl[t] EXCEPT !.cur = "wait", !.curOf = wconf])
        /\ UNCHANGED <<current>>
     \/ /\ dl[t].cur = "wait"
        /\ current' = dl[t].curOf
        /\ \E r \in {"ok", "ko"} : Set(t, [dl[t] EXCEPT !.cur = r, !.curOf = Nil])
     \/ /\ dl[t].cur = "wait"
        /\ Set(t, [dl[t] EXCEPT !.cur = "ko", !.curOf = Nil]) /\ UNCHANGED current
  /\ UNCHANGED <<dbusVars, saved, conf, wconf, forecast, filled, days, skyVars, step, awaited, draw, overlapVars>>

\* dlForecast: the data is emptied before it is asked for and filled in place, with
\* the days before the error if there is one; it is then read through the source,
\* which may have been cleared or given the data of another check since.
DlForecast(t) ==
  /\ step[t] = "dl"
  /\ \/ /\ dl[t].fore = "start"
        /\ forecast' = t /\ filled' = Empty /\ days' = 0
        /\ Set(t, [dl[t] EXCEPT !.fore = "wait", !.foreOf = wconf])
        /\ UNCHANGED <<step>>
     \/ /\ dl[t].fore = "wait"
        /\ \/ /\ IF forecast = t THEN filled' = dl[t].foreOf /\ days' \in 0..NbDays
                                 ELSE UNCHANGED <<filled, days>>
              /\ \E r \in {"use", "ko"} : Set(t, [dl[t] EXCEPT !.fore = r, !.foreOf = Nil])
           \/ Set(t, [dl[t] EXCEPT !.fore = "ko", !.foreOf = Nil]) /\ UNCHANGED <<filled, days>>
        /\ UNCHANGED <<forecast, step>>
     \/ /\ dl[t].fore = "use"
        /\ IF forecast = Nil THEN Exit /\ UNCHANGED dl
           ELSE Set(t, [dl[t] EXCEPT !.fore = "ok"]) /\ UNCHANGED step
        /\ UNCHANGED <<forecast, filled, days>>
  /\ UNCHANGED <<dbusVars, saved, conf, wconf, current, skyVars, awaited, draw, overlapVars>>

\* Nothing is drawn after an error.
CheckEnd(t) ==
  /\ step[t] = "dl" /\ dl[t].cur \in {"ok", "ko"} /\ dl[t].fore \in {"ok", "ko"}
  /\ WeatherGoto(t, IF dl[t].cur = "ok" /\ dl[t].fore = "ok" THEN "draw" ELSE "off")
  /\ Set(t, NoDl)
  /\ UNCHANGED <<dbusVars, saved, conf, wconf, dataVars, skyVars, awaited, draw, overlapVars>>

(***************************************************************************)
(* Draw: the main icon, unless the settings are being filled again, then   *)
(* the sub-icons: RemoveSubIcons calls the dock and resets the table,      *)
(* AddSubIcon adds to the table and calls the dock.  Each call may fail:   *)
(* only RemoveSubIcons takes notice.                                       *)
(***************************************************************************)
DrawIcon(t) ==
  /\ step[t] = "draw"
  /\ \E failed \in SUBSET {"icon", "subs"} :
       /\ icon' = IF "icon" \notin failed /\ current # Nil /\ conf # Empty THEN current ELSE icon
       /\ subs' = IF "subs" \in failed THEN subs ELSE <<>>
       /\ neat' = (overlaps = 0 /\ ("subs" \in failed => neat))
       /\ behind' = (IF neat' THEN DOMAIN subs' \cup (IF "icon" \in failed THEN {0} ELSE {}) ELSE {})
       /\ WeatherGoto(t, IF "subs" \in failed THEN "kept" ELSE "removed")
  /\ UNCHANGED <<dbusVars, saved, conf, wconf, dataVars, icons, awaited, checkVars, overlaps>>

\* The table is reset if they were removed; then the days are listed: Forecast().Days
\* of a source that was cleared ends the program.
ListDays(t) ==
  /\ step[t] \in {"removed", "kept"}
  /\ icons' = IF step[t] = "removed" THEN {} ELSE icons
  /\ \/ /\ forecast = Nil
        /\ Exit /\ UNCHANGED draw
     \/ /\ forecast # Nil
        /\ draw' = [draw EXCEPT ![t] = [of |-> filled, next |-> 1, last |-> days]]
        /\ WeatherGoto(t, "days")
  /\ UNCHANGED <<dbusVars, saved, conf, wconf, dataVars, icon, subs, behind, awaited, dl, overlapVars>>

AddSubIcon(t) ==
  /\ step[t] = "days" /\ draw[t].next <= draw[t].last
  /\ icons' = icons \cup {draw[t].next}
  /\ WeatherGoto(t, "add")
  /\ UNCHANGED <<dbusVars, saved, conf, wconf, dataVars, icon, subs, behind, awaited, checkVars, overlapVars>>

SubIconAdded(t) ==
  /\ step[t] = "add"
  /\ \/ subs' = [d \in DOMAIN subs \cup {draw[t].next} |-> IF d = draw[t].next THEN draw[t].of ELSE subs[d]]
     \/ UNCHANGED subs
  /\ draw' = [draw EXCEPT ![t].next = @ + 1]
  /\ WeatherGoto(t, "days")
  /\ UNCHANGED <<dbusVars, saved, conf, wconf, dataVars, icon, icons, behind, awaited, dl, overlapVars>>

DrawEnd(t) ==
  /\ step[t] = "days" /\ draw[t].next > draw[t].last
  /\ draw' = [draw EXCEPT ![t] = NoDraw]
  /\ WeatherGoto(t, "off")
  /\ UNCHANGED <<dbusVars, saved, conf, wconf, dataVars, skyVars, awaited, dl, overlapVars>>

(***************************************************************************)
(* Clicks, in goroutines: the current conditions, or those of a day.       *)
(***************************************************************************)
WeatherClick(t) ==
  /\ step[t] = "off" /\ current # Nil
  /\ Event
  /\ PopupDialog(t, Info)
  /\ UNCHANGED <<signals, menuVars, cloudsVars>>

\* DialogWeatherForecast: the missing data of a day is only logged, then read.
ShowDay(t, d) ==
  IF d > days THEN Exit /\ UNCHANGED dialogVars
  ELSE PopupDialog(t, Info) /\ UNCHANGED step

SubClick(t) ==
  /\ step[t] = "off" /\ forecast # Nil
  /\ Event
  /\ \E d \in DOMAIN subs : ShowDay(t, d)
  /\ UNCHANGED <<signals, menuVars, saved, conf, wconf, dataVars, skyVars, awaited, checkVars, overlapVars>>

(***************************************************************************)
(* The event loop: the location dialogs, SetLocationCode, reloads, ticks.  *)
(***************************************************************************)
\* SetLocationCode: Clear, then the setting is changed in memory ...
SetLocation(code) ==
  /\ current' = Nil /\ forecast' = Nil /\ filled' = Empty /\ days' = 0
  /\ conf' = code /\ wconf' = code
  /\ Cleared
  /\ WeatherGoto(Loop, IF code = "" THEN "detect" ELSE "save")

\* ... DetectLocation finds a place or fails (also in Init) ...
Detect ==
  /\ step[Loop] \in {"detect", "detectInit"}
  /\ \/ \E p \in Places : conf' = p /\ wconf' = p
     \/ UNCHANGED <<conf, wconf>>
  /\ WeatherGoto(Loop, IF step[Loop] = "detect" THEN "saveAuto" ELSE "restart")
  /\ UNCHANGED <<dbusVars, saved, dataVars, skyVars, awaited, checkVars, overlapVars>>

\* ... and the code that was asked for is saved, unless the file cannot be, and
\* the poller restarted.
SaveLocation ==
  /\ step[Loop] \in {"save", "saveAuto"}
  /\ \/ saved' = (IF step[Loop] = "save" THEN conf ELSE "")
     \/ UNCHANGED saved
  /\ WeatherRestart("idle")
  /\ UNCHANGED <<dbusVars, conf, wconf, dataVars, skyVars, awaited, checkVars, overlapVars>>

\* AskLocationText and AskLocationConfirm: an empty answer detects the place,
\* a name is searched: the list of places found, another try, or an error.
WeatherHandleAnswer ==
  /\ WeatherLoopIdle /\ Takes("answer")
  /\ LET s == Head(signals)
         unused == /\ UNCHANGED <<dataVars, conf, wconf, overlapVars, step>>
     IN \/ /\ dialogCall = Ask /\ s.ok
           /\ \/ s.value = "" /\ SetLocation("") /\ UNCHANGED <<dialogVars>>
              \/ s.value # "" /\ unused /\ PopupDialog(Loop, Ask)
              \/ /\ s.value # "" /\ unused
                 /\ PopupDialog(Loop, ListOf(Places))
              \/ s.value # "" /\ unused /\ UNCHANGED dialogVars
        \/ /\ dialogCall.kind = "list" /\ s.ok /\ s.value \in Places
           /\ SetLocation(s.value) /\ UNCHANGED <<dialogVars>>
        \/ /\ dialogCall = Ask => ~s.ok
           /\ dialogCall.kind = "list" => ~(s.ok /\ s.value \in Places)
           /\ unused /\ UNCHANGED <<dialogVars>>
  /\ UNCHANGED <<events, menuVars, saved, skyVars, awaited, checkVars>>

\* OnBuildMenu offers what there is data for.
WeatherHandleBuild ==
  /\ WeatherLoopIdle /\ Takes("build")
  /\ BuildMenu((IF current # Nil THEN <<"show">> ELSE <<>>)
                \o (IF current # Nil \/ forecast # Nil THEN <<"web", "recheck">> ELSE <<>>) \o <<"ask">>)
  /\ UNCHANGED <<dialogVars, events, cloudsVars>>

\* The actions of the menu and of the shortkeys, called by the loop itself: it waits
\* for the end of the check it runs.
WeatherLaunch(a) ==
  /\ \/ a = "ask" /\ PopupDialog(Loop, Ask) /\ UNCHANGED <<step, awaited>>
     \/ a = "show" /\ current # Nil /\ PopupDialog(Loop, Info) /\ UNCHANGED <<step, awaited>>
     \/ a = "tomorrow" /\ forecast # Nil /\ ShowDay(Loop, 2) /\ UNCHANGED awaited
     \/ /\ a = "recheck"
        /\ WeatherRestart("recheck")
        /\ awaited' \in Workers /\ step'[awaited'] # step[awaited']
        /\ UNCHANGED dialogVars
     \/ /\ a = "show" => current = Nil
        /\ a = "tomorrow" => forecast = Nil
        /\ a \notin {"ask", "recheck"}
        /\ UNCHANGED <<dialogVars, step, awaited>>
  /\ UNCHANGED <<saved, conf, wconf, dataVars, skyVars, checkVars, overlapVars>>

WeatherHandleSelect ==
  /\ WeatherLoopIdle /\ Takes("select")
  /\ WeatherLaunch(Launched(Head(signals).id))
  /\ UNCHANGED <<events, menuVars>>

WeatherShortkey ==
  /\ WeatherLoopIdle /\ Event
  /\ \E a \in {"show", "tomorrow", "web", "recheck", "ask"} : WeatherLaunch(a)
  /\ UNCHANGED <<signals, menuVars>>

LoopRechecked ==
  /\ step[Loop] = "recheck" /\ step[awaited] = "off"
  /\ WeatherGoto(Loop, "idle") /\ awaited' = Nil
  /\ UNCHANGED <<dbusVars, saved, conf, wconf, dataVars, skyVars, checkVars, overlapVars>>

\* A tick of the poller.
WeatherTick ==
  /\ WeatherLoopIdle /\ Event
  /\ WeatherRestart("idle")
  /\ UNCHANGED <<signals, dialogVars, menuVars, saved, conf, wconf, dataVars, skyVars, awaited, checkVars, overlapVars>>

\* A reload: the settings of the applet are emptied, then filled, and given to
\* the data source by Init, which clears the data.
WeatherReload ==
  /\ WeatherLoopIdle /\ Event
  /\ conf' = Empty
  /\ WeatherGoto(Loop, "init")
  /\ Meets(WeatherChecking # {})
  /\ UNCHANGED <<signals, dialogVars, menuVars, saved, wconf, dataVars, skyVars, awaited, checkVars>>

WeatherLoopInit ==
  /\ step[Loop] = "init"
  /\ conf' = saved /\ wconf' = saved
  /\ current' = Nil /\ forecast' = Nil /\ filled' = Empty /\ days' = 0
  /\ Cleared
  /\ WeatherGoto(Loop, IF saved = "" THEN "detectInit" ELSE "restart")
  /\ UNCHANGED <<dbusVars, saved, skyVars, awaited, checkVars>>

\* SetDefaults, whose calls may fail too, and the restart of the poller.
LoopRestart ==
  /\ step[Loop] = "restart"
  /\ icon' \in {Nil, icon}
  /\ WeatherRestart("idle")
  /\ UNCHANGED <<dbusVars, saved, conf, wconf, dataVars, subs, icons, behind, awaited, checkVars, overlapVars>>

CheckStep(t) ==
  \/ WeatherCheck(t) \/ DlCurrent(t) \/ DlForecast(t) \/ CheckEnd(t)
  \/ DrawIcon(t) \/ ListDays(t) \/ AddSubIcon(t) \/ SubIconAdded(t) \/ DrawEnd(t)

LoopStep ==
  \/ Detect \/ SaveLocation \/ WeatherHandleAnswer \/ WeatherHandleBuild \/ WeatherHandleSelect
  \/ WeatherShortkey \/ LoopRechecked \/ WeatherTick \/ WeatherReload \/ WeatherLoopInit \/ LoopRestart

CloudsNext ==
  /\ step[Loop] # "exited"
  /\ \/ \E t \in Workers : WeatherRunning(t) /\ (CheckStep(t) \/ WeatherClick(t) \/ SubClick(t))
     \/ LoopStep
     \/ DbusStep(WeatherTyped) /\ UNCHANGED cloudsVars

CloudsSpec == CloudsInit /\ [][CloudsNext]_<<dbusVars, cloudsVars>>

(***************************************************************************)
(* Properties.                                                             *)
(***************************************************************************)
Quiet == step[Loop] = "idle" /\ WeatherChecking = {}

\* clouds.go:265 "Reset weather data from previous location": whatever was asked
\* for, detected, saved or failed, the data is that of the place in the settings,
\* if no check overlapped another one or the handling of a change
\* (SetLocationCode, Init, Get).
DataIsOfPlace ==
  Quiet /\ overlaps = 0 =>
    /\ current \in {Nil, wconf}
    /\ filled \in {Empty, wconf}

\* When no check runs, every sub-icon of the dock has its object in the table
\* (appdbus.go:604 fills it first, 627 resets it only after the dock did), and those
\* the last Draw added show the place of the main icon, if it met no other check and
\* no change; what its failing calls left in the dock may be of another place.  A
\* failed check leaves the icons as they were (Check, Draw, RemoveSubIcons, AddSubIcon).
IconsAgree ==
  Quiet /\ neat => /\ DOMAIN subs \subseteq icons
                   /\ icon # Nil /\ 0 \notin behind => \A d \in DOMAIN subs \ behind : subs[d] = icon
=============================================================================
