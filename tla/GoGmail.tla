------------------------------- MODULE GoGmail -------------------------------
(***************************************************************************)
(* The mail checker applet (services/GoGmail) on its Dbus backend.         *)
(*                                                                         *)
(* The poller, a restart of it and the clicks of the user run in           *)
(* goroutines of their own; all of them use the same Feed, without a lock. *)
(* Reloads, menu entries and the answers of dialogs run in the event loop. *)
(* The mailbox on the server changes at any time.                          *)
(***************************************************************************)
EXTENDS AppletDbus, Integers

CONSTANTS
  MaxMails,     \* bound: mails in the mailbox
  DialogNbMail, \* mails in a dialog
  MaxRuns       \* bound: starts of the program

ASSUME MailAssumption == {MaxMails, DialogNbMail, MaxRuns} \subseteq Nat

VARIABLES
  inbox,       \* mails on the server
  file,        \* the login file: "none", "pair", "word" without a line feed, or
               \* "bad", not decoded
  login,       \* Feed.login is set
  total,       \* Feed.Total
  mails,       \* Len(Feed.Mail)
  shownMails,  \* count or error on the icon
  lastErr,     \* Applet.err is set
  at,          \* step of each thread
  count,       \* count saved by a check, then the mails a dialog lists
  delta,       \* mails found by a check
  alone,       \* history variable: no check or reload overlapped since the last reset
  runs         \* starts of the program so far

feedVars == <<login, total, mails>>
iconVars == <<shownMails, lastErr>>
mailVars == <<inbox, file, feedVars, iconVars, at, count, delta, alone, runs>>

Err      == -1
Register == [kind |-> "register"]
MailList == [kind |-> "mails"]
Typed    == IF dialog = Register THEN {"", "pair", "word"} ELSE {""}
MenuFull == <<"open", "show", "check", "separator", "register">>
\* Threads in the middle of a check.
Checking == {t \in Workers : at[t] \in {"fetch", "alert", "show"} \/ (at[t] = "list" /\ delta[t] > 0)}
Least(a, b) == IF a < b THEN a ELSE b

MailInit ==
  /\ DbusInit
  /\ inbox = 0 /\ file \in {"none", "pair"} /\ login = FALSE /\ total = 0 /\ mails = 0
  /\ shownMails = 0 /\ lastErr = FALSE
  /\ at = [t \in Threads |-> IF t = Loop THEN "init" ELSE "off"]
  /\ count = [t \in Threads |-> 0] /\ delta = [t \in Threads |-> 0]
  /\ alone = TRUE /\ runs = 0

Goto(t, s)   == at' = [at EXCEPT ![t] = s]
LoopIdle     == at[Loop] = "idle" /\ Ready(Loop)
Running(t)   == at[Loop] # "exited" /\ Ready(t)
\* Poller.Restart: a check in a new goroutine (bound: one is free), while the
\* thread t goes on to step s.
Restart(t, s) ==
  \E u \in Workers : at[u] = "off" /\ at' = [at EXCEPT ![u] = "check", ![t] = s]
Back(t)      == IF t = Loop THEN "idle" ELSE "off"

(***************************************************************************)
(* Plausible faults, for the mutant runs.                                  *)
(***************************************************************************)
DisplayLess(t) ==            \* redraws only for more mails
  /\ at[t] = "show"
  /\ shownMails' = IF delta[t] > 0 THEN total ELSE shownMails
  /\ lastErr' = FALSE
  /\ Goto(t, "off")
  /\ UNCHANGED <<dbusVars, inbox, file, feedVars, count, delta, alone, runs>>

(***************************************************************************)
(* Feed.Check and updateDisplay, by a goroutine.                           *)
(***************************************************************************)
\* Save the count, Clear.
Check(t) ==
  /\ at[t] = "check"
  /\ \/ /\ login
        /\ count' = [count EXCEPT ![t] = total]
        /\ total' = 0 /\ mails' = 0
        /\ Goto(t, "fetch")
        /\ alone' = (alone /\ Checking = {} /\ at[Loop] # "defaults")
        /\ UNCHANGED <<iconVars, delta>>
     \/ /\ ~login               \* an error, and no change of the count
        /\ shownMails' \in IF lastErr THEN {shownMails, Err} ELSE {Err}
        /\ lastErr' = TRUE
        /\ Goto(t, "off")
        /\ alone' = (alone /\ Checking = {} /\ at[Loop] # "defaults")
        /\ UNCHANGED <<total, mails, count, delta>>
  /\ UNCHANGED <<dbusVars, inbox, file, login, runs>>

\* The answer of the server fills the feed: the count, then entries appended to the
\* list.  An error may come before them or at any place in them, and what was read
\* stays.  updateDisplay is then given the difference: an error is shown unless it is
\* the same again, and the count after it when that changed.
Fetch(t) ==
  /\ at[t] = "fetch"
  /\ \/ /\ total' = inbox /\ mails' = mails + inbox
        /\ delta' = [delta EXCEPT ![t] = inbox - count[t]]
        /\ Goto(t, IF count[t] > 0 /\ inbox > count[t] THEN "alert" ELSE "show")
        /\ UNCHANGED iconVars
     \/ /\ \/ UNCHANGED <<total, mails>>
           \/ total' = inbox /\ mails' \in mails..mails + inbox
        /\ delta' = [delta EXCEPT ![t] = total' - count[t]]
        /\ shownMails' \in IF total' # count[t] THEN {total'}
                           ELSE IF lastErr THEN {shownMails, Err} ELSE {Err}
        /\ lastErr' = TRUE
        /\ Goto(t, "off")
  /\ UNCHANGED <<dbusVars, inbox, file, login, count, alone, runs>>

\* sendAlert: with the dialog, mailPopup lists the first mails.
Alert(t) ==
  /\ at[t] = "alert"
  /\ \/ /\ count' = [count EXCEPT ![t] = Least(Least(delta[t], DialogNbMail), mails)]
        /\ Goto(t, "list")
     \/ Goto(t, "show") /\ UNCHANGED count
  /\ UNCHANGED <<dbusVars, inbox, file, feedVars, iconVars, delta, alone, runs>>

Show(t) ==
  /\ at[t] = "show"
  /\ shownMails' = IF delta[t] # 0 \/ lastErr THEN total ELSE shownMails
  /\ lastErr' = FALSE
  /\ Goto(t, "off")
  /\ UNCHANGED <<dbusVars, inbox, file, feedVars, count, delta, alone, runs>>

(***************************************************************************)
(* Actions of the user: in the goroutine of a click, or in the loop for a  *)
(* menu entry or the answer of a dialog.                                   *)
(***************************************************************************)
\* testNeedRegister and actionRegister: without a login, a dialog asks for it.
AskLogin(t) == PopupDialog(t, Register) /\ Goto(t, Back(t)) /\ UNCHANGED <<menuVars, count, delta>>

\* actionOpenClient, actionCheckMail and actionShowMails, where mailPopup takes
\* the length of the list ...
Launch(t, a) ==
  /\ a # "separator"
  /\ IF a = "register" \/ ~login THEN AskLogin(t)
     ELSE /\ UNCHANGED <<dialogVars, menuVars>>
          /\ delta' = [delta EXCEPT ![t] = 0]
          /\ \/ a = "open" /\ Goto(t, Back(t)) /\ UNCHANGED count
             \/ a = "check" /\ Restart(t, Back(t)) /\ UNCHANGED count
             \/ /\ a = "show" /\ Goto(t, "list")
                /\ count' = [count EXCEPT ![t] = Least(DialogNbMail, mails)]

\* ... and reads the entries: past the end of a list that was cleared since, it
\* panics and the program ends.
List(t) ==
  /\ at[t] = "list"
  /\ IF count[t] > mails
       THEN Goto(Loop, "exited") /\ UNCHANGED <<dialogVars, menuVars>>
       ELSE /\ PopupDialog(t, MailList) /\ UNCHANGED menuVars
            /\ Goto(t, IF delta[t] > 0 THEN "show" ELSE Back(t))
  /\ UNCHANGED <<signals, events, inbox, file, feedVars, iconVars, count, delta, alone, runs>>

ClickAction(t) ==
  /\ at[t] = "click"
  /\ \E a \in {"open", "show", "check"} : Launch(t, a)
  /\ UNCHANGED <<signals, events, inbox, file, feedVars, iconVars, alone, runs>>

\* SaveLogin, whose write may fail before it opens the file or leave it empty or cut,
\* and LoadLogin, which reads what is there and panics when it finds no line feed.
SaveLogin(v) ==
  /\ file' \in {v, file, "word", "bad"}
  /\ login' = (login \/ file' = "pair")

HandleAnswer ==
  /\ LoopIdle /\ Takes("answer")
  /\ LET s == Head(signals)
         typed == s.value \in {"pair", "word"}
     IN \/ /\ dialogCall = Register /\ s.ok /\ typed
           /\ SaveLogin(s.value)
           /\ \/ /\ IF file' = "word" THEN Goto(Loop, "exited")
                                    ELSE login' /\ Restart(Loop, "idle")
                 /\ UNCHANGED <<dialogVars, menuVars, count, delta>>
              \/ file' # "word" /\ ~login' /\ AskLogin(Loop)
        \/ dialogCall = MailList /\ s.ok /\ Launch(Loop, "open") /\ UNCHANGED <<file, login>>
        \/ /\ dialogCall = MailList => ~s.ok
           /\ dialogCall = Register => ~(s.ok /\ typed)
           /\ UNCHANGED <<file, login, dialogVars, menuVars, at, count, delta>>
  /\ UNCHANGED <<events, inbox, total, mails, iconVars, alone, runs>>

\* OnBuildMenu: the entries depend on the login and on the mail client window.
HandleBuild ==
  /\ LoopIdle /\ Takes("build")
  /\ \/ ~login /\ BuildMenu(<<"register">>)
     \/ login /\ (BuildMenu(MenuFull) \/ BuildMenu(Tail(MenuFull)))
  /\ UNCHANGED <<dialogVars, events, mailVars>>

HandleSelect ==
  /\ LoopIdle /\ Takes("select")
  /\ LET a == Launched(Head(signals).id)
     IN \/ Launch(Loop, a)
        \/ a = "separator" /\ UNCHANGED <<dialogVars, menuVars, at, count, delta>>
  /\ UNCHANGED <<events, inbox, file, feedVars, iconVars, alone, runs>>

\* A tick of the poller, a click, a change of the mailbox.
Tick ==
  /\ LoopIdle /\ Event
  /\ Restart(Loop, "idle")
  /\ UNCHANGED <<signals, dialogVars, menuVars, inbox, file, feedVars, iconVars, count, delta, alone, runs>>

Click(t) ==
  /\ LoopIdle /\ at[t] = "off" /\ Event
  /\ Goto(t, "click")
  /\ UNCHANGED <<signals, dialogVars, menuVars, inbox, file, feedVars, iconVars, count, delta, alone, runs>>

MailboxChanges ==
  /\ Event
  /\ inbox' \in (0..MaxMails) \ {inbox}
  /\ UNCHANGED <<signals, dialogVars, menuVars, file, feedVars, iconVars, at, count, delta, alone, runs>>

(***************************************************************************)
(* Applet.Init, at the start and on reloads: Clear, LoadLogin, then        *)
(* SetDefaults resets the icon and Restart launches a check.               *)
(***************************************************************************)
Reload ==
  /\ LoopIdle /\ Event
  /\ Goto(Loop, "init")
  /\ UNCHANGED <<signals, dialogVars, menuVars, inbox, file, feedVars, iconVars, count, delta, alone, runs>>

LoopInit ==
  /\ at[Loop] = "init"
  /\ total' = 0 /\ mails' = 0
  /\ login' = (login \/ file = "pair") /\ lastErr' = FALSE
  /\ alone' = (Checking = {})
  /\ Goto(Loop, IF file = "word" THEN "exited" ELSE "defaults")
  /\ UNCHANGED <<dbusVars, inbox, file, shownMails, count, delta, runs>>

LoopDefaults ==
  /\ at[Loop] = "defaults"
  /\ shownMails' = 0
  /\ Restart(Loop, "idle")
  /\ UNCHANGED <<dbusVars, inbox, file, feedVars, lastErr, count, delta, alone, runs>>

\* The program is started again.
Start ==
  /\ at[Loop] = "exited" /\ runs < MaxRuns
  /\ runs' = runs + 1
  /\ signals' = <<>> /\ menu' = <<>> /\ shown' = <<>> /\ crossed' = FALSE
  /\ dialogCall' = NoDialog /\ dialog' = NoDialog /\ popping' = [t \in Threads |-> NoDialog]
  /\ login' = FALSE /\ total' = 0 /\ mails' = 0 /\ shownMails' = 0 /\ lastErr' = FALSE
  /\ at' = [t \in Threads |-> IF t = Loop THEN "init" ELSE "off"]
  /\ count' = [t \in Threads |-> 0] /\ delta' = [t \in Threads |-> 0] /\ alone' = TRUE
  /\ UNCHANGED <<inbox, file, events>>

MailStep(t) ==
  /\ Running(t)
  /\ Check(t) \/ Fetch(t) \/ Alert(t) \/ Show(t) \/ ClickAction(t) \/ List(t)

MailNext ==
  \/ \E t \in Threads : MailStep(t)
  \/ \E t \in Workers : Click(t)
  \/ HandleAnswer \/ HandleBuild \/ HandleSelect
  \/ Tick \/ MailboxChanges \/ Reload \/ LoopInit \/ LoopDefaults \/ Start
  \/ at[Loop] # "exited" /\ DbusStep(Typed) /\ UNCHANGED mailVars

MailSpec == MailInit /\ [][MailNext]_<<dbusVars, mailVars>>

(***************************************************************************)
(* Properties.                                                             *)
(***************************************************************************)
\* Once its checks are over, the icon shows the number of mails the feed holds, or the
\* error of the last check; and an alert is about the mails the icon does not count
\* yet, no more and no less (GoGmail.conf:154 "Alert on new mail"), whatever changed,
\* failed halfway and was reloaded before, if no two checks and no check and reload
\* overlapped (Feed.Check, updateDisplay, Init).
IconShowsCount ==
  alone =>
    /\ at[Loop] = "idle" /\ Checking = {} => shownMails = total \/ (shownMails = Err /\ lastErr)
    /\ \A t \in Workers : at[t] = "alert" => shownMails \in {Err, total - delta[t]}
=============================================================================
