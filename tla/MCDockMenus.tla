------------------------------ MODULE MCDockMenus ------------------------------
(* Two places for icons: a container with its icon, an applet and a window, and  *)
(* so on, in every arrangement. Two dialogs show one that replaces another, and  *)
(* an answer that finds the callback of the other.                               *)
EXTENDS DockMenus
================================================================================
