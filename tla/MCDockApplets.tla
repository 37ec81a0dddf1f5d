----------------------------- MODULE MCDockApplets -----------------------------
(* Two modules, two addresses and two starts: an applet may get the address of   *)
(* the icon of the applet before it.                                             *)
EXTENDS DockApplets, TLC

Symmetry == Permutations(Apps)
================================================================================
