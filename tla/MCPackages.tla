------------------------------- MODULE MCPackages -------------------------------
(* Two applets of the dock, one of them of the category of themes, one the server *)
(* has and one of the user's own: each way a package is listed. Seven operations  *)
(* let one editor save twice while a save of the other is under way.              *)
EXTENDS Packages
================================================================================
