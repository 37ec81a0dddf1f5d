----------------------------- MODULE MCAppletLoop -----------------------------
(* AppletLoop with the two kinds of applets there are: Update allows one     *)
(* action and may stop its poller, GoGmail launches actions from actions.    *)
EXTENDS AppletLoop, TLC
MCApplets == {[max |-> 1, nest |-> 0, stops |-> TRUE],
              [max |-> 0, nest |-> 1, stops |-> FALSE]}
Symmetry == Permutations(Clicks)
=============================================================================
