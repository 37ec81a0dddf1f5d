------------------------------- MODULE TaskPool -------------------------------
(***************************************************************************)
(* What a queue of jobs promises whoever works on it: a submitted task is  *)
(* pending until it is taken, and is taken once.                           *)
(***************************************************************************)
CONSTANT Tasks

VARIABLES pending, taken

Init == pending = {} /\ taken = {}

Submit(t) ==
  /\ t \notin pending \cup taken
  /\ pending' = pending \cup {t}
  /\ UNCHANGED taken

Take(t) ==
  /\ t \in pending
  /\ pending' = pending \ {t}
  /\ taken' = taken \cup {t}

Next == \E t \in Tasks : Submit(t) \/ Take(t)

Spec == Init /\ [][Next]_<<pending, taken>>
=============================================================================
