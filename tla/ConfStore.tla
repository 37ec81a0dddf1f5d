------------------------------ MODULE ConfStore ------------------------------
(***************************************************************************)
(* What the config package promises to its callers: a configuration file   *)
(* is a map of keys, and each successful SetToFile changes one key of the  *)
(* current content in one indivisible step (here: counts one update of the *)
(* key), whoever else is updating other keys of the same file.  Content is *)
(* only lost when the file system or the process fails in the middle of an *)
(* update (Lossy), and then a part of the updated content is left: some    *)
(* keys whole, some missing, one cut.                                      *)
(***************************************************************************)
EXTENDS Naturals

CONSTANTS
  Keys,      \* the keys of the file
  Lossy      \* whether a save may be cut short

VARIABLE store

Empty == [k \in Keys |-> 0]

Init == store = Empty

Update(k) == store' = [store EXCEPT ![k] = @ + 1]

PartsOf(c) ==
  UNION {{[k \in Keys |-> IF k \in kept THEN c[k] ELSE IF k = cut THEN v ELSE 0] :
             kept \in SUBSET Keys, v \in 0 .. c[cut]} : cut \in Keys}

Lose(k) == Lossy /\ store' \in PartsOf([store EXCEPT ![k] = @ + 1])

Next == \E k \in Keys : Update(k) \/ Lose(k)

Spec == Init /\ [][Next]_store
=============================================================================
