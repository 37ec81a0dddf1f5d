--------------------------- MODULE MCConfigAccess ---------------------------
(* ConfigAccess on three goroutines and two keys, and its mutants. *)
EXTENDS ConfigAccess

=============================================================================
