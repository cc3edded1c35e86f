--------------------------- MODULE MCConfigCache ---------------------------
(* Callers are interchangeable. *)
EXTENDS ConfigCache, TLC

AnyCaller == Permutations(Caller)
=============================================================================
