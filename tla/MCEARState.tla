----------------------------- MODULE MCEARState -----------------------------
(* Instances of EARState for TLC.                                          *)
EXTENDS EARState, TLC

CONSTANTS r1, r2, r3, r4, x, y

(* Every reference declared after the one before it.                       *)
InOrder == [r \in Ref |-> ((r1 :> 1) @@ (r2 :> 2) @@ (r3 :> 3) @@ (r4 :> 4))[r]]

(* All declared at one position, as synthetic references of one value are: *)
(* nothing tells references, or fields, apart.                             *)
OnePos == [r \in Ref |-> 1]
AnyOrder == Permutations(Ref) \cup Permutations(Field)
=============================================================================
