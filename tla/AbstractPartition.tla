------------------------- MODULE AbstractPartition -------------------------
(***************************************************************************)
(* What the mutable half of the EAR heap (earpointer/state.go) promises to *)
(* its clients: an equivalence over the references the heap knows.  A new  *)
(* reference comes in equivalent to itself only, and two partitions can be *)
(* joined; a partition is never split and no reference leaves the heap.    *)
(***************************************************************************)
CONSTANT Ref

VARIABLE same   \* the pairs of references that are in one partition

Known == {r \in Ref : <<r, r>> \in same}

(* The partitions of a and b become one.                                   *)
Joined(E, a, b) ==
  E \cup {xy \in Ref \X Ref : \/ <<xy[1], a>> \in E /\ <<b, xy[2]>> \in E
                              \/ <<xy[1], b>> \in E /\ <<a, xy[2]>> \in E}

WithNew(E, S) == E \cup {<<r, r>> : r \in S}

Init == same = {}

Add(S) == same' = WithNew(same, S)

AddAndJoin(S, a, b) ==
  /\ {a, b} \subseteq Known \cup S
  /\ same' = Joined(WithNew(same, S), a, b)

Next ==
  \E S \in SUBSET (Ref \ Known) : Add(S) \/ \E a, b \in Ref : AddAndJoin(S, a, b)

Spec == Init /\ [][Next]_same
=============================================================================
