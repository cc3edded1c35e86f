------------------------------- MODULE Forest -------------------------------
(***************************************************************************)
(* The union-find forest behind the EAR heap: earpointer/state.go keeps it *)
(* as parentMap, a map from a reference to its parent, where a partition   *)
(* representative is its own parent.  The operators below are what the     *)
(* code computes on such a map.  They are written without recursion: the   *)
(* references that lookupPartitionRep visits on its way up from r are the  *)
(* least set that holds r and is closed under the map.                     *)
(***************************************************************************)

(* Sets that no parent link leaves.                                        *)
Closed(p, S) == \A x \in S : p[x] \in S

(* The references on the way from r to its representative, both included.  *)
Chain(p, r) ==
  {x \in DOMAIN p : \A S \in SUBSET DOMAIN p : r \in S /\ Closed(p, S) => x \in S}

(* What lookupPartitionRep returns: the end of the chain.                  *)
Root(p, r) == CHOOSE x \in Chain(p, r) : p[x] = x

(* state.representatives(): the references that are their own parent.      *)
RootsOf(p) == {x \in DOMAIN p : p[x] = x}

(* The partition of r.                                                     *)
ClassOf(p, r) == {x \in DOMAIN p : Root(p, x) = Root(p, r)}

(* What Insert and representative return: a reference they have not seen  *)
(* represents itself.                                                      *)
Rep(p, r) == IF r \in DOMAIN p THEN Root(p, r) ELSE r

(* Mutants of Lookup: the operands of parents[ref] = prep swapped; the new  *)
(* reference never entered; each climbed reference made its own parent.    *)
Lookup_swapped(p, R) ==
  [x \in DOMAIN p \cup R |->
     IF \E r \in R \cap DOMAIN p : r # x /\ x = Root(p, r)
     THEN CHOOSE r \in R \cap DOMAIN p : r # x /\ x = Root(p, r)
     ELSE IF x \in DOMAIN p THEN p[x] ELSE x]

Lookup_noEntry(p, R) == p

Lookup_detaches(p, R) ==
  [x \in DOMAIN p \cup R |-> IF x \in R \/ x \notin DOMAIN p THEN x ELSE p[x]]

(* The map after the references of R have been looked up: those it lacked  *)
(* are inserted as their own parents, and every reference that a climb     *)
(* visited points straight at its representative (path compression).  The  *)
(* order of the lookups makes no difference.                               *)
Lookup(p, R) ==
  LET climbed == UNION {Chain(p, r) : r \in R \cap DOMAIN p}
  IN  [x \in DOMAIN p \cup R |->
         IF x \in climbed THEN Root(p, x) ELSE IF x \in DOMAIN p THEN p[x] ELSE x]

(* parents[a] = b, on a union of the representatives a and b.              *)
Link(p, a, b) == [x \in DOMAIN p |-> IF x = a THEN b ELSE p[x]]

(* The climb of every reference ends: parents stay in the map and a set    *)
(* that no link leaves holds a representative (there is no other cycle).   *)
IsForest(p) ==
  /\ p \in [DOMAIN p -> DOMAIN p]
  /\ \A S \in SUBSET DOMAIN p :
       S # {} /\ Closed(p, S) => \E x \in S : p[x] = x
=============================================================================
