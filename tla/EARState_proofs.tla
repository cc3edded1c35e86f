--------------------------- MODULE EARState_proofs ---------------------------
(***************************************************************************)
(* Theorems about EARState, for every set of references, fields, source    *)
(* positions and bound on the client calls.                                *)
(***************************************************************************)
EXTENDS EARState, FiniteSetTheorems, TLAPS

-----------------------------------------------------------------------------
(* What a union-find forest keeps, whatever its size: the climb of a       *)
(* reference ends in exactly one representative, and inserting, looking up *)
(* (with path compression) and linking leave a forest whose                *)
(* representatives are those one expects.                                  *)

(* A chain starts at its reference, stays in the map and is closed.        *)
LEMMA ChainClosed ==
  ASSUME NEW p, p \in [DOMAIN p -> DOMAIN p], NEW r \in DOMAIN p
  PROVE  /\ r \in Chain(p, r)
         /\ Chain(p, r) \subseteq DOMAIN p
         /\ Closed(p, Chain(p, r))
BY DEF Chain, Closed

(* A chain is the least closed set around its reference.                   *)
LEMMA ChainLeast ==
  ASSUME NEW p, NEW r \in DOMAIN p,
         NEW S \in SUBSET DOMAIN p, r \in S, Closed(p, S)
  PROVE  Chain(p, r) \subseteq S
BY DEF Chain

(* A reference on a chain is its start or on the chain of the next link.   *)
LEMMA ChainStep ==
  ASSUME NEW p, p \in [DOMAIN p -> DOMAIN p], NEW r \in DOMAIN p
  PROVE  Chain(p, r) \subseteq {r} \cup Chain(p, p[r])
<1> DEFINE S == {r} \cup Chain(p, p[r])
<1>1. p[r] \in DOMAIN p
  OBVIOUS
<1>2. S \in SUBSET DOMAIN p /\ r \in S /\ Closed(p, S)
  BY <1>1, ChainClosed DEF Closed
<1> QED
  BY <1>2, ChainLeast

(* The climb from r ends, and in one place only.                           *)
LEMMA RootUnique ==
  ASSUME NEW p, p \in [DOMAIN p -> DOMAIN p], NEW r \in DOMAIN p,
         NEW x \in Chain(p, r), p[x] = x,
         NEW y \in Chain(p, r), p[y] = y
  PROVE  x = y
<1> DEFINE S == {z \in Chain(p, r) : x \in Chain(p, z)}
<1>1. Chain(p, r) \subseteq DOMAIN p /\ Closed(p, Chain(p, r)) /\ r \in Chain(p, r)
  BY ChainClosed
<1>2. ASSUME NEW z \in S
      PROVE  p[z] \in S
  <2>1. z \in DOMAIN p /\ p[z] \in Chain(p, r) /\ p[z] \in DOMAIN p
    BY <1>1 DEF Closed
  <2>2. x = z \/ x \in Chain(p, p[z])
    BY <2>1, ChainStep
  <2>3. x = z => p[z] \in S
    OBVIOUS
  <2> QED
    BY <2>1, <2>2, <2>3
<1>3. y \in S
  <2>1. S \in SUBSET DOMAIN p /\ r \in S /\ Closed(p, S)
    BY <1>1, <1>2 DEF Closed
  <2> QED
    BY <2>1, ChainLeast
<1>4. Chain(p, y) \subseteq {y}
  <2>1. {y} \in SUBSET DOMAIN p /\ Closed(p, {y})
    BY <1>1 DEF Closed
  <2> QED
    BY <2>1, <1>1, ChainLeast
<1> QED
  BY <1>3, <1>4

(* lookupPartitionRep returns a representative, on the way up from r.      *)
LEMMA RootExists ==
  ASSUME NEW p, IsForest(p), NEW r \in DOMAIN p
  PROVE  /\ Root(p, r) \in Chain(p, r)
         /\ Root(p, r) \in DOMAIN p
         /\ p[Root(p, r)] = Root(p, r)
<1>1. /\ r \in Chain(p, r)
      /\ Chain(p, r) \in SUBSET DOMAIN p
      /\ Closed(p, Chain(p, r))
  BY ChainClosed DEF IsForest
<1>2. PICK x \in Chain(p, r) : p[x] = x
  BY <1>1 DEF IsForest
<1> QED
  BY <1>1, <1>2 DEF Root

(* A map f that agrees along every link and fixes the representatives is   *)
(* the map to representatives.  (The set of references with the label of   *)
(* r is closed, so it holds the end of the chain of r.)                    *)
LEMMA RootIs ==
  ASSUME NEW p, IsForest(p), NEW f,
         \A x \in DOMAIN p : f[p[x]] = f[x],
         \A x \in DOMAIN p : p[x] = x => f[x] = x,
         NEW r \in DOMAIN p
  PROVE  Root(p, r) = f[r]
<1> DEFINE S == {z \in DOMAIN p : f[z] = f[r]}
<1>1. S \in SUBSET DOMAIN p /\ r \in S /\ Closed(p, S)
  BY DEF Closed, IsForest
<1>2. Root(p, r) \in S
  BY <1>1, ChainLeast, RootExists
<1> QED
  BY <1>2, RootExists

(* The same fact for a labelling that need not fix the representatives:    *)
(* what agrees along every link agrees with the representative.            *)
LEMMA LabelOfRoot ==
  ASSUME NEW p, IsForest(p), NEW f,
         \A x \in DOMAIN p : f[p[x]] = f[x],
         NEW r \in DOMAIN p
  PROVE  f[Root(p, r)] = f[r]
<1> DEFINE S == {z \in DOMAIN p : f[z] = f[r]}
<1>1. S \in SUBSET DOMAIN p /\ r \in S /\ Closed(p, S)
  BY DEF Closed, IsForest
<1> QED
  BY <1>1, ChainLeast, RootExists

(* One link up does not change the representative.                         *)
LEMMA RootOfParent ==
  ASSUME NEW p, IsForest(p), NEW r \in DOMAIN p
  PROVE  p[r] \in DOMAIN p /\ Root(p, p[r]) = Root(p, r)
<1>1. p \in [DOMAIN p -> DOMAIN p] /\ p[r] \in DOMAIN p
  BY DEF IsForest
<1>2. p[r] \in Chain(p, r) /\ Chain(p, r) \in SUBSET DOMAIN p /\ Closed(p, Chain(p, r))
  BY <1>1, ChainClosed DEF Closed
<1>3. Chain(p, p[r]) \subseteq Chain(p, r)
  BY <1>1, <1>2, ChainLeast
<1> QED
  BY <1>1, <1>3, RootExists, RootUnique

(* A representative represents itself.                                     *)
LEMMA RootOfRoot ==
  ASSUME NEW p, IsForest(p), NEW r \in DOMAIN p, p[r] = r
  PROVE  Root(p, r) = r
<1>1. p \in [DOMAIN p -> DOMAIN p]
  BY DEF IsForest
<1> QED
  BY <1>1, ChainClosed, RootExists, RootUnique

-----------------------------------------------------------------------------
(* All references on one chain have one representative.                    *)
LEMMA RootOnChain ==
  ASSUME NEW p, IsForest(p), NEW r \in DOMAIN p, NEW x \in Chain(p, r)
  PROVE  x \in DOMAIN p /\ Root(p, x) = Root(p, r)
<1> DEFINE S == {z \in DOMAIN p : Root(p, z) = Root(p, r)}
<1>1. S \in SUBSET DOMAIN p /\ r \in S /\ Closed(p, S)
  BY RootOfParent DEF Closed
<1> QED
  BY <1>1, ChainLeast

(* Insert and representative leave a forest over the old references and    *)
(* those looked up, in which every old reference keeps its representative  *)
(* and every new one represents itself.                                    *)
LEMMA LookupKeepsRoots ==
  ASSUME NEW p, IsForest(p), NEW R
  PROVE  /\ DOMAIN Lookup(p, R) = DOMAIN p \cup R
         /\ IsForest(Lookup(p, R))
         /\ \A x \in DOMAIN p \cup R : Root(Lookup(p, R), x) = Rep(p, x)
<1> DEFINE climbed == UNION {Chain(p, r) : r \in R \cap DOMAIN p}
           D == DOMAIN p \cup R
           q == [x \in D |-> IF x \in climbed THEN Root(p, x)
                             ELSE IF x \in DOMAIN p THEN p[x] ELSE x]
           f == [x \in D |-> Rep(p, x)]
<1>1. Lookup(p, R) = q
  BY DEF Lookup
<1>2. climbed \subseteq DOMAIN p
  BY DEF Chain
<1>3. p \in [DOMAIN p -> DOMAIN p]
  BY DEF IsForest
<1>4. \A x \in DOMAIN p : /\ Root(p, x) \in DOMAIN p
                          /\ p[Root(p, x)] = Root(p, x)
                          /\ Root(p, Root(p, x)) = Root(p, x)
                          /\ p[x] \in DOMAIN p
                          /\ Root(p, p[x]) = Root(p, x)
  BY RootExists, RootOfRoot, RootOfParent
<1>5. q \in [D -> D]
  BY <1>2, <1>4
<1>6. ASSUME NEW S \in SUBSET D, S # {}, Closed(q, S)
      PROVE  \E x \in S : q[x] = x
  <2>1. CASE \E x \in S : x \in climbed
    <3>1. PICK x \in S : x \in climbed
      BY <2>1
    <3>2. x \in DOMAIN p /\ Root(p, x) \in S /\ Root(p, x) \in DOMAIN p
      BY <3>1, <1>2, <1>4, <1>6 DEF Closed
    <3>3. q[Root(p, x)] = Root(p, x)
      BY <3>2, <1>4
    <3> QED
      BY <3>2, <3>3
  <2>2. CASE \E x \in S : x \notin DOMAIN p
    BY <2>2, <1>2
  <2>3. CASE \A x \in S : x \in DOMAIN p /\ x \notin climbed
    <3>1. S \in SUBSET DOMAIN p /\ Closed(p, S)
      BY <2>3, <1>6 DEF Closed
    <3>2. PICK x \in S : p[x] = x
      BY <3>1, <1>6 DEF IsForest
    <3> QED
      BY <3>2, <2>3
  <2> QED
    BY <2>1, <2>2, <2>3
<1>7. IsForest(q)
  BY <1>5, <1>6 DEF IsForest
<1>8. \A x \in DOMAIN q : f[q[x]] = f[x]
  BY <1>2, <1>4 DEF Rep
<1>9. \A x \in DOMAIN q : q[x] = x => f[x] = x
  <2> SUFFICES ASSUME NEW x \in D, q[x] = x
               PROVE  f[x] = x
    OBVIOUS
  <2> QED
    BY <1>2, RootOfRoot DEF Rep
<1>10. \A x \in D : Root(q, x) = f[x]
  <2> HIDE DEF q, f
  <2> QED
    BY <1>5, <1>7, <1>8, <1>9, RootIs
<1> QED
  BY <1>1, <1>5, <1>7, <1>10

(* A union of two representatives leaves a forest in which the members of  *)
(* the losing partition have the winner as representative and the others   *)
(* keep theirs.                                                            *)
LEMMA LinkJoins ==
  ASSUME NEW p, IsForest(p),
         NEW a \in DOMAIN p, p[a] = a,
         NEW b \in DOMAIN p, p[b] = b, a # b
  PROVE  /\ DOMAIN Link(p, a, b) = DOMAIN p
         /\ IsForest(Link(p, a, b))
         /\ \A x \in DOMAIN p :
              Root(Link(p, a, b), x) = IF Root(p, x) = a THEN b ELSE Root(p, x)
<1> DEFINE q == Link(p, a, b)
           f == [x \in DOMAIN p |-> IF Root(p, x) = a THEN b ELSE Root(p, x)]
<1>1. /\ q = [x \in DOMAIN p |-> IF x = a THEN b ELSE p[x]]
      /\ p \in [DOMAIN p -> DOMAIN p]
  BY DEF Link, IsForest
<1>2. q \in [DOMAIN p -> DOMAIN p] /\ DOMAIN q = DOMAIN p
  BY <1>1
<1>3. ASSUME NEW S \in SUBSET DOMAIN p, S # {}, Closed(q, S)
      PROVE  \E x \in S : q[x] = x
  <2>1. CASE a \in S
    BY <2>1, <1>1, <1>3 DEF Closed
  <2>2. CASE a \notin S
    <3>1. Closed(p, S)
      BY <2>2, <1>1, <1>3 DEF Closed
    <3>2. PICK x \in S : p[x] = x
      BY <3>1, <1>3 DEF IsForest
    <3> QED
      BY <3>2, <2>2, <1>1
  <2> QED
    BY <2>1, <2>2
<1>4. IsForest(q)
  BY <1>2, <1>3 DEF IsForest
<1>5. Root(p, a) = a /\ Root(p, b) = b
  BY RootOfRoot
<1>6. \A x \in DOMAIN q : f[q[x]] = f[x]
  BY <1>1, <1>2, <1>5, RootOfParent
<1>7. \A x \in DOMAIN q : q[x] = x => f[x] = x
  <2> SUFFICES ASSUME NEW x \in DOMAIN p, q[x] = x
               PROVE  f[x] = x
    BY <1>2
  <2>1. x # a /\ p[x] = x
    BY <1>1
  <2> QED
    BY <2>1, RootOfRoot
<1>8. \A x \in DOMAIN p : Root(q, x) = f[x]
  <2> HIDE DEF q, f
  <2> QED
    BY <1>2, <1>4, <1>6, <1>7, RootIs
<1> QED
  BY <1>2, <1>4, <1>8

-----------------------------------------------------------------------------
(* The representatives are the references that represent themselves.       *)
LEMMA RootsOfIs ==
  ASSUME NEW p, IsForest(p)
  PROVE  RootsOf(p) = {x \in DOMAIN p : Root(p, x) = x}
BY RootOfRoot, RootExists DEF RootsOf

(* A lookup adds the new references to the representatives.                *)
LEMMA LookupRootsOf ==
  ASSUME NEW p, IsForest(p), NEW R
  PROVE  RootsOf(Lookup(p, R)) = RootsOf(p) \cup (R \ DOMAIN p)
<1> DEFINE q == Lookup(p, R)
<1>1. /\ DOMAIN q = DOMAIN p \cup R
      /\ IsForest(q)
      /\ \A x \in DOMAIN p \cup R : Root(q, x) = Rep(p, x)
  BY LookupKeepsRoots
<1>2. RootsOf(q) = {x \in DOMAIN q : Root(q, x) = x}
  BY <1>1, RootsOfIs
<1>3. RootsOf(p) = {x \in DOMAIN p : Root(p, x) = x}
  BY RootsOfIs
<1>4. \A x \in R \ DOMAIN p : Root(q, x) = x
  BY <1>1 DEF Rep
<1>5. \A x \in DOMAIN p : Root(q, x) = Root(p, x)
  BY <1>1 DEF Rep
<1> QED
  BY <1>1, <1>2, <1>3, <1>4, <1>5

(* A union takes the loser out of the representatives.                     *)
LEMMA LinkRootsOf ==
  ASSUME NEW p, p \in [DOMAIN p -> DOMAIN p],
         NEW a \in DOMAIN p, NEW b \in DOMAIN p, a # b
  PROVE  RootsOf(Link(p, a, b)) = RootsOf(p) \ {a}
BY DEF Link, RootsOf

(* Links of a looked-up map stay within what the old map and R hold, and   *)
(* a lookup leaves along every link what agrees along the old links.       *)
LEMMA LookupLabels ==
  ASSUME NEW p, IsForest(p), NEW R, NEW f,
         \A x \in DOMAIN p : f[p[x]] = f[x]
  PROVE  \A x \in DOMAIN Lookup(p, R) : f[Lookup(p, R)[x]] = f[x]
<1> DEFINE climbed == UNION {Chain(p, r) : r \in R \cap DOMAIN p}
<1>1. climbed \subseteq DOMAIN p
  BY DEF Chain
<1>2. \A x \in DOMAIN p : f[Root(p, x)] = f[x]
  BY LabelOfRoot
<1> QED
  BY <1>1, <1>2 DEF Lookup

(* What a forest p and a partition table q are to each other between any   *)
(* two operations.                                                         *)
Heap(p, q) ==
  /\ DOMAIN p \subseteq Ref
  /\ IsForest(p)
  /\ DOMAIN q = RootsOf(p)
  /\ q \in [DOMAIN q -> PartitionInfo]
  /\ \A rep \in DOMAIN q : \A fd \in DOMAIN q[rep].fieldRefs :
       q[rep].fieldRefs[fd] \in DOMAIN p

IInv ==
  /\ Heap(parents, partitions)
  /\ frames \in Seq(SUBSET (Ref \X Ref))
  /\ unified \subseteq Ref \X Ref
  /\ stored \subseteq Ref \X Field \X Ref

-----------------------------------------------------------------------------
(* A new partition is a partition.                                         *)
LEMMA NewPartitionType ==
  NewPartition \in PartitionInfo /\ DOMAIN NewPartition.fieldRefs = {}
<1>1. NoFields \in [{} -> Ref] /\ DOMAIN NoFields = {}
  BY DEF NoFields
<1>2. NoFields \in FieldMap
  BY <1>1 DEF FieldMap
<1> QED
  BY <1>1, <1>2 DEF NewPartition, PartitionInfo

(* A field map is a function from some fields to references.               *)
LEMMA FieldMapIs ==
  ASSUME NEW m \in FieldMap
  PROVE  /\ DOMAIN m \subseteq Field
         /\ m = [k \in DOMAIN m |-> m[k]]
         /\ \A k \in DOMAIN m : m[k] \in Ref
BY DEF FieldMap

-----------------------------------------------------------------------------
(* Insert and representative leave the old partitions alone and give every *)
(* new reference a partition without fields.                               *)
LEMMA LookupInfoIs ==
  ASSUME NEW p, NEW q, Heap(p, q), NEW R \in SUBSET Ref
  PROVE  /\ DOMAIN LookupInfo(p, q, R) = DOMAIN q \cup (R \ DOMAIN p)
         /\ LookupInfo(p, q, R) \in [DOMAIN LookupInfo(p, q, R) -> PartitionInfo]
         /\ \A x \in DOMAIN q : LookupInfo(p, q, R)[x] = q[x]
         /\ \A x \in R \ DOMAIN p : LookupInfo(p, q, R)[x] = NewPartition
<1>1. DOMAIN q \subseteq DOMAIN p
  BY DEF Heap, RootsOf
<1> QED
  BY <1>1, NewPartitionType DEF LookupInfo, Heap

(* They keep forest and table together.                                    *)
LEMMA LookupKeepsHeap ==
  ASSUME NEW p, NEW q, Heap(p, q), NEW R \in SUBSET Ref
  PROVE  Heap(Lookup(p, R), LookupInfo(p, q, R))
<1> DEFINE lp == Lookup(p, R)
           lq == LookupInfo(p, q, R)
<1>1. /\ DOMAIN lp = DOMAIN p \cup R
      /\ IsForest(lp)
      /\ RootsOf(lp) = RootsOf(p) \cup (R \ DOMAIN p)
  BY LookupKeepsRoots, LookupRootsOf DEF Heap
<1>2. /\ DOMAIN lq = DOMAIN q \cup (R \ DOMAIN p)
      /\ lq \in [DOMAIN lq -> PartitionInfo]
      /\ \A x \in DOMAIN q : lq[x] = q[x]
      /\ \A x \in R \ DOMAIN p : lq[x] = NewPartition
  BY LookupInfoIs
<1>3. ASSUME NEW rep \in DOMAIN lq, NEW fd \in DOMAIN lq[rep].fieldRefs
      PROVE  lq[rep].fieldRefs[fd] \in DOMAIN lp
  <2>1. CASE rep \in DOMAIN q
    BY <1>1, <1>2, <1>3, <2>1 DEF Heap
  <2>2. CASE rep \in R \ DOMAIN p
    BY <1>2, <1>3, <2>2, NewPartitionType
  <2> QED
    BY <1>2, <1>3, <2>1, <2>2
<1> HIDE DEF lp, lq
<1>4. Heap(lp, lq)
  BY <1>1, <1>2, <1>3 DEF Heap
<1> QED
  BY <1>4 DEF lp, lq

(* What a lookup returns is a representative of the new forest.            *)
LEMMA RepIsRoot ==
  ASSUME NEW p, NEW q, Heap(p, q), NEW R \in SUBSET Ref, NEW r \in R
  PROVE  /\ Rep(p, r) \in DOMAIN LookupInfo(p, q, R)
         /\ Rep(p, r) \in DOMAIN Lookup(p, R)
         /\ Lookup(p, R)[Rep(p, r)] = Rep(p, r)
         /\ Rep(p, r) \in Ref
<1> DEFINE lp == Lookup(p, R)
<1>1. /\ DOMAIN lp = DOMAIN p \cup R
      /\ IsForest(lp)
      /\ Root(lp, r) = Rep(p, r)
  BY LookupKeepsRoots DEF Heap
<1>2. Rep(p, r) \in DOMAIN lp /\ lp[Rep(p, r)] = Rep(p, r)
  BY <1>1, RootExists
<1>3. Heap(lp, LookupInfo(p, q, R))
  BY LookupKeepsHeap
<1> QED
  BY <1>2, <1>3 DEF Heap, RootsOf

(* Writing a field of a partition keeps forest and table together.         *)
LEMMA SetFieldKeepsHeap ==
  ASSUME NEW p, NEW q, Heap(p, q),
         NEW rep \in DOMAIN q, NEW fd \in Field, NEW r \in DOMAIN p
  PROVE  Heap(p, SetField(q, rep, fd, r))
<1> DEFINE old == q[rep].fieldRefs
           new == [k \in DOMAIN old \cup {fd} |-> IF k = fd THEN r ELSE old[k]]
           info == [q[rep] EXCEPT !.fieldRefs = new]
           sq == [x \in DOMAIN q |-> IF x = rep THEN info ELSE q[x]]
<1>1. SetField(q, rep, fd, r) = sq
  BY DEF SetField
<1>2. r \in Ref /\ q[rep] \in PartitionInfo /\ old \in FieldMap
  BY DEF Heap, PartitionInfo
<1>3. new \in FieldMap
  <2>1. DOMAIN old \cup {fd} \in SUBSET Field
    BY <1>2, FieldMapIs
  <2>2. new \in [DOMAIN old \cup {fd} -> Ref]
    BY <1>2, FieldMapIs
  <2> QED
    BY <2>1, <2>2 DEF FieldMap
<1>4. info \in PartitionInfo /\ info.fieldRefs = new
  BY <1>2, <1>3 DEF PartitionInfo
<1>5. sq \in [DOMAIN q -> PartitionInfo]
  BY <1>4 DEF Heap
<1>6. ASSUME NEW x \in DOMAIN q, NEW k \in DOMAIN sq[x].fieldRefs
      PROVE  sq[x].fieldRefs[k] \in DOMAIN p
  <2>1. CASE x = rep
    BY <2>1, <1>4, <1>6 DEF Heap
  <2>2. CASE x # rep
    BY <2>2, <1>6 DEF Heap
  <2> QED
    BY <2>1, <2>2
<1> QED
  BY <1>1, <1>5, <1>6 DEF Heap

(* A union keeps forest and table together: the loser's entry goes, and    *)
(* its fields are in the winner's.                                         *)
LEMMA AbsorbKeepsHeap ==
  ASSUME NEW p, NEW q, Heap(p, q),
         NEW a \in DOMAIN q, NEW b \in DOMAIN q, a # b
  PROVE  Heap(Link(p, a, b), Absorb(q, a, b))
<1> DEFINE old == q[a].fieldRefs
           new == q[b].fieldRefs
           merged == MergedFields(old, new)
           info == [q[b] EXCEPT !.fieldRefs = merged]
           aq == [x \in DOMAIN q \ {a} |-> IF x = b THEN info ELSE q[x]]
           lp == Link(p, a, b)
<1>1. Absorb(q, a, b) = aq
  BY DEF Absorb
<1>2. a \in DOMAIN p /\ p[a] = a /\ b \in DOMAIN p /\ p[b] = b
  BY DEF Heap, RootsOf
<1>3. DOMAIN lp = DOMAIN p /\ IsForest(lp) /\ RootsOf(lp) = RootsOf(p) \ {a}
  BY <1>2, LinkJoins, LinkRootsOf DEF Heap, IsForest
<1>4. q[a] \in PartitionInfo /\ q[b] \in PartitionInfo /\ old \in FieldMap /\ new \in FieldMap
  BY DEF Heap, PartitionInfo
<1>5. merged \in FieldMap
  <2>1. DOMAIN old \cup DOMAIN new \in SUBSET Field
    BY <1>4, FieldMapIs
  <2>2. merged \in [DOMAIN old \cup DOMAIN new -> Ref]
    BY <1>4, FieldMapIs DEF MergedFields
  <2> QED
    BY <2>1, <2>2 DEF FieldMap
<1>6. info \in PartitionInfo /\ info.fieldRefs = merged
  BY <1>4, <1>5 DEF PartitionInfo
<1>7. aq \in [DOMAIN q \ {a} -> PartitionInfo]
  BY <1>6 DEF Heap
<1>8. ASSUME NEW x \in DOMAIN aq, NEW k \in DOMAIN aq[x].fieldRefs
      PROVE  aq[x].fieldRefs[k] \in DOMAIN p
  <2>1. CASE x = b
    <3>1. aq[x].fieldRefs = merged
      BY <1>6, <2>1
    <3>2. k \in DOMAIN merged
      BY <1>8, <3>1
    <3>3. /\ \A l \in DOMAIN old : old[l] \in DOMAIN p
          /\ \A l \in DOMAIN new : new[l] \in DOMAIN p
      BY DEF Heap
    <3> HIDE DEF old, new, aq
    <3>4. merged[k] \in DOMAIN p
      BY <3>2, <3>3 DEF MergedFields
    <3> QED
      BY <3>1, <3>4
  <2>2. CASE x # b
    BY <2>2, <1>8 DEF Heap
  <2> QED
    BY <2>1, <2>2
<1> HIDE DEF aq, lp
<1>9. Heap(lp, aq)
  BY <1>3, <1>7, <1>8 DEF Heap
<1> QED
  BY <1>1, <1>9 DEF lp

(* Pushing a set of pairs leaves a stack of sets of pairs.                 *)
LEMMA PushType ==
  ASSUME NEW S \in SUBSET (Ref \X Ref), NEW stack \in Seq(SUBSET (Ref \X Ref))
  PROVE  Push(S, stack) \in Seq(SUBSET (Ref \X Ref))
<1> DEFINE E == SUBSET (Ref \X Ref)
<1>1. S \in E /\ stack \in Seq(E)
  OBVIOUS
<1> HIDE DEF E
<1>2. <<S>> \o stack \in Seq(E)
  BY <1>1
<1> QED
  BY <1>1, <1>2 DEF Push, E

(* What the pairs that mergeFieldMap leaves relate: the values that the    *)
(* two maps hold under a common field.                                     *)
LEMMA ToUnifyPairs ==
  ASSUME NEW old \in FieldMap, NEW new \in FieldMap, NEW m \in ToUnify(old, new)
  PROVE  /\ PairsOf(m) \in SUBSET (Ref \X Ref)
         /\ \A u \in PairsOf(m) :
              \E k \in DOMAIN old \cap DOMAIN new : u[1] = old[k] /\ u[2] = new[k]
<1>1. Clashes(old, new) \subseteq Ref
  BY FieldMapIs DEF Clashes
<1>2. /\ DOMAIN m = Clashes(old, new)
      /\ m \in [Clashes(old, new) -> {new[k] : k \in DOMAIN new}]
      /\ \A v \in Clashes(old, new) :
           \E k \in DOMAIN old \cap DOMAIN new : old[k] = v /\ new[k] = m[v]
  BY DEF ToUnify
<1>3. {new[k] : k \in DOMAIN new} \subseteq Ref
  BY FieldMapIs
<1> QED
  BY <1>1, <1>2, <1>3 DEF PairsOf

-----------------------------------------------------------------------------
(* The invariant holds of the empty heap.                                  *)
LEMMA InitIInv == Init => IInv
<1> SUFFICES ASSUME Init
             PROVE  IInv
  OBVIOUS
<1>1. DOMAIN parents = {} /\ DOMAIN partitions = {}
  BY DEF Init
<1>2. parents \in [DOMAIN parents -> DOMAIN parents]
  BY <1>1 DEF Init
<1>3. IsForest(parents)
  BY <1>1, <1>2 DEF IsForest
<1>4. partitions \in [DOMAIN partitions -> PartitionInfo]
  BY <1>1 DEF Init
<1>5. Heap(parents, partitions)
  BY <1>1, <1>3, <1>4 DEF Heap, RootsOf
<1> QED
  BY <1>5 DEF Init, IInv

(* One Unify, lookups, link and merge included, keeps the heap.            *)
LEMMA UnifyOneIInv ==
  ASSUME IInv, NEW a \in Ref, NEW b \in Ref, UnifyOne(a, b)
  PROVE  IInv'
<1> DEFINE p == Lookup(parents, {a, b})
           q == LookupInfo(parents, partitions, {a, b})
           ra == Rep(parents, a)
           rb == Rep(parents, b)
           rest == Push(Head(frames) \ {<<a, b>>}, Tail(frames))
<1>1. Heap(p, q)
  BY LookupKeepsHeap DEF IInv
<1>2. ra \in DOMAIN q /\ rb \in DOMAIN q
  BY RepIsRoot DEF IInv
<1>3. rest \in Seq(SUBSET (Ref \X Ref))
  <2>1. /\ Head(frames) \in SUBSET (Ref \X Ref)
        /\ Tail(frames) \in Seq(SUBSET (Ref \X Ref))
    BY DEF IInv, UnifyOne
  <2> QED
    BY <2>1, PushType
<1>4. UnifyReps(p, q, ra, rb, rest) /\ UNCHANGED <<unified, stored>>
  BY DEF UnifyOne
<1> HIDE DEF p, q, ra, rb, rest
<1>5. CASE ra = rb
  BY <1>1, <1>3, <1>4, <1>5 DEF UnifyReps, IInv
<1>6. CASE ra # rb
  <2> DEFINE lose == Loser(q, ra, rb)
             win == Winner(q, ra, rb)
  <2>1. lose \in DOMAIN q /\ win \in DOMAIN q /\ lose # win
    BY <1>2, <1>6 DEF Loser, Winner
  <2>2. /\ parents' = Link(p, lose, win)
        /\ partitions' = Absorb(q, lose, win)
        /\ \E m \in ToUnify(q[lose].fieldRefs, q[win].fieldRefs) :
             frames' = Push(PairsOf(m), rest)
    BY <1>4, <1>6 DEF UnifyReps
  <2> HIDE DEF lose, win
  <2>3. Heap(parents', partitions')
    BY <1>1, <2>1, <2>2, AbsorbKeepsHeap
  <2>4. q[lose].fieldRefs \in FieldMap /\ q[win].fieldRefs \in FieldMap
    BY <1>1, <2>1 DEF Heap, PartitionInfo
  <2>5. frames' \in Seq(SUBSET (Ref \X Ref))
    BY <1>3, <2>2, <2>4, ToUnifyPairs, PushType
  <2> QED
    BY <1>4, <2>3, <2>5 DEF IInv
<1> QED
  BY <1>5, <1>6

(* unifyField keeps the heap.                                              *)
LEMMA CallUnifyFieldIInv ==
  ASSUME IInv, NEW obj \in Ref, NEW fd \in Field, NEW target \in Ref,
         CallUnifyField(obj, fd, target)
  PROVE  IInv'
<1> DEFINE R == {obj, target}
           p == Lookup(parents, R)
           q == LookupInfo(parents, partitions, R)
           objr == Rep(parents, obj)
           tr == Rep(parents, target)
<1>1. Heap(p, q)
  BY LookupKeepsHeap DEF IInv
<1>2. objr \in DOMAIN q /\ tr \in DOMAIN p /\ tr \in Ref
  BY RepIsRoot DEF IInv
<1>3. /\ parents' = p
      /\ IF fd \in DOMAIN q[objr].fieldRefs
         THEN /\ partitions' = q
              /\ frames' = <<{<<q[objr].fieldRefs[fd], tr>>}>>
         ELSE /\ partitions' = SetField(q, objr, fd, tr)
              /\ frames' = frames
      /\ unified' = unified
      /\ stored' = stored \cup {<<obj, fd, target>>}
  BY DEF CallUnifyField
<1> HIDE DEF p, q, objr, tr
<1>4. q[objr].fieldRefs \in FieldMap
  BY <1>1, <1>2 DEF Heap, PartitionInfo
<1>5. CASE fd \in DOMAIN q[objr].fieldRefs
  <2>1. q[objr].fieldRefs[fd] \in Ref
    BY <1>4, <1>5, FieldMapIs
  <2>2. frames' \in Seq(SUBSET (Ref \X Ref))
    <3> DEFINE E == SUBSET (Ref \X Ref)
               S == {<<q[objr].fieldRefs[fd], tr>>}
    <3>1. S \in E
      BY <1>2, <2>1
    <3> HIDE DEF E
    <3>2. <<S>> \in Seq(E)
      BY <3>1
    <3> QED
      BY <1>3, <1>5, <3>2 DEF E
  <2> QED
    BY <1>1, <1>3, <1>5, <2>2 DEF IInv
<1>6. CASE fd \notin DOMAIN q[objr].fieldRefs
  <2>1. Heap(p, SetField(q, objr, fd, tr))
    BY <1>1, <1>2, SetFieldKeepsHeap
  <2> QED
    BY <1>3, <1>6, <2>1 DEF IInv
<1> QED
  BY <1>5, <1>6

(* The steps that make the Partitions: the loops of finalize and of        *)
(* constructFieldParentMap change nothing of the state they are made from. *)
Freezes ==
  \/ ToPartitions
  \/ \E entry \in toNormalize : Normalize(entry[1], entry[2])
  \/ \E entry \in toReverse : Reverse(entry[1], entry[2])

LEMMA FreezingReads == Freezes => UNCHANGED <<parents, partitions, frames, unified, stored>>
BY DEF Freezes, ToPartitions, Normalize, Reverse

(* Every step keeps the invariant.                                         *)
LEMMA NextIInv == IInv /\ [Next]_vars => IInv'
<1> SUFFICES ASSUME IInv, [Next]_vars
             PROVE  IInv'
  OBVIOUS
<1>1. ASSUME NEW r \in Ref, Insert(r)
      PROVE  IInv'
  BY <1>1, LookupKeepsHeap DEF IInv, Insert
<1>2. ASSUME NEW a \in Ref, NEW b \in Ref, CallUnify(a, b)
      PROVE  IInv'
  BY <1>2 DEF IInv, CallUnify
<1>3. ASSUME NEW obj \in Ref, NEW target \in Ref, NEW fd \in Field,
             CallUnifyField(obj, fd, target)
      PROVE  IInv'
  BY <1>3, CallUnifyFieldIInv
<1>4. CASE StepUnify
  BY <1>4, UnifyOneIInv DEF StepUnify
<1>5. CASE Freezes
  BY <1>5, FreezingReads DEF IInv
<1>6. CASE UNCHANGED vars
  BY <1>6 DEF IInv, vars
<1> QED
  BY <1>1, <1>2, <1>3, <1>4, <1>5, <1>6 DEF Next, Freezes

(* The invariant says what the checked invariants say.                     *)
LEMMA IInvImplies ==
  IInv => TypeOK /\ LookupsEnd /\ PartitionsAtRoots /\ FieldTargetsKnown
<1> SUFFICES ASSUME IInv
             PROVE  TypeOK /\ LookupsEnd /\ PartitionsAtRoots /\ FieldTargetsKnown
  OBVIOUS
<1>1. parents \in [DOMAIN parents -> Ref] /\ DOMAIN partitions \subseteq Ref
  BY DEF IInv, Heap, IsForest, RootsOf
<1>2. TypeOK
  BY <1>1 DEF IInv, Heap, TypeOK
<1> QED
  BY <1>2 DEF IInv, Heap, LookupsEnd, PartitionsAtRoots, FieldTargetsKnown

(* The variables of the heap (state.parents, state.partitions) and the     *)
(* pending unifications keep their types.                                  *)
THEOREM Typing == Spec => []TypeOK
<1>1. Init => IInv
  BY InitIInv
<1>2. IInv /\ [Next]_vars => IInv'
  BY NextIInv
<1>3. IInv => TypeOK
  BY IInvImplies
<1> QED
  BY <1>1, <1>2, <1>3, PTL DEF Spec

(* Whatever is unified in whatever order, the parent map stays a forest:   *)
(* lookupPartitionRep always comes to a representative.                    *)
THEOREM LookupsAlwaysEnd == Spec => []LookupsEnd
<1>1. Init => IInv
  BY InitIInv
<1>2. IInv /\ [Next]_vars => IInv'
  BY NextIInv
<1>3. IInv => LookupsEnd
  BY IInvImplies
<1> QED
  BY <1>1, <1>2, <1>3, PTL DEF Spec

(* partitionInfo is only ever asked for a representative: its log.Fatalf   *)
(* cannot be reached.                                                      *)
THEOREM NeverFatal == Spec => []PartitionsAtRoots
<1>1. Init => IInv
  BY InitIInv
<1>2. IInv /\ [Next]_vars => IInv'
  BY NextIInv
<1>3. IInv => PartitionsAtRoots
  BY IInvImplies
<1> QED
  BY <1>1, <1>2, <1>3, PTL DEF Spec

(* A field map never names a reference that the parent map has not heard   *)
(* of, so the lookups of a cascade find every field value they start from. *)
THEOREM TargetsAlwaysKnown == Spec => []FieldTargetsKnown
<1>1. Init => IInv
  BY InitIInv
<1>2. IInv /\ [Next]_vars => IInv'
  BY NextIInv
<1>3. IInv => FieldTargetsKnown
  BY IInvImplies
<1> QED
  BY <1>1, <1>2, <1>3, PTL DEF Spec

-----------------------------------------------------------------------------
(***************************************************************************)
(* Precision.  A labelling f fits a heap when it agrees along every parent *)
(* link, when every field of every partition comes from an asserted        *)
(* constraint on an object with the partition's label, and when it agrees  *)
(* on every pair that is still to be unified.  A labelling that solves the *)
(* constraints always fits, so references get one representative only if   *)
(* every solution labels them alike.                                       *)
(***************************************************************************)
Fits(f, p, q, st) ==
  /\ \A r \in DOMAIN p : f[p[r]] = f[r]
  /\ \A rep \in DOMAIN q : \A fd \in DOMAIN q[rep].fieldRefs :
       \E s \in st : /\ s[2] = fd
                     /\ f[s[1]] = f[rep]
                     /\ f[s[3]] = f[q[rep].fieldRefs[fd]]

Agrees(f, stack) == \A i \in DOMAIN stack : \A u \in stack[i] : f[u[1]] = f[u[2]]

Precise ==
  \A f \in [Ref -> Ref] :
    Solves(f) => Fits(f, parents, partitions, stored) /\ Agrees(f, frames)

PInv == IInv /\ Precise

(* More constraints explain no fewer fields.                               *)
LEMMA FitsMonotone ==
  ASSUME NEW f, NEW p, NEW q, NEW st, NEW more, Fits(f, p, q, st)
  PROVE  Fits(f, p, q, st \cup more)
BY DEF Fits

(* A lookup keeps the fit, and returns a reference with the same label.    *)
LEMMA LookupFits ==
  ASSUME NEW p, NEW q, Heap(p, q), NEW R \in SUBSET Ref,
         NEW f, NEW st, Fits(f, p, q, st)
  PROVE  /\ Fits(f, Lookup(p, R), LookupInfo(p, q, R), st)
         /\ \A r \in R : f[Rep(p, r)] = f[r]
<1> DEFINE lp == Lookup(p, R)
           lq == LookupInfo(p, q, R)
<1>0. /\ DOMAIN lq = DOMAIN q \cup (R \ DOMAIN p)
      /\ lq \in [DOMAIN lq -> PartitionInfo]
      /\ \A x \in DOMAIN q : lq[x] = q[x]
      /\ \A x \in R \ DOMAIN p : lq[x] = NewPartition
  BY LookupInfoIs
<1>1. IsForest(p) /\ \A x \in DOMAIN p : f[p[x]] = f[x]
  BY DEF Heap, Fits
<1>2. \A x \in DOMAIN lp : f[lp[x]] = f[x]
  BY <1>1, LookupLabels
<1>3. ASSUME NEW rep \in DOMAIN lq, NEW fd \in DOMAIN lq[rep].fieldRefs
      PROVE  \E s \in st : /\ s[2] = fd
                           /\ f[s[1]] = f[rep]
                           /\ f[s[3]] = f[lq[rep].fieldRefs[fd]]
  <2>1. CASE rep \in DOMAIN q
    BY <1>0, <1>3, <2>1 DEF Fits
  <2>2. CASE rep \in R \ DOMAIN p
    BY <1>0, <1>3, <2>2, NewPartitionType
  <2> QED
    BY <1>0, <1>3, <2>1, <2>2
<1>4. \A r \in R : f[Rep(p, r)] = f[r]
  BY <1>1, LabelOfRoot DEF Rep
<1> HIDE DEF lp, lq
<1>5. Fits(f, lp, lq, st)
  BY <1>2, <1>3 DEF Fits
<1> QED
  BY <1>4, <1>5 DEF lp, lq

(* A union of two representatives that f labels alike keeps the fit; and   *)
(* if f solves the constraints it agrees on what the merge leaves to       *)
(* unify, since both values come from constraints on that field of objects *)
(* with one label.                                                         *)
LEMMA AbsorbFits ==
  ASSUME NEW p, NEW q, Heap(p, q),
         NEW a \in DOMAIN q, NEW b \in DOMAIN q, a # b,
         NEW f, Fits(f, p, q, stored), Solves(f), f[a] = f[b]
  PROVE  /\ Fits(f, Link(p, a, b), Absorb(q, a, b), stored)
         /\ \A k \in DOMAIN q[a].fieldRefs \cap DOMAIN q[b].fieldRefs :
              f[q[a].fieldRefs[k]] = f[q[b].fieldRefs[k]]
<1> DEFINE old == q[a].fieldRefs
           new == q[b].fieldRefs
           merged == MergedFields(old, new)
           info == [q[b] EXCEPT !.fieldRefs = merged]
           aq == [x \in DOMAIN q \ {a} |-> IF x = b THEN info ELSE q[x]]
           lp == Link(p, a, b)
<1>1. Absorb(q, a, b) = aq
  BY DEF Absorb
<1>2. \A x \in DOMAIN lp : f[lp[x]] = f[x]
  BY DEF Link, Fits
<1>3. q[b] \in PartitionInfo /\ info.fieldRefs = merged
  BY DEF Heap, PartitionInfo
<1>4. ASSUME NEW rep \in DOMAIN aq, NEW fd \in DOMAIN aq[rep].fieldRefs
      PROVE  \E s \in stored : /\ s[2] = fd
                               /\ f[s[1]] = f[rep]
                               /\ f[s[3]] = f[aq[rep].fieldRefs[fd]]
  <2>1. CASE rep = b
    <3>1. aq[rep].fieldRefs = merged
      BY <1>3, <2>1
    <3>2. CASE fd \in DOMAIN new
      <4>1. merged[fd] = new[fd]
        BY <3>2 DEF MergedFields
      <4> QED
        BY <2>1, <3>1, <3>2, <4>1 DEF Fits
    <3>3. CASE fd \notin DOMAIN new
      <4>1. fd \in DOMAIN old /\ merged[fd] = old[fd]
        BY <1>4, <3>1, <3>3 DEF MergedFields
      <4> QED
        BY <2>1, <3>1, <4>1 DEF Fits
    <3> QED
      BY <3>2, <3>3
  <2>2. CASE rep # b
    BY <1>4, <2>2 DEF Fits
  <2> QED
    BY <2>1, <2>2
<1>5. ASSUME NEW k \in DOMAIN old \cap DOMAIN new
      PROVE  f[old[k]] = f[new[k]]
  <2>1. PICK s \in stored : s[2] = k /\ f[s[1]] = f[a] /\ f[s[3]] = f[old[k]]
    BY DEF Fits
  <2>2. PICK t \in stored : t[2] = k /\ f[t[1]] = f[b] /\ f[t[3]] = f[new[k]]
    BY DEF Fits
  <2> QED
    BY <2>1, <2>2 DEF Solves
<1> HIDE DEF aq, lp
<1>6. Fits(f, lp, aq, stored)
  BY <1>2, <1>4 DEF Fits
<1> QED
  BY <1>1, <1>5, <1>6 DEF lp

(* The merge leaves pairs on which f agrees.                               *)
LEMMA PushAgrees ==
  ASSUME NEW f, NEW S \in SUBSET (Ref \X Ref), \A u \in S : f[u[1]] = f[u[2]],
         NEW stack \in Seq(SUBSET (Ref \X Ref)), Agrees(f, stack)
  PROVE  Agrees(f, Push(S, stack))
<1> DEFINE E == SUBSET (Ref \X Ref)
<1>1. S \in E /\ stack \in Seq(E)
  OBVIOUS
<1> HIDE DEF E
<1>2. /\ DOMAIN (<<S>> \o stack) = 1 .. Len(stack) + 1
      /\ (<<S>> \o stack)[1] = S
      /\ \A i \in 1 .. Len(stack) : (<<S>> \o stack)[i + 1] = stack[i]
      /\ DOMAIN stack = 1 .. Len(stack)
      /\ Len(stack) \in Nat
  BY <1>1
<1>3. ASSUME NEW i \in DOMAIN (<<S>> \o stack), NEW u \in (<<S>> \o stack)[i]
      PROVE  f[u[1]] = f[u[2]]
  <2>1. CASE i = 1
    BY <1>2, <1>3, <2>1
  <2>2. CASE i # 1
    <3>1. i - 1 \in 1 .. Len(stack) /\ (i - 1) + 1 = i
      BY <1>2, <2>2
    <3>2. (<<S>> \o stack)[i] = stack[i - 1]
      BY <1>2, <3>1
    <3> QED
      BY <1>2, <1>3, <3>1, <3>2 DEF Agrees
  <2> QED
    BY <2>1, <2>2
<1> QED
  BY <1>3 DEF Agrees, Push

(* The fit survives one Unify.                                             *)
LEMMA UnifyOnePrecise ==
  ASSUME PInv, NEW a \in Ref, NEW b \in Ref, UnifyOne(a, b)
  PROVE  Precise'
<1> DEFINE p == Lookup(parents, {a, b})
           q == LookupInfo(parents, partitions, {a, b})
           ra == Rep(parents, a)
           rb == Rep(parents, b)
           rest == Push(Head(frames) \ {<<a, b>>}, Tail(frames))
<1>1. Heap(parents, partitions) /\ frames \in Seq(SUBSET (Ref \X Ref)) /\ frames # <<>>
  BY DEF PInv, IInv, UnifyOne
<1>2. Heap(p, q) /\ ra \in DOMAIN q /\ rb \in DOMAIN q
  BY <1>1, LookupKeepsHeap, RepIsRoot
<1>3. /\ <<a, b>> \in Head(frames)
      /\ UnifyReps(p, q, ra, rb, rest)
      /\ unified' = unified /\ stored' = stored
  BY DEF UnifyOne
<1>4. /\ Head(frames) \in SUBSET (Ref \X Ref)
      /\ Tail(frames) \in Seq(SUBSET (Ref \X Ref))
      /\ 1 \in DOMAIN frames /\ Head(frames) = frames[1]
      /\ \A i \in DOMAIN Tail(frames) :
           i + 1 \in DOMAIN frames /\ Tail(frames)[i] = frames[i + 1]
  <2> DEFINE E == SUBSET (Ref \X Ref)
  <2>1. frames \in Seq(E) /\ frames # <<>>
    BY <1>1
  <2> HIDE DEF E
  <2>2. /\ Head(frames) \in E
        /\ Tail(frames) \in Seq(E)
        /\ 1 \in DOMAIN frames /\ Head(frames) = frames[1]
        /\ \A i \in DOMAIN Tail(frames) :
             i + 1 \in DOMAIN frames /\ Tail(frames)[i] = frames[i + 1]
    BY <2>1
  <2> QED
    BY <2>2 DEF E
<1>5. rest \in Seq(SUBSET (Ref \X Ref))
  BY <1>4, PushType
<1> SUFFICES ASSUME NEW f \in [Ref -> Ref], Solves(f)
             PROVE  Fits(f, parents', partitions', stored) /\ Agrees(f, frames')
  BY <1>3 DEF Precise, Solves
<1>6. Fits(f, parents, partitions, stored) /\ Agrees(f, frames)
  BY DEF PInv, Precise
<1>7. Fits(f, p, q, stored) /\ f[ra] = f[a] /\ f[rb] = f[b]
  <2> DEFINE R == {a, b}
  <2>1. R \in SUBSET Ref /\ a \in R /\ b \in R
    OBVIOUS
  <2> HIDE DEF R
  <2>2. /\ Fits(f, Lookup(parents, R), LookupInfo(parents, partitions, R), stored)
        /\ \A r \in R : f[Rep(parents, r)] = f[r]
    BY <1>1, <1>6, <2>1, LookupFits, ZenonT(60)
  <2>3. f[Rep(parents, a)] = f[a] /\ f[Rep(parents, b)] = f[b]
    BY <2>1, <2>2
  <2> QED
    BY <2>2, <2>3 DEF R
<1>8. f[ra] = f[rb]
  BY <1>3, <1>4, <1>6, <1>7 DEF Agrees
<1>9. Agrees(f, rest)
  <2>1. Agrees(f, Tail(frames))
    BY <1>4, <1>6 DEF Agrees
  <2>2. \A u \in Head(frames) : f[u[1]] = f[u[2]]
    BY <1>4, <1>6 DEF Agrees
  <2> QED
    BY <1>4, <2>1, <2>2, PushAgrees
<1> HIDE DEF p, q, ra, rb, rest
<1>10. CASE ra = rb
  BY <1>3, <1>7, <1>9, <1>10 DEF UnifyReps
<1>11. CASE ra # rb
  <2> DEFINE lose == Loser(q, ra, rb)
             win == Winner(q, ra, rb)
  <2>1. lose \in DOMAIN q /\ win \in DOMAIN q /\ lose # win /\ f[lose] = f[win]
    BY <1>2, <1>8, <1>11 DEF Loser, Winner
  <2>2. PICK m \in ToUnify(q[lose].fieldRefs, q[win].fieldRefs) :
          /\ parents' = Link(p, lose, win)
          /\ partitions' = Absorb(q, lose, win)
          /\ frames' = Push(PairsOf(m), rest)
    BY <1>3, <1>11 DEF UnifyReps
  <2> HIDE DEF lose, win
  <2>3. /\ Fits(f, Link(p, lose, win), Absorb(q, lose, win), stored)
        /\ \A k \in DOMAIN q[lose].fieldRefs \cap DOMAIN q[win].fieldRefs :
             f[q[lose].fieldRefs[k]] = f[q[win].fieldRefs[k]]
    BY <1>2, <1>7, <2>1, AbsorbFits
  <2>4. q[lose].fieldRefs \in FieldMap /\ q[win].fieldRefs \in FieldMap
    BY <1>2, <2>1 DEF Heap, PartitionInfo
  <2>5. /\ PairsOf(m) \in SUBSET (Ref \X Ref)
        /\ \A u \in PairsOf(m) : f[u[1]] = f[u[2]]
    BY <2>3, <2>4, ToUnifyPairs
  <2>6. Agrees(f, frames')
    BY <1>5, <1>9, <2>2, <2>5, PushAgrees
  <2> QED
    BY <2>2, <2>3, <2>6
<1> QED
  BY <1>10, <1>11

(* The fit survives unifyField, under the constraint that it adds.         *)
LEMMA CallUnifyFieldPrecise ==
  ASSUME PInv, NEW obj \in Ref, NEW fd \in Field, NEW target \in Ref,
         CallUnifyField(obj, fd, target)
  PROVE  Precise'
<1> DEFINE R == {obj, target}
           p == Lookup(parents, R)
           q == LookupInfo(parents, partitions, R)
           objr == Rep(parents, obj)
           tr == Rep(parents, target)
           old == q[objr].fieldRefs
           s0 == <<obj, fd, target>>
<1>1. Heap(parents, partitions) /\ Heap(p, q) /\ objr \in DOMAIN q
  BY LookupKeepsHeap, RepIsRoot DEF PInv, IInv
<1>2. /\ frames = <<>>
      /\ parents' = p
      /\ IF fd \in DOMAIN old
         THEN partitions' = q /\ frames' = <<{<<old[fd], tr>>}>>
         ELSE partitions' = SetField(q, objr, fd, tr) /\ frames' = frames
      /\ unified' = unified
      /\ stored' = stored \cup {s0}
  BY DEF CallUnifyField, MayCall, Idle
<1> SUFFICES ASSUME NEW f \in [Ref -> Ref], Solves(f)'
             PROVE  Fits(f, parents', partitions', stored') /\ Agrees(f, frames')
  BY DEF Precise
<1>3. Solves(f)
  BY <1>2 DEF Solves
<1>4. Fits(f, parents, partitions, stored)
  BY <1>3 DEF PInv, Precise
<1>5. Fits(f, p, q, stored) /\ f[objr] = f[obj] /\ f[tr] = f[target]
  BY <1>1, <1>4, LookupFits
<1>6. Fits(f, p, q, stored')
  BY <1>2, <1>5, FitsMonotone
<1> HIDE DEF p, q, objr, tr
<1>7. CASE fd \in DOMAIN old
  <2>1. PICK s \in stored : s[2] = fd /\ f[s[1]] = f[objr] /\ f[s[3]] = f[old[fd]]
    BY <1>1, <1>5, <1>7 DEF Fits
  <2>2. s \in stored' /\ s0 \in stored' /\ s0[1] = obj /\ s0[2] = fd /\ s0[3] = target
    BY <1>2
  <2>3. f[s[3]] = f[target]
    BY <1>5, <2>1, <2>2 DEF Solves
  <2>4. f[old[fd]] = f[tr]
    BY <1>5, <2>1, <2>3
  <2>5. Agrees(f, frames')
    BY <1>2, <1>7, <2>4 DEF Agrees
  <2> QED
    BY <1>2, <1>6, <1>7, <2>5
<1>8. CASE fd \notin DOMAIN old
  <2> DEFINE new == [k \in DOMAIN old \cup {fd} |-> IF k = fd THEN tr ELSE old[k]]
             info == [q[objr] EXCEPT !.fieldRefs = new]
             sq == [x \in DOMAIN q |-> IF x = objr THEN info ELSE q[x]]
  <2>1. partitions' = sq /\ frames' = frames
    BY <1>2, <1>8 DEF SetField
  <2>2. info.fieldRefs = new
    BY <1>1 DEF Heap, PartitionInfo
  <2>3. ASSUME NEW rep \in DOMAIN sq, NEW k \in DOMAIN sq[rep].fieldRefs
        PROVE  \E s \in stored' : /\ s[2] = k
                                  /\ f[s[1]] = f[rep]
                                  /\ f[s[3]] = f[sq[rep].fieldRefs[k]]
    <3>1. CASE rep = objr /\ k = fd
      <4>1. sq[rep].fieldRefs[k] = tr
        BY <1>1, <2>2, <3>1
      <4>2. s0 \in stored' /\ s0[1] = obj /\ s0[2] = fd /\ s0[3] = target
        BY <1>2
      <4> QED
        BY <1>5, <3>1, <4>1, <4>2
    <3>2. CASE rep = objr /\ k # fd
      <4>1. k \in DOMAIN old /\ sq[rep].fieldRefs[k] = old[k]
        BY <1>1, <2>2, <2>3, <3>2
      <4>2. PICK s \in stored' : s[2] = k /\ f[s[1]] = f[objr] /\ f[s[3]] = f[old[k]]
        BY <1>1, <1>6, <4>1 DEF Fits
      <4> QED
        BY <3>2, <4>1, <4>2
    <3>3. CASE rep # objr
      BY <1>6, <2>3, <3>3 DEF Fits
    <3> QED
      BY <3>1, <3>2, <3>3
  <2> HIDE DEF sq
  <2>4. Fits(f, p, sq, stored')
    BY <1>1, <1>6, <2>1, <2>3 DEF Fits, sq
  <2>5. Agrees(f, frames')
    BY <1>2, <2>1 DEF Agrees
  <2> QED
    BY <1>2, <2>1, <2>4, <2>5
<1> QED
  BY <1>7, <1>8

(* Every step keeps the fit.                                               *)
LEMMA NextPrecise == PInv /\ [Next]_vars => Precise'
<1> SUFFICES ASSUME PInv, [Next]_vars
             PROVE  Precise'
  OBVIOUS
<1>1. ASSUME NEW r \in Ref, Insert(r)
      PROVE  Precise'
  <2> SUFFICES ASSUME NEW f \in [Ref -> Ref], Solves(f)'
               PROVE  Fits(f, parents', partitions', stored') /\ Agrees(f, frames')
    BY DEF Precise
  <2>1. /\ parents' = Lookup(parents, {r})
        /\ partitions' = LookupInfo(parents, partitions, {r})
        /\ frames' = frames /\ unified' = unified /\ stored' = stored
    BY <1>1 DEF Insert
  <2>2. Fits(f, parents, partitions, stored) /\ Agrees(f, frames)
    BY <2>1 DEF PInv, Precise, Solves
  <2>3. Heap(parents, partitions)
    BY DEF PInv, IInv
  <2> QED
    BY <2>1, <2>2, <2>3, LookupFits
<1>2. ASSUME NEW a \in Ref, NEW b \in Ref, CallUnify(a, b)
      PROVE  Precise'
  <2> SUFFICES ASSUME NEW f \in [Ref -> Ref], Solves(f)'
               PROVE  Fits(f, parents', partitions', stored') /\ Agrees(f, frames')
    BY DEF Precise
  <2>1. /\ parents' = parents /\ partitions' = partitions /\ stored' = stored
        /\ frames' = <<{<<a, b>>}>>
        /\ unified' = unified \cup {<<a, b>>}
    BY <1>2 DEF CallUnify
  <2>2. Solves(f) /\ f[a] = f[b]
    <3>1. <<a, b>> \in unified' /\ <<a, b>>[1] = a /\ <<a, b>>[2] = b
      BY <2>1
    <3>2. f[a] = f[b]
      BY <3>1 DEF Solves
    <3>3. Solves(f)
      BY <2>1 DEF Solves
    <3> QED
      BY <3>2, <3>3
  <2>3. Fits(f, parents, partitions, stored)
    BY <2>2 DEF PInv, Precise
  <2>4. Agrees(f, frames')
    BY <2>1, <2>2 DEF Agrees
  <2> QED
    BY <2>1, <2>3, <2>4
<1>3. ASSUME NEW obj \in Ref, NEW target \in Ref, NEW fd \in Field,
             CallUnifyField(obj, fd, target)
      PROVE  Precise'
  BY <1>3, CallUnifyFieldPrecise
<1>4. CASE StepUnify
  BY <1>4, UnifyOnePrecise DEF StepUnify
<1>5. CASE Freezes
  BY <1>5, FreezingReads DEF PInv, Precise, Solves, Fits, Agrees
<1>6. CASE UNCHANGED vars
  BY <1>6 DEF PInv, Precise, vars, Solves, Fits, Agrees
<1> QED
  BY <1>1, <1>2, <1>3, <1>4, <1>5, <1>6 DEF Next, Freezes

(* No reference ever shares a partition with another unless the constraints*)
(* asserted so far force the two together.                                 *)
THEOREM Precision == Spec => []NoSpuriousUnification
<1>1. Init => PInv
  <2> SUFFICES ASSUME Init
               PROVE  PInv
    OBVIOUS
  <2>1. DOMAIN parents = {} /\ DOMAIN partitions = {} /\ DOMAIN frames = {}
    BY DEF Init
  <2> QED
    BY <2>1, InitIInv DEF PInv, Precise, Fits, Agrees
<1>2. PInv /\ [Next]_vars => PInv'
  BY NextIInv, NextPrecise DEF PInv
<1>3. PInv => NoSpuriousUnification
  <2> SUFFICES ASSUME PInv, NEW f \in [Ref -> Ref], Solves(f), NEW r \in DOMAIN parents
               PROVE  f[Root(parents, r)] = f[r]
    BY DEF NoSpuriousUnification
  <2>1. IsForest(parents) /\ \A x \in DOMAIN parents : f[parents[x]] = f[x]
    BY DEF PInv, IInv, Heap, Precise, Fits
  <2> QED
    BY <2>1, LabelOfRoot
<1> QED
  BY <1>1, <1>2, <1>3, PTL DEF Spec

-----------------------------------------------------------------------------
(***************************************************************************)
(* Refinement.  What the abstract partition sees of the heap is which      *)
(* references have one representative.                                     *)
(***************************************************************************)
SameOf(p) == {ab \in (DOMAIN p) \X (DOMAIN p) : Root(p, ab[1]) = Root(p, ab[2])}

(* A lookup adds the references it has not seen, each on its own.          *)
LEMMA LookupSame ==
  ASSUME NEW p, IsForest(p), NEW R
  PROVE  SameOf(Lookup(p, R)) = Abstract!WithNew(SameOf(p), R \ DOMAIN p)
<1> DEFINE lp == Lookup(p, R)
           D == DOMAIN p \cup R
<1>1. DOMAIN lp = D /\ \A x \in D : Root(lp, x) = Rep(p, x)
  BY LookupKeepsRoots
<1>2. \A x \in DOMAIN p : Root(p, x) \in DOMAIN p
  BY RootExists
<1>3. ASSUME NEW x \in D, NEW y \in D
      PROVE  Rep(p, x) = Rep(p, y)
               <=> \/ x \in DOMAIN p /\ y \in DOMAIN p /\ Root(p, x) = Root(p, y)
                   \/ x = y /\ x \in R \ DOMAIN p
  BY <1>2 DEF Rep
<1> HIDE DEF lp
<1>4. ASSUME NEW xy \in D \X D
      PROVE  xy \in SameOf(lp)
               <=> xy \in SameOf(p) \/ xy \in {<<r, r>> : r \in R \ DOMAIN p}
  <2>1. xy \in SameOf(lp) <=> Rep(p, xy[1]) = Rep(p, xy[2])
    BY <1>1 DEF SameOf
  <2>2. xy \in SameOf(p) <=> /\ xy[1] \in DOMAIN p /\ xy[2] \in DOMAIN p
                            /\ Root(p, xy[1]) = Root(p, xy[2])
    BY DEF SameOf
  <2>3. xy \in {<<r, r>> : r \in R \ DOMAIN p}
          <=> xy[1] = xy[2] /\ xy[1] \in R \ DOMAIN p
    OBVIOUS
  <2> QED
    BY <1>3, <2>1, <2>2, <2>3
<1>5. /\ SameOf(lp) \subseteq D \X D
      /\ SameOf(p) \subseteq D \X D
      /\ {<<r, r>> : r \in R \ DOMAIN p} \subseteq D \X D
  BY <1>1 DEF SameOf
<1>6. SameOf(lp) = SameOf(p) \cup {<<r, r>> : r \in R \ DOMAIN p}
  BY <1>4, <1>5
<1> QED
  BY <1>6 DEF lp, Abstract!WithNew

(* Relabelling ra as rb identifies what it should and nothing else.        *)
LEMMA RelabelJoins ==
  ASSUME NEW ra, NEW rb, ra # rb, NEW na, NEW nb,
         (na = ra /\ nb = rb) \/ (na = rb /\ nb = ra),
         NEW rx, NEW ry
  PROVE  (IF rx = ra THEN rb ELSE rx) = (IF ry = ra THEN rb ELSE ry)
         <=> \/ rx = ry
             \/ rx = na /\ nb = ry
             \/ rx = nb /\ na = ry
OBVIOUS

(* A union joins the partitions of any two members of the two.             *)
LEMMA LinkSame ==
  ASSUME NEW p, IsForest(p), DOMAIN p \subseteq Ref,
         NEW a \in DOMAIN p, NEW b \in DOMAIN p,
         NEW ra \in DOMAIN p, p[ra] = ra, NEW rb \in DOMAIN p, p[rb] = rb, ra # rb,
         \/ Root(p, a) = ra /\ Root(p, b) = rb
         \/ Root(p, a) = rb /\ Root(p, b) = ra
  PROVE  SameOf(Link(p, ra, rb)) = Abstract!Joined(SameOf(p), a, b)
<1> DEFINE D == DOMAIN p
           lp == Link(p, ra, rb)
           extra == {xy \in Ref \X Ref :
                       \/ <<xy[1], a>> \in SameOf(p) /\ <<b, xy[2]>> \in SameOf(p)
                       \/ <<xy[1], b>> \in SameOf(p) /\ <<a, xy[2]>> \in SameOf(p)}
<1>1. /\ DOMAIN lp = D
      /\ \A x \in D : Root(lp, x) = IF Root(p, x) = ra THEN rb ELSE Root(p, x)
  BY LinkJoins
<1>2. \A x, y : <<x, y>> \in SameOf(p) <=> x \in D /\ y \in D /\ Root(p, x) = Root(p, y)
  BY DEF SameOf
<1> HIDE DEF lp
<1>3. ASSUME NEW xy \in D \X D
      PROVE  xy \in SameOf(lp) <=> xy \in SameOf(p) \/ xy \in extra
  <2> DEFINE x == xy[1]
             y == xy[2]
  <2>1. x \in D /\ y \in D /\ xy = <<x, y>> /\ xy \in Ref \X Ref
    OBVIOUS
  <2>2. xy \in SameOf(lp) <=> Root(lp, x) = Root(lp, y)
    BY <1>1, <2>1 DEF SameOf
  <2>3. xy \in SameOf(p) <=> Root(p, x) = Root(p, y)
    BY <2>1 DEF SameOf
  <2>4. /\ <<x, a>> \in SameOf(p) <=> Root(p, x) = Root(p, a)
        /\ <<x, b>> \in SameOf(p) <=> Root(p, x) = Root(p, b)
        /\ <<b, y>> \in SameOf(p) <=> Root(p, b) = Root(p, y)
        /\ <<a, y>> \in SameOf(p) <=> Root(p, a) = Root(p, y)
    BY <1>2, <2>1
  <2>5. xy \in extra <=> \/ Root(p, x) = Root(p, a) /\ Root(p, b) = Root(p, y)
                         \/ Root(p, x) = Root(p, b) /\ Root(p, a) = Root(p, y)
    BY <2>1, <2>4
  <2> HIDE DEF extra, x, y
  <2>6. /\ Root(lp, x) = IF Root(p, x) = ra THEN rb ELSE Root(p, x)
        /\ Root(lp, y) = IF Root(p, y) = ra THEN rb ELSE Root(p, y)
    BY <1>1, <2>1
  <2>7. (IF Root(p, x) = ra THEN rb ELSE Root(p, x))
          = (IF Root(p, y) = ra THEN rb ELSE Root(p, y))
        <=> \/ Root(p, x) = Root(p, y)
            \/ Root(p, x) = Root(p, a) /\ Root(p, b) = Root(p, y)
            \/ Root(p, x) = Root(p, b) /\ Root(p, a) = Root(p, y)
    BY RelabelJoins
  <2> QED
    BY <2>2, <2>3, <2>5, <2>6, <2>7
<1>4. extra \subseteq D \X D
  BY <1>2
<1>5. SameOf(lp) \subseteq D \X D /\ SameOf(p) \subseteq D \X D
  BY <1>1 DEF SameOf
<1>6. SameOf(lp) = SameOf(p) \cup extra
  BY <1>3, <1>4, <1>5
<1> QED
  BY <1>6 DEF lp, Abstract!Joined

(* The abstract heap knows the references that the forest holds.           *)
LEMMA KnownIs ==
  ASSUME IInv
  PROVE  Abstract!Known = DOMAIN parents
BY DEF IInv, Heap, Same, Abstract!Known

(* A step that only looks references up adds those it has not seen.        *)
LEMMA LookupAdds ==
  ASSUME IInv, NEW R \in SUBSET Ref, parents' = Lookup(parents, R)
  PROVE  Abstract!Next
<1>1. SameOf(parents) = Same /\ SameOf(parents)' = Same'
  BY DEF SameOf, Same
<1>2. Same' = Abstract!WithNew(Same, R \ DOMAIN parents)
  <2>1. SameOf(Lookup(parents, R)) = Abstract!WithNew(SameOf(parents), R \ DOMAIN parents)
    BY LookupSame DEF IInv, Heap
  <2> QED
    BY <1>1, <2>1 DEF SameOf
<1>3. R \ DOMAIN parents \in SUBSET (Ref \ Abstract!Known)
  BY KnownIs
<1> QED
  BY <1>2, <1>3 DEF Abstract!Next, Abstract!Add

(* One Unify is a lookup, or a lookup and a join.                          *)
LEMMA UnifyOneJoins ==
  ASSUME IInv, NEW a \in Ref, NEW b \in Ref, UnifyOne(a, b)
  PROVE  Abstract!Next
<1> DEFINE R == {a, b}
           p == Lookup(parents, R)
           q == LookupInfo(parents, partitions, R)
           ra == Rep(parents, a)
           rb == Rep(parents, b)
           lose == Loser(q, ra, rb)
           win == Winner(q, ra, rb)
<1>1. IF ra = rb THEN parents' = p ELSE parents' = Link(p, lose, win)
  BY DEF UnifyOne, UnifyReps
<1>2. CASE ra = rb
  BY <1>1, <1>2, LookupAdds
<1>3. CASE ra # rb
  <2>1. Heap(parents, partitions) /\ IsForest(parents)
    BY DEF IInv, Heap
  <2>2. /\ ra \in DOMAIN p /\ p[ra] = ra
        /\ rb \in DOMAIN p /\ p[rb] = rb
    BY <2>1, RepIsRoot
  <2>3. /\ DOMAIN p = DOMAIN parents \cup R /\ DOMAIN p \subseteq Ref
        /\ IsForest(p)
        /\ Root(p, a) = ra /\ Root(p, b) = rb
    <3>1. /\ DOMAIN p = DOMAIN parents \cup R
          /\ IsForest(p)
          /\ \A x \in DOMAIN parents \cup R : Root(p, x) = Rep(parents, x)
      BY <2>1, LookupKeepsRoots
    <3> HIDE DEF p
    <3> QED
      BY <2>1, <3>1 DEF Heap
  <2>4. \/ lose = ra /\ win = rb
        \/ lose = rb /\ win = ra
    BY DEF Loser, Winner
  <2>5. parents' = Link(p, lose, win)
    BY <1>1, <1>3
  <2>6. SameOf(p) = Abstract!WithNew(SameOf(parents), R \ DOMAIN parents)
    BY <2>1, LookupSame
  <2>7. SameOf(parents) = Same /\ SameOf(parents') = Same'
    BY DEF SameOf, Same
  <2> HIDE DEF p, q, ra, rb, lose, win
  <2>8. SameOf(Link(p, lose, win)) = Abstract!Joined(SameOf(p), a, b)
    BY <1>3, <2>2, <2>3, <2>4, LinkSame
  <2>9. Same' = Abstract!Joined(Abstract!WithNew(Same, R \ DOMAIN parents), a, b)
    BY <2>5, <2>6, <2>7, <2>8
  <2>10. /\ R \ DOMAIN parents \in SUBSET (Ref \ Abstract!Known)
         /\ {a, b} \subseteq Abstract!Known \cup (R \ DOMAIN parents)
    BY KnownIs
  <2> QED
    BY <2>9, <2>10 DEF Abstract!Next, Abstract!AddAndJoin
<1> QED
  BY <1>2, <1>3

(* The union-find heap implements the abstract partition: whatever the     *)
(* order of calls and cascades, references come in alone, partitions are   *)
(* joined two at a time and never split.                                   *)
THEOREM Refinement == Spec => AbstractSpec
<1>1. Init => Abstract!Init
  BY DEF Init, Abstract!Init, Same
<1>2. IInv /\ [Next]_vars => [Abstract!Next]_Same
  <2> SUFFICES ASSUME IInv, [Next]_vars
               PROVE  Abstract!Next \/ Same' = Same
    OBVIOUS
  <2>1. parents' = parents => Same' = Same
    BY DEF Same
  <2>2. ASSUME NEW r \in Ref, Insert(r)
        PROVE  Abstract!Next
    BY <2>2, LookupAdds DEF Insert
  <2>3. ASSUME NEW a \in Ref, NEW b \in Ref, CallUnify(a, b)
        PROVE  Same' = Same
    BY <2>1, <2>3 DEF CallUnify
  <2>4. ASSUME NEW obj \in Ref, NEW target \in Ref, NEW fd \in Field,
               CallUnifyField(obj, fd, target)
        PROVE  Abstract!Next
    BY <2>4, LookupAdds DEF CallUnifyField
  <2>5. CASE StepUnify
    BY <2>5, UnifyOneJoins DEF StepUnify
  <2>6. CASE Freezes
    BY <2>1, <2>6, FreezingReads
  <2>7. CASE UNCHANGED vars
    BY <2>1, <2>7 DEF vars
  <2> QED
    BY <2>2, <2>3, <2>4, <2>5, <2>6, <2>7 DEF Next, Freezes
<1>3. Init => IInv
  BY InitIInv
<1>4. IInv /\ [Next]_vars => IInv'
  BY NextIInv
<1> QED
  BY <1>1, <1>2, <1>3, <1>4, PTL DEF Spec, AbstractSpec, Abstract!Spec

-----------------------------------------------------------------------------
(***************************************************************************)
(* Fields.  Whatever is merged, an object that has been given a field is   *)
(* in a partition that has that field.                                     *)
(***************************************************************************)
HasFields(p, q, st) ==
  \A s \in st :
    /\ s[1] \in DOMAIN p
    /\ s[3] \in DOMAIN p
    /\ s[2] \in DOMAIN q[Root(p, s[1])].fieldRefs

FieldInv == IInv /\ HasFields(parents, partitions, stored)

(* A lookup moves no reference that was there to another partition, and    *)
(* leaves the partitions that were there alone.                            *)
LEMMA LookupKeepsOld ==
  ASSUME NEW p, NEW q, Heap(p, q), NEW R \in SUBSET Ref, NEW r \in DOMAIN p
  PROVE  /\ r \in DOMAIN Lookup(p, R)
         /\ Root(Lookup(p, R), r) = Root(p, r)
         /\ Root(p, r) \in DOMAIN q
         /\ LookupInfo(p, q, R)[Root(p, r)] = q[Root(p, r)]
<1>1. /\ DOMAIN Lookup(p, R) = DOMAIN p \cup R
      /\ Root(Lookup(p, R), r) = Rep(p, r)
  BY LookupKeepsRoots DEF Heap
<1>2. Root(p, r) \in DOMAIN q
  BY RootExists DEF Heap, RootsOf
<1>3. \A x \in DOMAIN q : LookupInfo(p, q, R)[x] = q[x]
  BY DEF LookupInfo
<1> QED
  BY <1>1, <1>2, <1>3 DEF Rep

(* So it keeps the fields.                                                 *)
LEMMA LookupKeepsFields ==
  ASSUME NEW p, NEW q, Heap(p, q), NEW R \in SUBSET Ref,
         NEW st, HasFields(p, q, st)
  PROVE  HasFields(Lookup(p, R), LookupInfo(p, q, R), st)
<1> SUFFICES ASSUME NEW s \in st
             PROVE  /\ s[1] \in DOMAIN Lookup(p, R)
                    /\ s[3] \in DOMAIN Lookup(p, R)
                    /\ s[2] \in DOMAIN LookupInfo(p, q, R)[Root(Lookup(p, R), s[1])].fieldRefs
  BY DEF HasFields
<1>1. /\ s[1] \in DOMAIN p
      /\ s[3] \in DOMAIN p
      /\ s[2] \in DOMAIN q[Root(p, s[1])].fieldRefs
  BY DEF HasFields
<1> QED
  BY <1>1, LookupKeepsOld

(* The field map of each partition after one of its fields is written.     *)
LEMMA SetFieldIs ==
  ASSUME NEW p, NEW q, Heap(p, q), NEW rep \in DOMAIN q, NEW fd, NEW r
  PROVE  /\ DOMAIN SetField(q, rep, fd, r) = DOMAIN q
         /\ \A x \in DOMAIN q : x # rep => SetField(q, rep, fd, r)[x] = q[x]
         /\ DOMAIN SetField(q, rep, fd, r)[rep].fieldRefs = DOMAIN q[rep].fieldRefs \cup {fd}
         /\ SetField(q, rep, fd, r)[rep].fieldRefs[fd] = r
         /\ \A k \in DOMAIN q[rep].fieldRefs :
              k # fd => SetField(q, rep, fd, r)[rep].fieldRefs[k] = q[rep].fieldRefs[k]
<1> DEFINE old == q[rep].fieldRefs
           new == [k \in DOMAIN old \cup {fd} |-> IF k = fd THEN r ELSE old[k]]
           info == [q[rep] EXCEPT !.fieldRefs = new]
           sq == [x \in DOMAIN q |-> IF x = rep THEN info ELSE q[x]]
<1>1. SetField(q, rep, fd, r) = sq
  BY DEF SetField
<1>2. info.fieldRefs = new
  BY DEF Heap, PartitionInfo
<1> QED
  BY <1>1, <1>2

(* The field map of each partition after a union.                          *)
LEMMA AbsorbIs ==
  ASSUME NEW p, NEW q, Heap(p, q),
         NEW a \in DOMAIN q, NEW b \in DOMAIN q, a # b
  PROVE  /\ DOMAIN Absorb(q, a, b) = DOMAIN q \ {a}
         /\ \A x \in DOMAIN q \ {a, b} : Absorb(q, a, b)[x] = q[x]
         /\ Absorb(q, a, b)[b].fieldRefs = MergedFields(q[a].fieldRefs, q[b].fieldRefs)
<1> DEFINE merged == MergedFields(q[a].fieldRefs, q[b].fieldRefs)
           info == [q[b] EXCEPT !.fieldRefs = merged]
           aq == [x \in DOMAIN q \ {a} |-> IF x = b THEN info ELSE q[x]]
<1>1. Absorb(q, a, b) = aq
  BY DEF Absorb
<1>2. info.fieldRefs = merged
  BY DEF Heap, PartitionInfo
<1> HIDE DEF merged
<1> QED
  BY <1>1, <1>2 DEF merged

(* Where a union leaves a reference and the fields of its partition.       *)
LEMMA UnionKeepsOld ==
  ASSUME NEW p, NEW q, Heap(p, q),
         NEW a \in DOMAIN q, NEW b \in DOMAIN q, a # b,
         NEW x \in DOMAIN p
  PROVE  LET old == q[Root(p, x)].fieldRefs
             new == Absorb(q, a, b)[Root(Link(p, a, b), x)].fieldRefs
         IN  /\ x \in DOMAIN Link(p, a, b)
             /\ Root(Link(p, a, b), x) = IF Root(p, x) = a THEN b ELSE Root(p, x)
             /\ \A k \in DOMAIN old :
                  /\ k \in DOMAIN new
                  /\ \/ new[k] = old[k]
                     \/ /\ Root(p, x) = a
                        /\ k \in DOMAIN q[a].fieldRefs \cap DOMAIN q[b].fieldRefs
                        /\ new[k] = q[b].fieldRefs[k]
<1> DEFINE lp == Link(p, a, b)
           aq == Absorb(q, a, b)
           y == Root(p, x)
<1>1. a \in DOMAIN p /\ p[a] = a /\ b \in DOMAIN p /\ p[b] = b /\ IsForest(p)
  BY DEF Heap, RootsOf
<1>2. DOMAIN lp = DOMAIN p /\ Root(lp, x) = IF y = a THEN b ELSE y
  BY <1>1, LinkJoins
<1>3. y \in DOMAIN q
  BY RootExists DEF Heap, RootsOf
<1> HIDE DEF lp, aq, y
<1>4. /\ \A z \in DOMAIN q \ {a, b} : aq[z] = q[z]
      /\ aq[b].fieldRefs = MergedFields(q[a].fieldRefs, q[b].fieldRefs)
  BY AbsorbIs, ZenonT(60) DEF aq
<1>5. ASSUME NEW k \in DOMAIN q[y].fieldRefs
      PROVE  /\ k \in DOMAIN aq[Root(lp, x)].fieldRefs
             /\ \/ aq[Root(lp, x)].fieldRefs[k] = q[y].fieldRefs[k]
                \/ /\ y = a
                   /\ k \in DOMAIN q[a].fieldRefs \cap DOMAIN q[b].fieldRefs
                   /\ aq[Root(lp, x)].fieldRefs[k] = q[b].fieldRefs[k]
  <2>1. CASE y = a
    BY <1>2, <1>4, <1>5, <2>1 DEF MergedFields
  <2>2. CASE y = b
    BY <1>2, <1>4, <1>5, <2>2 DEF MergedFields
  <2>3. CASE y \notin {a, b}
    BY <1>2, <1>3, <1>4, <1>5, <2>3
  <2> QED
    BY <2>1, <2>2, <2>3
<1> QED
  BY <1>2, <1>5 DEF lp, aq, y

(* So it keeps the fields.                                                 *)
LEMMA UnionKeepsFields ==
  ASSUME NEW p, NEW q, Heap(p, q),
         NEW a \in DOMAIN q, NEW b \in DOMAIN q, a # b,
         NEW st, HasFields(p, q, st)
  PROVE  HasFields(Link(p, a, b), Absorb(q, a, b), st)
<1> DEFINE lp == Link(p, a, b)
           aq == Absorb(q, a, b)
<1>1. DOMAIN lp = DOMAIN p
  BY DEF Link
<1>2. ASSUME NEW s \in st
      PROVE  s[2] \in DOMAIN aq[Root(lp, s[1])].fieldRefs
  <2>1. s[1] \in DOMAIN p /\ s[2] \in DOMAIN q[Root(p, s[1])].fieldRefs
    BY DEF HasFields
  <2> QED
    BY <2>1, UnionKeepsOld
<1> HIDE DEF lp, aq
<1>3. HasFields(lp, aq, st)
  BY <1>1, <1>2 DEF HasFields
<1> QED
  BY <1>3 DEF lp, aq

(* One Unify keeps the fields.                                             *)
LEMMA UnifyOneFields ==
  ASSUME FieldInv, NEW a \in Ref, NEW b \in Ref, UnifyOne(a, b)
  PROVE  HasFields(parents, partitions, stored)'
<1> DEFINE p == Lookup(parents, {a, b})
           q == LookupInfo(parents, partitions, {a, b})
           ra == Rep(parents, a)
           rb == Rep(parents, b)
           lose == Loser(q, ra, rb)
           win == Winner(q, ra, rb)
<1>1. Heap(parents, partitions) /\ HasFields(parents, partitions, stored)
  BY DEF FieldInv, IInv
<1>2. /\ Heap(p, q) /\ HasFields(p, q, stored)
      /\ ra \in DOMAIN q /\ rb \in DOMAIN q
  BY <1>1, LookupKeepsHeap, LookupKeepsFields, RepIsRoot
<1>3. /\ stored' = stored
      /\ ra = rb => parents' = p /\ partitions' = q
      /\ ra # rb => parents' = Link(p, lose, win) /\ partitions' = Absorb(q, lose, win)
  BY DEF UnifyOne, UnifyReps
<1>4. ra # rb => lose \in DOMAIN q /\ win \in DOMAIN q /\ lose # win
  BY <1>2 DEF Loser, Winner
<1> HIDE DEF p, q, ra, rb, lose, win
<1> QED
  BY <1>2, <1>3, <1>4, UnionKeepsFields

(* unifyField keeps the fields and adds the one it is told of.             *)
LEMMA CallUnifyFieldFields ==
  ASSUME FieldInv, NEW obj \in Ref, NEW fd \in Field, NEW target \in Ref,
         CallUnifyField(obj, fd, target)
  PROVE  HasFields(parents, partitions, stored)'
<1> DEFINE R == {obj, target}
           p == Lookup(parents, R)
           q == LookupInfo(parents, partitions, R)
           objr == Rep(parents, obj)
           tr == Rep(parents, target)
<1>1. Heap(parents, partitions) /\ HasFields(parents, partitions, stored)
  BY DEF FieldInv, IInv
<1>2. /\ Heap(p, q) /\ HasFields(p, q, stored)
      /\ objr \in DOMAIN q
  BY <1>1, LookupKeepsHeap, LookupKeepsFields, RepIsRoot
<1>3. obj \in DOMAIN p /\ target \in DOMAIN p /\ Root(p, obj) = objr
  BY <1>1, LookupKeepsRoots DEF Heap
<1>4. /\ parents' = p
      /\ partitions' = IF fd \in DOMAIN q[objr].fieldRefs THEN q ELSE SetField(q, objr, fd, tr)
      /\ stored' = stored \cup {<<obj, fd, target>>}
  BY DEF CallUnifyField
<1> HIDE DEF p, q, objr, tr
<1>5. ASSUME NEW x \in DOMAIN q
      PROVE  DOMAIN q[x].fieldRefs \subseteq DOMAIN partitions'[x].fieldRefs
  BY <1>2, <1>4, SetFieldIs
<1>6. fd \in DOMAIN partitions'[objr].fieldRefs
  BY <1>2, <1>4, SetFieldIs
<1>7. \A x \in DOMAIN p : Root(p, x) \in DOMAIN q
  BY <1>2, RootExists DEF Heap, RootsOf
<1> SUFFICES ASSUME NEW s \in stored'
             PROVE  /\ s[1] \in DOMAIN p
                    /\ s[3] \in DOMAIN p
                    /\ s[2] \in DOMAIN partitions'[Root(p, s[1])].fieldRefs
  BY <1>4 DEF HasFields
<1>8. CASE s \in stored
  BY <1>2, <1>5, <1>7, <1>8 DEF HasFields
<1>9. CASE s = <<obj, fd, target>>
  BY <1>3, <1>6, <1>9
<1> QED
  BY <1>4, <1>8, <1>9

(* Every step keeps the fields.                                            *)
LEMMA NextFields == FieldInv /\ [Next]_vars => FieldInv'
<1> SUFFICES ASSUME FieldInv, [Next]_vars
             PROVE  HasFields(parents, partitions, stored)'
  BY NextIInv DEF FieldInv
<1>1. ASSUME NEW r \in Ref, Insert(r)
      PROVE  HasFields(parents, partitions, stored)'
  BY <1>1, LookupKeepsFields DEF FieldInv, IInv, Insert
<1>2. ASSUME NEW a \in Ref, NEW b \in Ref, CallUnify(a, b)
      PROVE  HasFields(parents, partitions, stored)'
  BY <1>2 DEF FieldInv, CallUnify
<1>3. ASSUME NEW obj \in Ref, NEW target \in Ref, NEW fd \in Field,
             CallUnifyField(obj, fd, target)
      PROVE  HasFields(parents, partitions, stored)'
  BY <1>3, CallUnifyFieldFields
<1>4. CASE StepUnify
  BY <1>4, UnifyOneFields DEF StepUnify
<1>5. CASE Freezes
  BY <1>5, FreezingReads DEF FieldInv
<1>6. CASE UNCHANGED vars
  BY <1>6 DEF FieldInv, vars
<1> QED
  BY <1>1, <1>2, <1>3, <1>4, <1>5, <1>6 DEF Next, Freezes

(* The invariant holds of the empty heap.                                  *)
LEMMA InitFields == Init => FieldInv
BY InitIInv DEF Init, FieldInv, HasFields

(* A field that a client has stored is never lost in a merge, in the       *)
(* middle of a cascade or after it.                                        *)
THEOREM FieldsAlwaysKept == Spec => []FieldsKept
<1>1. FieldInv => FieldsKept
  BY DEF FieldInv, HasFields, FieldsKept
<1> QED
  BY <1>1, InitFields, NextFields, PTL DEF Spec

-----------------------------------------------------------------------------
(***************************************************************************)
(* Completeness.  The map toUnify of mergeFieldMap is keyed by the losing  *)
(* partition's value, so a merge forgets a pair when that partition holds  *)
(* one value under two of the common fields; run ear_lost_clash shows it.  *)
(* It is the only thing the heap ever forgets: as long as no merge meets   *)
(* it, all asserted constraints hold whenever no call is running.          *)
(*                                                                         *)
(* The argument takes the labellings that agree on each partition and on   *)
(* each pair still to be unified.  All of them satisfy the constraints     *)
(* asserted so far.  With no pair left, the representatives are such a     *)
(* labelling.                                                              *)
(***************************************************************************)

(* Where the losing partition holds one value under two common fields, the *)
(* winning one holds values that are already unified.                      *)
ForgetsNothing ==
  \A a, b \in Ref : UnifyOne(a, b) /\ Rep(parents, a) # Rep(parents, b) =>
    LET p == Lookup(parents, {a, b})
        q == LookupInfo(parents, partitions, {a, b})
        old == q[Loser(q, Rep(parents, a), Rep(parents, b))].fieldRefs
        new == q[Winner(q, Rep(parents, a), Rep(parents, b))].fieldRefs
    IN  \A k, l \in DOMAIN old \cap DOMAIN new :
          old[k] = old[l] => Root(p, new[k]) = Root(p, new[l])

Labels(g, p) == \A r \in DOMAIN p : g[Root(p, r)] = g[r]

Satisfies(g, p, q, un, st) ==
  /\ \A u \in un : g[u[1]] = g[u[2]]
  /\ \A s \in st : g[q[Root(p, s[1])].fieldRefs[s[2]]] = g[s[3]]

AllSatisfy(p, q, stack, un, st) ==
  \A g \in [Ref -> Ref] : Labels(g, p) /\ Agrees(g, stack) => Satisfies(g, p, q, un, st)

(* A pair is in the heap, or its call has not got to it.                   *)
LookedUp(p, stack, un) ==
  \A u \in un : (u[1] \in DOMAIN p /\ u[2] \in DOMAIN p) \/ stack = <<{u}>>

CompleteInv ==
  /\ FieldInv
  /\ LookedUp(parents, frames, unified)
  /\ AllSatisfy(parents, partitions, frames, unified, stored)

(* A labelling of a looked-up forest labels the forest before.             *)
LEMMA LookupLabelsBack ==
  ASSUME NEW p, IsForest(p), NEW R, NEW g, Labels(g, Lookup(p, R))
  PROVE  /\ Labels(g, p)
         /\ \A r \in R : g[Rep(p, r)] = g[r]
<1>1. /\ DOMAIN Lookup(p, R) = DOMAIN p \cup R
      /\ \A x \in DOMAIN p \cup R : Root(Lookup(p, R), x) = Rep(p, x)
  BY LookupKeepsRoots
<1> QED
  BY <1>1 DEF Labels, Rep

(* A labelling of a forest after a union labels the forest before, and the *)
(* two representatives alike.                                              *)
LEMMA LinkLabelsBack ==
  ASSUME NEW p, IsForest(p),
         NEW a \in DOMAIN p, p[a] = a, NEW b \in DOMAIN p, p[b] = b, a # b,
         NEW g, Labels(g, Link(p, a, b))
  PROVE  Labels(g, p) /\ g[a] = g[b]
<1>1. /\ DOMAIN Link(p, a, b) = DOMAIN p
      /\ \A x \in DOMAIN p : Root(Link(p, a, b), x) = IF Root(p, x) = a THEN b ELSE Root(p, x)
  BY LinkJoins
<1>2. Root(p, a) = a
  BY RootOfRoot
<1>3. g[a] = g[b]
  BY <1>1, <1>2 DEF Labels
<1>4. ASSUME NEW x \in DOMAIN p
      PROVE  g[Root(p, x)] = g[x]
  BY <1>1, <1>3 DEF Labels
<1> QED
  BY <1>3, <1>4 DEF Labels

(* What agrees on a pushed set agrees on its pairs and on the rest.        *)
LEMMA PushAgreesBack ==
  ASSUME NEW g, NEW S \in SUBSET (Ref \X Ref),
         NEW stack \in Seq(SUBSET (Ref \X Ref)), Agrees(g, Push(S, stack))
  PROVE  Agrees(g, stack) /\ \A u \in S : g[u[1]] = g[u[2]]
<1>1. CASE S = {}
  BY <1>1 DEF Push
<1>2. CASE S # {}
  <2> DEFINE E == SUBSET (Ref \X Ref)
             ps == <<S>> \o stack
  <2>1. S \in E /\ stack \in Seq(E)
    OBVIOUS
  <2> HIDE DEF E
  <2>2. /\ 1 \in DOMAIN ps /\ ps[1] = S
        /\ \A i \in DOMAIN stack : i + 1 \in DOMAIN ps /\ ps[i + 1] = stack[i]
    BY <2>1
  <2>3. Agrees(g, ps)
    BY <1>2 DEF Push
  <2> HIDE DEF ps
  <2> QED
    BY <2>2, <2>3 DEF Agrees
<1> QED
  BY <1>1, <1>2

(* What agrees on a single pending pair.                                   *)
LEMMA OnePairAgrees ==
  ASSUME NEW g, NEW a, NEW b, Agrees(g, <<{<<a, b>>}>>)
  PROVE  g[a] = g[b]
<1> DEFINE u == <<a, b>>
           stack == <<{u}>>
<1>1. 1 \in DOMAIN stack /\ u \in stack[1]
  OBVIOUS
<1>2. g[u[1]] = g[u[2]]
  BY <1>1 DEF Agrees
<1> QED
  BY <1>2

(* The constraints that held before a lookup hold after it.                *)
LEMMA LookupSatisfies ==
  ASSUME NEW p, NEW q, Heap(p, q), NEW R \in SUBSET Ref,
         NEW un, NEW st, HasFields(p, q, st),
         NEW g, Satisfies(g, p, q, un, st)
  PROVE  Satisfies(g, Lookup(p, R), LookupInfo(p, q, R), un, st)
<1>1. ASSUME NEW s \in st
      PROVE  g[LookupInfo(p, q, R)[Root(Lookup(p, R), s[1])].fieldRefs[s[2]]] = g[s[3]]
  <2>1. s[1] \in DOMAIN p
    BY DEF HasFields
  <2>2. /\ Root(Lookup(p, R), s[1]) = Root(p, s[1])
        /\ LookupInfo(p, q, R)[Root(p, s[1])] = q[Root(p, s[1])]
    BY <2>1, LookupKeepsOld
  <2> QED
    BY <2>2 DEF Satisfies
<1> QED
  BY <1>1 DEF Satisfies

(* Those that held before a union hold after it, for a labelling that      *)
(* agrees on the values of the common fields.                              *)
LEMMA UnionSatisfies ==
  ASSUME NEW p, NEW q, Heap(p, q),
         NEW a \in DOMAIN q, NEW b \in DOMAIN q, a # b,
         NEW un, NEW st, HasFields(p, q, st),
         NEW g, Satisfies(g, p, q, un, st),
         \A k \in DOMAIN q[a].fieldRefs \cap DOMAIN q[b].fieldRefs :
           g[q[a].fieldRefs[k]] = g[q[b].fieldRefs[k]]
  PROVE  Satisfies(g, Link(p, a, b), Absorb(q, a, b), un, st)
<1> DEFINE lp == Link(p, a, b)
           aq == Absorb(q, a, b)
<1>1. ASSUME NEW s \in st
      PROVE  g[aq[Root(lp, s[1])].fieldRefs[s[2]]] = g[s[3]]
  <2> DEFINE x == s[1]
             k == s[2]
             old == q[Root(p, x)].fieldRefs
             new == aq[Root(lp, x)].fieldRefs
  <2>1. x \in DOMAIN p /\ k \in DOMAIN old /\ g[old[k]] = g[s[3]]
    BY DEF HasFields, Satisfies
  <2>2. \/ new[k] = old[k]
        \/ /\ Root(p, x) = a
           /\ k \in DOMAIN q[a].fieldRefs \cap DOMAIN q[b].fieldRefs
           /\ new[k] = q[b].fieldRefs[k]
    BY <2>1, UnionKeepsOld
  <2> HIDE DEF new, x, k
  <2>3. g[new[k]] = g[old[k]]
    BY <2>2
  <2> QED
    BY <2>1, <2>3 DEF new, x, k
<1> QED
  BY <1>1 DEF Satisfies

(* The pairs that mergeFieldMap leaves account for every common field of   *)
(* the two maps, if the pairs it forgets are unified already.              *)
LEMMA ClashesCovered ==
  ASSUME NEW p, NEW old \in FieldMap, NEW new \in FieldMap, NEW m \in ToUnify(old, new),
         \A k \in DOMAIN new : new[k] \in DOMAIN p,
         \A k, l \in DOMAIN old \cap DOMAIN new :
           old[k] = old[l] => Root(p, new[k]) = Root(p, new[l]),
         NEW g, Labels(g, p), \A u \in PairsOf(m) : g[u[1]] = g[u[2]]
  PROVE  \A k \in DOMAIN old \cap DOMAIN new : g[old[k]] = g[new[k]]
<1> SUFFICES ASSUME NEW k \in DOMAIN old \cap DOMAIN new
             PROVE  g[old[k]] = g[new[k]]
  OBVIOUS
<1>1. old[k] \in Clashes(old, new) /\ DOMAIN m = Clashes(old, new)
  BY DEF Clashes, ToUnify
<1>2. PICK l \in DOMAIN old \cap DOMAIN new : old[l] = old[k] /\ new[l] = m[old[k]]
  BY <1>1 DEF ToUnify
<1>3. g[old[k]] = g[m[old[k]]]
  <2>1. <<old[k], m[old[k]]>> \in PairsOf(m)
    BY <1>1 DEF PairsOf
  <2> QED
    BY <2>1
<1>4. g[new[k]] = g[new[l]]
  <2>1. Root(p, new[k]) = Root(p, new[l]) /\ new[k] \in DOMAIN p /\ new[l] \in DOMAIN p
    BY <1>2
  <2> QED
    BY <2>1 DEF Labels
<1> QED
  BY <1>2, <1>3, <1>4

-----------------------------------------------------------------------------
(* One Unify that forgets nothing keeps every labelling's promise.         *)
LEMMA UnifyOneComplete ==
  ASSUME CompleteInv, ForgetsNothing, NEW a \in Ref, NEW b \in Ref, UnifyOne(a, b)
  PROVE  AllSatisfy(parents, partitions, frames, unified, stored)'
<1> DEFINE R == {a, b}
           p == Lookup(parents, R)
           q == LookupInfo(parents, partitions, R)
           ra == Rep(parents, a)
           rb == Rep(parents, b)
           S == Head(frames) \ {<<a, b>>}
           rest == Push(S, Tail(frames))
           lose == Loser(q, ra, rb)
           win == Winner(q, ra, rb)
<1>1. /\ Heap(parents, partitions) /\ IsForest(parents)
      /\ HasFields(parents, partitions, stored)
      /\ frames \in Seq(SUBSET (Ref \X Ref)) /\ frames # <<>>
  BY DEF CompleteInv, FieldInv, IInv, Heap, UnifyOne
<1>2. /\ Heap(p, q) /\ IsForest(p) /\ HasFields(p, q, stored)
      /\ ra \in DOMAIN q /\ rb \in DOMAIN q
  <2>1. Heap(p, q) /\ HasFields(p, q, stored) /\ ra \in DOMAIN q /\ rb \in DOMAIN q
    BY <1>1, LookupKeepsHeap, LookupKeepsFields, RepIsRoot
  <2> HIDE DEF p, q, ra, rb
  <2> QED
    BY <2>1 DEF Heap
<1>3. /\ unified' = unified /\ stored' = stored
      /\ ra = rb => parents' = p /\ partitions' = q /\ frames' = rest
      /\ ra # rb => /\ parents' = Link(p, lose, win)
                   /\ partitions' = Absorb(q, lose, win)
                   /\ \E m \in ToUnify(q[lose].fieldRefs, q[win].fieldRefs) :
                        frames' = Push(PairsOf(m), rest)
  BY DEF UnifyOne, UnifyReps
<1>4. /\ S \in SUBSET (Ref \X Ref)
      /\ Tail(frames) \in Seq(SUBSET (Ref \X Ref))
      /\ \A g : Agrees(g, Tail(frames)) /\ (\A u \in S : g[u[1]] = g[u[2]]) /\ g[a] = g[b]
            => Agrees(g, frames)
  <2> DEFINE E == SUBSET (Ref \X Ref)
  <2>1. frames \in Seq(E) /\ frames # <<>>
    BY <1>1
  <2> HIDE DEF E
  <2>2. /\ Head(frames) \in E
        /\ Tail(frames) \in Seq(E)
        /\ Head(frames) = frames[1]
        /\ \A i \in DOMAIN frames : i # 1 => /\ i - 1 \in DOMAIN Tail(frames)
                                            /\ Tail(frames)[i - 1] = frames[i]
    BY <2>1
  <2>3. ASSUME NEW g, Agrees(g, Tail(frames)), \A u \in S : g[u[1]] = g[u[2]], g[a] = g[b],
               NEW i \in DOMAIN frames, NEW u \in frames[i]
        PROVE  g[u[1]] = g[u[2]]
    <3>1. CASE i = 1
      BY <2>2, <2>3, <3>1
    <3>2. CASE i # 1
      BY <2>2, <2>3, <3>2 DEF Agrees
    <3> QED
      BY <3>1, <3>2
  <2> QED
    BY <2>2, <2>3 DEF Agrees, E
<1>5. rest \in Seq(SUBSET (Ref \X Ref))
  BY <1>4, PushType
<1>6. ASSUME NEW g \in [Ref -> Ref], Labels(g, p), g[ra] = g[rb], Agrees(g, rest)
      PROVE  Satisfies(g, p, q, unified, stored)
  <2>1. Labels(g, parents) /\ g[ra] = g[a] /\ g[rb] = g[b]
    BY <1>1, <1>6, LookupLabelsBack
  <2>2. Agrees(g, frames)
    BY <1>4, <1>6, <2>1, PushAgreesBack
  <2>3. Satisfies(g, parents, partitions, unified, stored)
    BY <2>1, <2>2 DEF CompleteInv, AllSatisfy
  <2> QED
    BY <1>1, <2>3, LookupSatisfies
<1> SUFFICES ASSUME NEW g \in [Ref -> Ref], Labels(g, parents'), Agrees(g, frames')
             PROVE  Satisfies(g, parents', partitions', unified, stored)
  BY <1>3 DEF AllSatisfy
<1>7. CASE ra = rb
  BY <1>3, <1>6, <1>7
<1>8. CASE ra # rb
  <2>1. lose \in DOMAIN q /\ win \in DOMAIN q /\ lose # win
    BY <1>2, <1>8 DEF Loser, Winner
  <2>2. PICK m \in ToUnify(q[lose].fieldRefs, q[win].fieldRefs) :
          frames' = Push(PairsOf(m), rest)
    BY <1>3, <1>8
  <2>3. \A k, l \in DOMAIN q[lose].fieldRefs \cap DOMAIN q[win].fieldRefs :
          q[lose].fieldRefs[k] = q[lose].fieldRefs[l]
            => Root(p, q[win].fieldRefs[k]) = Root(p, q[win].fieldRefs[l])
    BY <1>8 DEF ForgetsNothing
  <2>4. \/ lose = ra /\ win = rb
        \/ lose = rb /\ win = ra
    BY DEF Loser, Winner
  <2>5. parents' = Link(p, lose, win) /\ partitions' = Absorb(q, lose, win)
    BY <1>3, <1>8
  <2> HIDE DEF p, q, ra, rb, rest, lose, win
  <2>6. /\ q[lose].fieldRefs \in FieldMap /\ q[win].fieldRefs \in FieldMap
        /\ \A k \in DOMAIN q[win].fieldRefs : q[win].fieldRefs[k] \in DOMAIN p
        /\ lose \in DOMAIN p /\ p[lose] = lose /\ win \in DOMAIN p /\ p[win] = win
    BY <1>2, <2>1 DEF Heap, PartitionInfo, RootsOf
  <2>7. Labels(g, p) /\ g[lose] = g[win]
    BY <1>2, <2>1, <2>5, <2>6, LinkLabelsBack
  <2>8. Agrees(g, rest) /\ \A u \in PairsOf(m) : g[u[1]] = g[u[2]]
    BY <1>5, <2>2, <2>6, ToUnifyPairs, PushAgreesBack
  <2>9. Satisfies(g, p, q, unified, stored)
    BY <1>6, <2>4, <2>7, <2>8
  <2>10. \A k \in DOMAIN q[lose].fieldRefs \cap DOMAIN q[win].fieldRefs :
           g[q[lose].fieldRefs[k]] = g[q[win].fieldRefs[k]]
    BY <2>3, <2>6, <2>7, <2>8, ClashesCovered
  <2> QED
    BY <1>2, <2>1, <2>5, <2>9, <2>10, UnionSatisfies
<1> QED
  BY <1>7, <1>8

(* unifyField: the value it leaves to unify with the field's, or writes    *)
(* there, makes the new constraint hold for every labelling.               *)
LEMMA CallUnifyFieldComplete ==
  ASSUME CompleteInv, NEW obj \in Ref, NEW fd \in Field, NEW target \in Ref,
         CallUnifyField(obj, fd, target)
  PROVE  AllSatisfy(parents, partitions, frames, unified, stored)'
<1> DEFINE R == {obj, target}
           p == Lookup(parents, R)
           q == LookupInfo(parents, partitions, R)
           objr == Rep(parents, obj)
           tr == Rep(parents, target)
           old == q[objr].fieldRefs
           new == partitions'[objr].fieldRefs
           s0 == <<obj, fd, target>>
<1>1. /\ Heap(parents, partitions) /\ IsForest(parents)
      /\ HasFields(parents, partitions, stored)
  BY DEF CompleteInv, FieldInv, IInv, Heap
<1>2. /\ Heap(p, q) /\ HasFields(p, q, stored) /\ objr \in DOMAIN q
  BY <1>1, LookupKeepsHeap, LookupKeepsFields, RepIsRoot
<1>3. Root(p, obj) = objr
  BY <1>1, LookupKeepsRoots
<1>4. /\ frames = <<>> /\ parents' = p /\ unified' = unified
      /\ stored' = stored \cup {s0}
      /\ fd \in DOMAIN old => partitions' = q /\ frames' = <<{<<old[fd], tr>>}>>
      /\ fd \notin DOMAIN old => partitions' = SetField(q, objr, fd, tr)
  BY DEF CallUnifyField, MayCall, Idle
<1> SUFFICES ASSUME NEW g \in [Ref -> Ref], Labels(g, p), Agrees(g, frames')
             PROVE  Satisfies(g, p, partitions', unified, stored')
  BY <1>4 DEF AllSatisfy
<1>5. Satisfies(g, p, q, unified, stored) /\ g[tr] = g[target]
  <2>1. Labels(g, parents) /\ g[tr] = g[target]
    BY <1>1, LookupLabelsBack
  <2>2. Satisfies(g, parents, partitions, unified, stored)
    BY <1>4, <2>1 DEF CompleteInv, AllSatisfy, Agrees
  <2> QED
    BY <1>1, <2>1, <2>2, LookupSatisfies
<1> HIDE DEF p, q, objr, tr
<1>6. /\ \A x \in DOMAIN q : x # objr => partitions'[x] = q[x]
      /\ \A k \in DOMAIN old : new[k] = old[k]
      /\ g[new[fd]] = g[tr]
  <2>1. CASE fd \in DOMAIN old
    <3>1. partitions' = q /\ frames' = <<{<<old[fd], tr>>}>>
      BY <1>4, <2>1
    <3>2. g[old[fd]] = g[tr]
      BY <3>1, OnePairAgrees
    <3> QED
      BY <3>1, <3>2
  <2>2. CASE fd \notin DOMAIN old
    BY <1>2, <1>4, <2>2, SetFieldIs
  <2> QED
    BY <2>1, <2>2
<1>7. \A x \in DOMAIN p : Root(p, x) \in DOMAIN q
  BY <1>2, RootExists DEF Heap, RootsOf
<1>8. ASSUME NEW s \in stored'
      PROVE  g[partitions'[Root(p, s[1])].fieldRefs[s[2]]] = g[s[3]]
  <2>1. CASE s \in stored
    <3>1. /\ s[1] \in DOMAIN p /\ s[2] \in DOMAIN q[Root(p, s[1])].fieldRefs
          /\ g[q[Root(p, s[1])].fieldRefs[s[2]]] = g[s[3]]
      BY <1>2, <1>5, <2>1 DEF HasFields, Satisfies
    <3>2. CASE Root(p, s[1]) = objr
      <4>1. new[s[2]] = old[s[2]]
        BY <1>6, <3>1, <3>2
      <4> QED
        BY <3>1, <3>2, <4>1
    <3>3. CASE Root(p, s[1]) # objr
      BY <1>6, <1>7, <3>1, <3>3
    <3> QED
      BY <3>2, <3>3
  <2>2. CASE s = s0
    <3>1. s[1] = obj /\ s[2] = fd /\ s[3] = target
      BY <2>2
    <3> HIDE DEF new
    <3> QED
      BY <1>3, <1>5, <1>6, <3>1 DEF new
  <2> QED
    BY <1>4, <2>1, <2>2
<1> QED
  BY <1>5, <1>8 DEF Satisfies

(* A pair that is not pending has been looked up.                          *)
LEMMA NextLookedUp == CompleteInv /\ [Next]_vars => LookedUp(parents, frames, unified)'
<1> SUFFICES ASSUME CompleteInv, [Next]_vars
             PROVE  LookedUp(parents, frames, unified)'
  OBVIOUS
<1>1. LookedUp(parents, frames, unified) /\ IsForest(parents)
  BY DEF CompleteInv, FieldInv, IInv, Heap
<1>2. ASSUME NEW r \in Ref, Insert(r)
      PROVE  LookedUp(parents, frames, unified)'
  BY <1>1, <1>2, LookupKeepsRoots DEF Insert, LookedUp
<1>3. ASSUME NEW a \in Ref, NEW b \in Ref, CallUnify(a, b)
      PROVE  LookedUp(parents, frames, unified)'
  <2>1. /\ frames = <<>> /\ frames' = <<{<<a, b>>}>> /\ parents' = parents
        /\ unified' = unified \cup {<<a, b>>}
    BY <1>3 DEF CallUnify, MayCall, Idle
  <2>2. \A u \in unified : u[1] \in DOMAIN parents /\ u[2] \in DOMAIN parents
    BY <1>1, <2>1 DEF LookedUp
  <2> QED
    BY <2>1, <2>2 DEF LookedUp
<1>4. ASSUME NEW obj \in Ref, NEW target \in Ref, NEW fd \in Field,
             CallUnifyField(obj, fd, target)
      PROVE  LookedUp(parents, frames, unified)'
  <2>1. /\ frames = <<>> /\ unified' = unified
        /\ parents' = Lookup(parents, {obj, target})
    BY <1>4 DEF CallUnifyField, MayCall, Idle
  <2>2. DOMAIN parents' = DOMAIN parents \cup {obj, target}
    BY <1>1, <2>1, LookupKeepsRoots
  <2>3. \A u \in unified : u[1] \in DOMAIN parents /\ u[2] \in DOMAIN parents
    BY <1>1, <2>1 DEF LookedUp
  <2> QED
    BY <2>1, <2>2, <2>3 DEF LookedUp
<1>5. ASSUME NEW a \in Ref, NEW b \in Ref, UnifyOne(a, b)
      PROVE  LookedUp(parents, frames, unified)'
  <2>1. DOMAIN parents' = DOMAIN parents \cup {a, b}
    <3>1. DOMAIN Lookup(parents, {a, b}) = DOMAIN parents \cup {a, b}
      BY <1>1, LookupKeepsRoots
    <3>2. \A p, x, y : DOMAIN Link(p, x, y) = DOMAIN p
      BY DEF Link
    <3> QED
      BY <1>5, <3>1, <3>2 DEF UnifyOne, UnifyReps
  <2>2. <<a, b>> \in Head(frames) /\ unified' = unified
    BY <1>5 DEF UnifyOne
  <2>3. ASSUME NEW u \in unified, frames = <<{u}>>
        PROVE  u[1] = a /\ u[2] = b
    <3>1. Head(frames) = {u}
      BY <2>3
    <3>2. u = <<a, b>>
      BY <2>2, <3>1
    <3> QED
      BY <3>2
  <2> QED
    BY <1>1, <2>1, <2>2, <2>3 DEF LookedUp
<1>6. CASE Freezes
  BY <1>1, <1>6, FreezingReads
<1>7. CASE UNCHANGED vars
  BY <1>1, <1>7 DEF vars
<1> QED
  BY <1>2, <1>3, <1>4, <1>5, <1>6, <1>7 DEF Next, Freezes, StepUnify

(* Every step that forgets nothing keeps every labelling's promise.        *)
LEMMA NextComplete ==
  CompleteInv /\ [Next]_vars /\ [ForgetsNothing]_vars => CompleteInv'
<1> SUFFICES ASSUME CompleteInv, [Next]_vars, [ForgetsNothing]_vars
             PROVE  AllSatisfy(parents, partitions, frames, unified, stored)'
  BY NextFields, NextLookedUp DEF CompleteInv
<1>0. AllSatisfy(parents, partitions, frames, unified, stored)
  BY DEF CompleteInv
<1>1. ASSUME NEW r \in Ref, Insert(r)
      PROVE  AllSatisfy(parents, partitions, frames, unified, stored)'
  <2>1. /\ Heap(parents, partitions) /\ IsForest(parents)
        /\ HasFields(parents, partitions, stored)
    BY DEF CompleteInv, FieldInv, IInv, Heap
  <2>2. /\ parents' = Lookup(parents, {r})
        /\ partitions' = LookupInfo(parents, partitions, {r})
        /\ UNCHANGED <<frames, unified, stored>>
    BY <1>1 DEF Insert
  <2> SUFFICES ASSUME NEW g \in [Ref -> Ref], Labels(g, parents'), Agrees(g, frames)
               PROVE  Satisfies(g, parents', partitions', unified, stored)
    BY <2>2 DEF AllSatisfy
  <2>3. Labels(g, parents)
    BY <2>1, <2>2, LookupLabelsBack
  <2>4. Satisfies(g, parents, partitions, unified, stored)
    BY <1>0, <2>3 DEF AllSatisfy
  <2> QED
    BY <2>1, <2>2, <2>4, LookupSatisfies
<1>2. ASSUME NEW a \in Ref, NEW b \in Ref, CallUnify(a, b)
      PROVE  AllSatisfy(parents, partitions, frames, unified, stored)'
  <2>1. /\ frames = <<>> /\ frames' = <<{<<a, b>>}>>
        /\ unified' = unified \cup {<<a, b>>}
        /\ UNCHANGED <<parents, partitions, stored>>
    BY <1>2 DEF CallUnify, MayCall, Idle
  <2> SUFFICES ASSUME NEW g \in [Ref -> Ref], Labels(g, parents), Agrees(g, frames')
               PROVE  Satisfies(g, parents, partitions, unified', stored)
    BY <2>1 DEF AllSatisfy
  <2>2. Satisfies(g, parents, partitions, unified, stored)
    BY <1>0, <2>1 DEF AllSatisfy, Agrees
  <2>3. g[a] = g[b]
    BY <2>1, OnePairAgrees
  <2>4. \A u \in unified' : g[u[1]] = g[u[2]]
    <3> SUFFICES ASSUME NEW u \in unified'
                 PROVE  g[u[1]] = g[u[2]]
      OBVIOUS
    <3>1. CASE u \in unified
      BY <2>2, <3>1 DEF Satisfies
    <3>2. CASE u = <<a, b>>
      BY <2>3, <3>2
    <3> QED
      BY <2>1, <3>1, <3>2
  <2> QED
    BY <2>2, <2>4 DEF Satisfies
<1>3. ASSUME NEW obj \in Ref, NEW target \in Ref, NEW fd \in Field,
             CallUnifyField(obj, fd, target)
      PROVE  AllSatisfy(parents, partitions, frames, unified, stored)'
  BY <1>3, CallUnifyFieldComplete
<1>4. CASE StepUnify /\ ForgetsNothing
  BY <1>4, UnifyOneComplete DEF StepUnify
<1>5. CASE Freezes
  BY <1>0, <1>5, FreezingReads
<1>6. CASE UNCHANGED vars
  BY <1>0, <1>6 DEF vars
<1> QED
  BY <1>1, <1>2, <1>3, <1>4, <1>5, <1>6 DEF Next, Freezes

(* With nothing left to unify, the representatives label the heap, and so  *)
(* satisfy its constraints.                                                *)
LEMMA CompleteImplies == CompleteInv => ConstraintsHold
<1> SUFFICES ASSUME CompleteInv, frames = <<>>
             PROVE  ConstraintsHold
  BY DEF ConstraintsHold
<1> DEFINE g == [r \in Ref |-> Rep(parents, r)]
<1>1. /\ Heap(parents, partitions) /\ IsForest(parents) /\ DOMAIN parents \subseteq Ref
      /\ HasFields(parents, partitions, stored)
      /\ LookedUp(parents, frames, unified)
      /\ AllSatisfy(parents, partitions, frames, unified, stored)
  BY DEF CompleteInv, FieldInv, IInv, Heap
<1>2. \A r \in DOMAIN parents :
        /\ Root(parents, r) \in DOMAIN parents
        /\ Root(parents, Root(parents, r)) = Root(parents, r)
  BY <1>1, RootExists, RootOfRoot
<1>3. g \in [Ref -> Ref] /\ \A r \in DOMAIN parents : g[r] = Root(parents, r)
  BY <1>1, <1>2 DEF Rep
<1> HIDE DEF g
<1>4. Satisfies(g, parents, partitions, unified, stored)
  BY <1>1, <1>2, <1>3 DEF AllSatisfy, Labels, Agrees
<1>5. ASSUME NEW u \in unified
      PROVE  Root(parents, u[1]) = Root(parents, u[2])
  <2>1. u[1] \in DOMAIN parents /\ u[2] \in DOMAIN parents
    BY <1>1 DEF LookedUp
  <2> QED
    BY <1>3, <1>4, <2>1 DEF Satisfies
<1>6. ASSUME NEW s \in stored
      PROVE  LET rep == Root(parents, s[1])
             IN  /\ s[2] \in DOMAIN partitions[rep].fieldRefs
                 /\ Root(parents, partitions[rep].fieldRefs[s[2]]) = Root(parents, s[3])
  <2> DEFINE rep == Root(parents, s[1])
             v == partitions[rep].fieldRefs[s[2]]
  <2>1. s[1] \in DOMAIN parents /\ s[3] \in DOMAIN parents
        /\ s[2] \in DOMAIN partitions[rep].fieldRefs
    BY <1>1 DEF HasFields
  <2>2. v \in DOMAIN parents
    <3>1. rep \in DOMAIN partitions
      BY <1>1, <2>1, RootExists DEF Heap, RootsOf
    <3> QED
      BY <1>1, <2>1, <3>1 DEF Heap
  <2>3. g[v] = g[s[3]]
    BY <1>4 DEF Satisfies
  <2> HIDE DEF v
  <2>4. Root(parents, v) = Root(parents, s[3])
    BY <1>3, <2>1, <2>2, <2>3
  <2> QED
    BY <2>1, <2>4 DEF v
<1> QED
  BY <1>5, <1>6 DEF ConstraintsHold

(* The invariant holds of the empty heap.                                  *)
LEMMA InitComplete == Init => CompleteInv
BY InitFields DEF Init, CompleteInv, LookedUp, AllSatisfy, Satisfies

(* The heap satisfies every constraint asserted so far, whenever no call   *)
(* is running, unless a merge has met one value under two common fields.   *)
THEOREM Completeness == Spec /\ [][ForgetsNothing]_vars => []ConstraintsHold
BY InitComplete, NextComplete, CompleteImplies, PTL DEF Spec

(* With one field name no merge meets that: a heap of pointers alone is    *)
(* complete without a condition.                                           *)
THEOREM OneFieldComplete ==
  ASSUME \A k, l \in Field : k = l
  PROVE  Spec => []ConstraintsHold
<1>1. FieldInv => ForgetsNothing
  <2> SUFFICES ASSUME FieldInv, NEW a \in Ref, NEW b \in Ref,
                      Rep(parents, a) # Rep(parents, b)
               PROVE  LET p == Lookup(parents, {a, b})
                          q == LookupInfo(parents, partitions, {a, b})
                          old == q[Loser(q, Rep(parents, a), Rep(parents, b))].fieldRefs
                          new == q[Winner(q, Rep(parents, a), Rep(parents, b))].fieldRefs
                      IN  \A k, l \in DOMAIN old \cap DOMAIN new :
                            old[k] = old[l] => Root(p, new[k]) = Root(p, new[l])
    BY DEF ForgetsNothing
  <2> DEFINE q == LookupInfo(parents, partitions, {a, b})
             ra == Rep(parents, a)
             rb == Rep(parents, b)
             old == q[Loser(q, ra, rb)].fieldRefs
  <2>1. /\ Heap(Lookup(parents, {a, b}), q)
        /\ ra \in DOMAIN q /\ rb \in DOMAIN q
    BY LookupKeepsHeap, RepIsRoot DEF FieldInv, IInv
  <2> HIDE DEF q, ra, rb
  <2>2. old \in FieldMap
    BY <2>1 DEF Heap, PartitionInfo, Loser
  <2>3. \A k, l \in DOMAIN old : k = l
    BY <2>2, FieldMapIs
  <2> QED
    BY <2>3 DEF q, ra, rb
<1>2. CompleteInv /\ [Next]_vars => CompleteInv'
  BY <1>1, NextComplete DEF CompleteInv
<1> QED
  BY <1>2, InitComplete, CompleteImplies, PTL DEF Spec

-----------------------------------------------------------------------------
(***************************************************************************)
(* Freezing.  Once ToPartitions has run nothing changes the forest or the  *)
(* table it was made from.  While finalize runs, an entry of a field map   *)
(* still holds what it held or is overwritten already; while               *)
(* constructFieldParentMap runs, the lists account for the entries it has  *)
(* come to and for no other.                                               *)
(***************************************************************************)
Normal(rep, fd) == OptParents(parents)[partitions[rep].fieldRefs[fd]]

Overwriting ==
  /\ DOMAIN heap = {"parents", "members", "fieldRefs", "revFields"}
  /\ heap.parents = OptParents(parents)
  /\ DOMAIN heap.fieldRefs = DOMAIN partitions
  /\ \A rep \in DOMAIN partitions :
       /\ DOMAIN heap.fieldRefs[rep] = DOMAIN partitions[rep].fieldRefs
       /\ \A fd \in DOMAIN partitions[rep].fieldRefs :
            heap.fieldRefs[rep][fd] = IF <<rep, fd>> \in toNormalize
                                      THEN partitions[rep].fieldRefs[fd]
                                      ELSE Normal(rep, fd)

(* The fields of rep that hold r and are in the lists of the reverse map   *)
(* already, and the places of r's list that name rep.                      *)
Reversed(rep, r) ==
  {fd \in DOMAIN heap.fieldRefs[rep] :
     <<rep, fd>> \notin toReverse /\ heap.fieldRefs[rep][fd] = r}
Listed(rep, r) == {n \in DOMAIN FieldParents(r) : FieldParents(r)[n] = rep}

Accounted(rep, r) ==
  /\ FieldParents(r) \in Seq(Ref)
  /\ IsFiniteSet(Reversed(rep, r)) /\ IsFiniteSet(Listed(rep, r))
  /\ Cardinality(Reversed(rep, r)) = Cardinality(Listed(rep, r))

(* Nothing is listed before every entry has been overwritten.              *)
Reversing ==
  /\ toNormalize # {} =>
       \A rep \in DOMAIN heap.fieldRefs : \A fd \in DOMAIN heap.fieldRefs[rep] :
         <<rep, fd>> \in toReverse
  /\ \A rep \in DOMAIN heap.fieldRefs : \A r : Accounted(rep, r)
  /\ \A entry \in toReverse :
       entry[1] \in DOMAIN heap.fieldRefs /\ entry[2] \in DOMAIN heap.fieldRefs[entry[1]]

FrozenInv ==
  /\ IInv
  /\ heap = NotFinal => toNormalize = {} /\ toReverse = {}
  /\ heap # NotFinal => frames = <<>> /\ Overwriting /\ Reversing

(* Every representative is a key of members, so that                       *)
(* constructFieldParentMap comes to the fields of every partition.         *)
LEMMA ToPartitionsFreezes ==
  ASSUME IInv, ToPartitions
  PROVE  heap' # NotFinal /\ Overwriting' /\ Reversing'
<1> DEFINE opt == OptParents(parents)
           members == MembersOf(opt)
           fields == [rep \in DOMAIN partitions |-> partitions[rep].fieldRefs]
<1>1. /\ IsForest(parents) /\ Heap(parents, partitions)
      /\ UNCHANGED <<parents, partitions>>
      /\ heap' = [parents |-> opt, members |-> members, fieldRefs |-> fields,
                  revFields |-> <<>>]
      /\ toNormalize' = Entries(fields)
      /\ toReverse' = {entry \in Entries(fields) : entry[1] \in DOMAIN members}
  BY DEF IInv, Heap, ToPartitions
<1>2. DOMAIN fields \subseteq DOMAIN members
  <2> SUFFICES ASSUME NEW rep \in DOMAIN fields
               PROVE  rep \in DOMAIN members
    OBVIOUS
  <2>1. rep \in DOMAIN parents /\ parents[rep] = rep
    BY <1>1 DEF Heap, RootsOf
  <2>2. rep \in DOMAIN opt /\ opt[rep] = rep
    BY <2>1 DEF OptParents
  <2> QED
    BY <2>2 DEF MembersOf
<1>3. DOMAIN heap' = {"parents", "members", "fieldRefs", "revFields"}
      /\ heap'.parents = opt /\ heap'.fieldRefs = fields /\ heap'.revFields = <<>>
  BY <1>1
<1> HIDE DEF opt, members
<1>4. heap' # NotFinal
  BY <1>3 DEF NotFinal
<1>5. \A rep, fd : <<rep, fd>> \in Entries(fields)
                     <=> rep \in DOMAIN fields /\ fd \in DOMAIN fields[rep]
  BY DEF Entries
<1>6. Overwriting'
  BY <1>1, <1>3, <1>5 DEF Overwriting, opt
<1>7. \A rep \in DOMAIN fields : \A fd \in DOMAIN fields[rep] : <<rep, fd>> \in toReverse'
  <2> SUFFICES ASSUME NEW rep \in DOMAIN fields, NEW fd \in DOMAIN fields[rep]
               PROVE  <<rep, fd>> \in toReverse'
    OBVIOUS
  <2>1. <<rep, fd>> \in Entries(fields) /\ <<rep, fd>>[1] = rep
    BY <1>5
  <2> QED
    BY <1>1, <1>2, <2>1
<1>8. \A entry \in toReverse' :
        entry[1] \in DOMAIN fields /\ entry[2] \in DOMAIN fields[entry[1]]
  BY <1>1 DEF Entries
<1> HIDE DEF fields
<1>9. ASSUME NEW rep \in DOMAIN fields, NEW r
      PROVE  Accounted(rep, r)'
  <2>1. Reversed(rep, r)' = {}
    BY <1>3, <1>7 DEF Reversed
  <2>2. FieldParents(r)' = <<>>
    BY <1>3 DEF FieldParents
  <2>3. Listed(rep, r)' = {}
    BY <2>2 DEF Listed
  <2> QED
    BY <2>1, <2>2, <2>3, FS_EmptySet DEF Accounted
<1>10. Reversing'
  BY <1>3, <1>7, <1>8, <1>9 DEF Reversing
<1> QED
  BY <1>4, <1>6, <1>10

(* While entries are overwritten nothing is listed, so none is listed      *)
(* under what it held before.                                              *)
LEMMA NormalizeFreezes ==
  ASSUME Overwriting, Reversing, NEW rep, NEW fd, Normalize(rep, fd)
  PROVE  Overwriting' /\ Reversing'
<1> DEFINE v == heap.parents[heap.fieldRefs[rep][fd]]
           fields == Overwritten(heap.fieldRefs, rep, fd, v)
<1>1. /\ <<rep, fd>> \in toNormalize
      /\ toNormalize' = toNormalize \ {<<rep, fd>>}
      /\ UNCHANGED <<parents, partitions, toReverse>>
      /\ heap' = [heap EXCEPT !.fieldRefs = fields]
  BY DEF Normalize
<1> HIDE DEF fields, v
<1>2. /\ DOMAIN heap' = DOMAIN heap
      /\ heap'.parents = heap.parents /\ heap'.revFields = heap.revFields
      /\ heap'.fieldRefs = fields
  BY <1>1 DEF Overwriting
<1>3. /\ DOMAIN fields = DOMAIN heap.fieldRefs
      /\ \A x \in DOMAIN heap.fieldRefs :
           /\ DOMAIN fields[x] = DOMAIN heap.fieldRefs[x]
           /\ \A k \in DOMAIN heap.fieldRefs[x] :
                fields[x][k] = IF x = rep /\ k = fd THEN v ELSE heap.fieldRefs[x][k]
  BY DEF fields, Overwritten
<1>4. ASSUME NEW x \in DOMAIN partitions, NEW k \in DOMAIN partitions[x].fieldRefs
      PROVE  fields[x][k] = IF <<x, k>> \in toNormalize'
                            THEN partitions[x].fieldRefs[k] ELSE Normal(x, k)
  <2>1. /\ heap.fieldRefs[x][k] = IF <<x, k>> \in toNormalize
                                  THEN partitions[x].fieldRefs[k] ELSE Normal(x, k)
        /\ fields[x][k] = IF x = rep /\ k = fd THEN v ELSE heap.fieldRefs[x][k]
    BY <1>3 DEF Overwriting
  <2>2. CASE x = rep /\ k = fd
    <3>1. v = Normal(x, k)
      BY <1>1, <2>1, <2>2 DEF v, Normal, Overwriting
    <3> QED
      BY <1>1, <2>1, <2>2, <3>1
  <2>3. CASE ~(x = rep /\ k = fd)
    <3>1. <<x, k>> \in toNormalize' <=> <<x, k>> \in toNormalize
      BY <1>1, <2>3
    <3> QED
      BY <2>1, <2>3, <3>1
  <2> QED
    BY <2>2, <2>3
<1>5. Overwriting'
  <2>1. \A x, k : Normal(x, k)' = Normal(x, k)
    BY <1>1 DEF Normal
  <2> QED
    BY <1>1, <1>2, <1>3, <1>4, <2>1 DEF Overwriting
<1>6. \A x \in DOMAIN heap.fieldRefs : \A k \in DOMAIN heap.fieldRefs[x] :
        <<x, k>> \in toReverse
  BY <1>1 DEF Reversing
<1>7. ASSUME NEW x \in DOMAIN heap.fieldRefs, NEW r
      PROVE  Accounted(x, r)'
  <2>1. Reversed(x, r) = {} /\ Reversed(x, r)' = {}
    BY <1>1, <1>2, <1>3, <1>6 DEF Reversed
  <2>2. FieldParents(r)' = FieldParents(r)
    BY <1>2 DEF FieldParents
  <2>3. Accounted(x, r)
    BY DEF Reversing
  <2> QED
    BY <2>1, <2>2, <2>3 DEF Accounted, Listed
<1>8. Reversing'
  BY <1>1, <1>2, <1>3, <1>6, <1>7 DEF Reversing
<1> QED
  BY <1>5, <1>8

(* The places of a value in a sequence that grows by one.                  *)
LEMMA PlacesOfAppend ==
  ASSUME NEW S, NEW s \in Seq(S), NEW v \in S, NEW x
  PROVE  LET t == Append(s, v)
             places == {n \in DOMAIN s : s[n] = x}
         IN  /\ {n \in DOMAIN t : t[n] = x}
                  = IF x = v THEN places \cup {Len(s) + 1} ELSE places
             /\ Len(s) + 1 \notin places
<1>1. /\ DOMAIN s = 1..Len(s) /\ Len(s) \in Nat
      /\ DOMAIN Append(s, v) = 1..(Len(s) + 1)
      /\ \A n \in 1..Len(s) : Append(s, v)[n] = s[n]
      /\ Append(s, v)[Len(s) + 1] = v
  OBVIOUS
<1>2. 1..(Len(s) + 1) = 1..Len(s) \cup {Len(s) + 1} /\ Len(s) + 1 \notin 1..Len(s)
  BY <1>1
<1> QED
  BY <1>1, <1>2

(* An entry that is come to is counted among the fields and in the list    *)
(* of what it holds, and nowhere else.                                     *)
LEMMA ReverseFreezes ==
  ASSUME IInv, Overwriting, Reversing, NEW rep, NEW fd, Reverse(rep, fd),
         rep \in DOMAIN heap.fieldRefs, fd \in DOMAIN heap.fieldRefs[rep]
  PROVE  Overwriting' /\ Reversing'
<1> DEFINE f == heap.fieldRefs[rep][fd]
<1>1. /\ <<rep, fd>> \in toReverse /\ toNormalize = {}
      /\ toReverse' = toReverse \ {<<rep, fd>>}
      /\ UNCHANGED <<parents, partitions, toNormalize>>
      /\ heap' = [heap EXCEPT !.revFields = WithParent(heap.revFields, f, rep)]
  BY DEF Reverse
<1>2. /\ DOMAIN heap' = DOMAIN heap
      /\ heap'.parents = heap.parents /\ heap'.fieldRefs = heap.fieldRefs
      /\ heap'.revFields = WithParent(heap.revFields, f, rep)
  BY <1>1 DEF Overwriting
<1> HIDE DEF f
<1>3. Overwriting'
  <2>1. \A x, k : Normal(x, k)' = Normal(x, k)
    BY <1>1 DEF Normal
  <2> QED
    BY <1>1, <1>2, <2>1 DEF Overwriting
<1>4. rep \in Ref
  BY DEF Overwriting, IInv, Heap, RootsOf
<1>5. ASSUME NEW x \in DOMAIN heap.fieldRefs, NEW r
      PROVE  Accounted(x, r)'
  <2>1. /\ FieldParents(r) \in Seq(Ref)
        /\ IsFiniteSet(Reversed(x, r)) /\ IsFiniteSet(Listed(x, r))
        /\ Cardinality(Reversed(x, r)) = Cardinality(Listed(x, r))
    BY DEF Reversing, Accounted
  <2>2. CASE r # f
    <3>1. FieldParents(r)' = FieldParents(r)
      BY <1>2, <2>2 DEF FieldParents, WithParent
    <3>2. Reversed(x, r)' = Reversed(x, r)
      BY <1>1, <1>2, <2>2 DEF Reversed, f
    <3> QED
      BY <2>1, <3>1, <3>2 DEF Accounted, Listed
  <2>3. CASE r = f
    <3>1. FieldParents(r)' = Append(FieldParents(r), rep)
      <4>1. <<rep>> = Append(<<>>, rep)
        OBVIOUS
      <4> QED
        BY <1>2, <2>3, <4>1 DEF FieldParents, WithParent
    <3>2. FieldParents(r)' \in Seq(Ref)
      BY <1>4, <2>1, <3>1
    <3>3. /\ Listed(x, r)' = IF x = rep THEN Listed(x, r) \cup {Len(FieldParents(r)) + 1}
                                        ELSE Listed(x, r)
          /\ Len(FieldParents(r)) + 1 \notin Listed(x, r)
      BY <1>4, <2>1, <3>1, PlacesOfAppend DEF Listed
    <3>4. /\ Reversed(x, r)' = IF x = rep THEN Reversed(x, r) \cup {fd} ELSE Reversed(x, r)
          /\ x = rep => fd \notin Reversed(x, r)
      BY <1>1, <1>2, <2>3 DEF Reversed, f
    <3>5. CASE x # rep
      BY <2>1, <3>2, <3>3, <3>4, <3>5 DEF Accounted
    <3>6. CASE x = rep
      <4>1. /\ IsFiniteSet(Listed(x, r)')
            /\ Cardinality(Listed(x, r)') = Cardinality(Listed(x, r)) + 1
        BY <2>1, <3>3, <3>6, FS_AddElement
      <4>2. /\ IsFiniteSet(Reversed(x, r)')
            /\ Cardinality(Reversed(x, r)') = Cardinality(Reversed(x, r)) + 1
        BY <2>1, <3>4, <3>6, FS_AddElement
      <4> QED
        BY <2>1, <3>2, <4>1, <4>2 DEF Accounted
    <3> QED
      BY <3>5, <3>6
  <2> QED
    BY <2>2, <2>3
<1>6. Reversing'
  BY <1>1, <1>2, <1>5 DEF Reversing
<1> QED
  BY <1>3, <1>6

(* Every operation that changes the forest or the table wants a heap that  *)
(* is not frozen, or a call that is running.                               *)
LEMMA NextFrozen == FrozenInv /\ [Next]_vars => FrozenInv'
<1> SUFFICES ASSUME FrozenInv, [Next]_vars
             PROVE  /\ heap' = NotFinal => toNormalize' = {} /\ toReverse' = {}
                    /\ heap' # NotFinal => frames' = <<>> /\ Overwriting' /\ Reversing'
  BY NextIInv DEF FrozenInv
<1>0. Overwriting' => heap' # NotFinal
  BY DEF Overwriting, NotFinal
<1>1. ASSUME NEW r \in Ref, Insert(r)
      PROVE  heap' = NotFinal /\ toNormalize' = {} /\ toReverse' = {}
  BY <1>1 DEF Insert, Idle, FrozenInv, freezing
<1>2. ASSUME NEW a \in Ref, NEW b \in Ref, CallUnify(a, b)
      PROVE  heap' = NotFinal /\ toNormalize' = {} /\ toReverse' = {}
  BY <1>2 DEF CallUnify, MayCall, Idle, FrozenInv, freezing
<1>3. ASSUME NEW obj \in Ref, NEW target \in Ref, NEW fd \in Field,
             CallUnifyField(obj, fd, target)
      PROVE  heap' = NotFinal /\ toNormalize' = {} /\ toReverse' = {}
  BY <1>3 DEF CallUnifyField, MayCall, Idle, FrozenInv, freezing
<1>4. CASE StepUnify
  BY <1>4 DEF StepUnify, UnifyOne, FrozenInv, freezing
<1>5. CASE ToPartitions
  BY <1>5, ToPartitionsFreezes DEF ToPartitions, Idle, FrozenInv
<1>6. ASSUME NEW entry \in toNormalize, Normalize(entry[1], entry[2])
      PROVE  frames' = <<>> /\ Overwriting' /\ Reversing'
  BY <1>6, NormalizeFreezes, FreezingReads DEF FrozenInv, Freezes
<1>7. ASSUME NEW entry \in toReverse, Reverse(entry[1], entry[2])
      PROVE  frames' = <<>> /\ Overwriting' /\ Reversing'
  <2>1. frames = <<>> /\ IInv /\ Overwriting /\ Reversing
    BY DEF FrozenInv
  <2>2. entry[1] \in DOMAIN heap.fieldRefs /\ entry[2] \in DOMAIN heap.fieldRefs[entry[1]]
    BY <2>1 DEF Reversing
  <2> QED
    BY <1>7, <2>1, <2>2, ReverseFreezes, FreezingReads DEF Freezes
<1>8. CASE UNCHANGED vars
  <2>1. UNCHANGED <<parents, partitions, frames, heap, toNormalize, toReverse>>
    BY <1>8 DEF vars, freezing
  <2>2. (Overwriting' <=> Overwriting) /\ (Reversing' <=> Reversing)
    BY <2>1 DEF Overwriting, Normal, Reversing, Accounted, Reversed, Listed, FieldParents
  <2> QED
    BY <2>1, <2>2 DEF FrozenInv
<1> QED
  BY <1>0, <1>1, <1>2, <1>3, <1>4, <1>5, <1>6, <1>7, <1>8 DEF Next

LEMMA InitFrozen == Init => FrozenInv
BY InitIInv DEF Init, FrozenInv

(* The frozen parent of a reference is its grandparent, which is in the    *)
(* same partition.                                                         *)
LEMMA GrandparentKeepsRoot ==
  ASSUME NEW p, IsForest(p), NEW r \in DOMAIN p
  PROVE  /\ DOMAIN OptParents(p) = DOMAIN p
         /\ OptParents(p)[r] = p[p[r]]
         /\ OptParents(p)[r] \in DOMAIN p
         /\ Root(p, OptParents(p)[r]) = Root(p, r)
<1>1. p[r] \in DOMAIN p /\ Root(p, p[r]) = Root(p, r)
  BY RootOfParent
<1>2. p[p[r]] \in DOMAIN p /\ Root(p, p[p[r]]) = Root(p, p[r])
  BY <1>1, RootOfParent
<1> QED
  BY <1>1, <1>2 DEF OptParents

(* Freezing puts no reference and no field value in another partition.     *)
THEOREM FreezingKeepsPartitions == Spec => []FreezeKeepsPartitions
<1>1. FrozenInv => FreezeKeepsPartitions
  <2> SUFFICES ASSUME FrozenInv, Final
               PROVE  FreezeKeepsPartitions
    BY DEF FreezeKeepsPartitions
  <2>1. /\ IsForest(parents) /\ Heap(parents, partitions)
        /\ heap.parents = OptParents(parents) /\ Overwriting /\ toNormalize = {}
    BY DEF FrozenInv, IInv, Heap, Final, Overwriting
  <2>2. \A r \in DOMAIN parents : Root(parents, heap.parents[r]) = Root(parents, r)
    BY <2>1, GrandparentKeepsRoot
  <2>3. ASSUME NEW rep \in DOMAIN partitions, NEW fd \in DOMAIN partitions[rep].fieldRefs
        PROVE  Root(parents, heap.fieldRefs[rep][fd])
                 = Root(parents, partitions[rep].fieldRefs[fd])
    <3>1. partitions[rep].fieldRefs[fd] \in DOMAIN parents
      BY <2>1 DEF Heap
    <3>2. heap.fieldRefs[rep][fd] = OptParents(parents)[partitions[rep].fieldRefs[fd]]
      BY <2>1 DEF Overwriting, Normal
    <3> QED
      BY <2>1, <3>1, <3>2, GrandparentKeepsRoot
  <2> QED
    BY <2>2, <2>3 DEF FreezeKeepsPartitions
<1> QED
  BY <1>1, InitFrozen, NextFrozen, PTL DEF Spec

(* When the loops have ended, in whatever order they ranged over the maps, *)
(* an object is listed among the parents of a reference once for each of   *)
(* its fields that holds it: no entry was overwritten after it was listed, *)
(* no parent lost and no object with fields left out of members.           *)
THEOREM FieldParentsInvert == Spec => []RevFieldsInverse
<1>1. FrozenInv => RevFieldsInverse
  <2> SUFFICES ASSUME FrozenInv, Final, NEW rep \in DOMAIN heap.fieldRefs, NEW r
               PROVE  Cardinality({fd \in DOMAIN heap.fieldRefs[rep] :
                                     heap.fieldRefs[rep][fd] = r})
                        = Cardinality(Listed(rep, r))
    BY DEF RevFieldsInverse, Listed
  <2>1. Accounted(rep, r) /\ toReverse = {}
    BY DEF FrozenInv, Final, Reversing
  <2>2. Reversed(rep, r) = {fd \in DOMAIN heap.fieldRefs[rep] : heap.fieldRefs[rep][fd] = r}
    BY <2>1 DEF Reversed
  <2> QED
    BY <2>1, <2>2 DEF Accounted
<1> QED
  BY <1>1, InitFrozen, NextFrozen, PTL DEF Spec
=============================================================================
