------------------------- MODULE EARMeaning_proofs -------------------------
(***************************************************************************)
(* Proofs about the EAR analysis and its taint search, of every program    *)
(* (ProgramsAssumption), in whatever order it is visited.                  *)
(*                                                                         *)
(* The heap: every climb ends at a representative, the table has an entry  *)
(* for each and for nothing else, and only Unify, of a pending pair, joins *)
(* partitions.  The invariant (Sound) adds that the forest has no cycle    *)
(* but at representatives (Grounded).  Each operation of a visit is shown  *)
(* to enlarge a sound heap (Enlarges): it moves no reference to another    *)
(* partition and drops no field.                                           *)
(*                                                                         *)
(* The search: traces keep to the call span. The invariant (SearchInv)     *)
(* says how near the functions are that each activation of the span's      *)
(* search has still to follow, as CallSpan_proofs does of CallSpan alone.  *)
(*                                                                         *)
(* Precision: what is in one partition the equations make equal, of the    *)
(* programs that are plain. The visits assert only what the equations      *)
(* justify (Owed), whatever the order. So the heap has every labelling     *)
(* that satisfies the equations (PrecisionInv), and the classes of the     *)
(* solution are one: that the recursion CongruenceOf ends in a closed      *)
(* partition is by iteration, as each merge leaves fewer classes.          *)
(***************************************************************************)
EXTENDS EARMeaning, ClosureTheorems

-----------------------------------------------------------------------------
(* Finite images, unions and sequences.                                    *)
LEMMA FiniteImage ==
  ASSUME NEW h, IsFiniteSet(DOMAIN h)
  PROVE  IsFiniteSet({h[x] : x \in DOMAIN h})
<1> DEFINE T == {h[x] : x \in DOMAIN h}
           g == [x \in DOMAIN h |-> h[x]]
<1>1. g \in Surjection(DOMAIN h, T)
  BY DEF Surjection
<1> HIDE DEF T, g
<1>2. IsFiniteSet(T)
  BY <1>1, FS_Surjection
<1> QED BY <1>2 DEF T

(* A finite union of finite sets.                                          *)
LEMMA FiniteUnion ==
  ASSUME NEW h, IsFiniteSet(DOMAIN h), \A x \in DOMAIN h : IsFiniteSet(h[x])
  PROVE  IsFiniteSet(UNION {h[x] : x \in DOMAIN h})
<1>1. IsFiniteSet({h[x] : x \in DOMAIN h})
  BY FiniteImage
<1>2. \A S \in {h[x] : x \in DOMAIN h} : IsFiniteSet(S)
  OBVIOUS
<1> QED BY <1>1, <1>2, FS_UNION

(* The members of a sequence.                                              *)
LEMMA FiniteSeq ==
  ASSUME NEW S, NEW s \in Seq(S)
  PROVE  IsFiniteSet(ToSet(s))
<1>1. Len(s) \in Nat /\ DOMAIN s = 1..Len(s)
  OBVIOUS
<1>2. IsFiniteSet(DOMAIN s)
  BY <1>1, FS_Interval
<1> QED BY <1>2, FiniteImage DEF ToSet


-----------------------------------------------------------------------------
(* A forest as state.go keeps it: parents stay in the map, and a set that  *)
(* no parent link leaves holds a representative.                           *)
Grounded(p) ==
  /\ IsFiniteSet(DOMAIN p)
  /\ p \in [DOMAIN p -> DOMAIN p]
  /\ Settles(DOMAIN p, p)

(* The climb of lookupPartitionRep is iteration of the parent map.         *)
LEMMA ClimbIs ==
  ASSUME NEW p, IsFiniteSet(DOMAIN p), p \in [DOMAIN p -> DOMAIN p], NEW r \in DOMAIN p
  PROVE  /\ Cardinality(DOMAIN p) \in Nat
         /\ \A n \in 0..Cardinality(DOMAIN p) :
              Climb(p, r)[n] = Iterate(DOMAIN p, p, r)[n]
         /\ Root(p, r) = Iterate(DOMAIN p, p, r)[Cardinality(DOMAIN p)]
<1> DEFINE N == Cardinality(DOMAIN p)
<1>1. N \in Nat
  BY FS_CardinalityType
<1>2. Climb(p, r) = CHOOSE g : Cut(p, r, N, g)
  BY DEF Climb, Cut
<1>3. \A n \in 0..N : Climb(p, r)[n] = Iterate(DOMAIN p, p, r)[n]
  <2> HIDE DEF N
  <2> QED BY <1>1, <1>2, IterateChosen
<1>4. N \in 0..N
  BY <1>1
<1> QED BY <1>1, <1>3, <1>4 DEF Root

(* A climb does not leave the forest.                                      *)
LEMMA IterateIn ==
  ASSUME NEW p, p \in [DOMAIN p -> DOMAIN p], NEW r \in DOMAIN p, NEW n \in Nat
  PROVE  Iterate(DOMAIN p, p, r)[n] \in DOMAIN p
BY IterateIs

(* Every climb ends at a representative: lookupPartitionRep returns.       *)
LEMMA RootExists ==
  ASSUME NEW p, Grounded(p), NEW r \in DOMAIN p
  PROVE  Root(p, r) \in DOMAIN p /\ p[Root(p, r)] = Root(p, r)
BY ClimbIs, IterateSettles DEF Grounded

(* One link up does not change the representative.                         *)
LEMMA RootOfParent ==
  ASSUME NEW p, Grounded(p), NEW r \in DOMAIN p
  PROVE  p[r] \in DOMAIN p /\ Root(p, p[r]) = Root(p, r)
<1> DEFINE D == DOMAIN p
           N == Cardinality(D)
<1>1. IsFiniteSet(D) /\ p \in [D -> D] /\ N \in Nat /\ p[r] \in D
  BY FS_CardinalityType DEF Grounded
<1>2. Root(p, p[r]) = Iterate(D, p, r)[N + 1]
  BY <1>1, ClimbIs, IterateShift
<1>3. Iterate(D, p, r)[N + 1] = p[Iterate(D, p, r)[N]]
  BY <1>1, IterateIs DEF Iterates
<1> QED BY <1>1, <1>2, <1>3, ClimbIs, RootExists

(* A labelling that agrees along every link agrees with representatives.   *)
LEMMA LabelOfRoot ==
  ASSUME NEW p, IsFiniteSet(DOMAIN p), p \in [DOMAIN p -> DOMAIN p],
         NEW f, \A x \in DOMAIN p : f[p[x]] = f[x], NEW r \in DOMAIN p
  PROVE  f[Root(p, r)] = f[r]
BY ClimbIs, IterateKeeps

(* A representative represents itself.                                     *)
LEMMA RootOfRoot ==
  ASSUME NEW p, Grounded(p), NEW r \in DOMAIN p, p[r] = r
  PROVE  Root(p, r) = r
<1> DEFINE N == Cardinality(DOMAIN p)
<1>1. p \in [DOMAIN p -> DOMAIN p] /\ N \in Nat /\ 0 \in Nat /\ N >= 0
  BY FS_CardinalityType DEF Grounded
<1>2. Iterate(DOMAIN p, p, r)[0] = r
  BY <1>1, IterateIs DEF Iterates
<1>3. Iterate(DOMAIN p, p, r)[N] = r
  <2> HIDE DEF N
  <2> QED BY <1>1, <1>2, IterateRests
<1> QED BY <1>3, ClimbIs DEF Grounded

(* And a labelling that also fixes representatives is the map to them.     *)
LEMMA RootIs ==
  ASSUME NEW p, Grounded(p), NEW f, \A x \in DOMAIN p : f[p[x]] = f[x],
         \A x \in DOMAIN p : p[x] = x => f[x] = x, NEW r \in DOMAIN p
  PROVE  Root(p, r) = f[r]
<1>1. f[Root(p, r)] = f[r]
  BY LabelOfRoot DEF Grounded
<1> QED BY <1>1, RootExists

(* All references met on a climb are in one partition.                     *)
LEMMA ClimbedIs ==
  ASSUME NEW p, IsFiniteSet(DOMAIN p), p \in [DOMAIN p -> DOMAIN p], NEW R
  PROVE  Climbed(p, R) \subseteq DOMAIN p
<1> SUFFICES ASSUME NEW r \in R \cap DOMAIN p, NEW n \in 0..Cardinality(DOMAIN p)
             PROVE  Climb(p, r)[n] \in DOMAIN p
  BY DEF Climbed
<1>1. n \in Nat
  BY ClimbIs
<1> QED BY <1>1, ClimbIs, IterateIn

(* Lookup, without the community module's operators.                       *)
LEMMA LookupIs ==
  ASSUME NEW p, IsFiniteSet(DOMAIN p), p \in [DOMAIN p -> DOMAIN p], NEW R
  PROVE  Lookup(p, R) =
           [x \in DOMAIN p \cup R |->
              IF x \in Climbed(p, R) THEN Root(p, x) ELSE IF x \in DOMAIN p THEN p[x] ELSE x]
<1>1. Climbed(p, R) \subseteq DOMAIN p
  BY ClimbedIs
<1> QED BY <1>1 DEF Lookup

(* Insert and representative leave a forest over the old references and    *)
(* those looked up, in which old references keep their representatives and *)
(* new ones represent themselves.                                          *)
LEMMA LookupKeepsRoots ==
  ASSUME NEW p, Grounded(p), NEW R, IsFiniteSet(R)
  PROVE  /\ DOMAIN Lookup(p, R) = DOMAIN p \cup R
         /\ Grounded(Lookup(p, R))
         /\ \A x \in DOMAIN p \cup R : Root(Lookup(p, R), x) = Rep(p, x)
<1> DEFINE climbed == Climbed(p, R)
           D == DOMAIN p \cup R
           q == [x \in D |-> IF x \in climbed THEN Root(p, x)
                             ELSE IF x \in DOMAIN p THEN p[x] ELSE x]
           f == [x \in D |-> Rep(p, x)]
<1>1. Lookup(p, R) = q
  BY LookupIs DEF Grounded
<1>2. climbed \subseteq DOMAIN p
  BY ClimbedIs DEF Grounded
<1>3. p \in [DOMAIN p -> DOMAIN p] /\ Settles(DOMAIN p, p)
  BY DEF Grounded
<1>4. \A x \in DOMAIN p : /\ Root(p, x) \in DOMAIN p
                          /\ p[Root(p, x)] = Root(p, x)
                          /\ Root(p, Root(p, x)) = Root(p, x)
                          /\ p[x] \in DOMAIN p
                          /\ Root(p, p[x]) = Root(p, x)
  BY RootExists, RootOfRoot, RootOfParent
<1>5. q \in [D -> D] /\ DOMAIN q = D
  BY <1>2, <1>4
<1>6. ASSUME NEW S \in SUBSET D, S # {}, \A x \in S : q[x] \in S
      PROVE  \E x \in S : q[x] = x
  <2>1. CASE \E x \in S : x \in climbed
    <3>1. PICK x \in S : x \in climbed
      BY <2>1
    <3>2. x \in DOMAIN p /\ Root(p, x) \in S /\ Root(p, x) \in DOMAIN p
      BY <3>1, <1>2, <1>4, <1>6
    <3>3. q[Root(p, x)] = Root(p, x)
      BY <3>2, <1>4
    <3> QED
      BY <3>2, <3>3
  <2>2. CASE \E x \in S : x \notin DOMAIN p
    BY <2>2, <1>2
  <2>3. CASE \A x \in S : x \in DOMAIN p /\ x \notin climbed
    <3>1. S \in SUBSET DOMAIN p /\ \A x \in S : p[x] \in S
      BY <2>3, <1>6
    <3>2. PICK x \in S : p[x] = x
      BY <3>1, <1>3, <1>6 DEF Settles
    <3> QED
      BY <3>2, <2>3
  <2> QED
    BY <2>1, <2>2, <2>3
<1>7. Grounded(q)
  <2>1. IsFiniteSet(D)
    BY FS_Union DEF Grounded
  <2> HIDE DEF D, q
  <2> QED BY <1>5, <1>6, <2>1 DEF Grounded, Settles
<1>8. \A x \in DOMAIN q : f[q[x]] = f[x]
  BY <1>2, <1>4 DEF Rep
<1>9. \A x \in DOMAIN q : q[x] = x => f[x] = x
  <2> SUFFICES ASSUME NEW x \in D, q[x] = x
               PROVE  f[x] = x
    OBVIOUS
  <2> QED
    BY <1>2, RootOfRoot DEF Rep
<1>10. \A x \in D : Root(q, x) = f[x]
  <2> HIDE DEF q, f
  <2> QED
    BY <1>5, <1>7, <1>8, <1>9, RootIs
<1> QED
  BY <1>1, <1>5, <1>7, <1>10

(* A union of two representatives.                                         *)
LEMMA LinkJoins ==
  ASSUME NEW p, Grounded(p),
         NEW a \in DOMAIN p, p[a] = a, NEW b \in DOMAIN p, p[b] = b, a # b
  PROVE  /\ DOMAIN Heap!Link(p, a, b) = DOMAIN p
         /\ Grounded(Heap!Link(p, a, b))
         /\ \A x \in DOMAIN p :
              Root(Heap!Link(p, a, b), x) = IF Root(p, x) = a THEN b ELSE Root(p, x)
<1> DEFINE q == Heap!Link(p, a, b)
           f == [x \in DOMAIN p |-> IF Root(p, x) = a THEN b ELSE Root(p, x)]
<1>1. /\ q = [x \in DOMAIN p |-> IF x = a THEN b ELSE p[x]]
      /\ p \in [DOMAIN p -> DOMAIN p]
  BY DEF Heap!Link, Grounded
<1>2. q \in [DOMAIN p -> DOMAIN p] /\ DOMAIN q = DOMAIN p
  BY <1>1
<1>3. ASSUME NEW S \in SUBSET DOMAIN p, S # {}, \A x \in S : q[x] \in S
      PROVE  \E x \in S : q[x] = x
  <2>1. CASE a \in S
    BY <2>1, <1>1, <1>3
  <2>2. CASE a \notin S
    <3>1. \A x \in S : p[x] \in S
      BY <2>2, <1>1, <1>3
    <3>2. PICK x \in S : p[x] = x
      BY <3>1, <1>3 DEF Grounded, Settles
    <3> QED
      BY <3>2, <2>2, <1>1
  <2> QED
    BY <2>1, <2>2
<1>4. Grounded(q)
  <2> HIDE DEF q
  <2> QED BY <1>2, <1>3 DEF Grounded, Settles
<1>5. Root(p, a) = a /\ Root(p, b) = b
  BY RootOfRoot
<1>6. \A x \in DOMAIN q : f[q[x]] = f[x]
  BY <1>1, <1>2, <1>5, RootOfParent
<1>7. \A x \in DOMAIN q : q[x] = x => f[x] = x
  <2> SUFFICES ASSUME NEW x \in DOMAIN p, q[x] = x
               PROVE  f[x] = x
    BY <1>2
  <2>1. x # a /\ p[x] = x
    BY <1>1
  <2> QED
    BY <2>1, RootOfRoot
<1>8. \A x \in DOMAIN p : Root(q, x) = f[x]
  <2> HIDE DEF q, f
  <2> QED
    BY <1>2, <1>4, <1>6, <1>7, RootIs
<1> QED
  BY <1>2, <1>4, <1>8

(* The representatives are the references that represent themselves.       *)
LEMMA RootsOfIs ==
  ASSUME NEW p, Grounded(p)
  PROVE  Heap!RootsOf(p) = {x \in DOMAIN p : Root(p, x) = x}
BY RootOfRoot, RootExists DEF Heap!RootsOf

(* A lookup makes a representative of each new reference and of nothing    *)
(* else.                                                                   *)
LEMMA LookupRootsOf ==
  ASSUME NEW p, Grounded(p), NEW R, IsFiniteSet(R)
  PROVE  Heap!RootsOf(Lookup(p, R)) = Heap!RootsOf(p) \cup (R \ DOMAIN p)
<1> DEFINE q == Lookup(p, R)
<1>1. /\ DOMAIN q = DOMAIN p \cup R
      /\ Grounded(q)
      /\ \A x \in DOMAIN p \cup R : Root(q, x) = Rep(p, x)
  BY LookupKeepsRoots
<1>2. Heap!RootsOf(q) = {x \in DOMAIN q : Root(q, x) = x}
  BY <1>1, RootsOfIs
<1>3. Heap!RootsOf(p) = {x \in DOMAIN p : Root(p, x) = x}
  BY RootsOfIs
<1>4. \A x \in R \ DOMAIN p : Root(q, x) = x
  BY <1>1 DEF Rep
<1>5. \A x \in DOMAIN p : Root(q, x) = Root(p, x)
  BY <1>1 DEF Rep
<1> QED
  BY <1>1, <1>2, <1>3, <1>4, <1>5

-----------------------------------------------------------------------------
(* A partition table, and what its entries are.                            *)
IsInfo(info) == info = [numMembers |-> info.numMembers, fieldRefs |-> info.fieldRefs]
IsTable(q) == q = [rep \in DOMAIN q |-> q[rep]] /\ \A rep \in DOMAIN q : IsInfo(q[rep])
FieldsAt(q, rep) == q[rep].fieldRefs

(* A heap between any two steps of an operation, and what no operation but *)
(* a unification does: it takes no reference out, moves none to another    *)
(* partition and drops no field.                                           *)
Sound(h) ==
  /\ h = [p |-> h.p, q |-> h.q]
  /\ Grounded(h.p)
  /\ DOMAIN h.q = Heap!RootsOf(h.p)
  /\ IsTable(h.q)

Keeps(q, q1) ==
  \A rep \in DOMAIN q :
    rep \in DOMAIN q1 /\ DOMAIN FieldsAt(q, rep) \subseteq DOMAIN FieldsAt(q1, rep)

Enlarges(h, h1) ==
  /\ Sound(h1)
  /\ DOMAIN h.p \subseteq DOMAIN h1.p
  /\ \A r \in DOMAIN h.p : Root(h1.p, r) = Root(h.p, r)
  /\ Keeps(h.q, h1.q)

(* Enlarging is a preorder of sound heaps.                                 *)
LEMMA EnlargesReflexive ==
  ASSUME NEW h, Sound(h) PROVE Enlarges(h, h)
BY DEF Enlarges, Keeps

(* And operations one after the other enlarge what each of them does.      *)
LEMMA EnlargesTransitive ==
  ASSUME NEW h, NEW h1, NEW h2, Enlarges(h, h1), Enlarges(h1, h2)
  PROVE  Enlarges(h, h2)
<1>1. \A r \in DOMAIN h.p : Root(h2.p, r) = Root(h.p, r)
  BY DEF Enlarges
<1>2. Keeps(h.q, h2.q)
  BY DEF Enlarges, Keeps
<1> QED BY <1>1, <1>2 DEF Enlarges

(* Lookups.                                                                *)
Widens(q, q1, new) ==
  /\ IsTable(q1)
  /\ DOMAIN q1 = DOMAIN q \cup new
  /\ \A x \in DOMAIN q : q1[x] = q[x]
  /\ \A x \in DOMAIN q1 \ DOMAIN q : DOMAIN FieldsAt(q1, x) = {}

LEMMA LookupInfoIs ==
  ASSUME NEW p, NEW q, NEW R, IsTable(q)
  PROVE  Widens(q, Heap!LookupInfo(p, q, R), R \ DOMAIN p)
<1> DEFINE qq == Heap!LookupInfo(p, q, R)
<1>1. qq = [x \in DOMAIN q \cup (R \ DOMAIN p) |->
              IF x \in DOMAIN q THEN q[x] ELSE Heap!NewPartition]
  BY DEF Heap!LookupInfo
<1>2. IsInfo(Heap!NewPartition) /\ DOMAIN Heap!NewPartition.fieldRefs = {}
  BY DEF IsInfo, Heap!NewPartition, Heap!NoFields
<1> HIDE DEF qq
<1>3. IsTable(qq)
  BY <1>1, <1>2 DEF IsTable
<1>4. \A x \in DOMAIN qq \ DOMAIN q : DOMAIN FieldsAt(qq, x) = {}
  BY <1>1, <1>2 DEF FieldsAt
<1>5. Widens(q, qq, R \ DOMAIN p)
  BY <1>1, <1>3, <1>4 DEF Widens
<1> QED BY <1>5 DEF qq

(* Insert and PartitionMap lookups enlarge the heap.                       *)
LEMMA AfterEnlarges ==
  ASSUME NEW h, Sound(h), NEW R, IsFiniteSet(R)
  PROVE  /\ Enlarges(h, After(h, R))
         /\ DOMAIN After(h, R).p = DOMAIN h.p \cup R
         /\ \A r \in DOMAIN h.p \cup R : Root(After(h, R).p, r) = Rep(h.p, r)
<1> DEFINE p == Lookup(h.p, R)
           q == Heap!LookupInfo(h.p, h.q, R)
<1>1. After(h, R) = [p |-> p, q |-> q]
  BY DEF After
<1>2. /\ DOMAIN p = DOMAIN h.p \cup R
      /\ Grounded(p)
      /\ \A x \in DOMAIN h.p \cup R : Root(p, x) = Rep(h.p, x)
      /\ Heap!RootsOf(p) = Heap!RootsOf(h.p) \cup (R \ DOMAIN h.p)
  BY LookupKeepsRoots, LookupRootsOf DEF Sound
<1>3. IsTable(q) /\ DOMAIN q = DOMAIN h.q \cup (R \ DOMAIN h.p) /\ Keeps(h.q, q)
  <2>1. IsTable(h.q)
    BY DEF Sound
  <2>2. Widens(h.q, q, R \ DOMAIN h.p)
    BY <2>1, LookupInfoIs
  <2> QED BY <2>2 DEF Widens, Keeps, FieldsAt
<1>4. Sound([p |-> p, q |-> q])
  <2>1. DOMAIN q = Heap!RootsOf(p)
    BY <1>2, <1>3 DEF Sound
  <2> HIDE DEF p, q
  <2> QED BY <1>2, <1>3, <2>1 DEF Sound
<1> HIDE DEF p, q
<1>5. \A r \in DOMAIN h.p : Root(p, r) = Root(h.p, r)
  BY <1>2 DEF Rep
<1> QED BY <1>1, <1>2, <1>3, <1>4, <1>5 DEF Enlarges

(* Writes to field maps.                                                   *)
LEMMA SetFieldIs ==
  ASSUME NEW q, IsTable(q), NEW rep, NEW fd, NEW v
  PROVE  LET qq == Heap!SetField(q, rep, fd, v)
         IN  /\ IsTable(qq)
             /\ DOMAIN qq = DOMAIN q
             /\ \A x \in DOMAIN q :
                  FieldsAt(qq, x) =
                    IF x = rep THEN [k \in DOMAIN FieldsAt(q, x) \cup {fd} |->
                                       IF k = fd THEN v ELSE FieldsAt(q, x)[k]]
                    ELSE FieldsAt(q, x)
<1> DEFINE qq == Heap!SetField(q, rep, fd, v)
           new(x) == [k \in DOMAIN FieldsAt(q, x) \cup {fd} |->
                        IF k = fd THEN v ELSE FieldsAt(q, x)[k]]
<1>1. qq = [x \in DOMAIN q |->
              IF x = rep
              THEN [q[x] EXCEPT !.fieldRefs = [k \in DOMAIN @ \cup {fd} |-> IF k = fd THEN v ELSE @[k]]]
              ELSE q[x]]
  BY DEF Heap!SetField
<1>2. \A x \in DOMAIN q :
        IsInfo(qq[x]) /\ qq[x].fieldRefs = IF x = rep THEN new(x) ELSE FieldsAt(q, x)
  <2> SUFFICES ASSUME NEW x \in DOMAIN q
               PROVE  /\ IsInfo(qq[x])
                      /\ qq[x].fieldRefs = IF x = rep THEN new(x) ELSE FieldsAt(q, x)
    OBVIOUS
  <2>1. q[x] = [numMembers |-> q[x].numMembers, fieldRefs |-> FieldsAt(q, x)]
    BY DEF IsTable, IsInfo, FieldsAt
  <2>2. CASE x = rep
    <3>1. qq[x] = [numMembers |-> q[x].numMembers, fieldRefs |-> new(x)]
      BY <1>1, <2>1, <2>2
    <3> HIDE DEF new, qq
    <3> QED BY <2>2, <3>1 DEF IsInfo
  <2>3. CASE x # rep
    BY <1>1, <2>1, <2>3 DEF IsInfo, FieldsAt
  <2> QED BY <2>2, <2>3
<1>3. DOMAIN qq = DOMAIN q /\ qq = [x \in DOMAIN q |-> qq[x]]
  BY <1>1
<1> HIDE DEF qq, new
<1>4. IsTable(qq)
  BY <1>2, <1>3 DEF IsTable
<1>5. \A x \in DOMAIN q : FieldsAt(qq, x) = IF x = rep THEN new(x) ELSE FieldsAt(q, x)
  BY <1>2 DEF FieldsAt
<1> QED BY <1>3, <1>4, <1>5 DEF qq, new

(* A write to the field map of a partition enlarges the heap.              *)
LEMMA PutEnlarges ==
  ASSUME NEW h, Sound(h), NEW r, NEW fd, NEW v
  PROVE  /\ Enlarges(h, Put(h, r, fd, v))
         /\ Put(h, r, fd, v).p = h.p
<1> DEFINE rep == Root(h.p, r)
           q == Heap!SetField(h.q, rep, fd, v)
<1>1. Put(h, r, fd, v) = [p |-> h.p, q |-> q]
  BY DEF Put, Sound
<1>2. IsTable(h.q)
  BY DEF Sound
<1>3. /\ IsTable(q)
      /\ DOMAIN q = DOMAIN h.q
      /\ \A x \in DOMAIN h.q :
           FieldsAt(q, x) =
             IF x = rep THEN [k \in DOMAIN FieldsAt(h.q, x) \cup {fd} |->
                                IF k = fd THEN v ELSE FieldsAt(h.q, x)[k]]
             ELSE FieldsAt(h.q, x)
  <2> HIDE DEF rep
  <2> QED BY <1>2, SetFieldIs
<1> HIDE DEF q
<1>4. Keeps(h.q, q)
  <2> SUFFICES ASSUME NEW x \in DOMAIN h.q
               PROVE  DOMAIN FieldsAt(h.q, x) \subseteq DOMAIN FieldsAt(q, x)
    BY <1>3 DEF Keeps
  <2> QED BY <1>3
<1>5. Sound([p |-> h.p, q |-> q])
  BY <1>3 DEF Sound
<1> QED BY <1>1, <1>4, <1>5 DEF Enlarges

(* getPointee enlarges the heap, whether or not it makes the pointee.      *)
LEMMA WithPointeeEnlarges ==
  ASSUME NEW h, Sound(h), NEW addr
  PROVE  /\ Enlarges(h, WithPointee(h, addr))
         /\ addr \in DOMAIN WithPointee(h, addr).p
<1> DEFINE h1 == After(h, {addr})
           new == MakeSynthetic("*", Root(h1.p, addr))
           h2 == After(h1, {new})
           h3 == Put(h2, addr, PointTo, new)
<1>1. IsFiniteSet({addr}) /\ IsFiniteSet({new})
  BY FS_Singleton
<1>2. Enlarges(h, h1) /\ addr \in DOMAIN h1.p
  BY <1>1, AfterEnlarges
<1>3. Enlarges(h1, h2)
  BY <1>1, <1>2, AfterEnlarges DEF Enlarges
<1>4. Enlarges(h2, h3)
  <2>1. Sound(h2)
    BY <1>3 DEF Enlarges
  <2> HIDE DEF h2
  <2> QED BY <2>1, PutEnlarges
<1>5. Enlarges(h, h3) /\ Enlarges(h1, h3)
  BY <1>2, <1>3, <1>4, EnlargesTransitive
<1>6. WithPointee(h, addr) = h1 \/ WithPointee(h, addr) = h3
  BY DEF WithPointee
<1> HIDE DEF h1, h2, h3, new
<1> QED BY <1>2, <1>5, <1>6 DEF Enlarges

(* So does the reference that unifyByValue makes for missing fields.       *)
LEMMA WithMissingEnlarges ==
  ASSUME NEW h, Sound(h), NEW rep, NEW missing
  PROVE  Enlarges(h, WithMissing(h, rep, missing))
<1>1. IsFiniteSet({MakeSynthetic(".", rep)})
  BY FS_Singleton
<1> QED BY <1>1, AfterEnlarges, EnlargesReflexive DEF WithMissing

(* The field maps that unifyByValue completes.                             *)
Completing(q, a, f, b, g) == [q EXCEPT ![a].fieldRefs = f, ![b].fieldRefs = g]

(* What it is to replace the field maps of two partitions.                 *)
LEMMA CompletingIs ==
  ASSUME NEW q, IsTable(q), NEW a, NEW b, NEW f, NEW g
  PROVE  LET qq == Completing(q, a, f, b, g)
         IN  /\ IsTable(qq)
             /\ DOMAIN qq = DOMAIN q
             /\ \A x \in DOMAIN q :
                  FieldsAt(qq, x) = IF x = b THEN g ELSE IF x = a THEN f ELSE FieldsAt(q, x)
<1> DEFINE qq == Completing(q, a, f, b, g)
           q1 == [q EXCEPT ![a].fieldRefs = f]
<1>1. q1 = [x \in DOMAIN q |-> IF x = a THEN [q[x] EXCEPT !.fieldRefs = f] ELSE q[x]]
  BY DEF IsTable
<1>2. \A x \in DOMAIN q :
        /\ IsInfo(q1[x])
        /\ q1[x].fieldRefs = IF x = a THEN f ELSE q[x].fieldRefs
  <2> SUFFICES ASSUME NEW x \in DOMAIN q
               PROVE  /\ IsInfo(q1[x])
                      /\ q1[x].fieldRefs = IF x = a THEN f ELSE q[x].fieldRefs
    OBVIOUS
  <2>1. q[x] = [numMembers |-> q[x].numMembers, fieldRefs |-> q[x].fieldRefs]
    BY DEF IsTable, IsInfo
  <2>2. q1[x] = [numMembers |-> q[x].numMembers,
                 fieldRefs |-> IF x = a THEN f ELSE q[x].fieldRefs]
    BY <1>1, <2>1
  <2> HIDE DEF q1
  <2> QED BY <2>2 DEF IsInfo
<1>3. qq = [x \in DOMAIN q |-> IF x = b THEN [q1[x] EXCEPT !.fieldRefs = g] ELSE q1[x]]
  BY <1>1 DEF Completing
<1> HIDE DEF q1, qq
<1>4. \A x \in DOMAIN q :
        /\ IsInfo(qq[x])
        /\ qq[x].fieldRefs = IF x = b THEN g ELSE q1[x].fieldRefs
  <2> SUFFICES ASSUME NEW x \in DOMAIN q
               PROVE  /\ IsInfo(qq[x])
                      /\ qq[x].fieldRefs = IF x = b THEN g ELSE q1[x].fieldRefs
    OBVIOUS
  <2>1. q1[x] = [numMembers |-> q1[x].numMembers, fieldRefs |-> q1[x].fieldRefs]
    BY <1>2 DEF IsInfo
  <2>2. qq[x] = [numMembers |-> q1[x].numMembers,
                 fieldRefs |-> IF x = b THEN g ELSE q1[x].fieldRefs]
    BY <1>3, <2>1
  <2> QED BY <2>2 DEF IsInfo
<1>5. DOMAIN qq = DOMAIN q /\ qq = [x \in DOMAIN qq |-> qq[x]]
  BY <1>3
<1>6. IsTable(qq)
  BY <1>4, <1>5 DEF IsTable
<1>7. \A x \in DOMAIN q :
        FieldsAt(qq, x) = IF x = b THEN g ELSE IF x = a THEN f ELSE FieldsAt(q, x)
  BY <1>2, <1>4 DEF FieldsAt
<1> QED BY <1>5, <1>6, <1>7 DEF qq

(* unifyByValue, the whole of it, enlarges the heap: a partition keeps     *)
(* every field it has when its map is replaced.                            *)
LEMMA CopyEnlarges ==
  ASSUME NEW h, Sound(h), NEW a, NEW b,
         CopyPartitions(h, a, FieldsAt(h.q, a), b, FieldsAt(h.q, b))
  PROVE  Enlarges(h, Now')
<1> DEFINE f == FieldsAt(h.q, a)
           g == FieldsAt(h.q, b)
           h1 == WithMissing(h, a, Missing(f, g))
           h2 == WithMissing(h1, b, Missing(g, f))
           ff == Completed(h2, a, f, Missing(f, g))
           gg == Completed(h2, b, g, Missing(g, f))
           q == Completing(h2.q, a, ff, b, gg)
<1>1. Enlarges(h, h1)
  BY WithMissingEnlarges
<1>2. Enlarges(h1, h2)
  <2>1. Sound(h1)
    BY <1>1 DEF Enlarges
  <2> HIDE DEF h1
  <2> QED BY <2>1, WithMissingEnlarges
<1>3. Enlarges(h, h2)
  BY <1>1, <1>2, EnlargesTransitive
<1>4. parents' = h2.p /\ partitions' = q
  BY DEF CopyPartitions, CopyFields, Completing
<1>5. DOMAIN ff = DOMAIN f \cup DOMAIN g /\ DOMAIN gg = DOMAIN f \cup DOMAIN g
  BY DEF Completed, Missing
<1> HIDE DEF f, g, h1, h2, ff, gg
<1>6. Sound(h2) /\ IsTable(h2.q)
  BY <1>3 DEF Enlarges, Sound
<1>7. /\ IsTable(q)
      /\ DOMAIN q = DOMAIN h2.q
      /\ \A x \in DOMAIN h2.q :
           FieldsAt(q, x) = IF x = b THEN gg ELSE IF x = a THEN ff ELSE FieldsAt(h2.q, x)
  BY <1>6, CompletingIs
<1> HIDE DEF q
<1>8. Sound([p |-> h2.p, q |-> q])
  BY <1>6, <1>7 DEF Sound
<1>9. Keeps(h.q, q)
  <2>1. Keeps(h.q, h2.q)
    BY <1>3 DEF Enlarges
  <2>2. ASSUME NEW x \in DOMAIN h.q PROVE DOMAIN FieldsAt(h.q, x) \subseteq DOMAIN FieldsAt(q, x)
    <3>1. x \in DOMAIN h2.q /\ DOMAIN FieldsAt(h.q, x) \subseteq DOMAIN FieldsAt(h2.q, x)
      BY <2>1 DEF Keeps
    <3> QED BY <1>5, <1>7, <3>1 DEF f, g
  <2> QED BY <1>7, <2>1, <2>2 DEF Keeps
<1>10. Now' = [p |-> h2.p, q |-> q]
  BY <1>4 DEF Now
<1> QED BY <1>3, <1>8, <1>9, <1>10 DEF Enlarges

(* A step that leaves pairs pending has the heap of its operation.         *)
LEMMA BecomesIs ==
  ASSUME NEW h, NEW h1, Enlarges(h, h1), NEW S, Becomes(h1, S)
  PROVE  Enlarges(h, Now')
<1>1. Now' = [p |-> h1.p, q |-> h1.q]
  BY DEF Becomes, Now
<1>2. Now' = h1
  BY <1>1 DEF Enlarges, Sound
<1> QED BY <1>2

(* Every constraint enlarges the heap, but for the unifications that it    *)
(* leaves pending.                                                         *)
LEMMA AssertEnlarges ==
  ASSUME Sound(Now), AssertNext
  PROVE  Enlarges(Now, Now')
<1> DEFINE c == Head(agenda)
<1>0. Enlarges(Now, Now) /\ Enlarges(Now, After(Now, {c.a})) /\ Enlarges(Now, After(Now, {c.a, c.b}))
  <2>1. IsFiniteSet({c.a}) /\ IsFiniteSet({c.a, c.b})
    <3>1. IsFiniteSet({c.a}) /\ IsFiniteSet({c.b})
      BY FS_Singleton
    <3>2. {c.a, c.b} = {c.a} \cup {c.b}
      OBVIOUS
    <3> QED BY <3>1, <3>2, FS_Union
  <2> QED BY <2>1, AfterEnlarges, EnlargesReflexive
<1> SUFFICES ASSUME \/ AssertUnify(c) \/ AssertField(c) \/ AssertAddress(c) \/ AssertLoad(c)
                    \/ AssertCopyPlain(c) \/ AssertCopyAddressed(c) \/ AssertCopy(c)
             PROVE  Enlarges(Now, Now')
  BY DEF AssertNext
<1> HIDE DEF c
<1>1. CASE AssertUnify(c)
  BY <1>0, <1>1, BecomesIs DEF AssertUnify
<1>2. CASE AssertField(c)
  <2> DEFINE h == After(Now, {c.a, c.b})
             target == Root(h.p, c.b)
             h1 == Put(h, c.a, c.fd, target)
  <2>1. Enlarges(Now, h1)
    <3>1. Sound(h)
      BY <1>0 DEF Enlarges
    <3> HIDE DEF h
    <3> QED BY <1>0, <3>1, PutEnlarges, EnlargesTransitive DEF h
  <2>2. (\E S : Becomes(h, S)) \/ (\E S : Becomes(h1, S))
    BY <1>2 DEF AssertField
  <2> HIDE DEF h, h1
  <2> QED BY <1>0, <2>1, <2>2, BecomesIs DEF h
<1>3. CASE AssertAddress(c)
  <2> DEFINE h == WithPointee(Now, c.a)
             obj == Pointee(h, c.a)
             h1 == After(h, {obj})
             h2 == Put(h1, obj, c.fd, c.b)
  <2>1. Enlarges(Now, h)
    BY WithPointeeEnlarges
  <2>2. Enlarges(h, h1)
    <3>1. Sound(h) /\ IsFiniteSet({obj})
      BY <2>1, FS_Singleton DEF Enlarges
    <3> HIDE DEF h, obj
    <3> QED BY <3>1, AfterEnlarges
  <2>3. Enlarges(h1, h2)
    <3>1. Sound(h1)
      BY <2>2 DEF Enlarges
    <3> HIDE DEF h1
    <3> QED BY <3>1, PutEnlarges
  <2>4. Enlarges(Now, h1) /\ Enlarges(Now, h2)
    BY <2>1, <2>2, <2>3, EnlargesTransitive
  <2>5. (\E S : Becomes(h1, S)) \/ (\E S : Becomes(h2, S))
    BY <1>3 DEF AssertAddress
  <2> HIDE DEF h1, h2
  <2> QED BY <2>4, <2>5, BecomesIs
<1>4. CASE AssertLoad(c)
  <2> DEFINE h == After(Now, {c.a})
             addr == Fields(h, c.a)[c.fd]
             h1 == WithPointee(h, addr)
             h2 == Put(h, c.a, c.fd, c.b)
  <2>1. Enlarges(h, h1) /\ Enlarges(h, h2)
    <3>1. Sound(h)
      BY <1>0 DEF Enlarges
    <3> HIDE DEF h, addr
    <3> QED BY <3>1, PutEnlarges, WithPointeeEnlarges
  <2>2. Enlarges(Now, h1) /\ Enlarges(Now, h2)
    BY <1>0, <2>1, EnlargesTransitive
  <2>3. (\E S : Becomes(h1, S)) \/ (\E S : Becomes(h2, S))
    BY <1>4 DEF AssertLoad
  <2> HIDE DEF h1, h2
  <2> QED BY <2>2, <2>3, BecomesIs
<1>5. CASE AssertCopyPlain(c)
  BY <1>0, <1>5, BecomesIs DEF AssertCopyPlain
<1>6. CASE AssertCopyAddressed(c)
  <2> DEFINE h == After(Now, {c.a, c.b})
             from == IF PointTo \in DOMAIN Fields(h, c.b) THEN c.b ELSE c.a
             to == IF from = c.b THEN c.a ELSE c.b
             h1 == Put(h, to, PointTo, Pointee(h, from))
  <2>1. Enlarges(Now, h1)
    <3>1. Sound(h)
      BY <1>0 DEF Enlarges
    <3> HIDE DEF h, from, to
    <3>2. Enlarges(h, h1)
      BY <3>1, PutEnlarges
    <3> HIDE DEF h1
    <3> QED BY <1>0, <3>2, EnlargesTransitive DEF h
  <2>2. (\E S : Becomes(h, S)) \/ (\E S : Becomes(h1, S))
    BY <1>6 DEF AssertCopyAddressed, UnifyFieldValueToAddress
  <2> HIDE DEF h, h1
  <2> QED BY <1>0, <2>1, <2>2, BecomesIs DEF h
<1>7. CASE AssertCopy(c)
  <2> DEFINE h == After(Now, {c.a, c.b})
  <2>1. Enlarges(Now, h)
    BY <1>0
  <2>2. CopyPartitions(h, Root(h.p, c.a), FieldsAt(h.q, Root(h.p, c.a)),
                       Root(h.p, c.b), FieldsAt(h.q, Root(h.p, c.b)))
    BY <1>7 DEF AssertCopy, Fields, FieldsAt
  <2>3. Sound(h)
    BY <2>1 DEF Enlarges
  <2> HIDE DEF h
  <2> QED BY <2>1, <2>2, <2>3, CopyEnlarges, EnlargesTransitive
<1> QED BY <1>1, <1>2, <1>3, <1>4, <1>5, <1>6, <1>7

-----------------------------------------------------------------------------
(* One Unify: it erases the losing representative and leaves its fields to *)
(* the winning one.                                                        *)
LEMMA AbsorbIs ==
  ASSUME NEW q, IsTable(q), NEW lose \in DOMAIN q, NEW win \in DOMAIN q, lose # win
  PROVE  LET qq == Heap!Absorb(q, lose, win)
         IN  /\ IsTable(qq)
             /\ DOMAIN qq = DOMAIN q \ {lose}
             /\ \A x \in DOMAIN qq :
                  FieldsAt(qq, x) =
                    IF x = win THEN Heap!MergedFields(FieldsAt(q, lose), FieldsAt(q, win))
                    ELSE FieldsAt(q, x)
<1> DEFINE qq == Heap!Absorb(q, lose, win)
           new == Heap!MergedFields(FieldsAt(q, lose), FieldsAt(q, win))
<1>1. qq = [x \in DOMAIN q \ {lose} |->
              IF x = win
              THEN [q[x] EXCEPT !.fieldRefs = Heap!MergedFields(q[lose].fieldRefs, @)]
              ELSE q[x]]
  BY DEF Heap!Absorb
<1>2. \A x \in DOMAIN q \ {lose} :
        IsInfo(qq[x]) /\ qq[x].fieldRefs = IF x = win THEN new ELSE FieldsAt(q, x)
  <2> SUFFICES ASSUME NEW x \in DOMAIN q \ {lose}
               PROVE  /\ IsInfo(qq[x])
                      /\ qq[x].fieldRefs = IF x = win THEN new ELSE FieldsAt(q, x)
    OBVIOUS
  <2>1. q[x] = [numMembers |-> q[x].numMembers, fieldRefs |-> FieldsAt(q, x)]
    BY DEF IsTable, IsInfo, FieldsAt
  <2>2. CASE x = win
    <3>1. [q[x] EXCEPT !.fieldRefs = Heap!MergedFields(q[lose].fieldRefs, @)]
            = [numMembers |-> q[x].numMembers,
               fieldRefs |-> Heap!MergedFields(q[lose].fieldRefs, q[x].fieldRefs)]
      BY <2>1
    <3>2. qq[x] = [numMembers |-> q[x].numMembers, fieldRefs |-> new]
      BY <1>1, <2>2, <3>1 DEF FieldsAt
    <3> HIDE DEF new, qq
    <3> QED BY <2>2, <3>2 DEF IsInfo
  <2>3. CASE x # win
    BY <1>1, <2>1, <2>3 DEF IsInfo, FieldsAt
  <2> QED BY <2>2, <2>3
<1>3. DOMAIN qq = DOMAIN q \ {lose} /\ qq = [x \in DOMAIN qq |-> qq[x]]
  BY <1>1
<1> HIDE DEF qq, new
<1>4. IsTable(qq)
  BY <1>2, <1>3 DEF IsTable
<1>5. \A x \in DOMAIN qq : FieldsAt(qq, x) = IF x = win THEN new ELSE FieldsAt(q, x)
  BY <1>2, <1>3 DEF FieldsAt
<1> QED BY <1>3, <1>4, <1>5 DEF qq, new

(* Whether a and b are joined in h1, of what h had.                        *)
Unifies(h, h1, a, b) ==
  \E lose, win \in DOMAIN h.q :
    /\ {lose, win} = {a, b}
    /\ \A x \in DOMAIN h.p :
         Root(h1.p, x) = IF Root(h.p, x) = lose THEN win ELSE Root(h.p, x)

(* One Unify joins the partitions of the two representatives, and no       *)
(* others; the winner has the fields of both.                              *)
LEMMA UnifyIs ==
  ASSUME NEW h, Sound(h), NEW a \in DOMAIN h.q, NEW b \in DOMAIN h.q, NEW rest,
         Heap!UnifyReps(h.p, h.q, a, b, rest)
  PROVE  /\ Sound(Now')
         /\ DOMAIN h.p = DOMAIN parents'
         /\ Unifies(h, Now', a, b)
         /\ \A x \in DOMAIN h.p : DOMAIN FieldsAt(h.q, Root(h.p, x))
                                    \subseteq DOMAIN FieldsAt(partitions', Root(parents', x))
<1>1. Now' = [p |-> parents', q |-> partitions']
  BY DEF Now
<1>2. /\ Grounded(h.p) /\ h = [p |-> h.p, q |-> h.q] /\ IsTable(h.q)
      /\ DOMAIN h.q = Heap!RootsOf(h.p)
      /\ DOMAIN h.q = {x \in DOMAIN h.p : Root(h.p, x) = x}
      /\ \A x \in DOMAIN h.p : Root(h.p, x) \in DOMAIN h.q
  BY RootsOfIs, RootExists DEF Sound, Heap!RootsOf
<1>3. CASE a = b
  <2>1. Now' = h /\ parents' = h.p /\ partitions' = h.q
    BY <1>1, <1>2, <1>3 DEF Heap!UnifyReps
  <2>2. \A x \in DOMAIN h.p : Root(h.p, x) = IF Root(h.p, x) = a THEN a ELSE Root(h.p, x)
    OBVIOUS
  <2>3. Unifies(h, h, a, b)
    BY <1>3, <2>2 DEF Unifies
  <2> QED BY <2>1, <2>3
<1>4. CASE a # b
  <2> DEFINE lose == Heap!Loser(h.q, a, b)
             win == Heap!Winner(h.q, a, b)
             p == Heap!Link(h.p, lose, win)
             q == Heap!Absorb(h.q, lose, win)
  <2>1. parents' = p /\ partitions' = q
    BY <1>4 DEF Heap!UnifyReps
  <2>2. {lose, win} = {a, b} /\ lose # win /\ lose \in DOMAIN h.q /\ win \in DOMAIN h.q
    BY <1>4 DEF Heap!Loser, Heap!Winner
  <2> HIDE DEF lose, win
  <2>3. lose \in DOMAIN h.p /\ h.p[lose] = lose /\ win \in DOMAIN h.p /\ h.p[win] = win
    BY <1>2, <2>2 DEF Heap!RootsOf
  <2>4. /\ DOMAIN p = DOMAIN h.p
        /\ Grounded(p)
        /\ \A x \in DOMAIN h.p : Root(p, x) = IF Root(h.p, x) = lose THEN win ELSE Root(h.p, x)
    BY <1>2, <2>2, <2>3, LinkJoins
  <2>5. /\ IsTable(q)
        /\ DOMAIN q = DOMAIN h.q \ {lose}
        /\ \A x \in DOMAIN q :
             FieldsAt(q, x) =
               IF x = win THEN Heap!MergedFields(FieldsAt(h.q, lose), FieldsAt(h.q, win))
               ELSE FieldsAt(h.q, x)
    BY <1>2, <2>2, AbsorbIs
  <2>6. Heap!RootsOf(p) = Heap!RootsOf(h.p) \ {lose}
    BY <2>2, <2>3 DEF Heap!Link, Heap!RootsOf
  <2> HIDE DEF p, q
  <2>7. Sound([p |-> p, q |-> q])
    BY <1>2, <2>4, <2>5, <2>6 DEF Sound
  <2>8. DOMAIN Heap!MergedFields(FieldsAt(h.q, lose), FieldsAt(h.q, win))
          = DOMAIN FieldsAt(h.q, lose) \cup DOMAIN FieldsAt(h.q, win)
    BY DEF Heap!MergedFields
  <2>9. ASSUME NEW x \in DOMAIN h.p
        PROVE  DOMAIN FieldsAt(h.q, Root(h.p, x)) \subseteq DOMAIN FieldsAt(q, Root(p, x))
    <3>1. Root(h.p, x) \in DOMAIN h.q
      BY <1>2
    <3>2. CASE Root(h.p, x) = lose \/ Root(h.p, x) = win
      <4>1. Root(p, x) = win /\ win \in DOMAIN q
        BY <2>2, <2>4, <2>5, <3>2
      <4> QED BY <2>5, <2>8, <3>2, <4>1
    <3>3. CASE Root(h.p, x) # lose /\ Root(h.p, x) # win
      <4>1. Root(p, x) = Root(h.p, x) /\ Root(p, x) \in DOMAIN q
        BY <2>4, <2>5, <3>1, <3>3
      <4> QED BY <2>5, <3>3, <4>1
    <3> QED BY <3>2, <3>3
  <2>10. Now' = [p |-> p, q |-> q] /\ Now'.p = p
    BY <1>1, <2>1
  <2>11. Unifies(h, Now', a, b)
    BY <2>2, <2>4, <2>10 DEF Unifies
  <2> QED BY <2>1, <2>4, <2>7, <2>9, <2>10, <2>11
<1> QED BY <1>3, <1>4

(* The step of a pending pair.                                             *)
LEMMA PendingIs ==
  ASSUME Sound(Now), NEW a, NEW b, UnifyPending(a, b)
  PROVE  LET h == After(Now, {a, b})
         IN  /\ Enlarges(Now, h)
             /\ Sound(Now')
             /\ Unifies(h, Now', Rep(parents, a), Rep(parents, b))
             /\ DOMAIN parents \cup {a, b} = DOMAIN parents'
             /\ \A x \in DOMAIN h.p : DOMAIN FieldsAt(h.q, Root(h.p, x))
                                        \subseteq DOMAIN FieldsAt(partitions', Root(parents', x))
<1> DEFINE h == After(Now, {a, b})
<1>1. IsFiniteSet({a, b})
  <2>1. IsFiniteSet({a}) /\ IsFiniteSet({b}) /\ {a, b} = {a} \cup {b}
    BY FS_Singleton
  <2> QED BY <2>1, FS_Union
<1>2. Now.p = parents /\ Now.q = partitions
  BY DEF Now
<1>3. /\ Enlarges(Now, h)
      /\ DOMAIN h.p = DOMAIN parents \cup {a, b}
      /\ Root(h.p, a) = Rep(parents, a) /\ Root(h.p, b) = Rep(parents, b)
  BY <1>1, <1>2, AfterEnlarges
<1>4. Heap!UnifyReps(h.p, h.q, Root(h.p, a), Root(h.p, b),
                     Heap!Push(Head(frames) \ {<<a, b>>}, Tail(frames)))
  BY DEF UnifyPending
<1> HIDE DEF h
<1>5. Sound(h) /\ Root(h.p, a) \in DOMAIN h.q /\ Root(h.p, b) \in DOMAIN h.q
  <2>1. Sound(h)
    BY <1>3 DEF Enlarges
  <2>2. Grounded(h.p) /\ DOMAIN h.q = Heap!RootsOf(h.p) /\ a \in DOMAIN h.p /\ b \in DOMAIN h.p
    BY <1>3, <2>1 DEF Sound
  <2> QED BY <2>1, <2>2, RootExists DEF Heap!RootsOf
<1>6. /\ Sound(Now')
      /\ DOMAIN h.p = DOMAIN parents'
      /\ Unifies(h, Now', Root(h.p, a), Root(h.p, b))
      /\ \A x \in DOMAIN h.p : DOMAIN FieldsAt(h.q, Root(h.p, x))
                                 \subseteq DOMAIN FieldsAt(partitions', Root(parents', x))
  BY <1>4, <1>5, UnifyIs
<1> QED BY <1>3, <1>6 DEF h

(* The search only reads the heap that the analysis has frozen.            *)
LEMMA SearchReads == SearchNext \/ Terminated => UNCHANGED analysisVars
BY DEF SearchNext, Terminated, taintVars, RangeOver, ExploreSpan, SearchSource, SrcRefs,
       TaintField, SinkOperand, FieldRefs, LookAt, TraceSink, NextFunction

(* The heap of each step.                                                  *)
LEMMA StepSound ==
  ASSUME Sound(Now), [Next]_taintVars
  PROVE  /\ Sound(Now')
         /\ Enlarges(Now, Now') \/ StepUnify
<1>1. ASSUME UNCHANGED <<parents, partitions>> PROVE Enlarges(Now, Now')
  <2>1. Now' = Now
    BY <1>1 DEF Now
  <2> QED BY <2>1, EnlargesReflexive
<1>2. CASE UNCHANGED taintVars
  BY <1>1, <1>2 DEF taintVars, analysisVars, Enlarges
<1>3. CASE SearchNext \/ Terminated
  <2>1. UNCHANGED analysisVars
    BY <1>3, SearchReads
  <2> QED BY <1>1, <2>1 DEF analysisVars, Enlarges
<1>4. CASE AnalysisNext
  <2>1. CASE StepUnify
    <3>1. PICK pair \in Head(frames) : UnifyPending(pair[1], pair[2])
      BY <2>1 DEF StepUnify
    <3> QED BY <2>1, <3>1, PendingIs
  <2>2. CASE AssertNext
    BY <2>2, AssertEnlarges DEF Enlarges
  <2>3. CASE VisitInstruction \/ Finish \/ \E f \in Fn : VisitFunction(f)
    <3>1. UNCHANGED <<parents, partitions>>
      BY <2>3 DEF VisitInstruction, Finish, VisitFunction
    <3> QED BY <1>1, <3>1 DEF Enlarges
  <2> QED BY <1>4, <2>1, <2>2, <2>3 DEF AnalysisNext
<1> QED BY <1>2, <1>3, <1>4 DEF Next

(* What the invariant says of representatives.                             *)
LEMMA SoundImplies ==
  ASSUME Sound(Now) PROVE RepresentativesKnown
<1>1. Grounded(parents) /\ DOMAIN partitions = Heap!RootsOf(parents)
  BY DEF Sound, Now
<1>2. parents \in [DOMAIN parents -> DOMAIN parents]
  BY <1>1 DEF Grounded
<1>3. \A r \in DOMAIN parents : Root(parents, r) \in Heap!RootsOf(parents)
  BY <1>1, RootExists DEF Heap!RootsOf
<1> QED BY <1>1, <1>2, <1>3 DEF RepresentativesKnown

(* What a step does to a sound heap is what HeapGrows allows.              *)
LEMMA StepGrows ==
  ASSUME Sound(Now), [Next]_taintVars
  PROVE  /\ \A r \in DOMAIN parents : Kept(r)
         /\ Joins({}) \/ \E pair \in PendingPairs : Joins({pair})
<1>1. /\ Now.p = parents /\ Now.q = partitions /\ Now'.p = parents' /\ Now'.q = partitions'
      /\ Grounded(parents) /\ DOMAIN partitions = Heap!RootsOf(parents)
  <2>1. Now.p = parents /\ Now.q = partitions /\ Now'.p = parents' /\ Now'.q = partitions'
    BY DEF Now
  <2> QED BY <2>1 DEF Sound
<1>2. \A r \in DOMAIN parents : /\ Root(parents, r) \in DOMAIN parents
                                /\ Root(parents, Root(parents, r)) = Root(parents, r)
                                /\ Root(parents, r) \in DOMAIN partitions
  BY <1>1, RootExists, RootOfRoot DEF Heap!RootsOf
<1>3. CASE Enlarges(Now, Now')
  <2>1. /\ DOMAIN parents \subseteq DOMAIN parents'
        /\ \A r \in DOMAIN parents : Root(parents', r) = Root(parents, r)
        /\ Keeps(partitions, partitions')
    BY <1>1, <1>3 DEF Enlarges
  <2>2. \A r \in DOMAIN parents : Kept(r)
    BY <1>2, <2>1 DEF Kept, Keeps, FieldsAt
  <2>3. Joins({})
    BY <2>1 DEF Joins
  <2> QED BY <2>2, <2>3
<1>4. CASE StepUnify
  <2>1. PICK pair \in Head(frames) : UnifyPending(pair[1], pair[2])
    BY <1>4 DEF StepUnify
  <2> DEFINE a == pair[1]
             b == pair[2]
             h == After(Now, {a, b})
  <2>2. /\ Enlarges(Now, h)
        /\ Unifies(h, Now', Rep(parents, a), Rep(parents, b))
        /\ DOMAIN parents \cup {a, b} = DOMAIN parents'
        /\ \A x \in DOMAIN h.p : DOMAIN FieldsAt(h.q, Root(h.p, x))
                                   \subseteq DOMAIN FieldsAt(partitions', Root(parents', x))
    BY <2>1, PendingIs
  <2> HIDE DEF h
  <2>3. /\ DOMAIN parents \subseteq DOMAIN h.p
        /\ \A r \in DOMAIN parents : Root(h.p, r) = Root(parents, r)
        /\ Keeps(partitions, h.q)
    BY <1>1, <2>2 DEF Enlarges
  <2>4. PICK lose \in DOMAIN h.q, win \in DOMAIN h.q :
          /\ {lose, win} = {Rep(parents, a), Rep(parents, b)}
          /\ \A x \in DOMAIN h.p :
               Root(parents', x) = IF Root(h.p, x) = lose THEN win ELSE Root(h.p, x)
    BY <1>1, <2>2 DEF Unifies
  <2>5. \A r \in DOMAIN parents :
          Root(parents', r) = IF Root(parents, r) = lose THEN win ELSE Root(parents, r)
    BY <2>3, <2>4
  <2>6. ASSUME NEW r \in DOMAIN parents PROVE Kept(r)
    <3>1. r \in DOMAIN parents'
      BY <2>2
    <3>2. Root(parents', r) = Root(parents', Root(parents, r))
      BY <1>2, <2>5
    <3>3. DOMAIN FieldsAt(partitions, Root(parents, r))
            \subseteq DOMAIN FieldsAt(partitions', Root(parents', r))
      BY <1>2, <2>2, <2>3 DEF Keeps
    <3> QED BY <3>1, <3>2, <3>3 DEF Kept, FieldsAt
  <2>7. Joins({pair})
    <3> SUFFICES ASSUME NEW r \in DOMAIN parents, NEW s \in DOMAIN parents,
                        Root(parents', r) = Root(parents', s), Root(parents, r) # Root(parents, s)
                 PROVE  {Root(parents, r), Root(parents, s)}
                          = {Rep(parents, pair[1]), Rep(parents, pair[2])}
      BY DEF Joins
    <3> QED BY <2>4, <2>5
  <2>8. pair \in PendingPairs
    BY <1>4, <2>1 DEF StepUnify, PendingPairs
  <2> QED BY <2>6, <2>7, <2>8
<1> QED BY <1>3, <1>4, StepSound

-----------------------------------------------------------------------------
(* Calling contexts are the iterate of one step back along the calls.      *)
NoCalls == [g \in Fn |-> {<<>>}]
Site == UNION {{in[2] : in \in CallersOf(g)} : g \in Fn}
ContextSets == [Fn -> {S \in SUBSET Seq(Site) : IsFiniteSet(S)}]
CalledFrom(c, g) ==
  IF CallersOf(g) = {} THEN {<<>>}
  ELSE UNION {{Append(prev, in[2]) : prev \in c[in[1]]} : in \in CallersOf(g)}
OneBack == [c \in ContextSets |-> [g \in Fn |-> CalledFrom(c, g)]]

(* A function has finitely many call sites, in functions of the program.   *)
LEMMA CallersAre ==
  ASSUME WellFormed(prog), NEW g
  PROVE  IsFiniteSet(CallersOf(g)) /\ \A in \in CallersOf(g) : in[1] \in Fn
<1> DEFINE from(f) == {i \in Calls(f) : i.callee = g}
           of(f) == {<<f, i.site>> : i \in from(f)}
<1>1. ASSUME NEW f \in Fn PROVE IsFiniteSet(of(f))
  <2> DEFINE body == prog.func[f].body
  <2>1. body \in Seq(ToSet(body))
    BY DEF WellFormed, Fn
  <2>2. IsFiniteSet(DOMAIN body)
    <3>1. Len(body) \in Nat /\ DOMAIN body = 1..Len(body)
      BY <2>1
    <3> QED BY <3>1, FS_Interval
  <2>3. IsFiniteSet(ToSet(body))
    <3> HIDE DEF body
    <3>1. ToSet(body) = {body[i] : i \in DOMAIN body}
      BY DEF ToSet
    <3> DEFINE h == [i \in DOMAIN body |-> body[i]]
    <3>2. h \in Surjection(DOMAIN body, ToSet(body))
      BY <3>1 DEF Surjection
    <3> HIDE DEF h
    <3> QED BY <2>2, <3>2, FS_Surjection
  <2>4. IsFiniteSet(from(f))
    <3>1. from(f) \subseteq ToSet(body)
      BY DEF Calls
    <3> QED BY <2>3, <3>1, FS_Subset
  <2> DEFINE h == [i \in from(f) |-> <<f, i.site>>]
  <2>5. h \in Surjection(from(f), of(f))
    BY DEF Surjection
  <2> HIDE DEF h
  <2> QED BY <2>4, <2>5, FS_Surjection
<1>2. CallersOf(g) = UNION {of(f) : f \in Fn}
  BY DEF CallersOf
<1>3. IsFiniteSet({of(f) : f \in Fn})
  <2> DEFINE h == [f \in Fn |-> of(f)]
  <2>1. h \in Surjection(Fn, {of(f) : f \in Fn})
    BY DEF Surjection
  <2>2. IsFiniteSet(Fn)
    BY DEF WellFormed, Fn
  <2> HIDE DEF h, of
  <2> QED BY <2>1, <2>2, FS_Surjection
<1>4. IsFiniteSet(CallersOf(g))
  <2> HIDE DEF of
  <2>1. \A S \in {of(f) : f \in Fn} : IsFiniteSet(S)
    BY <1>1
  <2> QED BY <1>2, <1>3, <2>1, FS_UNION
<1>5. \A in \in CallersOf(g) : in[1] \in Fn
  BY <1>2
<1> QED BY <1>4, <1>5

(* One step back along the calls leads from finite sets of contexts to     *)
(* such sets.                                                              *)
LEMMA OneBackIs ==
  ASSUME WellFormed(prog)
  PROVE  NoCalls \in ContextSets /\ OneBack \in [ContextSets -> ContextSets]
<1>1. IsFiniteSet({<<>>}) /\ {<<>>} \in SUBSET Seq(Site)
  <2>1. IsFiniteSet({<<>>})
    BY FS_Singleton
  <2>2. <<>> \in Seq(Site)
    OBVIOUS
  <2> QED BY <2>1, <2>2
<1>2. NoCalls \in ContextSets
  BY <1>1 DEF NoCalls, ContextSets
<1>3. ASSUME NEW c \in ContextSets, NEW g \in Fn
      PROVE  CalledFrom(c, g) \in {S \in SUBSET Seq(Site) : IsFiniteSet(S)}
  <2>1. CASE CallersOf(g) = {}
    BY <1>1, <2>1 DEF CalledFrom
  <2>2. CASE CallersOf(g) # {}
    <3> DEFINE of(in) == {Append(prev, in[2]) : prev \in c[in[1]]}
    <3>1. CalledFrom(c, g) = UNION {of(in) : in \in CallersOf(g)}
      BY <2>2 DEF CalledFrom
    <3>2. IsFiniteSet(CallersOf(g)) /\ \A in \in CallersOf(g) : in[1] \in Fn
      BY CallersAre
    <3>3. ASSUME NEW in \in CallersOf(g)
          PROVE  of(in) \in SUBSET Seq(Site) /\ IsFiniteSet(of(in))
      <4>1. c[in[1]] \in SUBSET Seq(Site) /\ IsFiniteSet(c[in[1]])
        BY <3>2 DEF ContextSets
      <4>2. in[2] \in Site
        BY DEF Site
      <4> DEFINE h == [prev \in c[in[1]] |-> Append(prev, in[2])]
      <4>3. h \in Surjection(c[in[1]], of(in))
        BY DEF Surjection
      <4>4. of(in) \in SUBSET Seq(Site)
        BY <4>1, <4>2
      <4> HIDE DEF h, of
      <4> QED BY <4>1, <4>3, <4>4, FS_Surjection
    <3> DEFINE h == [in \in CallersOf(g) |-> of(in)]
    <3>4. h \in Surjection(CallersOf(g), {of(in) : in \in CallersOf(g)})
      BY DEF Surjection
    <3> HIDE DEF h, of
    <3>5. IsFiniteSet({of(in) : in \in CallersOf(g)})
      BY <3>2, <3>4, FS_Surjection
    <3>6. \A S \in {of(in) : in \in CallersOf(g)} : S \in SUBSET Seq(Site) /\ IsFiniteSet(S)
      BY <3>3
    <3>7. UNION {of(in) : in \in CallersOf(g)} \in SUBSET Seq(Site)
      BY <3>6
    <3>8. IsFiniteSet(UNION {of(in) : in \in CallersOf(g)})
      BY <3>5, <3>6, FS_UNION
    <3> QED BY <3>1, <3>7, <3>8
  <2> QED BY <2>1, <2>2
<1>4. OneBack \in [ContextSets -> ContextSets]
  <2>1. ASSUME NEW c \in ContextSets PROVE [g \in Fn |-> CalledFrom(c, g)] \in ContextSets
    BY <1>3 DEF ContextSets
  <2> HIDE DEF ContextSets
  <2> QED BY <2>1 DEF OneBack
<1> QED BY <1>2, <1>4

(* CollectContext is the iterate.                                          *)
LEMMA CollectIs ==
  ASSUME WellFormed(prog), NEW k \in Nat, NEW f \in Fn
  PROVE  CollectContext(f, k) = Iterate(ContextSets, OneBack, NoCalls)[k][f]
<1> DEFINE Body(h) == [n \in 0..k |-> IF n = 0 THEN [g \in Fn |-> {<<>>}]
                                      ELSE [g \in Fn |-> CalledFrom(h[n - 1], g)]]
           F == Iterate(ContextSets, OneBack, NoCalls)
           h0 == [n \in 0..k |-> F[n]]
           h1 == CHOOSE h : h = Body(h)
<1>1. CollectContext(f, k) = h1[k][f]
  BY DEF CollectContext, CalledFrom
<1>2. /\ NoCalls \in ContextSets /\ OneBack \in [ContextSets -> ContextSets]
      /\ F \in [Nat -> ContextSets]
      /\ Iterates(ContextSets, OneBack, NoCalls, F)
  BY OneBackIs, IterateIs
<1> HIDE DEF F
<1>3. h0 = Body(h0)
  <2> SUFFICES ASSUME NEW n \in 0..k PROVE h0[n] = Body(h0)[n]
    OBVIOUS
  <2>1. CASE n = 0
    BY <1>2, <2>1 DEF Iterates, NoCalls
  <2>2. CASE n # 0
    <3>1. n - 1 \in 0..k /\ n - 1 \in Nat /\ (n - 1) + 1 = n
      BY <2>2
    <3>2. F[n] = OneBack[F[n - 1]] /\ F[n - 1] \in ContextSets
      BY <1>2, <3>1 DEF Iterates
    <3>3. F[n] = [g \in Fn |-> CalledFrom(F[n - 1], g)]
      BY <3>2 DEF OneBack
    <3> QED BY <2>2, <3>1, <3>3
  <2> QED BY <2>1, <2>2
<1>4. h1 = Body(h1)
  <2> HIDE DEF Body, h0
  <2> QED BY <1>3
<1> HIDE DEF h1
<1> DEFINE S == {n \in Nat : n <= k => h1[n] = F[n]}
<1>5. /\ Body(h1)[0] = NoCalls
      /\ \A n \in Nat : n + 1 <= k => Body(h1)[n + 1] = [g \in Fn |-> CalledFrom(h1[n], g)]
  BY DEF NoCalls
<1> HIDE DEF Body
<1>6. 0 \in S
  BY <1>2, <1>4, <1>5 DEF Iterates
<1>7. ASSUME NEW n \in S PROVE n + 1 \in S
  <2> SUFFICES ASSUME n + 1 <= k PROVE h1[n + 1] = F[n + 1]
    OBVIOUS
  <2>1. n \in Nat /\ n <= k /\ h1[n] = F[n]
    OBVIOUS
  <2>2. h1[n + 1] = [g \in Fn |-> CalledFrom(F[n], g)]
    BY <1>4, <1>5, <2>1
  <2>3. F[n + 1] = OneBack[F[n]] /\ F[n] \in ContextSets
    BY <1>2, <2>1 DEF Iterates
  <2> QED BY <2>2, <2>3 DEF OneBack
<1>8. S = Nat
  <2> HIDE DEF S
  <2> QED BY <1>6, <1>7, Induction DEF S
<1>9. h1[k] = F[k]
  BY <1>8
<1> QED BY <1>1, <1>9 DEF F

(* A function has finitely many contexts.                                  *)
LEMMA CollectFinite ==
  ASSUME WellFormed(prog), NEW k \in Nat, NEW f \in Fn
  PROVE  IsFiniteSet(CollectContext(f, k)) /\ CollectContext(f, k) \subseteq Seq(Site)
<1> DEFINE F == Iterate(ContextSets, OneBack, NoCalls)
<1>1. F \in [Nat -> ContextSets]
  BY OneBackIs, IterateIs
<1>2. CollectContext(f, k) = F[k][f]
  BY CollectIs
<1> HIDE DEF F
<1>3. F[k] \in ContextSets
  BY <1>1
<1> QED BY <1>2, <1>3 DEF ContextSets

(* The contexts of a length are those of one less, with one call site      *)
(* more.                                                                   *)
LEMMA CollectStep ==
  ASSUME WellFormed(prog), NEW f \in Fn
  PROVE  /\ CollectContext(f, 0) = {<<>>}
         /\ \A k \in Nat :
              CollectContext(f, k + 1) =
                IF CallersOf(f) = {} THEN {<<>>}
                ELSE UNION {{Append(prev, in[2]) : prev \in CollectContext(in[1], k)} :
                              in \in CallersOf(f)}
<1> DEFINE F == Iterate(ContextSets, OneBack, NoCalls)
<1>1. F \in [Nat -> ContextSets] /\ Iterates(ContextSets, OneBack, NoCalls, F)
  BY OneBackIs, IterateIs
<1>2. \A k \in Nat, g \in Fn : CollectContext(g, k) = F[k][g]
  BY CollectIs
<1> HIDE DEF F
<1>3. CollectContext(f, 0) = {<<>>}
  BY <1>1, <1>2 DEF Iterates, NoCalls
<1>4. ASSUME NEW k \in Nat
      PROVE  CollectContext(f, k + 1) =
                IF CallersOf(f) = {} THEN {<<>>}
                ELSE UNION {{Append(prev, in[2]) : prev \in CollectContext(in[1], k)} :
                              in \in CallersOf(f)}
  <2>1. F[k + 1] = OneBack[F[k]] /\ F[k] \in ContextSets
    BY <1>1 DEF Iterates
  <2>2. CollectContext(f, k + 1) = CalledFrom(F[k], f)
    BY <1>2, <2>1 DEF OneBack
  <2>3. \A in \in CallersOf(f) : CollectContext(in[1], k) = F[k][in[1]]
    BY <1>2, CallersAre
  <2> DEFINE of(in) == {Append(prev, in[2]) : prev \in F[k][in[1]]}
             of1(in) == {Append(prev, in[2]) : prev \in CollectContext(in[1], k)}
  <2>4. \A in \in CallersOf(f) : of(in) = of1(in)
    BY <2>3
  <2>5. CalledFrom(F[k], f)
          = IF CallersOf(f) = {} THEN {<<>>} ELSE UNION {of(in) : in \in CallersOf(f)}
    BY DEF CalledFrom
  <2> HIDE DEF of, of1
  <2>6. {of(in) : in \in CallersOf(f)} = {of1(in) : in \in CallersOf(f)}
    BY <2>4
  <2>7. CollectContext(f, k + 1)
          = IF CallersOf(f) = {} THEN {<<>>} ELSE UNION {of1(in) : in \in CallersOf(f)}
    BY <2>2, <2>5, <2>6
  <2> QED BY <2>7 DEF of1
<1> QED BY <1>3, <1>4

-----------------------------------------------------------------------------
(* The contexts that a value is visited in are those of its function.      *)
Collected ==
  \A f \in Fn : contexts[f] \in SetToSeqs(CollectContext(f, contextK))

(* What GetContexts returns.                                               *)
LEMMA ContextsAre ==
  ASSUME WellFormed(prog), contextK \in Nat, DOMAIN contexts = Fn, Collected, NEW v
  PROVE  /\ IsFiniteSet(ToSet(GetContexts(v)))
         /\ GetContexts(v) \in Seq(Seq(Site))
<1> DEFINE f == prog.value[v].in
<1>1. CASE f \in Fn
  <2> DEFINE S == CollectContext(f, contextK)
  <2>1. IsFiniteSet(S) /\ S \subseteq Seq(Site)
    BY <1>1, CollectFinite
  <2>2. GetContexts(v) \in SetToSeqs(S)
    BY <1>1 DEF GetContexts, Collected
  <2>3. Cardinality(S) \in Nat
    BY <2>1, FS_CardinalityType
  <2> HIDE DEF S
  <2>4. GetContexts(v) \in [1..Cardinality(S) -> S]
    BY <2>2 DEF SetToSeqs
  <2>5. GetContexts(v) \in Seq(S)
    BY <2>3, <2>4
  <2>6. GetContexts(v) \in Seq(Seq(Site))
    BY <2>1, <2>5
  <2> QED BY <2>5, <2>6, FiniteSeq
<1>2. CASE f \notin Fn
  <2>1. GetContexts(v) = <<<<>>>>
    BY <1>2 DEF GetContexts
  <2>2. <<>> \in Seq(Site)
    OBVIOUS
  <2>3. <<<<>>>> \in Seq(Seq(Site))
    BY <2>2
  <2> QED BY <2>1, <2>3, FiniteSeq
<1> QED BY <1>1, <1>2

(* The analysis starts with finitely many references.                      *)
LEMMA InitialFinite ==
  ASSUME WellFormed(prog), contextK \in Nat, DOMAIN contexts = Fn, Collected
  PROVE  IsFiniteSet(InitialReferences)
<1>1. IsFiniteSet(DOMAIN prog.value) /\ IsFiniteSet(Fn)
  BY DEF WellFormed, Fn
<1>2. IsFiniteSet(InitGlobalReferences)
  <2> DEFINE S == {u \in DOMAIN prog.value :
                     prog.value[u].kind = "global" /\ MayShareObject(TypeOf(u))}
             h == [v \in S |-> MakeGlobal(v)]
  <2>1. IsFiniteSet(S)
    BY <1>1, FS_Subset
  <2>2. DOMAIN h = S /\ \A v \in S : h[v] = MakeGlobal(v)
    OBVIOUS
  <2> HIDE DEF h
  <2>3. InitGlobalReferences = {h[v] : v \in DOMAIN h}
    BY <2>2 DEF InitGlobalReferences
  <2> QED BY <2>1, <2>2, <2>3, FiniteImage
<1>3. ASSUME NEW f \in Fn PROVE IsFiniteSet(InitFunction(f))
  <2> DEFINE g == prog.func[f]
             registers == {i \in ToSet(g.body) : "reg" \in DOMAIN i}
             kept == {j \in registers : ReturnTuple(j) \/ MayShareObject(TypeOf(j.reg))}
             params == {v \in ToSet(g.params) \cup ToSet(g.freeVars) : MayShareObject(TypeOf(v))}
             locals == params \cup {i.reg : i \in kept}
             at(v) == {MakeLocal(c, v) : c \in ToSet(GetContexts(v))}
  <2>1. InitFunction(f) = UNION {at(v) : v \in locals}
    BY DEF InitFunction
  <2>2. IsFiniteSet(ToSet(g.body)) /\ IsFiniteSet(ToSet(g.params)) /\ IsFiniteSet(ToSet(g.freeVars))
    <3>1. /\ g.params \in Seq(DOMAIN prog.value) /\ g.freeVars \in Seq(DOMAIN prog.value)
          /\ g.body \in Seq(ToSet(g.body))
      BY DEF WellFormed, Fn
    <3> HIDE DEF g
    <3> QED BY <3>1, FiniteSeq
  <2>3. IsFiniteSet(params)
    <3>1. IsFiniteSet(ToSet(g.params) \cup ToSet(g.freeVars))
      BY <2>2, FS_Union
    <3> HIDE DEF g
    <3> QED BY <3>1, FS_Subset
  <2>4. IsFiniteSet({i.reg : i \in kept})
    <3> DEFINE h == [i \in kept |-> i.reg]
    <3>1. IsFiniteSet(kept)
      <4> HIDE DEF g
      <4> QED BY <2>2, FS_Subset
    <3>2. DOMAIN h = kept /\ {h[i] : i \in DOMAIN h} = {i.reg : i \in kept}
      OBVIOUS
    <3> HIDE DEF h, kept
    <3> QED BY <3>1, <3>2, FiniteImage
  <2>5. IsFiniteSet(locals)
    BY <2>3, <2>4, FS_Union
  <2>6. ASSUME NEW v PROVE IsFiniteSet(at(v))
    <3> DEFINE h == [c \in ToSet(GetContexts(v)) |-> MakeLocal(c, v)]
    <3>1. IsFiniteSet(ToSet(GetContexts(v)))
      BY ContextsAre
    <3>2. DOMAIN h = ToSet(GetContexts(v)) /\ {h[c] : c \in DOMAIN h} = at(v)
      OBVIOUS
    <3> HIDE DEF h, at
    <3> QED BY <3>1, <3>2, FiniteImage
  <2> DEFINE h == [v \in locals |-> at(v)]
  <2> HIDE DEF locals, at
  <2>7. DOMAIN h = locals /\ (\A v \in DOMAIN h : IsFiniteSet(h[v]))
        /\ {h[v] : v \in DOMAIN h} = {at(v) : v \in locals}
    BY <2>6
  <2> HIDE DEF h
  <2>8. IsFiniteSet(UNION {h[v] : v \in DOMAIN h})
    BY <2>5, <2>7, FiniteUnion
  <2> QED BY <2>1, <2>7, <2>8
<1> DEFINE h == [f \in Fn |-> InitFunction(f)]
<1>4. DOMAIN h = Fn /\ (\A f \in DOMAIN h : IsFiniteSet(h[f]))
      /\ {h[f] : f \in DOMAIN h} = {InitFunction(f) : f \in Fn}
  BY <1>3
<1> HIDE DEF h
<1>5. IsFiniteSet(UNION {h[f] : f \in DOMAIN h})
  BY <1>1, <1>4, FiniteUnion
<1>6. IsFiniteSet(UNION {InitFunction(f) : f \in Fn})
  BY <1>4, <1>5
<1> QED BY <1>2, <1>6, FS_Union DEF InitialReferences

(* What never changes of the program and its contexts.                     *)
Given == WellFormed(prog) /\ contextK \in Nat /\ DOMAIN contexts = Fn /\ Collected

(* That is so at the start.                                                *)
LEMMA InitGiven == ASSUME Init PROVE Given
<1>1. WellFormed(prog) /\ contextK \in prog.ks
  BY ProgramsAssumption DEF Init
<1>2. contextK \in Nat
  BY <1>1 DEF WellFormed
<1>3. DOMAIN contexts = Fn /\ Collected
  BY DEF Init, Collected
<1> QED BY <1>1, <1>2, <1>3 DEF Given

(* The heap of the inserted references is sound.                           *)
LEMMA InitSound == ASSUME TaintInit PROVE Sound(Now)
<1> DEFINE R == InitialReferences
<1>1. parents = [r \in R |-> r] /\ partitions = [r \in R |-> Heap!NewPartition]
  BY DEF TaintInit, Init
<1>2. IsFiniteSet(R)
  <2>1. Given
    BY InitGiven DEF TaintInit
  <2> QED BY <2>1, InitialFinite DEF Given
<1> HIDE DEF R
<1>3. Grounded(parents)
  BY <1>1, <1>2 DEF Grounded, Settles
<1>4. Heap!RootsOf(parents) = R /\ DOMAIN partitions = R
  BY <1>1 DEF Heap!RootsOf
<1>5. IsTable(partitions)
  <2>1. IsInfo(Heap!NewPartition)
    BY DEF IsInfo, Heap!NewPartition
  <2> HIDE DEF R
  <2> QED BY <1>1, <2>1 DEF IsTable
<1> QED BY <1>3, <1>4, <1>5 DEF Sound, Now

-----------------------------------------------------------------------------
(* The heap, of the whole analysis.                                        *)
(* The invariant of the heap, through visits, constraints and              *)
(* unifications.                                                           *)
THEOREM HeapSound == Spec => []Sound(Now)
<1>1. TaintInit => Sound(Now)
  BY InitSound
<1>2. Sound(Now) /\ [Next]_taintVars => Sound(Now)'
  <2>1. Sound(Now)' <=> Sound(Now')
    BY DEF Sound, Now
  <2> QED BY <2>1, StepSound
<1> QED BY <1>1, <1>2, PTL DEF Spec

(* state.go partitionInfo: its log.Fatalf is not reached. Of any program   *)
(* and any order of the visits, every reference has a representative that  *)
(* the partition table knows.                                              *)
THEOREM RepresentativesAreKnown == Spec => []RepresentativesKnown
<1>1. Sound(Now) => RepresentativesKnown
  BY SoundImplies
<1> QED BY <1>1, HeapSound, PTL

(* state.go Unify is the only operation of the analysis that joins         *)
(* partitions, and it joins those of one pending pair; no operation splits *)
(* a partition, takes a reference out or drops a field.                    *)
THEOREM HeapOnlyGrows == Spec => HeapGrows
<1>1. Sound(Now) /\ [Next]_taintVars
        => [/\ \A r \in DOMAIN parents : Kept(r)
            /\ Joins({}) \/ \E pair \in PendingPairs : Joins({pair})]_analysisVars
  BY StepGrows
<1> QED BY <1>1, HeapSound, PTL DEF Spec, HeapGrows

-----------------------------------------------------------------------------
(* The functions near another are the iterate of one call, either way.     *)
LinkedTo(g) ==
  {h \in Fn : \E i \in Calls(g) : i.callee = h} \cup {h \in Fn : \E i \in Calls(h) : i.callee = g}
OneCall == [S \in SUBSET Fn |-> S \cup UNION {LinkedTo(g) : g \in S}]

(* Near, of a number of calls and of one more.                             *)
LEMMA NearIs ==
  ASSUME NEW f \in Fn
  PROVE  /\ Near(f, 0) = {f}
         /\ \A n \in Nat : /\ Near(f, n) \in SUBSET Fn
                           /\ Near(f, n + 1) = Near(f, n) \cup UNION {LinkedTo(g) : g \in Near(f, n)}
<1> DEFINE F == Iterate(SUBSET Fn, OneCall, {f})
<1>1. OneCall \in [SUBSET Fn -> SUBSET Fn]
  BY DEF OneCall, LinkedTo
<1>2. F \in [Nat -> SUBSET Fn] /\ Iterates(SUBSET Fn, OneCall, {f}, F)
  BY <1>1, IterateIs
<1>3. ASSUME NEW n \in Nat PROVE Near(f, n) = F[n]
  <2> DEFINE Body(h) == [k \in 0..n |-> IF k = 0 THEN {f}
                                        ELSE h[k - 1] \cup UNION {LinkedTo(g) : g \in h[k - 1]}]
             h0 == [k \in 0..n |-> F[k]]
             h1 == CHOOSE h : h = Body(h)
             S == {k \in Nat : k <= n => h1[k] = F[k]}
  <2>1. Near(f, n) = h1[n]
    BY DEF Near, LinkedTo
  <2> HIDE DEF F
  <2>2. h0 = Body(h0)
    <3> SUFFICES ASSUME NEW k \in 0..n PROVE h0[k] = Body(h0)[k]
      OBVIOUS
    <3>1. CASE k = 0
      BY <1>2, <3>1 DEF Iterates
    <3>2. CASE k # 0
      <4>1. k - 1 \in 0..n /\ k - 1 \in Nat /\ (k - 1) + 1 = k
        BY <3>2
      <4>2. F[k] = OneCall[F[k - 1]] /\ F[k - 1] \in SUBSET Fn
        BY <1>2, <4>1 DEF Iterates
      <4> QED BY <3>2, <4>1, <4>2 DEF OneCall
    <3> QED BY <3>1, <3>2
  <2>3. h1 = Body(h1)
    <3> HIDE DEF Body, h0
    <3> QED BY <2>2
  <2> HIDE DEF h1
  <2>4. /\ Body(h1)[0] = {f}
        /\ \A k \in Nat : k + 1 <= n =>
             Body(h1)[k + 1] = h1[k] \cup UNION {LinkedTo(g) : g \in h1[k]}
    OBVIOUS
  <2> HIDE DEF Body
  <2>5. 0 \in S
    BY <1>2, <2>3, <2>4 DEF Iterates
  <2>6. ASSUME NEW k \in S PROVE k + 1 \in S
    <3> SUFFICES ASSUME k + 1 <= n PROVE h1[k + 1] = F[k + 1]
      OBVIOUS
    <3>1. k \in Nat /\ k <= n /\ h1[k] = F[k]
      OBVIOUS
    <3>2. F[k + 1] = OneCall[F[k]] /\ F[k] \in SUBSET Fn
      BY <1>2, <3>1 DEF Iterates
    <3> QED BY <2>3, <2>4, <3>1, <3>2 DEF OneCall
  <2>7. S = Nat
    <3> HIDE DEF S
    <3> QED BY <2>5, <2>6, Induction DEF S
  <2>8. h1[n] = F[n]
    BY <2>7
  <2> QED BY <2>1, <2>8
<1> HIDE DEF F
<1>4. Near(f, 0) = {f}
  BY <1>2, <1>3 DEF Iterates
<1>5. ASSUME NEW n \in Nat
      PROVE  /\ Near(f, n) \in SUBSET Fn
             /\ Near(f, n + 1) = Near(f, n) \cup UNION {LinkedTo(g) : g \in Near(f, n)}
  <2>1. n + 1 \in Nat /\ F[n + 1] = OneCall[F[n]] /\ F[n] \in SUBSET Fn
    BY <1>2 DEF Iterates
  <2> QED BY <1>3, <2>1 DEF OneCall
<1> QED BY <1>4, <1>5

(* More calls lead to no fewer functions.                                  *)
LEMMA NearGrows ==
  ASSUME NEW f \in Fn, NEW m \in Nat, NEW n \in Nat, m <= n
  PROVE  Near(f, m) \subseteq Near(f, n)
<1> DEFINE S == {d \in Nat : Near(f, m) \subseteq Near(f, m + d)}
<1>1. 0 \in S
  OBVIOUS
<1>2. ASSUME NEW d \in S PROVE d + 1 \in S
  <2>1. m + d \in Nat /\ m + (d + 1) = (m + d) + 1
    OBVIOUS
  <2>2. Near(f, m + d) \subseteq Near(f, (m + d) + 1)
    BY <2>1, NearIs
  <2> QED BY <1>2, <2>1, <2>2
<1>3. S = Nat
  <2> HIDE DEF S
  <2> QED BY <1>1, <1>2, Induction DEF S
<1>4. n - m \in Nat /\ m + (n - m) = n
  OBVIOUS
<1> QED BY <1>3, <1>4

-----------------------------------------------------------------------------
IsSeq(s) == \E T : s \in Seq(T)

(* Activations of the search, whose edges lead to functions as near as the *)
(* depth that is left tells.                                               *)
Activations ==
  {frame \in [depth : 0..span, callees : SUBSET Fn, callers : SUBSET Fn] :
     frame.callees \cup frame.callers \subseteq Near(start, span - frame.depth)}

SearchInv ==
  /\ WellFormed(prog) /\ span \in Nat
  /\ awaiting \subseteq DOMAIN prog.sources
  /\ IsSeq(srcRefs)
  /\ start # "" => /\ start \in DOMAIN prog.sources
                   /\ stack \in Seq(Activations)
                   /\ reachable # {} => span > 0 /\ reachable \subseteq Near(start, span - 1)
  /\ asked # NoSink => start # "" /\ stack = <<>> /\ \E f \in reachable : asked \in Sinks(f)
  /\ TracesWithinSpan

(* Calls and panics are what the assumption calls sited.                   *)
LEMMA SitedIs ==
  ASSUME NEW f \in Fn, NEW i \in ToSet(prog.func[f].body), i.is \in CallKinds \cup {"Panic"}
  PROVE  <<f, i>> \in Sited(prog)
<1> DEFINE at(g) == {<<g, j>> : j \in {k \in ToSet(prog.func[g].body) : k.is \in CallKinds \cup {"Panic"}}}
<1>1. Sited(prog) = UNION {at(g) : g \in Fn}
  BY DEF Sited, Fn
<1>2. <<f, i>> \in at(f)
  OBVIOUS
<1> HIDE DEF at
<1> QED BY <1>1, <1>2

(* A step of the search of the call graph keeps to the span.               *)
LEMMA InSpan ==
  ASSUME WellFormed(prog), span \in Nat, start \in Fn, stack \in Seq(Activations),
         reachable # {} => span > 0 /\ reachable \subseteq Near(start, span - 1),
         Span!Next
  PROVE  /\ stack' \in Seq(Activations)
         /\ reachable' # {} => span > 0 /\ reachable' \subseteq Near(start, span - 1)
<1> DEFINE frame == Head(stack)
<1>1. ASSUME stack # <<>>
      PROVE  /\ frame \in Activations /\ Tail(stack) \in Seq(Activations)
             /\ frame = [depth |-> frame.depth, callees |-> frame.callees, callers |-> frame.callers]
             /\ frame.depth \in 0..span /\ frame.callees \in SUBSET Fn /\ frame.callers \in SUBSET Fn
             /\ frame.callees \cup frame.callers \subseteq Near(start, span - frame.depth)
  <2>1. frame \in Activations /\ Tail(stack) \in Seq(Activations)
    BY <1>1
  <2> HIDE DEF frame
  <2> QED BY <2>1 DEF Activations
<1>2. ASSUME stack # <<>>, NEW f
      PROVE  Span!Followed(frame, f) \in Activations
  <2>1. /\ frame = [depth |-> frame.depth, callees |-> frame.callees, callers |-> frame.callers]
        /\ frame.depth \in 0..span /\ frame.callees \in SUBSET Fn /\ frame.callers \in SUBSET Fn
        /\ frame.callees \cup frame.callers \subseteq Near(start, span - frame.depth)
    BY <1>1, <1>2
  <2> HIDE DEF frame
  <2>2. \/ Span!Followed(frame, f) = [depth |-> frame.depth, callees |-> frame.callees \ {f},
                                      callers |-> frame.callers]
        \/ Span!Followed(frame, f) = [depth |-> frame.depth, callees |-> frame.callees,
                                      callers |-> frame.callers \ {f}]
    BY <2>1 DEF Span!Followed
  <2> QED BY <2>1, <2>2 DEF Activations
<1>3. CASE Span!Return
  BY <1>1, <1>3 DEF Span!Return
<1>4. ASSUME NEW f, Span!Skip(f)
      PROVE  stack' \in Seq(Activations) /\ reachable' = reachable
  <2>1. stack # <<>> /\ stack' = <<Span!Followed(frame, f)>> \o Tail(stack) /\ reachable' = reachable
    BY <1>4 DEF Span!Skip
  <2>2. Span!Followed(frame, f) \in Activations /\ Tail(stack) \in Seq(Activations)
    BY <1>1, <1>2, <2>1
  <2> HIDE DEF frame
  <2> QED BY <2>1, <2>2
<1>5. ASSUME NEW f, Span!Enter(f)
      PROVE  /\ stack' \in Seq(Activations)
             /\ span > 0 /\ reachable' \subseteq Near(start, span - 1)
  <2> DEFINE new == [depth |-> frame.depth - 1, callees |-> Span!Callees(f),
                     callers |-> Span!Callers(f)]
  <2>1. /\ stack # <<>> /\ f \in Span!Following(frame) /\ frame.depth > 0
        /\ reachable' = reachable \cup {f}
        /\ stack' = <<new, Span!Followed(frame, f)>> \o Tail(stack)
    BY <1>5 DEF Span!Enter
  <2>2. /\ frame.depth \in 0..span
        /\ f \in Near(start, span - frame.depth) /\ f \in Fn
        /\ Span!Followed(frame, f) \in Activations /\ Tail(stack) \in Seq(Activations)
    BY <1>1, <1>2, <2>1 DEF Span!Following
  <2>3. Span!Callees(f) \cup Span!Callers(f) \subseteq LinkedTo(f)
    <3>1. ASSUME NEW h \in Fn, NEW i \in Calls(h) PROVE i.callee \in Fn
      <4>1. i \in ToSet(prog.func[h].body) /\ i.is \in CallKinds /\ i.callee # ""
        BY DEF Calls
      <4>2. <<h, i>> \in Sited(prog)
        BY <4>1, SitedIs
      <4>3. <<h, i>>[2].is \in CallKinds => <<h, i>>[2].callee \in Fn \cup {""}
        BY <4>2 DEF WellFormed, Fn
      <4> QED BY <4>1, <4>3
    <3>2. ASSUME NEW g, NEW h,
                 <<g, h>> \in UNION {{<<e, i.callee>> : i \in Calls(e)} : e \in Fn}
          PROVE  g \in Fn /\ h \in Fn /\ \E i \in Calls(g) : i.callee = h
      BY <3>1, <3>2
    <3> QED BY <3>2, <2>2 DEF Span!Callees, Span!Callers, LinkedTo
  <2> HIDE DEF frame
  <2>4. span - frame.depth \in Nat /\ span - 1 \in Nat /\ span - frame.depth <= span - 1
        /\ span - (frame.depth - 1) = (span - frame.depth) + 1 /\ frame.depth - 1 \in 0..span
    BY <2>1, <2>2
  <2>5. f \in Near(start, span - 1)
    BY <2>2, <2>4, NearGrows
  <2>6. /\ Near(start, span - (frame.depth - 1)) \in SUBSET Fn
        /\ LinkedTo(f) \subseteq Near(start, span - (frame.depth - 1))
    <3> DEFINE m == span - frame.depth
    <3>0. m \in Nat /\ m + 1 \in Nat
      BY <2>4
    <3>1. /\ Near(start, (span - frame.depth) + 1)
               = Near(start, span - frame.depth)
                 \cup UNION {LinkedTo(g) : g \in Near(start, span - frame.depth)}
          /\ (span - frame.depth) + 1 \in Nat
      <4> HIDE DEF m
      <4>1. Near(start, m + 1) = Near(start, m) \cup UNION {LinkedTo(g) : g \in Near(start, m)}
        BY <3>0, NearIs
      <4> QED BY <3>0, <4>1 DEF m
    <3>2. LinkedTo(f) \subseteq Near(start, (span - frame.depth) + 1)
      BY <2>2, <3>1
    <3> QED BY <2>4, <3>1, <3>2, NearIs
  <2>7. new \in Activations
    BY <2>3, <2>4, <2>6 DEF Activations
  <2> HIDE DEF new
  <2>8. stack' \in Seq(Activations)
    BY <2>1, <2>2, <2>7
  <2>9. span > 0
    BY <2>1, <2>2
  <2> QED BY <2>1, <2>5, <2>8, <2>9
<1> QED BY <1>3, <1>4, <1>5 DEF Span!Next, Span!Return

(* What is marked as tainted goes to the result for the source at work.    *)
LEMMA TaintsKeepsSeq ==
  ASSUME IsSeq(srcRefs), NEW found, Taints(found)
  PROVE  IsSeq(srcRefs)'
<1>1. PICK T : srcRefs \in Seq(T)
  BY DEF IsSeq
<1> DEFINE L == Len(srcRefs)
           new == srcRefs[L] \cup found
<1>2. srcRefs' = [srcRefs EXCEPT ![L] = new]
  BY DEF Taints
<1> HIDE DEF new
<1>3. srcRefs \in Seq(T \cup {new})
  BY <1>1
<1>4. L \in Nat /\ DOMAIN srcRefs = 1..L /\ srcRefs = [n \in 1..L |-> srcRefs[n]]
      /\ \A n \in 1..L : srcRefs[n] \in T \cup {new}
  BY <1>3
<1> HIDE DEF L
<1>5. srcRefs' = [n \in 1..L |-> IF n = L THEN new ELSE srcRefs[n]]
  BY <1>2, <1>4
<1>6. srcRefs' \in [1..L -> T \cup {new}]
  BY <1>4, <1>5
<1>7. srcRefs' \in Seq(T \cup {new})
  BY <1>4, <1>6
<1> QED BY <1>7 DEF IsSeq

(* What a sink is traced to is a source of the function ranged over.       *)
LEMMA ReachIs ==
  ASSUME WellFormed(prog), start \in DOMAIN prog.sources, IsSeq(srcRefs),
         Len(srcRefs) = Len(Sources(start)), NEW v \in CanReach
  PROVE  prog.value[v].in = start
<1>1. PICK m : /\ {n \in DOMAIN srcRefs : m \in srcRefs[n]} # {}
               /\ v = Sources(start)[CHOOSE n \in {k \in DOMAIN srcRefs : m \in srcRefs[k]} :
                        \A k \in {l \in DOMAIN srcRefs : m \in srcRefs[l]} : n <= k]
  BY DEF CanReach
<1> DEFINE hit == {n \in DOMAIN srcRefs : m \in srcRefs[n]}
           first == CHOOSE n \in hit : \A k \in hit : n <= k
<1>2. Len(srcRefs) \in Nat /\ DOMAIN srcRefs = 1..Len(srcRefs)
  BY DEF IsSeq
<1>3. first \in hit
  <2>1. hit \in SUBSET Nat /\ hit # {}
    BY <1>1, <1>2
  <2> HIDE DEF hit
  <2>2. \E n \in hit : \A k \in hit : n <= k
    BY <2>1, Least
  <2> QED BY <2>2
<1>4. Sources(start) \in Seq({u \in DOMAIN prog.value : prog.value[u].in = start})
  BY DEF WellFormed, Sources
<1>5. first \in 1..Len(Sources(start)) /\ v = Sources(start)[first]
  <2>1. v = Sources(start)[first]
    BY <1>1
  <2>2. first \in DOMAIN srcRefs
    BY <1>3
  <2> HIDE DEF first
  <2> QED BY <1>2, <2>1, <2>2
<1> HIDE DEF first
<1>6. v \in {u \in DOMAIN prog.value : prog.value[u].in = start}
  BY <1>4, <1>5
<1> QED BY <1>6

(* A sink is in one function only.                                         *)
LEMMA SinkIsIn ==
  ASSUME WellFormed(prog), NEW f \in Fn, NEW i \in Sinks(f)
  PROVE  FnOf(i) = f
<1>1. i \in ToSet(prog.func[f].body) /\ i.is \in CallKinds \cup {"Panic"}
  BY DEF Sinks, CallKinds
<1>2. ASSUME NEW g \in Fn, i \in ToSet(prog.func[g].body) PROVE g = f
  <2>1. <<g, i>> \in Sited(prog) /\ <<f, i>> \in Sited(prog)
    BY <1>1, <1>2 DEF Sited, Fn
  <2>2. <<g, i>>[2].site = <<f, i>>[2].site
    OBVIOUS
  <2> QED BY <2>1, <2>2 DEF WellFormed
<1> QED BY <1>1, <1>2 DEF FnOf

(* The invariant of the search is inductive.                               *)
LEMMA SearchStep ==
  ASSUME SearchInv, [Next]_taintVars
  PROVE  SearchInv'
<1>1. /\ WellFormed(prog) /\ span \in Nat
      /\ awaiting \subseteq DOMAIN prog.sources
      /\ IsSeq(srcRefs)
      /\ start # "" => /\ start \in DOMAIN prog.sources
                       /\ stack \in Seq(Activations)
                       /\ reachable # {} => span > 0 /\ reachable \subseteq Near(start, span - 1)
      /\ asked # NoSink => start # "" /\ stack = <<>> /\ \E f \in reachable : asked \in Sinks(f)
      /\ TracesWithinSpan
  BY DEF SearchInv
<1>0. span \in Nat /\ WellFormed(prog)
  BY DEF SearchInv
<1>2. DOMAIN prog.sources \subseteq Fn
  BY <1>1 DEF WellFormed, Fn
<1>3. prog' = prog /\ span' = span
  BY DEF Next, taintVars, analysisVars, searchVars, AnalysisNext, SearchNext, Terminated,
         VisitFunction, VisitInstruction, AssertNext, StepUnify, UnifyPending, Finish,
         RangeOver, ExploreSpan, SearchSource, SrcRefs, TaintField, SinkOperand, FieldRefs,
         LookAt, TraceSink, NextFunction, Span!Next, Span!Enter, Span!Skip, Span!Return
<1>4. /\ \A f, n : Near(f, n)' = Near(f, n)
      /\ \A i : FnOf(i)' = FnOf(i)
      /\ \A f : Sinks(f)' = Sinks(f)
      /\ Fn' = Fn
  BY <1>3 DEF Near, Calls, Fn, FnOf, Sinks
<1>5. ASSUME UNCHANGED traces PROVE TracesWithinSpan'
  BY <1>1, <1>3, <1>4, <1>5 DEF TracesWithinSpan
<1>6. ASSUME UNCHANGED <<start, stack, reachable>>
      PROVE  start # "" => /\ start \in DOMAIN prog.sources
                           /\ (stack \in Seq(Activations))'
                           /\ reachable # {} => span > 0 /\ reachable \subseteq Near(start, span - 1)
  <2>1. start' = start
    BY <1>6
  <2>2. Activations' = Activations
    BY <2>1, <1>3, <1>4 DEF Activations
  <2> QED BY <1>1, <1>6, <2>2
<1>6a. ASSUME UNCHANGED <<start, stack, reachable, awaiting>>, IsSeq(srcRefs)', TracesWithinSpan',
              asked' # NoSink =>
                start # "" /\ stack = <<>> /\ \E f \in reachable : asked' \in Sinks(f)
       PROVE  SearchInv'
  <2>1. start' # "" => /\ start' \in DOMAIN prog'.sources
                       /\ (stack \in Seq(Activations))'
                       /\ reachable' # {} => span' > 0 /\ reachable' \subseteq Near(start, span - 1)'
    <3>1. UNCHANGED <<start, stack, reachable>>
      BY <1>6a
    <3>2. start # "" => /\ start \in DOMAIN prog.sources
                        /\ (stack \in Seq(Activations))'
                        /\ reachable # {} => span > 0 /\ reachable \subseteq Near(start, span - 1)
      BY <1>6, <3>1
    <3>3. Near(start, span - 1)' = Near(start, span - 1)
      BY <1>3, <1>4, <3>1
    <3> QED BY <1>3, <3>1, <3>2, <3>3
  <2>2. (asked # NoSink => start # "" /\ stack = <<>> /\ \E f \in reachable : asked \in Sinks(f))'
    BY <1>4, <1>6a DEF NoSink
  <2>3. (WellFormed(prog) /\ span \in Nat /\ awaiting \subseteq DOMAIN prog.sources)'
    BY <1>1, <1>3, <1>6a
  <2> QED BY <1>6a, <2>1, <2>2, <2>3 DEF SearchInv, NoSink
<1>7. ASSUME UNCHANGED <<start, stack, reachable, asked, traces>>,
             awaiting' \subseteq DOMAIN prog.sources, IsSeq(srcRefs)'
      PROVE  SearchInv'
  BY <1>1, <1>3, <1>4, <1>5, <1>6, <1>7 DEF SearchInv, NoSink
<1>8. CASE UNCHANGED searchVars
  BY <1>1, <1>3, <1>7, <1>8 DEF searchVars, canReachVars, IsSeq
<1>9. CASE Terminated
  BY <1>8, <1>9 DEF Terminated, taintVars
<1>10. ASSUME NEW f \in awaiting, RangeOver(f) PROVE SearchInv'
  <2>1. /\ f \in DOMAIN prog.sources /\ f \in Fn
        /\ awaiting' \subseteq awaiting /\ start' = f /\ reachable' = {} /\ srcRefs' = <<>>
        /\ stack' = <<[depth |-> span, callees |-> {f}, callers |-> {}]>>
        /\ asked' = asked /\ asked = NoSink /\ traces' = traces
    BY <1>1, <1>2, <1>10 DEF RangeOver, canReachVars
  <2>2. (\A frame : frame \in Activations' <=>
          /\ frame \in [depth : 0..span, callees : SUBSET Fn, callers : SUBSET Fn]
          /\ frame.callees \cup frame.callers \subseteq Near(f, span - frame.depth))
    BY <1>3, <1>4, <2>1 DEF Activations
  <2>3. Near(f, span - span) = {f}
    <3>1. span - span = 0
      BY <1>0
    <3> QED BY <2>1, <3>1, NearIs
  <2>4. [depth |-> span, callees |-> {f}, callers |-> {}] \in Activations'
    BY <1>0, <2>1, <2>2, <2>3
  <2>5. stack' \in Seq(Activations')
    BY <2>1, <2>4
  <2>6. IsSeq(srcRefs)'
    BY <2>1 DEF IsSeq
  <2> QED BY <1>1, <1>3, <1>5, <2>1, <2>5, <2>6 DEF SearchInv, NoSink
<1>11. CASE ExploreSpan
  <2>1. /\ Span!Next /\ awaiting' = awaiting /\ srcRefs' = srcRefs /\ traces' = traces
        /\ start' = start /\ asked' = asked /\ asked = NoSink
    BY <1>1, <1>11
       DEF ExploreSpan, canReachVars, Span!Next, Span!Return, Span!Enter, Span!Skip
  <2>2. IsSeq(srcRefs)'
    BY <1>1, <2>1 DEF IsSeq
  <2>3. CASE start = ""
    BY <1>1, <1>3, <1>5, <2>1, <2>2, <2>3 DEF SearchInv, NoSink
  <2>4. CASE start # ""
    <3>1. /\ stack' \in Seq(Activations)
          /\ reachable' # {} => span > 0 /\ reachable' \subseteq Near(start, span - 1)
      BY <1>1, <1>2, <2>1, <2>4, InSpan
    <3>2. Activations' = Activations
      BY <1>3, <1>4, <2>1 DEF Activations
    <3>3. reachable' # {} => span > 0 /\ reachable' \subseteq Near(start, span - 1)'
      BY <1>3, <1>4, <2>1, <3>1
    <3> QED BY <1>1, <1>3, <1>5, <2>1, <2>2, <3>1, <3>2, <3>3 DEF SearchInv, NoSink
  <2> QED BY <2>3, <2>4
<1>12. CASE SearchSource
  <2>1. /\ UNCHANGED <<start, stack, reachable, asked, traces>> /\ awaiting' = awaiting
        /\ srcRefs' = Append(srcRefs, {})
    BY <1>12 DEF SearchSource, canReachVars
  <2>2. IsSeq(srcRefs)'
    <3>1. PICK T : srcRefs \in Seq(T)
      BY <1>1 DEF IsSeq
    <3>2. srcRefs' \in Seq(T \cup {{}})
      <4>1. srcRefs \in Seq(T \cup {{}}) /\ {} \in T \cup {{}}
        BY <3>1
      <4> QED BY <2>1, <4>1
    <3> QED BY <3>2 DEF IsSeq
  <2> QED BY <1>1, <1>7, <2>1, <2>2
<1>13. ASSUME NEW call \in pending, SrcRefs(call[1], call[2]) PROVE SearchInv'
  <2>1. /\ UNCHANGED <<start, stack, reachable, asked, traces>> /\ awaiting' = awaiting
        /\ Taints(Marked(call[1], call[2]))
    BY <1>13 DEF SrcRefs, canReachVars
  <2> QED BY <1>1, <1>7, <2>1, TaintsKeepsSeq
<1>14. ASSUME NEW ref, TaintField(ref) PROVE SearchInv'
  <2>1. /\ UNCHANGED <<start, stack, reachable, asked, traces>> /\ awaiting' = awaiting
        /\ Taints({ref} \cup WithinCallees(ref))
    BY <1>14 DEF TaintField, canReachVars
  <2> QED BY <1>1, <1>7, <2>1, TaintsKeepsSeq
<1>15. ASSUME NEW ref, SinkOperand(ref) PROVE SearchInv'
  <2>1. UNCHANGED <<start, stack, reachable, asked, traces>> /\ awaiting' = awaiting
        /\ srcRefs' = srcRefs
    BY <1>15 DEF SinkOperand
  <2>2. IsSeq(srcRefs)'
    BY <1>1, <2>1 DEF IsSeq
  <2> QED BY <1>1, <1>7, <2>1, <2>2
<1>16. ASSUME NEW ref, FieldRefs(ref) PROVE SearchInv'
  <2>1. /\ UNCHANGED <<start, stack, reachable, asked, traces>> /\ awaiting' = awaiting
        /\ srcRefs' = srcRefs \/ Taints(WithinCallees(ref))
    BY <1>16 DEF FieldRefs, Collects
  <2>2. IsSeq(srcRefs)'
    BY <1>1, <2>1, TaintsKeepsSeq DEF IsSeq
  <2> QED BY <1>1, <1>7, <2>1, <2>2
<1>17. ASSUME NEW i, LookAt(i) PROVE SearchInv'
  <2>1. /\ start # "" /\ stack = <<>> /\ i \in UNION {Sinks(f) : f \in reachable}
        /\ UNCHANGED <<start, stack, reachable, traces>> /\ awaiting' = awaiting
        /\ asked' = i /\ srcRefs' = srcRefs
    BY <1>17 DEF LookAt, SourcesSearched, SpanKnown
  <2>2. IsSeq(srcRefs)'
    BY <1>1, <2>1 DEF IsSeq
  <2>3. TracesWithinSpan'
    BY <1>5, <2>1
  <2> QED BY <1>6a, <2>1, <2>2, <2>3
<1>18. CASE TraceSink
  <2>1. /\ start # "" /\ Len(srcRefs) = Len(Sources(start)) /\ asked # NoSink
        /\ UNCHANGED <<start, stack, reachable, srcRefs>> /\ awaiting' = awaiting
        /\ asked' = NoSink
    BY <1>18 DEF TraceSink, SourcesSearched, SpanKnown
  <2>2. PICK f \in reachable : asked \in Sinks(f)
    BY <1>1, <2>1
  <2>3. ASSUME NEW v \in CanReach
        PROVE  span > 0 /\ FnOf(asked) \in Near(prog.value[v].in, span - 1)
    <3>1. prog.value[v].in = start
      BY <1>1, <2>1, ReachIs
    <3>2. span > 0 /\ f \in Near(start, span - 1)
      BY <1>1, <2>1, <2>2
    <3>3. Near(start, span - 1) \in SUBSET Fn
      <4>1. start \in Fn
        BY <1>1, <1>2, <2>1
      <4>2. span - 1 \in Nat
        BY <1>0, <3>2
      <4> QED BY <4>1, <4>2, NearIs
    <3>4. FnOf(asked) = f
      BY <1>1, <2>2, <3>2, <3>3, SinkIsIn
    <3> QED BY <3>1, <3>2, <3>4
  <2>4. TracesWithinSpan'
    <3>1. CASE UNCHANGED traces
      BY <1>5, <3>1
    <3>2. ASSUME NEW v \in CanReach,
                 traces' = [i \in DOMAIN traces \cup {asked} |->
                              IF i = asked THEN v ELSE traces[i]],
                 NEW i \in DOMAIN traces'
          PROVE  span > 0 /\ FnOf(i) \in Near(prog.value[traces'[i]].in, span - 1)
      <4>1. CASE i = asked
        BY <2>3, <3>2, <4>1
      <4>2. CASE i # asked
        BY <1>1, <3>2, <4>2 DEF TracesWithinSpan
      <4> QED BY <4>1, <4>2
    <3>3. \/ UNCHANGED traces
          \/ \E v \in CanReach :
               traces' = [i \in DOMAIN traces \cup {asked} |-> IF i = asked THEN v ELSE traces[i]]
      BY <1>18 DEF TraceSink
    <3> QED BY <1>3, <1>4, <3>1, <3>2, <3>3 DEF TracesWithinSpan
  <2>5. IsSeq(srcRefs)'
    BY <1>1, <2>1 DEF IsSeq
  <2> QED BY <1>6a, <2>1, <2>4, <2>5
<1>19. CASE NextFunction
  <2>1. /\ start' = "" /\ awaiting' = awaiting /\ srcRefs' = srcRefs /\ traces' = traces
        /\ asked' = NoSink
    BY <1>19 DEF NextFunction
  <2>2. IsSeq(srcRefs)'
    BY <1>1, <2>1 DEF IsSeq
  <2> QED BY <1>1, <1>3, <1>5, <2>1, <2>2 DEF SearchInv, NoSink
<1>20. CASE AnalysisNext /\ UNCHANGED searchVars
  BY <1>8, <1>20
<1>21. CASE SearchNext
  BY <1>10, <1>11, <1>12, <1>13, <1>14, <1>15, <1>16, <1>17, <1>18, <1>19, <1>21 DEF SearchNext
<1> QED BY <1>8, <1>9, <1>20, <1>21 DEF Next, taintVars

(* taint.go:163 "Argument depth controls the depth of the call chain": the *)
(* sink of every trace is in a function less than the span away from the   *)
(* function of its source, in whatever order functions, call edges,        *)
(* sources and references are ranged over.                                 *)
THEOREM TracesKeepToSpan == Spec => []TracesWithinSpan
<1>1. TaintInit => SearchInv
  <2> SUFFICES ASSUME TaintInit PROVE SearchInv
    OBVIOUS
  <2>1. Given
    BY InitGiven DEF TaintInit
  <2>2. span \in Nat
    <3>1. span \in prog.spans
      BY DEF TaintInit
    <3> QED BY <2>1, <3>1 DEF Given, WellFormed
  <2>3. IsSeq(srcRefs)
    <3>1. <<>> \in Seq({})
      OBVIOUS
    <3> QED BY <3>1 DEF TaintInit, IsSeq
  <2>4. TracesWithinSpan
    <3>1. DOMAIN traces = {}
      <4>1. traces = <<>>
        BY DEF TaintInit
      <4>2. DOMAIN <<>> = {}
        OBVIOUS
      <4> QED BY <4>1, <4>2
    <3> QED BY <3>1 DEF TracesWithinSpan
  <2>5. start = "" /\ asked = NoSink /\ awaiting = DOMAIN prog.sources
    BY DEF TaintInit
  <2> QED BY <2>1, <2>2, <2>3, <2>4, <2>5 DEF SearchInv, Given
<1>2. SearchInv => TracesWithinSpan
  BY DEF SearchInv
<1> QED BY <1>1, <1>2, SearchStep, PTL DEF Spec

-----------------------------------------------------------------------------
(* Precision.  A heap is justified by a labelling of the references: what  *)
(* is in one partition has one label.                                      *)

(* A labelling of references: fl[fd] says which label the field fd of a    *)
(* label has, and what a reference points to is labelled accordingly.      *)
Labelling(Rs, lab, fl) ==
  /\ PointTo \in DOMAIN fl
  /\ \A r \in Rs : /\ MakeSynthetic("*", r) \in Rs
                   /\ lab[MakeSynthetic("*", r)] = fl[PointTo][lab[r]]

(* A heap that the labelling justifies: references of a partition have one *)
(* label, and what a field holds has that of the field.                    *)
FieldHolds(Rs, lab, fl, rep, fd, v) == v \in Rs /\ lab[v] = fl[fd][lab[rep]]
Labelled(Rs, lab, fl, h) ==
  /\ DOMAIN h.p \subseteq Rs
  /\ \A r \in DOMAIN h.p : lab[Root(h.p, r)] = lab[r]
  /\ \A rep \in DOMAIN h.q : \A fd \in DOMAIN FieldsAt(h.q, rep) :
       FieldHolds(Rs, lab, fl, rep, fd, FieldsAt(h.q, rep)[fd])

(* The pairs that may be unified.                                          *)
Alike(Rs, lab) == {u \in Rs \X Rs : lab[u[1]] = lab[u[2]]}

(* A representative has an entry in the table.                             *)
LEMMA RootInTable ==
  ASSUME NEW h, Sound(h), NEW r \in DOMAIN h.p
  PROVE  Root(h.p, r) \in DOMAIN h.q /\ Root(h.p, r) \in DOMAIN h.p
BY RootExists DEF Sound, Heap!RootsOf

(* What is found in a field has the label of the field.                    *)
LEMMA FieldIsLabelled ==
  ASSUME NEW h, Sound(h), NEW Rs, NEW lab, NEW fl, Labelled(Rs, lab, fl, h),
         NEW r \in DOMAIN h.p, NEW fd \in DOMAIN Fields(h, r)
  PROVE  Fields(h, r)[fd] \in Rs /\ lab[Fields(h, r)[fd]] = fl[fd][lab[r]]
<1>1. Root(h.p, r) \in DOMAIN h.q
  BY RootInTable
<1>2. Fields(h, r) = FieldsAt(h.q, Root(h.p, r))
  BY DEF Fields, FieldsAt
<1> QED BY <1>1, <1>2 DEF Labelled, FieldHolds

(* Lookups of references keep a heap labelled.                             *)
LEMMA AfterIsLabelled ==
  ASSUME NEW h, Sound(h), NEW Rs, NEW lab, NEW fl, Labelled(Rs, lab, fl, h),
         NEW R \in SUBSET Rs, IsFiniteSet(R)
  PROVE  /\ Sound(After(h, R))
         /\ DOMAIN After(h, R).p = DOMAIN h.p \cup R
         /\ Labelled(Rs, lab, fl, After(h, R))
<1> DEFINE h1 == After(h, R)
<1>1. /\ Enlarges(h, h1)
      /\ DOMAIN h1.p = DOMAIN h.p \cup R
      /\ \A r \in DOMAIN h.p \cup R : Root(h1.p, r) = Rep(h.p, r)
  BY AfterEnlarges
<1>2. Widens(h.q, h1.q, R \ DOMAIN h.p)
  <2>1. IsTable(h.q)
    BY DEF Sound
  <2>2. h1.q = Heap!LookupInfo(h.p, h.q, R)
    BY DEF After
  <2> HIDE DEF h1
  <2> QED BY <2>1, <2>2, LookupInfoIs
<1>3. Sound(h1)
  BY <1>1 DEF Enlarges
<1> HIDE DEF h1
<1>4. ASSUME NEW r \in DOMAIN h1.p PROVE lab[Root(h1.p, r)] = lab[r]
  BY <1>1 DEF Rep, Labelled
<1>5. ASSUME NEW x \in DOMAIN h1.q, NEW fd \in DOMAIN FieldsAt(h1.q, x)
      PROVE  FieldHolds(Rs, lab, fl, x, fd, FieldsAt(h1.q, x)[fd])
  <2>1. x \in DOMAIN h.q /\ FieldsAt(h1.q, x) = FieldsAt(h.q, x)
    BY <1>2, <1>5 DEF Widens, FieldsAt
  <2> QED BY <1>5, <2>1 DEF Labelled
<1>6. DOMAIN h1.p \subseteq Rs
  BY <1>1 DEF Labelled
<1>7. Labelled(Rs, lab, fl, h1)
  BY <1>4, <1>5, <1>6 DEF Labelled
<1> QED BY <1>1, <1>3, <1>7 DEF h1

(* So does a write of a value with the label of the field.                 *)
LEMMA PutIsLabelled ==
  ASSUME NEW h, Sound(h), NEW Rs, NEW lab, NEW fl, Labelled(Rs, lab, fl, h),
         NEW r \in DOMAIN h.p, NEW fd, NEW v \in Rs, lab[v] = fl[fd][lab[r]]
  PROVE  /\ Sound(Put(h, r, fd, v))
         /\ Put(h, r, fd, v).p = h.p
         /\ Labelled(Rs, lab, fl, Put(h, r, fd, v))
         /\ fd \in DOMAIN Fields(Put(h, r, fd, v), r)
<1> DEFINE rep == Root(h.p, r)
           h1 == Put(h, r, fd, v)
<1>1. Enlarges(h, h1) /\ h1.p = h.p
  BY PutEnlarges
<1>2. h1.q = Heap!SetField(h.q, rep, fd, v)
  BY DEF Put, Sound
<1>3. IsTable(h.q)
  BY DEF Sound
<1>4. rep \in DOMAIN h.q /\ lab[rep] = lab[r]
  BY RootInTable DEF Labelled
<1> HIDE DEF h1, rep
<1>5. /\ DOMAIN h1.q = DOMAIN h.q
      /\ \A x \in DOMAIN h.q :
           FieldsAt(h1.q, x) =
             IF x = rep THEN [k \in DOMAIN FieldsAt(h.q, x) \cup {fd} |->
                                IF k = fd THEN v ELSE FieldsAt(h.q, x)[k]]
             ELSE FieldsAt(h.q, x)
  BY <1>2, <1>3, SetFieldIs
<1>6. ASSUME NEW x \in DOMAIN h1.q, NEW k \in DOMAIN FieldsAt(h1.q, x)
      PROVE  FieldHolds(Rs, lab, fl, x, k, FieldsAt(h1.q, x)[k])
  <2>1. CASE x = rep /\ k = fd
    <3>1. FieldsAt(h1.q, x)[k] = v
      BY <1>4, <1>5, <2>1
    <3> QED BY <1>4, <2>1, <3>1 DEF FieldHolds
  <2>2. CASE ~(x = rep /\ k = fd)
    <3>1. x \in DOMAIN h.q
      BY <1>5, <1>6
    <3>2. CASE x # rep
      <4>1. FieldsAt(h1.q, x) = FieldsAt(h.q, x)
        BY <1>5, <3>1, <3>2
      <4> QED BY <1>6, <3>1, <4>1 DEF Labelled
    <3>3. CASE x = rep
      <4> DEFINE g == FieldsAt(h.q, x)
                 gg == FieldsAt(h1.q, x)
      <4>1. gg = [j \in DOMAIN g \cup {fd} |-> IF j = fd THEN v ELSE g[j]] /\ k # fd
        BY <1>5, <2>2, <3>1, <3>3
      <4>2. k \in DOMAIN gg
        BY <1>6
      <4>3. FieldHolds(Rs, lab, fl, x, k, g[k]) \/ k \notin DOMAIN g
        BY <3>1 DEF Labelled
      <4> HIDE DEF g, gg
      <4>4. k \in DOMAIN g /\ gg[k] = g[k]
        BY <4>1, <4>2
      <4>5. FieldHolds(Rs, lab, fl, x, k, gg[k])
        BY <4>3, <4>4
      <4> QED BY <4>5 DEF gg
    <3> QED BY <3>2, <3>3
  <2> QED BY <2>1, <2>2
<1>7. Labelled(Rs, lab, fl, h1)
  BY <1>1, <1>6 DEF Labelled
<1>8. fd \in DOMAIN Fields(h1, r)
  <2>1. Fields(h1, r) = FieldsAt(h1.q, rep)
    BY <1>1 DEF Fields, FieldsAt, rep
  <2>2. fd \in DOMAIN FieldsAt(h1.q, rep)
    BY <1>4, <1>5
  <2> QED BY <2>1, <2>2
<1> QED BY <1>1, <1>7, <1>8 DEF h1, Enlarges

(* getPointee: the pointee has the label of what the address points to.    *)
LEMMA PointeeIsLabelled ==
  ASSUME NEW h, Sound(h), NEW Rs, NEW lab, NEW fl, Labelling(Rs, lab, fl),
         Labelled(Rs, lab, fl, h), NEW addr \in Rs
  PROVE  /\ Sound(WithPointee(h, addr))
         /\ Labelled(Rs, lab, fl, WithPointee(h, addr))
         /\ Pointee(WithPointee(h, addr), addr) \in Rs
         /\ lab[Pointee(WithPointee(h, addr), addr)] = fl[PointTo][lab[addr]]
<1> DEFINE h1 == After(h, {addr})
           new == MakeSynthetic("*", Root(h1.p, addr))
           h2 == After(h1, {new})
           h3 == Put(h2, addr, PointTo, new)
           hh == WithPointee(h, addr)
<1>1. Sound(h1) /\ Labelled(Rs, lab, fl, h1) /\ addr \in DOMAIN h1.p
  <2>1. {addr} \in SUBSET Rs /\ IsFiniteSet({addr})
    BY FS_Singleton
  <2> QED BY <2>1, AfterIsLabelled
<1>2. hh = IF PointTo \in DOMAIN Fields(h1, addr) THEN h1 ELSE h3
  BY DEF WithPointee
<1> HIDE DEF h1
<1>3. Root(h1.p, addr) \in Rs /\ lab[Root(h1.p, addr)] = lab[addr]
  BY <1>1, RootInTable DEF Labelled
<1>4. new \in Rs /\ lab[new] = fl[PointTo][lab[addr]]
  BY <1>3 DEF Labelling
<1> HIDE DEF new
<1>5. Sound(h2) /\ Labelled(Rs, lab, fl, h2) /\ addr \in DOMAIN h2.p
  <2>1. {new} \in SUBSET Rs /\ IsFiniteSet({new})
    BY <1>4, FS_Singleton
  <2> QED BY <1>1, <2>1, AfterIsLabelled
<1> HIDE DEF h2
<1>6. /\ Sound(h3) /\ Labelled(Rs, lab, fl, h3) /\ h3.p = h2.p
      /\ PointTo \in DOMAIN Fields(h3, addr)
  BY <1>4, <1>5, PutIsLabelled
<1> HIDE DEF h3, hh
<1>7. /\ Sound(hh) /\ Labelled(Rs, lab, fl, hh) /\ addr \in DOMAIN hh.p
      /\ PointTo \in DOMAIN Fields(hh, addr)
  BY <1>1, <1>2, <1>5, <1>6
<1>8. /\ Fields(hh, addr)[PointTo] \in Rs
      /\ lab[Fields(hh, addr)[PointTo]] = fl[PointTo][lab[addr]]
  BY <1>7, FieldIsLabelled
<1> QED BY <1>7, <1>8 DEF Pointee, hh

-----------------------------------------------------------------------------
(* The constraints that the equations of a program justify, and that the   *)
(* visits assert no other.                                                 *)

(* FlattenSeq of sequences over a set is one.                              *)
LEMMA FlattenIn ==
  ASSUME NEW C, NEW s \in Seq(Seq(C))
  PROVE  FlattenSeq(s) \in Seq(C)
<1> DEFINE N == Len(s)
<1>1. N \in Nat /\ DOMAIN s = 1..N /\ \A i \in 1..N : s[i] \in Seq(C)
  OBVIOUS
<1>2. CASE N = 0
  BY <1>2 DEF FlattenSeq
<1>3. CASE N # 0
  <2> DEFINE Body(g) == [i \in 1..N |-> IF i = 1 THEN s[i] ELSE g[i - 1] \o s[i]]
             Upto(g, m) == \A i \in 1..N : i <= m => g[i] = Body(g)[i]
             S == {m \in Nat : \E g : Upto(g, m)}
  <2>1. 0 \in S
    <3>1. \A g : Upto(g, 0)
      OBVIOUS
    <3> QED BY <3>1
  <2>2. ASSUME NEW m \in S PROVE m + 1 \in S
    <3>1. PICK g : Upto(g, m)
      OBVIOUS
    <3> DEFINE h == [i \in 1..N |-> IF i = m + 1 THEN Body(g)[i] ELSE g[i]]
    <3>2. ASSUME NEW i \in 1..N, i <= m + 1 PROVE h[i] = Body(h)[i]
      <4>1. m \in Nat /\ i \in Nat
        OBVIOUS
      <4>2. i # 1 => i - 1 \in 1..N /\ h[i - 1] = g[i - 1]
        BY <1>1, <3>2, <4>1
      <4>3. Body(h)[i] = Body(g)[i]
        BY <4>2
      <4>4. h[i] = Body(g)[i]
        BY <3>1, <3>2, <4>1
      <4> QED BY <4>3, <4>4
    <3> HIDE DEF h, Body
    <3> QED BY <3>2
  <2>3. S = Nat
    <3> HIDE DEF S
    <3> QED BY <2>1, <2>2, Induction DEF S
  <2>4. PICK g0 : Upto(g0, N)
    BY <1>1, <2>3
  <2>8. \E f : f = Body(f)
    <3> DEFINE f == [i \in 1..N |-> g0[i]]
    <3>1. ASSUME NEW i \in 1..N PROVE f[i] = IF i = 1 THEN s[i] ELSE f[i - 1] \o s[i]
      <4>1. g0[i] = IF i = 1 THEN s[i] ELSE g0[i - 1] \o s[i]
        BY <1>1, <2>4
      <4>2. i # 1 => i - 1 \in 1..N
        BY <1>1
      <4> QED BY <4>1, <4>2
    <3>2. f = Body(f)
      BY <3>1
    <3> QED BY <3>2
  <2>9. ASSUME NEW g, g = Body(g) PROVE \A i \in 1..N : g[i] \in Seq(C)
    <3> DEFINE T == {n \in Nat : n + 1 \in 1..N => g[n + 1] \in Seq(C)}
    <3>1. \A i \in 1..N : g[i] = IF i = 1 THEN s[i] ELSE g[i - 1] \o s[i]
      <4>1. \A i \in 1..N : Body(g)[i] = IF i = 1 THEN s[i] ELSE g[i - 1] \o s[i]
        OBVIOUS
      <4> HIDE DEF Body
      <4> QED BY <2>9, <4>1
    <3>2. 0 \in T
      <4>1. 1 \in 1..N => g[1] = s[1]
        BY <3>1
      <4> QED BY <1>1, <4>1
    <3>3. ASSUME NEW n \in T PROVE n + 1 \in T
      <4> SUFFICES ASSUME (n + 1) + 1 \in 1..N PROVE g[(n + 1) + 1] \in Seq(C)
        OBVIOUS
      <4>1. n \in Nat /\ n + 1 \in 1..N /\ ((n + 1) + 1) - 1 = n + 1 /\ (n + 1) + 1 # 1
        OBVIOUS
      <4>2. g[n + 1] \in Seq(C)
        BY <4>1
      <4>3. g[(n + 1) + 1] = g[n + 1] \o s[(n + 1) + 1]
        BY <3>1, <4>1
      <4> QED BY <1>1, <4>2, <4>3
    <3>4. T = Nat
      <4> HIDE DEF T
      <4> QED BY <3>2, <3>3, Induction DEF T
    <3>5. ASSUME NEW i \in 1..N PROVE g[i] \in Seq(C)
      <4>1. PICK n \in Nat : n + 1 = i
        <5>1. i - 1 \in Nat /\ (i - 1) + 1 = i
          OBVIOUS
        <5> QED BY <5>1
      <4>2. n \in T
        BY <3>4
      <4> QED BY <4>1, <4>2
    <3> QED BY <3>5
  <2>10. FlattenSeq(s) = (CHOOSE g : g = Body(g))[N]
    BY <1>3 DEF FlattenSeq
  <2>11. (CHOOSE g : g = Body(g)) = Body(CHOOSE g : g = Body(g))
    <3> HIDE DEF Body
    <3> QED BY <2>8
  <2>12. N \in 1..N
    BY <1>1, <1>3
  <2>13. (CHOOSE g : g = Body(g))[N] \in Seq(C)
    <3> DEFINE h == CHOOSE g : g = Body(g)
    <3>1. h = Body(h)
      BY <2>11
    <3> HIDE DEF h, Body
    <3>2. \A i \in 1..N : h[i] \in Seq(C)
      BY <2>9, <3>1
    <3>3. h[N] \in Seq(C)
      BY <2>12, <3>2
    <3> QED BY <3>3 DEF h
  <2> QED BY <2>10, <2>13
<1> QED BY <1>2, <1>3

RefOf(v) == MakeReference(<<>>, v)

(* With no call sites of context, everything has the empty context.        *)
LEMMA OneContext ==
  ASSUME Given, contextK = 0, NEW v
  PROVE  GetContexts(v) = <<<<>>>>
<1>1. ASSUME NEW f \in Fn PROVE contexts[f] = <<<<>>>>
  <2>1. CollectContext(f, 0) = {<<>>}
    BY CollectStep DEF Given
  <2>2. contexts[f] \in SetToSeqs({<<>>})
    BY <2>1 DEF Given, Collected
  <2>3. Cardinality({<<>>}) = 1
    BY FS_Singleton
  <2>4. contexts[f] \in [1..1 -> {<<>>}]
    BY <2>2, <2>3 DEF SetToSeqs
  <2> QED BY <2>4
<1> QED BY <1>1 DEF GetContexts, Given

LEMMA InTheContext ==
  ASSUME Given, contextK = 0, NEW v
  PROVE  /\ DOMAIN GetContexts(v) = {1}
         /\ GetContexts(v)[1] = <<>>
BY OneContext

(* No field is the mark of an equality.                                    *)
LEMMA FieldOfEqual == ASSUME NEW n, NEW o PROVE [name |-> n, of |-> o] # Equal
BY DEF Equal

LEMMA MakeFieldIs == ASSUME NEW t, NEW n PROVE MakeField(t, n) # Equal
BY FieldOfEqual DEF MakeField, NamedField

(* Sequences over a set.                                                   *)
LEMMA OneIn ==
  ASSUME NEW C, NEW x \in C PROVE [n \in {1} |-> x] \in Seq(C) /\ <<x>> \in Seq(C)
<1>1. <<x>> \in Seq(C)
  OBVIOUS
<1>2. [n \in {1} |-> x] = <<x>>
  OBVIOUS
<1> QED BY <1>1, <1>2

LEMMA NoneIn == ASSUME NEW C PROVE <<>> \in Seq(C)
OBVIOUS

LEMMA BothIn == ASSUME NEW C, NEW s \in Seq(C), NEW t \in Seq(C) PROVE s \o t \in Seq(C)
OBVIOUS

(* What the helpers of the visits put on the agenda, in the one context.   *)
LEMMA UnifyLocalsIn ==
  ASSUME Given, contextK = 0, NEW C, NEW u, NEW v,
         ValueMayShare(u) /\ ValueMayShare(v) => Unify(RefOf(u), RefOf(v)) \in C
  PROVE  UnifyLocals(u, v) \in Seq(C)
<1>1. CASE ValueMayShare(u) /\ ValueMayShare(v)
  <2>1. UnifyLocals(u, v) = [n \in {1} |-> Unify(RefOf(u), RefOf(v))]
    BY <1>1, InTheContext DEF UnifyLocals, InContextsOf, RefOf
  <2> QED BY <1>1, <2>1, OneIn
<1>2. CASE ~(ValueMayShare(u) /\ ValueMayShare(v))
  BY <1>2, NoneIn DEF UnifyLocals
<1> QED BY <1>1, <1>2

LEMMA FieldIsIn ==
  ASSUME Given, contextK = 0, NEW C, NEW v, NEW obj, NEW fd, NEW target,
         MayShareObject(TypeOf(target)) => Constraint("field", RefOf(obj), fd, RefOf(target)) \in C
  PROVE  FieldIs(v, obj, fd, target) \in Seq(C)
<1>1. CASE MayShareObject(TypeOf(target))
  <2>1. FieldIs(v, obj, fd, target) = [n \in {1} |-> Constraint("field", RefOf(obj), fd, RefOf(target))]
    BY <1>1, InTheContext DEF FieldIs, InContextsOf, RefOf
  <2> QED BY <1>1, <2>1, OneIn
<1>2. CASE ~MayShareObject(TypeOf(target))
  BY <1>2, NoneIn DEF FieldIs
<1> QED BY <1>1, <1>2

LEMMA AddressIn ==
  ASSUME Given, contextK = 0, NEW C, NEW addr, NEW obj, NEW fd,
         Constraint("address", RefOf(obj), fd, RefOf(addr)) \in C
  PROVE  UnifyFieldAddress(addr, obj, fd) \in Seq(C)
<1>1. UnifyFieldAddress(addr, obj, fd)
        = [n \in {1} |-> Constraint("address", RefOf(obj), fd, RefOf(addr))]
  BY InTheContext DEF UnifyFieldAddress, InContextsOf, RefOf
<1> QED BY <1>1, OneIn

LEMMA IndexIn ==
  ASSUME Given, contextK = 0, NEW C, NEW data, NEW base, NEW index,
         MayShareObject(TypeOf(data)) =>
           \A fd \in IndexFields(index) : Constraint("field", RefOf(base), fd, RefOf(data)) \in C
  PROVE  ProcessIndex(data, base, index) \in Seq(C)
<1>1. ASSUME NEW fd \in IndexFields(index)
      PROVE  ProcessHeapAccess(data, base, fd) \in Seq(C)
  BY FieldIsIn DEF ProcessHeapAccess
<1>2. ProcessHeapAccess(data, base, AnyIndex) \in Seq(C)
  BY <1>1 DEF IndexFields
<1>3. CASE prog.value[index].kind = "const"
  <2>1. ProcessHeapAccess(data, base, NamedField(ConstName(index))) \in Seq(C)
    BY <1>1, <1>3 DEF IndexFields, ConstName
  <2> QED BY <1>2, <1>3, <2>1, BothIn DEF ProcessIndex
<1>4. CASE prog.value[index].kind # "const"
  BY <1>2, <1>4, NoneIn, BothIn DEF ProcessIndex
<1> QED BY <1>3, <1>4

LEMMA CallUnifiesIn ==
  ASSUME Given, contextK = 0, NEW C, NEW arg, NEW param, NEW site,
         Unify(RefOf(arg), RefOf(param)) \in C
  PROVE  UnifyCallWithContexts(arg, param, site) \in Seq(C)
<1> DEFINE n == SelectInSeq(GetContexts(param), LAMBDA d : ContextKEqual(Append(<<>>, site), d))
           at == IF n = 0 THEN <<>>
                 ELSE <<Unify(RefOf(arg), MakeReference(GetContexts(param)[n], param))>>
<1>1. n = 0 \/ n = 1
  <2> DEFINE I == {i \in 1..Len(GetContexts(param)) :
                     ContextKEqual(Append(<<>>, site), GetContexts(param)[i])}
  <2>1. n = IF I # {} THEN Min(I) ELSE 0
    BY DEF SelectInSeq
  <2>2. I \subseteq {1}
    BY OneContext
  <2>3. I # {} => Min(I) = 1
    <3> HIDE DEF I
    <3>1. \A x \in {1} : (\A y \in {1} : x <= y) <=> x = 1
      OBVIOUS
    <3>2. Min({1}) = 1
      BY <3>1 DEF Min
    <3>3. I # {} => I = {1}
      BY <2>2
    <3> QED BY <3>2, <3>3
  <2> QED BY <2>1, <2>3
<1>2. at \in Seq(C)
  <2> HIDE DEF n
  <2>1. CASE n = 0
    BY <2>1, NoneIn
  <2>2. CASE n = 1
    BY <2>2, InTheContext, OneIn DEF RefOf
  <2> QED BY <1>1, <2>1, <2>2
<1>3. UnifyCallWithContexts(arg, param, site) = FlattenSeq([m \in {1} |-> at])
  BY InTheContext DEF UnifyCallWithContexts, InContextsOf, SelectInSeq, RefOf
<1> HIDE DEF at
<1>4. [m \in {1} |-> at] \in Seq(Seq(C))
  BY <1>2, OneIn
<1> QED BY <1>3, <1>4, FlattenIn

Owed ==
  {Unify(e.a, e.b) : e \in {d \in Equations : d.fd = Equal}}
  \cup {Unify(e.b, e.a) : e \in {d \in Equations : d.fd = Equal}}
  \cup {Constraint("field", e.a, e.fd, e.b) : e \in {d \in Equations : d.fd # Equal}}
  \cup {Constraint("address", es[1].a, es[2].fd, es[2].b) :
          es \in {u \in Equations \X Equations :
                    u[1].fd = PointTo /\ u[2].fd # Equal /\ u[2].a = u[1].b
                    /\ u[1].b = MakeSynthetic("*", u[1].a)}}

(* The constraints that an equation justifies.                             *)
LEMMA OwedUnify ==
  ASSUME NEW a, NEW b, Same(a, b) \in Equations \/ Same(b, a) \in Equations
  PROVE  Unify(a, b) \in Owed
<1>1. CASE Same(a, b) \in Equations
  <2>1. PICK e \in Equations : e = Same(a, b)
    BY <1>1
  <2>2. e.fd = Equal /\ e.a = a /\ e.b = b
    BY <2>1 DEF Same
  <2> QED BY <2>2 DEF Owed
<1>2. CASE Same(b, a) \in Equations
  <2>1. PICK e \in Equations : e = Same(b, a)
    BY <1>2
  <2>2. e.fd = Equal /\ e.a = b /\ e.b = a
    BY <2>1 DEF Same
  <2> QED BY <2>2 DEF Owed
<1> QED BY <1>1, <1>2

LEMMA OwedField ==
  ASSUME NEW a, NEW fd, NEW b, Holds(a, fd, b) \in Equations, fd # Equal
  PROVE  Constraint("field", a, fd, b) \in Owed
<1>1. PICK e \in Equations : e = Holds(a, fd, b)
  OBVIOUS
<1>2. e.fd = fd /\ e.a = a /\ e.b = b
  BY <1>1 DEF Holds
<1> QED BY <1>2 DEF Owed

LEMMA OwedAddress ==
  ASSUME NEW a, NEW fd, NEW b, Holds(a, PointTo, MakeSynthetic("*", a)) \in Equations,
         Holds(MakeSynthetic("*", a), fd, b) \in Equations, fd # Equal
  PROVE  Constraint("address", a, fd, b) \in Owed
<1> DEFINE d == Holds(a, PointTo, MakeSynthetic("*", a))
           e == Holds(MakeSynthetic("*", a), fd, b)
<1>1. d.fd = PointTo /\ d.a = a /\ d.b = MakeSynthetic("*", a)
  BY DEF Holds
<1>2. e.fd = fd /\ e.a = MakeSynthetic("*", a) /\ e.b = b
  BY DEF Holds
<1> HIDE DEF d, e
<1>3. d \in Equations /\ e \in Equations
  BY DEF d, e
<1>4. PICK u \in Equations \X Equations : u = <<d, e>>
  BY <1>3
<1>5. u[1] = d /\ u[2] = e
  BY <1>4
<1> QED BY <1>1, <1>2, <1>5 DEF Owed

(* An equation that an instruction states of values that share objects.    *)
LEMMA Said ==
  ASSUME Given, contextK = 0, NEW i \in Instructions, NEW e \in Says(i, <<>>),
         e.fd = Equal => ValueMayShare(e.a.of), ValueMayShare(e.b.of)
  PROVE  e \in Equations
<1>1. PICK f \in Fn : i \in ToSet(prog.func[f].body)
  BY DEF Instructions
<1>2. <<>> \in CollectContext(f, contextK)
  BY CollectStep DEF Given
<1> QED BY <1>1, <1>2 DEF Equations

(* The equations of an instruction, in the only context.                   *)
LEMMA SaysIs ==
  ASSUME NEW i
  PROVE  LET says == Says(i, <<>>) IN
    /\ i.is \in Copies => says = {Same(RefOf(i.reg), RefOf(v)) : v \in ToSet(<<i.x>>)}
    /\ i.is = "Phi" => says = {Same(RefOf(i.reg), RefOf(v)) : v \in ToSet(i.edges)}
    /\ i.is = "append" => says = {Same(RefOf(i.reg), RefOf(v)) : v \in ToSet(i.args)}
    /\ i.is = "TypeAssert" =>
         says = IF i.commaOk THEN {} ELSE {Same(RefOf(i.reg), RefOf(v)) : v \in ToSet(<<i.x>>)}
    /\ i.is = "FieldAddr" =>
         says = Addressed(RefOf(i.x), {MakeField(TypeOf(i.x), i.field)}, RefOf(i.reg))
    /\ i.is = "IndexAddr" => says = Addressed(RefOf(i.x), IndexFields(i.index), RefOf(i.reg))
    /\ i.is = "Index" \/ (i.is = "Lookup" /\ ~i.commaOk) =>
         says = Elements(RefOf(i.x), IndexFields(i.index), RefOf(i.reg))
    /\ i.is = "Lookup" /\ i.commaOk => says = {}
    /\ i.is = "MapUpdate" => says = Elements(RefOf(i.x), IndexFields(i.index), RefOf(i.val))
    /\ i.is = "Store" => says = {Holds(RefOf(i.x), PointTo, RefOf(i.val))}
    /\ i.is = "Load" => says = {Holds(RefOf(i.x), PointTo, RefOf(i.reg))}
    /\ i.is = "Receive" => says = IF i.commaOk THEN {} ELSE Elements(RefOf(i.x), {AnyIndex}, RefOf(i.reg))
    /\ i.is = "Send" => says = Elements(RefOf(i.x), {AnyIndex}, RefOf(i.val))
    /\ i.is = "Select" =>
         says = UNION {Elements(RefOf(st.chan), {AnyIndex}, RefOf(st.val)) :
                         st \in {s \in ToSet(i.states) : s.dir = "send"}}
    /\ i.is = "Add" => says = {Holds(RefOf(i.reg), NamedField("left"), RefOf(i.x)),
                               Holds(RefOf(i.reg), NamedField("right"), RefOf(i.y))}
    /\ i.is = "Extract" => says = SaysExtract(i, <<>>)
    /\ i.is = "MakeClosure" =>
         says = {Same(RefOf(prog.func[i.fn].freeVars[n]), RefOf(i.bindings[n])) : n \in DOMAIN i.bindings}
    /\ i.is \in CallKinds => says = IF i.callee = "" THEN {} ELSE SaysCall(i, <<>>)
    /\ i.is \notin Copies \cup CallKinds \cup
         {"Phi", "append", "TypeAssert", "FieldAddr", "IndexAddr", "Field", "Index", "Lookup",
          "MapUpdate", "Store", "Load", "Receive", "Send", "Select", "Add", "Extract",
          "MakeClosure", "copy"} => says = {}
BY DEF Says, Copies, CallKinds, RefOf

(* A sequence of sequences that is given as a function.                    *)
LEMMA FunctionIn ==
  ASSUME NEW C, NEW s, NEW V, s \in Seq(V), NEW g, g = [n \in DOMAIN s |-> g[n]],
         \A n \in DOMAIN s : g[n] \in Seq(C)
  PROVE  FlattenSeq(g) \in Seq(C)
<1>1. Len(s) \in Nat /\ DOMAIN s = 1..Len(s)
  OBVIOUS
<1>2. g \in Seq(Seq(C))
  BY <1>1
<1> QED BY <1>2, FlattenIn

(* Constraints that equations of an instruction justify.                   *)
LEMMA SameOwed ==
  ASSUME Given, contextK = 0, NEW i \in Instructions, NEW u, NEW v,
         Same(RefOf(u), RefOf(v)) \in Says(i, <<>>), ValueMayShare(u), ValueMayShare(v)
  PROVE  Unify(RefOf(u), RefOf(v)) \in Owed /\ Unify(RefOf(v), RefOf(u)) \in Owed
<1> DEFINE e == Same(RefOf(u), RefOf(v))
<1>1. e.a.of = u /\ e.b.of = v
  BY DEF Same, RefOf, MakeReference, MakeLocal, MakeGlobal
<1>2. e \in Says(i, <<>>)
  OBVIOUS
<1> HIDE DEF e
<1>3. e \in Equations
  BY <1>1, <1>2, Said
<1> QED BY <1>3, OwedUnify DEF e

LEMMA HoldsOwed ==
  ASSUME Given, contextK = 0, NEW i \in Instructions, NEW r, NEW fd, NEW v,
         Holds(r, fd, RefOf(v)) \in Says(i, <<>>), fd # Equal, ValueMayShare(v)
  PROVE  Constraint("field", r, fd, RefOf(v)) \in Owed
<1> DEFINE e == Holds(r, fd, RefOf(v))
<1>1. e.b.of = v /\ e.fd = fd
  BY DEF Holds, RefOf, MakeReference, MakeLocal, MakeGlobal
<1>2. e \in Says(i, <<>>)
  OBVIOUS
<1> HIDE DEF e
<1>3. e \in Equations
  BY <1>1, <1>2, Said
<1> QED BY <1>3, OwedField DEF e

(* The pointee that a visit makes is that of the equations.                *)
LEMMA StarOf == ASSUME NEW v PROVE MakeSynthetic("*", RefOf(v)) = Star(RefOf(v))
BY DEF MakeSynthetic, Star, RefOf, MakeReference, MakeLocal, MakeGlobal

LEMMA AddressedOwed ==
  ASSUME Given, contextK = 0, NEW i \in Instructions, NEW x, NEW fd, NEW v,
         Holds(RefOf(x), PointTo, Star(RefOf(x))) \in Says(i, <<>>),
         Holds(Star(RefOf(x)), fd, RefOf(v)) \in Says(i, <<>>),
         fd # Equal, ValueMayShare(x), ValueMayShare(v)
  PROVE  Constraint("address", RefOf(x), fd, RefOf(v)) \in Owed
<1> DEFINE d == Holds(RefOf(x), PointTo, Star(RefOf(x)))
           e == Holds(Star(RefOf(x)), fd, RefOf(v))
<1>1. d.b.of = x /\ d.fd = PointTo /\ e.b.of = v /\ e.fd = fd
  BY DEF Holds, RefOf, MakeReference, MakeLocal, MakeGlobal, Star
<1>2. d \in Says(i, <<>>) /\ e \in Says(i, <<>>)
  OBVIOUS
<1>3. PointTo # Equal
  BY FieldOfEqual DEF PointTo, NamedField
<1> HIDE DEF d, e
<1>4. d \in Equations /\ e \in Equations
  BY <1>1, <1>2, <1>3, Said
<1> QED BY <1>4, OwedAddress, StarOf DEF d, e

(* Every instruction is well typed.                                        *)
LEMMA Typed ==
  ASSUME WellTyped(prog), NEW i \in Instructions
  PROVE  TypedInstruction(prog, i)
BY DEF WellTyped, CodeOf, Instructions, Fn

(* The fields of an index.                                                 *)
LEMMA IndexNotEqual ==
  ASSUME NEW index, NEW fd \in IndexFields(index) PROVE fd # Equal
BY FieldOfEqual DEF IndexFields, AnyIndex, NamedField

(* A register is a local value.                                            *)
LEMMA RegIs ==
  ASSUME WellTyped(prog), NEW i \in Instructions, i.is \in Defining
  PROVE  /\ i.reg \in DOMAIN prog.value /\ prog.value[i.reg].kind = "local"
         /\ ValueMayShare(i.reg) <=> MayShareObject(TypeOf(i.reg))
BY Typed DEF TypedInstruction, Locals, ValueMayShare

(* One operand.                                                            *)
LEMMA SingleSame ==
  ASSUME NEW u, NEW v PROVE Same(RefOf(u), RefOf(v)) \in {Same(RefOf(u), RefOf(w)) : w \in ToSet(<<v>>)}
<1>1. v \in ToSet(<<v>>)
  BY DEF ToSet
<1> QED BY <1>1

(* The visits, one by one: what each asserts is justified.                 *)
LEMMA CopyOwed ==
  ASSUME Given, contextK = 0, NEW i \in Instructions, VisitCopy(i)
  PROVE  agenda' \in Seq(Owed)
<1>1. Same(RefOf(i.reg), RefOf(i.x)) \in Says(i, <<>>)
  <2>1. Says(i, <<>>) = {Same(RefOf(i.reg), RefOf(v)) : v \in ToSet(<<i.x>>)}
    BY SaysIs DEF VisitCopy
  <2> QED BY <2>1, SingleSame
<1> QED BY <1>1, SameOwed, UnifyLocalsIn DEF VisitCopy

LEMMA TypeAssertOwed ==
  ASSUME Given, contextK = 0, NEW i \in Instructions, VisitTypeAssert(i)
  PROVE  agenda' \in Seq(Owed)
<1>1. CASE i.commaOk
  BY <1>1, NoneIn DEF VisitTypeAssert
<1>2. CASE ~i.commaOk
  <2>1. Same(RefOf(i.reg), RefOf(i.x)) \in Says(i, <<>>)
    BY <1>2, SaysIs, SingleSame DEF VisitTypeAssert
  <2> QED BY <1>2, <2>1, SameOwed, UnifyLocalsIn DEF VisitTypeAssert
<1> QED BY <1>1, <1>2

(* What several values are made the same as, one after another.            *)
LEMMA AllSameOwed ==
  ASSUME Given, contextK = 0, NEW i \in Instructions, NEW u, NEW vs \in Seq(DOMAIN prog.value),
         \A v \in ToSet(vs) : Same(RefOf(u), RefOf(v)) \in Says(i, <<>>)
  PROVE  FlattenSeq([n \in DOMAIN vs |-> UnifyLocals(u, vs[n])]) \in Seq(Owed)
<1>1. ASSUME NEW n \in DOMAIN vs PROVE UnifyLocals(u, vs[n]) \in Seq(Owed)
  <2>1. Same(RefOf(u), RefOf(vs[n])) \in Says(i, <<>>)
    BY DEF ToSet
  <2> QED BY <2>1, SameOwed, UnifyLocalsIn
<1> DEFINE g == [n \in DOMAIN vs |-> UnifyLocals(u, vs[n])]
<1>2. g = [n \in DOMAIN vs |-> g[n]] /\ \A n \in DOMAIN vs : g[n] \in Seq(Owed)
  BY <1>1
<1> HIDE DEF g
<1>3. FlattenSeq(g) \in Seq(Owed)
  BY <1>2, FunctionIn
<1> QED BY <1>3 DEF g

LEMMA PhiOwed ==
  ASSUME Given, contextK = 0, WellTyped(prog), NEW i \in Instructions, VisitPhi(i)
  PROVE  agenda' \in Seq(Owed)
<1>1. i.edges \in Seq(DOMAIN prog.value)
  BY Typed DEF TypedInstruction, VisitPhi
<1>2. \A v \in ToSet(i.edges) : Same(RefOf(i.reg), RefOf(v)) \in Says(i, <<>>)
  <2>1. Says(i, <<>>) = {Same(RefOf(i.reg), RefOf(v)) : v \in ToSet(i.edges)}
    BY SaysIs DEF VisitPhi
  <2> QED BY <2>1
<1>3. FlattenSeq([n \in DOMAIN i.edges |-> UnifyLocals(i.reg, i.edges[n])]) \in Seq(Owed)
  BY <1>1, <1>2, AllSameOwed
<1> QED BY <1>3 DEF VisitPhi

LEMMA AppendOwed ==
  ASSUME Given, contextK = 0, WellTyped(prog), NEW i \in Instructions, VisitAppend(i)
  PROVE  agenda' \in Seq(Owed)
<1>1. i.args \in Seq(DOMAIN prog.value)
  BY Typed DEF TypedInstruction, VisitAppend
<1>2. \A v \in ToSet(i.args) : Same(RefOf(i.reg), RefOf(v)) \in Says(i, <<>>)
  <2>1. Says(i, <<>>) = {Same(RefOf(i.reg), RefOf(v)) : v \in ToSet(i.args)}
    BY SaysIs DEF VisitAppend
  <2> QED BY <2>1
<1>3. FlattenSeq([n \in DOMAIN i.args |-> UnifyLocals(i.reg, i.args[n])]) \in Seq(Owed)
  BY <1>1, <1>2, AllSameOwed
<1> QED BY <1>3 DEF VisitAppend

(* Addresses of fields and of elements.                                    *)
LEMMA UnifyAddressOwed ==
  ASSUME Given, Plain, WellTyped(prog), NEW i \in Instructions,
         i.is \in {"FieldAddr", "IndexAddr"}, NEW fds, NEW fd \in fds, fd # Equal,
         Says(i, <<>>) = Addressed(RefOf(i.x), fds, RefOf(i.reg))
  PROVE  UnifyFieldAddress(i.reg, i.x, fd) \in Seq(Owed)
<1>1. ValueMayShare(i.x) /\ ValueMayShare(i.reg)
  <2>1. ValueMayShare(i.x)
    BY DEF Plain
  <2>2. i.is \in Defining
    BY DEF Defining, Unary
  <2>3. MayShareObject(TypeOf(i.reg))
    BY Typed DEF TypedInstruction, ShareObject, TypeOf
  <2> QED BY <2>1, <2>2, <2>3, RegIs
<1>2. /\ Holds(RefOf(i.x), PointTo, Star(RefOf(i.x))) \in Says(i, <<>>)
      /\ Holds(Star(RefOf(i.x)), fd, RefOf(i.reg)) \in Says(i, <<>>)
  BY DEF Addressed, Elements
<1>3. contextK = 0
  BY DEF Plain
<1>4. Constraint("address", RefOf(i.x), fd, RefOf(i.reg)) \in Owed
  BY <1>1, <1>2, <1>3, AddressedOwed
<1> QED BY <1>3, <1>4, AddressIn

LEMMA FieldAddrOwed ==
  ASSUME Given, Plain, WellTyped(prog), NEW i \in Instructions, VisitFieldAddr(i)
  PROVE  agenda' \in Seq(Owed)
<1> DEFINE fd == MakeField(TypeOf(i.x), i.field)
<1>1. Says(i, <<>>) = Addressed(RefOf(i.x), {fd}, RefOf(i.reg)) /\ i.is = "FieldAddr"
  BY SaysIs DEF VisitFieldAddr
<1>2. fd # Equal
  BY MakeFieldIs
<1>3. agenda' = UnifyFieldAddress(i.reg, i.x, fd)
  BY DEF VisitFieldAddr
<1> HIDE DEF fd
<1>4. fd \in {fd}
  OBVIOUS
<1> QED BY <1>1, <1>2, <1>3, <1>4, UnifyAddressOwed

LEMMA IndexAddrOwed ==
  ASSUME Given, Plain, WellTyped(prog), NEW i \in Instructions, VisitIndexAddr(i)
  PROVE  agenda' \in Seq(Owed)
<1>1. Says(i, <<>>) = Addressed(RefOf(i.x), IndexFields(i.index), RefOf(i.reg)) /\ i.is = "IndexAddr"
  BY SaysIs DEF VisitIndexAddr
<1>2. ASSUME NEW fd \in IndexFields(i.index)
      PROVE  UnifyFieldAddress(i.reg, i.x, fd) \in Seq(Owed)
  BY <1>1, IndexNotEqual, UnifyAddressOwed
<1>3. UnifyFieldAddress(i.reg, i.x, AnyIndex) \in Seq(Owed)
  BY <1>2 DEF IndexFields
<1>4. CASE prog.value[i.index].kind = "const"
  <2>1. UnifyFieldAddress(i.reg, i.x, NamedField(ConstName(i.index))) \in Seq(Owed)
    BY <1>2, <1>4 DEF IndexFields, ConstName
  <2> QED BY <1>3, <1>4, <2>1, BothIn DEF VisitIndexAddr
<1>5. CASE prog.value[i.index].kind # "const"
  BY <1>3, <1>5, NoneIn, BothIn DEF VisitIndexAddr
<1> QED BY <1>4, <1>5

(* Elements of values.                                                     *)
LEMMA ElementOwed ==
  ASSUME Given, contextK = 0, NEW i \in Instructions, NEW x, NEW fd, NEW v,
         Holds(RefOf(x), fd, RefOf(v)) \in Says(i, <<>>), fd # Equal,
         MayShareObject(TypeOf(v)) => ValueMayShare(v), NEW w
  PROVE  FieldIs(w, x, fd, v) \in Seq(Owed)
BY HoldsOwed, FieldIsIn

LEMMA ElementsOwed ==
  ASSUME Given, contextK = 0, NEW i \in Instructions, NEW x, NEW index, NEW v,
         Elements(RefOf(x), IndexFields(index), RefOf(v)) \subseteq Says(i, <<>>),
         MayShareObject(TypeOf(v)) => ValueMayShare(v)
  PROVE  ProcessIndex(v, x, index) \in Seq(Owed)
<1>1. ASSUME NEW fd \in IndexFields(index), MayShareObject(TypeOf(v))
      PROVE  Constraint("field", RefOf(x), fd, RefOf(v)) \in Owed
  <2>1. Holds(RefOf(x), fd, RefOf(v)) \in Says(i, <<>>) /\ fd # Equal
    BY IndexNotEqual DEF Elements
  <2> QED BY <1>1, <2>1, HoldsOwed
<1> QED BY <1>1, IndexIn

LEMMA AnyNotEqual == AnyIndex # Equal /\ PointTo # Equal
BY FieldOfEqual DEF AnyIndex, PointTo, NamedField

LEMMA AnyElementOwed ==
  ASSUME Given, contextK = 0, NEW i \in Instructions, NEW x, NEW v,
         Elements(RefOf(x), {AnyIndex}, RefOf(v)) \subseteq Says(i, <<>>),
         MayShareObject(TypeOf(v)) => ValueMayShare(v)
  PROVE  ProcessHeapAccess(v, x, AnyIndex) \in Seq(Owed)
<1>1. Holds(RefOf(x), AnyIndex, RefOf(v)) \in Says(i, <<>>)
  BY DEF Elements
<1> QED BY <1>1, AnyNotEqual, ElementOwed DEF ProcessHeapAccess

LEMMA IndexOwed ==
  ASSUME Given, contextK = 0, WellTyped(prog), NEW i \in Instructions,
         VisitIndex(i) \/ VisitLookup(i)
  PROVE  agenda' \in Seq(Owed)
<1>1. i.is \in Defining
  BY DEF VisitIndex, VisitLookup, Defining, Unary
<1>2. CASE i.is = "Lookup" /\ i.commaOk
  BY <1>2, NoneIn DEF VisitIndex, VisitLookup
<1>3. CASE i.is = "Index" \/ (i.is = "Lookup" /\ ~i.commaOk)
  <2>1. Says(i, <<>>) = Elements(RefOf(i.x), IndexFields(i.index), RefOf(i.reg))
    BY <1>3, SaysIs
  <2>2. agenda' = ProcessIndex(i.reg, i.x, i.index)
    BY <1>3 DEF VisitIndex, VisitLookup
  <2> QED BY <1>1, <2>1, <2>2, RegIs, ElementsOwed
<1>4. i.is = "Index" \/ i.is = "Lookup"
  BY DEF VisitIndex, VisitLookup
<1>5. CASE i.is = "Lookup"
  <2>1. CASE i.commaOk
    BY <1>2, <1>5, <2>1
  <2>2. CASE ~i.commaOk
    BY <1>3, <1>5, <2>2
  <2> QED BY <2>1, <2>2
<1> QED BY <1>3, <1>4, <1>5

LEMMA MapUpdateOwed ==
  ASSUME Given, Plain, NEW i \in Instructions, VisitMapUpdate(i)
  PROVE  agenda' \in Seq(Owed)
<1>1. Says(i, <<>>) = Elements(RefOf(i.x), IndexFields(i.index), RefOf(i.val))
  BY SaysIs DEF VisitMapUpdate
<1>2. contextK = 0 /\ (MayShareObject(TypeOf(i.val)) => ValueMayShare(i.val))
  BY DEF Plain, VisitMapUpdate
<1> QED BY <1>1, <1>2, ElementsOwed DEF VisitMapUpdate

LEMMA SendOwed ==
  ASSUME Given, Plain, NEW i \in Instructions, VisitSend(i)
  PROVE  agenda' \in Seq(Owed)
<1>1. Says(i, <<>>) = Elements(RefOf(i.x), {AnyIndex}, RefOf(i.val))
  BY SaysIs DEF VisitSend
<1>2. contextK = 0 /\ (MayShareObject(TypeOf(i.val)) => ValueMayShare(i.val))
  BY DEF Plain, VisitSend
<1> QED BY <1>1, <1>2, AnyElementOwed DEF VisitSend

LEMMA ReceiveOwed ==
  ASSUME Given, contextK = 0, WellTyped(prog), NEW i \in Instructions, VisitReceive(i)
  PROVE  agenda' \in Seq(Owed)
<1>1. i.is \in Defining
  BY DEF VisitReceive, Defining, Unary
<1>2. CASE i.commaOk
  <2>1. ~MayShareObject(TypeOf(i.reg))
    BY <1>2, Typed DEF VisitReceive, TypedInstruction, ShareObject, TypeOf
  <2> QED BY <2>1, FieldIsIn DEF VisitReceive, ProcessHeapAccess
<1>3. CASE ~i.commaOk
  <2>1. Says(i, <<>>) = Elements(RefOf(i.x), {AnyIndex}, RefOf(i.reg))
    BY <1>3, SaysIs DEF VisitReceive
  <2> QED BY <1>1, <2>1, RegIs, AnyElementOwed DEF VisitReceive
<1> QED BY <1>2, <1>3

LEMMA StoreOwed ==
  ASSUME Given, contextK = 0, NEW i \in Instructions, VisitStore(i)
  PROVE  agenda' \in Seq(Owed)
<1>1. CASE ValueMayShare(i.val) /\ MayShareObject(TypeOf(i.x))
  <2>1. Holds(RefOf(i.x), PointTo, RefOf(i.val)) \in Says(i, <<>>)
    BY SaysIs DEF VisitStore
  <2>2. FieldIs(i.x, i.x, PointTo, i.val) \in Seq(Owed)
    BY <1>1, <2>1, AnyNotEqual, ElementOwed
  <2> QED BY <1>1, <2>2 DEF VisitStore, ProcessAddressToValue
<1>2. CASE ~(ValueMayShare(i.val) /\ MayShareObject(TypeOf(i.x)))
  BY <1>2, NoneIn DEF VisitStore, ProcessAddressToValue
<1> QED BY <1>1, <1>2

LEMMA LoadOwed ==
  ASSUME Given, contextK = 0, WellTyped(prog), NEW i \in Instructions, VisitLoad(i)
  PROVE  agenda' \in Seq(Owed)
<1>1. CASE MayShareObject(TypeOf(i.x))
  <2>1. Holds(RefOf(i.x), PointTo, RefOf(i.reg)) \in Says(i, <<>>)
    BY SaysIs DEF VisitLoad
  <2>2. i.is \in Defining
    BY DEF VisitLoad, Defining, Unary
  <2>3. FieldIs(i.x, i.x, PointTo, i.reg) \in Seq(Owed)
    BY <2>1, <2>2, RegIs, AnyNotEqual, ElementOwed
  <2> QED BY <1>1, <2>3 DEF VisitLoad, ProcessAddressToValue
<1>2. CASE ~MayShareObject(TypeOf(i.x))
  BY <1>2, NoneIn DEF VisitLoad, ProcessAddressToValue
<1> QED BY <1>1, <1>2

LEMMA MakeClosureOwed ==
  ASSUME Given, contextK = 0, WellTyped(prog), NEW i \in Instructions, VisitMakeClosure(i)
  PROVE  agenda' \in Seq(Owed)
<1> DEFINE vs == i.bindings
           g == [n \in DOMAIN vs |-> UnifyLocals(prog.func[i.fn].freeVars[n], vs[n])]
<1>1. vs \in Seq(DOMAIN prog.value)
  BY Typed DEF TypedInstruction, VisitMakeClosure, Bound
<1>2. Says(i, <<>>) = {Same(RefOf(prog.func[i.fn].freeVars[n]), RefOf(vs[n])) : n \in DOMAIN vs}
  BY SaysIs DEF VisitMakeClosure
<1>3. ASSUME NEW n \in DOMAIN vs PROVE g[n] \in Seq(Owed)
  <2>1. Same(RefOf(prog.func[i.fn].freeVars[n]), RefOf(vs[n])) \in Says(i, <<>>)
    BY <1>2
  <2>2. UnifyLocals(prog.func[i.fn].freeVars[n], vs[n]) \in Seq(Owed)
    BY <2>1, SameOwed, UnifyLocalsIn
  <2> QED BY <2>2
<1>4. g = [n \in DOMAIN vs |-> g[n]]
  OBVIOUS
<1>5. agenda' = FlattenSeq(g)
  BY DEF VisitMakeClosure
<1> HIDE DEF g, vs
<1> QED BY <1>1, <1>3, <1>4, <1>5, FunctionIn

LEMMA ConcatOwed ==
  ASSUME Given, contextK = 0, NEW i \in Instructions, VisitConcat(i)
  PROVE  agenda' \in Seq(Owed)
<1> DEFINE side(fd, v) == IF ValueMayShare(v) THEN <<<<NamedField(fd), v>>>> ELSE <<>>
           sides == side("left", i.x) \o side("right", i.y)
           P == {u \in {<<NamedField("left"), i.x>>, <<NamedField("right"), i.y>>} :
                   Constraint("field", RefOf(i.reg), u[1], RefOf(u[2])) \in Owed}
           g == [n \in DOMAIN sides |-> Constraint("field", RefOf(i.reg), sides[n][1], RefOf(sides[n][2]))]
<1>1. Says(i, <<>>) = {Holds(RefOf(i.reg), NamedField("left"), RefOf(i.x)),
                       Holds(RefOf(i.reg), NamedField("right"), RefOf(i.y))}
  BY SaysIs DEF VisitConcat
<1>2. NamedField("left") # Equal /\ NamedField("right") # Equal
  BY FieldOfEqual DEF NamedField
<1>3. ValueMayShare(i.x) => Constraint("field", RefOf(i.reg), NamedField("left"), RefOf(i.x)) \in Owed
  BY <1>1, <1>2, HoldsOwed
<1>4. ValueMayShare(i.y) => Constraint("field", RefOf(i.reg), NamedField("right"), RefOf(i.y)) \in Owed
  BY <1>1, <1>2, HoldsOwed
<1>5. side("left", i.x) \in Seq(P) /\ side("right", i.y) \in Seq(P)
  <2>1. ValueMayShare(i.x) => <<NamedField("left"), i.x>> \in P
    BY <1>3
  <2>2. ValueMayShare(i.y) => <<NamedField("right"), i.y>> \in P
    BY <1>4
  <2> HIDE DEF P
  <2> QED BY <2>1, <2>2, OneIn, NoneIn
<1>6. sides \in Seq(P)
  <2> HIDE DEF P, side
  <2> QED BY <1>5
<1>7. g \in Seq(Owed)
  <2> HIDE DEF sides
  <2>1. \A n \in DOMAIN sides : sides[n] \in P
    <3> HIDE DEF P
    <3> QED BY <1>6
  <2>2. Len(sides) \in Nat /\ DOMAIN sides = 1..Len(sides)
    BY <1>6
  <2>3. \A n \in DOMAIN sides : g[n] \in Owed
    BY <2>1
  <2> HIDE DEF P
  <2> QED BY <2>2, <2>3
<1>8. agenda' = IF Kind(TypeOf(i.x)) # "string" THEN <<>> ELSE FlattenSeq([n \in {1} |-> g])
  BY InTheContext DEF VisitConcat, InContextsOf, RefOf
<1> HIDE DEF g
<1>9. [n \in {1} |-> g] \in Seq(Seq(Owed))
  BY <1>7, OneIn
<1> QED BY <1>8, <1>9, NoneIn, FlattenIn

LEMMA SelectOwed ==
  ASSUME Given, Plain, WellTyped(prog), NEW i \in Instructions, VisitSelect(i)
  PROVE  agenda' \in Seq(Owed)
<1> DEFINE vs == i.states
           g == [n \in DOMAIN vs |-> IF vs[n].dir = "send"
                                     THEN ProcessHeapAccess(vs[n].val, vs[n].chan, AnyIndex)
                                     ELSE <<>>]
<1>1. vs \in Seq(ToSet(vs))
  BY Typed DEF TypedInstruction, VisitSelect
<1>2. Says(i, <<>>) = UNION {Elements(RefOf(st.chan), {AnyIndex}, RefOf(st.val)) :
                               st \in {s \in ToSet(vs) : s.dir = "send"}}
  BY SaysIs DEF VisitSelect
<1>3. ASSUME NEW n \in DOMAIN vs PROVE g[n] \in Seq(Owed)
  <2>1. vs[n] \in ToSet(vs)
    BY DEF ToSet
  <2>2. CASE vs[n].dir = "send"
    <3>1. Elements(RefOf(vs[n].chan), {AnyIndex}, RefOf(vs[n].val)) \subseteq Says(i, <<>>)
      BY <1>2, <2>1, <2>2
    <3>2. contextK = 0 /\ (MayShareObject(TypeOf(vs[n].val)) => ValueMayShare(vs[n].val))
      BY <2>1, <2>2 DEF Plain, VisitSelect
    <3>3. ProcessHeapAccess(vs[n].val, vs[n].chan, AnyIndex) \in Seq(Owed)
      BY <3>1, <3>2, AnyElementOwed
    <3> QED BY <2>2, <3>3
  <2>3. CASE vs[n].dir # "send"
    BY <2>3, NoneIn
  <2> QED BY <2>2, <2>3
<1>4. g = [n \in DOMAIN vs |-> g[n]]
  OBVIOUS
<1>5. agenda' = FlattenSeq(g)
  BY DEF VisitSelect
<1> HIDE DEF g, vs
<1> QED BY <1>1, <1>3, <1>4, <1>5, FunctionIn

(* The instruction that made a value.                                      *)
LEMMA MakerIs ==
  ASSUME NEW v, NEW kinds, MadeBy(prog, v, kinds)
  PROVE  Maker(v) \in Instructions /\ Maker(v).is \in kinds /\ Maker(v).reg = v
BY DEF MadeBy, Maker, CodeOf, Instructions, Fn

LEMMA ExtractOwed ==
  ASSUME Given, contextK = 0, WellTyped(prog), NEW i \in Instructions, VisitExtract(i)
  PROVE  agenda' \in Seq(Owed)
<1> DEFINE base == Maker(i.tuple)
<1>1. i.is = "Extract" /\ i.is \in Defining
  BY DEF VisitExtract, Defining
<1>2. /\ base \in Instructions
      /\ base.is \in {"TypeAssert", "Next", "Lookup", "Receive", "Select", "Call"}
  BY <1>1, Typed, MakerIs DEF TypedInstruction
<1>3. Says(i, <<>>) = SaysExtract(i, <<>>)
  BY <1>1, SaysIs
<1>4. MayShareObject(TypeOf(i.reg)) => ValueMayShare(i.reg)
  BY <1>1, RegIs
<1>5. CASE base.is = "TypeAssert"
  <2>1. agenda' = IF i.index = 0 THEN UnifyLocals(i.reg, base.x) ELSE <<>>
    BY <1>5 DEF VisitExtract
  <2>2. i.index = 0 => Says(i, <<>>) = {Same(RefOf(i.reg), RefOf(base.x))}
    BY <1>3, <1>5 DEF SaysExtract, RefOf
  <2>3. CASE i.index = 0
    <3>1. Same(RefOf(i.reg), RefOf(base.x)) \in Says(i, <<>>)
      BY <2>2, <2>3
    <3> QED BY <2>1, <2>3, <3>1, SameOwed, UnifyLocalsIn
  <2> QED BY <2>1, <2>3, NoneIn
<1>6. CASE base.is = "Next"
  <2>1. agenda' = IF ValueMayShare(i.reg) /\ i.index = 2
                  THEN ProcessHeapAccess(i.reg, Maker(base.x).x, AnyIndex) ELSE <<>>
    BY <1>6 DEF VisitExtract
  <2>2. i.index = 2 => Says(i, <<>>) = Elements(RefOf(Maker(base.x).x), {AnyIndex}, RefOf(i.reg))
    BY <1>3, <1>6 DEF SaysExtract, RefOf
  <2>3. CASE i.index = 2
    <3>1. ProcessHeapAccess(i.reg, Maker(base.x).x, AnyIndex) \in Seq(Owed)
      BY <1>4, <2>2, <2>3, AnyElementOwed
    <3> QED BY <2>1, <3>1, NoneIn
  <2> QED BY <2>1, <2>3, NoneIn
<1>7. CASE base.is = "Lookup"
  <2>1. agenda' = IF i.index = 0 THEN ProcessIndex(i.reg, base.x, base.index) ELSE <<>>
    BY <1>7 DEF VisitExtract
  <2>2. i.index = 0 => Says(i, <<>>) = Elements(RefOf(base.x), IndexFields(base.index), RefOf(i.reg))
    BY <1>3, <1>7 DEF SaysExtract, RefOf
  <2> QED BY <1>4, <2>1, <2>2, NoneIn, ElementsOwed
<1>8. CASE base.is = "Receive"
  <2>1. agenda' = IF i.index = 0 THEN ProcessHeapAccess(i.reg, base.x, AnyIndex) ELSE <<>>
    BY <1>8 DEF VisitExtract
  <2>2. i.index = 0 => Says(i, <<>>) = Elements(RefOf(base.x), {AnyIndex}, RefOf(i.reg))
    BY <1>3, <1>8 DEF SaysExtract, RefOf
  <2> QED BY <1>4, <2>1, <2>2, NoneIn, AnyElementOwed
<1>9. CASE base.is = "Select"
  <2> DEFINE vs == base.states
             chosen == {n \in DOMAIN vs :
                          /\ vs[n].dir = "receive"
                          /\ Cardinality({m \in 1..n : vs[m].dir = "receive"}) = i.index - 1}
             g == [n \in DOMAIN vs |->
                     IF Receives(base, n, i.index) /\ ValueMayShare(vs[n].chan)
                     THEN ProcessHeapAccess(i.reg, vs[n].chan, AnyIndex) ELSE <<>>]
  <2>1. agenda' = FlattenSeq(g)
    BY <1>9 DEF VisitExtract
  <2>2. i.index > 1 => Says(i, <<>>) =
          UNION {Elements(RefOf(vs[n].chan), {AnyIndex}, RefOf(i.reg)) : n \in chosen}
    BY <1>3, <1>9 DEF SaysExtract, RefOf
  <2>3. vs \in Seq(ToSet(vs))
    BY <1>2, <1>9, Typed DEF TypedInstruction
  <2>4. ASSUME NEW n \in DOMAIN vs PROVE g[n] \in Seq(Owed)
    <3>1. CASE Receives(base, n, i.index) /\ ValueMayShare(vs[n].chan)
      <4>1. i.index > 1 /\ n \in chosen
        BY <3>1 DEF Receives
      <4>2. Elements(RefOf(vs[n].chan), {AnyIndex}, RefOf(i.reg)) \subseteq Says(i, <<>>)
        BY <2>2, <4>1
      <4>3. ProcessHeapAccess(i.reg, vs[n].chan, AnyIndex) \in Seq(Owed)
        BY <1>4, <4>2, AnyElementOwed
      <4> QED BY <3>1, <4>3
    <3>2. CASE ~(Receives(base, n, i.index) /\ ValueMayShare(vs[n].chan))
      BY <3>2, NoneIn
    <3> QED BY <3>1, <3>2
  <2>5. g = [n \in DOMAIN vs |-> g[n]]
    OBVIOUS
  <2> HIDE DEF g, vs
  <2> QED BY <2>1, <2>3, <2>4, <2>5, FunctionIn
<1>10. CASE base.is = "Call"
  <2> DEFINE fd == NamedField(ToString(i.index))
  <2>1. agenda' = FieldIs(i.tuple, i.tuple, fd, i.reg)
    BY <1>10 DEF VisitExtract, ProcessHeapAccess
  <2>2. Says(i, <<>>) = {Holds(RefOf(i.tuple), fd, RefOf(i.reg))}
    BY <1>3, <1>10 DEF SaysExtract, RefOf
  <2>3. fd # Equal
    BY FieldOfEqual DEF NamedField
  <2> HIDE DEF fd
  <2> QED BY <1>4, <2>1, <2>2, <2>3, ElementOwed
<1> HIDE DEF base
<1> QED BY <1>2, <1>5, <1>6, <1>7, <1>8, <1>9, <1>10

LEMMA SilentOwed == ASSUME NEW i, VisitSilent(i) PROVE agenda' \in Seq(Owed)
BY NoneIn DEF VisitSilent

(* The callee has the empty context too.                                   *)
LEMMA SuffixIs ==
  ASSUME NEW site PROVE Suffix(Append(<<>>, site), 0) = <<>>
<1>1. Append(<<>>, site) = <<site>> /\ Len(<<site>>) = 1
  OBVIOUS
<1>2. SubSeq(<<site>>, 2, 1) = <<>>
  OBVIOUS
<1> QED BY <1>1, <1>2 DEF Suffix

(* The equations of a call.                                                *)
LEMMA SaysCallIs ==
  ASSUME contextK = 0, NEW i, i.is \in CallKinds, i.callee # ""
  PROVE  LET g == prog.func[i.callee]
             args == [n \in DOMAIN i.args |-> RefOf(i.args[n])]
         IN /\ g.known = "Sprint" =>
                 Says(i, <<>>) = IF i.is = "Call" THEN Numbered(RefOf(i.reg), args, 0) ELSE {}
            /\ g.known = "Fprint" => Says(i, <<>>) = Numbered(args[1], Tail(args), 1)
            /\ g.known = "" /\ g.body # <<>> =>
                 /\ \A n \in DOMAIN i.args : Same(RefOf(i.args[n]), RefOf(g.params[n])) \in Says(i, <<>>)
                 /\ \A n \in DOMAIN i.bindings :
                      Same(RefOf(i.bindings[n]), RefOf(g.freeVars[n])) \in Says(i, <<>>)
                 /\ i.is = "Call" => \A ret \in ToSet(g.returns) :
                      /\ Len(ret) = 1 => Same(RefOf(i.reg), RefOf(ret[1])) \in Says(i, <<>>)
                      /\ Len(ret) # 1 =>
                           \A k \in DOMAIN ret :
                             Holds(RefOf(i.reg), NamedField(ToString(-1 + k)), RefOf(ret[k])) \in Says(i, <<>>)
<1> DEFINE g == prog.func[i.callee]
           args == [n \in DOMAIN i.args |-> RefOf(i.args[n])]
           callee(v) == MakeReference(Suffix(Append(<<>>, i.site), contextK), v)
           passed == {Same(args[n], callee(g.params[n])) : n \in DOMAIN args}
                     \cup {Same(RefOf(i.bindings[n]), callee(g.freeVars[n])) : n \in DOMAIN i.bindings}
           returned(ret) ==
             IF Len(ret) = 1 THEN {Same(RefOf(i.reg), callee(ret[1]))}
             ELSE Numbered(RefOf(i.reg), [n \in DOMAIN ret |-> callee(ret[n])], -1)
<1>1. Says(i, <<>>) = SaysCall(i, <<>>)
  BY SaysIs
<1>2. \A v : callee(v) = RefOf(v)
  BY SuffixIs DEF RefOf
<1>3. SaysCall(i, <<>>) =
        CASE g.known = "Sprint" -> IF i.is = "Call" THEN Numbered(RefOf(i.reg), args, 0) ELSE {}
          [] g.known = "Fprint" -> Numbered(args[1], Tail(args), 1)
          [] g.known = "" /\ g.body = <<>> -> {}
          [] OTHER -> passed \cup (IF i.is = "Call"
                                   THEN UNION {returned(ret) : ret \in ToSet(g.returns)}
                                   ELSE {})
  BY DEF SaysCall, RefOf
<1>4. g.known = "Sprint" =>
        Says(i, <<>>) = IF i.is = "Call" THEN Numbered(RefOf(i.reg), args, 0) ELSE {}
  <2> HIDE DEF g, args, passed, returned
  <2> QED BY <1>1, <1>3
<1>5. g.known = "Fprint" => Says(i, <<>>) = Numbered(args[1], Tail(args), 1)
  <2> HIDE DEF g, args, passed, returned
  <2> QED BY <1>1, <1>3
<1>6. ASSUME g.known = "", g.body # <<>>
      PROVE  /\ passed \subseteq Says(i, <<>>)
             /\ i.is = "Call" => \A ret \in ToSet(g.returns) : returned(ret) \subseteq Says(i, <<>>)
  <2>1. Says(i, <<>>) = passed \cup (IF i.is = "Call"
                                   THEN UNION {returned(ret) : ret \in ToSet(g.returns)}
                                   ELSE {})
    <3> HIDE DEF g, args, passed, returned
    <3> QED BY <1>1, <1>3, <1>6
  <2> HIDE DEF g, args, passed, returned
  <2> QED BY <2>1
<1>7. ASSUME g.known = "", g.body # <<>>
      PROVE  /\ \A n \in DOMAIN i.args : Same(RefOf(i.args[n]), RefOf(g.params[n])) \in Says(i, <<>>)
             /\ \A n \in DOMAIN i.bindings :
                      Same(RefOf(i.bindings[n]), RefOf(g.freeVars[n])) \in Says(i, <<>>)
  <2>1. passed \subseteq Says(i, <<>>)
    BY <1>6, <1>7
  <2>2. \A n \in DOMAIN i.args : Same(RefOf(i.args[n]), RefOf(g.params[n])) \in passed
    <3> HIDE DEF callee
    <3> QED BY <1>2
  <2>3. \A n \in DOMAIN i.bindings : Same(RefOf(i.bindings[n]), RefOf(g.freeVars[n])) \in passed
    <3> HIDE DEF callee
    <3> QED BY <1>2
  <2> HIDE DEF g, args, passed
  <2> QED BY <2>1, <2>2, <2>3
<1>8. ASSUME g.known = "", g.body # <<>>, i.is = "Call", NEW ret \in ToSet(g.returns)
      PROVE  /\ Len(ret) = 1 => Same(RefOf(i.reg), RefOf(ret[1])) \in Says(i, <<>>)
             /\ Len(ret) # 1 =>
                  \A k \in DOMAIN ret :
                    Holds(RefOf(i.reg), NamedField(ToString(-1 + k)), RefOf(ret[k])) \in Says(i, <<>>)
  <2>1. returned(ret) \subseteq Says(i, <<>>)
    BY <1>6, <1>8
  <2>2. Len(ret) = 1 => Same(RefOf(i.reg), RefOf(ret[1])) \in returned(ret)
    <3> HIDE DEF callee
    <3> QED BY <1>2
  <2>3. ASSUME Len(ret) # 1, NEW k \in DOMAIN ret
        PROVE  Holds(RefOf(i.reg), NamedField(ToString(-1 + k)), RefOf(ret[k])) \in returned(ret)
    <3>1. callee(ret[k]) = RefOf(ret[k])
      BY <1>2
    <3> HIDE DEF callee
    <3>2. Holds(RefOf(i.reg), NamedField(ToString(-1 + k)), callee(ret[k])) \in returned(ret)
      BY <2>3 DEF Numbered
    <3> QED BY <3>1, <3>2
  <2> HIDE DEF g, returned
  <2> QED BY <2>1, <2>2, <2>3
<1> HIDE DEF passed, returned
<1> QED BY <1>4, <1>5, <1>7, <1>8

(* Members and lengths of sequences, where the provers need them said.     *)
LEMMA SeqIs ==
  ASSUME NEW V, NEW s \in Seq(V)
  PROVE  /\ Len(s) \in Nat /\ DOMAIN s = 1..Len(s)
         /\ \A n \in DOMAIN s : s[n] \in V /\ s[n] \in ToSet(s)
BY DEF ToSet

LEMMA Counted ==
  ASSUME NEW V, NEW s \in Seq(V), NEW n \in DOMAIN s
  PROVE  /\ n \in Nat /\ 1 \in DOMAIN s /\ 0 + n = n /\ -1 + n = n - 1
         /\ n >= 2 => /\ n - 1 \in DOMAIN Tail(s) /\ 1 + (n - 1) = n
                       /\ Tail(s)[n - 1] = s[n]
<1>1. Len(s) \in Nat /\ DOMAIN s = 1..Len(s) /\ n \in 1..Len(s)
  OBVIOUS
<1>2. s # <<>>
  BY <1>1
<1>3. Tail(s) \in Seq(V) /\ Len(Tail(s)) = Len(s) - 1
  BY <1>2
<1>4. DOMAIN Tail(s) = 1..(Len(s) - 1)
  BY <1>3
<1>5. ASSUME n >= 2 PROVE Tail(s)[n - 1] = s[n] /\ n - 1 \in DOMAIN Tail(s)
  <2>1. n - 1 \in 1..(Len(s) - 1) /\ (n - 1) + 1 = n
    BY <1>1, <1>5
  <2> QED BY <1>2, <1>4, <2>1
<1> QED BY <1>1, <1>5

LEMMA Within ==
  ASSUME NEW V, NEW s \in Seq(V), NEW W, NEW t \in Seq(W), Len(s) <= Len(t)
  PROVE  DOMAIN s \subseteq DOMAIN t
<1>1. /\ Len(s) \in Nat /\ DOMAIN s = 1..Len(s)
      /\ Len(t) \in Nat /\ DOMAIN t = 1..Len(t)
  OBVIOUS
<1> QED BY <1>1

LEMMA NonEmpty ==
  ASSUME NEW V, NEW s \in Seq(V), s # <<>> PROVE \E n : n \in DOMAIN s
<1>1. 1 \in DOMAIN s
  OBVIOUS
<1> QED BY <1>1

(* What is done to each element of a sequence is a sequence as long.       *)
LEMMA MappedIs ==
  ASSUME NEW V, NEW s \in Seq(V), NEW W, NEW g, g = [n \in DOMAIN s |-> g[n]],
         \A n \in DOMAIN s : g[n] \in W
  PROVE  g \in Seq(W) /\ Len(g) = Len(s)
<1>1. Len(s) \in Nat /\ DOMAIN s = 1..Len(s)
  OBVIOUS
<1>2. g \in [1..Len(s) -> W]
  BY <1>1
<1> QED BY <1>1, <1>2

(* Arguments that a function of known name keeps in fields of another.     *)
LEMMA FieldsOwed ==
  ASSUME Given, contextK = 0, NEW i \in Instructions, NEW dst, NEW vs \in Seq(DOMAIN prog.value),
         NEW from,
         \A n \in DOMAIN vs :
           n >= from => Holds(RefOf(dst), NamedField(ToString(n)), RefOf(vs[n])) \in Says(i, <<>>)
  PROVE  AddFields(dst, vs, from) \in Seq(Owed)
<1> DEFINE g == [n \in DOMAIN vs |->
                   IF n >= from /\ ValueMayShare(vs[n])
                   THEN FieldIs(dst, dst, NamedField(ToString(n)), vs[n]) ELSE <<>>]
<1>1. ASSUME NEW n \in DOMAIN vs PROVE g[n] \in Seq(Owed)
  <2>1. CASE n >= from /\ ValueMayShare(vs[n])
    <3>1. NamedField(ToString(n)) # Equal
      BY FieldOfEqual DEF NamedField
    <3>2. FieldIs(dst, dst, NamedField(ToString(n)), vs[n]) \in Seq(Owed)
      BY <2>1, <3>1, ElementOwed
    <3> QED BY <2>1, <3>2
  <2>2. CASE ~(n >= from /\ ValueMayShare(vs[n]))
    BY <2>2, NoneIn
  <2> QED BY <2>1, <2>2
<1>2. g = [n \in DOMAIN vs |-> g[n]]
  OBVIOUS
<1>3. AddFields(dst, vs, from) = FlattenSeq(g)
  BY DEF AddFields
<1> HIDE DEF g
<1> QED BY <1>1, <1>2, <1>3, FunctionIn

(* Calls: of Sprint and Fprint, and of functions with a body.              *)
LEMMA KnownOwed ==
  ASSUME Given, contextK = 0, WellTyped(prog), NEW i \in Instructions,
         i.is \in CallKinds, i.callee # "", prog.func[i.callee].known # ""
  PROVE  VisitKnownFunction(i) \in Seq(Owed)
<1> DEFINE g == prog.func[i.callee]
           vs == i.args
           refs == [n \in DOMAIN vs |-> RefOf(vs[n])]
<1>1. vs \in Seq(DOMAIN prog.value) /\ Fits(prog, i, g)
  BY Typed DEF TypedInstruction
<1>2. g.known \in {"Sprint", "Fprint"}
  BY <1>1 DEF Fits
<1>3. Len(vs) \in Nat /\ DOMAIN vs = 1..Len(vs)
  BY <1>1, SeqIs
<1>4. CASE g.known = "Sprint" /\ i.is = "Call"
  <2>1. Says(i, <<>>) = Numbered(RefOf(i.reg), refs, 0)
    BY <1>4, SaysCallIs
  <2>2. ASSUME NEW n \in DOMAIN vs
        PROVE  Holds(RefOf(i.reg), NamedField(ToString(n)), RefOf(vs[n])) \in Says(i, <<>>)
    <3>1. 0 + n = n
      BY <1>1, Counted
    <3>2. Holds(RefOf(i.reg), NamedField(ToString(0 + n)), refs[n]) \in Says(i, <<>>)
      BY <2>1 DEF Numbered
    <3> QED BY <3>1, <3>2
  <2>3. AddFields(i.reg, vs, 1) \in Seq(Owed)
    BY <1>1, <2>2, FieldsOwed
  <2> QED BY <1>4, <2>3 DEF VisitKnownFunction
<1>5. CASE g.known = "Sprint" /\ i.is # "Call"
  BY <1>5, NoneIn DEF VisitKnownFunction
<1>6. CASE g.known = "Fprint"
  <2>1. Says(i, <<>>) = Numbered(refs[1], Tail(refs), 1)
    BY <1>6, SaysCallIs
  <2>2. 1 \in DOMAIN vs
    <3>1. vs # <<>>
      BY <1>1, <1>6 DEF Fits
    <3>2. \E n : n \in DOMAIN vs
      <4> HIDE DEF vs
      <4> QED BY <1>1, <3>1, NonEmpty
    <3> QED BY <1>1, <3>2, Counted
  <2>3. refs \in Seq({RefOf(v) : v \in DOMAIN prog.value}) /\ Len(refs) = Len(vs)
    <3>1. refs = [n \in DOMAIN vs |-> refs[n]] /\ \A n \in DOMAIN vs : refs[n] = RefOf(vs[n])
      OBVIOUS
    <3> DEFINE W == {RefOf(v) : v \in DOMAIN prog.value}
    <3> HIDE DEF refs, vs
    <3>2. \A n \in DOMAIN vs : refs[n] \in W
      BY <1>1, <3>1, SeqIs
    <3> HIDE DEF W
    <3>3. refs \in Seq(W) /\ Len(refs) = Len(vs)
      <4>1. vs \in Seq(DOMAIN prog.value)
        BY <1>1
      <4>2. refs = [n \in DOMAIN vs |-> refs[n]]
        BY <3>1
      <4> QED BY <3>2, <4>1, <4>2, MappedIs, ZenonT(30)
    <3> QED BY <3>3 DEF W
  <2>4. ASSUME NEW n \in DOMAIN vs, n >= 2
        PROVE  Holds(RefOf(vs[1]), NamedField(ToString(n)), RefOf(vs[n])) \in Says(i, <<>>)
    <3> DEFINE m == n - 1
    <3>1. m \in DOMAIN Tail(refs) /\ 1 + m = n /\ Tail(refs)[m] = refs[n]
      <4>1. n \in DOMAIN refs
        OBVIOUS
      <4> HIDE DEF refs, vs
      <4> QED BY <2>3, <2>4, <4>1, Counted
    <3>2. refs[n] = RefOf(vs[n]) /\ refs[1] = RefOf(vs[1])
      BY <2>2
    <3> HIDE DEF m, refs
    <3>3. Holds(refs[1], NamedField(ToString(1 + m)), Tail(refs)[m]) \in Says(i, <<>>)
      BY <2>1, <3>1 DEF Numbered
    <3> QED BY <3>1, <3>2, <3>3
  <2>5. AddFields(vs[1], vs, 2) \in Seq(Owed)
    BY <1>1, <2>4, FieldsOwed
  <2> QED BY <1>6, <2>5 DEF VisitKnownFunction
<1> QED BY <1>2, <1>4, <1>5, <1>6

(* What is passed to a function and what its variables are bound to.       *)
OwedPairs == {u \in (DOMAIN prog.value) \X (DOMAIN prog.value) : Unify(RefOf(u[1]), RefOf(u[2])) \in Owed}

LEMMA ParamsOwed ==
  ASSUME Given, contextK = 0, WellTyped(prog), NEW i \in Instructions,
         i.is \in CallKinds, i.callee # "", i.callee \in Fn,
         prog.func[i.callee].known = "", prog.func[i.callee].body # <<>>,
         Len(prog.func[i.callee].params) = Len(i.args)
  PROVE  ParamConstraints(i) \in Seq(OwedPairs)
<1> DEFINE g == prog.func[i.callee]
           as == i.args
           bs == i.bindings
           ag == [n \in DOMAIN as |-> IF ValueMayShare(as[n]) /\ MayShareObject(TypeOf(g.params[n]))
                                      THEN <<<<as[n], g.params[n]>>>> ELSE <<>>]
           bg == [n \in DOMAIN bs |-> IF ValueMayShare(bs[n])
                                      THEN <<<<g.freeVars[n], bs[n]>>>> ELSE <<>>]
<1>1. as \in Seq(DOMAIN prog.value) /\ Fits(prog, i, g)
  BY Typed DEF TypedInstruction
<1>2. Bound(prog, bs, g.freeVars)
  BY <1>1 DEF Fits
<1>3. /\ g.params \in Seq(DOMAIN prog.value) /\ g.freeVars \in Seq(DOMAIN prog.value)
      /\ ToSet(g.params) \cup ToSet(g.freeVars) \subseteq Locals(prog)
  BY DEF WellTyped, WellFormed, Given, Fn
<1>4. /\ \A n \in DOMAIN as : Same(RefOf(as[n]), RefOf(g.params[n])) \in Says(i, <<>>)
      /\ \A n \in DOMAIN bs : Same(RefOf(bs[n]), RefOf(g.freeVars[n])) \in Says(i, <<>>)
  BY SaysCallIs
<1>p. Len(g.params) = Len(as)
  OBVIOUS
<1> HIDE DEF g, as, bs
<1>5. ASSUME NEW n \in DOMAIN as PROVE ag[n] \in Seq(OwedPairs)
  <2>1. CASE ValueMayShare(as[n]) /\ MayShareObject(TypeOf(g.params[n]))
    <3>1. n \in DOMAIN g.params
      <4>1. DOMAIN g.params = 1..Len(g.params) /\ DOMAIN as = 1..Len(as)
        BY <1>1, <1>3, SeqIs
      <4> QED BY <1>p, <4>1
    <3>2. g.params[n] \in Locals(prog) /\ g.params[n] \in DOMAIN prog.value /\ as[n] \in DOMAIN prog.value
      BY <1>1, <1>3, <3>1, SeqIs
    <3>3. ValueMayShare(g.params[n])
      BY <2>1, <3>2 DEF ValueMayShare, Locals
    <3>4. Unify(RefOf(as[n]), RefOf(g.params[n])) \in Owed
      BY <1>4, <2>1, <3>3, SameOwed
    <3>5. <<as[n], g.params[n]>> \in OwedPairs
      BY <3>2, <3>4 DEF OwedPairs
    <3> QED BY <2>1, <3>5, OneIn
  <2>2. CASE ~(ValueMayShare(as[n]) /\ MayShareObject(TypeOf(g.params[n])))
    BY <2>2, NoneIn
  <2> QED BY <2>1, <2>2
<1>6. ASSUME NEW n \in DOMAIN bs PROVE bg[n] \in Seq(OwedPairs)
  <2>1. CASE ValueMayShare(bs[n])
    <3>1. bs \in Seq(DOMAIN prog.value) /\ Len(bs) <= Len(g.freeVars)
          /\ prog.value[bs[n]].type = prog.value[g.freeVars[n]].type
      BY <1>2 DEF Bound
    <3>2. n \in DOMAIN g.freeVars
      BY <1>3, <3>1, Within
    <3>3. /\ g.freeVars[n] \in Locals(prog) /\ g.freeVars[n] \in DOMAIN prog.value
          /\ bs[n] \in DOMAIN prog.value
      BY <1>3, <3>1, <3>2, SeqIs
    <3>4. ValueMayShare(g.freeVars[n])
      BY <2>1, <3>1, <3>3 DEF ValueMayShare, Locals, TypeOf
    <3>5. Unify(RefOf(g.freeVars[n]), RefOf(bs[n])) \in Owed
      BY <1>4, <2>1, <3>4, SameOwed
    <3>6. <<g.freeVars[n], bs[n]>> \in OwedPairs
      BY <3>3, <3>5 DEF OwedPairs
    <3> QED BY <2>1, <3>6, OneIn
  <2>2. CASE ~ValueMayShare(bs[n])
    BY <2>2, NoneIn
  <2> QED BY <2>1, <2>2
<1>7. ag = [n \in DOMAIN as |-> ag[n]] /\ bg = [n \in DOMAIN bs |-> bg[n]]
  OBVIOUS
<1>8. ParamConstraints(i) = FlattenSeq(ag) \o FlattenSeq(bg)
  BY DEF ParamConstraints, g, as, bs
<1>9. bs \in Seq(DOMAIN prog.value)
  BY <1>2 DEF Bound
<1> HIDE DEF ag, bg
<1>10. FlattenSeq(ag) \in Seq(OwedPairs)
  BY <1>1, <1>5, <1>7, FunctionIn
<1>11. FlattenSeq(bg) \in Seq(OwedPairs)
  BY <1>6, <1>7, <1>9, FunctionIn
<1> QED BY <1>8, <1>10, <1>11, BothIn

(* The pairs of parameters in the order of a map of the arguments.         *)
LEMMA OrderedOwed ==
  ASSUME Given, contextK = 0, NEW cstrs \in Seq(OwedPairs), NEW site,
         NEW order \in SetToSeqs({cstrs[n][1] : n \in DOMAIN cstrs})
  PROVE  FlattenSeq([m \in DOMAIN order |->
           FlattenSeq([n \in DOMAIN cstrs |->
             IF cstrs[n][1] = order[m]
             THEN UnifyCallWithContexts(order[m], cstrs[n][2], site)
             ELSE <<>>])]) \in Seq(Owed)
<1> DEFINE S == {cstrs[n][1] : n \in DOMAIN cstrs}
           g(m) == [n \in DOMAIN cstrs |->
                      IF cstrs[n][1] = order[m]
                      THEN UnifyCallWithContexts(order[m], cstrs[n][2], site)
                      ELSE <<>>]
           h == [m \in DOMAIN order |-> FlattenSeq(g(m))]
<1>1. ASSUME NEW m \in DOMAIN order PROVE FlattenSeq(g(m)) \in Seq(Owed)
  <2>1. ASSUME NEW n \in DOMAIN cstrs PROVE g(m)[n] \in Seq(Owed)
    <3>1. CASE cstrs[n][1] = order[m]
      <4>1. cstrs[n] \in OwedPairs
        OBVIOUS
      <4>2. Unify(RefOf(order[m]), RefOf(cstrs[n][2])) \in Owed
        BY <3>1, <4>1 DEF OwedPairs
      <4>3. UnifyCallWithContexts(order[m], cstrs[n][2], site) \in Seq(Owed)
        BY <4>2, CallUnifiesIn
      <4> QED BY <3>1, <4>3
    <3>2. CASE cstrs[n][1] # order[m]
      BY <3>2, NoneIn
    <3> QED BY <3>1, <3>2
  <2>2. g(m) = [n \in DOMAIN cstrs |-> g(m)[n]]
    OBVIOUS
  <2> DEFINE gm == g(m)
  <2>3. gm = [n \in DOMAIN cstrs |-> gm[n]] /\ \A n \in DOMAIN cstrs : gm[n] \in Seq(Owed)
    BY <2>1, <2>2
  <2> HIDE DEF gm, g
  <2>4. FlattenSeq(gm) \in Seq(Owed)
    BY <2>3, FunctionIn
  <2> QED BY <2>4 DEF gm
<1>2. IsFiniteSet(S) /\ order \in [1..Cardinality(S) -> S]
  <2> DEFINE k == [n \in DOMAIN cstrs |-> cstrs[n][1]]
  <2>1. IsFiniteSet(DOMAIN cstrs)
    <3>1. Len(cstrs) \in Nat /\ DOMAIN cstrs = 1..Len(cstrs)
      OBVIOUS
    <3> QED BY <3>1, FS_Interval
  <2>2. DOMAIN k = DOMAIN cstrs /\ {k[n] : n \in DOMAIN k} = S
    OBVIOUS
  <2> HIDE DEF k, S
  <2>3. IsFiniteSet(S)
    BY <2>1, <2>2, FiniteImage
  <2>4. order \in [1..Cardinality(S) -> S]
    BY DEF SetToSeqs, S
  <2> QED BY <2>3, <2>4
<1>3. order \in Seq(S)
  <2> HIDE DEF S
  <2>1. Cardinality(S) \in Nat
    BY <1>2, FS_CardinalityType
  <2> QED BY <1>2, <2>1
<1>4. h = [m \in DOMAIN order |-> h[m]] /\ \A m \in DOMAIN order : h[m] \in Seq(Owed)
  BY <1>1
<1> HIDE DEF h, S
<1>5. FlattenSeq(h) \in Seq(Owed)
  BY <1>3, <1>4, FunctionIn
<1> QED BY <1>5 DEF h

LEMMA TupleOwed ==
  ASSUME Given, contextK = 0, NEW i \in Instructions, NEW ret \in Seq(DOMAIN prog.value),
         \A k \in DOMAIN ret :
           Holds(RefOf(i.reg), NamedField(ToString(-1 + k)), RefOf(ret[k])) \in Says(i, <<>>)
  PROVE  UnifyTuple(i, ret) \in Seq(Owed)
<1> DEFINE at(k) == Constraint("field", RefOf(i.reg), NamedField(ToString(k - 1)), RefOf(ret[k]))
           in(k) == IF ContextKEqual(Append(<<>>, i.site), <<>>) THEN <<at(k)>> ELSE <<>>
           all(k) == FlattenSeq([m \in {1} |-> FlattenSeq([n \in {1} |-> in(k)])])
           g == [k \in DOMAIN ret |-> IF ~ValueMayShare(ret[k]) THEN <<>> ELSE all(k)]
<1>1. ASSUME NEW k \in DOMAIN ret, ValueMayShare(ret[k]) PROVE all(k) \in Seq(Owed)
  <2>1. NamedField(ToString(k - 1)) # Equal
    BY FieldOfEqual DEF NamedField
  <2>2. -1 + k = k - 1
    BY Counted
  <2>3. Holds(RefOf(i.reg), NamedField(ToString(k - 1)), RefOf(ret[k])) \in Says(i, <<>>)
    BY <2>2
  <2>4. at(k) \in Owed
    BY <1>1, <2>1, <2>3, HoldsOwed
  <2> HIDE DEF at
  <2>5. in(k) \in Seq(Owed)
    BY <2>4, OneIn, NoneIn
  <2> HIDE DEF in
  <2>6. [n \in {1} |-> in(k)] \in Seq(Seq(Owed))
    BY <2>5, OneIn
  <2>7. FlattenSeq([n \in {1} |-> in(k)]) \in Seq(Owed)
    BY <2>6, FlattenIn
  <2>8. [m \in {1} |-> FlattenSeq([n \in {1} |-> in(k)])] \in Seq(Seq(Owed))
    BY <2>7, OneIn
  <2> QED BY <2>8, FlattenIn
<1>2. g = [k \in DOMAIN ret |-> g[k]] /\ \A k \in DOMAIN ret : g[k] \in Seq(Owed)
  <2> HIDE DEF all
  <2> QED BY <1>1, NoneIn
<1>3. UnifyTuple(i, ret) = FlattenSeq(g)
  BY InTheContext DEF UnifyTuple, InContextsOf, RefOf
<1> HIDE DEF g
<1> QED BY <1>2, <1>3, FunctionIn

LEMMA ReturnsOwed ==
  ASSUME Given, contextK = 0, WellTyped(prog), NEW i \in Instructions,
         i.is = "Call", i.callee # "", i.callee \in Fn,
         prog.func[i.callee].known = "", prog.func[i.callee].body # <<>>
  PROVE  UnifyReturns(i) \in Seq(Owed)
<1> DEFINE rs == prog.func[i.callee].returns
           g == [n \in DOMAIN rs |->
                   IF Len(rs[n]) # 1 THEN UnifyTuple(i, rs[n])
                   ELSE IF ValueMayShare(rs[n][1])
                        THEN UnifyCallWithContexts(i.reg, rs[n][1], i.site)
                        ELSE <<>>]
<1>1. i.is \in CallKinds /\ i.is \in Defining
  BY DEF CallKinds, Defining
<1>2. rs \in Seq(Seq(DOMAIN prog.value))
  BY DEF WellTyped, Fn
<1>3. \A n \in DOMAIN rs : Len(rs[n]) = 1 => TypeOf(i.reg) = TypeOf(rs[n][1])
  BY <1>1, Typed DEF TypedInstruction, Fits, TypeOf
<1>4. \A ret \in ToSet(rs) :
        /\ Len(ret) = 1 => Same(RefOf(i.reg), RefOf(ret[1])) \in Says(i, <<>>)
        /\ Len(ret) # 1 =>
             \A k \in DOMAIN ret :
               Holds(RefOf(i.reg), NamedField(ToString(-1 + k)), RefOf(ret[k])) \in Says(i, <<>>)
  BY <1>1, SaysCallIs
<1>5. UnifyReturns(i) = FlattenSeq(g)
  BY DEF UnifyReturns
<1> HIDE DEF rs
<1>6. ASSUME NEW n \in DOMAIN rs PROVE g[n] \in Seq(Owed)
  <2>1. rs[n] \in ToSet(rs) /\ rs[n] \in Seq(DOMAIN prog.value)
    BY <1>2, SeqIs
  <2>2. CASE Len(rs[n]) # 1
    <3>1. UnifyTuple(i, rs[n]) \in Seq(Owed)
      BY <1>4, <2>1, <2>2, TupleOwed
    <3> QED BY <2>2, <3>1
  <2>3. CASE Len(rs[n]) = 1 /\ ValueMayShare(rs[n][1])
    <3>1. ValueMayShare(i.reg)
      BY <1>1, <1>3, <2>3, RegIs DEF ValueMayShare
    <3>2. Unify(RefOf(i.reg), RefOf(rs[n][1])) \in Owed
      BY <1>4, <2>1, <2>3, <3>1, SameOwed
    <3>3. UnifyCallWithContexts(i.reg, rs[n][1], i.site) \in Seq(Owed)
      BY <3>2, CallUnifiesIn
    <3> QED BY <2>3, <3>3
  <2>4. CASE Len(rs[n]) = 1 /\ ~ValueMayShare(rs[n][1])
    BY <2>4, NoneIn
  <2> QED BY <2>2, <2>3, <2>4
<1>7. g = [n \in DOMAIN rs |-> g[n]]
  OBVIOUS
<1> HIDE DEF g
<1> QED BY <1>2, <1>5, <1>6, <1>7, FunctionIn

LEMMA CallOwed ==
  ASSUME Given, contextK = 0, WellTyped(prog), NEW i \in Instructions, VisitCall(i)
  PROVE  agenda' \in Seq(Owed)
<1> DEFINE g == prog.func[i.callee]
           cstrs == ParamConstraints(i)
           unifies(order) ==
             FlattenSeq([m \in DOMAIN order |->
               FlattenSeq([n \in DOMAIN cstrs |->
                 IF cstrs[n][1] = order[m]
                 THEN UnifyCallWithContexts(order[m], cstrs[n][2], i.site)
                 ELSE <<>>])])
           returned == IF i.is = "Call" THEN UnifyReturns(i) ELSE <<>>
<1>1. i.is \in CallKinds
  BY DEF VisitCall
<1>2. CASE i.callee = ""
  BY <1>2, NoneIn DEF VisitCall
<1>3. CASE i.callee # "" /\ g.known # ""
  <2>1. agenda' = VisitKnownFunction(i)
    BY <1>3 DEF VisitCall
  <2> QED BY <1>1, <1>3, <2>1, KnownOwed
<1>4. CASE i.callee # "" /\ g.known = "" /\ (g.body = <<>> \/ Len(g.params) # Len(i.args))
  BY <1>4, NoneIn DEF VisitCall
<1>5. CASE i.callee # "" /\ g.known = "" /\ ~(g.body = <<>> \/ Len(g.params) # Len(i.args))
  <2>1. PICK order \in SetToSeqs({cstrs[n][1] : n \in DOMAIN cstrs}) :
          agenda' = unifies(order) \o returned
    BY <1>5 DEF VisitCall
  <2>2. i.callee \in Fn
    <3>1. PICK f \in Fn : i \in ToSet(prog.func[f].body)
      BY DEF Instructions
    <3>2. <<f, i>> \in Sited(prog)
      BY <1>1, <3>1, SitedIs
    <3>3. i.callee \in DOMAIN prog.func \cup {""}
      BY <1>1, <3>2 DEF Given, WellFormed
    <3> QED BY <1>5, <3>3 DEF Fn
  <2>3. cstrs \in Seq(OwedPairs)
    BY <1>1, <1>5, <2>2, ParamsOwed
  <2>4. returned \in Seq(Owed)
    BY <1>5, <2>2, ReturnsOwed, NoneIn
  <2> HIDE DEF cstrs, returned
  <2>5. unifies(order) \in Seq(Owed)
    BY <2>3, OrderedOwed
  <2> HIDE DEF unifies
  <2> QED BY <2>1, <2>4, <2>5, BothIn
<1> QED BY <1>2, <1>3, <1>4, <1>5

(* Every visit asserts only what the program's equations say.              *)
LEMMA VisitOwed ==
  ASSUME Given, Plain, WellTyped(prog), NEW i \in Instructions, Visit(i)
  PROVE  agenda' \in Seq(Owed)
<1>1. contextK = 0 /\ ~VisitField(i) /\ ~VisitCopyBuiltin(i)
  BY DEF Plain, VisitField, VisitCopyBuiltin
<1>2. CASE VisitCopy(i) \/ VisitPhi(i) \/ VisitTypeAssert(i)
  BY <1>1, <1>2, CopyOwed, PhiOwed, TypeAssertOwed
<1>3. CASE VisitFieldAddr(i) \/ VisitIndexAddr(i) \/ VisitIndex(i)
           \/ VisitLookup(i) \/ VisitMapUpdate(i) \/ VisitStore(i) \/ VisitReceive(i)
           \/ VisitLoad(i) \/ VisitConcat(i) \/ VisitSend(i) \/ VisitSelect(i)
  BY <1>1, <1>3, FieldAddrOwed, IndexAddrOwed, IndexOwed, MapUpdateOwed, StoreOwed, ReceiveOwed,
     LoadOwed, ConcatOwed, SendOwed, SelectOwed
<1>4. CASE VisitExtract(i) \/ VisitMakeClosure(i) \/ VisitAppend(i)
           \/ VisitCall(i) \/ VisitSilent(i)
  BY <1>1, <1>4, ExtractOwed, MakeClosureOwed, AppendOwed, CallOwed, SilentOwed
<1> QED BY <1>1, <1>2, <1>3, <1>4 DEF Visit

-----------------------------------------------------------------------------
(* Constraints that hold of the labels keep the heap labelled.             *)

(* The labelling satisfies the equations.                                  *)
Models(Rs, lab, fl) ==
  /\ \A v \in DOMAIN prog.value : RefOf(v) \in Rs
  /\ \A e \in Equations :
       /\ e.a \in Rs /\ e.b \in Rs
       /\ IF e.fd = Equal THEN lab[e.a] = lab[e.b] ELSE lab[e.b] = fl[e.fd][lab[e.a]]

(* What a constraint says of the labels.                                   *)
Labels(Rs, lab, fl, c) ==
  /\ c.a \in Rs /\ c.b \in Rs
  /\ c.do = "unify" => lab[c.a] = lab[c.b]
  /\ c.do = "field" => lab[c.b] = fl[c.fd][lab[c.a]]
  /\ c.do = "address" => lab[c.b] = fl[c.fd][fl[PointTo][lab[c.a]]]
  /\ c.do \in {"unify", "field", "address"}

(* A justified constraint holds of the labels.                             *)
LEMMA OwedLabels ==
  ASSUME NEW Rs, NEW lab, NEW fl, Models(Rs, lab, fl), NEW c \in Owed
  PROVE  Labels(Rs, lab, fl, c)
<1>1. ASSUME NEW a, NEW fd, NEW b
      PROVE  /\ Unify(a, b).do = "unify" /\ Unify(a, b).a = a /\ Unify(a, b).b = b
             /\ Constraint("field", a, fd, b).do = "field" /\ Constraint("field", a, fd, b).a = a
             /\ Constraint("field", a, fd, b).b = b /\ Constraint("field", a, fd, b).fd = fd
             /\ Constraint("address", a, fd, b).do = "address" /\ Constraint("address", a, fd, b).a = a
             /\ Constraint("address", a, fd, b).b = b /\ Constraint("address", a, fd, b).fd = fd
  BY DEF Unify, Constraint
<1>2. CASE \E e \in Equations : e.fd = Equal /\ (c = Unify(e.a, e.b) \/ c = Unify(e.b, e.a))
  <2>1. PICK e \in Equations : e.fd = Equal /\ (c = Unify(e.a, e.b) \/ c = Unify(e.b, e.a))
    BY <1>2
  <2>2. e.a \in Rs /\ e.b \in Rs /\ lab[e.a] = lab[e.b]
    BY <2>1 DEF Models
  <2> QED BY <1>1, <2>1, <2>2 DEF Labels
<1>3. CASE \E e \in Equations : e.fd # Equal /\ c = Constraint("field", e.a, e.fd, e.b)
  <2>1. PICK e \in Equations : e.fd # Equal /\ c = Constraint("field", e.a, e.fd, e.b)
    BY <1>3
  <2>2. e.a \in Rs /\ e.b \in Rs /\ lab[e.b] = fl[e.fd][lab[e.a]]
    BY <2>1 DEF Models
  <2> QED BY <1>1, <2>1, <2>2 DEF Labels
<1>4. CASE \E d \in Equations, e \in Equations :
             /\ d.fd = PointTo /\ e.fd # Equal /\ e.a = d.b
             /\ c = Constraint("address", d.a, e.fd, e.b)
  <2>1. PICK d \in Equations, e \in Equations :
             /\ d.fd = PointTo /\ e.fd # Equal /\ e.a = d.b
             /\ c = Constraint("address", d.a, e.fd, e.b)
    BY <1>4
  <2>2. e.a \in Rs /\ e.b \in Rs /\ lab[e.b] = fl[e.fd][lab[e.a]]
    BY <2>1 DEF Models
  <2>3. d.a \in Rs /\ lab[d.b] = fl[PointTo][lab[d.a]]
    BY <2>1, AnyNotEqual DEF Models
  <2>4. lab[e.b] = fl[e.fd][fl[PointTo][lab[d.a]]]
    BY <2>1, <2>2, <2>3
  <2>5. c.a = d.a /\ c.b = e.b /\ c.fd = e.fd /\ c.do = "address"
    BY <1>1, <2>1
  <2> QED BY <2>2, <2>3, <2>4, <2>5 DEF Labels
<1> QED BY <1>2, <1>3, <1>4 DEF Owed

(* Pending pairs of one label, on top of others.                           *)
LEMMA PushLabelled ==
  ASSUME NEW A, NEW rest \in Seq(SUBSET A), NEW S \in SUBSET A
  PROVE  Heap!Push(S, rest) \in Seq(SUBSET A)
<1>1. <<S>> \in Seq(SUBSET A)
  OBVIOUS
<1>2. <<S>> \o rest \in Seq(SUBSET A)
  BY <1>1
<1> QED BY <1>2 DEF Heap!Push

LEMMA BecomesLabelled ==
  ASSUME NEW Rs, NEW lab, NEW fl, NEW h, Sound(h), Labelled(Rs, lab, fl, h),
         frames \in Seq(SUBSET Alike(Rs, lab)), NEW S \in SUBSET Alike(Rs, lab), Becomes(h, S)
  PROVE  Labelled(Rs, lab, fl, Now') /\ frames' \in Seq(SUBSET Alike(Rs, lab))
<1>1. Now' = [p |-> h.p, q |-> h.q] /\ frames' = Heap!Push(S, frames)
  BY DEF Becomes, Now
<1>2. Now' = h
  BY <1>1 DEF Sound
<1> QED BY <1>1, <1>2, PushLabelled

LEMMA AlikePair ==
  ASSUME NEW Rs, NEW lab, NEW a \in Rs, NEW b \in Rs, lab[a] = lab[b]
  PROVE  {<<a, b>>} \in SUBSET Alike(Rs, lab) /\ {} \in SUBSET Alike(Rs, lab)
<1>1. <<a, b>> \in Rs \X Rs /\ <<a, b>>[1] = a /\ <<a, b>>[2] = b
  OBVIOUS
<1>2. <<a, b>> \in Alike(Rs, lab)
  BY <1>1 DEF Alike
<1> QED BY <1>2

LEMMA FinitePair == ASSUME NEW a, NEW b PROVE IsFiniteSet({a, b})
<1>1. IsFiniteSet({a}) /\ IsFiniteSet({b}) /\ {a, b} = {a} \cup {b}
  BY FS_Singleton
<1> QED BY <1>1, FS_Union

(* Asserting a justified constraint keeps the heap labelled.               *)
LEMMA AssertLabelled ==
  ASSUME NEW Rs, NEW lab, NEW fl, Labelling(Rs, lab, fl), Models(Rs, lab, fl),
         Sound(Now), Labelled(Rs, lab, fl, Now), frames \in Seq(SUBSET Alike(Rs, lab)),
         agenda \in Seq(Owed), AssertNext
  PROVE  /\ Labelled(Rs, lab, fl, Now') /\ frames' \in Seq(SUBSET Alike(Rs, lab))
         /\ agenda' \in Seq(Owed)
<1> DEFINE c == Head(agenda)
<1>1. c \in Owed /\ Tail(agenda) \in Seq(Owed)
  BY DEF AssertNext
<1>2. Labels(Rs, lab, fl, c)
  BY <1>1, OwedLabels
<1>3. \/ /\ AssertUnify(c) \/ AssertField(c) \/ AssertAddress(c) \/ AssertLoad(c)
            \/ AssertCopyPlain(c) \/ AssertCopyAddressed(c)
         /\ agenda' = Tail(agenda)
      \/ AssertCopy(c)
  BY DEF AssertNext
<1> HIDE DEF c
<1>4. (AssertUnify(c) \/ AssertField(c) \/ AssertAddress(c)) /\ agenda' = Tail(agenda)
  BY <1>2, <1>3 DEF Labels, AssertLoad, AssertCopyPlain, AssertCopyAddressed, AssertCopy
<1>5. c.a \in Rs /\ c.b \in Rs
  BY <1>2 DEF Labels
<1>6. CASE AssertUnify(c)
  <2>1. lab[c.a] = lab[c.b] /\ Becomes(Now, {<<c.a, c.b>>})
    BY <1>2, <1>6 DEF AssertUnify, Labels
  <2>2. {<<c.a, c.b>>} \in SUBSET Alike(Rs, lab)
    BY <1>5, <2>1, AlikePair
  <2> QED BY <1>1, <1>4, <2>1, <2>2, BecomesLabelled
<1>7. CASE AssertField(c)
  <2> DEFINE h == After(Now, {c.a, c.b})
             target == Root(h.p, c.b)
  <2>1. IF c.fd \in DOMAIN Fields(h, c.a)
        THEN Becomes(h, {<<Fields(h, c.a)[c.fd], target>>})
        ELSE Becomes(Put(h, c.a, c.fd, target), {})
    BY <1>7 DEF AssertField
  <2>2. lab[c.b] = fl[c.fd][lab[c.a]]
    BY <1>2, <1>7 DEF AssertField, Labels
  <2>3. Sound(h) /\ Labelled(Rs, lab, fl, h) /\ c.a \in DOMAIN h.p /\ c.b \in DOMAIN h.p
    <3>1. {c.a, c.b} \in SUBSET Rs /\ IsFiniteSet({c.a, c.b})
      BY <1>5, FinitePair
    <3>2. /\ Sound(h) /\ Labelled(Rs, lab, fl, h)
          /\ DOMAIN h.p = DOMAIN Now.p \cup {c.a, c.b}
      BY <3>1, AfterIsLabelled
    <3> QED BY <3>2
  <2> HIDE DEF h
  <2>4. target \in Rs /\ lab[target] = lab[c.b]
    BY <2>3, RootInTable DEF Labelled
  <2> HIDE DEF target
  <2>5. CASE c.fd \in DOMAIN Fields(h, c.a)
    <3> DEFINE v == Fields(h, c.a)[c.fd]
    <3>1. v \in Rs /\ lab[v] = fl[c.fd][lab[c.a]]
      BY <2>3, <2>5, FieldIsLabelled
    <3>2. Becomes(h, {<<v, target>>})
      BY <2>1, <2>5
    <3> HIDE DEF v
    <3>3. {<<v, target>>} \in SUBSET Alike(Rs, lab)
      BY <2>2, <2>4, <3>1, AlikePair
    <3> QED BY <1>1, <1>4, <2>3, <3>2, <3>3, BecomesLabelled
  <2>6. CASE c.fd \notin DOMAIN Fields(h, c.a)
    <3>1. Sound(Put(h, c.a, c.fd, target)) /\ Labelled(Rs, lab, fl, Put(h, c.a, c.fd, target))
      BY <2>2, <2>3, <2>4, PutIsLabelled
    <3>2. Becomes(Put(h, c.a, c.fd, target), {}) /\ {} \in SUBSET Alike(Rs, lab)
      BY <2>1, <2>6
    <3> QED BY <1>1, <1>4, <3>1, <3>2, BecomesLabelled
  <2> QED BY <2>5, <2>6
<1>8. CASE AssertAddress(c)
  <2> DEFINE h == WithPointee(Now, c.a)
             obj == Pointee(h, c.a)
             h1 == After(h, {obj})
  <2>1. IF c.fd \in DOMAIN Fields(h1, obj)
        THEN Becomes(h1, {<<Fields(h1, obj)[c.fd], c.b>>})
        ELSE Becomes(Put(h1, obj, c.fd, c.b), {})
    BY <1>8 DEF AssertAddress
  <2>2. lab[c.b] = fl[c.fd][fl[PointTo][lab[c.a]]]
    BY <1>2, <1>8 DEF AssertAddress, Labels
  <2>3. /\ Sound(h) /\ Labelled(Rs, lab, fl, h)
        /\ obj \in Rs /\ lab[obj] = fl[PointTo][lab[c.a]]
    BY <1>5, PointeeIsLabelled
  <2> HIDE DEF h, obj
  <2>4. Sound(h1) /\ Labelled(Rs, lab, fl, h1) /\ obj \in DOMAIN h1.p
    <3>1. {obj} \in SUBSET Rs /\ IsFiniteSet({obj})
      BY <2>3, FS_Singleton
    <3> QED BY <2>3, <3>1, AfterIsLabelled
  <2> HIDE DEF h1
  <2>5. CASE c.fd \in DOMAIN Fields(h1, obj)
    <3> DEFINE v == Fields(h1, obj)[c.fd]
    <3>1. v \in Rs /\ lab[v] = fl[c.fd][lab[obj]]
      BY <2>4, <2>5, FieldIsLabelled
    <3>2. Becomes(h1, {<<v, c.b>>})
      BY <2>1, <2>5
    <3> HIDE DEF v
    <3>3. {<<v, c.b>>} \in SUBSET Alike(Rs, lab)
      BY <1>5, <2>2, <2>3, <3>1, AlikePair
    <3> QED BY <1>1, <1>4, <2>4, <3>2, <3>3, BecomesLabelled
  <2>6. CASE c.fd \notin DOMAIN Fields(h1, obj)
    <3>1. Sound(Put(h1, obj, c.fd, c.b)) /\ Labelled(Rs, lab, fl, Put(h1, obj, c.fd, c.b))
      BY <1>5, <2>2, <2>3, <2>4, PutIsLabelled
    <3>2. Becomes(Put(h1, obj, c.fd, c.b), {}) /\ {} \in SUBSET Alike(Rs, lab)
      BY <2>1, <2>6
    <3> QED BY <1>1, <1>4, <3>1, <3>2, BecomesLabelled
  <2> QED BY <2>5, <2>6
<1> QED BY <1>4, <1>6, <1>7, <1>8

(* The pairs that mergeFieldMap leaves to unify are of one label.          *)
LEMMA ClashesLabelled ==
  ASSUME NEW Rs, NEW lab, NEW fl, NEW h, Labelled(Rs, lab, fl, h),
         NEW a \in DOMAIN h.q, NEW b \in DOMAIN h.q, lab[a] = lab[b],
         NEW m \in Heap!ToUnify(FieldsAt(h.q, a), FieldsAt(h.q, b))
  PROVE  Heap!PairsOf(m) \in SUBSET Alike(Rs, lab)
<1> DEFINE old == FieldsAt(h.q, a)
           new == FieldsAt(h.q, b)
<1>1. /\ \A k \in DOMAIN old : old[k] \in Rs /\ lab[old[k]] = fl[k][lab[a]]
      /\ \A k \in DOMAIN new : new[k] \in Rs /\ lab[new[k]] = fl[k][lab[b]]
  BY DEF Labelled, FieldHolds
<1>2. /\ DOMAIN m = Heap!Clashes(old, new)
      /\ \A v \in Heap!Clashes(old, new) :
           \E k \in DOMAIN old \cap DOMAIN new : old[k] = v /\ new[k] = m[v]
  BY DEF Heap!ToUnify
<1> HIDE DEF old, new
<1>3. ASSUME NEW v \in DOMAIN m PROVE <<v, m[v]>> \in Alike(Rs, lab)
  <2>1. PICK k \in DOMAIN old \cap DOMAIN new : old[k] = v /\ new[k] = m[v]
    BY <1>2, <1>3
  <2>2. v \in Rs /\ m[v] \in Rs /\ lab[v] = lab[m[v]]
    BY <1>1, <2>1
  <2> QED BY <2>2, AlikePair
<1> QED BY <1>3 DEF Heap!PairsOf

(* One Unify of references of one label keeps the heap labelled.           *)
LEMMA UnifyLabelled ==
  ASSUME NEW Rs, NEW lab, NEW fl, NEW h, Sound(h), Labelled(Rs, lab, fl, h),
         NEW a \in DOMAIN h.q, NEW b \in DOMAIN h.q, lab[a] = lab[b],
         NEW rest \in Seq(SUBSET Alike(Rs, lab)), Heap!UnifyReps(h.p, h.q, a, b, rest)
  PROVE  Labelled(Rs, lab, fl, Now') /\ frames' \in Seq(SUBSET Alike(Rs, lab))
<1>1. Now' = [p |-> parents', q |-> partitions']
  BY DEF Now
<1>2. /\ Grounded(h.p) /\ h = [p |-> h.p, q |-> h.q] /\ IsTable(h.q)
      /\ DOMAIN h.q = Heap!RootsOf(h.p)
      /\ DOMAIN h.q = {x \in DOMAIN h.p : Root(h.p, x) = x}
      /\ \A x \in DOMAIN h.p : Root(h.p, x) \in DOMAIN h.q
  BY RootsOfIs, RootExists DEF Sound, Heap!RootsOf
<1>3. CASE a = b
  <2>1. Now' = h /\ frames' = rest
    BY <1>1, <1>2, <1>3 DEF Heap!UnifyReps
  <2> QED BY <2>1
<1>4. CASE a # b
  <2> DEFINE lose == Heap!Loser(h.q, a, b)
             win == Heap!Winner(h.q, a, b)
             p == Heap!Link(h.p, lose, win)
             q == Heap!Absorb(h.q, lose, win)
             old == FieldsAt(h.q, lose)
             new == FieldsAt(h.q, win)
  <2>1. /\ parents' = p /\ partitions' = q
        /\ \E m \in Heap!ToUnify(old, new) : frames' = Heap!Push(Heap!PairsOf(m), rest)
    BY <1>4 DEF Heap!UnifyReps, FieldsAt
  <2>2. /\ lose # win /\ lose \in DOMAIN h.q /\ win \in DOMAIN h.q
        /\ lab[lose] = lab[win]
    BY <1>4 DEF Heap!Loser, Heap!Winner
  <2> HIDE DEF lose, win
  <2>3. lose \in DOMAIN h.p /\ h.p[lose] = lose /\ win \in DOMAIN h.p /\ h.p[win] = win
    BY <1>2, <2>2 DEF Heap!RootsOf
  <2>4. /\ DOMAIN p = DOMAIN h.p
        /\ \A x \in DOMAIN h.p : Root(p, x) = IF Root(h.p, x) = lose THEN win ELSE Root(h.p, x)
    BY <1>2, <2>2, <2>3, LinkJoins
  <2>5. /\ DOMAIN q = DOMAIN h.q \ {lose}
        /\ \A x \in DOMAIN q :
             FieldsAt(q, x) =
               IF x = win THEN Heap!MergedFields(FieldsAt(h.q, lose), FieldsAt(h.q, win))
               ELSE FieldsAt(h.q, x)
    BY <1>2, <2>2, AbsorbIs
  <2>6. frames' \in Seq(SUBSET Alike(Rs, lab))
    <3>1. PICK m \in Heap!ToUnify(old, new) : frames' = Heap!Push(Heap!PairsOf(m), rest)
      BY <2>1
    <3>2. Heap!PairsOf(m) \in SUBSET Alike(Rs, lab)
      BY <2>2, ClashesLabelled
    <3> QED BY <3>1, <3>2, PushLabelled
  <2> HIDE DEF p, q
  <2>7. ASSUME NEW r \in DOMAIN p PROVE lab[Root(p, r)] = lab[r]
    <3>1. lab[Root(h.p, r)] = lab[r] /\ r \in DOMAIN h.p
      BY <2>4 DEF Labelled
    <3> QED BY <2>2, <2>4, <3>1
  <2>8. ASSUME NEW x \in DOMAIN q, NEW fd \in DOMAIN FieldsAt(q, x)
        PROVE  FieldHolds(Rs, lab, fl, x, fd, FieldsAt(q, x)[fd])
    <3>1. CASE x # win
      <4>1. x \in DOMAIN h.q /\ FieldsAt(q, x) = FieldsAt(h.q, x)
        BY <2>5, <3>1
      <4> QED BY <2>8, <4>1 DEF Labelled
    <3>2. CASE x = win
      <4>1. FieldsAt(q, x) = [k \in DOMAIN old \cup DOMAIN new |->
                                IF k \in DOMAIN new THEN new[k] ELSE old[k]]
        BY <2>5, <3>2 DEF Heap!MergedFields
      <4>2. /\ \A k \in DOMAIN old : old[k] \in Rs /\ lab[old[k]] = fl[k][lab[lose]]
            /\ \A k \in DOMAIN new : new[k] \in Rs /\ lab[new[k]] = fl[k][lab[win]]
        BY <2>2 DEF Labelled, FieldHolds
      <4> HIDE DEF old, new
      <4>3. /\ fd \in DOMAIN old \cup DOMAIN new
            /\ FieldsAt(q, x)[fd] = IF fd \in DOMAIN new THEN new[fd] ELSE old[fd]
        BY <2>8, <4>1
      <4> QED BY <2>2, <3>2, <4>2, <4>3 DEF FieldHolds
    <3> QED BY <3>1, <3>2
  <2>9. DOMAIN p \subseteq Rs
    BY <2>4 DEF Labelled
  <2>10. Now'.p = p /\ Now'.q = q
    BY <1>1, <2>1
  <2>11. Labelled(Rs, lab, fl, Now')
    BY <2>7, <2>8, <2>9, <2>10 DEF Labelled
  <2> QED BY <2>6, <2>11
<1> QED BY <1>3, <1>4

(* So does the unification of a pending pair.                              *)
LEMMA PendingLabelled ==
  ASSUME NEW Rs, NEW lab, NEW fl, Sound(Now), Labelled(Rs, lab, fl, Now),
         frames \in Seq(SUBSET Alike(Rs, lab)), StepUnify
  PROVE  Labelled(Rs, lab, fl, Now') /\ frames' \in Seq(SUBSET Alike(Rs, lab))
<1>1. frames # <<>> /\ Head(frames) \in SUBSET Alike(Rs, lab)
      /\ Tail(frames) \in Seq(SUBSET Alike(Rs, lab))
  BY DEF StepUnify
<1>2. PICK pair \in Head(frames) : UnifyPending(pair[1], pair[2])
  BY DEF StepUnify
<1> DEFINE a == pair[1]
           b == pair[2]
           h == After(Now, {a, b})
           rest == Heap!Push(Head(frames) \ {<<a, b>>}, Tail(frames))
<1>3. a \in Rs /\ b \in Rs /\ lab[a] = lab[b]
  BY <1>1, <1>2 DEF Alike
<1>4. Heap!UnifyReps(h.p, h.q, Root(h.p, a), Root(h.p, b), rest)
  BY <1>2 DEF UnifyPending
<1>5. Head(frames) \ {<<a, b>>} \in SUBSET Alike(Rs, lab)
  BY <1>1
<1>6. rest \in Seq(SUBSET Alike(Rs, lab))
  <2>1. Head(frames) \ {<<a, b>>} \in SUBSET Alike(Rs, lab)
    BY <1>1
  <2> HIDE DEF a, b
  <2> QED BY <1>1, <2>1, PushLabelled
<1> HIDE DEF a, b, rest
<1>7. Sound(h) /\ Labelled(Rs, lab, fl, h) /\ a \in DOMAIN h.p /\ b \in DOMAIN h.p
  <2>1. {a, b} \in SUBSET Rs /\ IsFiniteSet({a, b})
    BY <1>3, FinitePair
  <2>2. Sound(h) /\ Labelled(Rs, lab, fl, h) /\ DOMAIN h.p = DOMAIN Now.p \cup {a, b}
    BY <2>1, AfterIsLabelled
  <2> QED BY <2>2
<1> HIDE DEF h
<1>8. /\ Root(h.p, a) \in DOMAIN h.q /\ Root(h.p, b) \in DOMAIN h.q
      /\ lab[Root(h.p, a)] = lab[Root(h.p, b)]
  BY <1>3, <1>7, RootInTable DEF Labelled
<1> QED BY <1>4, <1>6, <1>7, <1>8, UnifyLabelled

-----------------------------------------------------------------------------
(* The invariant of precision.                                             *)

(* The equations are of the program alone.                                 *)
LEMMA SameProgram ==
  ASSUME prog' = prog, contextK' = contextK, contexts' = contexts
  PROVE  /\ Equations' = Equations /\ Instructions' = Instructions
         /\ InitialReferences' = InitialReferences /\ (Plain' <=> Plain) /\ (Given' <=> Given)
<1>1. /\ Fn' = Fn /\ Instructions' = Instructions
      /\ \A v : TypeOf(v)' = TypeOf(v)
  BY DEF Fn, Instructions, TypeOf
<1>2. /\ \A v : ValueMayShare(v)' = ValueMayShare(v)
      /\ \A v : Maker(v)' = Maker(v)
      /\ \A c, v : MakeReference(c, v)' = MakeReference(c, v)
      /\ \A index : IndexFields(index)' = IndexFields(index)
  BY <1>1 DEF ValueMayShare, Maker, MakeReference, IndexFields
<1>3. \A f : Calls(f)' = Calls(f)
  BY DEF Calls
<1>4. \A f : CallersOf(f)' = CallersOf(f)
  BY <1>1, <1>3 DEF CallersOf
<1>5. \A f, k : CollectContext(f, k)' = CollectContext(f, k)
  BY <1>1, <1>4 DEF CollectContext
<1>6. \A v : GetContexts(v)' = GetContexts(v)
  BY DEF GetContexts
<1>7. ASSUME NEW i, NEW c PROVE SaysCall(i, c)' = SaysCall(i, c)
  <2> DEFINE g == prog.func[i.callee]
             d == Suffix(Append(c, i.site), contextK)
             r(v) == MakeReference(c, v)
             callee(v) == MakeReference(d, v)
             args == [n \in DOMAIN i.args |-> r(i.args[n])]
             passed == {Same(args[n], callee(g.params[n])) : n \in DOMAIN args}
                       \cup {Same(r(i.bindings[n]), callee(g.freeVars[n])) : n \in DOMAIN i.bindings}
             returned(ret) == IF Len(ret) = 1 THEN {Same(r(i.reg), callee(ret[1]))}
                              ELSE Numbered(r(i.reg), [n \in DOMAIN ret |-> callee(ret[n])], -1)
             results == IF i.is = "Call" THEN UNION {returned(ret) : ret \in ToSet(g.returns)} ELSE {}
  <2>1. g' = g /\ d' = d
    OBVIOUS
  <2>2. (\A v : r(v)' = r(v)) /\ (\A v : callee(v)' = callee(v))
    BY <1>2, <2>1
  <2>3. args' = args
    BY <2>2
  <2>4. SaysCall(i, c) =
          CASE g.known = "Sprint" -> IF i.is = "Call" THEN Numbered(r(i.reg), args, 0) ELSE {}
            [] g.known = "Fprint" -> Numbered(args[1], Tail(args), 1)
            [] g.known = "" /\ g.body = <<>> -> {}
            [] OTHER -> passed \cup results
    BY DEF SaysCall
  <2>5. SaysCall(i, c)' =
          CASE g'.known = "Sprint" -> IF i.is = "Call" THEN Numbered(r(i.reg)', args', 0) ELSE {}
            [] g'.known = "Fprint" -> Numbered(args'[1], Tail(args'), 1)
            [] g'.known = "" /\ g'.body = <<>> -> {}
            [] OTHER -> passed' \cup results'
    BY DEF SaysCall
  <2> HIDE DEF g, d, r, callee, args
  <2>6. passed' = passed
    BY <2>1, <2>2, <2>3
  <2>7. \A ret : returned(ret)' = returned(ret)
    <3>1. \A ret : [n \in DOMAIN ret |-> callee(ret[n])]' = [n \in DOMAIN ret |-> callee(ret[n])]
      BY <2>2
    <3> QED BY <2>2, <3>1
  <2> HIDE DEF passed, returned
  <2>8. results' = results
    BY <2>1, <2>7
  <2> HIDE DEF results
  <2> QED BY <2>1, <2>2, <2>3, <2>4, <2>5, <2>6, <2>8
<1>8. ASSUME NEW i, NEW c PROVE SaysExtract(i, c)' = SaysExtract(i, c)
  <2> DEFINE from == Maker(i.tuple)
             r(v) == MakeReference(c, v)
             x == Maker(from.x).x
             chosen == {n \in DOMAIN from.states :
                          /\ from.states[n].dir = "receive"
                          /\ Cardinality({m \in 1..n : from.states[m].dir = "receive"}) = i.index - 1}
             chans == UNION {Elements(r(from.states[n].chan), {AnyIndex}, r(i.reg)) : n \in chosen}
  <2>1. from' = from /\ \A v : r(v)' = r(v)
    BY <1>2
  <2>2. SaysExtract(i, c) =
          CASE from.is = "TypeAssert" /\ i.index = 0 -> {Same(r(i.reg), r(from.x))}
            [] from.is = "Next" /\ i.index = 2 -> Elements(r(x), {AnyIndex}, r(i.reg))
            [] from.is = "Lookup" /\ i.index = 0 ->
                 Elements(r(from.x), IndexFields(from.index), r(i.reg))
            [] from.is = "Receive" /\ i.index = 0 -> Elements(r(from.x), {AnyIndex}, r(i.reg))
            [] from.is = "Select" /\ i.index > 1 -> chans
            [] from.is = "Call" -> {Holds(r(i.tuple), NamedField(ToString(i.index)), r(i.reg))}
            [] OTHER -> {}
    BY DEF SaysExtract
  <2>3. SaysExtract(i, c)' =
          CASE from'.is = "TypeAssert" /\ i.index = 0 -> {Same(r(i.reg)', r(from.x)')}
            [] from'.is = "Next" /\ i.index = 2 -> Elements(r(x)', {AnyIndex}, r(i.reg)')
            [] from'.is = "Lookup" /\ i.index = 0 ->
                 Elements(r(from.x)', IndexFields(from.index)', r(i.reg)')
            [] from'.is = "Receive" /\ i.index = 0 -> Elements(r(from.x)', {AnyIndex}, r(i.reg)')
            [] from'.is = "Select" /\ i.index > 1 -> chans'
            [] from'.is = "Call" -> {Holds(r(i.tuple)', NamedField(ToString(i.index)), r(i.reg)')}
            [] OTHER -> {}
    BY DEF SaysExtract
  <2>4. x' = x /\ IndexFields(from.index)' = IndexFields(from.index)
    BY <1>2, <2>1
  <2>5. r(x)' = r(x) /\ r(from.x)' = r(from.x)
    BY <1>2, <2>1, <2>4
  <2> HIDE DEF from, r, x
  <2>6. chosen' = chosen
    BY <2>1
  <2> HIDE DEF chosen
  <2>7. \A n : r(from.states[n].chan)' = r(from.states[n].chan)
    BY <1>2, <2>1 DEF r
  <2>8. chans' = chans
    BY <2>1, <2>6, <2>7
  <2> HIDE DEF chans
  <2> QED BY <2>1, <2>2, <2>3, <2>4, <2>5, <2>8
<1>9. ASSUME NEW i, NEW c PROVE Says(i, c)' = Says(i, c)
  <2> DEFINE r(v) == MakeReference(c, v)
             field == MakeField(TypeOf(i.x), i.field)
             addr == AddressOf(r(i.x), field)
             equal(vs) == {Same(r(i.reg), r(v)) : v \in ToSet(vs)}
             sent == UNION {Elements(r(st.chan), {AnyIndex}, r(st.val)) :
                              st \in {s \in ToSet(i.states) : s.dir = "send"}}
             bound == {Same(MakeReference(c, prog.func[i.fn].freeVars[n]), r(i.bindings[n])) :
                         n \in DOMAIN i.bindings}
             copied == {Holds(r(x), PointTo, Star(r(i.args[1]))) : x \in ToSet(i.args)}
  <2>1. \A v : r(v)' = r(v)
    BY <1>2
  <2>2. field' = field
    BY <1>1
  <2>3. bound' = bound
    BY <1>2
  <2>4. Says(i, c) =
     CASE i.is \in Copies -> equal(<<i.x>>)
        [] i.is = "Phi" -> equal(i.edges)
        [] i.is = "append" -> equal(i.args)
        [] i.is = "TypeAssert" -> IF i.commaOk THEN {} ELSE equal(<<i.x>>)
        [] i.is = "FieldAddr" -> Addressed(r(i.x), {field}, r(i.reg))
        [] i.is = "IndexAddr" -> Addressed(r(i.x), IndexFields(i.index), r(i.reg))
        [] i.is = "Field" -> {Holds(r(i.x), field, addr), Holds(addr, PointTo, r(i.reg))}
        [] i.is = "Index" \/ (i.is = "Lookup" /\ ~i.commaOk) ->
             Elements(r(i.x), IndexFields(i.index), r(i.reg))
        [] i.is = "MapUpdate" -> Elements(r(i.x), IndexFields(i.index), r(i.val))
        [] i.is = "Store" -> {Holds(r(i.x), PointTo, r(i.val))}
        [] i.is = "Load" -> {Holds(r(i.x), PointTo, r(i.reg))}
        [] i.is = "Receive" /\ ~i.commaOk -> Elements(r(i.x), {AnyIndex}, r(i.reg))
        [] i.is = "Send" -> Elements(r(i.x), {AnyIndex}, r(i.val))
        [] i.is = "Select" -> sent
        [] i.is = "Add" -> {Holds(r(i.reg), NamedField("left"), r(i.x)),
                            Holds(r(i.reg), NamedField("right"), r(i.y))}
        [] i.is = "Extract" -> SaysExtract(i, c)
        [] i.is = "MakeClosure" -> bound
        [] i.is = "copy" -> copied
        [] i.is \in CallKinds /\ i.callee # "" -> SaysCall(i, c)
        [] OTHER -> {}
    BY DEF Says
  <2>5. Says(i, c)' =
     CASE i.is \in Copies -> equal(<<i.x>>)'
        [] i.is = "Phi" -> equal(i.edges)'
        [] i.is = "append" -> equal(i.args)'
        [] i.is = "TypeAssert" -> IF i.commaOk THEN {} ELSE equal(<<i.x>>)'
        [] i.is = "FieldAddr" -> Addressed(r(i.x)', {field'}, r(i.reg)')
        [] i.is = "IndexAddr" -> Addressed(r(i.x)', IndexFields(i.index)', r(i.reg)')
        [] i.is = "Field" -> {Holds(r(i.x)', field', addr'), Holds(addr', PointTo, r(i.reg)')}
        [] i.is = "Index" \/ (i.is = "Lookup" /\ ~i.commaOk) ->
             Elements(r(i.x)', IndexFields(i.index)', r(i.reg)')
        [] i.is = "MapUpdate" -> Elements(r(i.x)', IndexFields(i.index)', r(i.val)')
        [] i.is = "Store" -> {Holds(r(i.x)', PointTo, r(i.val)')}
        [] i.is = "Load" -> {Holds(r(i.x)', PointTo, r(i.reg)')}
        [] i.is = "Receive" /\ ~i.commaOk -> Elements(r(i.x)', {AnyIndex}, r(i.reg)')
        [] i.is = "Send" -> Elements(r(i.x)', {AnyIndex}, r(i.val)')
        [] i.is = "Select" -> sent'
        [] i.is = "Add" -> {Holds(r(i.reg)', NamedField("left"), r(i.x)'),
                            Holds(r(i.reg)', NamedField("right"), r(i.y)')}
        [] i.is = "Extract" -> SaysExtract(i, c)'
        [] i.is = "MakeClosure" -> bound'
        [] i.is = "copy" -> copied'
        [] i.is \in CallKinds /\ i.callee # "" -> SaysCall(i, c)'
        [] OTHER -> {}
    BY DEF Says
  <2> HIDE DEF r, field, bound
  <2>6. addr' = addr
    BY <2>1, <2>2
  <2>7. \A vs : equal(vs)' = equal(vs)
    BY <2>1
  <2>8. sent' = sent /\ copied' = copied
    BY <2>1
  <2> HIDE DEF addr, equal, sent, copied
  <2> QED BY <1>2, <1>7, <1>8, <2>1, <2>2, <2>3, <2>4, <2>5, <2>6, <2>7, <2>8
<1>10. Equations' = Equations
  BY <1>1, <1>2, <1>5, <1>9 DEF Equations
<1>11. \A i : ReturnTuple(i)' = ReturnTuple(i)
  BY <1>1 DEF ReturnTuple
<1>12. \A f : InitFunction(f)' = InitFunction(f)
  BY <1>1, <1>6, <1>11 DEF InitFunction
<1>13. InitGlobalReferences' = InitGlobalReferences
  BY <1>1 DEF InitGlobalReferences
<1>14. InitialReferences' = InitialReferences
  BY <1>1, <1>12, <1>13 DEF InitialReferences
<1>15. Plain' <=> Plain
  BY <1>1, <1>2 DEF Plain
<1>16. Given' <=> Given
  BY <1>1, <1>5 DEF Given, Collected
<1> QED BY <1>1, <1>10, <1>14, <1>15, <1>16

(* Every labelling that satisfies the equations is one of the heap.        *)
LabelledByAll ==
  \A Rs, lab, fl :
    Labelling(Rs, lab, fl) /\ Models(Rs, lab, fl) =>
      Labelled(Rs, lab, fl, Now) /\ frames \in Seq(SUBSET Alike(Rs, lab))

PrecisionInv ==
  /\ Given /\ WellTyped(prog) /\ Sound(Now)
  /\ InitialReferences \subseteq DOMAIN parents
  /\ Plain => /\ code \in Seq(Instructions)
              /\ agenda \in Seq(Owed)
              /\ LabelledByAll

(* The references that the analysis starts with.                           *)
LEMMA InitialAre ==
  ASSUME Given, contextK = 0, WellTyped(prog), NEW r \in InitialReferences
  PROVE  \E v \in DOMAIN prog.value : r = RefOf(v)
<1>1. CASE r \in InitGlobalReferences
  BY <1>1 DEF InitGlobalReferences, RefOf, MakeReference
<1>2. CASE \E f \in Fn : r \in InitFunction(f)
  <2>1. PICK f \in Fn : r \in InitFunction(f)
    BY <1>2
  <2> DEFINE locals == {v \in ToSet(prog.func[f].params) \cup ToSet(prog.func[f].freeVars) :
                          MayShareObject(TypeOf(v))}
                       \cup {i.reg : i \in {j \in {i \in ToSet(prog.func[f].body) : "reg" \in DOMAIN i} :
                                       ReturnTuple(j) \/ MayShareObject(TypeOf(j.reg))}}
  <2>2. PICK v \in locals : \E c \in ToSet(GetContexts(v)) : r = MakeLocal(c, v)
    BY <2>1 DEF InitFunction
  <2>3. v \in Locals(prog)
    <3>1. ToSet(prog.func[f].params) \cup ToSet(prog.func[f].freeVars) \subseteq Locals(prog)
      BY DEF WellTyped, Fn
    <3>2. \A i \in ToSet(prog.func[f].body) : "reg" \in DOMAIN i => i.reg \in Locals(prog)
      <4>1. \A i \in ToSet(prog.func[f].body) : i \in Instructions
        BY DEF Instructions
      <4> QED BY <4>1, Typed DEF TypedInstruction
    <3> QED BY <3>1, <3>2
  <2>4. PICK c \in ToSet(GetContexts(v)) : r = MakeLocal(c, v)
    BY <2>2
  <2>5. c = <<>>
    BY <2>4, InTheContext DEF ToSet
  <2>6. r = RefOf(v)
    BY <2>3, <2>4, <2>5 DEF RefOf, MakeReference, Locals
  <2> QED BY <2>3, <2>6 DEF Locals
<1> QED BY <1>1, <1>2 DEF InitialReferences

(* The heap of these references alone has every labelling.                 *)
LEMMA InitPrecise == ASSUME TaintInit PROVE PrecisionInv
<1>1. Given /\ WellTyped(prog) /\ Sound(Now)
  BY InitGiven, InitSound, ProgramsAssumption DEF TaintInit, Init
<1>2. /\ parents = [r \in InitialReferences |-> r]
      /\ partitions = [r \in InitialReferences |-> Heap!NewPartition]
      /\ frames = <<>> /\ code = <<>> /\ agenda = <<>>
  BY DEF TaintInit, Init
<1>3. DOMAIN parents = InitialReferences /\ DOMAIN partitions = InitialReferences
      /\ \A r \in InitialReferences : parents[r] = r
  BY <1>2
<1>4. ASSUME Plain, NEW Rs, NEW lab, NEW fl, Labelling(Rs, lab, fl), Models(Rs, lab, fl)
      PROVE  Labelled(Rs, lab, fl, Now) /\ frames \in Seq(SUBSET Alike(Rs, lab))
  <2>1. contextK = 0
    BY <1>4 DEF Plain
  <2>2. InitialReferences \subseteq Rs
    BY <1>1, <1>4, <2>1, InitialAre DEF Models
  <2>3. Now.p = parents /\ Now.q = partitions
    BY DEF Now
  <2>4. Grounded(parents)
    BY <1>1, <2>3 DEF Sound
  <2>5. \A r \in DOMAIN parents : Root(parents, r) = r
    BY <1>3, <2>4, RootOfRoot
  <2>6. \A r \in DOMAIN partitions : DOMAIN FieldsAt(partitions, r) = {}
    <3>1. DOMAIN Heap!NewPartition.fieldRefs = {}
      BY DEF Heap!NewPartition, Heap!NoFields
    <3>2. \A r \in DOMAIN partitions : partitions[r] = Heap!NewPartition
      BY <1>2, <1>3
    <3> QED BY <3>1, <3>2 DEF FieldsAt
  <2>7. frames \in Seq(SUBSET Alike(Rs, lab))
    BY <1>2, NoneIn
  <2> QED BY <1>3, <2>2, <2>3, <2>5, <2>6, <2>7 DEF Labelled
<1> QED BY <1>1, <1>2, <1>3, <1>4, NoneIn DEF PrecisionInv, LabelledByAll

(* And every step keeps it.                                                *)
LEMMA StepPrecise ==
  ASSUME PrecisionInv, [Next]_taintVars
  PROVE  PrecisionInv'
<1>1. prog' = prog /\ contextK' = contextK /\ contexts' = contexts
  BY SearchReads DEF Next, taintVars, analysisVars, AnalysisNext,
         VisitFunction, VisitInstruction, AssertNext, StepUnify, UnifyPending, Finish
<1>2. /\ Equations' = Equations /\ Instructions' = Instructions
      /\ InitialReferences' = InitialReferences /\ (Plain' <=> Plain) /\ (Given' <=> Given)
  BY <1>1, SameProgram
<1>3. Owed' = Owed
  BY <1>2 DEF Owed
<1>4. \A Rs, lab, fl : Models(Rs, lab, fl)' <=> Models(Rs, lab, fl)
  <2>1. \A v : RefOf(v)' = RefOf(v)
    BY <1>1 DEF RefOf, MakeReference
  <2> QED BY <1>1, <1>2, <2>1 DEF Models
<1>5. Given /\ WellTyped(prog) /\ Sound(Now) /\ InitialReferences \subseteq DOMAIN parents
  BY DEF PrecisionInv
<1>6. Sound(Now') /\ DOMAIN parents \subseteq DOMAIN parents'
  <2>1. Sound(Now') /\ (Enlarges(Now, Now') \/ StepUnify)
    BY <1>5, StepSound
  <2>2. CASE Enlarges(Now, Now')
    <3>1. Now.p = parents /\ Now'.p = parents'
      BY DEF Now
    <3> QED BY <2>1, <2>2, <3>1 DEF Enlarges
  <2>3. CASE StepUnify
    <3>1. PICK pair \in Head(frames) : UnifyPending(pair[1], pair[2])
      BY <2>3 DEF StepUnify
    <3>2. DOMAIN parents \cup {pair[1], pair[2]} = DOMAIN parents'
      BY <1>5, <3>1, PendingIs
    <3> QED BY <2>1, <3>2
  <2> QED BY <2>1, <2>2, <2>3
<1>7. ASSUME Plain
      PROVE  /\ code' \in Seq(Instructions)
             /\ agenda' \in Seq(Owed)
             /\ \A Rs, lab, fl :
                  Labelling(Rs, lab, fl) /\ Models(Rs, lab, fl) =>
                    Labelled(Rs, lab, fl, Now') /\ frames' \in Seq(SUBSET Alike(Rs, lab))
  <2>1. /\ code \in Seq(Instructions) /\ agenda \in Seq(Owed)
        /\ \A Rs, lab, fl : Labelling(Rs, lab, fl) /\ Models(Rs, lab, fl) =>
             Labelled(Rs, lab, fl, Now) /\ frames \in Seq(SUBSET Alike(Rs, lab))
    BY <1>7 DEF PrecisionInv, LabelledByAll
  <2>2. ASSUME UNCHANGED <<parents, partitions, frames>>
        PROVE  Now' = Now /\ frames' = frames
    BY <2>2 DEF Now
  <2>3. CASE UNCHANGED analysisVars
    BY <2>1, <2>2, <2>3 DEF analysisVars
  <2>4. ASSUME NEW f \in Fn, VisitFunction(f)
        PROVE  code' \in Seq(Instructions)
    <3>1. code' = prog.func[f].body
      BY <2>4 DEF VisitFunction
    <3>2. prog.func[f].body \in Seq(ToSet(prog.func[f].body))
      BY <1>5 DEF Given, WellFormed, Fn
    <3>3. ToSet(prog.func[f].body) \subseteq Instructions
      BY DEF Instructions
    <3> DEFINE S == ToSet(prog.func[f].body)
    <3>4. code' \in Seq(S) /\ S \subseteq Instructions
      BY <3>1, <3>2, <3>3
    <3> HIDE DEF S
    <3> QED BY <3>4
  <2>5. CASE \E f \in Fn : VisitFunction(f)
    <3>1. agenda' = agenda /\ UNCHANGED <<parents, partitions, frames>>
      BY <2>5 DEF VisitFunction
    <3> QED BY <2>1, <2>2, <2>4, <2>5, <3>1
  <2>6. CASE VisitInstruction
    <3>1. Visit(Head(code)) /\ code # <<>> /\ code' = Tail(code)
          /\ UNCHANGED <<parents, partitions, frames>>
      BY <2>6 DEF VisitInstruction
    <3>2. Head(code) \in Instructions /\ code' \in Seq(Instructions)
      BY <2>1, <3>1
    <3>3. agenda' \in Seq(Owed)
      BY <1>5, <1>7, <3>1, <3>2, VisitOwed
    <3> QED BY <2>1, <2>2, <3>1, <3>2, <3>3
  <2>7. CASE AssertNext
    <3>1. code' = code
      BY <2>7 DEF AssertNext
    <3>2. ASSUME NEW Rs, NEW lab, NEW fl, Labelling(Rs, lab, fl), Models(Rs, lab, fl)
          PROVE  /\ Labelled(Rs, lab, fl, Now') /\ frames' \in Seq(SUBSET Alike(Rs, lab))
      BY <1>5, <2>1, <2>7, <3>2, AssertLabelled
    <3>3. agenda' \in Seq(Owed)
      <4>1. Tail(agenda) \in Seq(Owed)
        BY <2>1, <2>7 DEF AssertNext
      <4>2. ~AssertCopy(Head(agenda))
        <5>1. Head(agenda) \in Owed
          BY <2>1, <2>7 DEF AssertNext
        <5>2. Head(agenda).do # "copy"
          BY <5>1 DEF Owed, Unify, Constraint
        <5> QED BY <5>2 DEF AssertCopy
      <4> QED BY <2>7, <4>1, <4>2 DEF AssertNext
    <3> QED BY <2>1, <3>1, <3>2, <3>3
  <2>8. CASE StepUnify
    <3>1. code' = code /\ agenda' = agenda
      BY <2>8 DEF StepUnify, UnifyPending
    <3> QED BY <1>5, <2>1, <2>8, <3>1, PendingLabelled
  <2>9. CASE Finish
    <3>1. code' = code /\ agenda' = agenda /\ UNCHANGED <<parents, partitions, frames>>
      BY <2>9 DEF Finish
    <3> QED BY <2>1, <2>2, <3>1
  <2>10. CASE SearchNext \/ Terminated \/ UNCHANGED taintVars
    <3>1. UNCHANGED analysisVars
      BY <2>10, SearchReads DEF taintVars
    <3> QED BY <2>3, <3>1
  <2> QED BY <2>5, <2>6, <2>7, <2>8, <2>9, <2>10 DEF Next, AnalysisNext
<1>8. (Sound(Now))' <=> Sound(Now')
  BY DEF Sound, Now
<1>9. ASSUME NEW Rs, NEW lab, NEW fl
      PROVE  Labelled(Rs, lab, fl, Now)' <=> Labelled(Rs, lab, fl, Now')
  BY DEF Labelled
<1>10. Plain => code' \in Seq(Instructions') /\ agenda' \in Seq(Owed') /\ LabelledByAll'
  BY <1>2, <1>3, <1>4, <1>7, <1>9 DEF LabelledByAll
<1> QED BY <1>1, <1>2, <1>5, <1>6, <1>8, <1>10 DEF PrecisionInv

-----------------------------------------------------------------------------
(* The solution is a partition of the terms that the equations close.      *)

(* The least congruence is a partition of the terms.                       *)
IsPartition(P, T) ==
  /\ P \subseteq SUBSET T /\ UNION P = T
  /\ \A C, D \in P : (\E t \in C : t \in D) => C = D
  /\ \A C \in P : C # {}

(* Nothing is left to merge.                                               *)
IsClosed(P, eqs) ==
  /\ \A e \in eqs : e.fd = Equal => ClassOf(P, e.a) = ClassOf(P, e.b)
  /\ \A d, e \in eqs :
       d.fd = e.fd /\ ClassOf(P, d.a) = ClassOf(P, e.a) => ClassOf(P, d.b) = ClassOf(P, e.b)

(* The class of a term.                                                    *)
LEMMA ClassIs ==
  ASSUME NEW T, NEW P, IsPartition(P, T), NEW t \in T
  PROVE  /\ ClassOf(P, t) \in P /\ t \in ClassOf(P, t)
         /\ \A C \in P : t \in C => C = ClassOf(P, t)
<1>1. \E C \in P : t \in C
  BY DEF IsPartition
<1>2. ClassOf(P, t) \in P /\ t \in ClassOf(P, t)
  BY <1>1 DEF ClassOf
<1> QED BY <1>2 DEF IsPartition

(* Two classes become one.                                                 *)
LEMMA JoinIs ==
  ASSUME NEW T, NEW P, IsPartition(P, T), IsFiniteSet(P), NEW C \in P, NEW D \in P, C # D
  PROVE  LET Q == (P \ {C, D}) \cup {C \cup D}
         IN  /\ IsPartition(Q, T) /\ IsFiniteSet(Q)
             /\ Cardinality(Q) \in Nat /\ Cardinality(P) \in Nat
             /\ Cardinality(Q) + 1 <= Cardinality(P)
<1> DEFINE Q == (P \ {C, D}) \cup {C \cup D}
<1>1. Q \subseteq SUBSET T /\ UNION Q = T
  <2>1. P \subseteq SUBSET T /\ UNION P = T
    BY DEF IsPartition
  <2>2. C \cup D \subseteq T
    BY <2>1
  <2>3. Q \subseteq SUBSET T
    BY <2>1, <2>2
  <2>4. ASSUME NEW t \in T PROVE \E E \in Q : t \in E
    <3>1. PICK E \in P : t \in E
      BY <2>1
    <3>2. CASE E \in {C, D}
      <4>1. C \cup D \in Q /\ t \in C \cup D
        BY <3>1, <3>2
      <4> QED BY <4>1
    <3>3. CASE E \notin {C, D}
      BY <3>1, <3>3
    <3> QED BY <3>2, <3>3
  <2> QED BY <2>3, <2>4
<1>2. \A E \in Q : E # {}
  BY DEF IsPartition
<1>3. ASSUME NEW E \in Q, NEW F \in Q, NEW t \in E, t \in F PROVE E = F
  <2>1. CASE E = C \cup D /\ F = C \cup D
    BY <2>1
  <2>2. CASE E = C \cup D /\ F \in P \ {C, D}
    BY <1>3, <2>2 DEF IsPartition
  <2>3. CASE F = C \cup D /\ E \in P \ {C, D}
    BY <1>3, <2>3 DEF IsPartition
  <2>4. CASE E \in P /\ F \in P
    BY <1>3, <2>4 DEF IsPartition
  <2> QED BY <1>3, <2>1, <2>2, <2>3, <2>4
<1>4. IsPartition(Q, T)
  <2> HIDE DEF Q
  <2> QED BY <1>1, <1>2, <1>3 DEF IsPartition
<1> DEFINE P1 == P \ {C}
           P2 == P1 \ {D}
<1>5. /\ IsFiniteSet(P1) /\ Cardinality(P1) = Cardinality(P) - 1
      /\ Cardinality(P) \in Nat /\ Cardinality(P1) \in Nat
  BY FS_RemoveElement, FS_CardinalityType
<1>6. /\ IsFiniteSet(P2) /\ Cardinality(P2) = Cardinality(P1) - 1 /\ Cardinality(P2) \in Nat
  <2>1. D \in P1
    OBVIOUS
  <2> HIDE DEF P1
  <2> QED BY <1>5, <2>1, FS_RemoveElement, FS_CardinalityType
<1>7. Q = P2 \cup {C \cup D}
  OBVIOUS
<1> HIDE DEF P1, P2, Q
<1>8. /\ IsFiniteSet(Q) /\ Cardinality(Q) \in Nat
      /\ Cardinality(Q) <= Cardinality(P2) + 1
  <2> DEFINE E == C \cup D
  <2>1. Q = P2 \cup {E}
    BY <1>7
  <2> HIDE DEF E
  <2>2. /\ IsFiniteSet(P2 \cup {E})
        /\ Cardinality(P2 \cup {E}) = IF E \in P2 THEN Cardinality(P2) ELSE Cardinality(P2) + 1
    BY <1>6, FS_AddElement
  <2>3. Cardinality(Q) \in Nat
    BY <2>1, <2>2, FS_CardinalityType
  <2> QED BY <1>6, <2>1, <2>2, <2>3
<1>9. Cardinality(Q) + 1 <= Cardinality(P)
  BY <1>5, <1>6, <1>8
<1> QED BY <1>4, <1>5, <1>8, <1>9 DEF Q

(* One step of the closure merges two classes, or there is nothing to.     *)
LEMMA MergeIs ==
  ASSUME NEW T, NEW P, IsPartition(P, T), IsFiniteSet(P),
         NEW eqs, \A e \in eqs : e.a \in T /\ e.b \in T
  PROVE  LET Q == Merge(P, eqs)
         IN  /\ IsPartition(Q, T) /\ IsFiniteSet(Q)
             /\ Cardinality(Q) \in Nat /\ Cardinality(P) \in Nat
             /\ \/ Q = P /\ IsClosed(P, eqs)
                \/ ~IsClosed(P, eqs) /\ Cardinality(Q) + 1 <= Cardinality(P)
<1> DEFINE class(t) == CHOOSE C \in P : t \in C
           said == {<<class(e.a), e.fd, class(e.b)>> : e \in eqs}
           apart == {u \in said \X said :
                       u[1][3] # u[2][3] /\ u[1][1] = u[2][1] /\ u[1][2] = u[2][2]}
           equal == {<<u[1][3], u[2][3]>> : u \in apart}
                    \cup {<<e[1], e[3]>> : e \in {d \in said : d[2] = Equal /\ d[1] # d[3]}}
           u0 == CHOOSE u \in equal : TRUE
           Q == Merge(P, eqs)
<1>1. Q = IF equal = {} THEN P ELSE (P \ {u0[1], u0[2]}) \cup {u0[1] \cup u0[2]}
  BY DEF Merge
<1>2. \A t : class(t) = ClassOf(P, t)
  BY DEF ClassOf
<1>3. \A s \in said : s[1] \in P /\ s[3] \in P
  <2> SUFFICES ASSUME NEW e \in eqs PROVE class(e.a) \in P /\ class(e.b) \in P
    OBVIOUS
  <2> HIDE DEF class
  <2> QED BY <1>2, ClassIs
<1> HIDE DEF class
<1>4. \A u \in equal : u[1] \in P /\ u[2] \in P /\ u[1] # u[2]
  <2> HIDE DEF said
  <2> QED BY <1>3
<1>5. equal = {} <=> IsClosed(P, eqs)
  <2>1. ASSUME equal = {} PROVE IsClosed(P, eqs)
    <3>1. ASSUME NEW e \in eqs, e.fd = Equal PROVE class(e.a) = class(e.b)
      <4>1. PICK s \in said : s = <<class(e.a), e.fd, class(e.b)>>
        OBVIOUS
      <4>2. s[1] # s[3] => <<s[1], s[3]>> \in equal
        BY <3>1, <4>1
      <4> QED BY <2>1, <4>1, <4>2
    <3>2. ASSUME NEW d \in eqs, NEW e \in eqs, d.fd = e.fd, class(d.a) = class(e.a)
          PROVE  class(d.b) = class(e.b)
      <4>1. PICK s \in said : s = <<class(d.a), d.fd, class(d.b)>>
        OBVIOUS
      <4>2. PICK t \in said : t = <<class(e.a), e.fd, class(e.b)>>
        OBVIOUS
      <4>3. PICK u \in said \X said : u = <<s, t>>
        OBVIOUS
      <4>4. u[1] = s /\ u[2] = t /\ s[1] = class(d.a) /\ s[2] = d.fd /\ s[3] = class(d.b)
            /\ t[1] = class(e.a) /\ t[2] = e.fd /\ t[3] = class(e.b)
        BY <4>1, <4>2, <4>3
      <4> HIDE DEF said
      <4>5. s[3] # t[3] => u \in apart
        BY <3>2, <4>4
      <4>6. u \in apart => <<u[1][3], u[2][3]>> \in equal
        OBVIOUS
      <4> QED BY <2>1, <4>4, <4>5, <4>6
    <3> QED BY <1>2, <3>1, <3>2 DEF IsClosed
  <2>2. ASSUME IsClosed(P, eqs), NEW u \in equal PROVE FALSE
    <3>1. CASE u \in {<<w[1][3], w[2][3]>> : w \in apart}
      <4>1. PICK s \in said, t \in said : s[3] # t[3] /\ s[1] = t[1] /\ s[2] = t[2]
        <5> HIDE DEF said
        <5> QED BY <3>1
      <4>2. PICK d \in eqs : s = <<class(d.a), d.fd, class(d.b)>>
        OBVIOUS
      <4>3. PICK e \in eqs : t = <<class(e.a), e.fd, class(e.b)>>
        OBVIOUS
      <4>4. d.fd = e.fd /\ class(d.a) = class(e.a) /\ class(d.b) # class(e.b)
        BY <4>1, <4>2, <4>3
      <4> QED BY <1>2, <2>2, <4>4 DEF IsClosed
    <3>2. CASE u \in {<<e[1], e[3]>> : e \in {d \in said : d[2] = Equal /\ d[1] # d[3]}}
      <4>1. PICK s \in said : s[2] = Equal /\ s[1] # s[3]
        <5> HIDE DEF said
        <5> QED BY <3>2
      <4>2. PICK d \in eqs : s = <<class(d.a), d.fd, class(d.b)>>
        OBVIOUS
      <4>3. d.fd = Equal /\ class(d.a) # class(d.b)
        BY <4>1, <4>2
      <4> QED BY <1>2, <2>2, <4>3 DEF IsClosed
    <3> QED BY <3>1, <3>2
  <2> QED BY <2>1, <2>2
<1>6. Cardinality(P) \in Nat
  BY FS_CardinalityType
<1>7. CASE equal = {}
  BY <1>1, <1>5, <1>6, <1>7
<1>8. CASE equal # {}
  <2>1. u0 \in equal
    BY <1>8
  <2> HIDE DEF equal, u0
  <2>2. u0[1] \in P /\ u0[2] \in P /\ u0[1] # u0[2]
    BY <1>4, <2>1
  <2>3. Q = (P \ {u0[1], u0[2]}) \cup {u0[1] \cup u0[2]}
    BY <1>1, <1>8
  <2> HIDE DEF Q
  <2>4. /\ IsPartition(Q, T) /\ IsFiniteSet(Q)
        /\ Cardinality(Q) \in Nat /\ Cardinality(Q) + 1 <= Cardinality(P)
    BY <2>2, <2>3, JoinIs
  <2> QED BY <1>5, <1>6, <1>8, <2>4 DEF Q
<1> QED BY <1>7, <1>8

(* Each step leaves fewer classes, so that as many steps as there are      *)
(* classes close the partition.                                            *)
LEMMA CongruenceIs ==
  ASSUME NEW T, NEW P, IsPartition(P, T), IsFiniteSet(P),
         NEW eqs, \A e \in eqs : e.a \in T /\ e.b \in T
  PROVE  IsPartition(CongruenceOf(P, eqs), T) /\ IsClosed(CongruenceOf(P, eqs), eqs)
<1> DEFINE U == {S \in SUBSET SUBSET T : IsPartition(S, T) /\ IsFiniteSet(S)}
           D == [S \in U |-> Merge(S, eqs)]
           Body(g) == [n \in Nat |-> IF n = 0 THEN P ELSE Merge(g[n - 1], eqs)]
           m == CHOOSE g : g = Body(g)
           N == Cardinality(P)
<1>1. P \in U
  BY DEF IsPartition
<1>2. D \in [U -> U]
  <2> SUFFICES ASSUME NEW S \in U PROVE Merge(S, eqs) \in U
    OBVIOUS
  <2>1. IsPartition(Merge(S, eqs), T) /\ IsFiniteSet(Merge(S, eqs))
    BY MergeIs
  <2> QED BY <2>1 DEF IsPartition
<1>3. \E g : g = Body(g)
  <2> DEFINE f == Iterate(U, D, P)
             h == [n \in Nat |-> f[n]]
  <2>1. Iterates(U, D, P, f) /\ f \in [Nat -> U]
    <3> HIDE DEF D, U
    <3> QED BY <1>1, <1>2, IterateIs
  <2>2. D = [S \in U |-> Merge(S, eqs)]
    OBVIOUS
  <2> HIDE DEF f, D, U
  <2>3. ASSUME NEW n \in Nat PROVE h[n] = IF n = 0 THEN P ELSE Merge(h[n - 1], eqs)
    <3>1. CASE n = 0
      BY <2>1, <3>1 DEF Iterates
    <3>2. CASE n # 0
      <4>1. n - 1 \in Nat /\ (n - 1) + 1 = n
        BY <3>2
      <4>2. f[(n - 1) + 1] = D[f[n - 1]] /\ f[n - 1] \in U
        BY <2>1, <4>1 DEF Iterates
      <4>3. f[n] = Merge(f[n - 1], eqs)
        BY <2>2, <4>1, <4>2
      <4> QED BY <3>2, <4>1, <4>3
    <3> QED BY <3>1, <3>2
  <2>4. h = [n \in Nat |-> h[n]]
    OBVIOUS
  <2> HIDE DEF h
  <2>5. h = Body(h)
    BY <2>3, <2>4
  <2> QED BY <2>5
<1>4. m = Body(m)
  <2> HIDE DEF Body
  <2> QED BY <1>3
<1>5. m[0] = P /\ \A n \in Nat : m[n + 1] = Merge(m[n], eqs)
  <2>1. Body(m)[0] = P
    OBVIOUS
  <2>2. ASSUME NEW n \in Nat PROVE Body(m)[n + 1] = Merge(m[n], eqs)
    <3>1. n + 1 \in Nat /\ n + 1 # 0 /\ (n + 1) - 1 = n
      OBVIOUS
    <3> HIDE DEF m
    <3> QED BY <3>1
  <2> HIDE DEF m, Body
  <2> QED BY <1>4, <2>1, <2>2
<1>6. CongruenceOf(P, eqs) = m[N]
  BY DEF CongruenceOf
<1> HIDE DEF m
<1>7. N \in Nat
  BY FS_CardinalityType
<1> DEFINE Fine(n) == /\ IsPartition(m[n], T) /\ IsFiniteSet(m[n]) /\ Cardinality(m[n]) \in Nat
                      /\ IsClosed(m[n], eqs) \/ Cardinality(m[n]) + n <= N
           S == {n \in Nat : Fine(n)}
<1>8. 0 \in S
  BY <1>5, <1>7
<1>9. ASSUME NEW n \in S PROVE n + 1 \in S
  <2>1. n \in Nat /\ Fine(n) /\ m[n + 1] = Merge(m[n], eqs)
    BY <1>5
  <2>2. /\ IsPartition(m[n + 1], T) /\ IsFiniteSet(m[n + 1]) /\ Cardinality(m[n + 1]) \in Nat
        /\ \/ m[n + 1] = m[n] /\ IsClosed(m[n], eqs)
           \/ ~IsClosed(m[n], eqs) /\ Cardinality(m[n + 1]) + 1 <= Cardinality(m[n])
    BY <2>1, MergeIs
  <2> HIDE DEF N
  <2>3. Fine(n + 1)
    BY <1>7, <2>1, <2>2
  <2> QED BY <2>1, <2>3
<1>10. S = Nat
  <2> HIDE DEF S
  <2> QED BY <1>8, <1>9, Induction DEF S
<1>11. Fine(N)
  BY <1>7, <1>10
<1>12. IsClosed(m[N], eqs)
  <2>1. CASE Cardinality(m[N]) + N <= N
    <3>1. Cardinality(m[N]) = 0
      <4> HIDE DEF N
      <4> QED BY <1>7, <1>11, <2>1
    <3>2. m[N] = {}
      BY <1>11, <3>1, FS_EmptySet
    <3>3. T = {}
      BY <1>11, <3>2 DEF IsPartition
    <3> QED BY <3>3 DEF IsClosed
  <2> QED BY <1>11, <2>1
<1> QED BY <1>6, <1>11, <1>12

(* The solution of finitely many terms.                                    *)
LEMMA SolutionIs ==
  ASSUME NEW eqs, IsFiniteSet(Terms(eqs))
  PROVE  IsPartition(SolutionOf(eqs), Terms(eqs)) /\ IsClosed(SolutionOf(eqs), eqs)
<1> DEFINE T == Terms(eqs)
           P == {{t} : t \in T}
<1>1. IsPartition(P, T)
  <2> HIDE DEF T
  <2>1. P \subseteq SUBSET T /\ UNION P = T /\ \A C \in P : C # {}
    OBVIOUS
  <2>2. \A C, D \in P : (\E t \in C : t \in D) => C = D
    OBVIOUS
  <2> QED BY <2>1, <2>2 DEF IsPartition
<1>2. IsFiniteSet(P)
  <2> DEFINE h == [t \in T |-> {t}]
  <2>1. DOMAIN h = T /\ {h[t] : t \in DOMAIN h} = P
    OBVIOUS
  <2> HIDE DEF h
  <2> QED BY <2>1, FiniteImage
<1>3. \A e \in eqs : e.a \in T /\ e.b \in T
  BY DEF Terms
<1>4. SolutionOf(eqs) = CongruenceOf(P, eqs)
  BY DEF SolutionOf
<1> HIDE DEF P, T
<1> QED BY <1>1, <1>2, <1>3, <1>4, CongruenceIs DEF T

-----------------------------------------------------------------------------
(* The terms of a plain program.                                           *)

(* The terms of the equations are references of the program's values, and  *)
(* pointees of those, of which an equation says so.                        *)
Base == {RefOf(v) : v \in DOMAIN prog.value}
Ordinary(e) == e.a \in Base /\ e.b \in Base
Described(e) ==
  \/ Ordinary(e)
  \/ e.a \in Base /\ e.b = Star(e.a) /\ e.fd = PointTo
  \/ e.b \in Base /\ \E r \in Base : e.a = Star(r) /\ Holds(r, PointTo, Star(r)) \in Equations

(* Members and lengths of sequences, where the provers need them said.     *)
LEMMA MemberIs ==
  ASSUME NEW V, NEW s \in Seq(V), NEW x \in ToSet(s) PROVE x \in V
<1>1. PICK n \in DOMAIN s : x = s[n]
  BY DEF ToSet
<1> QED BY <1>1, SeqIs

LEMMA FrontIs ==
  ASSUME NEW V, NEW s \in Seq(V), s # <<>>
  PROVE  /\ 1 \in DOMAIN s /\ s[1] \in V
         /\ \A n \in DOMAIN Tail(s) : Tail(s)[n] \in V
<1>1. 1 \in DOMAIN s /\ Tail(s) \in Seq(V)
  OBVIOUS
<1> QED BY <1>1, SeqIs

LEMMA AsLong ==
  ASSUME NEW V, NEW s \in Seq(V), NEW W, NEW t \in Seq(W), Len(s) = Len(t)
  PROVE  /\ DOMAIN s = DOMAIN t
         /\ s # <<>> => t # <<>>
<1>1. /\ Len(s) \in Nat /\ DOMAIN s = 1..Len(s)
      /\ Len(t) \in Nat /\ DOMAIN t = 1..Len(t)
  OBVIOUS
<1>2. t = <<>> => Len(s) = 0
  OBVIOUS
<1>3. Len(s) = 0 => s = <<>>
  OBVIOUS
<1> QED BY <1>1, <1>2, <1>3

LEMMA SingleIs ==
  ASSUME NEW V, NEW s \in Seq(V), Len(s) = 1 PROVE s[1] \in V
OBVIOUS

(* What each kind of instruction says is so described.                     *)
LEMMA SameOrdinary ==
  ASSUME NEW u \in DOMAIN prog.value, NEW v \in DOMAIN prog.value
  PROVE  Ordinary(Same(RefOf(u), RefOf(v))) /\ \A fd : Ordinary(Holds(RefOf(u), fd, RefOf(v)))
BY DEF Ordinary, Same, Holds, Base

LEMMA AllSameOrdinary ==
  ASSUME NEW u \in DOMAIN prog.value, NEW vs \in Seq(DOMAIN prog.value),
         NEW e \in {Same(RefOf(u), RefOf(v)) : v \in ToSet(vs)}
  PROVE  Ordinary(e)
BY SameOrdinary DEF ToSet

LEMMA ElementsOrdinary ==
  ASSUME NEW u \in DOMAIN prog.value, NEW v \in DOMAIN prog.value, NEW fds,
         NEW e \in Elements(RefOf(u), fds, RefOf(v))
  PROVE  Ordinary(e)
BY SameOrdinary DEF Elements

LEMMA AddressedDescribed ==
  ASSUME Given, Plain, NEW i \in Instructions, NEW x \in DOMAIN prog.value, ValueMayShare(x),
         NEW v \in DOMAIN prog.value, NEW fds, Says(i, <<>>) = Addressed(RefOf(x), fds, RefOf(v)),
         NEW e \in Says(i, <<>>)
  PROVE  Described(e)
<1> DEFINE d == Holds(RefOf(x), PointTo, Star(RefOf(x)))
<1>1. d.a = RefOf(x) /\ d.b = Star(RefOf(x)) /\ d.fd = PointTo /\ RefOf(x) \in Base /\ RefOf(v) \in Base
  BY DEF Holds, Base
<1>2. d \in Equations
  <2>1. d \in Says(i, <<>>)
    BY DEF Addressed
  <2>2. d.b.of = x
    BY DEF Holds, Star, RefOf, MakeReference, MakeLocal, MakeGlobal
  <2>3. d.fd # Equal
    BY <1>1, AnyNotEqual
  <2> HIDE DEF d
  <2> QED BY <2>1, <2>2, <2>3, Said DEF Plain
<1>3. CASE e = d
  BY <1>1, <1>3 DEF Described
<1>4. CASE e \in Elements(Star(RefOf(x)), fds, RefOf(v))
  <2>1. PICK fd \in fds : e = Holds(Star(RefOf(x)), fd, RefOf(v))
    BY <1>4 DEF Elements
  <2>2. e.a = Star(RefOf(x)) /\ e.b = RefOf(v)
    BY <2>1 DEF Holds
  <2> QED BY <1>1, <1>2, <2>2 DEF Described
<1> QED BY <1>3, <1>4 DEF Addressed

LEMMA ExtractOrdinary ==
  ASSUME WellTyped(prog), NEW i \in Instructions, i.is = "Extract",
         NEW e \in Says(i, <<>>)
  PROVE  Ordinary(e)
<1> DEFINE base == Maker(i.tuple)
<1>1. i.is \in Defining
  BY DEF Defining
<1>2. /\ base \in Instructions
      /\ base.is \in {"TypeAssert", "Next", "Lookup", "Receive", "Select", "Call"}
      /\ i.tuple \in DOMAIN prog.value
  BY Typed, MakerIs DEF TypedInstruction
<1>3. e \in SaysExtract(i, <<>>)
  BY SaysIs
<1>4. i.reg \in DOMAIN prog.value
  BY <1>1, RegIs
<1>5. base.is \in {"TypeAssert", "Next", "Lookup", "Receive"} => base.x \in DOMAIN prog.value
  <2>1. TypedInstruction(prog, base)
    BY <1>2, Typed
  <2> HIDE DEF base
  <2> QED BY <2>1 DEF TypedInstruction, Unary
<1>6. CASE base.is = "TypeAssert"
  <2>1. e = Same(RefOf(i.reg), RefOf(base.x))
    BY <1>3, <1>6 DEF SaysExtract, RefOf
  <2> QED BY <1>4, <1>5, <1>6, <2>1, SameOrdinary
<1>7. CASE base.is = "Next"
  <2>1. e \in Elements(RefOf(Maker(base.x).x), {AnyIndex}, RefOf(i.reg))
    BY <1>3, <1>7 DEF SaysExtract, RefOf
  <2>2. Maker(base.x) \in Instructions /\ Maker(base.x).is = "Range"
    <3>1. TypedInstruction(prog, base)
      BY <1>2, Typed
    <3>2. MadeBy(prog, base.x, {"Range"})
      BY <1>7, <3>1 DEF TypedInstruction
    <3> QED BY <3>2, MakerIs
  <2>3. Maker(base.x).x \in DOMAIN prog.value
    <3>1. TypedInstruction(prog, Maker(base.x))
      BY <2>2, Typed
    <3> QED BY <2>2, <3>1 DEF TypedInstruction, Unary
  <2> QED BY <1>4, <2>1, <2>3, ElementsOrdinary
<1>8. CASE base.is = "Lookup"
  <2>1. e \in Elements(RefOf(base.x), IndexFields(base.index), RefOf(i.reg))
    BY <1>3, <1>8 DEF SaysExtract, RefOf
  <2> QED BY <1>4, <1>5, <1>8, <2>1, ElementsOrdinary
<1>9. CASE base.is = "Receive"
  <2>1. e \in Elements(RefOf(base.x), {AnyIndex}, RefOf(i.reg))
    BY <1>3, <1>9 DEF SaysExtract, RefOf
  <2> QED BY <1>4, <1>5, <1>9, <2>1, ElementsOrdinary
<1>10. CASE base.is = "Select"
  <2> DEFINE vs == base.states
             chosen == {n \in DOMAIN vs :
                          /\ vs[n].dir = "receive"
                          /\ Cardinality({m \in 1..n : vs[m].dir = "receive"}) = i.index - 1}
  <2>1. e \in UNION {Elements(RefOf(vs[n].chan), {AnyIndex}, RefOf(i.reg)) : n \in chosen}
    BY <1>3, <1>10 DEF SaysExtract, RefOf
  <2>2. vs \in Seq(ToSet(vs)) /\ \A st \in ToSet(vs) : st.chan \in DOMAIN prog.value
    BY <1>2, <1>10, Typed DEF TypedInstruction
  <2>3. \A n \in chosen : n \in DOMAIN vs
    OBVIOUS
  <2> HIDE DEF vs, chosen
  <2>4. PICK n \in chosen : e \in Elements(RefOf(vs[n].chan), {AnyIndex}, RefOf(i.reg))
    BY <2>1
  <2>5. vs[n].chan \in DOMAIN prog.value
    BY <2>2, <2>3, SeqIs
  <2> QED BY <1>4, <2>4, <2>5, ElementsOrdinary
<1>11. CASE base.is = "Call"
  <2>1. e = Holds(RefOf(i.tuple), NamedField(ToString(i.index)), RefOf(i.reg))
    BY <1>3, <1>11 DEF SaysExtract, RefOf
  <2> QED BY <1>2, <1>4, <2>1, SameOrdinary
<1> HIDE DEF base
<1> QED BY <1>2, <1>6, <1>7, <1>8, <1>9, <1>10, <1>11

LEMMA NumberedOrdinary ==
  ASSUME NEW u \in DOMAIN prog.value, NEW vs, \A n \in DOMAIN vs : vs[n] \in Base, NEW from,
         NEW e \in Numbered(RefOf(u), vs, from)
  PROVE  Ordinary(e)
<1>1. PICK n \in DOMAIN vs : e = Holds(RefOf(u), NamedField(ToString(from + n)), vs[n])
  BY DEF Numbered
<1> QED BY <1>1 DEF Ordinary, Holds, Base

LEMMA CallOrdinary ==
  ASSUME Given, contextK = 0, WellTyped(prog), NEW i \in Instructions,
         i.is \in CallKinds, i.callee # "", NEW e \in Says(i, <<>>)
  PROVE  Ordinary(e)
<1> DEFINE V == DOMAIN prog.value
           g == prog.func[i.callee]
           args == [n \in DOMAIN i.args |-> RefOf(i.args[n])]
           callee(v) == MakeReference(Suffix(Append(<<>>, i.site), contextK), v)
           passed == {Same(args[n], callee(g.params[n])) : n \in DOMAIN args}
                     \cup {Same(RefOf(i.bindings[n]), callee(g.freeVars[n])) : n \in DOMAIN i.bindings}
           returned(ret) ==
             IF Len(ret) = 1 THEN {Same(RefOf(i.reg), callee(ret[1]))}
             ELSE Numbered(RefOf(i.reg), [n \in DOMAIN ret |-> callee(ret[n])], -1)
           results == IF i.is = "Call" THEN UNION {returned(ret) : ret \in ToSet(g.returns)}
                      ELSE {}
<1>1. i.callee \in Fn
  <2>1. PICK f \in Fn : i \in ToSet(prog.func[f].body)
    BY DEF Instructions
  <2>2. <<f, i>> \in Sited(prog)
    BY <2>1, SitedIs
  <2>3. i.callee \in DOMAIN prog.func \cup {""}
    BY <2>2 DEF Given, WellFormed
  <2> QED BY <2>3 DEF Fn
<1>2. /\ i.args \in Seq(V) /\ i.bindings \in Seq(V) /\ Len(i.bindings) <= Len(g.freeVars)
      /\ g.known \in {"", "Sprint", "Fprint"}
      /\ g.known = "Fprint" => i.args # <<>>
      /\ g.known = "" /\ g.body # <<>> => Len(i.args) = Len(g.params)
      /\ i.is = "Call" => i.reg \in V
  <2>1. TypedInstruction(prog, i)
    BY Typed
  <2>2. i.is = "Call" => i.reg \in V
    BY RegIs DEF Defining
  <2> QED BY <2>1, <2>2 DEF TypedInstruction, Fits, Bound
<1>3. g.params \in Seq(V) /\ g.freeVars \in Seq(V) /\ g.returns \in Seq(Seq(V))
  BY <1>1 DEF Given, WellFormed, WellTyped, Fn
<1>4. SaysCall(i, <<>>) =
        CASE g.known = "Sprint" -> IF i.is = "Call" THEN Numbered(RefOf(i.reg), args, 0) ELSE {}
          [] g.known = "Fprint" -> Numbered(args[1], Tail(args), 1)
          [] g.known = "" /\ g.body = <<>> -> {}
          [] OTHER -> passed \cup results
  BY DEF SaysCall, RefOf
<1>5. e \in SaysCall(i, <<>>)
  BY SaysIs
<1>6. \A v : callee(v) = RefOf(v)
  BY SuffixIs DEF RefOf
<1>7. DOMAIN args = DOMAIN i.args /\ \A n \in DOMAIN args : args[n] = RefOf(i.args[n]) /\ args[n] \in Base
  <2>1. \A n \in DOMAIN i.args : i.args[n] \in V
    BY <1>2, SeqIs
  <2> QED BY <2>1 DEF Base
<1> HIDE DEF g, callee
<1>8. CASE g.known = "Sprint"
  <2>1. i.is = "Call" /\ e \in Numbered(RefOf(i.reg), args, 0)
    BY <1>4, <1>5, <1>8
  <2> QED BY <1>2, <1>7, <2>1, NumberedOrdinary
<1>9. CASE g.known = "Fprint"
  <2>1. e \in Numbered(args[1], Tail(args), 1)
    BY <1>4, <1>5, <1>9
  <2>2. args \in Seq(Base) /\ Len(args) = Len(i.args) /\ args # <<>>
    <3>1. args = [n \in DOMAIN i.args |-> args[n]]
      BY <1>7
    <3>2. args \in Seq(Base) /\ Len(args) = Len(i.args)
      <4> HIDE DEF args
      <4> QED BY <1>2, <1>7, <3>1, MappedIs
    <3>3. i.args \in Seq(V) /\ i.args # <<>>
      BY <1>2, <1>9
    <3>4. args # <<>>
      <4> HIDE DEF args
      <4> QED BY <3>2, <3>3, AsLong
    <3> QED BY <3>2, <3>4
  <2>3. 1 \in DOMAIN args /\ \A n \in DOMAIN Tail(args) : Tail(args)[n] \in Base
    <3> HIDE DEF args
    <3> QED BY <2>2, FrontIs
  <2>4. i.args[1] \in V /\ args[1] = RefOf(i.args[1])
    BY <1>2, <1>7, <2>3, SeqIs
  <2> HIDE DEF args
  <2> QED BY <2>1, <2>3, <2>4, NumberedOrdinary
<1>10. CASE g.known = "" /\ g.body = <<>>
  BY <1>4, <1>5, <1>10
<1>11. CASE g.known = "" /\ g.body # <<>>
  <2>1. e \in passed \cup results
    <3> HIDE DEF passed, results
    <3> QED BY <1>4, <1>5, <1>11
  <2>2. CASE \E n \in DOMAIN args : e = Same(args[n], callee(g.params[n]))
    <3>1. PICK n \in DOMAIN args : e = Same(args[n], callee(g.params[n]))
      BY <2>2
    <3>2. n \in DOMAIN g.params
      <4>1. Len(i.args) = Len(g.params) /\ i.args \in Seq(V) /\ g.params \in Seq(V)
        BY <1>2, <1>3, <1>11
      <4>2. DOMAIN i.args = DOMAIN g.params
        BY <4>1, AsLong
      <4> QED BY <1>7, <4>2
    <3>3. i.args[n] \in V /\ g.params[n] \in V
      BY <1>2, <1>3, <1>7, <3>2, SeqIs
    <3> QED BY <1>6, <1>7, <3>1, <3>3, SameOrdinary
  <2>3. CASE \E n \in DOMAIN i.bindings : e = Same(RefOf(i.bindings[n]), callee(g.freeVars[n]))
    <3>1. PICK n \in DOMAIN i.bindings : e = Same(RefOf(i.bindings[n]), callee(g.freeVars[n]))
      BY <2>3
    <3>2. n \in DOMAIN g.freeVars
      BY <1>2, <1>3, Within
    <3>3. i.bindings[n] \in V /\ g.freeVars[n] \in V
      BY <1>2, <1>3, <3>2, SeqIs
    <3> QED BY <1>6, <3>1, <3>3, SameOrdinary
  <2>4. CASE e \in results
    <3>1. i.is = "Call" /\ \E ret \in ToSet(g.returns) : e \in returned(ret)
      <4> HIDE DEF returned
      <4> QED BY <2>4
    <3>2. PICK ret \in ToSet(g.returns) : e \in returned(ret)
      BY <3>1
    <3>3. ret \in Seq(V)
      BY <1>3, MemberIs
    <3>4. CASE Len(ret) = 1
      <4>1. e = Same(RefOf(i.reg), callee(ret[1]))
        BY <3>2, <3>4
      <4>2. ret[1] \in V
        BY <3>3, <3>4, SingleIs
      <4> QED BY <1>2, <1>6, <3>1, <4>1, <4>2, SameOrdinary
    <3>5. CASE Len(ret) # 1
      <4> DEFINE vs == [n \in DOMAIN ret |-> callee(ret[n])]
      <4>1. e \in Numbered(RefOf(i.reg), vs, -1)
        BY <3>2, <3>5
      <4>2. \A n \in DOMAIN ret : ret[n] \in V
        BY <3>3, SeqIs
      <4>3. \A n \in DOMAIN vs : vs[n] \in Base
        BY <1>6, <4>2 DEF Base
      <4> HIDE DEF vs
      <4> QED BY <1>2, <3>1, <4>1, <4>3, NumberedOrdinary
    <3> QED BY <3>4, <3>5
  <2> QED BY <2>1, <2>2, <2>3, <2>4
<1> QED BY <1>2, <1>8, <1>9, <1>10, <1>11

(* What any instruction of a plain program says.                           *)
LEMMA SaysDescribed ==
  ASSUME Given, Plain, WellTyped(prog), NEW i \in Instructions, NEW e \in Says(i, <<>>)
  PROVE  Described(e)
<1> DEFINE V == DOMAIN prog.value
<1>0. /\ contextK = 0 /\ i.is \notin {"Field", "copy"}
      /\ i.is \in {"FieldAddr", "IndexAddr"} => ValueMayShare(i.x)
  BY DEF Plain
<1>1. TypedInstruction(prog, i)
  BY Typed
<1>2. /\ i.is \in Defining => i.reg \in V
      /\ i.is \in Unary \cup {"MapUpdate", "Store", "Send"} => i.x \in V
      /\ i.is \in {"MapUpdate", "Store", "Send"} => i.val \in V
      /\ i.is = "Add" => i.y \in V
      /\ i.is = "Phi" => i.edges \in Seq(V)
      /\ i.is = "append" => i.args \in Seq(V)
  BY <1>1, RegIs DEF TypedInstruction
<1>3. ASSUME Ordinary(e) PROVE Described(e)
  BY <1>3 DEF Described
<1>4. CASE i.is \in Copies \/ i.is = "TypeAssert"
  <2>1. i.is \in Defining /\ i.is \in Unary
    BY <1>4 DEF Defining, Unary
  <2>2. e \in {Same(RefOf(i.reg), RefOf(v)) : v \in ToSet(<<i.x>>)}
    <3>1. i.is \in Copies => Says(i, <<>>) = {Same(RefOf(i.reg), RefOf(v)) : v \in ToSet(<<i.x>>)}
      BY SaysIs
    <3>2. i.is = "TypeAssert" =>
            Says(i, <<>>) = IF i.commaOk THEN {} ELSE {Same(RefOf(i.reg), RefOf(v)) : v \in ToSet(<<i.x>>)}
      BY SaysIs
    <3>3. CASE i.commaOk
      BY <1>4, <3>1, <3>2, <3>3
    <3>4. CASE ~i.commaOk
      BY <1>4, <3>1, <3>2, <3>4
    <3> QED BY <3>3, <3>4
  <2>3. i.reg \in V /\ i.x \in V
    BY <1>2, <2>1
  <2>4. <<i.x>> \in Seq(V)
    BY <2>3, OneIn
  <2> QED BY <1>3, <2>2, <2>3, <2>4, AllSameOrdinary
<1>5. CASE i.is = "Phi"
  <2>1. e \in {Same(RefOf(i.reg), RefOf(v)) : v \in ToSet(i.edges)}
    BY <1>5, SaysIs
  <2> QED BY <1>2, <1>3, <1>5, <2>1, AllSameOrdinary DEF Defining
<1>6. CASE i.is = "append"
  <2>1. e \in {Same(RefOf(i.reg), RefOf(v)) : v \in ToSet(i.args)}
    BY <1>6, SaysIs
  <2> QED BY <1>2, <1>3, <1>6, <2>1, AllSameOrdinary DEF Defining
<1>7. CASE i.is \in {"FieldAddr", "IndexAddr"}
  <2>1. i.is \in Defining /\ i.is \in Unary
    BY <1>7 DEF Defining, Unary
  <2>2. \E fds : Says(i, <<>>) = Addressed(RefOf(i.x), fds, RefOf(i.reg))
    BY <1>7, SaysIs
  <2> QED BY <1>0, <1>2, <1>7, <2>1, <2>2, AddressedDescribed
<1>8. CASE i.is \in {"Index", "Lookup", "Receive"}
  <2>1. i.is \in Defining /\ i.is \in Unary
    BY <1>8 DEF Defining, Unary
  <2>2. \E fds : e \in Elements(RefOf(i.x), fds, RefOf(i.reg))
    <3>1. /\ i.is = "Index" \/ (i.is = "Lookup" /\ ~i.commaOk) =>
               Says(i, <<>>) = Elements(RefOf(i.x), IndexFields(i.index), RefOf(i.reg))
          /\ i.is = "Lookup" /\ i.commaOk => Says(i, <<>>) = {}
          /\ i.is = "Receive" =>
               Says(i, <<>>) = IF i.commaOk THEN {} ELSE Elements(RefOf(i.x), {AnyIndex}, RefOf(i.reg))
      BY SaysIs
    <3>2. CASE i.commaOk
      BY <1>8, <3>1, <3>2
    <3>3. CASE ~i.commaOk
      BY <1>8, <3>1, <3>3
    <3> QED BY <3>2, <3>3
  <2> QED BY <1>2, <1>3, <2>1, <2>2, ElementsOrdinary
<1>9. CASE i.is \in {"MapUpdate", "Send"}
  <2>1. \E fds : e \in Elements(RefOf(i.x), fds, RefOf(i.val))
    <3>1. CASE i.is = "MapUpdate"
      <4>1. e \in Elements(RefOf(i.x), IndexFields(i.index), RefOf(i.val))
        BY <3>1, SaysIs
      <4> QED BY <4>1
    <3>2. CASE i.is = "Send"
      <4>1. e \in Elements(RefOf(i.x), {AnyIndex}, RefOf(i.val))
        BY <3>2, SaysIs
      <4> QED BY <4>1
    <3> QED BY <1>9, <3>1, <3>2
  <2> QED BY <1>2, <1>3, <1>9, <2>1, ElementsOrdinary
<1>10. CASE i.is = "Store"
  <2>1. e = Holds(RefOf(i.x), PointTo, RefOf(i.val))
    BY <1>10, SaysIs
  <2> QED BY <1>2, <1>3, <1>10, <2>1, SameOrdinary
<1>11. CASE i.is = "Load"
  <2>1. e = Holds(RefOf(i.x), PointTo, RefOf(i.reg))
    BY <1>11, SaysIs
  <2> QED BY <1>2, <1>3, <1>11, <2>1, SameOrdinary DEF Defining, Unary
<1>12. CASE i.is = "Select"
  <2>1. e \in UNION {Elements(RefOf(st.chan), {AnyIndex}, RefOf(st.val)) :
                       st \in {s \in ToSet(i.states) : s.dir = "send"}}
    BY <1>12, SaysIs
  <2>2. PICK st \in ToSet(i.states) :
          st.dir = "send" /\ e \in Elements(RefOf(st.chan), {AnyIndex}, RefOf(st.val))
    BY <2>1
  <2>3. st.chan \in V /\ st.val \in V
    BY <1>1, <1>12, <2>2 DEF TypedInstruction
  <2> QED BY <1>3, <2>2, <2>3, ElementsOrdinary
<1>13. CASE i.is = "Add"
  <2>1. e \in {Holds(RefOf(i.reg), NamedField("left"), RefOf(i.x)),
               Holds(RefOf(i.reg), NamedField("right"), RefOf(i.y))}
    BY <1>13, SaysIs
  <2> QED BY <1>2, <1>3, <1>13, <2>1, SameOrdinary DEF Defining, Unary
<1>14. CASE i.is = "Extract"
  BY <1>3, <1>14, ExtractOrdinary
<1>15. CASE i.is = "MakeClosure"
  <2>1. e \in {Same(RefOf(prog.func[i.fn].freeVars[n]), RefOf(i.bindings[n])) : n \in DOMAIN i.bindings}
    BY <1>15, SaysIs
  <2>2. PICK n \in DOMAIN i.bindings :
          e = Same(RefOf(prog.func[i.fn].freeVars[n]), RefOf(i.bindings[n]))
    BY <2>1
  <2>3. /\ i.fn \in DOMAIN prog.func /\ i.bindings \in Seq(V)
        /\ Len(i.bindings) <= Len(prog.func[i.fn].freeVars)
    BY <1>1, <1>15 DEF TypedInstruction, Bound
  <2>4. prog.func[i.fn].freeVars \in Seq(V)
    BY <2>3 DEF Given, WellFormed
  <2>5. n \in DOMAIN prog.func[i.fn].freeVars
    BY <2>3, <2>4, Within
  <2>6. i.bindings[n] \in V /\ prog.func[i.fn].freeVars[n] \in V
    BY <2>3, <2>4, <2>5, SeqIs
  <2> QED BY <1>3, <2>2, <2>6, SameOrdinary
<1>16. CASE i.is \in CallKinds
  <2>1. i.callee # ""
    BY <1>16, SaysIs
  <2> QED BY <1>0, <1>3, <1>16, <2>1, CallOrdinary
<1>17. CASE i.is \notin Copies \cup CallKinds \cup
         {"Phi", "append", "TypeAssert", "FieldAddr", "IndexAddr", "Field", "Index", "Lookup",
          "MapUpdate", "Store", "Load", "Receive", "Send", "Select", "Add", "Extract",
          "MakeClosure", "copy"}
  BY <1>17, SaysIs
<1> QED
  BY <1>0, <1>4, <1>5, <1>6, <1>7, <1>8, <1>9, <1>10, <1>11, <1>12, <1>13, <1>14, <1>15,
     <1>16, <1>17

(* So are all the equations, and there are finitely many terms.            *)
LEMMA EquationsDescribed ==
  ASSUME Given, Plain, WellTyped(prog), NEW e \in Equations
  PROVE  Described(e)
<1>1. PICK f \in Fn : \E i \in ToSet(prog.func[f].body), c \in CollectContext(f, contextK) :
        e \in Says(i, c)
  BY DEF Equations
<1>2. PICK i \in ToSet(prog.func[f].body), c \in CollectContext(f, contextK) : e \in Says(i, c)
  BY <1>1
<1>3. CollectContext(f, contextK) = {<<>>}
  BY CollectStep DEF Given, Plain
<1>4. c = <<>> /\ i \in Instructions
  BY <1>2, <1>3 DEF Instructions
<1> QED BY <1>2, <1>4, SaysDescribed

(* There are finitely many terms.                                          *)
LEMMA TermsAre ==
  ASSUME Given, Plain, WellTyped(prog)
  PROVE  /\ IsFiniteSet(Terms(Equations))
         /\ Terms(Equations) \subseteq Base \cup {Star(r) : r \in Base}
<1>1. InitialReferences \subseteq Base
  BY InitialAre DEF Base, Plain
<1>2. ASSUME NEW e \in Equations
      PROVE  {e.a, e.b} \subseteq Base \cup {Star(r) : r \in Base}
  BY EquationsDescribed DEF Described, Ordinary
<1>3. Terms(Equations) \subseteq Base \cup {Star(r) : r \in Base}
  BY <1>1, <1>2 DEF Terms
<1>4. IsFiniteSet(Base)
  <2> DEFINE h == [v \in DOMAIN prog.value |-> RefOf(v)]
  <2>1. DOMAIN h = DOMAIN prog.value /\ {h[v] : v \in DOMAIN h} = Base
    BY DEF Base
  <2>2. IsFiniteSet(DOMAIN prog.value)
    BY DEF Given, WellFormed
  <2> HIDE DEF h
  <2> QED BY <2>1, <2>2, FiniteImage
<1>5. IsFiniteSet({Star(r) : r \in Base})
  <2> DEFINE h == [r \in Base |-> Star(r)]
  <2>1. DOMAIN h = Base /\ {h[r] : r \in DOMAIN h} = {Star(r) : r \in Base}
    OBVIOUS
  <2> HIDE DEF h
  <2> QED BY <1>4, <2>1, FiniteImage
<1>6. IsFiniteSet(Base \cup {Star(r) : r \in Base})
  BY <1>4, <1>5, FS_Union
<1> QED BY <1>3, <1>6, FS_Subset

-----------------------------------------------------------------------------
(* The solution as a labelling, and the theorem.                           *)

(* The solution as a labelling.  The references are those of the values    *)
(* and what is below them; the field of a class is the class that the      *)
(* equations say, if any; a pointee has the field of what points to it.    *)
Cast == [syn : Seq({"*"}), global : BOOLEAN, cxt : {<<>>}, of : DOMAIN prog.value]

ClassBelow(P, fd, C) == UNION {D \in P : \E e \in Equations : e.fd = fd /\ e.a \in C /\ e.b \in D}
FieldLabels(P, T) ==
  [fd \in {PointTo} \cup {e.fd : e \in Equations} |-> [C \in SUBSET T |-> ClassBelow(P, fd, C)]]

Ground(r) == [r EXCEPT !.syn = <<>>]
GroundLabel(P, T, r) == IF Ground(r) \in T THEN ClassOf(P, Ground(r)) ELSE {}
ClassLabels(P, T) ==
  [r \in Cast |->
     Iterate(SUBSET T, FieldLabels(P, T)[PointTo], GroundLabel(P, T, r))[Len(r.syn)]]

(* The class below is the one that an equation says.                       *)
LEMMA ClassBelowIs ==
  ASSUME NEW P, NEW T, IsPartition(P, T), IsClosed(P, Equations),
         NEW e \in Equations, \A d \in Equations : d.a \in T /\ d.b \in T
  PROVE  ClassBelow(P, e.fd, ClassOf(P, e.a)) = ClassOf(P, e.b)
<1> DEFINE Ds == {D \in P : \E d \in Equations : d.fd = e.fd /\ d.a \in ClassOf(P, e.a) /\ d.b \in D}
<1>1. e.a \in ClassOf(P, e.a) /\ e.b \in ClassOf(P, e.b) /\ ClassOf(P, e.a) \in P /\ ClassOf(P, e.b) \in P
  BY ClassIs
<1>2. ClassOf(P, e.b) \in Ds
  BY <1>1
<1>3. ASSUME NEW D \in Ds PROVE D = ClassOf(P, e.b)
  <2>1. PICK d \in Equations : d.fd = e.fd /\ d.a \in ClassOf(P, e.a) /\ d.b \in D
    BY <1>3
  <2>2. ClassOf(P, d.a) = ClassOf(P, e.a)
    BY <1>1, <2>1, ClassIs
  <2>3. ClassOf(P, d.b) = ClassOf(P, e.b)
    BY <2>1, <2>2 DEF IsClosed
  <2>4. D \in P /\ D = ClassOf(P, d.b)
    BY <2>1, ClassIs
  <2> QED BY <2>3, <2>4
<1>4. Ds = {ClassOf(P, e.b)}
  BY <1>2, <1>3
<1>5. ClassBelow(P, e.fd, ClassOf(P, e.a)) = UNION Ds
  BY DEF ClassBelow
<1> HIDE DEF Ds
<1> QED BY <1>4, <1>5

(* Fields of classes are sets of terms.                                    *)
LEMMA FieldLabelsAre ==
  ASSUME NEW P, NEW T, IsPartition(P, T)
  PROVE  LET fl == FieldLabels(P, T)
         IN  /\ DOMAIN fl = {PointTo} \cup {e.fd : e \in Equations}
             /\ \A fd \in DOMAIN fl : fl[fd] \in [SUBSET T -> SUBSET T]
             /\ \A fd \in DOMAIN fl : \A C \in SUBSET T : fl[fd][C] = ClassBelow(P, fd, C)
<1>1. ASSUME NEW fd, NEW C PROVE ClassBelow(P, fd, C) \in SUBSET T
  BY DEF ClassBelow, IsPartition
<1> QED BY <1>1 DEF FieldLabels

(* References below references.                                            *)
LEMMA PointeeOf ==
  ASSUME NEW s, NEW g, NEW c, NEW o
  PROVE  MakeSynthetic("*", [syn |-> s, global |-> g, cxt |-> c, of |-> o])
           = [syn |-> <<"*">> \o s, global |-> g, cxt |-> c, of |-> o]
<1> DEFINE q == [syn |-> s, global |-> g, cxt |-> c, of |-> o]
           t == <<"*">> \o q.syn
<1>1. MakeSynthetic("*", q) = [q EXCEPT !.syn = t]
  BY DEF MakeSynthetic
<1>2. t = <<"*">> \o s
  OBVIOUS
<1> HIDE DEF t
<1>3. [q EXCEPT !.syn = t] = [syn |-> t, global |-> g, cxt |-> c, of |-> o]
  OBVIOUS
<1> HIDE DEF q
<1> QED BY <1>1, <1>2, <1>3 DEF q

LEMMA CastIs ==
  ASSUME NEW r \in Cast
  PROVE  /\ MakeSynthetic("*", r) \in Cast
         /\ Ground(MakeSynthetic("*", r)) = Ground(r)
         /\ Len(r.syn) \in Nat
         /\ Len(MakeSynthetic("*", r).syn) = Len(r.syn) + 1
<1> DEFINE s == r.syn
           t == <<"*">> \o s
<1>1. s \in Seq({"*"}) /\ r = [syn |-> s, global |-> r.global, cxt |-> r.cxt, of |-> r.of]
  BY DEF Cast
<1>2. t \in Seq({"*"}) /\ Len(s) \in Nat /\ Len(t) = Len(s) + 1
  BY <1>1
<1>3. MakeSynthetic("*", r) = [syn |-> t, global |-> r.global, cxt |-> r.cxt, of |-> r.of]
  <2> DEFINE q == [syn |-> s, global |-> r.global, cxt |-> r.cxt, of |-> r.of]
  <2>1. r = q /\ MakeSynthetic("*", q) = [syn |-> t, global |-> r.global, cxt |-> r.cxt, of |-> r.of]
    BY <1>1, PointeeOf
  <2> HIDE DEF q
  <2> QED BY <2>1
<1> HIDE DEF s, t
<1>4. r.global \in BOOLEAN /\ r.cxt \in {<<>>} /\ r.of \in DOMAIN prog.value
  BY DEF Cast
<1>5. MakeSynthetic("*", r) \in Cast /\ MakeSynthetic("*", r).syn = t
  BY <1>2, <1>3, <1>4 DEF Cast
<1>6. Ground(MakeSynthetic("*", r)) = [syn |-> <<>>, global |-> r.global, cxt |-> r.cxt, of |-> r.of]
  BY <1>3 DEF Ground
<1>7. Ground(r) = [syn |-> <<>>, global |-> r.global, cxt |-> r.cxt, of |-> r.of]
  BY <1>1 DEF Ground
<1> QED BY <1>2, <1>5, <1>6, <1>7 DEF s

LEMMA BaseIs ==
  ASSUME NEW r \in Base
  PROVE  r \in Cast /\ Ground(r) = r /\ r.syn = <<>> /\ MakeSynthetic("*", r) = Star(r)
<1>1. PICK v \in DOMAIN prog.value : r = RefOf(v)
  BY DEF Base
<1>2. RefOf(v) = MakeLocal(<<>>, v) \/ RefOf(v) = MakeGlobal(v)
  BY DEF RefOf, MakeReference
<1>3. \E g \in BOOLEAN : r = [syn |-> <<>>, global |-> g, cxt |-> <<>>, of |-> v]
  BY <1>1, <1>2 DEF MakeLocal, MakeGlobal
<1>4. PICK g \in BOOLEAN : r = [syn |-> <<>>, global |-> g, cxt |-> <<>>, of |-> v]
  BY <1>3
<1>5. <<>> \in Seq({"*"})
  OBVIOUS
<1>6. r \in Cast
  BY <1>4, <1>5 DEF Cast
<1>7. MakeSynthetic("*", r) = Star(r)
  BY <1>1, StarOf
<1>8. Ground(r) = r /\ r.syn = <<>>
  BY <1>4 DEF Ground
<1> QED BY <1>6, <1>7, <1>8

(* The labels of pointees, and of the terms themselves.                    *)
LEMMA LabelsAre ==
  ASSUME NEW P, NEW T, IsPartition(P, T)
  PROVE  /\ \A r \in Cast :
              ClassLabels(P, T)[MakeSynthetic("*", r)]
                = FieldLabels(P, T)[PointTo][ClassLabels(P, T)[r]]
         /\ \A r \in Base \cap T : ClassLabels(P, T)[r] = ClassOf(P, r)
<1> DEFINE U == SUBSET T
           D == FieldLabels(P, T)[PointTo]
           lab == ClassLabels(P, T)
<1>1. D \in [U -> U]
  BY FieldLabelsAre
<1>2. ASSUME NEW r PROVE GroundLabel(P, T, r) \in U
  BY ClassIs DEF GroundLabel, IsPartition
<1>3. ASSUME NEW r \in Cast PROVE lab[r] = Iterate(U, D, GroundLabel(P, T, r))[Len(r.syn)]
  BY <1>3 DEF ClassLabels
<1> HIDE DEF U, D, lab
<1>4. ASSUME NEW r \in Cast PROVE lab[MakeSynthetic("*", r)] = D[lab[r]]
  <2> DEFINE s == MakeSynthetic("*", r)
             x == GroundLabel(P, T, r)
  <2>1. s \in Cast /\ Len(r.syn) \in Nat /\ Len(s.syn) = Len(r.syn) + 1
    BY CastIs
  <2>2. GroundLabel(P, T, s) = x
    BY CastIs DEF GroundLabel
  <2>3. x \in U
    BY <1>2
  <2>4. lab[s] = Iterate(U, D, x)[Len(s.syn)] /\ lab[r] = Iterate(U, D, x)[Len(r.syn)]
    BY <1>3, <2>1, <2>2
  <2> HIDE DEF x, s
  <2>5. Iterates(U, D, x, Iterate(U, D, x))
    BY <1>1, <2>3, IterateIs
  <2>6. Iterate(U, D, x)[Len(r.syn) + 1] = D[Iterate(U, D, x)[Len(r.syn)]]
    BY <2>1, <2>5 DEF Iterates
  <2>7. lab[s] = D[lab[r]]
    BY <2>1, <2>4, <2>6
  <2> QED BY <2>7 DEF s
<1>5. ASSUME NEW r \in Base \cap T PROVE lab[r] = ClassOf(P, r)
  <2>1. r \in Cast /\ Ground(r) = r /\ r.syn = <<>>
    BY BaseIs
  <2>2. Len(r.syn) = 0
    BY <2>1
  <2>3. GroundLabel(P, T, r) = ClassOf(P, r)
    BY <2>1 DEF GroundLabel
  <2>4. ClassOf(P, r) \in U
    BY <1>2, <2>3
  <2>5. Iterate(U, D, ClassOf(P, r))[0] = ClassOf(P, r)
    BY <1>1, <2>4, IterateIs DEF Iterates
  <2> QED BY <1>3, <2>1, <2>2, <2>3, <2>5
<1> QED BY <1>4, <1>5 DEF D, lab

(* The solution of a plain program is such a labelling.                    *)
LEMMA SolutionLabels ==
  ASSUME Given, Plain, WellTyped(prog)
  PROVE  LET lab == ClassLabels(Solution, Terms(Equations))
             fl == FieldLabels(Solution, Terms(Equations))
         IN  /\ Labelling(Cast, lab, fl) /\ Models(Cast, lab, fl)
             /\ \A r \in InitialReferences :
                  lab[r] = ClassOf(Solution, r) /\ r \in ClassOf(Solution, r)
                  /\ ClassOf(Solution, r) \in Solution
<1> DEFINE T == Terms(Equations)
           P == Solution
           lab == ClassLabels(P, T)
           fl == FieldLabels(P, T)
<1>1. IsPartition(P, T) /\ IsClosed(P, Equations)
  BY TermsAre, SolutionIs DEF Solution
<1>2. InitialReferences \subseteq T /\ \A e \in Equations : e.a \in T /\ e.b \in T
  BY DEF Terms
<1> HIDE DEF P, T
<1>3. /\ \A r \in Cast : lab[MakeSynthetic("*", r)] = fl[PointTo][lab[r]]
      /\ \A r \in Base \cap T : lab[r] = ClassOf(P, r)
  BY <1>1, LabelsAre
<1>4. /\ DOMAIN fl = {PointTo} \cup {e.fd : e \in Equations}
      /\ \A fd \in DOMAIN fl : \A C \in SUBSET T : fl[fd][C] = ClassBelow(P, fd, C)
  BY <1>1, FieldLabelsAre
<1> HIDE DEF lab, fl
<1>5. Labelling(Cast, lab, fl)
  BY <1>3, <1>4, CastIs DEF Labelling
<1>6. ASSUME NEW e \in Equations
      PROVE  fl[e.fd][ClassOf(P, e.a)] = ClassOf(P, e.b)
  <2>1. ClassOf(P, e.a) \in SUBSET T
    <3>1. e.a \in T
      BY <1>2
    <3>2. ClassOf(P, e.a) \in P
      BY <1>1, <3>1, ClassIs
    <3>3. P \subseteq SUBSET T
      BY <1>1 DEF IsPartition
    <3> QED BY <3>2, <3>3
  <2>2. e.fd \in DOMAIN fl
    BY <1>4
  <2>3. ClassBelow(P, e.fd, ClassOf(P, e.a)) = ClassOf(P, e.b)
    BY <1>1, <1>2, ClassBelowIs
  <2> QED BY <1>4, <2>1, <2>2, <2>3
<1>7. \A v \in DOMAIN prog.value : RefOf(v) \in Cast
  BY BaseIs DEF Base
<1>8. ASSUME NEW e \in Equations
      PROVE  /\ e.a \in Cast /\ e.b \in Cast
             /\ IF e.fd = Equal THEN lab[e.a] = lab[e.b] ELSE lab[e.b] = fl[e.fd][lab[e.a]]
  <2>1. Described(e)
    BY EquationsDescribed
  <2>2. e.fd = Equal => ClassOf(P, e.a) = ClassOf(P, e.b)
    BY <1>1 DEF IsClosed
  <2>3. CASE Ordinary(e)
    <3>1. e.a \in Base \cap T /\ e.b \in Base \cap T
      BY <1>2, <2>3 DEF Ordinary
    <3>2. e.a \in Cast /\ e.b \in Cast
      BY <3>1, BaseIs
    <3> QED BY <1>3, <1>6, <2>2, <3>1, <3>2
  <2>4. CASE e.a \in Base /\ e.b = Star(e.a) /\ e.fd = PointTo
    <3>1. e.a \in Cast /\ e.b = MakeSynthetic("*", e.a)
      BY <2>4, BaseIs
    <3>2. e.b \in Cast /\ lab[e.b] = fl[PointTo][lab[e.a]]
      BY <1>3, <3>1, CastIs
    <3> QED BY <2>4, <3>1, <3>2, AnyNotEqual
  <2>5. CASE e.b \in Base /\ \E r \in Base : e.a = Star(r) /\ Holds(r, PointTo, Star(r)) \in Equations
    <3>1. PICK r \in Base : e.a = Star(r) /\ Holds(r, PointTo, Star(r)) \in Equations
      BY <2>5
    <3>2. PICK d \in Equations : d = Holds(r, PointTo, Star(r))
      BY <3>1
    <3>3. d.a = r /\ d.b = e.a /\ d.fd = PointTo
      BY <3>1, <3>2 DEF Holds
    <3>4. r \in Cast /\ e.a = MakeSynthetic("*", r) /\ r \in T
      BY <1>2, <3>1, <3>3, BaseIs
    <3>5. fl[PointTo][ClassOf(P, r)] = ClassOf(P, e.a)
      BY <1>6, <3>3
    <3>6. e.a \in Cast /\ lab[e.a] = ClassOf(P, e.a)
      BY <1>3, <3>4, <3>5, CastIs
    <3>7. e.b \in Cast /\ lab[e.b] = ClassOf(P, e.b)
      BY <1>2, <1>3, <2>5, BaseIs
    <3> QED BY <1>6, <2>2, <3>6, <3>7
  <2> QED BY <2>1, <2>3, <2>4, <2>5 DEF Described
<1>9. Models(Cast, lab, fl)
  BY <1>7, <1>8 DEF Models
<1>10. ASSUME NEW r \in InitialReferences
       PROVE  lab[r] = ClassOf(P, r) /\ r \in ClassOf(P, r) /\ ClassOf(P, r) \in P
  <2>1. r \in Base /\ r \in T
    BY <1>2, InitialAre DEF Base, Plain
  <2> QED BY <1>1, <1>3, <2>1, ClassIs
<1> QED BY <1>5, <1>9, <1>10 DEF P, T, lab, fl

(* References of one partition have one label, so they are of one class.   *)
LEMMA PreciseIsJustified == ASSUME PrecisionInv, Plain PROVE AliasesJustified
<1> DEFINE lab == ClassLabels(Solution, Terms(Equations))
           fl == FieldLabels(Solution, Terms(Equations))
<1>1. /\ Labelling(Cast, lab, fl) /\ Models(Cast, lab, fl)
      /\ \A r \in InitialReferences :
           lab[r] = ClassOf(Solution, r) /\ r \in ClassOf(Solution, r)
           /\ ClassOf(Solution, r) \in Solution
  BY SolutionLabels DEF PrecisionInv
<1> HIDE DEF lab, fl
<1>2. Labelled(Cast, lab, fl, Now)
  BY <1>1 DEF PrecisionInv, LabelledByAll
<1>3. ASSUME NEW a \in InitialReferences, NEW b \in InitialReferences, Aliased(a, b)
      PROVE  Together(Solution, a, b)
  <2>1. a \in DOMAIN parents /\ b \in DOMAIN parents /\ Now.p = parents
    BY DEF PrecisionInv, Now
  <2>2. lab[Root(parents, a)] = lab[a] /\ lab[Root(parents, b)] = lab[b]
    BY <1>2, <2>1 DEF Labelled
  <2>3. ClassOf(Solution, a) = ClassOf(Solution, b)
    BY <1>1, <1>3, <2>2 DEF Aliased
  <2> QED BY <1>1, <2>3 DEF Together
<1> QED BY <1>3 DEF AliasesJustified, OnlyTogether

(* taint.go and heap.go rest on it: of a plain program, two references are *)
(* in one partition only if the equations of the program make them equal.  *)
THEOREM AliasesAreJustified == Spec => [](Plain => AliasesJustified)
<1>1. TaintInit => PrecisionInv
  BY InitPrecise
<1>2. PrecisionInv /\ [Next]_taintVars => PrecisionInv'
  BY StepPrecise
<1>3. PrecisionInv => (Plain => AliasesJustified)
  BY PreciseIsJustified
<1> QED BY <1>1, <1>2, <1>3, PTL DEF Spec
=============================================================================
