------------------------- MODULE SourceInfer_proofs -------------------------
(***************************************************************************)
(* Proofs about SourceInfer, for every type environment and all imports:   *)
(* what topoSort says of the graph of a package, whatever its cycles; what *)
(* the passes infer; and that sourcetype, which looks through the parts of *)
(* a type by itself, agrees with them.                                     *)
(***************************************************************************)
EXTENDS SourceInfer, ClosureTheorems

Targets == UNION {graph[k] : k \in DOMAIN graph}

Found == ToSet(order)
OnStack == {dfs[k][1] : k \in DOMAIN dfs}

(* The phases of a pass.                                                   *)
PhaseInv ==
  /\ phase \in {"idle", "sort", "sweep"}
  /\ phase = "idle" => graph = <<>> /\ visited = {} /\ order = <<>>
  /\ phase # "idle" => pkg \in Package /\ Targets \subseteq ToSet(TypeSpecs[pkg])
  /\ phase # "sort" => dfs = <<>>

(* An object visited is found, or on the stack of visits, once.            *)
VisitedInv ==
  /\ order \in Seq(visited)
  /\ dfs \in Seq(visited \X SUBSET Targets)
  /\ visited = Found \cup OnStack
  /\ Found \cap OnStack = {}
  /\ \A i, j \in DOMAIN order : order[i] = order[j] => i = j
  /\ \A k, m \in DOMAIN dfs : dfs[k][1] = dfs[m][1] => k = m

(* An object on the stack leads to all above it; and what an object leads  *)
(* to next is visited, or still to be visited from the stack.              *)
StackInv ==
  /\ \A k, m \in DOMAIN dfs : k < m => dfs[k][1] \in LeadsTo(dfs[m][1])
  /\ \A k \in DOMAIN dfs :
       /\ dfs[k][2] \subseteq Definitions(dfs[k][1])
       /\ Definitions(dfs[k][1]) \subseteq visited \cup dfs[k][2]
  /\ \A o \in Found : Definitions(o) \subseteq visited

(* All that an object outside cycles leads to has been found before it,    *)
(* and what it leads to next also if it is only that which does not lead   *)
(* back.                                                                   *)
Before(o, i) == \E k \in DOMAIN order : k < i /\ order[k] = o

OrderInv ==
  \A i \in DOMAIN order :
    /\ order[i] \notin LeadsTo(order[i]) => \A o \in LeadsTo(order[i]) : Before(o, i)
    /\ \A o \in Definitions(order[i]) : order[i] \notin LeadsTo(o) => Before(o, i)

(* The packages whose passes are over have imported only such packages,    *)
(* and their types are inferred exactly.                                   *)
Done == {p \in Package \ waiting : phase = "idle" \/ p # pkg}

Above(t) == {r \in Roots \ {t} : t \in Below(r)}
IsSure(t) ==
  \E r \in Above(t) : r \notin Below(r) \/ (t \in MadeOf(r) /\ r \notin Below(t))
Exact(p) ==
  \A t \in ToSet(TypeSpecs[p]) :
    /\ t \in inferred[p] => Above(t) # {}
    /\ Above(t) # {} /\ t \notin Roots => t \in inferred[p]
    /\ IsSure(t) => t \in inferred[p]

PassInv ==
  /\ DOMAIN inferred = Package /\ waiting \subseteq Package
  /\ \A p \in Package : inferred[p] \subseteq ToSet(TypeSpecs[p])
  /\ \A p \in waiting : inferred[p] = {}
  /\ \A p \in Done : Imports[p] \subseteq Done /\ Exact(p)
  /\ phase # "idle" => /\ pkg \notin waiting
                       /\ Imports[pkg] \subseteq Done
                       /\ graph = CreateObjectGraph(pkg)
  /\ phase = "sort" => inferred[pkg] = {}
  /\ phase # "sweep" => seen = {} /\ stack = <<>>

(* What the sweep starts from: the facts of its own pass are of objects it *)
(* has seen.                                                               *)
Others == UNION {inferred[q] : q \in Package \ {pkg}}
Starts(o) == ConfiguredSource(o) \/ Tagged(o) \/ o \in Others

(* An object the sweep has started from: nothing that comes after it in    *)
(* the order, and before it in the sweep, is a start that leads to it.     *)
WasOrigin(t) ==
  /\ Starts(t)
  /\ \E k \in DOMAIN order :
       /\ order[k] = t
       /\ \A j \in DOMAIN order : j > k /\ Starts(order[j]) => t \notin LeadsTo(order[j])

(* The sweep has seen all the starts that it has come to, and all that     *)
(* these lead to, but for what the stack leads to.                         *)
SeenInv ==
  /\ DOMAIN graph \subseteq Found
  /\ left \in Seq(visited) /\ Len(left) <= Len(order)
  /\ \A i \in DOMAIN left : left[i] = order[i]
  /\ stack \in Seq(seen)
  /\ \A x \in seen : x \in ToSet(stack) \/ Definitions(x) \subseteq seen
  /\ \A k \in DOMAIN order : k > Len(left) /\ Starts(order[k]) => order[k] \in seen

(* What it has seen is inferred, or will be when it is taken from the      *)
(* stack, unless the sweep started from it.                                *)
InferInv ==
  /\ stack # <<>> =>
       \E x : /\ origin = <<x>> /\ x \in seen /\ Starts(x)
              /\ \A y \in ToSet(stack) : y = x \/ y \in LeadsTo(x)
  /\ \A t \in seen \cap ToSet(TypeSpecs[pkg]) :
       \/ t \in inferred[pkg]
       \/ t \in ToSet(stack) /\ <<t>> # origin
       \/ WasOrigin(t)
  /\ \A t \in inferred[pkg] : t \in seen /\ \E x : x # t /\ Starts(x) /\ t \in LeadsTo(x)

SweepInv == phase = "sweep" => SeenInv /\ InferInv

IInv == PhaseInv /\ VisitedInv /\ StackInv /\ OrderInv

-----------------------------------------------------------------------------
(* What LeadsTo computes: the least set that holds the definitions of an   *)
(* object and, with each of its members, their definitions.                *)

LEMMA ToSetFinite ==
  ASSUME NEW V, NEW s \in Seq(V)
  PROVE  IsFiniteSet(ToSet(s)) /\ ToSet(s) \subseteq V
<1>1. Len(s) \in Nat /\ DOMAIN s = 1..Len(s) /\ \A i \in DOMAIN s : s[i] \in V
  OBVIOUS
<1>2. s \in Surjection(1..Len(s), ToSet(s))
  BY <1>1 DEF Surjection, ToSet
<1>3. IsFiniteSet(1..Len(s))
  BY <1>1, FS_Interval
<1> QED BY <1>1, <1>2, <1>3, FS_Surjection DEF ToSet

LEMMA TargetsFinite ==
  ASSUME PhaseInv
  PROVE  IsFiniteSet(Targets)
<1>1. CASE phase = "idle"
  <2>1. graph = <<>> /\ DOMAIN graph = {}
    BY <1>1 DEF PhaseInv
  <2>2. Targets = {}
    BY <2>1 DEF Targets
  <2> QED BY <2>2, FS_EmptySet
<1>2. CASE phase # "idle"
  <2>1. pkg \in DOMAIN Imports /\ Targets \subseteq ToSet(TypeSpecs[pkg])
    BY <1>2 DEF PhaseInv, Package
  <2>2. TypeSpecs[pkg] \in Seq((DOMAIN Types) \X {0})
    BY <2>1, SpecsAssumption
  <2> QED BY <2>1, <2>2, ToSetFinite, FS_Subset
<1> QED BY <1>1, <1>2

LEMMA DefinitionsIs ==
  \A o : Definitions(o) \subseteq Targets
BY DEF Definitions, Targets

LEMMA LeadsToIsHull ==
  ASSUME IsFiniteSet(Targets), NEW o
  PROVE  LeadsTo(o) = Hull([x \in Targets |-> Definitions(x)], Targets, Definitions(o))
<1> DEFINE D == [x \in Targets |-> Definitions(x)]
           Grown(g) == g = [met \in SUBSET Targets |->
                              IF met \cup UNION {Definitions(x) : x \in met} = met THEN met
                              ELSE g[met \cup UNION {Definitions(x) : x \in met}]]
<1>1. D \in [Targets -> SUBSET Targets]
  BY DefinitionsIs
<1>2. LeadsTo(o) = (CHOOSE g : Grown(g))[Definitions(o)]
  BY DEF LeadsTo, Closed, Targets
<1>3. \A met \in SUBSET Targets : met \cup UNION {Definitions(x) : x \in met} = Grow(D, met)
  BY DEF Grow
<1>4. \A g : Grown(g) <=> IsGrown(g, D, Targets)
  <2> HIDE DEF D
  <2>1. ASSUME NEW g
        PROVE  [met \in SUBSET Targets |->
                  IF met \cup UNION {Definitions(x) : x \in met} = met THEN met
                  ELSE g[met \cup UNION {Definitions(x) : x \in met}]]
               = [met \in SUBSET Targets |-> IF Grow(D, met) = met THEN met ELSE g[Grow(D, met)]]
    BY <1>3
  <2> QED BY <2>1 DEF IsGrown
<1> HIDE DEF D, Grown
<1>5. \E g : Grown(g)
  BY <1>1, <1>4, HullIsGrown
<1>6. Grown(CHOOSE g : Grown(g))
  BY <1>5
<1>7. Definitions(o) \in SUBSET Targets
  BY DefinitionsIs
<1>8. (CHOOSE g : Grown(g))[Definitions(o)] = Hull(D, Targets, Definitions(o))
  BY <1>1, <1>4, <1>6, <1>7, GrownIsHull
<1> QED BY <1>2, <1>8 DEF D

LEMMA LeadsToFacts ==
  ASSUME IsFiniteSet(Targets), NEW o
  PROVE  /\ LeadsTo(o) \subseteq Targets
         /\ Definitions(o) \subseteq LeadsTo(o)
         /\ \A x \in LeadsTo(o) : Definitions(x) \subseteq LeadsTo(o)
         /\ \A T \in SUBSET Targets :
              Definitions(o) \subseteq T /\ (\A x \in T : Definitions(x) \subseteq T)
                => LeadsTo(o) \subseteq T
<1> DEFINE D == [x \in Targets |-> Definitions(x)]
<1>1. D \in [Targets -> SUBSET Targets] /\ \A x \in Targets : D[x] = Definitions(x)
  BY DefinitionsIs
<1>2. LeadsTo(o) = Hull(D, Targets, Definitions(o))
  BY LeadsToIsHull
<1>3. Definitions(o) \in SUBSET Targets
  BY DefinitionsIs
<1> HIDE DEF D
<1>4. /\ Definitions(o) \subseteq LeadsTo(o)
      /\ LeadsTo(o) \subseteq Targets
      /\ \A x \in LeadsTo(o) : D[x] \subseteq LeadsTo(o)
  BY <1>1, <1>2, <1>3, HullClosed
<1>5. ASSUME NEW T \in SUBSET Targets, Definitions(o) \subseteq T,
             \A x \in T : Definitions(x) \subseteq T
      PROVE  LeadsTo(o) \subseteq T
  <2>1. \A x \in T : D[x] \subseteq T
    BY <1>1, <1>5
  <2> QED BY <1>2, <1>5, <2>1, HullLeast
<1> QED BY <1>1, <1>4, <1>5

LEMMA LeadsToTransitive ==
  ASSUME IsFiniteSet(Targets), NEW o, NEW x \in LeadsTo(o)
  PROVE  LeadsTo(x) \subseteq LeadsTo(o)
<1>1. /\ LeadsTo(o) \in SUBSET Targets
      /\ Definitions(x) \subseteq LeadsTo(o)
      /\ \A y \in LeadsTo(o) : Definitions(y) \subseteq LeadsTo(o)
  BY LeadsToFacts
<1> QED BY <1>1, LeadsToFacts

(* Every place but the last has a next one: the places of a finite set of  *)
(* naturals are numbered without a gap.                                    *)
LEMMA RankIs ==
  ASSUME NEW P \in SUBSET Nat, IsFiniteSet(P)
  PROVE  /\ Cardinality(P) \in Nat
         /\ \A k \in P : Cardinality({m \in P : m <= k}) \in 1..Cardinality(P)
         /\ \A j, k \in P :
              Cardinality({m \in P : m <= j}) = Cardinality({m \in P : m <= k}) => j = k
         /\ \A i \in 1..Cardinality(P) : \E k \in P : Cardinality({m \in P : m <= k}) = i
<1> DEFINE n == Cardinality(P)
           Up(k) == {m \in P : m <= k}
           rank == [k \in P |-> Cardinality(Up(k))]
<1>1. n \in Nat
  BY FS_CardinalityType
<1>2. ASSUME NEW k \in P
      PROVE  IsFiniteSet(Up(k)) /\ Cardinality(Up(k)) \in 1..n
  <2>1. Up(k) \in SUBSET P /\ k \in Up(k)
    OBVIOUS
  <2>2. IsFiniteSet(Up(k)) /\ Cardinality(Up(k)) <= n
    BY <2>1, FS_Subset
  <2>3. Cardinality(Up(k)) \in Nat /\ Cardinality(Up(k)) # 0
    BY <2>1, <2>2, FS_CardinalityType, FS_EmptySet
  <2> HIDE DEF Up, n
  <2> QED BY <1>1, <2>2, <2>3
<1>3. ASSUME NEW j \in P, NEW k \in P, j < k
      PROVE  Cardinality(Up(j)) # Cardinality(Up(k))
  <2>1. j \in Nat /\ k \in Nat
    OBVIOUS
  <2>2. \A m \in P : m \in Nat /\ (m <= j => m <= k)
    BY <1>3, <2>1
  <2>3. Up(j) \in SUBSET Up(k)
    BY <2>2
  <2>4. k \in Up(k) /\ k \notin Up(j)
    BY <1>3, <2>1
  <2> QED BY <1>2, <2>3, <2>4, FS_Subset
<1>4. \A j, k \in P : Cardinality(Up(j)) = Cardinality(Up(k)) => j = k
  <2>1. \A j, k \in P : j = k \/ j < k \/ k < j
    OBVIOUS
  <2> QED BY <1>3, <2>1
<1> HIDE DEF Up
<1>5. rank \in Injection(P, 1..n)
  BY <1>2, <1>4 DEF Injection, IsInjective
<1>6. IsFiniteSet(1..n) /\ Cardinality(1..n) = n
  BY <1>1, FS_Interval
<1>7. rank \in Surjection(P, 1..n)
  BY <1>5, <1>6, FS_Injection
<1>8. \A i \in 1..n : \E k \in P : Cardinality(Up(k)) = i
  BY <1>7 DEF Surjection
<1> QED BY <1>1, <1>2, <1>4, <1>8 DEF Up

(* Some types of the package in order are these types.                     *)
LEMMA InOrderIs ==
  ASSUME pkg \in Package, NEW S, S \subseteq ToSet(TypeSpecs[pkg])
  PROVE  /\ InOrder(S) \in Seq(S)
         /\ ToSet(InOrder(S)) = S
         /\ S # {} => InOrder(S)[1] \in S
<1> DEFINE specs == TypeSpecs[pkg]
           P == {k \in DOMAIN specs : specs[k] \in S}
           n == Cardinality(P)
           Nth(i) == CHOOSE k \in P : Cardinality({m \in P : m <= k}) = i
           s == [i \in 1..n |-> specs[Nth(i)]]
<1>1. specs \in Seq((DOMAIN Types) \X {0})
  BY SpecsAssumption DEF Package
<1>2. Len(specs) \in Nat /\ DOMAIN specs = 1..Len(specs)
  BY <1>1
<1>3. P \in SUBSET Nat /\ IsFiniteSet(P)
  <2>1. IsFiniteSet(1..Len(specs))
    BY <1>2, FS_Interval
  <2>2. P \in SUBSET (1..Len(specs))
    BY <1>2
  <2> QED BY <2>1, <2>2, FS_Subset
<1>4. InOrder(S) = s
  BY DEF InOrder
<1> HIDE DEF P
<1>5. /\ n \in Nat
      /\ \A k \in P : Cardinality({m \in P : m <= k}) \in 1..n
      /\ \A j, k \in P :
           Cardinality({m \in P : m <= j}) = Cardinality({m \in P : m <= k}) => j = k
      /\ \A i \in 1..n : \E k \in P : Cardinality({m \in P : m <= k}) = i
  BY <1>3, RankIs
<1>6. ASSUME NEW i \in 1..n
      PROVE  Nth(i) \in P /\ Cardinality({m \in P : m <= Nth(i)}) = i
  <2>1. \E k \in P : Cardinality({m \in P : m <= k}) = i
    BY <1>5
  <2> QED BY <2>1
<1>7. \A k \in P : \E i \in 1..n : Nth(i) = k
  <2> TAKE k \in P
  <2> DEFINE r == Cardinality({m \in P : m <= k})
  <2>1. r \in 1..n
    BY <1>5
  <2>2. Nth(r) \in P /\ Cardinality({m \in P : m <= Nth(r)}) = r
    BY <1>6, <2>1
  <2>3. Nth(r) = k
    <3> HIDE DEF Nth
    <3> QED BY <1>5, <2>2
  <2> QED BY <2>1, <2>3
<1> HIDE DEF n, Nth
<1>8. \A k \in P : specs[k] \in S
  BY DEF P
<1>9. s \in Seq(S)
  <2>1. s \in [1..n -> S]
    BY <1>6, <1>8
  <2> HIDE DEF s
  <2> QED BY <1>5, <2>1
<1>10. DOMAIN s = 1..n /\ \A i \in 1..n : s[i] = specs[Nth(i)]
  OBVIOUS
<1> HIDE DEF s
<1>11. \A x \in S : \E i \in 1..n : s[i] = x
  <2> TAKE x \in S
  <2>1. PICK k \in DOMAIN specs : specs[k] = x
    BY DEF ToSet
  <2>2. k \in P
    BY <2>1 DEF P
  <2> QED BY <1>7, <1>10, <2>1, <2>2
<1>12. ToSet(s) = S
  <2>1. ToSet(s) = {s[i] : i \in 1..n}
    BY <1>10 DEF ToSet
  <2>2. \A i \in 1..n : s[i] \in S
    BY <1>6, <1>8, <1>10
  <2> QED BY <1>11, <2>1, <2>2
<1>13. S # {} => s[1] \in S
  <2> SUFFICES ASSUME S # {} PROVE 1 \in 1..n
    BY <1>6, <1>8, <1>10
  <2> QED BY <1>5, <1>11
<1> QED BY <1>4, <1>9, <1>12, <1>13

-----------------------------------------------------------------------------
(* What types are made of, over all packages, and what of it the graph of  *)
(* one package knows.                                                      *)

LEMMA DefinedFinite ==
  IsFiniteSet(Defined)
<1> DEFINE specs == [p \in Package |-> ToSet(TypeSpecs[p])]
           S == {specs[p] : p \in Package}
<1>1. \A p \in Package : IsFiniteSet(specs[p])
  BY SpecsAssumption, ToSetFinite DEF Package
<1>2. specs \in Surjection(Package, S)
  BY DEF Surjection
<1>3. IsFiniteSet(S)
  BY <1>2, ImportsAssumption, FS_Surjection
<1>4. IsFiniteSet(UNION S)
  BY <1>1, <1>3, FS_UNION
<1>5. UNION S = Defined
  BY DEF Defined
<1> QED BY <1>4, <1>5

LEMMA BelowIsHull ==
  ASSUME NEW o
  PROVE  Below(o) = Hull([x \in Defined |-> MadeOf(x)], Defined, MadeOf(o))
<1> DEFINE D == [x \in Defined |-> MadeOf(x)]
           Grown(g) == g = [met \in SUBSET Defined |->
                              IF met \cup UNION {MadeOf(x) : x \in met} = met THEN met
                              ELSE g[met \cup UNION {MadeOf(x) : x \in met}]]
<1>1. D \in [Defined -> SUBSET Defined]
  BY DEF MadeOf
<1>2. Below(o) = (CHOOSE g : Grown(g))[MadeOf(o)]
  BY DEF Below, Closed, MadeOf
<1>3. \A met \in SUBSET Defined : met \cup UNION {MadeOf(x) : x \in met} = Grow(D, met)
  BY DEF Grow
<1>4. \A g : Grown(g) <=> IsGrown(g, D, Defined)
  <2> HIDE DEF D
  <2>1. ASSUME NEW g
        PROVE  [met \in SUBSET Defined |->
                  IF met \cup UNION {MadeOf(x) : x \in met} = met THEN met
                  ELSE g[met \cup UNION {MadeOf(x) : x \in met}]]
               = [met \in SUBSET Defined |-> IF Grow(D, met) = met THEN met ELSE g[Grow(D, met)]]
    BY <1>3
  <2> QED BY <2>1 DEF IsGrown
<1> HIDE DEF D, Grown
<1>5. \E g : Grown(g)
  BY <1>1, <1>4, HullIsGrown
<1>6. Grown(CHOOSE g : Grown(g))
  BY <1>5
<1>7. MadeOf(o) \in SUBSET Defined
  BY DEF MadeOf
<1>8. (CHOOSE g : Grown(g))[MadeOf(o)] = Hull(D, Defined, MadeOf(o))
  BY <1>1, <1>4, <1>6, <1>7, DefinedFinite, GrownIsHull
<1> QED BY <1>2, <1>8 DEF D

LEMMA BelowFacts ==
  ASSUME NEW o
  PROVE  /\ Below(o) \subseteq Defined
         /\ MadeOf(o) \subseteq Below(o)
         /\ \A x \in Below(o) : MadeOf(x) \subseteq Below(o)
         /\ \A T \in SUBSET Defined :
              MadeOf(o) \subseteq T /\ (\A x \in T : MadeOf(x) \subseteq T) => Below(o) \subseteq T
<1> DEFINE D == [x \in Defined |-> MadeOf(x)]
<1>1. D \in [Defined -> SUBSET Defined] /\ \A x \in Defined : D[x] = MadeOf(x)
  BY DEF MadeOf
<1>2. Below(o) = Hull(D, Defined, MadeOf(o))
  BY BelowIsHull
<1>3. MadeOf(o) \in SUBSET Defined
  BY DEF MadeOf
<1> HIDE DEF D
<1>4. /\ MadeOf(o) \subseteq Below(o)
      /\ Below(o) \subseteq Defined
      /\ \A x \in Below(o) : D[x] \subseteq Below(o)
  BY <1>1, <1>2, <1>3, HullClosed
<1>5. ASSUME NEW T \in SUBSET Defined, MadeOf(o) \subseteq T,
             \A x \in T : MadeOf(x) \subseteq T
      PROVE  Below(o) \subseteq T
  <2>1. \A x \in T : D[x] \subseteq T
    BY <1>1, <1>5
  <2> QED BY <1>2, <1>5, <2>1, HullLeast
<1> QED BY <1>1, <1>4, <1>5

LEMMA BelowTransitive ==
  ASSUME NEW o, NEW x \in Below(o)
  PROVE  Below(x) \subseteq Below(o)
<1>1. /\ Below(o) \in SUBSET Defined
      /\ MadeOf(x) \subseteq Below(o)
      /\ \A y \in Below(o) : MadeOf(y) \subseteq Below(o)
  BY BelowFacts
<1> QED BY <1>1, BelowFacts

(* A pass has started.                                                     *)
InPass == PhaseInv /\ phase # "idle" /\ graph = CreateObjectGraph(pkg)

LEMMA GraphIs ==
  ASSUME InPass
  PROVE  /\ pkg \in Package
         /\ \A o : Definitions(o) = MadeOf(o) \cap ToSet(TypeSpecs[pkg])
         /\ \A o : Definitions(o) # {} => o \in DOMAIN graph
         /\ \A o \in DOMAIN graph : \E t \in ToSet(TypeSpecs[pkg]) : o \in FindObjects(Types[t[1]].def)
         /\ Targets \subseteq ToSet(TypeSpecs[pkg])
<1> DEFINE specs == ToSet(TypeSpecs[pkg])
<1>1. pkg \in Package /\ Targets \subseteq specs
  BY DEF InPass, PhaseInv
<1>2. graph = [o \in UNION {FindObjects(Types[t[1]].def) : t \in specs} |->
                 {t \in specs : o \in FindObjects(Types[t[1]].def)}]
  BY DEF InPass, CreateObjectGraph
<1>3. specs \subseteq Defined
  BY <1>1 DEF Defined
<1>4. ASSUME NEW o
      PROVE  /\ Definitions(o) = MadeOf(o) \cap specs
             /\ Definitions(o) # {} => o \in DOMAIN graph
  <2>1. MadeOf(o) \cap specs = {t \in specs : o \in FindObjects(Types[t[1]].def)}
    BY <1>3 DEF MadeOf
  <2>2. CASE o \in DOMAIN graph
    BY <1>2, <2>1, <2>2 DEF Definitions
  <2>3. CASE o \notin DOMAIN graph
    <3>1. \A t \in specs : o \notin FindObjects(Types[t[1]].def)
      BY <1>2, <2>3
    <3> QED BY <2>1, <2>3, <3>1 DEF Definitions
  <2> QED BY <2>2, <2>3
<1>5. \A o \in DOMAIN graph : \E t \in specs : o \in FindObjects(Types[t[1]].def)
  BY <1>2
<1> QED BY <1>1, <1>4, <1>5

LEMMA LeadsToBelow ==
  ASSUME InPass, NEW o
  PROVE  LeadsTo(o) \subseteq Below(o)
<1> DEFINE T == Below(o) \cap Targets
<1>1. /\ T \in SUBSET Targets
      /\ Definitions(o) \subseteq T
      /\ \A x \in T : Definitions(x) \subseteq T
  BY BelowFacts, GraphIs, DefinitionsIs
<1>2. IsFiniteSet(Targets)
  BY TargetsFinite DEF InPass
<1> HIDE DEF T
<1>3. LeadsTo(o) \subseteq T
  BY <1>1, <1>2, LeadsToFacts
<1> QED BY <1>3 DEF T

(* A type of the package that is made of r is so through a definition of   *)
(* the package from r itself, or from another package's type.              *)
LEMMA EntersPackage ==
  ASSUME InPass, NEW r, NEW t \in Below(r), t \in ToSet(TypeSpecs[pkg])
  PROVE  \E x : /\ t \in LeadsTo(x)
                /\ x \in DOMAIN graph
                /\ x = r \/ (x \in Below(r) /\ x \notin ToSet(TypeSpecs[pkg]))
<1> DEFINE specs == ToSet(TypeSpecs[pkg])
           Enters(x) == x = r \/ (x \in Below(r) /\ x \notin specs)
           T == {y \in Below(r) : y \in specs => \E x : y \in LeadsTo(x) /\ Enters(x)}
<1>0. IsFiniteSet(Targets)
  BY TargetsFinite DEF InPass
<1>1. T \in SUBSET Defined
  BY BelowFacts
<1>2. MadeOf(r) \subseteq T
  <2> SUFFICES ASSUME NEW y \in MadeOf(r), y \in specs
               PROVE  \E x : y \in LeadsTo(x) /\ Enters(x)
    BY BelowFacts
  <2>1. y \in LeadsTo(r)
    BY <1>0, GraphIs, LeadsToFacts
  <2> QED BY <2>1
<1>3. ASSUME NEW y \in T PROVE MadeOf(y) \subseteq T
  <2> SUFFICES ASSUME NEW z \in MadeOf(y), z \in specs
               PROVE  \E x : z \in LeadsTo(x) /\ Enters(x)
    BY BelowFacts
  <2>1. z \in Definitions(y)
    BY GraphIs
  <2>2. CASE y \in specs
    <3>1. PICK x : y \in LeadsTo(x) /\ Enters(x)
      BY <2>2
    <3>2. z \in LeadsTo(x)
      BY <1>0, <2>1, <3>1, LeadsToFacts
    <3> QED BY <3>1, <3>2
  <2>3. CASE y \notin specs
    <3>1. z \in LeadsTo(y)
      BY <1>0, <2>1, LeadsToFacts
    <3> QED BY <2>3, <3>1
  <2> QED BY <2>2, <2>3
<1>4. t \in T
  <2> HIDE DEF T
  <2> QED BY <1>1, <1>2, <1>3, BelowFacts
<1>5. PICK x : t \in LeadsTo(x) /\ Enters(x)
  BY <1>4
<1>6. x \in DOMAIN graph
  <2> SUFFICES ASSUME Definitions(x) = {} PROVE FALSE
    BY GraphIs
  <2>1. LeadsTo(x) \subseteq {}
    BY <1>0, LeadsToFacts
  <2> QED BY <1>5, <2>1
<1> QED BY <1>5, <1>6

-----------------------------------------------------------------------------
(* The invariant holds initially and at every step.                        *)

LEMMA SameGraph ==
  ASSUME graph' = graph
  PROVE  /\ Targets' = Targets
         /\ \A o : Definitions(o)' = Definitions(o)
         /\ \A o : LeadsTo(o)' = LeadsTo(o)
BY DEF Targets, Definitions, LeadsTo, Closed

(* Between two sorts there is nothing to say.                              *)
LEMMA NothingVisited ==
  ASSUME visited = {}, order = <<>>, dfs = <<>>
  PROVE  VisitedInv /\ StackInv /\ OrderInv
<1>1. DOMAIN order = {} /\ DOMAIN dfs = {} /\ Found = {} /\ OnStack = {}
  BY DEF Found, OnStack, ToSet
<1>2. order \in Seq(visited) /\ dfs \in Seq(visited \X SUBSET Targets)
  OBVIOUS
<1> QED BY <1>1, <1>2 DEF VisitedInv, StackInv, OrderInv, Before

LEMMA InitInv ==
  ASSUME InferInit
  PROVE  IInv
<1>1. PhaseInv
  BY DEF InferInit, PhaseInv
<1>2. visited = {} /\ order = <<>> /\ dfs = <<>>
  BY DEF InferInit
<1> QED BY <1>1, <1>2, NothingVisited DEF IInv

LEMMA SortSame ==
  ASSUME IInv, UNCHANGED <<graph, visited, order, dfs>>
  PROVE  VisitedInv' /\ StackInv' /\ OrderInv'
<1>1. /\ Targets' = Targets
      /\ \A o : Definitions(o)' = Definitions(o)
      /\ \A o : LeadsTo(o)' = LeadsTo(o)
  BY SameGraph
<1>2. Found' = Found /\ OnStack' = OnStack
  BY DEF Found, OnStack, ToSet
<1> QED BY <1>1, <1>2 DEF IInv, VisitedInv, StackInv, OrderInv, Before

LEMMA StartPassInv ==
  ASSUME IInv, NEW p \in Package, StartPass(p)
  PROVE  IInv'
<1>1. visited' = {} /\ order' = <<>> /\ dfs' = <<>>
  BY DEF IInv, PhaseInv, StartPass
<1>2. PhaseInv'
  <2>1. graph' = CreateObjectGraph(p) /\ pkg' = p /\ phase' = "sort"
    BY DEF StartPass
  <2>2. \A k \in DOMAIN graph' : graph'[k] \subseteq ToSet(TypeSpecs[p])
    BY <2>1 DEF CreateObjectGraph
  <2>3. Targets' \subseteq ToSet(TypeSpecs[pkg'])
    BY <2>1, <2>2 DEF Targets
  <2>4. pkg' \in Package
    BY <2>1
  <2> QED BY <2>1, <2>3, <2>4 DEF PhaseInv, Package
<1>3. VisitedInv' /\ StackInv' /\ OrderInv'
  <2>1. DOMAIN order' = {} /\ DOMAIN dfs' = {} /\ Found' = {} /\ OnStack' = {}
    BY <1>1 DEF Found, OnStack, ToSet
  <2>2. order' \in Seq(visited') /\ dfs' \in Seq(visited' \X SUBSET Targets')
    BY <1>1
  <2> QED BY <1>1, <2>1, <2>2 DEF VisitedInv, StackInv, OrderInv, Before
<1> QED BY <1>2, <1>3 DEF IInv

LEMMA VisitKeyInv ==
  ASSUME IInv, NEW o, VisitKey(o)
  PROVE  IInv'
<1>1. /\ phase = "sort" /\ dfs = <<>> /\ o \notin visited
      /\ visited' = visited \cup {o} /\ dfs' = <<<<o, Definitions(o)>>>>
      /\ UNCHANGED <<phase, pkg, graph, order>>
  BY DEF VisitKey
<1>2. /\ Targets' = Targets
      /\ \A x : Definitions(x)' = Definitions(x)
      /\ \A x : LeadsTo(x)' = LeadsTo(x)
  BY <1>1, SameGraph
<1>3. Definitions(o) \in SUBSET Targets
  BY DefinitionsIs
<1>4. /\ DOMAIN dfs' = {1} /\ dfs'[1] = <<o, Definitions(o)>>
      /\ dfs'[1][1] = o /\ dfs'[1][2] = Definitions(o)
  BY <1>1
<1>5. OnStack = {} /\ OnStack' = {o} /\ Found' = Found
  BY <1>1, <1>4 DEF OnStack, Found, ToSet
<1>6. PhaseInv'
  BY <1>1, <1>2 DEF IInv, PhaseInv
<1>7. VisitedInv'
  <2>1. order \in Seq(visited')
    BY <1>1 DEF IInv, VisitedInv
  <2>2. <<o, Definitions(o)>> \in visited' \X SUBSET Targets
    BY <1>1, <1>3
  <2>3. dfs' \in Seq(visited' \X SUBSET Targets)
    BY <1>1, <2>2
  <2>4. \A k, m \in DOMAIN dfs' : k = m
    BY <1>4
  <2> QED BY <1>1, <1>2, <1>5, <2>1, <2>3, <2>4 DEF IInv, VisitedInv
<1>8. StackInv'
  <2>1. \A k, m \in DOMAIN dfs' : ~ (k < m)
    BY <1>4
  <2>2. \A x \in Found : Definitions(x) \subseteq visited'
    BY <1>1 DEF IInv, StackInv
  <2> QED BY <1>2, <1>4, <1>5, <2>1, <2>2 DEF StackInv
<1>9. OrderInv'
  BY <1>1, <1>2 DEF IInv, OrderInv, Before
<1> QED BY <1>6, <1>7, <1>8, <1>9 DEF IInv

(* The innermost visit.                                                    *)
LEMMA TopIs ==
  ASSUME IInv, dfs # <<>>
  PROVE  /\ Head(dfs) = dfs[1] /\ dfs \in Seq(visited \X SUBSET Targets)
         /\ Len(dfs) \in Nat \ {0} /\ DOMAIN dfs = 1..Len(dfs)
         /\ dfs[1] = <<dfs[1][1], dfs[1][2]>>
         /\ dfs[1][1] \in visited /\ dfs[1][2] \subseteq Targets
         /\ dfs[1][1] \in OnStack
         /\ dfs[1][2] \subseteq Definitions(dfs[1][1])
         /\ Definitions(dfs[1][1]) \subseteq visited \cup dfs[1][2]
<1>1. dfs \in Seq(visited \X SUBSET Targets)
  BY DEF IInv, VisitedInv
<1>2. /\ Head(dfs) = dfs[1] /\ dfs[1] \in visited \X SUBSET Targets
      /\ Len(dfs) \in Nat \ {0} /\ DOMAIN dfs = 1..Len(dfs) /\ 1 \in DOMAIN dfs
  BY <1>1
<1>3. dfs[1][1] \in OnStack
  BY <1>2 DEF OnStack
<1> QED BY <1>1, <1>2, <1>3 DEF IInv, StackInv

(* The innermost visit goes on to the first definition not visited.        *)
LEMMA DescendInv ==
  ASSUME IInv, VisitNext, dfs[1][2] \ visited # {}
  PROVE  IInv'
<1> DEFINE o == dfs[1][1]
           new == dfs[1][2] \ visited
           n == InOrder(new)[1]
           L == Len(dfs)
           a == <<n, Definitions(n)>>
           b == <<o, new \ {n}>>
<1>1. phase = "sort" /\ dfs # <<>>
  BY DEF VisitNext
<1>2. /\ dfs \in Seq(visited \X SUBSET Targets)
      /\ L \in Nat \ {0} /\ DOMAIN dfs = 1..L
      /\ o \in visited /\ dfs[1][2] \subseteq Targets
      /\ o \in OnStack
      /\ dfs[1][2] \subseteq Definitions(o) /\ Definitions(o) \subseteq visited \cup dfs[1][2]
      /\ Head(dfs) = dfs[1]
  BY <1>1, TopIs
<1>3. /\ visited' = visited \cup {n}
      /\ dfs' = <<a, b>> \o Tail(dfs)
      /\ UNCHANGED <<phase, pkg, graph, order>>
  BY <1>1, <1>2 DEF VisitNext
<1>4. n \in new
  <2>1. pkg \in Package /\ new \subseteq ToSet(TypeSpecs[pkg])
    BY <1>1, <1>2 DEF IInv, PhaseInv
  <2> HIDE DEF new
  <2> QED BY <2>1, InOrderIs DEF new
<1>5. /\ Targets' = Targets
      /\ \A x : Definitions(x)' = Definitions(x)
      /\ \A x : LeadsTo(x)' = LeadsTo(x)
  BY <1>3, SameGraph
<1>6. n \notin visited /\ n \in Definitions(o) /\ new \ {n} \subseteq Targets
  BY <1>2, <1>4
<1>7. a \in visited' \X SUBSET Targets /\ b \in visited' \X SUBSET Targets
  BY <1>2, <1>3, <1>6, DefinitionsIs
<1>8. dfs \in Seq(visited' \X SUBSET Targets)
  <2>1. dfs \in [1..L -> visited \X SUBSET Targets]
    BY <1>2
  <2>2. dfs \in [1..L -> visited' \X SUBSET Targets]
    BY <1>3, <2>1
  <2> QED BY <1>2, <2>2
<1>9. /\ dfs' \in Seq(visited' \X SUBSET Targets)
      /\ DOMAIN dfs' = 1..(L + 1)
      /\ dfs'[1] = a /\ dfs'[2] = b
      /\ \A k \in 3..(L + 1) : dfs'[k] = dfs[k - 1]
  <2>1. Tail(dfs) \in Seq(visited' \X SUBSET Targets) /\ Len(Tail(dfs)) = L - 1
        /\ \A k \in 1..(L - 1) : Tail(dfs)[k] = dfs[k + 1]
    BY <1>1, <1>8
  <2> HIDE DEF a, b, L
  <2>2. dfs' \in Seq(visited' \X SUBSET Targets) /\ Len(dfs') = L + 1
    BY <1>2, <1>3, <1>7, <2>1
  <2> QED BY <1>2, <1>3, <2>1, <2>2
<1>10. a[1] = n /\ a[2] = Definitions(n) /\ b[1] = o /\ b[2] = new \ {n}
  OBVIOUS
(* The first components of the new stack are those of the old, and n.      *)
<1>11. /\ dfs'[1][1] = n
       /\ \A k \in 2..(L + 1) : k - 1 \in DOMAIN dfs /\ dfs'[k][1] = dfs[k - 1][1]
  <2>1. ASSUME NEW k \in 2..(L + 1)
        PROVE  k - 1 \in DOMAIN dfs /\ dfs'[k][1] = dfs[k - 1][1]
    <3>1. CASE k = 2
      BY <1>2, <1>9, <1>10, <3>1
    <3>2. CASE k # 2
      BY <1>2, <1>9, <3>2
    <3> QED BY <3>1, <3>2
  <2> QED BY <1>9, <1>10, <2>1
<1> HIDE DEF o, new, n, L, a, b
<1>12. OnStack' = OnStack \cup {n} /\ Found' = Found
  <2>1. \A k \in 1..L : k + 1 \in 2..(L + 1) /\ (k + 1) - 1 = k
    BY <1>2
  <2>2. OnStack \subseteq OnStack'
    <3>1. ASSUME NEW k \in DOMAIN dfs PROVE dfs[k][1] \in OnStack'
      <4>1. k + 1 \in 2..(L + 1) /\ (k + 1) - 1 = k /\ k + 1 \in DOMAIN dfs'
        BY <1>2, <1>9, <2>1
      <4>2. dfs'[k + 1][1] = dfs[k][1]
        BY <1>11, <4>1
      <4> QED BY <4>1, <4>2 DEF OnStack
    <3> QED BY <3>1 DEF OnStack
  <2>3. \A k \in 1..(L + 1) : k = 1 \/ k \in 2..(L + 1)
    BY <1>2
  <2>4. OnStack' \subseteq OnStack \cup {n}
    <3>1. ASSUME NEW k \in DOMAIN dfs' PROVE dfs'[k][1] \in OnStack \cup {n}
      <4>1. k = 1 \/ k \in 2..(L + 1)
        BY <1>9, <2>3
      <4>2. ASSUME k \in 2..(L + 1) PROVE dfs'[k][1] \in OnStack
        BY <1>11, <4>2 DEF OnStack
      <4> QED BY <1>11, <4>1, <4>2
    <3> QED BY <3>1 DEF OnStack
  <2>5. n \in OnStack'
    <3>1. 1 \in DOMAIN dfs'
      BY <1>2, <1>9
    <3> QED BY <1>11, <3>1 DEF OnStack
  <2> QED BY <1>3, <2>2, <2>4, <2>5 DEF Found
<1>13. PhaseInv'
  BY <1>1, <1>3, <1>5 DEF IInv, PhaseInv
<1>14. VisitedInv'
  <2>1. order \in Seq(visited')
    <3>1. order \in Seq(visited)
      BY DEF IInv, VisitedInv
    <3> QED BY <1>3, <3>1
  <2>2. ASSUME NEW k \in DOMAIN dfs', NEW m \in DOMAIN dfs', dfs'[k][1] = dfs'[m][1]
        PROVE  k = m
    <3>1. \A j \in DOMAIN dfs : dfs[j][1] # n
      BY <1>6 DEF IInv, VisitedInv, OnStack
    <3>2. \A i, j \in DOMAIN dfs : dfs[i][1] = dfs[j][1] => i = j
      BY DEF IInv, VisitedInv
    <3>3. (k = 1 \/ k \in 2..(L + 1)) /\ (m = 1 \/ m \in 2..(L + 1))
      BY <1>2, <1>9
    <3>4. CASE k = 1 \/ m = 1
      BY <1>11, <2>2, <3>1, <3>3, <3>4
    <3>5. CASE k \in 2..(L + 1) /\ m \in 2..(L + 1)
      <4>1. dfs[k - 1][1] = dfs[m - 1][1] /\ k - 1 \in DOMAIN dfs /\ m - 1 \in DOMAIN dfs
        BY <1>11, <2>2, <3>5
      <4>2. k - 1 = m - 1
        BY <3>2, <4>1
      <4> QED BY <1>2, <3>5, <4>2
    <3> QED BY <3>3, <3>4, <3>5
  <2>3. visited' = Found \cup OnStack' /\ Found \cap OnStack' = {}
    BY <1>3, <1>6, <1>12 DEF IInv, VisitedInv
  <2>4. \A i, j \in DOMAIN order : order[i] = order[j] => i = j
    BY DEF IInv, VisitedInv
  <2> QED BY <1>3, <1>5, <1>9, <1>12, <2>1, <2>2, <2>3, <2>4 DEF VisitedInv
<1>15. StackInv'
  <2>1. ASSUME NEW k \in DOMAIN dfs', NEW m \in DOMAIN dfs', k < m
        PROVE  dfs'[k][1] \in LeadsTo(dfs'[m][1])
    <3>1. m \in 2..(L + 1) /\ (k = 1 \/ k \in 2..(L + 1))
      BY <1>2, <1>9, <2>1
    <3>2. IsFiniteSet(Targets)
      BY TargetsFinite DEF IInv
    <3>3. m - 1 \in DOMAIN dfs /\ dfs'[m][1] = dfs[m - 1][1]
      BY <1>11, <3>1
    <3>4. CASE k = 1
      <4>1. n \in LeadsTo(o)
        BY <1>6, <3>2, LeadsToFacts
      <4>2. CASE m = 2
        <5>1. dfs'[m][1] = o
          BY <3>3, <4>2 DEF o
        <5> QED BY <1>11, <3>4, <4>1, <5>1
      <4>3. CASE m # 2
        <5>1. 1 < m - 1 /\ 1 \in DOMAIN dfs
          BY <1>2, <3>1, <4>3
        <5>2. o \in LeadsTo(dfs[m - 1][1])
          BY <3>3, <5>1 DEF IInv, StackInv, o
        <5>3. LeadsTo(o) \subseteq LeadsTo(dfs[m - 1][1])
          BY <3>2, <5>2, LeadsToTransitive
        <5> QED BY <1>11, <3>3, <3>4, <4>1, <5>3
      <4> QED BY <4>2, <4>3
    <3>5. CASE k \in 2..(L + 1)
      <4>1. k - 1 \in DOMAIN dfs /\ dfs'[k][1] = dfs[k - 1][1] /\ k - 1 < m - 1
        BY <1>2, <1>11, <2>1, <3>1, <3>5
      <4>2. dfs[k - 1][1] \in LeadsTo(dfs[m - 1][1])
        BY <3>3, <4>1 DEF IInv, StackInv
      <4> QED BY <3>3, <4>1, <4>2
    <3> QED BY <3>1, <3>4, <3>5
  <2>2. ASSUME NEW k \in DOMAIN dfs'
        PROVE  /\ dfs'[k][2] \subseteq Definitions(dfs'[k][1])
               /\ Definitions(dfs'[k][1]) \subseteq visited' \cup dfs'[k][2]
    <3>1. k = 1 \/ k = 2 \/ k \in 3..(L + 1)
      BY <1>2, <1>9
    <3>2. CASE k = 1
      BY <1>9, <1>10, <3>2
    <3>3. CASE k = 2
      <4>1. new \ {n} \subseteq Definitions(o) /\ Definitions(o) \subseteq visited' \cup (new \ {n})
        BY <1>2, <1>3 DEF new
      <4> QED BY <1>9, <1>10, <3>3, <4>1
    <3>4. CASE k \in 3..(L + 1)
      <4>1. dfs'[k] = dfs[k - 1] /\ k - 1 \in DOMAIN dfs
        BY <1>2, <1>9, <3>4
      <4> QED BY <1>3, <4>1 DEF IInv, StackInv
    <3> QED BY <3>1, <3>2, <3>3, <3>4
  <2>3. \A x \in Found : Definitions(x) \subseteq visited'
    BY <1>3 DEF IInv, StackInv
  <2> QED BY <1>5, <1>12, <2>1, <2>2, <2>3 DEF StackInv
<1>16. OrderInv'
  BY <1>3, <1>5 DEF IInv, OrderInv, Before
<1> QED BY <1>13, <1>14, <1>15, <1>16 DEF IInv

(* The innermost visit ends: if its object is outside cycles, then so far  *)
(* from it leads no way to the stack, and all it leads to has been found.  *)
LEMMA FinishInv ==
  ASSUME IInv, VisitNext, dfs[1][2] \ visited = {}
  PROVE  IInv'
<1> DEFINE o == dfs[1][1]
           L == Len(dfs)
           N == Len(order)
<1>1. phase = "sort" /\ dfs # <<>>
  BY DEF VisitNext
<1>2. /\ dfs \in Seq(visited \X SUBSET Targets)
      /\ L \in Nat \ {0} /\ DOMAIN dfs = 1..L
      /\ o \in visited /\ o \in OnStack
      /\ Definitions(o) \subseteq visited
      /\ Head(dfs) = dfs[1]
  BY <1>1, TopIs
<1>3. /\ order' = Append(order, o) /\ dfs' = Tail(dfs)
      /\ UNCHANGED <<phase, pkg, graph, visited>>
  BY <1>1, <1>2 DEF VisitNext
<1>4. /\ Targets' = Targets
      /\ \A x : Definitions(x)' = Definitions(x)
      /\ \A x : LeadsTo(x)' = LeadsTo(x)
  BY <1>3, SameGraph
<1>5. order \in Seq(visited) /\ N \in Nat /\ DOMAIN order = 1..N
  BY DEF IInv, VisitedInv
<1>6. /\ order' \in Seq(visited) /\ DOMAIN order' = 1..(N + 1)
      /\ order'[N + 1] = o
      /\ \A i \in 1..N : order'[i] = order[i]
  BY <1>2, <1>3, <1>5
<1>7. /\ dfs' \in Seq(visited \X SUBSET Targets) /\ DOMAIN dfs' = 1..(L - 1)
      /\ \A k \in 1..(L - 1) : dfs'[k] = dfs[k + 1]
  BY <1>1, <1>2, <1>3
<1>8. IsFiniteSet(Targets)
  BY TargetsFinite DEF IInv
<1>9. o \notin Found /\ visited = Found \cup OnStack
  BY <1>2 DEF IInv, VisitedInv
<1>10. \A x \in OnStack : x = o \/ o \in LeadsTo(x)
  <2> SUFFICES ASSUME NEW k \in DOMAIN dfs PROVE dfs[k][1] = o \/ o \in LeadsTo(dfs[k][1])
    BY DEF OnStack
  <2>1. CASE k = 1
    BY <2>1
  <2>2. CASE k # 1
    <3>1. 1 \in DOMAIN dfs /\ 1 < k
      BY <1>2, <2>2
    <3> QED BY <3>1 DEF IInv, StackInv
  <2> QED BY <2>1, <2>2
<1> HIDE DEF o, L, N
<1>11. Found' = Found \cup {o}
  <2>1. \A i \in 1..(N + 1) : i \in 1..N \/ i = N + 1
    BY <1>5
  <2>2. Found' \subseteq Found \cup {o}
    BY <1>5, <1>6, <2>1 DEF Found, ToSet
  <2>3. N + 1 \in DOMAIN order' /\ \A i \in 1..N : i \in DOMAIN order'
    BY <1>5, <1>6
  <2>4. Found \cup {o} \subseteq Found'
    BY <1>5, <1>6, <2>3 DEF Found, ToSet
  <2> QED BY <2>2, <2>4
<1>12. OnStack' = OnStack \ {o}
  <2>1. ASSUME NEW k \in DOMAIN dfs' PROVE dfs'[k][1] \in OnStack \ {o}
    <3>1. k + 1 \in DOMAIN dfs /\ 1 \in DOMAIN dfs /\ k + 1 # 1 /\ dfs'[k] = dfs[k + 1]
      BY <1>2, <1>7
    <3>2. dfs[k + 1][1] # o
      BY <3>1 DEF IInv, VisitedInv, o
    <3> QED BY <3>1, <3>2 DEF OnStack
  <2>2. ASSUME NEW k \in DOMAIN dfs, dfs[k][1] # o PROVE dfs[k][1] \in OnStack'
    <3>1. k # 1
      BY <2>2 DEF o
    <3>2. k - 1 \in 1..(L - 1) /\ (k - 1) + 1 = k
      BY <1>2, <3>1
    <3>3. k - 1 \in DOMAIN dfs' /\ dfs'[k - 1] = dfs[k]
      BY <1>7, <3>2
    <3> QED BY <3>3 DEF OnStack
  <2> QED BY <2>1, <2>2 DEF OnStack
<1>13. PhaseInv'
  BY <1>1, <1>3, <1>4 DEF IInv, PhaseInv
<1>14. VisitedInv'
  <2>1. ASSUME NEW i \in DOMAIN order', NEW j \in DOMAIN order', order'[i] = order'[j]
        PROVE  i = j
    <3>1. \A k \in 1..N : order[k] # o
      BY <1>5, <1>9 DEF Found, ToSet
    <3>2. (i \in 1..N \/ i = N + 1) /\ (j \in 1..N \/ j = N + 1)
      BY <1>5, <1>6
    <3>3. CASE i \in 1..N /\ j \in 1..N
      <4>1. order[i] = order[j]
        BY <1>6, <2>1, <3>3
      <4> QED BY <1>5, <3>3, <4>1 DEF IInv, VisitedInv
    <3> QED BY <1>6, <2>1, <3>1, <3>2, <3>3
  <2>2. ASSUME NEW k \in DOMAIN dfs', NEW m \in DOMAIN dfs', dfs'[k][1] = dfs'[m][1]
        PROVE  k = m
    <3>1. k + 1 \in DOMAIN dfs /\ m + 1 \in DOMAIN dfs /\ dfs[k + 1][1] = dfs[m + 1][1]
      BY <1>2, <1>7, <2>2
    <3>2. k + 1 = m + 1
      BY <3>1 DEF IInv, VisitedInv
    <3> QED BY <1>2, <1>7, <3>2
  <2>3. visited = Found' \cup OnStack' /\ Found' \cap OnStack' = {}
    BY <1>2, <1>9, <1>11, <1>12 DEF IInv, VisitedInv
  <2> QED BY <1>3, <1>4, <1>6, <1>7, <2>1, <2>2, <2>3 DEF VisitedInv
<1>15. StackInv'
  <2>1. \A k \in DOMAIN dfs' : k + 1 \in DOMAIN dfs /\ dfs'[k] = dfs[k + 1]
    BY <1>2, <1>7
  <2>2. ASSUME NEW k \in DOMAIN dfs', NEW m \in DOMAIN dfs', k < m
        PROVE  dfs'[k][1] \in LeadsTo(dfs'[m][1])
    <3>1. k + 1 < m + 1
      BY <1>2, <1>7, <2>2
    <3>2. dfs[k + 1][1] \in LeadsTo(dfs[m + 1][1])
      BY <2>1, <3>1 DEF IInv, StackInv
    <3> QED BY <2>1, <3>2
  <2>3. ASSUME NEW k \in DOMAIN dfs'
        PROVE  /\ dfs'[k][2] \subseteq Definitions(dfs'[k][1])
               /\ Definitions(dfs'[k][1]) \subseteq visited \cup dfs'[k][2]
    BY <2>1 DEF IInv, StackInv
  <2>4. \A x \in Found' : Definitions(x) \subseteq visited
    BY <1>2, <1>11 DEF IInv, StackInv
  <2> QED BY <1>3, <1>4, <2>2, <2>3, <2>4 DEF StackInv
<1>16. o \notin LeadsTo(o) => LeadsTo(o) \subseteq Found
  <2> SUFFICES ASSUME o \notin LeadsTo(o) PROVE LeadsTo(o) \subseteq Found
    OBVIOUS
  <2> DEFINE T == LeadsTo(o) \cap Found
  <2>1. /\ LeadsTo(o) \subseteq Targets /\ Definitions(o) \subseteq LeadsTo(o)
        /\ \A x \in LeadsTo(o) : Definitions(x) \subseteq LeadsTo(o)
    BY <1>8, LeadsToFacts
  <2>2. ASSUME NEW x \in LeadsTo(o), x \in visited PROVE x \in Found
    <3>1. x # o /\ o \notin LeadsTo(x)
      BY <1>8, LeadsToTransitive
    <3> QED BY <1>9, <1>10, <2>2, <3>1
  <2>3. Definitions(o) \subseteq T
    BY <1>2, <2>1, <2>2
  <2>4. ASSUME NEW x \in T PROVE Definitions(x) \subseteq T
    <3>1. Definitions(x) \subseteq visited
      BY DEF IInv, StackInv
    <3> QED BY <2>1, <2>2, <3>1
  <2>5. LeadsTo(o) \subseteq T
    <3>1. T \in SUBSET Targets
      BY <2>1
    <3> HIDE DEF T
    <3> QED BY <1>8, <2>3, <2>4, <3>1, LeadsToFacts
  <2> QED BY <2>5
<1>17. ASSUME NEW x \in Definitions(o), o \notin LeadsTo(x)
       PROVE  x \in Found
  <2>1. x \in visited /\ x \in LeadsTo(o)
    BY <1>2, <1>8, <1>17, LeadsToFacts
  <2>2. x # o
    BY <1>17, <2>1
  <2> QED BY <1>9, <1>10, <1>17, <2>1, <2>2
<1>18. OrderInv'
  <2> DEFINE Must(x, i) == \/ order'[i] \notin LeadsTo(order'[i]) /\ x \in LeadsTo(order'[i])
                           \/ x \in Definitions(order'[i]) /\ order'[i] \notin LeadsTo(x)
  <2> SUFFICES ASSUME NEW i \in 1..(N + 1), NEW x, Must(x, i)
               PROVE  \E k \in 1..(N + 1) : k < i /\ order'[k] = x
    BY <1>4, <1>6 DEF OrderInv, Before
  <2>1. CASE i \in 1..N
    <3>1. order'[i] = order[i]
      BY <1>6, <2>1
    <3>2. PICK k \in 1..N : k < i /\ order[k] = x
      BY <1>5, <2>1, <3>1 DEF IInv, OrderInv, Before
    <3>3. k \in 1..(N + 1) /\ order'[k] = x
      BY <1>5, <1>6, <3>2
    <3> QED BY <3>2, <3>3
  <2>2. CASE i = N + 1
    <3>1. x \in Found
      BY <1>6, <1>16, <1>17, <2>2
    <3>2. PICK k \in 1..N : order[k] = x
      BY <1>5, <3>1 DEF Found, ToSet
    <3>3. k \in 1..(N + 1) /\ k < i /\ order'[k] = x
      BY <1>5, <1>6, <2>2, <3>2
    <3> QED BY <3>3
  <2>3. i \in 1..N \/ i = N + 1
    BY <1>5
  <2> QED BY <2>1, <2>2, <2>3
<1> QED BY <1>13, <1>14, <1>15, <1>18 DEF IInv

LEMMA StepInv ==
  ASSUME IInv, [Next]_inferVars
  PROVE  IInv'
<1>1. CASE \E p \in Package : StartPass(p)
  BY <1>1, StartPassInv
<1>2. CASE \E o \in DOMAIN graph : VisitKey(o)
  BY <1>2, VisitKeyInv
<1>3. CASE VisitNext
  BY <1>3, DescendInv, FinishInv
<1>4. CASE Sorted
  <2>1. UNCHANGED <<graph, visited, order, dfs, pkg>> /\ phase' = "sweep" /\ dfs = <<>> /\ phase = "sort"
    BY <1>4 DEF Sorted
  <2>2. PhaseInv'
    BY <2>1, SameGraph DEF IInv, PhaseInv
  <2> QED BY <2>1, <2>2, SortSame DEF IInv
<1>5. CASE Sweep \/ Infer \/ UNCHANGED inferVars \/ Terminated
  <2>1. UNCHANGED <<graph, visited, order, dfs, pkg, phase>>
    BY <1>5 DEF Sweep, Infer, Terminated, inferVars
  <2>2. PhaseInv'
    BY <2>1, SameGraph DEF IInv, PhaseInv
  <2> QED BY <2>1, <2>2, SortSame DEF IInv
<1>6. CASE EndPass
  <2>1. /\ phase' = "idle" /\ graph' = <<>> /\ visited' = {} /\ order' = <<>>
        /\ dfs' = <<>>
    BY <1>6 DEF EndPass, IInv, PhaseInv
  <2>2. PhaseInv'
    BY <2>1 DEF PhaseInv
  <2>3. DOMAIN order' = {} /\ DOMAIN dfs' = {} /\ Found' = {} /\ OnStack' = {}
    BY <2>1 DEF Found, OnStack, ToSet
  <2>4. order' \in Seq(visited') /\ dfs' \in Seq(visited' \X SUBSET Targets')
    BY <2>1
  <2>5. VisitedInv' /\ StackInv' /\ OrderInv'
    BY <2>1, <2>3, <2>4 DEF VisitedInv, StackInv, OrderInv, Before
  <2> QED BY <2>2, <2>5 DEF IInv
<1> QED BY <1>1, <1>2, <1>3, <1>4, <1>5, <1>6 DEF Next

-----------------------------------------------------------------------------
(* The invariant of the passes.                                            *)

(* A set of packages that holds all its imports defines its types from its *)
(* own types alone.                                                        *)
LEMMA UsesImported ==
  ASSUME NEW D \in SUBSET Package, \A d \in D : Imports[d] \subseteq D,
         NEW p \in D, NEW t \in ToSet(TypeSpecs[p]),
         NEW x \in Defined, x \in FindObjects(Types[t[1]].def)
  PROVE  \E q \in D : x \in ToSet(TypeSpecs[q])
<1>1. PICK q \in Package : x \in ToSet(TypeSpecs[q])
  BY DEF Defined
<1>2. FindObjects(Types[t[1]].def) \cap ToSet(TypeSpecs[q]) # {}
  BY <1>1
<1>3. q \in D
  BY <1>2, ImportsAssumption
<1> QED BY <1>1, <1>3

LEMMA BelowStaysOutside ==
  ASSUME NEW D \in SUBSET Package, \A d \in D : Imports[d] \subseteq D,
         NEW t \in Defined, \A d \in D : t \notin ToSet(TypeSpecs[d])
  PROVE  \A y \in Below(t) : \A d \in D : y \notin ToSet(TypeSpecs[d])
<1> DEFINE T == {y \in Defined : \A d \in D : y \notin ToSet(TypeSpecs[d])}
<1>1. ASSUME NEW o \in T PROVE MadeOf(o) \subseteq T
  <2> SUFFICES ASSUME NEW y \in MadeOf(o), NEW d \in D, y \in ToSet(TypeSpecs[d])
               PROVE  FALSE
    BY DEF MadeOf
  <2>1. o \in FindObjects(Types[y[1]].def)
    BY DEF MadeOf
  <2>2. \E q \in D : o \in ToSet(TypeSpecs[q])
    BY <2>1, UsesImported
  <2> QED BY <2>2
<1>2. T \in SUBSET Defined /\ t \in T
  OBVIOUS
<1>3. Below(t) \subseteq T
  <2> HIDE DEF T
  <2> QED BY <1>1, <1>2, BelowFacts
<1> QED BY <1>3

(* What the sweep has seen is closed when its stack is empty.              *)
LEMMA SeenLeadsTo ==
  ASSUME IsFiniteSet(Targets), SeenInv, stack = <<>>, NEW x \in seen
  PROVE  LeadsTo(x) \subseteq seen
<1> DEFINE T == seen \cap Targets
<1>1. ToSet(stack) = {}
  BY DEF ToSet
<1>2. \A y \in seen : Definitions(y) \subseteq T
  BY <1>1, DefinitionsIs DEF SeenInv
<1>3. T \in SUBSET Targets /\ Definitions(x) \subseteq T /\ \A y \in T : Definitions(y) \subseteq T
  BY <1>2
<1> HIDE DEF T
<1>4. LeadsTo(x) \subseteq T
  BY <1>3, LeadsToFacts
<1> QED BY <1>4 DEF T

(* At the end of a sweep the types of its package are inferred exactly.    *)
LEMMA PassExact ==
  ASSUME IInv, PassInv, SweepInv, phase = "sweep", left = <<>>, stack = <<>>
  PROVE  Exact(pkg)
<1> DEFINE specs == ToSet(TypeSpecs[pkg])
<1>1. InPass
  BY DEF InPass, IInv, PassInv
<1>2. IsFiniteSet(Targets)
  BY TargetsFinite DEF IInv
<1>3. /\ pkg \in Package /\ pkg \notin Done
      /\ Done \in SUBSET Package /\ Done \cup {pkg} \in SUBSET Package
      /\ \A d \in Done : Imports[d] \subseteq Done
      /\ \A d \in Done \cup {pkg} : Imports[d] \subseteq Done \cup {pkg}
  <2>1. pkg \in Package
    BY <1>1, GraphIs
  <2>2. \A d \in Done : Imports[d] \subseteq Done
    BY DEF PassInv
  <2>3. Imports[pkg] \subseteq Done
    BY DEF PassInv
  <2>4. Done \in SUBSET Package /\ pkg \notin Done
    BY DEF Done
  <2> QED BY <2>1, <2>2, <2>3, <2>4
<1>4. \A q \in Package : \A x \in inferred[q] :
        x \in ToSet(TypeSpecs[q]) /\ (q # pkg => q \in Done)
  BY DEF PassInv, Done
<1>5. \A q \in Package : \A t \in specs : q # pkg => t \notin ToSet(TypeSpecs[q])
  BY <1>3, ImportsAssumption
<1>6. specs \subseteq Defined
  BY <1>3 DEF Defined
<1>7. \A x \in DOMAIN graph : (x \in Roots <=> ConfiguredSource(x) \/ Tagged(x))
  BY <1>1, <1>6, GraphIs DEF Roots
<1>8. SeenInv /\ InferInv
  BY DEF SweepInv
<1>9. \A x : LeadsTo(x) # {} => x \in DOMAIN graph
  <2> SUFFICES ASSUME NEW x, Definitions(x) = {} PROVE LeadsTo(x) = {}
    BY <1>1, GraphIs
  <2> QED BY <1>2, LeadsToFacts
<1>10. ASSUME NEW t \in specs, t \in inferred[pkg]
       PROVE  Above(t) # {}
  <2>1. PICK x : x # t /\ Starts(x) /\ t \in LeadsTo(x)
    BY <1>8, <1>10 DEF InferInv
  <2>2. x \in DOMAIN graph /\ t \in Below(x)
    BY <1>1, <1>9, <2>1, LeadsToBelow
  <2>3. CASE ConfiguredSource(x) \/ Tagged(x)
    <3>1. x \in Roots
      BY <1>7, <2>2, <2>3
    <3> QED BY <2>1, <2>2, <3>1 DEF Above
  <2>4. CASE x \in Others
    <3>1. PICK q \in Package \ {pkg} : x \in inferred[q]
      BY <2>4 DEF Others
    <3>2. q \in Done /\ x \in ToSet(TypeSpecs[q])
      BY <1>4, <3>1
    <3>3. Exact(q)
      BY <3>2 DEF PassInv
    <3>4. PICK r \in Above(x) : TRUE
      BY <3>1, <3>2, <3>3 DEF Exact
    <3>5. r \in Roots /\ t \in Below(r)
      BY <2>2, <3>4, BelowTransitive DEF Above
    <3>6. r # t
      <4>1. x \in Below(r)
        BY <3>4 DEF Above
      <4>2. t \in Defined /\ \A d \in Done : t \notin ToSet(TypeSpecs[d])
        BY <1>3, <1>5, <1>6
      <4>3. \A y \in Below(t) : \A d \in Done : y \notin ToSet(TypeSpecs[d])
        BY <1>3, <4>2, BelowStaysOutside
      <4> QED BY <3>2, <4>1, <4>3
    <3> QED BY <3>5, <3>6 DEF Above
  <2> QED BY <2>1, <2>3, <2>4 DEF Starts
<1>20. ASSUME NEW t, NEW j \in DOMAIN order, Before(t, j), WasOrigin(t), Starts(order[j]),
              t \in LeadsTo(order[j])
       PROVE  FALSE
  <2>1. PICK m \in DOMAIN order : m < j /\ order[m] = t
    BY <1>20 DEF Before
  <2>2. PICK k \in DOMAIN order :
          /\ order[k] = t
          /\ \A i \in DOMAIN order : i > k /\ Starts(order[i]) => t \notin LeadsTo(order[i])
    BY <1>20 DEF WasOrigin
  <2>3. k = m
    BY <2>1, <2>2 DEF IInv, VisitedInv
  <2>4. DOMAIN order \subseteq Nat
    <3>1. order \in Seq(visited)
      BY DEF IInv, VisitedInv
    <3> QED BY <3>1
  <2>5. j > k
    BY <2>1, <2>3, <2>4
  <2> QED BY <1>20, <2>2, <2>5
<1>11. ASSUME NEW t \in specs, NEW r \in Above(t)
       PROVE  /\ t \in inferred[pkg] \/ WasOrigin(t)
              /\ r \notin Below(r) \/ (t \in MadeOf(r) /\ r \notin Below(t)) => ~ WasOrigin(t)
  <2>1. r \in Roots /\ t \in Below(r)
    BY <1>11 DEF Above
  <2>2. PICK x : /\ t \in LeadsTo(x) /\ x \in DOMAIN graph
                 /\ x = r \/ (x \in Below(r) /\ x \notin specs)
    BY <1>1, <2>1, EntersPackage
  <2>3. Starts(x)
    <3>1. CASE x \in Roots
      BY <1>7, <2>2, <3>1 DEF Starts
    <3>2. CASE x \notin Roots
      <4>1. x # r /\ x \in Below(r) /\ x \notin specs /\ x \in Defined
        BY <2>1, <2>2, <3>2, BelowFacts
      <4>2. PICK y \in specs : x \in FindObjects(Types[y[1]].def)
        BY <1>1, <2>2, GraphIs
      <4>3. PICK q \in Done \cup {pkg} : x \in ToSet(TypeSpecs[q])
        BY <1>3, <4>1, <4>2, UsesImported
      <4>4. q \in Done /\ q # pkg /\ q \in Package
        BY <1>3, <4>1, <4>3
      <4>5. Exact(q) /\ r \in Above(x)
        BY <2>1, <4>1, <4>4 DEF PassInv, Above
      <4>6. x \in inferred[q]
        BY <3>2, <4>3, <4>5 DEF Exact
      <4> QED BY <4>4, <4>6 DEF Starts, Others
    <3> QED BY <3>1, <3>2
  <2>4. PICK i \in DOMAIN order : order[i] = x
    BY <1>8, <2>2 DEF SeenInv, Found, ToSet
  <2>5. DOMAIN order \subseteq Nat \ {0} /\ Len(left) = 0
    <3>1. order \in Seq(visited)
      BY DEF IInv, VisitedInv
    <3> QED BY <3>1
  <2>6. x \in seen
    BY <1>8, <2>3, <2>4, <2>5 DEF SeenInv
  <2>7. t \in seen
    BY <1>2, <1>8, <2>2, <2>6, SeenLeadsTo
  <2>8. t \in inferred[pkg] \/ WasOrigin(t)
    <3>1. ToSet(stack) = {}
      BY DEF ToSet
    <3> QED BY <1>8, <2>7, <3>1 DEF InferInv
  <2>9. ASSUME r \notin Below(r), WasOrigin(t) PROVE FALSE
    <3>1. x \notin LeadsTo(x)
      <4>1. LeadsTo(x) \subseteq Below(x) /\ LeadsTo(x) \subseteq specs
        BY <1>1, <1>2, LeadsToBelow, LeadsToFacts, GraphIs
      <4> QED BY <2>2, <2>9, <4>1
    <3>2. Before(t, i)
      BY <2>2, <2>4, <3>1 DEF IInv, OrderInv
    <3> QED BY <1>20, <2>2, <2>3, <2>4, <2>9, <3>2
  <2>10. ASSUME t \in MadeOf(r), r \notin Below(t), WasOrigin(t) PROVE FALSE
    <3>1. t \in Definitions(r) /\ r \in DOMAIN graph
      BY <1>1, <2>10, GraphIs
    <3>2. Starts(r)
      BY <1>7, <2>1, <3>1 DEF Starts
    <3>3. PICK j \in DOMAIN order : order[j] = r
      BY <1>8, <3>1 DEF SeenInv, Found, ToSet
    <3>4. r \notin LeadsTo(t) /\ t \in LeadsTo(r)
      BY <1>1, <1>2, <2>10, <3>1, LeadsToBelow, LeadsToFacts
    <3>5. Before(t, j)
      BY <3>1, <3>3, <3>4 DEF IInv, OrderInv
    <3> QED BY <1>20, <2>10, <3>2, <3>3, <3>4, <3>5
  <2> QED BY <2>8, <2>9, <2>10
<1>12. ASSUME NEW t \in specs, t \notin Roots PROVE ~ WasOrigin(t)
  <2>1. ~ ConfiguredSource(t) /\ ~ Tagged(t)
    BY <1>6, <1>12 DEF Roots
  <2>2. t \notin Others
    BY <1>4, <1>5 DEF Others
  <2> QED BY <2>1, <2>2 DEF WasOrigin, Starts
<1>13. ASSUME NEW t \in ToSet(TypeSpecs[pkg])
       PROVE  /\ t \in inferred[pkg] => Above(t) # {}
              /\ Above(t) # {} /\ t \notin Roots => t \in inferred[pkg]
              /\ IsSure(t) => t \in inferred[pkg]
  BY <1>10, <1>11, <1>12 DEF IsSure
<1> QED BY <1>13 DEF Exact

LEMMA Invariant == Spec => []IInv
BY InitInv, StepInv, PTL DEF Spec

(* topoSort, on graphs with any cycles and keys in any order: what an      *)
(* object outside all cycles leads to is found before it.                  *)
THEOREM SortsOutsideCycles == Spec => []TopoOrder
<1>1. ASSUME IInv PROVE TopoOrder
  <2> SUFFICES ASSUME NEW i \in DOMAIN order, NEW j \in DOMAIN order, i < j,
                      order[j] \in LeadsTo(order[i]), order[i] \notin LeadsTo(order[i])
               PROVE  FALSE
    BY DEF TopoOrder
  <2>1. PICK k \in DOMAIN order : k < i /\ order[k] = order[j]
    BY <1>1 DEF IInv, OrderInv, Before
  <2>2. k = j
    BY <1>1, <2>1 DEF IInv, VisitedInv
  <2>3. DOMAIN order \subseteq Nat
    BY <1>1 DEF IInv, VisitedInv
  <2> QED BY <2>1, <2>2, <2>3
<1> QED BY <1>1, Invariant, PTL

-----------------------------------------------------------------------------
(* It holds initially and at every step.                                   *)

FullInv == IInv /\ PassInv /\ SweepInv

(* What is exact of a package stays so while its result does.              *)
LEMMA ExactSame ==
  ASSUME NEW p, inferred'[p] = inferred[p]
  PROVE  Exact(p)' <=> Exact(p)
BY DEF Exact

LEMMA StartsSame ==
  ASSUME UNCHANGED <<pkg, graph, order>>,
         \A q \in Package \ {pkg} : inferred'[q] = inferred[q]
  PROVE  \A o : (Starts(o)' <=> Starts(o)) /\ (WasOrigin(o)' <=> WasOrigin(o))
<1>1. Others' = Others
  BY DEF Others
<1>2. \A o : Starts(o)' <=> Starts(o)
  BY <1>1 DEF Starts
<1>3. \A o : LeadsTo(o)' = LeadsTo(o)
  BY SameGraph
<1>4. \A o : WasOrigin(o)' <=> WasOrigin(o)
  BY <1>2, <1>3 DEF WasOrigin
<1> QED BY <1>2, <1>4

LEMMA PassSame ==
  ASSUME PassInv, UNCHANGED <<waiting, pkg, phase, graph, seen, stack, inferred>>
  PROVE  PassInv'
<1>1. Done' = Done
  BY DEF Done
<1>2. \A p : Exact(p)' <=> Exact(p)
  BY ExactSame
<1> QED BY <1>1, <1>2 DEF PassInv

LEMMA FullInit ==
  ASSUME InferInit
  PROVE  PassInv /\ SweepInv
<1>1. Done = {}
  BY DEF InferInit, Done
<1> QED BY <1>1 DEF InferInit, PassInv, SweepInv

LEMMA StartPassFull ==
  ASSUME FullInv, NEW p \in Package, StartPass(p)
  PROVE  PassInv' /\ SweepInv'
<1>1. /\ phase = "idle" /\ p \in waiting /\ Imports[p] \cap waiting = {}
      /\ pkg' = p /\ phase' = "sort" /\ waiting' = waiting \ {p}
      /\ graph' = CreateObjectGraph(p) /\ UNCHANGED <<seen, stack, inferred>>
  BY DEF StartPass
<1>2. Done' = Done
  BY <1>1 DEF Done
<1>3. \A q : Exact(q)' <=> Exact(q)
  BY <1>1, ExactSame
<1>4. Imports[p] \subseteq Done
  BY <1>1, ImportsAssumption DEF Done
<1>5. inferred[p] = {}
  BY <1>1 DEF FullInv, PassInv
<1>6. PassInv'
  BY <1>1, <1>2, <1>3, <1>4, <1>5 DEF FullInv, PassInv
<1> QED BY <1>1, <1>6 DEF SweepInv

LEMMA SortedFull ==
  ASSUME FullInv, Sorted
  PROVE  PassInv' /\ SweepInv'
<1>1. /\ phase = "sort" /\ dfs = <<>> /\ DOMAIN graph \subseteq visited
      /\ phase' = "sweep" /\ left' = order
      /\ UNCHANGED <<waiting, pkg, graph, visited, order, dfs, seen, origin, stack, inferred>>
  BY DEF Sorted
<1>2. Done' = Done
  BY <1>1 DEF Done
<1>3. \A q : Exact(q)' <=> Exact(q)
  BY <1>1, ExactSame
<1>4. seen = {} /\ stack = <<>> /\ inferred[pkg] = {}
  BY <1>1 DEF FullInv, PassInv
<1>5. PassInv'
  BY <1>1, <1>2, <1>3, <1>4 DEF FullInv, PassInv
<1>6. order \in Seq(visited) /\ DOMAIN order = 1..Len(order) /\ Len(order) \in Nat
  BY DEF FullInv, IInv, VisitedInv
<1>7. SeenInv'
  <2>1. Found' = Found /\ visited = Found
    <3>1. OnStack = {}
      BY <1>1 DEF OnStack
    <3> QED BY <1>1, <3>1 DEF FullInv, IInv, VisitedInv, Found
  <2>2. stack' \in Seq(seen')
    BY <1>1, <1>4
  <2>3. \A k \in DOMAIN order : ~ (k > Len(order))
    BY <1>6
  <2> QED BY <1>1, <1>4, <1>6, <2>1, <2>2, <2>3 DEF SeenInv
<1>8. InferInv'
  BY <1>1, <1>4 DEF InferInv
<1> QED BY <1>5, <1>7, <1>8 DEF SweepInv

(* The sweep comes to the next object of the order, from its end.          *)
LEMMA SweepFull ==
  ASSUME FullInv, Sweep
  PROVE  PassInv' /\ SweepInv'
<1> DEFINE N == Len(left)
           o == Last(left)
<1>1. /\ phase = "sweep" /\ left # <<>> /\ stack = <<>> /\ left' = Front(left)
      /\ IF o \notin seen /\ IsStart(o)
         THEN seen' = seen \cup {o} /\ stack' = <<o>> /\ origin' = <<o>>
         ELSE UNCHANGED <<seen, stack, origin>>
      /\ UNCHANGED <<waiting, pkg, phase, graph, visited, order, dfs, inferred>>
  BY DEF Sweep
<1>2. SeenInv /\ InferInv
  BY <1>1 DEF FullInv, SweepInv
<1>3. order \in Seq(visited) /\ DOMAIN order = 1..Len(order) /\ Len(order) \in Nat
  BY DEF FullInv, IInv, VisitedInv
<1>4. /\ N \in Nat \ {0} /\ N \in DOMAIN left /\ o = order[N] /\ N \in DOMAIN order
      /\ left' \in Seq(visited) /\ Len(left') = N - 1
      /\ \A i \in DOMAIN left' : left'[i] = order[i]
  <2>1. left \in Seq(visited) /\ N <= Len(order) /\ \A i \in DOMAIN left : left[i] = order[i]
    BY <1>2 DEF SeenInv
  <2>2. N \in Nat \ {0} /\ DOMAIN left = 1..N /\ \A i \in 1..N : left[i] \in visited
    BY <1>1, <2>1
  <2>3. left' = [i \in 1..(N - 1) |-> left[i]]
    BY <1>1, <2>1, <2>2 DEF Front
  <2>4. N - 1 \in Nat /\ \A i \in 1..(N - 1) : i \in 1..N
    BY <2>2
  <2>5. left' \in [1..(N - 1) -> visited]
    BY <2>2, <2>3, <2>4
  <2>6. left' \in Seq(visited) /\ Len(left') = N - 1 /\ DOMAIN left' = 1..(N - 1)
    <3> HIDE DEF N
    <3> QED BY <2>4, <2>5
  <2>7. N \in DOMAIN left /\ o = left[N] /\ N \in DOMAIN order
    BY <1>3, <2>1, <2>2 DEF Last
  <2> QED BY <2>1, <2>2, <2>3, <2>4, <2>6, <2>7
<1> HIDE DEF N, o
<1>5. ToSet(stack) = {}
  BY <1>1 DEF ToSet
<1>6. PassInv'
  <2>1. Done' = Done
    BY <1>1 DEF Done
  <2>2. \A q : Exact(q)' <=> Exact(q)
    BY <1>1, ExactSame
  <2> QED BY <1>1, <2>1, <2>2 DEF FullInv, PassInv
<1>7. /\ \A x : (Starts(x)' <=> Starts(x)) /\ (WasOrigin(x)' <=> WasOrigin(x))
      /\ \A x : Definitions(x)' = Definitions(x) /\ LeadsTo(x)' = LeadsTo(x)
      /\ Found' = Found
  BY <1>1, StartsSame, SameGraph DEF Found
<1>8. IsStart(o) <=> Starts(o) \/ o \in inferred[pkg]
  <2>1. pkg \in Package
    BY <1>1 DEF FullInv, IInv, PhaseInv
  <2>2. o \in Facts <=> o \in Others \/ o \in inferred[pkg]
    BY <2>1 DEF Facts, Others
  <2> QED BY <2>2 DEF IsStart, Starts
<1>9. \A k \in DOMAIN order : k > N - 1 => k = N \/ k > N
  BY <1>3, <1>4
<1>10. CASE o \notin seen /\ IsStart(o)
  <2>1. seen' = seen \cup {o} /\ stack' = <<o>> /\ origin' = <<o>> /\ ToSet(stack') = {o}
    BY <1>1, <1>10 DEF ToSet
  <2>2. Starts(o)
    BY <1>2, <1>8, <1>10 DEF InferInv
  <2>3. WasOrigin(o)
    <3>1. ASSUME NEW j \in DOMAIN order, j > N, Starts(order[j]) PROVE o \notin LeadsTo(order[j])
      <4>1. order[j] \in seen
        BY <1>2, <3>1 DEF SeenInv, N
      <4>2. LeadsTo(order[j]) \subseteq seen
        BY <1>1, <1>2, <4>1, SeenLeadsTo, TargetsFinite DEF FullInv, IInv
      <4> QED BY <1>10, <4>2
    <3> QED BY <1>4, <2>2, <3>1 DEF WasOrigin
  <2>4. SeenInv'
    <3>1. DOMAIN graph' \subseteq Found' /\ Len(left') <= Len(order')
      BY <1>1, <1>2, <1>3, <1>4, <1>7 DEF SeenInv, N
    <3>2. stack' \in Seq(seen')
      BY <2>1
    <3>3. \A x \in seen' : x \in ToSet(stack') \/ Definitions(x) \subseteq seen'
      BY <1>2, <1>5, <2>1 DEF SeenInv
    <3>4. \A k \in DOMAIN order : k > N - 1 /\ Starts(order[k]) => order[k] \in seen'
      BY <1>2, <1>4, <1>9, <2>1 DEF SeenInv, N
    <3> QED BY <1>1, <1>4, <1>7, <3>1, <3>2, <3>3, <3>4 DEF SeenInv
  <2>5. InferInv'
    <3>1. \A t \in seen' \cap ToSet(TypeSpecs[pkg]) : t \in inferred[pkg] \/ WasOrigin(t)
      BY <1>2, <1>5, <2>1, <2>3 DEF InferInv
    <3>2. \A t \in inferred[pkg] : t \in seen' /\ \E x : x # t /\ Starts(x) /\ t \in LeadsTo(x)
      BY <1>2, <2>1 DEF InferInv
    <3> QED BY <1>1, <1>7, <2>1, <2>2, <3>1, <3>2 DEF InferInv
  <2> QED BY <1>6, <2>4, <2>5 DEF SweepInv
<1>11. CASE ~ (o \notin seen /\ IsStart(o))
  <2>1. UNCHANGED <<seen, stack, origin>>
    BY <1>1, <1>11
  <2>2. Starts(o) => o \in seen
    BY <1>8, <1>11
  <2>3. SeenInv'
    <3>1. DOMAIN graph' \subseteq Found' /\ Len(left') <= Len(order')
      BY <1>1, <1>2, <1>3, <1>4, <1>7 DEF SeenInv, N
    <3>2. \A k \in DOMAIN order : k > N - 1 /\ Starts(order[k]) => order[k] \in seen
      BY <1>2, <1>4, <1>9, <2>2 DEF SeenInv, N
    <3>3. stack' \in Seq(seen') /\ \A x \in seen' : x \in ToSet(stack') \/ Definitions(x) \subseteq seen'
      BY <1>2, <2>1 DEF SeenInv
    <3> QED BY <1>1, <1>4, <1>7, <2>1, <3>1, <3>2, <3>3 DEF SeenInv
  <2>4. InferInv'
    BY <1>1, <1>2, <1>7, <2>1 DEF InferInv
  <2> QED BY <1>6, <2>3, <2>4 DEF SweepInv
<1> QED BY <1>10, <1>11

(* The sweep takes an object from the stack.                               *)
LEMMA InferFull ==
  ASSUME FullInv, Infer
  PROVE  PassInv' /\ SweepInv'
<1> DEFINE c == Last(stack)
           D == Definitions(c) \ seen
           new == InOrder(D)
           rest == Front(stack)
           specs == ToSet(TypeSpecs[pkg])
<1>1. /\ stack # <<>>
      /\ inferred' = IF Contains(TypeSpecs[pkg], c) /\ <<c>> # origin
                     THEN [inferred EXCEPT ![pkg] = @ \cup {c}] ELSE inferred
      /\ stack' = rest \o new /\ seen' = seen \cup ToSet(new)
      /\ UNCHANGED <<waiting, pkg, phase, graph, visited, order, dfs, left, origin>>
  BY DEF Infer
<1>2. phase = "sweep"
  BY <1>1 DEF FullInv, IInv, PhaseInv, PassInv
<1>3. SeenInv /\ InferInv
  BY <1>2 DEF FullInv, SweepInv
<1>4. InPass /\ IsFiniteSet(Targets)
  BY <1>2, TargetsFinite DEF FullInv, IInv, PassInv, InPass
<1>5. pkg \in Package /\ D \subseteq specs
  BY <1>4, GraphIs
<1>6. new \in Seq(D) /\ ToSet(new) = D
  <2> HIDE DEF D
  <2> QED BY <1>5, InOrderIs
<1>7. /\ stack \in Seq(seen) /\ rest \in Seq(seen) /\ c \in seen
      /\ ToSet(stack) = ToSet(rest) \cup {c}
  <2>1. stack \in Seq(seen)
    BY <1>3 DEF SeenInv
  <2>2. /\ Len(stack) \in Nat \ {0} /\ DOMAIN stack = 1..Len(stack)
        /\ \A i \in 1..Len(stack) : stack[i] \in seen
    BY <1>1, <2>1
  <2>3. rest = [i \in 1..(Len(stack) - 1) |-> stack[i]]
    BY <2>1, <2>2 DEF Front
  <2>4. /\ Len(stack) - 1 \in Nat
        /\ \A i \in 1..(Len(stack) - 1) : i \in 1..Len(stack)
        /\ \A i \in 1..Len(stack) : i = Len(stack) \/ i \in 1..(Len(stack) - 1)
        /\ Len(stack) \in 1..Len(stack)
    <3> DEFINE n == Len(stack)
    <3>1. n \in Nat \ {0}
      BY <2>2
    <3> HIDE DEF n
    <3>2. /\ n - 1 \in Nat
          /\ \A i \in 1..(n - 1) : i \in 1..n
          /\ \A i \in 1..n : i = n \/ i \in 1..(n - 1)
          /\ n \in 1..n
      BY <3>1
    <3> QED BY <3>2 DEF n
  <2>5. rest \in [1..(Len(stack) - 1) -> seen]
    BY <2>2, <2>3, <2>4
  <2>6. rest \in Seq(seen) /\ DOMAIN rest = 1..(Len(stack) - 1)
    <3> HIDE DEF rest
    <3> QED BY <2>4, <2>5
  <2>7. c = stack[Len(stack)]
    BY DEF Last
  <2>8. ToSet(stack) = ToSet(rest) \cup {c}
    BY <2>2, <2>3, <2>4, <2>6, <2>7 DEF ToSet
  <2> QED BY <2>1, <2>2, <2>4, <2>6, <2>7, <2>8
<1> HIDE DEF c, new, rest
<1>8. /\ seen' = seen \cup D
      /\ stack' \in Seq(seen') /\ ToSet(stack') = ToSet(rest) \cup D
  <2>1. seen' = seen \cup D
    BY <1>1, <1>6
  <2>2. rest \in Seq(seen') /\ new \in Seq(seen')
    <3>1. \A S : S \subseteq seen' => Seq(S) \subseteq Seq(seen')
      OBVIOUS
    <3> QED BY <1>6, <1>7, <2>1, <3>1
  <2>3. stack' \in Seq(seen')
    BY <1>1, <2>2
  <2>4. ToSet(rest \o new) = ToSet(rest) \cup ToSet(new)
    <3>1. /\ Len(rest) \in Nat /\ Len(new) \in Nat
          /\ DOMAIN rest = 1..Len(rest) /\ DOMAIN new = 1..Len(new)
      BY <1>6, <1>7
    <3>2. /\ DOMAIN (rest \o new) = 1..(Len(rest) + Len(new))
          /\ \A i \in 1..Len(rest) : (rest \o new)[i] = rest[i]
          /\ \A i \in 1..Len(new) : (rest \o new)[Len(rest) + i] = new[i]
      BY <2>2, <3>1
    <3>3. \A i \in 1..(Len(rest) + Len(new)) :
            i \in 1..Len(rest) \/ (i - Len(rest) \in 1..Len(new) /\ Len(rest) + (i - Len(rest)) = i)
      BY <3>1
    <3>4. /\ \A i \in 1..Len(rest) : i \in 1..(Len(rest) + Len(new))
          /\ \A i \in 1..Len(new) : Len(rest) + i \in 1..(Len(rest) + Len(new))
      BY <3>1
    <3>5. ToSet(rest \o new) \subseteq ToSet(rest) \cup ToSet(new)
      <4> SUFFICES ASSUME NEW i \in 1..(Len(rest) + Len(new))
                   PROVE  (rest \o new)[i] \in ToSet(rest) \cup ToSet(new)
        BY <3>2 DEF ToSet
      <4>1. CASE i \in 1..Len(rest)
        BY <3>1, <3>2, <4>1 DEF ToSet
      <4>2. CASE i - Len(rest) \in 1..Len(new) /\ Len(rest) + (i - Len(rest)) = i
        BY <3>1, <3>2, <4>2 DEF ToSet
      <4> QED BY <3>3, <4>1, <4>2
    <3>6. ToSet(rest) \subseteq ToSet(rest \o new)
      BY <3>1, <3>2, <3>4 DEF ToSet
    <3>7. ToSet(new) \subseteq ToSet(rest \o new)
      BY <3>1, <3>2, <3>4 DEF ToSet
    <3> QED BY <3>5, <3>6, <3>7
  <2> QED BY <1>1, <1>6, <2>1, <2>3, <2>4
<1>9. PICK x : /\ origin = <<x>> /\ x \in seen /\ Starts(x)
               /\ \A y \in ToSet(stack) : y = x \/ y \in LeadsTo(x)
  BY <1>1, <1>3 DEF InferInv
<1>10. /\ c = x \/ c \in LeadsTo(x)
       /\ \A y \in D : y \in LeadsTo(x) /\ y # x
  <2>1. c = x \/ c \in LeadsTo(x)
    BY <1>7, <1>9
  <2>2. Definitions(c) \subseteq LeadsTo(x)
    BY <1>4, <2>1, LeadsToFacts
  <2> QED BY <1>9, <2>1, <2>2
<1>11. \A e : <<e>> = origin <=> e = x
  BY <1>9
<1>12. Contains(TypeSpecs[pkg], c) <=> c \in specs
  <2>1. TypeSpecs[pkg] \in Seq((DOMAIN Types) \X {0})
    BY <1>5, SpecsAssumption DEF Package
  <2> QED BY <2>1 DEF Contains, ToSet
<1>13. /\ DOMAIN inferred' = Package
       /\ \A q \in Package \ {pkg} : inferred'[q] = inferred[q]
       /\ inferred'[pkg] = inferred[pkg] \cup (IF c \in specs /\ c # x THEN {c} ELSE {})
  BY <1>1, <1>5, <1>11, <1>12 DEF FullInv, PassInv
<1> HIDE DEF D
<1>14. /\ \A y : (Starts(y)' <=> Starts(y)) /\ (WasOrigin(y)' <=> WasOrigin(y))
       /\ \A y : Definitions(y)' = Definitions(y) /\ LeadsTo(y)' = LeadsTo(y)
       /\ Found' = Found
  BY <1>1, <1>13, StartsSame, SameGraph DEF Found
<1>15. PassInv'
  <2>1. Done' = Done /\ pkg \notin Done /\ Done \subseteq Package
    BY <1>1, <1>2 DEF Done
  <2>2. \A q \in Done : Exact(q)' <=> Exact(q)
    BY <1>13, <2>1, ExactSame
  <2>3. \A q \in Package : inferred'[q] \subseteq ToSet(TypeSpecs[q])
    BY <1>13 DEF FullInv, PassInv
  <2>4. \A q \in waiting : inferred'[q] = {}
    <3>1. pkg \notin waiting /\ waiting \subseteq Package
      BY <1>2 DEF FullInv, PassInv
    <3> QED BY <1>13, <3>1 DEF FullInv, PassInv
  <2> QED BY <1>1, <1>2, <1>13, <2>1, <2>2, <2>3, <2>4 DEF FullInv, PassInv
<1>16. SeenInv'
  <2>1. \A y \in seen' : y \in ToSet(stack') \/ Definitions(y) \subseteq seen'
    <3>1. D = Definitions(c) \ seen
      BY DEF D
    <3> QED BY <1>3, <1>7, <1>8, <3>1 DEF SeenInv
  <2> QED BY <1>1, <1>3, <1>8, <1>14, <2>1 DEF SeenInv
<1>17. InferInv'
  <2>1. x \in seen' /\ \A y \in ToSet(stack') : y = x \/ y \in LeadsTo(x)
    BY <1>7, <1>8, <1>9, <1>10
  <2>2. ASSUME NEW t \in seen', t \in specs
        PROVE  t \in inferred'[pkg] \/ (t \in ToSet(stack') /\ t # x) \/ WasOrigin(t)
    <3>1. CASE t \in D
      BY <1>8, <1>10, <3>1
    <3>2. CASE t \in seen
      <4>1. t \in inferred[pkg] \/ (t \in ToSet(stack) /\ t # x) \/ WasOrigin(t)
        BY <1>3, <1>11, <2>2, <3>2 DEF InferInv
      <4> QED BY <1>7, <1>8, <1>13, <2>2, <4>1
    <3> QED BY <1>8, <3>1, <3>2
  <2>3. ASSUME NEW t \in inferred'[pkg]
        PROVE  t \in seen' /\ \E y : y # t /\ Starts(y) /\ t \in LeadsTo(y)
    <3>1. CASE t \in inferred[pkg]
      BY <1>3, <1>8, <3>1 DEF InferInv
    <3>2. CASE t \notin inferred[pkg]
      <4>1. t = c /\ c # x
        BY <1>13, <2>3, <3>2
      <4> QED BY <1>7, <1>8, <1>9, <1>10, <4>1
    <3> QED BY <3>1, <3>2
  <2> QED BY <1>1, <1>9, <1>11, <1>14, <2>1, <2>2, <2>3 DEF InferInv
<1> QED BY <1>15, <1>16, <1>17 DEF SweepInv

LEMMA EndPassFull ==
  ASSUME FullInv, EndPass
  PROVE  PassInv' /\ SweepInv'
<1>1. /\ phase = "sweep" /\ left = <<>> /\ stack = <<>>
      /\ phase' = "idle" /\ seen' = {} /\ UNCHANGED <<waiting, stack, inferred>>
  BY DEF EndPass
<1>2. Exact(pkg)
  BY <1>1, PassExact DEF FullInv
<1>3. \A q : Exact(q)' <=> Exact(q)
  BY <1>1, ExactSame
<1>4. Done' = Done \cup {pkg}
  BY <1>1 DEF Done, FullInv, IInv, PhaseInv, PassInv
<1>5. PassInv'
  BY <1>1, <1>2, <1>3, <1>4 DEF FullInv, PassInv
<1> QED BY <1>1, <1>5 DEF SweepInv

LEMMA FullStep ==
  ASSUME FullInv, [Next]_inferVars
  PROVE  PassInv' /\ SweepInv'
<1>1. CASE \E p \in Package : StartPass(p)
  BY <1>1, StartPassFull
<1>2. CASE (\E o \in DOMAIN graph : VisitKey(o)) \/ VisitNext
  <2>1. phase = "sort" /\ UNCHANGED <<waiting, pkg, phase, graph, seen, stack, inferred>>
    BY <1>2 DEF VisitKey, VisitNext
  <2> QED BY <2>1, PassSame DEF FullInv, SweepInv
<1>3. CASE Sorted
  BY <1>3, SortedFull
<1>4. CASE Sweep
  BY <1>4, SweepFull
<1>5. CASE Infer
  BY <1>5, InferFull
<1>6. CASE EndPass
  BY <1>6, EndPassFull
<1>7. CASE Terminated \/ UNCHANGED inferVars
  <2>1. UNCHANGED inferVars
    BY <1>7 DEF Terminated
  <2>2. PassInv'
    BY <2>1, PassSame DEF FullInv, inferVars
  <2>3. /\ \A y : (Starts(y)' <=> Starts(y)) /\ (WasOrigin(y)' <=> WasOrigin(y))
        /\ \A y : Definitions(y)' = Definitions(y) /\ LeadsTo(y)' = LeadsTo(y)
        /\ Found' = Found
    BY <2>1, StartsSame, SameGraph DEF inferVars, Found
  <2>4. SweepInv'
    BY <2>1, <2>3 DEF FullInv, SweepInv, SeenInv, InferInv, inferVars
  <2> QED BY <2>2, <2>4
<1> QED BY <1>1, <1>2, <1>3, <1>4, <1>5, <1>6, <1>7 DEF Next

LEMMA FullInvariant == Spec => []FullInv
<1>1. InferInit => FullInv
  BY InitInv, FullInit DEF FullInv
<1>2. FullInv /\ [Next]_inferVars => FullInv'
  BY StepInv, FullStep DEF FullInv
<1> QED BY <1>1, <1>2, PTL DEF Spec

(* Doc of the Analyzer: a type is inferred to be a source if and only if   *)
(* it is made of one, whatever the imports, the order of the passes and    *)
(* that of the keys of the graphs; but for the types that are sources by   *)
(* themselves, of which that is so when a source outside all cycles leads  *)
(* to them, or when they are made of a source they do not lead back to.    *)
THEOREM InfersExactly == Spec => []InferredExactly
<1>1. ASSUME FullInv PROVE InferredExactly
  <2> SUFFICES ASSUME Inferred PROVE \A p \in Package : Exact(p)
    BY DEF InferredExactly, Exact, IsSure, Above
  <2>1. Done = Package
    BY DEF Inferred, Done
  <2> QED BY <1>1, <2>1 DEF FullInv, PassInv
<1> QED BY <1>1, FullInvariant, PTL
-----------------------------------------------------------------------------
(* What types are made of: Dereference, FindObjects and Components, and    *)
(* how the last two are related.                                           *)

IsPointer(t) == Kind(Underlying(t)) = "pointer"
Pointee(t) == Types[Underlying(t)].elem

LEMMA PointeeIs ==
  ASSUME NEW t \in DOMAIN Types, IsPointer(t)
  PROVE  Pointee(t) \in DOMAIN Types
<1>1. Underlying(t) \in DOMAIN Types /\ Kind(Underlying(t)) = "pointer"
  BY TypesAssumption DEF IsPointer
<1>2. Elems(Underlying(t)) = {Pointee(t)}
  BY <1>1 DEF Elems, Pointee
<1>3. Elems(Underlying(t)) \subseteq DOMAIN Types
  BY <1>1, TypesAssumption
<1> QED BY <1>2, <1>3

(* The recursion of Dereference has an answer: the type without a pointer  *)
(* that pointers lead to.                                                  *)
LEMMA DereferenceIs ==
  \A t \in DOMAIN Types : Dereference(t) = IF IsPointer(t) THEN Dereference(Pointee(t)) ELSE t
<1> DEFINE U == DOMAIN Types
           D == [t \in U |-> IF IsPointer(t) THEN {Pointee(t)} ELSE {}]
           Ends(t) == {u \in Hull(D, U, {t}) : ~IsPointer(u)}
           h == [t \in U |-> CHOOSE u : u \in Ends(t)]
           Answers(g) == g = [t \in U |-> IF IsPointer(t) THEN g[Pointee(t)] ELSE t]
<1>1. D \in [U -> SUBSET U]
  BY PointeeIs
<1>2. ASSUME NEW t \in U, IsPointer(t)
      PROVE  Ends(t) = Ends(Pointee(t))
  <2> DEFINE q == Pointee(t)
             T == {t} \cup Hull(D, U, {q})
  <2>1. D[t] = {q} /\ q \in U
    BY <1>2, PointeeIs
  <2> HIDE DEF D, q
  <2>2. /\ t \in Hull(D, U, {t}) /\ Hull(D, U, {t}) \subseteq U
        /\ \A y \in Hull(D, U, {t}) : D[y] \subseteq Hull(D, U, {t})
    BY <1>1, <2>1, HullOfPoint
  <2>3. /\ q \in Hull(D, U, {q}) /\ Hull(D, U, {q}) \subseteq U
        /\ \A y \in Hull(D, U, {q}) : D[y] \subseteq Hull(D, U, {q})
    BY <1>1, <2>1, HullOfPoint
  <2>4. Hull(D, U, {q}) \subseteq Hull(D, U, {t})
    BY <2>1, <2>2, HullLeast
  <2>5. Hull(D, U, {t}) \subseteq T
    <3>1. T \in SUBSET U /\ {t} \subseteq T /\ \A y \in T : D[y] \subseteq T
      BY <2>1, <2>3
    <3> HIDE DEF T
    <3> QED BY <3>1, HullLeast
  <2> QED BY <1>2, <2>4, <2>5 DEF q
<1>3. ASSUME NEW t \in U, ~IsPointer(t)
      PROVE  Ends(t) = {t}
  <2>1. D[t] = {} /\ {t} \in SUBSET U
    BY <1>3
  <2> HIDE DEF D
  <2>2. Hull(D, U, {t}) \subseteq {t}
    BY <2>1, HullLeast
  <2>3. t \in Hull(D, U, {t})
    BY <1>1, <2>1, HullOfPoint
  <2> QED BY <1>3, <2>2, <2>3
<1>4. \A t \in U : h[t] = IF IsPointer(t) THEN h[Pointee(t)] ELSE t
  <2> SUFFICES ASSUME NEW t \in U PROVE h[t] = IF IsPointer(t) THEN h[Pointee(t)] ELSE t
    OBVIOUS
  <2> HIDE DEF Ends
  <2>1. CASE IsPointer(t)
    BY <1>2, <2>1, PointeeIs
  <2>2. CASE ~IsPointer(t)
    BY <1>3, <2>2
  <2> QED BY <2>1, <2>2
<1>5. Answers(h)
  <2>1. h = [t \in U |-> h[t]]
    <3> HIDE DEF Ends
    <3> QED OBVIOUS
  <2> HIDE DEF h
  <2> QED BY <1>4, <2>1
<1> HIDE DEF h
<1>6. \A t : Dereference(t) = (CHOOSE g : Answers(g))[t]
  BY DEF Dereference, IsPointer, Pointee
<1>7. Answers(CHOOSE g : Answers(g))
  <2> HIDE DEF Answers
  <2> QED BY <1>5
<1>8. ASSUME NEW g, Answers(g), NEW t \in U
      PROVE  g[t] = IF IsPointer(t) THEN g[Pointee(t)] ELSE t
  <2> DEFINE F == [x \in U |-> IF IsPointer(x) THEN g[Pointee(x)] ELSE x]
  <2>1. g = F
    BY <1>8
  <2>2. F[t] = IF IsPointer(t) THEN g[Pointee(t)] ELSE t
    OBVIOUS
  <2> HIDE DEF F
  <2> QED BY <2>1, <2>2
<1> HIDE DEF Answers
<1> QED BY <1>6, <1>7, <1>8

LEMMA DereferencedIs ==
  \A t \in DOMAIN Types : Dereference(t) \in DOMAIN Types /\ ~IsPointer(Dereference(t))
<1> DEFINE Right(t) == Dereference(t) \in DOMAIN Types /\ ~IsPointer(Dereference(t))
           Bad == {t \in DOMAIN Types : ~Right(t)}
<1>1. ASSUME NEW t \in Bad PROVE IsPointer(t) /\ Pointee(t) \in Bad
  <2>1. IsPointer(t)
    BY DereferenceIs
  <2>2. Pointee(t) \in DOMAIN Types /\ Dereference(t) = Dereference(Pointee(t))
    BY <2>1, DereferenceIs, PointeeIs
  <2> QED BY <2>1, <2>2
<1>2. Bad \in SUBSET {t \in DOMAIN Types : Kind(Underlying(t)) = "pointer"}
  BY <1>1 DEF IsPointer
<1> HIDE DEF Bad
<1>3. \A t \in Bad : Types[Underlying(t)].elem \in Bad
  BY <1>1 DEF Pointee
<1>4. Bad = {}
  BY <1>2, <1>3, TypesAssumption
<1> QED BY <1>4 DEF Bad

(* A pointer by name is the pointer.                                       *)
LEMMA PointerUnderlying ==
  ASSUME NEW t \in DOMAIN Types, IsPointer(t)
  PROVE  Dereference(Underlying(t)) = Dereference(t)
<1>1. Underlying(t) \in DOMAIN Types /\ Kind(Underlying(t)) # "named"
  BY TypesAssumption
<1>2. Underlying(Underlying(t)) = Underlying(t)
  BY <1>1 DEF Underlying
<1> QED BY <1>1, <1>2, DereferenceIs DEF IsPointer, Pointee

LEMMA DefinedIs ==
  \A t \in Defined : t = Object(t[1]) /\ t[1] \in Named
<1> SUFFICES ASSUME NEW t \in Defined PROVE t = <<t[1], 0>> /\ t[1] \in Named
  BY DEF Object
<1>1. PICK p \in Package : t \in ToSet(TypeSpecs[p])
  BY DEF Defined
<1>2. t \in (DOMAIN Types) \X {0}
  BY <1>1, SpecsAssumption, ToSetFinite DEF Package
<1> QED BY <1>2, TypesAssumption

(* The types that findObjects comes to.                                    *)
Met(t) == Closed({Dereference(t)}, DOMAIN Types, Traverse)

LEMMA TraverseIs ==
  \A t \in DOMAIN Types : Traverse(t) \subseteq DOMAIN Types
<1> SUFFICES ASSUME NEW t \in DOMAIN Types PROVE Traverse(t) \subseteq DOMAIN Types
  OBVIOUS
<1>1. Elems(t) \subseteq DOMAIN Types
  BY TypesAssumption
<1>2. Kind(t) = "struct" => {FieldType(f) : f \in Fields(t)} \subseteq DOMAIN Types
  BY TypesAssumption
<1> QED BY <1>1, <1>2, DereferencedIs DEF Traverse

LEMMA MetIsHull ==
  ASSUME NEW t \in DOMAIN Types
  PROVE  Met(t) = Hull([x \in DOMAIN Types |-> Traverse(x)], DOMAIN Types, {Dereference(t)})
<1> DEFINE U == DOMAIN Types
           D == [x \in U |-> Traverse(x)]
           Grown(g) == g = [met \in SUBSET U |->
                              IF met \cup UNION {Traverse(x) : x \in met} = met THEN met
                              ELSE g[met \cup UNION {Traverse(x) : x \in met}]]
<1>1. D \in [U -> SUBSET U] /\ IsFiniteSet(U)
  BY TraverseIs, TypesAssumption
<1>2. Met(t) = (CHOOSE g : Grown(g))[{Dereference(t)}]
  BY DEF Met, Closed
<1>3. \A met \in SUBSET U : met \cup UNION {Traverse(x) : x \in met} = Grow(D, met)
  BY DEF Grow
<1>4. \A g : Grown(g) <=> IsGrown(g, D, U)
  <2> HIDE DEF D, U
  <2>1. ASSUME NEW g
        PROVE  [met \in SUBSET U |->
                  IF met \cup UNION {Traverse(x) : x \in met} = met THEN met
                  ELSE g[met \cup UNION {Traverse(x) : x \in met}]]
               = [met \in SUBSET U |-> IF Grow(D, met) = met THEN met ELSE g[Grow(D, met)]]
    BY <1>3
  <2> QED BY <2>1 DEF IsGrown
<1>5. {Dereference(t)} \in SUBSET U
  BY DereferencedIs
<1> HIDE DEF D, Grown, U
<1>6. \E g : Grown(g)
  BY <1>1, <1>4, HullIsGrown
<1>7. Grown(CHOOSE g : Grown(g))
  BY <1>6
<1>8. (CHOOSE g : Grown(g))[{Dereference(t)}] = Hull(D, U, {Dereference(t)})
  BY <1>1, <1>4, <1>5, <1>7, GrownIsHull
<1> QED BY <1>2, <1>8 DEF D, U

LEMMA MetFacts ==
  ASSUME NEW t \in DOMAIN Types
  PROVE  /\ Met(t) \subseteq DOMAIN Types /\ Dereference(t) \in Met(t)
         /\ \A x \in Met(t) : Traverse(x) \subseteq Met(t)
         /\ \A T \in SUBSET DOMAIN Types :
              Dereference(t) \in T /\ (\A x \in T : Traverse(x) \subseteq T) => Met(t) \subseteq T
<1> DEFINE U == DOMAIN Types
           D == [x \in U |-> Traverse(x)]
           S == {Dereference(t)}
<1>1. D \in [U -> SUBSET U]
  BY TraverseIs
<1>2. \A x \in U : D[x] = Traverse(x)
  OBVIOUS
<1>3. Met(t) = Hull(D, U, S)
  BY MetIsHull
<1>4. S \in SUBSET U
  BY DereferencedIs
<1> HIDE DEF U, D, S
<1>5. /\ S \subseteq Hull(D, U, S) /\ Hull(D, U, S) \subseteq U
      /\ \A x \in Hull(D, U, S) : D[x] \subseteq Hull(D, U, S)
  BY <1>1, <1>4, HullClosed
<1>6. /\ Met(t) \subseteq U /\ Dereference(t) \in Met(t)
      /\ \A x \in Met(t) : Traverse(x) \subseteq Met(t)
  BY <1>2, <1>3, <1>5 DEF S
<1>7. ASSUME NEW T \in SUBSET U, Dereference(t) \in T, \A x \in T : Traverse(x) \subseteq T
      PROVE  Met(t) \subseteq T
  <2>1. S \subseteq T /\ \A x \in T : D[x] \subseteq T
    BY <1>2, <1>7 DEF S
  <2> QED BY <1>3, <2>1, HullLeast
<1> QED BY <1>6, <1>7 DEF U

(* What a type is met in has its objects too.                              *)
LEMMA ObjectsInside ==
  ASSUME NEW t \in DOMAIN Types, NEW u \in DOMAIN Types, Dereference(u) \in Met(t)
  PROVE  FindObjects(u) \subseteq FindObjects(t)
<1>1. /\ Met(t) \in SUBSET DOMAIN Types
      /\ \A x \in Met(t) : Traverse(x) \subseteq Met(t)
  BY MetFacts
<1>2. Met(u) \subseteq Met(t)
  BY <1>1, MetFacts
<1> QED BY <1>2 DEF FindObjects, Met

LEMMA SameObjects ==
  ASSUME NEW t \in DOMAIN Types, NEW u \in DOMAIN Types, Dereference(u) = Dereference(t)
  PROVE  FindObjects(u) = FindObjects(t)
BY DEF FindObjects

(* A named type has no parts to findObjects but itself, and pointers are   *)
(* not even that.                                                          *)
LEMMA NamedObject ==
  ASSUME NEW t \in Named, ~IsPointer(t)
  PROVE  FindObjects(t) = {Object(t)}
<1>1. t \in DOMAIN Types /\ Kind(t) = "named" /\ Dereference(t) = t
  BY DereferenceIs DEF Named
<1>2. Elems(t) = {}
  BY <1>1 DEF Elems
<1>3. Traverse(t) = {}
  BY <1>1, <1>2 DEF Traverse
<1>4. {t} \in SUBSET DOMAIN Types /\ \A x \in {t} : Traverse(x) \subseteq {t}
  BY <1>1, <1>3
<1>5. Met(t) = {t}
  BY <1>1, <1>4, MetFacts
<1> QED BY <1>1, <1>5 DEF FindObjects, Met

LEMMA PointerObject ==
  ASSUME NEW t \in DOMAIN Types, IsPointer(t), NEW s \in DOMAIN Types
  PROVE  Object(t) \notin FindObjects(s)
<1> DEFINE T == {u \in DOMAIN Types : ~IsPointer(u)}
<1>1. T \in SUBSET DOMAIN Types /\ Dereference(s) \in T
  BY DereferencedIs
<1>2. ASSUME NEW x \in T PROVE Traverse(x) \subseteq T
  <2>1. x \in DOMAIN Types /\ Elems(x) \subseteq DOMAIN Types
    BY TypesAssumption
  <2>2. Kind(x) = "struct" => {FieldType(f) : f \in Fields(x)} \subseteq DOMAIN Types
    BY <2>1, TypesAssumption
  <2> QED BY <2>1, <2>2, DereferencedIs DEF Traverse
<1> HIDE DEF T
<1>3. Met(s) \subseteq T
  BY <1>1, <1>2, MetFacts
<1>4. \A u \in Met(s) : u # t /\ u \in DOMAIN Types
  BY <1>3 DEF T
<1>5. \A u \in Met(s) : Kind(u) = "struct" => \A f \in Fields(u) : IsField(f)
  BY <1>4, TypesAssumption
<1>6. ~IsField(Object(t)) /\ \A u \in Met(s) : Object(u) # Object(t)
  BY <1>4 DEF IsField, Object
<1> QED BY <1>5, <1>6 DEF FindObjects, Met

LEMMA TaggedObject ==
  ASSUME NEW s \in DOMAIN Types, Kind(s) = "struct"
  PROVE  Fields(s) \subseteq FindObjects(s)
<1>1. Dereference(s) = s
  BY DereferenceIs DEF IsPointer, Underlying
<1>2. s \in Met(s)
  BY <1>1, MetFacts
<1> QED BY <1>2 DEF FindObjects, Met

(* What a named type consists of leads to it, also when it is defined as   *)
(* another named type: that leads to it, and by and by to what defines it. *)
Leads(o, t) == Object(t) \in Below(o)

LEMMA UnderlyingLeads ==
  \A t \in Named : \A o \in FindObjects(Types[t].under) : Leads(o, t)
<1> DEFINE Bad == {t \in Named : \E o \in FindObjects(Types[t].under) : ~Leads(o, t)}
<1>1. ASSUME NEW t \in Bad PROVE Object(t) \in Defined /\ Types[t].def \in Bad
  <2> DEFINE d == Types[t].def
  <2>1. t \in Named /\ t \in DOMAIN Types /\ Kind(t) = "named" /\ Underlying(t) = Types[t].under
    BY DEF Named, Underlying
  <2>2. Object(t) \in Defined /\ d \in DOMAIN Types /\ Underlying(d) = Types[t].under
    BY <2>1, TypesAssumption
  <2>3. \A o \in FindObjects(d) : Leads(o, t)
    <3>1. Object(t)[1] = t
      BY DEF Object
    <3>2. \A o \in FindObjects(d) : Object(t) \in MadeOf(o)
      BY <2>2, <3>1 DEF MadeOf
    <3> QED BY <3>2, BelowFacts DEF Leads
  <2>4. PICK o \in FindObjects(Types[t].under) : ~Leads(o, t)
    OBVIOUS
  <2>5. Types[t].under \in DOMAIN Types
    BY <2>1, TypesAssumption
  <2> HIDE DEF d
  <2>6. Kind(d) = "named"
    <3>1. Kind(d) # "named" => Underlying(d) = d
      BY DEF Underlying
    <3> QED BY <2>2, <2>3, <2>4, <3>1
  <2>7. ~IsPointer(d)
    BY <2>2, <2>3, <2>4, <2>5, PointerUnderlying, SameObjects
  <2>8. d \in Named /\ Types[d].under = Types[t].under
    BY <2>2, <2>6 DEF Named, Underlying
  <2>9. Leads(Object(d), t)
    BY <2>3, <2>7, <2>8, NamedObject
  <2>10. ~Leads(o, d)
    BY <2>4, <2>9, BelowTransitive DEF Leads
  <2>11. d \in Bad
    BY <2>4, <2>8, <2>10
  <2> QED BY <2>2, <2>11 DEF d
<1>2. Bad \in SUBSET {t \in Named : Object(t) \in Defined}
  <2>1. Bad \subseteq Named
    OBVIOUS
  <2> HIDE DEF Bad
  <2> QED BY <1>1, <2>1
<1>3. Bad = {}
  <2> HIDE DEF Bad
  <2> QED BY <1>1, <1>2, TypesAssumption
<1> QED BY <1>3

LEMMA ComponentsIsHull ==
  ASSUME NEW t \in DOMAIN Types
  PROVE  Components(t) = Hull([x \in DOMAIN Types |-> Elems(x) \cup {Underlying(x)}], DOMAIN Types, {t})
<1> DEFINE U == DOMAIN Types
           Step(x) == Elems(x) \cup {Underlying(x)}
           D == [x \in U |-> Step(x)]
           Grown(g) == g = [met \in SUBSET U |->
                              IF met \cup UNION {Step(x) : x \in met} = met THEN met
                              ELSE g[met \cup UNION {Step(x) : x \in met}]]
<1>1. D \in [U -> SUBSET U] /\ IsFiniteSet(U)
  BY TypesAssumption
<1>2. Components(t) = (CHOOSE g : Grown(g))[{t}]
  BY DEF Components, Closed
<1>3. \A met \in SUBSET U : met \cup UNION {Step(x) : x \in met} = Grow(D, met)
  <2> HIDE DEF Step
  <2> QED BY DEF Grow
<1>4. \A g : Grown(g) <=> IsGrown(g, D, U)
  <2> HIDE DEF D, U, Step
  <2>1. ASSUME NEW g
        PROVE  [met \in SUBSET U |->
                  IF met \cup UNION {Step(x) : x \in met} = met THEN met
                  ELSE g[met \cup UNION {Step(x) : x \in met}]]
               = [met \in SUBSET U |-> IF Grow(D, met) = met THEN met ELSE g[Grow(D, met)]]
    BY <1>3
  <2> QED BY <2>1 DEF IsGrown
<1>5. {t} \in SUBSET U
  OBVIOUS
<1> HIDE DEF D, Grown, U
<1>6. \E g : Grown(g)
  BY <1>1, <1>4, HullIsGrown
<1>7. Grown(CHOOSE g : Grown(g))
  BY <1>6
<1>8. (CHOOSE g : Grown(g))[{t}] = Hull(D, U, {t})
  BY <1>1, <1>4, <1>5, <1>7, GrownIsHull
<1> QED BY <1>2, <1>8 DEF D, U

(* The objects of whatever a named type consists of lead to it.            *)
LEMMA ComponentsLead ==
  ASSUME NEW t \in Named, NEW u \in Components(t), u # t
  PROVE  u \in DOMAIN Types /\ \A o \in FindObjects(u) : Leads(o, t)
<1> DEFINE T == {x \in DOMAIN Types : x = t \/ \A o \in FindObjects(x) : Leads(o, t)}
<1>1. t \in DOMAIN Types /\ Kind(t) = "named"
  BY DEF Named
<1>2. ASSUME NEW x \in T PROVE Elems(x) \cup {Underlying(x)} \subseteq T
  <2>1. x \in DOMAIN Types /\ Elems(x) \cup {Underlying(x)} \subseteq DOMAIN Types
    BY TypesAssumption
  <2>2. CASE Kind(x) = "named"
    <3>1. Elems(x) = {} /\ Underlying(x) = Types[x].under /\ x \in Named
      BY <2>1, <2>2 DEF Elems, Underlying, Named
    <3>2. \A o \in FindObjects(Underlying(x)) : Leads(o, t)
      <4>1. CASE x = t
        BY <3>1, <4>1, UnderlyingLeads
      <4>2. CASE x # t /\ IsPointer(x)
        BY <2>1, <4>2, PointerUnderlying, SameObjects
      <4>3. CASE x # t /\ ~IsPointer(x)
        <5>1. Leads(Object(x), t)
          BY <3>1, <4>3, NamedObject
        <5>2. \A o \in FindObjects(Underlying(x)) : Leads(o, x)
          BY <3>1, UnderlyingLeads
        <5> QED BY <5>1, <5>2, BelowTransitive DEF Leads
      <4> QED BY <4>1, <4>2, <4>3
    <3> QED BY <2>1, <3>1, <3>2
  <2>3. CASE Kind(x) # "named"
    <3>1. Underlying(x) = x /\ x # t /\ \A o \in FindObjects(x) : Leads(o, t)
      BY <1>1, <2>3 DEF Underlying
    <3>2. ASSUME NEW e \in Elems(x) PROVE FindObjects(e) \subseteq FindObjects(x)
      <4>1. CASE Kind(x) = "pointer"
        <5>1. IsPointer(x) /\ e = Pointee(x)
          BY <3>1, <3>2, <4>1 DEF IsPointer, Pointee, Elems
        <5> QED BY <2>1, <3>2, <5>1, DereferenceIs, SameObjects
      <4>2. CASE Kind(x) # "pointer"
        <5>1. Dereference(x) = x
          BY <2>1, <3>1, <4>2, DereferenceIs DEF IsPointer
        <5>2. Kind(x) # "struct"
          BY <3>2 DEF Elems
        <5>3. Dereference(e) \in Traverse(x)
          BY <3>2, <5>2 DEF Traverse
        <5>4. Dereference(e) \in Met(x)
          BY <2>1, <5>1, <5>3, MetFacts
        <5> QED BY <2>1, <3>2, <5>4, ObjectsInside
      <4> QED BY <4>1, <4>2
    <3> QED BY <2>1, <3>1, <3>2
  <2> QED BY <2>2, <2>3
<1>3. Components(t) \subseteq T
  <2> DEFINE D == [x \in DOMAIN Types |-> Elems(x) \cup {Underlying(x)}]
  <2>1. T \in SUBSET DOMAIN Types /\ {t} \subseteq T
    BY <1>1
  <2>2. \A x \in T : D[x] \subseteq T
    <3>1. \A x \in T : x \in DOMAIN Types /\ D[x] = Elems(x) \cup {Underlying(x)}
      OBVIOUS
    <3> HIDE DEF T, D
    <3> QED BY <1>2, <3>1
  <2>3. Components(t) = Hull(D, DOMAIN Types, {t})
    BY <1>1, ComponentsIsHull
  <2> HIDE DEF T, D
  <2> QED BY <2>1, <2>2, <2>3, HullLeast
<1> QED BY <1>3

(* No type that the configuration names is a pointer by name.              *)
ConfiguredAreNoPointers == \A t \in Configured : ~IsPointer(t)

(* The two ways to look through types agree: what the source analyzer      *)
(* takes for a source by what it consists of is configured or inferred, if *)
(* no pointer by name is configured.  For "type P *T; type Q []P" with P   *)
(* configured they do not, as findObjects dereferences P.                  *)
THEOREM InferenceAgrees == Spec => [](ConfiguredAreNoPointers => SourceTypesInferred)
<1>1. ASSUME FullInv, ConfiguredAreNoPointers, Inferred,
             NEW p \in Package, NEW t \in ToSet(TypeSpecs[p]), IsSourceType(t[1], Tags),
             t[1] \notin Configured
      PROVE  t \in inferred[p]
  <2>1. Exact(p)
    <3>1. Done = Package
      BY <1>1 DEF Inferred, Done
    <3> QED BY <1>1, <3>1 DEF FullInv, PassInv
  <2>2. t \in Defined /\ t = Object(t[1]) /\ t[1] \in Named
    <3>1. t \in Defined
      BY DEF Defined
    <3> QED BY <3>1, DefinedIs
  <2>4. ASSUME NEW r, Leads(r, t[1]), ConfiguredSource(r) \/ Tagged(r)
        PROVE  r \in Roots /\ t \in Below(r)
    <3>1. t \in Below(r)
      BY <2>2, <2>4 DEF Leads
    <3>2. MadeOf(r) # {}
      <4>1. ASSUME MadeOf(r) = {} PROVE Below(r) \subseteq {}
        BY <4>1, BelowFacts
      <4> QED BY <3>1, <4>1
    <3>3. \E d \in Defined : r \in FindObjects(Types[d[1]].def)
      BY <3>2 DEF MadeOf
    <3> QED BY <2>4, <3>1, <3>3 DEF Roots
  <2>5. \E r : Leads(r, t[1]) /\ (ConfiguredSource(r) \/ Tagged(r))
    <3>1. PICK u \in Components(t[1]) :
            \/ Kind(u) = "named" /\ u \in Configured
            \/ Kind(u) = "struct" /\ Fields(u) \cap Tags # {}
      BY <1>1 DEF IsSourceType
    <3>2. u # t[1]
      BY <1>1, <2>2, <3>1 DEF Named
    <3>3. u \in DOMAIN Types /\ \A o \in FindObjects(u) : Leads(o, t[1])
      BY <2>2, <3>2, ComponentsLead
    <3>4. CASE Kind(u) = "named" /\ u \in Configured
      <4>1. u \in Named /\ ~IsPointer(u)
        BY <1>1, <3>4, TypesAssumption DEF ConfiguredAreNoPointers
      <4>2. Leads(Object(u), t[1])
        BY <3>3, <4>1, NamedObject
      <4>3. ConfiguredSource(Object(u))
        <5>1. ObjectType(Object(u)) = u
          BY DEF ObjectType, IsField, Object
        <5> QED BY <3>4, <4>1, <5>1, NamedObject DEF ConfiguredSource
      <4> QED BY <4>2, <4>3
    <3>5. CASE Kind(u) = "struct" /\ Fields(u) \cap Tags # {}
      <4>1. PICK f \in Fields(u) : f \in Tags
        BY <3>5
      <4>2. Leads(f, t[1])
        BY <3>3, <3>5, TaggedObject
      <4>3. Tagged(f)
        <5>1. PICK s \in DOMAIN Types : Kind(s) = "struct" /\ f \in TaggedFields(s)
          BY <4>1 DEF Tags
        <5>2. f \in Fields(s) /\ f[1] = s
          BY <5>1 DEF TaggedFields, Fields
        <5> QED BY <5>1, <5>2, TypesAssumption DEF Tagged
      <4> QED BY <4>2, <4>3
    <3> QED BY <3>1, <3>4, <3>5
  <2>6. PICK r : r \in Roots /\ t \in Below(r)
    BY <2>4, <2>5
  <2>7. t \notin Roots => r \in Above(t)
    BY <2>6 DEF Above
  <2>8. CASE t \notin Roots
    BY <2>1, <2>7, <2>8 DEF Exact
  <2>9. CASE t \in Roots
    <3> DEFINE n == t[1]
    <3>1. PICK x \in FindObjects(n) : ObjectType(x) \in Configured
      <4>1. ~IsField(t) /\ ObjectType(t) = n
        BY <2>2 DEF IsField, ObjectType, Object
      <4> QED BY <2>9, <4>1 DEF Roots, ConfiguredSource, Tagged
    <3>2. IsPointer(n) /\ n \in DOMAIN Types
      <4>1. ASSUME ~IsPointer(n) PROVE x = Object(n)
        BY <2>2, <3>1, <4>1, NamedObject
      <4>2. ObjectType(Object(n)) = n
        BY DEF ObjectType, IsField, Object
      <4> QED BY <1>1, <2>2, <3>1, <4>1, <4>2 DEF Named
    <3> HIDE DEF n
    <3>3. t \in MadeOf(x)
      <4>1. Underlying(n) = Types[n].under /\ FindObjects(n) = FindObjects(Types[n].under)
        <5>1. Underlying(n) = Types[n].under
          BY <2>2 DEF Named, Underlying, n
        <5>2. Types[n].under \in DOMAIN Types
          BY <3>2, <5>1, TypesAssumption
        <5> QED BY <3>2, <5>1, <5>2, PointerUnderlying, SameObjects
      <4>2. Types[n].def \in DOMAIN Types /\ Underlying(Types[n].def) = Underlying(n)
        BY <2>2, <3>1, <4>1, TypesAssumption DEF n
      <4>3. IsPointer(Types[n].def)
        BY <3>2, <4>2 DEF IsPointer
      <4>4. Dereference(Types[n].def) = Dereference(n)
        BY <3>2, <4>2, <4>3, PointerUnderlying
      <4>5. x \in FindObjects(Types[n].def)
        BY <3>1, <3>2, <4>2, <4>4, SameObjects
      <4> QED BY <2>2, <4>5 DEF MadeOf, n
    <3>4. \A y \in DOMAIN Types : t \notin FindObjects(y)
      BY <2>2, <3>2, PointerObject DEF n
    <3>5. MadeOf(t) = {}
      <4>1. ASSUME NEW d \in Defined, t \in FindObjects(Types[d[1]].def) PROVE FALSE
        <5>1. d[1] \in Named /\ d = Object(d[1])
          BY DefinedIs
        <5>2. Types[d[1]].def \in DOMAIN Types
          BY <5>1, TypesAssumption
        <5> QED BY <3>4, <4>1, <5>2
      <4> QED BY <4>1 DEF MadeOf
    <3>6. x \notin Below(t)
      <4>1. Below(t) \subseteq {}
        BY <3>5, BelowFacts
      <4> QED BY <4>1
    <3>7. ConfiguredSource(x)
      <4>1. ObjectType(x) \in Named /\ ~IsPointer(ObjectType(x))
        BY <1>1, <3>1, TypesAssumption DEF ConfiguredAreNoPointers
      <4>2. Object(ObjectType(x)) \in FindObjects(ObjectType(x))
        BY <4>1, NamedObject
      <4>3. ObjectType(Object(ObjectType(x))) = ObjectType(x)
        BY DEF ObjectType, IsField, Object
      <4> QED BY <3>1, <4>2, <4>3 DEF ConfiguredSource
    <3>8. x \in Above(t)
      <4>1. x # t
        BY <3>1, <3>2, <3>4
      <4>2. x \in Roots /\ t \in Below(x)
        BY <3>3, <3>7, BelowFacts DEF MadeOf, Roots
      <4> QED BY <4>1, <4>2 DEF Above, n
    <3> QED BY <2>1, <3>3, <3>6, <3>8 DEF Exact, IsSure
  <2> QED BY <2>8, <2>9
<1>2. FullInv => (ConfiguredAreNoPointers => SourceTypesInferred)
  BY <1>1 DEF SourceTypesInferred
<1> QED BY <1>2, FullInvariant, PTL
=============================================================================
