---------------------------- MODULE SourceInfer ----------------------------
(***************************************************************************)
(* sourceinfer/analyzer.go: one pass per package, after the passes of the  *)
(* packages it imports, whose facts it reads.  A pass sorts the graph of   *)
(* the package's type definitions topologically (topoSort, a depth-first   *)
(* search, its stack the variable dfs) and sweeps it from its sources down *)
(* (inferSources).  The keys of the graph, a Go map, come in any order.    *)
(* Passes of unrelated packages share nothing: they run one after another. *)
(***************************************************************************)
EXTENDS SourceTypes, SequencesExt

CONSTANTS
  Imports,    \* package -> packages
  TypeSpecs   \* package -> its type definitions, that are no aliases, in order

Package == DOMAIN Imports

ASSUME SpecsAssumption ==
  \A p \in DOMAIN Imports : TypeSpecs[p] \in Seq((DOMAIN Types) \X {0})

(* A type is defined once, from types of its own package and of packages   *)
(* that it imports, directly or not: of every set of packages that holds   *)
(* its own and all that they import.                                       *)
ASSUME ImportsAssumption ==
  /\ IsFiniteSet(Package)
  /\ \A p \in Package : Imports[p] \subseteq Package
  /\ \A p, q \in Package : p # q => ToSet(TypeSpecs[p]) \cap ToSet(TypeSpecs[q]) = {}
  /\ \A p, q \in Package : \A t \in ToSet(TypeSpecs[p]) :
       FindObjects(Types[t[1]].def) \cap ToSet(TypeSpecs[q]) # {} =>
         \A D \in SUBSET Package : p \in D /\ (\A d \in D : Imports[d] \subseteq D) => q \in D

(* All types that are defined, and the types that have names.              *)
Defined == UNION {ToSet(TypeSpecs[p]) : p \in Package}
Named == {t \in DOMAIN Types : Kind(t) = "named"}

(* What types consist of are types, and each named type is defined, from   *)
(* one that it shares its underlying type with; but for those like error,  *)
(* which have no parts.  No definition is made of itself alone, as are     *)
(* "type A B; type B A", which is no Go, and "type P *P", on which         *)
(* Dereference does not return.                                            *)
ASSUME TypesAssumption ==
  /\ IsFiniteSet(DOMAIN Types)
  /\ \A t \in DOMAIN Types :
       /\ Elems(t) \cup {Underlying(t)} \subseteq DOMAIN Types
       /\ Kind(Underlying(t)) # "named"
       /\ Kind(t) = "struct" => \A f \in Fields(t) : IsField(f) /\ FieldType(f) \in DOMAIN Types
  /\ Configured \subseteq Named /\ \A t \in Defined : t[1] \in Named
  /\ \A t \in Named :
       IF Object(t) \in Defined
       THEN Types[t].def \in DOMAIN Types /\ Underlying(Types[t].def) = Types[t].under
       ELSE FindObjects(Types[t].under) = {}
  /\ \A S \in SUBSET {t \in Named : Object(t) \in Defined} :
       S # {} => \E t \in S : Types[t].def \notin S
  /\ \A S \in SUBSET {t \in DOMAIN Types : Kind(Underlying(t)) = "pointer"} :
       S # {} => \E t \in S : Types[Underlying(t)].elem \notin S

VARIABLES
  waiting,    \* packages without a pass yet
  pkg,        \* the package of the current pass
  phase,      \* of that pass: "sort", "sweep", or "idle" when there is none
  graph,      \* objGraph
  visited, order, dfs,   \* topoSort: dfs is a stack of <<object, objects to visit>>
  left, seen, origin, stack,   \* inferSources: what is left of order, and a sweep
  inferred    \* package -> the result of its pass, which are also the facts it exports

inferVars == <<waiting, pkg, phase, graph, visited, order, dfs, left, seen, origin, stack, inferred>>

(* createObjectGraph: an object leads to the types defined with it, which  *)
(* it lists in the order of their definitions.                             *)
CreateObjectGraph(p) ==
  [o \in UNION {FindObjects(Types[t[1]].def) : t \in ToSet(TypeSpecs[p])} |->
     {t \in ToSet(TypeSpecs[p]) : o \in FindObjects(Types[t[1]].def)}]
Definitions(o) == IF o \in DOMAIN graph THEN graph[o] ELSE {}

(* Some types of the package, listed in that order.                        *)
InOrder(types) ==
  LET places == {k \in DOMAIN TypeSpecs[pkg] : TypeSpecs[pkg][k] \in types}
      Nth(i) == CHOOSE k \in places : Cardinality({m \in places : m <= k}) = i
  IN  [i \in 1..Cardinality(places) |-> TypeSpecs[pkg][Nth(i)]]

-----------------------------------------------------------------------------
InferInit ==
  /\ waiting = Package
  /\ pkg = "" /\ phase = "idle"
  /\ graph = <<>>
  /\ visited = {} /\ order = <<>> /\ dfs = <<>>
  /\ left = <<>> /\ seen = {} /\ origin = <<>> /\ stack = <<>>
  /\ inferred = [p \in Package |-> {}]

StartPass(p) ==
  /\ phase = "idle"
  /\ p \in waiting /\ Imports[p] \cap waiting = {}
  /\ pkg' = p /\ phase' = "sort"
  /\ waiting' = waiting \ {p}
  /\ graph' = CreateObjectGraph(p)
  /\ UNCHANGED <<visited, order, dfs, left, seen, origin, stack, inferred>>

-----------------------------------------------------------------------------
VisitKey(o) ==
  /\ phase = "sort" /\ dfs = <<>>
  /\ o \in DOMAIN graph \ visited
  /\ visited' = visited \cup {o}
  /\ dfs' = <<<<o, Definitions(o)>>>>
  /\ UNCHANGED <<waiting, pkg, phase, graph, order, left, seen, origin, stack, inferred>>

\* Mutant: an object is put in order before what it leads to.
VisitNext_preorder ==
  /\ phase = "sort" /\ dfs # <<>>
  /\ LET o == Head(dfs)[1]
         new == Head(dfs)[2] \ visited
         n == InOrder(new)[1]
     IN  /\ order' = IF Contains(order, o) THEN order ELSE Append(order, o)
         /\ IF new = {} THEN dfs' = Tail(dfs) /\ UNCHANGED visited
            ELSE /\ visited' = visited \cup {n}
                 /\ dfs' = <<<<n, Definitions(n)>>, <<o, new \ {n}>>>> \o Tail(dfs)
  /\ UNCHANGED <<waiting, pkg, phase, graph, left, seen, origin, stack, inferred>>

(* The loop of visit, up to the next object it has not visited.            *)
VisitNext ==
  /\ phase = "sort" /\ dfs # <<>>
  /\ LET o == Head(dfs)[1]
         new == Head(dfs)[2] \ visited
         n == InOrder(new)[1]
     IN  IF new = {}
         THEN /\ order' = Append(order, o)
              /\ dfs' = Tail(dfs)
              /\ UNCHANGED visited
         ELSE /\ visited' = visited \cup {n}
              /\ dfs' = <<<<n, Definitions(n)>>, <<o, new \ {n}>>>> \o Tail(dfs)
              /\ UNCHANGED order
  /\ UNCHANGED <<waiting, pkg, phase, graph, left, seen, origin, stack, inferred>>

Sorted ==
  /\ phase = "sort" /\ dfs = <<>> /\ DOMAIN graph \subseteq visited
  /\ phase' = "sweep"
  /\ left' = order
  /\ UNCHANGED <<waiting, pkg, graph, visited, order, dfs, seen, origin, stack, inferred>>

-----------------------------------------------------------------------------
(* isSourceType, isTaggedField, and the facts of other packages.           *)
ConfiguredSource(o) == \E x \in FindObjects(ObjectType(o)) : ObjectType(x) \in Configured
Tagged(o) == IsField(o) /\ o \in TaggedFields(o[1])
Facts == UNION {inferred[p] : p \in Package}

\* Mutant: the facts of imported packages are not read.
IsStart_local(o) == ConfiguredSource(o) \/ Tagged(o)

IsStart(o) == ConfiguredSource(o) \/ Tagged(o) \/ o \in Facts

Sweep ==
  /\ phase = "sweep" /\ left # <<>> /\ stack = <<>>
  /\ left' = Front(left)
  /\ IF Last(left) \notin seen /\ IsStart(Last(left))
     THEN /\ seen' = seen \cup {Last(left)}
          /\ stack' = <<Last(left)>>
          /\ origin' = <<Last(left)>>
     ELSE UNCHANGED <<seen, stack, origin>>
  /\ UNCHANGED <<waiting, pkg, phase, graph, visited, order, dfs, inferred>>

Infer ==
  /\ stack # <<>>
  /\ LET current == Last(stack)
         new == InOrder(Definitions(current) \ seen)
     IN  /\ inferred' = IF Contains(TypeSpecs[pkg], current) /\ <<current>> # origin
                        THEN [inferred EXCEPT ![pkg] = @ \cup {current}] ELSE inferred
         /\ stack' = Front(stack) \o new
         /\ seen' = seen \cup ToSet(new)
  /\ UNCHANGED <<waiting, pkg, phase, graph, visited, order, dfs, left, origin>>

EndPass ==
  /\ phase = "sweep" /\ left = <<>> /\ stack = <<>>
  /\ pkg' = "" /\ phase' = "idle" /\ graph' = <<>>
  /\ visited' = {} /\ order' = <<>> /\ seen' = {} /\ origin' = <<>>
  /\ UNCHANGED <<waiting, dfs, left, stack, inferred>>

Inferred == waiting = {} /\ phase = "idle"
Terminated == Inferred /\ UNCHANGED inferVars

Next ==
  \/ \E p \in Package : StartPass(p)
  \/ \E o \in DOMAIN graph : VisitKey(o)
  \/ VisitNext
  \/ Sorted
  \/ Sweep
  \/ Infer
  \/ EndPass
  \/ Terminated

Spec == InferInit /\ [][Next]_inferVars

-----------------------------------------------------------------------------
(* What an object leads to, by one type definition or more.               *)
LeadsTo(o) == Closed(Definitions(o), UNION {graph[k] : k \in DOMAIN graph}, Definitions)

(* The order of topoSort: what an object outside all cycles leads to is    *)
(* found before it, whatever cycles are on the way and wherever the search *)
(* begins.                                                                 *)
TopoOrder ==
  \A i, j \in DOMAIN order :
    i < j /\ order[j] \in LeadsTo(order[i]) => order[i] \in LeadsTo(order[i])

(* sourceinfer/analyzer.go:222 "If the graph contains cycles, the order    *)
(* within a cycle is not specified, but the order of nodes outside the     *)
(* cycle will not be affected": an object outside all cycles is found      *)
(* before what leads to it.  Not so if that is on a cycle: what the cycle  *)
(* leads to elsewhere can be visited after it.                             *)
OutsideCycles ==
  \A i, j \in DOMAIN order :
    i < j /\ order[j] \in LeadsTo(order[i]) => order[j] \in LeadsTo(order[j])

(* What types are made of, over all packages.                              *)
MadeOf(o) == {t \in Defined : o \in FindObjects(Types[t[1]].def)}
Below(o) == Closed(MadeOf(o), Defined, MadeOf)
Roots ==
  {o \in Defined \cup UNION {FindObjects(Types[t[1]].def) : t \in Defined} :
     ConfiguredSource(o) \/ Tagged(o)}

(* Doc of the Analyzer: a type is inferred to be a source if and only if   *)
(* it is defined from a source or has one inside, by any chain of          *)
(* definitions over any packages, whatever the order of the passes and of  *)
(* the keys of the graph.  A type that is a source by itself is inferred   *)
(* to be one when a source outside all cycles leads to it, or when it is   *)
(* made of a source that it does not lead back to; what leads to it on     *)
(* cycles further away may come after it in topoSort (OutsideCycles).      *)
InferredExactly ==
  Inferred => \A p \in Package : \A t \in ToSet(TypeSpecs[p]) :
    LET above == {r \in Roots \ {t} : t \in Below(r)}
    IN  /\ t \in inferred[p] => above # {}
        /\ above # {} /\ t \notin Roots => t \in inferred[p]
        /\ (\E r \in above : \/ r \notin Below(r)
                             \/ t \in MadeOf(r) /\ r \notin Below(t)) => t \in inferred[p]

(* A type that the source analyzer takes for a source by what it consists  *)
(* of (sourcetype.IsSourceType) is configured or inferred: the two ways to *)
(* look through types agree.                                               *)
Tags == UNION {TaggedFields(s) : s \in {t \in DOMAIN Types : Kind(t) = "struct"}}
SourceTypesInferred ==
  Inferred => \A p \in Package : \A t \in ToSet(TypeSpecs[p]) :
    IsSourceType(t[1], Tags) => t[1] \in Configured \/ t \in inferred[p]
=============================================================================
