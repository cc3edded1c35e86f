# go-flow-levee in TLA+

go-flow-levee is a static analysis for Go: it reports *sources* (values of
configured types, tagged fields) that may reach *sinks* (configured functions,
`panic`) without passing through a *sanitizer*. It has two engines on the SSA
form that `golang.org/x/tools/go/ssa` builds: a taint **propagation** along SSA
referrers and operands, and the **EAR** pointer analysis, a unification of
abstract references whose heap is then searched.

This directory holds TLA+ models of those parts, TLC configurations that check
them on small instances, and proofs that TLAPS checks for every value of the
constants. All source paths below are under `src/internal/pkg/`.

- [Inventory](#inventory) of the system
- [Modules](#modules): what models what, and how
- [Runs](#runs): what is checked, with which bounds
- [Theorems](#theorems): what is proved, and along which argument
- [Where code and comments disagree](#where-code-and-comments-disagree), and
  [other limits of the code](#other-limits-of-the-code)
- [Plan](#plan) of what is still to be modelled and proved

## Inventory

| component | state | operations | interacts with | what makes it correct |
|---|---|---|---|---|
| `earpointer/state.go` EAR heap | union-find forest `parents`, table `partitions` of field maps; frozen `Partitions` | `Insert`, `representative`, `Unify` (cascading through field maps), `ToPartitions`, lookups | called by the visitor of `analysis.go`, frozen for `taint.go` | lookups end; table keys are exactly the representatives; partitions hold what the constraints ask and nothing more; freezing mixes no partitions |
| `earpointer/analysis.go`, `heap.go` visitor | `state`, calling contexts, callees | one visit per SSA instruction: `unifyLocals`, `unifyField`, `unifyFieldAddress`, `unifyByValue`, calls | writes field maps of the heap directly | every instruction's constraint is in the heap, whatever the order of the visits; contexts match call sites |
| `earpointer/taint.go` EAR taint | sets of references, `reachable` functions, `traces` | `boundedReachableFunctions`, `srcRefs`, `fieldRefs`, `canReach`, `SourcesToSinks` | reads the frozen heap and the call graph; result read by `levee` | a search bounded by the span and no more; searches end on cyclic heaps; the trace does not depend on map order |
| `propagation` | `tainted`, `sanitizers`, and per path `maxInstrReached`, `lastBlockVisited` | `Taint`, `taintNeighbors`, `taintStdlibCall`, `taintSelect`, `IsTainted` | summaries, `sanitizer`, field tags; called by `levee` and `fieldpropagator` | ends; follows control; misses no flow; does not run backwards in time |
| `propagation/summary` | two tables | `For` | `propagation` | says what the library does |
| `sanitizer` | - | `Dominates` | `propagation` | only sanitizers that are sure to have run count |
| `config` | `configBytes`, `cache`, one `once` per file | `SetBytes`, `ReadConfig` | every analyzer, each in its own goroutine | one read per file, one answer for all, no call waits for ever |
| `config/regexp` | - | matching | `config` | - |
| `fieldtags` | facts about fields | `run` | driver's fact store; all source decisions | facts of dependencies are there when they are asked for |
| `fieldpropagator` | facts about methods | `run` | `propagation`, fact store; `source` | a method that returns tainted data is known wherever it is called |
| `sourcetype` | `seen` types | `IsSourceType` | `source` | ends on recursive types; finds sources in composites |
| `sourceinfer` | object graph, facts | `createObjectGraph`, `topoSort`, `inferSources` | fact store; no other analyzer reads its result | all and only the types a source leads to, whatever the map order |
| `source` | - | `identify`, `isSourceNode`, `isProducedBySanitizer` | gives `propagation` and EAR taint their roots | every source value of a function is a root |
| `suppression` | set of syntax nodes | `run` | `levee` | a comment above or beside a sink is found |
| `levee`, `pkg/levee`, `cmd/levee` | - | `runPropagation`, `runEAR`, `isSuppressed` | all of the above | a report for every tainted sink that is not suppressed |
| `utils` | - | names, dereferencing | all | dereferencing ends |
| `debug/*` | - | dumps of SSA and CFGs | - | - |

What is hard here. There is little concurrency: one goroutine per package and
analyzer, which share only the configuration cache and the driver's facts. The
difficulties are those of worklists and graphs: loops over Go maps in random
order whose bodies change what a later turn reads; a recursion that rewrites the
structure it walks (`Unify`); a depth-first search in which one piece of state is
global and another is copied along each path (`taint`); visited sets that double
as results; bounds that cut a search; and a frozen copy that must say what the
mutable one said. `PROJECT.json` lists each hazard at its line.

## Modules

### EAR heap: `Forest`, `EARState`, `AbstractPartition`

`Forest` has the operators of union-find: `Chain` (the references a climb
visits), `Root`, `Lookup` (insertion and path compression), `Link`. They are
defined by least closed sets and not by recursion, so that TLAPS can reason about
them.

`EARState` is the heap as a state machine. `parents` and `partitions` are the
code's maps. Its clients call `Insert`, `CallUnify` (`unifyLocals`) and
`CallUnifyField` (`unifyField`, which writes a field map directly) when no call is
running. A unification is not one step: `Unify` calls `unifyReps`, which calls
`mergeFieldMap`, which calls `Unify` for each pair of its local map `toUnify`.
The variable `frames` is that recursion, one set of pairs for each activation, and
`UnifyOne` is one `Unify`: two lookups with compression, the union of two
partitions, the merge of their field maps. Both loops range over Go maps, so any
pair may be next, and of several common fields that hold the same reference any
one may be the one that survives in `toUnify`. `ToPartitions` begins to freeze the
heap: `OptParents` and `MembersOf` are the first two parts of `finalize`. The other two
are loops over maps, one that overwrites the field maps it ranges over and one that
appends to the lists of the reverse map; they are taken entry by entry (`Normalize`,
`Reverse`), an object at a time and in any order, and `toNormalize` and `toReverse` are
what they have left. `numMembers` is in the model with the value that the code leaves in it.

Two history variables, `unified` and `stored`, hold what the clients asserted; the
properties compare the heap with them. `MaxCalls` bounds them.

A reference is a model value with a source position (`Pos`), which breaks ties in
a union. Its kind (local, global, synthetic) and its type make no difference to
`state.go`.

`AbstractPartition` is what the heap promises: an equivalence that only grows, by
one union at a time. `EARState` refines it, with "same root" for the equivalence.

### Propagation: `Propagation`, `AbstractTaint`, `TaintedRun`

`Propagation` is `propagation.go` and `stdlib.go`. `prog` is a function: numbered
nodes with their kind, operands, block and referrers, and the control flow graph.
`ProgramsAssumption` is what go/ssa guarantees of it: the referrers of a value are what
has it among its operands, and come after it in its block unless the block is in a loop;
an instruction that is an operand has its user among its referrers; the channels and the
values sent of a `Select` are operands. The kinds group the cases of
`taintNeighbors` that do the same:

| kind | SSA instruction |
|---|---|
| `alloc` (special: of an array) | `Alloc` |
| `field` (special: a source field) | `Field`, `FieldAddr` |
| `index` | `Index`, `IndexAddr`, `Slice` |
| `write` | `Store`, `MapUpdate`, `Send` |
| `both` | `MakeInterface`, `TypeAssert`, `UnOp` |
| `value`, `extract` | `BinOp`, `Change*`, `Convert`, `Extract`, `Make{Chan,Map,Slice}`, `Phi`, `Range`, and values in no block |
| `select`, `go` | `Select`, `Go` |
| `sanitizer`, `append`, `copy`, `call` | `Call` |
| `inert` | the rest |

The recursion `taint` -> `taintNeighbors` -> `taintReferrers`/`taintOperands` ->
`taint` is `stack`: the calls still to be made, in the order in which the code
makes them, each with the `maxInstrReached` and `lastBlockVisited` it is passed.
`Visit` is a call that goes on, `Skip` one that `shouldNotTaint` refuses,
`NextState` one turn of `taintSelect` (its states read `tainted` as it goes, so
they cannot be put on the stack at once) and `NilExtract` the call with a nil
`*ssa.Extract` that `taintStdlibCall` may make.

Inside a block the number of a node stands for its index: `maxInstrReached` starts
at 0 where the code's map has no entry, and no instruction number is below 1, as no
index is below 0.

`AbstractTaint` promises that each step taints at most one node and one that an
edge of the graph (`FlowsTo`) leads to from a tainted one.

`TaintedRun` is what the search is judged by. When it is over, the function
executes, instruction by instruction, choosing its branches and its select states
freely; `live` says which nodes hold source data. The meaning of an instruction is
Go's, that of a library call is its `Summary`. `NoMissedFlow` relates the two: a
sink to which some execution hands source data, no sanitizer having run, is
tainted and not sanitized in the sense of `IsTainted`.

### Configuration: `ConfigCache`, `AbstractConfig`

`ConfigCache` is `ReadConfig` with any number of goroutines. The lines between two
synchronisations are one action each: the test for `configBytes`, `mu.Lock`, the
lookup, the creation of an element, the (deferred) unlock, and for `once.Do` its
beginning, the reading of the file, the parsing, its end. A file's contents are one
value, valid or not; the environment changes or removes files at any time. `SetBytes`
and the flag change between analyses only, as their users do
(`pkg/levee/levee.go`, `config/set_config_bytes_test.go`). `AbstractConfig` is a
write-once register for each place a configuration comes from.

### Types: `GoTypes`, `SourceTypes`

`GoTypes` is a type environment, a function from identities to what they are, and
the questions that the analyzers ask of it: `typeMayShareObject`,
`isUnifyByReference`, `isFieldAddressable`, `makeField`, `utils.Dereference`.
`SourceTypes` adds `sourcetype.IsSourceType` and `findObjects` of `sourceinfer`; both
walk cyclic type graphs and are written with `Closed`, the closure of a set of types
under a step, which is what the code's visited sets compute.

### EAR analysis: `EARAnalysis`, `EARMeaning`

`EARAnalysis` is the visitor of `analysis.go`. A program is a record of functions,
each a list of instructions, and of values with their types. `Init` is what `analyze`
does first: contexts are collected (`CollectContext`), references inserted
(`InitGlobalReferences`, `InitFunction`). `VisitFunction` takes the next function, any
one, as the loop over `fns` may; `VisitInstruction` the next instruction. There is one
operator for each visit method (`VisitPhi`, `VisitExtract`, `VisitCall`, ...), and what
it does to the heap is a sequence of constraints on the variable `agenda`:

| constraint | code | asserted by |
|---|---|---|
| `unify` | `state.Unify` | `AssertUnify` |
| `field` | `unifyField` | `AssertField` |
| `address` | `unifyFieldAddress`, with `getPointee` | `AssertAddress` |
| `load` | the body of `visitField` | `AssertLoad` |
| `copy` | `unifyByValue` | `AssertCopy` |
| `copyPlain`, `copyAddressed` | `unifyFields` | `AssertCopyPlain`, `AssertCopyAddressed` |

Each assertion ends before the next begins, with the cascade that it starts: `frames`
is the recursion of `EARState`, whose operators (`UnifyReps`, `Push`, `OptParents`, ...)
are taken through `INSTANCE`. `ProgramsAssumption` is what the code relies on in what
go/ssa and `source` hand it: functions have bodies, a call or a panic is one instruction,
of one function, and a source is a value of the function it is listed under
(`WellFormed`); and, as the type checker has seen to, operands are values, calls fit the
functions they call, tuples and iterators come from the instructions that make them, and
addresses are of types that share (`WellTyped`). `StepUnify` is one `Unify` of a cascade,
and `Finish` is `ToPartitions`. References are built from a context, a register and the kinds of
synthetic wrapped around it.

`EARMeaning` says what the analysis should find, from the comments of the visit
methods: each instruction states equations (two references are the same, or one is a
field of the other), and their least congruence is the answer. It knows neither order
nor heap.

### EAR taint: `CallSpan`, `EARTaint`

`CallSpan` is `boundedReachableFunctions` of `earpointer/taint.go`. Its `stack` is the
recursion: for each activation the depth it has left and the edges it has still to
follow, callees first. The order of the edges is the callgraph package's and left free.

`EARTaint` is the rest of the file, on the heap that `EARAnalysis` has frozen:
`RangeOver` takes the next function with sources, `ExploreSpan` is a step of
`CallSpan` (an instance of it), `SearchSource` is `srcAliasRefs`, each `SrcRefs` one
call of `srcRefs`: `Marked` is what it marks, `Further` the calls it makes in turn, and
what it finds in tagged fields it hands to `fieldRefs` (`TaintField`). `LookAt` takes the
next sink, any one; `canReach` hands each of its operands to `fieldRefs` (`SinkOperand`)
and `TraceSink` records one of the sources it may return (`CanReach`).

`fieldRefs` is the same code for both and is not one step: it recurses through the heap,
passes over what its traversal has visited and adds what it finds to the caller's result.
`descent` is that recursion, for each activation the field values it has still to come
to, and `FieldRefs` one turn of the innermost loop. The set `visited` is the traversal's:
it serves all the tagged fields of one source (`SearchSource` empties it), while every
operand of a sink begins with an empty one, as the code makes a `heapTraversal` for each.
So a reference that one call leaves to another, which has visited it but collected it
into another result, is a behaviour of the model: with one traversal for all operands,
the mutant `SinkOperand_oneTraversal`, `FlowsReported` is violated. `srcRefs` itself
keeps no visited set, and has none here.

### Source inference: `SourceInfer`

`sourceinfer/analyzer.go`, one pass for each package after the passes of its imports.
`StartPass` builds the object graph. `VisitKey` and `VisitNext` are `topoSort`: the
next key, any that is not visited, and one turn of the loop of `visit`, whose recursion
is the stack `dfs`; an object leads to the types defined with it, taken in the order of
their definitions, as the code appends them. `Sweep` and `Infer` are the outer and the
inner loop of `inferSources`. The facts of a package are its entry in `inferred`.

`ImportsAssumption` and `TypesAssumption` are what the Go type checker guarantees: a
type is defined once, from types of its package and of those that it imports, directly
or not; a named type shares its underlying type with what it is defined from, or is
one like `error`, which has no parts; only named types are configured. One thing more
is assumed: that no pointer type consists of itself alone, as in `type P *P`, for which
`Dereference` does not return.

### The analyzers together: `Levee`

A pass of `fieldtags`, `fieldpropagator`, `suppression`, `source` or `levee` over a
package is an action, enabled when those it `Requires` have run on the package and, if
it exchanges facts, it has run on the imports: the driver's order, with nothing else
fixed. `FieldTags` and `FieldPropagators` export facts and read all that were
accumulated (`AllObjectFacts`); `Sources` is `identify`; `StartLevee` and `Report` are
`runPropagation`, a function at a time in any order; `RunEAR` is the other engine.
Functions are flat: what propagation does inside one is the relation `next` of the
nodes, as `Propagation` is its model; what the EAR heap connects is the relation
`flows`, as `EARTaint` is its model. `ProgramsAssumption` says that an instruction
mentions only fields and calls only functions of packages that its own imports, directly
or not, and that a flow stays in a package, as the SSA form of a pass has only the bodies
of its package. `earpointer.Analyzer`, which reads nothing of the
others, is left out of `Requires`.

### Checking and proving

`MCEARState`, `MCEAR`, `MCTaint`, `MCConfigCache`, `MCCallSpan`, `MCSourceInfer` and
`MCLevee` extend the modules with the instances that the configurations name. `MCTaint`
builds functions from templates: on a given control flow graph, every choice of the
instructions of some positions.

Eight modules hold proofs. `EARState_proofs` (with the lemmas about `Forest`),
`EARMeaning_proofs`, `Propagation_proofs`, `ConfigCache_proofs`, `CallSpan_proofs`,
`SourceInfer_proofs` and `Levee_proofs` have the theorems about the module they are
named for (`EARMeaning_proofs` about `EARAnalysis` and `EARTaint` too, which `EARMeaning`
extends). `ClosureTheorems` knows no part of the system: it has induction over the
naturals stated of sets, the form in which the provers can instantiate it, and what it
gives for finite graphs, that the closure which a search with a visited set computes,
or a recursion that grows a set until nothing is new, is the least set that no edge
leaves (`Hull`), and for functions defined by recursion on a number, that they exist and
are iterates (`Iterate`), which settle if they are bounded.

## Runs

| run | instance | shows |
|---|---|---|
| `ear_two_fields` | 3 references, 2 fields, 5 client calls, symmetric | `TypeOK`, `LookupsEnd`, `PartitionsAtRoots`, `FieldTargetsKnown`: no cascade breaks the heap. `NoSpuriousUnification`: nothing is put together that some solution of the constraints keeps apart. `FieldsKept`: no asserted field is lost. `RevFieldsInverse`: when the loops of `finalize` have ended, in whatever order, an object is among the `FieldParents` of a reference once for each of its fields that holds it. `AbstractSpec` |
| `ear_one_field` | 4 references, 1 field, 3 client calls | `ConstraintsHold`: after each call all that was asserted holds. `UnifyReturns`. `FreezeKeepsPartitions`, with parent chains of three links |
| `taint` | 21 244 functions | `NoMissedFlow`, `NothingInThePast`, `TaintFollowsControl`, `SearchEnds`, `TypeOK`, `AbstractSpec` |
| `config_cache` | 3 goroutines, 1 file, 2 contents | `CallersAgree`, `OneReadPerFile`, `ConfOrError`, `CallsReturn`, `TypeOK`, `AbstractSpec` |
| `call_span` | 4 functions, at most 5 calls, spans 0 to 4 | `WithinSpan`, `LargeSpanReachesAll`, `TypeOK` |
| `ear` | 19 programs, contexts of 0 to 2 call sites, spans 0 to 3 | `AliasesJustified`: registers share a partition only if the equations make them equal. `EquationsHold`: the heap satisfies the equations. `TracesJustified`, `FlowsReported`: a trace is a flow within the span, and with a wide span every flow has one. `OwnSourcePreferred`: a source of the sink's own function wins. `RepresentativesKnown`, `HeapGrows`: whatever the visits write to the heap themselves, its structure holds and nothing is lost. `TracesWithinSpan`: no trace, at any time, is longer than the span. `SearchEnds` |
| `source_infer` | 4 packages, 15 type definitions | `TopoOrder`: what an object outside all cycles leads to is found before it, whatever cycles there are on the way. `InferredExactly`: a type that is no source by itself is inferred if and only if a source leads to it through definitions of any packages; one that is, if a source outside cycles leads to it or it is made of a source that it does not lead back to. `SourceTypesInferred`: `sourcetype` and `sourceinfer` agree |
| `levee` | 4 programs of 1 or 3 packages, both engines | `ReportsExact`: whatever the order of passes and maps, the reports are those of the program as a whole. `OneReportPerSink` |

The runs that end in a violation are in the section on disagreements below.

**Bounds.** Three references are enough for a union whose cascade unifies the
partitions of an outer activation, for field maps that form a cycle, and for a
clash on both fields; four make the first parent chain of three links, the
shortest that `finalize` can get wrong. Five calls on three references reach every
partition with fields. The families of `MCTaint` have one to six blocks: a branch
that rejoins is the least graph with blocks that do not dominate each other, a
loop with a branch the least in which a block is reached from itself. Four
functions are the fewest with two paths of different lengths to a function that
has a further callee. Three goroutines: one in the once, one that waits for it, one
at the mutex.

The programs of `ear` have one to three functions and two to eight instructions, each
about one family: field and index addresses, maps, channels and selects, interfaces,
strings, closures, tuples, globals, `append` and `copy`, calls with one and two call
sites of context and a function that calls itself; then sources whose tagged and other
fields are sunk, two tagged fields that hold one cyclic list, a source beyond the span and
a value sunk twice, two sources for one sink, a map of sources.
Contexts of one and two sites are tried on calls with several sites for one function and
on recursion, the least in which comparing too few of the last sites mixes two calls.
The graph of `source_infer` has a source at each end of an import, a cycle of two
types, a type that is its own part, a pointer by name, and a chain over three packages
of which the last does not import the first; a fourth package has two sources on one
cycle and a third that it leads to, the least for which the order of the map decides what
is inferred. `levee` has a fact that crosses two imports, two sources for
a sink, and one node of each kind that `isSourceNode` tells apart.

**What the families of `taint` leave out.** `NoMissedFlow` is false of the code in
general: the section on limits names the shapes, and configurations that show each.
The families have at most one write into an object before a sink reads it, sinks of
a loop after the loop, objects made outside branches that are parameters, and
selects in straight lines.

**What `ear` leaves out.** `EquationsHold` and `FlowsReported` speak of the programs
marked `exact`. The others have a `copy` whose partition a slice represents, whose
elements `isFieldAddressable` takes to be in place, and a `Field` of a struct without a
mapping, where the value takes the place of its address: precision is checked of them,
completeness is false of the code. Nor are aliases justified in every program with a
`Field`: of `v = *p; x = v.y; a = &p.y` the analysis puts the value `x` and the address
`a` in one partition, which `visitField` calls an over-approximation
(`analysis.go:302`). In `Fieldwise` the address is taken first, and they are. Tuples, closures and globals are exact without call
sites of context, which is the default of `contextK`; with one they are not
(`ear_in_context`). `OwnSourcePreferred` speaks of calls, as the branch for panics has no
such preference.

**Fairness.** `EARState` assumes weak fairness of `StepUnify`, `Propagation` and
`TaintedRun` of the search: each is one call on one goroutine, which runs until it
returns. No client is assumed to make a call. `EARTaint` assumes that the analysis and
the search go on (`GoesOn`), for the same reason; that the analysis can go on until the
heap is frozen is spelt out instead of `ENABLED`, and deadlock is checked. `ConfigCache` assumes weak fairness
of each goroutine's steps (the Go scheduler is preemptive), and strong fairness of
`Lock`: `sync.Mutex` goes into starvation mode after a millisecond and hands itself to
the waiter at the front.

**Deadlock** is checked in `config_cache`, `ear`, `source_infer` and `levee`, which say
themselves when they have ended. The others stop: a heap when it is frozen or its calls
are used up, a search when its stack is empty.

## Theorems

All hold for every value of the constants that satisfies the named assumptions of the
modules: any references, fields and source positions and any number of client calls
(`PosAssumption`), any function as go/ssa builds them (`Propagation!ProgramsAssumption`),
any callers, files and contents (`ConfigAssumption`), any finite call graph and any span
(`CallSpanAssumption`), any packages and types the Go type checker accepts
(`ImportsAssumption`, `TypesAssumption`), any program (`EARAnalysis!ProgramsAssumption`,
`Levee!ProgramsAssumption`). TLC
evaluates every one of these on the instances of the runs.

| theorem | states |
|---|---|
| `EARState_proofs!Typing` | `[]TypeOK` |
| `EARState_proofs!LookupsAlwaysEnd` | `[]LookupsEnd`: the parent map is a forest |
| `EARState_proofs!NeverFatal` | `[]PartitionsAtRoots`: `log.Fatalf` of `partitionInfo` is unreachable |
| `EARState_proofs!TargetsAlwaysKnown` | `[]FieldTargetsKnown` |
| `EARState_proofs!Precision` | `[]NoSpuriousUnification` |
| `EARState_proofs!Refinement` | `Spec => AbstractSpec` |
| `EARState_proofs!FieldsAlwaysKept` | `[]FieldsKept` |
| `EARState_proofs!Completeness` | `[]ConstraintsHold`, in behaviours in which no merge forgets a pair (`[][ForgetsNothing]_vars`) |
| `EARState_proofs!OneFieldComplete` | `[]ConstraintsHold` with one field, without that hypothesis |
| `EARState_proofs!FreezingKeepsPartitions` | `[]FreezeKeepsPartitions` |
| `EARState_proofs!FieldParentsInvert` | `[]RevFieldsInverse` |
| `EARMeaning_proofs!RepresentativesAreKnown` | `[]RepresentativesKnown` |
| `EARMeaning_proofs!HeapOnlyGrows` | `HeapGrows` |
| `EARMeaning_proofs!AliasesAreJustified` | `[](Plain => AliasesJustified)` |
| `EARMeaning_proofs!TracesKeepToSpan` | `[]TracesWithinSpan` |
| `Propagation_proofs!Typing` | `[]TypeOK` |
| `Propagation_proofs!NothingUpstream` | `[]TaintFollowsControl` |
| `Propagation_proofs!NothingEarlier` | `[]NothingInThePast` |
| `Propagation_proofs!Refinement` | `Spec => AbstractSpec` |
| `ConfigCache_proofs!Typing` | `[]TypeOK` |
| `ConfigCache_proofs!AlwaysConfOrError` | `[]ConfOrError` |
| `ConfigCache_proofs!CallersAlwaysAgree` | `[]CallersAgree` |
| `ConfigCache_proofs!FilesReadOnce` | `[]OneReadPerFile` |
| `ConfigCache_proofs!Refinement` | `Spec => AbstractSpec` |
| `CallSpan_proofs!Typing` | `[]TypeOK`: the unsigned depth never wraps |
| `CallSpan_proofs!NeverBeyondSpan` | `[]WithinSpan` |
| `CallSpan_proofs!LargeSpansSuffice` | `[]LargeSpanReachesAll` |
| `SourceInfer_proofs!SortsOutsideCycles` | `[]TopoOrder` |
| `SourceInfer_proofs!InfersExactly` | `[]InferredExactly` |
| `SourceInfer_proofs!InferenceAgrees` | `[](ConfiguredAreNoPointers => SourceTypesInferred)` |
| `Levee_proofs!AlwaysOneReport` | `[]OneReportPerSink` |
| `Levee_proofs!NeverSuppressed` | no report is about a suppressed sink |
| `Levee_proofs!ReportsAlwaysExact` | `[](FactsAreOwn => ReportsExact)` |

**The heap.** The lemmas about `Forest` show what the three operations do to roots:
`Lookup` leaves every root as it was and adds new references as roots of their own,
`Link` moves one root under another, both keep the map a forest. A climb ends because a
set that no parent link leaves holds a representative; the chain of a reference is the
least such set around it. `TypeOK`, `LookupsEnd`, `PartitionsAtRoots` and
`FieldTargetsKnown` are proved inductive together, since a union needs field maps at both
representatives and the table is changed at the roots the forest names. `Precision` needs
two more conjuncts, one for the field maps (what a partition holds in a field agrees, in
every solution, with what was asserted for any object of its class) and one for `frames`
(a pending pair is equal in every solution): a cascade is sound because a common field of
equal objects has equal values.

**What the heap keeps.** `ConstraintsHold` says nothing while a cascade runs, so its
invariant (`CompleteInv`) has to say what the cascade still owes: *every labelling of the
references that is constant on the partitions and equates the pending pairs satisfies all
that was asserted*. A merge keeps this because a labelling of the heap after it, with the
pairs it pushes, is one of the heap before; with no pair left, the representatives are
such a labelling. The step fails in one place, the clash that `toUnify` loses
(`ear_lost_clash`), and `ForgetsNothing` is the condition on a step that excludes it and
nothing else: where the losing partition holds one value under two common fields, the
winning one holds values that are unified already. With one field there are no two.
With `Precision`, the partitions are then the least solution of the constraints.

**What the frozen heap says.** `FrozenInv` is the invariant of the loops of `finalize`.
Nothing changes the forest and the table any more; an entry of a field map holds what it
held or its frozen representative, according to whether the loop has come to it
(`Overwriting`); and for every object and every reference, the fields that hold the
reference and have been come to are as many as the places of its list that name the object
(`Accounted`). A turn of `constructFieldParentMap` adds one to both for one object and one
reference and to neither for the others. A turn of `finalize`'s loop could move a field
from one reference to another behind the list's back; it does not since nothing is listed
while an entry is left to overwrite (`Reversing`). At the end all entries of all field maps
have been come to, as every object with a field map is its own frozen parent and so among
the keys of `members`.

**The visitor.** `EARState` has clients that unify and write fields one by one;
`EARAnalysis` has those there are. They put references and fields into the heap in seven
ways (`SetFieldIs`, `PutEnlarges`, `WithPointeeEnlarges`, `WithMissingEnlarges`,
`CopyEnlarges`, `AfterEnlarges`), of which `unifyByValue` writes two field maps at once
that may belong to one partition. The invariant is `Sound`: the parent map is a forest
that leads from references to references, the table has an entry for each root. Two
relations between heaps compose, that of adding what was not there (`Enlarges`) and that
of one `Unify` (`Unifies`), and each step of the analysis is one of them, so `HeapOnlyGrows`
follows from the same lemmas: a constraint (`AssertEnlarges`) only adds, a unification
(`UnifyIs`) joins the two partitions of its pair and gives the union the fields of both.
`Init` has to be shown `Sound` as well: the heap begins with a reference for each register
in each of its contexts, and it is a finite forest only if the contexts of a function are
finitely many (`ContextsAre`), although functions call themselves: `CollectContext` goes
back a bounded number of calls.

**Precision of the visitor.** `AliasesAreJustified` is the argument of `Precision` for a
whole program. First, whatever the order, what is on the agenda is among the constraints
that the equations justify (`Owed`, `VisitOwed`): this goes through every visit method, and
through the arguments, bindings and returns of calls. Second, a labelling gives each
reference a label and each field of a label another; one that satisfies the equations
(`Models`) is one of every heap that the analysis comes to: a partition has one label, what
a field holds has the field's, and pending pairs have one each. This is `PrecisionInv`,
with all labellings in it, and each operation of the heap keeps it (`AfterIsLabelled`,
`PutIsLabelled`, `PointeeIsLabelled`, `UnifyLabelled`). Third, the solution is such a
labelling (`SolutionLabels`): the recursion of `CongruenceOf` ends in a partition of the
terms with nothing left to merge (`SolutionIs`), since there are finitely many terms and
each merge leaves fewer classes. So references of one partition are of one class.

The theorem is about programs that are `Plain`, fifteen of the nineteen that `ear` checks.
`contextK` is 0, the default of its flag (`analysis.go:40`). There is no `Field`
and no `copy`: both write what the equations do not say, and with `Field` the statement is
false (see what `ear` leaves out). The operand of an address and a value stored in a map or
sent are no constants, since a `nil` has a reference in the code but is no object.

**The traces.** `TracesWithinSpan` rests on the argument of the span above once more, for
the activations of `EARTaint` (`Activations`): an activation with `n` calls left has edges
to functions that are at most `span - n` calls from the function of the sources. What is
reached is then within the span (`ReachIs`), a sink is traced only if it is in the reach,
and a call is an instruction of one function (`SinkIsIn`). A trace that another replaces,
because its source is in the sink's own function, stays within too.

**The propagation.** `TaintFollowsControl` is not inductive: a value in no block (a
parameter, a constant) may lead anywhere. The strengthening `IInv` says what the stack
owes: each pending call is to a node that an edge of `FlowsTo` leads to from a tainted
one, and its `lastBlockVisited` is a block that control reaches from the root's, unless it
is one of the root's own referrers, which go/ssa places after the root. `NothingInThePast`
needs two facts besides: a call of which nothing is used is never come to backwards, as an
operand (`MayBeOperand`), and, if no loop comes back to the root's block, a pending call
carries a `maxInstrReached` of at least the root's index there, or comes from another block
(`PastRoot`).

**The configuration.** The invariant has a part for each of the three mechanisms of
`ReadConfig`: the mutex (who is inside holds it, so what the lookup saw of the map is true
when the element is created), the map (no two files share an element, and who has left the
mutex holds the element of its file), the once (one caller is inside the function of an
element, and has it running) and, from these, the answers (what is done is not written
again, and what was returned is what stands there). The refinement maps a file's register
to the answer of its element once that is done.

**The span.** The activation at level *l* of the recursion has `span - l` left and follows
calls of functions that are *l* calls away (`LevelInv`): so nothing beyond the span is
found. Every level but the first is that of a function in the result, so the depth of the
stack is at most the size of the result and one more (`CountInv`), and a span of the size
of the component is used up only when all of it has been found (`FoundInv`). `Around`, the
ball of radius *k*, is a recursive function; that it exists, grows and stops growing is
shown by `ClosureTheorems!Induction`.

**Source inference.** `topoSort` is a depth-first search: the visited objects are the found
and those on the stack, what is on the stack leads to all above it, and what a found one
leads to has been visited (`VisitedInv`, `StackInv`). From this, what an object outside
cycles leads to is found before it (`OrderInv`). The sweep keeps that it has seen all that
the starts it has come to lead to, but for what its stack leads to (`SeenInv`), and that
what it has seen is inferred, or will be when it is popped, or was a start that no later
start in the order leads to (`InferInv`): there is no better, since `inferSources` never
infers a start from itself. Over packages the invariant is `Exact` for each that is done; a
chain of definitions enters a package from a package it imports (`EntersPackage`), whose
own types are exact and are the facts the pass reads. `InferenceAgrees` follows a type's
parts by `IsSourceType` and shows that each is an object, or leads to one, that
`findObjects` finds (`ComponentsLead`). Its hypothesis is needed: see `type P *T` below.

**Levee.** `OneReportPerSink` needs that the passes come in the order of `Requires`, that a
function is looked at once, and that the EAR engine and propagation do not both run.
`ReportsExact` compares the reports with the program as a whole, which no pass sees: the
facts a pass has are those of the packages it imports at any distance, and a function of
its package mentions no other fields and calls no other functions, so it computes what it
would with all facts (`SameTaint`, `PropagatorsKnown`, `SourcesKnown`). The invariant says
that the result of each ended pass is this (`FactsInv`), and that for the functions looked
at exactly the connected sinks have reports (`HitsInv`, `MissesInv`). `FactsAreOwn` is the
hypothesis that each fact is about an object of the package that exports it: otherwise
`ExportObjectFact` panics, as `levee_promoted` shows.

**Left to TLC.** The liveness properties `UnifyReturns`, `SearchEnds` and `CallsReturn`.
`NoMissedFlow`, which relates the search to executions and is true of the families of
`MCTaint`, not of all functions. Of `EARMeaning`:
`AliasesJustified` with call sites of context and with `copy`, where the runs find it true
and the argument above has no labelling to offer; `EquationsHold` and `FlowsReported`,
which are true of the programs marked `exact` and not of all (`ear_chain`,
`ear_in_context`); `OwnSourcePreferred`, which is about a complete search and rests on
the same mark; `TracesJustified`, which compares the search of the frozen heap with a
search of the classes. Its references are not all terms of the equations: what points to
nothing the program names has a reference made from whatever represents its address, so
the proof would need, of each such reference, the term it stands for and the functions
that know it.

## Where code and comments disagree

Each has a run that TLC must find violated.

| run | property | the comment, and the code |
|---|---|---|
| `ear_frozen_roots` | `FrozenParentsAreRoots` | `state.go:323` "r1->r2, r2->r3, r3->r4(representative), then the new parent map contains r1->r4". The loop of line 333 climbs one link at most. |
| `ear_endless` | `SearchEnds` | `taint.go:29` "Bounded traversal of an EAR heap". `srcRefs` has no visited set: a source of type `L`, `type L []L`, that holds itself is searched for ever. |
| `taint_second_result` | `NoMissedFlow` | `summary/api.go:68` "the positions of the return values". `stdlib.go:86` takes the positions in the slice: `bufio.ScanLines`, `{1}`, taints result 0. |
| `levee_suppression` | `SuppressedAbove` | `configuration/README.md:110` "in a comment above the line where a report would be produced". `isSuppressed` looks at the call and one node around it: not so for `var x = Sink(s)`. |

The configurations below show more of the same and are here to be run by hand, each
with `tlc -config <name>.cfg` on the module of its component.

| configuration | property | the comment, and the code |
|---|---|---|
| `ear_num_members` | `NumMembersCounted` | `state.go:39` "number of members". `unifyReps` adds to a copy (line 198): every partition's size stays 1, and the join is not weighted. |
| `ear_lost_clash` | `ConstraintsHold` | `state.go:230` "For any common fields, we unify the pointers". `toUnify` is keyed by the old pointer (line 243): if two fields of an object hold one reference, one pair is lost. |
| `taint_dropped_results` | `NeverPanics` | `stdlib.go:76` "one Extract for each returned value". A result that is not used has none, and `taint` is called with nil. |
| `taint_branch_write` | `NoMissedFlow` | `propagation.go:110` "If the referrer is in a different block". The test is made of operands too: a map made before a branch and written in it is not tainted. |
| `call_span_documented` | `DocumentedSpan` | `taint.go:167` "result = {f,g1,g2,g3} if depth>1, and result = {f, g1} if depth=1". Depth 1 finds `g1` alone, depth 2 misses `g2`. |
| `source_infer_cycle` | `OutsideCycles` | `analyzer.go:222` "the order of nodes outside the cycle will not be affected". With `V []I`, `I []V`, `J []V` and `I`, `J` configured, a search that begins with `V` finds `I` and `J` in another order than one that begins with `I`: `J`, outside the cycle, may be found after `I`, which leads to it through the cycle, and whether `J` is inferred depends on the map. |
| `levee_tagged_getter` | `PropagatorsFound` | Doc of `fieldpropagator` "a function that returns a value that is tainted by a source field". Only methods of configured types are looked at, not those of types with tagged fields. |

### Other limits of the code

These contradict no comment. The configurations are here to be run by hand; each
ends in a violation.

- `taint_two_writes` (`NoMissedFlow`): an object is written twice with the sink in
  between. `tainted` is global and `maxInstrReached` is the path's: if the search
  comes to the object from the later write first, the sink is in the past, and from the
  earlier write the object is already tainted.
- `taint_loop_carried` (`NoMissedFlow`): a sink in a loop's body before the conversion
  of the source that the next turn hands it.
- `taint_select_loop` (`NoMissedFlow`): in a loop, a select that receives what its own
  later state has sent.
- `call_span_order` (`SpanReachesAll`): the depth-bounded search does not search a
  function again when it meets it with more depth left.
- `config_set_bytes` (`SetBytesUsed`): `SetBytes` after a first `ReadConfig` has no
  effect (`configBytesOnce`).
- `ear_chain` (`FlowsReported`): a flow that the search misses because three conversions
  in a row make the chain of `ear_frozen_roots`.
- `ear_in_context` (`EquationsHold`): with one call site of context, the value that a
  callee returns in a tuple is looked up in the caller's context, what a closure binds in
  the closure's, and a global variable in the empty one.
- `levee_promoted` (`FactsAreOwn`): the method set of a configured type has the methods of
  an embedded field, and `ExportObjectFact` panics on an object of another package.

Others were found in reading the code for the models and have no configuration:

- `utils.Dereference` does not return for `type P *P`.
- A configured pointer type (`type P *T`) is dereferenced by `findObjects`, so `type Q []P`
  is a source for `sourcetype` and is not inferred by `sourceinfer`.
- `isProducedBySanitizer` looks at the stores into a value in no order; the result of a
  sanitizer that is not stored is a source if its type is one.
- `visitBinOp` takes only the basic type `string` for a string, not a named one.
- `&fmap1 == &fmap2` in `unifyByValue` compares two local variables and is never true.
- `runEAR` reports sinks in functions that the configuration excludes, as it traverses all
  functions in reach; sinks called by `go` or `defer` are not reported by either engine.
- Of several sources on a cycle of types, which of them `inferSources` infers as well
  depends on the order of a map.

## Not modelled

The text of names and their matching (`config/regexp`, the rest of `utils`, the
matchers of `config`), YAML, the contents of the two tables of summaries but for the rows
that `MCTaint` uses, messages, and the debug output: strings and data that no property
tells apart. What a configuration matches is a parameter (`Configured`, `sinks`,
`sanitizers`, ...), and so is the node to which go/ast attaches a comment. go/ssa, the call
graph packages, the analysis driver and its fact store are external; the models assume
what the code relies on. `SourceSinkTrace.Callstack` is never filled.

Two links are by argument and not by refinement: that the relation `next` of `Levee` is
what `Propagation` computes in a function, and that its `flows` are the traces of
`EARTaint`. Each side is checked on its own.

## Plan

1. Done: `Forest`, `EARState`, `AbstractPartition`; `Propagation`, `AbstractTaint`;
   `TaintedRun`; `ConfigCache`, `AbstractConfig`; `CallSpan`; `GoTypes`, `EARAnalysis`,
   `EARMeaning`, `EARTaint`; `SourceTypes`, `SourceInfer`; `Levee`. Every safety property
   that a run finds true is proved, but those that the paragraph *Left to TLC* names; the
   precision of the visitor is proved of plain programs.
2. What would come next: `AliasesJustified` with call sites of context, with an equation
   for each reference that a global or a constant puts in the empty context; an equation
   for what `copy` adds, field by field, so that copies can be plain; and `TracesJustified`
   of plain programs, with the classes of synthetics made terms of the solution.
