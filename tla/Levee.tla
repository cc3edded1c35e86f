------------------------------- MODULE Levee -------------------------------
(***************************************************************************)
(* The analyzers of levee and how the driver composes them: a pass of      *)
(* each over each package, after those of the analyzers it Requires on the *)
(* package and, if it exchanges facts, its own on the imported packages.   *)
(* Between these the order is free, and so is that of the loops over maps. *)
(* A program (Programs) is a record with                                   *)
(*   imports, structs, types, files   package -> packages imported, struct *)
(*        types written, named types declared, comments [on, lines, above] *)
(*   methods      named type -> the functions of its method sets           *)
(*   functions    function -> [pkg, code], code: node -> record            *)
(*   sinks, sanitizers, excluded, sourceFields, allowPanic, useEAR         *)
(*                the configuration, as what it matches                    *)
(*   flows        <<node, node, field>> of the EAR heap, see Reaches       *)
(* The kind of a node tells its instruction.  Its next is where propagation*)
(* takes taint from it, and cleans the instructions it dominates.          *)
(***************************************************************************)
EXTENDS SourceTypes, SequencesExt

CONSTANT Programs

(* The packages whose facts reach the pass over p: p and all it imports.   *)
ImportedBy(pr, p) == Closed({p}, DOMAIN pr.imports, LAMBDA q : pr.imports[q])

(* The fields that a node is about: its own, and those in its type.        *)
Mentioned(node) ==
  {node.field} \cup UNION {Fields(u) : u \in {v \in Components(node.type) : Kind(v) = "struct"}}

(* What Go and its SSA form guarantee of a program: what a function names, *)
(* and the methods of its package's types, are of packages that its own    *)
(* imports, directly or not.  An EAR heap has the bodies of one package.   *)
IsProgram(pr) ==
  LET Tagged(q) == UNION {TaggedFields(s) : s \in pr.structs[q]}
      PackageOf(f) == pr.functions[f].pkg
  IN  /\ IsFiniteSet(DOMAIN pr.imports)
      /\ \A p \in DOMAIN pr.imports :
           /\ pr.imports[p] \subseteq DOMAIN pr.imports
           /\ \A t \in pr.types[p] \cap Configured : \A f \in pr.methods[t] :
                f \in DOMAIN pr.functions /\ PackageOf(f) \in ImportedBy(pr, p)
      /\ \A f \in DOMAIN pr.functions :
           /\ PackageOf(f) \in DOMAIN pr.imports
           /\ IsFiniteSet(DOMAIN pr.functions[f].code)
           /\ \A n \in DOMAIN pr.functions[f].code :
                LET node == pr.functions[f].code[n]
                IN  /\ node.next \subseteq DOMAIN pr.functions[f].code
                    /\ node.kind = "call" /\ node.callee \in DOMAIN pr.functions =>
                         PackageOf(node.callee) \in ImportedBy(pr, PackageOf(f))
                    /\ \A q \in DOMAIN pr.imports :
                         Mentioned(node) \cap Tagged(q) # {} => q \in ImportedBy(pr, PackageOf(f))
      /\ \A flow \in pr.flows :
           /\ flow[1] = <<flow[1][1], flow[1][2]>>
           /\ {flow[1][1], flow[2][1]} \subseteq DOMAIN pr.functions
           /\ PackageOf(flow[1][1]) = PackageOf(flow[2][1])
           /\ \A q \in DOMAIN pr.imports :
                flow[3] \in Tagged(q) => q \in ImportedBy(pr, PackageOf(flow[1][1]))

ASSUME ProgramsAssumption == \A n \in DOMAIN Programs : IsProgram(Programs[n])

VARIABLES
  name, prog,
  done,        \* the <<analyzer, package>> whose pass has ended
  tagFacts, propagatorFacts,   \* package -> the objects it exports a fact about
  tags, propagators, suppressed, sources,   \* package -> the result of the analyzer
  toReport,    \* package -> functions that the pass of levee has not looked at
  reports      \* [sink |-> node, source |-> node], a node being <<function, number>>

leveeVars == <<name, prog, done, tagFacts, propagatorFacts, tags, propagators,
               suppressed, sources, toReport, reports>>

Package == DOMAIN prog.imports
Function == DOMAIN prog.functions
Code(f) == prog.functions[f].code
DeclaredIn(p) == {f \in Function : prog.functions[f].pkg = p}

(* Analyzer.Requires and Analyzer.FactTypes of each analyzer.  That levee  *)
(* also requires earpointer, whose passes read nothing of these, is left   *)
(* out: what its heap says is the program's flows.                         *)
Requires ==
  [fieldtags |-> {}, suppression |-> {}, fieldpropagator |-> {"fieldtags"},
   source |-> {"fieldtags", "fieldpropagator"},
   levee |-> {"fieldtags", "source", "suppression"}]
HasFacts == {"fieldtags", "fieldpropagator"}

MayRun(a, p) ==
  /\ <<a, p>> \notin done
  /\ Requires[a] \X {p} \subseteq done
  /\ a \in HasFacts => {a} \X prog.imports[p] \subseteq done

Imported(p) == ImportedBy(prog, p)

\* Mutant: the facts of the pass itself, for all those accumulated.
AllObjectFacts_own(facts, p) == facts[p]

AllObjectFacts(facts, p) == UNION {facts[q] : q \in Imported(p)}

-----------------------------------------------------------------------------
(* The engine, of which Propagation is the model: what taint reaches from  *)
(* n, and the sanitizers it meets.  taintField stops at other fields.      *)
SourceField(f, known) == f \in prog.sourceFields \cup known

Taint(f, n, known) ==
  LET Neighbors(m) ==
        LET node == Code(f)[m]
        IN  IF \/ node.kind \in {"field", "fieldaddr"} /\ ~SourceField(node.field, known)
               \/ node.kind = "call" /\ node.callee \in prog.sanitizers
            THEN {} ELSE node.next
  IN  Closed({n}, DOMAIN Code(f), Neighbors)

IsTainted(f, tainted, i) ==
  /\ i \in tainted
  /\ ~ \E s \in tainted : /\ Code(f)[s].kind = "call" /\ Code(f)[s].callee \in prog.sanitizers
                          /\ i \in Code(f)[s].cleans

-----------------------------------------------------------------------------
(* fieldpropagator: methods that return what a source's field taints.      *)
AnalyzeBlocks(f, known) ==
  \E n, ret \in DOMAIN Code(f) :
    /\ Code(f)[n].kind \in {"field", "fieldaddr"} /\ SourceField(Code(f)[n].field, known)
    /\ Code(f)[ret].kind = "return"
    /\ IsTainted(f, Taint(f, n, known), ret)

Propagators(p, known) ==
  {f \in UNION {prog.methods[t] : t \in prog.types[p] \cap Configured} : AnalyzeBlocks(f, known)}

(* source: isProducedBySanitizer looks at the calls whose results are      *)
(* stored by the stores that refer to the node (stores).                   *)
ProducedBySanitizer(node) == node.stores \cap prog.sanitizers # {}

AlwaysSources == {"parameter", "assert", "extract", "receive", "field", "fieldaddr",
                  "index", "indexaddr", "lookup", "makemap", "makechan"}

IsSourceNode(node, known, props) ==
  \/ /\ IsSourceType(node.type, known)
     /\ \/ node.kind \in AlwaysSources
        \/ node.kind = "freevar" /\ Kind(node.type) = "pointer"
        \/ node.kind \in {"alloc", "call"} /\ ~ProducedBySanitizer(node)
  \/ node.kind = "call" /\ node.callee \in props /\ ~ProducedBySanitizer(node)

SourcesOf(f, known, props) ==
  IF f \in prog.sinks \cup prog.excluded THEN {}
  ELSE {n \in DOMAIN Code(f) : IsSourceNode(Code(f)[n], known, props)}

(* suppression, and isSuppressed: the name in the call, the call and what  *)
(* the call stands in, path, are looked up among the commented nodes.      *)
SuppressedNodes(p) == {c.on : c \in {d \in prog.files[p] : "DoNotReport" \in ToSet(d.lines)}}
IsSuppressed(node, commented) == {node.fun, node.path[1], node.path[2]} \cap commented # {}

-----------------------------------------------------------------------------
LeveeInit ==
  /\ name \in DOMAIN Programs /\ prog = Programs[name]
  /\ done = {} /\ reports = {}
  /\ tagFacts = [p \in Package |-> {}] /\ propagatorFacts = [p \in Package |-> {}]
  /\ tags = [p \in Package |-> {}] /\ propagators = [p \in Package |-> {}]
  /\ suppressed = [p \in Package |-> {}] /\ sources = [p \in Package |-> <<>>]
  /\ toReport = [p \in Package |-> {}]

Ends(a, p) == MayRun(a, p) /\ done' = done \cup {<<a, p>>}

FieldTags(p) ==
  /\ Ends("fieldtags", p)
  /\ tagFacts' = [tagFacts EXCEPT ![p] = UNION {TaggedFields(s) : s \in prog.structs[p]}]
  /\ tags' = [tags EXCEPT ![p] = AllObjectFacts(tagFacts', p)]
  /\ UNCHANGED <<name, prog, propagatorFacts, propagators, suppressed, sources, toReport, reports>>

FieldPropagators(p) ==
  /\ Ends("fieldpropagator", p)
  /\ propagatorFacts' = [propagatorFacts EXCEPT ![p] = Propagators(p, tags[p])]
  /\ propagators' = [propagators EXCEPT ![p] = AllObjectFacts(propagatorFacts', p)]
  /\ UNCHANGED <<name, prog, tagFacts, tags, suppressed, sources, toReport, reports>>

Suppression(p) ==
  /\ Ends("suppression", p)
  /\ suppressed' = [suppressed EXCEPT ![p] = SuppressedNodes(p)]
  /\ UNCHANGED <<name, prog, tagFacts, propagatorFacts, tags, propagators, sources, toReport, reports>>

Sources(p) ==
  /\ Ends("source", p)
  /\ LET found == [f \in DeclaredIn(p) |-> SourcesOf(f, tags[p], propagators[p])]
     IN  sources' = [sources EXCEPT ![p] = Restrict(found, {f \in DOMAIN found : found[f] # {}})]
  /\ UNCHANGED <<name, prog, tagFacts, propagatorFacts, tags, propagators, suppressed, toReport, reports>>

-----------------------------------------------------------------------------
IsSinkAt(f, i) ==
  \/ Code(f)[i].kind = "call" /\ Code(f)[i].callee \in prog.sinks
  \/ Code(f)[i].kind = "panic" /\ ~prog.allowPanic

StartLevee(p) ==
  /\ ~prog.useEAR
  /\ Ends("levee", p)
  /\ toReport' = [toReport EXCEPT ![p] = DOMAIN sources[p]]
  /\ UNCHANGED <<name, prog, tagFacts, propagatorFacts, tags, propagators, suppressed, sources, reports>>

Reaching(p, f, i) == {s \in sources[p][f] : IsTainted(f, Taint(f, s, tags[p]), i)}
Reported(p, f) == {i \in DOMAIN Code(f) : IsSinkAt(f, i) /\ ~IsSuppressed(Code(f)[i], suppressed[p])}

\* Mutant: no break after the first report.
Report_all(p, f) ==
  /\ f \in toReport[p]
  /\ toReport' = [toReport EXCEPT ![p] = @ \ {f}]
  /\ reports' = reports \cup
       UNION {[sink : {<<f, i>>}, source : {f} \X Reaching(p, f, i)] : i \in Reported(p, f)}
  /\ UNCHANGED <<name, prog, done, tagFacts, propagatorFacts, tags, propagators, suppressed, sources>>

(* The loop of runPropagation for a function: each sink is reported for    *)
(* one of the sources that reach it, the first that the map gives.         *)
Report(p, f) ==
  /\ f \in toReport[p]
  /\ toReport' = [toReport EXCEPT ![p] = @ \ {f}]
  /\ LET reached == {i \in Reported(p, f) : Reaching(p, f, i) # {}}
     IN  \E source \in [reached -> sources[p][f]] :
           /\ \A i \in reached : source[i] \in Reaching(p, f, i)
           /\ reports' = reports \cup {[sink |-> <<f, i>>, source |-> <<f, source[i]>>] : i \in reached}
  /\ UNCHANGED <<name, prog, done, tagFacts, propagatorFacts, tags, propagators, suppressed, sources>>

(* runEAR: SourcesToSinks, whose model is EARTaint, has one trace for each *)
(* sink that it connects to a source, which may be of another function.    *)
Reaches(p, sink) ==
  {s \in UNION {{f} \X sources[p][f] : f \in DOMAIN sources[p]} :
     \E flow \in prog.flows :
       flow[1] = s /\ flow[2] = sink /\ (flow[3] = <<>> \/ SourceField(flow[3], tags[p]))}

RunEAR(p) ==
  /\ prog.useEAR
  /\ Ends("levee", p)
  /\ LET sinks == UNION {{f} \X Reported(p, f) : f \in DeclaredIn(p)}
         reached == {i \in sinks : Reaches(p, i) # {}}
     IN  \E source \in [reached -> UNION {Reaches(p, i) : i \in reached}] :
           /\ \A i \in reached : source[i] \in Reaches(p, i)
           /\ reports' = reports \cup {[sink |-> i, source |-> source[i]] : i \in reached}
  /\ UNCHANGED <<name, prog, tagFacts, propagatorFacts, tags, propagators, suppressed, sources, toReport>>

Finished == (DOMAIN Requires) \X Package \subseteq done /\ \A p \in Package : toReport[p] = {}
Terminated == Finished /\ UNCHANGED leveeVars

Next ==
  \/ \E p \in Package :
       \/ FieldTags(p)
       \/ FieldPropagators(p)
       \/ Suppression(p)
       \/ Sources(p)
       \/ StartLevee(p)
       \/ \E f \in toReport[p] : Report(p, f)
       \/ RunEAR(p)
  \/ Terminated

Spec == LeveeInit /\ [][Next]_leveeVars

-----------------------------------------------------------------------------
(* The answer for the program as a whole, without passes.                  *)
AllTags == UNION {TaggedFields(s) : s \in UNION {prog.structs[p] : p \in Package}}
AllPropagators == UNION {Propagators(p, AllTags) : p \in Package}
Connected(f, i) ==
  IF prog.useEAR
  THEN \E flow \in prog.flows :
         /\ flow[2] = <<f, i>> /\ flow[1][2] \in SourcesOf(flow[1][1], AllTags, AllPropagators)
         /\ flow[3] = <<>> \/ SourceField(flow[3], AllTags)
  ELSE \E s \in SourcesOf(f, AllTags, AllPropagators) : IsTainted(f, Taint(f, s, AllTags), i)

(* In whatever order the passes run and the maps give their keys, what is  *)
(* reported in the end are the sinks to which a source is connected that   *)
(* no comment suppresses: a pass knows every tag and every propagator of   *)
(* the packages its own imports, at any distance, and has no others.       *)
ReportsExact ==
  Finished => \A p \in Package : \A f \in DeclaredIn(p) : \A i \in DOMAIN Code(f) :
    (\E r \in reports : r.sink = <<f, i>>)
      <=> IsSinkAt(f, i) /\ Connected(f, i) /\ ~IsSuppressed(Code(f)[i], SuppressedNodes(p))

(* However many sources reach a sink, there is one report about it.        *)
OneReportPerSink == \A r1, r2 \in reports : r1.sink = r2.sink => r1 = r2

(* configuration/README.md:110: "as long as the exact string               *)
(* levee.DoNotReport appears at the beginning of a line in a comment above *)
(* the line where a report would be produced, the report will be           *)
(* suppressed".  Not so for a sink inside another expression.              *)
SuppressedAbove ==
  \A r \in reports :
    ~ \E c \in prog.files[prog.functions[r.sink[1]].pkg] :
        "DoNotReport" \in ToSet(c.lines) /\ c.above = Code(r.sink[1])[r.sink[2]].line

(* The Doc of fieldpropagator: "A field propagator is a function that      *)
(* returns a value that is tainted by a source field."  Only methods of    *)
(* the configured types are looked at.                                     *)
PropagatorsFound ==
  \A p \in Package : <<"fieldpropagator", p>> \in done =>
    \A f \in DeclaredIn(p) : AnalyzeBlocks(f, tags[p]) => f \in propagatorFacts[p]

(* Facts are about objects of the package that is analyzed, the only ones  *)
(* that ExportObjectFact does not panic on.  Not so for promoted methods.  *)
FactsAreOwn == \A p \in Package : propagatorFacts[p] \subseteq DeclaredIn(p)
=============================================================================
