------------------------------ MODULE EARTaint ------------------------------
(***************************************************************************)
(* The taint search of earpointer/taint.go over the heap that the EAR      *)
(* analysis has frozen.  SourcesToSinks ranges over a map: the functions   *)
(* that have sources, in any order.  For each it finds the functions       *)
(* within the call span (CallSpan, whose steps are taken here), then what  *)
(* each source of the function taints (srcRefs), then looks at each sink   *)
(* in the functions found: does it reach any of it (canReach)?             *)
(*                                                                         *)
(* Both descend along fields (fieldRefs) with the visited set of a         *)
(* heapTraversal: that of a source serves all the calls made for it, that  *)
(* of a sink one operand.  descent is the recursion of fieldRefs: what the *)
(* loop of each activation has left, the innermost first.                  *)
(*                                                                         *)
(* A program also says: sources, a function from functions to the sequence *)
(* of their sources; sinks, the functions that are sinks; panics, whether  *)
(* a panic is a sink (AllowPanicOnTaintedValues is off); spans, the values *)
(* of EARTaintCallSpan to be tried.                                        *)
(***************************************************************************)
EXTENDS EARAnalysis

VARIABLES
  span,       \* conf.EARTaintCallSpan
  awaiting,   \* functions with sources that are still to be ranged over
  start,      \* the function ranged over, "" for none
  stack,      \* of CallSpan
  reachable,  \* CallSpan's result: the functions within the span
  srcRefs,    \* what each source of start taints, of those searched so far
  pending,    \* calls of srcRefs still to be made for the last of them
  visited,    \* heapTraversal.visited, of the traversal at work
  toVisit,    \* the references that srcRefs or canReach calls fieldRefs of
  descent,    \* the running loops of fieldRefs
  asked,      \* the sink that canReach is asked about
  tried,      \* the sinks it has been asked about
  sinkedRefs, \* of canReach: what is below the sink's operands
  traces      \* sinks -> sources

traversal == <<visited, toVisit, descent>>
canReachVars == <<asked, tried, sinkedRefs>>
searchVars == <<span, awaiting, start, stack, reachable, srcRefs, pending, traversal,
                canReachVars, traces>>
taintVars == <<analysisVars, searchVars>>

Span ==
  INSTANCE CallSpan
  WITH Fn <- UNION {DOMAIN Programs[n].func : n \in DOMAIN Programs},
       CallGraphs <- {}, MaxSpan <- 0, result <- reachable,
       calls <- UNION {{<<f, i.callee>> : i \in Calls(f)} : f \in Fn}

Sources(f) == prog.sources[f]

-----------------------------------------------------------------------------
(* Queries of the frozen heap.  What Representative gives may be none, see *)
(* EARState; it then has neither members nor fields.                       *)
Representative(r) == heap.parents[r]
Members(rep) == IF rep \in DOMAIN heap.members THEN heap.members[rep] ELSE {}
FieldMap(rep) == IF rep \in DOMAIN heap.fieldRefs THEN heap.fieldRefs[rep] ELSE <<>>
FieldValues(rep) == {FieldMap(rep)[fd] : fd \in DOMAIN FieldMap(rep)}

\* Mutant: references outside the span are not left out.
IsWithinCallees_any(r) == TRUE
IsWithinCallees(r) ==
  LET f == prog.value[r.of].in IN f # "" => f \in reachable

-----------------------------------------------------------------------------
(* srcRefs: a call is <<rep, type>>.  What it marks, and the calls that it *)
(* makes in turn.  There is no visited set.                                *)
Tagged(t) ==
  LET s == Types[Underlying(t)].fields IN {s[n].name : n \in {m \in DOMAIN s : s[m].tagged}}

IsStructSource(t) == Kind(t) = "named" /\ Kind(Underlying(t)) = "struct"
Containers == {"array", "slice", "chan", "map"}

TaintFields(rep, t) ==
  IF IsStructSource(t)
  THEN {FieldMap(rep)[fd] : fd \in {d \in DOMAIN FieldMap(rep) : d.name \in Tagged(t)}}
  ELSE {}

Marked(rep, t) == IF IsStructSource(t) \/ Kind(t) \in Containers THEN {rep} ELSE {}

\* Mutant: the type of a pointer that has no pointee is handed on as it is.
Further_sameType(rep, t) ==
  CASE Kind(t) = "named" /\ ~IsStructSource(t) -> {<<rep, Underlying(t)>>}
    [] Kind(t) = "pointer" ->
         {IF PointTo \in DOMAIN FieldMap(rep)
          THEN <<FieldMap(rep)[PointTo], Types[t].elem>> ELSE <<rep, t>>}
    [] Kind(t) \in Containers -> {<<r, Types[t].elem>> : r \in FieldValues(rep)}
    [] OTHER -> {}

Further(rep, t) ==
  CASE Kind(t) = "named" /\ ~IsStructSource(t) -> {<<rep, Underlying(t)>>}
    [] Kind(t) = "pointer" ->
         {<<IF PointTo \in DOMAIN FieldMap(rep) THEN FieldMap(rep)[PointTo] ELSE rep,
            Types[t].elem>>}
    [] Kind(t) \in Containers -> {<<r, Types[t].elem>> : r \in FieldValues(rep)}
    [] OTHER -> {}

-----------------------------------------------------------------------------
(* Sinks: calls (not go or defer statements) of a configured sink, and     *)
(* panics unless the configuration allows them.                            *)
Sinks(f) ==
  {i \in ToSet(prog.func[f].body) :
     \/ i.is = "Call" /\ i.callee \in prog.sinks
     \/ i.is = "Panic" /\ prog.panics}

Operands(i) == ToSet(i.args)

(* canReach may return any source that matches: it ranges over a map of    *)
(* the references below the sink's operands, and for each over members in  *)
(* no particular order; the sources are tried in theirs.                   *)
CanReach ==
  LET members == UNION {Members(Representative(r)) : r \in sinkedRefs}
      hit(m) == {n \in DOMAIN srcRefs : m \in srcRefs[n]}
  IN  {Sources(start)[CHOOSE n \in hit(m) : \A k \in hit(m) : n <= k] :
         m \in {r \in members : hit(r) # {}}}

Own(i, v) == i \in ToSet(prog.func[prog.value[v].in].body)

(* A new trace for a sink takes the place of an old one if it is of the    *)
(* sink's function; for a panic, in any case.                              *)
\* Mutant: the first source found.
Replaces_never(i, v) == i \notin DOMAIN traces \/ i.is = "Panic"
Replaces(i, v) == i \notin DOMAIN traces \/ i.is = "Panic" \/ Own(i, v)

-----------------------------------------------------------------------------
NoSink == <<>>

TaintInit ==
  /\ Init
  /\ span \in prog.spans
  /\ awaiting = DOMAIN prog.sources
  /\ start = ""
  /\ stack = <<>>
  /\ reachable = {}
  /\ srcRefs = <<>>
  /\ pending = {}
  /\ visited = {}
  /\ toVisit = {}
  /\ descent = <<>>
  /\ asked = NoSink
  /\ tried = {}
  /\ sinkedRefs = {}
  /\ traces = <<>>

\* Mutant: the function itself is not counted.
RangeOver_oneMore(f) ==
  /\ Analysed /\ start = ""
  /\ f \in awaiting
  /\ awaiting' = awaiting \ {f}
  /\ start' = f
  /\ stack' = <<[depth |-> span + 1, callees |-> {f}, callers |-> {}]>>
  /\ reachable' = {}
  /\ srcRefs' = <<>>
  /\ UNCHANGED <<analysisVars, span, pending, traversal, canReachVars, traces>>

RangeOver(f) ==
  /\ Analysed /\ start = ""
  /\ f \in awaiting
  /\ awaiting' = awaiting \ {f}
  /\ start' = f
  /\ stack' = <<[depth |-> span, callees |-> {f}, callers |-> {}]>>
  /\ reachable' = {}
  /\ srcRefs' = <<>>
  /\ UNCHANGED <<analysisVars, span, pending, traversal, canReachVars, traces>>

ExploreSpan ==
  /\ stack # <<>>
  /\ UNCHANGED <<analysisVars, awaiting, srcRefs, pending, traversal, canReachVars, traces>>
  /\ Span!Next

SpanKnown == start # "" /\ stack = <<>>
Descended == toVisit = {} /\ descent = <<>>
SourcesSearched == SpanKnown /\ Descended /\ pending = {} /\ Len(srcRefs) = Len(Sources(start))

(* srcAliasRefs: a value that the heap does not have taints nothing.       *)
SearchSource ==
  /\ SpanKnown /\ Descended /\ pending = {} /\ Len(srcRefs) < Len(Sources(start))
  /\ LET v == Sources(start)[Len(srcRefs) + 1]
         r == MakeLocal(<<>>, v)
     IN  pending' = IF r \in DOMAIN heap.parents
                    THEN {<<Representative(r), TypeOf(v)>>} ELSE {}
  /\ srcRefs' = Append(srcRefs, {})
  /\ visited' = {}
  /\ UNCHANGED <<analysisVars, span, awaiting, start, stack, reachable, toVisit, descent,
                 canReachVars, traces>>

(* result[r] = true for what is found, in the result of the traversal.     *)
Taints(found) == srcRefs' = [srcRefs EXCEPT ![Len(srcRefs)] = @ \cup found]
Collects(found) ==
  IF asked = NoSink THEN Taints(found) /\ UNCHANGED sinkedRefs
  ELSE sinkedRefs' = sinkedRefs \cup found /\ UNCHANGED srcRefs

SrcRefs(rep, t) ==
  /\ Descended
  /\ <<rep, t>> \in pending
  /\ pending' = (pending \ {<<rep, t>>}) \cup Further(rep, t)
  /\ Taints(Marked(rep, t))
  /\ toVisit' = TaintFields(rep, t)
  /\ UNCHANGED <<analysisVars, span, awaiting, start, stack, reachable, visited, descent,
                 canReachVars, traces>>

(* fieldRefs of ref, up to its loop, which it leaves on the stack.         *)
WithinCallees(ref) == {m \in Members(Representative(ref)) : IsWithinCallees(m)}
Enter(ref, seen, rest) ==
  /\ visited' = seen \cup {ref}
  /\ descent' = Heap!Push(FieldValues(Representative(ref)), rest)

(* fieldRefs called by srcRefs, of a taint field.                          *)
TaintField(ref) ==
  /\ asked = NoSink /\ descent = <<>>
  /\ ref \in toVisit
  /\ toVisit' = toVisit \ {ref}
  /\ Enter(ref, visited, <<>>)
  /\ Taints({ref} \cup WithinCallees(ref))
  /\ UNCHANGED <<analysisVars, span, awaiting, start, stack, reachable, pending, canReachVars,
                 traces>>

(* fieldRefs called by canReach, of an operand of the sink, each with a    *)
(* visited set of its own.                                                 *)
\* Mutant: the traversal of SourcesToSinks for all the operands of all sinks.
SinkOperand_oneTraversal(ref) ==
  /\ asked # NoSink /\ descent = <<>>
  /\ ref \in toVisit
  /\ toVisit' = toVisit \ {ref}
  /\ Enter(ref, visited, <<>>)
  /\ sinkedRefs' = sinkedRefs \cup WithinCallees(ref)
  /\ UNCHANGED <<analysisVars, span, awaiting, start, stack, reachable, srcRefs, pending, asked,
                 tried, traces>>

SinkOperand(ref) ==
  /\ asked # NoSink /\ descent = <<>>
  /\ ref \in toVisit
  /\ toVisit' = toVisit \ {ref}
  /\ Enter(ref, {}, <<>>)
  /\ sinkedRefs' = sinkedRefs \cup WithinCallees(ref)
  /\ UNCHANGED <<analysisVars, span, awaiting, start, stack, reachable, srcRefs, pending, asked,
                 tried, traces>>

(* One turn of the innermost loop of fieldRefs: what has been visited is   *)
(* passed over.                                                            *)
FieldRefs(ref) ==
  /\ descent # <<>>
  /\ ref \in Head(descent)
  /\ LET rest == Heap!Push(Head(descent) \ {ref}, Tail(descent))
     IN  IF ref \in visited
         THEN descent' = rest /\ UNCHANGED <<visited, srcRefs, sinkedRefs>>
         ELSE Enter(ref, visited, rest) /\ Collects(WithinCallees(ref))
  /\ UNCHANGED <<analysisVars, span, awaiting, start, stack, reachable, pending, toVisit, asked,
                 tried, traces>>

(* The sinks of the functions within the span, in any order: that of       *)
(* reachable is the order of a map.                                        *)
LookAt(i) ==
  /\ SourcesSearched /\ asked = NoSink
  /\ i \in UNION {Sinks(f) : f \in reachable} \ tried
  /\ asked' = i
  /\ tried' = tried \cup {i}
  /\ sinkedRefs' = {}
  /\ toVisit' = {MakeLocal(<<>>, v) : v \in Operands(i)} \cap DOMAIN heap.parents
  /\ UNCHANGED <<analysisVars, span, awaiting, start, stack, reachable, srcRefs, pending,
                 visited, descent, traces>>

TraceSink ==
  /\ SourcesSearched /\ asked # NoSink
  /\ \/ CanReach = {} /\ UNCHANGED traces
     \/ \E v \in CanReach :
          traces' = IF Replaces(asked, v)
                    THEN [i \in DOMAIN traces \cup {asked} |-> IF i = asked THEN v ELSE traces[i]]
                    ELSE traces
  /\ asked' = NoSink
  /\ UNCHANGED <<analysisVars, span, awaiting, start, stack, reachable, srcRefs, pending,
                 traversal, tried, sinkedRefs>>

NextFunction ==
  /\ SourcesSearched /\ asked = NoSink
  /\ UNION {Sinks(f) : f \in reachable} \subseteq tried
  /\ start' = ""
  /\ tried' = {}
  /\ UNCHANGED <<analysisVars, span, awaiting, stack, reachable, srcRefs, pending, traversal,
                 asked, sinkedRefs, traces>>

Searched == Analysed /\ start = "" /\ awaiting = {}
Terminated == Searched /\ UNCHANGED taintVars

SearchNext ==
  \/ \E f \in awaiting : RangeOver(f)
  \/ ExploreSpan
  \/ SearchSource
  \/ \E call \in pending : SrcRefs(call[1], call[2])
  \/ \E ref \in toVisit : TaintField(ref) \/ SinkOperand(ref)
  \/ descent # <<>> /\ \E ref \in Head(descent) : FieldRefs(ref)
  \/ \E i \in UNION {Sinks(f) : f \in reachable} : LookAt(i)
  \/ TraceSink
  \/ NextFunction

Next ==
  \/ AnalysisNext /\ UNCHANGED searchVars
  \/ SearchNext
  \/ Terminated

(* Analysis and search are one goroutine that nothing holds up: weak       *)
(* fairness of both.  That the analysis can go on is spelt out: it can     *)
(* until the heap is frozen (runs check that nothing else ends it).        *)
GoesOn ==
  /\ []<>Analysed \/ []<><<AnalysisNext>>_analysisVars
  /\ WF_searchVars(SearchNext)

Spec == TaintInit /\ [][Next]_taintVars /\ GoesOn
=============================================================================
