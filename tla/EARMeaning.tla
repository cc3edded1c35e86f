----------------------------- MODULE EARMeaning -----------------------------
(***************************************************************************)
(* What the EAR analysis of a program should find, said without an order,  *)
(* a heap or a visitor.  Each instruction, in each calling context, states *)
(* equations between references, as the comments of the visit methods put  *)
(* them: two references are the same, or a field of one is the other.  The *)
(* least congruence that satisfies the equations is the answer.            *)
(*                                                                         *)
(* A calling context of length k is the last k call sites on the way.      *)
(***************************************************************************)
EXTENDS EARTaint

(* Terms are references; syn also names the pointee and the address of a   *)
(* field, of references the program has no register for.                   *)
Star(r) == [r EXCEPT !.syn = <<"*">>]
AddressOf(r, fd) == [r EXCEPT !.syn = <<"&", fd.name, fd.of>>]

Equal == [name |-> "="]   \* no field: those of structs and elements have an "of"
Same(a, b) == [fd |-> Equal, a |-> a, b |-> b]
Holds(a, fd, b) == [fd |-> fd, a |-> a, b |-> b]

IndexFields(index) ==
  {AnyIndex} \cup (IF prog.value[index].kind = "const" THEN {NamedField(index)} ELSE {})

Suffix(c, k) == IF Len(c) <= k THEN c ELSE SubSeq(c, Len(c) - k + 1, Len(c))

(* Elements of a value that holds them itself, and of one that points to   *)
(* them; values held under consecutive numbers.                            *)
Elements(x, fds, v) == {Holds(x, fd, v) : fd \in fds}
Addressed(x, fds, v) ==
  {Holds(x, PointTo, Star(x))} \cup Elements(Star(x), fds, v)
Numbered(x, vs, from) ==
  {Holds(x, NamedField(ToString(from + n)), vs[n]) : n \in DOMAIN vs}

(* The equations of the instruction i in context c.                        *)
SaysCall(i, c) ==
  LET g == prog.func[i.callee]
      d == Suffix(Append(c, i.site), contextK)
      r(v) == MakeReference(c, v)
      callee(v) == MakeReference(d, v)
      args == [n \in DOMAIN i.args |-> r(i.args[n])]
      passed == {Same(args[n], callee(g.params[n])) : n \in DOMAIN args}
                \cup {Same(r(i.bindings[n]), callee(g.freeVars[n])) :
                        n \in DOMAIN i.bindings}
      returned(ret) ==
        IF Len(ret) = 1 THEN {Same(r(i.reg), callee(ret[1]))}
        ELSE Numbered(r(i.reg), [n \in DOMAIN ret |-> callee(ret[n])], -1)
  IN  CASE g.known = "Sprint" -> IF i.is = "Call" THEN Numbered(r(i.reg), args, 0) ELSE {}
        [] g.known = "Fprint" -> Numbered(args[1], Tail(args), 1)
        [] g.known = "" /\ g.body = <<>> -> {}
        [] OTHER -> passed \cup (IF i.is = "Call"
                                 THEN UNION {returned(ret) : ret \in ToSet(g.returns)}
                                 ELSE {})

SaysExtract(i, c) ==
  LET from == Maker(i.tuple)
      r(v) == MakeReference(c, v)
      chosen == {n \in DOMAIN from.states :
                   /\ from.states[n].dir = "receive"
                   /\ Cardinality({m \in 1..n : from.states[m].dir = "receive"})
                        = i.index - 1}
  IN  CASE from.is = "TypeAssert" /\ i.index = 0 -> {Same(r(i.reg), r(from.x))}
        [] from.is = "Next" /\ i.index = 2 ->
             Elements(r(Maker(from.x).x), {AnyIndex}, r(i.reg))
        [] from.is = "Lookup" /\ i.index = 0 ->
             Elements(r(from.x), IndexFields(from.index), r(i.reg))
        [] from.is = "Receive" /\ i.index = 0 -> Elements(r(from.x), {AnyIndex}, r(i.reg))
        [] from.is = "Select" /\ i.index > 1 ->
             UNION {Elements(r(from.states[n].chan), {AnyIndex}, r(i.reg)) : n \in chosen}
        [] from.is = "Call" ->
             {Holds(r(i.tuple), NamedField(ToString(i.index)), r(i.reg))}
        [] OTHER -> {}

Says(i, c) ==
  LET r(v) == MakeReference(c, v)
      field == MakeField(TypeOf(i.x), i.field)
      addr == AddressOf(r(i.x), field)
      equal(vs) == {Same(r(i.reg), r(v)) : v \in ToSet(vs)}
  IN  CASE i.is \in Copies -> equal(<<i.x>>)
        [] i.is = "Phi" -> equal(i.edges)
        [] i.is = "append" -> equal(i.args)
        [] i.is = "TypeAssert" -> IF i.commaOk THEN {} ELSE equal(<<i.x>>)
        [] i.is = "FieldAddr" -> Addressed(r(i.x), {field}, r(i.reg))
        [] i.is = "IndexAddr" -> Addressed(r(i.x), IndexFields(i.index), r(i.reg))
        [] i.is = "Field" -> {Holds(r(i.x), field, addr), Holds(addr, PointTo, r(i.reg))}
        [] i.is = "Index" \/ (i.is = "Lookup" /\ ~i.commaOk) ->
             Elements(r(i.x), IndexFields(i.index), r(i.reg))
        [] i.is = "MapUpdate" -> Elements(r(i.x), IndexFields(i.index), r(i.val))
        [] i.is = "Store" -> {Holds(r(i.x), PointTo, r(i.val))}
        [] i.is = "Load" -> {Holds(r(i.x), PointTo, r(i.reg))}
        [] i.is = "Receive" /\ ~i.commaOk -> Elements(r(i.x), {AnyIndex}, r(i.reg))
        [] i.is = "Send" -> Elements(r(i.x), {AnyIndex}, r(i.val))
        [] i.is = "Select" -> UNION {Elements(r(st.chan), {AnyIndex}, r(st.val)) :
                                       st \in {s \in ToSet(i.states) : s.dir = "send"}}
        [] i.is = "Add" -> {Holds(r(i.reg), NamedField("left"), r(i.x)),
                            Holds(r(i.reg), NamedField("right"), r(i.y))}
        [] i.is = "Extract" -> SaysExtract(i, c)
        [] i.is = "MakeClosure" ->
             {Same(MakeReference(c, prog.func[i.fn].freeVars[n]), r(i.bindings[n])) :
                n \in DOMAIN i.bindings}
        [] i.is = "copy" ->
             {Holds(r(x), PointTo, Star(r(i.args[1]))) : x \in ToSet(i.args)}
        [] i.is \in CallKinds /\ i.callee # "" -> SaysCall(i, c)
        [] OTHER -> {}

(* Of the equations, those between values that may share objects.          *)
Equations ==
  {e \in UNION {UNION {Says(i, c) : c \in CollectContext(f, contextK),
                                    i \in ToSet(prog.func[f].body)} : f \in Fn} :
     (e.fd = Equal => ValueMayShare(e.a.of)) /\ ValueMayShare(e.b.of)}

-----------------------------------------------------------------------------
(* The least congruence, as a partition of the terms.                      *)
Together(classes, a, b) == \E C \in classes : a \in C /\ b \in C

(* One step of the closure: what an equation makes equal, or is the same   *)
(* field of equals.                                                        *)
Merge(classes, eqs) ==
  LET class(t) == CHOOSE C \in classes : t \in C
      said == {<<class(e.a), e.fd, class(e.b)>> : e \in eqs}
      apart == {u \in said \X said :
                  u[1][3] # u[2][3] /\ u[1][1] = u[2][1] /\ u[1][2] = u[2][2]}
      equal == {<<u[1][3], u[2][3]>> : u \in apart}
               \cup {<<e[1], e[3]>> : e \in {d \in said : d[2] = Equal /\ d[1] # d[3]}}
  IN  IF equal = {} THEN classes
      ELSE LET u == CHOOSE u \in equal : TRUE
           IN  (classes \ {u[1], u[2]}) \cup {u[1] \cup u[2]}

CongruenceOf(classes, eqs) ==
  LET merged[n \in Nat] == IF n = 0 THEN classes ELSE Merge(merged[n - 1], eqs)
  IN  merged[Cardinality(classes)]

Terms(eqs) == InitialReferences \cup UNION {{e.a, e.b} : e \in eqs}
SolutionOf(eqs) == CongruenceOf({{t} : t \in Terms(eqs)}, eqs)
Solution == SolutionOf(Equations)

(* What the analysis has found, in the heap that it freezes.               *)
Aliased(a, b) == Root(parents, a) = Root(parents, b)

(* Precision: references are in one partition only if the program's        *)
(* equations make them equal, whatever the order of the visits.            *)
OnlyTogether(classes, refs) == \A a, b \in refs : Aliased(a, b) => Together(classes, a, b)
AliasesJustified == Analysed => OnlyTogether(Solution, InitialReferences)

(* The programs it is proved of: analysed without call sites of context;   *)
(* without the two operations that the analysis over-approximates, a field *)
(* of a struct that is not in memory and copy; whose addresses and stored  *)
(* values are no constants.                                                *)
Plain ==
  /\ contextK = 0
  /\ \A i \in Instructions :
       /\ i.is \notin {"Field", "copy"}
       /\ i.is \in {"FieldAddr", "IndexAddr"} => ValueMayShare(i.x)
       /\ i.is \in {"MapUpdate", "Send"} /\ MayShareObject(TypeOf(i.val)) => ValueMayShare(i.val)
       /\ i.is = "Select" =>
            \A st \in ToSet(i.states) :
              st.dir = "send" /\ MayShareObject(TypeOf(st.val)) => ValueMayShare(st.val)

(* Completeness: the heap satisfies the equations of the programs that the *)
(* analysis treats exactly, whatever the order of the visits.              *)
Value(t) ==
  LET rep == Rep(parents, [t EXCEPT !.syn = <<>>])
      fields == IF rep \in DOMAIN partitions THEN partitions[rep].fieldRefs ELSE <<>>
      fd == IF t.syn = <<"*">> THEN PointTo ELSE [name |-> t.syn[2], of |-> t.syn[3]]
  IN  IF t.syn = <<>> THEN rep
      ELSE IF fd \in DOMAIN fields THEN Rep(parents, fields[fd]) ELSE t

Satisfied(e) ==
  IF e.fd = Equal THEN Value(e.a) = Value(e.b)
  ELSE /\ Value(e.a) \in DOMAIN partitions
       /\ LET fields == partitions[Value(e.a)].fieldRefs
          IN  e.fd \in DOMAIN fields /\ Rep(parents, fields[e.fd]) = Value(e.b)

EquationsHold == Analysed /\ prog.exact => \A e \in Equations : Satisfied(e)

-----------------------------------------------------------------------------
(* Flows, said of the classes of the solution.  The equations make them a  *)
(* graph: an edge says that a field of one class is another.               *)
ClassOf(classes, r) == CHOOSE C \in classes : r \in C
GraphOf(classes, eqs) ==
  {[from |-> ClassOf(classes, e.a), fd |-> e.fd.name, to |-> ClassOf(classes, e.b)] :
     e \in {h \in eqs : h.fd # Equal}}
WithGraph(classes, eqs) == [classes |-> classes, graph |-> GraphOf(classes, eqs)]
MeaningOf(eqs) == WithGraph(SolutionOf(eqs), eqs)
Meaning == MeaningOf(Equations)

Inside(graph, C) == {e.to : e \in {g \in graph : g.from = C}}
Named(graph, C, fds) == {e.to : e \in {g \in graph : g.from = C /\ g.fd \in fds}}

(* All that can be got at from some classes.                               *)
Whole(graph, Cs) ==
  LET got[n \in 0..Cardinality(graph)] ==
        IF n = 0 THEN Cs ELSE got[n - 1] \cup UNION {Inside(graph, C) : C \in got[n - 1]}
  IN  got[Cardinality(graph)]

(* The values that a value of a type is made of: elements of containers,   *)
(* and what pointers point to.                                             *)
Parts(graph, x) ==
  LET t == Underlying(x.type)
      into(Cs) == {[class |-> C, type |-> Types[t].elem] : C \in Cs}
      pointees == Named(graph, x.class, {"->"})
  IN  IF Kind(t) \in Containers THEN into(Inside(graph, x.class))
      ELSE IF Kind(t) # "pointer" THEN {}
      ELSE into(IF pointees = {} THEN {x.class} ELSE pointees)

MadeOf(graph, x) ==
  LET made[n \in 0..Cardinality(graph)] ==
        IF n = 0 THEN {x} ELSE made[n - 1] \cup UNION {Parts(graph, y) : y \in made[n - 1]}
  IN  made[Cardinality(graph)]

(* The sensitive part of a value of a type: containers and structs in it,  *)
(* and what is below the tagged fields of the structs.                     *)
Sensitive(graph, C, type) ==
  LET values == MadeOf(graph, [class |-> C, type |-> type])
      structs == {x \in values : Kind(Underlying(x.type)) = "struct"}
      filled == {x \in values : Kind(Underlying(x.type)) \in Containers}
  IN  {x.class : x \in structs \cup filled}
      \cup Whole(graph, UNION {Named(graph, x.class, Tagged(x.type)) : x \in structs})

FnOf(sink) == CHOOSE f \in Fn : sink \in ToSet(prog.func[f].body)

(* The sink can get at sensitive data of the source v, at an object that   *)
(* a function of the set fns knows.                                        *)
Flows(m, v, sink, fns) ==
  LET class(u) == ClassOf(m.classes, MakeLocal(<<>>, u))
      sunk == {u \in Operands(sink) : ValueMayShare(u)}
      shared == Sensitive(m.graph, class(v), TypeOf(v))
                \cap Whole(m.graph, {class(u) : u \in sunk})
  IN  \E C \in shared : \E r \in C : prog.value[r.of].in \in fns \cup {""}

AllSources == UNION {ToSet(Sources(f)) : f \in DOMAIN prog.sources}
AllSinks == UNION {Sinks(f) : f \in Fn}

(* Functions at most n calls, either way, from f.                          *)
Near(f, n) ==
  LET linked(g) == {h \in Fn : \E i \in Calls(g) : i.callee = h}
                   \cup {h \in Fn : \E i \in Calls(h) : i.callee = g}
      ball[k \in 0..n] == IF k = 0 THEN {f} ELSE ball[k - 1] \cup UNION {linked(g) : g \in ball[k - 1]}
  IN  ball[n]

(* A trace is a flow of the program, at an object that a function less     *)
(* than the call span away from the source's knows.                        *)
Justified(m) ==
  \A sink \in DOMAIN traces :
    LET v == traces[sink] IN Flows(m, v, sink, Near(prog.value[v].in, span - 1))
TracesJustified == Searched /\ DOMAIN traces # {} => Justified(Meaning)

(* taint.go:163 "controls the depth of the call chain": at any time, the   *)
(* sink of a trace is in a function less than the span away from that of   *)
(* its source.                                                             *)
TracesWithinSpan ==
  \A sink \in DOMAIN traces :
    span > 0 /\ FnOf(sink) \in Near(prog.value[traces[sink]].in, span - 1)

(* Of the programs that the analysis treats exactly, every flow has a      *)
(* trace, if the span is no less than the number of functions.             *)
WideSpan == prog.exact /\ span >= Cardinality(Fn)

AllReported(m) ==
  \A v \in AllSources, sink \in AllSinks :
    Flows(m, v, sink, Near(prog.value[v].in, span - 1)) => sink \in DOMAIN traces
FlowsReported == Searched /\ AllSources # {} /\ WideSpan => AllReported(Meaning)

(* taint.go:250 "be in favor of the source within the same function": of   *)
(* the sources that flow to a call, one of its own function is reported,   *)
(* in whatever order functions, sources and references are ranged over.    *)
OwnReported(m) ==
  \A sink \in {s \in DOMAIN traces : s.is = "Call"} :
    (\E v \in AllSources : Own(sink, v) /\ Flows(m, v, sink, Fn)) => Own(sink, traces[sink])
OwnSourcePreferred == Searched /\ AllSources # {} /\ WideSpan => OwnReported(Meaning)

(* taint.go:29 "Bounded traversal of an EAR heap": analysis and search end *)
(* although field maps and call graphs may be cyclic.                      *)
SearchEnds == <>Searched
=============================================================================
