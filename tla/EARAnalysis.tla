---------------------------- MODULE EARAnalysis ----------------------------
(***************************************************************************)
(* The EAR analysis of earpointer/analysis.go: it visits the instructions  *)
(* of every function of an SSA program, in every calling context of the    *)
(* function, asserts what each says about references, and freezes the heap *)
(* that results.  The heap is that of EARState, whose operators are used;  *)
(* only the climb to a representative is written anew, as a function that  *)
(* TLC evaluates on larger heaps.                                          *)
(*                                                                         *)
(* The functions are visited in the order of a Go map, that is in any      *)
(* order; the instructions of one in program order.  What a visit asserts  *)
(* is put on the agenda, a sequence of constraints that are worked off one *)
(* by one, each with all the unifications it cascades into (frames).       *)
(*                                                                         *)
(* A program is a record:                                                  *)
(*   value  value -> [type, in, kind], where "in" is the function that the *)
(*          value belongs to ("" for none) and kind is "local", "global"   *)
(*          or "const"; a constant goes by its text                        *)
(*   func   function -> [params, freeVars, body, returns, known], the last *)
(*          two being the operands of every return and "Sprint", "Fprint"  *)
(*          or "" for what its name begins with                            *)
(* An instruction is a record whose field "is" names its SSA type.         *)
(***************************************************************************)
EXTENDS GoTypes, SequencesExt

CONSTANTS
  Programs,   \* name -> program
  Pos         \* value -> its source position

(* What ssa programs are: functions with bodies, in which each call and    *)
(* each panic is an instruction of its own; and sources that source.go     *)
(* finds among the values of the function they are listed under.           *)
CallKinds == {"Call", "Go", "Defer"}
Copies == {"Convert", "ChangeInterface", "ChangeType", "Slice", "MakeInterface"}
Sited(p) ==
  UNION {{<<f, i>> : i \in {j \in ToSet(p.func[f].body) : j.is \in CallKinds \cup {"Panic"}}} :
           f \in DOMAIN p.func}

WellFormed(p) ==
  /\ IsFiniteSet(DOMAIN p.value) /\ IsFiniteSet(DOMAIN p.func)
  /\ p.ks \subseteq Nat /\ p.spans \subseteq Nat
  /\ \A f \in DOMAIN p.func :
       LET g == p.func[f]
       IN  /\ g.params \in Seq(DOMAIN p.value) /\ g.freeVars \in Seq(DOMAIN p.value)
           /\ g.body \in Seq(ToSet(g.body))
  /\ \A at \in Sited(p) :
       /\ at[2].is \in CallKinds => at[2].callee \in DOMAIN p.func \cup {""}
       /\ \A other \in Sited(p) : at[2].site = other[2].site => at = other
  /\ DOMAIN p.sources \subseteq DOMAIN p.func
  /\ \A f \in DOMAIN p.sources :
       p.sources[f] \in Seq({v \in DOMAIN p.value : p.value[v].in = f})

(* And what their type checker has seen to: what an instruction is made    *)
(* of; that tuples and iterators come from some instructions only; that    *)
(* calls fit the functions called; that addresses are shared.              *)
Unary == Copies \cup {"TypeAssert", "FieldAddr", "IndexAddr", "Field", "Index", "Lookup",
                      "Load", "Receive", "Add", "Range", "Next"}
Defining == Unary \cup {"Phi", "append", "Extract", "MakeClosure", "Call"}

ShareObject(p, v) == MayShareObject(p.value[v].type)
Locals(p) == {v \in DOMAIN p.value : p.value[v].kind = "local"}
CodeOf(p) == UNION {ToSet(p.func[f].body) : f \in DOMAIN p.func}
MadeBy(p, v, kinds) ==
  LET makers == {j \in CodeOf(p) : "reg" \in DOMAIN j /\ j.reg = v}
  IN  makers # {} /\ \A j \in makers : j.is \in kinds

Bound(p, vs, freeVars) ==
  /\ vs \in Seq(DOMAIN p.value)
  /\ Len(vs) <= Len(freeVars)
  /\ \A n \in DOMAIN vs : p.value[vs[n]].type = p.value[freeVars[n]].type

Fits(p, i, g) ==
  /\ Bound(p, i.bindings, g.freeVars)
  /\ g.known \in {"", "Sprint", "Fprint"}
  /\ g.known = "Fprint" => i.args # <<>>
  /\ g.known = "" /\ g.body # <<>> => Len(i.args) = Len(g.params)
  /\ i.is = "Call" => \A n \in DOMAIN g.returns :
       Len(g.returns[n]) = 1 => p.value[i.reg].type = p.value[g.returns[n][1]].type

TypedInstruction(p, i) ==
  LET V == DOMAIN p.value
  IN  /\ i.is \in Defining => "reg" \in DOMAIN i
      /\ "reg" \in DOMAIN i => i.reg \in Locals(p)
      /\ i.is \in Unary => i.x \in V
      /\ i.is = "Add" => i.y \in V
      /\ i.is \in {"MapUpdate", "Store", "Send"} => i.x \in V /\ i.val \in V
      /\ i.is \in {"FieldAddr", "IndexAddr"} => ShareObject(p, i.reg) /\ ShareObject(p, i.x)
      /\ i.is = "Receive" /\ i.commaOk => ~ShareObject(p, i.reg)
      /\ i.is = "Phi" => i.edges \in Seq(V)
      /\ i.is \in {"append"} \cup CallKinds => i.args \in Seq(V)
      /\ i.is = "Select" =>
           /\ i.states \in Seq(ToSet(i.states))
           /\ \A st \in ToSet(i.states) : st.chan \in V /\ (st.dir = "send" => st.val \in V)
      /\ i.is = "Extract" =>
           /\ i.tuple \in V
           /\ MadeBy(p, i.tuple, {"TypeAssert", "Next", "Lookup", "Receive", "Select", "Call"})
      /\ i.is = "Next" => MadeBy(p, i.x, {"Range"})
      /\ i.is = "MakeClosure" =>
           i.fn \in DOMAIN p.func /\ Bound(p, i.bindings, p.func[i.fn].freeVars)
      /\ i.is \in CallKinds /\ i.callee # "" => Fits(p, i, p.func[i.callee])

WellTyped(p) ==
  /\ \A f \in DOMAIN p.func :
       /\ ToSet(p.func[f].params) \cup ToSet(p.func[f].freeVars) \subseteq Locals(p)
       /\ p.func[f].returns \in Seq(Seq(DOMAIN p.value))
  /\ \A i \in CodeOf(p) : TypedInstruction(p, i)

ASSUME ProgramsAssumption ==
  \A n \in DOMAIN Programs : WellFormed(Programs[n]) /\ WellTyped(Programs[n])

VARIABLES
  name, prog,  \* the program analysed
  contextK,    \* the number of call sites in a context
  contexts,    \* vis.contexts: function -> its contexts, in some order
  parents, partitions, frames, heap,  \* as in EARState
  unvisited,   \* functions still to be visited
  code,        \* instructions still to be visited of the current function
  agenda       \* constraints still to be asserted of the current visit

analysisVars == <<name, prog, contextK, contexts, parents, partitions, frames, heap,
                  unvisited, code, agenda>>

Fn == DOMAIN prog.func
TypeOf(v) == prog.value[v].type
ConstName(v) == v

-----------------------------------------------------------------------------
(* References of heap.go.  syn is the operators of a Synthetic, outermost  *)
(* first.  A Local made of a global variable is not its Global.            *)
MakeLocal(c, v) == [syn |-> <<>>, global |-> FALSE, cxt |-> c, of |-> v]
MakeGlobal(v) == [syn |-> <<>>, global |-> TRUE, cxt |-> <<>>, of |-> v]
MakeReference(c, v) ==
  IF prog.value[v].kind = "global" THEN MakeGlobal(v) ELSE MakeLocal(c, v)
MakeSynthetic(kind, r) == [r EXCEPT !.syn = <<kind>> \o @]

Reference == [syn : Seq({"*", "."}), global : BOOLEAN, cxt : Seq(STRING),
              of : DOMAIN Pos]
RefType(r) == TypeOf(r.of)

AnyIndex == NamedField("AnyField")
PointTo == NamedField("->")

(* mayShareObject: a register or a global variable of a type that may.     *)
ValueMayShare(v) ==
  MayShareObject(TypeOf(v)) /\ prog.value[v].kind \in {"local", "global"}

-----------------------------------------------------------------------------
(* The heap.                                                               *)
Heap == INSTANCE EARState
  WITH Ref <- Reference, Field <- {}, Pos <- [r \in Reference |-> Pos[r.of]],
       MaxCalls <- 0, toNormalize <- {}, toReverse <- {}, unified <- {}, stored <- {}

Climb(p, r) ==
  LET up[n \in 0..Cardinality(DOMAIN p)] == IF n = 0 THEN r ELSE p[up[n - 1]]
  IN  up
Root(p, r) == Climb(p, r)[Cardinality(DOMAIN p)]
Rep(p, r) == IF r \in DOMAIN p THEN Root(p, r) ELSE r

Climbed(p, R) ==
  UNION {{Climb(p, r)[n] : n \in 0..Cardinality(DOMAIN p)} : r \in R \cap DOMAIN p}

\* Mutant: the representative of one reference is left in the variable for the next.
Lookup_oneRep(p, R) ==
  [x \in DOMAIN p \cup R |->
     IF x \in Climbed(p, R) THEN Root(p, CHOOSE r \in R \cap DOMAIN p : TRUE)
     ELSE IF x \in DOMAIN p THEN p[x] ELSE x]

(* As Forest's Lookup: insertion and path compression.                     *)
Lookup(p, R) ==
  LET climbed == Climbed(p, R)
  IN  [x \in DOMAIN p \cup R |->
         IF x \in climbed THEN Root(p, x) ELSE IF x \in DOMAIN p THEN p[x] ELSE x]

(* A heap in the middle of an operation.                                   *)
Now == [p |-> parents, q |-> partitions]
After(h, R) == [p |-> Lookup(h.p, R), q |-> Heap!LookupInfo(h.p, h.q, R)]
Fields(h, r) == h.q[Root(h.p, r)].fieldRefs
Put(h, r, fd, v) == [h EXCEPT !.q = Heap!SetField(@, Root(h.p, r), fd, v)]

(* The heap h, and the unifications of the pairs S still to be done.       *)
Becomes(h, S) ==
  /\ parents' = h.p
  /\ partitions' = h.q
  /\ frames' = Heap!Push(S, frames)

(* getPointee: the heap once addr has a pointee, and the pointee.          *)
WithPointee(h, addr) ==
  LET h1 == After(h, {addr})
      new == MakeSynthetic("*", Root(h1.p, addr))
  IN  IF PointTo \in DOMAIN Fields(h1, addr) THEN h1
      ELSE Put(After(h1, {new}), addr, PointTo, new)
Pointee(h, addr) == Fields(h, addr)[PointTo]

-----------------------------------------------------------------------------
(* Calling contexts.                                                       *)
Calls(f) == {i \in ToSet(prog.func[f].body) : i.is \in CallKinds /\ i.callee # ""}

(* node.In of the static call graph: pairs of a caller and a call site.    *)
CallersOf(g) ==
  UNION {{<<f, i.site>> : i \in {j \in Calls(f) : j.callee = g}} : f \in Fn}

CollectContext(f, k) ==
  LET cxts[n \in 0..k] ==
        IF n = 0 THEN [g \in Fn |-> {<<>>}]
        ELSE [g \in Fn |->
                IF CallersOf(g) = {} THEN {<<>>}
                ELSE UNION {{Append(prev, in[2]) : prev \in cxts[n - 1][in[1]]} :
                              in \in CallersOf(g)}]
  IN  cxts[k][f]

GetContexts(v) ==
  LET f == prog.value[v].in IN IF f \in DOMAIN contexts THEN contexts[f] ELSE <<<<>>>>

(* contextKEqual: the last contextK sites, as far as both contexts go.     *)
\* Mutant: the contexts are not compared.
ContextKEqual_any(c, d) == TRUE

ContextKEqual(c, d) ==
  \A i \in 1..contextK :
    i <= Len(c) /\ i <= Len(d) => c[Len(c) + 1 - i] = d[Len(d) + 1 - i]

-----------------------------------------------------------------------------
(* Constraints.  They are made by the visits and asserted one by one.      *)
Constraint(do, a, fd, b) == [do |-> do, a |-> a, fd |-> fd, b |-> b]

Unify(a, b) == Constraint("unify", a, PointTo, b)

InContextsOf(v, Op(_)) ==
  [n \in DOMAIN GetContexts(v) |-> Op(GetContexts(v)[n])]

UnifyLocals(u, v) ==
  IF ValueMayShare(u) /\ ValueMayShare(v)
  THEN InContextsOf(u, LAMBDA c : Unify(MakeReference(c, u), MakeReference(c, v)))
  ELSE <<>>

(* unifyField in every context of a value.                                 *)
FieldIs(v, obj, fd, target) ==
  IF MayShareObject(TypeOf(target))
  THEN InContextsOf(v, LAMBDA c :
         Constraint("field", MakeReference(c, obj), fd, MakeReference(c, target)))
  ELSE <<>>

ProcessHeapAccess(data, base, fd) == FieldIs(base, base, fd, data)

(* base[c -> data] implies base[AnyField -> data].                         *)
\* Mutant: an element of a known index is not among those of any index.
ProcessIndex_either(data, base, index) ==
  ProcessHeapAccess(data, base, IF prog.value[index].kind = "const"
                                THEN NamedField(ConstName(index)) ELSE AnyIndex)

ProcessIndex(data, base, index) ==
  (IF prog.value[index].kind = "const"
   THEN ProcessHeapAccess(data, base, NamedField(ConstName(index))) ELSE <<>>)
  \o ProcessHeapAccess(data, base, AnyIndex)

ProcessAddressToValue(addr, v) ==
  IF MayShareObject(TypeOf(addr)) THEN FieldIs(addr, addr, PointTo, v) ELSE <<>>

UnifyFieldAddress(addr, obj, fd) ==
  InContextsOf(addr, LAMBDA c :
    Constraint("address", MakeReference(c, obj), fd, MakeReference(c, addr)))

-----------------------------------------------------------------------------
(* Visits: what each instruction puts on the agenda.                       *)
VisitCopy(i) == i.is \in Copies /\ agenda' = UnifyLocals(i.reg, i.x)

VisitPhi(i) ==
  /\ i.is = "Phi"
  /\ agenda' = FlattenSeq([n \in DOMAIN i.edges |-> UnifyLocals(i.reg, i.edges[n])])

VisitTypeAssert(i) ==
  /\ i.is = "TypeAssert"
  /\ agenda' = IF i.commaOk THEN <<>> ELSE UnifyLocals(i.reg, i.x)

\* "t1 = t0.x" is implemented by t0[x -> t1] through address unification.
VisitFieldAddr(i) ==
  /\ i.is = "FieldAddr"
  /\ agenda' = UnifyFieldAddress(i.reg, i.x, MakeField(TypeOf(i.x), i.field))

VisitIndexAddr(i) ==
  /\ i.is = "IndexAddr"
  /\ agenda' = (IF prog.value[i.index].kind = "const"
                THEN UnifyFieldAddress(i.reg, i.x, NamedField(ConstName(i.index)))
                ELSE <<>>)
               \o UnifyFieldAddress(i.reg, i.x, AnyIndex)

VisitField(i) ==
  /\ i.is = "Field"
  /\ agenda' = InContextsOf(i.reg, LAMBDA c :
       Constraint("load", MakeReference(c, i.x), MakeField(TypeOf(i.x), i.field),
                  MakeReference(c, i.reg)))

VisitIndex(i) == i.is = "Index" /\ agenda' = ProcessIndex(i.reg, i.x, i.index)

VisitLookup(i) ==
  /\ i.is = "Lookup"
  /\ agenda' = IF i.commaOk THEN <<>> ELSE ProcessIndex(i.reg, i.x, i.index)

VisitMapUpdate(i) ==
  i.is = "MapUpdate" /\ agenda' = ProcessIndex(i.val, i.x, i.index)

VisitStore(i) ==
  /\ i.is = "Store"
  /\ agenda' = IF ValueMayShare(i.val) THEN ProcessAddressToValue(i.x, i.val) ELSE <<>>

\* UnOp: "<-x" and "*x".
VisitReceive(i) ==
  i.is = "Receive" /\ agenda' = ProcessHeapAccess(i.reg, i.x, AnyIndex)
VisitLoad(i) == i.is = "Load" /\ agenda' = ProcessAddressToValue(i.x, i.reg)

(* r0 = r1 + r2: {r0}[left -> r1, right -> r2].                            *)
VisitConcat(i) ==
  LET side(fd, v) ==
        IF ValueMayShare(v) THEN <<<<NamedField(fd), v>>>> ELSE <<>>
      sides == side("left", i.x) \o side("right", i.y)
  IN  /\ i.is = "Add"
      /\ agenda' =
           IF Kind(TypeOf(i.x)) # "string" THEN <<>>
           ELSE FlattenSeq(InContextsOf(i.reg, LAMBDA c :
                  [n \in DOMAIN sides |->
                     Constraint("field", MakeReference(c, i.reg), sides[n][1],
                                MakeReference(c, sides[n][2]))]))

VisitSend(i) == i.is = "Send" /\ agenda' = ProcessHeapAccess(i.val, i.x, AnyIndex)

VisitSelect(i) ==
  /\ i.is = "Select"
  /\ agenda' = FlattenSeq([n \in DOMAIN i.states |->
                 IF i.states[n].dir = "send"
                 THEN ProcessHeapAccess(i.states[n].val, i.states[n].chan, AnyIndex)
                 ELSE <<>>])

(* The state of a select that receives what is extracted at an index.      *)
Receives(base, n, index) ==
  /\ index > 1
  /\ base.states[n].dir = "receive"
  /\ Cardinality({m \in 1..n : base.states[m].dir = "receive"}) = index - 1

(* The instruction that made the value v.                                  *)
Instructions == UNION {ToSet(prog.func[f].body) : f \in Fn}
Maker(v) == CHOOSE i \in Instructions : "reg" \in DOMAIN i /\ i.reg = v

VisitExtract(i) ==
  LET base == Maker(i.tuple)
  IN  /\ i.is = "Extract"
      /\ agenda' =
           CASE base.is = "TypeAssert" ->
                  IF i.index = 0 THEN UnifyLocals(i.reg, base.x) ELSE <<>>
             [] base.is = "Next" ->
                  IF ValueMayShare(i.reg) /\ i.index = 2
                  THEN ProcessHeapAccess(i.reg, Maker(base.x).x, AnyIndex) ELSE <<>>
             [] base.is = "Lookup" ->
                  IF i.index = 0 THEN ProcessIndex(i.reg, base.x, base.index) ELSE <<>>
             [] base.is = "Receive" ->
                  IF i.index = 0 THEN ProcessHeapAccess(i.reg, base.x, AnyIndex) ELSE <<>>
             [] base.is = "Select" ->
                  FlattenSeq([n \in DOMAIN base.states |->
                    IF Receives(base, n, i.index) /\ ValueMayShare(base.states[n].chan)
                    THEN ProcessHeapAccess(i.reg, base.states[n].chan, AnyIndex)
                    ELSE <<>>])
             [] OTHER ->
                  ProcessHeapAccess(i.reg, i.tuple, NamedField(ToString(i.index)))

VisitMakeClosure(i) ==
  /\ i.is = "MakeClosure"
  /\ agenda' = FlattenSeq([n \in DOMAIN i.bindings |->
                 UnifyLocals(prog.func[i.fn].freeVars[n], i.bindings[n])])

VisitAppend(i) ==
  /\ i.is = "append"
  /\ agenda' = FlattenSeq([n \in DOMAIN i.args |-> UnifyLocals(i.reg, i.args[n])])

VisitCopyBuiltin(i) ==
  LET dst == i.args[1]
      src == i.args[2]
  IN  /\ i.is = "copy"
      /\ agenda' =
           IF ValueMayShare(dst) /\ ValueMayShare(src)
           THEN InContextsOf(dst, LAMBDA c :
                  Constraint("copy", MakeLocal(c, dst), PointTo, MakeLocal(c, src)))
           ELSE <<>>

-----------------------------------------------------------------------------
(* Calls.                                                                  *)
AddFields(dst, args, from) ==
  FlattenSeq([n \in DOMAIN args |->
    IF n >= from /\ ValueMayShare(args[n])
    THEN FieldIs(dst, dst, NamedField(ToString(n)), args[n]) ELSE <<>>])

VisitKnownFunction(i) ==
  CASE prog.func[i.callee].known = "Sprint" ->
         IF i.is = "Call" THEN AddFields(i.reg, i.args, 1) ELSE <<>>
    [] prog.func[i.callee].known = "Fprint" -> AddFields(i.args[1], i.args, 2)

(* paramCstrs, as pairs in the order they are made: caller argument and    *)
(* callee parameter; of a closure, its free variable and what is bound.    *)
ParamConstraints(i) ==
  LET g == prog.func[i.callee]
  IN  FlattenSeq([n \in DOMAIN i.args |->
        IF ValueMayShare(i.args[n]) /\ MayShareObject(TypeOf(g.params[n]))
        THEN <<<<i.args[n], g.params[n]>>>> ELSE <<>>])
      \o FlattenSeq([n \in DOMAIN i.bindings |->
           IF ValueMayShare(i.bindings[n])
           THEN <<<<g.freeVars[n], i.bindings[n]>>>> ELSE <<>>])

UnifyCallWithContexts(arg, param, site) ==
  FlattenSeq(InContextsOf(arg, LAMBDA c :
    LET n == SelectInSeq(GetContexts(param),
                         LAMBDA d : ContextKEqual(Append(c, site), d))
    IN  IF n = 0 THEN <<>>
        ELSE <<Unify(MakeReference(c, arg),
                     MakeReference(GetContexts(param)[n], param))>>))

(* "return_r[k] = r{k}" of a returned tuple.                               *)
UnifyTuple(i, ret) ==
  FlattenSeq([k \in DOMAIN ret |->
    IF ~ValueMayShare(ret[k]) THEN <<>>
    ELSE FlattenSeq(InContextsOf(i.reg, LAMBDA c :
           FlattenSeq([n \in DOMAIN GetContexts(ret[k]) |->
             IF ContextKEqual(Append(c, i.site), GetContexts(ret[k])[n])
             THEN <<Constraint("field", MakeReference(c, i.reg),
                               NamedField(ToString(k - 1)), MakeReference(c, ret[k]))>>
             ELSE <<>>])))])

UnifyReturns(i) ==
  LET returns == prog.func[i.callee].returns
  IN  FlattenSeq([n \in DOMAIN returns |->
        IF Len(returns[n]) # 1 THEN UnifyTuple(i, returns[n])
        ELSE IF ValueMayShare(returns[n][1])
             THEN UnifyCallWithContexts(i.reg, returns[n][1], i.site)
             ELSE <<>>])

(* A callee without a body, or of another arity, is skipped.  The map      *)
(* paramCstrs is ranged over by argument.                                  *)
VisitCall(i) ==
  /\ i.is \in CallKinds
  /\ IF i.callee = "" THEN agenda' = <<>>
     ELSE LET g == prog.func[i.callee]
              cstrs == ParamConstraints(i)
          IN  IF g.known # "" THEN agenda' = VisitKnownFunction(i)
              ELSE IF g.body = <<>> \/ Len(g.params) # Len(i.args) THEN agenda' = <<>>
              ELSE \E order \in SetToSeqs({cstrs[n][1] : n \in DOMAIN cstrs}) :
                     agenda' =
                       FlattenSeq([m \in DOMAIN order |->
                         FlattenSeq([n \in DOMAIN cstrs |->
                           IF cstrs[n][1] = order[m]
                           THEN UnifyCallWithContexts(order[m], cstrs[n][2], i.site)
                           ELSE <<>>])])
                       \o (IF i.is = "Call" THEN UnifyReturns(i) ELSE <<>>)

(* Instructions the visitor leaves alone, or handles at an Extract or at   *)
(* the call.                                                               *)
Silent == {"Alloc", "Make", "Range", "Next", "Panic", "Other"}
VisitSilent(i) == i.is \in Silent /\ agenda' = <<>>

-----------------------------------------------------------------------------
(* Assertions: what each constraint does to the heap.                      *)
AssertUnify(c) == c.do = "unify" /\ Becomes(Now, {<<c.a, c.b>>})

AssertField(c) ==
  LET h == After(Now, {c.a, c.b})
      target == Root(h.p, c.b)
  IN  /\ c.do = "field"
      /\ IF c.fd \in DOMAIN Fields(h, c.a)
         THEN Becomes(h, {<<Fields(h, c.a)[c.fd], target>>})
         ELSE Becomes(Put(h, c.a, c.fd, target), {})

AssertAddress(c) ==
  LET h == WithPointee(Now, c.a)
      obj == Pointee(h, c.a)
      h1 == After(h, {obj})
  IN  /\ c.do = "address"
      /\ IF c.fd \in DOMAIN Fields(h1, obj)
         THEN Becomes(h1, {<<Fields(h1, obj)[c.fd], c.b>>})
         ELSE Becomes(Put(h1, obj, c.fd, c.b), {})

(* visitField.  Without a mapping the value takes the place of its address *)
(* and is not inserted.                                                    *)
AssertLoad(c) ==
  LET h == After(Now, {c.a})
  IN  /\ c.do = "load"
      /\ IF c.fd \in DOMAIN Fields(h, c.a)
         THEN LET addr == Fields(h, c.a)[c.fd]
                  h1 == WithPointee(h, addr)
              IN  Becomes(h1, {<<Pointee(h1, addr), c.b>>})
         ELSE Becomes(Put(h, c.a, c.fd, c.b), {})

(* unifyByValue: each partition gets one new reference for all the fields  *)
(* it misses.  The pairs are a map keyed by the first partition's values,  *)
(* in which the pairs of the second loop overwrite those of the first.     *)
Missing(f, g) == DOMAIN g \ DOMAIN f
WithMissing(h, rep, missing) ==
  IF missing = {} THEN h ELSE After(h, {MakeSynthetic(".", rep)})
Completed(h, rep, f, missing) ==
  [k \in DOMAIN f \cup missing |->
     IF k \in missing THEN Rep(h.p, MakeSynthetic(".", rep)) ELSE f[k]]

(* The keys whose pair stays in the map for the value r.                   *)
LastKeys(g, r, overwriting) ==
  LET at == {k \in DOMAIN g : g[k] = r}
  IN  IF at \cap overwriting # {} THEN at \cap overwriting ELSE at

(* For all the fields of the completed g1 and g2, in the order of the map. *)
CopyPairs(g1, g2, overwriting, do) ==
  \E order \in SetToSeqs({g1[k] : k \in DOMAIN g1}) :
    \E from \in [DOMAIN order -> DOMAIN g1] :
      /\ \A n \in DOMAIN order : from[n] \in LastKeys(g1, order[n], overwriting)
      /\ agenda' = [n \in DOMAIN order |->
                      Constraint(do, order[n], PointTo, g2[from[n]])] \o Tail(agenda)

CopyFields(h, rep1, f1, rep2, f2) ==
  /\ parents' = h.p
  /\ partitions' =
       [h.q EXCEPT ![rep1].fieldRefs = Completed(h, rep1, f1, Missing(f1, f2)),
                   ![rep2].fieldRefs = Completed(h, rep2, f2, Missing(f2, f1))]
  /\ CopyPairs(Completed(h, rep1, f1, Missing(f1, f2)),
               Completed(h, rep2, f2, Missing(f2, f1)), Missing(f2, f1),
               IF FieldAddressable(RefType(rep2)) THEN "copyAddressed" ELSE "copyPlain")

CopyPartitions(h, rep1, f1, rep2, f2) ==
  CopyFields(WithMissing(WithMissing(h, rep1, Missing(f1, f2)), rep2, Missing(f2, f1)),
             rep1, f1, rep2, f2)

AssertCopy(c) ==
  LET h == After(Now, {c.a, c.b})
  IN  /\ c.do = "copy"
      /\ CopyPartitions(h, Root(h.p, c.a), Fields(h, c.a), Root(h.p, c.b), Fields(h, c.b))
      /\ frames' = <<>>

(* unifyFields.                                                            *)
AssertCopyPlain(c) ==
  /\ c.do = "copyPlain"
  /\ Becomes(Now, IF UnifyByReference(RefType(c.a)) THEN {<<c.a, c.b>>} ELSE {})

UnifyFieldValueToAddress(h, addr, v) ==
  IF PointTo \in DOMAIN Fields(h, addr)
  THEN Becomes(h, {<<Pointee(h, addr), v>>})
  ELSE Becomes(Put(h, addr, PointTo, v), {})

AssertCopyAddressed(c) ==
  LET h == After(Now, {c.a, c.b})
      from == IF PointTo \in DOMAIN Fields(h, c.b) THEN c.b ELSE c.a
      to == IF from = c.b THEN c.a ELSE c.b
  IN  /\ c.do = "copyAddressed"
      /\ IF PointTo \in DOMAIN Fields(h, from) /\ UnifyByReference(RefType(Pointee(h, from)))
         THEN UnifyFieldValueToAddress(h, to, Pointee(h, from))
         ELSE Becomes(h, {})

-----------------------------------------------------------------------------
(* initGlobalReferences and initFunction.                                  *)
ReturnTuple(i) ==
  i.is \in CallKinds /\ Kind(TypeOf(i.reg)) = "tuple" /\ Types[TypeOf(i.reg)].len > 1

InitFunction(f) ==
  LET registers == {i \in ToSet(prog.func[f].body) : "reg" \in DOMAIN i}
      locals == {v \in ToSet(prog.func[f].params) \cup ToSet(prog.func[f].freeVars) :
                   MayShareObject(TypeOf(v))}
                \cup {i.reg : i \in {j \in registers :
                                       ReturnTuple(j) \/ MayShareObject(TypeOf(j.reg))}}
  IN  UNION {{MakeLocal(c, v) : c \in ToSet(GetContexts(v))} : v \in locals}

InitGlobalReferences ==
  {MakeGlobal(v) : v \in {u \in DOMAIN prog.value :
                            prog.value[u].kind = "global" /\ MayShareObject(TypeOf(u))}}

InitialReferences == InitGlobalReferences \cup UNION {InitFunction(f) : f \in Fn}

(* The analysis as the references have been inserted.  node.In is a slice  *)
(* that was filled in the order of a map of functions.                     *)
Init ==
  /\ name \in DOMAIN Programs /\ prog = Programs[name]
  /\ contextK \in prog.ks
  /\ contexts \in {c \in [Fn -> UNION {SetToSeqs(CollectContext(f, contextK)) : f \in Fn}] :
                     \A f \in Fn : c[f] \in SetToSeqs(CollectContext(f, contextK))}
  /\ parents = [r \in InitialReferences |-> r]
  /\ partitions = [r \in InitialReferences |-> Heap!NewPartition]
  /\ frames = <<>>
  /\ heap = Heap!NotFinal
  /\ unvisited = Fn
  /\ code = <<>>
  /\ agenda = <<>>

Idle == frames = <<>> /\ agenda = <<>>

VisitFunction(f) ==
  /\ Idle /\ code = <<>>
  /\ f \in unvisited
  /\ unvisited' = unvisited \ {f}
  /\ code' = prog.func[f].body
  /\ UNCHANGED <<name, prog, contextK, contexts, parents, partitions, frames, heap, agenda>>

Visit(i) ==
  \/ VisitCopy(i) \/ VisitPhi(i) \/ VisitTypeAssert(i)
  \/ VisitFieldAddr(i) \/ VisitIndexAddr(i) \/ VisitField(i) \/ VisitIndex(i)
  \/ VisitLookup(i) \/ VisitMapUpdate(i) \/ VisitStore(i) \/ VisitReceive(i)
  \/ VisitLoad(i) \/ VisitConcat(i) \/ VisitSend(i) \/ VisitSelect(i)
  \/ VisitExtract(i) \/ VisitMakeClosure(i) \/ VisitAppend(i)
  \/ VisitCopyBuiltin(i) \/ VisitCall(i) \/ VisitSilent(i)

VisitInstruction ==
  /\ Idle /\ code # <<>>
  /\ Visit(Head(code))
  /\ code' = Tail(code)
  /\ UNCHANGED <<name, prog, contextK, contexts, parents, partitions, frames, heap, unvisited>>

AssertNext ==
  /\ frames = <<>> /\ agenda # <<>>
  /\ \/ /\ \/ AssertUnify(Head(agenda)) \/ AssertField(Head(agenda))
           \/ AssertAddress(Head(agenda)) \/ AssertLoad(Head(agenda))
           \/ AssertCopyPlain(Head(agenda)) \/ AssertCopyAddressed(Head(agenda))
        /\ agenda' = Tail(agenda)
     \/ AssertCopy(Head(agenda))
  /\ UNCHANGED <<name, prog, contextK, contexts, heap, unvisited, code>>

(* state.Unify of one pending pair, as EARState!UnifyOne.                  *)
UnifyPending(a, b) ==
  /\ LET h == After(Now, {a, b})
     IN  Heap!UnifyReps(h.p, h.q, Root(h.p, a), Root(h.p, b),
                        Heap!Push(Head(frames) \ {<<a, b>>}, Tail(frames)))
  /\ UNCHANGED <<name, prog, contextK, contexts, heap, unvisited, code, agenda>>

StepUnify == frames # <<>> /\ \E pair \in Head(frames) : UnifyPending(pair[1], pair[2])

(* ToPartitions and finalize: EARState takes its loops over the field maps *)
(* entry by entry, here they come to what they come to in any order.  A    *)
(* field whose value was never inserted freezes to nil, which no query of  *)
(* the heap follows: it is left out.  So is the reverse map, of which      *)
(* there is no query (FieldParents has no caller).                         *)
NormalFields(opt, q) ==
  LET known(fmap) == {fd \in DOMAIN fmap : fmap[fd] \in DOMAIN opt}
  IN  [rep \in DOMAIN q |-> [fd \in known(q[rep].fieldRefs) |-> opt[q[rep].fieldRefs[fd]]]]

Finish ==
  /\ Idle /\ code = <<>> /\ unvisited = {} /\ heap = Heap!NotFinal
  /\ LET opt == Heap!OptParents(parents)
     IN  heap' = [parents |-> opt, members |-> Heap!MembersOf(opt),
                  fieldRefs |-> NormalFields(opt, partitions)]
  /\ UNCHANGED <<name, prog, contextK, contexts, parents, partitions, frames, unvisited,
                 code, agenda>>

AnalysisNext ==
  \/ \E f \in Fn : VisitFunction(f)
  \/ VisitInstruction
  \/ AssertNext
  \/ StepUnify
  \/ Finish

Analysed == heap # Heap!NotFinal

-----------------------------------------------------------------------------
(* Visits write field maps and insert references themselves, besides those *)
(* that they unify.  Whatever they do, each climb ends at a representative *)
(* and the table has an entry for each representative and for nothing      *)
(* else: the log.Fatalf of partitionInfo is not reached from any visit.    *)
RepresentativesKnown ==
  /\ parents \in [DOMAIN parents -> DOMAIN parents]
  /\ \A r \in DOMAIN parents : Root(parents, r) \in Heap!RootsOf(parents)
  /\ DOMAIN partitions = Heap!RootsOf(parents)

(* No visit takes a reference out of the heap, splits a partition or drops *)
(* a field of one, though field maps are moved and replaced.               *)
Kept(r) ==
  /\ r \in DOMAIN parents'
  /\ Root(parents', r) = Root(parents', Root(parents, r))
  /\ DOMAIN partitions[Root(parents, r)].fieldRefs
       \subseteq DOMAIN partitions'[Root(parents', r)].fieldRefs

(* And only Unify joins partitions, of one pending pair at a time: a visit *)
(* that writes a field map, or climbs to a representative and compresses   *)
(* the path, moves no reference to another partition.                      *)
PendingPairs == IF frames = <<>> THEN {} ELSE Head(frames)
Joins(pairs) ==
  \A r, s \in DOMAIN parents :
    Root(parents', r) = Root(parents', s) =>
      \/ Root(parents, r) = Root(parents, s)
      \/ \E pair \in pairs : {Root(parents, r), Root(parents, s)}
                               = {Rep(parents, pair[1]), Rep(parents, pair[2])}

HeapGrows ==
  [][/\ \A r \in DOMAIN parents : Kept(r)
     /\ Joins({}) \/ \E pair \in PendingPairs : Joins({pair})]_analysisVars
=============================================================================
