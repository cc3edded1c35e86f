---------------------------- MODULE Propagation ----------------------------
(***************************************************************************)
(* The taint propagation of propagation/propagation.go and stdlib.go: a    *)
(* depth-first search of one function's SSA graph, from a source, along    *)
(* Referrers and Operands.  The recursion of taint, taintNeighbors and     *)
(* their helpers is the variable stack: its items are the calls to taint   *)
(* still to be made, in the order the code makes them.                     *)
(*                                                                         *)
(* What the search reads of the function is the record prog, one of        *)
(* Programs.  prog.code numbers the nodes: the function's parameters and   *)
(* the like, in no block (NoBlock), then its instructions, block by block  *)
(* and in order.  So of two instructions of one block the one with the     *)
(* higher number has the higher indexInBlock, and the number stands for    *)
(* the index.  prog.refs holds the referrers, prog.succs the control flow  *)
(* graph, whose entry is block 1.                                          *)
(***************************************************************************)
EXTENDS Naturals, Sequences, FiniteSets

CONSTANT Programs

VARIABLES
  prog,        \* the function and the root of the propagation
  stack,       \* calls to taint not made yet, next one first
  tainted,     \* Propagation.tainted
  sanitizers,  \* Propagation.sanitizers
  panicked     \* the search dereferenced a nil *ssa.Extract

vars == <<prog, stack, tainted, sanitizers, panicked>>

NoBlock == 0
NilNode == 0

(* A node: its kind, its operands (of a call, its arguments), its block,   *)
(* hasTaintableType and canBeTaintedByCall of its type, the Index of an    *)
(* Extract, whether it is the special case of its kind (an array Alloc, a  *)
(* source field, a call to a sink), the summary of a call and the states   *)
(* of a Select.                                                            *)
Kinds == {"alloc", "field", "index", "write", "both", "value", "extract", "select",
          "sanitizer", "append", "copy", "call", "go", "inert"}

CallKinds == {"sanitizer", "append", "copy", "call"}

Summary == [ifTainted : SUBSET Nat, taintedArgs : Seq(Nat), taintedRets : Seq(Nat),
            results : Nat]

SelectStates == Seq([recv : BOOLEAN, chan : Nat, send : Nat])

Node(p) == DOMAIN p.code
Block(p) == DOMAIN p.succs
IsInstr(p, n) == p.code[n].block # NoBlock

-----------------------------------------------------------------------------
(* Blocks on some path from a, and dominance: every path from the entry to *)
(* b goes through a.                                                       *)
Leads(p, S) == UNION {p.succs[b] : b \in S}

ReachableAvoiding(p, a, cut) ==
  {b \in Block(p) : \A S \in SUBSET Block(p) :
     a \in S /\ (Leads(p, S) \ cut) \subseteq S => b \in S}

\* Mutant: a path through a, where every path is asked for.
DominatesBlock_reaches(p, a, b) == b \in ReachableAvoiding(p, a, {})

DominatesBlock(p, a, b) ==
  a = b \/ a = 1 \/ b \notin ReachableAvoiding(p, 1, {a})

(* Its first test, start.Dominates(dest), decides no more than the search. *)
CanReach(p, a, b) == b \in ReachableAvoiding(p, a, {})

\* Mutant: targetIdx < sanitizationIdx.
Dominates_reversed(p, s, n) ==
  IF p.code[s].block = p.code[n].block
  THEN n < s
  ELSE DominatesBlock(p, p.code[s].block, p.code[n].block)

(* Sanitizer.Dominates                                                     *)
Dominates(p, s, n) ==
  IF p.code[s].block = p.code[n].block
  THEN s < n
  ELSE DominatesBlock(p, p.code[s].block, p.code[n].block)

-----------------------------------------------------------------------------
(* What go/ssa guarantees of a function: the referrers of n are what has n *)
(* among its operands; control can reach them from n, and only a loop      *)
(* takes it to one that is not below n in n's own block (a phi).           *)
Uses(p, m, n) == \E k \in DOMAIN p.refs[m] : p.refs[m][k] = n
InLoop(p, b) == \E s \in p.succs[b] : CanReach(p, s, b)

IsNode(p, n) ==
  LET node == p.code[n]
  IN  /\ node.kind \in Kinds
      /\ node.ops \in Seq(Node(p))
      /\ node.block \in Block(p) \cup {NoBlock}
      /\ {node.taintable, node.pointerLike, node.special} \subseteq BOOLEAN
      /\ node.idx \in Nat
      /\ node.summ \in Summary
      /\ node.states \in SelectStates
      /\ node.kind \in {"index", "write", "append", "copy"} => 1 \in DOMAIN node.ops
      /\ node.kind \in CallKinds => node.block # NoBlock
      /\ \A k \in DOMAIN node.summ.taintedArgs : node.summ.taintedArgs[k] \in DOMAIN node.ops
      /\ \A k \in DOMAIN node.states :
           {node.states[k].chan, node.states[k].send} \subseteq {node.ops[i] : i \in DOMAIN node.ops}

IsProgram(p) ==
  /\ DOMAIN p.code \subseteq Nat \ {NilNode}
  /\ DOMAIN p.succs \subseteq Nat \ {NoBlock}
  /\ \A b \in Block(p) : p.succs[b] \subseteq Block(p)
  /\ p.root \in Node(p)
  /\ p.refs \in [Node(p) -> Seq(Node(p))]
  /\ \A n \in Node(p) :
       /\ IsNode(p, n)
       /\ \A k \in DOMAIN p.refs[n] :
            LET r == p.refs[n][k]
            IN  /\ \E i \in DOMAIN p.code[r].ops : p.code[r].ops[i] = n
                /\ IsInstr(p, r)
                /\ IsInstr(p, n) =>
                     IF p.code[r].block = p.code[n].block
                     THEN n < r \/ InLoop(p, p.code[n].block)
                     ELSE CanReach(p, p.code[n].block, p.code[r].block)
       /\ \A i \in DOMAIN p.code[n].ops :
            IsInstr(p, p.code[n].ops[i]) => Uses(p, p.code[n].ops[i], n)

ASSUME ProgramsAssumption == \A p \in Programs : IsProgram(p)

-----------------------------------------------------------------------------
ToTaint(seq, isReferrer) == [i \in DOMAIN seq |-> [node |-> seq[i], ref |-> isReferrer]]

\* Mutant: taint passes through numbers and booleans.
Referrers_anyType(p, n) == ToTaint(p.refs[n], TRUE)

Referrers(p, n) == IF p.code[n].taintable THEN ToTaint(p.refs[n], TRUE) ELSE <<>>

Operands(p, n) == ToTaint(p.code[n].ops, FALSE)

FirstOperand(p, n) == ToTaint(<<p.code[n].ops[1]>>, FALSE)

CallArg(p, arg) == IF p.code[arg].pointerLike THEN ToTaint(<<arg>>, FALSE) ELSE <<>>

(* The Extract of value i of a tuple, nil if no instruction extracts it.   *)
ExtractOf(p, n, i) ==
  LET found == {k \in DOMAIN p.refs[n] :
                  /\ p.code[p.refs[n][k]].kind = "extract"
                  /\ p.code[p.refs[n][k]].idx = i}
  IN  IF found = {} THEN NilNode ELSE p.refs[n][CHOOSE k \in found : TRUE]

(* taintStdlibCall.  The loop over TaintedRets takes the positions in the  *)
(* slice, and not the values it holds, for the indices of the Extracts.    *)
TaintedExtracts(p, n, rets) ==
  [i \in DOMAIN rets |-> [node |-> ExtractOf(p, n, i - 1), ref |-> TRUE]]

StdlibResults(p, n, summ) ==
  IF p.code[n].kind = "go" THEN <<>>
  ELSE IF summ.results = 1
       THEN IF summ.taintedRets = <<>> THEN <<>> ELSE Referrers(p, n)
       ELSE TaintedExtracts(p, n, summ.taintedRets)

StdlibCall(p, n, marked) ==
  LET summ == p.code[n].summ
      ops == p.code[n].ops
  IN  IF \E i \in DOMAIN ops : ops[i] \in marked /\ i \in summ.ifTainted
      THEN ToTaint([i \in DOMAIN summ.taintedArgs |-> ops[summ.taintedArgs[i]]], FALSE)
             \o StdlibResults(p, n, summ)
      ELSE <<>>

(* taintNeighbors: what it calls taint on, in order, but for a Select,     *)
(* whose states read tainted as it goes.                                   *)
Neighbors(p, n, marked) ==
  LET node == p.code[n]
  IN  CASE node.kind = "alloc" -> IF node.special THEN Referrers(p, n) ELSE <<>>
        [] node.kind = "field" ->
             IF node.special THEN Referrers(p, n) \o Operands(p, n) ELSE <<>>
        [] node.kind = "index" -> Referrers(p, n) \o FirstOperand(p, n)
        [] node.kind = "write" -> FirstOperand(p, n)
        [] node.kind = "both" -> Referrers(p, n) \o Operands(p, n)
        [] node.kind \in {"value", "extract"} -> Referrers(p, n)
        [] node.kind = "append" -> CallArg(p, node.ops[1]) \o Referrers(p, n)
        [] node.kind = "copy" -> CallArg(p, node.ops[1])
        [] node.kind \in {"call", "go"} -> StdlibCall(p, n, marked)
        [] node.kind \in {"select", "sanitizer", "inert"} -> <<>>

(* taintSelect, state k: a tainted Send taints the channel, a tainted      *)
(* channel the Extracts of what is received.                               *)
RecvIndex(p, n, k) ==
  Cardinality({j \in 1..(k - 1) : p.code[n].states[j].recv}) + 2

\* Mutant: the Extract of a received value is looked up as a sent one.
SelectState_sendOnly(p, n, k, marked) ==
  LET state == p.code[n].states[k]
  IN  IF ~state.recv /\ state.send \in marked THEN ToTaint(<<state.chan>>, FALSE) ELSE <<>>

SelectState(p, n, k, marked) ==
  LET state == p.code[n].states[k]
      extract == ExtractOf(p, n, RecvIndex(p, n, k))
  IN  IF state.recv
      THEN IF state.chan \in marked /\ extract # NilNode
           THEN ToTaint(<<extract>>, FALSE) ELSE <<>>
      ELSE IF state.send \in marked THEN ToTaint(<<state.chan>>, FALSE) ELSE <<>>

-----------------------------------------------------------------------------
(* A stack item: a call taint(node, mir, last, ref); with state k > 0, the *)
(* rest of taintSelect from its k-th state on.                             *)
Item(node, ref, mir, last, state) ==
  [node |-> node, ref |-> ref, mir |-> mir, last |-> last, state |-> state]

Items(calls, mir, last) ==
  [i \in DOMAIN calls |-> Item(calls[i].node, calls[i].ref, mir, last, 0)]

NoneReached(p) == [b \in Block(p) |-> 0]

SelectFrom(p, n, k, mir, last) ==
  IF p.code[n].kind = "select" /\ k <= Len(p.code[n].states)
  THEN <<Item(n, FALSE, mir, last, k)>> ELSE <<>>

\* Mutants of the three tests of shouldNotTaint, each one forgotten.
Unreachable_never(p, item) == FALSE
InThePast_never(p, item) == FALSE

(* shouldNotTaint                                                          *)
Unreachable(p, item) ==
  /\ IsInstr(p, item.node)
  /\ item.last # NoBlock
  /\ p.code[item.node].block # item.last
  /\ ~CanReach(p, item.last, p.code[item.node].block)

InThePast(p, item) ==
  /\ p.code[item.node].kind \in CallKinds
  /\ item.ref
  /\ item.node < item.mir[p.code[item.node].block]

ShouldNotTaint_revisits(p, marked, item) == Unreachable(p, item) \/ InThePast(p, item)

ShouldNotTaint(p, marked, item) ==
  \/ item.node \in marked
  \/ Unreachable(p, item)
  \/ InThePast(p, item)

(* mirCopy and lastBlockVisited for the visits that n leads to.            *)
MaxReached(p, mir, n) ==
  IF IsInstr(p, n) /\ mir[p.code[n].block] < n
  THEN [mir EXCEPT ![p.code[n].block] = n] ELSE mir

LastBlock(p, last, n) == IF IsInstr(p, n) THEN p.code[n].block ELSE last

-----------------------------------------------------------------------------
(* Taint: the search from the root, and then once more from its referrers, *)
(* with nothing reached yet.                                               *)
InitialStack(p) ==
  <<Item(p.root, FALSE, NoneReached(p), NoBlock, 0)>>
    \o Items(Referrers(p, p.root), NoneReached(p), NoBlock)

Init ==
  /\ prog \in Programs
  /\ stack = InitialStack(prog)
  /\ tainted = {}
  /\ sanitizers = {}
  /\ panicked = FALSE

Pending == stack # <<>> /\ ~panicked

\* Mutant: a sanitizer is recorded before it is marked, and not marked.
Visit_unmarked ==
  LET item == Head(stack)
      n == item.node
      mir == MaxReached(prog, item.mir, n)
      last == LastBlock(prog, item.last, n)
  IN  /\ Pending
      /\ item.state = 0
      /\ n # NilNode
      /\ ~ShouldNotTaint(prog, tainted, item)
      /\ IF prog.code[n].kind = "sanitizer"
         THEN sanitizers' = sanitizers \cup {n} /\ UNCHANGED tainted
         ELSE tainted' = tainted \cup {n} /\ UNCHANGED sanitizers
      /\ stack' = Items(Neighbors(prog, n, tainted'), mir, last)
                    \o SelectFrom(prog, n, 1, mir, last) \o Tail(stack)
      /\ UNCHANGED <<prog, panicked>>

(* taint(n, ...) when shouldNotTaint lets it go on.                        *)
Visit ==
  LET item == Head(stack)
      n == item.node
      mir == MaxReached(prog, item.mir, n)
      last == LastBlock(prog, item.last, n)
  IN  /\ Pending
      /\ item.state = 0
      /\ n # NilNode
      /\ ~ShouldNotTaint(prog, tainted, item)
      /\ tainted' = tainted \cup {n}
      /\ stack' = Items(Neighbors(prog, n, tainted \cup {n}), mir, last)
                    \o SelectFrom(prog, n, 1, mir, last) \o Tail(stack)
      /\ sanitizers' = IF prog.code[n].kind = "sanitizer" THEN sanitizers \cup {n}
                       ELSE sanitizers
      /\ UNCHANGED <<prog, panicked>>

Skip ==
  LET item == Head(stack)
  IN  /\ Pending
      /\ item.state = 0
      /\ item.node # NilNode
      /\ ShouldNotTaint(prog, tainted, item)
      /\ stack' = Tail(stack)
      /\ UNCHANGED <<prog, tainted, sanitizers, panicked>>

NextState ==
  LET item == Head(stack)
      n == item.node
      k == item.state
  IN  /\ Pending
      /\ k > 0
      /\ stack' = Items(SelectState(prog, n, k, tainted), item.mir, item.last)
                    \o SelectFrom(prog, n, k + 1, item.mir, item.last) \o Tail(stack)
      /\ UNCHANGED <<prog, tainted, sanitizers, panicked>>

(* taint of an Extract that does not exist: target.Block() on nil.         *)
NilExtract ==
  /\ Pending
  /\ Head(stack).node = NilNode
  /\ panicked' = TRUE
  /\ UNCHANGED <<prog, stack, tainted, sanitizers>>

Step == Visit \/ Skip \/ NextState \/ NilExtract

Spec == Init /\ [][Step]_vars /\ WF_vars(Step)

-----------------------------------------------------------------------------
StackItem(p) ==
  [node : Node(p) \cup {NilNode}, ref : BOOLEAN, mir : [Block(p) -> Nat],
   last : Block(p) \cup {NoBlock}, state : Nat]

TypeOK ==
  /\ stack \in Seq(StackItem(prog))
  /\ tainted \subseteq Node(prog)
  /\ sanitizers \subseteq tainted
  /\ panicked \in BOOLEAN

(* The edges of the graph along which taint may pass, whatever the order   *)
(* of the visits.  Forwards, from a value to an instruction that uses it,  *)
(* unless its type or its kind keeps taint in; and, from the start, to     *)
(* whatever uses the root.                                                 *)
Forwards(p, m, n) ==
  /\ Uses(p, m, n)
  /\ p.code[m].taintable \/ p.code[m].kind \in {"call", "select"}
  /\ \/ p.code[m].kind \notin {"field", "alloc", "write", "copy", "go", "inert", "sanitizer"}
     \/ p.code[m].kind \in {"field", "alloc"} /\ p.code[m].special
     \/ m = p.root

(* Backwards, into the object that an instruction writes or looks into.    *)
Backwards(p, m, n) ==
  LET node == p.code[m]
  IN  \E i \in DOMAIN node.ops :
        /\ node.ops[i] = n
        /\ \/ node.kind = "both"
           \/ node.kind = "field" /\ node.special
           \/ node.kind \in {"index", "write"} /\ i = 1
           \/ node.kind \in {"append", "copy"} /\ i = 1 /\ p.code[n].pointerLike
           \/ /\ node.kind \in {"call", "go"}
              /\ \E k \in DOMAIN node.summ.taintedArgs : node.summ.taintedArgs[k] = i

IntoChannel(p, m, n) ==
  /\ p.code[m].kind = "select"
  /\ \E k \in DOMAIN p.code[m].states :
       ~p.code[m].states[k].recv /\ p.code[m].states[k].chan = n

FlowsTo(p, m, n) == Forwards(p, m, n) \/ Backwards(p, m, n) \/ IntoChannel(p, m, n)

RootOf(p) == p.root

(* Refinement: each step taints at most one node, and one that such an     *)
(* edge leads to from a node tainted before it.                            *)
Abstract == INSTANCE AbstractTaint WITH graph <- prog, Nodes <- Node, Root <- RootOf
AbstractSpec == Abstract!Spec

(* The search ends, whatever cycles the SSA graph has.                     *)
SearchEnds == <>~Pending

(* stdlib.go:76 "the call's Referrers will contain one Extract for each    *)
(* returned value".                                                        *)
NeverPanics == ~panicked

(* Flow sensitivity across blocks: when the root is an instruction, no     *)
(* instruction is tainted that control cannot reach from it.               *)
TaintFollowsControl ==
  IsInstr(prog, prog.root) =>
    \A n \in tainted : IsInstr(prog, n) =>
      CanReach(prog, prog.code[prog.root].block, prog.code[n].block)

(* And within them: a call whose result nothing uses is tainted only if it *)
(* can execute after the root, later in its block or around a loop.        *)
NothingInThePast ==
  IsInstr(prog, prog.root) =>
    \A n \in tainted :
      LET b == prog.code[prog.root].block
          c == prog.code[n].block
      IN  prog.code[n].kind \in CallKinds /\ prog.refs[n] = <<>> =>
            \/ c = b /\ prog.root <= n
            \/ \E s \in prog.succs[b] : CanReach(prog, s, c)
=============================================================================
