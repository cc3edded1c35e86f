------------------------- MODULE Propagation_proofs -------------------------
(***************************************************************************)
(* Proofs about Propagation, for every function and every source in it.    *)
(* The inductive invariant IInv says of each call that is still to be made *)
(* why it may be made: an edge leads to its node from a tainted one,       *)
(* control can reach the block it comes from out of the root's, and it     *)
(* carries the root's index as long as it stays in the root's block.       *)
(***************************************************************************)
EXTENDS Propagation, TLAPS

-----------------------------------------------------------------------------
(* Sequences                                                               *)

LEMMA SeqDomain ==
  ASSUME NEW T, NEW s \in Seq(T)
  PROVE  /\ Len(s) \in Nat
         /\ DOMAIN s = 1..Len(s)
         /\ \A i \in DOMAIN s : s[i] \in T
OBVIOUS

LEMMA SeqIs ==
  ASSUME NEW T, NEW m \in Nat, NEW f \in [1..m -> T]
  PROVE  f \in Seq(T)
OBVIOUS

LEMMA SeqOfSuperset ==
  ASSUME NEW S, NEW T, S \subseteq T, NEW s \in Seq(S)
  PROVE  s \in Seq(T)
<1>1. s \in [1..Len(s) -> S] /\ Len(s) \in Nat
  OBVIOUS
<1>2. s \in [1..Len(s) -> T]
  BY <1>1
<1> QED BY <1>1, <1>2

LEMMA OneSeq ==
  ASSUME NEW T, NEW x \in T
  PROVE  <<x>> \in Seq(T)
OBVIOUS

LEMMA ConcatSeq ==
  ASSUME NEW T, NEW s \in Seq(T), NEW t \in Seq(T)
  PROVE  s \o t \in Seq(T)
OBVIOUS

-----------------------------------------------------------------------------
(* Control flow                                                            *)

LEMMA ReachSelf ==
  ASSUME NEW p, NEW a \in Block(p)
  PROVE  CanReach(p, a, a)
BY DEF CanReach, ReachableAvoiding

LEMMA ReachTrans ==
  ASSUME NEW p, NEW a, NEW b, NEW c, CanReach(p, a, b), CanReach(p, b, c)
  PROVE  CanReach(p, a, c)
BY DEF CanReach, ReachableAvoiding

(* A block that is reached from a is reached from a successor of a, unless *)
(* it is a.                                                                *)
LEMMA ReachFirst ==
  ASSUME NEW p, NEW a \in Block(p), NEW b, CanReach(p, a, b), b # a,
         \A c \in Block(p) : p.succs[c] \subseteq Block(p)
  PROVE  \E s \in p.succs[a] : CanReach(p, s, b)
<1> DEFINE S == {a} \cup {c \in Block(p) : \E s \in p.succs[a] : CanReach(p, s, c)}
<1>1. S \in SUBSET Block(p) /\ a \in S
  OBVIOUS
<1>2. ASSUME NEW c \in S, NEW d \in p.succs[c]
      PROVE  d \in S
  <2>1. d \in Block(p)
    BY <1>1
  <2>2. CASE c = a
    BY <2>1, <2>2, ReachSelf
  <2>3. CASE c # a
    <3>1. PICK s \in p.succs[a] : CanReach(p, s, c)
      BY <2>3
    <3>2. CanReach(p, c, d)
      BY <2>1 DEF CanReach, ReachableAvoiding, Leads
    <3> QED BY <2>1, <3>1, <3>2, ReachTrans
  <2> QED BY <2>2, <2>3
<1>3. Leads(p, S) \ {} \subseteq S
  BY <1>2 DEF Leads
<1>4. b \in S
  BY <1>1, <1>3 DEF CanReach, ReachableAvoiding
<1> QED BY <1>4

LEMMA ReachIsBlock ==
  ASSUME NEW p, NEW a, NEW b, CanReach(p, a, b)
  PROVE  b \in Block(p)
BY DEF CanReach, ReachableAvoiding

-----------------------------------------------------------------------------
(* What taintNeighbors calls taint on                                      *)

(* What taint can come to backwards: no call of which nothing is used.     *)
MayBeOperand(p, n) == p.code[n].kind \in CallKinds => p.refs[n] # <<>>

(* The calls that an edge from n accounts for.                             *)
CallFrom(p, n) ==
  {c \in [node : Node(p) \cup {NilNode}, ref : BOOLEAN] :
     c.node # NilNode => /\ FlowsTo(p, n, c.node)
                         /\ c.ref \/ MayBeOperand(p, c.node)}

LEMMA NodeFacts ==
  ASSUME NEW p \in Programs, NEW n \in Node(p)
  PROVE  /\ IsNode(p, n)
         /\ p.refs[n] \in Seq(Node(p))
         /\ NilNode \notin Node(p)
         /\ NoBlock \notin Block(p)
         /\ p.root \in Node(p)
         /\ \A k \in DOMAIN p.refs[n] :
              /\ IsInstr(p, p.refs[n][k])
              /\ IsInstr(p, n) => CanReach(p, p.code[n].block, p.code[p.refs[n][k]].block)
<1>1. IsProgram(p)
  BY ProgramsAssumption
<1>2. \A k \in DOMAIN p.refs[n] :
        /\ IsInstr(p, p.refs[n][k])
        /\ IsInstr(p, n) => \/ p.code[p.refs[n][k]].block = p.code[n].block
                            \/ CanReach(p, p.code[n].block, p.code[p.refs[n][k]].block)
  BY <1>1 DEF IsProgram
<1>3. IsNode(p, n)
  BY <1>1 DEF IsProgram
<1>4. IsInstr(p, n) => CanReach(p, p.code[n].block, p.code[n].block)
  BY <1>3, ReachSelf DEF IsNode, IsInstr
<1>5. \A k \in DOMAIN p.refs[n] :
        IsInstr(p, n) => CanReach(p, p.code[n].block, p.code[p.refs[n][k]].block)
  BY <1>2, <1>4
<1>6. /\ p.refs[n] \in Seq(Node(p))
      /\ NilNode \notin Node(p) /\ NoBlock \notin Block(p)
      /\ p.root \in Node(p)
  BY <1>1 DEF IsProgram, Node, Block
<1> QED BY <1>2, <1>3, <1>5, <1>6

(* The order of the instructions of a block.                               *)
LEMMA UsesLater ==
  ASSUME NEW p \in Programs, NEW n \in Node(p), NEW r, Uses(p, n, r), IsInstr(p, n),
         p.code[r].block = p.code[n].block, ~InLoop(p, p.code[n].block)
  PROVE  n < r
BY ProgramsAssumption DEF IsProgram, Uses

LEMMA OperandIsUsed ==
  ASSUME NEW p \in Programs, NEW n \in Node(p), NEW i \in DOMAIN p.code[n].ops,
         IsInstr(p, p.code[n].ops[i])
  PROVE  Uses(p, p.code[n].ops[i], n)
BY ProgramsAssumption DEF IsProgram

LEMMA OperandMay ==
  ASSUME NEW p \in Programs, NEW n \in Node(p), NEW i \in DOMAIN p.code[n].ops
  PROVE  MayBeOperand(p, p.code[n].ops[i])
<1> DEFINE m == p.code[n].ops[i]
<1>1. m \in Node(p)
  BY NodeFacts, SeqDomain DEF IsNode
<1>2. p.code[m].kind \in CallKinds => IsInstr(p, m)
  BY <1>1, NodeFacts DEF IsNode, IsInstr
<1>3. IsInstr(p, m) => Uses(p, m, n)
  BY OperandIsUsed
<1>4. Uses(p, m, n) => p.refs[m] # <<>>
  BY DEF Uses
<1> QED BY <1>2, <1>3, <1>4 DEF MayBeOperand

LEMMA ToTaintIs ==
  ASSUME NEW p \in Programs, NEW n \in Node(p), NEW s \in Seq(Node(p)), NEW r \in BOOLEAN,
         \A i \in DOMAIN s : FlowsTo(p, n, s[i]) /\ (r \/ MayBeOperand(p, s[i]))
  PROVE  ToTaint(s, r) \in Seq(CallFrom(p, n))
<1>1. Len(s) \in Nat /\ DOMAIN s = 1..Len(s) /\ \A i \in DOMAIN s : s[i] \in Node(p)
  BY SeqDomain
<1>2. NilNode \notin Node(p)
  BY NodeFacts
<1>3. ToTaint(s, r) = [i \in 1..Len(s) |-> [node |-> s[i], ref |-> r]]
  BY <1>1 DEF ToTaint
<1>4. \A i \in 1..Len(s) : [node |-> s[i], ref |-> r] \in CallFrom(p, n)
  BY <1>1, <1>2 DEF CallFrom
<1>5. ToTaint(s, r) \in [1..Len(s) -> CallFrom(p, n)]
  BY <1>3, <1>4
<1> QED BY <1>1, <1>5, SeqIs

LEMMA EmptyCalls ==
  ASSUME NEW p, NEW n
  PROVE  <<>> \in Seq(CallFrom(p, n))
OBVIOUS

(* Forwards, along Referrers.                                              *)
LetsThrough(p, n) ==
  \/ p.code[n].kind \notin {"field", "alloc", "write", "copy", "go", "inert", "sanitizer"}
  \/ p.code[n].kind \in {"field", "alloc"} /\ p.code[n].special
  \/ n = p.root

LEMMA ReferrersFrom ==
  ASSUME NEW p \in Programs, NEW n \in Node(p), LetsThrough(p, n)
  PROVE  Referrers(p, n) \in Seq(CallFrom(p, n))
<1>1. CASE ~p.code[n].taintable
  BY <1>1, EmptyCalls DEF Referrers
<1>2. CASE p.code[n].taintable
  <2>1. p.refs[n] \in Seq(Node(p))
    BY NodeFacts
  <2>2. \A i \in DOMAIN p.refs[n] : FlowsTo(p, n, p.refs[n][i])
    BY <1>2 DEF FlowsTo, Forwards, Uses, LetsThrough
  <2>3. ToTaint(p.refs[n], TRUE) \in Seq(CallFrom(p, n))
    BY <2>1, <2>2, ToTaintIs
  <2> QED BY <1>2, <2>3 DEF Referrers
<1> QED BY <1>1, <1>2

(* Backwards, to operands.                                                 *)
LEMMA OperandsFrom ==
  ASSUME NEW p \in Programs, NEW n \in Node(p),
         p.code[n].kind = "both" \/ (p.code[n].kind = "field" /\ p.code[n].special)
  PROVE  Operands(p, n) \in Seq(CallFrom(p, n))
<1>1. p.code[n].ops \in Seq(Node(p))
  BY NodeFacts DEF IsNode
<1>2. \A i \in DOMAIN p.code[n].ops : FlowsTo(p, n, p.code[n].ops[i])
  BY DEF FlowsTo, Backwards
<1> QED BY <1>1, <1>2, OperandMay, ToTaintIs DEF Operands

LEMMA OneCall ==
  ASSUME NEW p \in Programs, NEW n \in Node(p), NEW m \in Node(p), FlowsTo(p, n, m),
         MayBeOperand(p, m)
  PROVE  ToTaint(<<m>>, FALSE) \in Seq(CallFrom(p, n))
<1>1. <<m>> \in Seq(Node(p)) /\ \A i \in DOMAIN <<m>> : <<m>>[i] = m
  OBVIOUS
<1> QED BY <1>1, ToTaintIs

LEMMA FirstOperandFrom ==
  ASSUME NEW p \in Programs, NEW n \in Node(p), p.code[n].kind \in {"index", "write"}
  PROVE  FirstOperand(p, n) \in Seq(CallFrom(p, n))
<1>1. p.code[n].ops \in Seq(Node(p)) /\ 1 \in DOMAIN p.code[n].ops
  BY NodeFacts DEF IsNode
<1>2. p.code[n].ops[1] \in Node(p)
  BY <1>1, SeqDomain
<1>3. FlowsTo(p, n, p.code[n].ops[1])
  BY <1>1 DEF FlowsTo, Backwards
<1> QED BY <1>1, <1>2, <1>3, OperandMay, OneCall DEF FirstOperand

LEMMA CallArgFrom ==
  ASSUME NEW p \in Programs, NEW n \in Node(p), p.code[n].kind \in {"append", "copy"}
  PROVE  CallArg(p, p.code[n].ops[1]) \in Seq(CallFrom(p, n))
<1>1. p.code[n].ops \in Seq(Node(p)) /\ 1 \in DOMAIN p.code[n].ops
  BY NodeFacts DEF IsNode
<1>2. p.code[n].ops[1] \in Node(p)
  BY <1>1, SeqDomain
<1>3. CASE p.code[p.code[n].ops[1]].pointerLike
  <2>1. FlowsTo(p, n, p.code[n].ops[1])
    BY <1>1, <1>3 DEF FlowsTo, Backwards
  <2> QED BY <1>1, <1>2, <1>3, <2>1, OperandMay, OneCall DEF CallArg
<1>4. CASE ~p.code[p.code[n].ops[1]].pointerLike
  BY <1>4, EmptyCalls DEF CallArg
<1> QED BY <1>3, <1>4

(* An Extract that is not nil is a referrer of the tuple.                  *)
LEMMA ExtractIsUse ==
  ASSUME NEW p \in Programs, NEW n \in Node(p), NEW i,
         ExtractOf(p, n, i) # NilNode
  PROVE  /\ ExtractOf(p, n, i) \in Node(p)
         /\ Uses(p, n, ExtractOf(p, n, i))
         /\ MayBeOperand(p, ExtractOf(p, n, i))
<1> DEFINE found == {k \in DOMAIN p.refs[n] :
                       /\ p.code[p.refs[n][k]].kind = "extract"
                       /\ p.code[p.refs[n][k]].idx = i}
<1>1. ExtractOf(p, n, i) = IF found = {} THEN NilNode ELSE p.refs[n][CHOOSE k \in found : TRUE]
  BY DEF ExtractOf
<1>2. found # {}
  BY <1>1
<1>3. PICK k \in DOMAIN p.refs[n] : /\ ExtractOf(p, n, i) = p.refs[n][k]
                                    /\ p.code[p.refs[n][k]].kind = "extract"
  BY <1>1, <1>2
<1>4. p.refs[n] \in Seq(Node(p))
  BY NodeFacts
<1>5. p.refs[n][k] \in Node(p)
  BY <1>4, SeqDomain
<1> QED BY <1>3, <1>5 DEF Uses, MayBeOperand, CallKinds

LEMMA ExtractsFrom ==
  ASSUME NEW p \in Programs, NEW n \in Node(p), p.code[n].kind = "call",
         NEW rets \in Seq(Nat)
  PROVE  TaintedExtracts(p, n, rets) \in Seq(CallFrom(p, n))
<1>1. Len(rets) \in Nat /\ DOMAIN rets = 1..Len(rets)
  OBVIOUS
<1>2. ASSUME NEW i \in 1..Len(rets)
      PROVE  [node |-> ExtractOf(p, n, i - 1), ref |-> TRUE] \in CallFrom(p, n)
  <2>1. CASE ExtractOf(p, n, i - 1) = NilNode
    BY <2>1 DEF CallFrom
  <2>2. CASE ExtractOf(p, n, i - 1) # NilNode
    <3>1. ExtractOf(p, n, i - 1) \in Node(p) /\ Uses(p, n, ExtractOf(p, n, i - 1))
      BY <2>2, ExtractIsUse
    <3>2. FlowsTo(p, n, ExtractOf(p, n, i - 1))
      BY <3>1 DEF FlowsTo, Forwards
    <3> QED BY <3>1, <3>2 DEF CallFrom
  <2> QED BY <2>1, <2>2
<1>3. TaintedExtracts(p, n, rets) \in [1..Len(rets) -> CallFrom(p, n)]
  BY <1>1, <1>2 DEF TaintedExtracts
<1> QED BY <1>1, <1>3, SeqIs

LEMMA StdlibFrom ==
  ASSUME NEW p \in Programs, NEW n \in Node(p), p.code[n].kind \in {"call", "go"}, NEW marked
  PROVE  StdlibCall(p, n, marked) \in Seq(CallFrom(p, n))
<1> DEFINE summ == p.code[n].summ
           ops == p.code[n].ops
           args == [i \in DOMAIN summ.taintedArgs |-> ops[summ.taintedArgs[i]]]
<1>1. /\ ops \in Seq(Node(p))
      /\ summ \in Summary
      /\ \A k \in DOMAIN summ.taintedArgs : summ.taintedArgs[k] \in DOMAIN ops
  BY NodeFacts DEF IsNode
<1>2. summ.taintedArgs \in Seq(Nat) /\ summ.taintedRets \in Seq(Nat)
  BY <1>1 DEF Summary
<1>3. Len(summ.taintedArgs) \in Nat /\ DOMAIN summ.taintedArgs = 1..Len(summ.taintedArgs)
  BY <1>2, SeqDomain
<1>4. \A i \in DOMAIN summ.taintedArgs : ops[summ.taintedArgs[i]] \in Node(p)
  BY <1>1, SeqDomain
<1>5. args \in [1..Len(summ.taintedArgs) -> Node(p)]
  BY <1>3, <1>4
<1>6. args \in Seq(Node(p))
  BY <1>3, <1>5, SeqIs
<1>7. \A i \in DOMAIN args : FlowsTo(p, n, args[i]) /\ MayBeOperand(p, args[i])
  <2>1. \A i \in DOMAIN args : FlowsTo(p, n, args[i])
    BY <1>1 DEF FlowsTo, Backwards
  <2>2. \A i \in DOMAIN args : MayBeOperand(p, args[i])
    BY <1>1, OperandMay
  <2> QED BY <2>1, <2>2
<1>8. ToTaint(args, FALSE) \in Seq(CallFrom(p, n))
  BY <1>6, <1>7, ToTaintIs
<1>9. StdlibResults(p, n, summ) \in Seq(CallFrom(p, n))
  <2>1. CASE p.code[n].kind = "go"
    BY <2>1, EmptyCalls DEF StdlibResults
  <2>2. CASE p.code[n].kind = "call"
    <3>1. Referrers(p, n) \in Seq(CallFrom(p, n))
      BY <2>2, ReferrersFrom DEF LetsThrough
    <3>2. TaintedExtracts(p, n, summ.taintedRets) \in Seq(CallFrom(p, n))
      BY <2>2, <1>2, ExtractsFrom
    <3> HIDE DEF summ
    <3> QED BY <2>2, <3>1, <3>2, EmptyCalls DEF StdlibResults
  <2> QED BY <2>1, <2>2
<1>10. ToTaint(args, FALSE) \o StdlibResults(p, n, summ) \in Seq(CallFrom(p, n))
  BY <1>8, <1>9, ConcatSeq
<1>11. \/ StdlibCall(p, n, marked) = ToTaint(args, FALSE) \o StdlibResults(p, n, summ)
       \/ StdlibCall(p, n, marked) = <<>>
  BY DEF StdlibCall
<1> HIDE DEF args, summ
<1> QED BY <1>10, <1>11, EmptyCalls

LEMMA NeighborsFrom ==
  ASSUME NEW p \in Programs, NEW n \in Node(p), NEW marked
  PROVE  Neighbors(p, n, marked) \in Seq(CallFrom(p, n))
<1> DEFINE kind == p.code[n].kind
<1>0. kind \in Kinds
  BY NodeFacts DEF IsNode
<1>1. CASE kind \in {"alloc", "field"}
  <2>1. CASE p.code[n].special
    <3>1. Referrers(p, n) \in Seq(CallFrom(p, n))
      BY <1>1, <2>1, ReferrersFrom DEF LetsThrough
    <3>2. kind = "field" => Operands(p, n) \in Seq(CallFrom(p, n))
      BY <2>1, OperandsFrom
    <3> QED BY <1>1, <2>1, <3>1, <3>2, ConcatSeq DEF Neighbors
  <2>2. CASE ~p.code[n].special
    BY <1>1, <2>2, EmptyCalls DEF Neighbors
  <2> QED BY <2>1, <2>2
<1>2. CASE kind \in {"index", "write"}
  <2>1. FirstOperand(p, n) \in Seq(CallFrom(p, n))
    BY <1>2, FirstOperandFrom
  <2>2. kind = "index" => Referrers(p, n) \in Seq(CallFrom(p, n))
    BY ReferrersFrom DEF LetsThrough
  <2> QED BY <1>2, <2>1, <2>2, ConcatSeq DEF Neighbors
<1>3. CASE kind = "both"
  <2>1. Operands(p, n) \in Seq(CallFrom(p, n))
    BY <1>3, OperandsFrom
  <2>2. Referrers(p, n) \in Seq(CallFrom(p, n))
    BY <1>3, ReferrersFrom DEF LetsThrough
  <2> QED BY <1>3, <2>1, <2>2, ConcatSeq DEF Neighbors
<1>4. CASE kind \in {"value", "extract"}
  <2>1. Referrers(p, n) \in Seq(CallFrom(p, n))
    BY <1>4, ReferrersFrom DEF LetsThrough
  <2> QED BY <1>4, <2>1 DEF Neighbors
<1>5. CASE kind \in {"append", "copy"}
  <2>1. CallArg(p, p.code[n].ops[1]) \in Seq(CallFrom(p, n))
    BY <1>5, CallArgFrom
  <2>2. kind = "append" => Referrers(p, n) \in Seq(CallFrom(p, n))
    BY ReferrersFrom DEF LetsThrough
  <2> QED BY <1>5, <2>1, <2>2, ConcatSeq DEF Neighbors
<1>6. CASE kind \in {"call", "go"}
  <2>1. StdlibCall(p, n, marked) \in Seq(CallFrom(p, n))
    BY <1>6, StdlibFrom
  <2> QED BY <1>6, <2>1 DEF Neighbors
<1>7. CASE kind \in {"select", "sanitizer", "inert"}
  BY <1>7, EmptyCalls DEF Neighbors
<1> QED BY <1>0, <1>1, <1>2, <1>3, <1>4, <1>5, <1>6, <1>7 DEF Kinds

LEMMA SelectStateFrom ==
  ASSUME NEW p \in Programs, NEW n \in Node(p), p.code[n].kind = "select",
         NEW k \in DOMAIN p.code[n].states, NEW marked
  PROVE  SelectState(p, n, k, marked) \in Seq(CallFrom(p, n))
<1> DEFINE state == p.code[n].states[k]
           extract == ExtractOf(p, n, RecvIndex(p, n, k))
<1>1. state.chan \in Node(p) /\ MayBeOperand(p, state.chan)
  <2>1. PICK i \in DOMAIN p.code[n].ops : state.chan = p.code[n].ops[i]
    BY NodeFacts DEF IsNode
  <2>2. p.code[n].ops[i] \in Node(p)
    BY NodeFacts, SeqDomain DEF IsNode
  <2> QED BY <2>1, <2>2, OperandMay
<1>2. ~state.recv => ToTaint(<<state.chan>>, FALSE) \in Seq(CallFrom(p, n))
  <2>1. SUFFICES ASSUME ~state.recv PROVE FlowsTo(p, n, state.chan)
    BY <1>1, OneCall
  <2> QED BY <2>1 DEF FlowsTo, IntoChannel
<1>3. extract # NilNode => ToTaint(<<extract>>, FALSE) \in Seq(CallFrom(p, n))
  <2>1. SUFFICES ASSUME extract # NilNode
                 PROVE  ToTaint(<<extract>>, FALSE) \in Seq(CallFrom(p, n))
    OBVIOUS
  <2>2. extract \in Node(p) /\ Uses(p, n, extract) /\ MayBeOperand(p, extract)
    BY <2>1, ExtractIsUse
  <2>3. FlowsTo(p, n, extract)
    BY <2>2 DEF FlowsTo, Forwards
  <2> HIDE DEF extract
  <2> QED BY <2>2, <2>3, OneCall
<1>4. \/ SelectState(p, n, k, marked) = <<>>
      \/ ~state.recv /\ SelectState(p, n, k, marked) = ToTaint(<<state.chan>>, FALSE)
      \/ extract # NilNode /\ SelectState(p, n, k, marked) = ToTaint(<<extract>>, FALSE)
  BY DEF SelectState
<1> HIDE DEF extract, state
<1> QED BY <1>2, <1>3, <1>4, EmptyCalls

-----------------------------------------------------------------------------
(* The invariant                                                           *)

(* Why a node may be tainted once the nodes of T are.                      *)
Why(p, T, n) == n = p.root \/ \E m \in T \cup {p.root} : FlowsTo(p, m, n)

(* A visit that comes from block b follows the root.                       *)
FollowsRoot(p, b) ==
  IsInstr(p, p.root) => b # NoBlock /\ CanReach(p, p.code[p.root].block, b)

(* And, if no loop comes back to the root's block, it follows the root     *)
(* inside that block, or has left the block for good.                      *)
PastRoot(p, mir, b) ==
  IsInstr(p, p.root) /\ ~InLoop(p, p.code[p.root].block) =>
    mir[p.code[p.root].block] >= p.root \/ b \notin {NoBlock, p.code[p.root].block}

(* The calls to taint that may be on the stack when T is tainted.          *)
Owed(p, T) ==
  {item \in StackItem(p) :
     /\ item.state = 0 /\ item.node # NilNode =>
          /\ Why(p, T, item.node)
          /\ item.ref \/ item.node = p.root \/ MayBeOperand(p, item.node)
     /\ item.state # 0 => /\ item.node \in T
                          /\ p.code[item.node].kind = "select"
                          /\ item.state \in DOMAIN p.code[item.node].states
     /\ \/ FollowsRoot(p, item.last) /\ PastRoot(p, item.mir, item.last)
        \/ /\ item.last = NoBlock
           /\ item.state = 0
           /\ item.node = p.root \/ Uses(p, p.root, item.node)}

RootItem(p) == Item(p.root, FALSE, NoneReached(p), NoBlock, 0)

IInv ==
  /\ prog \in Programs
  /\ tainted \subseteq Node(prog)
  /\ sanitizers \subseteq tainted
  /\ panicked \in BOOLEAN
  /\ stack \in Seq(Owed(prog, tainted))
  /\ prog.root \in tainted \/ (stack # <<>> /\ Head(stack) = RootItem(prog))
  /\ TaintFollowsControl
  /\ NothingInThePast

LEMMA OwedGrows ==
  ASSUME NEW p, NEW T, NEW U, T \subseteq U, NEW s \in Seq(Owed(p, T))
  PROVE  s \in Seq(Owed(p, U))
<1>1. Owed(p, T) \subseteq Owed(p, U)
  BY DEF Owed, Why
<1> QED BY <1>1, SeqOfSuperset

LEMMA ItemsOwed ==
  ASSUME NEW p \in Programs, NEW T, NEW n \in T, NEW calls \in Seq(CallFrom(p, n)),
         NEW mir \in [Block(p) -> Nat], NEW last \in Block(p) \cup {NoBlock},
         FollowsRoot(p, last), PastRoot(p, mir, last)
  PROVE  Items(calls, mir, last) \in Seq(Owed(p, T))
<1>1. /\ Len(calls) \in Nat /\ DOMAIN calls = 1..Len(calls)
      /\ \A i \in DOMAIN calls : calls[i] \in CallFrom(p, n)
  BY SeqDomain
<1>2. ASSUME NEW i \in 1..Len(calls)
      PROVE  Item(calls[i].node, calls[i].ref, mir, last, 0) \in Owed(p, T)
  <2>1. /\ calls[i].node \in Node(p) \cup {NilNode}
        /\ calls[i].ref \in BOOLEAN
        /\ calls[i].node # NilNode => /\ FlowsTo(p, n, calls[i].node)
                                      /\ calls[i].ref \/ MayBeOperand(p, calls[i].node)
    BY <1>1 DEF CallFrom
  <2>2. Item(calls[i].node, calls[i].ref, mir, last, 0) \in StackItem(p)
    BY <2>1 DEF Item, StackItem
  <2>3. calls[i].node # NilNode => Why(p, T, calls[i].node)
    BY <2>1 DEF Why
  <2> QED BY <2>1, <2>2, <2>3 DEF Owed, Item
<1>3. Items(calls, mir, last) \in [1..Len(calls) -> Owed(p, T)]
  BY <1>1, <1>2 DEF Items
<1> QED BY <1>1, <1>3, SeqIs

LEMMA SelectOwed ==
  ASSUME NEW p \in Programs, NEW T, NEW n \in T, n \in Node(p), NEW k \in Nat \ {0},
         NEW mir \in [Block(p) -> Nat], NEW last \in Block(p) \cup {NoBlock},
         FollowsRoot(p, last), PastRoot(p, mir, last)
  PROVE  SelectFrom(p, n, k, mir, last) \in Seq(Owed(p, T))
<1>1. CASE p.code[n].kind = "select" /\ k <= Len(p.code[n].states)
  <2>1. p.code[n].states \in SelectStates
    BY NodeFacts DEF IsNode
  <2>2. k \in DOMAIN p.code[n].states
    BY <1>1, <2>1 DEF SelectStates
  <2>3. Item(n, FALSE, mir, last, k) \in StackItem(p)
    BY DEF Item, StackItem
  <2>4. Item(n, FALSE, mir, last, k) \in Owed(p, T)
    BY <1>1, <2>2, <2>3 DEF Owed, Item
  <2>5. SelectFrom(p, n, k, mir, last) = <<Item(n, FALSE, mir, last, k)>>
    BY <1>1 DEF SelectFrom
  <2>6. <<Item(n, FALSE, mir, last, k)>> \in Seq(Owed(p, T))
    BY <2>4, OneSeq
  <2> QED BY <2>5, <2>6
<1>2. CASE ~(p.code[n].kind = "select" /\ k <= Len(p.code[n].states))
  <2>1. SelectFrom(p, n, k, mir, last) = <<>>
    BY <1>2 DEF SelectFrom
  <2>2. <<>> \in Seq(Owed(p, T))
    OBVIOUS
  <2> QED BY <2>1, <2>2
<1> QED BY <1>1, <1>2

LEMMA InitialOwed ==
  ASSUME NEW p \in Programs
  PROVE  /\ InitialStack(p) \in Seq(Owed(p, {}))
         /\ InitialStack(p) # <<>>
         /\ Head(InitialStack(p)) = RootItem(p)
<1> DEFINE calls == Referrers(p, p.root)
           later == Items(calls, NoneReached(p), NoBlock)
<1>1. p.root \in Node(p)
  BY ProgramsAssumption DEF IsProgram
<1>2. calls \in Seq(CallFrom(p, p.root))
  BY <1>1, ReferrersFrom DEF LetsThrough
<1>3. NoneReached(p) \in [Block(p) -> Nat]
  BY DEF NoneReached
<1>4. RootItem(p) \in StackItem(p)
  BY <1>1, <1>3 DEF RootItem, Item, StackItem
<1>5. RootItem(p) \in Owed(p, {})
  BY <1>4 DEF Owed, RootItem, Item, Why
<1>6. /\ Len(calls) \in Nat /\ DOMAIN calls = 1..Len(calls)
      /\ \A i \in DOMAIN calls : calls[i] \in CallFrom(p, p.root)
  BY <1>2, SeqDomain
<1>7. ASSUME NEW i \in 1..Len(calls)
      PROVE  Item(calls[i].node, calls[i].ref, NoneReached(p), NoBlock, 0) \in Owed(p, {})
  <2>1. /\ calls[i].node \in Node(p) \cup {NilNode}
        /\ calls[i].ref \in BOOLEAN
        /\ calls[i].node # NilNode => /\ FlowsTo(p, p.root, calls[i].node)
                                      /\ calls[i].ref \/ MayBeOperand(p, calls[i].node)
    BY <1>6 DEF CallFrom
  <2>2. Uses(p, p.root, calls[i].node)
    <3>1. calls # <<>>
      BY <1>6
    <3>2. calls = ToTaint(p.refs[p.root], TRUE)
      BY <3>1 DEF Referrers
    <3>3. /\ DOMAIN calls = DOMAIN p.refs[p.root]
          /\ \A j \in DOMAIN calls : calls[j].node = p.refs[p.root][j]
      BY <3>2 DEF ToTaint
    <3>4. i \in DOMAIN calls
      BY <1>6
    <3> HIDE DEF calls
    <3> QED BY <3>3, <3>4 DEF Uses
  <2>3. Item(calls[i].node, calls[i].ref, NoneReached(p), NoBlock, 0) \in StackItem(p)
    BY <1>3, <2>1 DEF Item, StackItem
  <2>4. calls[i].node # NilNode => Why(p, {}, calls[i].node)
    BY <2>1 DEF Why
  <2> QED BY <2>1, <2>2, <2>3, <2>4 DEF Owed, Item
<1>8. later \in [1..Len(calls) -> Owed(p, {})]
  BY <1>6, <1>7 DEF Items
<1>9. later \in Seq(Owed(p, {})) /\ <<RootItem(p)>> \in Seq(Owed(p, {}))
  BY <1>5, <1>6, <1>8, SeqIs
<1>10. InitialStack(p) = <<RootItem(p)>> \o later
  BY DEF InitialStack, RootItem
<1> HIDE DEF calls, later
<1> QED BY <1>9, <1>10, ConcatSeq

-----------------------------------------------------------------------------
(* Steps                                                                   *)

LEMMA InitIInv == Init => IInv
<1> SUFFICES ASSUME Init PROVE IInv
  OBVIOUS
<1>1. prog \in Programs
  BY DEF Init
<1>2. stack \in Seq(Owed(prog, tainted)) /\ stack # <<>> /\ Head(stack) = RootItem(prog)
  BY <1>1, InitialOwed DEF Init
<1> QED BY <1>1, <1>2 DEF Init, IInv, TaintFollowsControl, NothingInThePast

(* The root's own visit is not refused.                                    *)
LEMMA RootIsVisited ==
  ASSUME IInv, Pending
  PROVE  prog.root \in tainted \/ (Head(stack) = RootItem(prog)
                                     /\ ~ShouldNotTaint(prog, tainted, Head(stack)))
BY DEF IInv, Pending, RootItem, Item, ShouldNotTaint, Unreachable, InThePast

LEMMA HeadOwed ==
  ASSUME IInv, Pending
  PROVE  /\ Head(stack) \in Owed(prog, tainted)
         /\ Tail(stack) \in Seq(Owed(prog, tainted))
         /\ Head(stack) \in StackItem(prog)
<1>1. stack \in Seq(Owed(prog, tainted)) /\ stack # <<>>
  BY DEF IInv, Pending
<1>2. Head(stack) \in Owed(prog, tainted) /\ Tail(stack) \in Seq(Owed(prog, tainted))
  BY <1>1
<1> QED BY <1>2 DEF Owed

(* What a visit hands on: mirCopy and lastBlockVisited.                    *)
LEMMA VisitPasses ==
  ASSUME IInv, Visit
  PROVE  LET n == Head(stack).node
             last == LastBlock(prog, Head(stack).last, n)
         IN  /\ n \in Node(prog)
             /\ MaxReached(prog, Head(stack).mir, n) \in [Block(prog) -> Nat]
             /\ last \in Block(prog) \cup {NoBlock}
             /\ FollowsRoot(prog, last)
             /\ IsInstr(prog, n) => FollowsRoot(prog, prog.code[n].block)
<1> DEFINE item == Head(stack)
           n == item.node
           last == LastBlock(prog, item.last, n)
           p == prog
<1>1. Pending /\ n # NilNode /\ item.state = 0 /\ ~ShouldNotTaint(p, tainted, item)
  BY DEF Visit
<1>2. item \in Owed(p, tainted) /\ item \in StackItem(p)
  BY <1>1, HeadOwed
<1>3. n \in Node(p) /\ item.mir \in [Block(p) -> Nat] /\ item.last \in Block(p) \cup {NoBlock}
  BY <1>1, <1>2 DEF StackItem
<1>4. p \in Programs
  BY DEF IInv
<1>5. p.code[n].block \in Block(p) \cup {NoBlock} /\ n \in Nat
  BY <1>3, <1>4, NodeFacts, ProgramsAssumption DEF IsNode, IsProgram, Node
<1>6. MaxReached(p, item.mir, n) \in [Block(p) -> Nat]
  BY <1>3, <1>5 DEF MaxReached, IsInstr
<1>7. last \in Block(p) \cup {NoBlock}
  BY <1>3, <1>5 DEF LastBlock
<1>8. ASSUME IsInstr(p, n)
      PROVE  FollowsRoot(p, p.code[n].block)
  <2> SUFFICES ASSUME IsInstr(p, p.root)
               PROVE  CanReach(p, p.code[p.root].block, p.code[n].block)
    BY <1>8 DEF FollowsRoot, IsInstr
  <2>1. p.code[n].block \in Block(p)
    BY <1>5, <1>8 DEF IsInstr
  <2>2. CASE FollowsRoot(p, item.last)
    <3>1. item.last # NoBlock /\ CanReach(p, p.code[p.root].block, item.last)
      BY <2>2 DEF FollowsRoot
    <3>2. p.code[n].block = item.last \/ CanReach(p, item.last, p.code[n].block)
      BY <1>1, <1>8, <3>1 DEF ShouldNotTaint, Unreachable
    <3> QED BY <3>1, <3>2, ReachTrans
  <2>3. CASE n = p.root
    BY <2>1, <2>3, ReachSelf
  <2>4. CASE Uses(p, p.root, n)
    <3>1. PICK k \in DOMAIN p.refs[p.root] : p.refs[p.root][k] = n
      BY <2>4 DEF Uses
    <3>2. p.root \in Node(p)
      BY <1>3, <1>4, NodeFacts
    <3> QED BY <1>4, <3>1, <3>2, NodeFacts
  <2> QED BY <1>2, <2>2, <2>3, <2>4 DEF Owed
<1>9. FollowsRoot(p, last)
  <2>1. CASE IsInstr(p, n)
    BY <1>8, <2>1 DEF LastBlock
  <2>2. CASE ~IsInstr(p, n)
    <3>1. last = item.last
      BY <2>2 DEF LastBlock
    <3>2. CASE FollowsRoot(p, item.last)
      BY <3>1, <3>2
    <3>3. CASE n = p.root
      BY <2>2, <3>3 DEF FollowsRoot
    <3>4. CASE Uses(p, p.root, n)
      <4>1. p.root \in Node(p)
        BY <1>3, <1>4, NodeFacts
      <4> QED BY <1>4, <2>2, <3>4, <4>1, NodeFacts DEF Uses
    <3> QED BY <1>2, <3>2, <3>3, <3>4 DEF Owed
  <2> QED BY <2>1, <2>2
<1> QED BY <1>3, <1>6, <1>7, <1>8, <1>9

(* A visit of the root's block is a visit of the root or of an instruction *)
(* below it, unless a loop comes back.                                     *)
LEMMA VisitPastRoot ==
  ASSUME IInv, Visit, IsInstr(prog, prog.root), ~InLoop(prog, prog.code[prog.root].block)
  PROVE  LET n == Head(stack).node
             mir == MaxReached(prog, Head(stack).mir, n)
             b == prog.code[prog.root].block
         IN  prog.code[n].block = b =>
               /\ mir[b] >= prog.root
               /\ prog.code[n].kind \in CallKinds /\ prog.refs[n] = <<>> => prog.root <= n
<1> DEFINE item == Head(stack)
           n == item.node
           p == prog
           b == p.code[p.root].block
           mir == MaxReached(p, item.mir, n)
<1> SUFFICES ASSUME p.code[n].block = b
             PROVE  /\ mir[b] >= p.root
                    /\ p.code[n].kind \in CallKinds /\ p.refs[n] = <<>> => p.root <= n
  OBVIOUS
<1>1. Pending /\ n # NilNode /\ item.state = 0 /\ ~ShouldNotTaint(p, tainted, item)
  BY DEF Visit
<1>2. item \in Owed(p, tainted) /\ item \in StackItem(p)
  BY <1>1, HeadOwed
<1>3. n \in Node(p) /\ item.mir \in [Block(p) -> Nat] /\ item.last \in Block(p) \cup {NoBlock}
  BY <1>1, <1>2 DEF StackItem
<1>4. p \in Programs /\ p.root \in Node(p)
  BY NodeFacts, <1>3 DEF IInv
<1>5. n \in Nat /\ p.root \in Nat
  BY <1>3, <1>4, ProgramsAssumption DEF IsProgram, Node
<1>6. b \in Block(p) /\ IsInstr(p, n)
  BY <1>4, NodeFacts DEF IsNode, IsInstr
<1>7. mir[b] >= n /\ mir[b] >= item.mir[b]
  BY <1>3, <1>5, <1>6 DEF MaxReached
<1>8. CASE n = p.root \/ Uses(p, p.root, n)
  <2>1. n >= p.root
    BY <1>4, <1>5, <1>8, UsesLater
  <2> HIDE DEF mir, n
  <2>2. item.mir[b] \in Nat /\ mir[b] \in Nat
    BY <1>3, <1>5, <1>6 DEF MaxReached, mir, n
  <2> QED BY <1>5, <1>7, <2>1, <2>2
<1>9. CASE FollowsRoot(p, item.last) /\ PastRoot(p, item.mir, item.last) /\ n # p.root
  <2>1. item.last # NoBlock /\ CanReach(p, b, item.last)
    BY <1>9 DEF FollowsRoot
  <2>2. item.last = b
    <3>1. SUFFICES ASSUME item.last # b
                   PROVE  InLoop(p, b)
      OBVIOUS
    <3>2. CanReach(p, item.last, b)
      BY <1>1, <1>6, <2>1, <3>1 DEF ShouldNotTaint, Unreachable
    <3>3. \A c \in Block(p) : p.succs[c] \subseteq Block(p)
      BY <1>4, ProgramsAssumption DEF IsProgram
    <3>4. PICK s \in p.succs[b] : CanReach(p, s, item.last)
      BY <1>6, <2>1, <3>1, <3>3, ReachFirst
    <3>5. CanReach(p, s, b)
      BY <3>2, <3>4, ReachTrans
    <3> QED BY <3>4, <3>5 DEF InLoop
  <2>3. item.mir[b] >= p.root
    BY <1>9, <2>2 DEF PastRoot
  <2>4. ASSUME p.code[n].kind \in CallKinds, p.refs[n] = <<>>
        PROVE  p.root <= n
    <3>1. item.ref
      BY <1>1, <1>2, <1>9, <2>4 DEF Owed, MayBeOperand
    <3>2. ~(n < item.mir[b])
      BY <1>1, <2>4, <3>1 DEF ShouldNotTaint, InThePast
    <3>3. item.mir[b] \in Nat
      BY <1>3, <1>6
    <3> HIDE DEF n
    <3> QED BY <1>5, <2>3, <3>2, <3>3
  <2>5. mir[b] >= p.root
    <3>1. item.mir[b] \in Nat /\ mir[b] \in Nat
      BY <1>3, <1>5, <1>6 DEF MaxReached
    <3> HIDE DEF mir
    <3> QED BY <1>5, <1>7, <2>3, <3>1
  <2> QED BY <2>4, <2>5
<1> QED BY <1>1, <1>2, <1>8, <1>9 DEF Owed

LEMMA VisitStaysPast ==
  ASSUME IInv, Visit
  PROVE  LET n == Head(stack).node
         IN  PastRoot(prog, MaxReached(prog, Head(stack).mir, n), LastBlock(prog, Head(stack).last, n))
<1> DEFINE item == Head(stack)
           n == item.node
           p == prog
           b == p.code[p.root].block
           mir == MaxReached(p, item.mir, n)
           last == LastBlock(p, item.last, n)
<1> SUFFICES ASSUME IsInstr(p, p.root), ~InLoop(p, b)
             PROVE  mir[b] >= p.root \/ last \notin {NoBlock, b}
  BY DEF PastRoot
<1>1. CASE IsInstr(p, n)
  <2>1. last = p.code[n].block
    BY <1>1 DEF LastBlock
  <2>2. p.code[n].block = b => mir[b] >= p.root
    BY VisitPastRoot
  <2> QED BY <1>1, <2>1, <2>2 DEF IsInstr
<1>2. CASE ~IsInstr(p, n)
  <2>1. last = item.last /\ mir = item.mir
    BY <1>2 DEF LastBlock, MaxReached
  <2>2. item \in Owed(p, tainted) /\ p \in Programs
    BY HeadOwed DEF Visit, IInv
  <2>3. n # p.root /\ ~Uses(p, p.root, n)
    <3>1. p.root \in Node(p)
      BY <2>2, ProgramsAssumption DEF IsProgram
    <3> QED BY <1>2, <2>2, <3>1, NodeFacts DEF Uses
  <2>4. PastRoot(p, item.mir, item.last)
    BY <2>2, <2>3 DEF Owed
  <2> QED BY <2>1, <2>4 DEF PastRoot
<1> QED BY <1>1, <1>2

LEMMA VisitNothingPast ==
  ASSUME IInv, Visit
  PROVE  NothingInThePast'
<1> DEFINE p == prog
           b == p.code[p.root].block
           n == Head(stack).node
<1>1. prog' = prog /\ tainted' = tainted \cup {n}
  BY DEF Visit
<1>2. SUFFICES ASSUME IsInstr(p, p.root), p.code[n].kind \in CallKinds, p.refs[n] = <<>>
               PROVE  \/ p.code[n].block = b /\ p.root <= n
                      \/ \E s \in p.succs[b] : CanReach(p, s, p.code[n].block)
  BY <1>1 DEF IInv, NothingInThePast
<1>3. n \in Node(p) /\ p \in Programs
  BY VisitPasses DEF IInv
<1>4. IsInstr(p, n)
  BY <1>2, <1>3, NodeFacts DEF IsNode, IsInstr
<1>5. CanReach(p, b, p.code[n].block)
  BY <1>2, <1>4, VisitPasses DEF FollowsRoot
<1>6. CASE InLoop(p, b)
  <2>1. PICK s \in p.succs[b] : CanReach(p, s, b)
    BY <1>6 DEF InLoop
  <2>2. CanReach(p, s, p.code[n].block)
    BY <2>1, <1>5, ReachTrans
  <2> QED BY <2>1, <2>2
<1>7. CASE ~InLoop(p, b) /\ p.code[n].block = b
  BY <1>2, <1>7, VisitPastRoot
<1>8. CASE p.code[n].block # b
  <2>1. /\ \A c \in Block(p) : p.succs[c] \subseteq Block(p)
        /\ p.root \in Node(p)
    BY <1>3, ProgramsAssumption DEF IsProgram
  <2>2. b \in Block(p)
    BY <1>2, <1>3, <2>1, NodeFacts DEF IsNode, IsInstr
  <2> QED BY <1>5, <1>8, <2>1, <2>2, ReachFirst
<1> QED BY <1>6, <1>7, <1>8

LEMMA VisitIInv ==
  ASSUME IInv, Visit
  PROVE  IInv'
<1> DEFINE item == Head(stack)
           n == item.node
           mir == MaxReached(prog, item.mir, n)
           last == LastBlock(prog, item.last, n)
           T == tainted \cup {n}
           S == Owed(prog, T)
           calls == Neighbors(prog, n, T)
<1>1. /\ Pending
      /\ tainted' = T
      /\ prog' = prog
      /\ panicked' = panicked
      /\ sanitizers' = IF prog.code[n].kind = "sanitizer" THEN sanitizers \cup {n} ELSE sanitizers
      /\ stack' = Items(calls, mir, last) \o SelectFrom(prog, n, 1, mir, last) \o Tail(stack)
  BY DEF Visit
<1>2. /\ n \in Node(prog)
      /\ mir \in [Block(prog) -> Nat]
      /\ last \in Block(prog) \cup {NoBlock}
      /\ FollowsRoot(prog, last)
      /\ IsInstr(prog, n) => FollowsRoot(prog, prog.code[n].block)
      /\ PastRoot(prog, mir, last)
  BY VisitPasses, VisitStaysPast
<1>3. /\ prog \in Programs
      /\ tainted \subseteq Node(prog)
      /\ sanitizers \subseteq tainted
      /\ panicked \in BOOLEAN
      /\ TaintFollowsControl /\ NothingInThePast
  BY DEF IInv
<1>4. n \in T /\ 1 \in Nat \ {0}
  OBVIOUS
<1>5. calls \in Seq(CallFrom(prog, n))
  BY <1>2, <1>3, NeighborsFrom
<1> HIDE DEF mir, last, calls
<1>6. Items(calls, mir, last) \in Seq(S)
  BY <1>2, <1>3, <1>4, <1>5, ItemsOwed
<1>7. SelectFrom(prog, n, 1, mir, last) \in Seq(S)
  BY <1>2, <1>3, <1>4, SelectOwed
<1>8. Tail(stack) \in Seq(S)
  BY <1>1, HeadOwed, OwedGrows
<1> HIDE DEF S
<1>9. stack' \in Seq(S)
  BY <1>1, <1>6, <1>7, <1>8, ConcatSeq
<1>10. stack' \in Seq(Owed(prog, tainted)')
  BY <1>1, <1>9 DEF S
<1>11. prog.root \in T
  BY <1>1, RootIsVisited DEF IInv, RootItem, Item
<1>12. TaintFollowsControl' /\ NothingInThePast'
  BY <1>1, <1>2, <1>3, VisitNothingPast DEF TaintFollowsControl, FollowsRoot
<1> HIDE DEF n
<1>13. sanitizers' \subseteq T
  BY <1>1, <1>3
<1> QED BY <1>1, <1>2, <1>3, <1>10, <1>11, <1>12, <1>13 DEF IInv

LEMMA SkipIInv ==
  ASSUME IInv, Skip
  PROVE  IInv'
<1>1. /\ Pending /\ ShouldNotTaint(prog, tainted, Head(stack))
      /\ stack' = Tail(stack)
      /\ UNCHANGED <<prog, tainted, sanitizers, panicked>>
  BY DEF Skip
<1>2. Tail(stack) \in Seq(Owed(prog, tainted))
  BY <1>1, HeadOwed
<1>3. prog.root \in tainted
  BY <1>1, RootIsVisited
<1>4. TaintFollowsControl' /\ NothingInThePast'
  BY <1>1 DEF IInv, TaintFollowsControl, NothingInThePast
<1> QED BY <1>1, <1>2, <1>3, <1>4 DEF IInv

LEMMA NextStateIInv ==
  ASSUME IInv, NextState
  PROVE  IInv'
<1> DEFINE item == Head(stack)
           n == item.node
           k == item.state
           S == Owed(prog, tainted)
           calls == SelectState(prog, n, k, tainted)
           rest == SelectFrom(prog, n, k + 1, item.mir, item.last)
<1>1. /\ Pending
      /\ k > 0
      /\ stack' = Items(calls, item.mir, item.last) \o rest \o Tail(stack)
      /\ UNCHANGED <<prog, tainted, sanitizers, panicked>>
  BY DEF NextState
<1>2. item \in Owed(prog, tainted) /\ item \in StackItem(prog) /\ Tail(stack) \in Seq(S)
  BY <1>1, HeadOwed
<1>3. /\ n \in tainted
      /\ prog.code[n].kind = "select"
      /\ k \in DOMAIN prog.code[n].states
      /\ FollowsRoot(prog, item.last) /\ PastRoot(prog, item.mir, item.last)
  BY <1>1, <1>2 DEF Owed
<1>4. /\ item.mir \in [Block(prog) -> Nat]
      /\ item.last \in Block(prog) \cup {NoBlock}
      /\ k + 1 \in Nat \ {0}
  BY <1>1, <1>2 DEF StackItem
<1>5. prog \in Programs /\ n \in Node(prog)
  BY <1>3 DEF IInv
<1>6. calls \in Seq(CallFrom(prog, n))
  BY <1>3, <1>5, SelectStateFrom
<1> HIDE DEF calls
<1>7. Items(calls, item.mir, item.last) \in Seq(S)
  BY <1>3, <1>4, <1>5, <1>6, ItemsOwed
<1>8. rest \in Seq(S)
  BY <1>3, <1>4, <1>5, SelectOwed
<1> HIDE DEF S, rest
<1>9. stack' \in Seq(S)
  BY <1>1, <1>2, <1>7, <1>8, ConcatSeq
<1>10. stack' \in Seq(Owed(prog, tainted)')
  BY <1>1, <1>9 DEF S
<1>11. prog.root \in tainted
  <2>1. CASE Head(stack) = RootItem(prog)
    BY <1>1, <2>1 DEF RootItem, Item
  <2> QED BY <2>1 DEF IInv
<1>12. TaintFollowsControl' /\ NothingInThePast'
  BY <1>1 DEF IInv, TaintFollowsControl, NothingInThePast
<1> QED BY <1>1, <1>10, <1>11, <1>12 DEF IInv

LEMMA NilExtractIInv ==
  ASSUME IInv, NilExtract
  PROVE  IInv'
<1>1. panicked' = TRUE /\ UNCHANGED <<prog, stack, tainted, sanitizers>>
  BY DEF NilExtract
<1>2. TaintFollowsControl' /\ NothingInThePast'
  BY <1>1 DEF IInv, TaintFollowsControl, NothingInThePast
<1> QED BY <1>1, <1>2 DEF IInv

LEMMA StutterIInv ==
  ASSUME IInv, UNCHANGED vars
  PROVE  IInv'
<1>1. UNCHANGED <<prog, stack, tainted, sanitizers, panicked>>
  BY DEF vars
<1>2. TaintFollowsControl' /\ NothingInThePast'
  BY <1>1 DEF IInv, TaintFollowsControl, NothingInThePast
<1> QED BY <1>1, <1>2 DEF IInv

LEMMA Invariant == Spec => []IInv
<1>1. Init => IInv
  BY InitIInv
<1>2. IInv /\ [Step]_vars => IInv'
  BY VisitIInv, SkipIInv, NextStateIInv, NilExtractIInv, StutterIInv DEF Step
<1> QED BY <1>1, <1>2, PTL DEF Spec

-----------------------------------------------------------------------------
(* Theorems                                                                *)

(* The search's bookkeeping is well formed: in particular every sanitizer  *)
(* that isSanitizedAt may take into account is itself tainted.             *)
THEOREM Typing == Spec => []TypeOK
<1>1. IInv => TypeOK
  <2>1. \A p, T : Owed(p, T) \subseteq StackItem(p)
    BY DEF Owed
  <2> QED BY <2>1, SeqOfSuperset DEF IInv, TypeOK
<1> QED BY <1>1, Invariant, PTL

(* Flow sensitivity: no propagation taints an instruction that control     *)
(* cannot reach from the source's instruction.                             *)
THEOREM NothingUpstream == Spec => []TaintFollowsControl
<1>1. IInv => TaintFollowsControl
  BY DEF IInv
<1> QED BY <1>1, Invariant, PTL

(* And inside the source's own block: no call of which nothing is used is  *)
(* tainted that has executed before the source, unless a loop comes back.  *)
THEOREM NothingEarlier == Spec => []NothingInThePast
<1>1. IInv => NothingInThePast
  BY DEF IInv
<1> QED BY <1>1, Invariant, PTL

(* Refinement: Propagation implements AbstractTaint.                       *)
THEOREM Refinement == Spec => AbstractSpec
<1>1. Init => Abstract!Init
  BY DEF Init, Abstract!Init
<1>2. ASSUME IInv, [Step]_vars
      PROVE  [\E n \in Node(prog) : Abstract!Mark(n)]_<<prog, tainted>>
  <2>1. CASE Visit
    <3> DEFINE n == Head(stack).node
    <3>1. /\ Pending /\ n # NilNode /\ Head(stack).state = 0
          /\ n \notin tainted
          /\ tainted' = tainted \cup {n}
          /\ prog' = prog
      BY <2>1 DEF Visit, ShouldNotTaint
    <3>2. n \in Node(prog)
      BY <2>1, <1>2, VisitPasses
    <3>3. Why(prog, tainted, n)
      BY <1>2, <3>1, HeadOwed DEF Owed
    <3>4. prog.root \in tainted \/ n = prog.root
      BY <1>2, <3>1 DEF IInv, RootItem, Item
    <3>5. Abstract!Reached(n)
      BY <3>3, <3>4 DEF Why, Abstract!Reached, RootOf
    <3>6. Abstract!Mark(n)
      BY <3>1, <3>5 DEF Abstract!Mark
    <3> QED BY <3>2, <3>6
  <2>2. CASE Skip
    BY <2>2 DEF Skip
  <2>3. CASE NextState
    BY <2>3 DEF NextState
  <2>4. CASE NilExtract
    BY <2>4 DEF NilExtract
  <2>5. CASE UNCHANGED vars
    BY <2>5 DEF vars
  <2> QED BY <1>2, <2>1, <2>2, <2>3, <2>4, <2>5 DEF Step
<1> QED BY <1>1, <1>2, Invariant, PTL DEF Spec, AbstractSpec, Abstract!Spec
=============================================================================
