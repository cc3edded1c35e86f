------------------------------- MODULE MCTaint -------------------------------
(***************************************************************************)
(* Families of small functions for TaintedRun: on a given control flow     *)
(* graph, every choice of instructions from a few templates.  Nodes 1 and  *)
(* 2 are parameters; 1 is the source unless a family says otherwise, and   *)
(* 2 an object a library call may write into.                              *)
(***************************************************************************)
EXTENDS TaintedRun

NoSummary == [ifTainted |-> {}, taintedArgs |-> <<>>, taintedRets |-> <<>>, results |-> 0]

Instr(kind, ops) ==
  [kind |-> kind, ops |-> ops, block |-> 0, taintable |-> TRUE, pointerLike |-> FALSE,
   special |-> FALSE, idx |-> 0, summ |-> NoSummary, states |-> <<>>, preds |-> <<>>]

Special(instr) == [instr EXCEPT !.special = TRUE]
PointerLike(instr) == [instr EXCEPT !.pointerLike = TRUE]
Summarised(instr, ifTainted, args, rets, results) ==
  [instr EXCEPT !.summ = [ifTainted |-> ifTainted, taintedArgs |-> args,
                          taintedRets |-> rets, results |-> results]]

Value == Instr("value", <<>>)
Object2 == PointerLike(Value)
NewSource == Instr("call", <<>>)
Convert(x) == Instr("value", <<x>>)
\* x == "", a boolean
IsEmpty(x) == [Instr("value", <<x>>) EXCEPT !.taintable = FALSE]
Cast(x) == Instr("both", <<x>>)
SourceField(x) == Special(Instr("field", <<x>>))
Sanitize(x) == Instr("sanitizer", <<x>>)
Sink(x) == Special(Instr("call", <<x>>))
Panic(x) == Special(Instr("inert", <<x>>))
Jump == Instr("inert", <<>>)
Phi(ops, preds) == [Instr("value", ops) EXCEPT !.preds = preds]
Extract(t, i) == [Instr("extract", <<t>>) EXCEPT !.idx = i]
MakeMap == PointerLike(Value)
MapUpdate(m, x) == Instr("write", <<m, x>>)
NewArray == Special(Instr("alloc", <<>>))
Recv(c) == [recv |-> TRUE, chan |-> c, send |-> c]
Send(c, x) == [recv |-> FALSE, chan |-> c, send |-> x]
Select(states) ==
  [Instr("select", [k \in DOMAIN states |-> states[k].chan] \o
                   [k \in DOMAIN states |-> states[k].send]) EXCEPT !.states = states]

\* io.WriteString(w, x), and the same as a go statement
WriteString(w, x) == Summarised(Instr("call", <<w, x>>), {2}, <<1>>, <<>>, 2)
GoWriteString(w, x) == Summarised(Instr("go", <<w, x>>), {2}, <<1>>, <<>>, 2)
\* strings.ToLower(x)
ToLower(x) == Summarised(Instr("call", <<x>>), {1}, <<>>, <<0>>, 1)
\* (*bufio.Reader).ReadSlice(x): two results, the first from x
ReadSlice(x) == Summarised(Instr("call", <<x>>), {1}, <<>>, <<0>>, 2)
\* bufio.ScanLines(x): three results, the second from x
ScanLines(x) == Summarised(Instr("call", <<x>>), {1}, <<>>, <<1>>, 3)

UsesOf(code, n) ==
  SelectSeq([m \in DOMAIN code |-> m], LAMBDA m : n \in Elements(code[m].ops))

\* A function: its parameters, then the instructions of each block.
Function(root, blocks, succs) ==
  LET In(b) == [i \in DOMAIN blocks[b] |-> [blocks[b][i] EXCEPT !.block = b]]
      upTo[b \in 0..Len(blocks)] == IF b = 0 THEN <<Value, Object2>> ELSE upTo[b - 1] \o In(b)
      code == upTo[Len(blocks)]
  IN  [root |-> root, code |-> code, succs |-> succs,
       refs |-> [n \in DOMAIN code |-> UsesOf(code, n)]]

On(S) == UNION {{Convert(x), SourceField(x), ToLower(x), Sanitize(x), Sink(x)} : x \in S}

-----------------------------------------------------------------------------
(* One block: three instructions and a sink; at most one object is written *)
(* and no call writes into it after a sink has read it.                    *)
Straight ==
  {Function(1, <<<<a, b, c, Sink(s)>>>>, <<{}>>) :
     a \in On({1}) \cup {WriteString(2, 1)},
     b \in On({1, 2, 3}) \cup {WriteString(2, 1), WriteString(2, 3)},
     c \in On({1, 3, 4}), s \in 1..5}

(* 1 branches to 2 and 3, which meet in 4.                                 *)
Diamond ==
  {Function(1, << <<a, Jump>>, <<b, Jump>>, <<c, Jump>>, <<Phi(<<x, y>>, <<2, 3>>), Sink(s)>> >>,
            <<{2, 3}, {4}, {4}, {}>>) :
     a \in {Convert(1), SourceField(1), Sanitize(1)}, b \in On({1, 3}),
     c \in {Convert(3), Sanitize(1), Sanitize(3), Sink(1)},
     x \in {1, 3, 5}, y \in {1, 3, 7}, s \in {1, 9}}

(* The same, with the source created in 2 and written to an object there.  *)
DiamondWrite ==
  {Function(4, << <<Jump>>, <<NewSource, b, WriteString(2, x), Jump>>, <<c, Jump>>, <<d, Panic(s)>> >>,
            <<{2, 3}, {4}, {4}, {}>>) :
     b \in On({2, 4}), x \in {4, 5}, c \in On({2}), d \in On({2}), s \in {2, 10}}

(* loops/tests.go: in a loop, one branch creates the source, the other     *)
(* uses what an earlier turn has left.  1 leads to 2, the loop's header.   *)
LoopBranch ==
  {Function(7, << <<Jump>>, <<Phi(<<2, v, w>>, <<1, 4, 5>>), Jump>>, <<Jump>>,
                  <<NewSource, b, Jump>>, <<c, Jump>>, <<d, Sink(e)>> >>,
            <<{2}, {3, 6}, {4, 5}, {2}, {2}, {}>>) :
     v \in {4, 7, 8}, w \in {2, 4, 10}, b \in {Cast(7), Convert(7), Sanitize(7), Sink(4)},
     c \in On({4}), d \in {Convert(4), Sanitize(4)}, e \in {4, 12}}

(* An argument list put in an array and handed to a library call.          *)
Varargs ==
  {Function(1, << <<a, NewArray, Instr("index", <<4>>), Instr("write", <<5, x>>),
                    Instr("index", <<4>>), f, Sink(s)>> >>, <<{}>>) :
     a \in On({1}) \cup {IsEmpty(1)}, x \in {1, 2, 3}, s \in {1, 2, 3, 7, 8},
     f \in {WriteString(2, 7), GoWriteString(2, 7), ToLower(7),
            Instr("copy", <<2, 7>>), Instr("append", <<2, 7>>)}}

(* One select and then another, on the object and the source.              *)
Selects ==
  {Function(1, << <<a, Select(S), Extract(4, i), Select(T), Extract(6, 2), Sink(s)>> >>, <<{}>>) :
     a \in {Convert(1), SourceField(1)}, i \in {2, 3}, s \in {2, 5, 7},
     S \in {<<Send(2, 1), Recv(2)>>, <<Recv(2), Send(2, 3)>>, <<Recv(1), Recv(2)>>, <<Recv(2), Recv(3)>>},
     T \in {<<Recv(2)>>, <<Recv(1)>>, <<Send(2, 1), Recv(2)>>}}

(* A call with two results, of which some, or none, are used.              *)
TwoResults ==
  {Function(1, << <<a, ReadSlice(x), Extract(4, i), b, Sink(s)>> >>, <<{}>>) :
     a \in {Convert(1), IsEmpty(1), Sanitize(1)}, x \in {1, 3}, i \in {0, 1}, b \in On({5}), s \in {5, 6}}

(* The source is a type assertion, after other uses of its operand.        *)
Asserted ==
  {Function(5, << <<a, b, Cast(x), c, Sink(s)>> >>, <<{}>>) :
     a \in On({1}), b \in On({1, 3}), x \in {1, 3, 4}, c \in On({1, 3, 5}), s \in {1, 3, 5, 6}}

-----------------------------------------------------------------------------
OneBlock == Straight \cup Asserted
Branches == Diamond \cup DiamondWrite \cup LoopBranch
Library == Varargs \cup Selects \cup TwoResults
Families == OneBlock \cup Branches \cup Library

(* What the violation runs analyse: a call whose second result carries the *)
(* taint; one whose results are dropped; two writes to an object with the  *)
(* sink between them, the search finding the second one first; a sink that *)
(* a later turn of the loop hands what the end of this one made; a map     *)
(* made before a branch and written in it; a select that receives, in a    *)
(* later turn, what its other state sends.                                 *)
SecondResult ==
  {Function(1, << <<ScanLines(1), Extract(3, 0), Extract(3, 1), Extract(3, 2), Sink(5)>> >>, <<{}>>)}

DroppedResults ==
  {Function(1, << <<ReadSlice(1), Sink(1)>> >>, <<{}>>)}

TwoWrites ==
  {Function(1, << <<ToLower(1), WriteString(2, 1), Sink(2), WriteString(2, 3)>> >>, <<{}>>)}

LoopCarried ==
  {Function(7, << <<Jump>>, <<Phi(<<2, 8>>, <<1, 3>>), Jump>>, <<Sink(4), NewSource, Cast(7), Jump>>,
                  <<Jump>> >>,
            <<{2}, {3, 4}, {2}, {}>>)}

BranchWrite ==
  {Function(1, << <<MakeMap, Jump>>, <<MapUpdate(3, 1), Jump>>, <<Sink(3)>> >>, <<{2, 3}, {3}, {}>>)}

SelectLoop ==
  {Function(1, << <<Jump>>, <<Select(<<Recv(2), Send(2, 1)>>), Extract(4, 2), Sink(5), Jump>> >>,
            <<{2}, {2}>>)}
==============================================================================
