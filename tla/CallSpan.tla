------------------------------ MODULE CallSpan ------------------------------
(***************************************************************************)
(* boundedReachableFunctions of earpointer/taint.go: the functions in      *)
(* which the EAR taint analysis looks for aliases and sinks of a source, a *)
(* depth-first search of the call graph, along callees and then callers,   *)
(* cut off at a depth.  The map result is both its answer and its visited  *)
(* set.  The recursion is the variable stack, innermost activation first.  *)
(*                                                                         *)
(* A node's Out and In edges are sets here: the order that the callgraph   *)
(* package gives them is left free.                                        *)
(***************************************************************************)
EXTENDS Naturals, Sequences, FiniteSets

CONSTANTS
  Fn,          \* functions
  CallGraphs,  \* sets of pairs <<caller, callee>>
  MaxSpan      \* bound of the run: the largest EARTaintCallSpan

ASSUME CallSpanAssumption ==
  /\ IsFiniteSet(Fn)
  /\ \A g \in CallGraphs : g \subseteq Fn \X Fn
  /\ MaxSpan \in Nat

VARIABLES
  calls,   \* the call graph
  start,   \* the function the sources are in
  span,    \* the configured EARTaintCallSpan
  stack,   \* activations: the depth left, and the edges still to follow
  result   \* the functions reached

vars == <<calls, start, span, stack, result>>

Callees(f) == {g \in Fn : <<f, g>> \in calls}

\* Mutant: the loop over node.In forgotten.
Callers_none(f) == {}
Callers(f) == {g \in Fn : <<g, f>> \in calls}

-----------------------------------------------------------------------------
(* SourcesToSinks calls with the configured span and an empty result; the  *)
(* call itself is the one edge of an activation of its caller.             *)
Init ==
  /\ calls \in CallGraphs
  /\ start \in Fn
  /\ span \in 0..MaxSpan
  /\ stack = <<[depth |-> span, callees |-> {start}, callers |-> {}]>>
  /\ result = {}

(* The functions that the innermost activation may call next.              *)
Following(frame) == IF frame.callees # {} THEN frame.callees ELSE frame.callers

Followed(frame, f) ==
  IF frame.callees # {} THEN [frame EXCEPT !.callees = @ \ {f}]
  ELSE [frame EXCEPT !.callers = @ \ {f}]

\* Mutants: depth instead of depth-1; no test of depth.
Enter_sameDepth(f) ==
  LET frame == Head(stack)
  IN  /\ stack # <<>>
      /\ f \in Following(frame)
      /\ frame.depth > 0 /\ f \notin result
      /\ result' = result \cup {f}
      /\ stack' = <<[depth |-> frame.depth, callees |-> Callees(f), callers |-> Callers(f)],
                    Followed(frame, f)>> \o Tail(stack)
      /\ UNCHANGED <<calls, start, span>>

Enter_anyDepth(f) ==
  LET frame == Head(stack)
  IN  /\ stack # <<>>
      /\ f \in Following(frame)
      /\ f \notin result
      /\ result' = result \cup {f}
      /\ stack' = <<[depth |-> frame.depth - 1, callees |-> Callees(f), callers |-> Callers(f)],
                    Followed(frame, f)>> \o Tail(stack)
      /\ UNCHANGED <<calls, start, span>>

Enter(f) ==
  LET frame == Head(stack)
  IN  /\ stack # <<>>
      /\ f \in Following(frame)
      /\ frame.depth > 0 /\ f \notin result
      /\ result' = result \cup {f}
      /\ stack' = <<[depth |-> frame.depth - 1, callees |-> Callees(f), callers |-> Callers(f)],
                    Followed(frame, f)>> \o Tail(stack)
      /\ UNCHANGED <<calls, start, span>>

Skip(f) ==
  LET frame == Head(stack)
  IN  /\ stack # <<>>
      /\ f \in Following(frame)
      /\ frame.depth = 0 \/ f \in result
      /\ stack' = <<Followed(frame, f)>> \o Tail(stack)
      /\ UNCHANGED <<calls, start, span, result>>

Return ==
  /\ stack # <<>>
  /\ Following(Head(stack)) = {}
  /\ stack' = Tail(stack)
  /\ UNCHANGED <<calls, start, span, result>>

Next == Return \/ \E f \in Fn : Enter(f) \/ Skip(f)

Spec == Init /\ [][Next]_vars

-----------------------------------------------------------------------------
Done == stack = <<>>

Linked(S) ==
  S \cup {g \in Fn : \E f \in S : <<f, g>> \in calls \/ <<g, f>> \in calls}

(* The functions at most k calls, either way, from start.                  *)
Around(k) ==
  LET ball[i \in 0..k] == IF i = 0 THEN {start} ELSE Linked(ball[i - 1])
  IN  ball[k]

Component == Around(Cardinality(Fn))

(* The depth of an activation is unsigned and never wraps around.          *)
TypeOK ==
  /\ calls \subseteq Fn \X Fn
  /\ start \in Fn
  /\ span \in 0..MaxSpan
  /\ stack \in Seq([depth : 0..span, callees : SUBSET Fn, callers : SUBSET Fn])
  /\ result \subseteq Fn

(* The span bounds the search, in whatever order it meets the functions:   *)
(* none is reached that is span calls away or more.                        *)
WithinSpan == result \subseteq (IF span = 0 THEN {} ELSE Around(span - 1))

(* A span of no less than the number of connected functions cuts nothing   *)
(* off, although a function that is first met when little depth is left is *)
(* not searched again: SourcesToSinks' comment "g1's full reachable set".  *)
LargeSpanReachesAll ==
  Done /\ span >= Cardinality(Component) => result = Component

(* taint.go:163 "Argument "depth" controls the depth of the call chain":   *)
(* what is within the span is found, whatever the order of the edges.      *)
SpanReachesAll == Done /\ span > 0 => Around(span - 1) \subseteq result

(* taint.go:167 "for input g1, result = {f,g1,g2,g3} if depth>1, and       *)
(* result = {f, g1} if depth=1": the direct callers, at least, are found   *)
(* with a span of 1 and their callees with a span of 2.                    *)
DocumentedSpan ==
  Done =>
    \A f \in Fn : <<f, start>> \in calls =>
      /\ span = 1 => f \in result
      /\ span = 2 => \A g \in Fn : <<f, g>> \in calls => g \in result
=============================================================================
