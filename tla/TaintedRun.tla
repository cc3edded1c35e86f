----------------------------- MODULE TaintedRun -----------------------------
(***************************************************************************)
(* What the propagation is judged by: a run of the function it has         *)
(* analysed.  Once the search is over the function executes, instruction   *)
(* by instruction and choosing its branches freely, and the variable live  *)
(* says which nodes hold source data at that point.  A sink that is handed *)
(* such data before a sanitizer has run is to be reported.                 *)
(*                                                                         *)
(* The meaning of an instruction is Go's, and what a library call does     *)
(* with its arguments is what its Summary says of it (summary/api.go).     *)
(* Phis carry one field more than Propagation reads: preds, the block that *)
(* each operand comes from.                                                *)
(***************************************************************************)
EXTENDS Propagation

VARIABLES
  at,         \* the instruction about to execute, NotRunning before and after
  from,       \* the block control came from
  fired,      \* the state that the last Select has chosen
  live,       \* nodes whose value, or the object it points to, is source data
  sanitized,  \* a sanitizer the propagation knows of has run
  ended       \* the run is over

runVars == <<at, from, fired, live, sanitized, ended>>

NotRunning == 0

Entry(p, b) == CHOOSE n \in Node(p) :
  p.code[n].block = b /\ \A m \in Node(p) : p.code[m].block = b => n <= m

-----------------------------------------------------------------------------
(* The object a node stands for: an address inside an array, a slice of it *)
(* and an interface around a pointer stand for what they refer to.         *)
Object(p, n) ==
  LET IsView(m) ==
        p.code[m].kind = "index" \/ (p.code[m].kind = "both" /\ p.code[m].pointerLike)
      object[m \in Node(p)] == IF IsView(m) THEN object[p.code[m].ops[1]] ELSE m
  IN  object[n]

SomeInput(p, L, n, positions) ==
  \E i \in positions \cap DOMAIN p.code[n].ops : Object(p, p.code[n].ops[i]) \in L

AnyInput(p, L, n) == SomeInput(p, L, n, DOMAIN p.code[n].ops)

(* The operands a Phi may take its value from, coming from block b.        *)
PhiInputs(p, n, b) ==
  {i \in DOMAIN p.code[n].preds : p.code[n].preds[i] = b}

Fires(p, L, n) ==
  p.code[n].kind \in {"call", "go"} /\ SomeInput(p, L, n, p.code[n].summ.ifTainted)

Elements(s) == {s[k] : k \in DOMAIN s}

(* Component i of the tuple t, with state k of a Select chosen.            *)
Component(p, L, t, i, k) ==
  LET tuple == p.code[t]
  IN  IF tuple.kind = "select"
      THEN /\ tuple.states[k].recv
           /\ RecvIndex(p, t, k) = i
           /\ Object(p, tuple.states[k].chan) \in L
      ELSE t \in L /\ i \in Elements(tuple.summ.taintedRets)

(* n computes source data, which a number or a boolean is not.             *)
Computes(p, L, n, b, k) ==
  LET node == p.code[n]
  IN  \/ node.kind = "value" /\ node.preds = <<>> /\ AnyInput(p, L, n)
      \/ node.kind = "value" /\ SomeInput(p, L, n, PhiInputs(p, n, b))
      \/ node.kind \in {"both", "index", "append"} /\ AnyInput(p, L, n)
      \/ node.kind = "field" /\ node.special /\ AnyInput(p, L, n)
      \/ Fires(p, L, n) /\ node.summ.taintedRets # <<>>
      \/ node.kind = "extract" /\ Component(p, L, node.ops[1], node.idx, k)

Yields(p, L, n, b, k) ==
  n = p.root \/ (p.code[n].taintable /\ Computes(p, L, n, b, k))

(* The operands, by position, whose object n writes source data into.      *)
Written(p, L, n) ==
  LET node == p.code[n]
  IN  {i \in DOMAIN node.ops :
         \/ i = 1 /\ node.kind \in {"write", "append", "copy"} /\ SomeInput(p, L, n, {2, 3})
         \/ i \in Elements(node.summ.taintedArgs) /\ Fires(p, L, n)}

Sent(p, L, n, k) ==
  {Object(p, s.chan) : s \in {t \in {p.code[n].states[k]} :
                                ~t.recv /\ Object(p, t.send) \in L}}

After(p, L, n, b, k) ==
  (L \ {n}) \cup {m \in {n} : Yields(p, L, n, b, k)}
    \cup {Object(p, p.code[n].ops[i]) : i \in Written(p, L, n)}
    \cup (IF p.code[n].kind = "select" THEN Sent(p, L, n, k) ELSE {})

-----------------------------------------------------------------------------
RunInit ==
  /\ Init
  /\ at = NotRunning
  /\ from = NoBlock
  /\ fired = 0
  /\ live = {}
  /\ sanitized = FALSE
  /\ ended = FALSE

Analyse == Step /\ UNCHANGED runVars

Begin ==
  /\ stack = <<>>
  /\ at = NotRunning
  /\ ~ended
  /\ at' = Entry(prog, 1)
  /\ live' = IF IsInstr(prog, prog.root) THEN {} ELSE {prog.root}
  /\ UNCHANGED <<from, fired, sanitized, ended, vars>>

Goto(n, b, over) == at' = n /\ from' = b /\ ended' = over

Execute ==
  /\ at # NotRunning
  /\ fired' \in IF prog.code[at].kind = "select" THEN DOMAIN prog.code[at].states ELSE {fired}
  /\ live' = After(prog, live, at, from, fired')
  /\ sanitized' = (sanitized \/ at \in sanitizers)
  /\ LET b == prog.code[at].block
     IN  IF at + 1 \in Node(prog) /\ prog.code[at + 1].block = b
         THEN Goto(at + 1, from, FALSE)
         ELSE \/ prog.succs[b] = {} /\ Goto(NotRunning, b, TRUE)
              \/ \E s \in prog.succs[b] : Goto(Entry(prog, s), b, FALSE)
  /\ UNCHANGED vars

RunNext == Analyse \/ Begin \/ Execute

(* The search is one call of Taint, which runs to its return.              *)
RunSpec == RunInit /\ [][RunNext]_<<vars, runVars>> /\ WF_<<vars, runVars>>(Analyse)

-----------------------------------------------------------------------------
(* The calls to sinks, and the panics.                                     *)
IsSink(p, n) == p.code[n].kind \in {"call", "inert"} /\ p.code[n].special

(* Propagation.IsTainted                                                   *)
IsTainted(n) == n \in tainted /\ ~\E s \in sanitizers : Dominates(prog, s, n)

(* README.md:7 "Sources" must not reach "sinks" without first passing      *)
(* through a "sanitizer": a sink to which some run hands source data, no   *)
(* sanitizer having run, is reported.                                      *)
NoMissedFlow ==
  at # NotRunning /\ IsSink(prog, at) /\ AnyInput(prog, live, at) /\ ~sanitized
    => IsTainted(at)
=============================================================================
