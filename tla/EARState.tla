------------------------------ MODULE EARState ------------------------------
(***************************************************************************)
(* The EAR heap of earpointer/state.go: a union-find forest of references  *)
(* with one field map per partition, built by unification and then frozen  *)
(* into the lookup tables of Partitions.                                   *)
(*                                                                         *)
(* The clients are the visitor methods of analysis.go.  They insert        *)
(* references, unify two references (unifyLocals) and assert obj.fd =      *)
(* target (unifyField).  A unification cascades through the field maps:    *)
(* Unify calls unifyReps calls mergeFieldMap calls Unify.  The variable    *)
(* frames is that recursion: each element holds the pairs one activation   *)
(* of mergeFieldMap has still to unify, the innermost activation first.    *)
(* Both loops of mergeFieldMap range over Go maps, so their order is free. *)
(* So do those of finalize: the last two, which overwrite the field maps   *)
(* and append to the lists of the reverse map, are taken entry by entry,   *)
(* and toNormalize and toReverse are what they have left.                  *)
(*                                                                         *)
(* unified and stored record what the clients have asserted; the code      *)
(* keeps no such record and no action reads it but to bound the run.       *)
(***************************************************************************)
EXTENDS Naturals, Sequences, FiniteSets, Forest

CONSTANTS
  Ref,        \* references (heap.go: Local, Global and Synthetic)
  Field,      \* field names, directPointToField among them
  Pos,        \* source position of a reference's value
  MaxCalls    \* bound of the run: constraints the clients assert

ASSUME PosAssumption == Pos \in [Ref -> Nat]

VARIABLES
  parents,     \* state.parents
  partitions,  \* state.partitions
  frames,      \* pending toUnify maps, innermost first
  heap,        \* the Partitions, once ToPartitions has made them
  toNormalize, \* entries <<rep, fd>> that finalize has still to normalize
  toReverse,   \* entries that constructFieldParentMap has still to come to
  unified,     \* the pairs the clients have unified
  stored       \* the triples <<obj, fd, target>> the clients have asserted

freezing == <<heap, toNormalize, toReverse>>
vars == <<parents, partitions, frames, freezing, unified, stored>>

FieldMap == UNION {[F -> Ref] : F \in SUBSET Field}
PartitionInfo == [numMembers : Nat, fieldRefs : FieldMap]

NoFields == [fd \in {} |-> {}]
\* Mutant: make(FieldMap) forgotten.
NewPartition_noMap == [numMembers |-> 1]
NewPartition == [numMembers |-> 1, fieldRefs |-> NoFields]

NotFinal == <<>>

-----------------------------------------------------------------------------
(* The partition table after lookups of R with forest p: a reference not   *)
(* seen before gets a partition of its own.                                *)
LookupInfo(p, q, R) ==
  [x \in DOMAIN q \cup (R \ DOMAIN p) |->
     IF x \in DOMAIN q THEN q[x] ELSE NewPartition]

\* Mutant: all partitions share one field map.
SetField_shared(q, rep, fd, r) ==
  [x \in DOMAIN q |->
     [q[x] EXCEPT !.fieldRefs =
        [k \in DOMAIN @ \cup {fd} |-> IF k = fd THEN r ELSE @[k]]]]

SetField(q, rep, fd, r) ==
  [x \in DOMAIN q |->
     IF x = rep
     THEN [q[x] EXCEPT !.fieldRefs =
             [k \in DOMAIN @ \cup {fd} |-> IF k = fd THEN r ELSE @[k]]]
     ELSE q[x]]

(* The representative that loses its partition: the smaller partition, and *)
(* at equal sizes the one declared later.  The sizes it compares are those *)
(* of Insert, since "pinfo2.numMembers += pinfo1.numMembers" adds to the   *)
(* copy that partitionInfo returns and never to the table.                 *)
Loses(q, a, b) ==
  \/ q[a].numMembers < q[b].numMembers
  \/ q[a].numMembers = q[b].numMembers /\ Pos[a] <= Pos[b]

Loser(q, a, b) == IF Loses(q, a, b) THEN a ELSE b
Winner(q, a, b) == IF Loses(q, a, b) THEN b ELSE a

\* Mutant: the fields of the losing partition are not copied.
MergedFields_dropped(old, new) == new

(* newMap after the first loop of mergeFieldMap: its own entries win.      *)
MergedFields(old, new) ==
  [k \in DOMAIN old \cup DOMAIN new |-> IF k \in DOMAIN new THEN new[k] ELSE old[k]]

\* Mutant: fields both maps hold are not unified.
Clashes_none(old, new) == {}

(* The toUnify maps that the loop can leave.  The map is keyed by oldMap's *)
(* reference, so of several common fields that hold one reference only the *)
(* last one visited survives.                                              *)
Clashes(old, new) == {old[k] : k \in DOMAIN old \cap DOMAIN new}

ToUnify(old, new) ==
  {m \in [Clashes(old, new) -> {new[k] : k \in DOMAIN new}] :
     \A v \in Clashes(old, new) :
       \E k \in DOMAIN old \cap DOMAIN new : old[k] = v /\ new[k] = m[v]}

PairsOf(m) == {<<v, m[v]>> : v \in DOMAIN m}

\* Mutant: the loop over toUnify does not end when the map is exhausted.
Push_endless(S, stack) == <<S>> \o stack

Push(S, stack) == IF S = {} THEN stack ELSE <<S>> \o stack

\* Mutant: delete(state.partitions, prep1) forgotten.
Absorb_noDelete(q, lose, win) ==
  [x \in DOMAIN q |->
     IF x = win
     THEN [q[x] EXCEPT !.fieldRefs = MergedFields(q[lose].fieldRefs, @)]
     ELSE q[x]]

(* The table once lose has been erased and its fields merged into win's.   *)
Absorb(q, lose, win) ==
  [x \in DOMAIN q \ {lose} |->
     IF x = win
     THEN [q[x] EXCEPT !.fieldRefs = MergedFields(q[lose].fieldRefs, @)]
     ELSE q[x]]

(* unifyReps, up to the second loop of mergeFieldMap, which it leaves on   *)
(* the stack.                                                              *)
UnifyReps(p, q, a, b, rest) ==
  IF a = b
  THEN /\ parents' = p
       /\ partitions' = q
       /\ frames' = rest
  ELSE LET lose == Loser(q, a, b)
           win == Winner(q, a, b)
       IN  /\ parents' = Link(p, lose, win)
           /\ partitions' = Absorb(q, lose, win)
           /\ \E m \in ToUnify(q[lose].fieldRefs, q[win].fieldRefs) :
                frames' = Push(PairsOf(m), rest)

-----------------------------------------------------------------------------
Init ==
  /\ parents = [r \in {} |-> r]
  /\ partitions = [r \in {} |-> NewPartition]
  /\ frames = <<>>
  /\ heap = NotFinal
  /\ toNormalize = {}
  /\ toReverse = {}
  /\ unified = {}
  /\ stored = {}

Idle == frames = <<>> /\ heap = NotFinal

MayCall == Idle /\ Cardinality(unified) + Cardinality(stored) < MaxCalls

(* state.Insert(r), and state.representative(r) too.                       *)
Insert(r) ==
  /\ Idle
  /\ parents' = Lookup(parents, {r})
  /\ partitions' = LookupInfo(parents, partitions, {r})
  /\ UNCHANGED <<frames, freezing, unified, stored>>

(* state.Unify(a, b), called by a client.                                  *)
CallUnify(a, b) ==
  /\ MayCall
  /\ frames' = <<{<<a, b>>}>>
  /\ unified' = unified \cup {<<a, b>>}
  /\ UNCHANGED <<parents, partitions, freezing, stored>>

(* vis.unifyField(obj, fd, target): look up obj, insert target, then add   *)
(* the field to obj's partition or unify what it holds with target.        *)
CallUnifyField(obj, fd, target) ==
  /\ MayCall
  /\ parents' = Lookup(parents, {obj, target})
  /\ LET q == LookupInfo(parents, partitions, {obj, target})
         objr == Rep(parents, obj)
         tr == Rep(parents, target)
     IN  IF fd \in DOMAIN q[objr].fieldRefs
         THEN /\ partitions' = q
              /\ frames' = <<{<<q[objr].fieldRefs[fd], tr>>}>>
         ELSE /\ partitions' = SetField(q, objr, fd, tr)
              /\ frames' = frames
  /\ stored' = stored \cup {<<obj, fd, target>>}
  /\ UNCHANGED <<freezing, unified>>

(* One state.Unify of the innermost pending toUnify map.                   *)
UnifyOne(a, b) ==
  /\ frames # <<>>
  /\ <<a, b>> \in Head(frames)
  /\ UnifyReps(Lookup(parents, {a, b}), LookupInfo(parents, partitions, {a, b}),
               Rep(parents, a), Rep(parents, b),
               Push(Head(frames) \ {<<a, b>>}, Tail(frames)))
  /\ UNCHANGED <<freezing, unified, stored>>

StepUnify == \E a, b \in Ref : UnifyOne(a, b)

-----------------------------------------------------------------------------
(* Partitions.finalize.  Its climb, "for up := p.parents[rep]; up != rep;" *)
(* with body "rep = up", ends after one turn: up is never read again.      *)
OptParents(p) == [r \in DOMAIN p |-> p[p[r]]]

MembersOf(opt) ==
  [rep \in {opt[r] : r \in DOMAIN opt} |-> {r \in DOMAIN opt : opt[r] = rep}]

(* The entries of field maps that the nested loops of finalize and of      *)
(* constructFieldParentMap range over, in any order of the objects and of  *)
(* the fields of each: an object is done with before the next is begun.    *)
Entries(fields) == UNION {{rep} \X DOMAIN fields[rep] : rep \in DOMAIN fields}
Begun(left, rep) == \E fd \in DOMAIN heap.fieldRefs[rep] : <<rep, fd>> \notin left
InTurn(left, rep) == \A entry \in left : Begun(left, entry[1]) => entry[1] = rep

(* ToPartitions and finalize, up to the loops over the field maps, which   *)
(* are not copied (the state that shares them is not used any more; here   *)
(* it keeps what it held).  constructFieldParentMap ranges over the keys   *)
(* of members, some of which may have no field map.                        *)
ToPartitions ==
  /\ Idle
  /\ LET opt == OptParents(parents)
         fields == [rep \in DOMAIN partitions |-> partitions[rep].fieldRefs]
     IN  /\ heap' = [parents |-> opt, members |-> MembersOf(opt), fieldRefs |-> fields,
                     revFields |-> <<>>]
         /\ toNormalize' = Entries(fields)
         /\ toReverse' = {entry \in Entries(fields) : entry[1] \in DOMAIN MembersOf(opt)}
  /\ UNCHANGED <<parents, partitions, frames, unified, stored>>

Overwritten(fields, rep, fd, r) == [fields EXCEPT ![rep] = [@ EXCEPT ![fd] = r]]

\* Mutant: the representative of the object instead of that of the entry.
Normalize_object(rep, fd) ==
  /\ <<rep, fd>> \in toNormalize
  /\ InTurn(toNormalize, rep)
  /\ heap' = [heap EXCEPT !.fieldRefs = Overwritten(@, rep, fd, heap.parents[rep])]
  /\ toNormalize' = toNormalize \ {<<rep, fd>>}
  /\ UNCHANGED <<parents, partitions, frames, toReverse, unified, stored>>

(* pinfo.fieldRefs[fd] = p.Representative(entry).                          *)
Normalize(rep, fd) ==
  /\ <<rep, fd>> \in toNormalize
  /\ InTurn(toNormalize, rep)
  /\ heap' = [heap EXCEPT !.fieldRefs =
                Overwritten(@, rep, fd, heap.parents[heap.fieldRefs[rep][fd]])]
  /\ toNormalize' = toNormalize \ {<<rep, fd>>}
  /\ UNCHANGED <<parents, partitions, frames, toReverse, unified, stored>>

WithParent(rev, f, rep) ==
  [g \in DOMAIN rev \cup {f} |->
     IF g # f THEN rev[g] ELSE IF f \in DOMAIN rev THEN Append(rev[f], rep) ELSE <<rep>>]

\* Mutant: the parents are collected while the fields are being normalized.
Reverse_early(rep, fd) ==
  /\ <<rep, fd>> \in toReverse
  /\ InTurn(toReverse, rep)
  /\ heap' = [heap EXCEPT !.revFields = WithParent(@, heap.fieldRefs[rep][fd], rep)]
  /\ toReverse' = toReverse \ {<<rep, fd>>}
  /\ UNCHANGED <<parents, partitions, frames, toNormalize, unified, stored>>

(* p.revFields[fref] = append(p.revFields[fref], rep).                     *)
Reverse(rep, fd) ==
  /\ toNormalize = {}
  /\ <<rep, fd>> \in toReverse
  /\ InTurn(toReverse, rep)
  /\ heap' = [heap EXCEPT !.revFields = WithParent(@, heap.fieldRefs[rep][fd], rep)]
  /\ toReverse' = toReverse \ {<<rep, fd>>}
  /\ UNCHANGED <<parents, partitions, frames, toNormalize, unified, stored>>

Next ==
  \/ \E r \in Ref : Insert(r)
  \/ \E a, b \in Ref : CallUnify(a, b)
  \/ \E obj, target \in Ref, fd \in Field : CallUnifyField(obj, fd, target)
  \/ StepUnify
  \/ ToPartitions
  \/ \E entry \in toNormalize : Normalize(entry[1], entry[2])
  \/ \E entry \in toReverse : Reverse(entry[1], entry[2])

(* A call, once made, runs to its return: the heap is built by one         *)
(* goroutine.  Nothing makes a client call.                                *)
Spec == Init /\ [][Next]_vars /\ WF_vars(StepUnify)

-----------------------------------------------------------------------------
Final == heap # NotFinal /\ toNormalize = {} /\ toReverse = {}

(* The heap holds functions of the right kind, and the pending pairs are   *)
(* pairs of references.                                                    *)
TypeOK ==
  /\ DOMAIN parents \subseteq Ref
  /\ parents \in [DOMAIN parents -> Ref]
  /\ DOMAIN partitions \subseteq Ref
  /\ partitions \in [DOMAIN partitions -> PartitionInfo]
  /\ frames \in Seq(SUBSET (Ref \X Ref))
  /\ unified \subseteq Ref \X Ref
  /\ stored \subseteq Ref \X Field \X Ref

(* Every reference has a representative that the lookup reaches: no        *)
(* lookup recurses for ever or falls on a reference that is not there.     *)
LookupsEnd == IsForest(parents)

(* The table has an entry for each representative and no other: the        *)
(* log.Fatalf of partitionInfo ("is not a partition rep") is unreachable   *)
(* from Unify and unifyField.                                              *)
PartitionsAtRoots == DOMAIN partitions = RootsOf(parents)

(* A field map never points at a reference the heap does not hold.         *)
FieldTargetsKnown ==
  \A rep \in DOMAIN partitions : \A fd \in DOMAIN partitions[rep].fieldRefs :
    partitions[rep].fieldRefs[fd] \in DOMAIN parents

-----------------------------------------------------------------------------
(* A labelling of the references solves the constraints when it gives      *)
(* unified references one label, and the values of one field of equally    *)
(* labelled objects one label.  The heap the analysis is after is the      *)
(* solution that tells most references apart.                              *)
Solves(f) ==
  /\ \A u \in unified : f[u[1]] = f[u[2]]
  /\ \A s, t \in stored : s[2] = t[2] /\ f[s[1]] = f[t[1]] => f[s[3]] = f[t[3]]

(* Precision: references share a partition only if every solution puts     *)
(* them together, at every step of a cascade.                              *)
NoSpuriousUnification ==
  \A f \in [Ref -> Ref] : Solves(f) =>
    \A r \in DOMAIN parents : f[Root(parents, r)] = f[r]

(* Completeness: when no call is running, every asserted unification holds *)
(* and the field of every asserted object holds the asserted value.        *)
ConstraintsHold ==
  frames = <<>> =>
    /\ \A u \in unified : Root(parents, u[1]) = Root(parents, u[2])
    /\ \A s \in stored :
         LET rep == Root(parents, s[1])
         IN  /\ s[2] \in DOMAIN partitions[rep].fieldRefs
             /\ Root(parents, partitions[rep].fieldRefs[s[2]]) = Root(parents, s[3])

(* No asserted field is ever dropped, whatever the merges in between:      *)
(* completeness but for the unification of the values.                     *)
FieldsKept ==
  \A s \in stored :
    s[2] \in DOMAIN partitions[Root(parents, s[1])].fieldRefs

(* state.go:39 "number of members".                                        *)
NumMembersCounted ==
  \A rep \in DOMAIN partitions :
    partitions[rep].numMembers = Cardinality(ClassOf(parents, rep))

(* Refinement: every step of the heap adds references and joins at most    *)
(* two partitions.                                                         *)
Same == {ab \in (DOMAIN parents) \X (DOMAIN parents) :
           Root(parents, ab[1]) = Root(parents, ab[2])}

Abstract == INSTANCE AbstractPartition WITH same <- Same
AbstractSpec == Abstract!Spec

(* Every Unify returns, whatever cycles the field maps form.               *)
UnifyReturns == frames # <<>> ~> frames = <<>>

-----------------------------------------------------------------------------
(* Freezing mixes no two partitions: the frozen parent of a reference and  *)
(* the frozen values of the fields are in the partitions they were in.     *)
FreezeKeepsPartitions ==
  Final =>
    /\ \A r \in DOMAIN parents :
         Root(parents, heap.parents[r]) = Root(parents, r)
    /\ \A rep \in DOMAIN partitions : \A fd \in DOMAIN partitions[rep].fieldRefs :
         Root(parents, heap.fieldRefs[rep][fd])
           = Root(parents, partitions[rep].fieldRefs[fd])

(* FieldParents inverts PartitionFieldMap: whatever the loops overwrite    *)
(* and append in which order, an object is listed under a reference once   *)
(* for each of its fields that PartitionFieldMap says holds it, so neither *)
(* is a parent lost when another is listed nor one listed under a          *)
(* reference that has been normalized away.                                *)
FieldParents(r) == IF r \in DOMAIN heap.revFields THEN heap.revFields[r] ELSE <<>>

RevFieldsInverse ==
  Final =>
    \A rep \in DOMAIN heap.fieldRefs : \A r \in DOMAIN parents :
      Cardinality({fd \in DOMAIN heap.fieldRefs[rep] : heap.fieldRefs[rep][fd] = r})
        = Cardinality({n \in DOMAIN FieldParents(r) : FieldParents(r)[n] = rep})

(* state.go:321 "(1) Construct a new parent map that maps a reference to   *)
(* its representative".                                                    *)
FrozenParentsAreRoots ==
  Final => \A r \in DOMAIN parents : heap.parents[r] = Root(parents, r)
=============================================================================
