---------------------------- MODULE SourceTypes ----------------------------
(***************************************************************************)
(* sourcetype.IsSourceType, and the objects by which sourceinfer knows     *)
(* types: an object is a named type, <<type, 0>>, or a field of a struct,  *)
(* <<struct, index>>.                                                      *)
(* Configured is the set of named types that the configuration says are    *)
(* sources (Config.IsSourceType).                                         *)
(***************************************************************************)
EXTENDS GoTypes

CONSTANT Configured

(* The members of U that Step leads to from those of S, S included.        *)
Closed(S, U, Step(_)) ==
  LET grown[met \in SUBSET U] ==
        LET next == met \cup UNION {Step(x) : x \in met}
        IN  IF next = met THEN met ELSE grown[next]
  IN  grown[S]

Elems(t) ==
  CASE Kind(t) \in {"array", "slice", "chan", "pointer"} -> {Types[t].elem}
    [] Kind(t) = "map" -> {Types[t].key, Types[t].elem}
    [] OTHER -> {}

Fields(s) == {<<s, n>> : n \in DOMAIN Types[s].fields}
FieldType(f) == Types[f[1]].fields[f[2]].type

(* fieldtags: a field has a source's tag, and is not embedded.             *)
TaggedFields(s) ==
  {f \in Fields(s) : Types[s].fields[f[2]].tagged /\ ~Types[s].fields[f[2]].embedded}

(* The recursion of isSourceType meets each type once, thanks to seen.     *)
Components(t) == Closed({t}, DOMAIN Types, LAMBDA x : Elems(x) \cup {Underlying(x)})

IsSourceType(t, tags) ==
  \E u \in Components(t) :
    \/ Kind(u) = "named" /\ u \in Configured
    \/ Kind(u) = "struct" /\ Fields(u) \cap tags # {}

Object(t) == <<t, 0>>
IsField(o) == o[2] # 0
ObjectType(o) == IF IsField(o) THEN FieldType(o) ELSE o[1]

(* findObjects: traverse dereferences, and goes no further at named types. *)
\* Mutant: the keys of maps are forgotten.
Traverse_elem(t) ==
  {Dereference(u) : u \in
     IF Kind(t) = "struct" THEN {FieldType(f) : f \in Fields(t)}
     ELSE IF Kind(t) = "map" THEN {Types[t].elem} ELSE Elems(t)}

Traverse(t) ==
  {Dereference(u) : u \in
     IF Kind(t) = "struct" THEN {FieldType(f) : f \in Fields(t)} ELSE Elems(t)}

FindObjects(t) ==
  LET met == Closed({Dereference(t)}, DOMAIN Types, Traverse)
  IN  {Object(u) : u \in {n \in met : Kind(n) = "named"}}
      \cup UNION {Fields(s) : s \in {u \in met : Kind(u) = "struct"}}
=============================================================================
