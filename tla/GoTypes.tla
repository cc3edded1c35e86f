------------------------------ MODULE GoTypes ------------------------------
(***************************************************************************)
(* The questions that the analyzers ask of Go types.  The constant Types   *)
(* is the type environment: a function from type identities (types.Type    *)
(* values are compared as pointers) to what they are,                      *)
(*   [kind |-> "named", under |-> t, obj |-> n]                            *)
(*   [kind |-> "pointer" | "slice" | "array" | "chan", elem |-> t]         *)
(*   [kind |-> "map", key |-> t, elem |-> t]                               *)
(*   [kind |-> "struct", fields |-> <<[name, type, tagged, embedded], ...>>] *)
(* and [kind |-> k] for the others, basic types by their own names.  Types *)
(* refer to each other by identity, so recursive types are cycles of it.   *)
(***************************************************************************)
EXTENDS Naturals, Sequences, FiniteSets, TLC

CONSTANT Types

Kind(t) == Types[t].kind

(* types.Type.Underlying: of a named type, a type that is not named.       *)
Underlying(t) == IF Kind(t) = "named" THEN Types[t].under ELSE t

(* typeMayShareObject: the kinds whose values share what they point to.    *)
SharedKinds == {"pointer", "struct", "chan", "interface", "slice", "signature",
                "array", "map", "string", "unsafe.Pointer"}
MayShareObject(t) == Kind(Underlying(t)) \in SharedKinds

UnifyByReference(t) ==
  Kind(Underlying(t)) \notin {"struct", "array"} /\ MayShareObject(t)

FieldAddressable(t) == Kind(Underlying(t)) \in {"struct", "slice", "array"}

(* utils.Dereference, which follows pointers through their names.  It has  *)
(* no answer for "type P *P", on which the code loops for ever.            *)
Dereference(t) ==
  LET down[u \in DOMAIN Types] ==
        IF Kind(Underlying(u)) = "pointer" THEN down[Types[Underlying(u)].elem] ELSE u
  IN  down[t]

(* A field of a struct as the heap knows it: the variable of the struct's  *)
(* type, or a bare name.                                                   *)
NamedField(n) == [name |-> n, of |-> ""]
MakeField(t, index) ==
  LET s == Underlying(IF Kind(t) = "pointer" THEN Types[t].elem ELSE t)
  IN  IF Kind(s) = "struct"
      THEN [name |-> Types[s].fields[index].name, of |-> s]
      ELSE NamedField(ToString(index))
=============================================================================
