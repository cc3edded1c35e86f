--------------------------- MODULE MCSourceInfer ---------------------------
(***************************************************************************)
(* Packages for SourceInfer, the first three with the shapes of its        *)
(* testdata:                                                               *)
(*   source   type Source struct{}                        // configured    *)
(*            type Tagged struct { secret string `levee:"source"` }        *)
(*            type NotSource struct{}                                      *)
(*   core     type Bar Source                             // configured    *)
(*            type A struct { Source; b *B }; type B struct { a *A }       *)
(*   crosspkg type Keyed map[Bar]string; type Wrapped chan []Tagged        *)
(*            type Rec struct { r *Rec; b B }; type Dull NotSource         *)
(*            type F func(A); type Ptr *Bar                                *)
(*   loops    type V []I; type I []V; type J []V     // configured: I, J   *)
(* crosspkg imports core alone, and hears of source through its facts.     *)
(***************************************************************************)
EXTENDS SourceInfer

Basic(k) == [kind |-> k]
Of(k, t) == [kind |-> k, elem |-> t]
Defn(t) == [kind |-> "named", under |-> t, def |-> t]
Struct(fields) == [kind |-> "struct", fields |-> fields]
Field(n, t) == [name |-> n, type |-> t, tagged |-> FALSE, embedded |-> n = t]

MCTypes ==
  "string" :> Basic("string") @@ "signature" :> Basic("signature")
  @@ "Source" :> Defn("struct{}") @@ "struct{}" :> Struct(<<>>)
  @@ "Tagged" :> Defn("struct{secret}")
  @@ "struct{secret}" :> Struct(<<[name |-> "secret", type |-> "string", tagged |-> TRUE, embedded |-> FALSE]>>)
  @@ "NotSource" :> Defn("struct{}")
  @@ "Bar" :> [kind |-> "named", under |-> "struct{}", def |-> "Source"]
  @@ "A" :> Defn("struct{Source, b}") @@ "*A" :> Of("pointer", "A")
  @@ "struct{Source, b}" :> Struct(<<Field("Source", "Source"), Field("b", "*B")>>)
  @@ "B" :> Defn("struct{a}") @@ "*B" :> Of("pointer", "B")
  @@ "struct{a}" :> Struct(<<Field("a", "*A")>>)
  @@ "Keyed" :> Defn("map") @@ "map" :> [kind |-> "map", key |-> "Bar", elem |-> "string"]
  @@ "Wrapped" :> Defn("chan") @@ "chan" :> Of("chan", "[]Tagged") @@ "[]Tagged" :> Of("slice", "Tagged")
  @@ "Rec" :> Defn("struct{r, b}") @@ "*Rec" :> Of("pointer", "Rec")
  @@ "struct{r, b}" :> Struct(<<Field("r", "*Rec"), Field("b", "B")>>)
  @@ "Dull" :> [kind |-> "named", under |-> "struct{}", def |-> "NotSource"]
  @@ "F" :> Defn("signature") @@ "Ptr" :> Defn("*Bar") @@ "*Bar" :> Of("pointer", "Bar")
  @@ "V" :> Defn("[]I") @@ "I" :> Defn("[]V") @@ "J" :> Defn("[]V")
  @@ "[]I" :> Of("slice", "I") @@ "[]V" :> Of("slice", "V")

MCConfigured == {"Source", "Bar", "I", "J"}

MCImports == "source" :> {} @@ "core" :> {"source"} @@ "crosspkg" :> {"core"} @@ "loops" :> {}

Specs(types) == [i \in DOMAIN types |-> Object(types[i])]
MCTypeSpecs ==
  "source" :> Specs(<<"Source", "Tagged", "NotSource">>)
  @@ "core" :> Specs(<<"Bar", "A", "B">>)
  @@ "crosspkg" :> Specs(<<"Keyed", "Wrapped", "Rec", "Dull", "F", "Ptr">>)
  @@ "loops" :> Specs(<<"V", "I", "J">>)
=============================================================================
