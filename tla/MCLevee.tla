------------------------------ MODULE MCLevee ------------------------------
(***************************************************************************)
(* Programs for Levee.  The packages: core declares                        *)
(*   type Cfg struct { data, name string }      // configured, field data  *)
(*   type T struct { secret string `levee:"source"`; id string }           *)
(*   type E struct { string `levee:"source"` }  // embedded: not a source  *)
(* the sink Sink and the sanitizer Sanitize; mid imports core and app      *)
(* imports mid, through which alone it hears of core's types.              *)
(***************************************************************************)
EXTENDS Levee

Struct(fields) == [kind |-> "struct", fields |-> fields]
Field(n, tagged) == [name |-> n, type |-> "string", tagged |-> tagged, embedded |-> n = "string"]
Defn(t) == [kind |-> "named", under |-> t, def |-> t]

MCTypes ==
  "string" :> [kind |-> "string"]
  @@ "Cfg" :> Defn("cfg") @@ "cfg" :> Struct(<<Field("data", FALSE), Field("name", FALSE)>>)
  @@ "T" :> Defn("t") @@ "t" :> Struct(<<Field("secret", TRUE), Field("id", FALSE)>>)
  @@ "E" :> Defn("e") @@ "e" :> Struct(<<Field("string", TRUE)>>)
  @@ "*Cfg" :> [kind |-> "pointer", elem |-> "Cfg"] @@ "[]T" :> [kind |-> "slice", elem |-> "T"]
MCConfigured == {"Cfg"}

Node(kind, type, next) ==
  [kind |-> kind, type |-> type, next |-> next, callee |-> "", field |-> <<>>, stores |-> {},
   cleans |-> {}, fun |-> <<>>, path |-> <<<<>>, <<>>>>, line |-> 0]
FieldNode(f, next) == [Node("field", "string", next) EXCEPT !.field = f]
Call(callee, type, next) == [Node("call", type, next) EXCEPT !.callee = callee]
\* A call of Sink, a statement at a line.
SinkAt(line) ==
  [Call("Sink", "string", {}) EXCEPT
     !.line = line, !.fun = <<line, "fun">>, !.path = <<<<line, "call">>, <<line, "stmt">>>>]
Func(p, code) == [pkg |-> p, code |-> code]

Functions ==
  "Sink" :> Func("core", <<Node("parameter", "Cfg", {2}), Node("panic", "string", {})>>)
  @@ "Sanitize" :> Func("core", <<Node("parameter", "T", {})>>)
  @@ "Cfg.Data" :> Func("core", <<Node("parameter", "Cfg", {2}), FieldNode(<<"cfg", 1>>, {3}), Node("return", "string", {})>>)
  @@ "Cfg.Name" :> Func("core", <<Node("parameter", "Cfg", {2}), FieldNode(<<"cfg", 2>>, {3}), Node("return", "string", {})>>)
  \* Sources of many kinds, all but the last two real, and one call of Sink for each.
  @@ "kinds" :> Func("mid",
       <<Node("assert", "Cfg", {5}), Node("freevar", "*Cfg", {6}), Node("freevar", "Cfg", {7}),
         Node("parameter", "E", {8}), SinkAt(5), SinkAt(6), SinkAt(7), SinkAt(8)>>)
  \* What a sanitizer returns, in a variable and from the call itself.
  @@ "clean" :> Func("mid",
       <<[Node("alloc", "T", {4}) EXCEPT !.stores = {"Sanitize"}], Node("lookup", "T", {3, 4}),
         [Call("Sanitize", "T", {}) EXCEPT !.stores = {"Sanitize"}, !.cleans = {4}], SinkAt(4)>>)
  @@ "excluded" :> Func("mid", <<Node("parameter", "Cfg", {2}), SinkAt(2)>>)
  @@ "secret" :> Func("app",
       <<Node("parameter", "[]T", {2, 4}), FieldNode(<<"t", 1>>, {3}), SinkAt(3),
         FieldNode(<<"t", 2>>, {5}), SinkAt(5)>>)
  @@ "getter" :> Func("app",
       <<Call("Cfg.Data", "string", {2}), SinkAt(2), Call("Cfg.Name", "string", {4}), SinkAt(4)>>)
  \* Two sources reach line 3; line 4 panics; lines 5 and 6 have comments.
  @@ "several" :> Func("app",
       <<Node("parameter", "Cfg", {3, 5}), Node("extract", "Cfg", {3, 4, 6}), SinkAt(3),
         Node("panic", "string", {}), SinkAt(5), SinkAt(6)>>)

Comments == {[on |-> <<5, "stmt">>, lines |-> <<"text", "DoNotReport">>, above |-> 5],
             [on |-> <<6, "fun">>, lines |-> <<"text">>, above |-> 0]}

Packages ==
  [imports |-> "core" :> {} @@ "mid" :> {"core"} @@ "app" :> {"mid"},
   structs |-> "core" :> {"cfg", "t", "e"} @@ "mid" :> {} @@ "app" :> {},
   types |-> "core" :> {"Cfg", "T", "E"} @@ "mid" :> {} @@ "app" :> {},
   files |-> "core" :> {} @@ "mid" :> {} @@ "app" :> Comments,
   methods |-> "Cfg" :> {"Cfg.Data", "Cfg.Name"} @@ "T" :> {} @@ "E" :> {},
   functions |-> Functions,
   sinks |-> {"Sink"}, sanitizers |-> {"Sanitize"}, excluded |-> {"excluded"},
   sourceFields |-> {<<"cfg", 1>>}, allowPanic |-> FALSE, useEAR |-> FALSE,
   flows |-> {<<<<"secret", 1>>, <<"secret", 3>>, <<"t", 1>>>>,
              <<<<"secret", 1>>, <<"secret", 5>>, <<"t", 2>>>>,
              <<<<"several", 1>>, <<"secret", 3>>, <<>>>>,
              <<<<"several", 2>>, <<"several", 5>>, <<>>>>,
              <<<<"several", 2>>, <<"several", 4>>, <<>>>>,
              <<<<"excluded", 1>>, <<"kinds", 5>>, <<>>>>,
              <<<<"kinds", 1>>, <<"excluded", 2>>, <<>>>>}]

\*   // levee.DoNotReport
\*   var x = Sink(s)
\* The comment is the declaration's, in which the call is an operand's operand.
Nested ==
  [Packages EXCEPT
     !.imports = "core" :> {}, !.structs = "core" :> {"cfg"},
     !.files = "core" :> {[on |-> <<2, "decl">>, lines |-> <<"DoNotReport">>, above |-> 2]},
     !.functions = "f" :> Func("core", <<Node("parameter", "Cfg", {2}), SinkAt(2)>>),
     !.methods = "Cfg" :> {}, !.types = "core" :> {"Cfg"}, !.flows = {}]

MCPrograms ==
  [packages |-> Packages, panicking |-> [Packages EXCEPT !.allowPanic = TRUE],
   ear |-> [Packages EXCEPT !.useEAR = TRUE], nested |-> Nested]

\* func (t T) Secret() string { return t.secret }
TaggedGetter ==
  [getter |-> [Packages EXCEPT
     !.functions = "T.Secret" :> Func("core",
       <<Node("parameter", "T", {2}), FieldNode(<<"t", 1>>, {3}), Node("return", "string", {})>>),
     !.methods = "Cfg" :> {} @@ "T" :> {"T.Secret"} @@ "E" :> {}, !.flows = {}]]

\* type Src struct { bytes.Buffer } in app, a configured source with no field
\* named: the wrapper of the promoted String returns what its field taints.
Promoted ==
  [promoted |->
    [Packages EXCEPT
       !.methods = "Cfg" :> {"Buffer.String"} @@ "T" :> {} @@ "E" :> {},
       !.types = "core" :> {} @@ "mid" :> {} @@ "app" :> {"Cfg"},
       !.functions = "Buffer.String" :> Func("core",
         <<Node("parameter", "*Cfg", {2}), FieldNode(<<"cfg", 1>>, {3}),
           Call("String", "string", {4}), Node("return", "string", {})>>), !.flows = {}]]
=============================================================================
