------------------------------- MODULE MCEAR -------------------------------
(* Programs for the EAR analysis, each a few instructions long and about   *)
(* one family of instructions.  Registers are t0, t1, ... in the order of  *)
(* their positions; parameters come before them.                           *)
EXTENDS EARMeaning

MCTypes ==
  [int |-> [kind |-> "int"], str |-> [kind |-> "string"], any |-> [kind |-> "interface"],
   P |-> [kind |-> "pointer", elem |-> "int"], pP |-> [kind |-> "pointer", elem |-> "P"],
   S |-> [kind |-> "named", under |-> "s", obj |-> "S"],
   s |-> [kind |-> "struct", fields |-> <<[name |-> "x", type |-> "P", tagged |-> FALSE],
                                          [name |-> "y", type |-> "P", tagged |-> FALSE]>>],
   C |-> [kind |-> "named", under |-> "c", obj |-> "C"],   \* a source type
   c |-> [kind |-> "struct", fields |-> <<[name |-> "x", type |-> "P", tagged |-> TRUE],
                                          [name |-> "y", type |-> "P", tagged |-> FALSE]>>],
   pC |-> [kind |-> "pointer", elem |-> "C"],
   D |-> [kind |-> "named", under |-> "d", obj |-> "D"],   \* a source type
   d |-> [kind |-> "struct", fields |-> <<[name |-> "x", type |-> "pN", tagged |-> TRUE],
                                          [name |-> "y", type |-> "pN", tagged |-> TRUE]>>],
   pD |-> [kind |-> "pointer", elem |-> "D"],
   N |-> [kind |-> "named", under |-> "n", obj |-> "N"],   \* a list node
   n |-> [kind |-> "struct", fields |-> <<[name |-> "next", type |-> "pN", tagged |-> FALSE]>>],
   pN |-> [kind |-> "pointer", elem |-> "N"], ppN |-> [kind |-> "pointer", elem |-> "pN"],
   mapC |-> [kind |-> "map", key |-> "int", elem |-> "pC"],
   L |-> [kind |-> "named", under |-> "l", obj |-> "L"],   \* type L []L
   l |-> [kind |-> "slice", elem |-> "L"], pL |-> [kind |-> "pointer", elem |-> "L"],
   pS |-> [kind |-> "pointer", elem |-> "S"],
   slP |-> [kind |-> "slice", elem |-> "P"],
   A |-> [kind |-> "array", elem |-> "P"], pA |-> [kind |-> "pointer", elem |-> "A"],
   mapP |-> [kind |-> "map", key |-> "int", elem |-> "P"],
   chP |-> [kind |-> "chan", elem |-> "P"],
   fun |-> [kind |-> "signature"],
   tup |-> [kind |-> "tuple", len |-> 2]]

Names == <<"0", "1", "G", "m", "n", "p", "q", "u", "v", "w", "fv", "g", "a", "b", "z",
           "t0", "t1", "t2", "t3", "t4", "t5", "t6", "t7">>
Line(v) == CHOOSE n \in DOMAIN Names : Names[n] = v
MCPos == [v \in ToSet(Names) |-> Line(v)] @@ [lit |-> Line("t0")]

Of(f, types) == [v \in DOMAIN types |-> [type |-> types[v], in |-> f, kind |-> "local"]]
Indices == [v \in {"0", "1"} |-> [type |-> "int", in |-> "", kind |-> "const"]]
Globals(types) == [v \in DOMAIN types |-> [type |-> types[v], in |-> "", kind |-> "global"]]

Func(params, body, returns) ==
  [params |-> params, freeVars |-> <<>>, body |-> body, returns |-> returns, known |-> ""]
Closure(freeVars, body, returns) == [Func(<<>>, body, returns) EXCEPT !.freeVars = freeVars]
Known(n) == [Func(<<>>, <<>>, <<>>) EXCEPT !.known = n]

Do(is, reg, x) == [is |-> is, reg |-> reg, x |-> x]
Ok(is, reg, x, comma) == [is |-> is, reg |-> reg, x |-> x, commaOk |-> comma]
Field(is, reg, x, n) == [is |-> is, reg |-> reg, x |-> x, field |-> n]
Index(is, reg, x, n) == [is |-> is, reg |-> reg, x |-> x, index |-> n]
Extract(reg, tuple, n) == [is |-> "Extract", reg |-> reg, tuple |-> tuple, index |-> n]
Store(x, val) == [is |-> "Store", x |-> x, val |-> val]
Call(site, reg, f, args) ==
  [is |-> "Call", site |-> site, reg |-> reg, callee |-> f, args |-> args, bindings |-> <<>>]
Return == [is |-> "Other"]

Exact(K, value, func) ==
  [ks |-> K, exact |-> TRUE, value |-> value @@ Indices, func |-> func,
   sources |-> <<>>, sinks |-> {}, panics |-> FALSE, spans |-> {0}]
Searching(spans, sources, value, func) ==
  [Exact({0}, value, func @@ [Sink |-> Func(<<>>, <<>>, <<>>)])
     EXCEPT !.sources = sources, !.spans = spans, !.sinks = {"Sink"}, !.panics = TRUE]

\* f(u, v) { g(u); g(v) }, the example of unifyCallWithContexts, called by h.
Arguments ==
  Exact({0, 1, 2},
    Of("h", [z |-> "P", w |-> "P"]) @@ Of("f", [u |-> "P", v |-> "P"]) @@ Of("g", [a |-> "P"])
      @@ Of("f", [t0 |-> "int", t1 |-> "int"]) @@ Of("h", [t2 |-> "int", t3 |-> "int"]),
    [h |-> Func(<<"z", "w">>, <<Call("s3", "t2", "f", <<"z", "w">>)>>, <<>>),
     f |-> Func(<<"u", "v">>, <<Call("s1", "t0", "g", <<"u">>),
                                Call("s2", "t1", "g", <<"v">>)>>, <<>>),
     g |-> Func(<<"a">>, <<Return>>, <<>>)])

\* h(z) calls f(p, q), which returns either what it is given or what it
\* makes of a call to itself.
Recursion ==
  Exact({0, 1, 2},
    Of("h", [z |-> "P", w |-> "P", t3 |-> "P"])
      @@ Of("f", [p |-> "P", q |-> "P", t0 |-> "P"]),
    [h |-> Func(<<"z", "w">>, <<Call("s0", "t3", "f", <<"z", "w">>)>>, <<>>),
     f |-> Func(<<"p", "q">>, <<Call("s1", "t0", "f", <<"q", "q">>)>>,
                <<<<"t0">>, <<"p">>>>)])

Fieldwise ==
  Exact({0},
    Of("f", [p |-> "pS", v |-> "P", t0 |-> "pP", t1 |-> "pP", t2 |-> "P",
             t3 |-> "pP", t4 |-> "P", t5 |-> "S", t6 |-> "P"]),
    [f |-> Func(<<"p", "v">>,
        <<Field("FieldAddr", "t0", "p", 1), Store("t0", "v"),
          Field("FieldAddr", "t1", "p", 1), Do("Load", "t2", "t1"),
          Field("FieldAddr", "t3", "p", 2), Do("Load", "t4", "t3"),
          Do("Load", "t5", "p"), Field("Field", "t6", "t5", 2)>>, <<>>)])

Slices ==
  Exact({0},
    Of("f", [p |-> "slP", v |-> "P", n |-> "int", t0 |-> "pP", t1 |-> "pP", t2 |-> "P",
             t3 |-> "slP", t4 |-> "slP", w |-> "slP"]),
    [f |-> Func(<<"p", "v", "n", "w">>,
        <<Index("IndexAddr", "t0", "p", "0"), Store("t0", "v"),
          Index("IndexAddr", "t1", "w", "n"), Do("Load", "t2", "t1"),
          Do("Slice", "t3", "w"),
          [is |-> "append", reg |-> "t4", args |-> <<"p", "t3">>]>>, <<>>)])

Maps ==
  Exact({0},
    Of("f", [m |-> "mapP", v |-> "P", n |-> "int", t0 |-> "P", t1 |-> "tup", t2 |-> "P",
             t3 |-> "any", t4 |-> "tup", t5 |-> "P", q |-> "mapP", t6 |-> "P"]),
    [f |-> Func(<<"m", "v", "n", "q">>,
        <<[is |-> "MapUpdate", x |-> "m", index |-> "0", val |-> "v"],
          Index("Lookup", "t0", "m", "n") @@ [commaOk |-> FALSE],
          Index("Lookup", "t1", "q", "1") @@ [commaOk |-> TRUE], Extract("t2", "t1", 0),
          Do("Range", "t3", "q"), Do("Next", "t4", "t3"), Extract("t5", "t4", 2),
          Index("Index", "t6", "q", "0")>>, <<>>)])

Channels ==
  Exact({0},
    Of("f", [p |-> "chP", q |-> "chP", v |-> "P", t0 |-> "P", t1 |-> "tup", t2 |-> "P",
             t3 |-> "tup", t4 |-> "P", t5 |-> "P", w |-> "P"]),
    [f |-> Func(<<"p", "q", "v", "w">>,
        <<[is |-> "Send", x |-> "p", val |-> "v"], Ok("Receive", "t0", "p", FALSE),
          Ok("Receive", "t1", "q", TRUE), Extract("t2", "t1", 0),
          [is |-> "Select", reg |-> "t3",
           states |-> <<[dir |-> "receive", chan |-> "q", val |-> ""],
                        [dir |-> "send", chan |-> "q", val |-> "w"],
                        [dir |-> "receive", chan |-> "p", val |-> ""]>>],
          Extract("t4", "t3", 2), Extract("t5", "t3", 3)>>, <<>>)])

Interfaces ==
  Exact({0},
    Of("f", [p |-> "pS", q |-> "any", t0 |-> "any", t1 |-> "pS", t2 |-> "tup", t3 |-> "pS",
             t4 |-> "pS", t5 |-> "pP"]),
    [f |-> Func(<<"p", "q">>,
        <<Do("MakeInterface", "t0", "p"), Ok("TypeAssert", "t1", "t0", FALSE),
          Ok("TypeAssert", "t2", "q", TRUE), Extract("t3", "t2", 0),
          Field("FieldAddr", "t5", "t3", 1),
          [is |-> "Phi", reg |-> "t4", edges |-> <<"t1", "t3">>]>>, <<>>)])

Strings ==
  Exact({0},
    Of("f", [a |-> "str", b |-> "str", w |-> "any", t0 |-> "str", t1 |-> "str",
             t2 |-> "tup", t3 |-> "str"]),
    [f |-> Func(<<"a", "b", "w">>,
        <<Do("Add", "t0", "a") @@ [y |-> "b"], Call("s1", "t1", "Sprint", <<"a", "t0">>),
          Call("s2", "t2", "Fprint", <<"w", "t1">>),
          Do("Add", "t3", "b") @@ [y |-> "t1"]>>, <<>>),
     Sprint |-> Known("Sprint"), Fprint |-> Known("Fprint")])

\* A closure that stores what it is given where its free variable points to.
Closures ==
  Exact({0},
    Of("f", [p |-> "pP", v |-> "P", t0 |-> "fun", t1 |-> "P", t2 |-> "P"])
      @@ Of("g", [fv |-> "pP", a |-> "P", t3 |-> "P"]),
    [f |-> Func(<<"p", "v">>,
        <<[is |-> "MakeClosure", reg |-> "t0", fn |-> "g", bindings |-> <<"p">>],
          [Call("s1", "t1", "g", <<"v">>) EXCEPT !.bindings = <<"p">>],
          Do("Load", "t2", "p")>>, <<>>),
     g |-> [Closure(<<"fv">>, <<Do("Load", "t3", "fv"), Store("fv", "a")>>, <<<<"t3">>>>)
              EXCEPT !.params = <<"a">>]])

Tuples ==
  Exact({0},
    Of("f", [p |-> "P", q |-> "P", t0 |-> "tup", t1 |-> "P", t2 |-> "P"])
      @@ Of("g", [a |-> "P", b |-> "P"]),
    [f |-> Func(<<"p", "q">>,
        <<Call("s1", "t0", "g", <<"p", "q">>), Extract("t1", "t0", 0),
          Extract("t2", "t0", 1)>>, <<>>),
     g |-> Func(<<"a", "b">>, <<Return>>, <<<<"a", "b">>>>)])

\* A goroutine and a deferred call share a global variable.
Sharing ==
  Exact({0},
    Globals([G |-> "pP"])
      @@ Of("f", [v |-> "P", t0 |-> "P"]) @@ Of("g", [a |-> "P", t1 |-> "P"]),
    [f |-> Func(<<"v">>,
        <<[is |-> "Go", site |-> "s1", callee |-> "g", args |-> <<"v">>, bindings |-> <<>>],
          Do("Load", "t0", "G"),
          [is |-> "Defer", site |-> "s2", callee |-> "", args |-> <<"v">>,
           bindings |-> <<>>]>>, <<>>),
     g |-> Func(<<"a">>, <<Do("Load", "t1", "G"), Store("G", "a")>>, <<>>)])

\* copy into p: of a slice literal its array, which has the literal's
\* position, represents the partition, and the elements are found; of a
\* parameter they are not.
Copying(from) ==
  [Exact({0},
     Of("f", [p |-> "slP", q |-> "slP", v |-> "P", t0 |-> "pA", lit |-> "slP", t2 |-> "pP",
              t3 |-> "int", t4 |-> "pP", t5 |-> "P"]),
     [f |-> Func(<<"p", "q", "v">>,
         <<[is |-> "Alloc", reg |-> "t0"], Do("Slice", "lit", "t0"),
           Index("IndexAddr", "t2", from, "0"), Store("t2", "v"),
           [is |-> "copy", reg |-> "t3", args |-> <<"p", from>>],
           Index("IndexAddr", "t4", "p", "0"), Do("Load", "t5", "t4")>>, <<>>)])
   EXCEPT !.exact = (from = "lit")]

\* The field of a struct that is not in memory, twice: the first value is
\* taken for the field's address.
Unmapped ==
  [Exact({0},
     Of("f", [p |-> "S", t0 |-> "P", t1 |-> "P"]),
     [f |-> Func(<<"p">>, <<Field("Field", "t0", "p", 1), Field("Field", "t1", "p", 1)>>,
                 <<>>)])
   EXCEPT !.exact = FALSE]

-----------------------------------------------------------------------------
(* Programs with sources (of type C, whose field x is tagged) and sinks.   *)
SinkOf(site, reg, v) == Call(site, reg, "Sink", <<v>>)
Panic(site, v) == [is |-> "Panic", site |-> site, args |-> <<v>>]

\* The two fields of a source, a panic with the source, and another source.
Leak ==
  Searching({2}, [f |-> <<"p", "q">>],
    Of("f", [p |-> "pC", q |-> "pC", t0 |-> "pP", t1 |-> "P", t2 |-> "pP", t3 |-> "P",
             t4 |-> "int", t5 |-> "int"]),
    [f |-> Func(<<"p", "q">>,
        <<Field("FieldAddr", "t0", "p", 1), Do("Load", "t1", "t0"),
          Field("FieldAddr", "t2", "p", 2), Do("Load", "t3", "t2"),
          SinkOf("s1", "t4", "t1"), SinkOf("s2", "t5", "t3"), Panic("s3", "q")>>, <<>>)])

\* f hands the tagged field of its source to g, which has a source of its
\* own and joins the two.
OwnAndOther ==
  Searching({0, 1, 3}, [f |-> <<"p">>, g |-> <<"q">>],
    Of("f", [p |-> "pC", t0 |-> "pP", t1 |-> "int"])
      @@ Of("g", [a |-> "pP", q |-> "pC", t2 |-> "pP", t3 |-> "pP", t4 |-> "int"]),
    [f |-> Func(<<"p">>,
        <<Field("FieldAddr", "t0", "p", 1), Call("s1", "t1", "g", <<"t0", "p">>)>>, <<>>),
     g |-> Func(<<"a", "q">>,
        <<Field("FieldAddr", "t2", "q", 1),
          [is |-> "Phi", reg |-> "t3", edges |-> <<"t2", "a">>],
          SinkOf("s2", "t4", "t3")>>, <<>>)])

\* g stores the tagged field of a where b points to; f sinks what it gave
\* as b, twice.
Beyond ==
  Searching({1, 2, 3}, [f |-> <<"p">>],
    Of("f", [p |-> "pC", q |-> "pS", t0 |-> "int", t1 |-> "int", t5 |-> "int"])
      @@ Of("g", [a |-> "pC", b |-> "pS", t2 |-> "pP", t3 |-> "P", t4 |-> "pP"]),
    [f |-> Func(<<"p", "q">>,
        <<Call("s1", "t0", "g", <<"p", "q">>), SinkOf("s2", "t1", "q"),
          SinkOf("s3", "t5", "q")>>, <<>>),
     g |-> Func(<<"a", "b">>,
        <<Field("FieldAddr", "t2", "a", 1), Do("Load", "t3", "t2"),
          Field("FieldAddr", "t4", "b", 2), Store("t4", "t3")>>, <<>>)])

\* A map of sources: an element, its tagged field, its other field.
Container ==
  Searching({2}, [f |-> <<"m">>],
    Of("f", [m |-> "mapC", n |-> "int", t0 |-> "pC", t1 |-> "pP", t2 |-> "pP", t3 |-> "int",
             t4 |-> "int", t5 |-> "int"]),
    [f |-> Func(<<"m", "n">>,
        <<Index("Lookup", "t0", "m", "n") @@ [commaOk |-> FALSE],
          Field("FieldAddr", "t1", "t0", 1), Field("FieldAddr", "t2", "t0", 2),
          SinkOf("s1", "t3", "t0"), SinkOf("s2", "t4", "t1"),
          SinkOf("s3", "t5", "t2")>>, <<>>)])

\* Two tagged fields that hold one list, whose node is its own next: which
\* field is searched second comes to what the first has visited.
Joined ==
  Searching({2}, [f |-> <<"p">>],
    Of("f", [p |-> "pD", v |-> "pN", t0 |-> "ppN", t1 |-> "ppN", t2 |-> "ppN", t3 |-> "pN",
             t4 |-> "int"]),
    [f |-> Func(<<"p", "v">>,
        <<Field("FieldAddr", "t0", "p", 1), Store("t0", "v"),
          Field("FieldAddr", "t1", "p", 2), Store("t1", "v"),
          Field("FieldAddr", "t2", "v", 1), Store("t2", "v"),
          Do("Load", "t3", "t2"), SinkOf("s1", "t4", "t3")>>, <<>>)])

\* A slice of itself, of a source type that is not a struct.
Endless ==
  [endless |->
     Searching({2}, [f |-> <<"z">>],
       Of("f", [z |-> "L", t0 |-> "pL"]),
       [f |-> Func(<<"z">>, <<Index("IndexAddr", "t0", "z", "0"), Store("t0", "z")>>, <<>>)])]

\* The tagged field of a source that is converted three times in a row (see
\* ear_frozen_roots.cfg).
Chain ==
  [chain |->
     Searching({2}, [f |-> <<"p">>],
       Of("f", [p |-> "pC", t0 |-> "pP", t1 |-> "any", t2 |-> "any", t3 |-> "any",
                t4 |-> "int"]),
       [f |-> Func(<<"p">>,
           <<Field("FieldAddr", "t0", "p", 1), Do("MakeInterface", "t1", "p"),
             Do("ChangeInterface", "t2", "t1"), Do("ChangeInterface", "t3", "t2"),
             SinkOf("s1", "t4", "t0")>>, <<>>)])]

\* Programs that the analysis is not exact about with a call site of context.
InContext ==
  [k \in {"tuples", "closures", "sharing"} |->
     [(CASE k = "tuples" -> Tuples [] k = "closures" -> Closures [] k = "sharing" -> Sharing)
        EXCEPT !.ks = {1}]]

MCPrograms ==
  [arguments |-> Arguments, recursion |-> Recursion, fieldwise |-> Fieldwise,
   slices |-> Slices, maps |-> Maps, channels |-> Channels, interfaces |-> Interfaces,
   strings |-> Strings, closures |-> Closures, tuples |-> Tuples, sharing |-> Sharing,
   copying |-> Copying("q"), copyingArray |-> Copying("lit"), unmapped |-> Unmapped,
   leak |-> Leak, own |-> OwnAndOther, beyond |-> Beyond, container |-> Container,
   joined |-> Joined]
=============================================================================
