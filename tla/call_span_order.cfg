\* A function met late is not searched again.
SPECIFICATION Spec
CONSTANTS
  Fn = {f1, f2, f3, f4}
  CallGraphs <- FewCalls
  MaxSpan = 4
INVARIANT SpanReachesAll
SYMMETRY AnyFn
CHECK_DEADLOCK FALSE
