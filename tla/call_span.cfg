\* Call graphs of four functions, spans up to their number.
SPECIFICATION Spec
CONSTANTS
  Fn = {f1, f2, f3, f4}
  CallGraphs <- FewCalls
  MaxSpan = 4
INVARIANTS TypeOK WithinSpan LargeSpanReachesAll
SYMMETRY AnyFn
CHECK_DEADLOCK FALSE
