\* The spans of the comment's example.
SPECIFICATION Spec
CONSTANTS
  Fn = {f1, f2, f3}
  CallGraphs <- FewCalls
  MaxSpan = 2
INVARIANT DocumentedSpan
SYMMETRY AnyFn
CHECK_DEADLOCK FALSE
