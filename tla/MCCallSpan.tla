----------------------------- MODULE MCCallSpan -----------------------------
(* Call graphs of at most five calls; of at most three, the functions may  *)
(* call themselves.  Functions are interchangeable.                        *)
EXTENDS CallSpan, TLC, FiniteSetsExt

Calls(n) == UNION {kSubset(k, Fn \X Fn) : k \in 0..n}

FewCalls == Calls(3) \cup {g \in Calls(5) : \A e \in g : e[1] # e[2]}

AnyFn == Permutations(Fn)
=============================================================================
