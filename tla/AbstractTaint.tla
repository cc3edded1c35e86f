--------------------------- MODULE AbstractTaint ---------------------------
(***************************************************************************)
(* What a taint propagation is for, whatever the order of its visits: the  *)
(* set of tainted nodes starts empty, and grows one node at a time, first  *)
(* by the root and then along the edges that may carry taint.              *)
(***************************************************************************)
CONSTANTS Nodes(_), Root(_), FlowsTo(_, _, _)

VARIABLES graph, tainted

Init == tainted = {}

Reached(n) == n = Root(graph) \/ \E m \in tainted : FlowsTo(graph, m, n)

Mark(n) ==
  /\ n \notin tainted
  /\ Reached(n)
  /\ tainted' = tainted \cup {n}
  /\ UNCHANGED graph

Spec == Init /\ [][\E n \in Nodes(graph) : Mark(n)]_<<graph, tainted>>
=============================================================================
