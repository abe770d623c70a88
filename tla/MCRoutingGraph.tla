--------------------------- MODULE MCRoutingGraph ---------------------------
(* Instances of RoutingGraph: one wildcard filter that covers both tags.     *)
EXTENDS RoutingGraph, TLC

CONSTANTS a, b, ww

MCTag    == {a, b}
MCWild   == {ww}
MCCovers == [f \in {ww} |-> {a, b}]

MCOps    == {"configure", "remove", "connect", "disconnect", "add sink", "remove sink"}

(* The two tags are covered by the same filter, and the sinks are alike.     *)
Symmetric == Permutations({a, b}) \cup Permutations(Sink)
=============================================================================
