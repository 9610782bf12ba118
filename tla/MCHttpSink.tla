----------------------------- MODULE MCHttpSink -----------------------------
(* A batch of two spans for a traces exporter and two metrics for a metrics *)
(* exporter of the same endpoint.                                          *)
EXTENDS HttpSink, TLC

CONSTANTS t1, m1, pa, pm, c1, c2

El(n, s) == [name |-> n, attrs |-> s]
Req(k, n, s, i) == [kind |-> k, names |-> n, attrs |-> s, count |-> i]

MCContent == (pa :> <<El("a", {}), El("b", {})>>)
             @@ (pm :> <<El("a", {"x"}), El("b", {"y"})>>)
MCFrom == (pa :> t1) @@ (pm :> m1)
MCKind == (t1 :> "spans") @@ (m1 :> "metrics")
MCRequests == {Req("spans", {}, {}, 3), Req("spans", {"a"}, {}, 1),
               Req("metrics", {"a"}, {"x"}, 1)}
=============================================================================
