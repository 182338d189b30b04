----------------------------- MODULE MCCallPath -----------------------------
(***************************************************************************)
(* TLC instances of CallPath.                                              *)
(***************************************************************************)
EXTENDS CallPath, TLC

CONSTANTS c1, c2, c3, c4, u, v

Native(limit, perPrincipal) ==
  [kind |-> "native", method |-> "GET", limit |-> limit, perPrincipal |-> perPrincipal]
Http(method, limit) ==
  [kind |-> "http", method |-> method, limit |-> limit, perPrincipal |-> FALSE]

Plain(t) == [tool |-> t, raw |-> <<>>, after |-> <<>>]
With(t, raw, after) == [tool |-> t, raw |-> raw, after |-> after]

\* A native tool whose limit and scope change, and go.
Limited == {Plain(Native(0, FALSE)), Plain(Native(1, TRUE)), Plain(Native(1, FALSE)),
            Plain(Native(2, FALSE))}

\* Concurrent calls of the ERP, two failures of which open the breaker, and
\* error responses that are kept for a plugin.
Concurrent == {Plain(Http("GET", 2)), With(Http("GET", 1), <<"continue">>, <<>>)}

\* Bindings of both phases and both policies, which change under a call: it
\* may see the raw bindings of one and the others of the next.
Bound ==
  {With(Http("PUT", 1), <<"continue", "fail">>, <<>>),
   With(Http("PUT", 1), <<>>, <<"fail", "continue">>),
   With(Native(1, FALSE), <<"continue">>, <<>>)}

MCDeployments == Limited \cup Concurrent \cup Bound

MCSuccessors ==
  [d \in MCDeployments |->
     CASE d \in Limited -> Limited \ {d}
       [] d \in Bound   -> Bound \ {d}
       [] OTHER         -> {}]

\* A native tool without a limit, so that the rate limiter is all there is:
\* buckets that are dropped before they are full, and come back.
Unlimited == {Plain(Native(0, FALSE))}
NoSuccessors == [d \in Unlimited |-> {}]

Symmetry == Permutations(Call) \cup Permutations(Principal)
=============================================================================
