--------------------------- MODULE MCGuardedCache ---------------------------
(***************************************************************************)
(* TLC instances of GuardedCache.                                          *)
(***************************************************************************)
EXTENDS GuardedCache, TLC

CONSTANTS c1, c2, c3

Reads(name, allowed, ttl, shared) ==
  [NoTool EXCEPT !.name = name, !.allowed = allowed, !.cache = TRUE, !.enabled = TRUE,
                 !.ttl = ttl, !.shared = shared]
Writes(allowed, names) ==
  [NoTool EXCEPT !.name = "create", !.allowed = allowed, !.cache = TRUE, !.flushOn = names,
                 !.writes = TRUE]

List  == Reads("list", {"finance", "audit"}, 0, FALSE)
Rates == Reads("rates", {}, 1, TRUE)

\* A read per role, a shared read that expires, and a write that flushes both.
MCTools == {List, Rates, Writes({"finance"}, <<"list", "rates">>)}

\* The write takes its credential from a file.
FileBackedTools == {List, [Writes({}, <<"list">>) EXCEPT !.fileBacked = TRUE]}

MCTokenRequests ==
  {[roles |-> {"finance", "audit"}, scopes |-> {"mcp"}, expires |-> 1],
   [roles |-> {"audit"}, scopes |-> {"logs"}, expires |-> 0]}

MCFlushRequests == {<<"list">>, <<"rates", "list">>}
OneFlushRequest == {<<"list">>}

Symmetry == Permutations(Call)
=============================================================================
