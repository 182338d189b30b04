------------------------------ MODULE Limiters ------------------------------
(***************************************************************************)
(* The two limiters in front of a tool call.                               *)
(*                                                                         *)
(* The concurrency limiter keeps one entry per tool, or per tool and       *)
(* principal, with the calls that hold a permit of it.  The rate limiter   *)
(* keeps a token bucket per principal.  Both tables have a limit on their  *)
(* size, and make room only by dropping entries that were not used for the *)
(* idle time.  Time is counted in the ticks a bucket needs for one token.  *)
(* The server has the rate limiter once for all calls and once per tool    *)
(* with a limit of its own: here it is one table.                          *)
(***************************************************************************)
EXTENDS Integers, FiniteSets

CONSTANTS Principal,   \* executionPrincipal: callers
          MaxEntries,  \* maxLimiterEntries
          TTL,         \* limiterIdleTTL, in ticks
          Burst        \* the tokens of a full bucket

\* RateLimitConfig.Validate: any positive rate and burst.  The idle time need
\* not be enough to fill a bucket.
ASSUME LimiterAssumption ==
  MaxEntries \in Nat \ {0} /\ TTL \in Nat /\ Burst \in Nat \ {0}

\* Older(age): time since an entry was last used, up to where it is idle.
Older(age) == IF age > TTL THEN age ELSE age + 1

-----------------------------------------------------------------------------
(* ToolConcurrencyLimiter *)

Keys    == Principal \cup {"tool"}
NoEntry == [id |-> "none", active |-> 0, limit |-> 0, age |-> 0]

keyOf(principal, perPrincipal) == IF perPrincipal THEN principal ELSE "tool"

Present(table, none) == {k \in DOMAIN table : table[k] # none}

\* Makes room if the table is full: idle entries without an active call go.
dropIdleEntries(entries) ==
  IF Cardinality(Present(entries, NoEntry)) < MaxEntries THEN entries
  ELSE [k \in Keys |-> IF entries[k].active = 0 /\ entries[k].age > TTL
                       THEN NoEntry ELSE entries[k]]

\* A new entry, whose pointer is known by the call that makes it.
addEntry(entries, key, limit, call) ==
  LET room == dropIdleEntries(entries)
  IN  IF Cardinality(Present(room, NoEntry)) >= MaxEntries
      THEN [granted |-> FALSE, id |-> "none", entries |-> room]
      ELSE [granted |-> TRUE, id |-> call,
            entries |-> [room EXCEPT ![key] =
                           [id |-> call, active |-> 1, limit |-> limit, age |-> 0]]]

\* Mutation of acquire: new settings replace an entry that is in use.
acquireReplaces(entries, key, limit, call) ==
  LET e == entries[key]
  IN  CASE e # NoEntry /\ e.limit = limit /\ e.active < limit ->
             [granted |-> TRUE, id |-> e.id, entries |-> [entries EXCEPT ![key].active = @ + 1]]
        [] e # NoEntry /\ e.limit = limit /\ e.active >= limit ->
             [granted |-> FALSE, id |-> "none", entries |-> entries]
        [] OTHER -> addEntry([entries EXCEPT ![key] = NoEntry], key, limit, call)

\* acquire: an entry with other settings is replaced once it has no active
\* call, and refuses until then.
acquire(entries, key, limit, call) ==
  LET e == entries[key]
  IN  CASE e # NoEntry /\ e.limit # limit /\ e.active > 0 ->
             [granted |-> FALSE, id |-> "none", entries |-> entries]
        [] e # NoEntry /\ e.limit = limit /\ e.active < limit ->
             [granted |-> TRUE, id |-> e.id, entries |-> [entries EXCEPT ![key].active = @ + 1]]
        [] e # NoEntry /\ e.limit = limit /\ e.active >= limit ->
             [granted |-> FALSE, id |-> "none", entries |-> entries]
        [] OTHER -> addEntry([entries EXCEPT ![key] = NoEntry], key, limit, call)

\* releaseFunc: only the entry the permit is of.
releaseFunc(entries, key, id) ==
  IF entries[key].id # id \/ entries[key].active = 0 THEN entries
  ELSE [entries EXCEPT ![key].active = @ - 1, ![key].age = 0]

-----------------------------------------------------------------------------
(* RateLimitMiddleware *)

NoLimiter == [tokens |-> 0, age |-> 0, kept |-> FALSE]
Bucket(tokens) == [tokens |-> tokens, age |-> 0, kept |-> TRUE]

\* Makes room if the table is full: limiters nobody used go.
dropIdleLimiters(limiters) ==
  IF Cardinality(Present(limiters, NoLimiter)) < MaxEntries THEN limiters
  ELSE [u \in Principal |-> IF limiters[u].age > TTL THEN NoLimiter ELSE limiters[u]]

\* Mutation of getLimiter: idle limiters go before the lookup, and one that
\* was used the idle time ago counts as idle.
getLimiterEager(limiters, u) ==
  LET room == [w \in Principal |-> IF limiters[w].age >= TTL THEN NoLimiter ELSE limiters[w]]
  IN  IF room[u].kept THEN [room EXCEPT ![u].age = 0] ELSE [room EXCEPT ![u] = Bucket(Burst)]

\* getLimiter: the principal's bucket, now used; a new full one if there is
\* room; and else one that admits nothing and is not kept.
getLimiter(limiters, u) ==
  LET room == dropIdleLimiters(limiters)
  IN  CASE limiters[u].kept -> [limiters EXCEPT ![u].age = 0]
        [] ~limiters[u].kept /\ Cardinality(Present(room, NoLimiter)) < MaxEntries ->
             [room EXCEPT ![u] = Bucket(Burst)]
        [] OTHER -> room

\* Handle: a token now, or the call is refused and takes none.
Handle(limiters, u) ==
  LET used == getLimiter(limiters, u)
  IN  [admitted |-> used[u].tokens > 0,
       limiters |-> IF used[u].tokens > 0 THEN [used EXCEPT ![u].tokens = @ - 1] ELSE used]

Refill(tokens) == IF tokens < Burst THEN tokens + 1 ELSE Burst

-----------------------------------------------------------------------------
(* One tick. *)

AgeEntries(entries) ==
  [k \in Keys |-> IF entries[k] = NoEntry THEN NoEntry
                  ELSE [entries[k] EXCEPT !.age = Older(@)]]
AgeLimiters(limiters) ==
  [u \in Principal |-> IF limiters[u] = NoLimiter THEN NoLimiter
                       ELSE [limiters[u] EXCEPT !.age = Older(@), !.tokens = Refill(@)]]
=============================================================================
