--------------------------- MODULE ResponseCache ----------------------------
(***************************************************************************)
(* The memory backend of the response cache and the keys its manager       *)
(* stores under.                                                           *)
(*                                                                         *)
(* The cache is a map of the stored entries and the list of their keys,    *)
(* the most recently used first.  Each operator is one critical section of *)
(* the backend's mutex.  An entry that expired stays until a get, a scan   *)
(* or the statistics meet it.                                              *)
(***************************************************************************)
EXTENDS Integers, Sequences

CONSTANT MaxCached   \* CACHE_MEMORY_MAX_ENTRIES

ASSUME CacheAssumption == MaxCached \in Nat

\* Mutation of roleScope: the role is not part of the key.
roleScopeAnonymous(role, shared) == IF shared THEN "shared" ELSE "anonymous"

roleScope(role, shared) ==
  IF shared THEN "shared" ELSE IF role = "none" THEN "anonymous" ELSE role

\* The key of a call: calls differ in tool and role, and send the same
\* arguments.  A tool of the model is one revision.
exactRevisionKey(tool, role) ==
  [name |-> tool.name, scope |-> roleScope(role, tool.shared)]

NoEntry == [value |-> 0, expires |-> 0, origin |-> "nobody", late |-> FALSE]

\* expires is 0 for an entry without a TTL.
Expired(e, now) == e.expires # 0 /\ now >= e.expires

Present(cache) == {k \in DOMAIN cache.items : cache.items[k] # NoEntry}

\* The list after the elements of some keys have been taken out.
Without(order, keys) ==
  LET kept[i \in 0 .. Len(order)] ==
        IF i = 0 THEN <<>>
        ELSE IF order[i] \in keys THEN kept[i - 1] ELSE Append(kept[i - 1], order[i])
  IN  kept[Len(order)]

remove(cache, keys) ==
  [items |-> [k \in DOMAIN cache.items |-> IF k \in keys THEN NoEntry ELSE cache.items[k]],
   order |-> Without(cache.order, keys)]

\* The key of an entry, old or new, in front.
PushFront(cache, key, e) ==
  [items |-> [cache.items EXCEPT ![key] = e],
   order |-> <<key>> \o Without(cache.order, {key})]

Hit(cache, key, now) ==
  cache.items[key] # NoEntry /\ ~Expired(cache.items[key], now)

Get(cache, key, now) ==
  IF Hit(cache, key, now) THEN PushFront(cache, key, cache.items[key]) ELSE remove(cache, {key})

\* Mutation of Set: nothing is evicted.
SetUnbounded(cache, key, e) == PushFront(cache, key, e)

\* A new key may make the map too large: the key at the back goes.
Set(cache, key, e) ==
  LET pushed == PushFront(cache, key, e)
  IN  IF Len(pushed.order) > MaxCached THEN remove(pushed, {pushed.order[Len(pushed.order)]}) ELSE pushed

Unexpired(cache, now) == remove(cache, {k \in Present(cache) : Expired(cache.items[k], now)})

\* Mutation of Matching: the pattern reaches only the shared entries.
MatchingShared(cache, name) == {k \in Present(cache) : k.name = name /\ k.scope = "shared"}

\* The keys of a scan for the pattern of a tool; Unexpired is what it leaves.
Matching(cache, name) == {k \in Present(cache) : k.name = name}

Delete(cache, keys) == remove(cache, keys)
FlushAll(cache)     == remove(cache, DOMAIN cache.items)
=============================================================================
