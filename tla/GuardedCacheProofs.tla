------------------------- MODULE GuardedCacheProofs -------------------------
(***************************************************************************)
(* What holds of authenticated calls and their cache for every set of      *)
(* tools, tokens, roles and calls, and every capacity.                     *)
(***************************************************************************)
EXTENDS GuardedCache, WellFoundedInduction, TLAPS

PCs == {"idle", "refused", "lookup", "execute", "failed", "store", "scan", "delete", "answered"}

CallStates ==
  [pc : PCs, tool : Tools \cup {NoTool}, role : Roles, held : SUBSET Role, dead : BOOLEAN,
   value : Nat, origin : Roles \cup {"nobody"}, late : BOOLEAN, todo : Seq(Names),
   keys : SUBSET Keys]

Stored == [value : Nat, expires : Nat, origin : Roles \cup {"nobody"}, late : BOOLEAN]

Rows == [stored : BOOLEAN, roles : SUBSET Role, scopes : SUBSET {"mcp", "logs"},
         expires : Nat, revoked : BOOLEAN]

\* What the arguments need of the types; the order of the cache's list is not
\* part of any of them.
Typed ==
  /\ config \in [enabled : BOOLEAN, valid : BOOLEAN, roles : SUBSET Role]
  /\ tokens \in [Token -> Rows]
  /\ now \in Nat /\ erp \in Nat
  /\ upTo \in [Names -> Nat]
  /\ cache.items \in [Keys -> Stored]
  /\ calls \in [Call -> CallStates]

\* The cache only loses entries.
Shrinks(c, d) ==
  /\ d.items \in [Keys -> Stored]
  /\ \A k \in Keys : d.items[k] = c.items[k] \/ d.items[k] = NoEntry

LEMMA NoEntryStored == NoEntry \in Stored
BY DEF NoEntry, Stored, Roles

LEMMA RemoveShrinks ==
  ASSUME NEW c, NEW keys, c.items \in [Keys -> Stored]
  PROVE  /\ Shrinks(c, remove(c, keys))
         /\ \A k \in Keys \cap keys : remove(c, keys).items[k] = NoEntry
BY NoEntryStored DEF Shrinks, remove

LEMMA GetShrinks ==
  ASSUME NEW c, NEW key \in Keys, NEW at, c.items \in [Keys -> Stored]
  PROVE  Shrinks(c, Get(c, key, at))
<1>1. Shrinks(c, remove(c, {key}))
  BY RemoveShrinks
<1>2. Shrinks(c, PushFront(c, key, c.items[key]))
  BY DEF Shrinks, PushFront
<1> QED BY <1>1, <1>2 DEF Get

\* Set adds the new entry under its key, and what else it does is to evict.
LEMMA SetAdds ==
  ASSUME NEW c, NEW key \in Keys, NEW e \in Stored, c.items \in [Keys -> Stored]
  PROVE  /\ Set(c, key, e).items \in [Keys -> Stored]
         /\ Set(c, key, e).items[key] \in {e, NoEntry}
         /\ \A k \in Keys \ {key} : Set(c, key, e).items[k] \in {c.items[k], NoEntry}
<1> DEFINE p == PushFront(c, key, e)
<1>1. /\ p.items \in [Keys -> Stored] /\ p.items[key] = e
      /\ \A k \in Keys \ {key} : p.items[k] = c.items[k]
  BY DEF PushFront
<1> HIDE DEF p
<1>2. PICK q : Set(c, key, e) = p \/ Set(c, key, e) = remove(p, q)
  BY DEF Set, p
<1>3. Shrinks(p, remove(p, q))
  BY <1>1, RemoveShrinks
<1> QED BY <1>1, <1>2, <1>3 DEF Shrinks

\* The key of a call of a tool.
LEMMA KeyOf ==
  ASSUME NEW tool \in Tools, NEW role \in Roles
  PROVE  /\ exactRevisionKey(tool, role) \in Keys
         /\ exactRevisionKey(tool, role).name = tool.name
         /\ ~tool.shared /\ role # "none" => exactRevisionKey(tool, role).scope = role
<1>1. tool.name \in Names
  BY DEF Names
<1>2. roleScope(role, tool.shared) \in Scopes
  BY DEF roleScope, Scopes, Roles
<1> QED BY <1>1, <1>2 DEF exactRevisionKey, Keys, roleScope

-----------------------------------------------------------------------------
(* What the list operations return *)

\* A set of numbers has a least one.
LEMMA LeastNumber ==
  ASSUME NEW T, T \subseteq Nat, T # {}
  PROVE  \E x \in T : \A y \in T : x <= y
<1> DEFINE R == OpToRel(<, Nat)
<1>1. IsWellFoundedOn(R, Nat)
  BY NatLessThanWellFounded
<1>2. \A x \in Nat, y \in Nat : y < x => <<y, x>> \in R
  BY DEF OpToRel
<1> HIDE DEF R
<1>3. PICK x \in T : \A y \in T : ~(<<y, x>> \in R)
  BY <1>1, WFMin
<1>4. \A y \in T : ~(y < x)
  BY <1>2, <1>3, Zenon
<1> QED BY <1>4

\* The prefixes of a list without some keys.
Kept(f, s, keys, n) ==
  f = [i \in 0 .. n |-> IF i = 0 THEN <<>>
                        ELSE IF s[i] \in keys THEN f[i - 1] ELSE Append(f[i - 1], s[i])]

\* The recursion of Without has a solution: there is no least length of a
\* prefix for which it has none.
LEMMA KeptExists ==
  ASSUME NEW s, NEW keys, NEW n \in Nat
  PROVE  \E f : Kept(f, s, keys, n)
<1> DEFINE T == {m \in Nat : ~\E f : Kept(f, s, keys, m)}
<1> SUFFICES ASSUME T # {} PROVE FALSE
  OBVIOUS
<1>1. PICK m \in T : \A k \in T : m <= k
  <2> HIDE DEF T
  <2>1. T \subseteq Nat
    BY DEF T
  <2> QED BY <2>1, LeastNumber
<1>2. CASE m = 0
  <2> DEFINE f == [i \in 0 .. 0 |-> <<>>]
  <2>1. Kept(f, s, keys, 0)
    BY DEF Kept
  <2> QED BY <1>2, <2>1
<1>3. CASE m # 0
  <2>1. m - 1 \in Nat /\ m - 1 \notin T /\ m \in Nat
    BY <1>1, <1>3
  <2>2. PICK g : Kept(g, s, keys, m - 1)
    BY <2>1
  <2> DEFINE f == [i \in 0 .. m |-> IF i < m THEN g[i]
                                    ELSE IF s[m] \in keys THEN g[m - 1] ELSE Append(g[m - 1], s[m])]
  <2>3. ASSUME NEW i \in 0 .. m
        PROVE  f[i] = IF i = 0 THEN <<>>
                      ELSE IF s[i] \in keys THEN f[i - 1] ELSE Append(f[i - 1], s[i])
    <3>1. CASE i = 0
      BY <1>3, <2>1, <2>2, <3>1 DEF Kept
    <3>2. CASE i \in 1 .. m - 1
      <4>1. /\ f[i] = g[i] /\ f[i - 1] = g[i - 1]
        BY <2>1, <3>2
      <4>2. g[i] = IF s[i] \in keys THEN g[i - 1] ELSE Append(g[i - 1], s[i])
        <5> HIDE DEF f
        <5>1. i \in 0 .. m - 1 /\ i # 0
          BY <2>1, <3>2
        <5> QED BY <2>2, <5>1 DEF Kept
      <4> QED BY <3>2, <4>1, <4>2
    <3>3. CASE i = m
      <4>1. f[i - 1] = g[m - 1]
        BY <1>3, <2>1, <3>3
      <4> QED BY <1>3, <3>3, <4>1
    <3> QED BY <2>1, <3>1, <3>2, <3>3
  <2>4. Kept(f, s, keys, m)
    BY <2>3 DEF Kept
  <2> QED BY <1>1, <2>4
<1> QED BY <1>2, <1>3

\* Without is the last value of that solution.
LEMMA WithoutKept ==
  ASSUME NEW s, NEW keys, Len(s) \in Nat
  PROVE  \E f : Kept(f, s, keys, Len(s)) /\ Without(s, keys) = f[Len(s)]
<1> DEFINE f == CHOOSE f : Kept(f, s, keys, Len(s))
<1>1. Kept(f, s, keys, Len(s))
  BY KeptExists
<1>2. Without(s, keys) = f[Len(s)]
  BY DEF Without, Kept
<1> QED BY <1>1, <1>2

\* w has what the first n of s have but the keys, once each if s does.
Rest(w, s, keys, n) ==
  /\ Len(w) <= n
  /\ \A i \in 1 .. Len(w) : \E j \in 1 .. n : w[i] = s[j] /\ s[j] \notin keys
  /\ \A j \in 1 .. n : s[j] \notin keys => \E i \in 1 .. Len(w) : w[i] = s[j]
  /\ (\E j \in 1 .. n : s[j] \in keys) => Len(w) < n
  /\ (\A i, j \in 1 .. n : s[i] = s[j] => i = j) =>
       \A i, j \in 1 .. Len(w) : w[i] = w[j] => i = j

\* One more element of the list: it is skipped or appended.
LEMMA RestStep ==
  ASSUME NEW S, NEW s \in Seq(S), NEW keys, NEW n \in 1 .. Len(s), NEW v \in Seq(S),
         Rest(v, s, keys, n - 1), NEW w,
         w = IF s[n] \in keys THEN v ELSE Append(v, s[n])
  PROVE  w \in Seq(S) /\ Rest(w, s, keys, n)
<1>1. n \in Nat /\ n - 1 \in Nat /\ s[n] \in S /\ Len(v) \in Nat
  OBVIOUS
<1>2. CASE s[n] \in keys
  <2>1. w = v /\ Len(w) < n
    BY <1>1, <1>2 DEF Rest
  <2>2. \A i \in 1 .. Len(w) : \E j \in 1 .. n : w[i] = s[j] /\ s[j] \notin keys
    BY <1>1, <2>1 DEF Rest
  <2>3. \A j \in 1 .. n : s[j] \notin keys => \E i \in 1 .. Len(w) : w[i] = s[j]
    BY <1>1, <1>2, <2>1 DEF Rest
  <2>4. (\A i, j \in 1 .. n : s[i] = s[j] => i = j) =>
          \A i, j \in 1 .. Len(w) : w[i] = w[j] => i = j
    BY <1>1, <2>1 DEF Rest
  <2> QED BY <1>1, <2>1, <2>2, <2>3, <2>4 DEF Rest
<1>3. CASE s[n] \notin keys
  <2>1. /\ w \in Seq(S) /\ Len(w) = Len(v) + 1 /\ w[Len(w)] = s[n]
        /\ \A i \in 1 .. Len(v) : w[i] = v[i]
    BY <1>1, <1>3
  <2>2. Len(w) <= n
    BY <1>1, <2>1 DEF Rest
  <2>3. \A i \in 1 .. Len(w) : \E j \in 1 .. n : w[i] = s[j] /\ s[j] \notin keys
    <3> SUFFICES ASSUME NEW i \in 1 .. Len(w)
                 PROVE  \E j \in 1 .. n : w[i] = s[j] /\ s[j] \notin keys
      OBVIOUS
    <3>1. CASE i = Len(w)
      BY <1>1, <1>3, <2>1, <3>1
    <3>2. CASE i # Len(w)
      <4>1. i \in 1 .. Len(v)
        BY <1>1, <2>1, <3>2
      <4>2. PICK j \in 1 .. n - 1 : v[i] = s[j] /\ s[j] \notin keys
        BY <4>1 DEF Rest
      <4> QED BY <1>1, <2>1, <4>1, <4>2
    <3> QED BY <3>1, <3>2
  <2>4. \A j \in 1 .. n : s[j] \notin keys => \E i \in 1 .. Len(w) : w[i] = s[j]
    <3> SUFFICES ASSUME NEW j \in 1 .. n, s[j] \notin keys
                 PROVE  \E i \in 1 .. Len(w) : w[i] = s[j]
      OBVIOUS
    <3>1. CASE j = n
      BY <1>1, <2>1, <3>1
    <3>2. CASE j # n
      <4>1. PICK i \in 1 .. Len(v) : v[i] = s[j]
        BY <1>1, <3>2 DEF Rest
      <4>2. i \in 1 .. Len(w) /\ w[i] = s[j]
        BY <1>1, <2>1, <4>1
      <4> QED BY <4>2
    <3> QED BY <3>1, <3>2
  <2>5. (\E j \in 1 .. n : s[j] \in keys) => Len(w) < n
    <3> SUFFICES ASSUME NEW j \in 1 .. n, s[j] \in keys PROVE Len(w) < n
      OBVIOUS
    <3>1. j \in 1 .. n - 1
      BY <1>1, <1>3
    <3>2. Len(v) < n - 1
      BY <3>1 DEF Rest
    <3> QED BY <1>1, <2>1, <3>2
  <2>6. ASSUME \A i, j \in 1 .. n : s[i] = s[j] => i = j
        PROVE  \A i, j \in 1 .. Len(w) : w[i] = w[j] => i = j
    <3>0. \A i \in 1 .. n - 1 : i \in 1 .. n /\ i # n /\ n \in 1 .. n
      BY <1>1
    <3>1. \A i, j \in 1 .. Len(v) : v[i] = v[j] => i = j
      <4>1. \A i, j \in 1 .. n - 1 : s[i] = s[j] => i = j
        BY <2>6, <3>0, Zenon
      <4> QED BY <4>1, Zenon DEF Rest
    <3>2. \A i \in 1 .. Len(v) : v[i] # s[n]
      <4> SUFFICES ASSUME NEW i \in 1 .. Len(v), v[i] = s[n] PROVE FALSE
        OBVIOUS
      <4>1. PICK j \in 1 .. n - 1 : v[i] = s[j]
        BY DEF Rest
      <4> QED BY <2>6, <3>0, <4>1, Zenon
    <3>3. \A i \in 1 .. Len(w) : i = Len(w) \/ i \in 1 .. Len(v)
      BY <1>1, <2>1
    <3> QED BY <2>1, <3>1, <3>2, <3>3
  <2> QED BY <2>1, <2>2, <2>3, <2>4, <2>5, <2>6 DEF Rest
<1> QED BY <1>2, <1>3

\* What Without leaves of a list.
LEMMA WithoutRest ==
  ASSUME NEW S, NEW s \in Seq(S), NEW keys
  PROVE  Without(s, keys) \in Seq(S) /\ Rest(Without(s, keys), s, keys, Len(s))
<1>1. Len(s) \in Nat
  OBVIOUS
<1>2. PICK f : Kept(f, s, keys, Len(s)) /\ Without(s, keys) = f[Len(s)]
  BY <1>1, WithoutKept
<1> DEFINE T == {m \in 0 .. Len(s) : ~(f[m] \in Seq(S) /\ Rest(f[m], s, keys, m))}
<1>3. ASSUME T # {} PROVE FALSE
  <2>1. PICK m \in T : \A k \in T : m <= k
    <3>1. T \subseteq Nat
      BY <1>1
    <3> HIDE DEF T
    <3> QED BY <1>3, <3>1, LeastNumber
  <2>2. CASE m = 0
    <3>1. f[m] = <<>>
      BY <1>1, <1>2, <2>2 DEF Kept
    <3>2. <<>> \in Seq(S) /\ Rest(<<>>, s, keys, 0)
      BY DEF Rest
    <3> QED BY <2>1, <2>2, <3>1, <3>2
  <2>3. CASE m # 0
    <3>1. m \in 1 .. Len(s) /\ m - 1 \in 0 .. Len(s) /\ m - 1 \notin T
      BY <1>1, <2>1, <2>3
    <3>2. f[m - 1] \in Seq(S) /\ Rest(f[m - 1], s, keys, m - 1)
      BY <3>1
    <3>3. f[m] = IF s[m] \in keys THEN f[m - 1] ELSE Append(f[m - 1], s[m])
      <4>1. m \in 0 .. Len(s) /\ m # 0
        BY <3>1
      <4> HIDE DEF T
      <4> QED BY <1>2, <4>1 DEF Kept
    <3>4. f[m] \in Seq(S) /\ Rest(f[m], s, keys, m)
      BY <3>1, <3>2, <3>3, RestStep
    <3> QED BY <2>1, <3>4
  <2> QED BY <2>2, <2>3
<1>4. Len(s) \in 0 .. Len(s) /\ Len(s) \notin T
  BY <1>1, <1>3
<1> QED BY <1>2, <1>4

-----------------------------------------------------------------------------
(* The list of the cache has the keys of its map, each once *)

Lists(c) ==
  /\ c.order \in Seq(Keys)
  /\ {c.order[i] : i \in DOMAIN c.order} = Present(c)
  /\ \A i, j \in DOMAIN c.order : c.order[i] = c.order[j] => i = j

\* What the list of a coherent cache holds, key by key.
LEMMA Listed ==
  ASSUME NEW c, Lists(c)
  PROVE  /\ DOMAIN c.order = 1 .. Len(c.order)
         /\ \A k : (\E j \in 1 .. Len(c.order) : c.order[j] = k) <=> k \in Present(c)
<1>1. DOMAIN c.order = 1 .. Len(c.order)
  BY DEF Lists
<1> QED BY <1>1, Zenon DEF Lists

\* Removing keys takes them from the map and from the list, and the list gets
\* no longer.
LEMMA RemoveLists ==
  ASSUME NEW c, NEW keys, c.items \in [Keys -> Stored], Lists(c),
         NEW d, d = remove(c, keys)
  PROVE  /\ Lists(d) /\ Len(d.order) <= Len(c.order)
         /\ Present(d) = Present(c) \ keys
         /\ keys \cap Present(c) # {} => Len(d.order) < Len(c.order)
<1>1. /\ d.order = Without(c.order, keys)
      /\ d.items = [k \in Keys |-> IF k \in keys THEN NoEntry ELSE c.items[k]]
  BY DEF remove
<1>2. Present(d) = Present(c) \ keys
  BY <1>1 DEF Present
<1>3. d.order \in Seq(Keys) /\ Rest(d.order, c.order, keys, Len(c.order))
  BY <1>1, WithoutRest DEF Lists
<1>4. /\ c.order \in Seq(Keys) /\ DOMAIN c.order = 1 .. Len(c.order)
      /\ DOMAIN d.order = 1 .. Len(d.order)
  BY <1>3 DEF Lists
<1>5. \A k : (\E j \in 1 .. Len(c.order) : c.order[j] = k) <=> k \in Present(c)
  BY Listed
<1>6. ASSUME NEW k PROVE (\E i \in 1 .. Len(d.order) : d.order[i] = k) <=> k \in Present(d)
  <2>1. ASSUME NEW i \in 1 .. Len(d.order), d.order[i] = k PROVE k \in Present(d)
    <3>1. PICK j \in 1 .. Len(c.order) : d.order[i] = c.order[j] /\ c.order[j] \notin keys
      BY <1>3 DEF Rest
    <3> QED BY <1>2, <1>5, <2>1, <3>1
  <2>2. ASSUME k \in Present(d) PROVE \E i \in 1 .. Len(d.order) : d.order[i] = k
    <3>1. k \notin keys /\ k \in Present(c)
      BY <1>2, <2>2
    <3>2. PICK j \in 1 .. Len(c.order) : c.order[j] = k
      BY <1>5, <3>1
    <3> QED BY <1>3, <3>1, <3>2 DEF Rest
  <2> QED BY <2>1, <2>2
<1>7. \A i, j \in DOMAIN d.order : d.order[i] = d.order[j] => i = j
  BY <1>3, <1>4, Zenon DEF Rest, Lists
<1>8. {d.order[i] : i \in DOMAIN d.order} = Present(d)
  BY <1>4, <1>6, Zenon
<1>9. ASSUME NEW k \in keys \cap Present(c) PROVE Len(d.order) < Len(c.order)
  <2>1. PICK j \in 1 .. Len(c.order) : c.order[j] = k
    BY <1>5
  <2>2. \E i \in 1 .. Len(c.order) : c.order[i] \in keys
    BY <2>1
  <2> QED BY <1>3, <2>2 DEF Rest
<1>10. Len(d.order) <= Len(c.order)
  BY <1>3 DEF Rest
<1> QED BY <1>2, <1>3, <1>7, <1>8, <1>9, <1>10 DEF Lists

\* Putting a key in front lists it once, wherever it was before.
LEMMA PushLists ==
  ASSUME NEW c, NEW key \in Keys, NEW e \in Stored, e # NoEntry,
         c.items \in [Keys -> Stored], Lists(c), NEW d, d = PushFront(c, key, e)
  PROVE  /\ Lists(d) /\ d.items \in [Keys -> Stored]
         /\ Len(d.order) \in 1 .. Len(c.order) + 1
         /\ key \in Present(c) => Len(d.order) <= Len(c.order)
<1> DEFINE w == Without(c.order, {key})
<1>1. /\ d.order = <<key>> \o w
      /\ d.items = [c.items EXCEPT ![key] = e]
  BY DEF PushFront
<1>2. Present(d) = Present(c) \cup {key}
  BY <1>1 DEF Present
<1>3. w \in Seq(Keys) /\ Rest(w, c.order, {key}, Len(c.order)) /\ c.order \in Seq(Keys)
  BY WithoutRest DEF Lists
<1> HIDE DEF w
<1>4. /\ DOMAIN c.order = 1 .. Len(c.order) /\ Len(c.order) \in Nat /\ Len(w) \in Nat
      /\ d.order \in Seq(Keys) /\ Len(d.order) = Len(w) + 1
      /\ DOMAIN d.order = 1 .. Len(w) + 1
      /\ d.order[1] = key /\ \A i \in 1 .. Len(w) : d.order[i + 1] = w[i]
  BY <1>1, <1>3
<1>5. \A i \in DOMAIN d.order : i = 1 \/ (i - 1 \in 1 .. Len(w) /\ d.order[i] = w[i - 1])
  <2> SUFFICES ASSUME NEW i \in DOMAIN d.order, i # 1
               PROVE  i - 1 \in 1 .. Len(w) /\ d.order[i] = w[i - 1]
    OBVIOUS
  <2>1. i - 1 \in 1 .. Len(w) /\ (i - 1) + 1 = i
    BY <1>4
  <2> QED BY <1>4, <2>1
<1>6. \A k : (\E j \in 1 .. Len(c.order) : c.order[j] = k) <=> k \in Present(c)
  BY Listed
<1>7. \A i \in 1 .. Len(w) : w[i] # key /\ w[i] \in Present(c)
  BY <1>3, <1>6 DEF Rest
<1>8. ASSUME NEW k \in Present(c), k # key PROVE \E i \in 1 .. Len(w) : w[i] = k
  <2>1. PICK j \in 1 .. Len(c.order) : c.order[j] = k
    BY <1>6
  <2> QED BY <1>3, <1>8, <2>1 DEF Rest
<1>9. \A i, j \in 1 .. Len(w) : w[i] = w[j] => i = j
  BY <1>3, <1>4, Zenon DEF Rest, Lists
<1>10. {d.order[i] : i \in DOMAIN d.order} = Present(d)
  <2>1. \A i \in DOMAIN d.order : d.order[i] \in Present(d)
    BY <1>2, <1>4, <1>5, <1>7
  <2>2. ASSUME NEW k \in Present(d) PROVE \E i \in DOMAIN d.order : d.order[i] = k
    <3>1. CASE k = key
      <4>1. 1 \in DOMAIN d.order
        BY <1>4
      <4> QED BY <1>4, <3>1, <4>1
    <3>2. CASE k # key
      <4>1. PICK i \in 1 .. Len(w) : w[i] = k
        BY <1>2, <1>8, <3>2
      <4>2. i + 1 \in DOMAIN d.order
        BY <1>4
      <4> QED BY <1>4, <4>1, <4>2
    <3> QED BY <3>1, <3>2
  <2> QED BY <2>1, <2>2, Zenon
<1>11. ASSUME NEW i \in DOMAIN d.order, NEW j \in DOMAIN d.order, d.order[i] = d.order[j]
       PROVE  i = j
  <2>1. CASE i = 1 \/ j = 1
    BY <1>4, <1>5, <1>7, <1>11, <2>1
  <2>2. CASE i # 1 /\ j # 1
    <3>1. /\ i - 1 \in 1 .. Len(w) /\ j - 1 \in 1 .. Len(w) /\ w[i - 1] = w[j - 1]
      BY <1>5, <1>11, <2>2
    <3>2. i - 1 = j - 1
      BY <1>9, <3>1
    <3> QED BY <1>4, <3>2
  <2> QED BY <2>1, <2>2
<1>12. Len(w) <= Len(c.order) /\ (key \in Present(c) => Len(w) < Len(c.order))
  BY <1>3, <1>6 DEF Rest
<1>13. d.items \in [Keys -> Stored]
  BY <1>1
<1>14. Lists(d)
  BY <1>4, <1>10, <1>11 DEF Lists
<1> QED BY <1>4, <1>12, <1>13, <1>14

\* Within the capacity.
Bounded(c) == Lists(c) /\ Len(c.order) <= MaxCached

\* Removal, a lookup with its expiry, and a store with its evictions keep the
\* cache coherent and within its capacity.
LEMMA RemoveBounded ==
  ASSUME NEW c, NEW keys, c.items \in [Keys -> Stored], Bounded(c)
  PROVE  Bounded(remove(c, keys))
<1> DEFINE d == remove(c, keys)
<1>1. Lists(d) /\ Len(d.order) <= Len(c.order)
  BY RemoveLists DEF Bounded
<1>2. Len(d.order) \in Nat /\ Len(c.order) \in Nat
  BY <1>1 DEF Bounded, Lists
<1> QED BY <1>1, <1>2, CacheAssumption DEF Bounded

LEMMA GetBounded ==
  ASSUME NEW c, NEW key \in Keys, NEW at, c.items \in [Keys -> Stored], Bounded(c)
  PROVE  Bounded(Get(c, key, at))
<1>1. CASE ~Hit(c, key, at)
  BY <1>1, RemoveBounded DEF Get
<1>2. CASE Hit(c, key, at)
  <2> DEFINE d == PushFront(c, key, c.items[key])
  <2>1. key \in Present(c) /\ c.items[key] \in Stored /\ c.items[key] # NoEntry
    BY <1>2 DEF Hit, Present
  <2>2. Lists(d) /\ Len(d.order) <= Len(c.order)
    BY <2>1, PushLists DEF Bounded
  <2>3. Len(d.order) \in Nat /\ Len(c.order) \in Nat
    BY <2>2 DEF Bounded, Lists
  <2>4. Bounded(d)
    BY <2>2, <2>3, CacheAssumption DEF Bounded
  <2> QED BY <1>2, <2>4 DEF Get
<1> QED BY <1>1, <1>2

\* An entry too many is one key at the back of the list.
LEMMA SetBounded ==
  ASSUME NEW c, NEW key \in Keys, NEW e \in Stored, e # NoEntry,
         c.items \in [Keys -> Stored], Bounded(c)
  PROVE  Bounded(Set(c, key, e))
<1> DEFINE p == PushFront(c, key, e)
           back == {p.order[Len(p.order)]}
<1>1. /\ Lists(p) /\ p.items \in [Keys -> Stored]
      /\ Len(p.order) \in 1 .. Len(c.order) + 1
  BY PushLists DEF Bounded
<1>2. Set(c, key, e) = IF Len(p.order) > MaxCached THEN remove(p, back) ELSE p
  BY DEF Set
<1>3. Len(c.order) \in Nat /\ Len(c.order) <= MaxCached
  BY DEF Bounded, Lists
<1> HIDE DEF p
<1>4. back \cap Present(p) # {}
  <2>1. Len(p.order) \in DOMAIN p.order
    BY <1>1, <1>3 DEF Lists
  <2>2. p.order[Len(p.order)] \in Present(p)
    BY <1>1, <2>1, Zenon DEF Lists
  <2> QED BY <2>2
<1>5. Lists(remove(p, back)) /\ Len(remove(p, back).order) < Len(p.order)
  BY <1>1, <1>4, RemoveLists
<1>6. Len(remove(p, back).order) \in Nat
  BY <1>5 DEF Lists
<1> HIDE DEF back
<1>7. CASE Len(p.order) > MaxCached
  BY <1>1, <1>2, <1>3, <1>5, <1>6, <1>7, CacheAssumption DEF Bounded
<1>8. CASE ~(Len(p.order) > MaxCached)
  BY <1>1, <1>2, <1>3, <1>8, CacheAssumption DEF Bounded
<1> QED BY <1>7, <1>8

-----------------------------------------------------------------------------
(* Authentication *)

\* Who gets an identity did not present a dead token, and a role that is
\* granted is one of the tool's and of the identity's.
LEMMA Admitted ==
  ASSUME Typed, NEW presented \in Credentials, NEW scope, NEW adminOnly \in BOOLEAN,
         NEW identity,
         identity = authenticateHTTP(config, tokens, now, presented, scope, adminOnly),
         identity.status = "ok"
  PROVE  /\ ~Dead(presented)
         /\ identity.roles \in SUBSET Role
         /\ identity.known \in BOOLEAN
<1>1. CASE ~config.enabled
  BY <1>1 DEF authenticateHTTP, Dead, Anonymous
<1>2. CASE config.enabled /\ (~config.valid \/ presented = "none")
  BY <1>2 DEF authenticateHTTP, Rejected
<1>3. CASE config.enabled /\ config.valid /\ presented = "admin"
  BY <1>3, SessionAssumption DEF authenticateHTTP, Identity, Dead, Typed
<1>4. CASE config.enabled /\ config.valid /\ presented \notin {"none", "admin"}
  <2>1. presented \in Token
    BY <1>4 DEF Credentials
  <2>2. identity = IF LookupToken(tokens, presented, now) /\ ~adminOnly
                      /\ scope \in tokens[presented].scopes
                   THEN Identity(tokens[presented].roles) ELSE Rejected
    BY <1>4 DEF authenticateHTTP
  <2>3. /\ LookupToken(tokens, presented, now)
        /\ identity = Identity(tokens[presented].roles)
    BY <2>2 DEF Rejected
  <2>4. ~Dead(presented)
    BY <2>1, <2>3 DEF LookupToken, Dead, Rows, Typed
  <2> QED BY <2>1, <2>3, <2>4 DEF Identity, Rows, Typed
<1> QED BY <1>1, <1>2, <1>3, <1>4 DEF Typed

-----------------------------------------------------------------------------
(* The invariant *)

Results == {"store", "scan", "delete"}
Active  == {"lookup", "execute", "answered"} \cup Results

\* A call on its way: what it was admitted with, whose result it holds, the
\* data it shows when the ERP has seen e writes, and the flushes it has to do.
CallOK(call, e) ==
  /\ ~call.dead
  /\ call.pc \in Active /\ call.tool.allowed # {} =>
       call.role \in call.tool.allowed \cap call.held
  /\ call.pc \in Results /\ call.tool # NoTool => call.origin = call.role
  /\ call.pc = "answered" /\ call.tool.allowed # {} /\ ~call.tool.shared =>
       call.origin = call.role
  /\ call.pc \in Results => call.value <= e
  /\ call.pc \in {"lookup", "execute", "store"} => call.tool \in Tools
  /\ call.pc \in {"scan", "delete"} => call.todo # <<>>

\* The entries of a guarded tool whose cache is not shared were fetched for
\* the role they are kept under.
OriginsOK(items) ==
  \A t \in Tools, k \in Keys :
    /\ k.name = t.name /\ ~t.shared /\ t.allowed # {}
    /\ items[k] # NoEntry
    => items[k].origin = k.scope

AuthInv == Typed /\ (\A c \in Call : CallOK(calls[c], erp)) /\ OriginsOK(cache.items)

-----------------------------------------------------------------------------
(* Steps that change one call *)

LEMMA IdleOK == Idle \in CallStates /\ CallOK(Idle, 0)
BY DEF Idle, CallStates, PCs, Roles, CallOK, NoTool, Active, Results

\* The other calls keep their state, and the ERP only moves on.
LEMMA OneCall ==
  ASSUME AuthInv, NEW c \in Call, NEW r \in CallStates, CallOK(r, erp'),
         erp' \in Nat, erp <= erp', calls' = [calls EXCEPT ![c] = r]
  PROVE  calls' \in [Call -> CallStates] /\ \A d \in Call : CallOK(calls'[d], erp')
<1>1. calls' \in [Call -> CallStates]
  BY DEF AuthInv, Typed
<1>2. ASSUME NEW d \in Call PROVE CallOK(calls'[d], erp')
  <2>1. CASE d = c
    BY <2>1 DEF AuthInv, Typed
  <2>2. CASE d # c
    <3>1. calls'[d] = calls[d] /\ calls[d].value \in Nat
      BY <2>2 DEF AuthInv, Typed, CallStates
    <3> QED BY <3>1 DEF AuthInv, CallOK, Typed
  <2> QED BY <2>1, <2>2
<1> QED BY <1>1, <1>2

LEMMA ShrinkOrigins ==
  ASSUME NEW c, NEW d, OriginsOK(c.items), Shrinks(c, d)
  PROVE  OriginsOK(d.items)
BY DEF OriginsOK, Shrinks

\* Where an arrival takes a call.
Entered == {r \in CallStates : /\ r.pc \in {"refused", "lookup", "execute", "scan"}
                               /\ r.value <= erp /\ r.origin = "none"}

\* A call that is let in.
LEMMA EnterOK ==
  ASSUME AuthInv, NEW c \in Call, NEW tool \in Tools, NEW presented \in Credentials,
         NEW selector \in Selectors, NEW scope, NEW adminOnly \in BOOLEAN, NEW identity,
         identity = authenticateHTTP(config, tokens, now, presented, scope, adminOnly),
         identity.status = "ok", RoleAuthzMiddleware(identity, tool.allowed, selector),
         Enter(c, tool, selector, identity, presented)
  PROVE  \E r \in Entered : CallOK(r, erp) /\ calls' = [calls EXCEPT ![c] = r]
<1> DEFINE r == [Idle EXCEPT !.pc = IF Cached(tool) THEN "lookup" ELSE "execute", !.tool = tool,
                             !.role = IF tool.allowed = {} THEN "none" ELSE selector,
                             !.held = identity.roles, !.dead = Dead(presented)]
<1>1. ~Dead(presented) /\ identity.roles \in SUBSET Role
  BY Admitted DEF AuthInv
<1>2. tool.allowed # {} => selector \in Role /\ selector \in tool.allowed \cap identity.roles
  BY DEF RoleAuthzMiddleware, authorizeRole
<1>3. (IF tool.allowed = {} THEN "none" ELSE selector) \in Roles
  BY <1>2 DEF Roles
<1>4. Dead(presented) \in BOOLEAN
  BY DEF Dead
<1>5. r \in CallStates
  BY <1>1, <1>3, <1>4, IdleOK DEF CallStates, PCs, Idle
<1>6. CallOK(r, erp)
  BY <1>1, <1>2 DEF CallOK, Idle, Active, Results
<1>7. r \in Entered
  <2>1. /\ r.pc \in {"refused", "lookup", "execute", "scan"} /\ r.origin = "none"
        /\ r.value = 0 /\ 0 <= erp
    BY DEF Idle, AuthInv, Typed
  <2> HIDE DEF r
  <2> QED BY <1>5, <2>1 DEF Entered
<1> QED BY <1>6, <1>7 DEF Enter

\* Refused calls and flushes by hand.
LEMMA ArriveOK ==
  ASSUME AuthInv, NEW c \in Call, Arrive(c)
  PROVE  /\ \E r \in Entered : CallOK(r, erp) /\ calls' = [calls EXCEPT ![c] = r]
         /\ UNCHANGED <<config, tokens, now, cache, erp, upTo>>
<1>1. PICK presented \in Credentials :
        \/ \E tool \in Tools, selector \in Selectors :
             CallTool(c, tool, presented, selector) \/ handleDirectInvoke(c, tool, presented, selector)
        \/ \E names \in FlushRequests : handleCacheFlush(c, presented, names)
  BY DEF Arrive
<1>2. ASSUME calls' = Refuse(c)
      PROVE  \E r \in Entered : CallOK(r, erp) /\ calls' = [calls EXCEPT ![c] = r]
  <2>1. [Idle EXCEPT !.pc = "refused"] \in Entered
    <3> DEFINE r == [Idle EXCEPT !.pc = "refused"]
    <3>1. r \in CallStates
      BY IdleOK DEF CallStates, PCs
    <3>2. r.pc = "refused" /\ r.origin = "none" /\ r.value = 0 /\ 0 <= erp
      BY DEF Idle, AuthInv, Typed
    <3> HIDE DEF r
    <3>3. r \in Entered
      BY <3>1, <3>2 DEF Entered
    <3> QED BY <3>3 DEF r
  <2>2. CallOK([Idle EXCEPT !.pc = "refused"], erp)
    BY DEF CallOK, Idle, Active, Results, NoTool
  <2> QED BY <1>2, <2>1, <2>2 DEF Refuse
<1>3. ASSUME NEW tool \in Tools, NEW selector \in Selectors, CallTool(c, tool, presented, selector)
      PROVE  \E r \in Entered : CallOK(r, erp) /\ calls' = [calls EXCEPT ![c] = r]
  <2> DEFINE identity == authenticateHTTP(config, tokens, now, presented, "mcp", FALSE)
  <2>1. CASE identity.status = "ok" /\ RoleAuthzMiddleware(identity, tool.allowed, selector)
    <3>1. Enter(c, tool, selector, identity, presented)
      BY <1>3, <2>1 DEF CallTool
    <3> HIDE DEF identity
    <3> QED BY <2>1, <3>1, EnterOK DEF identity
  <2>2. CASE ~(identity.status = "ok" /\ RoleAuthzMiddleware(identity, tool.allowed, selector))
    BY <1>2, <1>3, <2>2 DEF CallTool
  <2> QED BY <2>1, <2>2
<1>4. ASSUME NEW tool \in Tools, NEW selector \in Selectors,
             handleDirectInvoke(c, tool, presented, selector)
      PROVE  \E r \in Entered : CallOK(r, erp) /\ calls' = [calls EXCEPT ![c] = r]
  <2> DEFINE identity == authenticateHTTP(config, tokens, now, presented, "none", TRUE)
  <2>1. CASE /\ identity.status = "ok"
             /\ authorizeDirectInvoke(identity, tool.allowed, selector)
             /\ RoleAuthzMiddleware(identity, tool.allowed, selector)
    <3>1. Enter(c, tool, selector, identity, presented)
      BY <1>4, <2>1 DEF handleDirectInvoke
    <3> HIDE DEF identity
    <3> QED BY <2>1, <3>1, EnterOK DEF identity
  <2>2. CASE ~(/\ identity.status = "ok"
               /\ authorizeDirectInvoke(identity, tool.allowed, selector)
               /\ RoleAuthzMiddleware(identity, tool.allowed, selector))
    BY <1>2, <1>4, <2>2 DEF handleDirectInvoke
  <2> QED BY <2>1, <2>2
<1>5. ASSUME NEW names \in FlushRequests, handleCacheFlush(c, presented, names)
      PROVE  \E r \in Entered : CallOK(r, erp) /\ calls' = [calls EXCEPT ![c] = r]
  <2> DEFINE r == [Idle EXCEPT !.pc = "scan", !.todo = names, !.value = erp]
  <2>1. names \in Seq(Names) /\ names # <<>> /\ erp \in Nat
    BY SessionAssumption DEF AuthInv, Typed
  <2>2. r \in Entered
    <3>1. r \in CallStates
      BY <2>1, IdleOK DEF CallStates, PCs
    <3>2. r.pc = "scan" /\ r.origin = "none" /\ r.value = erp /\ erp <= erp
      BY <2>1 DEF Idle
    <3> HIDE DEF r
    <3> QED BY <3>1, <3>2 DEF Entered
  <2>3. CallOK(r, erp)
    BY <2>1 DEF CallOK, Idle, Active, Results, NoTool
  <2> HIDE DEF r
  <2>4. calls' = [calls EXCEPT ![c] = r] \/ calls' = Refuse(c)
    BY <1>5 DEF handleCacheFlush, r
  <2> QED BY <1>2, <2>2, <2>3, <2>4
<1>6. UNCHANGED <<config, tokens, now, cache, erp, upTo>>
  BY <1>1 DEF CallTool, handleDirectInvoke, handleCacheFlush
<1> QED BY <1>1, <1>3, <1>4, <1>5, <1>6

LEMMA ArrivePreserves ==
  ASSUME AuthInv, NEW c \in Call, Arrive(c)
  PROVE  AuthInv'
<1>1. PICK r \in CallStates : CallOK(r, erp) /\ calls' = [calls EXCEPT ![c] = r]
  BY ArriveOK DEF Entered
<1>2. UNCHANGED <<config, tokens, now, cache, erp, upTo>>
  BY ArriveOK
<1>3. calls' \in [Call -> CallStates] /\ \A d \in Call : CallOK(calls'[d], erp')
  BY <1>1, <1>2, OneCall DEF AuthInv, Typed
<1> QED BY <1>2, <1>3 DEF AuthInv, Typed

\* The answer of a call that holds its own result.
LEMMA AnsweredOK ==
  ASSUME AuthInv, NEW c \in Call, NEW origin \in Roles \cup {"nobody"},
         calls[c].pc \in Active,
         calls[c].tool.allowed # {} /\ ~calls[c].tool.shared => origin = calls[c].role
  PROVE  /\ Answered(c, origin) \in CallStates
         /\ \A e \in Nat : CallOK(Answered(c, origin), e)
<1>1. calls[c] \in CallStates /\ CallOK(calls[c], erp)
  BY DEF AuthInv, Typed
<1>2. Answered(c, origin) \in CallStates
  <2>1. /\ "answered" \in PCs /\ 0 \in Nat /\ FALSE \in BOOLEAN
        /\ <<>> \in Seq(Names) /\ {} \in SUBSET Keys
    BY DEF PCs
  <2> HIDE DEF PCs
  <2> QED BY <1>1, <2>1 DEF Answered, CallStates
<1>3. ASSUME NEW e \in Nat PROVE CallOK(Answered(c, origin), e)
  BY <1>1 DEF Answered, CallStates, CallOK, Active, Results
<1> QED BY <1>2, <1>3

LEMMA LookupPreserves ==
  ASSUME AuthInv, NEW c \in Call, Lookup(c)
  PROVE  AuthInv'
<1> DEFINE key == exactRevisionKey(calls[c].tool, calls[c].role)
<1>1. /\ calls[c] \in CallStates /\ CallOK(calls[c], erp) /\ calls[c].pc = "lookup"
      /\ calls[c].tool \in Tools /\ calls[c].role \in Roles
  BY DEF AuthInv, Typed, Lookup, At, CallOK, CallStates
<1>2. /\ key \in Keys /\ key.name = calls[c].tool.name
      /\ ~calls[c].tool.shared /\ calls[c].role # "none" => key.scope = calls[c].role
  BY <1>1, KeyOf
<1>3. /\ cache' = Get(cache, key, now)
      /\ UNCHANGED <<config, tokens, now, erp, upTo>>
  BY DEF Lookup
<1>4. \/ /\ Hit(cache, key, now)
         /\ calls' = [calls EXCEPT ![c] = Answered(c, cache.items[key].origin)]
      \/ calls' = [calls EXCEPT ![c] = [calls[c] EXCEPT !.pc = "execute"]]
  BY DEF Lookup
<1> HIDE DEF key
<1>5. Shrinks(cache, cache')
  BY <1>2, <1>3, GetShrinks DEF AuthInv, Typed
<1>6. OriginsOK(cache.items)' /\ cache'.items \in [Keys -> Stored]
  BY <1>5, ShrinkOrigins DEF AuthInv, Shrinks
<1>7. CASE /\ Hit(cache, key, now)
           /\ calls' = [calls EXCEPT ![c] = Answered(c, cache.items[key].origin)]
  <2>1. cache.items[key] \in Stored /\ cache.items[key] # NoEntry
    BY <1>2, <1>7 DEF AuthInv, Typed, Hit
  <2>2. calls[c].tool.allowed # {} => calls[c].role \in Role /\ calls[c].role # "none"
    BY <1>1, SessionAssumption DEF CallOK, Active, CallStates
  <2>3. calls[c].tool.allowed # {} /\ ~calls[c].tool.shared =>
          cache.items[key].origin = calls[c].role
    BY <1>1, <1>2, <2>1, <2>2 DEF AuthInv, OriginsOK
  <2>4. cache.items[key].origin \in Roles \cup {"nobody"}
    BY <2>1 DEF Stored
  <2>5. /\ Answered(c, cache.items[key].origin) \in CallStates
        /\ CallOK(Answered(c, cache.items[key].origin), erp)
    BY <1>1, <2>3, <2>4, AnsweredOK DEF Active, AuthInv, Typed
  <2>6. calls' \in [Call -> CallStates] /\ \A d \in Call : CallOK(calls'[d], erp')
    BY <1>3, <1>7, <2>5, OneCall DEF AuthInv, Typed
  <2> QED BY <1>3, <1>6, <2>6 DEF AuthInv, Typed
<1>8. CASE calls' = [calls EXCEPT ![c] = [calls[c] EXCEPT !.pc = "execute"]]
  <2>1. [calls[c] EXCEPT !.pc = "execute"] \in CallStates
    BY <1>1 DEF CallStates, PCs
  <2>2. CallOK([calls[c] EXCEPT !.pc = "execute"], erp)
    BY <1>1 DEF CallOK, CallStates, Active, Results
  <2>3. calls' \in [Call -> CallStates] /\ \A d \in Call : CallOK(calls'[d], erp')
    BY <1>3, <1>8, <2>1, <2>2, OneCall DEF AuthInv, Typed
  <2> QED BY <1>3, <1>6, <2>3 DEF AuthInv, Typed
<1> QED BY <1>4, <1>7, <1>8

LEMMA ExecutePreserves ==
  ASSUME AuthInv, NEW c \in Call, Execute(c)
  PROVE  AuthInv'
<1> DEFINE data == IF calls[c].tool.writes THEN erp + 1 ELSE erp
           r    == [calls[c] EXCEPT !.pc = AfterResult(calls[c].tool), !.value = data,
                                    !.origin = calls[c].role, !.todo = calls[c].tool.flushOn]
<1>1. /\ calls[c] \in CallStates /\ CallOK(calls[c], erp) /\ calls[c].pc = "execute"
      /\ calls[c].tool \in Tools /\ calls[c].tool \in ToolSpecs
      /\ calls[c].role \in Roles
  BY SessionAssumption DEF AuthInv, Typed, Execute, At, CallOK, CallStates
<1>2. data \in Nat /\ erp <= data /\ erp \in Nat
  BY DEF AuthInv, Typed
<1>3. erp' = data /\ UNCHANGED <<config, tokens, now, cache>>
  BY DEF Execute
<1>4. CASE AfterResult(calls[c].tool) = "answered"
  <2>1. /\ calls' = [calls EXCEPT ![c] = Answered(c, calls[c].role)]
        /\ upTo' = Covered(FlushOn(calls[c].tool), data)
    BY <1>4 DEF Execute
  <2>2. upTo' \in [Names -> Nat]
    BY <1>2, <2>1 DEF Covered, AuthInv, Typed
  <2>3. Answered(c, calls[c].role) \in CallStates /\ CallOK(Answered(c, calls[c].role), erp')
    BY <1>1, <1>2, <1>3, AnsweredOK DEF Active
  <2>4. calls' \in [Call -> CallStates] /\ \A d \in Call : CallOK(calls'[d], erp')
    BY <1>2, <1>3, <2>1, <2>3, OneCall
  <2> QED BY <1>2, <1>3, <2>2, <2>4 DEF AuthInv, Typed
<1>5. CASE AfterResult(calls[c].tool) # "answered"
  <2>1. calls' = [calls EXCEPT ![c] = r] /\ UNCHANGED upTo
    BY <1>5, <1>1 DEF Execute, AuthInv, Typed
  <2>2. AfterResult(calls[c].tool) \in {"store", "scan"}
    BY <1>5 DEF AfterResult
  <2>3. AfterResult(calls[c].tool) = "scan" => calls[c].tool.flushOn # <<>>
    BY DEF AfterResult
  <2>4. calls[c].tool.flushOn \in Seq(Names)
    BY <1>1 DEF ToolSpecs
  <2> HIDE DEF data
  <2>5. r \in CallStates
    BY <1>1, <1>2, <2>2, <2>4 DEF CallStates, PCs
  <2>6. CallOK(r, erp')
    BY <1>1, <1>2, <1>3, <2>2, <2>3 DEF CallStates, CallOK, Active, Results
  <2> HIDE DEF r
  <2>7. calls' \in [Call -> CallStates] /\ \A d \in Call : CallOK(calls'[d], erp')
    BY <1>2, <1>3, <2>1, <2>5, <2>6, OneCall
  <2> QED BY <1>2, <1>3, <2>1, <2>7 DEF AuthInv, Typed
<1> QED BY <1>4, <1>5

LEMMA ExecuteFailsPreserves ==
  ASSUME AuthInv, NEW c \in Call, ExecuteFails(c)
  PROVE  AuthInv'
<1>1. /\ erp' \in Nat /\ erp <= erp'
      /\ UNCHANGED <<config, tokens, now, cache, upTo>>
      /\ calls' = [calls EXCEPT ![c] = [Idle EXCEPT !.pc = "failed"]]
  BY DEF ExecuteFails, AuthInv, Typed
<1>2. [Idle EXCEPT !.pc = "failed"] \in CallStates
  BY IdleOK DEF CallStates, PCs
<1>3. CallOK([Idle EXCEPT !.pc = "failed"], erp')
  BY DEF CallOK, Idle, Active, Results, NoTool
<1>4. calls' \in [Call -> CallStates] /\ \A d \in Call : CallOK(calls'[d], erp')
  BY <1>1, <1>2, <1>3, OneCall
<1> QED BY <1>1, <1>4 DEF AuthInv, Typed

\* What Store puts into the cache.
EntryOf(c) ==
  [value |-> calls[c].value, origin |-> calls[c].origin, late |-> calls[c].late,
   expires |-> IF calls[c].tool.ttl = 0 THEN 0 ELSE now + calls[c].tool.ttl]

LEMMA StoreSets ==
  ASSUME AuthInv, NEW c \in Call, Store(c),
         NEW key, key = exactRevisionKey(calls[c].tool, calls[c].role)
  PROVE  /\ calls[c].tool \in Tools /\ calls[c].pc = "store"
         /\ calls[c] \in CallStates /\ CallOK(calls[c], erp)
         /\ key \in Keys /\ key.name = calls[c].tool.name
         /\ ~calls[c].tool.shared /\ calls[c].role # "none" => key.scope = calls[c].role
         /\ EntryOf(c) \in Stored
         /\ cache'.items \in [Keys -> Stored]
         /\ cache'.items[key] \in {EntryOf(c), NoEntry}
         /\ \A k \in Keys \ {key} : cache'.items[k] \in {cache.items[k], NoEntry}
<1>1. /\ calls[c] \in CallStates /\ CallOK(calls[c], erp) /\ calls[c].pc = "store"
      /\ calls[c].tool \in Tools /\ calls[c].tool \in ToolSpecs /\ calls[c].role \in Roles
  BY SessionAssumption DEF AuthInv, Typed, Store, At, CallOK, CallStates
<1>2. /\ key \in Keys /\ key.name = calls[c].tool.name
      /\ ~calls[c].tool.shared /\ calls[c].role # "none" => key.scope = calls[c].role
  BY <1>1, KeyOf
<1>3. (IF calls[c].tool.ttl = 0 THEN 0 ELSE now + calls[c].tool.ttl) \in Nat
  BY <1>1 DEF ToolSpecs, AuthInv, Typed
<1>4. EntryOf(c) \in Stored
  BY <1>1, <1>3 DEF EntryOf, Stored, CallStates
<1>5. cache' = Set(cache, key, EntryOf(c))
  BY DEF Store, EntryOf
<1> QED BY <1>1, <1>2, <1>4, <1>5, SetAdds DEF AuthInv, Typed

LEMMA StorePreserves ==
  ASSUME AuthInv, NEW c \in Call, Store(c)
  PROVE  AuthInv'
<1> DEFINE key == exactRevisionKey(calls[c].tool, calls[c].role)
           r   == IF calls[c].todo = <<>> THEN Answered(c, calls[c].origin)
                  ELSE [calls[c] EXCEPT !.pc = "scan"]
<1>1. /\ calls[c].tool \in Tools /\ calls[c].pc = "store"
      /\ calls[c] \in CallStates /\ CallOK(calls[c], erp)
      /\ key \in Keys /\ key.name = calls[c].tool.name
      /\ ~calls[c].tool.shared /\ calls[c].role # "none" => key.scope = calls[c].role
      /\ EntryOf(c) \in Stored
      /\ cache'.items \in [Keys -> Stored]
      /\ cache'.items[key] \in {EntryOf(c), NoEntry}
      /\ \A k \in Keys \ {key} : cache'.items[k] \in {cache.items[k], NoEntry}
  BY StoreSets
<1>2. calls' = [calls EXCEPT ![c] = r] /\ UNCHANGED <<config, tokens, now, erp, upTo>>
  BY DEF Store
<1>3. NoTool \notin Tools
  BY SessionAssumption DEF NoTool, Names
<1>4. calls[c].origin = calls[c].role
  BY <1>1, <1>3 DEF CallOK, Results
<1>5. OriginsOK(cache'.items)
  <2> SUFFICES ASSUME NEW t \in Tools, NEW k \in Keys, k.name = t.name, ~t.shared,
                      t.allowed # {}, cache'.items[k] # NoEntry
               PROVE  cache'.items[k].origin = k.scope
    BY DEF OriginsOK
  <2>1. CASE k = key
    <3>1. t = calls[c].tool
      BY <1>1, <2>1, SessionAssumption
    <3>2. calls[c].role # "none"
      BY <1>1, <3>1, SessionAssumption DEF CallOK, Active, Results, CallStates
    <3>3. cache'.items[k].origin = calls[c].origin
      BY <1>1, <2>1 DEF EntryOf
    <3> QED BY <1>1, <1>4, <2>1, <3>1, <3>2, <3>3
  <2>2. CASE k # key
    <3>1. cache'.items[k] = cache.items[k]
      BY <1>1, <2>2
    <3> QED BY <3>1 DEF AuthInv, OriginsOK
  <2> QED BY <2>1, <2>2
<1>6. r \in CallStates /\ CallOK(r, erp)
  <2>1. CASE calls[c].todo = <<>>
    <3>1. calls[c].origin \in Roles \cup {"nobody"} /\ calls[c].pc \in Active /\ erp \in Nat
      BY <1>1 DEF CallStates, Active, Results, AuthInv, Typed
    <3> QED BY <1>4, <2>1, <3>1, AnsweredOK
  <2>2. CASE calls[c].todo # <<>>
    <3>1. [calls[c] EXCEPT !.pc = "scan"] \in CallStates
      BY <1>1 DEF CallStates, PCs
    <3>2. CallOK([calls[c] EXCEPT !.pc = "scan"], erp)
      BY <1>1, <1>4, <2>2 DEF CallStates, CallOK, Active, Results
    <3> QED BY <2>2, <3>1, <3>2
  <2> QED BY <2>1, <2>2
<1> HIDE DEF r, key
<1>7. calls' \in [Call -> CallStates] /\ \A d \in Call : CallOK(calls'[d], erp')
  BY <1>2, <1>6, OneCall DEF AuthInv, Typed
<1> QED BY <1>1, <1>2, <1>5, <1>7 DEF AuthInv, Typed

-----------------------------------------------------------------------------
(* Flushes *)

\* MarkLate changes nothing but the mark, of calls that have a result to store.
LEMMA MarkLateOK ==
  ASSUME AuthInv, NEW names, NEW value \in Nat, NEW d \in Call,
         NEW m, m = MarkLate(names, value)[d]
  PROVE  /\ m \in CallStates /\ CallOK(m, erp)
         /\ m.pc = calls[d].pc /\ m.tool = calls[d].tool /\ m.value = calls[d].value
         /\ m.todo = calls[d].todo /\ m.keys = calls[d].keys /\ m.origin = calls[d].origin
         /\ calls[d].late => m.late
         /\ /\ calls[d].pc = "store" /\ calls[d].tool.name \in names /\ calls[d].value < value
            => m.late
<1>1. calls[d] \in CallStates /\ CallOK(calls[d], erp)
  BY DEF AuthInv, Typed
<1>2. CASE At(d, "store") /\ calls[d].tool.name \in names /\ calls[d].value < value
  <2>1. m = [calls[d] EXCEPT !.late = TRUE]
    BY <1>2 DEF MarkLate
  <2>2. m \in CallStates
    BY <1>1, <2>1 DEF CallStates
  <2>3. CallOK(m, erp)
    BY <1>1, <2>1 DEF CallStates, CallOK
  <2> QED BY <1>1, <2>1, <2>2, <2>3 DEF CallStates
<1>3. CASE ~(At(d, "store") /\ calls[d].tool.name \in names /\ calls[d].value < value)
  <2>1. m = calls[d]
    BY <1>3 DEF MarkLate
  <2> QED BY <1>1, <1>3, <2>1 DEF At
<1> QED BY <1>2, <1>3

LEMMA FlushScanPreserves ==
  ASSUME AuthInv, NEW c \in Call, FlushScan(c)
  PROVE  AuthInv'
<1> DEFINE n == Head(calls[c].todo)
           M == MarkLate({n}, calls[c].value)
           r == [M[c] EXCEPT !.pc = "delete", !.keys = Matching(cache', n)]
<1>1. /\ calls[c] \in CallStates /\ CallOK(calls[c], erp) /\ calls[c].pc = "scan"
      /\ calls[c].value \in Nat
  BY DEF AuthInv, Typed, FlushScan, At, CallStates
<1>2. cache' = Unexpired(cache, now) /\ UNCHANGED <<config, tokens, now, erp, upTo>>
  BY DEF FlushScan
<1>3. Shrinks(cache, cache')
  BY <1>2, RemoveShrinks DEF Unexpired, AuthInv, Typed
<1>4. OriginsOK(cache'.items) /\ cache'.items \in [Keys -> Stored]
  BY <1>3, ShrinkOrigins DEF AuthInv, Shrinks
<1>5. M[c] = calls[c]
  BY <1>1 DEF MarkLate, At
<1>6. Matching(cache', n) \in SUBSET Keys
  BY <1>4 DEF Matching, Present
<1>7. r \in CallStates
  BY <1>1, <1>5, <1>6 DEF CallStates, PCs
<1>8. CallOK(r, erp)
  BY <1>1, <1>5 DEF CallStates, CallOK, Active, Results
<1>9. DOMAIN M = Call
  BY DEF MarkLate
<1>10. calls' = [M EXCEPT ![c] = r]
  BY <1>9 DEF FlushScan
<1>11. \A d \in Call : M[d] \in CallStates /\ CallOK(M[d], erp)
  BY <1>1, MarkLateOK
<1> HIDE DEF r
<1>12. calls' = [d \in Call |-> IF d = c THEN r ELSE M[d]]
  BY <1>9, <1>10 DEF MarkLate
<1> HIDE DEF M
<1>13. calls' \in [Call -> CallStates] /\ \A d \in Call : CallOK(calls'[d], erp)
  BY <1>7, <1>8, <1>11, <1>12
<1> QED BY <1>2, <1>4, <1>13 DEF AuthInv, Typed

LEMMA FlushDeletePreserves ==
  ASSUME AuthInv, NEW c \in Call, FlushDelete(c)
  PROVE  AuthInv'
<1> DEFINE r == IF Tail(calls[c].todo) = <<>> THEN Answered(c, calls[c].origin)
                ELSE [calls[c] EXCEPT !.pc = "scan", !.keys = {}, !.todo = Tail(calls[c].todo)]
<1>1. /\ calls[c] \in CallStates /\ CallOK(calls[c], erp) /\ calls[c].pc = "delete"
      /\ calls[c].value \in Nat /\ calls[c].todo \in Seq(Names) /\ calls[c].todo # <<>>
  BY DEF AuthInv, Typed, FlushDelete, At, CallStates, CallOK
<1>2. /\ cache' = remove(cache, calls[c].keys)
      /\ upTo' = Covered({Head(calls[c].todo)}, calls[c].value)
      /\ UNCHANGED <<config, tokens, now, erp>>
  BY DEF FlushDelete, Delete
<1>3. calls' = [calls EXCEPT ![c] = r]
  BY DEF FlushDelete
<1>4. OriginsOK(cache'.items) /\ cache'.items \in [Keys -> Stored]
  <2>1. Shrinks(cache, cache')
    BY <1>2, RemoveShrinks DEF AuthInv, Typed
  <2> QED BY <2>1, ShrinkOrigins DEF AuthInv, Shrinks
<1>5. upTo' \in [Names -> Nat]
  BY <1>1, <1>2 DEF Covered, AuthInv, Typed
<1>6. r \in CallStates /\ CallOK(r, erp)
  <2>1. CASE Tail(calls[c].todo) = <<>>
    <3>1. /\ calls[c].origin \in Roles \cup {"nobody"} /\ calls[c].pc \in Active
          /\ calls[c].tool.allowed # {} => calls[c].origin = calls[c].role
      BY <1>1 DEF CallStates, Active, Results, CallOK, NoTool
    <3> QED BY <2>1, <3>1, AnsweredOK DEF AuthInv, Typed
  <2>2. CASE Tail(calls[c].todo) # <<>>
    <3>1. Tail(calls[c].todo) \in Seq(Names)
      BY <1>1
    <3>2. r \in CallStates
      BY <1>1, <2>2, <3>1 DEF CallStates, PCs
    <3>3. CallOK(r, erp)
      BY <1>1, <2>2 DEF CallStates, CallOK, Active, Results
    <3> QED BY <3>2, <3>3
  <2> QED BY <2>1, <2>2
<1> HIDE DEF r
<1>7. calls' \in [Call -> CallStates] /\ \A d \in Call : CallOK(calls'[d], erp')
  BY <1>2, <1>3, <1>6, OneCall DEF AuthInv, Typed
<1> QED BY <1>2, <1>4, <1>5, <1>7 DEF AuthInv, Typed

LEMMA FlushAllPreserves ==
  ASSUME AuthInv, NEW c \in Call, handleCacheFlushAll(c)
  PROVE  AuthInv'
<1> DEFINE M == MarkLate(Names, erp)
           r == [Idle EXCEPT !.pc = "answered"]
<1>1. /\ cache' = remove(cache, DOMAIN cache.items)
      /\ upTo' = Covered(Names, erp)
      /\ UNCHANGED <<config, tokens, now, erp>>
      /\ erp \in Nat
  BY DEF handleCacheFlushAll, FlushAll, AuthInv, Typed
<1>2. OriginsOK(cache'.items) /\ cache'.items \in [Keys -> Stored]
  <2>1. Shrinks(cache, cache')
    BY <1>1, RemoveShrinks DEF AuthInv, Typed
  <2> QED BY <2>1, ShrinkOrigins DEF AuthInv, Shrinks
<1>3. upTo' \in [Names -> Nat]
  BY <1>1 DEF Covered, AuthInv, Typed
<1>4. r \in CallStates
  BY IdleOK DEF CallStates, PCs
<1>5. CallOK(r, erp)
  BY DEF CallOK, Idle, Active, Results, NoTool
<1>6. calls' = [d \in Call |-> IF d = c THEN r ELSE M[d]]
  BY DEF handleCacheFlushAll, MarkLate
<1>7. \A d \in Call : M[d] \in CallStates /\ CallOK(M[d], erp)
  BY <1>1, MarkLateOK
<1> HIDE DEF r, M
<1>8. calls' \in [Call -> CallStates] /\ \A d \in Call : CallOK(calls'[d], erp)
  BY <1>4, <1>5, <1>6, <1>7
<1> QED BY <1>1, <1>2, <1>3, <1>8 DEF AuthInv, Typed

\* The token API, the clock and the statistics.
LEMMA OthersPreserve ==
  ASSUME AuthInv, \/ Tick \/ handleCacheStats
                  \/ \E t \in Token : CreateTokenRequest(t) \/ RevokeTokenRequest(t)
  PROVE  AuthInv'
<1>1. CASE Tick
  BY <1>1 DEF Tick, AuthInv, Typed
<1>2. CASE handleCacheStats
  <2>1. Shrinks(cache, cache')
    BY <1>2, RemoveShrinks DEF handleCacheStats, Unexpired, AuthInv, Typed
  <2>2. OriginsOK(cache'.items) /\ cache'.items \in [Keys -> Stored]
    BY <2>1, ShrinkOrigins DEF AuthInv, Shrinks
  <2> QED BY <1>2, <2>2 DEF handleCacheStats, AuthInv, Typed
<1>3. ASSUME NEW t \in Token, CreateTokenRequest(t) \/ RevokeTokenRequest(t)
      PROVE  AuthInv'
  <2>1. UNCHANGED <<config, now, cache, erp, calls, upTo>>
    BY <1>3 DEF CreateTokenRequest, RevokeTokenRequest
  <2>2. tokens' \in [Token -> Rows]
    <3>1. CASE RevokeTokenRequest(t)
      <4>1. tokens' = [tokens EXCEPT ![t] = [tokens[t] EXCEPT !.revoked = TRUE]]
        BY <3>1 DEF RevokeTokenRequest, RevokeToken
      <4>2. [tokens[t] EXCEPT !.revoked = TRUE] \in Rows
        BY DEF Rows, AuthInv, Typed
      <4> QED BY <4>1, <4>2 DEF AuthInv, Typed
    <3>2. CASE CreateTokenRequest(t)
      <4>1. PICK request \in TokenRequests : tokens' = CreateToken(tokens, t, request)
        BY <3>2 DEF CreateTokenRequest
      <4>2. request \in [roles : SUBSET Role, scopes : SUBSET {"mcp", "logs"}, expires : Nat]
        BY SessionAssumption
      <4> QED BY <4>1, <4>2 DEF CreateToken, Rows, AuthInv, Typed
    <3> QED BY <1>3, <3>1, <3>2
  <2> QED BY <2>1, <2>2 DEF AuthInv, Typed
<1> QED BY <1>1, <1>2, <1>3

\* Every step keeps AuthInv.
LEMMA AuthStep == AuthInv /\ [Next]_vars => AuthInv'
<1> SUFFICES ASSUME AuthInv, [Next]_vars PROVE AuthInv'
  OBVIOUS
<1>1. CASE UNCHANGED vars
  BY <1>1 DEF vars, AuthInv, Typed
<1>2. CASE \/ Tick \/ handleCacheStats
           \/ \E t \in Token : CreateTokenRequest(t) \/ RevokeTokenRequest(t)
  BY <1>2, OthersPreserve
<1>3. ASSUME NEW c \in Call,
             \/ Arrive(c) \/ handleCacheFlushAll(c)
             \/ Lookup(c) \/ Execute(c) \/ ExecuteFails(c) \/ Store(c)
             \/ FlushScan(c) \/ FlushDelete(c)
      PROVE  AuthInv'
  BY <1>3, ArrivePreserves, FlushAllPreserves, LookupPreserves, ExecutePreserves,
     ExecuteFailsPreserves, StorePreserves, FlushScanPreserves, FlushDeletePreserves
<1> QED BY <1>1, <1>2, <1>3 DEF Next

\* AuthInv holds initially.
LEMMA AuthInit == Init => AuthInv
<1> SUFFICES ASSUME Init PROVE AuthInv
  OBVIOUS
<1>1. config \in [enabled : BOOLEAN, valid : BOOLEAN, roles : SUBSET Role]
  BY DEF Init
<1>2. tokens \in [Token -> Rows]
  BY DEF Init, NoRow, Rows
<1>3. cache.items \in [Keys -> Stored] /\ OriginsOK(cache.items)
  BY NoEntryStored DEF Init, OriginsOK
<1>4. calls \in [Call -> CallStates] /\ \A c \in Call : CallOK(calls[c], erp)
  BY IdleOK DEF Init
<1> QED BY <1>1, <1>2, <1>3, <1>4 DEF Init, AuthInv, Typed

\* A token is useless from the moment it is revoked or expires, whatever the
\* clock, the token API and the calls do in between.
THEOREM RevokedTokensRefused == Spec => []RevocationIsImmediate
<1>1. AuthInv => RevocationIsImmediate
  BY DEF AuthInv, CallOK, RevocationIsImmediate
<1> QED BY <1>1, AuthInit, AuthStep, PTL DEF Spec

\* No caller gets a result of a guarded tool, fetched or cached, for a role it
\* does not have, or fetched for a role it did not select.
THEOREM ResultsAuthorized == Spec => []AnswersAreAuthorized
<1>1. AuthInv => AnswersAreAuthorized
  BY DEF AuthInv, CallOK, Active, AnswersAreAuthorized
<1> QED BY <1>1, AuthInit, AuthStep, PTL DEF Spec

-----------------------------------------------------------------------------
(* Staleness *)

\* No tool asks for flushes that CacheMiddleware never comes to.
NoBypassedFlush == \A t \in Tools : Passed(t) => t.flushOn = <<>>

\* A flush between its scan and its deletion has the keys of everything older
\* than what it is for, and knows of the results that are still to be stored.
FlushInv ==
  /\ StaleOnlyByOverlap
  /\ \A d \in Call : calls[d].pc = "store" /\ calls[d].value < upTo[calls[d].tool.name] =>
                     calls[d].late
  /\ \A c \in Call, k \in Keys :
       /\ calls[c].pc = "delete" /\ k.name = Head(calls[c].todo)
       /\ cache.items[k] # NoEntry /\ cache.items[k].value < calls[c].value
       => cache.items[k].late \/ k \in calls[c].keys
  /\ \A c, d \in Call :
       /\ calls[c].pc = "delete" /\ calls[d].pc = "store"
       /\ calls[d].tool.name = Head(calls[c].todo) /\ calls[d].value < calls[c].value
       => calls[d].late
  /\ \A n \in Names : upTo[n] <= erp

\* A call that a step does not bring to a store or a deletion.
Keeps(d) ==
  /\ calls'[d].pc = "store" =>
       /\ calls[d].pc = "store" /\ calls'[d].tool = calls[d].tool
       /\ calls'[d].value = calls[d].value /\ (calls[d].late => calls'[d].late)
  /\ calls'[d].pc = "delete" =>
       /\ calls[d].pc = "delete" /\ calls'[d].todo = calls[d].todo
       /\ calls'[d].value = calls[d].value /\ calls'[d].keys = calls[d].keys

LEMMA QuietStep ==
  ASSUME AuthInv, FlushInv, Shrinks(cache, cache'), UNCHANGED upTo, erp' \in Nat, erp <= erp',
         \A d \in Call : Keeps(d)
  PROVE  FlushInv'
<1>1. StaleOnlyByOverlap'
  BY DEF FlushInv, StaleOnlyByOverlap, Present, Shrinks, AuthInv, Typed
<1>2. \A d \in Call : calls'[d].pc = "store" /\ calls'[d].value < upTo'[calls'[d].tool.name] =>
                      calls'[d].late
  BY DEF FlushInv, Keeps
<1>3. \A c \in Call, k \in Keys :
       /\ calls'[c].pc = "delete" /\ k.name = Head(calls'[c].todo)
       /\ cache'.items[k] # NoEntry /\ cache'.items[k].value < calls'[c].value
       => cache'.items[k].late \/ k \in calls'[c].keys
  BY DEF FlushInv, Keeps, Shrinks
<1>4. \A c, d \in Call :
       /\ calls'[c].pc = "delete" /\ calls'[d].pc = "store"
       /\ calls'[d].tool.name = Head(calls'[c].todo) /\ calls'[d].value < calls'[c].value
       => calls'[d].late
  BY DEF FlushInv, Keeps
<1>5. \A n \in Names : upTo'[n] <= erp'
  BY DEF FlushInv, AuthInv, Typed
<1> QED BY <1>1, <1>2, <1>3, <1>4, <1>5 DEF FlushInv

LEMMA SelfShrinks ==
  ASSUME AuthInv, UNCHANGED cache
  PROVE  Shrinks(cache, cache')
BY DEF AuthInv, Typed, Shrinks

\* Steps that bring no call to a store or a deletion.
LEMMA QuietSteps ==
  ASSUME AuthInv, FlushInv,
         \/ Tick \/ handleCacheStats \/ UNCHANGED vars
         \/ \E t \in Token : CreateTokenRequest(t) \/ RevokeTokenRequest(t)
         \/ \E c \in Call : Arrive(c) \/ Lookup(c) \/ ExecuteFails(c)
  PROVE  FlushInv'
<1> USE DEF Keeps
<1>1. CASE Tick \/ UNCHANGED vars \/ \E t \in Token : CreateTokenRequest(t) \/ RevokeTokenRequest(t)
  <2>1. UNCHANGED <<cache, erp, calls, upTo>>
    BY <1>1 DEF Tick, vars, CreateTokenRequest, RevokeTokenRequest
  <2> QED BY <2>1, SelfShrinks, QuietStep DEF AuthInv, Typed
<1>2. CASE handleCacheStats
  <2>1. Shrinks(cache, cache')
    BY <1>2, RemoveShrinks DEF handleCacheStats, Unexpired, AuthInv, Typed
  <2> QED BY <1>2, <2>1, QuietStep DEF handleCacheStats, AuthInv, Typed
<1>3. ASSUME NEW c \in Call, Arrive(c) PROVE FlushInv'
  <2>1. UNCHANGED <<cache, erp, upTo>>
    BY <1>3, ArriveOK
  <2>2. PICK r \in Entered : calls' = [calls EXCEPT ![c] = r]
    BY <1>3, ArriveOK
  <2>3. \A d \in Call : Keeps(d)
    BY <2>2 DEF Entered, AuthInv, Typed
  <2> QED BY <2>1, <2>3, SelfShrinks, QuietStep DEF AuthInv, Typed
<1>4. ASSUME NEW c \in Call, Lookup(c) PROVE FlushInv'
  <2>1. /\ calls[c].tool \in Tools /\ calls[c].role \in Roles
        /\ calls[c] \in CallStates
    BY <1>4 DEF AuthInv, Typed, Lookup, At, CallOK, CallStates
  <2>2. exactRevisionKey(calls[c].tool, calls[c].role) \in Keys
    BY <2>1, KeyOf
  <2>3. Shrinks(cache, cache') /\ UNCHANGED <<erp, upTo>>
    BY <1>4, <2>2, GetShrinks DEF Lookup, AuthInv, Typed
  <2>4. /\ \A d \in Call \ {c} : calls'[d] = calls[d]
        /\ calls'[c].pc \in {"answered", "execute"}
    BY <1>4, <2>1 DEF Lookup, Answered, AuthInv, Typed, CallStates
  <2>5. \A d \in Call : Keeps(d)
    BY <2>4
  <2> QED BY <2>3, <2>5, QuietStep DEF AuthInv, Typed
<1>5. ASSUME NEW c \in Call, ExecuteFails(c) PROVE FlushInv'
  <2>1. UNCHANGED <<cache, upTo>> /\ erp' \in Nat /\ erp <= erp'
    BY <1>5 DEF ExecuteFails, AuthInv, Typed
  <2>2. /\ \A d \in Call \ {c} : calls'[d] = calls[d]
        /\ calls'[c].pc = "failed"
    BY <1>5 DEF ExecuteFails, Idle, AuthInv, Typed
  <2>3. \A d \in Call : Keeps(d)
    BY <2>2
  <2> QED BY <2>1, <2>3, SelfShrinks, QuietStep
<1> QED BY <1>1, <1>2, <1>3, <1>4, <1>5
\* A result that was just fetched is as new as the data of the ERP.
LEMMA ExecuteFlush ==
  ASSUME NoBypassedFlush, AuthInv, FlushInv, NEW c \in Call, Execute(c)
  PROVE  FlushInv'
<1> DEFINE tool == calls[c].tool
           data == IF tool.writes THEN erp + 1 ELSE erp
<1>1. /\ calls[c] \in CallStates /\ CallOK(calls[c], erp) /\ calls[c].pc = "execute"
      /\ tool \in Tools /\ tool.name \in Names
  BY DEF AuthInv, Typed, Execute, At, CallOK, CallStates, Names
<1>2. /\ data \in Nat /\ erp <= data /\ erp \in Nat
      /\ erp' = data /\ UNCHANGED cache
  BY DEF AuthInv, Typed, Execute
<1>3. Shrinks(cache, cache')
  BY <1>2, SelfShrinks
<1> HIDE DEF data
<1>4. CASE AfterResult(tool) = "answered"
  <2>1. tool.flushOn = <<>>
    BY <1>1, <1>4 DEF AfterResult, NoBypassedFlush
  <2>2. FlushOn(tool) = {}
    BY <2>1 DEF FlushOn
  <2>3. upTo' = Covered({}, data) /\ calls' = [calls EXCEPT ![c] = Answered(c, calls[c].role)]
    BY <1>4, <2>2 DEF Execute, data
  <2>4. UNCHANGED upTo
    BY <2>3 DEF Covered, AuthInv, Typed
  <2>5. Answered(c, calls[c].role).pc = "answered"
    BY <1>1 DEF Answered, CallStates
  <2>6. \A d \in Call : Keeps(d)
    BY <2>3, <2>5 DEF Keeps, AuthInv, Typed
  <2> QED BY <1>2, <1>3, <2>4, <2>6, QuietStep
<1>5. CASE AfterResult(tool) # "answered"
  <2> DEFINE r == [calls[c] EXCEPT !.pc = AfterResult(tool), !.value = data,
                                   !.origin = calls[c].role, !.todo = tool.flushOn]
  <2>1. calls' = [calls EXCEPT ![c] = r] /\ UNCHANGED upTo
    BY <1>5 DEF Execute, AuthInv, Typed, data
  <2>2. r.pc \in {"store", "scan"} /\ r.value = data /\ r.tool = tool
    BY <1>1, <1>5 DEF AfterResult, CallStates
  <2> HIDE DEF r
  <2>3. calls'[c] = r /\ \A d \in Call \ {c} : calls'[d] = calls[d]
    BY <2>1 DEF AuthInv, Typed
  <2>4. StaleOnlyByOverlap'
    BY <1>2, <2>1 DEF FlushInv, StaleOnlyByOverlap
  <2>5. upTo[tool.name] \in Nat /\ upTo[tool.name] <= data
    BY <1>1, <1>2 DEF FlushInv, AuthInv, Typed
  <2>6. \A d \in Call : calls'[d].pc = "store" /\ calls'[d].value < upTo'[calls'[d].tool.name] =>
                        calls'[d].late
    BY <1>2, <2>1, <2>2, <2>3, <2>5 DEF FlushInv
  <2>7. \A b \in Call, k \in Keys :
         /\ calls'[b].pc = "delete" /\ k.name = Head(calls'[b].todo)
         /\ cache'.items[k] # NoEntry /\ cache'.items[k].value < calls'[b].value
         => cache'.items[k].late \/ k \in calls'[b].keys
    BY <1>2, <2>2, <2>3 DEF FlushInv
  <2>8. \A b \in Call : calls[b].pc = "delete" => calls[b].value \in Nat /\ calls[b].value <= data
    BY <1>2 DEF AuthInv, Typed, CallOK, CallStates, Results
  <2>9. \A b, d \in Call :
         /\ calls'[b].pc = "delete" /\ calls'[d].pc = "store"
         /\ calls'[d].tool.name = Head(calls'[b].todo) /\ calls'[d].value < calls'[b].value
         => calls'[d].late
    <3> SUFFICES ASSUME NEW b \in Call, NEW d \in Call, calls'[b].pc = "delete",
                        calls'[d].pc = "store", calls'[d].tool.name = Head(calls'[b].todo),
                        calls'[d].value < calls'[b].value
                 PROVE  calls'[d].late
      OBVIOUS
    <3>1. b # c /\ calls'[b] = calls[b] /\ calls[b].value <= data /\ calls[b].value \in Nat
      BY <2>2, <2>3, <2>8
    <3>2. d # c /\ calls'[d] = calls[d]
      BY <1>2, <2>2, <2>3, <3>1
    <3> QED BY <3>1, <3>2 DEF FlushInv
  <2>10. \A n \in Names : upTo'[n] <= erp'
    BY <1>2, <2>1 DEF FlushInv, AuthInv, Typed
  <2> QED BY <2>4, <2>6, <2>7, <2>9, <2>10 DEF FlushInv
<1> QED BY <1>4, <1>5

\* A result that is stored after a flush that it is too old for has its mark.
LEMMA StoreFlush ==
  ASSUME AuthInv, FlushInv, NEW c \in Call, Store(c)
  PROVE  FlushInv'
<1> DEFINE key == exactRevisionKey(calls[c].tool, calls[c].role)
           r   == IF calls[c].todo = <<>> THEN Answered(c, calls[c].origin)
                  ELSE [calls[c] EXCEPT !.pc = "scan"]
<1>1. /\ calls[c].tool \in Tools /\ calls[c].pc = "store" /\ calls[c] \in CallStates
      /\ key \in Keys /\ key.name = calls[c].tool.name
      /\ cache'.items \in [Keys -> Stored]
      /\ cache'.items[key] \in {EntryOf(c), NoEntry}
      /\ \A k \in Keys \ {key} : cache'.items[k] \in {cache.items[k], NoEntry}
  BY StoreSets
<1>2. calls' = [calls EXCEPT ![c] = r] /\ UNCHANGED <<erp, upTo>>
  BY DEF Store
<1>3. r.pc \notin {"store", "delete"}
  BY <1>1 DEF Answered, CallStates
<1>4. EntryOf(c).value = calls[c].value /\ EntryOf(c).late = calls[c].late
  BY DEF EntryOf
<1> HIDE DEF r, key
<1>5. calls'[c] = r /\ \A d \in Call \ {c} : calls'[d] = calls[d]
  BY <1>2 DEF AuthInv, Typed
<1>6. StaleOnlyByOverlap'
  <2> SUFFICES ASSUME NEW k \in Keys, cache'.items[k] # NoEntry,
                      cache'.items[k].value < upTo[k.name]
               PROVE  cache'.items[k].late
    BY <1>1, <1>2 DEF StaleOnlyByOverlap, Present
  <2>1. CASE k = key
    BY <1>1, <1>4, <2>1 DEF FlushInv
  <2>2. CASE k # key
    BY <1>1, <2>2 DEF FlushInv, StaleOnlyByOverlap, Present, AuthInv, Typed
  <2> QED BY <2>1, <2>2
<1>7. \A d \in Call : calls'[d].pc = "store" /\ calls'[d].value < upTo'[calls'[d].tool.name] =>
                      calls'[d].late
  BY <1>2, <1>3, <1>5 DEF FlushInv
<1>8. \A b \in Call, k \in Keys :
       /\ calls'[b].pc = "delete" /\ k.name = Head(calls'[b].todo)
       /\ cache'.items[k] # NoEntry /\ cache'.items[k].value < calls'[b].value
       => cache'.items[k].late \/ k \in calls'[b].keys
  <2> SUFFICES ASSUME NEW b \in Call, NEW k \in Keys, calls'[b].pc = "delete",
                      k.name = Head(calls'[b].todo), cache'.items[k] # NoEntry,
                      cache'.items[k].value < calls'[b].value
               PROVE  cache'.items[k].late \/ k \in calls'[b].keys
    OBVIOUS
  <2>1. calls'[b] = calls[b]
    BY <1>3, <1>5
  <2>2. CASE k = key
    BY <1>1, <1>4, <2>1, <2>2 DEF FlushInv
  <2>3. CASE k # key
    BY <1>1, <2>1, <2>3 DEF FlushInv
  <2> QED BY <2>2, <2>3
<1>9. \A b, d \in Call :
       /\ calls'[b].pc = "delete" /\ calls'[d].pc = "store"
       /\ calls'[d].tool.name = Head(calls'[b].todo) /\ calls'[d].value < calls'[b].value
       => calls'[d].late
  BY <1>3, <1>5 DEF FlushInv
<1> QED BY <1>2, <1>6, <1>7, <1>8, <1>9 DEF FlushInv

\* A scan has the keys of all that the cache holds, and marks the rest.
LEMMA FlushScanFlush ==
  ASSUME AuthInv, FlushInv, NEW c \in Call, FlushScan(c)
  PROVE  FlushInv'
<1> DEFINE n == Head(calls[c].todo)
           M == MarkLate({n}, calls[c].value)
           r == [M[c] EXCEPT !.pc = "delete", !.keys = Matching(cache', n)]
<1>1. calls[c] \in CallStates /\ calls[c].pc = "scan" /\ calls[c].value \in Nat
  BY DEF AuthInv, Typed, FlushScan, At, CallStates
<1>2. cache' = Unexpired(cache, now) /\ UNCHANGED <<erp, upTo>>
  BY DEF FlushScan
<1>3. Shrinks(cache, cache')
  BY <1>2, RemoveShrinks DEF Unexpired, AuthInv, Typed
<1>4. M[c] = calls[c] /\ DOMAIN M = Call
  BY <1>1 DEF MarkLate, At
<1>5. calls' = [d \in Call |-> IF d = c THEN r ELSE M[d]]
  BY <1>4 DEF FlushScan, MarkLate
<1>6. /\ r.pc = "delete" /\ r.keys = Matching(cache', n) /\ r.value = calls[c].value
      /\ r.todo = calls[c].todo
  BY <1>1, <1>4 DEF CallStates
<1>7. \A d \in Call :
        /\ M[d].pc = calls[d].pc /\ M[d].tool = calls[d].tool /\ M[d].value = calls[d].value
        /\ M[d].todo = calls[d].todo /\ M[d].keys = calls[d].keys
        /\ calls[d].late => M[d].late
        /\ /\ calls[d].pc = "store" /\ calls[d].tool.name = n /\ calls[d].value < calls[c].value
           => M[d].late
  BY <1>1, MarkLateOK
<1> HIDE DEF r, M, n
<1>8. calls'[c] = r /\ \A d \in Call \ {c} : calls'[d] = M[d]
  BY <1>5
<1>9. StaleOnlyByOverlap'
  BY <1>2, <1>3 DEF FlushInv, StaleOnlyByOverlap, Present, Shrinks, AuthInv, Typed
<1>10. \A d \in Call : calls'[d].pc = "store" /\ calls'[d].value < upTo'[calls'[d].tool.name] =>
                       calls'[d].late
  BY <1>2, <1>6, <1>7, <1>8 DEF FlushInv
<1>11. \A b \in Call, k \in Keys :
       /\ calls'[b].pc = "delete" /\ k.name = Head(calls'[b].todo)
       /\ cache'.items[k] # NoEntry /\ cache'.items[k].value < calls'[b].value
       => cache'.items[k].late \/ k \in calls'[b].keys
  <2> SUFFICES ASSUME NEW b \in Call, NEW k \in Keys, calls'[b].pc = "delete",
                      k.name = Head(calls'[b].todo), cache'.items[k] # NoEntry,
                      cache'.items[k].value < calls'[b].value
               PROVE  cache'.items[k].late \/ k \in calls'[b].keys
    OBVIOUS
  <2>1. CASE b = c
    BY <1>3, <1>6, <1>8, <2>1 DEF Matching, Present, Shrinks, n
  <2>2. CASE b # c
    BY <1>3, <1>7, <1>8, <2>2 DEF FlushInv, Shrinks
  <2> QED BY <2>1, <2>2
<1>12. \A b, d \in Call :
       /\ calls'[b].pc = "delete" /\ calls'[d].pc = "store"
       /\ calls'[d].tool.name = Head(calls'[b].todo) /\ calls'[d].value < calls'[b].value
       => calls'[d].late
  <2> SUFFICES ASSUME NEW b \in Call, NEW d \in Call, calls'[b].pc = "delete",
                      calls'[d].pc = "store", calls'[d].tool.name = Head(calls'[b].todo),
                      calls'[d].value < calls'[b].value
               PROVE  calls'[d].late
    OBVIOUS
  <2>1. d # c /\ calls'[d] = M[d]
    BY <1>6, <1>8
  <2>2. CASE b = c
    BY <1>6, <1>7, <1>8, <2>1, <2>2 DEF n
  <2>3. CASE b # c
    BY <1>7, <1>8, <2>1, <2>3 DEF FlushInv
  <2> QED BY <2>2, <2>3
<1> QED BY <1>2, <1>9, <1>10, <1>11, <1>12 DEF FlushInv

\* Covered raises the names it is given to a value, and no others.
LEMMA CoveredIs ==
  ASSUME AuthInv, NEW names, NEW value \in Nat, NEW n \in Names
  PROVE  Covered(names, value)[n] = IF n \in names /\ upTo[n] < value THEN value ELSE upTo[n]
BY DEF Covered

\* The deletion leaves nothing old of its tool without a mark.
LEMMA FlushDeleteFlush ==
  ASSUME AuthInv, FlushInv, NEW c \in Call, FlushDelete(c)
  PROVE  FlushInv'
<1> DEFINE n == Head(calls[c].todo)
           r == IF Tail(calls[c].todo) = <<>> THEN Answered(c, calls[c].origin)
                ELSE [calls[c] EXCEPT !.pc = "scan", !.keys = {}, !.todo = Tail(calls[c].todo)]
<1>1. /\ calls[c] \in CallStates /\ calls[c].pc = "delete" /\ calls[c].value \in Nat
      /\ calls[c].value <= erp
  BY DEF AuthInv, Typed, FlushDelete, At, CallStates, CallOK, Results
<1>2. /\ cache' = remove(cache, calls[c].keys) /\ upTo' = Covered({n}, calls[c].value)
      /\ UNCHANGED erp /\ calls' = [calls EXCEPT ![c] = r]
  BY DEF FlushDelete, Delete
<1>3. r.pc \notin {"store", "delete"}
  BY <1>1 DEF Answered, CallStates
<1>4. /\ Shrinks(cache, cache')
      /\ \A k \in Keys \cap calls[c].keys : cache'.items[k] = NoEntry
  BY <1>2, RemoveShrinks DEF AuthInv, Typed
<1>5. \A m \in Names : upTo'[m] = IF m = n /\ upTo[m] < calls[c].value THEN calls[c].value ELSE upTo[m]
  BY <1>1, <1>2, CoveredIs
<1> HIDE DEF r, n
<1>6. calls'[c] = r /\ \A d \in Call \ {c} : calls'[d] = calls[d]
  BY <1>2 DEF AuthInv, Typed
<1>7. StaleOnlyByOverlap'
  <2> SUFFICES ASSUME NEW k \in Keys, cache'.items[k] # NoEntry,
                      cache'.items[k].value < upTo'[k.name]
               PROVE  cache'.items[k].late
    BY <1>4 DEF StaleOnlyByOverlap, Present, Shrinks
  <2>1. k \notin calls[c].keys /\ cache'.items[k] = cache.items[k] /\ k.name \in Names
    BY <1>4 DEF Shrinks, Keys
  <2>2. CASE cache.items[k].value < upTo[k.name]
    BY <2>1, <2>2 DEF FlushInv, StaleOnlyByOverlap, Present, AuthInv, Typed
  <2>3. CASE ~(cache.items[k].value < upTo[k.name])
    <3>1. k.name = n /\ cache.items[k].value < calls[c].value
      BY <1>5, <2>1, <2>3
    <3> QED BY <1>1, <2>1, <3>1 DEF FlushInv, n
  <2> QED BY <2>2, <2>3
<1>8. \A d \in Call : calls'[d].pc = "store" /\ calls'[d].value < upTo'[calls'[d].tool.name] =>
                      calls'[d].late
  <2> SUFFICES ASSUME NEW d \in Call, calls'[d].pc = "store",
                      calls'[d].value < upTo'[calls'[d].tool.name]
               PROVE  calls'[d].late
    OBVIOUS
  <2>1. d # c /\ calls'[d] = calls[d]
    BY <1>3, <1>6
  <2>2. calls[d].tool.name \in Names
    BY <2>1 DEF AuthInv, CallOK, Names
  <2> QED BY <1>1, <1>5, <2>1, <2>2 DEF FlushInv, n
<1>9. \A b \in Call, k \in Keys :
       /\ calls'[b].pc = "delete" /\ k.name = Head(calls'[b].todo)
       /\ cache'.items[k] # NoEntry /\ cache'.items[k].value < calls'[b].value
       => cache'.items[k].late \/ k \in calls'[b].keys
  BY <1>3, <1>4, <1>6 DEF FlushInv, Shrinks
<1>10. \A b, d \in Call :
       /\ calls'[b].pc = "delete" /\ calls'[d].pc = "store"
       /\ calls'[d].tool.name = Head(calls'[b].todo) /\ calls'[d].value < calls'[b].value
       => calls'[d].late
  BY <1>3, <1>6 DEF FlushInv
<1>11. \A m \in Names : upTo'[m] <= erp'
  BY <1>1, <1>2, <1>5 DEF FlushInv
<1> QED BY <1>7, <1>8, <1>9, <1>10, <1>11 DEF FlushInv

\* A flush of everything leaves no entry, and marks every older result.
LEMMA FlushAllFlush ==
  ASSUME AuthInv, FlushInv, NEW c \in Call, handleCacheFlushAll(c)
  PROVE  FlushInv'
<1> DEFINE M == MarkLate(Names, erp)
           r == [Idle EXCEPT !.pc = "answered"]
<1>1. /\ cache' = remove(cache, DOMAIN cache.items) /\ upTo' = Covered(Names, erp)
      /\ UNCHANGED erp /\ erp \in Nat
  BY DEF handleCacheFlushAll, FlushAll, AuthInv, Typed
<1>2. calls' = [d \in Call |-> IF d = c THEN r ELSE M[d]] /\ r.pc = "answered"
  BY DEF handleCacheFlushAll, MarkLate, Idle
<1>3. \A k \in Keys : cache'.items[k] = NoEntry
  BY <1>1, RemoveShrinks DEF AuthInv, Typed
<1>4. DOMAIN cache'.items = Keys
  BY <1>1, RemoveShrinks DEF AuthInv, Typed, Shrinks
<1>5. \A m \in Names : upTo'[m] <= erp /\ upTo'[m] \in Nat
  BY <1>1, CoveredIs DEF FlushInv, AuthInv, Typed
<1>6. \A d \in Call :
        /\ M[d].pc = calls[d].pc /\ M[d].tool = calls[d].tool /\ M[d].value = calls[d].value
        /\ /\ calls[d].pc = "store" /\ calls[d].tool.name \in Names /\ calls[d].value < erp
           => M[d].late
  BY <1>1, MarkLateOK
<1>7. \A b \in Call : M[b].pc = "delete" => calls[b].value <= erp /\ calls[b].value \in Nat
  BY <1>6 DEF AuthInv, Typed, CallOK, CallStates, Results
<1>8. \A d \in Call : M[d].pc = "store" => /\ calls[d].tool.name \in Names
                                           /\ calls[d].value \in Nat
  BY <1>6 DEF AuthInv, Typed, CallOK, CallStates, Names
<1> HIDE DEF M, r
<1>9. calls'[c] = r /\ \A d \in Call \ {c} : calls'[d] = M[d]
  BY <1>2
<1>10. StaleOnlyByOverlap'
  BY <1>3, <1>4 DEF StaleOnlyByOverlap, Present
<1>11. \A d \in Call : calls'[d].pc = "store" /\ calls'[d].value < upTo'[calls'[d].tool.name] =>
                       calls'[d].late
  BY <1>1, <1>2, <1>5, <1>6, <1>8, <1>9
<1>12. \A b \in Call, k \in Keys :
       /\ calls'[b].pc = "delete" /\ k.name = Head(calls'[b].todo)
       /\ cache'.items[k] # NoEntry /\ cache'.items[k].value < calls'[b].value
       => cache'.items[k].late \/ k \in calls'[b].keys
  BY <1>3
<1>13. \A b, d \in Call :
       /\ calls'[b].pc = "delete" /\ calls'[d].pc = "store"
       /\ calls'[d].tool.name = Head(calls'[b].todo) /\ calls'[d].value < calls'[b].value
       => calls'[d].late
  <2> SUFFICES ASSUME NEW b \in Call, NEW d \in Call, calls'[b].pc = "delete",
                      calls'[d].pc = "store", calls'[d].value < calls'[b].value
               PROVE  calls'[d].late
    OBVIOUS
  <2>1. b # c /\ d # c /\ calls'[b] = M[b] /\ calls'[d] = M[d]
    BY <1>2, <1>9
  <2>2. calls[d].value < erp
    BY <1>1, <1>6, <1>7, <1>8, <2>1
  <2> QED BY <1>6, <1>8, <2>1, <2>2
<1> QED BY <1>1, <1>5, <1>10, <1>11, <1>12, <1>13 DEF FlushInv

\* Every step keeps FlushInv, unless a flush is bypassed.
LEMMA FlushStep == NoBypassedFlush /\ AuthInv /\ FlushInv /\ [Next]_vars => FlushInv'
<1> SUFFICES ASSUME NoBypassedFlush, AuthInv, FlushInv, [Next]_vars PROVE FlushInv'
  OBVIOUS
<1>1. CASE \/ Tick \/ handleCacheStats \/ UNCHANGED vars
           \/ \E t \in Token : CreateTokenRequest(t) \/ RevokeTokenRequest(t)
           \/ \E c \in Call : Arrive(c) \/ Lookup(c) \/ ExecuteFails(c)
  BY <1>1, QuietSteps
<1>2. ASSUME NEW c \in Call, \/ handleCacheFlushAll(c) \/ Execute(c) \/ Store(c)
                             \/ FlushScan(c) \/ FlushDelete(c)
      PROVE  FlushInv'
  BY <1>2, FlushAllFlush, ExecuteFlush, StoreFlush, FlushScanFlush, FlushDeleteFlush
<1> QED BY <1>1, <1>2 DEF Next

\* FlushInv holds initially.
LEMMA FlushInit == Init => FlushInv
BY DEF Init, FlushInv, StaleOnlyByOverlap, Present, Idle

\* If no tool with flushOn takes its credential from a file, then after
\* any flush the cache holds nothing older than the data the flush was for
\* but results whose calls overlapped it.
THEOREM StaleOnlyOverlapping ==
  ASSUME NoBypassedFlush
  PROVE  Spec => []StaleOnlyByOverlap
<1>1. AuthInv /\ FlushInv /\ [Next]_vars => AuthInv' /\ FlushInv'
  BY AuthStep, FlushStep
<1>2. Init => AuthInv /\ FlushInv
  BY AuthInit, FlushInit
<1>3. FlushInv => StaleOnlyByOverlap
  BY DEF FlushInv
<1> QED BY <1>1, <1>2, <1>3, PTL DEF Spec
-----------------------------------------------------------------------------
(* Types, bounds and the two structures of the cache *)

\* What AuthInv leaves open: who entries and results are from, and the bounds.
EntriesOK(items) ==
  \A k \in Keys : items[k] # NoEntry => items[k].origin \in Roles /\ items[k].value <= MaxWrites

CallRanged(call) == call.value <= MaxWrites /\ call.origin \in Roles

CacheInv ==
  /\ now <= MaxTicks /\ erp <= MaxWrites
  /\ \A n \in Names : upTo[n] <= MaxWrites
  /\ Bounded(cache) /\ EntriesOK(cache.items)
  /\ \A c \in Call : CallRanged(calls[c])

\* Entries that are left are as they were.
LEMMA ShrinkEntries ==
  ASSUME NEW c, NEW d, EntriesOK(c.items), Shrinks(c, d)
  PROVE  EntriesOK(d.items)
BY DEF EntriesOK, Shrinks

\* A step of one call keeps the ranges of the others.
LEMMA OneRanged ==
  ASSUME AuthInv, CacheInv, NEW c \in Call, NEW r, CallRanged(r),
         calls' = [calls EXCEPT ![c] = r]
  PROVE  \A d \in Call : CallRanged(calls'[d])
BY DEF AuthInv, Typed, CacheInv

\* An answered call is in range.
LEMMA AnsweredRanged ==
  ASSUME AuthInv, NEW c \in Call, NEW origin \in Roles
  PROVE  CallRanged(Answered(c, origin))
<1>1. Answered(c, origin).value = 0 /\ Answered(c, origin).origin = origin
  BY DEF Answered, AuthInv, Typed, CallStates
<1> QED BY <1>1, SessionAssumption DEF CallRanged

LEMMA CoveredRanged ==
  ASSUME AuthInv, CacheInv, NEW names, NEW value \in Nat, value <= MaxWrites
  PROVE  \A n \in Names : Covered(names, value)[n] <= MaxWrites
BY CoveredIs DEF CacheInv

\* The steps that only remove entries from the cache, if they touch it.
LEMMA RemoveKeeps ==
  ASSUME AuthInv, CacheInv, NEW keys, NEW c, c = remove(cache, keys)
  PROVE  Bounded(c) /\ EntriesOK(c.items)
<1>1. Shrinks(cache, c)
  BY RemoveShrinks DEF AuthInv, Typed
<1>2. EntriesOK(c.items)
  BY <1>1, ShrinkEntries DEF CacheInv
<1>3. Bounded(c)
  BY RemoveBounded DEF AuthInv, Typed, CacheInv
<1> QED BY <1>2, <1>3

\* The steps of a call, one by one.
LEMMA LookupRanged ==
  ASSUME AuthInv, CacheInv, NEW c \in Call, Lookup(c)
  PROVE  CacheInv'
<1> DEFINE key == exactRevisionKey(calls[c].tool, calls[c].role)
<1>1. /\ calls[c] \in CallStates /\ calls[c].tool \in Tools /\ calls[c].role \in Roles
  BY DEF AuthInv, Typed, Lookup, At, CallOK, CallStates
<1>2. key \in Keys
  BY <1>1, KeyOf
<1>3. /\ cache' = Get(cache, key, now)
      /\ UNCHANGED <<config, tokens, now, erp, upTo>>
  BY DEF Lookup
<1>4. \/ /\ Hit(cache, key, now)
         /\ calls' = [calls EXCEPT ![c] = Answered(c, cache.items[key].origin)]
      \/ calls' = [calls EXCEPT ![c] = [calls[c] EXCEPT !.pc = "execute"]]
  BY DEF Lookup
<1> HIDE DEF key
<1>5. Bounded(cache')
  BY <1>2, <1>3, GetBounded DEF AuthInv, Typed, CacheInv
<1>6. EntriesOK(cache'.items)
  <2>1. Shrinks(cache, cache')
    BY <1>2, <1>3, GetShrinks DEF AuthInv, Typed
  <2> QED BY <2>1, ShrinkEntries DEF CacheInv
<1>7. \A d \in Call : CallRanged(calls'[d])
  <2>1. CASE /\ Hit(cache, key, now)
             /\ calls' = [calls EXCEPT ![c] = Answered(c, cache.items[key].origin)]
    <3>1. cache.items[key].origin \in Roles
      BY <1>2, <2>1 DEF Hit, CacheInv, EntriesOK
    <3>2. CallRanged(Answered(c, cache.items[key].origin))
      BY <3>1, AnsweredRanged
    <3> QED BY <2>1, <3>2, OneRanged
  <2>2. CASE calls' = [calls EXCEPT ![c] = [calls[c] EXCEPT !.pc = "execute"]]
    <3>1. CallRanged([calls[c] EXCEPT !.pc = "execute"])
      BY <1>1 DEF CallStates, CacheInv, CallRanged
    <3> QED BY <2>2, <3>1, OneRanged
  <2> QED BY <1>4, <2>1, <2>2
<1> QED BY <1>3, <1>5, <1>6, <1>7 DEF CacheInv

LEMMA ExecuteRanged ==
  ASSUME AuthInv, CacheInv, NEW c \in Call, Execute(c)
  PROVE  CacheInv'
<1> DEFINE data == IF calls[c].tool.writes THEN erp + 1 ELSE erp
           r    == [calls[c] EXCEPT !.pc = AfterResult(calls[c].tool), !.value = data,
                                    !.origin = calls[c].role, !.todo = calls[c].tool.flushOn]
<1>1. calls[c] \in CallStates /\ calls[c].role \in Roles
  BY DEF AuthInv, Typed, CallStates
<1>2. data \in Nat /\ data <= MaxWrites
  BY SessionAssumption DEF AuthInv, Typed, CacheInv, Execute
<1>3. erp' = data /\ UNCHANGED <<config, tokens, now, cache>>
  BY DEF Execute
<1> HIDE DEF data
<1>4. CASE AfterResult(calls[c].tool) = "answered"
  <2>1. /\ calls' = [calls EXCEPT ![c] = Answered(c, calls[c].role)]
        /\ upTo' = Covered(FlushOn(calls[c].tool), data)
    BY <1>4 DEF Execute, data
  <2>2. \A n \in Names : upTo'[n] <= MaxWrites
    BY <1>2, <2>1, CoveredRanged
  <2>3. \A d \in Call : CallRanged(calls'[d])
    BY <1>1, <2>1, AnsweredRanged, OneRanged
  <2> QED BY <1>2, <1>3, <2>2, <2>3 DEF CacheInv
<1>5. CASE AfterResult(calls[c].tool) # "answered"
  <2>1. calls' = [calls EXCEPT ![c] = r] /\ UNCHANGED upTo
    BY <1>5, <1>1 DEF Execute, AuthInv, Typed, data
  <2>2. CallRanged(r)
    BY <1>1, <1>2 DEF CallStates, CallRanged
  <2> HIDE DEF r
  <2>3. \A d \in Call : CallRanged(calls'[d])
    BY <2>1, <2>2, OneRanged
  <2> QED BY <1>2, <1>3, <2>1, <2>3 DEF CacheInv
<1> QED BY <1>4, <1>5

LEMMA StoreRanged ==
  ASSUME AuthInv, CacheInv, NEW c \in Call, Store(c)
  PROVE  CacheInv'
<1> DEFINE key == exactRevisionKey(calls[c].tool, calls[c].role)
           r   == IF calls[c].todo = <<>> THEN Answered(c, calls[c].origin)
                  ELSE [calls[c] EXCEPT !.pc = "scan"]
<1>1. /\ calls[c] \in CallStates /\ key \in Keys /\ EntryOf(c) \in Stored
      /\ cache'.items[key] \in {EntryOf(c), NoEntry}
      /\ \A k \in Keys \ {key} : cache'.items[k] \in {cache.items[k], NoEntry}
  BY StoreSets
<1>2. /\ calls' = [calls EXCEPT ![c] = r] /\ UNCHANGED <<config, tokens, now, erp, upTo>>
      /\ cache' = Set(cache, key, EntryOf(c))
  BY DEF Store, EntryOf
<1>3. calls[c].origin \in Roles /\ calls[c].value <= MaxWrites
  BY DEF CacheInv, CallRanged
<1>4. /\ EntryOf(c).origin = calls[c].origin /\ EntryOf(c).value = calls[c].value
      /\ EntryOf(c) # NoEntry
  BY <1>3, SessionAssumption DEF EntryOf, NoEntry, Roles
<1> HIDE DEF key
<1>5. Bounded(cache')
  BY <1>1, <1>2, <1>4, SetBounded DEF AuthInv, Typed, CacheInv
<1>6. EntriesOK(cache'.items)
  BY <1>1, <1>3, <1>4 DEF EntriesOK, CacheInv
<1>7. CallRanged(r)
  <2>1. CASE calls[c].todo = <<>>
    BY <1>3, <2>1, AnsweredRanged
  <2>2. CASE calls[c].todo # <<>>
    BY <1>1, <1>3, <2>2 DEF CallStates, CallRanged
  <2> QED BY <2>1, <2>2
<1> HIDE DEF r
<1>8. \A d \in Call : CallRanged(calls'[d])
  BY <1>2, <1>7, OneRanged
<1> QED BY <1>2, <1>5, <1>6, <1>8 DEF CacheInv

LEMMA FlushScanRanged ==
  ASSUME AuthInv, CacheInv, NEW c \in Call, FlushScan(c)
  PROVE  CacheInv'
<1> DEFINE n == Head(calls[c].todo)
           M == MarkLate({n}, calls[c].value)
           r == [M[c] EXCEPT !.pc = "delete", !.keys = Matching(cache', n)]
<1>1. calls[c] \in CallStates /\ calls[c].pc = "scan" /\ calls[c].value \in Nat
  BY DEF AuthInv, Typed, FlushScan, At, CallStates
<1>2. cache' = Unexpired(cache, now) /\ UNCHANGED <<config, tokens, now, erp, upTo>>
  BY DEF FlushScan
<1>3. Bounded(cache') /\ EntriesOK(cache'.items)
  BY <1>2, RemoveKeeps DEF Unexpired
<1>4. M[c] = calls[c] /\ DOMAIN M = Call
  BY <1>1 DEF MarkLate, At
<1>5. calls' = [d \in Call |-> IF d = c THEN r ELSE M[d]]
  BY <1>4 DEF FlushScan, MarkLate
<1>6. r.value = calls[c].value /\ r.origin = calls[c].origin
  BY <1>1, <1>4 DEF CallStates
<1>7. \A d \in Call : M[d].value = calls[d].value /\ M[d].origin = calls[d].origin
  BY <1>1, MarkLateOK
<1> HIDE DEF r, M, n
<1>8. \A d \in Call : CallRanged(calls'[d])
  BY <1>5, <1>6, <1>7 DEF CacheInv, CallRanged
<1> QED BY <1>2, <1>3, <1>8 DEF CacheInv

LEMMA FlushDeleteRanged ==
  ASSUME AuthInv, CacheInv, NEW c \in Call, FlushDelete(c)
  PROVE  CacheInv'
<1> DEFINE r == IF Tail(calls[c].todo) = <<>> THEN Answered(c, calls[c].origin)
                ELSE [calls[c] EXCEPT !.pc = "scan", !.keys = {}, !.todo = Tail(calls[c].todo)]
<1>1. calls[c] \in CallStates /\ calls[c].value \in Nat
  BY DEF AuthInv, Typed, CallStates
<1>2. /\ cache' = remove(cache, calls[c].keys)
      /\ upTo' = Covered({Head(calls[c].todo)}, calls[c].value)
      /\ UNCHANGED <<config, tokens, now, erp>> /\ calls' = [calls EXCEPT ![c] = r]
  BY DEF FlushDelete, Delete
<1>3. calls[c].origin \in Roles /\ calls[c].value <= MaxWrites
  BY DEF CacheInv, CallRanged
<1>4. Bounded(cache') /\ EntriesOK(cache'.items)
  BY <1>2, RemoveKeeps
<1>5. \A n \in Names : upTo'[n] <= MaxWrites
  BY <1>1, <1>2, <1>3, CoveredRanged
<1>6. CallRanged(r)
  <2>1. CASE Tail(calls[c].todo) = <<>>
    BY <1>3, <2>1, AnsweredRanged
  <2>2. CASE Tail(calls[c].todo) # <<>>
    BY <1>1, <1>3, <2>2 DEF CallStates, CallRanged
  <2> QED BY <2>1, <2>2
<1> HIDE DEF r
<1>7. \A d \in Call : CallRanged(calls'[d])
  BY <1>2, <1>6, OneRanged
<1> QED BY <1>2, <1>4, <1>5, <1>7 DEF CacheInv

LEMMA FlushAllRanged ==
  ASSUME AuthInv, CacheInv, NEW c \in Call, handleCacheFlushAll(c)
  PROVE  CacheInv'
<1> DEFINE M == MarkLate(Names, erp)
           r == [Idle EXCEPT !.pc = "answered"]
<1>1. /\ cache' = remove(cache, DOMAIN cache.items) /\ upTo' = Covered(Names, erp)
      /\ UNCHANGED <<config, tokens, now, erp>> /\ erp \in Nat
  BY DEF handleCacheFlushAll, FlushAll, AuthInv, Typed
<1>2. calls' = [d \in Call |-> IF d = c THEN r ELSE M[d]]
  BY DEF handleCacheFlushAll, MarkLate
<1>3. CallRanged(r)
  BY SessionAssumption DEF CallRanged, Idle, Roles
<1>4. \A d \in Call : M[d].value = calls[d].value /\ M[d].origin = calls[d].origin
  BY <1>1, MarkLateOK
<1> HIDE DEF r, M
<1>5. \A d \in Call : CallRanged(calls'[d])
  BY <1>2, <1>3, <1>4 DEF CacheInv, CallRanged
<1>6. Bounded(cache') /\ EntriesOK(cache'.items)
  BY <1>1, RemoveKeeps
<1>7. \A n \in Names : upTo'[n] <= MaxWrites
  BY <1>1, CoveredRanged DEF CacheInv
<1> QED BY <1>1, <1>5, <1>6, <1>7 DEF CacheInv

\* Every step keeps the cache coherent and the numbers in range.
LEMMA CacheStep == AuthInv /\ CacheInv /\ [Next]_vars => CacheInv'
<1> SUFFICES ASSUME AuthInv, CacheInv, [Next]_vars PROVE CacheInv'
  OBVIOUS
<1>1. CASE UNCHANGED vars
  BY <1>1 DEF vars, CacheInv
<1>2. CASE Tick
  BY <1>2, SessionAssumption DEF Tick, CacheInv, AuthInv, Typed
<1>3. CASE handleCacheStats
  <2>1. Bounded(cache') /\ EntriesOK(cache'.items)
    BY <1>3, RemoveKeeps DEF handleCacheStats, Unexpired
  <2> QED BY <1>3, <2>1 DEF handleCacheStats, CacheInv
<1>4. CASE \E t \in Token : CreateTokenRequest(t) \/ RevokeTokenRequest(t)
  BY <1>4 DEF CreateTokenRequest, RevokeTokenRequest, CacheInv
<1>5. ASSUME NEW c \in Call, Arrive(c) PROVE CacheInv'
  <2>1. PICK r \in Entered : calls' = [calls EXCEPT ![c] = r]
    BY <1>5, ArriveOK
  <2>2. UNCHANGED <<config, tokens, now, cache, erp, upTo>>
    BY <1>5, ArriveOK
  <2>3. CallRanged(r)
    BY SessionAssumption DEF Entered, CallStates, CallRanged, Roles, AuthInv, Typed, CacheInv
  <2>4. \A d \in Call : CallRanged(calls'[d])
    BY <2>1, <2>3, OneRanged
  <2> QED BY <2>2, <2>4 DEF CacheInv
<1>6. ASSUME NEW c \in Call, ExecuteFails(c) PROVE CacheInv'
  <2>1. /\ erp' <= MaxWrites /\ UNCHANGED <<config, tokens, now, cache, upTo>>
        /\ calls' = [calls EXCEPT ![c] = [Idle EXCEPT !.pc = "failed"]]
    BY <1>6, SessionAssumption DEF ExecuteFails, CacheInv, AuthInv, Typed
  <2>2. CallRanged([Idle EXCEPT !.pc = "failed"])
    BY SessionAssumption DEF CallRanged, Idle, Roles
  <2>3. \A d \in Call : CallRanged(calls'[d])
    BY <2>1, <2>2, OneRanged
  <2> QED BY <2>1, <2>3 DEF CacheInv
<1>7. ASSUME NEW c \in Call, \/ handleCacheFlushAll(c) \/ Lookup(c) \/ Execute(c) \/ Store(c)
                             \/ FlushScan(c) \/ FlushDelete(c)
      PROVE  CacheInv'
  BY <1>7, FlushAllRanged, LookupRanged, ExecuteRanged, StoreRanged, FlushScanRanged,
     FlushDeleteRanged
<1> QED BY <1>1, <1>2, <1>3, <1>4, <1>5, <1>6, <1>7 DEF Next

\* An empty cache is coherent.
LEMMA CacheInit == Init => CacheInv
<1> SUFFICES ASSUME Init PROVE CacheInv
  OBVIOUS
<1>1. Present(cache) = {} /\ cache.order = <<>>
  BY DEF Init, Present
<1>2. Bounded(cache)
  BY <1>1, CacheAssumption DEF Bounded, Lists
<1>3. CallRanged(Idle)
  BY SessionAssumption DEF CallRanged, Idle, Roles
<1> QED BY <1>2, <1>3, SessionAssumption DEF Init, CacheInv, EntriesOK

\* The two invariants together are the type invariant.
LEMMA CacheTyped == AuthInv /\ CacheInv => TypeOK
<1> SUFFICES ASSUME AuthInv, CacheInv PROVE TypeOK
  OBVIOUS
<1>1. tokens \in [Token -> [stored : BOOLEAN, roles : SUBSET Role, scopes : SUBSET {"mcp", "logs"},
                           expires : Nat, revoked : BOOLEAN]]
  BY DEF AuthInv, Typed, Rows
<1>2. now \in 0 .. MaxTicks /\ erp \in Versions /\ upTo \in [Names -> Versions]
  BY SessionAssumption DEF AuthInv, Typed, CacheInv, Versions
<1>3. cache.items \in [Keys -> Entries \cup {NoEntry}]
  <2>1. ASSUME NEW k \in Keys, cache.items[k] # NoEntry PROVE cache.items[k] \in Entries
    <3>1. /\ cache.items[k] \in Stored /\ cache.items[k].origin \in Roles
          /\ cache.items[k].value \in Versions
      BY <2>1, SessionAssumption DEF AuthInv, Typed, CacheInv, EntriesOK, Stored, Versions
    <3> QED BY <3>1 DEF Stored, Entries
  <2> QED BY <2>1 DEF AuthInv, Typed
<1>4. /\ {cache.order[i] : i \in DOMAIN cache.order} = Present(cache)
      /\ Len(cache.order) <= MaxCached
      /\ \A i, j \in DOMAIN cache.order : cache.order[i] = cache.order[j] => i = j
  BY DEF CacheInv, Bounded, Lists
<1>5. ASSUME NEW c \in Call
      PROVE  /\ calls[c].tool \in Tools \cup {NoTool} /\ calls[c].value \in Versions
             /\ calls[c].role \in Roles /\ calls[c].origin \in Roles /\ calls[c].keys \subseteq Keys
  BY SessionAssumption DEF AuthInv, Typed, CallStates, CacheInv, CallRanged, Versions
<1> QED BY <1>1, <1>2, <1>3, <1>4, <1>5 DEF TypeOK

\* Whatever calls, flushes, expiries and evictions interleave, the map and the
\* list of the memory backend hold the same keys, each once, and no more than
\* its capacity; and every part of the state has its type.
THEOREM CacheCoherent == Spec => []TypeOK
<1>1. AuthInv /\ CacheInv /\ [Next]_vars => AuthInv' /\ CacheInv'
  BY AuthStep, CacheStep
<1>2. Init => AuthInv /\ CacheInv
  BY AuthInit, CacheInit
<1> QED BY <1>1, <1>2, CacheTyped, PTL DEF Spec
=============================================================================
