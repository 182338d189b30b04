---------------------------- MODULE GuardedCache ----------------------------
(***************************************************************************)
(* Authenticated calls and the cache they share.                           *)
(*                                                                         *)
(* A call is authenticated and authorized when it arrives, looks in the    *)
(* cache, calls the ERP, stores what it got and flushes the tools its own  *)
(* tool names: the cache is locked for each of these steps only, and other *)
(* calls, cache flushes, token changes and the clock run between them.     *)
(* The ERP's data is the number of writes it has seen.                     *)
(*                                                                         *)
(* The lifecycle generation does not move here (PluginCache is about that) *)
(* and limiters, retries and plugins are those of CallPath.  upTo, late,   *)
(* origin, held and dead are not in the code: they remember what the       *)
(* properties are about.                                                   *)
(***************************************************************************)
EXTENDS Access, ResponseCache

CONSTANTS Call,           \* calls and cache flushes
          Tools,          \* the tools, each a record of its specification
          TokenRequests,  \* what tokens may be created with
          FlushRequests,  \* the names that a flush of a tool or module reads
          MaxTicks,       \* bound on the clock
          MaxWrites       \* bound on the writes of the ERP

Names  == {t.name : t \in Tools}
Scopes == Role \cup {"shared", "anonymous"}
Keys   == [name : Names, scope : Scopes]

\* metadata, security and cache of a tool specification.
ToolSpecs ==
  [name : STRING, allowed : SUBSET Role, cache : BOOLEAN, enabled : BOOLEAN, ttl : Nat,
   shared : BOOLEAN, flushOn : Seq(Names), fileBacked : BOOLEAN, writes : BOOLEAN]

ASSUME SessionAssumption ==
  /\ MaxTicks \in Nat /\ MaxWrites \in Nat
  /\ Role \cap {"none", "nobody"} = {} /\ Token \cap {"admin", "none"} = {}
  /\ Tools \subseteq ToolSpecs /\ "none" \notin Names
  /\ \A t, u \in Tools : t.name = u.name => t = u
  /\ FlushRequests \subseteq Seq(Names) \ {<<>>}
  /\ TokenRequests \subseteq [roles : SUBSET Role, scopes : SUBSET {"mcp", "logs"}, expires : Nat]

VARIABLES config,  \* API_AUTH_TOKEN and API_AUTH_ADMIN_ROLES of the process
          tokens,  \* api_tokens
          now,     \* the clock
          cache,   \* MemoryBackend
          erp,     \* the writes the ERP has seen
          calls,   \* per call: where it is and what it holds
          upTo     \* per tool name: the newest write that a flush has covered

vars == <<config, tokens, now, cache, erp, calls, upTo>>

NoTool == [name |-> "none", allowed |-> {}, cache |-> FALSE, enabled |-> FALSE, ttl |-> 0,
           shared |-> FALSE, flushOn |-> <<>>, fileBacked |-> FALSE, writes |-> FALSE]

Idle == [pc |-> "idle", tool |-> NoTool, role |-> "none", held |-> {}, dead |-> FALSE,
         value |-> 0, origin |-> "none", late |-> FALSE, todo |-> <<>>, keys |-> {}]

Init ==
  /\ config \in {f \in [enabled : BOOLEAN, valid : BOOLEAN, roles : {{}, Role}] :
                   f.roles = {} \/ (f.enabled /\ f.valid)}
  /\ tokens = [t \in Token |-> NoRow]
  /\ now = 0 /\ erp = 0
  /\ cache = [items |-> [k \in Keys |-> NoEntry], order |-> <<>>]
  /\ calls = [c \in Call |-> Idle]
  /\ upTo = [n \in Names |-> 0]

-----------------------------------------------------------------------------
(* The token API and the clock *)

\* handleTokenAPI lets the administrator in, and everyone if authentication
\* is off.
AdminWorks == authenticateHTTP(config, tokens, now, "admin", "none", TRUE).status = "ok"

CreateTokenRequest(t) ==
  \E request \in TokenRequests :
    /\ AdminWorks /\ ~tokens[t].stored /\ mayCreate(request, now)
    /\ tokens' = CreateToken(tokens, t, request)
    /\ UNCHANGED <<config, now, cache, erp, calls, upTo>>

RevokeTokenRequest(t) ==
  /\ AdminWorks /\ tokens[t].stored /\ ~tokens[t].revoked
  /\ tokens' = RevokeToken(tokens, t)
  /\ UNCHANGED <<config, now, cache, erp, calls, upTo>>

Tick ==
  /\ now < MaxTicks
  /\ now' = now + 1
  /\ UNCHANGED <<config, tokens, cache, erp, calls, upTo>>

-----------------------------------------------------------------------------
(* A call arrives *)

\* A credential that was no longer good when it was presented.
Dead(presented) ==
  /\ config.enabled /\ presented \in Token
  /\ LET row == tokens[presented]
     IN  ~row.stored \/ row.revoked \/ (row.expires # 0 /\ now >= row.expires)

Refuse(c) == [calls EXCEPT ![c] = [Idle EXCEPT !.pc = "refused"]]

cacheBypassedForCredential(tool) == tool.fileBacked

\* CacheMiddleware only passes the call on, or it reads and stores.
Passed(tool) == ~tool.cache \/ cacheBypassedForCredential(tool)
Cached(tool) == ~Passed(tool) /\ tool.enabled

Enter(c, tool, selector, identity, presented) ==
  calls' = [calls EXCEPT ![c] =
              [Idle EXCEPT !.pc = IF Cached(tool) THEN "lookup" ELSE "execute", !.tool = tool,
                           !.role = IF tool.allowed = {} THEN "none" ELSE selector,
                           !.held = identity.roles, !.dead = Dead(presented)]]

\* tools/call: scope mcp, the role in the arguments.
CallTool(c, tool, presented, selector) ==
  LET identity == authenticateHTTP(config, tokens, now, presented, "mcp", FALSE)
  IN  /\ calls[c] = Idle
      /\ IF identity.status = "ok" /\ RoleAuthzMiddleware(identity, tool.allowed, selector)
         THEN Enter(c, tool, selector, identity, presented)
         ELSE calls' = Refuse(c)
      /\ UNCHANGED <<config, tokens, now, cache, erp, upTo>>

\* POST /api/tools/invoke: the administrator only, the role in a header; the
\* same middleware follows.
handleDirectInvoke(c, tool, presented, selector) ==
  LET identity == authenticateHTTP(config, tokens, now, presented, "none", TRUE)
  IN  /\ calls[c] = Idle
      /\ IF /\ identity.status = "ok"
            /\ authorizeDirectInvoke(identity, tool.allowed, selector)
            /\ RoleAuthzMiddleware(identity, tool.allowed, selector)
         THEN Enter(c, tool, selector, identity, presented)
         ELSE calls' = Refuse(c)
      /\ UNCHANGED <<config, tokens, now, cache, erp, upTo>>

-----------------------------------------------------------------------------
(* CacheMiddleware *)

At(c, pc) == calls[c].pc = pc

Covered(names, value) ==
  [n \in Names |-> IF n \in names /\ upTo[n] < value THEN value ELSE upTo[n]]

FlushOn(tool) == {tool.flushOn[i] : i \in DOMAIN tool.flushOn}

\* The answer with a result; what was needed on the way is forgotten.
Answered(c, origin) ==
  [calls[c] EXCEPT !.pc = "answered", !.origin = origin, !.value = 0, !.late = FALSE,
                   !.todo = <<>>, !.keys = {}]

Lookup(c) ==
  LET key == exactRevisionKey(calls[c].tool, calls[c].role)
  IN  /\ At(c, "lookup")
      /\ cache' = Get(cache, key, now)
      /\ calls' = [calls EXCEPT ![c] = IF Hit(cache, key, now)
                                       THEN Answered(c, cache.items[key].origin)
                                       ELSE [@ EXCEPT !.pc = "execute"]]
      /\ UNCHANGED <<config, tokens, now, erp, upTo>>

\* What follows a result: storing it, flushing, or the answer.
AfterResult(tool) ==
  IF Cached(tool) THEN "store"
  ELSE IF ~Passed(tool) /\ tool.flushOn # <<>> THEN "scan" ELSE "answered"

\* The call of the ERP succeeds.
Execute(c) ==
  LET tool == calls[c].tool
      data == IF tool.writes THEN erp + 1 ELSE erp
  IN  /\ At(c, "execute")
      /\ tool.writes => erp < MaxWrites
      /\ erp' = data
      /\ IF AfterResult(tool) = "answered"
         THEN /\ calls' = [calls EXCEPT ![c] = Answered(c, calls[c].role)]
              /\ upTo' = Covered(FlushOn(tool), data)
         ELSE /\ calls' = [calls EXCEPT ![c].pc = AfterResult(tool), ![c].value = data,
                                        ![c].origin = calls[c].role, ![c].todo = tool.flushOn]
              /\ UNCHANGED upTo
      /\ UNCHANGED <<config, tokens, now, cache>>

\* It fails: the caller gets the error, though a write may have happened.
ExecuteFails(c) ==
  /\ At(c, "execute")
  /\ \/ UNCHANGED erp
     \/ calls[c].tool.writes /\ erp < MaxWrites /\ erp' = erp + 1
  /\ calls' = [calls EXCEPT ![c] = [Idle EXCEPT !.pc = "failed"]]
  /\ UNCHANGED <<config, tokens, now, cache, upTo>>

Store(c) ==
  LET call == calls[c]
  IN  /\ At(c, "store")
      /\ cache' = Set(cache, exactRevisionKey(call.tool, call.role),
                      [value |-> call.value, origin |-> call.origin, late |-> call.late,
                       expires |-> IF call.tool.ttl = 0 THEN 0 ELSE now + call.tool.ttl])
      /\ calls' = [calls EXCEPT ![c] = IF call.todo = <<>> THEN Answered(c, call.origin)
                                       ELSE [call EXCEPT !.pc = "scan"]]
      /\ UNCHANGED <<config, tokens, now, erp, upTo>>

-----------------------------------------------------------------------------
(* Flushing *)

\* Results older than a flush that their calls have yet to store.
MarkLate(names, value) ==
  [d \in Call |-> IF /\ At(d, "store") /\ calls[d].tool.name \in names
                     /\ calls[d].value < value
                  THEN [calls[d] EXCEPT !.late = TRUE] ELSE calls[d]]

\* scanAndDelete of the next tool: the keys are read, and deleted afterwards.
FlushScan(c) ==
  /\ At(c, "scan")
  /\ cache' = Unexpired(cache, now)
  /\ calls' = [MarkLate({Head(calls[c].todo)}, calls[c].value) EXCEPT
                 ![c].pc = "delete", ![c].keys = Matching(cache', Head(calls[c].todo))]
  /\ UNCHANGED <<config, tokens, now, erp, upTo>>

FlushDelete(c) ==
  LET call == calls[c]
  IN  /\ At(c, "delete")
      /\ cache' = Delete(cache, call.keys)
      /\ upTo' = Covered({Head(call.todo)}, call.value)
      /\ calls' = [calls EXCEPT ![c] =
                     IF Tail(call.todo) = <<>> THEN Answered(c, call.origin)
                     ELSE [call EXCEPT !.pc = "scan", !.keys = {}, !.todo = Tail(@)]]
      /\ UNCHANGED <<config, tokens, now, erp>>

\* GET /api/cache/flush for a tool or for the tools of a module.
handleCacheFlush(c, presented, names) ==
  /\ calls[c] = Idle
  /\ calls' = IF authenticateHTTP(config, tokens, now, presented, "none", TRUE).status = "ok"
              THEN [calls EXCEPT ![c] = [Idle EXCEPT !.pc = "scan", !.todo = names, !.value = erp]]
              ELSE Refuse(c)
  /\ UNCHANGED <<config, tokens, now, cache, erp, upTo>>

\* For all tools: one critical section.
handleCacheFlushAll(c) ==
  /\ calls[c] = Idle /\ AdminWorks
  /\ cache' = FlushAll(cache)
  /\ calls' = [MarkLate(Names, erp) EXCEPT ![c] = [Idle EXCEPT !.pc = "answered"]]
  /\ upTo' = Covered(Names, erp)
  /\ UNCHANGED <<config, tokens, now, erp>>

\* GET /api/cache/stats drops what has expired before it counts.
handleCacheStats ==
  /\ AdminWorks /\ cache # Unexpired(cache, now)
  /\ cache' = Unexpired(cache, now)
  /\ UNCHANGED <<config, tokens, now, erp, calls, upTo>>

-----------------------------------------------------------------------------
Arrive(c) ==
  \E presented \in Credentials :
    \/ \E tool \in Tools, selector \in Selectors :
         \/ CallTool(c, tool, presented, selector)
         \/ handleDirectInvoke(c, tool, presented, selector)
    \/ \E names \in FlushRequests : handleCacheFlush(c, presented, names)

Next ==
  \/ Tick \/ handleCacheStats
  \/ \E t \in Token : CreateTokenRequest(t) \/ RevokeTokenRequest(t)
  \/ \E c \in Call :
       \/ Arrive(c) \/ handleCacheFlushAll(c)
       \/ Lookup(c) \/ Execute(c) \/ ExecuteFails(c) \/ Store(c)
       \/ FlushScan(c) \/ FlushDelete(c)

Spec == Init /\ [][Next]_vars

-----------------------------------------------------------------------------
(* Properties *)

Roles    == Role \cup {"none"}
Versions == 0 .. MaxWrites
Entries  == [value : Versions, expires : Nat, origin : Roles, late : BOOLEAN]

\* Types; the map and the list of the cache hold the same keys, and no more
\* than its capacity.
TypeOK ==
  /\ tokens \in [Token -> [stored : BOOLEAN, roles : SUBSET Role, scopes : SUBSET {"mcp", "logs"},
                           expires : Nat, revoked : BOOLEAN]]
  /\ now \in 0 .. MaxTicks /\ erp \in Versions /\ upTo \in [Names -> Versions]
  /\ cache.items \in [Keys -> Entries \cup {NoEntry}]
  /\ {cache.order[i] : i \in DOMAIN cache.order} = Present(cache)
  /\ Len(cache.order) <= MaxCached
  /\ \A i, j \in DOMAIN cache.order : cache.order[i] = cache.order[j] => i = j
  /\ \A c \in Call :
       /\ calls[c].tool \in Tools \cup {NoTool} /\ calls[c].value \in Versions
       /\ calls[c].role \in Roles /\ calls[c].origin \in Roles /\ calls[c].keys \subseteq Keys

\* "Revocation is immediate": a call that presented a token after it was
\* revoked or had expired gets no further than authenticateHTTP, in
\* particular not to a result another call left in the cache.
RevocationIsImmediate == \A c \in Call : calls[c].dead => calls[c].pc \in {"idle", "refused"}

\* A result of a guarded tool, fetched or cached, reaches a caller only for a
\* role that the tool allows and that the caller's identity had; one from a
\* cache that is not shared was fetched for the same role.
AnswersAreAuthorized ==
  \A c \in Call :
    LET call == calls[c]
    IN  call.pc = "answered" /\ call.tool.allowed # {} =>
          /\ call.role \in call.tool.allowed \cap call.held
          /\ call.tool.shared \/ call.origin = call.role

\* Once a flush, automatic after a tool with flushOn or by hand, has been
\* answered, the cache holds nothing of the flushed tools that is older than
\* the data the flush was for, except what a call had fetched before the
\* flush and stored after it.
StaleOnlyByOverlap ==
  \A k \in Present(cache) : cache.items[k].value < upTo[k.name] => cache.items[k].late
=============================================================================
