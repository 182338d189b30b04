----------------------------- MODULE PluginCache -----------------------------
(***************************************************************************)
(* Plugins, their bindings and the response cache of one HTTP server.      *)
(*                                                                         *)
(* A binding attaches a plugin to one exact tool revision; the response of *)
(* that tool is transformed by the bound plugins before it is cached.  The *)
(* lifecycle handlers and the controller hold pluginLifecycleMu for        *)
(* writing from start to end: they flush the cache of the affected tools,  *)
(* save, and reconcile (count a lifecycle generation, flush, replace the   *)
(* runtime snapshot).  A call holds the same lock for reading only while   *)
(* it looks the cache up and while it stores its result, and compares      *)
(* generations in between.  The plugin registry has a lock of its own, so  *)
(* a call reads bindings while a handler runs, and in two reads.           *)
(*                                                                         *)
(* The generation only grows and is only compared for equality with the    *)
(* one a call kept, so the model keeps, per call, whether it is still the  *)
(* same.  As in ToolStore, a row's `at' is its updated_at stamp and the    *)
(* state hash is the value of the tables.                                  *)
(***************************************************************************)
EXTENDS Naturals, FiniteSets

CONSTANTS Tool,        \* exact tool revisions
          NameOf,      \* the tool name of each, by which the cache is flushed
          Plugin,      \* exact plugin versions
          PluginSpec,  \* plugin specifications
          Binding,     \* binding names
          RawAllowed,  \* specifications admitted for raw responses; every
                       \* tool is an HTTP tool with an object output schema
          FileBacked,  \* specifications with a file-backed credential
          Call,        \* concurrent callers
          Poison,      \* tools whose version the registry refuses
          Seed,        \* the tables the first process starts with
          FailPoints,  \* operations that may fail in this deployment
          HardDeletes, \* operators use hard deletes
          Persistent,  \* the cache outlives the process (Redis)
          MaxWrites,   \* bound on the saves of a behaviour
          MaxFaults,   \* bound on the failures and crashes
          None

ASSUME PluginCacheAssumption ==
  /\ RawAllowed \subseteq PluginSpec /\ FileBacked \subseteq PluginSpec
  /\ None \notin Tool \cup Plugin \cup PluginSpec
  /\ Poison \subseteq Tool
  /\ HardDeletes \in BOOLEAN /\ Persistent \in BOOLEAN
  /\ MaxWrites \in Nat /\ MaxFaults \in Nat
  /\ FailPoints \subseteq {"flush", "save", "read", "crash"}

VARIABLES
  db,        \* the plugins, plugin_bindings and tools tables (durable)
  now,       \* the stamp of the latest save
  snap,      \* s.pluginRegistry: the bindings in force for each tool
  lastHash,  \* s.lastDesiredHash
  cache,     \* the cached result of each tool, as the bindings that made it
  op, pc,    \* the writer of pluginLifecycleMu and where it is
  targets,   \* tools whose cache the handler flushes first
  write,     \* the tables the handler saves, or None where the store refuses
  hash,      \* currentHash of a reconcile pass
  next,      \* its nextSnapshot
  call,      \* each caller
  faults     \* failures still to come

opVars == <<op, pc, targets, write, hash, next>>
vars == <<db, now, snap, lastHash, cache, opVars, call, faults>>

-----------------------------------------------------------------------------
Phases == {"raw", "after"}

PluginRow  == [spec : PluginSpec \cup {None}, active : BOOLEAN, at : Nat]
BindingRow == [tool : Tool \cup {None}, plugin : Plugin \cup {None},
               phase : Phases, active : BOOLEAN, at : Nat]
ToolRow    == [active : BOOLEAN, at : Nat]
Tables     == [plugins : [Plugin -> PluginRow], bindings : [Binding -> BindingRow],
               tools : [Tool -> ToolRow]]

NoPlugin  == [spec |-> None, active |-> FALSE, at |-> 0]
NoBinding == [tool |-> None, plugin |-> None, phase |-> "after",
              active |-> FALSE, at |-> 0]
NoToolRow == [active |-> FALSE, at |-> 0]

EmptyTables == [plugins  |-> [p \in Plugin |-> NoPlugin],
                bindings |-> [b \in Binding |-> NoBinding],
                tools    |-> [t \in Tool |-> NoToolRow]]

\* Tables the store can have written: a plugin row holds a specification, an
\* active binding names a tool and a plugin version that is stored.
WellFormed(D) ==
  /\ \A p \in Plugin : D.plugins[p].active => D.plugins[p].spec # None
  /\ \A b \in Binding : D.bindings[b].active =>
       /\ D.bindings[b].tool # None /\ D.bindings[b].plugin # None
       /\ D.plugins[D.bindings[b].plugin].spec # None

\* Rows that exist have a stamp; those of Seed are stamped 1.
ASSUME SeedAssumption == Seed \in Tables /\ WellFormed(Seed) /\ None \notin Tables

\* ActivePluginBinding: a binding with the plugin resource it resolved to.
ActiveBinding == [binding : Binding, spec : PluginSpec, phase : Phases]
Snapshot      == [Tool -> SUBSET ActiveBinding]
EmptySnapshot == [t \in Tool |-> {}]

\* A result is known by the bindings each phase was processed with.
Result == [raw : SUBSET ActiveBinding, after : SUBSET ActiveBinding]

Stages   == {"idle", "resolved", "checked", "missed", "raw", "executing"}
CallType == [stage : Stages, tool : Tool \cup {None}, same : BOOLEAN,
             raw : SUBSET ActiveBinding, after : SUBSET ActiveBinding]
NoCall   == [stage |-> "idle", tool |-> None, same |-> FALSE, raw |-> {}, after |-> {}]

TypeOK ==
  /\ db \in Tables
  /\ now \in Nat
  /\ snap \in Snapshot
  /\ lastHash \in Tables \cup {None}
  /\ cache \in [Tool -> Result \cup {None}]
  /\ op \in {"idle", "handler", "tick", "boot", "down"}
  /\ pc \in {"idle", "flush", "save", "hash", "list", "reflush", "swap", "sync"}
  /\ targets \in SUBSET Tool
  /\ write \in Tables \cup {None}
  /\ hash \in Tables \cup {None}
  /\ next \in Snapshot
  /\ call \in [Call -> CallType]
  /\ faults \in Nat

Init ==
  /\ db = Seed /\ now = 1
  /\ snap = EmptySnapshot /\ lastHash = None
  /\ cache = [t \in Tool |-> None]
  /\ op = "boot" /\ pc = "hash"
  /\ targets = {} /\ write = None /\ hash = None /\ next = EmptySnapshot
  /\ call = [c \in Call |-> NoCall]
  /\ faults = MaxFaults

-----------------------------------------------------------------------------
(* Helpers *)

Fault(point) == point \in FailPoints /\ faults > 0 /\ faults' = faults - 1

Goto(step) == pc' = step /\ UNCHANGED op

Finish ==
  /\ op' = "idle" /\ pc' = "idle"
  /\ targets' = {} /\ write' = None /\ hash' = None /\ next' = EmptySnapshot

SameName(t, u) == NameOf[t] = NameOf[u]

\* flushPluginBindingTargets: every revision of the named tools.
Flushed(T) == [t \in Tool |-> IF \E u \in T : SameName(t, u) THEN None ELSE cache[t]]

\* Binding b is in force for tool t: everything it names is active, and a raw
\* binding passes rawBindingRuntimeAdmission.
Bound(D, b, t) ==
  /\ D.bindings[b].active /\ D.bindings[b].tool = t
  /\ D.tools[t].active
  /\ D.plugins[D.bindings[b].plugin].active
  /\ D.bindings[b].phase = "raw" => D.plugins[D.bindings[b].plugin].spec \in RawAllowed

\* buildPluginBindingSnapshot; the order of the bindings of a tool is left out.
Build(D) ==
  [t \in Tool |-> {[binding |-> b, spec |-> D.plugins[D.bindings[b].plugin].spec,
                    phase |-> D.bindings[b].phase] :
                     b \in {e \in Binding : Bound(D, e, t)}}]

\* RuntimeBindingsForToolPhase
InPhase(S, ph) == {a \in S : a.phase = ph}

\* The result the bindings in force for t produce.
ResultOf(S, t) == [raw |-> InPhase(S[t], "raw"), after |-> InPhase(S[t], "after")]

\* cacheBypassedForCredential for the plugins of a tool.
Bypassed(t) == \E a \in snap[t] : a.spec \in FileBacked

BoundTools(S) == {t \in Tool : S[t] # {}}

-----------------------------------------------------------------------------
(***************************************************************************)
(* The lifecycle handlers.  Under the lock nobody else writes the tables,  *)
(* so a handler's save is determined when it starts.  One whose first      *)
(* lookup fails ends with no effect.                                       *)
(***************************************************************************)
Begin(T, D) ==
  /\ op = "idle" /\ now < MaxWrites
  /\ op' = "handler" /\ pc' = "flush"
  /\ targets' = T /\ write' = D
  /\ UNCHANGED <<db, now, snap, lastHash, cache, hash, next, call, faults>>

\* bindingsReferencingPlugin, inactive rows included.
PluginTargets(p) ==
  {t \in Tool : \E b \in Binding : db.bindings[b].plugin = p /\ db.bindings[b].tool = t}

\* handlePluginApply: the specification of a version is replaced in place.
PluginApply(p, s) ==
  Begin(PluginTargets(p),
        [db EXCEPT !.plugins[p] = [spec |-> s, active |-> TRUE, at |-> now + 1]])

\* Mutation of HasActiveBinding: the hard delete does not look.
ActiveBindingIgnored(p) == FALSE

HasActiveBinding(p) ==
  \E b \in Binding : db.bindings[b].plugin = p /\ db.bindings[b].active

\* handlePluginDelete: a soft delete of a version with bindings is allowed, a
\* hard one is refused (409).
PluginDelete(p, hard) ==
  /\ hard => HardDeletes
  /\ Begin(PluginTargets(p),
           CASE hard /\ ~HasActiveBinding(p) -> [db EXCEPT !.plugins[p] = NoPlugin]
             [] ~hard /\ db.plugins[p].spec # None ->
                  [db EXCEPT !.plugins[p].active = FALSE, !.plugins[p].at = now + 1]
             [] OTHER -> None)

\* Mutation of BindingTargets: the lookup's "not found" is not told apart.
BindingTargetsUnchecked(b, t) == {t, db.bindings[b].tool}

\* The tool of the request and that of the stored binding, if there is one.
BindingTargets(b, t) == {t} \cup ({db.bindings[b].tool} \cap Tool)

\* handlePluginBindingApply, past validatePluginBindingReferences; a binding
\* name may move from one tool to another.
BindingApply(b, t, p, ph) ==
  /\ db.plugins[p].active /\ db.tools[t].active
  /\ ph = "raw" => db.plugins[p].spec \in RawAllowed
  /\ Begin(BindingTargets(b, t),
           [db EXCEPT !.bindings[b] = [tool |-> t, plugin |-> p, phase |-> ph,
                                       active |-> TRUE, at |-> now + 1]])

\* handlePluginBindingDelete of a known binding.
BindingDelete(b, hard) ==
  /\ db.bindings[b].tool # None
  /\ hard => HardDeletes
  /\ Begin({db.bindings[b].tool},
           IF hard THEN [db EXCEPT !.bindings[b] = NoBinding]
                   ELSE [db EXCEPT !.bindings[b].active = FALSE,
                                   !.bindings[b].at = now + 1])

\* ListPluginBindingsForTool
ToolTargets(t) == {u \in {t} : \E b \in Binding : db.bindings[b].tool = t}

\* handleToolApply, as far as bindings are concerned.
ToolApply(t) ==
  Begin(ToolTargets(t), [db EXCEPT !.tools[t] = [active |-> TRUE, at |-> now + 1]])

\* handleToolDelete, as far as bindings are concerned.
ToolDelete(t, hard) ==
  /\ hard => HardDeletes
  /\ Begin(ToolTargets(t),
           CASE hard -> [db EXCEPT !.tools[t] = NoToolRow]
             [] ~hard /\ db.tools[t].at > 0 ->
                  [db EXCEPT !.tools[t] = [active |-> FALSE, at |-> now + 1]]
             [] OTHER -> None)

FlushTargets ==
  /\ pc = "flush"
  /\ cache' = Flushed(targets)
  /\ Goto("save")
  /\ UNCHANGED <<db, now, snap, lastHash, targets, write, hash, next, call,
                 faults>>

\* Every target is tried; those that failed keep their entries: 500.
FlushFails ==
  /\ pc = "flush"
  /\ Fault("flush")
  /\ \E T \in SUBSET targets : cache' = Flushed(T)
  /\ Finish
  /\ UNCHANGED <<db, now, snap, lastHash, call>>

\* The handler applies a tool the registry refuses: handleToolApply answers 202
\* without reconciling.
RefusedTool ==
  \E t \in Poison : write.tools[t].active /\ write.tools[t] # db.tools[t]

Save ==
  /\ pc = "save" /\ write # None
  /\ db' = write
  /\ now' = now + 1
  /\ IF RefusedTool
     THEN Finish
     ELSE Goto("hash") /\ UNCHANGED <<targets, write, hash, next>>
  /\ UNCHANGED <<snap, lastHash, cache, call, faults>>

\* The store refuses or fails.
SaveFails ==
  /\ pc = "save"
  /\ (write = None /\ UNCHANGED faults) \/ Fault("save")
  /\ Finish
  /\ UNCHANGED <<db, now, snap, lastHash, cache, call>>

-----------------------------------------------------------------------------
(* reconcileLocked, as far as plugins are concerned                        *)

Tick ==
  /\ op = "idle"
  /\ op' = "tick" /\ pc' = "hash"
  /\ UNCHANGED <<db, now, snap, lastHash, cache, targets, write, hash, next,
                 call, faults>>

ReconcileSkip ==
  /\ pc = "hash" /\ db = lastHash
  /\ Finish
  /\ UNCHANGED <<db, now, snap, lastHash, cache, call, faults>>

ReconcileHash ==
  /\ pc = "hash" /\ db # lastHash
  /\ hash' = db
  /\ Goto("list")
  /\ UNCHANGED <<db, now, snap, lastHash, cache, targets, write, next, call,
                 faults>>

\* The listings, and the lifecycle generation.
ReconcileList ==
  /\ pc = "list"
  /\ next' = Build(db)
  /\ call' = [c \in Call |-> [call[c] EXCEPT !.same = FALSE]]
  /\ Goto("reflush")
  /\ UNCHANGED <<db, now, snap, lastHash, cache, targets, write, hash, faults>>

\* Mutation of ReconcileReadFails: the pass counts as done.
ReconcileReadFailsRecorded ==
  /\ pc \in {"hash", "list"}
  /\ Fault("read")
  /\ Finish
  /\ lastHash' = db
  /\ UNCHANGED <<db, now, snap, cache, call>>

ReconcileReadFails ==
  /\ pc \in {"hash", "list"}
  /\ Fault("read")
  /\ Finish
  /\ UNCHANGED <<db, now, snap, lastHash, cache, call>>

\* Mutation of ReflushTargets: bindings that are going away are forgotten.
ReflushNextOnly == BoundTools(next)

\* Tools with a binding before or after the change.
ReflushTargets == BoundTools(snap) \cup BoundTools(next)

ReconcileFlush ==
  /\ pc = "reflush"
  /\ cache' = Flushed(ReflushTargets)
  /\ Goto("swap")
  /\ UNCHANGED <<db, now, snap, lastHash, targets, write, hash, next, call,
                 faults>>

ReconcileFlushFails ==
  /\ pc = "reflush"
  /\ Fault("flush")
  /\ \E T \in SUBSET ReflushTargets : cache' = Flushed(T)
  /\ Finish
  /\ UNCHANGED <<db, now, snap, lastHash, call>>

\* Mutation of ReconcileSwap: the snapshot is replaced tool by tool, and a tool
\* without bindings keeps its old ones.
ReconcileSwapMerge ==
  /\ pc = "swap"
  /\ snap' = [t \in Tool |-> IF next[t] = {} THEN snap[t] ELSE next[t]]
  /\ Goto("sync")
  /\ UNCHANGED <<db, now, lastHash, cache, targets, write, hash, next, call,
                 faults>>

\* pluginRegistry.Replace
ReconcileSwap ==
  /\ pc = "swap"
  /\ snap' = next
  /\ Goto("sync")
  /\ UNCHANGED <<db, now, lastHash, cache, targets, write, hash, next, call,
                 faults>>

\* A stored tool does not register: the pass fails, its snapshot in place.
SyncFails ==
  /\ pc = "sync" /\ \E t \in Poison : db.tools[t].active
  /\ Finish
  /\ UNCHANGED <<db, now, snap, lastHash, cache, call, faults>>

ReconcileDone ==
  /\ pc = "sync" /\ \A t \in Poison : ~db.tools[t].active
  /\ lastHash' = hash
  /\ Finish
  /\ UNCHANGED <<db, now, snap, cache, call, faults>>

-----------------------------------------------------------------------------
(* Calls: CacheMiddleware around executeTool                               *)

Serving == op \notin {"boot", "down"}

\* pluginLifecycleMu can be taken for reading.
LifecycleFree == op = "idle"

\* A request resolves a registered revision; a registered revision has an
\* active row (RuntimeServesAdmitted of ControlPlane).
CallResolve(c, t) ==
  /\ Serving
  /\ call[c].stage = "idle"
  /\ t \notin Poison /\ db.tools[t].active
  /\ call' = [call EXCEPT ![c] = [NoCall EXCEPT !.stage = "resolved", !.tool = t]]
  /\ UNCHANGED <<db, now, snap, lastHash, cache, opVars, faults>>

\* The bypass is decided before any lock; a bypassed call does not touch the
\* cache, nor does one that a middleware before the cache refuses.
CallBypass(c) ==
  /\ call[c].stage = "resolved"
  /\ call' = [call EXCEPT ![c] = NoCall]
  /\ UNCHANGED <<db, now, snap, lastHash, cache, opVars, faults>>

CallCheck(c) ==
  /\ call[c].stage = "resolved"
  /\ ~Bypassed(call[c].tool)
  /\ call' = [call EXCEPT ![c].stage = "checked"]
  /\ UNCHANGED <<db, now, snap, lastHash, cache, opVars, faults>>

CallHit(c) ==
  /\ call[c].stage = "checked" /\ LifecycleFree
  /\ cache[call[c].tool] # None
  /\ call' = [call EXCEPT ![c] = NoCall]
  /\ UNCHANGED <<db, now, snap, lastHash, cache, opVars, faults>>

\* No entry, a backend error or an entry that does not decode.
CallMiss(c) ==
  /\ call[c].stage = "checked" /\ LifecycleFree
  /\ call' = [call EXCEPT ![c].stage = "missed", ![c].same = TRUE]
  /\ UNCHANGED <<db, now, snap, lastHash, cache, opVars, faults>>

CallReadRaw(c) ==
  /\ call[c].stage = "missed"
  /\ call' = [call EXCEPT ![c].stage = "raw",
                          ![c].raw = InPhase(snap[call[c].tool], "raw")]
  /\ UNCHANGED <<db, now, snap, lastHash, cache, opVars, faults>>

CallReadAfter(c) ==
  /\ call[c].stage = "raw"
  /\ call' = [call EXCEPT ![c].stage = "executing",
                          ![c].after = InPhase(snap[call[c].tool], "after")]
  /\ UNCHANGED <<db, now, snap, lastHash, cache, opVars, faults>>

\* An ERP, plugin or contract error is not cached; nor is a result the
\* backend does not take.
CallFails(c) ==
  /\ call[c].stage = "executing"
  /\ call' = [call EXCEPT ![c] = NoCall]
  /\ UNCHANGED <<db, now, snap, lastHash, cache, opVars, faults>>

\* No lifecycle change since the lookup.
Unchanged(c) == call[c].same

CallStore(c) ==
  /\ call[c].stage = "executing" /\ LifecycleFree
  /\ cache' = IF Unchanged(c)
              THEN [cache EXCEPT ![call[c].tool] =
                      [raw |-> call[c].raw, after |-> call[c].after]]
              ELSE cache
  /\ call' = [call EXCEPT ![c] = NoCall]
  /\ UNCHANGED <<db, now, snap, lastHash, opVars, faults>>

\* Expiry, eviction, the auto-flush of a write tool or a manual flush: none of
\* them takes pluginLifecycleMu.
Evict(t) ==
  /\ cache[t] # None
  /\ cache' = [cache EXCEPT ![t] = None]
  /\ UNCHANGED <<db, now, snap, lastHash, opVars, call, faults>>

-----------------------------------------------------------------------------
Crash ==
  /\ op # "down"
  /\ Fault("crash")
  /\ op' = "down" /\ pc' = "idle"
  /\ targets' = {} /\ write' = None /\ hash' = None /\ next' = EmptySnapshot
  /\ snap' = EmptySnapshot /\ lastHash' = None
  /\ cache' = IF Persistent THEN cache ELSE [t \in Tool |-> None]
  /\ call' = [c \in Call |-> NoCall]
  /\ UNCHANGED <<db, now>>

Restart ==
  /\ op = "down"
  /\ op' = "boot" /\ pc' = "hash"
  /\ UNCHANGED <<db, now, snap, lastHash, cache, targets, write, hash, next,
                 call, faults>>

-----------------------------------------------------------------------------
Request ==
  \/ \E p \in Plugin, s \in PluginSpec : PluginApply(p, s)
  \/ \E p \in Plugin, hard \in BOOLEAN : PluginDelete(p, hard)
  \/ \E b \in Binding, t \in Tool, p \in Plugin, ph \in Phases :
       BindingApply(b, t, p, ph)
  \/ \E b \in Binding, hard \in BOOLEAN : BindingDelete(b, hard)
  \/ \E t \in Tool : ToolApply(t)
  \/ \E t \in Tool, hard \in BOOLEAN : ToolDelete(t, hard)

LifecycleStep ==
  \/ FlushTargets \/ FlushFails \/ Save \/ SaveFails
  \/ ReconcileSkip \/ ReconcileHash \/ ReconcileList \/ ReconcileReadFails
  \/ ReconcileFlush \/ ReconcileFlushFails \/ ReconcileSwap
  \/ SyncFails \/ ReconcileDone

CallStep(c) ==
  \/ \E t \in Tool : CallResolve(c, t)
  \/ CallBypass(c) \/ CallCheck(c)
  \/ CallHit(c) \/ CallMiss(c) \/ CallReadRaw(c) \/ CallReadAfter(c)
  \/ CallFails(c) \/ CallStore(c)

Next ==
  \/ Request \/ LifecycleStep \/ Tick
  \/ \E c \in Call : CallStep(c)
  \/ \E t \in Tool : Evict(t)
  \/ Crash \/ Restart

Spec == Init /\ [][Next]_vars

\* The lock holder keeps running, the controller keeps ticking and gets the
\* lock, a supervisor restarts the process.
FairSpec == Spec /\ WF_vars(LifecycleStep) /\ SF_vars(Tick) /\ WF_vars(Restart)

-----------------------------------------------------------------------------
(* Properties *)

(***************************************************************************)
(* A cached result is the one the bindings in force now would produce: no  *)
(* result computed before, or across, a lifecycle change is ever served    *)
(* after it (docs/api.md:101).                                             *)
(***************************************************************************)
CacheMatchesSnapshot ==
  \A t \in Tool : cache[t] # None => cache[t] = ResultOf(snap, t)

(***************************************************************************)
(* Lifecycle changes flush the affected entries (docs/api.md:101): once a  *)
(* pass has reconciled the stored bindings, whatever is cached is what     *)
(* they produce.                                                           *)
(***************************************************************************)
CacheFollowsStore ==
  op = "idle" /\ db = lastHash =>
    \A t \in Tool : cache[t] # None => cache[t] = ResultOf(Build(db), t)

(***************************************************************************)
(* Skipping a pass is safe: with the last reconciled hash in place the     *)
(* bindings in force are those the tables ask for.                         *)
(***************************************************************************)
SnapshotMatchesStore == op = "idle" /\ db = lastHash => snap = Build(db)

(***************************************************************************)
(* No active binding names a plugin version that was removed: bindings are *)
(* admitted, and plugins hard-deleted, under one lock.                     *)
(***************************************************************************)
NoOrphanBinding ==
  \A b \in Binding : db.bindings[b].active =>
    db.plugins[db.bindings[b].plugin].spec # None

(***************************************************************************)
(* Once operators stop, the bindings in force become those of the tables,  *)
(* despite failed flushes, reads, registrations and crashes on the way.    *)
(***************************************************************************)
SnapshotConverges == <>[](op = "idle" => snap = Build(db))

(***************************************************************************)
(* A response produced by a plugin with a file-backed credential is not    *)
(* cached (docs/caching.md:106).                                           *)
(***************************************************************************)
FileBackedNotCached ==
  \A t \in Tool : cache[t] # None =>
    \A a \in cache[t].raw \cup cache[t].after : a.spec \notin FileBacked
=============================================================================
