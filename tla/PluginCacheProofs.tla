-------------------------- MODULE PluginCacheProofs --------------------------
(***************************************************************************)
(* What PluginCache promises, for every set of tools, plugins, bindings    *)
(* and callers and for any number of saves, failures and crashes.          *)
(*                                                                         *)
(* BaseInv types the state.  CacheInv says why the cache is never stale:   *)
(* a caller whose generation is the same read its bindings from the        *)
(* snapshot in force, none is left once a pass has counted a generation,   *)
(* and between the second flush and the replacement only tools without     *)
(* bindings are cached.  SnapInv ties the snapshot to the recorded hash.   *)
(***************************************************************************)
EXTENDS PluginCache, TLAPS

TablesOK == WellFormed(db) /\ (write # None => WellFormed(write))

LockOK == op \in {"idle", "down"} => pc = "idle"

CallerOK == \A c \in Call : call[c].stage # "idle" => call[c].tool \in Tool

BaseInv == TypeOK /\ TablesOK /\ LockOK /\ CallerOK

\* A caller of the same generation read the bindings that are in force.
CallFresh ==
  \A c \in Call : call[c].same =>
    /\ call[c].stage \in {"raw", "executing"} =>
         call[c].raw = InPhase(snap[call[c].tool], "raw")
    /\ call[c].stage = "executing" =>
         call[c].after = InPhase(snap[call[c].tool], "after")

PassOK ==
  /\ pc \in {"reflush", "swap"} => \A c \in Call : ~call[c].same
  /\ pc = "swap" => \A t \in Tool : cache[t] # None => snap[t] = {} /\ next[t] = {}

CacheInv == CacheMatchesSnapshot /\ CallFresh /\ PassOK

SnapInv ==
  /\ pc \in {"list", "reflush", "swap", "sync"} => hash = db
  /\ pc \in {"reflush", "swap"} => next = Build(db)
  /\ pc = "sync" => snap = Build(db)
  /\ pc # "sync" => lastHash = None \/ snap = Build(lastHash)

-----------------------------------------------------------------------------
(* The operators                                                           *)

\* The snapshot built from well-formed tables is a snapshot: every binding in
\* force carries the specification of a stored plugin.
LEMMA BuildType ==
  ASSUME NEW D \in Tables, WellFormed(D)
  PROVE  Build(D) \in Snapshot
<1>1. ASSUME NEW t \in Tool, NEW b \in Binding, Bound(D, b, t)
      PROVE  [binding |-> b, spec |-> D.plugins[D.bindings[b].plugin].spec,
              phase |-> D.bindings[b].phase] \in ActiveBinding
  <2>1. D.bindings[b] \in BindingRow
    BY DEF Tables
  <2>2. D.bindings[b].active /\ D.bindings[b].plugin # None
    BY <1>1 DEF Bound, WellFormed
  <2>3. D.bindings[b].plugin \in Plugin /\ D.bindings[b].phase \in Phases
    BY <2>1, <2>2 DEF BindingRow
  <2>4. D.plugins[D.bindings[b].plugin] \in PluginRow
    BY <2>3 DEF Tables
  <2>5. D.plugins[D.bindings[b].plugin].spec # None
    BY <2>2 DEF WellFormed
  <2>6. D.plugins[D.bindings[b].plugin].spec \in PluginSpec
    BY <2>4, <2>5 DEF PluginRow
  <2> QED
    BY <2>3, <2>6 DEF ActiveBinding
<1>2. ASSUME NEW t \in Tool
      PROVE  {[binding |-> b, spec |-> D.plugins[D.bindings[b].plugin].spec,
               phase |-> D.bindings[b].phase] :
                 b \in {e \in Binding : Bound(D, e, t)}} \in SUBSET ActiveBinding
  BY <1>1
<1> QED
  BY <1>2 DEF Build, Snapshot

\* A flush leaves a cache.
LEMMA FlushType ==
  ASSUME NEW T, cache \in [Tool -> Result \cup {None}]
  PROVE  Flushed(T) \in [Tool -> Result \cup {None}]
BY DEF Flushed

\* What a flush leaves behind was there before, and is of no target.
LEMMA FlushKeeps ==
  ASSUME NEW T, NEW t \in Tool, Flushed(T)[t] # None
  PROVE  Flushed(T)[t] = cache[t] /\ t \notin T
BY DEF Flushed, SameName

\* Tables stay tables when one row is replaced by a row.
LEMMA PutRow ==
  ASSUME NEW D \in Tables
  PROVE  /\ \A p \in Plugin, row \in PluginRow :
              [D EXCEPT !.plugins[p] = row] \in Tables
         /\ \A b \in Binding, row \in BindingRow :
              [D EXCEPT !.bindings[b] = row] \in Tables
         /\ \A t \in Tool, row \in ToolRow :
              [D EXCEPT !.tools[t] = row] \in Tables
BY DEF Tables

\* A soft delete replaces the row by its inactive form.
LEMMA SoftDeleteRow ==
  ASSUME NEW D \in Tables, NEW n \in Nat
  PROVE  /\ \A p \in Plugin :
              [D EXCEPT !.plugins[p].active = FALSE, !.plugins[p].at = n] \in Tables
         /\ \A b \in Binding :
              [D EXCEPT !.bindings[b].active = FALSE, !.bindings[b].at = n] \in Tables
<1>1. ASSUME NEW p \in Plugin
      PROVE  [D EXCEPT !.plugins[p].active = FALSE, !.plugins[p].at = n] \in Tables
  <2>1. D.plugins[p] \in PluginRow
    BY DEF Tables
  <2>2. [D.plugins[p] EXCEPT !.active = FALSE, !.at = n] \in PluginRow
    BY <2>1 DEF PluginRow
  <2>3. [D EXCEPT !.plugins[p].active = FALSE, !.plugins[p].at = n]
          = [D EXCEPT !.plugins[p] = [D.plugins[p] EXCEPT !.active = FALSE, !.at = n]]
    BY DEF Tables
  <2> QED
    BY <2>2, <2>3, PutRow
<1>2. ASSUME NEW b \in Binding
      PROVE  [D EXCEPT !.bindings[b].active = FALSE, !.bindings[b].at = n] \in Tables
  <2>1. D.bindings[b] \in BindingRow
    BY DEF Tables
  <2>2. [D.bindings[b] EXCEPT !.active = FALSE, !.at = n] \in BindingRow
    BY <2>1 DEF BindingRow
  <2>3. [D EXCEPT !.bindings[b].active = FALSE, !.bindings[b].at = n]
          = [D EXCEPT !.bindings[b] = [D.bindings[b] EXCEPT !.active = FALSE, !.at = n]]
    BY DEF Tables
  <2> QED
    BY <2>2, <2>3, PutRow
<1> QED
  BY <1>1, <1>2

-----------------------------------------------------------------------------
(* The base invariant                                                      *)

\* A handler that starts has well-formed tables to save, or none.
LEMMA BeginBase ==
  ASSUME BaseInv, NEW T \in SUBSET Tool, NEW D \in Tables \cup {None},
         D # None => WellFormed(D),
         Begin(T, D)
  PROVE  BaseInv'
<1> USE DEF BaseInv
<1>1. TypeOK'
  BY DEF TypeOK, Begin
<1>2. TablesOK' /\ LockOK' /\ CallerOK'
  BY DEF TablesOK, LockOK, CallerOK, Begin, WellFormed
<1> QED
  BY <1>1, <1>2

\* The tables a plugin handler saves.
LEMMA PluginHandlersBase ==
  ASSUME BaseInv, NEW p \in Plugin
  PROVE  /\ \A s \in PluginSpec : PluginApply(p, s) => BaseInv'
         /\ \A hard \in BOOLEAN : PluginDelete(p, hard) => BaseInv'
<1> USE PluginCacheAssumption
<1> /\ db \in Tables /\ WellFormed(db) /\ now \in Nat
    /\ \A b \in Binding : db.bindings[b] \in BindingRow
    /\ \A q \in Plugin : db.plugins[q] \in PluginRow
  BY DEF BaseInv, TypeOK, TablesOK, Tables
<1>0. PluginTargets(p) \in SUBSET Tool
  BY DEF PluginTargets
<1>1. ASSUME NEW s \in PluginSpec
      PROVE  PluginApply(p, s) => BaseInv'
  <2> DEFINE D == [db EXCEPT !.plugins[p] = [spec |-> s, active |-> TRUE, at |-> now + 1]]
  <2>1. D \in Tables
    <3>1. [spec |-> s, active |-> TRUE, at |-> now + 1] \in PluginRow
      BY DEF PluginRow
    <3> QED
      BY <3>1, PutRow
  <2>2. WellFormed(D)
    BY DEF WellFormed, Tables, BindingRow, PluginRow
  <2> QED
    BY <1>0, <2>1, <2>2, BeginBase DEF PluginApply
<1>2. ASSUME NEW hard \in BOOLEAN
      PROVE  PluginDelete(p, hard) => BaseInv'
  <2> DEFINE D == CASE hard /\ ~HasActiveBinding(p) -> [db EXCEPT !.plugins[p] = NoPlugin]
                    [] ~hard /\ db.plugins[p].spec # None ->
                         [db EXCEPT !.plugins[p].active = FALSE, !.plugins[p].at = now + 1]
                    [] OTHER -> None
  <2>1. CASE hard /\ ~HasActiveBinding(p)
    <3>1. D = [db EXCEPT !.plugins[p] = NoPlugin]
      BY <2>1
    <3>2. [db EXCEPT !.plugins[p] = NoPlugin] \in Tables
      BY DEF Tables, PluginRow, NoPlugin
    <3>3. WellFormed([db EXCEPT !.plugins[p] = NoPlugin])
      BY <2>1 DEF WellFormed, Tables, BindingRow, PluginRow, NoPlugin, HasActiveBinding
    <3> QED
      BY <1>0, <3>1, <3>2, <3>3, BeginBase DEF PluginDelete
  <2>2. CASE ~hard /\ db.plugins[p].spec # None
    <3> DEFINE E == [db EXCEPT !.plugins[p].active = FALSE, !.plugins[p].at = now + 1]
    <3>1. D = E
      BY <2>2
    <3>2. E \in Tables
      <4>1. now + 1 \in Nat
        OBVIOUS
      <4> QED
        BY <4>1, SoftDeleteRow
    <3>3. WellFormed(E)
      BY <2>2 DEF WellFormed, Tables, BindingRow, PluginRow
    <3> QED
      BY <1>0, <3>1, <3>2, <3>3, BeginBase DEF PluginDelete
  <2>3. CASE ~(hard /\ ~HasActiveBinding(p)) /\ ~(~hard /\ db.plugins[p].spec # None)
    <3>1. D = None
      BY <2>3
    <3> QED
      BY <1>0, <3>1, BeginBase DEF PluginDelete
  <2> QED
    BY <2>1, <2>2, <2>3
<1> QED
  BY <1>1, <1>2

\* The tables a binding handler saves.
LEMMA BindingHandlersBase ==
  ASSUME BaseInv, NEW b \in Binding
  PROVE  /\ \A t \in Tool, p \in Plugin, ph \in Phases :
              BindingApply(b, t, p, ph) => BaseInv'
         /\ \A hard \in BOOLEAN : BindingDelete(b, hard) => BaseInv'
<1> USE PluginCacheAssumption
<1> /\ db \in Tables /\ WellFormed(db) /\ now \in Nat
    /\ \A e \in Binding : db.bindings[e] \in BindingRow
    /\ \A q \in Plugin : db.plugins[q] \in PluginRow
  BY DEF BaseInv, TypeOK, TablesOK, Tables
<1>1. ASSUME NEW t \in Tool, NEW p \in Plugin, NEW ph \in Phases
      PROVE  BindingApply(b, t, p, ph) => BaseInv'
  <2> DEFINE D == [db EXCEPT !.bindings[b] = [tool |-> t, plugin |-> p, phase |-> ph,
                                              active |-> TRUE, at |-> now + 1]]
  <2>0. SUFFICES ASSUME BindingApply(b, t, p, ph) PROVE BaseInv'
    OBVIOUS
  <2>1. D \in Tables
    <3>1. [tool |-> t, plugin |-> p, phase |-> ph, active |-> TRUE, at |-> now + 1]
            \in BindingRow
      BY DEF BindingRow
    <3> QED
      BY <3>1, PutRow
  <2>2. db.plugins[p].spec # None
    BY <2>0 DEF BindingApply, WellFormed
  <2>3. WellFormed(D)
    BY <2>2 DEF WellFormed, Tables, BindingRow, PluginRow
  <2>4. BindingTargets(b, t) \in SUBSET Tool
    BY DEF BindingTargets
  <2> QED
    BY <2>0, <2>1, <2>3, <2>4, BeginBase DEF BindingApply
<1>2. ASSUME NEW hard \in BOOLEAN
      PROVE  BindingDelete(b, hard) => BaseInv'
  <2> DEFINE D == [db EXCEPT !.bindings[b] = NoBinding]
             E == [db EXCEPT !.bindings[b].active = FALSE, !.bindings[b].at = now + 1]
  <2>0. SUFFICES ASSUME BindingDelete(b, hard) PROVE BaseInv'
    OBVIOUS
  <2>1. {db.bindings[b].tool} \in SUBSET Tool
    BY <2>0 DEF BindingDelete, BindingRow
  <2>2. D \in Tables /\ E \in Tables
    <3>1. NoBinding \in BindingRow
      BY DEF BindingRow, NoBinding, Phases
    <3>2. D \in Tables
      BY <3>1, PutRow
    <3>3. now + 1 \in Nat
      OBVIOUS
    <3>4. E \in Tables
      BY <3>3, SoftDeleteRow
    <3> QED
      BY <3>2, <3>4
  <2>3. WellFormed(D) /\ WellFormed(E)
    BY DEF WellFormed, Tables, BindingRow, PluginRow, NoBinding
  <2> QED
    BY <2>0, <2>1, <2>2, <2>3, BeginBase DEF BindingDelete
<1> QED
  BY <1>1, <1>2

\* The tables a tool handler saves.
LEMMA ToolHandlersBase ==
  ASSUME BaseInv, NEW t \in Tool
  PROVE  /\ ToolApply(t) => BaseInv'
         /\ \A hard \in BOOLEAN : ToolDelete(t, hard) => BaseInv'
<1> /\ db \in Tables /\ WellFormed(db) /\ now \in Nat
  BY DEF BaseInv, TypeOK, TablesOK
<1>0. ToolTargets(t) \in SUBSET Tool
  BY DEF ToolTargets
<1>1. ASSUME NEW row \in ToolRow
      PROVE  /\ [db EXCEPT !.tools[t] = row] \in Tables
             /\ WellFormed([db EXCEPT !.tools[t] = row])
  BY DEF Tables, WellFormed
<1>2. ToolApply(t) => BaseInv'
  <2>1. [active |-> TRUE, at |-> now + 1] \in ToolRow
    BY DEF ToolRow
  <2> QED
    BY <1>0, <1>1, <2>1, BeginBase DEF ToolApply
<1>3. ASSUME NEW hard \in BOOLEAN, ToolDelete(t, hard)
      PROVE  BaseInv'
  <2>1. NoToolRow \in ToolRow /\ [active |-> FALSE, at |-> now + 1] \in ToolRow
    BY DEF ToolRow, NoToolRow
  <2>2. CASE hard
    BY <1>0, <1>1, <1>3, <2>1, <2>2, BeginBase DEF ToolDelete
  <2>3. CASE ~hard /\ db.tools[t].at > 0
    BY <1>0, <1>1, <1>3, <2>1, <2>3, BeginBase DEF ToolDelete
  <2>4. CASE ~hard /\ ~(db.tools[t].at > 0)
    BY <1>0, <1>3, <2>4, BeginBase DEF ToolDelete
  <2> QED
    BY <2>2, <2>3, <2>4
<1> QED
  BY <1>2, <1>3

\* Every step preserves the base invariant.
LEMMA NextBase == BaseInv /\ [Next]_vars => BaseInv'
<1> SUFFICES ASSUME BaseInv, [Next]_vars PROVE BaseInv'
  OBVIOUS
<1> USE PluginCacheAssumption
<1>1. CASE Request
  BY <1>1, PluginHandlersBase, BindingHandlersBase, ToolHandlersBase DEF Request
<1>2. ASSUME FlushTargets \/ FlushFails \/ ReconcileFlush \/ ReconcileFlushFails
      PROVE  BaseInv'
  <2>1. \A T : Flushed(T) \in [Tool -> Result \cup {None}]
    BY FlushType DEF BaseInv, TypeOK
  <2>2. TypeOK'
    BY <1>2, <2>1 DEF BaseInv, TypeOK, FlushTargets, FlushFails, ReconcileFlush,
       ReconcileFlushFails, Goto, Finish, Fault, Snapshot, EmptySnapshot
  <2>3. TablesOK' /\ LockOK' /\ CallerOK'
    BY <1>2 DEF BaseInv, TablesOK, LockOK, CallerOK, FlushTargets, FlushFails,
       ReconcileFlush, ReconcileFlushFails, Goto, Finish, WellFormed
  <2> QED
    BY <2>2, <2>3 DEF BaseInv
<1>3. CASE Save
  <2>1. TypeOK'
    BY <1>3 DEF BaseInv, TypeOK, Save, Goto, Finish, Snapshot, EmptySnapshot
  <2>2. TablesOK' /\ LockOK' /\ CallerOK'
    BY <1>3 DEF BaseInv, TablesOK, LockOK, CallerOK, Save, Goto, Finish, WellFormed
  <2> QED
    BY <2>1, <2>2 DEF BaseInv
<1>4. ASSUME SaveFails \/ Tick \/ ReconcileSkip \/ ReconcileHash \/ ReconcileReadFails
             \/ ReconcileSwap \/ SyncFails \/ ReconcileDone \/ Restart
      PROVE  BaseInv'
  <2>1. TypeOK'
    BY <1>4 DEF BaseInv, TypeOK, SaveFails, Tick, ReconcileSkip, ReconcileHash,
       ReconcileReadFails, ReconcileSwap, SyncFails, ReconcileDone, Restart, Goto,
       Finish, Fault, Snapshot, EmptySnapshot
  <2>2. TablesOK' /\ LockOK' /\ CallerOK'
    BY <1>4 DEF BaseInv, TablesOK, LockOK, CallerOK, SaveFails, Tick, ReconcileSkip,
       ReconcileHash, ReconcileReadFails, ReconcileSwap, SyncFails, ReconcileDone,
       Restart, Goto, Finish, WellFormed
  <2> QED
    BY <2>1, <2>2 DEF BaseInv
<1>5. CASE ReconcileList
  <2>1. Build(db) \in Snapshot
    BY BuildType DEF BaseInv, TypeOK, TablesOK
  <2>2. call' \in [Call -> CallType]
    BY <1>5 DEF BaseInv, TypeOK, ReconcileList, CallType
  <2>3. TypeOK'
    BY <1>5, <2>1, <2>2 DEF BaseInv, TypeOK, ReconcileList, Goto
  <2>4. TablesOK' /\ LockOK' /\ CallerOK'
    BY <1>5 DEF BaseInv, TypeOK, CallType, TablesOK, LockOK, CallerOK, ReconcileList,
       Goto, WellFormed
  <2> QED
    BY <2>3, <2>4 DEF BaseInv
<1>6. ASSUME NEW c \in Call, CallStep(c)
      PROVE  BaseInv'
  <2>1. call' \in [Call -> CallType] /\ CallerOK'
    <3> /\ call \in [Call -> CallType] /\ snap \in [Tool -> SUBSET ActiveBinding]
        /\ CallerOK
      BY DEF BaseInv, TypeOK, Snapshot
    <3>1. ASSUME NEW t \in Tool, CallResolve(c, t)
          PROVE  call' \in [Call -> CallType] /\ CallerOK'
      BY <3>1 DEF CallResolve, CallerOK, CallType, NoCall, Stages
    <3>2. ASSUME CallBypass(c) \/ CallHit(c) \/ CallFails(c) \/ CallStore(c)
          PROVE  call' \in [Call -> CallType] /\ CallerOK'
      <4>1. call' = [call EXCEPT ![c] = NoCall]
        BY <3>2 DEF CallBypass, CallHit, CallFails, CallStore
      <4>2. NoCall \in CallType /\ NoCall.stage = "idle"
        BY DEF CallType, NoCall, Stages
      <4> QED
        BY <4>1, <4>2 DEF CallerOK
    <3>3. ASSUME CallCheck(c) \/ CallMiss(c)
          PROVE  call' \in [Call -> CallType] /\ CallerOK'
      BY <3>3 DEF CallCheck, CallMiss, CallerOK, CallType, Stages
    <3>4. ASSUME CallReadRaw(c) \/ CallReadAfter(c)
          PROVE  call' \in [Call -> CallType] /\ CallerOK'
      <4>1. call[c].tool \in Tool
        BY <3>4 DEF CallReadRaw, CallReadAfter, CallerOK
      <4>2. \A ph : InPhase(snap[call[c].tool], ph) \in SUBSET ActiveBinding
        BY <4>1 DEF InPhase
      <4> QED
        BY <3>4, <4>2 DEF CallReadRaw, CallReadAfter, CallerOK, CallType, Stages
    <3> QED
      BY <1>6, <3>1, <3>2, <3>3, <3>4 DEF CallStep
  <2>2. cache' \in [Tool -> Result \cup {None}]
    <3>1. CASE CallStore(c)
      <4>1. [raw |-> call[c].raw, after |-> call[c].after] \in Result
        BY DEF BaseInv, TypeOK, CallType, Result
      <4> QED
        BY <3>1, <4>1 DEF CallStore, BaseInv, TypeOK
    <3>2. CASE ~CallStore(c)
      BY <1>6, <3>2 DEF CallStep, CallResolve, CallBypass, CallCheck, CallHit, CallMiss,
         CallReadRaw, CallReadAfter, CallFails, BaseInv, TypeOK
    <3> QED
      BY <3>1, <3>2
  <2>3. UNCHANGED <<db, now, snap, lastHash, opVars, faults>>
    BY <1>6 DEF CallStep, CallResolve, CallBypass, CallCheck, CallHit, CallMiss,
       CallReadRaw, CallReadAfter, CallFails, CallStore
  <2> QED
    BY <2>1, <2>2, <2>3 DEF BaseInv, TypeOK, TablesOK, LockOK, opVars, WellFormed
<1>7. ASSUME NEW t \in Tool, Evict(t)
      PROVE  BaseInv'
  BY <1>7 DEF BaseInv, TypeOK, TablesOK, LockOK, CallerOK, Evict, opVars, WellFormed
<1>8. CASE Crash
  <2>1. TypeOK'
    BY <1>8 DEF BaseInv, TypeOK, Crash, Fault, Snapshot, EmptySnapshot, CallType, NoCall, Stages
  <2>2. TablesOK' /\ LockOK' /\ CallerOK'
    BY <1>8 DEF BaseInv, TablesOK, LockOK, CallerOK, Crash, NoCall, WellFormed
  <2> QED
    BY <2>1, <2>2 DEF BaseInv
<1>9. CASE UNCHANGED vars
  BY <1>9 DEF BaseInv, TypeOK, TablesOK, LockOK, CallerOK, vars, opVars, WellFormed
<1> QED
  BY <1>1, <1>2, <1>3, <1>4, <1>5, <1>6, <1>7, <1>8, <1>9 DEF Next, LifecycleStep

\* The base invariant holds in every reachable state.
LEMMA BaseHolds == Spec => []BaseInv
<1>1. Init => BaseInv
  <2> SUFFICES ASSUME Init PROVE BaseInv
    OBVIOUS
  <2>1. TypeOK
    BY PluginCacheAssumption, SeedAssumption
    DEF Init, TypeOK, Snapshot, EmptySnapshot, CallType, NoCall, Stages
  <2>2. TablesOK /\ LockOK /\ CallerOK
    BY SeedAssumption DEF Init, TablesOK, LockOK, CallerOK, NoCall
  <2> QED
    BY <2>1, <2>2 DEF BaseInv
<1> QED
  BY <1>1, NextBase, PTL DEF Spec

\* The tables, the snapshot, the cache and the callers keep their types; the
\* snapshot a pass builds never holds a binding without a plugin resource
\* (buildPluginBindingSnapshot).
THEOREM CacheTypeCorrect == Spec => []TypeOK
<1>1. BaseInv => TypeOK
  BY DEF BaseInv
<1> QED
  BY <1>1, BaseHolds, PTL

\* No active binding is left without its plugin version: HardDeletePlugin
\* refuses while one names it, and bindings are admitted under the same lock.
THEOREM BindingsKeepPlugins == Spec => []NoOrphanBinding
<1>1. BaseInv => NoOrphanBinding
  BY DEF BaseInv, TablesOK, WellFormed, NoOrphanBinding
<1> QED
  BY <1>1, BaseHolds, PTL

-----------------------------------------------------------------------------
(* The cache                                                               *)

\* A step that flushes, and changes neither the bindings in force nor the
\* callers, keeps the cache current.
LEMMA FlushFresh ==
  ASSUME CacheInv, NEW T, cache' = Flushed(T), UNCHANGED <<snap, call>>
  PROVE  CacheMatchesSnapshot' /\ CallFresh'
<1>1. CacheMatchesSnapshot'
  BY FlushKeeps DEF CacheInv, CacheMatchesSnapshot, ResultOf
<1>2. CallFresh'
  BY DEF CacheInv, CallFresh
<1> QED
  BY <1>1, <1>2

\* Every step of a server with an in-memory cache keeps the cache current.
LEMMA NextCache ==
  ASSUME Persistent = FALSE, BaseInv, CacheInv, [Next]_vars
  PROVE  CacheInv'
<1> /\ call \in [Call -> CallType] /\ cache \in [Tool -> Result \cup {None}]
    /\ op = "idle" => pc = "idle"
    /\ CallerOK
  BY DEF BaseInv, TypeOK, LockOK
<1>1. ASSUME FlushTargets \/ FlushFails \/ ReconcileFlushFails
      PROVE  CacheInv'
  <2>1. /\ \E T : cache' = Flushed(T)
        /\ UNCHANGED <<snap, call>>
        /\ pc' \notin {"reflush", "swap"}
    BY <1>1 DEF FlushTargets, FlushFails, ReconcileFlushFails, Goto, Finish
  <2> QED
    BY <2>1, FlushFresh DEF CacheInv, PassOK
<1>2. CASE ReconcileFlush
  <2>1. CacheMatchesSnapshot' /\ CallFresh'
    BY <1>2, FlushFresh DEF ReconcileFlush
  <2>2. PassOK'
    BY <1>2, FlushKeeps
    DEF CacheInv, PassOK, ReconcileFlush, ReflushTargets, BoundTools
  <2> QED
    BY <2>1, <2>2 DEF CacheInv
<1>3. CASE ReconcileSwap
  <2>1. CacheMatchesSnapshot'
    BY <1>3 DEF CacheInv, PassOK, CacheMatchesSnapshot, ReconcileSwap, ResultOf
  <2>2. CallFresh' /\ PassOK'
    BY <1>3 DEF CacheInv, PassOK, CallFresh, ReconcileSwap, Goto
  <2> QED
    BY <2>1, <2>2 DEF CacheInv
<1>4. CASE ReconcileList
  <2>1. \A c \in Call : ~call[c].same'
    BY <1>4 DEF ReconcileList, CallType
  <2>2. CacheMatchesSnapshot'
    BY <1>4 DEF CacheInv, CacheMatchesSnapshot, ReconcileList, ResultOf
  <2>3. CallFresh' /\ PassOK'
    BY <1>4, <2>1 DEF CallFresh, PassOK, ReconcileList, Goto
  <2> QED
    BY <2>2, <2>3 DEF CacheInv
<1>5. ASSUME Request \/ Save \/ SaveFails \/ Tick \/ ReconcileSkip \/ ReconcileHash
             \/ ReconcileReadFails \/ SyncFails \/ ReconcileDone \/ Restart
      PROVE  CacheInv'
  <2>1. UNCHANGED <<snap, cache, call>> /\ pc' \notin {"reflush", "swap"}
    BY <1>5 DEF Request, PluginApply, PluginDelete, BindingApply, BindingDelete,
       ToolApply, ToolDelete, Begin, Save, SaveFails, Tick, ReconcileSkip,
       ReconcileHash, ReconcileReadFails, SyncFails, ReconcileDone, Restart, Goto,
       Finish
  <2> QED
    BY <2>1 DEF CacheInv, CacheMatchesSnapshot, CallFresh, PassOK, ResultOf
<1>6. ASSUME NEW c \in Call, CallStep(c)
      PROVE  CacheInv'
  <2>1. UNCHANGED <<snap, pc, next>>
    BY <1>6 DEF CallStep, CallResolve, CallBypass, CallCheck, CallHit, CallMiss,
       CallReadRaw, CallReadAfter, CallFails, CallStore, opVars
  <2>2. ASSUME NEW t \in Tool, CallResolve(c, t)
        PROVE  CacheInv'
    BY <2>1, <2>2 DEF CallResolve, CacheInv, CacheMatchesSnapshot, CallFresh, PassOK,
       ResultOf, NoCall, CallType
  <2>3. ASSUME CallBypass(c) \/ CallHit(c) \/ CallFails(c)
        PROVE  CacheInv'
    BY <2>1, <2>3 DEF CallBypass, CallHit, CallFails, CacheInv, CacheMatchesSnapshot,
       CallFresh, PassOK, ResultOf, NoCall, CallType
  <2>4. ASSUME CallCheck(c) \/ CallMiss(c)
        PROVE  CacheInv'
    BY <2>1, <2>4 DEF CallCheck, CallMiss, LifecycleFree, CacheInv,
       CacheMatchesSnapshot, CallFresh, PassOK, ResultOf, CallType
  <2>5. ASSUME CallReadRaw(c) \/ CallReadAfter(c)
        PROVE  CacheInv'
    BY <2>1, <2>5 DEF CallReadRaw, CallReadAfter, CacheInv, CacheMatchesSnapshot,
       CallFresh, PassOK, ResultOf, CallType
  <2>6. CASE CallStore(c)
    <3>1. PassOK' /\ CallFresh'
      BY <2>1, <2>6 DEF CallStore, LifecycleFree, CacheInv, CallFresh, PassOK, NoCall,
         CallType
    <3>2. CASE Unchanged(c)
      <4>1. [raw |-> call[c].raw, after |-> call[c].after] = ResultOf(snap, call[c].tool)
        BY <2>6, <3>2 DEF CallStore, Unchanged, CacheInv, CallFresh, ResultOf
      <4> QED
        BY <2>1, <2>6, <3>1, <3>2, <4>1
        DEF CallStore, CacheInv, CacheMatchesSnapshot, ResultOf
    <3>3. CASE ~Unchanged(c)
      BY <2>1, <2>6, <3>1, <3>3 DEF CallStore, CacheInv, CacheMatchesSnapshot, ResultOf
    <3> QED
      BY <3>2, <3>3
  <2> QED
    BY <1>6, <2>2, <2>3, <2>4, <2>5, <2>6 DEF CallStep
<1>7. ASSUME NEW t \in Tool, Evict(t)
      PROVE  CacheInv'
  BY <1>7 DEF Evict, opVars, CacheInv, CacheMatchesSnapshot, CallFresh, PassOK, ResultOf
<1>8. CASE Crash
  BY <1>8 DEF Crash, CacheInv, CacheMatchesSnapshot, CallFresh, PassOK, NoCall
<1>9. CASE UNCHANGED vars
  BY <1>9 DEF vars, opVars, CacheInv, CacheMatchesSnapshot, CallFresh, PassOK, ResultOf
<1> QED
  BY <1>1, <1>2, <1>3, <1>4, <1>5, <1>6, <1>7, <1>8, <1>9 DEF Next, LifecycleStep

\* A response cached in memory is always the one the bindings in force would
\* produce: CacheMiddleware's generation check and the two flushes suffice, for
\* any number of callers, handlers, failed passes and restarts.
THEOREM CachedResultsCurrent ==
  ASSUME Persistent = FALSE
  PROVE  Spec => []CacheMatchesSnapshot
<1>1. Init => CacheInv
  BY DEF Init, CacheInv, CacheMatchesSnapshot, CallFresh, PassOK, NoCall
<1>2. BaseInv /\ CacheInv /\ [Next]_vars => CacheInv'
  BY NextCache
<1>3. CacheInv => CacheMatchesSnapshot
  BY DEF CacheInv
<1> QED
  BY <1>1, <1>2, <1>3, BaseHolds, PTL DEF Spec

-----------------------------------------------------------------------------
(* The snapshot                                                            *)

\* Every step of a server whose stored tools all register keeps the snapshot
\* tied to the recorded hash.
LEMMA NextSnap ==
  ASSUME Poison = {}, BaseInv, SnapInv, [Next]_vars
  PROVE  SnapInv'
<1> op \in {"idle", "down"} => pc = "idle"
  BY DEF BaseInv, LockOK
<1>1. CASE Request \/ Tick
  BY <1>1 DEF Request, PluginApply, PluginDelete, BindingApply, BindingDelete,
     ToolApply, ToolDelete, Begin, Tick, SnapInv
<1>2. CASE FlushTargets \/ FlushFails \/ Save \/ SaveFails
  BY <1>2 DEF FlushTargets, FlushFails, Save, SaveFails, Goto, Finish, SnapInv
<1>3. CASE ReconcileSkip \/ ReconcileHash \/ ReconcileList \/ ReconcileReadFails
  BY <1>3 DEF ReconcileSkip, ReconcileHash, ReconcileList, ReconcileReadFails, Goto,
     Finish, SnapInv
<1>4. CASE ReconcileFlush \/ ReconcileFlushFails \/ ReconcileSwap
  BY <1>4 DEF ReconcileFlush, ReconcileFlushFails, ReconcileSwap, Goto, Finish, SnapInv
<1>5. CASE SyncFails \/ ReconcileDone
  BY <1>5 DEF SyncFails, ReconcileDone, Finish, SnapInv
<1>6. ASSUME NEW c \in Call, CallStep(c)
      PROVE  SnapInv'
  BY <1>6 DEF CallStep, CallResolve, CallBypass, CallCheck, CallHit, CallMiss,
     CallReadRaw, CallReadAfter, CallFails, CallStore, opVars, SnapInv
<1>7. CASE \E t \in Tool : Evict(t)
  BY <1>7 DEF Evict, opVars, SnapInv
<1>8. CASE Crash \/ Restart
  BY <1>8 DEF Crash, Restart, SnapInv
<1>9. CASE UNCHANGED vars
  BY <1>9 DEF vars, opVars, SnapInv
<1> QED
  BY <1>1, <1>2, <1>3, <1>4, <1>5, <1>6, <1>7, <1>8, <1>9 DEF Next, LifecycleStep

\* Where every stored tool registers, a skipped pass (reconcileLocked's early
\* return) leaves the bindings in force that the tables ask for.
THEOREM SkippedPassSafe ==
  ASSUME Poison = {}
  PROVE  Spec => []SnapshotMatchesStore
<1>1. Init => SnapInv
  BY DEF Init, SnapInv
<1>2. BaseInv /\ SnapInv /\ [Next]_vars => SnapInv'
  BY NextSnap
<1>3. BaseInv /\ SnapInv => SnapshotMatchesStore
  BY SeedAssumption DEF BaseInv, TypeOK, LockOK, SnapInv, SnapshotMatchesStore
<1> QED
  BY <1>1, <1>2, <1>3, BaseHolds, PTL DEF Spec
=============================================================================
