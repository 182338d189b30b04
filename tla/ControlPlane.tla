---------------------------- MODULE ControlPlane ----------------------------
(***************************************************************************)
(* The tool control plane of one ERPBridge server process and the calls    *)
(* that run beside it.                                                     *)
(*                                                                         *)
(* Operators apply and delete tool revisions over HTTP; a controller       *)
(* reconciles the runtime with SQLite at start and every ten seconds; MCP  *)
(* and direct calls resolve a revision, pass the middleware and commit an  *)
(* ERP dispatch.  Apply, delete and reconcile each hold pluginLifecycleMu  *)
(* from start to end, so at most one of them (`op') is under way; its      *)
(* steps (`pc') are the store transactions and registry critical sections  *)
(* that calls, and a crash, can fall between.                              *)
(*                                                                         *)
(* authorityMu is not a variable: its readers are the committed calls, its *)
(* writer is a withdrawal (pc "dereg" or "sweep").                         *)
(***************************************************************************)
EXTENDS ToolStore, FiniteSets

CONSTANTS Rank,        \* position of each revision in List's ORDER BY
          Call,        \* concurrent callers
          FailPoints,  \* store operations that may fail in this deployment
          HardDeletes, \* operators use hard deletes
          MaxWrites,   \* bound on the saves of a behaviour
          MaxFaults    \* bound on the store failures and crashes

ASSUME RankAssumption ==
  /\ Rank \in [Rev -> Nat]
  /\ \A q, r \in Rev : Rank[q] = Rank[r] => q = r
ASSUME FailPointsAssumption ==
  FailPoints \subseteq {"admit", "erase", "read", "crash"}
ASSUME BoundsAssumption ==
  MaxWrites \in Nat /\ MaxFaults \in Nat /\ HardDeletes \in BOOLEAN

VARIABLES
  db,         \* the tools table (durable)
  now,        \* the stamp of the latest save
  reg,        \* s.registry
  pub,        \* the descriptors in the MCP SDK
  lastHash,   \* s.lastDesiredHash
  converged,  \* s.reconcileStatus.Converged
  op, pc,     \* the holder of pluginLifecycleMu and where it is
  arg,        \* the request of an apply or delete
  hash,       \* currentHash of a reconcile pass
  desired,    \* its desiredTools
  todo,       \* the rows or stale tools it still has to visit
  call,       \* each caller's snapshot and stage
  faults      \* failures still to come

ctlVars == <<op, pc, arg, hash, desired, todo>>
vars == <<db, now, reg, pub, lastHash, converged, ctlVars, call, faults>>

-----------------------------------------------------------------------------
Ops    == {"idle", "apply", "delete", "tick", "boot", "down"}
Steps  == {"idle", "admit", "register", "dereg", "erase",
           "hash", "list", "sync", "sweep"}
Request == [rev : Rev \cup {None}, digest : Content \cup {None},
            serving : BOOLEAN, hard : BOOLEAN]
NoRequest == [rev |-> None, digest |-> None, serving |-> FALSE, hard |-> FALSE]

Stages   == {"idle", "resolved", "committed"}
Snapshot == [stage : Stages, rev : Rev \cup {None}, digest : Content \cup {None}]
NoCall   == [stage |-> "idle", rev |-> None, digest |-> None]

TypeOK ==
  /\ db \in Table
  /\ now \in Nat
  /\ reg \in Registry
  /\ pub \in Published
  /\ lastHash \in Table \cup {None}
  /\ converged \in BOOLEAN
  /\ op \in Ops
  /\ pc \in Steps
  /\ arg \in Request
  /\ hash \in Table \cup {None}
  /\ desired \in Table
  /\ todo \in SUBSET Rev
  /\ call \in [Call -> Snapshot]
  /\ faults \in Nat

Init ==
  /\ db = EmptyTable
  /\ now = 0
  /\ reg = NewToolRegistry
  /\ pub = NothingPublished
  /\ lastHash = None
  /\ converged = FALSE
  /\ op = "boot" /\ pc = "hash"
  /\ arg = NoRequest
  /\ hash = None
  /\ desired = EmptyTable
  /\ todo = {}
  /\ call = [c \in Call |-> NoCall]
  /\ faults = MaxFaults

-----------------------------------------------------------------------------
(* Helpers of the steps.                                                   *)

Goto(step) == pc' = step /\ UNCHANGED op

\* The handler or pass ends and releases pluginLifecycleMu.  Only a
\* controller attempt records its outcome in the reconciliation status.
Finish(ok) ==
  /\ op' = "idle" /\ pc' = "idle"
  /\ arg' = NoRequest
  /\ hash' = None
  /\ desired' = EmptyTable
  /\ todo' = {}
  /\ converged' = IF op \in {"tick", "boot"} THEN ok ELSE converged

\* One store operation fails.
Fault(point) == point \in FailPoints /\ faults > 0 /\ faults' = faults - 1

Save(newDB) == now' = now + 1 /\ db' = newDB

\* Bounds the saves of a behaviour where a request begins.
MayWrite == now < MaxWrites

\* The critical section of registerTool, and of DeregisterTool, under s.mu:
\* the registry changes and the SDK descriptors are refreshed with it.
Install(newReg, r) ==
  /\ reg' = newReg
  /\ pub' = Refresh(pub, newReg, NameOf[r])

\* Mutation of NoReader: withdrawal takes no lock.
NoReaderIgnored == TRUE

\* authorityMu: committed calls are its readers.
NoReader == \A c \in Call : call[c].stage # "committed"

\* Mutation of WriterWaiting: a reader-preferring lock.
WriterIgnored == FALSE

\* A withdrawal has called authorityMu.Lock; new readers queue behind it.
WriterWaiting == pc = "dereg" \/ (pc = "sweep" /\ todo # {})

-----------------------------------------------------------------------------
(* handleToolApply                                                         *)

\* The request is validated and takes pluginLifecycleMu.
ApplyStart(r, d, want) ==
  /\ op = "idle" /\ MayWrite
  /\ op' = "apply" /\ pc' = "admit"
  /\ arg' = [rev |-> r, digest |-> d, serving |-> want, hard |-> FALSE]
  /\ UNCHANGED <<db, now, reg, pub, lastHash, converged, hash, desired, todo,
                 call, faults>>

\* Different content under an admitted name and version: 409.
ApplyConflict ==
  /\ pc = "admit"
  /\ AdmissionConflict(db, arg.rev, arg.digest)
  /\ Finish(FALSE)
  /\ UNCHANGED <<db, now, reg, pub, lastHash, call, faults>>

\* The binding lookup, the cache flush or the transaction fails: 500.
ApplyFails ==
  /\ pc = "admit"
  /\ Fault("admit")
  /\ Finish(FALSE)
  /\ UNCHANGED <<db, now, reg, pub, lastHash, call>>

ApplyAdmit ==
  /\ pc = "admit"
  /\ ~AdmissionConflict(db, arg.rev, arg.digest)
  /\ Save(Admit(db, arg.rev, arg.digest, arg.serving, now + 1))
  /\ arg' = [arg EXCEPT !.serving = AdmitServing(db, arg.rev, arg.serving)]
  /\ Goto("register")
  /\ UNCHANGED <<reg, pub, lastHash, converged, hash, desired, todo, call, faults>>

\* registerTool of the resource as Admit completed it, with the serving default.
AdmittedTool == [digest |-> arg.digest, active |-> TRUE, serving |-> arg.serving]

ApplyRegister ==
  /\ pc = "register"
  /\ arg.rev \in Valid
  /\ Install(AddTool(reg, arg.rev, AdmittedTool, TRUE), arg.rev)
  /\ Goto("hash")
  /\ UNCHANGED <<db, now, lastHash, converged, arg, hash, desired, todo, call,
                 faults>>

\* The registry refuses the version: 202, desired state stored and pending.
ApplyRegisterFails ==
  /\ pc = "register"
  /\ arg.rev \notin Valid
  /\ Finish(FALSE)
  /\ UNCHANGED <<db, now, reg, pub, lastHash, call, faults>>

-----------------------------------------------------------------------------
(* handleToolDelete                                                        *)

\* A binding lookup or cache flush that fails first ends it with no effect.
DeleteStart(r, hard) ==
  /\ op = "idle" /\ IF hard THEN HardDeletes ELSE MayWrite
  /\ op' = "delete" /\ pc' = "dereg"
  /\ arg' = [rev |-> r, digest |-> None, serving |-> FALSE, hard |-> hard]
  /\ UNCHANGED <<db, now, reg, pub, lastHash, converged, hash, desired, todo,
                 call, faults>>

\* Mutation of DeleteDeregister: withdrawal is left to the reconcile pass.
DeleteDeregisterLater ==
  /\ pc = "dereg"
  /\ Goto("erase")
  /\ UNCHANGED <<db, now, reg, pub, lastHash, converged, arg, hash, desired, todo,
                 call, faults>>

\* DeregisterTool: withdrawal waits for every committed call to return.
DeleteDeregister ==
  /\ pc = "dereg"
  /\ NoReader
  /\ Install(Remove(reg, arg.rev), arg.rev)
  /\ Goto("erase")
  /\ UNCHANGED <<db, now, lastHash, converged, arg, hash, desired, todo, call,
                 faults>>

DeleteHard ==
  /\ pc = "erase" /\ arg.hard
  /\ db' = HardDelete(db, arg.rev)
  /\ Goto("hash")
  /\ UNCHANGED <<now, reg, pub, lastHash, converged, arg, hash, desired, todo,
                 call, faults>>

DeleteSoft ==
  /\ pc = "erase" /\ ~arg.hard
  /\ Exists(db, arg.rev)
  /\ Save(SoftDelete(db, arg.rev, now + 1))
  /\ Goto("hash")
  /\ UNCHANGED <<reg, pub, lastHash, converged, arg, hash, desired, todo, call,
                 faults>>

\* No such row, or the store fails: 500 with the revision already withdrawn.
DeleteFails ==
  /\ pc = "erase"
  /\ \/ ~arg.hard /\ ~Exists(db, arg.rev) /\ UNCHANGED faults
     \/ Fault("erase")
  /\ Finish(FALSE)
  /\ UNCHANGED <<db, now, reg, pub, lastHash, call>>

-----------------------------------------------------------------------------
(* reconcileLocked, run by the controller or at the end of a handler       *)

\* runReconciliationAttempt on a controller tick.
Tick ==
  /\ op = "idle"
  /\ op' = "tick" /\ pc' = "hash"
  /\ UNCHANGED <<db, now, reg, pub, lastHash, converged, arg, hash, desired,
                 todo, call, faults>>

\* The state hash is the one of the last complete pass: nothing to do.
ReconcileSkip ==
  /\ pc = "hash"
  /\ db = lastHash
  /\ Finish(TRUE)
  /\ UNCHANGED <<db, now, reg, pub, lastHash, call, faults>>

\* Mutation of ReconcileHash: the hash is recorded before the work is done.
ReconcileHashEarly ==
  /\ pc = "hash"
  /\ db # lastHash
  /\ hash' = db
  /\ lastHash' = db
  /\ Goto("list")
  /\ UNCHANGED <<db, now, reg, pub, converged, arg, desired, todo, call, faults>>

ReconcileHash ==
  /\ pc = "hash"
  /\ db # lastHash
  /\ hash' = db
  /\ Goto("list")
  /\ UNCHANGED <<db, now, reg, pub, lastHash, converged, arg, desired, todo,
                 call, faults>>

ReconcileList ==
  /\ pc = "list"
  /\ desired' = db
  /\ todo' = DesiredActive(db)
  /\ Goto("sync")
  /\ UNCHANGED <<db, now, reg, pub, lastHash, converged, arg, hash, call, faults>>

\* GetStateHash, a List, or the cache flush of the bindings fails.
ReconcileReadFails ==
  /\ pc \in {"hash", "list"}
  /\ Fault("read")
  /\ Finish(FALSE)
  /\ UNCHANGED <<db, now, reg, pub, lastHash, call>>

\* The next desired row in List order.
NextRow(r) == r \in todo /\ \A q \in todo : Rank[r] <= Rank[q]

\* The runtime does not hold the row as stored.
OutOfDate(r) == ~reg.tools[r].active \/ reg.tools[r] # ToolOf(desired[r])

SyncKeep(r) ==
  /\ pc = "sync" /\ NextRow(r)
  /\ ~OutOfDate(r)
  /\ todo' = todo \ {r}
  /\ UNCHANGED <<db, now, reg, pub, lastHash, converged, op, pc, arg, hash,
                 desired, call, faults>>

SyncRegister(r) ==
  /\ pc = "sync" /\ NextRow(r)
  /\ OutOfDate(r)
  /\ r \in Valid
  /\ Install(AddTool(reg, r, ToolOf(desired[r]), FALSE), r)
  /\ todo' = todo \ {r}
  /\ UNCHANGED <<db, now, lastHash, converged, op, pc, arg, hash, desired, call,
                 faults>>

\* registerTool fails and ends the whole pass.
SyncFails(r) ==
  /\ pc = "sync" /\ NextRow(r)
  /\ OutOfDate(r)
  /\ r \notin Valid
  /\ Finish(FALSE)
  /\ UNCHANGED <<db, now, reg, pub, lastHash, call, faults>>

\* Every desired row is visited: collect the active tools nobody desires.
SweepStart ==
  /\ pc = "sync" /\ todo = {}
  /\ todo' = ListActive(reg) \ DesiredActive(desired)
  /\ Goto("sweep")
  /\ UNCHANGED <<db, now, reg, pub, lastHash, converged, arg, hash, desired,
                 call, faults>>

SweepDeregister(r) ==
  /\ pc = "sweep" /\ r \in todo
  /\ NoReader
  /\ Install(Remove(reg, r), r)
  /\ todo' = todo \ {r}
  /\ UNCHANGED <<db, now, lastHash, converged, op, pc, arg, hash, desired, call,
                 faults>>

\* Mutation of ReconcileDone: the hash is computed again at the end.
ReconcileDoneRehash ==
  /\ pc = "sweep" /\ todo = {}
  /\ lastHash' = db
  /\ Finish(TRUE)
  /\ UNCHANGED <<db, now, reg, pub, call, faults>>

ReconcileDone ==
  /\ pc = "sweep" /\ todo = {}
  /\ lastHash' = hash
  /\ Finish(TRUE)
  /\ UNCHANGED <<db, now, reg, pub, call, faults>>

-----------------------------------------------------------------------------
(* Calls                                                                   *)

\* Transports open once the boot pass has ended.
Serving == op \notin {"boot", "down"}

\* A request resolves one revision and keeps a clone of it.
Resolved(c, r) ==
  call' = [call EXCEPT ![c] = [stage |-> "resolved", rev |-> r,
                               digest |-> reg.tools[r].digest]]

CallStart(c) ==
  /\ Serving
  /\ call[c].stage = "idle"
  /\ \/ \E n \in Name : \E r \in ResolveServing(reg, n) : Resolved(c, r)
     \/ \E q \in Rev : \E r \in ResolveExact(reg, q) : Resolved(c, r)
     \/ \E q \in Rev, d \in Content :
          \E r \in ResolveDigest(reg, q, d) : Resolved(c, r)
     \/ \E n \in Name : \E match \in SUBSET {q \in Rev : NameOf[q] = n} :
          \E r \in ResolveConstraint(reg, match) : Resolved(c, r)
  /\ UNCHANGED <<db, now, reg, pub, lastHash, converged, ctlVars, faults>>

\* Arguments, rate, role, cache, concurrency or origin end the call early.
CallEndsEarly(c) ==
  /\ call[c].stage = "resolved"
  /\ call' = [call EXCEPT ![c] = NoCall]
  /\ UNCHANGED <<db, now, reg, pub, lastHash, converged, ctlVars, faults>>

\* Mutation of RevisionActive: the digest is not compared again.
RevisionActiveByName(c) == ResolveExact(reg, call[c].rev) # {}

\* revisionActive: the revision is active and still has the snapshot's content.
RevisionActive(c) ==
  \E r \in ResolveExact(reg, call[c].rev) : reg.tools[r].digest = call[c].digest

CallCommit(c) ==
  /\ call[c].stage = "resolved"
  /\ ~WriterWaiting
  /\ RevisionActive(c)
  /\ call' = [call EXCEPT ![c].stage = "committed"]
  /\ UNCHANGED <<db, now, reg, pub, lastHash, converged, ctlVars, faults>>

CallDenied(c) ==
  /\ call[c].stage = "resolved"
  /\ ~WriterWaiting
  /\ ~RevisionActive(c)
  /\ call' = [call EXCEPT ![c] = NoCall]
  /\ UNCHANGED <<db, now, reg, pub, lastHash, converged, ctlVars, faults>>

\* The connector returns, with a response, an error or its timeout.
CallReturn(c) ==
  /\ call[c].stage = "committed"
  /\ call' = [call EXCEPT ![c] = NoCall]
  /\ UNCHANGED <<db, now, reg, pub, lastHash, converged, ctlVars, faults>>

-----------------------------------------------------------------------------
(* The process dies and is started again; the database survives.           *)

\* Mutation of Crash: the last reconciled hash survives the process.
CrashKeepsHash ==
  /\ op # "down"
  /\ Fault("crash")
  /\ op' = "down" /\ pc' = "idle"
  /\ reg' = NewToolRegistry
  /\ pub' = NothingPublished
  /\ converged' = FALSE
  /\ arg' = NoRequest /\ hash' = None /\ desired' = EmptyTable /\ todo' = {}
  /\ call' = [c \in Call |-> NoCall]
  /\ UNCHANGED <<db, now, lastHash>>

Crash ==
  /\ op # "down"
  /\ Fault("crash")
  /\ op' = "down" /\ pc' = "idle"
  /\ reg' = NewToolRegistry
  /\ pub' = NothingPublished
  /\ lastHash' = None
  /\ converged' = FALSE
  /\ arg' = NoRequest /\ hash' = None /\ desired' = EmptyTable /\ todo' = {}
  /\ call' = [c \in Call |-> NoCall]
  /\ UNCHANGED <<db, now>>

\* NewServer and the reconcile that precedes the transports.
Restart ==
  /\ op = "down"
  /\ op' = "boot" /\ pc' = "hash"
  /\ UNCHANGED <<db, now, reg, pub, lastHash, converged, arg, hash, desired,
                 todo, call, faults>>

\* The process beside a stdio server: the HTTP server on the same database
\* file admits or deletes a revision.
PeerWrite(r) ==
  /\ MayWrite
  /\ \/ \E d \in Content, want \in BOOLEAN :
          /\ ~AdmissionConflict(db, r, d)
          /\ Save(Admit(db, r, d, want, now + 1))
     \/ Exists(db, r) /\ Save(SoftDelete(db, r, now + 1))
     \/ HardDeletes /\ Exists(db, r) /\ db' = HardDelete(db, r) /\ UNCHANGED now
  /\ UNCHANGED <<reg, pub, lastHash, converged, ctlVars, call, faults>>

-----------------------------------------------------------------------------
ApplyStep ==
  \/ ApplyConflict \/ ApplyFails \/ ApplyAdmit
  \/ ApplyRegister \/ ApplyRegisterFails

DeleteStep == DeleteDeregister \/ DeleteHard \/ DeleteSoft \/ DeleteFails

ReconcileStep ==
  \/ ReconcileSkip \/ ReconcileHash \/ ReconcileList \/ ReconcileReadFails
  \/ \E r \in Rev : SyncKeep(r) \/ SyncRegister(r) \/ SyncFails(r)
  \/ SweepStart
  \/ \E r \in Rev : SweepDeregister(r)
  \/ ReconcileDone

ControlStep == ApplyStep \/ DeleteStep \/ ReconcileStep

CallStep(c) ==
  \/ CallStart(c) \/ CallEndsEarly(c) \/ CallCommit(c) \/ CallDenied(c)
  \/ CallReturn(c)

\* What every process does: its controller, its callers, its crashes.
RuntimeStep ==
  \/ Tick \/ ReconcileStep
  \/ \E c \in Call : CallStep(c)
  \/ Crash \/ Restart

\* An HTTP server: the only writer of its database.
HttpNext ==
  \/ \E r \in Rev, d \in Content, want \in BOOLEAN : ApplyStart(r, d, want)
  \/ \E r \in Rev, hard \in BOOLEAN : DeleteStart(r, hard)
  \/ ApplyStep \/ DeleteStep
  \/ RuntimeStep

\* A stdio server: no control-plane API of its own; it follows the database.
StdioNext == RuntimeStep \/ \E r \in Rev : PeerWrite(r)

HttpSpec  == Init /\ [][HttpNext]_vars
StdioSpec == Init /\ [][StdioNext]_vars

(***************************************************************************)
(* Fairness.  A goroutine that holds pluginLifecycleMu keeps running, a    *)
(* connector call returns (its HTTP client has a 30 second timeout), a     *)
(* supervisor restarts the process.  The controller's ticker keeps asking  *)
(* for pluginLifecycleMu, which sync.RWMutex grants to every waiter in     *)
(* the end even when handlers keep coming: strong fairness of Tick.        *)
(***************************************************************************)
Fairness ==
  /\ WF_vars(ControlStep)
  /\ SF_vars(Tick)
  /\ WF_vars(Restart)
  /\ \A c \in Call : WF_vars(CallReturn(c))

HttpFairSpec  == HttpSpec /\ Fairness
StdioFairSpec == StdioSpec /\ Fairness

-----------------------------------------------------------------------------
(* Safety *)

(***************************************************************************)
(* Whatever the runtime would dispatch is what SQLite holds: an active     *)
(* registry entry has an active row with the same digest.  Apply persists  *)
(* before it registers and delete withdraws before it persists, so no      *)
(* crash, failure or order of handlers may leave a revision callable that  *)
(* the store does not (or no longer) admit.                                *)
(***************************************************************************)
RuntimeServesAdmitted ==
  \A r \in Rev : reg.tools[r].active =>
    db[r].active /\ reg.tools[r].digest = db[r].digest

(***************************************************************************)
(* A call inside the ERP connector has the authority it committed with: its *)
(* revision is still active, with the content of the call's snapshot.      *)
(***************************************************************************)
InFlightAuthorized ==
  \A c \in Call : call[c].stage = "committed" =>
    /\ reg.tools[call[c].rev].active
    /\ reg.tools[call[c].rev].digest = call[c].digest

(***************************************************************************)
(* Discovery describes the registry (refreshMCPToolsLocked's comment): the *)
(* exact names that can be called are those of the active revisions, each  *)
(* with its current digest and serving flag; the unqualified alias exists  *)
(* exactly when the serving revision resolves, and describes it.  By       *)
(* default tools/list shows the aliases alone and the exact names stay     *)
(* callable (hideRevisionAliases); when they are advertised it shows both. *)
(***************************************************************************)
DiscoveryMatchesRegistry == Describes(pub, reg)

(***************************************************************************)
(* The table never holds two serving revisions of one name, nor a serving  *)
(* revision that is not active, whatever admissions, reactivations and     *)
(* deletions came before.                                                  *)
(***************************************************************************)
OneServingRow ==
  /\ \A r \in Rev : db[r].serving => db[r].active
  /\ \A q, r \in Rev : Sibling(q, r) /\ db[q].serving /\ db[r].serving => q = r

\* The runtime is what the table asks for: active revisions, their content and
\* flags, and the revision behind each unqualified name.
Aligned ==
  /\ \A r \in Rev :
       /\ reg.tools[r].active = db[r].active
       /\ db[r].active => reg.tools[r] = ToolOf(db[r])
  /\ \A r \in Rev : reg.serving[NameOf[r]] = r <=> db[r].serving

(***************************************************************************)
(* Skipping a pass is safe: between operations, a table whose hash is the  *)
(* last reconciled one has a runtime aligned with it.  This is what lets   *)
(* reconcileLocked return early and a tick report Converged.               *)
(***************************************************************************)
SkipIsSafe == op = "idle" /\ db = lastHash => Aligned

(***************************************************************************)
(* Admitted content is immutable: an existing row never changes its digest *)
(* in place; new content needs a hard delete first.                        *)
(***************************************************************************)
ContentImmutable ==
  [][\A r \in Rev : Exists(db, r) /\ db'[r].digest # None
                      => db'[r].digest = db[r].digest]_db

-----------------------------------------------------------------------------
(* Liveness *)

\* A withdrawal that waits for authorityMu gets it, however many callers keep
\* arriving: committed calls return and new ones queue behind the writer.
WithdrawalCompletes ==
  (pc \in {"dereg", "sweep"}) ~> (pc \notin {"dereg", "sweep"})

\* Once operators stop writing, the runtime reaches the stored state and its
\* reconciliation status says so, despite failed reads and crashes along the
\* way, without another request.
Converges == <>[](op = "idle" => Aligned /\ converged)

\* A tool that stays active in SQLite does not stay unregistered
\* (docs/architecture.md:140).
StoredToolsRegistered ==
  \A r \in Valid : []<>(db[r].active => reg.tools[r].active)

\* A tool that is inactive in, or missing from, SQLite does not stay registered
\* (docs/architecture.md:141).
DeletedToolsDeregistered ==
  \A r \in Rev : []<>(reg.tools[r].active => db[r].active)

-----------------------------------------------------------------------------
(* The authority boundary the control plane implements.                    *)

grantedBar  == [r \in Rev |-> IF reg.tools[r].active THEN reg.tools[r].digest
                                                     ELSE None]
inflightBar == [c \in Call |-> IF call[c].stage = "committed"
                               THEN [rev |-> call[c].rev, digest |-> call[c].digest]
                               ELSE [rev |-> None, digest |-> None]]

AuthorityBoundary == INSTANCE Authority WITH granted <- grantedBar,
                                             inflight <- inflightBar

(***************************************************************************)
(* Every step of the control plane and of its callers is a grant, a        *)
(* withdrawal, a commit, a return or a reset of the abstract boundary.     *)
(***************************************************************************)
ImplementsAuthority == AuthorityBoundary!Spec
=============================================================================
