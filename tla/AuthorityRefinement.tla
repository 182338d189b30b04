------------------------ MODULE AuthorityRefinement ------------------------
(***************************************************************************)
(* An HTTP server, and a stdio server whose peer uses no hard deletes,     *)
(* implement the authority boundary of module Authority, under the         *)
(* refinement mapping of ControlPlane (grantedBar, inflightBar), for every *)
(* value of the constants.  Only the steps that touch the registry or a    *)
(* call are visible at the boundary.                                       *)
(***************************************************************************)
EXTENDS ControlPlaneProofs

\* The initial state grants nothing and has no dispatch under way.
LEMMA InitRefines == Init => AuthorityBoundary!Init
BY DEF Init, AuthorityBoundary!Init, AuthorityBoundary!NoDispatch, grantedBar,
       inflightBar, NewToolRegistry, NoTool, NoCall

\* A step that changes neither the registry nor a call stutters.
LEMMA FrameRefines ==
  ASSUME UNCHANGED <<reg, call>>
  PROVE  UNCHANGED AuthorityBoundary!vars
BY DEF AuthorityBoundary!vars, grantedBar, inflightBar

\* Registering a revision is a grant, or a stutter when the runtime already
\* dispatches it: then it dispatches that content.
LEMMA RegisterRefines ==
  ASSUME reg \in Registry, NEW r \in Rev, NEW t \in Tool, NEW b \in BOOLEAN,
         t.active, t.digest \in Content,
         reg.tools[r].active => reg.tools[r].digest = t.digest,
         Install(AddTool(reg, r, t, b), r), call' = call
  PROVE  [AuthorityBoundary!Next]_AuthorityBoundary!vars
<1>1. reg' = AddTool(reg, r, t, b)
  BY DEF Install
<1>2. \A q \in Rev :
        /\ reg'.tools[q].active <=> IF q = r THEN t.active ELSE reg.tools[q].active
        /\ reg'.tools[q].digest = IF q = r THEN t.digest ELSE reg.tools[q].digest
  BY <1>1, AddToolTools
<1>3. inflightBar' = inflightBar
  BY DEF inflightBar
<1>4. grantedBar' = [grantedBar EXCEPT ![r] = t.digest]
  BY <1>2 DEF grantedBar
<1>5. CASE reg.tools[r].active
  <2>1. grantedBar[r] = t.digest
    BY <1>5 DEF grantedBar
  <2>2. grantedBar' = grantedBar
    BY <1>4, <2>1 DEF grantedBar
  <2> QED BY <1>3, <2>2 DEF AuthorityBoundary!vars
<1>6. CASE ~reg.tools[r].active
  <2>1. grantedBar[r] = None
    BY <1>6 DEF grantedBar
  <2>2. AuthorityBoundary!Grant(r, t.digest)
    BY <1>3, <1>4, <2>1 DEF AuthorityBoundary!Grant
  <2> QED BY <2>2 DEF AuthorityBoundary!Next
<1> QED BY <1>5, <1>6

\* Deregistering a revision while no call is committed is a withdrawal.
LEMMA WithdrawRefines ==
  ASSUME RegistryOK, NEW r \in Rev, NoReader,
         Install(Remove(reg, r), r), call' = call
  PROVE  [AuthorityBoundary!Next]_AuthorityBoundary!vars
<1>1. /\ ~reg'.tools[r].active
      /\ \A q \in Rev : q # r => reg'.tools[q] = reg.tools[q]
  BY UninstallKeeps
<1>2. inflightBar' = inflightBar
  BY DEF inflightBar
<1>3. grantedBar' = [grantedBar EXCEPT ![r] = None]
  BY <1>1 DEF grantedBar
<1>4. \A c \in Call : inflightBar[c].rev # r
  BY NoneAssumption DEF NoReader, inflightBar
<1>5. AuthorityBoundary!Withdraw(r)
  BY <1>2, <1>3, <1>4 DEF AuthorityBoundary!Withdraw
<1> QED BY <1>5 DEF AuthorityBoundary!Next

\* A call's steps are commits, returns and stutters of the boundary.
LEMMA CallRefines ==
  ASSUME call \in [Call -> Snapshot], CallOK, NEW c \in Call, CallStep(c)
  PROVE  [AuthorityBoundary!Next]_AuthorityBoundary!vars
<1>1. reg' = reg /\ grantedBar' = grantedBar
  BY DEF CallStep, CallStart, CallEndsEarly, CallCommit, CallDenied, CallReturn,
         grantedBar
<1>2. CASE CallStart(c)
  <2>1. PICK r : Resolved(c, r)
    BY <1>2 DEF CallStart
  <2>2. inflightBar' = inflightBar
    BY <1>2, <2>1 DEF CallStart, Resolved, inflightBar
  <2> QED BY <1>1, <2>2 DEF AuthorityBoundary!vars
<1>3. CASE call' = [call EXCEPT ![c] = NoCall]
  <2>1. inflightBar' = [inflightBar EXCEPT ![c] = [rev |-> None, digest |-> None]]
    BY <1>3 DEF inflightBar, NoCall
  <2>2. AuthorityBoundary!Return(c)
    BY <1>1, <2>1 DEF AuthorityBoundary!Return, AuthorityBoundary!NoDispatch
  <2> QED BY <2>2 DEF AuthorityBoundary!Next
<1>4. CASE CallCommit(c)
  <2> DEFINE r == call[c].rev
             d == call[c].digest
  <2>1. r \in Rev /\ d \in Content
    BY <1>4 DEF CallCommit, CallOK
  <2>2. grantedBar[r] = d
    BY <1>4, <2>1 DEF CallCommit, RevisionActive, ResolveExact, ListActive,
                      grantedBar
  <2>3. inflightBar[c] = AuthorityBoundary!NoDispatch
    BY <1>4 DEF CallCommit, inflightBar, AuthorityBoundary!NoDispatch
  <2>4. inflightBar' = [inflightBar EXCEPT ![c] = [rev |-> r, digest |-> d]]
    BY <1>4 DEF CallCommit, inflightBar, Snapshot
  <2>5. AuthorityBoundary!Commit(c, r, d)
    BY <1>1, <2>2, <2>3, <2>4 DEF AuthorityBoundary!Commit
  <2> QED BY <2>1, <2>5 DEF AuthorityBoundary!Next
<1> QED BY <1>2, <1>3, <1>4
        DEF CallStep, CallEndsEarly, CallDenied, CallReturn

\* A crash is the boundary's reset.
LEMMA CrashRefines ==
  ASSUME Crash
  PROVE  AuthorityBoundary!Next
BY DEF Crash, AuthorityBoundary!Next, AuthorityBoundary!Reset,
       AuthorityBoundary!NoDispatch, grantedBar, inflightBar, NewToolRegistry,
       NoTool, NoCall

\* Every step of an HTTP server is a step or a stutter of the boundary.
LEMMA StepRefines ==
  HttpInv /\ [HttpNext]_vars => [AuthorityBoundary!Next]_AuthorityBoundary!vars
<1> SUFFICES ASSUME HttpInv, [HttpNext]_vars
             PROVE  [AuthorityBoundary!Next]_AuthorityBoundary!vars
  OBVIOUS
<1>1. CASE ApplyRegister
  <2>1. /\ arg.rev \in Rev /\ AdmittedTool \in Tool /\ AdmittedTool.active
        /\ db[arg.rev].active /\ AdmittedTool.digest = db[arg.rev].digest
    BY <1>1 DEF ApplyRegister, AdmittedTool, Tool, HttpInv, RequestOK, StepOK,
                TypeOK, Request
  <2>2. reg \in Registry /\ AdmittedTool.digest \in Content
    BY <2>1 DEF HttpInv, TypeOK, RuntimeOK, RowsOK
  <2>3. reg.tools[arg.rev].active => reg.tools[arg.rev].digest = AdmittedTool.digest
    BY <2>1 DEF HttpInv, RuntimeOK, RuntimeServesAdmitted
  <2> QED BY <1>1, <2>1, <2>2, <2>3, RegisterRefines DEF ApplyRegister
<1>2. CASE DeleteDeregister
  <2>1. arg.rev \in Rev
    BY <1>2 DEF DeleteDeregister, HttpInv, RequestOK
  <2> QED BY <1>2, <2>1, HttpRegistryOK, WithdrawRefines DEF DeleteDeregister
<1>3. ASSUME NEW r \in Rev, SyncRegister(r)
      PROVE  [AuthorityBoundary!Next]_AuthorityBoundary!vars
  <2> DEFINE t == ToolOf(desired[r])
  <2>1. db \in Table /\ desired = db /\ db[r].active
    BY <1>3 DEF SyncRegister, NextRow, HttpInv, TypeOK, StepOK, DesiredActive
  <2>2. t \in Tool /\ t.active /\ t.digest = db[r].digest
    BY <2>1 DEF ToolOf, Tool, Table, Row
  <2>3. Install(AddTool(reg, r, t, FALSE), r) /\ call' = call
    BY <1>3 DEF SyncRegister
  <2> HIDE DEF t
  <2>4. reg \in Registry /\ t.digest \in Content
    BY <2>1, <2>2 DEF HttpInv, TypeOK, RuntimeOK, RowsOK
  <2>5. reg.tools[r].active => reg.tools[r].digest = t.digest
    BY <2>2 DEF HttpInv, RuntimeOK, RuntimeServesAdmitted
  <2> QED BY <2>2, <2>3, <2>4, <2>5, RegisterRefines
<1>4. ASSUME NEW r \in Rev, SweepDeregister(r)
      PROVE  [AuthorityBoundary!Next]_AuthorityBoundary!vars
  BY <1>4, HttpRegistryOK, WithdrawRefines DEF SweepDeregister
<1>5. ASSUME NEW c \in Call, CallStep(c)
      PROVE  [AuthorityBoundary!Next]_AuthorityBoundary!vars
  BY <1>5, CallRefines DEF HttpInv, TypeOK, RuntimeOK
<1>6. CASE Crash
  BY <1>6, CrashRefines
<1>7. CASE UNCHANGED <<reg, call>>
  BY <1>7, FrameRefines
<1>8. ASSUME NEW r \in Rev, SyncKeep(r) \/ SyncFails(r)
      PROVE  UNCHANGED <<reg, call>>
  BY <1>8 DEF SyncKeep, SyncFails
<1>9. CASE ApplyStep
  BY <1>9, <1>1, <1>7
     DEF ApplyStep, ApplyConflict, ApplyFails, ApplyAdmit, ApplyRegisterFails
<1>10. CASE DeleteStep
  BY <1>10, <1>2, <1>7 DEF DeleteStep, DeleteHard, DeleteSoft, DeleteFails
<1>11. CASE ReconcileStep
  BY <1>11, <1>3, <1>4, <1>7, <1>8
     DEF ReconcileStep, ReconcileSkip, ReconcileHash, ReconcileList,
         ReconcileReadFails, SweepStart, ReconcileDone
<1>12. CASE Tick \/ Restart \/ UNCHANGED vars
  BY <1>12, <1>7 DEF Tick, Restart, vars
<1>13. ASSUME NEW r \in Rev, NEW d \in Content, NEW want \in BOOLEAN,
              ApplyStart(r, d, want)
       PROVE  UNCHANGED <<reg, call>>
  BY <1>13 DEF ApplyStart
<1>14. ASSUME NEW r \in Rev, NEW hard \in BOOLEAN, DeleteStart(r, hard)
       PROVE  UNCHANGED <<reg, call>>
  BY <1>14 DEF DeleteStart
<1> QED BY <1>5, <1>6, <1>7, <1>9, <1>10, <1>11, <1>12, <1>13, <1>14
        DEF HttpNext, RuntimeStep

\* An HTTP server grants, withdraws and commits only as the boundary allows:
\* no ERP dispatch starts without a grant of exactly its content, and none
\* loses its grant while it is under way.
THEOREM HttpImplementsAuthority == HttpSpec => ImplementsAuthority
<1>1. Init => AuthorityBoundary!Init
  BY InitRefines
<1>2. HttpInv /\ [HttpNext]_vars => [AuthorityBoundary!Next]_AuthorityBoundary!vars
  BY StepRefines
<1> QED BY <1>1, <1>2, InvHolds, PTL
        DEF HttpSpec, ImplementsAuthority, AuthorityBoundary!Spec

-----------------------------------------------------------------------------
\* Every step of a stdio server, and every write of its peer, is a step or a
\* stutter of the boundary: a pass that registers an active revision again
\* grants the content the revision already has.
LEMMA StdioStepRefines ==
  ASSUME HardDeletes = FALSE, StdioAuthority, [StdioNext]_vars
  PROVE  [AuthorityBoundary!Next]_AuthorityBoundary!vars
<1>0. StdioRuntime /\ RegistryOK /\ ContentAgrees
  BY DEF StdioAuthority, StdioRuntime
<1>1. ASSUME NEW r \in Rev, SyncRegister(r)
      PROVE  [AuthorityBoundary!Next]_AuthorityBoundary!vars
  <2> DEFINE t == ToolOf(desired[r])
  <2>1. r \in todo /\ pc = "sync" /\ desired[r].active
    BY <1>0, <1>1 DEF SyncRegister, NextRow, StdioRuntime, ListedOK, DesiredActive
  <2>2. /\ t \in Tool /\ t.active /\ t.digest \in Content
        /\ t.digest = db[r].digest
    BY <1>0, <2>1, ListedRow DEF ContentAgrees
  <2>3. Install(AddTool(reg, r, t, FALSE), r) /\ call' = call
    BY <1>1 DEF SyncRegister
  <2> HIDE DEF t
  <2>4. reg \in Registry /\ (reg.tools[r].active => reg.tools[r].digest = t.digest)
    BY <1>0, <2>2 DEF RegistryOK, ContentAgrees
  <2> QED BY <2>2, <2>3, <2>4, RegisterRefines
<1>2. ASSUME NEW r \in Rev, SweepDeregister(r)
      PROVE  [AuthorityBoundary!Next]_AuthorityBoundary!vars
  BY <1>0, <1>2, WithdrawRefines DEF SweepDeregister
<1>3. ASSUME NEW c \in Call, CallStep(c)
      PROVE  [AuthorityBoundary!Next]_AuthorityBoundary!vars
  BY <1>0, <1>3, CallRefines DEF StdioRuntime, TypeOK
<1>4. CASE Crash
  BY <1>4, CrashRefines
<1>5. CASE UNCHANGED <<reg, call>>
  BY <1>5, FrameRefines
<1>6. ASSUME NEW r \in Rev, SyncKeep(r) \/ SyncFails(r) \/ PeerWrite(r)
      PROVE  UNCHANGED <<reg, call>>
  BY <1>6 DEF SyncKeep, SyncFails, PeerWrite
<1>7. CASE ReconcileStep
  BY <1>7, <1>1, <1>2, <1>5, <1>6
     DEF ReconcileStep, ReconcileSkip, ReconcileHash, ReconcileList,
         ReconcileReadFails, SweepStart, ReconcileDone
<1>8. CASE Tick \/ Restart \/ UNCHANGED vars
  BY <1>8, <1>5 DEF Tick, Restart, vars
<1> QED BY <1>3, <1>4, <1>5, <1>6, <1>7, <1>8 DEF StdioNext, RuntimeStep

\* A stdio server whose peer uses no hard deletes implements the same boundary,
\* although it follows the table with a delay: no ERP dispatch starts without a
\* grant of exactly its content, and none loses its grant while it is under way.
THEOREM StdioImplementsAuthority ==
  ASSUME HardDeletes = FALSE PROVE StdioSpec => ImplementsAuthority
<1>1. StdioAuthority /\ [StdioNext]_vars
        => [AuthorityBoundary!Next]_AuthorityBoundary!vars
  BY StdioStepRefines
<1> QED BY <1>1, InitRefines, StdioAuthorityHolds, PTL
        DEF StdioSpec, ImplementsAuthority, AuthorityBoundary!Spec
=============================================================================
