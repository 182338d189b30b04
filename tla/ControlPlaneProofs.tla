------------------------- MODULE ControlPlaneProofs -------------------------
(***************************************************************************)
(* Proofs about ControlPlane for every set of names, revisions, contents   *)
(* and callers, every subset of failing store operations and every bound.  *)
(***************************************************************************)
EXTENDS ControlPlane, TLAPS

-----------------------------------------------------------------------------
(* What the registry operators return.                                     *)

\* Registering a revision yields a registry value.
LEMMA AddToolType ==
  ASSUME NEW R \in Registry, NEW r \in Rev, NEW t \in Tool, NEW b \in BOOLEAN
  PROVE  AddTool(R, r, t, b) \in Registry
BY NameOfAssumption
   DEF AddTool, SetServing, Unselect, Registry, Tool, Sibling

\* Registering a revision sets its content and activity and nobody else's.
LEMMA AddToolTools ==
  ASSUME NEW R \in Registry, NEW r \in Rev, NEW t \in Tool, NEW b \in BOOLEAN,
         NEW q \in Rev, NEW A, A = AddTool(R, r, t, b)
  PROVE  /\ A.tools[q].active <=> IF q = r THEN t.active ELSE R.tools[q].active
         /\ A.tools[q].digest = IF q = r THEN t.digest ELSE R.tools[q].digest
         /\ NameOf[q] # NameOf[r] => A.tools[q] = R.tools[q]
BY NameOfAssumption
   DEF AddTool, SetServing, Unselect, Registry, Tool, Sibling

\* Registering a revision moves the pointer of its own name only, to itself,
\* to nothing, or not at all.
LEMMA AddToolServing ==
  ASSUME NEW R \in Registry, NEW r \in Rev, NEW t \in Tool, NEW b \in BOOLEAN,
         NEW n \in Name, NEW A, A = AddTool(R, r, t, b)
  PROVE  /\ n # NameOf[r] => A.serving[n] = R.serving[n]
         /\ A.serving[NameOf[r]] \in {r, None, R.serving[NameOf[r]]}
BY NameOfAssumption
   DEF AddTool, SetServing, Unselect, Registry, Tool, Sibling

\* Removing a revision yields a registry value.
LEMMA RemoveType ==
  ASSUME NEW R \in Registry, NEW r \in Rev
  PROVE  Remove(R, r) \in Registry
BY NameOfAssumption DEF Remove, Unselect, Registry, Tool

\* Removing a revision deactivates it and touches nobody else.
LEMMA RemoveTools ==
  ASSUME NEW R \in Registry, NEW r \in Rev, NEW q \in Rev,
         NEW A, A = Remove(R, r)
  PROVE  /\ q # r => A.tools[q] = R.tools[q]
         /\ A.tools[q].digest = R.tools[q].digest
         /\ R.tools[r].digest # None => ~A.tools[r].active
         /\ R.tools[r].digest = None => A = R
BY NameOfAssumption DEF Remove, Unselect, Registry, Tool

\* Removing a revision clears its own pointer and no other.
LEMMA RemoveServing ==
  ASSUME NEW R \in Registry, NEW r \in Rev, NEW n \in Name,
         R.tools[r].digest # None, NEW A, A = Remove(R, r)
  PROVE  /\ A.serving[n] \in {None, R.serving[n]}
         /\ R.serving[n] # r => A.serving[n] = R.serving[n]
         /\ A.serving[NameOf[r]] # r
BY NameOfAssumption, NoneAssumption DEF Remove, Unselect, Registry, Tool

\* Refreshing the descriptors of the name that changed restores discovery.
LEMMA RefreshDescribes ==
  ASSUME NEW P \in Published, NEW R \in Registry, NEW A \in Registry,
         NEW r \in Rev,
         \A q \in Rev : NameOf[q] # NameOf[r] => A.tools[q] = R.tools[q],
         \A n \in Name \ {NameOf[r]} : A.serving[n] = R.serving[n],
         \A n \in Name : R.serving[n] # None => NameOf[R.serving[n]] = n,
         Describes(P, R)
  PROVE  /\ Refresh(P, A, NameOf[r]) \in Published
         /\ Describes(Refresh(P, A, NameOf[r]), A)
<1> DEFINE Q == Refresh(P, A, NameOf[r])
<1>1. Q \in Published
  BY NameOfAssumption, NoneAssumption
     DEF Refresh, Published, Registry, Alias, ServingAlias, NoAlias, NoTool, Tool
<1>2. ASSUME NEW q \in Rev, A.tools[q].active
      PROVE  Q.exact[q] = A.tools[q]
  <2>1. CASE NameOf[q] = NameOf[r]
    BY <1>2, <2>1 DEF Refresh
  <2>2. CASE NameOf[q] # NameOf[r]
    <3>1. q \in ListActive(R)
      BY <1>2, <2>2 DEF ListActive
    <3>2. P.exact[q] = R.tools[q]
      BY <3>1 DEF Describes
    <3> QED BY <2>2, <3>2 DEF Refresh
  <2> QED BY <2>1, <2>2
<1>3. CallableExact(Q, A) = ListActive(A)
  <2>1. ASSUME NEW q \in ListActive(A)
        PROVE  Q.exact[q] # NoTool
    BY <1>2, <2>1 DEF ListActive, NoTool
  <2> QED BY <2>1 DEF CallableExact, ResolveExact, ListActive
<1>4. ASSUME NEW n \in Name
      PROVE  Q.alias[n] = ServingAlias(A, n)
  <2>1. CASE n = NameOf[r]
    BY <2>1 DEF Refresh, Published
  <2>2. CASE n # NameOf[r]
    <3>1. Q.alias[n] = ServingAlias(R, n)
      BY <2>2, NameOfAssumption DEF Refresh, Published, Describes
    <3>2. A.serving[n] = R.serving[n]
      BY <2>2
    <3>3. R.serving[n] # None => A.tools[R.serving[n]] = R.tools[R.serving[n]]
      BY <2>2 DEF Registry
    <3> QED BY <3>1, <3>2, <3>3 DEF ServingAlias
  <2> QED BY <2>1, <2>2
<1>5. CallableAlias(Q, A) = {n \in Name : ResolveServing(A, n) # {}}
  <2>1. ASSUME NEW n \in Name, ResolveServing(A, n) # {}
        PROVE  Q.alias[n] # NoAlias
    <3>1. A.serving[n] \in Rev /\ A.tools[A.serving[n]].active
      BY <2>1 DEF ResolveServing, ListActive
    <3>2. A.serving[n] # None
      BY <3>1, NoneAssumption
    <3>3. Q.alias[n] = [rev |-> A.serving[n], tool |-> A.tools[A.serving[n]]]
      <4>1. Q.alias[n] = ServingAlias(A, n)
        BY <1>4
      <4> HIDE DEF Q
      <4> QED BY <4>1, <3>1, <3>2 DEF ServingAlias
    <3>4. NoAlias.rev = None
      BY DEF NoAlias
    <3> QED BY <3>2, <3>3, <3>4
  <2> QED BY <2>1 DEF CallableAlias
<1>6. \A r1 \in CallableExact(Q, A) : Q.exact[r1] = A.tools[r1]
  BY <1>2, <1>3 DEF ListActive
<1> HIDE DEF Q
<1>7. Describes(Q, A)
  BY <1>3, <1>4, <1>5, <1>6 DEF Describes, ListTools
<1> QED BY <1>1, <1>7 DEF Q

-----------------------------------------------------------------------------
(***************************************************************************)
(* The inductive invariant of an HTTP server.  RuntimeServesAdmitted is    *)
(* not inductive by itself: it needs to know what the handler under way    *)
(* has already done (StepOK) and that stored rows carry content (RowsOK).  *)
(***************************************************************************)
RowsOK == \A r \in Rev : db[r].active => db[r].digest \in Content

PointerOK ==
  \A n \in Name : reg.serving[n] # None =>
    /\ NameOf[reg.serving[n]] = n
    /\ reg.tools[reg.serving[n]].active

RequestOK ==
  /\ pc \in {"admit", "register", "dereg", "erase"} => arg.rev \in Rev
  /\ pc \in {"admit", "register"} => arg.digest \in Content

StepOK ==
  /\ pc = "register" => db[arg.rev].active /\ db[arg.rev].digest = arg.digest
  /\ pc = "erase" => ~reg.tools[arg.rev].active
  /\ pc \in {"sync", "sweep"} => desired = db
  /\ pc = "sync" => todo \subseteq DesiredActive(db)

CallOK == \A c \in Call : call[c].stage # "idle" =>
            call[c].rev \in Rev /\ call[c].digest \in Content

\* The part that only reads the table, the registry, its descriptors and calls.
RuntimeOK ==
  /\ RowsOK
  /\ PointerOK
  /\ CallOK
  /\ RuntimeServesAdmitted
  /\ InFlightAuthorized
  /\ DiscoveryMatchesRegistry

HttpInv == TypeOK /\ RuntimeOK /\ RequestOK /\ StepOK

\* An empty registry with nothing published satisfies discovery.
LEMMA EmptyDescribes ==
  /\ NewToolRegistry \in Registry
  /\ NothingPublished \in Published
  /\ Describes(NothingPublished, NewToolRegistry)
BY NoneAssumption
   DEF NewToolRegistry, NothingPublished, Registry, Published, Tool, NoTool,
       Alias, NoAlias, Describes, CallableExact, CallableAlias, ListTools,
       ListActive, ResolveExact, ResolveServing, ServingAlias

\* The invariant holds when the first process starts, on an empty database.
LEMMA InitInv == Init => HttpInv
<1> SUFFICES ASSUME Init PROVE HttpInv
  OBVIOUS
<1>1. TypeOK
  BY EmptyDescribes, BoundsAssumption
     DEF Init, TypeOK, EmptyTable, Table, Row, NoRow, Ops, Steps, Request,
         NoRequest, Snapshot, Stages, NoCall
<1>2. RowsOK /\ PointerOK /\ RuntimeServesAdmitted
  BY NameOfAssumption
     DEF Init, RowsOK, PointerOK, RuntimeServesAdmitted, EmptyTable, NoRow,
         NewToolRegistry, NoTool
<1>3. RequestOK /\ StepOK
  BY DEF Init, RequestOK, StepOK
<1>4. CallOK /\ InFlightAuthorized
  BY DEF Init, CallOK, InFlightAuthorized, NoCall
<1>5. DiscoveryMatchesRegistry
  BY EmptyDescribes DEF Init, DiscoveryMatchesRegistry
<1> QED BY <1>1, <1>2, <1>3, <1>4, <1>5 DEF HttpInv, RuntimeOK

\* What holds of the registry and its descriptors in every process.
ActiveOK == \A r \in Rev : reg.tools[r].active => reg.tools[r].digest \in Content

RegistryOK ==
  /\ reg \in Registry /\ pub \in Published
  /\ ActiveOK /\ PointerOK
  /\ DiscoveryMatchesRegistry

\* A step that installs a revision with some content keeps them, whatever the
\* serving flag and default, and grants nothing else.
LEMMA InstallKeeps ==
  ASSUME RegistryOK, NEW r \in Rev, NEW t \in Tool, NEW b \in BOOLEAN,
         t.active, t.digest \in Content, Install(AddTool(reg, r, t, b), r)
  PROVE  /\ RegistryOK'
         /\ \A q \in Rev :
              /\ reg'.tools[q].active <=> IF q = r THEN t.active ELSE reg.tools[q].active
              /\ reg'.tools[q].digest = IF q = r THEN t.digest ELSE reg.tools[q].digest
<1> DEFINE A == AddTool(reg, r, t, b)
<1>1. reg \in Registry /\ pub \in Published /\ reg' = A
  BY DEF RegistryOK, Install
<1>2. A \in Registry
  BY <1>1, AddToolType
<1>3. \A q \in Rev :
        /\ A.tools[q].active <=> IF q = r THEN t.active ELSE reg.tools[q].active
        /\ A.tools[q].digest = IF q = r THEN t.digest ELSE reg.tools[q].digest
        /\ NameOf[q] # NameOf[r] => A.tools[q] = reg.tools[q]
  BY <1>1, AddToolTools
<1>4. \A n \in Name :
        /\ n # NameOf[r] => A.serving[n] = reg.serving[n]
        /\ A.serving[NameOf[r]] \in {r, None, reg.serving[NameOf[r]]}
  BY <1>1, AddToolServing
<1> HIDE DEF A
<1>5. PointerOK'
  <2> SUFFICES ASSUME NEW n \in Name, A.serving[n] # None
               PROVE  NameOf[A.serving[n]] = n /\ A.tools[A.serving[n]].active
    BY <1>1 DEF PointerOK
  <2>1. CASE A.serving[n] = reg.serving[n]
    <3> DEFINE q == reg.serving[n]
    <3>1. q \in Rev /\ NameOf[q] = n /\ reg.tools[q].active
      BY <2>1, <1>1 DEF RegistryOK, PointerOK, Registry
    <3>2. A.tools[q].active
      BY <3>1, <1>3
    <3> QED BY <2>1, <3>1, <3>2
  <2>2. CASE n = NameOf[r] /\ A.serving[n] = r
    BY <2>2, <1>3
  <2> QED BY <2>1, <2>2, <1>4
<1>6. ActiveOK'
  BY <1>1, <1>3 DEF RegistryOK, ActiveOK
<1>7. pub' \in Published /\ DiscoveryMatchesRegistry'
  <2>1. \A n \in Name : reg.serving[n] # None => NameOf[reg.serving[n]] = n
    BY DEF RegistryOK, PointerOK
  <2>2. \A q \in Rev : NameOf[q] # NameOf[r] => A.tools[q] = reg.tools[q]
    BY <1>3
  <2>3. \A n \in Name \ {NameOf[r]} : A.serving[n] = reg.serving[n]
    BY <1>4
  <2>4. Describes(pub, reg)
    BY DEF RegistryOK, DiscoveryMatchesRegistry
  <2>5. /\ Refresh(pub, A, NameOf[r]) \in Published
        /\ Describes(Refresh(pub, A, NameOf[r]), A)
    BY <1>1, <1>2, <2>1, <2>2, <2>3, <2>4, RefreshDescribes
  <2>6. pub' = Refresh(pub, A, NameOf[r])
    BY DEF Install, A
  <2> QED BY <1>1, <2>5, <2>6 DEF DiscoveryMatchesRegistry
<1> QED BY <1>1, <1>2, <1>3, <1>5, <1>6, <1>7 DEF RegistryOK

\* A step that withdraws a revision keeps them; the revision is inactive after
\* it and the others are as before.
LEMMA UninstallKeeps ==
  ASSUME RegistryOK, NEW r \in Rev, Install(Remove(reg, r), r)
  PROVE  /\ RegistryOK'
         /\ ~reg'.tools[r].active
         /\ \A q \in Rev : /\ q # r => reg'.tools[q] = reg.tools[q]
                            /\ reg'.tools[q].digest = reg.tools[q].digest
<1> DEFINE A == Remove(reg, r)
<1>1. reg \in Registry /\ pub \in Published /\ reg' = A
  BY DEF RegistryOK, Install
<1>2. A \in Registry
  BY <1>1, RemoveType
<1>3. \A q \in Rev :
        /\ q # r => A.tools[q] = reg.tools[q]
        /\ A.tools[q].digest = reg.tools[q].digest
        /\ reg.tools[r].digest # None => ~A.tools[r].active
        /\ reg.tools[r].digest = None => A = reg
  BY <1>1, RemoveTools
<1>4. reg.tools[r].digest # None =>
        \A n \in Name :
          /\ A.serving[n] \in {None, reg.serving[n]}
          /\ reg.serving[n] # r => A.serving[n] = reg.serving[n]
          /\ A.serving[NameOf[r]] # r
  BY <1>1, RemoveServing
<1> HIDE DEF A
<1>5. reg.tools[r].active => reg.tools[r].digest # None
  BY NoneAssumption DEF RegistryOK, ActiveOK
<1>6. ~A.tools[r].active
  BY <1>3, <1>5
<1>7. PointerOK'
  <2> SUFFICES ASSUME NEW n \in Name, A.serving[n] # None
               PROVE  NameOf[A.serving[n]] = n /\ A.tools[A.serving[n]].active
    BY <1>1 DEF PointerOK
  <2>1. CASE A = reg
    BY <2>1 DEF RegistryOK, PointerOK
  <2>2. CASE reg.tools[r].digest # None
    <3> DEFINE q == reg.serving[n]
    <3>1. A.serving[n] = q
      BY <2>2, <1>4
    <3>2. q \in Rev /\ NameOf[q] = n /\ reg.tools[q].active
      BY <3>1, <1>1 DEF RegistryOK, PointerOK, Registry
    <3>3. q # r
      BY <3>1, <3>2, <2>2, <1>4
    <3> QED BY <3>1, <3>2, <3>3, <1>3
  <2> QED BY <2>1, <2>2, <1>3
<1>8. ActiveOK'
  BY <1>1, <1>3, <1>6 DEF RegistryOK, ActiveOK
<1>9. pub' \in Published /\ DiscoveryMatchesRegistry'
  <2>1. \A n \in Name : reg.serving[n] # None => NameOf[reg.serving[n]] = n
    BY DEF RegistryOK, PointerOK
  <2>2. \A q \in Rev : NameOf[q] # NameOf[r] => A.tools[q] = reg.tools[q]
    BY <1>3
  <2>3. \A n \in Name \ {NameOf[r]} : A.serving[n] = reg.serving[n]
    BY <1>3, <1>4, <2>1
  <2>4. Describes(pub, reg)
    BY DEF RegistryOK, DiscoveryMatchesRegistry
  <2>5. /\ Refresh(pub, A, NameOf[r]) \in Published
        /\ Describes(Refresh(pub, A, NameOf[r]), A)
    BY <1>1, <1>2, <2>1, <2>2, <2>3, <2>4, RefreshDescribes
  <2>6. pub' = Refresh(pub, A, NameOf[r])
    BY DEF Install, A
  <2> QED BY <1>1, <2>5, <2>6 DEF DiscoveryMatchesRegistry
<1> QED BY <1>1, <1>2, <1>3, <1>6, <1>7, <1>8, <1>9 DEF RegistryOK

\* The invariant of an HTTP server contains them.
LEMMA HttpRegistryOK == HttpInv => RegistryOK
BY DEF HttpInv, TypeOK, RuntimeOK, RegistryOK, ActiveOK, RowsOK, RuntimeServesAdmitted

\* A step that installs a revision with the content SQLite holds keeps the
\* runtime facts of an HTTP server.
LEMMA RegisterKeeps ==
  ASSUME HttpInv, NEW r \in Rev, NEW t \in Tool, NEW b \in BOOLEAN,
         t.active, db[r].active, t.digest = db[r].digest,
         Install(AddTool(reg, r, t, b), r), db' = db, call' = call
  PROVE  reg' \in Registry /\ pub' \in Published /\ RuntimeOK'
<1>1. t.digest \in Content
  BY DEF HttpInv, RuntimeOK, RowsOK
<1>2. /\ RegistryOK'
      /\ \A q \in Rev :
           /\ reg'.tools[q].active <=> IF q = r THEN t.active ELSE reg.tools[q].active
           /\ reg'.tools[q].digest = IF q = r THEN t.digest ELSE reg.tools[q].digest
  BY <1>1, HttpRegistryOK, InstallKeeps
<1>3. RuntimeServesAdmitted'
  BY <1>2 DEF HttpInv, RuntimeOK, RuntimeServesAdmitted
<1>4. InFlightAuthorized'
  BY <1>2 DEF HttpInv, RuntimeOK, RuntimeServesAdmitted, InFlightAuthorized, CallOK
<1>5. RowsOK' /\ CallOK'
  BY DEF HttpInv, RuntimeOK, RowsOK, CallOK
<1> QED BY <1>2, <1>3, <1>4, <1>5 DEF RuntimeOK, RegistryOK

\* A step that withdraws a revision while no call is committed keeps them too.
LEMMA WithdrawKeeps ==
  ASSUME HttpInv, NEW r \in Rev, NoReader,
         Install(Remove(reg, r), r), db' = db, call' = call
  PROVE  /\ reg' \in Registry /\ pub' \in Published /\ RuntimeOK'
         /\ ~reg'.tools[r].active
<1>1. /\ RegistryOK' /\ ~reg'.tools[r].active
      /\ \A q \in Rev : /\ q # r => reg'.tools[q] = reg.tools[q]
                         /\ reg'.tools[q].digest = reg.tools[q].digest
  BY HttpRegistryOK, UninstallKeeps
<1>2. RuntimeServesAdmitted'
  BY <1>1 DEF HttpInv, RuntimeOK, RuntimeServesAdmitted
<1>3. InFlightAuthorized'
  BY DEF NoReader, InFlightAuthorized
<1>4. RowsOK' /\ CallOK'
  BY DEF HttpInv, RuntimeOK, RowsOK, CallOK
<1> QED BY <1>1, <1>2, <1>3, <1>4 DEF RuntimeOK, RegistryOK

\* The runtime facts only read the table, the registry, its descriptors and
\* the calls.
LEMMA FrameKeeps ==
  ASSUME RuntimeOK, UNCHANGED <<db, reg, pub, call>>
  PROVE  RuntimeOK'
BY DEF RuntimeOK, RowsOK, PointerOK, CallOK, RuntimeServesAdmitted,
       InFlightAuthorized, DiscoveryMatchesRegistry

\* A handler or pass that ends without a further effect keeps the invariant.
LEMMA FinishKeeps ==
  ASSUME HttpInv, NEW ok \in BOOLEAN, Finish(ok),
         UNCHANGED <<db, now, reg, pub, call>>,
         lastHash' \in Table \cup {None}, faults' \in Nat
  PROVE  HttpInv'
<1>1. TypeOK'
  BY DEF HttpInv, TypeOK, Finish, EmptyTable, Table, Row, NoRow, Ops, Steps,
         Request, NoRequest
<1>2. RuntimeOK'
  BY FrameKeeps DEF HttpInv
<1>3. RequestOK' /\ StepOK'
  BY DEF Finish, RequestOK, StepOK
<1> QED BY <1>1, <1>2, <1>3 DEF HttpInv

-----------------------------------------------------------------------------
(* Preservation, one lemma per handler.                                    *)

\* Every step of handleToolApply keeps the invariant.
LEMMA ApplyKeeps ==
  ASSUME HttpInv,
         \/ \E r \in Rev, d \in Content, want \in BOOLEAN : ApplyStart(r, d, want)
         \/ ApplyStep
  PROVE  HttpInv'
<1>1. ASSUME NEW r \in Rev, NEW d \in Content, NEW want \in BOOLEAN,
             ApplyStart(r, d, want)
      PROVE  HttpInv'
  <2>1. TypeOK'
    BY <1>1 DEF HttpInv, TypeOK, ApplyStart, Ops, Steps, Request
  <2>2. RuntimeOK'
    BY <1>1, FrameKeeps DEF HttpInv, ApplyStart
  <2>3. RequestOK' /\ StepOK'
    BY <1>1 DEF ApplyStart, RequestOK, StepOK
  <2> QED BY <2>1, <2>2, <2>3 DEF HttpInv
<1>2. CASE ApplyConflict
  BY <1>2, FinishKeeps DEF ApplyConflict, HttpInv, TypeOK
<1>3. CASE ApplyFails
  <2>1. faults' \in Nat /\ lastHash' \in Table \cup {None}
    BY <1>3 DEF ApplyFails, Fault, HttpInv, TypeOK
  <2> QED BY <1>3, <2>1, FinishKeeps DEF ApplyFails
<1>4. CASE ApplyAdmit
  <2> DEFINE r == arg.rev
             d == arg.digest
  <2>1. r \in Rev /\ d \in Content /\ now + 1 \in Nat
    BY <1>4 DEF ApplyAdmit, HttpInv, RequestOK, TypeOK
  <2>2. AdmitServing(db, r, arg.serving) \in BOOLEAN
    BY <2>1 DEF AdmitServing, HttpInv, TypeOK, Request, Table, Row
  <2>3. db' \in Table
    BY <1>4, <2>1, <2>2 DEF ApplyAdmit, Save, Admit, HttpInv, TypeOK, Table, Row
  <2>4. TypeOK'
    BY <1>4, <2>1, <2>2, <2>3
       DEF ApplyAdmit, Save, Goto, HttpInv, TypeOK, Steps, Request
  <2>5. /\ db'[r].active /\ db'[r].digest = d
        /\ \A q \in Rev : q # r => /\ db'[q].active <=> db[q].active
                                   /\ db'[q].digest = db[q].digest
    BY <1>4, <2>1 DEF ApplyAdmit, Save, Admit, HttpInv, TypeOK, Table, Row
  <2>6. reg.tools[r].active => reg.tools[r].digest = d
    BY <1>4, <2>1, NoneAssumption
       DEF ApplyAdmit, AdmissionConflict, Exists, HttpInv, RuntimeOK, RowsOK,
           RuntimeServesAdmitted
  <2>7. RowsOK' /\ RuntimeServesAdmitted'
    BY <1>4, <2>1, <2>5, <2>6
       DEF ApplyAdmit, HttpInv, RuntimeOK, RowsOK, RuntimeServesAdmitted
  <2>8. PointerOK' /\ CallOK' /\ InFlightAuthorized' /\ DiscoveryMatchesRegistry'
    BY <1>4 DEF ApplyAdmit, HttpInv, RuntimeOK, PointerOK, CallOK,
                InFlightAuthorized, DiscoveryMatchesRegistry
  <2>9. RequestOK' /\ StepOK'
    BY <1>4, <2>1, <2>5
       DEF ApplyAdmit, Goto, RequestOK, StepOK, HttpInv, TypeOK, Request
  <2> QED BY <2>4, <2>7, <2>8, <2>9 DEF HttpInv, RuntimeOK
<1>5. CASE ApplyRegister
  <2>1. /\ arg.rev \in Rev /\ AdmittedTool \in Tool /\ AdmittedTool.active
        /\ db[arg.rev].active /\ AdmittedTool.digest = db[arg.rev].digest
    BY <1>5 DEF ApplyRegister, AdmittedTool, Tool, HttpInv, RequestOK, StepOK,
                TypeOK, Request
  <2>2. reg' \in Registry /\ pub' \in Published /\ RuntimeOK'
    BY <1>5, <2>1, RegisterKeeps DEF ApplyRegister
  <2>3. TypeOK'
    BY <1>5, <2>2 DEF ApplyRegister, Goto, HttpInv, TypeOK, Steps
  <2>4. RequestOK' /\ StepOK'
    BY <1>5 DEF ApplyRegister, Goto, RequestOK, StepOK
  <2> QED BY <2>2, <2>3, <2>4 DEF HttpInv
<1>6. CASE ApplyRegisterFails
  BY <1>6, FinishKeeps DEF ApplyRegisterFails, HttpInv, TypeOK
<1> QED BY <1>1, <1>2, <1>3, <1>4, <1>5, <1>6 DEF ApplyStep

\* Every step of handleToolDelete keeps the invariant.
LEMMA DeleteKeeps ==
  ASSUME HttpInv,
         \/ \E r \in Rev, hard \in BOOLEAN : DeleteStart(r, hard)
         \/ DeleteStep
  PROVE  HttpInv'
<1>1. ASSUME NEW r \in Rev, NEW hard \in BOOLEAN, DeleteStart(r, hard)
      PROVE  HttpInv'
  <2>1. TypeOK'
    BY <1>1 DEF HttpInv, TypeOK, DeleteStart, Ops, Steps, Request
  <2>2. RuntimeOK'
    BY <1>1, FrameKeeps DEF HttpInv, DeleteStart
  <2>3. RequestOK' /\ StepOK'
    BY <1>1 DEF DeleteStart, RequestOK, StepOK
  <2> QED BY <2>1, <2>2, <2>3 DEF HttpInv
<1>2. CASE DeleteDeregister
  <2>1. arg.rev \in Rev
    BY <1>2 DEF DeleteDeregister, HttpInv, RequestOK
  <2>2. /\ reg' \in Registry /\ pub' \in Published /\ RuntimeOK'
        /\ ~reg'.tools[arg.rev].active
    BY <1>2, <2>1, WithdrawKeeps DEF DeleteDeregister
  <2>3. TypeOK'
    BY <1>2, <2>2 DEF DeleteDeregister, Goto, HttpInv, TypeOK, Steps
  <2>4. RequestOK' /\ StepOK'
    BY <1>2, <2>1, <2>2 DEF DeleteDeregister, Goto, RequestOK, StepOK
  <2> QED BY <2>2, <2>3, <2>4 DEF HttpInv
<1>3. ASSUME pc = "erase", db' \in Table, now' \in Nat, Goto("hash"),
             \A q \in Rev : q # arg.rev => db'[q] = db[q],
             ~db'[arg.rev].active,
             UNCHANGED <<reg, pub, lastHash, converged, arg, hash, desired, todo,
                         call, faults>>
      PROVE  HttpInv'
  <2>1. arg.rev \in Rev /\ ~reg.tools[arg.rev].active
    BY <1>3 DEF HttpInv, RequestOK, StepOK
  <2>2. TypeOK'
    BY <1>3 DEF Goto, HttpInv, TypeOK, Steps
  <2>3. RowsOK' /\ RuntimeServesAdmitted'
    BY <1>3, <2>1 DEF HttpInv, RuntimeOK, RowsOK, RuntimeServesAdmitted
  <2>4. PointerOK' /\ CallOK' /\ InFlightAuthorized' /\ DiscoveryMatchesRegistry'
    BY <1>3 DEF HttpInv, RuntimeOK, PointerOK, CallOK, InFlightAuthorized,
                DiscoveryMatchesRegistry
  <2>5. RequestOK' /\ StepOK'
    BY <1>3 DEF Goto, RequestOK, StepOK
  <2> QED BY <2>2, <2>3, <2>4, <2>5 DEF HttpInv, RuntimeOK
<1>4. CASE DeleteHard
  <2>1. arg.rev \in Rev /\ db \in Table /\ now \in Nat
    BY <1>4 DEF DeleteHard, HttpInv, RequestOK, TypeOK
  <2>2. /\ db' \in Table /\ ~db'[arg.rev].active
        /\ \A q \in Rev : q # arg.rev => db'[q] = db[q]
    BY <1>4, <2>1 DEF DeleteHard, HardDelete, Table, Row, NoRow
  <2> QED BY <1>3, <1>4, <2>1, <2>2 DEF DeleteHard
<1>5. CASE DeleteSoft
  <2>1. arg.rev \in Rev /\ db \in Table /\ now + 1 \in Nat
    BY <1>5 DEF DeleteSoft, HttpInv, RequestOK, TypeOK
  <2>2. /\ db' \in Table /\ ~db'[arg.rev].active
        /\ \A q \in Rev : q # arg.rev => db'[q] = db[q]
    BY <1>5, <2>1 DEF DeleteSoft, Save, SoftDelete, Table, Row
  <2> QED BY <1>3, <1>5, <2>1, <2>2 DEF DeleteSoft, Save
<1>6. CASE DeleteFails
  <2>1. faults' \in Nat /\ lastHash' \in Table \cup {None}
    BY <1>6 DEF DeleteFails, Fault, HttpInv, TypeOK
  <2> QED BY <1>6, <2>1, FinishKeeps DEF DeleteFails
<1> QED BY <1>1, <1>2, <1>4, <1>5, <1>6 DEF DeleteStep

\* Every step of reconcileLocked, and the tick that starts it, keeps the
\* invariant.
LEMMA ReconcileKeeps ==
  ASSUME HttpInv, Tick \/ ReconcileStep
  PROVE  HttpInv'
<1>1. CASE Tick
  <2>1. TypeOK'
    BY <1>1 DEF HttpInv, TypeOK, Tick, Ops, Steps
  <2>2. RuntimeOK'
    BY <1>1, FrameKeeps DEF HttpInv, Tick
  <2>3. RequestOK' /\ StepOK'
    BY <1>1 DEF Tick, RequestOK, StepOK
  <2> QED BY <2>1, <2>2, <2>3 DEF HttpInv
<1>2. CASE ReconcileSkip
  BY <1>2, FinishKeeps DEF ReconcileSkip, HttpInv, TypeOK
<1>3. CASE ReconcileHash
  <2>1. TypeOK'
    BY <1>3 DEF HttpInv, TypeOK, ReconcileHash, Goto, Steps
  <2>2. RuntimeOK'
    BY <1>3, FrameKeeps DEF HttpInv, ReconcileHash
  <2>3. RequestOK' /\ StepOK'
    BY <1>3 DEF ReconcileHash, Goto, RequestOK, StepOK
  <2> QED BY <2>1, <2>2, <2>3 DEF HttpInv
<1>4. CASE ReconcileList
  <2>1. TypeOK'
    BY <1>4 DEF HttpInv, TypeOK, ReconcileList, DesiredActive, Goto, Steps
  <2>2. RuntimeOK'
    BY <1>4, FrameKeeps DEF HttpInv, ReconcileList
  <2>3. RequestOK' /\ StepOK'
    BY <1>4 DEF ReconcileList, Goto, RequestOK, StepOK, DesiredActive
  <2> QED BY <2>1, <2>2, <2>3 DEF HttpInv
<1>5. CASE ReconcileReadFails
  <2>1. faults' \in Nat /\ lastHash' \in Table \cup {None}
    BY <1>5 DEF ReconcileReadFails, Fault, HttpInv, TypeOK
  <2> QED BY <1>5, <2>1, FinishKeeps DEF ReconcileReadFails
<1>6. ASSUME NEW r \in Rev, SyncKeep(r)
      PROVE  HttpInv'
  <2>1. TypeOK'
    BY <1>6 DEF HttpInv, TypeOK, SyncKeep
  <2>2. RuntimeOK'
    BY <1>6, FrameKeeps DEF HttpInv, SyncKeep
  <2>3. RequestOK' /\ StepOK'
    BY <1>6 DEF HttpInv, SyncKeep, RequestOK, StepOK, DesiredActive
  <2> QED BY <2>1, <2>2, <2>3 DEF HttpInv
<1>7. ASSUME NEW r \in Rev, SyncRegister(r)
      PROVE  HttpInv'
  <2> DEFINE t == ToolOf(desired[r])
  <2>1. db \in Table /\ desired = db /\ db[r].active
    BY <1>7 DEF SyncRegister, NextRow, HttpInv, TypeOK, StepOK, DesiredActive
  <2>2. t \in Tool /\ t.active /\ t.digest = db[r].digest
    BY <2>1 DEF ToolOf, Tool, Table, Row
  <2>3. Install(AddTool(reg, r, t, FALSE), r) /\ db' = db /\ call' = call
    BY <1>7 DEF SyncRegister
  <2> HIDE DEF t
  <2>4. reg' \in Registry /\ pub' \in Published /\ RuntimeOK'
    BY <2>1, <2>2, <2>3, RegisterKeeps
  <2>5. TypeOK'
    BY <1>7, <2>4 DEF SyncRegister, HttpInv, TypeOK
  <2>6. RequestOK' /\ StepOK'
    BY <1>7 DEF SyncRegister, HttpInv, RequestOK, StepOK, DesiredActive
  <2> QED BY <2>4, <2>5, <2>6 DEF HttpInv
<1>8. ASSUME NEW r \in Rev, SyncFails(r)
      PROVE  HttpInv'
  BY <1>8, FinishKeeps DEF SyncFails, HttpInv, TypeOK
<1>9. CASE SweepStart
  <2>1. TypeOK'
    BY <1>9 DEF HttpInv, TypeOK, SweepStart, ListActive, Goto, Steps
  <2>2. RuntimeOK'
    BY <1>9, FrameKeeps DEF HttpInv, SweepStart
  <2>3. RequestOK' /\ StepOK'
    BY <1>9 DEF HttpInv, SweepStart, Goto, RequestOK, StepOK
  <2> QED BY <2>1, <2>2, <2>3 DEF HttpInv
<1>10. ASSUME NEW r \in Rev, SweepDeregister(r)
       PROVE  HttpInv'
  <2>1. reg' \in Registry /\ pub' \in Published /\ RuntimeOK'
    BY <1>10, WithdrawKeeps DEF SweepDeregister
  <2>2. TypeOK'
    BY <1>10, <2>1 DEF SweepDeregister, HttpInv, TypeOK
  <2>3. RequestOK' /\ StepOK'
    BY <1>10 DEF SweepDeregister, HttpInv, RequestOK, StepOK
  <2> QED BY <2>1, <2>2, <2>3 DEF HttpInv
<1>11. CASE ReconcileDone
  BY <1>11, FinishKeeps DEF ReconcileDone, HttpInv, TypeOK
<1> QED BY <1>1, <1>2, <1>3, <1>4, <1>5, <1>6, <1>7, <1>8, <1>9, <1>10, <1>11
        DEF ReconcileStep

\* Resolving, committing and ending a call, in any process: a call commits only
\* with the authority InFlightAuthorized asks for.
LEMMA CallStages ==
  ASSUME call \in [Call -> Snapshot], CallOK, ActiveOK, NEW c \in Call, CallStep(c)
  PROVE  /\ call' \in [Call -> Snapshot] /\ CallOK'
         /\ InFlightAuthorized => InFlightAuthorized'
         /\ UNCHANGED <<db, now, reg, pub, lastHash, converged, op, pc, arg, hash,
                        desired, todo, faults>>
<1>1. UNCHANGED <<db, now, reg, pub, lastHash, converged, op, pc, arg, hash,
                  desired, todo, faults>>
  BY DEF CallStep, CallStart, CallEndsEarly, CallCommit, CallDenied, CallReturn,
         ctlVars
<1>2. ASSUME NEW r \in ListActive(reg), Resolved(c, r)
      PROVE  /\ call' \in [Call -> Snapshot] /\ CallOK'
             /\ InFlightAuthorized => InFlightAuthorized'
  <2>1. r \in Rev /\ reg.tools[r].active /\ reg.tools[r].digest \in Content
    BY DEF ListActive, ActiveOK
  <2>2. call' \in [Call -> Snapshot]
    BY <1>2, <2>1 DEF Resolved, Snapshot, Stages
  <2>3. \A e \in Call : call'[e] = IF e = c
                                   THEN [stage |-> "resolved", rev |-> r,
                                         digest |-> reg.tools[r].digest]
                                   ELSE call[e]
    BY <1>2 DEF Resolved
  <2> QED BY <1>1, <2>1, <2>2, <2>3 DEF CallOK, InFlightAuthorized
<1>3. CASE CallStart(c)
  <2>1. \E r \in ListActive(reg) : Resolved(c, r)
    BY <1>3 DEF CallStart, ResolveServing, ResolveExact, ResolveDigest,
                ResolveConstraint
  <2> QED BY <1>1, <1>2, <2>1
<1>4. CASE call' = [call EXCEPT ![c] = NoCall]
  <2>1. call' \in [Call -> Snapshot]
    BY <1>4 DEF Snapshot, Stages, NoCall
  <2>2. CallOK' /\ (InFlightAuthorized => InFlightAuthorized')
    BY <1>1, <1>4 DEF CallOK, InFlightAuthorized, NoCall
  <2> QED BY <1>1, <2>1, <2>2
<1>5. CASE CallCommit(c)
  <2>1. call' \in [Call -> Snapshot]
    BY <1>5 DEF CallCommit, Snapshot, Stages
  <2>2. /\ reg.tools[call[c].rev].active
        /\ reg.tools[call[c].rev].digest = call[c].digest
    BY <1>5 DEF CallCommit, RevisionActive, ResolveExact, ListActive
  <2>3. \A e \in Call : /\ call'[e].rev = call[e].rev
                        /\ call'[e].digest = call[e].digest
                        /\ e # c => call'[e].stage = call[e].stage
    BY <1>5 DEF CallCommit, Snapshot
  <2>4. CallOK' /\ (InFlightAuthorized => InFlightAuthorized')
    BY <1>1, <1>5, <2>2, <2>3 DEF CallCommit, CallOK, InFlightAuthorized
  <2> QED BY <1>1, <2>1, <2>4
<1> QED BY <1>3, <1>4, <1>5
        DEF CallStep, CallEndsEarly, CallDenied, CallReturn

\* Every step of a call keeps the invariant of an HTTP server.
LEMMA CallKeeps ==
  ASSUME HttpInv, NEW c \in Call, CallStep(c)
  PROVE  HttpInv'
<1>1. call \in [Call -> Snapshot] /\ CallOK /\ ActiveOK /\ InFlightAuthorized
  BY HttpRegistryOK DEF HttpInv, TypeOK, RuntimeOK, RegistryOK
<1>2. /\ call' \in [Call -> Snapshot] /\ CallOK' /\ InFlightAuthorized'
      /\ UNCHANGED <<db, now, reg, pub, lastHash, converged, op, pc, arg, hash,
                     desired, todo, faults>>
  BY <1>1, CallStages
<1>3. RequestOK' /\ StepOK' /\ RowsOK' /\ PointerOK' /\ RuntimeServesAdmitted'
      /\ DiscoveryMatchesRegistry' /\ TypeOK'
  BY <1>2 DEF HttpInv, RuntimeOK, TypeOK, RequestOK, StepOK, RowsOK, PointerOK,
              RuntimeServesAdmitted, DiscoveryMatchesRegistry
<1> QED BY <1>2, <1>3 DEF HttpInv, RuntimeOK

\* A crash and a restart keep the invariant.
LEMMA CrashKeeps ==
  ASSUME HttpInv, Crash \/ Restart
  PROVE  HttpInv'
<1>1. CASE Crash
  <2>1. faults' \in Nat
    BY <1>1 DEF Crash, Fault, HttpInv, TypeOK
  <2>2. TypeOK'
    BY <1>1, <2>1, EmptyDescribes
       DEF Crash, HttpInv, TypeOK, Ops, Steps, Request, NoRequest, EmptyTable,
           Table, Row, NoRow, Snapshot, Stages, NoCall
  <2>3. RowsOK' /\ PointerOK' /\ RuntimeServesAdmitted'
    BY <1>1 DEF Crash, HttpInv, RuntimeOK, RowsOK, PointerOK,
                RuntimeServesAdmitted, NewToolRegistry, NoTool
  <2>4. CallOK' /\ InFlightAuthorized'
    BY <1>1 DEF Crash, CallOK, InFlightAuthorized, NoCall
  <2>5. DiscoveryMatchesRegistry'
    BY <1>1, EmptyDescribes DEF Crash, DiscoveryMatchesRegistry
  <2>6. RequestOK' /\ StepOK'
    BY <1>1 DEF Crash, RequestOK, StepOK
  <2> QED BY <2>2, <2>3, <2>4, <2>5, <2>6 DEF HttpInv, RuntimeOK
<1>2. CASE Restart
  <2>1. TypeOK'
    BY <1>2 DEF HttpInv, TypeOK, Restart, Ops, Steps
  <2>2. RuntimeOK'
    BY <1>2, FrameKeeps DEF HttpInv, Restart
  <2>3. RequestOK' /\ StepOK'
    BY <1>2 DEF Restart, RequestOK, StepOK
  <2> QED BY <2>1, <2>2, <2>3 DEF HttpInv
<1> QED BY <1>1, <1>2

\* The invariant is inductive.
LEMMA NextInv == HttpInv /\ [HttpNext]_vars => HttpInv'
<1> SUFFICES ASSUME HttpInv, [HttpNext]_vars PROVE HttpInv'
  OBVIOUS
<1>1. CASE HttpNext
  BY <1>1, ApplyKeeps, DeleteKeeps, ReconcileKeeps, CallKeeps, CrashKeeps
     DEF HttpNext, RuntimeStep
<1>2. CASE UNCHANGED vars
  <2>1. RuntimeOK'
    BY <1>2, FrameKeeps DEF HttpInv, vars
  <2>2. TypeOK' /\ RequestOK' /\ StepOK'
    BY <1>2 DEF HttpInv, TypeOK, RequestOK, StepOK, vars, ctlVars
  <2> QED BY <2>1, <2>2 DEF HttpInv
<1> QED BY <1>1, <1>2

-----------------------------------------------------------------------------
(* The theorems.                                                           *)

\* HttpInv holds in every reachable state of an HTTP server.
LEMMA InvHolds == HttpSpec => []HttpInv
BY InitInv, NextInv, PTL DEF HttpSpec

\* Every variable keeps its type, through every handler, pass, call and crash.
THEOREM TypeCorrect == HttpSpec => []TypeOK
<1>1. HttpInv => TypeOK
  BY DEF HttpInv
<1> QED BY <1>1, InvHolds, PTL

\* An HTTP server never dispatches a revision SQLite does not admit.
THEOREM ServesOnlyAdmitted == HttpSpec => []RuntimeServesAdmitted
<1>1. HttpInv => RuntimeServesAdmitted
  BY DEF HttpInv, RuntimeOK
<1> QED BY <1>1, InvHolds, PTL

\* A committed ERP dispatch keeps its authority until it returns.
THEOREM CommittedCallsAuthorized == HttpSpec => []InFlightAuthorized
<1>1. HttpInv => InFlightAuthorized
  BY DEF HttpInv, RuntimeOK
<1> QED BY <1>1, InvHolds, PTL

\* Discovery describes the registry after every step.
THEOREM DiscoveryCorrect == HttpSpec => []DiscoveryMatchesRegistry
<1>1. HttpInv => DiscoveryMatchesRegistry
  BY DEF HttpInv, RuntimeOK
<1> QED BY <1>1, InvHolds, PTL

-----------------------------------------------------------------------------
(***************************************************************************)
(* A stdio server.  It follows a database that another process writes, so  *)
(* what it has registered and what it has listed may both be behind the    *)
(* table: none of RuntimeServesAdmitted and StepOK holds.  What remains is *)
(* that whatever it registers has content, as listed (ListedOK).           *)
(***************************************************************************)
ListedOK ==
  /\ pc \in {"sync", "sweep"} =>
       \A r \in Rev : desired[r].active => desired[r].digest \in Content
  /\ pc = "sync" => todo \subseteq DesiredActive(desired)

StdioRuntime == TypeOK /\ RowsOK /\ RegistryOK /\ CallOK /\ ListedOK

\* It holds when the process starts.
LEMMA StdioRuntimeInit == Init => StdioRuntime
<1> SUFFICES ASSUME Init PROVE StdioRuntime
  OBVIOUS
<1>1. HttpInv
  BY InitInv
<1>2. ListedOK
  BY DEF Init, ListedOK
<1> QED BY <1>1, <1>2, HttpRegistryOK DEF HttpInv, RuntimeOK, StdioRuntime

\* A write of the peer leaves a table whose active rows have content.
LEMMA PeerTable ==
  ASSUME db \in Table, now \in Nat, RowsOK, NEW r \in Rev, PeerWrite(r)
  PROVE  db' \in Table /\ now' \in Nat /\ RowsOK'
<1>1. ASSUME NEW d \in Content, NEW want \in BOOLEAN,
             db' = Admit(db, r, d, want, now + 1), now' = now + 1
      PROVE  db' \in Table /\ now' \in Nat /\ RowsOK'
  <2>1. AdmitServing(db, r, want) \in BOOLEAN /\ now + 1 \in Nat
    BY DEF AdmitServing, Table, Row
  <2>2. db' \in Table
    BY <1>1, <2>1 DEF Admit, Table, Row
  <2>3. /\ db'[r].digest = d
        /\ \A q \in Rev : q # r => /\ db'[q].active <=> db[q].active
                                   /\ db'[q].digest = db[q].digest
    BY <1>1 DEF Admit, Table, Row
  <2> QED BY <1>1, <2>1, <2>2, <2>3 DEF RowsOK
<1>2. ASSUME \/ db' = SoftDelete(db, r, now + 1) /\ now' = now + 1
             \/ db' = HardDelete(db, r) /\ now' = now
      PROVE  db' \in Table /\ now' \in Nat /\ RowsOK'
  <2>1. /\ db' \in Table /\ ~db'[r].active
        /\ \A q \in Rev : q # r => db'[q] = db[q]
    <3>1. CASE db' = SoftDelete(db, r, now + 1)
      <4>1. now + 1 \in Nat
        OBVIOUS
      <4> QED BY <3>1, <4>1 DEF SoftDelete, Table, Row
    <3>2. CASE db' = HardDelete(db, r)
      BY <3>2 DEF HardDelete, NoRow, Table, Row
    <3> QED BY <1>2, <3>1, <3>2
  <2> QED BY <1>2, <2>1 DEF RowsOK
<1> QED BY <1>1, <1>2 DEF PeerWrite, Save

\* A pass that ends keeps the invariant.
LEMMA StdioRuntimeFinish ==
  ASSUME StdioRuntime, NEW ok \in BOOLEAN, Finish(ok),
         UNCHANGED <<db, now, reg, pub, call>>,
         lastHash' \in Table \cup {None}, faults' \in Nat
  PROVE  StdioRuntime'
<1>1. TypeOK'
  BY DEF StdioRuntime, TypeOK, Finish, EmptyTable, Table, Row, NoRow, Ops, Steps,
         Request, NoRequest
<1>2. RowsOK' /\ RegistryOK' /\ CallOK'
  BY DEF StdioRuntime, RowsOK, RegistryOK, ActiveOK, PointerOK,
         DiscoveryMatchesRegistry, CallOK
<1>3. ListedOK'
  BY DEF Finish, ListedOK
<1> QED BY <1>1, <1>2, <1>3 DEF StdioRuntime

\* A pass registers a row it listed, with the row's content.
LEMMA ListedRow ==
  ASSUME StdioRuntime, NEW r \in Rev, pc = "sync", r \in todo
  PROVE  /\ ToolOf(desired[r]) \in Tool
         /\ ToolOf(desired[r]).active
         /\ ToolOf(desired[r]).digest = desired[r].digest
         /\ desired[r].digest \in Content
<1>1. desired \in Table /\ desired[r].active /\ desired[r].digest \in Content
  BY DEF StdioRuntime, TypeOK, ListedOK, DesiredActive
<1> QED BY <1>1 DEF ToolOf, Tool, Table, Row

\* The steps of a pass, whatever the peer wrote since its listing.
LEMMA StdioRuntimePass ==
  ASSUME StdioRuntime, Tick \/ ReconcileStep
  PROVE  StdioRuntime'
<1>1. ASSUME UNCHANGED <<db, reg, pub, call>>, TypeOK', ListedOK'
      PROVE  StdioRuntime'
  BY <1>1 DEF StdioRuntime, RowsOK, RegistryOK, ActiveOK, PointerOK,
              DiscoveryMatchesRegistry, CallOK
<1>2. CASE Tick
  BY <1>1, <1>2 DEF StdioRuntime, TypeOK, ListedOK, Tick, Ops, Steps
<1>3. CASE ReconcileSkip
  BY <1>3, StdioRuntimeFinish DEF ReconcileSkip, StdioRuntime, TypeOK
<1>4. CASE ReconcileHash
  BY <1>1, <1>4 DEF StdioRuntime, TypeOK, ListedOK, ReconcileHash, Goto, Steps
<1>5. CASE ReconcileList
  <2>1. TypeOK'
    BY <1>5 DEF StdioRuntime, TypeOK, ReconcileList, DesiredActive, Goto, Steps
  <2>2. ListedOK'
    BY <1>5 DEF StdioRuntime, RowsOK, ListedOK, ReconcileList, Goto
  <2> QED BY <1>1, <1>5, <2>1, <2>2 DEF ReconcileList
<1>6. CASE ReconcileReadFails
  <2>1. faults' \in Nat /\ lastHash' \in Table \cup {None}
    BY <1>6 DEF ReconcileReadFails, Fault, StdioRuntime, TypeOK
  <2> QED BY <1>6, <2>1, StdioRuntimeFinish DEF ReconcileReadFails
<1>7. ASSUME NEW r \in Rev, SyncKeep(r)
      PROVE  StdioRuntime'
  <2>1. TypeOK' /\ ListedOK'
    BY <1>7 DEF StdioRuntime, TypeOK, ListedOK, SyncKeep
  <2> QED BY <1>1, <1>7, <2>1 DEF SyncKeep
<1>8. ASSUME NEW r \in Rev, SyncRegister(r)
      PROVE  StdioRuntime'
  <2> DEFINE t == ToolOf(desired[r])
  <2>1. t \in Tool /\ t.active /\ t.digest \in Content
    BY <1>8, ListedRow DEF SyncRegister, NextRow
  <2>2. Install(AddTool(reg, r, t, FALSE), r)
    BY <1>8 DEF SyncRegister
  <2> HIDE DEF t
  <2>3. RegistryOK'
    BY <2>1, <2>2, InstallKeeps DEF StdioRuntime
  <2>4. TypeOK' /\ ListedOK' /\ RowsOK' /\ CallOK'
    BY <1>8, <2>3 DEF SyncRegister, StdioRuntime, RegistryOK, TypeOK, ListedOK,
                      RowsOK, CallOK
  <2> QED BY <2>3, <2>4 DEF StdioRuntime
<1>9. ASSUME NEW r \in Rev, SyncFails(r)
      PROVE  StdioRuntime'
  BY <1>9, StdioRuntimeFinish DEF SyncFails, StdioRuntime, TypeOK
<1>10. CASE SweepStart
  <2>1. TypeOK' /\ ListedOK'
    BY <1>10 DEF StdioRuntime, TypeOK, ListedOK, SweepStart, ListActive, Goto, Steps
  <2> QED BY <1>1, <1>10, <2>1 DEF SweepStart
<1>11. ASSUME NEW r \in Rev, SweepDeregister(r)
       PROVE  StdioRuntime'
  <2>1. RegistryOK'
    BY <1>11, UninstallKeeps DEF SweepDeregister, StdioRuntime
  <2>2. TypeOK' /\ ListedOK' /\ RowsOK' /\ CallOK'
    BY <1>11, <2>1 DEF SweepDeregister, StdioRuntime, RegistryOK, TypeOK, ListedOK,
                       RowsOK, CallOK
  <2> QED BY <2>1, <2>2 DEF StdioRuntime
<1>12. CASE ReconcileDone
  BY <1>12, StdioRuntimeFinish DEF ReconcileDone, StdioRuntime, TypeOK
<1> QED BY <1>2, <1>3, <1>4, <1>5, <1>6, <1>7, <1>8, <1>9, <1>10, <1>11, <1>12
        DEF ReconcileStep

\* Every step of a stdio server and of the process beside it keeps it.
LEMMA StdioRuntimeStep == StdioRuntime /\ [StdioNext]_vars => StdioRuntime'
<1> SUFFICES ASSUME StdioRuntime, [StdioNext]_vars PROVE StdioRuntime'
  OBVIOUS
<1>1. ASSUME NEW c \in Call, CallStep(c)
      PROVE  StdioRuntime'
  <2>1. call \in [Call -> Snapshot] /\ CallOK /\ ActiveOK
    BY DEF StdioRuntime, TypeOK, RegistryOK
  <2>2. /\ call' \in [Call -> Snapshot] /\ CallOK'
        /\ UNCHANGED <<db, now, reg, pub, lastHash, converged, op, pc, arg, hash,
                       desired, todo, faults>>
    BY <1>1, <2>1, CallStages
  <2> QED BY <2>2 DEF StdioRuntime, TypeOK, RowsOK, RegistryOK, ActiveOK, PointerOK,
                      DiscoveryMatchesRegistry, ListedOK
<1>2. CASE Crash
  <2>1. faults' \in Nat
    BY <1>2 DEF Crash, Fault, StdioRuntime, TypeOK
  <2>2. TypeOK'
    BY <1>2, <2>1, EmptyDescribes
       DEF Crash, StdioRuntime, TypeOK, Ops, Steps, Request, NoRequest, EmptyTable,
           Table, Row, NoRow, Snapshot, Stages, NoCall
  <2>3. RowsOK' /\ CallOK' /\ ListedOK'
    BY <1>2 DEF Crash, StdioRuntime, RowsOK, CallOK, ListedOK, NoCall
  <2>4. RegistryOK'
    BY <1>2, EmptyDescribes
       DEF Crash, RegistryOK, ActiveOK, PointerOK, DiscoveryMatchesRegistry,
           NewToolRegistry, NoTool
  <2> QED BY <2>2, <2>3, <2>4 DEF StdioRuntime
<1>3. CASE Restart \/ UNCHANGED vars
  <2>1. TypeOK'
    BY <1>3 DEF Restart, vars, ctlVars, StdioRuntime, TypeOK, Ops, Steps
  <2>2. UNCHANGED <<db, reg, pub, call>> /\ ListedOK'
    BY <1>3 DEF Restart, vars, ctlVars, StdioRuntime, ListedOK
  <2> QED BY <2>1, <2>2 DEF StdioRuntime, RowsOK, RegistryOK, ActiveOK, PointerOK,
                            DiscoveryMatchesRegistry, CallOK
<1>4. ASSUME NEW r \in Rev, PeerWrite(r)
      PROVE  StdioRuntime'
  <2>1. db' \in Table /\ now' \in Nat /\ RowsOK'
    BY <1>4, PeerTable DEF StdioRuntime, TypeOK
  <2>2. UNCHANGED <<reg, pub, lastHash, converged, op, pc, arg, hash, desired, todo,
                    call, faults>>
    BY <1>4 DEF PeerWrite, ctlVars
  <2> QED BY <2>1, <2>2 DEF StdioRuntime, TypeOK, RegistryOK, ActiveOK, PointerOK,
                            DiscoveryMatchesRegistry, CallOK, ListedOK
<1> QED BY <1>1, <1>2, <1>3, <1>4, StdioRuntimePass DEF StdioNext, RuntimeStep

\* StdioRuntime holds in every reachable state of a stdio server.
LEMMA StdioRuntimeHolds == StdioSpec => []StdioRuntime
BY StdioRuntimeInit, StdioRuntimeStep, PTL DEF StdioSpec

\* Every variable of a stdio server keeps its type, whatever its peer writes,
\* hard deletes included, between the steps of its passes and calls.
THEOREM StdioTypeCorrect == StdioSpec => []TypeOK
<1>1. StdioRuntime => TypeOK
  BY DEF StdioRuntime
<1> QED BY <1>1, StdioRuntimeHolds, PTL

\* Discovery describes the registry of a stdio server after every step, even
\* while the registry is behind the table (refreshMCPToolsLocked).
THEOREM StdioDiscoveryCorrect == StdioSpec => []DiscoveryMatchesRegistry
<1>1. StdioRuntime => DiscoveryMatchesRegistry
  BY DEF StdioRuntime, RegistryOK
<1> QED BY <1>1, StdioRuntimeHolds, PTL

-----------------------------------------------------------------------------
(***************************************************************************)
(* A stdio server whose peer uses no hard deletes.  registerTool replaces  *)
(* the content of a revision without waiting for its committed calls; what *)
(* protects them is that a row, once admitted, keeps its content, so that  *)
(* the table, a listing of it however old and the registry agree on it.    *)
(***************************************************************************)
ContentAgrees ==
  /\ \A r \in Rev : reg.tools[r].active => reg.tools[r].digest = db[r].digest
  /\ pc \in {"sync", "sweep"} =>
       \A r \in Rev : desired[r].active => desired[r].digest = db[r].digest

StdioAuthority == StdioRuntime /\ ContentAgrees /\ InFlightAuthorized

\* Without hard deletes the peer never changes the content of a row.
LEMMA PeerKeepsContent ==
  ASSUME db \in Table, HardDeletes = FALSE, NEW r \in Rev, PeerWrite(r),
         NEW q \in Rev, db[q].digest \in Content
  PROVE  db'[q].digest = db[q].digest
<1>1. Exists(db, q)
  BY NoneAssumption DEF Exists
<1>2. ASSUME NEW d \in Content, NEW want \in BOOLEAN, ~AdmissionConflict(db, r, d),
             db' = Admit(db, r, d, want, now + 1)
      PROVE  db'[q].digest = db[q].digest
  BY <1>1, <1>2 DEF AdmissionConflict, Admit, Table, Row
<1>3. ASSUME db' = SoftDelete(db, r, now + 1)
      PROVE  db'[q].digest = db[q].digest
  BY <1>3 DEF SoftDelete, Table, Row
<1> QED BY <1>2, <1>3 DEF PeerWrite, Save

\* Its active revisions, and its desired ones, have the content of their rows
\* after every step, and committed calls keep their authority.
LEMMA StdioAuthorityStep ==
  ASSUME HardDeletes = FALSE, StdioAuthority, [StdioNext]_vars
  PROVE  StdioAuthority'
<1>0. StdioRuntime /\ StdioRuntime' /\ ContentAgrees /\ InFlightAuthorized
  BY StdioRuntimeStep DEF StdioAuthority
<1>1. ASSUME UNCHANGED <<db, reg, call>>, pc' \notin {"sync", "sweep"}
      PROVE  StdioAuthority'
  BY <1>0, <1>1 DEF StdioAuthority, ContentAgrees, InFlightAuthorized
<1>2. ASSUME UNCHANGED <<db, reg, call, desired>>, pc \in {"sync", "sweep"}
      PROVE  StdioAuthority'
  BY <1>0, <1>2 DEF StdioAuthority, ContentAgrees, InFlightAuthorized
<1>3. CASE Tick \/ ReconcileSkip \/ ReconcileHash \/ ReconcileReadFails
           \/ ReconcileDone \/ Restart
  BY <1>1, <1>3 DEF Tick, ReconcileSkip, ReconcileHash, ReconcileReadFails,
                    ReconcileDone, Restart, Finish, Goto
<1>4. CASE ReconcileList
  BY <1>0, <1>4 DEF ReconcileList, StdioAuthority, ContentAgrees, InFlightAuthorized
<1>5. ASSUME NEW r \in Rev, SyncKeep(r)
      PROVE  StdioAuthority'
  BY <1>2, <1>5 DEF SyncKeep
<1>6. ASSUME NEW r \in Rev, SyncRegister(r)
      PROVE  StdioAuthority'
  <2> DEFINE t == ToolOf(desired[r])
  <2>1. r \in todo /\ pc = "sync" /\ desired[r].active
    BY <1>0, <1>6 DEF SyncRegister, NextRow, StdioRuntime, ListedOK, DesiredActive
  <2>2. /\ t \in Tool /\ t.active /\ t.digest \in Content
        /\ t.digest = db[r].digest
    BY <1>0, <2>1, ListedRow DEF ContentAgrees
  <2>3. Install(AddTool(reg, r, t, FALSE), r) /\ UNCHANGED <<db, call, pc, desired>>
    BY <1>6 DEF SyncRegister
  <2> HIDE DEF t
  <2>4. \A q \in Rev :
          /\ reg'.tools[q].active <=> IF q = r THEN t.active ELSE reg.tools[q].active
          /\ reg'.tools[q].digest = IF q = r THEN t.digest ELSE reg.tools[q].digest
    BY <1>0, <2>2, <2>3, InstallKeeps DEF StdioRuntime
  <2>5. ContentAgrees'
    BY <1>0, <2>2, <2>3, <2>4 DEF ContentAgrees
  <2>6. InFlightAuthorized'
    <3>1. \A c \in Call : call[c].stage = "committed" => call[c].rev \in Rev
      BY <1>0 DEF StdioRuntime, CallOK
    <3> QED BY <1>0, <2>2, <2>3, <2>4, <3>1 DEF ContentAgrees, InFlightAuthorized
  <2> QED BY <1>0, <2>5, <2>6 DEF StdioAuthority
<1>7. ASSUME NEW r \in Rev, SyncFails(r)
      PROVE  StdioAuthority'
  BY <1>1, <1>7 DEF SyncFails, Finish
<1>8. CASE SweepStart
  BY <1>2, <1>8 DEF SweepStart
<1>9. ASSUME NEW r \in Rev, SweepDeregister(r)
      PROVE  StdioAuthority'
  <2>1. /\ ~reg'.tools[r].active
        /\ \A q \in Rev : q # r => reg'.tools[q] = reg.tools[q]
    BY <1>0, <1>9, UninstallKeeps DEF SweepDeregister, StdioRuntime
  <2>2. ContentAgrees'
    BY <1>0, <1>9, <2>1 DEF SweepDeregister, ContentAgrees
  <2>3. InFlightAuthorized'
    BY <1>9 DEF SweepDeregister, NoReader, InFlightAuthorized
  <2> QED BY <1>0, <2>2, <2>3 DEF StdioAuthority
<1>10. ASSUME NEW c \in Call, CallStep(c)
       PROVE  StdioAuthority'
  <2>1. call \in [Call -> Snapshot] /\ CallOK /\ ActiveOK
    BY <1>0 DEF StdioRuntime, TypeOK, RegistryOK
  <2>2. InFlightAuthorized' /\ UNCHANGED <<db, reg, pc, desired>>
    BY <1>0, <1>10, <2>1, CallStages
  <2> QED BY <1>0, <2>2 DEF StdioAuthority, ContentAgrees
<1>11. CASE Crash
  BY <1>0, <1>11 DEF Crash, StdioAuthority, ContentAgrees, InFlightAuthorized, NoCall,
                     NewToolRegistry, NoTool
<1>12. ASSUME NEW r \in Rev, PeerWrite(r)
       PROVE  StdioAuthority'
  <2>1. UNCHANGED <<reg, pc, desired, call>>
    BY <1>12 DEF PeerWrite, ctlVars
  <2>2. \A q \in Rev : db[q].digest \in Content => db'[q].digest = db[q].digest
    BY <1>0, <1>12, PeerKeepsContent DEF StdioRuntime, TypeOK
  <2>3. ContentAgrees'
    BY <1>0, <2>1, <2>2 DEF ContentAgrees, StdioRuntime, RegistryOK, ActiveOK, ListedOK
  <2> QED BY <1>0, <2>1, <2>3 DEF StdioAuthority, InFlightAuthorized
<1>13. CASE UNCHANGED vars
  BY <1>0, <1>13 DEF vars, ctlVars, StdioAuthority, ContentAgrees, InFlightAuthorized
<1> QED BY <1>3, <1>4, <1>5, <1>6, <1>7, <1>8, <1>9, <1>10, <1>11, <1>12, <1>13
        DEF StdioNext, RuntimeStep, ReconcileStep

\* It holds in every reachable state.
LEMMA StdioAuthorityHolds ==
  ASSUME HardDeletes = FALSE PROVE StdioSpec => []StdioAuthority
<1>1. Init => StdioAuthority
  BY StdioRuntimeInit DEF Init, StdioAuthority, ContentAgrees, InFlightAuthorized,
                          NewToolRegistry, NoTool, NoCall
<1>2. StdioAuthority /\ [StdioNext]_vars => StdioAuthority'
  BY StdioAuthorityStep
<1> QED BY <1>1, <1>2, PTL DEF StdioSpec

\* A committed ERP dispatch of a stdio server keeps its authority until it
\* returns, although its passes re-register active revisions without
\* authorityMu (registerTool), as long as nobody uses hard deletes.
THEOREM StdioCommittedCallsAuthorized ==
  ASSUME HardDeletes = FALSE PROVE StdioSpec => []InFlightAuthorized
<1>1. StdioAuthority => InFlightAuthorized
  BY DEF StdioAuthority
<1> QED BY <1>1, StdioAuthorityHolds, PTL
=============================================================================
