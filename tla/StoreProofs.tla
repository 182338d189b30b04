---------------------------- MODULE StoreProofs ----------------------------
(***************************************************************************)
(* What the tools table keeps, whatever handlers, passes and crashes write *)
(* to it, and why a pass that finds its hash unchanged may return early,   *)
(* for every value of the constants.                                       *)
(***************************************************************************)
EXTENDS ControlPlaneProofs

\* The facts OneServingRow states, about any table.
OneServing(t) ==
  /\ \A r \in Rev : t[r].serving => t[r].active
  /\ \A q, r \in Rev : Sibling(q, r) /\ t[q].serving /\ t[r].serving => q = r

\* Admission keeps at most one serving revision per name: a serving row
\* demotes its siblings, and a row that is not serving changes no other.
LEMMA AdmitOneServing ==
  ASSUME NEW t \in Table, NEW r \in Rev, NEW d \in Content, NEW want \in BOOLEAN,
         NEW at \in Nat, NEW u, u = Admit(t, r, d, want, at), OneServing(t)
  PROVE  OneServing(u)
<1> DEFINE s == AdmitServing(t, r, want)
<1>1. u[r].active /\ (u[r].serving <=> s)
  BY DEF Admit, Table, Row, AdmitServing
<1>2. \A q \in Rev : q # r =>
        /\ u[q].active <=> t[q].active
        /\ u[q].serving => t[q].serving
        /\ u[q].serving => ~(Sibling(q, r) /\ s)
  BY DEF Admit, Table, Row
<1>3. \A q \in Rev : Sibling(r, q) <=> Sibling(q, r)
  BY DEF Sibling
<1> HIDE DEF s
<1>4. \A q \in Rev : u[q].serving => u[q].active
  BY <1>1, <1>2 DEF OneServing
<1>5. ASSUME NEW p \in Rev, NEW q \in Rev, Sibling(p, q), u[p].serving, u[q].serving
      PROVE  p = q
  <2>1. CASE p # r /\ q # r
    BY <1>2, <1>5, <2>1 DEF OneServing
  <2>2. CASE p = r \/ q = r
    BY <1>1, <1>2, <1>3, <1>5, <2>2
  <2> QED BY <2>1, <2>2
<1> QED BY <1>4, <1>5 DEF OneServing

\* Deletion, soft or hard, only takes flags away.
LEMMA DeleteOneServing ==
  ASSUME NEW t \in Table, NEW r \in Rev, NEW at \in Nat, NEW u,
         u = SoftDelete(t, r, at) \/ u = HardDelete(t, r), OneServing(t)
  PROVE  OneServing(u)
<1>1. ~u[r].serving /\ \A q \in Rev : q # r => u[q] = t[q]
  BY DEF SoftDelete, HardDelete, NoRow, Table, Row
<1> QED BY <1>1 DEF OneServing

\* One revision is admitted or deleted, or the table stays as it is.
TableStep ==
  \/ db' = db
  \/ \E r \in Rev, d \in Content, want \in BOOLEAN, at \in Nat :
       ~AdmissionConflict(db, r, d) /\ db' = Admit(db, r, d, want, at)
  \/ \E r \in Rev, at \in Nat :
       db' = SoftDelete(db, r, at) \/ db' = HardDelete(db, r)

\* No pass, call, crash or restart writes the table.
LEMMA RuntimeReads == ASSUME RuntimeStep PROVE db' = db
<1>1. CASE ReconcileStep
  BY <1>1 DEF ReconcileStep, ReconcileSkip, ReconcileHash, ReconcileList,
              ReconcileReadFails, SyncKeep, SyncRegister, SyncFails, SweepStart,
              SweepDeregister, ReconcileDone
<1>2. ASSUME NEW c \in Call, CallStep(c)
      PROVE  db' = db
  BY <1>2 DEF CallStep, CallStart, CallEndsEarly, CallCommit, CallDenied,
              CallReturn
<1>3. CASE Tick \/ Crash \/ Restart
  BY <1>3 DEF Tick, Crash, Restart
<1> QED BY <1>1, <1>2, <1>3 DEF RuntimeStep

\* The handlers of an HTTP server change the table in no other way.
LEMMA HttpTableStep ==
  ASSUME HttpInv, [HttpNext]_vars
  PROVE  TableStep
<1> USE DEF TableStep
<1>1. CASE ApplyAdmit
  <2>1. /\ arg.rev \in Rev /\ arg.digest \in Content /\ arg.serving \in BOOLEAN
        /\ now + 1 \in Nat
    BY <1>1 DEF ApplyAdmit, HttpInv, RequestOK, TypeOK, Request
  <2> QED BY <1>1, <2>1 DEF ApplyAdmit, Save
<1>2. CASE DeleteHard \/ DeleteSoft
  <2>1. arg.rev \in Rev /\ now + 1 \in Nat
    BY <1>2 DEF DeleteHard, DeleteSoft, HttpInv, RequestOK, TypeOK
  <2> QED BY <1>2, <2>1 DEF DeleteHard, DeleteSoft, Save
<1>3. CASE \/ \E r \in Rev, d \in Content, want \in BOOLEAN : ApplyStart(r, d, want)
           \/ \E r \in Rev, hard \in BOOLEAN : DeleteStart(r, hard)
  BY <1>3 DEF ApplyStart, DeleteStart
<1>4. CASE RuntimeStep
  BY <1>4, RuntimeReads
<1>5. CASE UNCHANGED vars
  BY <1>5 DEF vars
<1>6. CASE ApplyStep
  BY <1>1, <1>6 DEF ApplyStep, ApplyConflict, ApplyFails, ApplyRegister,
                    ApplyRegisterFails
<1>7. CASE DeleteStep
  BY <1>2, <1>7 DEF DeleteStep, DeleteDeregister, DeleteFails
<1> QED BY <1>3, <1>4, <1>5, <1>6, <1>7 DEF HttpNext

\* Nor does the process beside a stdio server.
LEMMA StdioTableStep ==
  ASSUME now \in Nat, [StdioNext]_vars
  PROVE  TableStep
<1>1. ASSUME NEW r \in Rev, PeerWrite(r)
      PROVE  TableStep
  <2>1. now + 1 \in Nat
    OBVIOUS
  <2> QED BY <1>1, <2>1 DEF PeerWrite, Save, TableStep
<1>2. CASE RuntimeStep
  BY <1>2, RuntimeReads DEF TableStep
<1>3. CASE UNCHANGED vars
  BY <1>3 DEF vars, TableStep
<1> QED BY <1>1, <1>2, <1>3 DEF StdioNext

\* Such a step keeps the serving rows unique.
LEMMA TableStepServing ==
  ASSUME db \in Table, OneServingRow, TableStep
  PROVE  OneServingRow'
<1>1. OneServing(db)
  BY DEF OneServing, OneServingRow
<1>2. OneServing(db')
  BY <1>1, AdmitOneServing, DeleteOneServing DEF TableStep
<1> QED BY <1>2 DEF OneServing, OneServingRow

\* Such a step replaces no content in place.
LEMMA TableStepContent ==
  ASSUME db \in Table, TableStep, NEW r \in Rev, Exists(db, r), db'[r].digest # None
  PROVE  db'[r].digest = db[r].digest
<1>1. ASSUME NEW q \in Rev, NEW d \in Content, NEW want \in BOOLEAN,
             NEW at \in Nat, ~AdmissionConflict(db, q, d),
             db' = Admit(db, q, d, want, at)
      PROVE  db'[r].digest = db[r].digest
  BY <1>1 DEF AdmissionConflict, Admit, Table, Row
<1>2. ASSUME NEW q \in Rev, NEW at \in Nat,
             db' = SoftDelete(db, q, at) \/ db' = HardDelete(db, q)
      PROVE  db'[r].digest = db[r].digest
  BY <1>2 DEF SoftDelete, HardDelete, NoRow, Table, Row
<1> QED BY <1>1, <1>2 DEF TableStep

\* The table never holds two serving revisions of one name, nor a serving
\* revision that is not active.
THEOREM ServingRowUnique == HttpSpec => []OneServingRow
<1>1. Init => OneServingRow
  BY DEF Init, OneServingRow, EmptyTable, NoRow
<1>2. HttpInv /\ OneServingRow /\ [HttpNext]_vars => OneServingRow'
  BY HttpTableStep, TableStepServing DEF HttpInv, TypeOK
<1> QED BY <1>1, <1>2, InvHolds, PTL DEF HttpSpec

\* Nor does the table a stdio server reads, whatever its peer writes.
THEOREM StdioServingRowUnique == StdioSpec => []OneServingRow
<1>1. Init => OneServingRow
  BY DEF Init, OneServingRow, EmptyTable, NoRow
<1>2. StdioRuntime /\ OneServingRow /\ [StdioNext]_vars => OneServingRow'
  BY StdioTableStep, TableStepServing DEF StdioRuntime, TypeOK
<1> QED BY <1>1, <1>2, StdioRuntimeHolds, PTL DEF StdioSpec

\* Admitted content is immutable until a hard delete forgets the row.
THEOREM AdmittedContentImmutable == HttpSpec => ContentImmutable
<1> DEFINE Keeps == \A r \in Rev : Exists(db, r) /\ db'[r].digest # None
                                     => db'[r].digest = db[r].digest
<1>1. HttpInv /\ [HttpNext]_vars => [Keeps]_db
  BY HttpTableStep, TableStepContent DEF HttpInv, TypeOK
<1> QED BY <1>1, InvHolds, PTL DEF HttpSpec, ContentImmutable

\* It is so beside a stdio server too, whose passes rely on it.
THEOREM StdioContentImmutable == StdioSpec => ContentImmutable
<1> DEFINE Keeps == \A r \in Rev : Exists(db, r) /\ db'[r].digest # None
                                     => db'[r].digest = db[r].digest
<1>1. StdioRuntime /\ [StdioNext]_vars => [Keeps]_db
  BY StdioTableStep, TableStepContent DEF StdioRuntime, TypeOK
<1> QED BY <1>1, StdioRuntimeHolds, PTL DEF StdioSpec, ContentImmutable

-----------------------------------------------------------------------------
(***************************************************************************)
(* A pass.  It starts from a registry whose pointers and flags agree and   *)
(* ends with what the rows it listed ask for.                              *)
(***************************************************************************)

\* Pointer and flags of a registry are two copies of one fact, only an active
\* revision is selected, and an active revision has content.
Consistent(R) ==
  \A r \in Rev :
    /\ R.serving[NameOf[r]] = r <=> R.tools[r].serving
    /\ R.tools[r].serving => R.tools[r].active
    /\ R.tools[r].active => R.tools[r].digest # None

\* A table a pass may list.
Listable(t) == OneServing(t) /\ \A r \in Rev : t[r].active => t[r].digest \in Content

\* The rows of t outside W are in the registry as they are stored.
Visited(R, t, W) == \A r \in DesiredActive(t) \ W : R.tools[r] = ToolOf(t[r])

\* Nothing but the rows of t and the revisions in W is active.
Swept(R, t, W) == ListActive(R) \subseteq DesiredActive(t) \cup W

\* The runtime R is what the table t asks for: Aligned, of any two values.
Matches(R, t) ==
  /\ \A r \in Rev :
       /\ R.tools[r].active = t[r].active
       /\ t[r].active => R.tools[r] = ToolOf(t[r])
  /\ \A r \in Rev : R.serving[NameOf[r]] = r <=> t[r].serving

\* What the registry keeps of a row.
LEMMA ToolOfRow ==
  ASSUME NEW t \in Table, NEW r \in Rev
  PROVE  /\ ToolOf(t[r]) \in Tool
         /\ ToolOf(t[r]).digest = t[r].digest
         /\ ToolOf(t[r]).active = t[r].active
         /\ ToolOf(t[r]).serving = t[r].serving
BY DEF ToolOf, Tool, Table, Row

\* Registering a revision keeps a registry consistent, unless the serving
\* default is allowed and a revision that has the pointer is registered as not
\* serving: only then does the pointer stay without the flag.
LEMMA AddConsistent ==
  ASSUME NEW R \in Registry, NEW r \in Rev, NEW x \in Tool, NEW b \in BOOLEAN,
         x.active, x.digest # None, Consistent(R),
         b /\ ~x.serving => R.serving[NameOf[r]] # r,
         NEW A, A = AddTool(R, r, x, b)
  PROVE  Consistent(A)
<1> SUFFICES ASSUME NEW q \in Rev
             PROVE  /\ A.serving[NameOf[q]] = q <=> A.tools[q].serving
                    /\ A.tools[q].serving => A.tools[q].active
                    /\ A.tools[q].active => A.tools[q].digest # None
  BY DEF Consistent
<1>1. /\ R.serving[NameOf[q]] = q <=> R.tools[q].serving
      /\ R.tools[q].serving => R.tools[q].active
      /\ R.tools[q].active => R.tools[q].digest # None
      /\ R.tools[q] \in Tool
  BY DEF Consistent, Registry
<1>2. CASE x.serving \/ (b /\ R.serving[NameOf[r]] = None)
  <2>1. /\ A.tools[r] = [x EXCEPT !.serving = TRUE]
        /\ q # r /\ NameOf[q] = NameOf[r]
             => A.tools[q] = [R.tools[q] EXCEPT !.serving = FALSE]
        /\ NameOf[q] # NameOf[r] => A.tools[q] = R.tools[q]
        /\ \A n \in Name : A.serving[n] = IF n = NameOf[r] THEN r ELSE R.serving[n]
    BY <1>2, NameOfAssumption DEF AddTool, SetServing, Registry, Tool, Sibling
  <2>2. CASE q = r
    <3>1. A.serving[NameOf[q]] = q
      BY <2>1, <2>2, NameOfAssumption
    <3>2. /\ A.tools[q].serving = TRUE /\ A.tools[q].active = x.active
          /\ A.tools[q].digest = x.digest
      BY <2>1, <2>2 DEF Tool
    <3> QED BY <3>1, <3>2, Zenon
  <2>3. CASE NameOf[q] # NameOf[r]
    <3>1. A.serving[NameOf[q]] = R.serving[NameOf[q]] /\ A.tools[q] = R.tools[q]
      BY <2>1, <2>3, NameOfAssumption
    <3> QED BY <1>1, <3>1, Zenon
  <2>4. CASE q # r /\ NameOf[q] = NameOf[r]
    <3>1. A.serving[NameOf[q]] # q
      BY <2>1, <2>4, NameOfAssumption
    <3>2. A.tools[q] = [R.tools[q] EXCEPT !.serving = FALSE]
      BY <2>1, <2>4
    <3>3. /\ A.tools[q].serving = FALSE
          /\ A.tools[q].active = R.tools[q].active
          /\ A.tools[q].digest = R.tools[q].digest
      BY <1>1, <3>2 DEF Tool
    <3> QED BY <1>1, <3>1, <3>3, Zenon
  <2> QED BY <2>2, <2>3, <2>4
<1>3. CASE ~(x.serving \/ (b /\ R.serving[NameOf[r]] = None))
  <2>1. /\ A.tools[r] = x
        /\ q # r => A.tools[q] = R.tools[q]
        /\ \A n \in Name : A.serving[n] =
             IF ~b /\ n = NameOf[r] /\ R.serving[n] = r THEN None ELSE R.serving[n]
    BY <1>3, NameOfAssumption DEF AddTool, Unselect, Registry, Tool
  <2>2. CASE q = r
    <3>1. A.serving[NameOf[q]] # q
      <4>1. CASE b
        BY <1>3, <2>1, <2>2, <4>1, NameOfAssumption
      <4>2. CASE ~b
        BY <2>1, <2>2, <4>2, NameOfAssumption, NoneAssumption
      <4> QED BY <4>1, <4>2
    <3> QED BY <1>3, <2>1, <2>2, <3>1
  <2>3. CASE q # r
    <3>1. A.tools[q] = R.tools[q]
      BY <2>1, <2>3
    <3>2. A.serving[NameOf[q]] = q <=> R.serving[NameOf[q]] = q
      BY <2>1, <2>3, NameOfAssumption, NoneAssumption
    <3> QED BY <1>1, <3>1, <3>2, Zenon
  <2> QED BY <2>2, <2>3
<1> QED BY <1>2, <1>3

\* A pass registers a row: the registry stays consistent, the rows visited
\* before stay as they are, and the row is visited.
LEMMA RegisterRow ==
  ASSUME NEW R \in Registry, NEW t \in Table, NEW r \in DesiredActive(t), NEW W,
         Consistent(R), Listable(t), Visited(R, t, W),
         NEW A, A = AddTool(R, r, ToolOf(t[r]), FALSE)
  PROVE  Consistent(A) /\ Visited(A, t, W \ {r})
<1> DEFINE x == ToolOf(t[r])
<1>1. r \in Rev /\ x \in Tool /\ x.active /\ x.digest # None /\ t[r].active
  BY NoneAssumption DEF ToolOf, Tool, DesiredActive, Table, Row, Listable
<1>2. Consistent(A)
  <2> HIDE DEF x
  <2>1. A = AddTool(R, r, x, FALSE)
    BY DEF x
  <2> QED BY <1>1, <2>1, AddConsistent
<1>3. CASE x.serving
  <2>1. \A q \in Rev : A.tools[q] =
          IF q = r THEN x
          ELSE IF NameOf[q] = NameOf[r] THEN [R.tools[q] EXCEPT !.serving = FALSE]
          ELSE R.tools[q]
    BY <1>1, <1>3, NameOfAssumption DEF AddTool, SetServing, Registry, Tool, Sibling
  <2>2. ASSUME NEW q \in DesiredActive(t) \ (W \ {r})
        PROVE  A.tools[q] = ToolOf(t[q])
    <3>1. CASE q = r
      BY <1>1, <2>1, <3>1
    <3>2. CASE q # r
      <4>1. R.tools[q] = ToolOf(t[q]) /\ q \in Rev
        BY <3>2 DEF Visited, DesiredActive
      <4>2. NameOf[q] = NameOf[r] => t[q].serving = FALSE
        BY <1>1, <1>3, <3>2, <4>1 DEF Listable, OneServing, Sibling, ToolOf, Table, Row
      <4>3. CASE NameOf[q] = NameOf[r]
        <5>1. A.tools[q] = [ToolOf(t[q]) EXCEPT !.serving = FALSE]
          BY <2>1, <3>2, <4>1, <4>3
        <5> QED BY <4>2, <4>3, <5>1 DEF ToolOf
      <4>4. CASE NameOf[q] # NameOf[r]
        BY <2>1, <3>2, <4>1, <4>4
      <4> QED BY <4>3, <4>4
    <3> QED BY <3>1, <3>2
  <2> QED BY <1>2, <2>2 DEF Visited
<1>4. CASE ~x.serving
  <2>1. \A q \in Rev : A.tools[q] = IF q = r THEN x ELSE R.tools[q]
    BY <1>1, <1>4, NameOfAssumption DEF AddTool, Unselect, Registry, Tool
  <2> QED BY <1>1, <1>2, <2>1 DEF Visited, DesiredActive
<1> QED BY <1>3, <1>4

\* Removing a revision: it is inactive afterwards, the others and the
\* consistency stay.
LEMMA RemoveConsistent ==
  ASSUME NEW R \in Registry, NEW r \in Rev, Consistent(R), NEW A, A = Remove(R, r)
  PROVE  /\ Consistent(A)
         /\ ~A.tools[r].active
         /\ \A q \in Rev \ {r} : A.tools[q] = R.tools[q]
<1>1. CASE R.tools[r].digest = None
  BY <1>1 DEF Remove, Consistent
<1>2. CASE R.tools[r].digest # None
  <2>1. /\ \A q \in Rev \ {r} : A.tools[q] = R.tools[q]
        /\ ~A.tools[r].active /\ ~A.tools[r].serving
        /\ \A n \in Name : A.serving[n] =
             IF n = NameOf[r] /\ R.serving[n] = r THEN None ELSE R.serving[n]
    BY <1>2, NameOfAssumption DEF Remove, Unselect, Registry, Tool
  <2>2. Consistent(A)
    BY <2>1, NameOfAssumption, NoneAssumption DEF Consistent, Registry, Tool
  <2> QED BY <2>1, <2>2
<1> QED BY <1>1, <1>2

\* A pass withdraws a revision that no row asks for.
LEMMA WithdrawStale ==
  ASSUME NEW R \in Registry, NEW t \in Table, NEW r \in Rev, NEW W,
         Consistent(R), Visited(R, t, {}), Swept(R, t, W), r \notin DesiredActive(t),
         NEW A, A = Remove(R, r)
  PROVE  Consistent(A) /\ Visited(A, t, {}) /\ Swept(A, t, W \ {r})
<1>1. Visited(A, t, {}) /\ Swept(A, t, W \ {r})
  BY RemoveConsistent DEF Visited, Swept, DesiredActive, ListActive
<1> QED BY <1>1, RemoveConsistent

\* At the end of a pass the runtime is what the listed rows ask for.
LEMMA PassEnds ==
  ASSUME NEW R \in Registry, NEW t \in Table, Consistent(R), Listable(t),
         Visited(R, t, {}), Swept(R, t, {})
  PROVE  Matches(R, t)
<1>1. \A r \in Rev : t[r].active => R.tools[r] = ToolOf(t[r])
  BY DEF Visited, DesiredActive
<1>2. ASSUME NEW r \in Rev
      PROVE  R.tools[r].active <=> t[r].active
  <2>1. CASE t[r].active
    <3>1. R.tools[r] = ToolOf(t[r])
      BY <1>1, <2>1
    <3> QED BY <3>1, ToolOfRow, Zenon
  <2>2. CASE ~t[r].active
    BY <2>2 DEF Swept, ListActive, DesiredActive
  <2> QED BY <2>1, <2>2
<1>3. \A r \in Rev : R.tools[r].active \in BOOLEAN /\ t[r].active \in BOOLEAN
  BY DEF Table, Row, Registry, Tool
<1>4. ASSUME NEW r \in Rev
      PROVE  R.tools[r].serving <=> t[r].serving
  <2>1. CASE t[r].active
    <3>1. R.tools[r] = ToolOf(t[r])
      BY <1>1, <2>1
    <3> QED BY <3>1, ToolOfRow, Zenon
  <2>2. CASE ~t[r].active
    BY <1>2, <2>2 DEF Listable, OneServing, Consistent
  <2> QED BY <2>1, <2>2
<1> QED BY <1>1, <1>2, <1>3, <1>4 DEF Matches, Consistent

\* A new registry and a new process.
LEMMA NewConsistent == NewToolRegistry \in Registry /\ Consistent(NewToolRegistry)
BY NameOfAssumption, NoneAssumption
   DEF Consistent, NewToolRegistry, NoTool, Registry, Tool

\* Where the pass under way has got to, in a registry and a table of its own.
PassOK ==
  /\ pc = "sync" => Visited(reg, desired, todo) /\ todo \subseteq DesiredActive(desired)
  /\ pc = "sweep" =>
       /\ Visited(reg, desired, {})
       /\ Swept(reg, desired, todo)
       /\ todo \cap DesiredActive(desired) = {}

-----------------------------------------------------------------------------
(***************************************************************************)
(* A stdio server whose peer uses no hard deletes.  Between the hash and   *)
(* the listing, and all through the pass, the peer may write; what saves   *)
(* the skip is that a row's stamp only grows, so that a table that was     *)
(* left is never met again (Past).                                         *)
(***************************************************************************)
Stamped == \A r \in Rev : db[r].at <= now

\* No row of t is newer than the one in the table.
Past(t) == t \in Table /\ \A r \in Rev : t[r].at <= db[r].at

StdioTyped ==
  /\ db \in Table
  /\ now \in Nat
  /\ reg \in Registry
  /\ desired \in Table
  /\ todo \in SUBSET Rev

HashesOK ==
  /\ lastHash = None \/ Past(lastHash)
  /\ pc \in {"list", "sync", "sweep"} => Past(hash) /\ db # lastHash
  /\ pc \in {"sync", "sweep"} => Listable(desired) /\ (db = hash => desired = db)
  /\ db = lastHash => Matches(reg, db)

StdioInv ==
  /\ StdioTyped
  /\ Listable(db)
  /\ Stamped
  /\ Consistent(reg)
  /\ PassOK
  /\ HashesOK

\* No pass has anything to do with a new process.
LEMMA StdioInit == Init => StdioInv
<1> SUFFICES ASSUME Init PROVE StdioInv
  OBVIOUS
<1>1. \A r \in Rev : db[r] = NoRow
  BY DEF Init, EmptyTable
<1>2. StdioTyped
  BY NewConsistent DEF Init, StdioTyped, EmptyTable, NoRow, Table, Row
<1>3. Listable(db) /\ Stamped
  BY <1>1 DEF Init, Listable, OneServing, Stamped, NoRow
<1>4. Consistent(reg) /\ PassOK
  BY NewConsistent DEF Init, PassOK
<1>5. HashesOK
  BY <1>2, HashAssumption DEF Init, HashesOK, StdioTyped
<1> QED BY <1>2, <1>3, <1>4, <1>5 DEF StdioInv

\* A soft delete leaves a table.
LEMMA SoftDeleteType ==
  ASSUME NEW t \in Table, NEW r \in Rev, NEW at \in Nat
  PROVE  SoftDelete(t, r, at) \in Table
BY DEF SoftDelete, Table, Row

\* A save of the peer stamps a row with a new time, lowers no stamp and leaves
\* a table that a pass may list.
LEMMA PeerSaves ==
  ASSUME StdioInv, HardDeletes = FALSE, NEW r \in Rev, PeerWrite(r)
  PROVE  /\ db' \in Table /\ Listable(db') /\ now' = now + 1
         /\ \A q \in Rev : db[q].at <= db'[q].at /\ db'[q].at <= now'
         /\ db[r].at < db'[r].at
<1>0. db \in Table /\ now \in Nat /\ Listable(db) /\ Stamped
  BY DEF StdioInv, StdioTyped
<1>1. ASSUME NEW d \in Content, NEW want \in BOOLEAN,
             db' = Admit(db, r, d, want, now + 1), now' = now + 1
      PROVE  /\ db' \in Table /\ Listable(db')
             /\ \A q \in Rev : db[q].at <= db'[q].at /\ db'[q].at <= now'
             /\ db[r].at < db'[r].at
  <2>1. db' \in Table
    <3> DEFINE s == AdmitServing(db, r, want)
    <3>1. s \in BOOLEAN
      BY <1>0 DEF AdmitServing, HasServing, Table, Row
    <3>2. \A q \in Rev : db[q] \in Row
      BY <1>0 DEF Table
    <3>3. db' = [q \in Rev |->
            IF q = r THEN [digest |-> d, active |-> TRUE, serving |-> s, at |-> now + 1]
            ELSE IF Sibling(q, r) /\ s /\ db[q].serving
                 THEN [db[q] EXCEPT !.serving = FALSE, !.at = now + 1]
                 ELSE db[q]]
      BY <1>0, <1>1 DEF Admit
    <3> HIDE DEF s
    <3>4. now + 1 \in Nat
      BY <1>0
    <3>5. [digest |-> d, active |-> TRUE, serving |-> s, at |-> now + 1] \in Row
      BY <3>1, <3>4 DEF Row
    <3>6. \A q \in Rev : [db[q] EXCEPT !.serving = FALSE, !.at = now + 1] \in Row
      BY <3>2, <3>4 DEF Row
    <3> QED BY <3>2, <3>3, <3>5, <3>6 DEF Table
  <2>2. OneServing(db')
    BY <1>0, <1>1, AdmitOneServing DEF Listable
  <2>3. \A q \in Rev : db'[q].active => db'[q].digest \in Content
    BY <1>0, <1>1 DEF Admit, Table, Row, Listable
  <2>4. \A q \in Rev : db'[q].at = now + 1 \/ db'[q].at = db[q].at
    BY <1>0, <1>1 DEF Admit, Table, Row
  <2>5. db'[r].at = now + 1
    BY <1>0, <1>1 DEF Admit
  <2>6. \A q \in Rev : db[q].at \in Nat /\ db[q].at <= now
    BY <1>0 DEF Table, Row, Stamped
  <2>7. \A q \in Rev : db[q].at <= db'[q].at /\ db'[q].at <= now'
    BY <1>0, <1>1, <2>4, <2>6
  <2>8. db[r].at < db'[r].at
    BY <1>0, <2>5, <2>6
  <2> QED BY <2>1, <2>2, <2>3, <2>7, <2>8 DEF Listable
<1>2. ASSUME db' = SoftDelete(db, r, now + 1), now' = now + 1
      PROVE  /\ db' \in Table /\ Listable(db')
             /\ \A q \in Rev : db[q].at <= db'[q].at /\ db'[q].at <= now'
             /\ db[r].at < db'[r].at
  <2>1. db' \in Table
    BY <1>0, <1>2, SoftDeleteType
  <2>2. OneServing(db')
    BY <1>0, <1>2, DeleteOneServing DEF Listable
  <2>3. /\ ~db'[r].active /\ db'[r].at = now + 1
        /\ \A q \in Rev \ {r} : db'[q] = db[q]
    BY <1>0, <1>2 DEF SoftDelete, Table, Row
  <2>4. \A q \in Rev : db[q].at \in Nat /\ db[q].at <= now
    BY <1>0 DEF Table, Row, Stamped
  <2>5. \A q \in Rev : db[q].at <= db'[q].at /\ db'[q].at <= now'
    BY <1>0, <1>2, <2>3, <2>4
  <2>6. db[r].at < db'[r].at
    BY <1>0, <2>3, <2>4
  <2>7. \A q \in Rev : db'[q].active => db'[q].digest \in Content
    BY <1>0, <2>3 DEF Listable
  <2> QED BY <2>1, <2>2, <2>5, <2>6, <2>7 DEF Listable
<1> QED BY <1>1, <1>2 DEF PeerWrite, Save

\* A table that is past stays past, and is not the one after a save.
LEMMA PastStays ==
  ASSUME StdioInv, HardDeletes = FALSE, NEW r \in Rev, PeerWrite(r), NEW t, Past(t)
  PROVE  Past(t)' /\ t # db'
<1>1. \A q \in Rev : t[q].at \in Nat /\ db[q].at \in Nat /\ db'[q].at \in Nat
  BY PeerSaves DEF Past, StdioInv, StdioTyped, Table, Row
<1>2. /\ \A q \in Rev : t[q].at <= db[q].at /\ db[q].at <= db'[q].at
      /\ db[r].at < db'[r].at
  BY PeerSaves DEF Past
<1>3. (\A q \in Rev : t[q].at <= db'[q].at) /\ t[r].at < db'[r].at
  BY <1>1, <1>2
<1>4. t # db'
  BY <1>1, <1>3
<1> QED BY <1>3, <1>4 DEF Past

\* The peer writes between any two steps.
LEMMA PeerKeeps ==
  ASSUME StdioInv, HardDeletes = FALSE, NEW r \in Rev, PeerWrite(r)
  PROVE  StdioInv'
<1>1. UNCHANGED <<reg, lastHash, pc, hash, desired, todo>>
  BY DEF PeerWrite, ctlVars
<1>2. StdioTyped' /\ Listable(db)' /\ Stamped'
  <2>1. now + 1 \in Nat
    BY DEF StdioInv, StdioTyped
  <2> QED BY <1>1, <2>1, PeerSaves DEF StdioInv, StdioTyped, Stamped
<1>3. Consistent(reg)' /\ PassOK'
  BY <1>1 DEF StdioInv, PassOK
<1>4. /\ lastHash = None \/ Past(lastHash)
      /\ pc \in {"list", "sync", "sweep"} => Past(hash)
  BY DEF StdioInv, HashesOK
<1>5. (lastHash = None \/ Past(lastHash)') /\ db' # lastHash
  BY <1>1, <1>4, PastStays, PeerSaves, HashAssumption DEF Past
<1>6. pc \in {"list", "sync", "sweep"} => Past(hash)' /\ db' # hash
  BY <1>1, <1>4, PastStays DEF Past
<1>7. HashesOK'
  BY <1>1, <1>4, <1>5, <1>6 DEF StdioInv, HashesOK, Past
<1> QED BY <1>2, <1>3, <1>7 DEF StdioInv

\* A pass that ends, complete or not, keeps what does not speak of its steps.
LEMMA StdioFinish ==
  ASSUME StdioInv, NEW ok, Finish(ok), UNCHANGED <<db, now, reg, lastHash>>
  PROVE  StdioInv'
<1>1. pc' = "idle" /\ desired' \in Table /\ todo' \in SUBSET Rev
  BY DEF Finish, EmptyTable, NoRow, Table, Row
<1> QED BY <1>1 DEF StdioInv, StdioTyped, Stamped, PassOK, HashesOK, Past

\* The steps of a pass.
LEMMA StdioPass == ASSUME StdioInv, ReconcileStep PROVE StdioInv'
<1>0. db \in Table /\ reg \in Registry /\ desired \in Table /\ todo \in SUBSET Rev
  BY DEF StdioInv, StdioTyped
<1>1. CASE ReconcileSkip
  BY <1>1, StdioFinish DEF ReconcileSkip
<1>2. CASE ReconcileHash
  <2>1. Past(hash)'
    BY <1>0, <1>2 DEF ReconcileHash, Past, Table, Row
  <2> QED BY <1>2, <2>1 DEF ReconcileHash, Goto, StdioInv, StdioTyped, Stamped,
                            PassOK, HashesOK, Past
<1>3. CASE ReconcileList
  <2>1. Visited(reg, desired, todo)' /\ todo' = DesiredActive(desired')
    BY <1>3 DEF ReconcileList, Visited
  <2>2. desired' \in Table /\ todo' \in SUBSET Rev
    BY <1>0, <1>3 DEF ReconcileList, DesiredActive
  <2> QED BY <1>3, <2>1, <2>2 DEF ReconcileList, Goto, StdioInv, StdioTyped, Stamped,
                                  PassOK, HashesOK, Past
<1>4. CASE ReconcileReadFails
  BY <1>4, StdioFinish DEF ReconcileReadFails
<1>5. ASSUME NEW r \in Rev, SyncKeep(r)
      PROVE  StdioInv'
  <2>1. Visited(reg, desired, todo)' /\ todo' \subseteq DesiredActive(desired')
    BY <1>5 DEF SyncKeep, OutOfDate, StdioInv, PassOK, Visited
  <2>2. todo' \in SUBSET Rev
    BY <1>0, <1>5 DEF SyncKeep
  <2> QED BY <1>5, <2>1, <2>2 DEF SyncKeep, StdioInv, StdioTyped, Stamped,
                                  PassOK, HashesOK, Past
<1>6. ASSUME NEW r \in Rev, SyncRegister(r)
      PROVE  StdioInv'
  <2>1. /\ pc = "sync" /\ todo' = todo \ {r} /\ r \in todo
        /\ reg' = AddTool(reg, r, ToolOf(desired[r]), FALSE)
        /\ UNCHANGED <<db, now, lastHash, pc, hash, desired>>
    BY <1>6 DEF SyncRegister, Install, NextRow
  <2>2. /\ Consistent(reg) /\ Listable(desired) /\ Visited(reg, desired, todo)
        /\ db # lastHash /\ todo \subseteq DesiredActive(desired)
    BY <2>1 DEF StdioInv, PassOK, HashesOK
  <2>3. Consistent(reg)' /\ Visited(reg, desired, todo)'
    BY <1>0, <2>1, <2>2, RegisterRow
  <2>4. reg' \in Registry /\ todo' \in SUBSET Rev
    BY <1>0, <2>1, AddToolType, ToolOfRow
  <2> QED BY <2>1, <2>2, <2>3, <2>4 DEF StdioInv, StdioTyped, Stamped, PassOK,
                                        HashesOK, Past
<1>7. ASSUME NEW r \in Rev, SyncFails(r)
      PROVE  StdioInv'
  BY <1>7, StdioFinish DEF SyncFails
<1>8. CASE SweepStart
  <2>1. /\ pc = "sync" /\ pc' = "sweep" /\ todo = {}
        /\ todo' = ListActive(reg) \ DesiredActive(desired)
        /\ UNCHANGED <<db, now, reg, lastHash, hash, desired>>
    BY <1>8 DEF SweepStart, Goto
  <2>2. Visited(reg, desired, {})
    BY <2>1 DEF StdioInv, PassOK
  <2>3. PassOK'
    BY <2>1, <2>2 DEF PassOK, Swept, Visited
  <2>4. todo' \in SUBSET Rev
    BY <2>1 DEF ListActive
  <2> QED BY <2>1, <2>3, <2>4 DEF StdioInv, StdioTyped, Stamped, HashesOK, Past
<1>9. ASSUME NEW r \in Rev, SweepDeregister(r)
      PROVE  StdioInv'
  <2>1. /\ pc = "sweep" /\ todo' = todo \ {r} /\ r \in todo
        /\ reg' = Remove(reg, r)
        /\ UNCHANGED <<db, now, lastHash, pc, hash, desired>>
    BY <1>9 DEF SweepDeregister, Install
  <2>2. /\ Consistent(reg) /\ Visited(reg, desired, {}) /\ Swept(reg, desired, todo)
        /\ todo \cap DesiredActive(desired) = {} /\ db # lastHash
    BY <2>1 DEF StdioInv, PassOK, HashesOK
  <2>3. Consistent(reg') /\ Visited(reg', desired, {}) /\ Swept(reg', desired, todo \ {r})
    <3>1. r \notin DesiredActive(desired)
      BY <2>1, <2>2
    <3> QED BY <1>0, <2>1, <2>2, <3>1, WithdrawStale
  <2>4. PassOK'
    BY <2>1, <2>2, <2>3 DEF PassOK
  <2>5. reg' \in Registry /\ todo' \in SUBSET Rev
    BY <1>0, <2>1, RemoveType
  <2> QED BY <2>1, <2>2, <2>3, <2>4, <2>5 DEF StdioInv, StdioTyped, Stamped,
                                              HashesOK, Past
<1>10. CASE ReconcileDone
  <2>1. /\ pc = "sweep" /\ todo = {} /\ lastHash' = hash /\ Finish(TRUE)
        /\ UNCHANGED <<db, now, reg>>
    BY <1>10 DEF ReconcileDone
  <2>2. /\ Consistent(reg) /\ Visited(reg, desired, {}) /\ Swept(reg, desired, {})
        /\ Past(hash) /\ Listable(desired) /\ (db = hash => desired = db)
    BY <2>1 DEF StdioInv, PassOK, HashesOK
  <2>3. db = hash => Matches(reg, db)
    BY <1>0, <2>2, PassEnds
  <2>4. pc' = "idle" /\ desired' \in Table /\ todo' \in SUBSET Rev
    BY <2>1 DEF Finish, EmptyTable, NoRow, Table, Row
  <2> QED BY <2>1, <2>2, <2>3, <2>4 DEF StdioInv, StdioTyped, Stamped, PassOK,
                                        HashesOK, Past
<1> QED BY <1>1, <1>2, <1>3, <1>4, <1>5, <1>6, <1>7, <1>8, <1>9, <1>10
        DEF ReconcileStep

\* The induction step.
LEMMA StdioStep ==
  ASSUME HardDeletes = FALSE, StdioInv, [StdioNext]_vars PROVE StdioInv'
<1>1. CASE Tick \/ Restart \/ UNCHANGED vars
  <2>1. /\ UNCHANGED <<db, now, reg, lastHash, hash, desired, todo>>
        /\ pc' = pc \/ pc' = "hash"
    BY <1>1 DEF Tick, Restart, vars, ctlVars
  <2> QED BY <2>1 DEF StdioInv, StdioTyped, Stamped, PassOK, HashesOK, Past
<1>2. ASSUME NEW c \in Call, CallStep(c)
      PROVE  StdioInv'
  <2>1. UNCHANGED <<db, now, reg, lastHash, ctlVars>>
    BY <1>2 DEF CallStep, CallStart, CallEndsEarly, CallCommit, CallDenied, CallReturn
  <2> QED BY <2>1 DEF ctlVars, StdioInv, StdioTyped, Stamped, PassOK, HashesOK, Past
<1>3. CASE Crash
  <2>1. /\ pc' = "idle" /\ reg' = NewToolRegistry /\ lastHash' = None
        /\ desired' = EmptyTable /\ todo' = {} /\ UNCHANGED <<db, now>>
    BY <1>3 DEF Crash
  <2>2. desired' \in Table /\ db # None
    BY <2>1, HashAssumption DEF EmptyTable, NoRow, Table, Row, StdioInv, StdioTyped
  <2> QED BY <2>1, <2>2, NewConsistent DEF StdioInv, StdioTyped, Stamped, PassOK,
                                          HashesOK, Past
<1> QED BY <1>1, <1>2, <1>3, StdioPass, PeerKeeps DEF StdioNext, RuntimeStep

\* Skipping a pass is safe in a stdio server whose peer uses no hard deletes,
\* whatever the peer writes between the steps of a pass and whatever reads
\* fail (reconcileLocked's early return).  With hard deletes it is not: a table
\* can come back (stdio_aba.cfg).
THEOREM StdioSkipSafe == ASSUME HardDeletes = FALSE PROVE StdioSpec => []SkipIsSafe
<1>1. StdioInv /\ [StdioNext]_vars => StdioInv'
  BY StdioStep
<1>2. StdioInv => SkipIsSafe
  BY DEF StdioInv, HashesOK, SkipIsSafe, Matches, Aligned
<1> QED BY <1>1, <1>2, StdioInit, PTL DEF StdioSpec

-----------------------------------------------------------------------------
(***************************************************************************)
(* An HTTP server whose versions are all valid, whose deletes erase, and   *)
(* whose passes fail to read or which dies, but not both.  The handlers    *)
(* alone keep the runtime what the table asks for; a pass has work to do   *)
(* only in a process that starts on a table with rows.                     *)
(***************************************************************************)
BenignFailures ==
  /\ Valid = Rev
  /\ "erase" \notin FailPoints
  /\ "read" \notin FailPoints \/ "crash" \notin FailPoints

\* The runtime is what the table asks for, or will be when the step of the
\* handler under way is taken.
Ready ==
  /\ pc \notin {"register", "erase"} => Matches(reg, db)
  /\ pc = "register" =>
       LET A == AddTool(reg, arg.rev, AdmittedTool, TRUE)
       IN  Consistent(A) /\ Matches(A, db)
  /\ pc = "erase" => Matches(reg, HardDelete(db, arg.rev))

HttpSkipInv ==
  /\ Consistent(reg)
  /\ PassOK
  /\ pc = "idle" <=> op \in {"idle", "down"}
  /\ op = "boot" => pc \in {"hash", "list", "sync", "sweep"}
  /\ op \in {"boot", "down"} => lastHash = None
  /\ (op \in {"boot", "down"} /\ "crash" \in FailPoints) \/ Ready

\* A new process has a registry to begin with, and its first table is empty.
LEMMA HttpSkipInit == Init => HttpSkipInv
<1> SUFFICES ASSUME Init PROVE HttpSkipInv
  OBVIOUS
<1>1. Matches(reg, db)
  BY NameOfAssumption, NoneAssumption
     DEF Init, Matches, NewToolRegistry, NoTool, EmptyTable, NoRow
<1> QED BY <1>1, NewConsistent DEF Init, HttpSkipInv, Ready, PassOK

\* What the table is like while the other invariants hold.
LEMMA HttpTable ==
  ASSUME HttpInv, OneServingRow
  PROVE  /\ db \in Table /\ now \in Nat /\ reg \in Registry /\ todo \in SUBSET Rev
         /\ Listable(db)
BY DEF HttpInv, TypeOK, RuntimeOK, RowsOK, OneServingRow, OneServing, Listable, Table, Row

\* A demoted revision keeps its content and its activity.
LEMMA FlagCleared ==
  ASSUME NEW x \in Tool
  PROVE  [x EXCEPT !.serving = FALSE] = [digest |-> x.digest, active |-> x.active, serving |-> FALSE]
<1> DEFINE y == [x EXCEPT !.serving = FALSE]
           z == [digest |-> x.digest, active |-> x.active, serving |-> FALSE]
<1>1. y \in Tool /\ y.digest = x.digest /\ y.active = x.active /\ y.serving = FALSE
  BY DEF Tool
<1>2. z \in Tool /\ z.digest = x.digest /\ z.active = x.active /\ z.serving = FALSE
  BY DEF Tool
<1> HIDE DEF y, z
<1>3. y = z
  BY <1>1, <1>2 DEF Tool
<1> QED BY <1>3 DEF y, z

\* Admission in the table and registration of what it stored, with the serving
\* default, come to the same.
LEMMA AdmitMatches ==
  ASSUME NEW R \in Registry, NEW t \in Table, Consistent(R), Matches(R, t), Listable(t),
         NEW r \in Rev, NEW d \in Content, NEW want \in BOOLEAN, NEW at,
         NEW s, s = AdmitServing(t, r, want),
         NEW x \in Tool, x = [digest |-> d, active |-> TRUE, serving |-> s],
         NEW A, A = AddTool(R, r, x, TRUE),
         NEW u, u = Admit(t, r, d, want, at)
  PROVE  Consistent(A) /\ Matches(A, u)
<1>1. /\ u[r] = [digest |-> d, active |-> TRUE, serving |-> s, at |-> at]
      /\ \A q \in Rev \ {r} : u[q] = IF NameOf[q] = NameOf[r] /\ s /\ t[q].serving
                                     THEN [t[q] EXCEPT !.serving = FALSE, !.at = at] ELSE t[q]
      /\ s \in BOOLEAN
  BY DEF Admit, Sibling, AdmitServing, Table, Row
<1>2. /\ u[r].digest = d /\ u[r].active = TRUE /\ u[r].serving = s
      /\ x.active = TRUE /\ ToolOf(u[r]) = x
  <2>1. u[r].digest = d /\ u[r].active = TRUE
    BY DEF Admit
  <2>2. u[r].serving = s
    BY DEF Admit
  <2>3. x.active = TRUE
    BY Zenon
  <2> QED BY <2>1, <2>2, <2>3, Zenon DEF ToolOf
<1>3. CASE s
  <2>1. /\ A.tools[r] = x
        /\ \A q \in Rev \ {r} : A.tools[q] = IF NameOf[q] = NameOf[r]
                                     THEN [R.tools[q] EXCEPT !.serving = FALSE] ELSE R.tools[q]
        /\ \A n \in Name : A.serving[n] = IF n = NameOf[r] THEN r ELSE R.serving[n]
    BY <1>3, NameOfAssumption DEF AddTool, SetServing, Registry, Tool, Sibling
  <2>2. ASSUME NEW q \in Rev, q # r
        PROVE  /\ A.tools[q].active = u[q].active
               /\ u[q].active => A.tools[q] = ToolOf(u[q])
               /\ A.serving[NameOf[q]] = q <=> u[q].serving
    <3>1. /\ R.tools[q].active = t[q].active
          /\ t[q].active => R.tools[q] = ToolOf(t[q])
          /\ R.serving[NameOf[q]] = q <=> t[q].serving
          /\ R.tools[q] \in Tool /\ t[q] \in Row
      BY DEF Matches, Registry, Table
    <3>2. CASE NameOf[q] # NameOf[r]
      <4>1. u[q] = t[q] /\ A.tools[q] = R.tools[q]
            /\ A.serving[NameOf[q]] = R.serving[NameOf[q]]
        BY <1>1, <2>1, <2>2, <3>2, NameOfAssumption
      <4> QED BY <3>1, <4>1, Zenon
    <3>3. CASE NameOf[q] = NameOf[r]
      <4>1. A.tools[q] = [R.tools[q] EXCEPT !.serving = FALSE]
            /\ A.serving[NameOf[q]] = r
        BY <2>1, <2>2, <3>3, NameOfAssumption
      <4>2. /\ u[q].active = t[q].active /\ u[q].digest = t[q].digest
            /\ u[q].serving = FALSE
        BY <1>1, <1>3, <2>2, <3>1, <3>3 DEF Row
      <4>3. A.tools[q].active = R.tools[q].active
        BY <3>1, <4>1 DEF Tool
      <4>4. ASSUME t[q].active PROVE A.tools[q] = ToolOf(u[q])
        <5>1. A.tools[q] = [ToolOf(t[q]) EXCEPT !.serving = FALSE]
          BY <3>1, <4>1, <4>4
        <5>2. [ToolOf(t[q]) EXCEPT !.serving = FALSE]
                = [digest |-> t[q].digest, active |-> t[q].active, serving |-> FALSE]
          <6>1. /\ ToolOf(t[q]) \in Tool /\ ToolOf(t[q]).digest = t[q].digest
                /\ ToolOf(t[q]).active = t[q].active
            BY ToolOfRow
          <6> QED BY <6>1, FlagCleared
        <5> QED BY <4>2, <5>1, <5>2, Zenon DEF ToolOf
      <4> QED BY <2>2, <3>1, <4>1, <4>2, <4>3, <4>4
    <3> QED BY <3>2, <3>3
  <2>3. A.tools[r].active = u[r].active
    BY <1>2, <2>1
  <2>4. A.serving[NameOf[r]] = r <=> u[r].serving
    BY <1>2, <1>3, <2>1, NameOfAssumption
  <2>5. Matches(A, u)
    <3>1. A.tools[r] = ToolOf(u[r])
      BY <1>2, <2>1
    <3> QED BY <2>2, <2>3, <2>4, <3>1, Zenon DEF Matches
  <2>6. x.active /\ x.digest # None /\ x.serving
    BY <1>3, NoneAssumption
  <2>7. Consistent(A)
    BY <2>6, AddConsistent
  <2> QED BY <2>5, <2>7
<1>4. CASE ~s
  <2>1. ~t[r].serving /\ HasServing(t, r)
    BY <1>4 DEF AdmitServing
  <2>2. PICK p \in Rev : p # r /\ NameOf[p] = NameOf[r] /\ t[p].serving
    BY <2>1 DEF HasServing, Sibling
  <2>3. R.serving[NameOf[r]] = p /\ p # None /\ p # r
    BY <2>2, NoneAssumption DEF Matches
  <2>4. /\ A.tools[r] = x
        /\ \A q \in Rev \ {r} : A.tools[q] = R.tools[q]
        /\ A.serving = R.serving
    BY <1>4, <2>3 DEF AddTool, Registry
  <2>5. \A q \in Rev \ {r} : u[q] = t[q]
    BY <1>1, <1>4
  <2>6. ASSUME NEW q \in Rev, q # r
        PROVE  /\ A.tools[q].active = u[q].active
               /\ u[q].active => A.tools[q] = ToolOf(u[q])
               /\ A.serving[NameOf[q]] = q <=> u[q].serving
    <3>1. A.tools[q] = R.tools[q] /\ u[q] = t[q] /\ A.serving = R.serving
      BY <2>4, <2>5, <2>6
    <3> QED BY <3>1, Zenon DEF Matches
  <2>7. A.tools[r].active = u[r].active /\ (A.serving[NameOf[r]] = r <=> u[r].serving)
    BY <1>2, <1>4, <2>3, <2>4
  <2>8. Matches(A, u)
    <3>1. A.tools[r] = ToolOf(u[r])
      BY <1>2, <2>4
    <3> QED BY <2>6, <2>7, <3>1, Zenon DEF Matches
  <2>9. x.active /\ x.digest # None
    BY NoneAssumption
  <2>10. Consistent(A)
    BY <2>3, <2>9, AddConsistent
  <2> QED BY <2>8, <2>10
<1> QED BY <1>1, <1>3, <1>4

\* Withdrawal in the registry and removal from the table come to the same.
LEMMA WithdrawMatches ==
  ASSUME NEW R \in Registry, NEW t \in Table, NEW r \in Rev, Consistent(R),
         Matches(R, t), NEW A, A = Remove(R, r)
  PROVE  Matches(A, HardDelete(t, r))
<1> DEFINE u == HardDelete(t, r)
<1>1. u[r] = NoRow /\ \A q \in Rev \ {r} : u[q] = t[q]
  BY DEF HardDelete, Table
<1> HIDE DEF u
<1>2. /\ ~A.tools[r].active /\ Consistent(A)
      /\ \A q \in Rev \ {r} : A.tools[q] = R.tools[q]
      /\ A \in Registry
  BY RemoveConsistent, RemoveType
<1>3. ~u[r].active /\ ~u[r].serving /\ u[r].active = FALSE
  BY <1>1 DEF NoRow
<1>4. A.tools[r].active = u[r].active
  BY <1>2, <1>3 DEF Registry, Tool
<1>5. \A q \in Rev : (A.tools[q].active = u[q].active) /\ (u[q].active => A.tools[q] = ToolOf(u[q]))
  BY <1>1, <1>2, <1>3, <1>4 DEF Matches
<1>6. ASSUME NEW q \in Rev
      PROVE  A.serving[NameOf[q]] = q <=> u[q].serving
  <2>1. CASE q = r
    BY <1>2, <1>3, <2>1 DEF Consistent
  <2>2. CASE q # r
    <3>1. (A.tools[q].serving <=> R.tools[q].serving) /\ u[q] = t[q]
      BY <1>1, <1>2, <2>2
    <3> QED BY <1>2, <3>1, Zenon DEF Consistent, Matches
  <2> QED BY <2>1, <2>2
<1> QED BY <1>5, <1>6 DEF Matches, u

\* A row that is inactive, a tombstone and no row are the same to the runtime.
LEMMA InactiveRow ==
  ASSUME NEW R, NEW t \in Table, NEW u \in Table, NEW r \in Rev,
         ~t[r].active, ~t[r].serving, ~u[r].active, ~u[r].serving,
         \A q \in Rev \ {r} : u[q] = t[q], Matches(R, t)
  PROVE  Matches(R, u)
<1>1. u[r].active = t[r].active /\ u[r].serving = t[r].serving
  BY DEF Table, Row
<1> QED BY <1>1 DEF Matches

\* The steps of an apply.
LEMMA HttpSkipApply ==
  ASSUME HttpInv, OneServingRow, HttpSkipInv, BenignFailures, ApplyStep
  PROVE  HttpSkipInv'
<1>0. db \in Table /\ now \in Nat /\ reg \in Registry /\ Listable(db)
  BY HttpTable
<1>1. ASSUME pc = "admit", Finish(FALSE), UNCHANGED <<db, reg, lastHash>>
      PROVE  HttpSkipInv'
  BY <1>1 DEF Finish, HttpSkipInv, Ready, PassOK
<1>2. CASE ApplyConflict \/ ApplyFails
  BY <1>1, <1>2 DEF ApplyConflict, ApplyFails
<1>3. CASE ApplyAdmit
  <2>1. /\ pc = "admit" /\ pc' = "register" /\ op' = op
        /\ db' = Admit(db, arg.rev, arg.digest, arg.serving, now + 1)
        /\ arg' = [arg EXCEPT !.serving = AdmitServing(db, arg.rev, arg.serving)]
        /\ UNCHANGED <<reg, lastHash>>
    BY <1>3 DEF ApplyAdmit, Save, Goto
  <2>2. arg.rev \in Rev /\ arg.digest \in Content /\ arg.serving \in BOOLEAN /\ arg \in Request
    BY <2>1 DEF HttpInv, RequestOK, TypeOK, Request
  <2>3. Matches(reg, db) /\ Consistent(reg) /\ op \notin {"idle", "down", "boot"}
    BY <2>1 DEF HttpSkipInv, Ready
  <2> DEFINE s == AdmitServing(db, arg.rev, arg.serving)
             x == [digest |-> arg.digest, active |-> TRUE, serving |-> s]
             A == AddTool(reg, arg.rev, x, TRUE)
  <2>4. s \in BOOLEAN
    BY <1>0, <2>2 DEF AdmitServing, Table, Row
  <2>5. x \in Tool
    BY <2>2, <2>4 DEF Tool
  <2>6. AdmittedTool' = x /\ arg'.rev = arg.rev
    BY <2>1, <2>2 DEF AdmittedTool, Request
  <2> HIDE DEF s
  <2>7. Consistent(A) /\ Matches(A, db')
    <3> HIDE DEF A
    <3>1. A = AddTool(reg, arg.rev, x, TRUE)
      BY DEF A
    <3>2. s = AdmitServing(db, arg.rev, arg.serving)
      BY DEF s
    <3>3. x = [digest |-> arg.digest, active |-> TRUE, serving |-> s]
      OBVIOUS
    <3> HIDE DEF x
    <3> QED BY <1>0, <2>1, <2>2, <2>3, <2>5, <3>1, <3>2, <3>3, AdmitMatches
  <2>8. A = AddTool(reg', arg'.rev, AdmittedTool', TRUE)
    BY <2>1, <2>6
  <2> HIDE DEF A
  <2>9. Ready'
    BY <2>1, <2>7, <2>8 DEF Ready
  <2> QED BY <2>1, <2>3, <2>9 DEF HttpSkipInv, PassOK
<1>4. CASE ApplyRegister
  <2>1. /\ pc = "register" /\ pc' = "hash" /\ op' = op
        /\ reg' = AddTool(reg, arg.rev, AdmittedTool, TRUE)
        /\ UNCHANGED <<db, lastHash>>
    BY <1>4 DEF ApplyRegister, Install, Goto
  <2>2. Consistent(reg') /\ Matches(reg', db) /\ op \notin {"idle", "down", "boot"}
    BY <2>1 DEF HttpSkipInv, Ready
  <2> QED BY <2>1, <2>2 DEF HttpSkipInv, Ready, PassOK
<1>5. ~ApplyRegisterFails
  BY DEF ApplyRegisterFails, BenignFailures, HttpInv, RequestOK
<1> QED BY <1>2, <1>3, <1>4, <1>5 DEF ApplyStep

\* The steps of a delete.
LEMMA HttpSkipDelete ==
  ASSUME HttpInv, OneServingRow, HttpSkipInv, BenignFailures, DeleteStep
  PROVE  HttpSkipInv'
<1>0. db \in Table /\ now \in Nat /\ reg \in Registry /\ Listable(db)
  BY HttpTable
<1>1. CASE DeleteDeregister
  <2>1. /\ pc = "dereg" /\ pc' = "erase" /\ op' = op /\ reg' = Remove(reg, arg.rev)
        /\ UNCHANGED <<db, lastHash, arg>>
    BY <1>1 DEF DeleteDeregister, Install, Goto
  <2>2. arg.rev \in Rev
    BY <2>1 DEF HttpInv, RequestOK
  <2>3. Matches(reg, db) /\ Consistent(reg) /\ op \notin {"idle", "down", "boot"}
    BY <2>1 DEF HttpSkipInv, Ready
  <2>4. Consistent(reg') /\ Matches(reg', HardDelete(db, arg.rev))
    BY <1>0, <2>1, <2>2, <2>3, RemoveConsistent, WithdrawMatches
  <2> QED BY <2>1, <2>3, <2>4 DEF HttpSkipInv, Ready, PassOK
<1>2. ASSUME pc = "erase"
      PROVE  /\ arg.rev \in Rev /\ HardDelete(db, arg.rev) \in Table
             /\ HardDelete(db, arg.rev)[arg.rev] = NoRow
             /\ ~NoRow.active /\ ~NoRow.serving
             /\ \A q \in Rev \ {arg.rev} : HardDelete(db, arg.rev)[q] = db[q]
             /\ Matches(reg, HardDelete(db, arg.rev)) /\ Consistent(reg)
             /\ op \notin {"idle", "down", "boot"}
  <2>1. arg.rev \in Rev
    BY <1>2 DEF HttpInv, RequestOK
  <2>2. NoRow \in Row
    BY DEF NoRow, Row
  <2> QED BY <1>0, <1>2, <2>1, <2>2 DEF HardDelete, Table, NoRow, HttpSkipInv, Ready
<1>3. CASE DeleteHard
  BY <1>2, <1>3 DEF DeleteHard, Goto, HttpSkipInv, Ready, PassOK
<1>4. CASE DeleteSoft
  <2>1. /\ pc = "erase" /\ pc' = "hash" /\ op' = op
        /\ db' = SoftDelete(db, arg.rev, now + 1)
        /\ UNCHANGED <<reg, lastHash>>
    BY <1>4 DEF DeleteSoft, Save, Goto
  <2>2. /\ ~db'[arg.rev].active /\ ~db'[arg.rev].serving /\ db' \in Table
        /\ \A q \in Rev \ {arg.rev} : db'[q] = db[q]
    <3>1. arg.rev \in Rev /\ now + 1 \in Nat
      BY <1>0, <1>2, <2>1
    <3>2. db' \in Table
      BY <1>0, <2>1, <3>1 DEF SoftDelete, Table, Row
    <3>3. ~db'[arg.rev].active /\ ~db'[arg.rev].serving
      BY <1>0, <2>1, <3>1 DEF SoftDelete, Table, Row
    <3>4. \A q \in Rev \ {arg.rev} : db'[q] = db[q]
      BY <1>0, <2>1, <3>1 DEF SoftDelete, Table
    <3> QED BY <3>2, <3>3, <3>4
  <2>3. Matches(reg, db')
    <3> DEFINE t == HardDelete(db, arg.rev)
    <3>1. /\ t \in Table /\ ~t[arg.rev].active /\ ~t[arg.rev].serving
          /\ \A q \in Rev \ {arg.rev} : db'[q] = t[q]
          /\ Matches(reg, t) /\ arg.rev \in Rev
      BY <1>2, <2>1, <2>2
    <3> HIDE DEF t
    <3> QED BY <2>2, <3>1, InactiveRow
  <2> QED BY <1>2, <2>1, <2>3 DEF HttpSkipInv, Ready, PassOK
<1>5. CASE DeleteFails
  <2>1. /\ pc = "erase" /\ ~Exists(db, arg.rev) /\ Finish(FALSE)
        /\ UNCHANGED <<db, reg, lastHash>>
    BY <1>5 DEF DeleteFails, Fault, BenignFailures
  <2>2. ~db[arg.rev].active /\ ~db[arg.rev].serving
    BY <1>0, <1>2, <2>1, NoneAssumption DEF Listable, OneServing, Exists
  <2>3. Matches(reg, db)
    <3> DEFINE t == HardDelete(db, arg.rev)
    <3>1. /\ t \in Table /\ ~t[arg.rev].active /\ ~t[arg.rev].serving
          /\ \A q \in Rev \ {arg.rev} : db[q] = t[q]
          /\ Matches(reg, t) /\ arg.rev \in Rev
      BY <1>2, <2>1
    <3> HIDE DEF t
    <3> QED BY <1>0, <2>2, <3>1, InactiveRow
  <2> QED BY <1>2, <2>1, <2>3 DEF Finish, HttpSkipInv, Ready, PassOK
<1> QED BY <1>1, <1>3, <1>4, <1>5 DEF DeleteStep

\* A pass over a runtime that matches changes nothing.
LEMMA WithdrawInactive ==
  ASSUME NEW R \in Registry, NEW t \in Table, NEW r \in Rev, Consistent(R), Listable(t),
         Matches(R, t), ~t[r].active, NEW A, A = Remove(R, r)
  PROVE  Matches(A, t)
<1> DEFINE u == HardDelete(t, r)
<1>1. NoRow \in Row /\ ~NoRow.active /\ ~NoRow.serving
  BY DEF NoRow, Row
<1>2. u \in Table /\ u[r] = NoRow /\ \A q \in Rev \ {r} : t[q] = u[q]
  BY <1>1 DEF HardDelete, Table
<1>3. Matches(A, u)
  BY WithdrawMatches
<1>4. ~t[r].serving
  BY DEF Listable, OneServing
<1> HIDE DEF u
<1> QED BY <1>1, <1>2, <1>3, <1>4, InactiveRow

\* The steps of a pass.
LEMMA HttpSkipPass ==
  ASSUME HttpInv, OneServingRow, HttpSkipInv, BenignFailures, ReconcileStep
  PROVE  HttpSkipInv'
<1>0. db \in Table /\ reg \in Registry /\ Listable(db) /\ todo \in SUBSET Rev
  BY HttpTable
<1>1. ASSUME Ready, pc \in {"hash", "list", "sync", "sweep"}, Finish(TRUE) \/ Finish(FALSE),
             UNCHANGED <<db, reg>>
      PROVE  HttpSkipInv'
  BY <1>1 DEF Finish, HttpSkipInv, Ready, PassOK
<1>2. CASE ReconcileSkip
  <2>1. pc = "hash" /\ db = lastHash /\ Finish(TRUE) /\ UNCHANGED <<db, reg>>
    BY <1>2 DEF ReconcileSkip
  <2>2. Ready
    BY <1>0, <2>1, HashAssumption DEF HttpSkipInv
  <2> QED BY <1>1, <2>1, <2>2
<1>3. CASE ReconcileReadFails
  <2>1. pc \in {"hash", "list"} /\ Finish(FALSE) /\ UNCHANGED <<db, reg>>
    BY <1>3 DEF ReconcileReadFails
  <2>2. Ready
    BY <1>3 DEF ReconcileReadFails, Fault, BenignFailures, HttpSkipInv
  <2> QED BY <1>1, <2>1, <2>2
<1>4. CASE ReconcileHash
  BY <1>4 DEF ReconcileHash, Goto, HttpSkipInv, Ready, PassOK
<1>5. CASE ReconcileList
  <2>1. Visited(reg, desired, todo)' /\ todo' = DesiredActive(desired')
    BY <1>5 DEF ReconcileList, Visited
  <2> QED BY <1>5, <2>1 DEF ReconcileList, Goto, HttpSkipInv, Ready, PassOK
<1>6. ASSUME NEW r \in Rev, SyncKeep(r)
      PROVE  HttpSkipInv'
  <2>1. Visited(reg, desired, todo)' /\ todo' \subseteq DesiredActive(desired')
    BY <1>6 DEF SyncKeep, OutOfDate, HttpSkipInv, PassOK, Visited
  <2> QED BY <1>6, <2>1 DEF SyncKeep, HttpSkipInv, Ready, PassOK
<1>7. ASSUME NEW r \in Rev, SyncRegister(r)
      PROVE  HttpSkipInv'
  <2>1. /\ pc = "sync" /\ todo' = todo \ {r} /\ r \in todo /\ OutOfDate(r)
        /\ reg' = AddTool(reg, r, ToolOf(desired[r]), FALSE)
        /\ UNCHANGED <<db, lastHash, op, pc, desired>>
    BY <1>7 DEF SyncRegister, Install, NextRow
  <2>2. /\ Consistent(reg) /\ Visited(reg, desired, todo) /\ desired = db
        /\ todo \subseteq DesiredActive(desired) /\ op \notin {"idle", "down"}
    BY <2>1 DEF HttpSkipInv, PassOK, HttpInv, StepOK
  <2>3. Consistent(reg)' /\ Visited(reg, desired, todo)'
    BY <1>0, <2>1, <2>2, RegisterRow
  <2>4. ~Ready
    BY <2>1, <2>2 DEF Ready, Matches, OutOfDate, DesiredActive
  <2> QED BY <2>1, <2>2, <2>3, <2>4 DEF HttpSkipInv, PassOK
<1>8. ASSUME NEW r \in Rev PROVE ~SyncFails(r)
  BY DEF SyncFails, BenignFailures
<1>9. CASE SweepStart
  <2>1. /\ pc = "sync" /\ pc' = "sweep" /\ todo = {} /\ op' = op
        /\ todo' = ListActive(reg) \ DesiredActive(desired)
        /\ UNCHANGED <<db, reg, lastHash, desired>>
    BY <1>9 DEF SweepStart, Goto
  <2>2. Visited(reg, desired, {})
    BY <2>1 DEF HttpSkipInv, PassOK
  <2>3. PassOK'
    BY <2>1, <2>2 DEF PassOK, Swept, Visited
  <2> QED BY <2>1, <2>3 DEF HttpSkipInv, Ready
<1>10. ASSUME NEW r \in Rev, SweepDeregister(r)
       PROVE  HttpSkipInv'
  <2>1. /\ pc = "sweep" /\ todo' = todo \ {r} /\ r \in todo
        /\ reg' = Remove(reg, r)
        /\ UNCHANGED <<db, lastHash, op, pc, desired>>
    BY <1>10 DEF SweepDeregister, Install
  <2>2. /\ Consistent(reg) /\ Visited(reg, desired, {}) /\ Swept(reg, desired, todo)
        /\ todo \cap DesiredActive(desired) = {} /\ desired = db
        /\ op \notin {"idle", "down"}
    BY <2>1 DEF HttpSkipInv, PassOK, HttpInv, StepOK
  <2>3. r \notin DesiredActive(desired)
    BY <2>1, <2>2
  <2>4. Consistent(reg') /\ Visited(reg', desired, {}) /\ Swept(reg', desired, todo \ {r})
    BY <1>0, <2>1, <2>2, <2>3, WithdrawStale
  <2>5. PassOK'
    BY <2>1, <2>2, <2>4 DEF PassOK
  <2>6. Matches(reg, db) => Matches(reg', db)
    BY <1>0, <2>1, <2>2, <2>3, WithdrawInactive DEF DesiredActive
  <2> QED BY <2>1, <2>2, <2>4, <2>5, <2>6 DEF HttpSkipInv, Ready
<1>11. CASE ReconcileDone
  <2>1. pc = "sweep" /\ todo = {} /\ Finish(TRUE) /\ UNCHANGED <<db, reg>>
    BY <1>11 DEF ReconcileDone
  <2>2. Consistent(reg) /\ Visited(reg, db, {}) /\ Swept(reg, db, {})
    BY <2>1 DEF HttpSkipInv, PassOK, HttpInv, StepOK
  <2>3. Matches(reg, db)
    BY <1>0, <2>2, PassEnds
  <2> QED BY <1>1, <2>1, <2>3 DEF Ready
<1> QED BY <1>2, <1>3, <1>4, <1>5, <1>6, <1>7, <1>8, <1>9, <1>10, <1>11
        DEF ReconcileStep

\* The induction step.
LEMMA HttpSkipStep ==
  ASSUME BenignFailures, HttpInv, OneServingRow, HttpSkipInv, [HttpNext]_vars
  PROVE  HttpSkipInv'
<1>1. CASE \/ \E r \in Rev, d \in Content, want \in BOOLEAN : ApplyStart(r, d, want)
           \/ \E r \in Rev, hard \in BOOLEAN : DeleteStart(r, hard)
           \/ Tick
  <2>1. /\ UNCHANGED <<db, reg, lastHash>> /\ op = "idle"
        /\ \/ pc' = "admit" /\ op' = "apply"
           \/ pc' = "dereg" /\ op' = "delete"
           \/ pc' = "hash" /\ op' = "tick"
    BY <1>1 DEF ApplyStart, DeleteStart, Tick
  <2> QED BY <2>1 DEF HttpSkipInv, Ready, PassOK
<1>2. ASSUME UNCHANGED <<db, reg, lastHash, ctlVars>>
      PROVE  HttpSkipInv'
  BY <1>2 DEF ctlVars, HttpSkipInv, Ready, AdmittedTool, PassOK
<1>3. ASSUME NEW c \in Call, CallStep(c)
      PROVE  HttpSkipInv'
  BY <1>2, <1>3 DEF CallStep, CallStart, CallEndsEarly, CallCommit, CallDenied, CallReturn
<1>4. CASE UNCHANGED vars
  BY <1>2, <1>4 DEF vars
<1>5. CASE Crash
  BY <1>5, NewConsistent DEF Crash, Fault, HttpSkipInv, PassOK
<1>6. CASE Restart
  BY <1>6 DEF Restart, HttpSkipInv, Ready, PassOK
<1> QED BY <1>1, <1>3, <1>4, <1>5, <1>6, HttpSkipApply, HttpSkipDelete, HttpSkipPass
        DEF HttpNext, RuntimeStep

\* Skipping a pass is safe in an HTTP server that accepts every stored version,
\* whatever requests are refused and whether its passes fail or the process
\* dies (reconcileLocked's early return).  With a version the registry refuses,
\* or with a crash and passes that fail after it, it is not: stale_serving.cfg;
\* with a delete that does not erase neither: failed_delete.cfg.
THEOREM HttpSkipSafe == ASSUME BenignFailures PROVE HttpSpec => []SkipIsSafe
<1>1. HttpInv /\ OneServingRow /\ HttpSkipInv /\ [HttpNext]_vars => HttpSkipInv'
  BY HttpSkipStep
<1>2. HttpSkipInv => SkipIsSafe
  BY DEF HttpSkipInv, Ready, SkipIsSafe, Matches, Aligned
<1> QED BY <1>1, <1>2, HttpSkipInit, InvHolds, ServingRowUnique, PTL DEF HttpSpec
=============================================================================
