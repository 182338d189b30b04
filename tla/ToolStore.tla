------------------------------ MODULE ToolStore ------------------------------
(***************************************************************************)
(* internal/mcp/store.go: the tools table of the SQLite store, as          *)
(* operators on a table value db \in [Rev -> Row].  A missing row is       *)
(* NoRow.  `at' is the updated_at column: every save stamps the rows it    *)
(* writes, so two saves never leave the same value behind (timestamps have *)
(* millisecond resolution; two saves of one row in the same millisecond    *)
(* are not modelled).  GetStateHash covers every column of every row, so   *)
(* the hash of a table is the table value itself.                          *)
(***************************************************************************)
EXTENDS ToolRegistry

Row   == [digest : Content \cup {None}, active : BOOLEAN, serving : BOOLEAN,
          at : Nat]
NoRow == [digest |-> None, active |-> FALSE, serving |-> FALSE, at |-> 0]

Table      == [Rev -> Row]
EmptyTable == [r \in Rev |-> NoRow]

\* No table has the empty string for its hash.
ASSUME HashAssumption == None \notin Table

Exists(db, r) == db[r].digest # None

\* Mutation of ToolOf: the storage bookkeeping leaks into the runtime value.
ToolOfWholeRow(row) == row

\* What the registry keeps of a row.
ToolOf(row) == [digest |-> row.digest, active |-> row.active,
                serving |-> row.serving]

\* Mutation of AdmissionConflict: tombstones do not protect their content.
ConflictOnlyIfActive(db, r, d) == db[r].active /\ db[r].digest # d

\* The same name and version was admitted before with different content.
AdmissionConflict(db, r, d) == Exists(db, r) /\ db[r].digest # d

HasServing(db, r) ==
  \E q \in Rev : q # r /\ Sibling(q, r) /\ db[q].active /\ db[q].serving

(***************************************************************************)
(* The serving flag Admit stores: asked for, kept from the existing row,   *)
(* or given because no other active revision of the name is serving.       *)
(***************************************************************************)
AdmitServing(db, r, want) == want \/ db[r].serving \/ ~HasServing(db, r)

\* Mutation of Admit: serving siblings are not demoted.
AdmitWithoutDemotion(db, r, d, want, at) ==
  [db EXCEPT ![r] = [digest |-> d, active |-> TRUE,
                     serving |-> AdmitServing(db, r, want), at |-> at]]

(***************************************************************************)
(* The committed effect of Admit's transaction: the row, and the demotion  *)
(* of every serving sibling when the row is serving.                       *)
(***************************************************************************)
Admit(db, r, d, want, at) ==
  [q \in Rev |->
     IF q = r
     THEN [digest |-> d, active |-> TRUE,
           serving |-> AdmitServing(db, r, want), at |-> at]
     ELSE IF Sibling(q, r) /\ AdmitServing(db, r, want) /\ db[q].serving
          THEN [db[q] EXCEPT !.serving = FALSE, !.at = at]
          ELSE db[q]]

\* Delete: a tombstone that keeps the admitted content.
SoftDelete(db, r, at) ==
  [db EXCEPT ![r].active = FALSE, ![r].serving = FALSE, ![r].at = at]

HardDelete(db, r) == [db EXCEPT ![r] = NoRow]

DesiredActive(db) == {r \in Rev : db[r].active}
=============================================================================
