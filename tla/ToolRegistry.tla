---------------------------- MODULE ToolRegistry ----------------------------
(***************************************************************************)
(* internal/mcp/registry.go: the in-memory registry of tool revisions, as  *)
(* operators on a registry value                                           *)
(*                                                                         *)
(*    R = [tools |-> [Rev -> Tool], serving |-> [Name -> Rev or None]]     *)
(*                                                                         *)
(* A revision r \in Rev stands for one (name, version) pair; NameOf[r] is  *)
(* its name.  Valid is the set of revisions whose version string           *)
(* semver.NewVersion accepts.  A revision the map has never held is        *)
(* NoTool.  The digest of a tool is the canonical digest of its executable *)
(* content; name and version are part of that content, so digests are only *)
(* ever compared between tools of one revision.                            *)
(***************************************************************************)
EXTENDS Naturals

CONSTANTS Name,     \* tool names
          Rev,      \* revisions: (name, version) pairs
          NameOf,   \* the name of each revision
          Valid,    \* revisions whose version is a semantic version
          Prec,     \* semantic-version precedence of each revision
          Content,  \* executable contents, identified with their digests
          None      \* the empty string / absent map entry

ASSUME NameOfAssumption  == NameOf \in [Rev -> Name]
ASSUME ValidAssumption   == Valid \subseteq Rev
ASSUME PrecAssumption    == Prec \in [Rev -> Nat]
ASSUME NoneAssumption    == None \notin Rev \cup Content

Tool   == [digest : Content \cup {None}, active : BOOLEAN, serving : BOOLEAN]
NoTool == [digest |-> None, active |-> FALSE, serving |-> FALSE]

Registry == [tools : [Rev -> Tool], serving : [Name -> Rev \cup {None}]]

NewToolRegistry == [tools   |-> [r \in Rev |-> NoTool],
                    serving |-> [n \in Name |-> None]]

Sibling(q, r) == NameOf[q] = NameOf[r]

(***************************************************************************)
(* SetServing moves the pointer and rewrites the flag of every sibling.    *)
(* The callers below only select an active revision, so its error returns  *)
(* are unreachable.                                                        *)
(***************************************************************************)
SetServing(R, r) ==
  [tools   |-> [q \in Rev |-> IF Sibling(q, r)
                              THEN [R.tools[q] EXCEPT !.serving = (q = r)]
                              ELSE R.tools[q]],
   serving |-> [R.serving EXCEPT ![NameOf[r]] = r]]

Unselect(R, r) == [R EXCEPT !.serving[NameOf[r]] = None]

\* Mutation of AddTool: a revision that is no longer serving keeps the pointer.
AddToolKeepsPointer(R, r, t, allowDefault) ==
  LET P == [R EXCEPT !.tools[r] = t]
  IN  IF t.serving \/ (allowDefault /\ R.serving[NameOf[r]] = None)
      THEN SetServing(P, r) ELSE P

(***************************************************************************)
(* add: with allowDefault the first registration of a name becomes its     *)
(* serving revision; without it (persisted state) a revision that is no    *)
(* longer serving gives up a pointer it still holds.  The semver check is  *)
(* the guard r \in Valid at the call sites.                                *)
(***************************************************************************)
AddTool(R, r, t, allowDefault) ==
  LET P == [R EXCEPT !.tools[r] = t]
  IN  IF t.serving \/ (allowDefault /\ R.serving[NameOf[r]] = None)
      THEN SetServing(P, r)
      ELSE IF ~allowDefault /\ R.serving[NameOf[r]] = r
           THEN Unselect(P, r)
           ELSE P

\* A removed revision stays in the map, inactive, with its digest.
Remove(R, r) ==
  IF R.tools[r].digest = None
  THEN R
  ELSE LET P == [R EXCEPT !.tools[r] = [digest |-> R.tools[r].digest,
                                        active |-> FALSE, serving |-> FALSE]]
       IN  IF R.serving[NameOf[r]] = r THEN Unselect(P, r) ELSE P

ListActive(R) == {r \in Rev : R.tools[r].active}

-----------------------------------------------------------------------------
(***************************************************************************)
(* Resolution.  Each operator is the set of revisions a request resolves   *)
(* to: a singleton, or empty where the code returns an error.              *)
(***************************************************************************)
ResolveExact(R, r) == {r} \cap ListActive(R)

ResolveServing(R, n) == {R.serving[n]} \cap ListActive(R)

\* The digest names one revision; a mismatch or an inactive entry is an error.
ResolveDigest(R, r, d) == {q \in ResolveExact(R, r) : R.tools[q].digest = d}

\* A version constraint: the active match of the highest precedence.
ResolveConstraint(R, match) ==
  {r \in match \cap ListActive(R) :
     \A q \in match \cap ListActive(R) : Prec[q] <= Prec[r]}

-----------------------------------------------------------------------------
(***************************************************************************)
(* The descriptors published in the MCP SDK: one per exact revision and    *)
(* the unqualified alias of a name.                                        *)
(***************************************************************************)
NoAlias == [rev |-> None, tool |-> NoTool]
Alias   == [rev : Rev \cup {None}, tool : Tool]

Published == [exact : [Rev -> Tool], alias : [Name -> Alias]]

NothingPublished == [exact |-> [r \in Rev |-> NoTool],
                     alias |-> [n \in Name |-> NoAlias]]

\* The alias a registry value calls for: its serving revision, if available.
ServingAlias(R, n) ==
  IF R.serving[n] # None /\ R.tools[R.serving[n]].active
  THEN [rev |-> R.serving[n], tool |-> R.tools[R.serving[n]]]
  ELSE NoAlias

\* Mutation of Refresh: the alias of a name that lost its serving revision stays.
RefreshKeepsAlias(P, R, n) ==
  [exact |-> [q \in Rev |-> IF NameOf[q] = n /\ R.tools[q].active
                            THEN R.tools[q] ELSE P.exact[q]],
   alias |-> IF ServingAlias(R, n) = NoAlias
             THEN P.alias ELSE [P.alias EXCEPT ![n] = ServingAlias(R, n)]]

(***************************************************************************)
(* refreshMCPToolsLocked republishes every active revision of the name and *)
(* adds or deletes its alias; a withdrawn exact descriptor stays behind.   *)
(***************************************************************************)
Refresh(P, R, n) ==
  [exact |-> [q \in Rev |-> IF NameOf[q] = n /\ R.tools[q].active
                            THEN R.tools[q] ELSE P.exact[q]],
   alias |-> [P.alias EXCEPT ![n] = ServingAlias(R, n)]]

(***************************************************************************)
(* filterToolsList keeps the descriptors that still resolve.  The SDK      *)
(* applies it to tools/call and to tools/list, so what it keeps can be     *)
(* called.                                                                 *)
(***************************************************************************)
CallableExact(P, R) == {r \in Rev : P.exact[r] # NoTool /\ ResolveExact(R, r) # {}}
CallableAlias(P, R) == {n \in Name : P.alias[n] # NoAlias /\ ResolveServing(R, n) # {}}

(***************************************************************************)
(* A tools/list answer.  hideRevisionAliases removes the exact names from  *)
(* the answer only, unless MCP_ADVERTISE_REVISION_ALIASES is set.          *)
(***************************************************************************)
ListTools(P, R, advertise) ==
  [exact |-> IF advertise THEN CallableExact(P, R) ELSE {},
   alias |-> CallableAlias(P, R)]

(***************************************************************************)
(* Every active revision can be called under its exact name, which carries *)
(* its current descriptor, whether or not a listing shows that name; the   *)
(* unqualified names are the serving pointers, and every listing shows     *)
(* exactly those that resolve.                                             *)
(***************************************************************************)
Describes(P, R) ==
  /\ CallableExact(P, R) = ListActive(R)
  /\ \A r \in CallableExact(P, R) : P.exact[r] = R.tools[r]
  /\ \A n \in Name : P.alias[n] = ServingAlias(R, n)
  /\ \A advertise \in BOOLEAN :
       LET L == ListTools(P, R, advertise)
       IN  /\ L.alias = {n \in Name : ResolveServing(R, n) # {}}
           /\ L.exact = IF advertise THEN ListActive(R) ELSE {}
=============================================================================
