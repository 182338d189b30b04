---------------------------- MODULE MCPluginCache ----------------------------
(***************************************************************************)
(* TLC instances of PluginCache.                                           *)
(***************************************************************************)
EXTENDS PluginCache

CONSTANTS t1, tx, n1, nx, p1, sEnv, sFile, b1

\* A tool revision, and one of another tool whose version is not a semantic
\* version.
OneTool   == {t1}
TwoTools  == {t1, tx}
OneNameOf == [t \in OneTool |-> n1]
TwoNameOf == [t \in TwoTools |-> IF t = t1 THEN n1 ELSE nx]

\* A database in which the tool, and the plugin, were admitted earlier.
OneSeed ==
  [EmptyTables EXCEPT
     !.plugins[p1] = [spec |-> sEnv, active |-> TRUE, at |-> 1],
     !.tools[t1]   = [active |-> TRUE, at |-> 1]]
=============================================================================
