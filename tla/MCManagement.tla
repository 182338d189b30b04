---------------------------- MODULE MCManagement ----------------------------
(***************************************************************************)
(* TLC instances of ManagementSession.                                     *)
(***************************************************************************)
EXTENDS ManagementSession, TLC

CONSTANTS c1, c2

SelectionOf(server, mcpServer, token) ==
  [server |-> server, mcpServer |-> mcpServer, apiToken |-> token]

\* Sessions with one deployment, with two, with no control plane and no
\* token, and with addresses the commands refuse.
OneDeployment  == SelectionOf("deploymentA", "deploymentA", "tokenA")
TwoDeployments == SelectionOf("deploymentA", "deploymentB", "tokenA")
Unfinished     == SelectionOf("unusable", "", "")
Wrong          == SelectionOf("noProtocol", "unusable", "tokenA")
Numeric        == SelectionOf("numericHost", "numericHost", "tokenA")

MCSelections == {OneDeployment, TwoDeployments, Unfinished, Wrong, Numeric}

\* Two concurrent calls on one deployment, the second of which stages a file;
\* elsewhere one call of any tool.
MCRequests ==
  [s \in MCSelections |->
     IF s = OneDeployment
     THEN (c1 :> {"api_set_credential_ref"}) @@ (c2 :> {"plugin_apply"})
     ELSE (c1 :> ToolNames) @@ (c2 :> {})]

\* One call that reads.
ReadsOnly == [s \in {OneDeployment} |-> (c1 :> {"tool_get", "log_stats"})]
OneSelection == {OneDeployment}

\* The editor moves the context elsewhere (and fills in what was empty),
\* removes the context or breaks the file.
MCEdits == {SelectionOf("deploymentB", "deploymentB", "tokenB"), NotConfigured, Broken}

MCApprovals == {{"registry"}, WriteGroups}
=============================================================================
