------------------------------ MODULE Bridgectl ------------------------------
(***************************************************************************)
(* The bridgectl command line, as the management session runs it: one      *)
(* process per command, which loads the configuration, checks that it is   *)
(* still the session's selection, and then runs one command.               *)
(*                                                                         *)
(* A command is a record of what can happen on its way, in the order of    *)
(* its code: the place it acts on, the check of that place, the failures   *)
(* before it acts, the failures after it acted.  A failure is the process  *)
(* exit code and the code of the error document; a plain error has no      *)
(* document.  The configured addresses are known by what the address       *)
(* checks tell apart.                                                      *)
(***************************************************************************)
EXTENDS Naturals

-----------------------------------------------------------------------------
(* Configuration *)

\* A configured address: absent, without a protocol and read as one of its own
\* (host:port) or as nothing (127.0.0.1:port, which does not parse), with a
\* protocol but not parsable (or, for a control plane, with a path of its own),
\* or the root of one of two deployments.
Roots      == {"deploymentA", "deploymentB"}
Protocolless == {"noProtocol", "numericHost"}
Addresses  == {"", "unusable"} \cup Protocolless \cup Roots
Tokens    == {"", "tokenA", "tokenB"}

\* Context, and Snapshot without the name: the settings of one saved context.
Settings == [server : Addresses, mcpServer : Addresses, apiToken : Tokens]

\* A configuration file without the context, and one that does not parse.
NotConfigured == [server |-> "absent", mcpServer |-> "absent", apiToken |-> "absent"]
Broken        == [server |-> "broken", mcpServer |-> "broken", apiToken |-> "broken"]

\* applyEnvOverrides: a variable that is set to the empty string overrides
\* nothing.
Override(value, fileValue) == IF value # "" THEN value ELSE fileValue

\* The settings a child loads: the file's context of that name, overridden by
\* what the session pinned in the child's environment.
applyEnvOverrides(pinned, settings) ==
  [server    |-> Override(pinned.server, settings.server),
   mcpServer |-> Override(pinned.mcpServer, settings.mcpServer),
   apiToken  |-> Override(pinned.apiToken, settings.apiToken)]

-----------------------------------------------------------------------------
(* Failures *)

CodeSuccess     == 0
CodeGeneralErr  == 1
CodeBadArgs     == 2
CodeNotFound    == 3
CodeAuthFail    == 4
CodeConflict    == 5
CodeTimeout     == 6
CodePrecondFail == 7

NewError(code, errCode) == [exit |-> code, error |-> errCode]

Success        == NewError(CodeSuccess, "")
General        == NewError(CodeGeneralErr, "")
Panic          == NewError(CodeBadArgs, "")   \* the Go runtime exits with 2
Unreachable    == NewError(CodeTimeout, "UPSTREAM_UNREACHABLE")
ContextChanged == NewError(CodePrecondFail, "MCP_CONTEXT_CHANGED")
Misconfigured  == NewError(CodePrecondFail, "MISCONFIGURED_CONTEXT")
InvalidURL     == NewError(CodeBadArgs, "INVALID_URL")
InvalidRoot    == NewError(CodeBadArgs, "CONTROL_PLANE_URL_INVALID")
Missing        == NewError(CodeNotFound, "RESOURCE_NOT_FOUND")
APIMissing     == NewError(CodeNotFound, "API_NOT_FOUND")
LegacyRegistry == NewError(CodePrecondFail, "LEGACY_REGISTRY")
Conflict       == NewError(CodeConflict, "REGISTRY_CONFLICT")

\* The failures a deployment answers with: an error document and its status,
\* or, from a proxy, a status alone (fallbackRemoteError).
RemoteFailures ==
  {[error |-> r[1], status |-> r[2]] : r \in
     {<<"VALIDATION_FAILED", 422>>, <<"AUTHENTICATION_FAILED", 401>>,
      <<"AUTHORIZATION_DENIED", 403>>, <<"RESOURCE_NOT_FOUND", 404>>,
      <<"REGISTRY_CONFLICT", 409>>, <<"HEALTH_CHECK_FAILED", 503>>,
      <<"RECONCILIATION_FAILED", 500>>, <<"RATE_LIMITED", 429>>,
      <<"REMOTE_ERROR", 400>>, <<"REMOTE_ERROR", 404>>,
      <<"REMOTE_ERROR", 502>>, <<"REMOTE_ERROR", 500>>}}

\* mapRemoteError: the exit code of an answer, by its code and else its status.
ExitOfRemote(r) ==
  CASE r.error \in {"CONTEXT_NOT_FOUND", "RESOURCE_NOT_FOUND"} -> CodeNotFound
    [] r.error = "REGISTRY_CONFLICT" -> CodeConflict
    [] r.error \in {"CONTROL_PLANE_URL_INVALID", "VALIDATION_FAILED",
                    "INSECURE_TRANSPORT", "LEGACY_REGISTRY"} -> CodeBadArgs
    [] r.error \in {"AUTHENTICATION_FAILED", "AUTHORIZATION_DENIED"} -> CodeAuthFail
    [] r.error \in {"UPSTREAM_UNREACHABLE", "HEALTH_CHECK_FAILED"} -> CodeTimeout
    [] r.error = "RECONCILIATION_FAILED" -> CodePrecondFail
    [] OTHER -> CASE r.status \in {401, 403} -> CodeAuthFail
                  [] r.status = 404 -> CodeNotFound
                  [] r.status = 409 -> CodeConflict
                  [] r.status \in {408, 502, 503, 504} -> CodeTimeout
                  [] r.status \in {400, 422} -> CodeBadArgs
                  [] OTHER -> CodeGeneralErr

\* Mutation of mapRemoteError: what is already gone counts as done.
mapRemoteErrorIdempotent(r) ==
  IF r.error = "RESOURCE_NOT_FOUND" THEN Success ELSE NewError(ExitOfRemote(r), r.error)

mapRemoteError(r) == NewError(ExitOfRemote(r), r.error)

-----------------------------------------------------------------------------
(* The check of the place a command acts on *)

ValidateServerURL(address) ==
  CASE address = "" -> Misconfigured
    [] address \in Protocolless -> InvalidURL
    [] OTHER -> Success

controlPlaneRoot(address) ==
  IF ValidateServerURL(address) # Success THEN ValidateServerURL(address)
  ELSE IF address = "unusable" THEN InvalidRoot ELSE Success

\* doBridgeRequest: no request is made of an unparsable address, and one of an
\* address without a host cannot be sent.
doBridgeRequest(address) ==
  CASE address \in {"unusable", "numericHost"} -> General
    [] address \in {"", "noProtocol"} -> Unreachable
    [] OTHER -> Success

\* newBridgeRequest after ValidateServerURL: token and log commands.
validatedRequest(address) ==
  IF ValidateServerURL(address) # Success THEN ValidateServerURL(address)
  ELSE doBridgeRequest(address)

\* cacheFlushCmd uses the parsed address without looking at the parse error.
flushAddress(address) ==
  IF address \in {"unusable", "numericHost"} THEN Panic ELSE doBridgeRequest(address)

VetAddress(cmd, settings) ==
  CASE cmd.vet = "controlPlaneRoot" -> controlPlaneRoot(settings.mcpServer)
    [] cmd.vet = "validatedRequest" -> validatedRequest(settings.server)
    [] cmd.vet = "doBridgeRequest"  -> doBridgeRequest(settings.server)
    [] cmd.vet = "flushAddress"     -> flushAddress(settings.server)
    [] OTHER -> Success

AddressOf(cmd, settings) ==
  CASE cmd.vet = "controlPlaneRoot" -> settings.mcpServer
    [] cmd.vet \in {"validatedRequest", "doBridgeRequest", "flushAddress"} ->
         settings.server
    [] OTHER -> "local"

-----------------------------------------------------------------------------
(* Commands: `before' are the failures before the command acts, `after'    *)
(* those once it acted or was answered, `json' whether the error document  *)
(* is written as JSON: a command with an --output flag of its own shadows  *)
(* the global one, which then keeps its default and errors go out as text. *)

Remote(vet, before, after, json) ==
  [place |-> "remote", vet |-> vet, before |-> before, after |-> after, json |-> json]
Local(before, after) ==
  [place |-> "local", vet |-> "", before |-> before, after |-> after, json |-> TRUE]

\* Registry access: NewRegistryForContext and the checks of withWrite.
RegistryFailures == {General, LegacyRegistry}

contextListCmd == Local({}, {})
contextSetCmd  == Local({General}, {})
apiListCmd     == Local(RegistryFailures, {})
apiRegisterCmd == Local(RegistryFailures \cup {Conflict}, {General})
apiSetCredentialRefCmd == Local(RegistryFailures, {})
apiTestCmd     == Remote("controlPlaneRoot", RegistryFailures \cup {APIMissing},
                         {General}, TRUE)
toolApplyCmd    == Remote("controlPlaneRoot", {General}, {}, TRUE)
toolGetCmd      == Remote("controlPlaneRoot", {}, {General, Missing}, FALSE)
toolValidateCmd == Local({General}, {})
toolGenerateCmd == Local(RegistryFailures \cup {APIMissing}, {})
toolDeleteCmd   == Remote("controlPlaneRoot", {}, {}, TRUE)
pluginApplyCmd    == Remote("controlPlaneRoot", {General}, {}, TRUE)
pluginGetCmd      == Remote("controlPlaneRoot", {General}, {General, Missing}, FALSE)
pluginValidateCmd == Local({General}, {})
pluginDeleteCmd   == Remote("controlPlaneRoot", {General}, {}, TRUE)
pluginBindingApplyCmd    == Remote("controlPlaneRoot", {General}, {}, TRUE)
pluginBindingGetCmd      == Remote("controlPlaneRoot", {}, {General, Missing}, FALSE)
pluginBindingValidateCmd == Local({General}, {})
pluginBindingDeleteCmd   == Remote("controlPlaneRoot", {}, {}, TRUE)
tokenListCmd   == Remote("validatedRequest", {}, {General}, TRUE)
tokenRevokeCmd == Remote("validatedRequest", {}, {}, TRUE)
cacheStatsCmd  == Remote("doBridgeRequest", {}, {General}, TRUE)
cacheFlushCmd  == Remote("flushAddress", {}, {General}, TRUE)
logStatsCmd    == Remote("validatedRequest", {}, {General}, TRUE)

\* The errors whose message quotes a name that another process chose.
Quoting == {Misconfigured, APIMissing}

\* handleError, and childErrorCode, which reads it: the outcomes the parent may
\* see of a failure.  Without the JSON document, and for a plain error, it is
\* only the exit code; and a document is looked for behind the last brace of
\* the output, so that one in a quoted name hides it.
handleError(cmd, failure) ==
  (IF cmd.json THEN {failure} ELSE {})
    \cup (IF cmd.json /\ failure \notin Quoting THEN {} ELSE {NewError(failure.exit, "")})
=============================================================================
