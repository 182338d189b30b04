------------------------------ MODULE Catalogue ------------------------------
(***************************************************************************)
(* The fixed catalogue of the bridgectl management session: for each tool  *)
(* the write group it needs, the checks of its arguments in the order the  *)
(* code makes them, the command it runs and what it reads from the         *)
(* command's output; and the classification of everything that can happen  *)
(* to a call.                                                              *)
(*                                                                         *)
(* The arguments of a call are known by the checks they would not pass.    *)
(* An output is known by the parts a projection insists on that it lacks.  *)
(***************************************************************************)
EXTENDS Bridgectl, Sequences

-----------------------------------------------------------------------------
(* Result codes *)

Succeeded              == "success"
CodeInvalidArguments  == "invalid_arguments"
CodePermissionDenied  == "permission_denied"
CodeConfirmationMismatch == "confirmation_mismatch"
CodeBusy              == "busy"
CodeContextChanged    == "context_changed"
CodeMissing           == "not_found"
CodeAuthentication    == "authentication_required"
CodeAuthorizationDenied == "authorization_denied"
CodeExists            == "conflict"
CodeUpstreamUnavailable == "upstream_unavailable"
CodeInvalidChildOutput == "invalid_child_output"
CodeOutputLimit       == "output_limit"
CodeCancelled         == "cancelled"
CodeDeadline          == "timeout"
CodeOutcomeUnknown    == "outcome_unknown"
CodeProbeFailed       == "probe_failed"
CodeInternal          == "internal_error"

ResultCodes ==
  {Succeeded, CodeInvalidArguments, CodePermissionDenied, CodeConfirmationMismatch,
   CodeBusy, CodeContextChanged, CodeMissing, CodeAuthentication,
   CodeAuthorizationDenied, CodeExists, CodeUpstreamUnavailable,
   CodeInvalidChildOutput, CodeOutputLimit, CodeCancelled, CodeDeadline,
   CodeOutcomeUnknown, CodeProbeFailed, CodeInternal}

-----------------------------------------------------------------------------
(* Argument checks, each a sequence in the order of the code *)

\* requiredString and optionalString, with identifierProblem: one check for
\* the presence, type, length, leading dash and control characters.
rejectUnknown == <<"unknown">>

requireTarget == <<"confirmContext", "pinnedContext", "confirmTarget", "canonicalTarget">>

versionedIdentifier == <<"name", "version", "versionWithoutName", "atSign">>

endpointProblem ==
  <<"endpointParses", "endpointScheme", "endpointHost", "endpointUserinfo", "endpointQuery">>

\* hasFieldAlias along the path of the endpoint, then the endpoint.
manifestEndpointProblem(kind) ==
  CASE kind = "MCPTool" -> <<"specAlias", "executionAlias", "endpointAlias">> \o endpointProblem
    [] kind = "Plugin"  -> <<"specAlias", "endpointAlias">> \o endpointProblem
    [] kind = "PluginBinding" -> <<"specAlias">>

validateManifest(kind) ==
  <<"manifest", "manifestObject", "kind", "metadataName", "metadataIdentifier",
    "credentialValue">>
    \o manifestEndpointProblem(kind) \o <<"encoding", "size">>

\* stageManifest is the last step of an invocation that has a file.
stageManifest == <<"stage">>

noArgumentInvocation == rejectUnknown
manifestValidator(kind) == rejectUnknown \o validateManifest(kind) \o stageManifest
applyInvocation(kind) ==
  rejectUnknown \o validateManifest(kind) \o requireTarget \o stageManifest

\* The result code of the first check that fails.
RefusalCode(check) ==
  CASE check \in {"pinnedContext", "canonicalTarget"} -> CodeConfirmationMismatch
    [] check = "stage" -> CodeInternal
    [] OTHER -> CodeInvalidArguments

\* The check that refuses arguments with these problems.
FirstProblem(checks, problems) ==
  checks[CHOOSE i \in 1..Len(checks) :
           /\ checks[i] \in problems
           /\ \A j \in 1..(i - 1) : checks[j] \notin problems]

Refused(checks, problems) == \E i \in 1..Len(checks) : checks[i] \in problems

-----------------------------------------------------------------------------
(* Projections: the parts an output must have.  A get tool lists or reads   *)
(* one resource; an output that lacks a part is one of the request's kind. *)

Document == {"document"}    \* decodeChildJSON: one document and no second

projectContextList == Document \cup {"items", "itemName"}
projectAPIList     == Document \cup {"items", "itemName"}
projectToolList    == Document \cup {"tools", "metadataName"}
projectToolItem    == Document \cup {"kind", "metadataName"}
projectPluginList  == Document \cup {"plugins", "metadataName"}
projectPluginItem  == Document \cup {"kind", "metadataName", "metadataVersion"}
projectBindingList == Document \cup {"bindings", "metadataName"}
projectBindingItem == Document \cup {"kind", "metadataName"}
projectTokenList   == Document \cup {"items", "itemID"}
projectCacheStats  == Document \cup {"stats"}
projectLogStats    == Document
projectAPITest     == Document \cup {"status", "code"}
projectFlush       == Document \cup {"deleted"}
projectRegistration == Document
projectGeneratedTool ==
  Document \cup {"kind", "metadataName", "endpoint", "endpointProblem", "credentialValue"}
commandCompleted   == {}

-----------------------------------------------------------------------------
(* Descriptors *)

Descriptor(group, effect, checks, command, project) ==
  [requiredGroup |-> group, effect |-> effect, localValidation |-> FALSE,
   checks |-> checks, command |-> command, project |-> project]

Validation(kind, command) ==
  [requiredGroup |-> "", effect |-> "local", localValidation |-> TRUE,
   checks |-> manifestValidator(kind), command |-> command, project |-> commandCompleted]

contextListDescriptor ==
  Descriptor("", "read", noArgumentInvocation, contextListCmd, projectContextList)
apiListDescriptor ==
  Descriptor("", "read", noArgumentInvocation, apiListCmd, projectAPIList)
toolGetDescriptor ==
  Descriptor("", "read", rejectUnknown \o versionedIdentifier, toolGetCmd,
             projectToolList \cup projectToolItem)
toolGenerateDescriptor ==
  Descriptor("", "local", rejectUnknown \o <<"api">>, toolGenerateCmd, projectGeneratedTool)
toolValidateDescriptor == Validation("MCPTool", toolValidateCmd)
pluginGetDescriptor ==
  Descriptor("", "read", rejectUnknown \o versionedIdentifier \o <<"nameWithoutVersion">>,
             pluginGetCmd, projectPluginList \cup projectPluginItem)
pluginValidateDescriptor == Validation("Plugin", pluginValidateCmd)
bindingGetDescriptor ==
  Descriptor("", "read", rejectUnknown \o <<"name">>, pluginBindingGetCmd,
             projectBindingList \cup projectBindingItem)
bindingValidateDescriptor == Validation("PluginBinding", pluginBindingValidateCmd)
tokenListDescriptor ==
  Descriptor("", "read", noArgumentInvocation, tokenListCmd, projectTokenList)
cacheStatsDescriptor ==
  Descriptor("", "read", noArgumentInvocation, cacheStatsCmd, projectCacheStats)
logStatsDescriptor ==
  Descriptor("", "read", noArgumentInvocation, logStatsCmd, projectLogStats)

apiRegisterDescriptor ==
  Descriptor("registry", "write",
    rejectUnknown \o <<"name">> \o requireTarget \o <<"module", "description", "url">>
      \o endpointProblem
      \o <<"method", "methodEnum", "authType", "authTypeEnum", "authHeader",
           "authHeaderToken", "credentialRef", "credentialSource", "force">>,
    apiRegisterCmd, projectRegistration)
apiSetCredentialRefDescriptor ==
  Descriptor("registry", "write",
    rejectUnknown \o <<"name">> \o requireTarget \o <<"credentialRef">>,
    apiSetCredentialRefCmd, commandCompleted)
apiTestDescriptor ==
  Descriptor("probe", "probe", rejectUnknown \o <<"name">> \o requireTarget,
             apiTestCmd, projectAPITest)
toolApplyDescriptor ==
  Descriptor("resources", "write", applyInvocation("MCPTool"), toolApplyCmd, commandCompleted)
toolDeleteDescriptor ==
  Descriptor("destructive", "write",
    rejectUnknown \o <<"name", "version">> \o requireTarget \o <<"hard">>,
    toolDeleteCmd, commandCompleted)
pluginApplyDescriptor ==
  Descriptor("resources", "write", applyInvocation("Plugin"), pluginApplyCmd, commandCompleted)
pluginDeleteDescriptor ==
  Descriptor("destructive", "write",
    rejectUnknown \o <<"name", "version", "atSign">> \o requireTarget \o <<"hard">>,
    pluginDeleteCmd, commandCompleted)
bindingApplyDescriptor ==
  Descriptor("resources", "write", applyInvocation("PluginBinding"),
             pluginBindingApplyCmd, commandCompleted)
bindingDeleteDescriptor ==
  Descriptor("destructive", "write",
    rejectUnknown \o <<"name">> \o requireTarget \o <<"hard">>,
    pluginBindingDeleteCmd, commandCompleted)
tokenRevokeDescriptor ==
  Descriptor("destructive", "write", rejectUnknown \o <<"id">> \o requireTarget,
             tokenRevokeCmd, commandCompleted)
cacheFlushDescriptor ==
  Descriptor("destructive", "write",
    rejectUnknown \o <<"selector", "selectorEnum", "name", "allWithName", "nameMissing">>
      \o requireTarget,
    cacheFlushCmd, projectFlush)
contextSetDescriptor ==
  Descriptor("context", "write", rejectUnknown \o <<"name">> \o requireTarget,
             contextSetCmd, commandCompleted)

catalogue ==
  [context_list |-> contextListDescriptor, api_list |-> apiListDescriptor,
   tool_get |-> toolGetDescriptor, tool_generate |-> toolGenerateDescriptor,
   tool_validate |-> toolValidateDescriptor, plugin_get |-> pluginGetDescriptor,
   plugin_validate |-> pluginValidateDescriptor, binding_get |-> bindingGetDescriptor,
   binding_validate |-> bindingValidateDescriptor, token_list |-> tokenListDescriptor,
   cache_stats |-> cacheStatsDescriptor, log_stats |-> logStatsDescriptor,
   api_register |-> apiRegisterDescriptor,
   api_set_credential_ref |-> apiSetCredentialRefDescriptor,
   api_test |-> apiTestDescriptor, tool_apply |-> toolApplyDescriptor,
   tool_delete |-> toolDeleteDescriptor, plugin_apply |-> pluginApplyDescriptor,
   plugin_delete |-> pluginDeleteDescriptor, binding_apply |-> bindingApplyDescriptor,
   binding_delete |-> bindingDeleteDescriptor, token_revoke |-> tokenRevokeDescriptor,
   cache_flush |-> cacheFlushDescriptor, context_set |-> contextSetDescriptor]

ToolNames == DOMAIN catalogue
WriteGroups == {"context", "destructive", "probe", "registry", "resources"}

isSideEffecting(effect) == effect \in {"write", "probe"}
Stages(d) == Len(d.checks) > 0 /\ d.checks[Len(d.checks)] = "stage"

\* Mutation of additionalGroup: force needs no approval of its own.
additionalGroupNone(tool, force) == {}

\* additionalGroup of api_register: a forced replacement is destructive too.
additionalGroup(tool, force) ==
  IF tool = "api_register" /\ force THEN {"destructive"} ELSE {}

-----------------------------------------------------------------------------
(* Classification *)

\* childFailureCodes and exitCodeFailures; "" where there is no entry.
childFailureCodes(error) ==
  CASE error \in {"CONTEXT_NOT_FOUND", "RESOURCE_NOT_FOUND", "API_NOT_FOUND"} -> CodeMissing
    [] error = "AUTHENTICATION_FAILED" -> CodeAuthentication
    [] error = "AUTHORIZATION_DENIED" -> CodeAuthorizationDenied
    [] error = "REGISTRY_CONFLICT" -> CodeExists
    [] error \in {"UPSTREAM_UNREACHABLE", "HEALTH_CHECK_FAILED"} -> CodeUpstreamUnavailable
    [] error \in {"VALIDATION_FAILED", "INVALID_URL", "CONTROL_PLANE_URL_INVALID",
                  "INSECURE_TRANSPORT", "LEGACY_REGISTRY"} -> CodeInvalidArguments
    [] error \in {"MCP_CONTEXT_CHANGED", "NO_CONTEXT", "MISCONFIGURED_CONTEXT"} ->
         CodeContextChanged
    [] OTHER -> ""

exitCodeFailures(exit) ==
  CASE exit = CodeBadArgs -> CodeInvalidArguments
    [] exit = CodeNotFound -> CodeMissing
    [] exit = CodeAuthFail -> CodeAuthentication
    [] exit = CodeConflict -> CodeExists
    [] exit = CodeTimeout -> CodeUpstreamUnavailable
    [] exit = CodePrecondFail -> CodeContextChanged
    [] OTHER -> ""

\* The outcomes of Run: "" is a process that ended by itself, whose exit code
\* and error document `seen' holds.
RunErrors == {"", "timeout", "cancelled", "output_limit", "start"}

\* Mutation of classifyWriteFailure: the error document of a write is believed.
classifyWriteFailureByDocument(runError, seen) ==
  IF runError \in {"timeout", "cancelled", "output_limit"} THEN CodeOutcomeUnknown
  ELSE IF runError = "start" THEN CodeInternal
  ELSE IF childFailureCodes(seen.error) # "" THEN childFailureCodes(seen.error)
  ELSE IF seen.exit = CodeBadArgs THEN CodeInvalidArguments
  ELSE CodeOutcomeUnknown

classifyWriteFailure(runError, seen) ==
  IF runError \in {"timeout", "cancelled", "output_limit"} THEN CodeOutcomeUnknown
  ELSE IF runError = "start" THEN CodeInternal
  ELSE IF seen.error = "MCP_CONTEXT_CHANGED" THEN CodeContextChanged
  ELSE IF seen.error # "" THEN CodeOutcomeUnknown
  ELSE IF seen.exit = CodeBadArgs THEN CodeInvalidArguments
  ELSE CodeOutcomeUnknown

classifyRunFailure(runError) ==
  CASE runError = "output_limit" -> CodeOutputLimit
    [] runError = "timeout" -> CodeDeadline
    [] runError = "cancelled" -> CodeCancelled
    [] OTHER -> CodeInternal

classifyExitFailure(d, seen) ==
  IF childFailureCodes(seen.error) # "" THEN childFailureCodes(seen.error)
  ELSE IF d.localValidation /\ seen.exit # CodeNotFound THEN CodeInvalidArguments
  ELSE IF exitCodeFailures(seen.exit) # "" THEN exitCodeFailures(seen.exit)
  ELSE CodeInternal

\* finish: `usable' is whether the output could be projected, `probed' the
\* verdict of a probe.
finish(d, runError, seen, usable, probed) ==
  LET Classify(write, read) == IF isSideEffecting(d.effect) THEN write ELSE read
  IN  IF runError # ""
        THEN Classify(classifyWriteFailure(runError, seen), classifyRunFailure(runError))
      ELSE IF seen.exit # CodeSuccess
        THEN Classify(classifyWriteFailure("", seen), classifyExitFailure(d, seen))
      ELSE IF ~usable THEN Classify(CodeOutcomeUnknown, CodeInvalidChildOutput)
      ELSE IF d.effect = "probe" /\ ~probed THEN CodeProbeFailed
      ELSE Succeeded
=============================================================================
