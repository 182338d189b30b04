-------------------------- MODULE ManagementProofs --------------------------
(***************************************************************************)
(* What holds of a management session for every set of calls and requests, *)
(* every selection and approval, and every edit of the configuration: that *)
(* effects are sanctioned and pinned, and that the answers tell the truth  *)
(* about them.                                                             *)
(***************************************************************************)
EXTENDS ManagementSession, TLAPS

CallRec ==
  [stage : Stage, tool : ToolNames, force : BOOLEAN, confirmed : BOOLEAN, cause : Causes,
   report : Reports, result : ResultCodes \cup {""}]
ChildRec ==
  [at : {"none", "prerun", "handler", "sent", "answer", "exited", "dead"},
   settings : Settings \cup {NotConfigured}, report : Reports]

Typed ==
  /\ groups \subseteq WriteGroups
  /\ snapshot \in Selections
  /\ config \in Settings \cup {NotConfigured, Broken}
  /\ edits \in 0..MaxEdits
  /\ call \in [Call -> CallRec]
  /\ active \in Call \cup {None}
  /\ child \in ChildRec
  /\ killed \subseteq {"timeout", "output_limit"}
  /\ wire \subseteq Effects /\ effects \subseteq Effects /\ redirected \subseteq Call
  /\ staged \subseteq Call
  /\ session \in {"open", "ended", "closed"}

-----------------------------------------------------------------------------
(* The invariant *)

Nothing(c) == ~Happened(c) /\ ~Pending(c)
Acknowledged(c) == ~Pending(c) /\ (Happened(c) \/ c \in redirected)

\* The end of a command that the session reports as a specific failure.
Specific(seen) == classifyWriteFailure("", seen) # CodeOutcomeUnknown

\* What the end of a child that ended by itself says of a write.
EndOK(c, report) ==
  Writes(c) /\ report.runError = "" =>
    IF report.seen.exit = CodeSuccess THEN Acknowledged(c)
    ELSE Specific(report.seen) => Nothing(c)

Sanctioned(c) ==
  /\ D(c).requiredGroup \in groups
  /\ call[c].force => "destructive" \in groups
  /\ call[c].confirmed

AnswerOK(c) ==
  call[c].stage = "answered" /\ Writes(c) =>
    /\ call[c].result \notin {Succeeded, CodeOutcomeUnknown, CodeProbeFailed} => Nothing(c)
    /\ call[c].result \in {Succeeded, CodeProbeFailed} => Acknowledged(c)

CallOK(c) ==
  /\ call[c].stage \in {"idle", "ready"} => Nothing(c)
  /\ call[c].stage \in {"ready", "running"} => call[c].report = NoReport
  /\ call[c].stage = "running" <=> active = c
  /\ call[c].stage \in {"ready", "running", "returned"} /\ Writes(c) => Sanctioned(c)
  /\ call[c].stage = "returned" =>
       /\ EndOK(c, call[c].report)
       /\ call[c].report.runError = "start" => Nothing(c)
  /\ AnswerOK(c)

ChildOK ==
  /\ active = None <=> child.at = "none"
  /\ child.at \in {"prerun", "handler"} => Nothing(active)
  /\ child.at \in {"handler", "sent", "answer"} => child.settings = snapshot
  /\ child.at = "answer" /\ Writes(active) => Acknowledged(active)
  /\ child.at = "exited" => child.report.runError = "" /\ EndOK(active, child.report)
  /\ child.at = "dead" => killed # {} \/ session # "open"

EffectOK(e) ==
  /\ call[e.call].stage # "idle"
  /\ e.address \in {"local", snapshot.server, snapshot.mcpServer}
  /\ e.token = snapshot.apiToken
  /\ Writes(e.call) => Sanctioned(e.call)

EffectsOK ==
  /\ \A e \in wire \cup effects : EffectOK(e)
  /\ \A e \in effects : Writes(e.call)
  /\ \A e, f \in wire : e.call = f.call => e = f

Inv == Typed /\ (\A c \in Call : CallOK(c)) /\ ChildOK /\ EffectsOK

-----------------------------------------------------------------------------
(* The catalogue *)

\* A list of checks, and whether it confirms the target.
IsChecks(a) == \E S : a \in Seq(S)
Confirms(a) == \A problems : problems \cap Confirmations # {} => Refused(a, problems)

\* What the proofs need of a command and of a descriptor.
Failures == Exits \ {Success}

CommandOK(cmd) ==
  cmd.place \in {"remote", "local"} /\ cmd.before \subseteq Failures /\ cmd.after \subseteq Exits

DescriptorOK(d) ==
  /\ CommandOK(d.command)
  /\ isSideEffecting(d.effect) =>
       /\ d.requiredGroup \in WriteGroups
       /\ d.command.json = TRUE /\ d.command.after \subseteq {General}
       /\ d.command.place = "local" => d.effect = "write"
       /\ Confirms(d.checks)

LEMMA RemoteFacts ==
  ASSUME NEW f \in RemoteFailures
  PROVE  f.error \notin {"", "MCP_CONTEXT_CHANGED", "MISCONFIGURED_CONTEXT", "API_NOT_FOUND"}
<1> DEFINE pairs ==
     {<<"VALIDATION_FAILED", 422>>, <<"AUTHENTICATION_FAILED", 401>>,
      <<"AUTHORIZATION_DENIED", 403>>, <<"RESOURCE_NOT_FOUND", 404>>,
      <<"REGISTRY_CONFLICT", 409>>, <<"HEALTH_CHECK_FAILED", 503>>,
      <<"RECONCILIATION_FAILED", 500>>, <<"RATE_LIMITED", 429>>,
      <<"REMOTE_ERROR", 400>>, <<"REMOTE_ERROR", 404>>,
      <<"REMOTE_ERROR", 502>>, <<"REMOTE_ERROR", 500>>}
<1>1. RemoteFailures = {[error |-> r[1], status |-> r[2]] : r \in pairs}
  BY DEF RemoteFailures
<1>2. ASSUME NEW r \in pairs
      PROVE  \/ r[1] = "VALIDATION_FAILED" \/ r[1] = "AUTHENTICATION_FAILED"
             \/ r[1] = "AUTHORIZATION_DENIED" \/ r[1] = "RESOURCE_NOT_FOUND"
             \/ r[1] = "REGISTRY_CONFLICT" \/ r[1] = "HEALTH_CHECK_FAILED"
             \/ r[1] = "RECONCILIATION_FAILED" \/ r[1] = "RATE_LIMITED"
             \/ r[1] = "REMOTE_ERROR"
  OBVIOUS
<1> HIDE DEF pairs
<1>3. PICK r \in pairs : f = [error |-> r[1], status |-> r[2]]
  BY <1>1
<1>4. f.error = r[1]
  BY <1>3
<1> QED BY <1>2, <1>4

LEMMA ConcatSeq ==
  ASSUME NEW S, NEW a \in Seq(S), NEW b \in Seq(S)
  PROVE  /\ a \o b \in Seq(S)
         /\ \A i \in 1..Len(a) : i \in 1..Len(a \o b) /\ (a \o b)[i] = a[i]
         /\ \A i \in 1..Len(b) :
              Len(a) + i \in 1..Len(a \o b) /\ (a \o b)[Len(a) + i] = b[i]
OBVIOUS

LEMMA Concat ==
  ASSUME NEW a, NEW b, IsChecks(a), IsChecks(b)
  PROVE  IsChecks(a \o b) /\ (Confirms(a) \/ Confirms(b) => Confirms(a \o b))
<1>1. PICK S : a \in Seq(S)
  BY DEF IsChecks
<1>2. PICK T : b \in Seq(T)
  BY DEF IsChecks
<1>3. a \in Seq(S \cup T) /\ b \in Seq(S \cup T)
  BY <1>1, <1>2
<1>4. IsChecks(a \o b)
  BY <1>3, ConcatSeq DEF IsChecks
<1>5. ASSUME NEW problems, Refused(a, problems) \/ Refused(b, problems)
      PROVE  Refused(a \o b, problems)
  <2>1. CASE Refused(a, problems)
    BY <1>3, <2>1, ConcatSeq DEF Refused
  <2>2. CASE Refused(b, problems)
    BY <1>3, <2>2, ConcatSeq DEF Refused
  <2> QED BY <1>5, <2>1, <2>2
<1> QED BY <1>4, <1>5 DEF Confirms

LEMMA TargetConfirms == IsChecks(requireTarget) /\ Confirms(requireTarget)
<1>1. requireTarget \in Seq(Confirmations)
  BY DEF requireTarget, Confirmations
<1>2. Len(requireTarget) = 4
  BY DEF requireTarget
<1>3. /\ requireTarget[1] = "confirmContext" /\ requireTarget[2] = "pinnedContext"
      /\ requireTarget[3] = "confirmTarget" /\ requireTarget[4] = "canonicalTarget"
  BY DEF requireTarget
<1>4. 1 \in 1..4 /\ 2 \in 1..4 /\ 3 \in 1..4 /\ 4 \in 1..4
  OBVIOUS
<1> QED BY <1>1, <1>2, <1>3, <1>4 DEF Refused, Confirmations, IsChecks, Confirms

LEMMA SomeChecks ==
  /\ IsChecks(rejectUnknown) /\ IsChecks(<<"name">>) /\ IsChecks(<<"hard">>)
  /\ IsChecks(<<"name", "version">>) /\ IsChecks(<<"name", "version", "atSign">>)
  /\ IsChecks(<<"id">>) /\ IsChecks(<<"credentialRef">>) /\ IsChecks(stageManifest)
  /\ IsChecks(<<"module", "description", "url">>)
<1>1. rejectUnknown \in Seq({"unknown"}) /\ stageManifest \in Seq({"stage"})
  BY DEF rejectUnknown, stageManifest
<1>2. /\ <<"name">> \in Seq({"name"}) /\ <<"hard">> \in Seq({"hard"})
      /\ <<"id">> \in Seq({"id"}) /\ <<"credentialRef">> \in Seq({"credentialRef"})
  OBVIOUS
<1>3. <<"name", "version">> \in Seq({"name", "version"})
  OBVIOUS
<1>4. <<"name", "version", "atSign">> \in Seq({"name", "version", "atSign"})
  OBVIOUS
<1>5. <<"module", "description", "url">> \in Seq({"module", "description", "url"})
  OBVIOUS
<1> QED BY <1>1, <1>2, <1>3, <1>4, <1>5 DEF IsChecks

LEMMA MoreChecks ==
  /\ IsChecks(endpointProblem)
  /\ IsChecks(<<"method", "methodEnum", "authType", "authTypeEnum", "authHeader",
                "authHeaderToken", "credentialRef", "credentialSource", "force">>)
  /\ IsChecks(<<"selector", "selectorEnum", "name", "allWithName", "nameMissing">>)
<1>1. endpointProblem \in
        Seq({"endpointParses", "endpointScheme", "endpointHost", "endpointUserinfo",
             "endpointQuery"})
  BY DEF endpointProblem
<1>2. <<"method", "methodEnum", "authType", "authTypeEnum", "authHeader",
        "authHeaderToken", "credentialRef", "credentialSource", "force">> \in
        Seq({"method", "methodEnum", "authType", "authTypeEnum", "authHeader",
             "authHeaderToken", "credentialRef", "credentialSource", "force"})
  OBVIOUS
<1>3. <<"selector", "selectorEnum", "name", "allWithName", "nameMissing">> \in
        Seq({"selector", "selectorEnum", "name", "allWithName", "nameMissing"})
  OBVIOUS
<1> QED BY <1>1, <1>2, <1>3 DEF IsChecks

LEMMA ApplyChecks ==
  ASSUME NEW kind \in {"MCPTool", "Plugin", "PluginBinding"}
  PROVE  Confirms(applyInvocation(kind))
<1>1. IsChecks(manifestEndpointProblem(kind))
  <2>1. /\ <<"specAlias", "executionAlias", "endpointAlias">> \in
             Seq({"specAlias", "executionAlias", "endpointAlias"})
        /\ <<"specAlias", "endpointAlias">> \in Seq({"specAlias", "endpointAlias"})
        /\ <<"specAlias">> \in Seq({"specAlias"})
    OBVIOUS
  <2>2. /\ IsChecks(<<"specAlias", "executionAlias", "endpointAlias">>)
        /\ IsChecks(<<"specAlias", "endpointAlias">>) /\ IsChecks(<<"specAlias">>)
    BY <2>1 DEF IsChecks
  <2> QED BY <2>2, MoreChecks, Concat DEF manifestEndpointProblem
<1>2. IsChecks(validateManifest(kind))
  <2> DEFINE head == <<"manifest", "manifestObject", "kind", "metadataName",
                       "metadataIdentifier", "credentialValue">>
             last == <<"encoding", "size">>
  <2>1. /\ head \in Seq({"manifest", "manifestObject", "kind", "metadataName",
                         "metadataIdentifier", "credentialValue"})
        /\ last \in Seq({"encoding", "size"})
    OBVIOUS
  <2>2. IsChecks(head) /\ IsChecks(last)
    BY <2>1 DEF IsChecks
  <2>3. validateManifest(kind) = head \o manifestEndpointProblem(kind) \o last
    BY DEF validateManifest
  <2> HIDE DEF head, last
  <2> QED BY <1>1, <2>2, <2>3, Concat
<1> QED BY <1>2, SomeChecks, TargetConfirms, Concat DEF applyInvocation

LEMMA ExitsHold ==
  /\ {Success, General, Panic, ContextChanged, Misconfigured, InvalidURL, InvalidRoot,
      Missing, APIMissing, LegacyRegistry, Conflict, Unreachable} \subseteq Exits
  /\ \A f \in RemoteFailures : mapRemoteError(f) \in Exits
BY DEF Exits

\* A failure has an exit code of its own; that of a deployment is documented.
LEMMA FailureFacts ==
  /\ {General, Panic, ContextChanged, Misconfigured, InvalidURL, InvalidRoot, Missing, APIMissing,
      LegacyRegistry, Conflict, Unreachable} \subseteq Failures
  /\ \A f \in RemoteFailures : mapRemoteError(f) \in Failures
  /\ \A f \in Failures : f.exit # CodeSuccess
<1> DEFINE Own == {General, Panic, ContextChanged, Misconfigured, InvalidURL, InvalidRoot, Missing,
                   APIMissing, LegacyRegistry, Conflict, Unreachable}
<1>1. \A f \in Own : f.exit # CodeSuccess
  <2>1. /\ General.exit = 1 /\ Panic.exit = 2 /\ ContextChanged.exit = 7
        /\ Misconfigured.exit = 7 /\ InvalidURL.exit = 2 /\ InvalidRoot.exit = 2
    BY DEF NewError, General, Panic, ContextChanged, Misconfigured, InvalidURL, InvalidRoot,
       CodeGeneralErr, CodeBadArgs, CodePrecondFail
  <2>2. /\ Missing.exit = 3 /\ APIMissing.exit = 3 /\ LegacyRegistry.exit = 7
        /\ Conflict.exit = 5 /\ Unreachable.exit = 6
    BY DEF NewError, Missing, APIMissing, LegacyRegistry, Conflict, Unreachable,
       CodeNotFound, CodeConflict, CodeTimeout, CodePrecondFail
  <2> QED BY <2>1, <2>2 DEF CodeSuccess
<1>2. ASSUME NEW f \in RemoteFailures
      PROVE  mapRemoteError(f).exit # CodeSuccess
  <2>1. ExitOfRemote(f) # 0
    BY DEF ExitOfRemote, CodeGeneralErr, CodeBadArgs, CodeNotFound, CodeAuthFail, CodeConflict,
       CodeTimeout, CodePrecondFail
  <2> QED BY <2>1 DEF mapRemoteError, NewError, CodeSuccess
<1>3. Success.exit = CodeSuccess
  BY DEF Success, NewError
<1>4. Exits = {Success} \cup Own \cup {mapRemoteError(f) : f \in RemoteFailures}
  BY DEF Exits
<1> HIDE DEF Own
<1>5. \A f \in Failures : f \in Own \/ \E r \in RemoteFailures : f = mapRemoteError(r)
  BY <1>4 DEF Failures
<1>6. \A f \in Failures : f.exit # CodeSuccess
  BY <1>1, <1>2, <1>5
<1>7. Own \subseteq Failures /\ \A f \in RemoteFailures : mapRemoteError(f) \in Failures
  BY <1>1, <1>2, <1>3, <1>4 DEF Failures
<1> QED BY <1>6, <1>7 DEF Own

LEMMA Commands ==
  ASSUME NEW before \in SUBSET Failures, NEW after \in SUBSET Exits, NEW vet, NEW json
  PROVE  /\ CommandOK(Local(before, after)) /\ CommandOK(Remote(vet, before, after, json))
         /\ Local(before, after).json = TRUE /\ Remote(vet, before, after, json).json = json
         /\ Local(before, after).after = after
         /\ Remote(vet, before, after, json).after = after
         /\ Remote(vet, before, after, json).place = "remote"
BY DEF Local, Remote, CommandOK

LEMMA ReadDescriptor ==
  ASSUME NEW group, NEW effect \in {"read", "local"}, NEW checks, NEW command, NEW project,
         CommandOK(command)
  PROVE  DescriptorOK(Descriptor(group, effect, checks, command, project))
BY DEF Descriptor, DescriptorOK, isSideEffecting

LEMMA WriteDescriptor ==
  ASSUME NEW group \in WriteGroups, NEW effect \in {"write", "probe"}, NEW checks, NEW command,
         NEW project, CommandOK(command), command.json = TRUE, command.after \subseteq {General},
         command.place = "local" => effect = "write", Confirms(checks)
  PROVE  DescriptorOK(Descriptor(group, effect, checks, command, project))
<1> DEFINE d == Descriptor(group, effect, checks, command, project)
<1>1. d.requiredGroup = group /\ d.effect = effect /\ d.checks = checks /\ d.command = command
  BY DEF Descriptor
<1> HIDE DEF d
<1>2. DescriptorOK(d)
  BY <1>1 DEF DescriptorOK
<1> QED BY <1>2 DEF d

LEMMA ReadsOK ==
  /\ DescriptorOK(contextListDescriptor) /\ DescriptorOK(apiListDescriptor)
  /\ DescriptorOK(toolGetDescriptor) /\ DescriptorOK(toolGenerateDescriptor)
  /\ DescriptorOK(pluginGetDescriptor) /\ DescriptorOK(bindingGetDescriptor)
  /\ DescriptorOK(tokenListDescriptor) /\ DescriptorOK(cacheStatsDescriptor)
  /\ DescriptorOK(logStatsDescriptor)
<1>0. /\ {} \subseteq Exits /\ {General} \subseteq Exits /\ {General, Missing} \subseteq Exits
      /\ {} \subseteq Failures /\ {General} \subseteq Failures
      /\ RegistryFailures \subseteq Failures /\ RegistryFailures \cup {APIMissing} \subseteq Failures
  BY ExitsHold, FailureFacts DEF RegistryFailures
<1>1. CommandOK(contextListCmd) /\ CommandOK(apiListCmd) /\ CommandOK(toolGenerateCmd)
  BY <1>0, Commands DEF contextListCmd, apiListCmd, toolGenerateCmd
<1>2. CommandOK(toolGetCmd) /\ CommandOK(pluginGetCmd) /\ CommandOK(pluginBindingGetCmd)
  BY <1>0, Commands DEF toolGetCmd, pluginGetCmd, pluginBindingGetCmd
<1>3. CommandOK(tokenListCmd) /\ CommandOK(cacheStatsCmd) /\ CommandOK(logStatsCmd)
  BY <1>0, Commands DEF tokenListCmd, cacheStatsCmd, logStatsCmd
<1>4. DescriptorOK(contextListDescriptor) /\ DescriptorOK(apiListDescriptor)
      /\ DescriptorOK(toolGenerateDescriptor)
  BY <1>1, ReadDescriptor
     DEF contextListDescriptor, apiListDescriptor, toolGenerateDescriptor
<1>5. DescriptorOK(toolGetDescriptor) /\ DescriptorOK(pluginGetDescriptor)
      /\ DescriptorOK(bindingGetDescriptor)
  BY <1>2, ReadDescriptor DEF toolGetDescriptor, pluginGetDescriptor, bindingGetDescriptor
<1>6. DescriptorOK(tokenListDescriptor) /\ DescriptorOK(cacheStatsDescriptor)
      /\ DescriptorOK(logStatsDescriptor)
  BY <1>3, ReadDescriptor DEF tokenListDescriptor, cacheStatsDescriptor, logStatsDescriptor
<1> QED BY <1>4, <1>5, <1>6

LEMMA ValidationsOK ==
  /\ DescriptorOK(toolValidateDescriptor) /\ DescriptorOK(pluginValidateDescriptor)
  /\ DescriptorOK(bindingValidateDescriptor)
<1>1. ASSUME NEW kind, NEW command, CommandOK(command)
      PROVE  DescriptorOK(Validation(kind, command))
  BY <1>1 DEF Validation, DescriptorOK, isSideEffecting
<1>2. {} \subseteq Exits /\ {General} \subseteq Failures
  BY FailureFacts
<1>3. CommandOK(toolValidateCmd) /\ CommandOK(pluginValidateCmd)
      /\ CommandOK(pluginBindingValidateCmd)
  BY <1>2, Commands DEF toolValidateCmd, pluginValidateCmd, pluginBindingValidateCmd
<1> QED BY <1>1, <1>3 DEF toolValidateDescriptor, pluginValidateDescriptor,
        bindingValidateDescriptor

LEMMA WritesOK ==
  /\ DescriptorOK(apiRegisterDescriptor) /\ DescriptorOK(apiSetCredentialRefDescriptor)
  /\ DescriptorOK(apiTestDescriptor) /\ DescriptorOK(toolApplyDescriptor)
  /\ DescriptorOK(toolDeleteDescriptor) /\ DescriptorOK(pluginApplyDescriptor)
  /\ DescriptorOK(pluginDeleteDescriptor) /\ DescriptorOK(bindingApplyDescriptor)
  /\ DescriptorOK(bindingDeleteDescriptor) /\ DescriptorOK(tokenRevokeDescriptor)
  /\ DescriptorOK(cacheFlushDescriptor) /\ DescriptorOK(contextSetDescriptor)
<1> DEFINE Acts(cmd, effect) ==
             /\ CommandOK(cmd) /\ cmd.json = TRUE /\ cmd.after \subseteq {General}
             /\ cmd.place = "local" => effect = "write"
<1>0. /\ {} \subseteq Exits /\ {General} \subseteq Exits
      /\ {} \subseteq Failures /\ {General} \subseteq Failures
      /\ RegistryFailures \subseteq Failures /\ RegistryFailures \cup {Conflict} \subseteq Failures
      /\ RegistryFailures \cup {APIMissing} \subseteq Failures
  BY ExitsHold, FailureFacts DEF RegistryFailures
<1>1. ASSUME NEW before \in SUBSET Failures, NEW after \in {{}, {General}}, NEW vet, NEW effect
      PROVE  Acts(Remote(vet, before, after, TRUE), effect) /\ Acts(Local(before, after), "write")
  <2>1. after \in SUBSET Exits /\ after \subseteq {General}
    BY <1>0
  <2>2. Acts(Remote(vet, before, after, TRUE), effect)
    BY <2>1 DEF Remote, CommandOK
  <2>3. Acts(Local(before, after), "write")
    BY <2>1, Commands
  <2> QED BY <2>2, <2>3
<1> HIDE DEF Acts
<1>2. /\ Acts(apiRegisterCmd, "write") /\ Acts(apiSetCredentialRefCmd, "write")
      /\ Acts(contextSetCmd, "write") /\ Acts(apiTestCmd, "probe")
  BY <1>0, <1>1 DEF apiRegisterCmd, apiSetCredentialRefCmd, contextSetCmd, apiTestCmd
<1>3. /\ Acts(toolApplyCmd, "write") /\ Acts(toolDeleteCmd, "write")
      /\ Acts(pluginApplyCmd, "write") /\ Acts(pluginDeleteCmd, "write")
  BY <1>0, <1>1 DEF toolApplyCmd, toolDeleteCmd, pluginApplyCmd, pluginDeleteCmd
<1>4. /\ Acts(pluginBindingApplyCmd, "write") /\ Acts(pluginBindingDeleteCmd, "write")
      /\ Acts(tokenRevokeCmd, "write") /\ Acts(cacheFlushCmd, "write")
  BY <1>0, <1>1 DEF pluginBindingApplyCmd, pluginBindingDeleteCmd, tokenRevokeCmd, cacheFlushCmd
<1>5. ASSUME NEW group \in WriteGroups, NEW effect \in {"write", "probe"}, NEW checks,
             NEW command, NEW project, Acts(command, effect), Confirms(checks)
      PROVE  DescriptorOK(Descriptor(group, effect, checks, command, project))
  BY <1>5, WriteDescriptor DEF Acts
<1>6. {"registry", "probe", "resources", "destructive", "context"} \subseteq WriteGroups
  BY DEF WriteGroups
<1>7. ASSUME NEW a, IsChecks(a)
      PROVE  /\ Confirms(rejectUnknown \o a \o requireTarget)
             /\ IsChecks(rejectUnknown \o a \o requireTarget)
  BY <1>7, SomeChecks, TargetConfirms, Concat
<1>8. /\ Confirms(rejectUnknown \o <<"name">> \o requireTarget)
      /\ Confirms(rejectUnknown \o <<"id">> \o requireTarget)
      /\ Confirms(rejectUnknown \o <<"selector", "selectorEnum", "name", "allWithName",
                                     "nameMissing">> \o requireTarget)
  BY <1>7, SomeChecks, MoreChecks
<1>9. ASSUME NEW a, NEW b, IsChecks(a), IsChecks(b)
      PROVE  /\ Confirms(rejectUnknown \o a \o requireTarget \o b)
             /\ IsChecks(rejectUnknown \o a \o requireTarget \o b)
  BY <1>7, <1>9, Concat
<1>10. /\ Confirms(rejectUnknown \o <<"name">> \o requireTarget \o <<"credentialRef">>)
       /\ Confirms(rejectUnknown \o <<"name">> \o requireTarget \o <<"hard">>)
       /\ Confirms(rejectUnknown \o <<"name", "version">> \o requireTarget \o <<"hard">>)
       /\ Confirms(rejectUnknown \o <<"name", "version", "atSign">> \o requireTarget
                     \o <<"hard">>)
  BY <1>9, SomeChecks
<1>11. Confirms(rejectUnknown \o <<"name">> \o requireTarget
          \o <<"module", "description", "url">> \o endpointProblem
          \o <<"method", "methodEnum", "authType", "authTypeEnum", "authHeader",
               "authHeaderToken", "credentialRef", "credentialSource", "force">>)
  <2> DEFINE a == rejectUnknown \o <<"name">> \o requireTarget
                     \o <<"module", "description", "url">>
             b == <<"method", "methodEnum", "authType", "authTypeEnum", "authHeader",
                    "authHeaderToken", "credentialRef", "credentialSource", "force">>
  <2>1. Confirms(a) /\ IsChecks(a)
    BY <1>9, SomeChecks
  <2>2. IsChecks(b) /\ IsChecks(endpointProblem)
    BY MoreChecks
  <2> HIDE DEF a, b
  <2>3. Confirms(a \o endpointProblem) /\ IsChecks(a \o endpointProblem)
    BY <2>1, <2>2, Concat
  <2>4. Confirms(a \o endpointProblem \o b)
    BY <2>2, <2>3, Concat
  <2> QED BY <2>4 DEF a, b
<1>12. DescriptorOK(apiRegisterDescriptor)
  BY <1>2, <1>5, <1>6, <1>11 DEF apiRegisterDescriptor
<1>13. DescriptorOK(apiSetCredentialRefDescriptor)
  BY <1>2, <1>5, <1>6, <1>10 DEF apiSetCredentialRefDescriptor
<1>14. DescriptorOK(apiTestDescriptor) /\ DescriptorOK(contextSetDescriptor)
  BY <1>2, <1>5, <1>6, <1>8 DEF apiTestDescriptor, contextSetDescriptor
<1>15. /\ DescriptorOK(toolApplyDescriptor) /\ DescriptorOK(pluginApplyDescriptor)
       /\ DescriptorOK(bindingApplyDescriptor)
  BY <1>3, <1>4, <1>5, <1>6, ApplyChecks
     DEF toolApplyDescriptor, pluginApplyDescriptor, bindingApplyDescriptor
<1>16. /\ DescriptorOK(toolDeleteDescriptor) /\ DescriptorOK(pluginDeleteDescriptor)
       /\ DescriptorOK(bindingDeleteDescriptor)
  BY <1>3, <1>4, <1>5, <1>6, <1>10
     DEF toolDeleteDescriptor, pluginDeleteDescriptor, bindingDeleteDescriptor
<1>17. DescriptorOK(tokenRevokeDescriptor) /\ DescriptorOK(cacheFlushDescriptor)
  BY <1>4, <1>5, <1>6, <1>8 DEF tokenRevokeDescriptor, cacheFlushDescriptor
<1> QED BY <1>12, <1>13, <1>14, <1>15, <1>16, <1>17

LEMMA CatalogueOK ==
  ASSUME NEW t \in ToolNames
  PROVE  DescriptorOK(catalogue[t])
<1> USE DEF ToolNames, catalogue
<1>1. CASE t \in {"context_list", "api_list", "tool_get", "tool_generate", "plugin_get",
                  "binding_get", "token_list", "cache_stats", "log_stats"}
  BY <1>1, ReadsOK
<1>2. CASE t \in {"tool_validate", "plugin_validate", "binding_validate"}
  BY <1>2, ValidationsOK
<1>3. CASE t \in {"api_register", "api_set_credential_ref", "api_test", "tool_apply",
                  "tool_delete", "plugin_apply"}
  BY <1>3, WritesOK
<1>4. CASE t \in {"plugin_delete", "binding_apply", "binding_delete", "token_revoke",
                  "cache_flush", "context_set"}
  BY <1>4, WritesOK
<1> QED BY <1>1, <1>2, <1>3, <1>4

-----------------------------------------------------------------------------
(* Reports and results *)

LEMMA CauseFacts == "" \in Causes /\ \A f \in Exits : f.error \in Causes
<1>1. Success.error = "" /\ Success \in Exits
  BY ExitsHold DEF Success, NewError
<1> QED BY <1>1 DEF Causes

LEMMA NoReportTyped == NoReport \in Reports /\ NoReport.runError = ""
<1>1. Success \in Seen
  BY ExitsHold DEF Seen
<1> QED BY <1>1, CauseFacts DEF NoReport, Reports, RunErrors

\* The report of a command that ends with a failure, or with success.
LEMMA ExitReport ==
  ASSUME NEW d, DescriptorOK(d), NEW f \in Exits, NEW lacks, NEW probed \in BOOLEAN,
         ExitWith(d, f, lacks, probed)
  PROVE  \E r \in Reports :
           /\ child' = [child EXCEPT !.at = "exited", !.report = r]
           /\ r.runError = "" /\ r.seen.exit = f.exit
           /\ isSideEffecting(d.effect) /\ f \notin Quoting => r.seen = f
<1>0. PICK seen \in handleError(d.command, f) :
        child' = [child EXCEPT !.at = "exited",
                    !.report = [runError |-> "", seen |-> seen,
                                usable |-> lacks \cap d.project = {}, probed |-> probed,
                                cause |-> IF isSideEffecting(d.effect) THEN "" ELSE f.error]]
  BY DEF ExitWith
<1> DEFINE usable == lacks \cap d.project = {}
           cause == IF isSideEffecting(d.effect) THEN "" ELSE f.error
           r == [runError |-> "", seen |-> seen, usable |-> usable, probed |-> probed,
                 cause |-> cause]
<1>1. child' = [child EXCEPT !.at = "exited", !.report = r]
  BY <1>0
<1>2. seen = f \/ seen = NewError(f.exit, "")
  BY <1>0 DEF handleError
<1>7. seen \in Seen /\ seen.exit = f.exit
  <2>1. f \in Seen /\ NewError(f.exit, "") \in Seen
    BY DEF Seen
  <2>2. NewError(f.exit, "").exit = f.exit
    BY DEF NewError
  <2> QED BY <1>2, <2>1, <2>2
<1>3. cause \in Causes /\ usable \in BOOLEAN
  BY CauseFacts
<1>4. isSideEffecting(d.effect) /\ f \notin Quoting => seen = f
  BY <1>0 DEF handleError, DescriptorOK
<1> HIDE DEF usable, cause
<1>5. r \in Reports
  BY <1>3, <1>7 DEF Reports, RunErrors
<1>6. r.runError = "" /\ r.seen = seen
  OBVIOUS
<1> HIDE DEF r
<1> QED BY <1>1, <1>4, <1>5, <1>6, <1>7

\* What a deployment, the transport and a command's own errors say quotes nothing.
LEMMA NothingQuoted ==
  /\ Success \notin Quoting /\ General \notin Quoting /\ Unreachable \notin Quoting
  /\ \A f \in RemoteFailures : mapRemoteError(f) \notin Quoting
<1>1. Misconfigured.error = "MISCONFIGURED_CONTEXT" /\ APIMissing.error = "API_NOT_FOUND"
  BY DEF Misconfigured, APIMissing, NewError
<1>2. /\ Success.error = "" /\ General.error = "" /\ Unreachable.error = "UPSTREAM_UNREACHABLE"
  BY DEF Success, General, Unreachable, NewError
<1>3. ASSUME NEW f \in RemoteFailures
      PROVE  mapRemoteError(f).error \notin {"MISCONFIGURED_CONTEXT", "API_NOT_FOUND"}
  BY RemoteFacts DEF mapRemoteError, NewError
<1>4. ASSUME NEW f \in Quoting
      PROVE  f.error = "MISCONFIGURED_CONTEXT" \/ f.error = "API_NOT_FOUND"
  BY <1>1 DEF Quoting
<1> QED BY <1>2, <1>3, <1>4

LEMMA VetTyped ==
  ASSUME NEW cmd, NEW settings
  PROVE  VetAddress(cmd, settings) \in Exits
BY ExitsHold DEF VetAddress, controlPlaneRoot, validatedRequest, doBridgeRequest, flushAddress,
   ValidateServerURL

\* What finish makes of a run.
LEMMA FinishFacts ==
  ASSUME NEW d, NEW runError \in RunErrors, NEW seen, NEW usable, NEW probed
  PROVE  LET result == finish(d, runError, seen, usable, probed) IN
         /\ result \in ResultCodes
         /\ isSideEffecting(d.effect) =>
              /\ runError \notin {"", "start"} => result = CodeOutcomeUnknown
              /\ runError = "start" => result \notin {Succeeded, CodeProbeFailed}
              /\ runError = "" /\ seen.exit # CodeSuccess =>
                   result = classifyWriteFailure("", seen)
              /\ runError = "" /\ seen.exit = CodeSuccess =>
                   result \in {Succeeded, CodeOutcomeUnknown, CodeProbeFailed}
<1> DEFINE result == finish(d, runError, seen, usable, probed)
<1>1. \A e : classifyWriteFailure(e, seen) \in ResultCodes
  BY DEF classifyWriteFailure, ResultCodes
<1>2. classifyRunFailure(runError) \in ResultCodes
  BY DEF classifyRunFailure, ResultCodes
<1>3. classifyExitFailure(d, seen) \in ResultCodes
  <2>1. childFailureCodes(seen.error) \in ResultCodes \cup {""}
    BY DEF childFailureCodes, ResultCodes
  <2>2. exitCodeFailures(seen.exit) \in ResultCodes \cup {""}
    BY DEF exitCodeFailures, ResultCodes
  <2>3. CodeInvalidArguments \in ResultCodes /\ CodeInternal \in ResultCodes
    BY DEF ResultCodes
  <2> QED BY <2>1, <2>2, <2>3 DEF classifyExitFailure
<1>4. {Succeeded, CodeOutcomeUnknown, CodeInvalidChildOutput, CodeProbeFailed} \subseteq ResultCodes
  BY DEF ResultCodes
<1>5. result \in ResultCodes
  BY <1>1, <1>2, <1>3, <1>4 DEF finish
<1>6. ASSUME isSideEffecting(d.effect), runError # ""
      PROVE  result = classifyWriteFailure(runError, seen)
  BY <1>6 DEF finish
<1>7. runError \notin {"", "start"} => classifyWriteFailure(runError, seen) = CodeOutcomeUnknown
  BY DEF classifyWriteFailure, RunErrors
<1>8. runError = "start" => classifyWriteFailure(runError, seen) = CodeInternal
  BY DEF classifyWriteFailure
<1>9. CodeInternal \notin {Succeeded, CodeProbeFailed}
  BY DEF CodeInternal, Succeeded, CodeProbeFailed
<1>10. ASSUME isSideEffecting(d.effect), runError = "", seen.exit # CodeSuccess
       PROVE  result = classifyWriteFailure("", seen)
  BY <1>10 DEF finish
<1>11. ASSUME isSideEffecting(d.effect), runError = "", seen.exit = CodeSuccess
       PROVE  result \in {Succeeded, CodeOutcomeUnknown, CodeProbeFailed}
  BY <1>11 DEF finish
<1>12. "start" # ""
  OBVIOUS
<1> HIDE DEF result
<1>13. ASSUME isSideEffecting(d.effect)
       PROVE  /\ runError \notin {"", "start"} => result = CodeOutcomeUnknown
              /\ runError = "start" => result \notin {Succeeded, CodeProbeFailed}
  BY <1>6, <1>7, <1>8, <1>9, <1>12, <1>13
<1> QED BY <1>5, <1>10, <1>11, <1>13 DEF result

LEMMA WriteFailureCodes ==
  ASSUME NEW seen
  PROVE  classifyWriteFailure("", seen) \notin {Succeeded, CodeProbeFailed}
<1>1. classifyWriteFailure("", seen) \in
        {CodeOutcomeUnknown, CodeInternal, CodeContextChanged, CodeInvalidArguments}
  BY DEF classifyWriteFailure
<1> QED BY <1>1 DEF CodeOutcomeUnknown, CodeInternal, CodeContextChanged, CodeInvalidArguments,
        Succeeded, CodeProbeFailed

\* Neither a failure that a deployment or the transport reports, nor a plain
\* error, is a specific one.
LEMMA NotSpecific ==
  /\ \A f \in RemoteFailures : ~Specific(mapRemoteError(f))
  /\ ~Specific(Unreachable) /\ ~Specific(General)
<1>1. ASSUME NEW seen, seen.error \notin {"", "MCP_CONTEXT_CHANGED"}
      PROVE  ~Specific(seen)
  BY <1>1 DEF Specific, classifyWriteFailure
<1>2. \A f \in RemoteFailures : mapRemoteError(f).error = f.error
  BY DEF mapRemoteError, NewError
<1>3. Unreachable.error = "UPSTREAM_UNREACHABLE"
  BY DEF Unreachable, NewError
<1>4. General.error = "" /\ General.exit = CodeGeneralErr
  BY DEF General, NewError
<1>5. CodeGeneralErr # CodeBadArgs
  BY DEF CodeGeneralErr, CodeBadArgs
<1>6. ~Specific(General)
  BY <1>4, <1>5 DEF Specific, classifyWriteFailure
<1>7. "UPSTREAM_UNREACHABLE" # "" /\ "UPSTREAM_UNREACHABLE" # "MCP_CONTEXT_CHANGED"
  OBVIOUS
<1> QED BY <1>1, <1>2, <1>3, <1>6, <1>7, RemoteFacts

-----------------------------------------------------------------------------
(* The invariant holds initially *)

LEMMA NoCallTyped == NoCall \in CallRec /\ NoCall.stage = "idle"
<1>1. "context_list" \in ToolNames
  BY DEF ToolNames, catalogue
<1>2. "idle" \in Stage
  BY DEF Stage
<1> QED BY <1>1, <1>2, NoReportTyped, CauseFacts DEF NoCall, CallRec

LEMMA NoChildTyped == NoChild \in ChildRec /\ NoChild.at = "none"
BY NoReportTyped DEF NoChild, ChildRec

LEMMA InitInv == Init => Inv
<1> SUFFICES ASSUME Init PROVE Inv
  OBVIOUS
<1> USE DEF Init
<1>1. Typed
  <2>1. call \in [Call -> CallRec] /\ child \in ChildRec
    BY NoCallTyped, NoChildTyped
  <2>2. edits \in 0..MaxEdits
    BY SessionAssumption
  <2>3. groups \subseteq WriteGroups /\ snapshot \in Selections /\ config \in Settings
    BY SessionAssumption
  <2> QED BY <2>1, <2>2, <2>3 DEF Typed
<1>2. ASSUME NEW c \in Call
      PROVE  CallOK(c)
  <2>1. call[c].stage = "idle" /\ active # c
    BY NoCallTyped, SessionAssumption
  <2> QED BY <2>1 DEF CallOK, AnswerOK, Nothing, Happened, Pending
<1>3. ChildOK
  <2>1. child.at = "none" /\ active = None
    BY NoChildTyped
  <2> QED BY <2>1 DEF ChildOK
<1>4. EffectsOK
  BY DEF EffectsOK
<1> QED BY <1>1, <1>2, <1>3, <1>4 DEF Inv

-----------------------------------------------------------------------------
(* Kinds of steps: of the child and the deployments, of one call, and of   *)
(* the surroundings                                                        *)

LEMMA ActiveFacts ==
  ASSUME Inv, child.at # "none"
  PROVE  /\ active \in Call /\ call[active].stage = "running"
         /\ DescriptorOK(D(active)) /\ (Writes(active) => Sanctioned(active))
<1>1. active \in Call
  BY DEF Inv, ChildOK, Typed
<1>2. call[active].stage = "running" /\ (Writes(active) => Sanctioned(active))
  BY <1>1 DEF Inv, CallOK
<1>3. call[active].tool \in ToolNames
  BY <1>1 DEF Inv, Typed, CallRec
<1> QED BY <1>1, <1>2, <1>3, CatalogueOK DEF D

\* The child moves, and requests and effects come and go: the requests that
\* are new are of the call that runs.
LEMMA WorldStep ==
  ASSUME Inv, Unchanged, child' \in ChildRec, ChildOK', NEW new \in SUBSET Effects,
         wire' \subseteq wire \cup new, effects' \subseteq effects \cup wire \cup new,
         effects \subseteq effects',
         \A e \in new : e.call = active /\ EffectOK(e),
         new # {} => child.at # "none",
         redirected' \subseteq redirected \cup Call, redirected \subseteq redirected',
         \A e \in new : ~Pending(e.call) /\ \A f \in new : e = f,
         \A e \in effects' : Writes(e.call)
  PROVE  Inv'
<1> USE DEF Unchanged
<1>1. Typed'
  BY DEF Inv, Typed
<1>2. ASSUME NEW c \in Call
      PROVE  Writes(c)' = Writes(c) /\ Sanctioned(c)' = Sanctioned(c)
  BY DEF Writes, D, Sanctioned
<1>3. ASSUME NEW c \in Call
      PROVE  CallOK(c)'
  <2>1. CallOK(c)
    BY DEF Inv
  <2>0. call[c].stage # "running" => \A e \in new : e.call # c
    BY ActiveFacts
  <2>2. call[c].stage # "running" => (Acknowledged(c) => Acknowledged(c)')
    BY <2>0 DEF Acknowledged, Happened, Pending
  <2>3. call[c].stage # "running" => (Nothing(c) => Nothing(c)')
    BY <2>0 DEF Nothing, Happened, Pending
  <2>4. call'[c] = call[c] /\ active' = active
    OBVIOUS
  <2>5. call[c].stage = "returned" => EndOK(c, call[c].report)'
    BY <1>2, <2>1, <2>2, <2>3, <2>4 DEF CallOK, EndOK
  <2>6. AnswerOK(c)'
    BY <1>2, <2>1, <2>2, <2>3, <2>4 DEF CallOK, AnswerOK
  <2> QED BY <1>2, <2>1, <2>3, <2>4, <2>5, <2>6 DEF CallOK
<1>4. EffectsOK'
  <2>1. ASSUME NEW e \in wire' \cup effects'
        PROVE  EffectOK(e)'
    <3>1. EffectOK(e)
      BY DEF Inv, EffectsOK
    <3> QED BY <3>1 DEF EffectOK, Writes, D, Sanctioned
  <2>2. ASSUME NEW e \in effects'
        PROVE  Writes(e.call)'
    BY DEF Writes, D
  <2>3. ASSUME NEW e \in wire', NEW f \in wire', e.call = f.call
        PROVE  e = f
    <3>1. e \in wire /\ f \in wire => e = f
      BY <2>3 DEF Inv, EffectsOK
    <3>2. \A g \in new : e.call = g.call => e \notin wire /\ f \notin wire
      BY <2>3 DEF Pending
    <3> QED BY <2>3, <3>1, <3>2
  <2> QED BY <2>1, <2>2, <2>3 DEF EffectsOK
<1> QED BY <1>1, <1>3, <1>4 DEF Inv

\* One call moves.
LEMMA CallStep ==
  ASSUME Inv, NEW c \in Call, NEW new \in CallRec, call' = [call EXCEPT ![c] = new],
         UNCHANGED <<groups, snapshot, config, edits, wire, effects, redirected, session>>,
         active' \in Call \cup {None}, child' \in ChildRec,
         killed' \subseteq {"timeout", "output_limit"}, staged' \subseteq Call,
         \A b \in Call \ {c} : active' = b <=> active = b,
         new.stage # "idle",
         call[c].stage = "idle" \/
           (new.tool = call[c].tool /\ new.force = call[c].force /\ new.confirmed = call[c].confirmed),
         CallOK(c)', ChildOK'
  PROVE  Inv'
<1>0. /\ call \in [Call -> CallRec] /\ call'[c] = new
      /\ \A b \in Call \ {c} : call'[b] = call[b]
  BY DEF Inv, Typed
<1>1. Typed'
  BY DEF Inv, Typed
<1>2. ASSUME NEW b \in Call
      PROVE  CallOK(b)'
  <2>1. CASE b = c
    BY <2>1
  <2>2. CASE b # c
    <3>1. CallOK(b) /\ call'[b] = call[b] /\ (active' = b <=> active = b)
      BY <1>0, <2>2 DEF Inv
    <3>2. Nothing(b)' = Nothing(b) /\ Acknowledged(b)' = Acknowledged(b)
      BY DEF Nothing, Acknowledged, Happened, Pending
    <3>3. Writes(b)' = Writes(b) /\ Sanctioned(b)' = Sanctioned(b)
      BY <3>1 DEF Writes, D, Sanctioned
    <3>4. call[b].stage = "returned" => EndOK(b, call[b].report)'
      BY <3>1, <3>2, <3>3 DEF CallOK, EndOK
    <3>5. AnswerOK(b)'
      BY <3>1, <3>2, <3>3 DEF CallOK, AnswerOK
    <3> QED BY <3>1, <3>2, <3>3, <3>4, <3>5 DEF CallOK
  <2> QED BY <2>1, <2>2
<1>3. ASSUME NEW e \in wire' \cup effects'
      PROVE  EffectOK(e)' /\ Writes(e.call)' = Writes(e.call)
  <2>1. EffectOK(e) /\ e \in Effects
    BY DEF Inv, EffectsOK, Typed
  <2>2. e.call \in Call /\ call[e.call].stage # "idle"
    BY <2>1 DEF EffectOK, Effects
  <2>3. /\ call'[e.call].tool = call[e.call].tool /\ call'[e.call].force = call[e.call].force
        /\ call'[e.call].confirmed = call[e.call].confirmed
        /\ call'[e.call].stage # "idle"
    BY <1>0, <2>2
  <2> QED BY <2>1, <2>3 DEF EffectOK, Writes, D, Sanctioned
<1>4. EffectsOK'
  BY <1>3 DEF Inv, EffectsOK
<1> QED BY <1>1, <1>2, <1>4 DEF Inv

\* Neither a call, nor the child, nor an effect moves.
LEMMA IdleStep ==
  ASSUME Inv, UNCHANGED <<groups, snapshot, call, active, child, wire, effects, redirected>>,
         config' \in Settings \cup {NotConfigured, Broken}, edits' \in 0..MaxEdits,
         killed' \subseteq {"timeout", "output_limit"}, killed \subseteq killed',
         staged' \subseteq Call, session' \in {"open", "ended", "closed"},
         session # "open" => session' # "open"
  PROVE  Inv'
<1>1. Typed'
  BY DEF Inv, Typed
<1>2. \A c : /\ Nothing(c)' = Nothing(c) /\ Acknowledged(c)' = Acknowledged(c)
             /\ Writes(c)' = Writes(c) /\ Sanctioned(c)' = Sanctioned(c)
  BY DEF Nothing, Acknowledged, Happened, Pending, Writes, D, Sanctioned
<1>3. ASSUME NEW c \in Call
      PROVE  CallOK(c)'
  BY <1>2 DEF Inv, CallOK, EndOK, AnswerOK
<1>4. ChildOK'
  BY <1>2 DEF Inv, ChildOK, EndOK
<1>5. EffectsOK'
  BY <1>2 DEF Inv, EffectsOK, EffectOK
<1> QED BY <1>1, <1>3, <1>4, <1>5 DEF Inv

-----------------------------------------------------------------------------
(* The steps of the child and of the deployments *)

LEMMA EndInputStep == Inv /\ EndInput => Inv'
BY IdleStep DEF EndInput, Inv, Typed

LEMMA CloseStep == Inv /\ Close => Inv'
BY IdleStep DEF Close, Inv, Typed

LEMMA EditConfigStep == Inv /\ EditConfig => Inv'
<1> SUFFICES ASSUME Inv, EditConfig PROVE Inv'
  OBVIOUS
<1>1. edits' \in 0..MaxEdits
  BY SessionAssumption DEF EditConfig, Inv, Typed
<1>2. config' \in Settings \cup {NotConfigured, Broken}
  BY SessionAssumption DEF EditConfig
<1> QED BY <1>1, <1>2, IdleStep DEF EditConfig, Inv, Typed

LEMMA CancelStep == Inv /\ (Deadline \/ Overflow) => Inv'
BY IdleStep DEF Deadline, Overflow, CancelRun, Inv, Typed

\* The child exits with a report that says the truth.
LEMMA ExitStep ==
  ASSUME Inv, child.at \notin {"none"}, NEW r \in Reports,
         child' = [child EXCEPT !.at = "exited", !.report = r], r.runError = "",
         active' = active, EndOK(active, r)'
  PROVE  child' \in ChildRec /\ ChildOK'
<1>1. /\ child' \in ChildRec /\ child'.at = "exited" /\ child'.report = r
  BY DEF Inv, Typed, ChildRec
<1>2. active # None
  BY DEF Inv, ChildOK
<1> QED BY <1>1, <1>2 DEF ChildOK

\* The child exits before it acted.
LEMMA ExitEarly ==
  ASSUME Inv, child.at \in {"prerun", "handler"}, NEW f \in Failures,
         ExitWith(D(active), f, {}, TRUE), Unchanged, UNCHANGED <<wire, effects, redirected>>
  PROVE  Inv'
<1>1. /\ active \in Call /\ DescriptorOK(D(active)) /\ Nothing(active)
  BY ActiveFacts DEF Inv, ChildOK
<1>2. f \in Exits
  BY DEF Failures
<1>3. PICK r \in Reports :
        /\ child' = [child EXCEPT !.at = "exited", !.report = r]
        /\ r.runError = "" /\ r.seen.exit = f.exit
  BY <1>1, <1>2, ExitReport
<1>4. Nothing(active)' /\ active' = active /\ Writes(active)' = Writes(active)
  BY <1>1 DEF Unchanged, Nothing, Happened, Pending, Writes, D
<1>5. EndOK(active, r)'
  BY <1>3, <1>4, FailureFacts DEF EndOK, Writes
<1>6. child' \in ChildRec /\ ChildOK'
  BY <1>3, <1>4, <1>5, ExitStep
<1>7. \A e \in effects' : Writes(e.call)
  BY DEF Inv, EffectsOK
<1> QED BY <1>6, <1>7, WorldStep

LEMMA PreRunStep == Inv /\ PreRun => Inv'
<1> SUFFICES ASSUME Inv, PreRun PROVE Inv'
  OBVIOUS
<1>1. child.at = "prerun" /\ Unchanged /\ UNCHANGED <<wire, effects, redirected>>
  BY DEF PreRun
<1>2. CASE ExitWith(D(active), General, {}, TRUE)
  BY <1>1, <1>2, ExitEarly, FailureFacts
<1>3. CASE ExitWith(D(active), ContextChanged, {}, TRUE)
  BY <1>1, <1>3, ExitEarly, FailureFacts
<1>4. CASE /\ verifyChildSnapshot(Loaded)
           /\ child' = [child EXCEPT !.at = "handler", !.settings = Loaded]
  <2>1. Loaded = snapshot
    BY <1>4 DEF verifyChildSnapshot
  <2>2. snapshot \in Settings
    BY SessionAssumption DEF Inv, Typed
  <2>3. /\ child' \in ChildRec /\ child'.at = "handler" /\ child'.settings = snapshot
    BY <1>4, <2>1, <2>2 DEF Inv, Typed, ChildRec
  <2>4. Nothing(active)' /\ active' = active /\ active # None /\ snapshot' = snapshot
    BY <1>1 DEF Unchanged, Nothing, Happened, Pending, Inv, ChildOK
  <2>5. ChildOK'
    BY <2>3, <2>4 DEF ChildOK
  <2>6. \A e \in effects' : Writes(e.call)
    BY <1>1 DEF Inv, EffectsOK
  <2> DEFINE new == {}
  <2>7. /\ new \in SUBSET Effects /\ wire' \subseteq wire \cup new
        /\ effects' \subseteq effects \cup wire \cup new
    BY <1>1
  <2> QED BY <1>1, <2>3, <2>5, <2>6, <2>7, WorldStep
<1> QED BY <1>2, <1>3, <1>4 DEF PreRun

LEMMA RefuseStep == Inv /\ RefuseCommand => Inv'
<1> SUFFICES ASSUME Inv, RefuseCommand PROVE Inv'
  OBVIOUS
<1>1. child.at = "handler" /\ Unchanged /\ UNCHANGED <<wire, effects, redirected>>
  BY DEF RefuseCommand
<1>2. PICK f : /\ \/ f \in D(active).command.before
                  \/ f = VetAddress(D(active).command, child.settings) /\ f # Success
               /\ ExitWith(D(active), f, {}, TRUE)
  BY DEF RefuseCommand
<1>3. f \in Failures
  BY <1>1, <1>2, ActiveFacts, VetTyped DEF Failures, DescriptorOK, CommandOK
<1> QED BY <1>1, <1>2, <1>3, ExitEarly

\* The effect of the command that runs is the session's.
LEMMA OwnEffect ==
  ASSUME Inv, child.at = "handler"
  PROVE  Effect(active) \in Effects /\ Effect(active).call = active /\ EffectOK(Effect(active))
<1>1. active \in Call /\ call[active].stage = "running" /\ (Writes(active) => Sanctioned(active))
  BY ActiveFacts
<1>2. child.settings = snapshot /\ snapshot \in Settings
  BY SessionAssumption DEF Inv, ChildOK, Typed
<1> DEFINE address == AddressOf(D(active).command, child.settings)
           e == Effect(active)
<1>3. address \in {"local", snapshot.server, snapshot.mcpServer}
  BY <1>2 DEF AddressOf
<1>4. /\ snapshot.server \in Addresses /\ snapshot.mcpServer \in Addresses
      /\ snapshot.apiToken \in Tokens
  BY <1>2 DEF Settings
<1>5. /\ e = [call |-> active, address |-> address, token |-> snapshot.apiToken]
  BY <1>2 DEF Effect
<1> HIDE DEF address, e
<1>6. e \in Effects /\ e.call = active /\ e.address = address /\ e.token = snapshot.apiToken
  BY <1>1, <1>3, <1>4, <1>5 DEF Effects
<1>7. EffectOK(e)
  BY <1>1, <1>3, <1>6 DEF EffectOK
<1> QED BY <1>6, <1>7 DEF e

LEMMA SendStep == Inv /\ Send => Inv'
<1> SUFFICES ASSUME Inv, Send PROVE Inv'
  OBVIOUS
<1>1. /\ child.at = "handler" /\ Unchanged /\ UNCHANGED <<effects, redirected>>
      /\ wire' = wire \cup {Effect(active)} /\ child' = [child EXCEPT !.at = "sent"]
  BY DEF Send
<1>2. /\ child' \in ChildRec /\ child'.at = "sent" /\ child'.settings = child.settings
  BY <1>1 DEF Inv, Typed, ChildRec
<1>3. /\ active # None /\ child.settings = snapshot
  BY <1>1 DEF Inv, ChildOK
<1>4. ChildOK'
  BY <1>1, <1>2, <1>3 DEF ChildOK, Unchanged
<1>5. /\ {Effect(active)} \in SUBSET Effects
      /\ \A e \in {Effect(active)} : e.call = active /\ EffectOK(e) /\ ~Pending(e.call)
  BY <1>1, OwnEffect DEF Inv, ChildOK, Nothing
<1>6. \A e \in effects' : Writes(e.call)
  BY <1>1 DEF Inv, EffectsOK
<1> DEFINE new == {Effect(active)}
<1>7. wire' \subseteq wire \cup new /\ effects' \subseteq effects \cup wire \cup new
  BY <1>1
<1> QED BY <1>1, <1>2, <1>4, <1>5, <1>6, <1>7, WorldStep

LEMMA ActLocallyStep == Inv /\ ActLocally => Inv'
<1> SUFFICES ASSUME Inv, ActLocally PROVE Inv'
  OBVIOUS
<1>1. /\ child.at = "handler" /\ D(active).command.place = "local" /\ Unchanged
      /\ UNCHANGED <<wire, redirected>>
      /\ child' = [child EXCEPT !.at = "answer"]
  BY DEF ActLocally
<1> DEFINE new == IF D(active).effect = "write" THEN {Effect(active)} ELSE {}
<1>2. effects' = effects \cup new
  BY DEF ActLocally
<1>3. /\ new \in SUBSET Effects /\ \A e, f \in new : e = f
      /\ \A e \in new : e.call = active /\ EffectOK(e)
  BY <1>1, OwnEffect
<1>4. \A e \in new : Writes(e.call)
  BY <1>3 DEF Writes, isSideEffecting
<1>5. Writes(active) => new = {Effect(active)}
  BY <1>1, ActiveFacts DEF DescriptorOK, Writes
<1>6. Effect(active).call = active
  BY <1>1, OwnEffect
<1> HIDE DEF new
<1>7. /\ child' \in ChildRec /\ child'.at = "answer" /\ child'.settings = child.settings
  BY <1>1 DEF Inv, Typed, ChildRec
<1>12. ~Pending(active)
  BY <1>1 DEF Inv, ChildOK, Nothing
<1>8. /\ active # None /\ child.settings = snapshot
  BY <1>1 DEF Inv, ChildOK
<1>9. Writes(active)' => Acknowledged(active)'
  <2>1. Writes(active)' = Writes(active) /\ active' = active
    BY <1>1 DEF Unchanged, Writes, D
  <2>2. Writes(active) => Effect(active) \in effects'
    BY <1>2, <1>5
  <2>3. ~Pending(active)'
    BY <1>1, <1>12, <2>1 DEF Pending
  <2> QED BY <1>6, <2>1, <2>2, <2>3 DEF Acknowledged, Happened
<1>10. ChildOK'
  BY <1>1, <1>7, <1>8, <1>9 DEF ChildOK, Unchanged
<1>11. \A e \in effects' : Writes(e.call)
  BY <1>2, <1>4 DEF Inv, EffectsOK
<1> QED BY <1>1, <1>2, <1>3, <1>7, <1>10, <1>11, <1>12, WorldStep

LEMMA TransportFailsStep == Inv /\ TransportFails => Inv'
<1> SUFFICES ASSUME Inv, TransportFails PROVE Inv'
  OBVIOUS
<1>1. /\ child.at = "sent" /\ ExitWith(D(active), Unreachable, {}, TRUE)
      /\ Unchanged /\ UNCHANGED <<wire, effects, redirected>>
  BY DEF TransportFails
<1>2. active \in Call /\ DescriptorOK(D(active))
  BY <1>1, ActiveFacts
<1>3. PICK r \in Reports :
        /\ child' = [child EXCEPT !.at = "exited", !.report = r]
        /\ r.runError = "" /\ (isSideEffecting(D(active).effect) => r.seen = Unreachable)
  BY <1>1, <1>2, ExitReport, ExitsHold, NothingQuoted
<1>4. active' = active /\ Writes(active)' = Writes(active)
  BY <1>1 DEF Unchanged, Writes, D
<1>5. EndOK(active, r)'
  BY <1>3, <1>4, FailureFacts, NotSpecific DEF EndOK, Writes
<1>6. child' \in ChildRec /\ ChildOK'
  BY <1>1, <1>3, <1>4, <1>5, ExitStep
<1>7. \A e \in effects' : Writes(e.call)
  BY <1>1 DEF Inv, EffectsOK
<1> DEFINE new == {}
<1>8. /\ new \in SUBSET Effects /\ wire' \subseteq wire \cup new
      /\ effects' \subseteq effects \cup wire \cup new
  BY <1>1
<1> QED BY <1>1, <1>6, <1>7, <1>8, WorldStep

LEMMA CommandEndsStep == Inv /\ CommandEnds => Inv'
<1> SUFFICES ASSUME Inv, CommandEnds PROVE Inv'
  OBVIOUS
<1>1. child.at = "answer" /\ Unchanged /\ UNCHANGED <<wire, effects, redirected>>
  BY DEF CommandEnds
<1>2. active \in Call /\ DescriptorOK(D(active)) /\ (Writes(active) => Acknowledged(active))
  BY <1>1, ActiveFacts DEF Inv, ChildOK
<1>3. PICK f \in Exits :
        /\ \E lacks : ExitWith(D(active), f, lacks, TRUE) \/ ExitWith(D(active), f, lacks, FALSE)
        /\ f \in D(active).command.after \/ f = Success
  <2>1. D(active).command.after \subseteq Exits /\ Success \in Exits
    BY <1>2, ExitsHold DEF DescriptorOK, CommandOK
  <2>2. CASE \E f \in D(active).command.after : ExitWith(D(active), f, {}, TRUE)
    BY <2>1, <2>2
  <2>3. CASE \E lacks \in {{}} \cup {{p} : p \in D(active).project},
                probed \in (IF D(active).effect = "probe" THEN BOOLEAN ELSE {TRUE}) :
               ExitWith(D(active), Success, lacks, probed)
    <3>1. PICK lacks \in {{}} \cup {{p} : p \in D(active).project},
               probed \in (IF D(active).effect = "probe" THEN BOOLEAN ELSE {TRUE}) :
                 ExitWith(D(active), Success, lacks, probed)
      BY <2>3
    <3>2. probed = TRUE \/ probed = FALSE
      OBVIOUS
    <3>3. ExitWith(D(active), Success, lacks, TRUE) \/ ExitWith(D(active), Success, lacks, FALSE)
      BY <3>1, <3>2
    <3> QED BY <2>1, <3>3
  <2> QED BY <2>2, <2>3 DEF CommandEnds
<1>6. Writes(active) => f = General \/ f = Success
  BY <1>2, <1>3 DEF DescriptorOK, Writes
<1>4. PICK r \in Reports :
        /\ child' = [child EXCEPT !.at = "exited", !.report = r]
        /\ r.runError = "" /\ (isSideEffecting(D(active).effect) => r.seen = f)
  <2>1. PICK lacks : \/ ExitWith(D(active), f, lacks, TRUE)
                     \/ ExitWith(D(active), f, lacks, FALSE)
    BY <1>3
  <2>2. CASE ExitWith(D(active), f, lacks, TRUE)
    BY <1>2, <1>6, <2>2, ExitReport, NothingQuoted DEF Writes
  <2>3. CASE ExitWith(D(active), f, lacks, FALSE)
    BY <1>2, <1>6, <2>3, ExitReport, NothingQuoted DEF Writes
  <2> QED BY <2>1, <2>2, <2>3
<1>5. /\ active' = active /\ Writes(active)' = Writes(active)
      /\ Acknowledged(active)' = Acknowledged(active)
  BY <1>1 DEF Unchanged, Writes, D, Acknowledged, Happened, Pending
<1>7. EndOK(active, r)'
  <2>1. Success.exit = CodeSuccess
    BY DEF Success, NewError
  <2> QED BY <1>2, <1>4, <1>5, <1>6, <2>1, NotSpecific, FailureFacts DEF EndOK, Writes
<1>8. child' \in ChildRec /\ ChildOK'
  BY <1>1, <1>4, <1>5, <1>7, ExitStep
<1>9. \A e \in effects' : Writes(e.call)
  BY <1>1 DEF Inv, EffectsOK
<1> DEFINE new == {}
<1>10. /\ new \in SUBSET Effects /\ wire' \subseteq wire \cup new
       /\ effects' \subseteq effects \cup wire \cup new
  BY <1>1
<1> QED BY <1>1, <1>8, <1>9, <1>10, WorldStep

\* A request is dealt with while the child stays where it is.
LEMMA ChildStays ==
  ASSUME Inv, Unchanged, child' = child, wire' \subseteq wire,
         effects' \subseteq effects \cup wire, effects \subseteq effects',
         redirected \subseteq redirected'
  PROVE  child' \in ChildRec /\ ChildOK'
<1>1. child' \in ChildRec
  BY DEF Inv, Typed
<1>2. /\ Nothing(active) => Nothing(active)'
      /\ Acknowledged(active) => Acknowledged(active)'
      /\ Writes(active)' = Writes(active)
  BY DEF Unchanged, Nothing, Acknowledged, Happened, Pending, Writes, D
<1>3. child.at = "exited" => EndOK(active, child.report)'
  BY <1>2 DEF Inv, ChildOK, EndOK
<1> QED BY <1>1, <1>2, <1>3 DEF Inv, ChildOK, Unchanged

LEMMA DeliverStep ==
  ASSUME Inv, NEW q \in wire, Deliver(q)
  PROVE  Inv'
<1>1. /\ wire' \subseteq wire /\ effects' \subseteq effects \cup wire
      /\ effects \subseteq effects' /\ Unchanged /\ wire' = wire \ {q}
      /\ redirected \subseteq redirected'
  BY DEF Deliver
<1>2. q \in Effects /\ q.call \in Call
  BY DEF Inv, Typed, Effects
<1>8. redirected' \subseteq redirected \cup Call
  BY <1>2 DEF Deliver
<1>9. ~Pending(q.call)'
  BY <1>1 DEF Pending, Inv, EffectsOK
<1>3. \A e \in effects' : Writes(e.call)
  BY DEF Deliver, Inv, EffectsOK, Writes
<1>4. active' = active /\ Writes(active)' = Writes(active)
  BY <1>1 DEF Unchanged, Writes, D
<1>5. CASE child' = child
  <2>1. child' \in ChildRec /\ ChildOK'
    BY <1>1, <1>5, ChildStays
  <2> DEFINE new == {}
  <2>2. /\ new \in SUBSET Effects /\ wire' \subseteq wire \cup new
        /\ effects' \subseteq effects \cup wire \cup new
    BY <1>1
  <2> QED BY <1>1, <1>3, <1>8, <2>1, <2>2, WorldStep
<1>6. CASE /\ Awaits(q) /\ child' = [child EXCEPT !.at = "answer"]
           /\ \/ effects' = IF isSideEffecting(D(q.call).effect) THEN effects \cup {q} ELSE effects
              \/ redirected' = redirected \cup {q.call}
  <2>1. child.at = "sent" /\ active = q.call
    BY <1>6 DEF Awaits
  <2>2. /\ child' \in ChildRec /\ child'.at = "answer" /\ child'.settings = child.settings
    BY <1>6 DEF Inv, Typed, ChildRec
  <2>3. active # None /\ child.settings = snapshot
    BY <2>1 DEF Inv, ChildOK
  <2>4. Writes(active)' => Acknowledged(active)'
    BY <1>4, <1>6, <1>9, <2>1 DEF Acknowledged, Happened, Writes
  <2>5. ChildOK'
    BY <1>1, <2>2, <2>3, <2>4 DEF ChildOK, Unchanged
  <2> DEFINE new == {}
  <2>6. /\ new \in SUBSET Effects /\ wire' \subseteq wire \cup new
        /\ effects' \subseteq effects \cup wire \cup new
    BY <1>1
  <2> QED BY <1>1, <1>3, <1>8, <2>2, <2>5, <2>6, WorldStep
<1>7. CASE /\ Awaits(q)
           /\ \E f \in RemoteFailures : ExitWith(D(q.call), mapRemoteError(f), {}, TRUE)
  <2>1. child.at = "sent" /\ active = q.call
    BY <1>7 DEF Awaits
  <2>2. DescriptorOK(D(active))
    BY <2>1, ActiveFacts
  <2>3. PICK f \in RemoteFailures : ExitWith(D(active), mapRemoteError(f), {}, TRUE)
    BY <1>7, <2>1
  <2>4. mapRemoteError(f) \in Exits
    BY ExitsHold
  <2>5. PICK r \in Reports :
          /\ child' = [child EXCEPT !.at = "exited", !.report = r]
          /\ r.runError = ""
          /\ (isSideEffecting(D(active).effect) => r.seen = mapRemoteError(f))
    BY <2>2, <2>3, <2>4, ExitReport, NothingQuoted
  <2>6. EndOK(active, r)'
    BY <1>4, <2>5, FailureFacts, NotSpecific DEF EndOK, Writes
  <2>7. child' \in ChildRec /\ ChildOK'
    BY <1>4, <2>1, <2>5, <2>6, ExitStep
  <2> DEFINE new == {}
  <2>8. /\ new \in SUBSET Effects /\ wire' \subseteq wire \cup new
        /\ effects' \subseteq effects \cup wire \cup new
    BY <1>1
  <2> QED BY <1>1, <1>3, <1>8, <2>7, <2>8, WorldStep
<1> QED BY <1>5, <1>6, <1>7 DEF Deliver

LEMMA LoseStep ==
  ASSUME Inv, NEW q \in wire, LoseRequest(q)
  PROVE  Inv'
<1>1. /\ wire' \subseteq wire /\ effects' = effects /\ child' = child /\ Unchanged
      /\ redirected' = redirected
  BY DEF LoseRequest
<1>2. child' \in ChildRec /\ ChildOK'
  BY <1>1, ChildStays
<1>3. \A e \in effects' : Writes(e.call)
  BY <1>1 DEF Inv, EffectsOK
<1> DEFINE new == {}
<1>4. /\ new \in SUBSET Effects /\ wire' \subseteq wire \cup new
      /\ effects' \subseteq effects \cup wire \cup new
  BY <1>1
<1> QED BY <1>1, <1>2, <1>3, <1>4, WorldStep

LEMMA KillStep == Inv /\ Kill => Inv'
<1> SUFFICES ASSUME Inv, Kill PROVE Inv'
  OBVIOUS
<1>1. /\ active # None /\ (killed # {} \/ session # "open")
      /\ child' = [child EXCEPT !.at = "dead", !.report = NoReport]
      /\ Unchanged /\ UNCHANGED <<wire, effects, redirected>>
  BY DEF Kill, Running
<1>2. child' \in ChildRec /\ child'.at = "dead"
  BY <1>1, NoReportTyped DEF Inv, Typed, ChildRec
<1>3. ChildOK'
  BY <1>1, <1>2 DEF ChildOK, Unchanged
<1>4. \A e \in effects' : Writes(e.call)
  BY <1>1 DEF Inv, EffectsOK
<1> DEFINE new == {}
<1>5. /\ new \in SUBSET Effects /\ wire' \subseteq wire \cup new
      /\ effects' \subseteq effects \cup wire \cup new
  BY <1>1
<1> QED BY <1>1, <1>2, <1>3, <1>4, <1>5, WorldStep

-----------------------------------------------------------------------------
(* The steps of a call *)

\* The child is of another call than the one that moves.
LEMMA ChildKept ==
  ASSUME Inv, NEW c \in Call, NEW new \in CallRec, call' = [call EXCEPT ![c] = new],
         active # c, UNCHANGED <<snapshot, active, child, killed, wire, effects, redirected, session>>
  PROVE  ChildOK'
<1>1. active = None \/ active \in Call \ {c}
  BY DEF Inv, Typed
<1>2. /\ Nothing(active)' = Nothing(active) /\ Acknowledged(active)' = Acknowledged(active)
  BY DEF Nothing, Acknowledged, Happened, Pending
<1>3. active # None => Writes(active)' = Writes(active)
  BY <1>1 DEF Writes, D, Inv, Typed
<1>4. ChildOK
  BY DEF Inv
<1>5. child.at = "exited" => EndOK(active, child.report)'
  BY <1>2, <1>3, <1>4 DEF ChildOK, EndOK
<1> QED BY <1>2, <1>3, <1>4, <1>5 DEF ChildOK

\* A call is answered with the truth.
LEMMA AnswerStep ==
  ASSUME Inv, NEW c \in Call, NEW result \in ResultCodes, Answer(c, result),
         call[c].stage \in {"ready", "returned"},
         UNCHANGED <<groups, snapshot, config, edits, active, child, killed, wire, effects, redirected,
                     session>>,
         Writes(c) =>
           /\ result \notin {Succeeded, CodeOutcomeUnknown, CodeProbeFailed} => Nothing(c)
           /\ result \in {Succeeded, CodeProbeFailed} => Acknowledged(c)
  PROVE  Inv'
<1>0. call \in [Call -> CallRec] /\ call[c] \in CallRec /\ call[c].report.cause \in Causes
  BY DEF Inv, Typed, CallRec, Reports
<1> DEFINE cause == call[c].report.cause
           new == [call[c] EXCEPT !.stage = "answered", !.result = result, !.cause = cause,
                                  !.report = NoReport]
<1> HIDE DEF cause
<1>1. call' = [call EXCEPT ![c] = new]
  BY <1>0 DEF Answer, cause
<1>2. "answered" \in Stage /\ NoReport \in Reports /\ cause \in Causes
  BY <1>0, NoReportTyped DEF Stage, cause
<1>3. /\ new \in CallRec /\ new.stage = "answered" /\ new.result = result
      /\ new.tool = call[c].tool /\ new.force = call[c].force
      /\ new.confirmed = call[c].confirmed
  BY <1>0, <1>2 DEF CallRec
<1> HIDE DEF new
<1>4. call'[c] = new
  BY <1>0, <1>1
<1>5. active # c
  BY DEF Inv, CallOK
<1>6. /\ Writes(c)' = Writes(c) /\ Nothing(c)' = Nothing(c)
      /\ Acknowledged(c)' = Acknowledged(c)
  BY <1>3, <1>4 DEF Writes, D, Nothing, Acknowledged, Happened, Pending
<1>7. AnswerOK(c)'
  BY <1>3, <1>4, <1>6 DEF AnswerOK
<1>8. CallOK(c)'
  BY <1>3, <1>4, <1>5, <1>7 DEF CallOK
<1>9. ChildOK'
  BY <1>1, <1>3, <1>5, ChildKept
<1>10. staged' \subseteq Call
  BY DEF Answer, Inv, Typed
<1>11. /\ active' \in Call \cup {None} /\ child' \in ChildRec
       /\ killed' \subseteq {"timeout", "output_limit"}
  BY DEF Inv, Typed
<1> QED BY <1>1, <1>3, <1>8, <1>9, <1>10, <1>11, CallStep

LEMMA RunBusyStep ==
  ASSUME Inv, NEW c \in Call, RunBusy(c)
  PROVE  Inv'
<1>1. CodeBusy \in ResultCodes
  BY DEF ResultCodes
<1>2. CodeBusy \notin {Succeeded, CodeProbeFailed}
  BY DEF CodeBusy, Succeeded, CodeProbeFailed
<1>3. Nothing(c)
  BY DEF RunBusy, Inv, CallOK
<1> QED BY <1>1, <1>2, <1>3, AnswerStep DEF RunBusy

LEMMA ReplyStep ==
  ASSUME Inv, NEW c \in Call, Reply(c)
  PROVE  Inv'
<1> DEFINE r == call[c].report
           result == finish(D(c), r.runError, r.seen, r.usable, r.probed)
<1>1. call[c].stage = "returned" /\ Answer(c, result)
  BY DEF Reply
<1>2. r.runError \in RunErrors
  BY DEF Inv, Typed, CallRec, Reports
<1>3. EndOK(c, r) /\ (r.runError = "start" => Nothing(c))
  BY <1>1 DEF Inv, CallOK
<1> HIDE DEF r
<1>4. /\ result \in ResultCodes
      /\ Writes(c) =>
           /\ r.runError \notin {"", "start"} => result = CodeOutcomeUnknown
           /\ r.runError = "start" => result \notin {Succeeded, CodeProbeFailed}
           /\ r.runError = "" /\ r.seen.exit # CodeSuccess =>
                result = classifyWriteFailure("", r.seen)
           /\ r.runError = "" /\ r.seen.exit = CodeSuccess =>
                result \in {Succeeded, CodeOutcomeUnknown, CodeProbeFailed}
  BY <1>2, FinishFacts DEF Writes
<1> HIDE DEF result
<1>5. ASSUME Writes(c)
      PROVE  /\ result \notin {Succeeded, CodeOutcomeUnknown, CodeProbeFailed} => Nothing(c)
             /\ result \in {Succeeded, CodeProbeFailed} => Acknowledged(c)
  <2>1. CASE r.runError \notin {"", "start"}
    <3>1. CodeOutcomeUnknown \notin {Succeeded, CodeProbeFailed}
      BY DEF CodeOutcomeUnknown, Succeeded, CodeProbeFailed
    <3> QED BY <1>4, <1>5, <2>1, <3>1
  <2>2. CASE r.runError = "start"
    BY <1>3, <1>4, <1>5, <2>2
  <2>3. CASE r.runError = "" /\ r.seen.exit # CodeSuccess
    BY <1>3, <1>4, <1>5, <2>3, WriteFailureCodes DEF EndOK, Specific
  <2>4. CASE r.runError = "" /\ r.seen.exit = CodeSuccess
    BY <1>3, <1>4, <1>5, <2>4 DEF EndOK
  <2> QED BY <2>1, <2>2, <2>3, <2>4
<1> QED BY <1>1, <1>4, <1>5, AnswerStep DEF Reply

LEMMA RunStartsStep ==
  ASSUME Inv, NEW c \in Call, RunStarts(c)
  PROVE  Inv'
<1>0. /\ call \in [Call -> CallRec] /\ call[c] \in CallRec /\ call[c].stage = "ready"
      /\ active = None /\ c # None
  BY SessionAssumption DEF Inv, Typed, RunStarts
<1>1. /\ Nothing(c) /\ call[c].report = NoReport /\ (Writes(c) => Sanctioned(c)) /\ ChildOK
  BY <1>0 DEF Inv, CallOK
<1>2. Nothing(c)'
  BY <1>1 DEF RunStarts, Nothing, Happened, Pending
<1>3. ASSUME NEW new \in CallRec, call' = [call EXCEPT ![c] = new],
             new.tool = call[c].tool, new.force = call[c].force,
             new.confirmed = call[c].confirmed
      PROVE  /\ call'[c] = new /\ Writes(c)' = Writes(c) /\ Sanctioned(c)' = Sanctioned(c)
  BY <1>0, <1>3 DEF Writes, D, Sanctioned, RunStarts
<1>4. CASE /\ active' = c /\ killed' = {} /\ child' = [NoChild EXCEPT !.at = "prerun"]
           /\ call' = [call EXCEPT ![c].stage = "running"]
  <2> DEFINE new == [call[c] EXCEPT !.stage = "running"]
  <2>1. call' = [call EXCEPT ![c] = new]
    BY <1>0, <1>4
  <2>2. /\ new \in CallRec /\ new.stage = "running" /\ new.report = NoReport
        /\ new.tool = call[c].tool /\ new.force = call[c].force
        /\ new.confirmed = call[c].confirmed
    BY <1>0, <1>1 DEF CallRec, Stage
  <2> HIDE DEF new
  <2>3. call'[c] = new /\ Writes(c)' = Writes(c) /\ Sanctioned(c)' = Sanctioned(c)
    BY <1>3, <2>1, <2>2
  <2>4. CallOK(c)'
    BY <1>1, <1>4, <2>2, <2>3 DEF CallOK, AnswerOK
  <2>5. child' \in ChildRec /\ child'.at = "prerun"
    BY <1>4, NoChildTyped DEF ChildRec
  <2>6. ChildOK'
    BY <1>0, <1>2, <1>4, <2>5 DEF ChildOK
  <2>7. staged' \subseteq Call /\ \A b \in Call \ {c} : active' = b <=> active = b
    BY <1>0, <1>4, SessionAssumption DEF RunStarts, Inv, Typed
  <2> QED BY <1>4, <2>1, <2>2, <2>4, <2>5, <2>6, <2>7, CallStep DEF RunStarts
<1>5. CASE /\ call' = [call EXCEPT ![c].stage = "returned",
                        ![c].report.runError = IF session = "open" THEN "start" ELSE "cancelled"]
           /\ UNCHANGED <<active, child, killed>>
  <2> DEFINE error == IF session = "open" THEN "start" ELSE "cancelled"
             report == [NoReport EXCEPT !.runError = error]
             new == [call[c] EXCEPT !.stage = "returned", !.report = report]
  <2>1. error \in RunErrors /\ error # ""
    BY DEF RunErrors
  <2> HIDE DEF error
  <2>2. report \in Reports /\ report.runError = error
    BY <2>1, NoReportTyped DEF Reports
  <2>3. call' = [call EXCEPT ![c] = new]
    BY <1>0, <1>1, <1>5 DEF error, CallRec
  <2> HIDE DEF report
  <2>4. /\ new \in CallRec /\ new.stage = "returned" /\ new.report = report
        /\ new.tool = call[c].tool /\ new.force = call[c].force
        /\ new.confirmed = call[c].confirmed
    BY <1>0, <2>2 DEF CallRec, Stage
  <2> HIDE DEF new
  <2>5. call'[c] = new /\ Writes(c)' = Writes(c) /\ Sanctioned(c)' = Sanctioned(c)
    BY <1>3, <2>3, <2>4
  <2>6. EndOK(c, call[c].report)'
    BY <2>1, <2>2, <2>4, <2>5 DEF EndOK
  <2>7. CallOK(c)'
    BY <1>0, <1>1, <1>2, <1>5, <2>4, <2>5, <2>6 DEF CallOK, AnswerOK
  <2>8. ChildOK'
    BY <1>0, <1>1, <1>5 DEF ChildOK
  <2>9. /\ staged' \subseteq Call /\ \A b \in Call \ {c} : active' = b <=> active = b
        /\ child' \in ChildRec /\ active' \in Call \cup {None}
        /\ killed' \subseteq {"timeout", "output_limit"}
    BY <1>5 DEF RunStarts, Inv, Typed
  <2> QED BY <1>5, <2>3, <2>4, <2>7, <2>8, <2>9, CallStep DEF RunStarts
<1> QED BY <1>4, <1>5 DEF RunStarts

LEMMA RunReturnsStep == Inv /\ RunReturns => Inv'
<1> SUFFICES ASSUME Inv, RunReturns PROVE Inv'
  OBVIOUS
<1>0. child.at \in {"exited", "dead"} /\ active' = None /\ child' = NoChild /\ killed' = {}
  BY DEF RunReturns
<1>1. /\ active \in Call /\ active # None /\ call[active].stage = "running"
      /\ (Writes(active) => Sanctioned(active))
  BY <1>0, ActiveFacts DEF RunReturns, Running
<1> DEFINE c == active
           error == RunError
           report == [child.report EXCEPT !.runError = error]
           new == [call[c] EXCEPT !.stage = "returned", !.report = report]
<1>2. /\ error \in RunErrors /\ error # "start"
  BY DEF RunError, RunErrors
<1>3. child.at = "dead" => error # ""
  <2>1. child.at = "dead" => killed # {} \/ session # "open"
    BY DEF Inv, ChildOK
  <2>2. killed \subseteq {"timeout", "output_limit"}
    BY DEF Inv, Typed
  <2> QED BY <2>1, <2>2 DEF RunError
<1> HIDE DEF error
<1>4. child.report \in Reports
  BY DEF Inv, Typed, ChildRec
<1>5. report \in Reports /\ report.runError = error /\ report.seen = child.report.seen
  BY <1>2, <1>4 DEF Reports
<1>6. call' = [call EXCEPT ![c] = new]
  BY <1>1 DEF RunReturns, Inv, Typed, error
<1> HIDE DEF report
<1>7. /\ new \in CallRec /\ new.stage = "returned" /\ new.report = report
      /\ new.tool = call[c].tool /\ new.force = call[c].force
      /\ new.confirmed = call[c].confirmed
  <2>1. call[c] \in CallRec
    BY <1>1 DEF Inv, Typed
  <2> QED BY <1>5, <2>1 DEF CallRec, Stage
<1> HIDE DEF new
<1>8. PICK b \in Call : b = active
  BY <1>1
<1>9. call'[b] = new
  BY <1>6, <1>8 DEF Inv, Typed
<1>10. /\ Writes(b)' = Writes(b) /\ Sanctioned(b)' = Sanctioned(b)
       /\ Nothing(b)' = Nothing(b) /\ Acknowledged(b)' = Acknowledged(b)
  BY <1>7, <1>8, <1>9
     DEF RunReturns, Writes, D, Sanctioned, Nothing, Acknowledged, Happened, Pending
<1>11. EndOK(b, call[b].report)'
  <2>1. CASE child.at = "dead"
    BY <1>3, <1>5, <1>7, <1>9, <2>1 DEF EndOK
  <2>2. CASE child.at = "exited"
    <3>1. child.report.runError = "" /\ EndOK(b, child.report)
      BY <1>8, <2>2 DEF Inv, ChildOK
    <3> QED BY <1>5, <1>7, <1>9, <1>10, <3>1 DEF EndOK
  <2> QED BY <1>0, <2>1, <2>2
<1>12. CallOK(b)'
  BY <1>0, <1>1, <1>2, <1>5, <1>7, <1>8, <1>9, <1>10, <1>11 DEF CallOK, AnswerOK
<1>13. ChildOK' /\ child' \in ChildRec
  BY <1>0, NoChildTyped DEF ChildOK
<1>14. /\ staged' \subseteq Call /\ \A a \in Call \ {b} : active' = a <=> active = a
       /\ active' \in Call \cup {None} /\ killed' \subseteq {"timeout", "output_limit"}
  BY <1>0, <1>8, SessionAssumption DEF RunReturns, Inv, Typed
<1>15. call' = [call EXCEPT ![b] = new]
  BY <1>6, <1>8
<1>16. new.tool = call[b].tool /\ new.force = call[b].force /\ new.confirmed = call[b].confirmed
  BY <1>7, <1>8
<1> QED BY <1>7, <1>12, <1>13, <1>14, <1>15, <1>16, CallStep DEF RunReturns

\* A call that is not refused is approved and confirmed.
LEMMA Unrefused ==
  ASSUME Inv, NEW tool \in ToolNames, NEW force \in BOOLEAN, NEW problems,
         force => tool = "api_register", DispatchRefusal(tool, force, problems) = "",
         isSideEffecting(catalogue[tool].effect)
  PROVE  /\ catalogue[tool].requiredGroup \in groups /\ (force => "destructive" \in groups)
         /\ problems \cap Confirmations = {}
<1>1. DescriptorOK(catalogue[tool])
  BY CatalogueOK
<1>2. CodePermissionDenied # "" /\ CodeBusy # ""
  BY DEF CodePermissionDenied, CodeBusy
<1>3. \A check : RefusalCode(check) # ""
  BY DEF RefusalCode, CodeConfirmationMismatch, CodeInternal, CodeInvalidArguments
<1>4. /\ NeededGroups(tool, force) \subseteq groups
      /\ ~Refused(catalogue[tool].checks, problems)
  BY <1>2, <1>3 DEF DispatchRefusal
<1>5. catalogue[tool].requiredGroup # ""
  BY <1>1 DEF DescriptorOK, WriteGroups
<1>6. catalogue[tool].requiredGroup \in groups /\ (force => "destructive" \in groups)
  BY <1>4, <1>5 DEF NeededGroups, additionalGroup
<1>7. problems \cap Confirmations = {}
  BY <1>1, <1>4 DEF DescriptorOK, Confirms
<1> QED BY <1>6, <1>7

LEMMA RefusalTyped ==
  ASSUME NEW tool, NEW force, NEW problems
  PROVE  LET refusal == DispatchRefusal(tool, force, problems)
         IN  refusal \in ResultCodes \cup {""} /\ refusal \notin {Succeeded, CodeProbeFailed}
<1>1. \A check : RefusalCode(check) \in {CodeConfirmationMismatch, CodeInternal,
                                         CodeInvalidArguments}
  BY DEF RefusalCode
<1>2. DispatchRefusal(tool, force, problems) \in
        {CodePermissionDenied, CodeBusy, CodeConfirmationMismatch, CodeInternal,
         CodeInvalidArguments, ""}
  BY <1>1 DEF DispatchRefusal
<1> QED BY <1>2 DEF ResultCodes, Succeeded, CodeProbeFailed, CodePermissionDenied, CodeBusy,
        CodeConfirmationMismatch, CodeInternal, CodeInvalidArguments

LEMMA DispatchStep ==
  ASSUME Inv, NEW c \in Call, Dispatch(c)
  PROVE  Inv'
<1>1. PICK tool \in Requests[snapshot][c] :
        \E force \in (IF tool = "api_register" THEN BOOLEAN ELSE {FALSE}),
           problems \in ProblemSets(tool) : dispatch(c, tool, force, problems)
  BY DEF Dispatch
<1>2. PICK force \in (IF tool = "api_register" THEN BOOLEAN ELSE {FALSE}),
           problems \in ProblemSets(tool) : dispatch(c, tool, force, problems)
  BY <1>1
<1>3. tool \in ToolNames
  BY SessionAssumption DEF Inv, Typed
<1>4. force \in BOOLEAN /\ (force => tool = "api_register")
  OBVIOUS
<1> DEFINE refusal == DispatchRefusal(tool, force, problems)
           confirmed == problems \cap Confirmations = {}
           new == IF refusal = ""
                  THEN [NoCall EXCEPT !.stage = "ready", !.tool = tool, !.force = force,
                          !.confirmed = confirmed]
                  ELSE [NoCall EXCEPT !.stage = "answered", !.tool = tool, !.result = refusal]
<1>5. /\ call[c].stage = "idle" /\ call' = [call EXCEPT ![c] = new]
      /\ staged' \subseteq staged \cup {c}
      /\ UNCHANGED <<groups, snapshot, config, edits, active, child, killed, wire, effects, redirected,
                     session>>
  BY <1>2 DEF dispatch
<1>6. refusal \in ResultCodes \cup {""} /\ refusal \notin {Succeeded, CodeProbeFailed}
  BY RefusalTyped
<1>7. confirmed \in BOOLEAN
  OBVIOUS
<1>8. refusal = "" /\ isSideEffecting(catalogue[tool].effect) =>
        /\ catalogue[tool].requiredGroup \in groups /\ (force => "destructive" \in groups)
        /\ confirmed
  BY <1>3, <1>4, Unrefused
<1>9. {"ready", "answered"} \subseteq Stage
  BY DEF Stage
<1> HIDE DEF refusal, confirmed
<1>10. /\ new \in CallRec /\ new.tool = tool
       /\ refusal = "" => /\ new.stage = "ready" /\ new.force = force
                          /\ new.confirmed = confirmed /\ new.report = NoReport
       /\ refusal # "" => new.stage = "answered" /\ new.result = refusal
  <2>1. NoCall.report = NoReport /\ NoCall \in CallRec
    BY NoCallTyped DEF NoCall
  <2> QED BY <1>3, <1>4, <1>6, <1>7, <1>9, <2>1 DEF CallRec
<1> HIDE DEF new
<1>11. call'[c] = new
  BY <1>5 DEF Inv, Typed
<1>12. Nothing(c)' /\ active' # c
  BY <1>5 DEF Inv, CallOK, Nothing, Happened, Pending
<1>13. Writes(c)' = isSideEffecting(catalogue[tool].effect)
  BY <1>10, <1>11 DEF Writes, D
<1>14. Writes(c)' /\ refusal = "" => Sanctioned(c)'
  <2>1. groups' = groups /\ D(c)' = catalogue[tool]
    BY <1>5, <1>10, <1>11 DEF D
  <2>2. refusal = "" => /\ call'[c].force = force /\ call'[c].confirmed = confirmed
    BY <1>10, <1>11
  <2> QED BY <1>8, <1>13, <2>1, <2>2, Zenon DEF Sanctioned
<1>15. CallOK(c)'
  <2>1. CASE refusal = ""
    <3>1. call'[c].stage = "ready" /\ call'[c].report = NoReport
      BY <1>10, <1>11, <2>1
    <3>2. Writes(c)' => Sanctioned(c)'
      BY <1>14, <2>1
    <3> QED BY <1>12, <3>1, <3>2 DEF CallOK, AnswerOK
  <2>2. CASE refusal # ""
    <3>1. call'[c].stage = "answered" /\ call'[c].result = refusal
      BY <1>10, <1>11, <2>2
    <3> QED BY <1>6, <1>12, <3>1 DEF CallOK, AnswerOK
  <2> QED BY <2>1, <2>2
<1>16. ChildOK'
  BY <1>5, <1>10, <1>12, ChildKept
<1>17. /\ staged' \subseteq Call /\ active' \in Call \cup {None} /\ child' \in ChildRec
       /\ killed' \subseteq {"timeout", "output_limit"} /\ new.stage # "idle"
  BY <1>5, <1>10 DEF Inv, Typed
<1> QED BY <1>5, <1>10, <1>15, <1>16, <1>17, CallStep

-----------------------------------------------------------------------------
(* Every step preserves the invariant *)

LEMMA NextInv == Inv /\ [Next]_vars => Inv'
<1> SUFFICES ASSUME Inv, [Next]_vars PROVE Inv'
  OBVIOUS
<1>1. ASSUME NEW c \in Call, Dispatch(c) \/ RunBusy(c) \/ RunStarts(c) \/ Reply(c)
      PROVE  Inv'
  BY <1>1, DispatchStep, RunBusyStep, RunStartsStep, ReplyStep
<1>2. CASE PreRun \/ RefuseCommand \/ ActLocally \/ Send \/ TransportFails \/ CommandEnds
  BY <1>2, PreRunStep, RefuseStep, ActLocallyStep, SendStep, TransportFailsStep, CommandEndsStep
<1>3. ASSUME NEW r \in wire, Deliver(r) \/ LoseRequest(r)
      PROVE  Inv'
  BY <1>3, DeliverStep, LoseStep
<1>4. CASE Deadline \/ Overflow \/ Kill \/ RunReturns
  BY <1>4, CancelStep, KillStep, RunReturnsStep
<1>5. CASE EndInput \/ Close \/ EditConfig
  BY <1>5, EndInputStep, CloseStep, EditConfigStep
<1>6. CASE UNCHANGED vars
  BY <1>6, IdleStep DEF vars, Inv, Typed
<1> QED BY <1>1, <1>2, <1>3, <1>4, <1>5, <1>6 DEF Next

LEMMA Invariant == Spec => []Inv
BY InitInv, NextInv, PTL DEF Spec

-----------------------------------------------------------------------------
(* The properties *)

\* Whatever another process writes to the configuration, also into fields
\* that were empty when the session started: every effect is on the server or
\* control plane, and with the token, that the session pinned.  A child that
\* loads anything else ends in its pre-run (ChildEnvironment, Fingerprint,
\* verifyChildSnapshot), and the state keeps its types.
THEOREM EffectsPinned == Spec => []EffectsArePinned
<1>1. Inv => EffectsArePinned
  <2> SUFFICES ASSUME Inv PROVE EffectsArePinned
    OBVIOUS
  <2>1. ASSUME NEW c \in Call
        PROVE  /\ call[c].stage \in Stage /\ call[c].tool \in ToolNames
               /\ call[c].force \in BOOLEAN /\ call[c].confirmed \in BOOLEAN
               /\ call[c].report \in Reports /\ call[c].cause \in Causes
               /\ call[c].result \in ResultCodes \cup {""}
    BY DEF Inv, Typed, CallRec
  <2>2. /\ child.at \in {"none", "prerun", "handler", "sent", "answer", "exited", "dead"}
        /\ child.settings \in Settings \cup {NotConfigured} /\ child.report \in Reports
    BY DEF Inv, Typed, ChildRec
  <2>3. TypeOK
    BY <2>1, <2>2, SessionAssumption DEF TypeOK, Inv, Typed
  <2>4. \A e \in effects : EffectOK(e)
    BY DEF Inv, EffectsOK
  <2> QED BY <2>3, <2>4 DEF EffectsArePinned, EffectOK
<1> QED BY <1>1, Invariant, PTL

\* Every effect was approved by a group given at startup, a forced replacement
\* by the destructive group too, and its caller confirmed the context and the
\* target (dispatch, additionalGroup, requireTarget).
THEOREM EffectsSanctioned == Spec => []EffectsAreSanctioned
<1>1. Inv => EffectsAreSanctioned
  BY DEF Inv, EffectsOK, EffectOK, Sanctioned, EffectsAreSanctioned
<1> QED BY <1>1, Invariant, PTL

\* A write that is answered with success, or a probe that is answered with a
\* result, was dealt with and is over: its deployment acted or its command was
\* redirected, and no request of it is on its way, also when the child was
\* cancelled while it ended.  Neither a lost answer, nor a failure, nor a kill
\* is ever taken for a success (Run, finish, cliHTTPClient).
THEOREM SuccessesAcknowledged == Spec => []SuccessIsAcknowledged
<1>1. Inv => SuccessIsAcknowledged
  BY DEF Inv, CallOK, AnswerOK, Acknowledged, SuccessIsAcknowledged
<1> QED BY <1>1, Invariant, PTL

\* A write or probe that is answered with a specific failure had no effect and
\* no request of it is on its way: whenever the session cannot know, the
\* answer is outcome_unknown (classifyWriteFailure, Run).
THEOREM SpecificFailuresTrue == Spec => []SpecificFailureMeansNoEffect
<1>1. Inv => SpecificFailureMeansNoEffect
  BY DEF Inv, CallOK, AnswerOK, Nothing, SpecificFailureMeansNoEffect
<1> QED BY <1>1, Invariant, PTL
=============================================================================
