-------------------------- MODULE ManagementSession --------------------------
(***************************************************************************)
(* One bridgectl management MCP session (bridgectl mcp --stdio).           *)
(*                                                                         *)
(* The session pins the context, the addresses and the token it was        *)
(* started with.  It answers concurrent tool calls; one call at a time     *)
(* runs a bridgectl child, whose environment pins the selection, and which *)
(* refuses to run its command when the configuration no longer yields that *)
(* selection.  The child is killed at a deadline, when its output exceeds  *)
(* a limit and when the input of the session ends.                         *)
(*                                                                         *)
(* A command on a deployment is a request that can be lost before or after *)
(* the deployment acts on it, and that the deployment may still act on     *)
(* after the child that sent it is gone.  The session itself never retries *)
(* and classifies what it saw: the model keeps, besides the answers, what  *)
(* really happened.                                                        *)
(***************************************************************************)
EXTENDS Catalogue, FiniteSets

CONSTANTS Call,       \* tool calls of the session, each made at most once
          Requests,   \* the tools each call may be of, by the selection
          Approvals,  \* the groups a session may be started with
          Selections, \* the settings a session may be started with
          Edits,      \* what another process may write to the configuration
          MaxEdits,   \* bound on those writes
          None

ASSUME SessionAssumption ==
  /\ Requests \in [Selections -> [Call -> SUBSET ToolNames]]
  /\ Approvals \subseteq SUBSET WriteGroups
  /\ Selections \subseteq Settings
  /\ Edits \subseteq Settings \cup {NotConfigured, Broken}
  /\ MaxEdits \in Nat
  /\ None \notin Call

VARIABLES
  groups,    \* the write groups approved at startup
  snapshot,  \* the pinned selection
  config,    \* the settings of the pinned context in the file
  edits,     \* writes of other processes so far
  call,      \* each call
  active,    \* the runner's slot: the call that holds it, or None
  child,     \* the child process of that call
  killed,    \* the reasons for which the run's context was cancelled
  wire,      \* requests a deployment has not dealt with yet
  effects,   \* the changes and probes that happened, and where
  redirected,\* history: the calls whose child was answered with a redirect
  staged,    \* calls with a staged manifest
  session    \* "open", "ended" (input ended) or "closed"

vars == <<groups, snapshot, config, edits, call, active, child, killed, wire,
          effects, redirected, staged, session>>

-----------------------------------------------------------------------------
(* A request is its tool, whether it forces a replacement, and the checks  *)
(* its arguments do not pass.                                              *)

Confirmations == {"confirmContext", "pinnedContext", "confirmTarget", "canonicalTarget"}

Stage == {"idle", "ready", "running", "returned", "answered"}

NoReport == [runError |-> "", seen |-> Success, usable |-> TRUE, probed |-> TRUE,
             cause |-> ""]

\* `confirmed' and `cause' are not the session's: whether the caller confirmed
\* the context and the target, and the code the command failed with.
NoCall == [stage |-> "idle", tool |-> "context_list", force |-> FALSE,
           confirmed |-> FALSE, cause |-> "", report |-> NoReport, result |-> ""]

\* The child: where it is, what it loaded, and how it ends.
NoChild == [at |-> "none", settings |-> NotConfigured, report |-> NoReport]

Exits    == {Success, General, Panic, ContextChanged, Misconfigured, InvalidURL,
             InvalidRoot, Missing, APIMissing, LegacyRegistry, Conflict, Unreachable}
            \cup {mapRemoteError(r) : r \in RemoteFailures}
Seen     == Exits \cup {NewError(f.exit, "") : f \in Exits}
Causes   == {f.error : f \in Exits}
Reports  == [runError : RunErrors, seen : Seen, usable : BOOLEAN,
             probed : BOOLEAN, cause : Causes]
Effects  == [call : Call, address : Addresses \cup {"local"}, token : Tokens]

TypeOK ==
  /\ groups \subseteq WriteGroups
  /\ snapshot \in Settings
  /\ config \in Settings \cup {NotConfigured, Broken}
  /\ edits \in 0..MaxEdits
  /\ \A c \in Call :
       /\ call[c].stage \in Stage /\ call[c].tool \in ToolNames
       /\ call[c].force \in BOOLEAN /\ call[c].confirmed \in BOOLEAN
       /\ call[c].report \in Reports /\ call[c].cause \in Causes
       /\ call[c].result \in ResultCodes \cup {""}
  /\ active \in Call \cup {None}
  /\ child.at \in {"none", "prerun", "handler", "sent", "answer", "exited", "dead"}
  /\ child.settings \in Settings \cup {NotConfigured}
  /\ child.report \in Reports
  /\ killed \subseteq {"timeout", "output_limit"}
  /\ wire \subseteq Effects /\ effects \subseteq Effects /\ redirected \subseteq Call
  /\ staged \subseteq Call
  /\ session \in {"open", "ended", "closed"}

Init ==
  /\ groups \in Approvals
  /\ snapshot \in Selections
  /\ config = snapshot
  /\ edits = 0
  /\ call = [c \in Call |-> NoCall]
  /\ active = None /\ child = NoChild /\ killed = {}
  /\ wire = {} /\ effects = {} /\ redirected = {}
  /\ staged = {}
  /\ session = "open"

-----------------------------------------------------------------------------
(* Dispatch *)

D(c) == catalogue[call[c].tool]

\* The groups a call needs.
NeededGroups(tool, force) ==
  (IF catalogue[tool].requiredGroup = "" THEN {} ELSE {catalogue[tool].requiredGroup})
    \cup additionalGroup(tool, force)

Busy == active # None

\* The answer of a dispatch that never runs a child, or "".
DispatchRefusal(tool, force, problems) ==
  IF NeededGroups(tool, force) \ groups # {} THEN CodePermissionDenied
  ELSE IF Busy THEN CodeBusy
  ELSE IF Refused(catalogue[tool].checks, problems)
    THEN RefusalCode(FirstProblem(catalogue[tool].checks, problems))
  ELSE ""

\* Arguments differ in the checks they fail: none, one, or two of them.
ProblemSets(tool) ==
  LET own == {catalogue[tool].checks[i] : i \in 1..Len(catalogue[tool].checks)}
             \cup (IF isSideEffecting(catalogue[tool].effect) THEN Confirmations ELSE {})
  IN  {{}} \cup {{p} : p \in own}
        \cup (IF isSideEffecting(catalogue[tool].effect)
              THEN {{"canonicalTarget", p} : p \in own} ELSE {})

\* dispatch up to the runner: permission, busy, validation, staging.
dispatch(c, tool, force, problems) ==
  LET refusal == DispatchRefusal(tool, force, problems)
  IN  /\ call[c].stage = "idle" /\ session = "open"
      /\ call' = [call EXCEPT ![c] =
                    IF refusal = ""
                    THEN [NoCall EXCEPT !.stage = "ready", !.tool = tool, !.force = force,
                            !.confirmed = problems \cap Confirmations = {}]
                    ELSE [NoCall EXCEPT !.stage = "answered", !.tool = tool,
                            !.result = refusal]]
      /\ staged' = IF refusal = "" /\ Stages(catalogue[tool]) THEN staged \cup {c} ELSE staged
      /\ UNCHANGED <<groups, snapshot, config, edits, active, child, killed, wire,
                     effects, redirected, session>>

Dispatch(c) ==
  \E tool \in Requests[snapshot][c] :
    \E force \in (IF tool = "api_register" THEN BOOLEAN ELSE {FALSE}),
       problems \in ProblemSets(tool) : dispatch(c, tool, force, problems)

Answer(c, result) ==
  /\ call' = [call EXCEPT ![c].stage = "answered", ![c].result = result,
                          ![c].cause = call[c].report.cause, ![c].report = NoReport]
  /\ staged' = staged \ {c}

\* Run refuses a call that finds the slot taken.
RunBusy(c) ==
  /\ call[c].stage = "ready" /\ active # None
  /\ Answer(c, CodeBusy)
  /\ UNCHANGED <<groups, snapshot, config, edits, active, child, killed, wire,
                 effects, redirected, session>>

\* Run takes the slot and starts the child, unless the context is cancelled
\* already or the process cannot be started.
RunStarts(c) ==
  /\ call[c].stage = "ready" /\ active = None
  /\ \/ /\ session = "open"
        /\ active' = c /\ killed' = {}
        /\ child' = [NoChild EXCEPT !.at = "prerun"]
        /\ call' = [call EXCEPT ![c].stage = "running"]
     \/ /\ call' = [call EXCEPT ![c].stage = "returned",
                      ![c].report.runError = IF session = "open" THEN "start" ELSE "cancelled"]
        /\ UNCHANGED <<active, child, killed>>
  /\ UNCHANGED <<groups, snapshot, config, edits, wire, effects, redirected, staged, session>>

-----------------------------------------------------------------------------
(* The child process *)

Unchanged == UNCHANGED <<groups, snapshot, config, edits, call, active, killed, staged, session>>

\* What the runner reads of the child's end: the exit, and whether the output
\* has what the projection of the call needs.
ExitWith(d, failure, lacks, probed) ==
  \E seen \in handleError(d.command, failure) :
    child' = [child EXCEPT !.at = "exited",
                !.report = [runError |-> "", seen |-> seen,
                            usable |-> lacks \cap d.project = {}, probed |-> probed,
                            cause |-> IF isSideEffecting(d.effect) THEN "" ELSE failure.error]]

\* The environment of the child holds the pinned values; verifyChildSnapshot
\* compares the fingerprint of what it loaded with that of the session.
Loaded == applyEnvOverrides(snapshot, config)
\* Mutation of verifyChildSnapshot: only the server is compared.
verifyChildSnapshotServer(settings) == settings.server = snapshot.server
verifyChildSnapshot(settings) == settings = snapshot

\* PersistentPreRunE.
PreRun ==
  /\ child.at = "prerun"
  /\ \/ /\ config = Broken
        /\ ExitWith(D(active), General, {}, TRUE)
     \/ /\ config # Broken
        /\ config = NotConfigured \/ ~verifyChildSnapshot(Loaded)
        /\ ExitWith(D(active), ContextChanged, {}, TRUE)
     \/ /\ config \notin {Broken, NotConfigured} /\ verifyChildSnapshot(Loaded)
        /\ child' = [child EXCEPT !.at = "handler", !.settings = Loaded]
  /\ Unchanged /\ UNCHANGED <<wire, effects, redirected>>

\* The command ends before it acts.
RefuseCommand ==
  /\ child.at = "handler"
  /\ LET cmd == D(active).command
         vet == VetAddress(cmd, child.settings)
     IN  \E f \in cmd.before \cup ({vet} \ {Success}) : ExitWith(D(active), f, {}, TRUE)
  /\ Unchanged /\ UNCHANGED <<wire, effects, redirected>>

Effect(c) == [call |-> c, address |-> AddressOf(D(c).command, child.settings),
              token |-> child.settings.apiToken]

\* A local command acts, by one rename, and ends.
ActLocally ==
  /\ child.at = "handler" /\ D(active).command.place = "local"
  /\ effects' = IF D(active).effect = "write" THEN effects \cup {Effect(active)} ELSE effects
  /\ child' = [child EXCEPT !.at = "answer"]
  /\ Unchanged /\ UNCHANGED <<wire, redirected>>

Send ==
  /\ child.at = "handler" /\ D(active).command.place = "remote"
  /\ VetAddress(D(active).command, child.settings) = Success
  /\ wire' = wire \cup {Effect(active)}
  /\ child' = [child EXCEPT !.at = "sent"]
  /\ Unchanged /\ UNCHANGED <<effects, redirected>>

\* The transport fails: the request may or may not still arrive.
TransportFails ==
  /\ child.at = "sent"
  /\ ExitWith(D(active), Unreachable, {}, TRUE)
  /\ Unchanged /\ UNCHANGED <<wire, effects, redirected>>

\* A deployment deals with a request: it acts and answers; or answers with a
\* failure, of which the session cannot tell whether it acted; or something
\* before it answers with a redirect, which cliHTTPClient does not follow and
\* the commands, which fail from status 400 on, take for an answer like any
\* other.  The answer reaches the child that sent the request, if that is still
\* waiting: a redirect nobody waits for is a lost request.
Awaits(r) == child.at = "sent" /\ active = r.call

Deliver(r) ==
  /\ wire' = wire \ {r}
  /\ \/ /\ effects' = IF isSideEffecting(D(r.call).effect) THEN effects \cup {r} ELSE effects
        /\ IF Awaits(r) THEN child' = [child EXCEPT !.at = "answer"] ELSE UNCHANGED child
        /\ UNCHANGED redirected
     \/ /\ \/ UNCHANGED effects
           \/ isSideEffecting(D(r.call).effect) /\ effects' = effects \cup {r}
        /\ IF Awaits(r)
             THEN \E f \in RemoteFailures :
                    ExitWith(D(r.call), mapRemoteError(f), {}, TRUE)
             ELSE UNCHANGED child
        /\ UNCHANGED redirected
     \/ /\ Awaits(r)
        /\ child' = [child EXCEPT !.at = "answer"]
        /\ redirected' = redirected \cup {r.call}
        /\ UNCHANGED effects
  /\ Unchanged

LoseRequest(r) ==
  /\ wire' = wire \ {r}
  /\ Unchanged /\ UNCHANGED <<child, effects, redirected>>

\* The command acted, or was answered: it prints its output and ends, or
\* fails on what it was answered.  An apply, a delete and a revocation do not
\* look at the body of an answer, so that a redirect ends them with success.
CommandEnds ==
  /\ child.at = "answer"
  /\ LET d == D(active)
     IN  \/ \E f \in d.command.after : ExitWith(d, f, {}, TRUE)
         \/ \E lacks \in {{}} \cup {{p} : p \in d.project},
               probed \in (IF d.effect = "probe" THEN BOOLEAN ELSE {TRUE}) :
              ExitWith(d, Success, lacks, probed)
  /\ Unchanged /\ UNCHANGED <<wire, effects, redirected>>

-----------------------------------------------------------------------------
(* Run: the end of the child *)

Running == active # None

\* The deadline, an output over the limit (a child that prints) and the end
\* of the input cancel the run; the child may go on until it is killed.
CancelRun(why) ==
  /\ Running
  /\ killed' = killed \cup {why}
  /\ UNCHANGED <<groups, snapshot, config, edits, call, active, child, wire,
                 effects, redirected, staged, session>>

\* Mutation of Deadline: it is armed only once the output is over its limit.
DeadlineOnOverflow == killed = {"output_limit"} /\ session = "open" /\ CancelRun("timeout")

\* A deadline after another cancellation is not seen as one.
Deadline == killed = {} /\ session = "open" /\ CancelRun("timeout")
Overflow ==
  /\ "output_limit" \notin killed /\ child.at \notin {"prerun", "dead"}
  /\ CancelRun("output_limit")

\* Mutation of Kill: the child does not depend on the context of the session.
KillDetached ==
  /\ Running /\ child.at \notin {"exited", "dead"}
  /\ killed # {}
  /\ child' = [child EXCEPT !.at = "dead", !.report = NoReport]
  /\ Unchanged /\ UNCHANGED <<wire, effects, redirected>>

Kill ==
  /\ Running /\ child.at \notin {"exited", "dead"}
  /\ killed # {} \/ session # "open"
  /\ child' = [child EXCEPT !.at = "dead", !.report = NoReport]
  /\ Unchanged /\ UNCHANGED <<wire, effects, redirected>>

\* The run error of a child that is gone, tested in this order: overflow, a
\* success, the deadline, the cancellation, and else the exit code.
RunError ==
  IF "output_limit" \in killed THEN "output_limit"
  ELSE IF child.at = "exited" /\ child.report.seen.exit = CodeSuccess THEN ""
  ELSE IF "timeout" \in killed THEN "timeout"
  ELSE IF session # "open" THEN "cancelled"
  ELSE ""

\* Run returns: the slot is free before the outcome is classified.
RunReturns ==
  /\ Running /\ child.at \in {"exited", "dead"}
  /\ call' = [call EXCEPT ![active].stage = "returned",
                ![active].report = [child.report EXCEPT !.runError = RunError]]
  /\ active' = None /\ child' = NoChild /\ killed' = {}
  /\ UNCHANGED <<groups, snapshot, config, edits, wire, effects, redirected, staged, session>>

\* finish, the removal of the staged file and the answer.
Reply(c) ==
  /\ call[c].stage = "returned"
  /\ LET r == call[c].report
     IN  Answer(c, finish(D(c), r.runError, r.seen, r.usable, r.probed))
  /\ UNCHANGED <<groups, snapshot, config, edits, active, child, killed, wire,
                 effects, redirected, session>>

-----------------------------------------------------------------------------
(* The session, and the rest of the world *)

\* The input ends, a message exceeds its limit, or a signal arrives: the
\* session context is cancelled.
EndInput ==
  /\ session = "open"
  /\ session' = "ended"
  /\ UNCHANGED <<groups, snapshot, config, edits, call, active, child, killed,
                 wire, effects, redirected, staged>>

\* Listen returns once no handler is active; Close removes the staging
\* directory.
Close ==
  /\ session = "ended"
  /\ \A c \in Call : call[c].stage \in {"idle", "answered"}
  /\ session' = "closed" /\ staged' = {}
  /\ UNCHANGED <<groups, snapshot, config, edits, call, active, child, killed,
                 wire, effects, redirected>>

\* Another process rewrites the configuration.
EditConfig ==
  /\ edits < MaxEdits
  /\ edits' = edits + 1
  /\ config' \in Edits \ {config}
  /\ UNCHANGED <<groups, snapshot, call, active, child, killed, wire, effects, redirected,
                 staged, session>>

Next ==
  \/ \E c \in Call : Dispatch(c) \/ RunBusy(c) \/ RunStarts(c) \/ Reply(c)
  \/ PreRun \/ RefuseCommand \/ ActLocally \/ Send \/ TransportFails \/ CommandEnds
  \/ \E r \in wire : Deliver(r) \/ LoseRequest(r)
  \/ Deadline \/ Overflow \/ Kill \/ RunReturns
  \/ EndInput \/ Close \/ EditConfig

Spec == Init /\ [][Next]_vars

\* The session's own steps, the deadline of a run and the kill happen; the
\* child, the deployments and the editor are left to themselves.
FairSpec ==
  /\ Spec
  /\ \A c \in Call : WF_vars(RunBusy(c) \/ RunStarts(c)) /\ WF_vars(Reply(c))
  /\ WF_vars(Deadline) /\ WF_vars(Kill) /\ WF_vars(RunReturns) /\ WF_vars(Close)

-----------------------------------------------------------------------------
(* Properties *)

Writes(c) == isSideEffecting(D(c).effect)
Happened(c) == \E e \in effects : e.call = c
Pending(c)  == \E r \in wire : r.call = c

\* A write or probe that is answered with a specific failure had no effect and
\* never will have one: nothing of it is on its way either.  The two answers
\* that leave the effect open are outcome_unknown and the observation
\* probe_failed (classifyWriteFailure).
SpecificFailureMeansNoEffect ==
  \A c \in Call :
    /\ call[c].stage = "answered" /\ Writes(c)
    /\ call[c].result \notin {Succeeded, CodeOutcomeUnknown, CodeProbeFailed}
    => ~Happened(c) /\ ~Pending(c)

\* A write that is answered with success, and a probe that is answered with a
\* result, was dealt with: its deployment acted, or its command was redirected,
\* which is the one way a command completes and nothing was done (WriteData
\* reports the completion of the command); and no request of it is still on its
\* way, so that nothing happens after the answer (Run, finish).
SuccessIsAcknowledged ==
  \A c \in Call :
    call[c].stage = "answered" /\ Writes(c) /\ call[c].result \in {Succeeded, CodeProbeFailed}
      => ~Pending(c) /\ (Happened(c) \/ c \in redirected)

\* Every effect was approved at startup, a forced replacement also as a
\* destructive one, and confirmed by the caller (dispatch, requireTarget).
EffectsAreSanctioned ==
  \A e \in effects :
    /\ D(e.call).requiredGroup \in groups
    /\ call[e.call].force => "destructive" \in groups
    /\ call[e.call].confirmed

\* In a state of the right types, an effect is on the deployment, and with the
\* token, the session was started with, whatever was written to the
\* configuration meanwhile, also into fields that were empty
\* (ChildEnvironment, Fingerprint, verifyChildSnapshot).
EffectsArePinned ==
  /\ TypeOK
  /\ \A e \in effects :
       /\ e.address \in {"local", snapshot.server, snapshot.mcpServer}
       /\ e.token = snapshot.apiToken

\* A read the deployment refused as not authorized is answered
\* authorization_denied, the code the adapter has for it (childFailureCodes).
DenialsAreNamed ==
  \A c \in Call :
    /\ call[c].stage = "answered" /\ ~Writes(c)
    /\ call[c].result \notin {CodeDeadline, CodeCancelled, CodeOutputLimit}
    /\ call[c].cause = "AUTHORIZATION_DENIED"
    => call[c].result = CodeAuthorizationDenied

\* Every call that was dispatched is answered, whatever its child and the
\* deployment do (Run's deadline).
CallsAnswered ==
  \A c \in Call : call[c].stage = "ready" ~> call[c].stage = "answered"

\* A session whose input ended closes (cancelOnEndReader, Serve).
SessionCloses == session = "ended" ~> session = "closed"
=============================================================================
