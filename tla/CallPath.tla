------------------------------ MODULE CallPath ------------------------------
(***************************************************************************)
(* A tool call from its arrival to its answer: rate limit, concurrency     *)
(* limit, the read of the plugin bindings, the ERP request behind a        *)
(* circuit breaker and with retries, the plugins before and after the      *)
(* response is normalized, and the release of the permit.                  *)
(*                                                                         *)
(* Calls run concurrently and share the limiters, the breaker and the      *)
(* snapshot of bindings, which changes under them, as does the revision of *)
(* the tool that new calls are of.  A response body is known by whether    *)
(* the tool's response path and output schema accept it.  Cache, role      *)
(* checks and the authority of a revision are not part of this model.      *)
(***************************************************************************)
EXTENDS Limiters, Sequences

CONSTANTS Call,
          Deployments,  \* a tool (kind, method, concurrency limit and its scope)
                        \* with its bindings (failure policies by phase)
          Successors,   \* the deployments that may follow each
          MaxSwaps,     \* bound on changes of deployment
          MaxTicks,     \* bound on ticks
          MaxExpiries,  \* bound on the breaker's own transitions
          MaxAttempts,  \* maxRetryAttempts
          HalfOpenRequests, MinRequests   \* the breaker's settings

Methods  == {"GET", "HEAD", "OPTIONS", "POST", "PUT", "PATCH", "DELETE"}
Policies == {"continue", "fail"}

ASSUME CallPathAssumption ==
  /\ \A d \in Deployments :
       /\ d.tool \in [kind : {"native", "http"}, method : Methods, limit : Nat,
                      perPrincipal : BOOLEAN]
       /\ d.raw \in Seq(Policies) /\ d.after \in Seq(Policies)
  /\ Successors \in [Deployments -> SUBSET Deployments]
  /\ {MaxSwaps, MaxTicks, MaxExpiries} \subseteq Nat
  /\ {MaxAttempts, HalfOpenRequests, MinRequests} \subseteq Nat \ {0}
  /\ IsFiniteSet(Call) /\ "none" \notin Call \cup Principal

VARIABLES
  active,    \* the tool's revision and the snapshot of its bindings
  call,
  entries,   \* the concurrency limiter
  limiters,  \* the rate limiter
  cb,        \* the circuit breaker
  swaps, ticks, expiries,
  quiet,     \* ticks since a principal's last call, admitted or not
  credit     \* tokens a principal may have: those of a bucket that is only
             \* forgotten when its principal was quiet for the idle time

vars == <<active, call, entries, limiters, cb, swaps, ticks, expiries, quiet, credit>>

NoTool == [kind |-> "native", method |-> "GET", limit |-> 0, perPrincipal |-> FALSE]

Idle == [stage |-> "idle", tool |-> NoTool, principal |-> "nobody", key |-> "none",
         id |-> "none", raw |-> <<>>, after |-> <<>>, sent |-> 0, transient |-> FALSE,
         generation |-> 0, admitted |-> FALSE, failed |-> FALSE,
         captured |-> "none", value |-> "none", body |-> "none", rawDone |-> 0,
         afterDone |-> 0, broken |-> [raw |-> 0, after |-> 0], answer |-> ""]

Stages == {"idle", "permit", "bindRaw", "bindAfter", "execute", "admit", "attempt",
           "normalize", "raw", "after", "returning", "answered"}
Answers == {"", "success", "error", "rate_limited", "concurrency_limited", "protocol"}

Init ==
  /\ active \in Deployments
  /\ call = [c \in Call |-> Idle]
  /\ entries = [k \in Keys |-> NoEntry]
  /\ limiters = [u \in Principal |-> NoLimiter]
  /\ cb = [state |-> "closed", requests |-> 0, failures |-> 0, successes |-> 0,
           generation |-> 0]
  /\ swaps = 0 /\ ticks = 0 /\ expiries = 0
  /\ quiet = [u \in Principal |-> 0]
  /\ credit = [u \in Principal |-> Burst]

TypeOK ==
  /\ active \in Deployments
  /\ \A c \in Call :
       /\ call[c].stage \in Stages /\ call[c].answer \in Answers
       /\ call[c].key \in Keys \cup {"none"} /\ call[c].id \in Call \cup {"none"}
       /\ call[c].captured \in {"none", "2xx", "other"}
       /\ {call[c].value, call[c].body} \subseteq {"none", "valid", "invalid"}
       /\ call[c].rawDone \in 0..Len(call[c].raw) /\ call[c].afterDone \in 0..Len(call[c].after)
       /\ call[c].sent \in 0..MaxAttempts
  /\ \A k \in Keys : entries[k].active \in 0..entries[k].limit
  /\ \A u \in Principal : limiters[u].tokens \in 0..Burst
  /\ cb.state \in {"closed", "open", "half-open"} /\ cb.failures \in 0..cb.requests

-----------------------------------------------------------------------------
(* The limits *)

Limits == <<entries, limiters, quiet, credit>>
World  == <<active, swaps, ticks, expiries>>

Update(c, new) == call' = [call EXCEPT ![c] = new]
To(c, stage)   == Update(c, [call[c] EXCEPT !.stage = stage])
\* An answered call is remembered by what the breaker saw of it.
Answered(c, answer) ==
  Update(c, [Idle EXCEPT !.stage = "answered", !.answer = answer, !.failed = call[c].failed,
                         !.admitted = call[c].admitted, !.generation = call[c].generation])
Return(c, answer) == Update(c, [call[c] EXCEPT !.stage = "returning", !.answer = answer])

\* RateLimitMiddleware.Handle.
Arrive(c) ==
  /\ call[c].stage = "idle"
  /\ \E u \in Principal :
       LET r == Handle(limiters, u)
           new == [Idle EXCEPT !.stage = "permit", !.principal = u, !.tool = active.tool]
       IN  /\ limiters' = r.limiters
           /\ quiet' = [quiet EXCEPT ![u] = 0]
           /\ \/ r.admitted /\ Update(c, new)
              \/ ~r.admitted /\ Answered(c, "rate_limited")
           /\ credit' = IF r.admitted THEN [credit EXCEPT ![u] = @ - 1] ELSE credit
  /\ UNCHANGED <<entries, cb, World>>

\* ConcurrencyMiddleware: no limit, or a permit, or an answer.
ConcurrencyMiddleware(c) ==
  /\ call[c].stage = "permit"
  /\ LET t   == call[c].tool
         key == keyOf(call[c].principal, t.perPrincipal)
         a   == acquire(entries, key, t.limit, c)
     IN  \/ t.limit = 0 /\ To(c, "bindRaw") /\ UNCHANGED entries
         \/ /\ t.limit > 0
            /\ entries' = a.entries
            /\ \/ /\ a.granted
                  /\ Update(c, [call[c] EXCEPT !.stage = "bindRaw", !.key = key, !.id = a.id,
                                              !.principal = "nobody"])
               \/ ~a.granted /\ Answered(c, "concurrency_limited")
  /\ UNCHANGED <<limiters, quiet, credit, cb, World>>

\* Mutation of Release: nothing releases the permit of a handler that panics.
ReleaseUnlessPanic(c) ==
  /\ call[c].stage = "returning"
  /\ entries' = IF call[c].id = "none" \/ call[c].answer = "protocol" THEN entries
                ELSE releaseFunc(entries, call[c].key, call[c].id)
  /\ Answered(c, call[c].answer)
  /\ UNCHANGED <<limiters, quiet, credit, cb, World>>

\* The deferred release, and the answer.
Release(c) ==
  /\ call[c].stage = "returning"
  /\ entries' = IF call[c].id = "none" THEN entries
                ELSE releaseFunc(entries, call[c].key, call[c].id)
  /\ Answered(c, call[c].answer)
  /\ UNCHANGED <<limiters, quiet, credit, cb, World>>

-----------------------------------------------------------------------------
(* executeTool *)

\* The two phases are read from the registry one after the other.
BindRaw(c) ==
  /\ call[c].stage = "bindRaw"
  /\ Update(c, [call[c] EXCEPT !.raw = active.raw, !.stage = "bindAfter"])
  /\ UNCHANGED <<Limits, cb, World>>

BindAfter(c) ==
  /\ call[c].stage = "bindAfter"
  /\ Update(c, [call[c] EXCEPT !.after = active.after, !.stage = "execute"])
  /\ UNCHANGED <<Limits, cb, World>>

\* handlePluginFailure: the answer of the fail policy of the phase's i-th
\* binding, or else a way on.
handlePluginFailure(c, phase, i, goOn) ==
  [IF call[c][phase][i] = "fail"
   THEN [call[c] EXCEPT !.stage = "returning", !.answer = "error"]
   ELSE goOn EXCEPT !.broken[phase] = i]

\* A body or a result: do the response path and the output schema accept it?
Bodies == {"valid", "invalid"}

\* normalizeCapturedERPResponse and the status before it.
normalizeCapturedERPResponse(c) == call[c].captured = "2xx" /\ call[c].body = "valid"

\* PluginClient.Process: a result, or a failure of any kind, the plugin's
\* deadline included.
Process == Bodies \cup {"failure"}

\* rawProcessingFailure: with continue, the captured response by itself goes
\* on to the other phase if it is a success the tool accepts.
rawProcessingFailure(c, i) ==
  handlePluginFailure(c, "raw", i,
    IF normalizeCapturedERPResponse(c)
    THEN [call[c] EXCEPT !.stage = "after", !.value = "valid", !.rawDone = 0]
    ELSE [call[c] EXCEPT !.stage = "returning", !.answer = "error"])

\* A native handler answers, fails or panics; RecoveryMiddleware turns the
\* panic into a protocol error.  With raw bindings it is not run.
ExecuteNative(c) ==
  /\ call[c].stage = "execute" /\ call[c].tool.kind = "native"
  /\ \/ /\ call[c].raw # <<>>
        /\ Update(c, rawProcessingFailure(c, 1))
     \/ /\ call[c].raw = <<>>
        /\ \E answer \in {"error", "protocol"} : Return(c, answer)
     \/ /\ call[c].raw = <<>>
        /\ Update(c, [call[c] EXCEPT !.stage = "normalize", !.captured = "2xx"])
  /\ UNCHANGED <<Limits, cb, World>>

\* prepareERPCall: the request is built, or it cannot be (arguments,
\* credential, transport); the raw path treats that as a failure of its
\* first binding.
prepareERPCall(c) ==
  /\ call[c].stage = "execute" /\ call[c].tool.kind = "http"
  /\ \/ To(c, "admit")
     \/ Update(c, IF call[c].raw = <<>>
                  THEN [call[c] EXCEPT !.stage = "returning", !.answer = "error"]
                  ELSE rawProcessingFailure(c, 1))
  /\ UNCHANGED <<Limits, cb, World>>

-----------------------------------------------------------------------------
(* The circuit breaker (gobreaker) and the retries *)

NewGeneration(state) ==
  [state |-> state, requests |-> 0, failures |-> 0, successes |-> 0,
   generation |-> cb.generation + 1]

Refuses == cb.state = "open" \/ (cb.state = "half-open" /\ cb.requests >= HalfOpenRequests)

\* Execute, before the request: the breaker's own refusals are faults, which
\* the raw path answers as they are.
Admit(c) ==
  /\ call[c].stage = "admit"
  /\ \/ /\ Refuses
        /\ Return(c, "error")
        /\ UNCHANGED cb
     \/ /\ ~Refuses
        /\ cb' = [cb EXCEPT !.requests = @ + 1]
        /\ Update(c, [call[c] EXCEPT !.stage = "attempt", !.admitted = TRUE,
                       !.generation = cb.generation])
  /\ UNCHANGED <<Limits, World>>

\* ReadyToTrip: at least so many requests, of which 60% failed.
ReadyToTrip(b) == b.requests >= MinRequests /\ 10 * b.failures >= 6 * b.requests

\* Execute, after the request: an outcome of an earlier generation is dropped.
afterRequest(c, success) ==
  LET failed == [cb EXCEPT !.failures = @ + 1]
      passed == [cb EXCEPT !.successes = @ + 1]
  IN  CASE call[c].generation # cb.generation -> cb
        [] call[c].generation = cb.generation /\ success ->
             IF cb.state = "half-open" /\ passed.successes >= HalfOpenRequests
             THEN NewGeneration("closed") ELSE passed
        [] OTHER -> IF cb.state = "half-open" \/ ReadyToTrip(failed)
                    THEN NewGeneration("open") ELSE failed

\* Mutation of retrySafeMethod: PUT counts as safe.
retryIdempotentMethod(method) == method \in {"GET", "HEAD", "OPTIONS", "PUT"}

retrySafeMethod(method) == method \in {"GET", "HEAD", "OPTIONS"}

AttemptsLeft(c) ==
  call[c].sent + 1 < (IF retrySafeMethod(call[c].tool.method) THEN MaxAttempts ELSE 1)

\* What a captured response goes on to: the raw plugins see every status.
Captured(c, status) ==
  [call[c] EXCEPT !.sent = @ + 1, !.captured = status, !.transient = FALSE,
     !.stage = IF call[c].raw # <<>> THEN "raw"
               ELSE IF status = "2xx" THEN "normalize" ELSE "returning",
     !.answer = IF call[c].raw = <<>> /\ status # "2xx" THEN "error" ELSE ""]

\* A response that is not transient ends the retries, a success or not.
AttemptAnswered(c) ==
  /\ call[c].stage = "attempt"
  /\ \E status \in {"2xx", "other"} : Update(c, Captured(c, status))
  /\ cb' = afterRequest(c, TRUE)
  /\ UNCHANGED <<Limits, World>>

\* A transient response, or none at all: another attempt, or, at the last
\* one and at the deadline of the call, a failure for the breaker, with the
\* last transient response if there was one.
Failed(c, transient) ==
  [IF call[c].transient \/ transient THEN Captured(c, "other")
   ELSE [call[c] EXCEPT !.sent = @ + 1, !.stage = "returning", !.answer = "error"]
   EXCEPT !.failed = TRUE]

\* Mutation of AttemptFails: a preserved error response is a success for the
\* breaker.
AttemptFailsUncounted(c) ==
  /\ call[c].stage = "attempt"
  /\ \E transient \in BOOLEAN :
       \/ /\ AttemptsLeft(c)
          /\ Update(c, [call[c] EXCEPT !.sent = @ + 1, !.transient = @ \/ transient])
          /\ UNCHANGED cb
       \/ /\ Update(c, Failed(c, transient))
          /\ cb' = afterRequest(c, call[c].transient \/ transient)
  /\ UNCHANGED <<Limits, World>>

AttemptFails(c) ==
  /\ call[c].stage = "attempt"
  /\ \E transient \in BOOLEAN :
       \/ /\ AttemptsLeft(c)
          /\ Update(c, [call[c] EXCEPT !.sent = @ + 1, !.transient = @ \/ transient])
          /\ UNCHANGED cb
       \/ /\ Update(c, Failed(c, transient))
          /\ cb' = afterRequest(c, FALSE)
  /\ UNCHANGED <<Limits, World>>

-----------------------------------------------------------------------------
(* The response and its plugins *)

\* Execute: decoding, response path and schema.
Normalize(c) ==
  /\ call[c].stage = "normalize"
  /\ \/ Update(c, [call[c] EXCEPT !.stage = "after", !.value = "valid", !.body = "valid"])
     \/ Return(c, "error")
  /\ UNCHANGED <<Limits, cb, World>>

\* CallERP: the body is read for the raw plugins.
ReadBody(c) ==
  /\ call[c].stage = "raw" /\ call[c].body = "none"
  /\ \/ \E body \in Bodies : Update(c, [call[c] EXCEPT !.body = body])
     \/ Update(c, handlePluginFailure(c, "raw", 1,
                    [call[c] EXCEPT !.stage = "returning", !.answer = "error"]))
  /\ UNCHANGED <<Limits, cb, World>>

\* executeRawTool: the next raw binding transforms the response.
RawStep(c) ==
  /\ call[c].stage = "raw" /\ call[c].body # "none" /\ call[c].rawDone < Len(call[c].raw)
  /\ \E r \in Process :
       Update(c, IF r = "failure" THEN rawProcessingFailure(c, call[c].rawDone + 1)
                 ELSE [call[c] EXCEPT !.rawDone = @ + 1, !.value = r])
  /\ UNCHANGED <<Limits, cb, World>>

\* The last result is normalized; that it cannot be is a failure of the last
\* binding.
NormalizeRaw(c) ==
  /\ call[c].stage = "raw" /\ call[c].body # "none" /\ call[c].rawDone = Len(call[c].raw)
  /\ Update(c, CASE call[c].captured # "2xx" ->
                      [call[c] EXCEPT !.stage = "returning", !.answer = "error"]
                 [] call[c].captured = "2xx" /\ call[c].value = "invalid" ->
                      rawProcessingFailure(c, call[c].rawDone)
                 [] OTHER -> [call[c] EXCEPT !.stage = "after"])
  /\ UNCHANGED <<Limits, cb, World>>

\* processAfterResponseBindings: with continue, a failure anywhere gives the
\* result as it was before the first of them.
AfterFailure(c, i) ==
  handlePluginFailure(c, "after", i,
    [call[c] EXCEPT !.stage = "returning", !.answer = "success", !.value = "valid",
                    !.afterDone = 0])

\* Mutation of AfterStep: what the earlier bindings made of it is kept.
AfterStepKeeps(c) ==
  /\ call[c].stage = "after"
  /\ \/ /\ call[c].afterDone < Len(call[c].after)
        /\ \E r \in Process :
             Update(c, IF r = "failure" THEN handlePluginFailure(c, "after", call[c].afterDone + 1,
                         [call[c] EXCEPT !.stage = "returning", !.answer = "success"])
                       ELSE [call[c] EXCEPT !.afterDone = @ + 1, !.value = r])
     \/ /\ call[c].afterDone = Len(call[c].after)
        /\ Update(c, IF call[c].value = "invalid" THEN AfterFailure(c, call[c].afterDone)
                     ELSE [call[c] EXCEPT !.stage = "returning", !.answer = "success"])
  /\ UNCHANGED <<Limits, cb, World>>

AfterStep(c) ==
  /\ call[c].stage = "after"
  /\ \/ /\ call[c].afterDone < Len(call[c].after)
        /\ \E r \in Process :
             Update(c, IF r = "failure" THEN AfterFailure(c, call[c].afterDone + 1)
                       ELSE [call[c] EXCEPT !.afterDone = @ + 1, !.value = r])
     \/ /\ call[c].afterDone = Len(call[c].after)
        /\ Update(c, IF call[c].value = "invalid" THEN AfterFailure(c, call[c].afterDone)
                     ELSE [call[c] EXCEPT !.stage = "returning", !.answer = "success"])
  /\ UNCHANGED <<Limits, cb, World>>

-----------------------------------------------------------------------------
(* The rest of the world *)

\* A new revision of the tool, or a new snapshot of the bindings.
Swap ==
  /\ swaps < MaxSwaps
  /\ swaps' = swaps + 1
  /\ active' \in Successors[active]
  /\ UNCHANGED <<call, entries, limiters, quiet, credit, cb, ticks, expiries>>

Tick ==
  /\ ticks < MaxTicks
  /\ ticks' = ticks + 1
  /\ entries' = AgeEntries(entries)
  /\ limiters' = AgeLimiters(limiters)
  /\ quiet' = [u \in Principal |-> Older(quiet[u])]
  /\ credit' = [u \in Principal |-> IF quiet'[u] > TTL THEN Burst ELSE Refill(credit[u])]
  /\ UNCHANGED <<active, call, cb, swaps, expiries>>

\* The breaker's interval and its timeout: counts start over in the closed
\* state, an open breaker lets requests through again.
BreakerExpires ==
  /\ expiries < MaxExpiries
  /\ expiries' = expiries + 1
  /\ \/ cb.state = "closed" /\ cb.requests > 0 /\ cb' = NewGeneration("closed")
     \/ cb.state = "open" /\ cb' = NewGeneration("half-open")
  /\ UNCHANGED <<active, call, entries, limiters, quiet, credit, swaps, ticks>>

Step(c) ==
  \/ ConcurrencyMiddleware(c) \/ BindRaw(c) \/ BindAfter(c) \/ ExecuteNative(c)
  \/ prepareERPCall(c) \/ Admit(c) \/ AttemptAnswered(c) \/ AttemptFails(c)
  \/ Normalize(c) \/ ReadBody(c) \/ RawStep(c) \/ NormalizeRaw(c) \/ AfterStep(c)
  \/ Release(c)

Next == (\E c \in Call : Arrive(c) \/ Step(c)) \/ Swap \/ Tick \/ BreakerExpires

Spec == Init /\ [][Next]_vars

-----------------------------------------------------------------------------
(* Properties *)

Running(c) == call[c].stage \notin {"idle", "permit", "answered"}
Holders(k) == {c \in Call : Running(c) /\ call[c].key = k}

\* No more calls run than the concurrency limit of any of them allows, while
\* revisions with other limits come in and entries are dropped (acquire).
ConcurrencyHolds ==
  \A c \in Call : Running(c) /\ call[c].id # "none" =>
    Cardinality(Holders(call[c].key)) <= call[c].tool.limit

\* In a state of the right types, permits are neither lost nor doubled: an
\* entry counts the running calls that hold it, also after a panic, and every
\* holder's entry is in the table (acquire, releaseFunc, RecoveryMiddleware).
PermitsReturn ==
  /\ TypeOK
  /\ \A k \in Keys :
       /\ entries[k].active = Cardinality(Holders(k))
       /\ \A c \in Holders(k) : entries[k].id = call[c].id

\* A full limiter table lets nobody exceed the rate by more than a forgotten
\* bucket is worth: every admitted call has a token that the rate gave, or
\* the burst that a principal gets anew, and gets only after more than the
\* idle time without a call, refused ones included (getLimiter).
RateHolds == \A u \in Principal : credit[u] >= 0

\* A principal's tokens grow by one a tick, so that forgetting its bucket
\* gives nothing away.  It holds where the rate fills the burst within the
\* idle time, which nothing asks of the settings (RateLimitConfig.Validate).
OneTokenATick == [][\A u \in Principal : credit'[u] <= credit[u] + 1]_vars

\* A request that is not safe to repeat is sent to the ERP at most once,
\* whatever becomes of its answer (call, retrySafeMethod).
UnsafeSentOnce ==
  \A c \in Call : call[c].sent > 1 => call[c].tool.method \in {"GET", "HEAD", "OPTIONS"}

\* The breaker accounts for every call of its generation and every failure,
\* including the error responses that are preserved for the plugins, and no
\* other (call, PreserveErrorResponses).
BreakerSeesEveryCall ==
  LET here == {c \in Call : call[c].admitted /\ call[c].generation = cb.generation}
  IN  /\ cb.requests = Cardinality(here)
      /\ cb.failures = Cardinality({c \in here : call[c].failed})

\* A success is the ERP's: of a response with a success status, accepted by
\* the output schema, and transformed by all bindings of a phase.  It lacks
\* the work of a phase only if one of its bindings failed, that binding's own
\* policy is continue, and then it lacks all of it; also when the snapshot
\* changed between the reads of the two phases (executeRawTool,
\* rawProcessingFailure, handlePluginFailure, processAfterResponseBindings).
SuccessIsWhole ==
  \A c \in Call : call[c].stage = "returning" /\ call[c].answer = "success" =>
    /\ call[c].captured = "2xx" /\ call[c].value = "valid" /\ ~call[c].failed
    /\ LET done == [raw |-> call[c].rawDone, after |-> call[c].afterDone]
       IN  \A phase \in DOMAIN done :
             \/ call[c].broken[phase] = 0 /\ done[phase] = Len(call[c][phase])
             \/ /\ call[c].broken[phase] > 0 /\ done[phase] = 0
                /\ call[c][phase][call[c].broken[phase]] = "continue"
=============================================================================
