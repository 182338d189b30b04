--------------------------- MODULE CallPathProofs ---------------------------
(***************************************************************************)
(* What holds of tool calls, limiters and the breaker for every number of  *)
(* calls and callers, every tool and bindings, and every size of the       *)
(* tables.                                                                 *)
(***************************************************************************)
EXTENDS CallPath, FiniteSetTheorems, TLAPS

ToolType == [kind : {"native", "http"}, method : Methods, limit : Nat, perPrincipal : BOOLEAN]
Outcome  == {"none", "valid", "invalid"}

CallRec ==
  [stage : Stages, tool : ToolType, principal : Principal \cup {"nobody"},
   key : Keys \cup {"none"}, id : Call \cup {"none"},
   raw : Seq(Policies), after : Seq(Policies), sent : Nat, transient : BOOLEAN,
   generation : Nat, admitted : BOOLEAN, failed : BOOLEAN,
   captured : {"none", "2xx", "other"}, value : Outcome, body : Outcome,
   rawDone : Nat, afterDone : Nat, broken : [raw : Nat, after : Nat], answer : Answers]

EntryRec   == [id : Call \cup {"none"}, active : Nat, limit : Nat, age : Nat]
LimiterRec == [tokens : Nat, age : Nat, kept : BOOLEAN]
BreakerRec == [state : {"closed", "open", "half-open"}, requests : Nat, failures : Nat,
               successes : Nat, generation : Nat]

Typed ==
  /\ active \in Deployments
  /\ call \in [Call -> CallRec]
  /\ entries \in [Keys -> EntryRec]
  /\ limiters \in [Principal -> LimiterRec]
  /\ cb \in BreakerRec
  /\ quiet \in [Principal -> Nat] /\ credit \in [Principal -> Int]
  /\ swaps \in Nat /\ ticks \in Nat /\ expiries \in Nat

-----------------------------------------------------------------------------
(* The invariant of one call *)

Early   == {"idle", "permit", "bindRaw", "bindAfter", "execute", "admit"}
Untried == Early \cup {"attempt"}

Attempts(method) == IF retrySafeMethod(method) THEN MaxAttempts ELSE 1

\* A call has a permit only from the limiter on until it is answered.
PermitOK(r) ==
  /\ r.stage = "permit" => r.principal \in Principal
  /\ r.key = "none" <=> r.id = "none"
  /\ r.stage \in {"idle", "permit", "answered"} => r.key = "none"

\* What was sent, and what the breaker saw of it.
SentOK(r) ==
  /\ r.stage \in Early => r.sent = 0 /\ ~r.admitted /\ ~r.failed
  /\ r.stage = "attempt" => r.admitted /\ ~r.failed /\ r.sent < Attempts(r.tool.method)
  /\ r.sent <= Attempts(r.tool.method)
  /\ r.failed => r.captured # "2xx"

Unbroken == [raw |-> 0, after |-> 0]

\* The raw phase ended: all of its bindings worked, or one failed that may.
RawWhole(r) ==
  \/ r.broken.raw = 0 /\ r.rawDone = Len(r.raw)
  \/ r.broken.raw > 0 /\ r.rawDone = 0 /\ r.raw[r.broken.raw] = "continue"
AfterWhole(r) ==
  \/ r.broken.after = 0 /\ r.afterDone = Len(r.after)
  \/ r.broken.after > 0 /\ r.afterDone = 0 /\ r.after[r.broken.after] = "continue"

Untouched(r) ==
  /\ r.captured = "none" /\ r.value = "none" /\ r.body = "none"
  /\ r.rawDone = 0 /\ r.afterDone = 0 /\ r.broken = Unbroken /\ r.answer = ""

\* How far the response and its plugins are.
PhaseOK(r) ==
  /\ r.rawDone <= Len(r.raw) /\ r.afterDone <= Len(r.after)
  /\ r.stage \in Untried => Untouched(r)
  /\ r.stage = "normalize" =>
       r.captured = "2xx" /\ r.raw = <<>> /\ r.afterDone = 0 /\ r.broken = Unbroken
  /\ r.stage = "raw" =>
       /\ r.raw # <<>> /\ r.afterDone = 0 /\ r.broken = Unbroken
       /\ r.rawDone > 0 => r.value # "none" /\ r.body # "none"
  /\ r.stage = "after" =>
       /\ r.captured = "2xx" /\ r.value # "none" /\ r.broken.after = 0 /\ RawWhole(r)
       /\ r.afterDone = 0 => r.value = "valid"
  /\ r.stage = "returning" /\ r.answer = "success" =>
       r.captured = "2xx" /\ r.value = "valid" /\ RawWhole(r) /\ AfterWhole(r)

CallOK(r) == PermitOK(r) /\ SentOK(r) /\ PhaseOK(r)

-----------------------------------------------------------------------------
(* The invariants of what the calls share *)

\* An entry counts its holders, who were admitted under its limit.
EntriesOK ==
  \A k \in Keys :
    /\ entries[k] = NoEntry \/ entries[k].id \in Call
    /\ entries[k].active = Cardinality(Holders(k))
    /\ entries[k].active <= entries[k].limit
    /\ \A c \in Holders(k) : entries[k].id = call[c].id /\ entries[k].limit = call[c].tool.limit

\* A bucket has no more tokens than its principal may have.  It is as old as
\* its principal is quiet, and a principal whose bucket was dropped, or is old
\* enough to be, has the whole burst.
BucketOK(l, n, q) ==
  /\ l.tokens <= n /\ 0 <= n /\ n <= Burst
  /\ IF l.kept THEN l.age = q ELSE l = NoLimiter /\ n = Burst
  /\ q > TTL => n = Burst

LimitersOK == \A u \in Principal : BucketOK(limiters[u], credit[u], quiet[u])

Here == {c \in Call : call[c].admitted /\ call[c].generation = cb.generation}
Lost == {c \in Here : call[c].failed}

\* No call is of a generation yet to come, and the breaker counts its own.
BreakerOK ==
  /\ \A c \in Call : call[c].generation <= cb.generation
  /\ cb.requests = Cardinality(Here)
  /\ cb.failures = Cardinality(Lost)

Inv ==
  /\ Typed
  /\ \A c \in Call : CallOK(call[c])
  /\ EntriesOK /\ LimitersOK /\ BreakerOK

-----------------------------------------------------------------------------
(* Calls *)

\* A step inside executeTool: the permit and what the breaker saw stay.
Inner(r, new) ==
  /\ new \in CallRec /\ CallOK(new)
  /\ new.stage \notin {"idle", "permit", "answered"}
  /\ new.key = r.key /\ new.id = r.id /\ new.tool = r.tool
  /\ new.admitted = r.admitted /\ new.generation = r.generation /\ new.failed = r.failed

LEMMA Deployed ==
  ASSUME NEW d \in Deployments
  PROVE  d.tool \in ToolType /\ d.raw \in Seq(Policies) /\ d.after \in Seq(Policies)
BY CallPathAssumption DEF ToolType

LEMMA Naturals ==
  /\ MaxAttempts \in Nat \ {0} /\ \A m : Attempts(m) \in Nat \ {0}
  /\ Burst \in Nat \ {0} /\ TTL \in Nat
BY CallPathAssumption, LimiterAssumption DEF Attempts

LEMMA LenNat ==
  ASSUME NEW s \in Seq(Policies)
  PROVE  Len(s) \in Nat /\ 0 <= Len(s) /\ (s # <<>> => Len(s) > 0) /\ Len(<<>>) = 0
OBVIOUS

LEMMA UntriedPhase ==
  ASSUME NEW r \in CallRec, r.stage \in Untried, Untouched(r)
  PROVE  PhaseOK(r)
<1>1. r.raw \in Seq(Policies) /\ r.after \in Seq(Policies)
  BY DEF CallRec
<1>2. 0 <= Len(r.raw) /\ 0 <= Len(r.after)
  BY <1>1, LenNat
<1>3. r.rawDone <= Len(r.raw) /\ r.afterDone <= Len(r.after)
  BY <1>2 DEF Untouched
<1> QED BY <1>3 DEF PhaseOK, Untried, Early

\* Every step inside executeTool but for the requests: nothing of the permit,
\* the requests and what the breaker saw changes.
Moves(r, new) ==
  /\ new \in CallRec
  /\ r.stage \notin {"idle", "permit", "answered"}
  /\ new.stage \notin {"idle", "permit", "answered", "attempt"}
  /\ new.stage \in Early => r.stage \in Early
  /\ new.key = r.key /\ new.id = r.id /\ new.tool = r.tool
  /\ new.admitted = r.admitted /\ new.generation = r.generation /\ new.failed = r.failed
  /\ new.sent = r.sent
  /\ new.captured = r.captured \/ r.stage \in Early

LEMMA MovesInner ==
  ASSUME NEW r \in CallRec, NEW new, CallOK(r), Moves(r, new), PhaseOK(new)
  PROVE  Inner(r, new)
<1>1. PermitOK(new)
  BY DEF CallOK, PermitOK, Moves
<1>2. SentOK(new)
  BY DEF CallOK, SentOK, Moves
<1> QED BY <1>1, <1>2 DEF Inner, CallOK, Moves

\* The ends of the phases that are no success.
LEMMA ErrorPhase ==
  ASSUME NEW r, NEW new, PhaseOK(r), new.stage = "returning", new.answer # "success",
         new.raw = r.raw, new.after = r.after, new.rawDone = r.rawDone,
         new.afterDone = r.afterDone
  PROVE  PhaseOK(new)
BY Zenon DEF PhaseOK, Untried, Early

LEMMA ErrorOK ==
  ASSUME NEW r \in CallRec, CallOK(r), r.stage \notin {"idle", "permit", "answered"},
         NEW answer \in Answers \ {"success"}
  PROVE  Inner(r, [r EXCEPT !.stage = "returning", !.answer = answer])
<1> DEFINE new == [r EXCEPT !.stage = "returning", !.answer = answer]
<1>1. Moves(r, new)
  BY DEF CallRec, Stages, Moves, Early
<1>2. /\ new.stage = "returning" /\ new.answer # "success"
      /\ new.raw = r.raw /\ new.after = r.after
      /\ new.rawDone = r.rawDone /\ new.afterDone = r.afterDone
  BY DEF CallRec
<1> HIDE DEF new
<1>3. PhaseOK(new)
  BY <1>2, ErrorPhase DEF CallOK
<1> QED BY <1>1, <1>3, MovesInner DEF new

\* A binding is marked as the one that failed.
LEMMA BrokenField ==
  ASSUME NEW r \in CallRec, NEW phase \in {"raw", "after"}, NEW i \in Nat
  PROVE  /\ [r.broken EXCEPT ![phase] = i] \in [raw : Nat, after : Nat]
         /\ [r EXCEPT !.broken[phase] = i] = [r EXCEPT !.broken = [r.broken EXCEPT ![phase] = i]]
         /\ [r EXCEPT !.broken[phase] = i] \in CallRec
<1>1. [r.broken EXCEPT ![phase] = i] \in [raw : Nat, after : Nat]
  BY DEF CallRec
<1>2. [r EXCEPT !.broken[phase] = i] = [r EXCEPT !.broken = [r.broken EXCEPT ![phase] = i]]
  OBVIOUS
<1> QED BY <1>1, <1>2 DEF CallRec

LEMMA BrokenErrorOK ==
  ASSUME NEW r \in CallRec, CallOK(r), r.stage \notin {"idle", "permit", "answered"},
         NEW phase \in {"raw", "after"}, NEW i \in Nat
  PROVE  Inner(r, [[r EXCEPT !.stage = "returning", !.answer = "error"]
                     EXCEPT !.broken[phase] = i])
<1> DEFINE mid == [r EXCEPT !.stage = "returning", !.answer = "error"]
           new == [mid EXCEPT !.broken[phase] = i]
<1>1. mid \in CallRec /\ Moves(r, mid)
  <2>1. "error" \in Answers /\ "returning" \in Stages
    BY DEF Answers, Stages
  <2>2. mid \in CallRec
    BY <2>1 DEF CallRec
  <2> QED BY <2>2 DEF CallRec, Moves, Early
<1>2. /\ mid.stage = "returning" /\ mid.answer # "success"
      /\ mid.raw = r.raw /\ mid.after = r.after
      /\ mid.rawDone = r.rawDone /\ mid.afterDone = r.afterDone
  BY DEF CallRec
<1> HIDE DEF mid
<1>3. new \in CallRec /\ new = [mid EXCEPT !.broken = [mid.broken EXCEPT ![phase] = i]]
  BY <1>1, BrokenField
<1>4. Moves(r, new)
  BY <1>1, <1>3 DEF Moves, CallRec
<1>5. /\ new.stage = "returning" /\ new.answer # "success"
      /\ new.raw = r.raw /\ new.after = r.after
      /\ new.rawDone = r.rawDone /\ new.afterDone = r.afterDone
  BY <1>1, <1>2, <1>3 DEF CallRec
<1> HIDE DEF new
<1>6. PhaseOK(new)
  BY <1>5, ErrorPhase DEF CallOK
<1> QED BY <1>4, <1>6, MovesInner DEF new, mid

LEMMA UntouchedOK ==
  ASSUME NEW r \in CallRec, NEW new, CallOK(r), r.stage \in Untried, Moves(r, new),
         new.stage \in Untried, Untouched(r) => Untouched(new)
  PROVE  Inner(r, new)
<1>1. Untouched(new)
  BY DEF CallOK, PhaseOK
<1>2. PhaseOK(new)
  BY <1>1, UntriedPhase DEF Moves
<1> QED BY <1>2, MovesInner

LEMMA BindRawOK ==
  ASSUME NEW r \in CallRec, CallOK(r), r.stage = "bindRaw", NEW raw \in Seq(Policies)
  PROVE  Inner(r, [r EXCEPT !.raw = raw, !.stage = "bindAfter"])
<1> DEFINE new == [r EXCEPT !.raw = raw, !.stage = "bindAfter"]
<1>1. Moves(r, new) /\ new.stage = "bindAfter" /\ (Untouched(r) => Untouched(new))
  BY DEF CallRec, Stages, Moves, Early, Untouched
<1> HIDE DEF new
<1> QED BY <1>1, UntouchedOK DEF new, Untried, Early

LEMMA BindAfterOK ==
  ASSUME NEW r \in CallRec, CallOK(r), r.stage = "bindAfter", NEW after \in Seq(Policies)
  PROVE  Inner(r, [r EXCEPT !.after = after, !.stage = "execute"])
<1> DEFINE new == [r EXCEPT !.after = after, !.stage = "execute"]
<1>1. Moves(r, new) /\ new.stage = "execute" /\ (Untouched(r) => Untouched(new))
  BY DEF CallRec, Stages, Moves, Early, Untouched
<1> HIDE DEF new
<1> QED BY <1>1, UntouchedOK DEF new, Untried, Early

LEMMA PreparedOK ==
  ASSUME NEW r \in CallRec, CallOK(r), r.stage = "execute"
  PROVE  Inner(r, [r EXCEPT !.stage = "admit"])
<1> DEFINE new == [r EXCEPT !.stage = "admit"]
<1>1. Moves(r, new) /\ new.stage = "admit" /\ (Untouched(r) => Untouched(new))
  BY DEF CallRec, Stages, Moves, Early, Untouched
<1> HIDE DEF new
<1> QED BY <1>1, UntouchedOK DEF new, Untried, Early

LEMMA AfterPhase ==
  ASSUME NEW new, new.stage = "after", new.rawDone <= Len(new.raw),
         new.afterDone <= Len(new.after), new.captured = "2xx", new.value # "none",
         new.broken.after = 0, RawWhole(new), new.afterDone = 0 => new.value = "valid"
  PROVE  PhaseOK(new)
BY Zenon DEF PhaseOK, Untried, Early

LEMMA SuccessPhase ==
  ASSUME NEW new, new.stage = "returning", new.rawDone <= Len(new.raw),
         new.afterDone <= Len(new.after), new.captured = "2xx", new.value = "valid",
         RawWhole(new), AfterWhole(new)
  PROVE  PhaseOK(new)
BY Zenon DEF PhaseOK, Untried, Early

LEMMA RawPhase ==
  ASSUME NEW new, new.stage = "raw", new.rawDone <= Len(new.raw),
         new.afterDone <= Len(new.after), new.raw # <<>>, new.afterDone = 0,
         new.broken = Unbroken,
         new.rawDone > 0 => new.value # "none" /\ new.body # "none"
  PROVE  PhaseOK(new)
BY Zenon DEF PhaseOK, Untried, Early

LEMMA NormalizePhase ==
  ASSUME NEW new, new.stage = "normalize", new.rawDone <= Len(new.raw),
         new.afterDone <= Len(new.after), new.captured = "2xx", new.raw = <<>>,
         new.afterDone = 0, new.broken = Unbroken
  PROVE  PhaseOK(new)
BY Zenon DEF PhaseOK, Untried, Early

\* The sequences of a call, and how far it is in them.
LEMMA Progress ==
  ASSUME NEW r \in CallRec
  PROVE  /\ r.raw \in Seq(Policies) /\ r.after \in Seq(Policies)
         /\ Len(r.raw) \in Nat /\ Len(r.after) \in Nat
         /\ 0 <= Len(r.raw) /\ 0 <= Len(r.after)
         /\ r.raw # <<>> => Len(r.raw) > 0
         /\ r.rawDone \in Nat /\ r.afterDone \in Nat
<1>1. r.raw \in Seq(Policies) /\ r.after \in Seq(Policies)
  BY DEF CallRec
<1>2. r.rawDone \in Nat /\ r.afterDone \in Nat
  BY DEF CallRec
<1> QED BY <1>1, <1>2, LenNat

\* rawProcessingFailure with continue.
LEMMA RawContinueOK ==
  ASSUME NEW r \in CallRec, CallOK(r), r.stage = "raw", r.captured = "2xx",
         NEW i \in Nat, i > 0, r.raw[i] = "continue"
  PROVE  Inner(r, [[r EXCEPT !.stage = "after", !.value = "valid", !.rawDone = 0]
                     EXCEPT !.broken["raw"] = i])
<1> DEFINE mid == [r EXCEPT !.stage = "after", !.value = "valid", !.rawDone = 0]
           new == [mid EXCEPT !.broken["raw"] = i]
<1>1. mid \in CallRec
  BY DEF CallRec, Stages, Outcome
<1>2. /\ mid.stage = "after" /\ mid.value = "valid" /\ mid.rawDone = 0
      /\ mid.raw = r.raw /\ mid.after = r.after /\ mid.afterDone = r.afterDone
      /\ mid.broken = r.broken /\ mid.captured = r.captured
  BY DEF CallRec
<1>3. Moves(r, mid)
  BY <1>1 DEF CallRec, Moves, Early
<1> HIDE DEF mid
<1>4. new \in CallRec /\ new = [mid EXCEPT !.broken = [mid.broken EXCEPT !["raw"] = i]]
  BY <1>1, BrokenField
<1>5. Moves(r, new)
  BY <1>1, <1>3, <1>4 DEF Moves, CallRec
<1>6. r.afterDone = 0 /\ r.broken = Unbroken /\ 0 <= Len(r.raw) /\ 0 <= Len(r.after)
  BY Progress DEF CallOK, PhaseOK
<1>7. /\ new.stage = "after" /\ new.value = "valid" /\ new.rawDone = 0
      /\ new.raw = r.raw /\ new.after = r.after /\ new.afterDone = r.afterDone
      /\ new.captured = "2xx"
  BY <1>1, <1>2, <1>4 DEF CallRec
<1>8. new.broken.raw = i /\ new.broken.after = 0
  BY <1>1, <1>2, <1>4, <1>6 DEF CallRec, Unbroken
<1> HIDE DEF new
<1>9. RawWhole(new)
  BY <1>7, <1>8 DEF RawWhole
<1>10. PhaseOK(new)
  BY <1>6, <1>7, <1>8, <1>9, AfterPhase
<1> QED BY <1>5, <1>10, MovesInner DEF new, mid

LEMMA NativeAnsweredOK ==
  ASSUME NEW r \in CallRec, CallOK(r), r.stage = "execute", r.raw = <<>>
  PROVE  Inner(r, [r EXCEPT !.stage = "normalize", !.captured = "2xx"])
<1> DEFINE new == [r EXCEPT !.stage = "normalize", !.captured = "2xx"]
<1>1. Moves(r, new)
  BY DEF CallRec, Stages, Moves, Early
<1>2. /\ new.stage = "normalize" /\ new.captured = "2xx" /\ new.raw = r.raw
      /\ new.after = r.after /\ new.rawDone = r.rawDone /\ new.afterDone = r.afterDone
      /\ new.broken = r.broken
  BY DEF CallRec
<1>3. Untouched(r) /\ r.rawDone <= Len(r.raw) /\ r.afterDone <= Len(r.after)
  BY DEF CallOK, PhaseOK, Untried, Early
<1> HIDE DEF new
<1>4. PhaseOK(new)
  BY <1>2, <1>3, NormalizePhase DEF Untouched
<1> QED BY <1>1, <1>4, MovesInner DEF new

LEMMA NormalizedOK ==
  ASSUME NEW r \in CallRec, CallOK(r), r.stage = "normalize"
  PROVE  Inner(r, [r EXCEPT !.stage = "after", !.value = "valid", !.body = "valid"])
<1> DEFINE new == [r EXCEPT !.stage = "after", !.value = "valid", !.body = "valid"]
<1>1. Moves(r, new)
  BY DEF CallRec, Stages, Moves, Early, Outcome
<1>2. /\ new.stage = "after" /\ new.captured = r.captured /\ new.raw = r.raw
      /\ new.value = "valid"
      /\ new.after = r.after /\ new.rawDone = r.rawDone /\ new.afterDone = r.afterDone
      /\ new.broken = r.broken
  BY DEF CallRec
<1>3. /\ r.captured = "2xx" /\ r.raw = <<>> /\ r.afterDone = 0 /\ r.broken = Unbroken
      /\ r.rawDone <= Len(r.raw) /\ r.afterDone <= Len(r.after)
  BY DEF CallOK, PhaseOK
<1>4. r.rawDone = Len(r.raw)
  <2>1. Len(r.raw) = 0
    BY <1>3
  <2> QED BY <2>1, <1>3, Progress
<1> HIDE DEF new
<1>5. new.broken.raw = 0 /\ new.broken.after = 0
  BY <1>2, <1>3 DEF Unbroken
<1>6. RawWhole(new)
  BY <1>2, <1>4, <1>5 DEF RawWhole
<1>7. PhaseOK(new)
  BY <1>2, <1>3, <1>5, <1>6, AfterPhase
<1> QED BY <1>1, <1>7, MovesInner DEF new

LEMMA BodyReadOK ==
  ASSUME NEW r \in CallRec, CallOK(r), r.stage = "raw", NEW body \in Bodies
  PROVE  Inner(r, [r EXCEPT !.body = body])
<1> DEFINE new == [r EXCEPT !.body = body]
<1>1. body \in Outcome /\ body # "none"
  BY DEF Bodies, Outcome
<1>2. Moves(r, new)
  BY <1>1 DEF CallRec, Moves, Early
<1>3. /\ new.stage = "raw" /\ new.body = body /\ new.value = r.value /\ new.raw = r.raw
      /\ new.after = r.after /\ new.rawDone = r.rawDone /\ new.afterDone = r.afterDone
      /\ new.broken = r.broken
  BY DEF CallRec
<1> HIDE DEF new
<1>4. PhaseOK(new)
  BY Zenon, <1>1, <1>3, RawPhase DEF CallOK, PhaseOK
<1> QED BY <1>2, <1>4, MovesInner DEF new

LEMMA RawStepOK ==
  ASSUME NEW r \in CallRec, CallOK(r), r.stage = "raw", r.body # "none",
         r.rawDone < Len(r.raw), NEW result \in Bodies
  PROVE  Inner(r, [r EXCEPT !.rawDone = @ + 1, !.value = result])
<1> DEFINE n   == r.rawDone + 1
           new == [r EXCEPT !.rawDone = n, !.value = result]
<1>1. result \in Outcome /\ result # "none"
  BY DEF Bodies, Outcome
<1>2. Moves(r, new)
  <2>1. n \in Nat
    BY Progress
  <2> HIDE DEF n
  <2> QED BY <1>1, <2>1 DEF CallRec, Moves, Early
<1>3. /\ new.stage = "raw" /\ new.body = r.body /\ new.value = result /\ new.raw = r.raw
      /\ new.after = r.after /\ new.rawDone = r.rawDone + 1 /\ new.afterDone = r.afterDone
      /\ new.broken = r.broken
  BY DEF CallRec
<1>4. r.rawDone + 1 <= Len(r.raw)
  BY Progress
<1> HIDE DEF new
<1>5. PhaseOK(new)
  BY Zenon, <1>1, <1>3, <1>4, RawPhase DEF CallOK, PhaseOK
<1> QED BY <1>2, <1>5, MovesInner DEF new

LEMMA RawDoneOK ==
  ASSUME NEW r \in CallRec, CallOK(r), r.stage = "raw", r.rawDone = Len(r.raw),
         r.captured = "2xx", r.value # "invalid"
  PROVE  Inner(r, [r EXCEPT !.stage = "after"])
<1> DEFINE new == [r EXCEPT !.stage = "after"]
<1>1. Moves(r, new)
  BY DEF CallRec, Stages, Moves, Early
<1>2. /\ new.stage = "after" /\ new.value = r.value /\ new.raw = r.raw
      /\ new.after = r.after /\ new.rawDone = r.rawDone /\ new.afterDone = r.afterDone
      /\ new.broken = r.broken /\ new.captured = "2xx"
  BY DEF CallRec
<1>3. /\ r.raw # <<>> /\ r.broken = Unbroken /\ r.rawDone <= Len(r.raw)
      /\ r.afterDone <= Len(r.after) /\ (r.rawDone > 0 => r.value # "none")
  BY Zenon DEF CallOK, PhaseOK
<1>4. Len(r.raw) > 0
  BY <1>3, Progress
<1>5. r.value # "none"
  BY Zenon, <1>3, <1>4
<1> r.value = "valid"
  BY <1>5 DEF CallRec, Outcome
<1> HIDE DEF new
<1>6. new.broken.raw = 0 /\ new.broken.after = 0
  BY <1>2, <1>3 DEF Unbroken
<1>7. RawWhole(new)
  BY <1>2, <1>6 DEF RawWhole
<1>8. PhaseOK(new)
  BY Zenon, <1>2, <1>3, <1>5, <1>6, <1>7, AfterPhase
<1> QED BY <1>1, <1>8, MovesInner DEF new

LEMMA AfterStepOK ==
  ASSUME NEW r \in CallRec, CallOK(r), r.stage = "after", r.afterDone < Len(r.after),
         NEW result \in Bodies
  PROVE  Inner(r, [r EXCEPT !.afterDone = @ + 1, !.value = result])
<1> DEFINE n   == r.afterDone + 1
           new == [r EXCEPT !.afterDone = n, !.value = result]
<1>1. result \in Outcome /\ result # "none"
  BY DEF Bodies, Outcome
<1>2. Moves(r, new)
  <2>1. n \in Nat
    BY Progress
  <2> HIDE DEF n
  <2> QED BY <1>1, <2>1 DEF CallRec, Moves, Early
<1>3. /\ new.stage = "after" /\ new.value = result /\ new.raw = r.raw
      /\ new.after = r.after /\ new.rawDone = r.rawDone /\ new.afterDone = r.afterDone + 1
      /\ new.broken = r.broken /\ new.captured = r.captured
  BY DEF CallRec
<1>4. r.afterDone + 1 <= Len(r.after) /\ r.afterDone + 1 # 0
  BY Progress
<1> HIDE DEF new
<1>5. PhaseOK(new)
  BY Zenon, <1>1, <1>3, <1>4, AfterPhase DEF CallOK, PhaseOK, RawWhole
<1> QED BY <1>2, <1>5, MovesInner DEF new

LEMMA AfterDoneOK ==
  ASSUME NEW r \in CallRec, CallOK(r), r.stage = "after", r.afterDone = Len(r.after),
         r.value # "invalid"
  PROVE  Inner(r, [r EXCEPT !.stage = "returning", !.answer = "success"])
<1> DEFINE new == [r EXCEPT !.stage = "returning", !.answer = "success"]
<1>1. Moves(r, new)
  BY DEF CallRec, Stages, Moves, Early, Answers
<1>2. /\ new.stage = "returning" /\ new.value = r.value /\ new.raw = r.raw
      /\ new.after = r.after /\ new.rawDone = r.rawDone /\ new.afterDone = r.afterDone
      /\ new.broken = r.broken /\ new.captured = r.captured
  BY DEF CallRec
<1>3. r.value = "valid"
  BY DEF CallRec, Outcome, CallOK, PhaseOK
<1> HIDE DEF new
<1>4. RawWhole(new) /\ AfterWhole(new)
  BY Zenon, <1>2 DEF CallOK, PhaseOK, RawWhole, AfterWhole
<1>5. PhaseOK(new)
  BY Zenon, <1>2, <1>3, <1>4, SuccessPhase DEF CallOK, PhaseOK
<1> QED BY <1>1, <1>5, MovesInner DEF new

\* processAfterResponseBindings with continue.
LEMMA AfterContinueOK ==
  ASSUME NEW r \in CallRec, CallOK(r), r.stage = "after", NEW i \in Nat, i > 0,
         r.after[i] = "continue"
  PROVE  Inner(r, [[r EXCEPT !.stage = "returning", !.answer = "success", !.value = "valid",
                             !.afterDone = 0]
                     EXCEPT !.broken["after"] = i])
<1> DEFINE mid == [r EXCEPT !.stage = "returning", !.answer = "success", !.value = "valid",
                            !.afterDone = 0]
           new == [mid EXCEPT !.broken["after"] = i]
<1>1. mid \in CallRec
  <2>1. "success" \in Answers /\ "returning" \in Stages /\ "valid" \in Outcome
    BY DEF Answers, Stages, Outcome
  <2> QED BY <2>1 DEF CallRec
<1>2. /\ mid.stage = "returning" /\ mid.value = "valid" /\ mid.afterDone = 0
      /\ mid.raw = r.raw /\ mid.after = r.after /\ mid.rawDone = r.rawDone
      /\ mid.broken = r.broken /\ mid.captured = r.captured
  BY DEF CallRec
<1>3. Moves(r, mid)
  BY <1>1 DEF CallRec, Moves, Early
<1> HIDE DEF mid
<1>4. new \in CallRec /\ new = [mid EXCEPT !.broken = [mid.broken EXCEPT !["after"] = i]]
  BY <1>1, BrokenField
<1>5. Moves(r, new)
  BY <1>1, <1>3, <1>4 DEF Moves, CallRec
<1>6. 0 <= Len(r.after) /\ r.rawDone <= Len(r.raw) /\ r.captured = "2xx" /\ RawWhole(r)
  BY Zenon, Progress DEF CallOK, PhaseOK
<1>7. /\ new.stage = "returning" /\ new.value = "valid" /\ new.afterDone = 0
      /\ new.raw = r.raw /\ new.after = r.after /\ new.rawDone = r.rawDone
      /\ new.captured = r.captured
  BY <1>1, <1>2, <1>4 DEF CallRec
<1>8. new.broken.after = i /\ new.broken.raw = r.broken.raw
  BY <1>1, <1>2, <1>4 DEF CallRec
<1> HIDE DEF new
<1>9. RawWhole(new) /\ AfterWhole(new)
  BY Zenon, <1>6, <1>7, <1>8 DEF RawWhole, AfterWhole
<1>10. PhaseOK(new)
  BY Zenon, <1>6, <1>7, <1>9, SuccessPhase
<1> QED BY <1>5, <1>10, MovesInner DEF new, mid

LEMMA Policy ==
  ASSUME NEW s \in Seq(Policies), NEW i \in 1..Len(s), s[i] # "fail"
  PROVE  s[i] = "continue"
BY DEF Policies

LEMMA RawFailureOK ==
  ASSUME NEW c \in Call, call[c] \in CallRec, CallOK(call[c]),
         call[c].stage \in {"execute", "raw"}, NEW i \in 1..Len(call[c].raw)
  PROVE  Inner(call[c], rawProcessingFailure(c, i))
<1> DEFINE r == call[c]
           error == [r EXCEPT !.stage = "returning", !.answer = "error"]
           goOn  == [r EXCEPT !.stage = "after", !.value = "valid", !.rawDone = 0]
<1>1. i \in Nat /\ i > 0
  BY Progress
<1>2. rawProcessingFailure(c, i) =
        [IF r.raw[i] = "fail" THEN error
         ELSE IF normalizeCapturedERPResponse(c) THEN goOn ELSE error
         EXCEPT !.broken["raw"] = i]
  BY DEF rawProcessingFailure, handlePluginFailure
<1>3. CASE r.raw[i] = "fail" \/ ~normalizeCapturedERPResponse(c)
  <2>1. rawProcessingFailure(c, i) = [error EXCEPT !.broken["raw"] = i]
    BY Zenon, <1>2, <1>3
  <2>2. Inner(r, [error EXCEPT !.broken["raw"] = i])
    BY <1>1, BrokenErrorOK
  <2> QED BY <2>1, <2>2
<1>4. CASE r.raw[i] # "fail" /\ normalizeCapturedERPResponse(c)
  <2>1. rawProcessingFailure(c, i) = [goOn EXCEPT !.broken["raw"] = i]
    BY Zenon, <1>2, <1>4
  <2>2. r.raw[i] = "continue"
    BY <1>4, Policy, Progress
  <2>3. r.captured = "2xx"
    BY <1>4 DEF normalizeCapturedERPResponse
  <2>4. r.stage = "raw"
    BY <2>3 DEF CallOK, PhaseOK, Untried, Early, Untouched
  <2>5. Inner(r, [goOn EXCEPT !.broken["raw"] = i])
    BY <1>1, <2>2, <2>3, <2>4, RawContinueOK
  <2> QED BY <2>1, <2>5
<1> QED BY <1>3, <1>4

LEMMA AfterFailureOK ==
  ASSUME NEW c \in Call, call[c] \in CallRec, CallOK(call[c]), call[c].stage = "after",
         NEW i \in 1..Len(call[c].after)
  PROVE  Inner(call[c], AfterFailure(c, i))
<1> DEFINE r == call[c]
           error == [r EXCEPT !.stage = "returning", !.answer = "error"]
           goOn  == [r EXCEPT !.stage = "returning", !.answer = "success", !.value = "valid",
                              !.afterDone = 0]
<1>1. i \in Nat /\ i > 0
  BY Progress
<1>2. AfterFailure(c, i) = [IF r.after[i] = "fail" THEN error ELSE goOn
                            EXCEPT !.broken["after"] = i]
  BY DEF AfterFailure, handlePluginFailure
<1>3. CASE r.after[i] = "fail"
  <2>1. AfterFailure(c, i) = [error EXCEPT !.broken["after"] = i]
    BY Zenon, <1>2, <1>3
  <2>2. Inner(r, [error EXCEPT !.broken["after"] = i])
    BY <1>1, BrokenErrorOK
  <2> QED BY <2>1, <2>2
<1>4. CASE r.after[i] # "fail"
  <2>1. AfterFailure(c, i) = [goOn EXCEPT !.broken["after"] = i]
    BY Zenon, <1>2, <1>4
  <2>2. r.after[i] = "continue"
    BY <1>4, Policy, Progress
  <2>3. Inner(r, [goOn EXCEPT !.broken["after"] = i])
    BY <1>1, <2>2, AfterContinueOK
  <2> QED BY <2>1, <2>3
<1> QED BY <1>3, <1>4

\* The steps of executeTool other than the requests.
InnerStep(c) ==
  \/ BindRaw(c) \/ BindAfter(c) \/ ExecuteNative(c) \/ prepareERPCall(c) \/ Normalize(c)
  \/ ReadBody(c) \/ RawStep(c) \/ NormalizeRaw(c) \/ AfterStep(c)

LEMMA InnerSteps ==
  ASSUME NEW c \in Call, active \in Deployments, call[c] \in CallRec, CallOK(call[c]),
         InnerStep(c)
  PROVE  /\ \E new : Inner(call[c], new) /\ Update(c, new)
         /\ call[c].stage \notin {"idle", "permit", "answered"}
         /\ UNCHANGED <<entries, limiters, quiet, credit, cb, active, swaps, ticks, expiries>>
<1> DEFINE r == call[c]
           error == [r EXCEPT !.stage = "returning", !.answer = "error"]
<1> USE DEF Limits, World
<1>1. CASE BindRaw(c)
  BY <1>1, BindRawOK, Deployed DEF BindRaw
<1>2. CASE BindAfter(c)
  BY <1>2, BindAfterOK, Deployed DEF BindAfter
<1>3. CASE ExecuteNative(c)
  <2>1. CASE r.raw # <<>> /\ Update(c, rawProcessingFailure(c, 1))
    <3>1. 1 \in 1..Len(r.raw)
      BY <2>1, Progress
    <3>2. Inner(r, rawProcessingFailure(c, 1))
      BY <1>3, <3>1, RawFailureOK DEF ExecuteNative
    <3> QED BY <1>3, <2>1, <3>2 DEF ExecuteNative
  <2>2. CASE \E answer \in {"error", "protocol"} : Return(c, answer)
    BY <1>3, <2>2, ErrorOK DEF ExecuteNative, Return, Answers
  <2>3. CASE r.raw = <<>> /\ Update(c, [r EXCEPT !.stage = "normalize", !.captured = "2xx"])
    BY <1>3, <2>3, NativeAnsweredOK DEF ExecuteNative
  <2> QED BY <1>3, <2>1, <2>2, <2>3 DEF ExecuteNative
<1>4. CASE prepareERPCall(c)
  <2>1. CASE To(c, "admit")
    BY <1>4, <2>1, PreparedOK DEF prepareERPCall, To
  <2>2. CASE r.raw = <<>> /\ Update(c, error)
    BY <1>4, <2>2, ErrorOK DEF prepareERPCall, Answers
  <2>3. CASE r.raw # <<>> /\ Update(c, rawProcessingFailure(c, 1))
    <3>1. 1 \in 1..Len(r.raw)
      BY <2>3, Progress
    <3>2. Inner(r, rawProcessingFailure(c, 1))
      BY <1>4, <3>1, RawFailureOK DEF prepareERPCall
    <3> QED BY <1>4, <2>3, <3>2 DEF prepareERPCall
  <2> QED BY <1>4, <2>1, <2>2, <2>3 DEF prepareERPCall
<1>5. CASE Normalize(c)
  BY <1>5, NormalizedOK, ErrorOK DEF Normalize, Return, Answers
<1>6. CASE ReadBody(c)
  <2> DEFINE failed == handlePluginFailure(c, "raw", 1, error)
  <2>1. failed = [error EXCEPT !.broken["raw"] = 1]
    BY DEF handlePluginFailure
  <2>2. r.stage = "raw" /\ 1 \in Nat
    BY <1>6 DEF ReadBody
  <2>3. Inner(r, [error EXCEPT !.broken["raw"] = 1])
    BY <2>2, BrokenErrorOK
  <2> HIDE DEF failed
  <2>4. Inner(r, failed)
    BY Zenon, <2>1, <2>3
  <2> QED BY <1>6, <2>4, BodyReadOK DEF ReadBody, failed
<1>7. CASE RawStep(c)
  <2>1. PICK v \in Process :
          Update(c, IF v = "failure" THEN rawProcessingFailure(c, r.rawDone + 1)
                    ELSE [r EXCEPT !.rawDone = @ + 1, !.value = v])
    BY <1>7 DEF RawStep
  <2>2. r.rawDone + 1 \in 1..Len(r.raw)
    BY <1>7, Progress DEF RawStep
  <2>3. CASE v = "failure"
    BY <1>7, <2>1, <2>2, <2>3, RawFailureOK DEF RawStep
  <2>4. CASE v # "failure"
    BY <1>7, <2>1, <2>4, RawStepOK DEF RawStep, Process
  <2> QED BY <2>3, <2>4
<1>8. CASE NormalizeRaw(c)
  <2>1. CASE r.captured # "2xx"
    BY <1>8, <2>1, ErrorOK DEF NormalizeRaw, Answers
  <2>2. CASE r.captured = "2xx" /\ r.value = "invalid"
    <3>1. r.rawDone \in 1..Len(r.raw)
      BY <1>8, Progress DEF NormalizeRaw, CallOK, PhaseOK
    <3> QED BY <1>8, <2>2, <3>1, RawFailureOK DEF NormalizeRaw
  <2>3. CASE r.captured = "2xx" /\ r.value # "invalid"
    BY <1>8, <2>3, RawDoneOK DEF NormalizeRaw
  <2> QED BY <2>1, <2>2, <2>3
<1>9. CASE AfterStep(c)
  <2>1. CASE /\ r.afterDone < Len(r.after)
             /\ \E v \in Process :
                  Update(c, IF v = "failure" THEN AfterFailure(c, r.afterDone + 1)
                            ELSE [r EXCEPT !.afterDone = @ + 1, !.value = v])
    <3>1. PICK v \in Process :
            Update(c, IF v = "failure" THEN AfterFailure(c, r.afterDone + 1)
                      ELSE [r EXCEPT !.afterDone = @ + 1, !.value = v])
      BY <2>1
    <3>2. r.afterDone + 1 \in 1..Len(r.after)
      BY <2>1, Progress
    <3>3. CASE v = "failure"
      BY <1>9, <3>1, <3>2, <3>3, AfterFailureOK DEF AfterStep
    <3>4. CASE v # "failure"
      BY <1>9, <2>1, <3>1, <3>4, AfterStepOK DEF AfterStep, Process
    <3> QED BY <3>3, <3>4
  <2>2. CASE /\ r.afterDone = Len(r.after)
             /\ Update(c, IF r.value = "invalid" THEN AfterFailure(c, r.afterDone)
                          ELSE [r EXCEPT !.stage = "returning", !.answer = "success"])
    <3>1. CASE r.value # "invalid"
      BY <1>9, <2>2, <3>1, AfterDoneOK DEF AfterStep
    <3>2. CASE r.value = "invalid"
      <4>1. r.afterDone # 0
        BY Zenon, <1>9, <3>2 DEF AfterStep, CallOK, PhaseOK
      <4>2. r.afterDone \in 1..Len(r.after)
        BY <2>2, <4>1, Progress
      <4> QED BY <1>9, <2>2, <3>2, <4>2, AfterFailureOK DEF AfterStep
    <3> QED BY <3>1, <3>2
  <2> QED BY <1>9, <2>1, <2>2 DEF AfterStep
<1> QED BY <1>1, <1>2, <1>3, <1>4, <1>5, <1>6, <1>7, <1>8, <1>9 DEF InnerStep

-----------------------------------------------------------------------------
(* Requests *)

\* A running call goes on running with its permit.
Kept(r, new) ==
  /\ new \in CallRec /\ CallOK(new)
  /\ r.stage \notin {"idle", "permit", "answered"}
  /\ new.stage \notin {"idle", "permit", "answered"}
  /\ new.key = r.key /\ new.id = r.id /\ new.tool = r.tool

LEMMA AdmittedOK ==
  ASSUME NEW r \in CallRec, CallOK(r), r.stage = "admit", NEW g \in Nat
  PROVE  LET new == [r EXCEPT !.stage = "attempt", !.admitted = TRUE, !.generation = g]
         IN  /\ Kept(r, new)
             /\ new.admitted /\ ~new.failed /\ new.generation = g
<1> DEFINE new == [r EXCEPT !.stage = "attempt", !.admitted = TRUE, !.generation = g]
<1>1. new \in CallRec
  BY DEF CallRec, Stages
<1>2. /\ new.stage = "attempt" /\ new.admitted = TRUE /\ new.generation = g
      /\ new.key = r.key /\ new.id = r.id /\ new.tool = r.tool
      /\ new.failed = r.failed /\ new.sent = r.sent /\ new.captured = r.captured
      /\ Untouched(r) => Untouched(new)
  BY DEF CallRec, Untouched
<1>3. Untouched(r) /\ r.sent = 0 /\ ~r.failed
  BY DEF CallOK, PhaseOK, SentOK, Untried, Early
<1> HIDE DEF new
<1>4. PermitOK(new)
  BY <1>2 DEF CallOK, PermitOK
<1>5. PhaseOK(new)
  BY <1>1, <1>2, <1>3, UntriedPhase DEF Untried
<1>6. 0 < Attempts(new.tool.method) /\ 0 <= Attempts(new.tool.method)
  BY Naturals
<1>7. SentOK(new)
  BY Zenon, <1>2, <1>3, <1>6 DEF SentOK, Early
<1> QED BY <1>1, <1>2, <1>3, <1>4, <1>5, <1>7 DEF Kept, CallOK, new

\* What a request leads to, the last one or not.
Tried(r, new) ==
  /\ new.key = r.key /\ new.id = r.id /\ new.tool = r.tool
  /\ new.admitted = r.admitted /\ new.generation = r.generation
  /\ new.sent = r.sent + 1
  /\ new.raw = r.raw /\ new.after = r.after /\ new.value = r.value /\ new.body = r.body
  /\ new.rawDone = r.rawDone /\ new.afterDone = r.afterDone /\ new.broken = r.broken

Ended(new) ==
  \/ new.stage = "raw" /\ new.raw # <<>>
  \/ new.stage = "normalize" /\ new.raw = <<>> /\ new.captured = "2xx"
  \/ new.stage = "returning" /\ new.answer = "error"

LEMMA TriedOK ==
  ASSUME NEW r \in CallRec, CallOK(r), r.stage = "attempt",
         NEW new \in CallRec, Tried(r, new), Ended(new), new.failed => new.captured # "2xx"
  PROVE  Kept(r, new)
<1>1. PermitOK(new)
  BY DEF CallOK, PermitOK, Tried, Ended
<1>2. r.sent \in Nat /\ new.sent = r.sent + 1 /\ r.sent < Attempts(r.tool.method)
  BY DEF CallOK, SentOK, Tried, CallRec
<1>3. new.sent <= Attempts(r.tool.method)
  BY <1>2, Naturals
<1>4. SentOK(new)
  BY Zenon, <1>3 DEF SentOK, Tried, Ended, Early
<1>5. Untouched(r) /\ r.rawDone <= Len(r.raw) /\ r.afterDone <= Len(r.after)
  BY Zenon DEF CallOK, PhaseOK, Untried
<1>6. /\ new.rawDone <= Len(new.raw) /\ new.afterDone <= Len(new.after)
      /\ new.afterDone = 0 /\ new.rawDone = 0 /\ new.broken = Unbroken
  BY Zenon, <1>5 DEF Tried, Untouched
<1>7. ~(new.rawDone > 0)
  BY <1>6
<1>8. PhaseOK(new)
  BY Zenon, <1>6, <1>7, RawPhase, NormalizePhase DEF Ended, PhaseOK, Untried, Early
<1> QED BY <1>1, <1>4, <1>8 DEF Kept, CallOK, Tried, Ended

LEMMA CapturedRec ==
  ASSUME NEW c \in Call, call[c] \in CallRec, NEW status \in {"2xx", "other"}
  PROVE  /\ Captured(c, status) \in CallRec
         /\ Tried(call[c], Captured(c, status)) /\ Ended(Captured(c, status))
         /\ Captured(c, status).captured = status
         /\ Captured(c, status).failed = call[c].failed
<1> DEFINE r == call[c]
           n == r.sent + 1
           stage == IF r.raw # <<>> THEN "raw"
                    ELSE IF status = "2xx" THEN "normalize" ELSE "returning"
           answer == IF r.raw = <<>> /\ status # "2xx" THEN "error" ELSE ""
           new == [r EXCEPT !.sent = n, !.captured = status, !.transient = FALSE,
                            !.stage = stage, !.answer = answer]
<1>1. Captured(c, status) = new
  BY DEF Captured
<1>2. n \in Nat /\ stage \in Stages /\ answer \in Answers
  <2>1. n \in Nat
    BY DEF CallRec
  <2>2. stage \in Stages /\ answer \in Answers
    BY Zenon DEF Stages, Answers
  <2> QED BY <2>1, <2>2
<1> HIDE DEF n, stage, answer, r
<1>3. new \in CallRec
  BY <1>2 DEF CallRec, r
<1>4. /\ new.key = r.key /\ new.id = r.id /\ new.tool = r.tool
      /\ new.admitted = r.admitted /\ new.generation = r.generation /\ new.failed = r.failed
      /\ new.raw = r.raw /\ new.after = r.after /\ new.value = r.value /\ new.body = r.body
      /\ new.rawDone = r.rawDone /\ new.afterDone = r.afterDone /\ new.broken = r.broken
      /\ new.sent = n /\ new.captured = status /\ new.stage = stage /\ new.answer = answer
  BY DEF CallRec, r
<1> HIDE DEF new
<1>5. Tried(r, new)
  BY Zenon, <1>4 DEF Tried, n
<1>6. Ended(new)
  BY Zenon, <1>4 DEF Ended, stage, answer
<1> QED BY Zenon, <1>1, <1>3, <1>4, <1>5, <1>6 DEF r

LEMMA FailedRec ==
  ASSUME NEW c \in Call, call[c] \in CallRec, call[c].stage = "attempt", CallOK(call[c]),
         NEW transient \in BOOLEAN
  PROVE  LET new == Failed(c, transient)
         IN  /\ Kept(call[c], new) /\ new.failed
             /\ new.admitted = call[c].admitted /\ new.generation = call[c].generation
<1> DEFINE r == call[c]
           kept == Captured(c, "other")
           n == r.sent + 1
           none == [r EXCEPT !.sent = n, !.stage = "returning", !.answer = "error"]
           mid == IF r.transient \/ transient THEN kept ELSE none
           new == [mid EXCEPT !.failed = TRUE]
<1>1. Failed(c, transient) = new
  BY DEF Failed
<1>2. r.captured = "none" /\ n \in Nat
  <2>1. r.captured = "none"
    BY Zenon DEF CallOK, PhaseOK, Untried, Untouched
  <2>2. n \in Nat
    BY DEF CallRec
  <2> QED BY <2>1, <2>2
<1>3. kept \in CallRec /\ Tried(r, kept) /\ Ended(kept) /\ kept.captured # "2xx"
  BY CapturedRec
<1> HIDE DEF kept, n
<1>4. none \in CallRec /\ none.stage = "returning" /\ none.answer = "error"
      /\ none.captured # "2xx"
  BY <1>2 DEF CallRec, Stages, Answers
<1>5. Tried(r, none)
  BY <1>2 DEF CallRec, Tried, n
<1>6. Ended(none)
  BY Zenon, <1>4 DEF Ended
<1> HIDE DEF none
<1>7. mid \in CallRec /\ Tried(r, mid) /\ Ended(mid) /\ mid.captured # "2xx"
  BY Zenon, <1>3, <1>4, <1>5, <1>6
<1> HIDE DEF mid
<1>8. new \in CallRec /\ new.failed = TRUE /\ new.captured = mid.captured
      /\ new.key = mid.key /\ new.id = mid.id /\ new.tool = mid.tool
      /\ new.admitted = mid.admitted /\ new.generation = mid.generation
      /\ new.raw = mid.raw /\ new.after = mid.after /\ new.value = mid.value
      /\ new.body = mid.body /\ new.rawDone = mid.rawDone /\ new.afterDone = mid.afterDone
      /\ new.broken = mid.broken /\ new.sent = mid.sent /\ new.stage = mid.stage
      /\ new.answer = mid.answer
  BY <1>7 DEF CallRec
<1> HIDE DEF new
<1>9. Tried(r, new) /\ Ended(new) /\ new.captured # "2xx"
  BY Zenon, <1>7, <1>8 DEF Tried, Ended
<1>10. Kept(r, new)
  BY <1>8, <1>9, TriedOK
<1> QED BY Zenon, <1>1, <1>8, <1>9, <1>10 DEF Tried

LEMMA RetriedOK ==
  ASSUME NEW c \in Call, call[c] \in CallRec, call[c].stage = "attempt", CallOK(call[c]),
         AttemptsLeft(c), NEW t \in BOOLEAN
  PROVE  LET new == [call[c] EXCEPT !.sent = @ + 1, !.transient = t]
         IN  /\ Kept(call[c], new) /\ new.failed = call[c].failed
             /\ new.admitted = call[c].admitted /\ new.generation = call[c].generation
<1> DEFINE r == call[c]
           n == r.sent + 1
           new == [r EXCEPT !.sent = n, !.transient = t]
<1>1. n \in Nat /\ n < Attempts(r.tool.method)
  BY DEF CallRec, AttemptsLeft, Attempts
<1> HIDE DEF n
<1>2. new \in CallRec
  BY <1>1 DEF CallRec
<1>3. /\ new.stage = "attempt" /\ new.key = r.key /\ new.id = r.id /\ new.tool = r.tool
      /\ new.admitted = r.admitted /\ new.generation = r.generation /\ new.failed = r.failed
      /\ new.sent = n /\ new.captured = r.captured
      /\ Untouched(r) => Untouched(new)
  BY DEF CallRec, Untouched
<1>4. Untouched(r) /\ r.admitted /\ ~r.failed
  BY DEF CallOK, PhaseOK, SentOK, Untried
<1> HIDE DEF new
<1>5. PermitOK(new)
  BY <1>3 DEF CallOK, PermitOK
<1>6. PhaseOK(new)
  BY <1>2, <1>3, <1>4, UntriedPhase DEF Untried
<1>7. SentOK(new)
  BY <1>1, <1>3, <1>4, Naturals DEF SentOK, Early
<1> QED BY <1>2, <1>3, <1>5, <1>6, <1>7 DEF Kept, CallOK, new, n

-----------------------------------------------------------------------------
(* The concurrency limiter *)

Runs(r) == r.stage \notin {"idle", "permit", "answered"}

LEMMA Updated ==
  ASSUME Typed, NEW c \in Call, NEW new \in CallRec, Update(c, new)
  PROVE  /\ call' \in [Call -> CallRec] /\ call'[c] = new
         /\ \A d \in Call : d # c => call'[d] = call[d]
BY DEF Typed, Update

LEMMA CallsOK ==
  ASSUME Typed, NEW c \in Call, NEW new \in CallRec, Update(c, new), CallOK(new),
         \A d \in Call : CallOK(call[d])
  PROVE  \A d \in Call : CallOK(call[d])'
<1> SUFFICES ASSUME NEW d \in Call PROVE CallOK(call'[d])
  BY Zenon DEF CallOK, PermitOK, SentOK, PhaseOK, RawWhole, AfterWhole, Untouched, Unbroken,
               Attempts, retrySafeMethod, Untried, Early, Keys
<1>1. CASE d = c
  BY <1>1, Updated
<1>2. CASE d # c
  BY <1>2, Updated
<1> QED BY <1>1, <1>2

LEMMA HoldersAfter ==
  ASSUME Typed, NEW c \in Call, NEW new \in CallRec, Update(c, new), NEW k
  PROVE  Holders(k)' = IF Runs(new) /\ new.key = k THEN Holders(k) \cup {c}
                       ELSE Holders(k) \ {c}
BY Updated DEF Holders, Running, Runs

LEMMA HoldersFinite ==
  ASSUME NEW k
  PROVE  IsFiniteSet(Holders(k)) /\ Cardinality(Holders(k)) \in Nat
<1>1. Holders(k) \in SUBSET Call
  BY DEF Holders
<1> QED BY <1>1, CallPathAssumption, FS_Subset, FS_CardinalityType

\* A step that leaves the holders and the entries alone.
LEMMA EntriesSame ==
  ASSUME Typed, EntriesOK, NEW c \in Call, NEW new \in CallRec, Update(c, new),
         UNCHANGED entries,
         \/ ~Runs(call[c]) /\ ~Runs(new)
         \/ /\ Runs(call[c]) /\ Runs(new)
            /\ new.key = call[c].key /\ new.id = call[c].id /\ new.tool = call[c].tool
         \/ ~Runs(call[c]) /\ new.key = "none"
  PROVE  EntriesOK'
<1>1. "none" \notin Keys
  BY CallPathAssumption DEF Keys
<1> SUFFICES ASSUME NEW k \in Keys
             PROVE  /\ entries[k] = NoEntry \/ entries[k].id \in Call
                    /\ entries[k].active = Cardinality(Holders(k)')
                    /\ entries[k].active <= entries[k].limit
                    /\ \A d \in Holders(k)' :
                         entries[k].id = call'[d].id /\ entries[k].limit = call'[d].tool.limit
  BY DEF EntriesOK, NoEntry
<1>2. Holders(k)' = Holders(k)
  <2>1. c \in Holders(k) <=> Runs(call[c]) /\ call[c].key = k
    BY DEF Holders, Running, Runs
  <2> QED BY <1>1, <2>1, HoldersAfter
<1>3. ASSUME NEW d \in Holders(k)
      PROVE  entries[k].id = call'[d].id /\ entries[k].limit = call'[d].tool.limit
  <2>1. /\ d \in Call /\ Runs(call[d])
        /\ entries[k].id = call[d].id /\ entries[k].limit = call[d].tool.limit
    BY <1>3 DEF EntriesOK, Holders, Running, Runs
  <2>2. d \in Holders(k)'
    BY <1>2, <1>3
  <2>3. CASE d # c
    BY <2>1, <2>3, Updated
  <2>4. CASE d = c
    <3>1. Runs(new) /\ new.key = k
      BY <2>2, <2>4, HoldersAfter
    <3>2. new.id = call[c].id /\ new.tool = call[c].tool
      BY <1>1, <2>1, <2>4, <3>1
    <3> QED BY <2>1, <2>4, <3>2, Updated
  <2> QED BY <2>3, <2>4
<1> QED BY <1>2, <1>3 DEF EntriesOK

LEMMA NoEntryRec == NoEntry \in EntryRec /\ NoEntry.active = 0
BY DEF NoEntry, EntryRec

\* Entries are dropped only when nobody holds them.
LEMMA DropIdle ==
  ASSUME NEW es \in [Keys -> EntryRec]
  PROVE  /\ dropIdleEntries(es) \in [Keys -> EntryRec]
         /\ \A k \in Keys : \/ dropIdleEntries(es)[k] = es[k]
                            \/ dropIdleEntries(es)[k] = NoEntry /\ es[k].active = 0
BY NoEntryRec DEF dropIdleEntries

NewEntry(c, limit) == [id |-> c, active |-> 1, limit |-> limit, age |-> 0]

\* What acquire does to the entries: the permit is one more of an entry with
\* the same limit and room, or the first of a new entry.
Acquired(es, key, limit, c, a) ==
  /\ a.entries \in [Keys -> EntryRec]
  /\ a.granted \in BOOLEAN
  /\ \A k \in Keys : ~a.granted \/ k # key =>
       a.entries[k] = es[k] \/ (a.entries[k] = NoEntry /\ es[k].active = 0)
  /\ a.granted =>
       /\ a.id = a.entries[key].id
       /\ \/ /\ es[key] # NoEntry /\ es[key].limit = limit /\ es[key].active < limit
             /\ a.entries[key] = [es[key] EXCEPT !.active = @ + 1]
          \/ es[key].active = 0 /\ a.entries[key] = NewEntry(c, limit)

LEMMA Acquire ==
  ASSUME NEW es \in [Keys -> EntryRec], NEW key \in Keys, NEW limit \in Nat, NEW c \in Call
  PROVE  Acquired(es, key, limit, c, acquire(es, key, limit, c))
<1> USE DEF Acquired
<1> DEFINE a == acquire(es, key, limit, c)
           e == es[key]
           cleared == [es EXCEPT ![key] = NoEntry]
           room == dropIdleEntries(cleared)
<1>1. e \in EntryRec /\ e.active \in Nat /\ e.limit \in Nat
  BY DEF EntryRec
<1>2. CASE \/ e # NoEntry /\ e.limit # limit /\ e.active > 0
           \/ e # NoEntry /\ e.limit = limit /\ e.active >= limit
  <2>1. a = [granted |-> FALSE, id |-> "none", entries |-> es]
    BY <1>1, <1>2 DEF acquire
  <2> QED BY <2>1
<1>3. CASE e # NoEntry /\ e.limit = limit /\ e.active < limit
  <2> DEFINE up == [e EXCEPT !.active = @ + 1]
  <2>1. a = [granted |-> TRUE, id |-> e.id, entries |-> [es EXCEPT ![key].active = @ + 1]]
    BY <1>1, <1>3 DEF acquire
  <2>2. up \in EntryRec /\ up.id = e.id
    BY <1>1 DEF EntryRec
  <2>3. [es EXCEPT ![key].active = @ + 1] = [es EXCEPT ![key] = up]
    OBVIOUS
  <2> HIDE DEF up
  <2>4. a.entries = [es EXCEPT ![key] = up] /\ a.id = e.id /\ a.granted = TRUE
    BY <2>1, <2>3
  <2> HIDE DEF a
  <2> QED BY <1>3, <2>2, <2>4 DEF up, a
<1>4. CASE e = NoEntry \/ (e.limit # limit /\ ~(e.active > 0))
  <2>1. e.active = 0
    BY <1>1, <1>4, NoEntryRec
  <2>2. a = addEntry(cleared, key, limit, c)
    BY <1>1, <1>4 DEF acquire
  <2>3. /\ cleared \in [Keys -> EntryRec] /\ cleared[key] = NoEntry
        /\ \A k \in Keys : k # key => cleared[k] = es[k]
    BY NoEntryRec
  <2> HIDE DEF cleared
  <2>4. /\ room \in [Keys -> EntryRec]
        /\ \A k \in Keys : \/ room[k] = cleared[k]
                           \/ room[k] = NoEntry /\ cleared[k].active = 0
    BY <2>3, DropIdle
  <2>5. \A k \in Keys : room[k] = es[k] \/ (room[k] = NoEntry /\ es[k].active = 0)
    BY <2>1, <2>3, <2>4
  <2>6. NewEntry(c, limit) \in EntryRec /\ NewEntry(c, limit).id = c
    BY DEF NewEntry, EntryRec
  <2>7. \/ a = [granted |-> FALSE, id |-> "none", entries |-> room]
        \/ a = [granted |-> TRUE, id |-> c,
                entries |-> [room EXCEPT ![key] = NewEntry(c, limit)]]
    BY <2>2 DEF addEntry, NewEntry
  <2> HIDE DEF room, a, e
  <2>8. CASE a = [granted |-> FALSE, id |-> "none", entries |-> room]
    BY <2>4, <2>5, <2>8 DEF a
  <2>9. CASE a = [granted |-> TRUE, id |-> c,
                  entries |-> [room EXCEPT ![key] = NewEntry(c, limit)]]
    <3>1. a.entries = [room EXCEPT ![key] = NewEntry(c, limit)] /\ a.id = c /\ a.granted = TRUE
      BY <2>9
    <3> QED BY <2>1, <2>4, <2>5, <2>6, <3>1 DEF a, e
  <2> QED BY <2>7, <2>8, <2>9
<1> QED BY <1>1, <1>2, <1>3, <1>4

\* An entry that nobody holds may go when a call gets or lacks a permit of
\* another.
LEMMA EntriesOther ==
  ASSUME Typed, EntriesOK, NEW c \in Call, NEW new \in CallRec, Update(c, new),
         ~Runs(call[c]),
         NEW k \in Keys, ~Runs(new) \/ new.key # k,
         entries'[k] = entries[k] \/ (entries'[k] = NoEntry /\ entries[k].active = 0)
  PROVE  /\ entries'[k] = NoEntry \/ entries'[k].id \in Call
         /\ entries'[k].active = Cardinality(Holders(k)')
         /\ entries'[k].active <= entries'[k].limit
         /\ \A d \in Holders(k)' :
              entries'[k].id = call'[d].id /\ entries'[k].limit = call'[d].tool.limit
<1>1. Holders(k)' = Holders(k) /\ c \notin Holders(k)
  BY HoldersAfter DEF Holders, Running, Runs
<1>2. \A d \in Holders(k) : d \in Call /\ call'[d] = call[d]
  BY <1>1, Updated DEF Holders
<1>3. CASE entries'[k] = entries[k]
  BY <1>1, <1>2, <1>3 DEF EntriesOK
<1>4. CASE entries'[k] = NoEntry /\ entries[k].active = 0
  <2>1. Holders(k) = {}
    BY <1>4, HoldersFinite, FS_EmptySet DEF EntriesOK
  <2>2. NoEntry.active = 0 /\ NoEntry.limit = 0
    BY DEF NoEntry
  <2> QED BY <1>1, <1>4, <2>1, <2>2, FS_EmptySet
<1> QED BY <1>3, <1>4

LEMMA KeyInKeys ==
  ASSUME NEW u \in Principal, NEW b
  PROVE  keyOf(u, b) \in Keys /\ keyOf(u, b) # "none"
BY CallPathAssumption DEF keyOf, Keys

\* An answered call.
Final(r, answer) ==
  [Idle EXCEPT !.stage = "answered", !.answer = answer, !.failed = r.failed,
               !.admitted = r.admitted, !.generation = r.generation]

LEMMA IdleOK ==
  /\ Idle \in CallRec /\ CallOK(Idle)
  /\ ~Idle.admitted /\ ~Idle.failed /\ Idle.generation = 0
<1>1. Idle \in CallRec
  BY DEF CallRec, Idle, NoTool, ToolType, Methods, Stages, Outcome, Answers
<1>2. Idle.stage = "idle" /\ Untouched(Idle)
  BY DEF Idle, Untouched, Unbroken
<1>3. PhaseOK(Idle)
  BY <1>1, <1>2, UntriedPhase DEF Untried, Early
<1>4. PermitOK(Idle)
  BY DEF Idle, PermitOK
<1>5. 0 <= Attempts(Idle.tool.method)
  BY Naturals
<1>6. SentOK(Idle)
  BY Zenon, <1>5 DEF Idle, SentOK, Early
<1> QED BY <1>1, <1>3, <1>4, <1>6 DEF CallOK, Idle

LEMMA FinalOK ==
  ASSUME NEW r \in CallRec, NEW answer \in Answers
  PROVE  LET new == Final(r, answer)
         IN  /\ new \in CallRec /\ CallOK(new) /\ ~Runs(new)
             /\ new.admitted = r.admitted /\ new.generation = r.generation
             /\ new.failed = r.failed
<1> DEFINE new == Final(r, answer)
<1>1. new \in CallRec
  <2>1. r.failed \in BOOLEAN /\ r.admitted \in BOOLEAN /\ r.generation \in Nat
    BY DEF CallRec
  <2>2. "answered" \in Stages
    BY DEF Stages
  <2> QED BY <2>1, <2>2, IdleOK DEF Final, CallRec
<1>2. /\ new.stage = "answered" /\ new.answer = answer /\ new.key = Idle.key
      /\ new.id = Idle.id /\ new.tool = Idle.tool /\ new.sent = Idle.sent
      /\ new.captured = Idle.captured /\ new.raw = Idle.raw /\ new.after = Idle.after
      /\ new.rawDone = Idle.rawDone /\ new.afterDone = Idle.afterDone
      /\ new.admitted = r.admitted /\ new.generation = r.generation /\ new.failed = r.failed
  BY IdleOK DEF Final, CallRec
<1> HIDE DEF new
<1>3. PermitOK(new)
  BY <1>2 DEF PermitOK, Idle
<1>4. SentOK(new)
  BY Zenon, <1>2, IdleOK DEF SentOK, CallOK, Early, Idle
<1>5. PhaseOK(new)
  BY Zenon, <1>2, IdleOK DEF PhaseOK, CallOK, Untried, Early
<1> QED BY <1>1, <1>2, <1>3, <1>4, <1>5 DEF CallOK, Runs, new

\* The limiter's step keeps the books.
LEMMA ConcurrencyStep ==
  ASSUME Typed, EntriesOK, NEW c \in Call, CallOK(call[c]), ConcurrencyMiddleware(c)
  PROVE  /\ \E new \in CallRec :
              /\ Update(c, new) /\ CallOK(new)
              /\ new.admitted = call[c].admitted /\ new.generation = call[c].generation
              /\ new.failed = call[c].failed
         /\ entries' \in [Keys -> EntryRec] /\ EntriesOK'
         /\ UNCHANGED <<limiters, quiet, credit, cb, active, swaps, ticks, expiries>>
<1> DEFINE r == call[c]
           limit == r.tool.limit
           key == keyOf(r.principal, r.tool.perPrincipal)
           a == acquire(entries, key, limit, c)
<1>1. /\ r \in CallRec /\ r.stage = "permit" /\ r.key = "none" /\ r.id = "none"
      /\ ~Runs(r) /\ limit \in Nat /\ key \in Keys /\ key # "none"
  <2>1. r \in CallRec /\ r.stage = "permit" /\ r.principal \in Principal
    BY DEF Typed, CallOK, PermitOK, ConcurrencyMiddleware
  <2>2. limit \in Nat
    BY <2>1 DEF CallRec, ToolType
  <2> QED BY <2>1, <2>2, KeyInKeys DEF CallOK, PermitOK, Runs
<1>2. Untouched(r) /\ SentOK(r) /\ r.stage \in Untried
  BY <1>1 DEF CallOK, PhaseOK, Untried, Early
<1>3. UNCHANGED <<limiters, quiet, credit, cb, active, swaps, ticks, expiries>>
  BY DEF ConcurrencyMiddleware, World
<1>4. CASE limit = 0 /\ To(c, "bindRaw") /\ UNCHANGED entries
  <2> DEFINE new == [r EXCEPT !.stage = "bindRaw"]
  <2>1. new \in CallRec
    BY <1>1 DEF CallRec, Stages
  <2>2. /\ new.stage = "bindRaw" /\ new.key = r.key /\ new.id = r.id /\ new.tool = r.tool
        /\ new.admitted = r.admitted /\ new.generation = r.generation
        /\ new.failed = r.failed /\ new.sent = r.sent /\ new.captured = r.captured
        /\ Untouched(r) => Untouched(new)
    BY <1>1 DEF CallRec, Untouched
  <2>3. Update(c, new)
    BY <1>4 DEF To
  <2> HIDE DEF new
  <2>4. CallOK(new)
    <3>1. PermitOK(new)
      BY <1>1, <2>2 DEF PermitOK
    <3>2. SentOK(new)
      BY Zenon, <1>1, <1>2, <2>2 DEF SentOK, Early
    <3> QED BY <1>2, <2>1, <2>2, <3>1, <3>2, UntriedPhase DEF CallOK, Untried, Early
  <2>5. EntriesOK'
    BY <1>1, <1>4, <2>1, <2>2, <2>3, EntriesSame
  <2> QED BY <1>3, <1>4, <2>1, <2>2, <2>3, <2>4, <2>5 DEF Typed
<1>5. CASE limit > 0 /\ entries' = a.entries /\ ~a.granted /\ Answered(c, "concurrency_limited")
  <2> DEFINE new == Final(r, "concurrency_limited")
  <2>1. /\ new \in CallRec /\ CallOK(new) /\ ~Runs(new)
        /\ new.admitted = r.admitted /\ new.generation = r.generation /\ new.failed = r.failed
    BY <1>1, FinalOK DEF Answers
  <2>2. Update(c, new)
    BY <1>5 DEF Answered, Final
  <2> HIDE DEF new
  <2>3. /\ a.entries \in [Keys -> EntryRec]
        /\ \A k \in Keys : a.entries[k] = entries[k]
                           \/ (a.entries[k] = NoEntry /\ entries[k].active = 0)
    <3>1. Acquired(entries, key, limit, c, a)
      BY <1>1, Acquire DEF Typed
    <3> HIDE DEF a
    <3> QED BY <1>5, <3>1 DEF Acquired
  <2>4. EntriesOK'
    <3> SUFFICES ASSUME NEW k \in Keys
                 PROVE  /\ entries'[k] = NoEntry \/ entries'[k].id \in Call
                        /\ entries'[k].active = Cardinality(Holders(k)')
                        /\ entries'[k].active <= entries'[k].limit
                        /\ \A d \in Holders(k)' :
                             /\ entries'[k].id = call'[d].id
                             /\ entries'[k].limit = call'[d].tool.limit
      BY DEF EntriesOK, NoEntry, Keys
    <3> HIDE DEF a, key
    <3> QED BY <1>1, <1>5, <2>1, <2>2, <2>3, EntriesOther
  <2> QED BY <1>3, <1>5, <2>1, <2>2, <2>3, <2>4
<1>6. CASE /\ limit > 0 /\ entries' = a.entries /\ a.granted
           /\ Update(c, [r EXCEPT !.stage = "bindRaw", !.key = key, !.id = a.id,
                                  !.principal = "nobody"])
  <2> DEFINE new == [r EXCEPT !.stage = "bindRaw", !.key = key, !.id = a.id,
                              !.principal = "nobody"]
             e == entries[key]
  <2>1. /\ a.entries \in [Keys -> EntryRec]
        /\ \A k \in Keys : k # key =>
             a.entries[k] = entries[k] \/ (a.entries[k] = NoEntry /\ entries[k].active = 0)
        /\ a.id = a.entries[key].id
        /\ \/ /\ e # NoEntry /\ e.limit = limit /\ e.active < limit
              /\ a.entries[key] = [e EXCEPT !.active = @ + 1]
           \/ e.active = 0 /\ a.entries[key] = NewEntry(c, limit)
    <3>1. Acquired(entries, key, limit, c, a)
      BY <1>1, Acquire DEF Typed
    <3> HIDE DEF a, key, limit
    <3> QED BY <1>1, <1>6, <3>1 DEF Acquired
  <2>2. e \in EntryRec /\ (e = NoEntry \/ e.id \in Call)
        /\ e.active = Cardinality(Holders(key)) /\ e.active \in Nat
    BY <1>1 DEF Typed, EntriesOK, EntryRec
  <2>3. /\ entries'[key].id \in Call
        /\ entries'[key].active = e.active + 1
        /\ entries'[key].limit = limit
        /\ e.active + 1 <= limit
        /\ e.active = 0 \/ (entries'[key].id = e.id /\ e.limit = limit)
    <3>1. CASE e # NoEntry /\ e.limit = limit /\ e.active < limit
               /\ a.entries[key] = [e EXCEPT !.active = @ + 1]
      <4>1. entries'[key] = [e EXCEPT !.active = @ + 1]
        BY <1>6, <3>1
      <4>2. /\ [e EXCEPT !.active = @ + 1].id = e.id
            /\ [e EXCEPT !.active = @ + 1].active = e.active + 1
            /\ [e EXCEPT !.active = @ + 1].limit = e.limit
        BY <2>2 DEF EntryRec
      <4>3. e.active + 1 <= limit
        BY <1>1, <2>2, <3>1
      <4> HIDE DEF e, limit
      <4> QED BY Zenon, <2>2, <3>1, <4>1, <4>2, <4>3 DEF e
    <3>2. CASE e.active = 0 /\ a.entries[key] = NewEntry(c, limit)
      <4>1. entries'[key] = NewEntry(c, limit)
        BY <1>6, <3>2
      <4>2. e.active = 0 /\ e.active + 1 = 1 /\ e.active + 1 <= limit
        BY <1>1, <1>6, <3>2
      <4>3. /\ NewEntry(c, limit).id = c /\ NewEntry(c, limit).active = 1
            /\ NewEntry(c, limit).limit = limit
        BY DEF NewEntry
      <4> HIDE DEF e, limit, a, key
      <4>4. entries'[key].id = c /\ entries'[key].active = 1 /\ entries'[key].limit = limit
        BY Zenon, <4>1, <4>3
      <4> QED BY <4>2, <4>4
    <3> QED BY <2>1, <3>1, <3>2
  <2>4. a.id \in Call /\ a.id # "none"
    BY <1>6, <2>1, <2>3, CallPathAssumption
  <2> HIDE DEF a, key
  <2>5. new \in CallRec
    BY <1>1, <2>4 DEF CallRec, Stages
  <2>6. /\ new.stage = "bindRaw" /\ new.key = key /\ new.id = a.id /\ new.tool = r.tool
        /\ new.admitted = r.admitted /\ new.generation = r.generation
        /\ new.failed = r.failed /\ new.sent = r.sent /\ new.captured = r.captured
        /\ Untouched(r) => Untouched(new)
    BY <1>1 DEF CallRec, Untouched
  <2>7. Update(c, new)
    BY <1>6
  <2> HIDE DEF new
  <2>8. CallOK(new)
    <3>1. PermitOK(new)
      BY <1>1, <2>4, <2>6 DEF PermitOK
    <3>2. SentOK(new)
      BY Zenon, <1>1, <1>2, <2>6 DEF SentOK, Early
    <3> QED BY <1>2, <2>5, <2>6, <3>1, <3>2, UntriedPhase DEF CallOK, Untried, Early
  <2>9. EntriesOK'
    <3> SUFFICES ASSUME NEW k \in Keys
                 PROVE  /\ entries'[k] = NoEntry \/ entries'[k].id \in Call
                        /\ entries'[k].active = Cardinality(Holders(k)')
                        /\ entries'[k].active <= entries'[k].limit
                        /\ \A d \in Holders(k)' :
                             /\ entries'[k].id = call'[d].id
                             /\ entries'[k].limit = call'[d].tool.limit
      BY DEF EntriesOK, NoEntry, Keys
    <3>1. CASE k # key
      BY <1>1, <1>6, <2>1, <2>5, <2>6, <2>7, <3>1, EntriesOther
    <3>2. CASE k = key
      <4>1. Holders(k)' = Holders(k) \cup {c} /\ c \notin Holders(k)
        BY <1>1, <2>5, <2>6, <2>7, <3>2, HoldersAfter DEF Runs, Holders, Running
      <4>2. Cardinality(Holders(k)') = e.active + 1
        BY <2>2, <3>2, <4>1, HoldersFinite, FS_AddElement
      <4>3. ASSUME NEW d \in Holders(k)
            PROVE  /\ entries'[k].id = call'[d].id
                   /\ entries'[k].limit = call'[d].tool.limit
        <5>1. /\ d \in Call /\ d # c /\ e.id = call[d].id /\ e.limit = call[d].tool.limit
          BY <3>2, <4>1, <4>3 DEF EntriesOK, Holders
        <5>2. Holders(k) # {}
          BY <4>3
        <5>3. e.active # 0
          BY <2>2, <3>2, <5>2, HoldersFinite, FS_EmptySet
        <5>4. call'[d] = call[d]
          BY <2>5, <2>7, <5>1, Updated
        <5> QED BY <2>3, <3>2, <5>1, <5>3, <5>4
      <4>4. entries'[k].id = call'[c].id /\ entries'[k].limit = call'[c].tool.limit
        BY <1>6, <2>1, <2>3, <2>5, <2>6, <2>7, <3>2, Updated
      <4> QED BY <2>3, <3>2, <4>1, <4>2, <4>3, <4>4
    <3> QED BY <3>1, <3>2
  <2> QED BY <1>3, <1>6, <2>1, <2>5, <2>6, <2>7, <2>8, <2>9
<1> QED BY <1>1, <1>4, <1>5, <1>6 DEF ConcurrencyMiddleware

LEMMA ReleaseStep ==
  ASSUME Typed, EntriesOK, NEW c \in Call, CallOK(call[c]), Release(c)
  PROVE  /\ \E new \in CallRec :
              /\ Update(c, new) /\ CallOK(new)
              /\ new.admitted = call[c].admitted /\ new.generation = call[c].generation
              /\ new.failed = call[c].failed
         /\ entries' \in [Keys -> EntryRec] /\ EntriesOK'
         /\ UNCHANGED <<limiters, quiet, credit, cb, active, swaps, ticks, expiries>>
<1> DEFINE r == call[c]
           new == Final(r, r.answer)
           e == entries[r.key]
<1>1. r \in CallRec /\ r.stage = "returning" /\ r.answer \in Answers /\ Runs(r)
  BY DEF Typed, CallRec, Release, Runs
<1>2. /\ new \in CallRec /\ CallOK(new) /\ ~Runs(new)
      /\ new.admitted = r.admitted /\ new.generation = r.generation /\ new.failed = r.failed
  BY <1>1, FinalOK
<1>3. Update(c, new)
  BY DEF Release, Answered, Final
<1>4. UNCHANGED <<limiters, quiet, credit, cb, active, swaps, ticks, expiries>>
  BY DEF Release, World
<1> HIDE DEF new
<1>5. \A k \in Keys : Holders(k)' = Holders(k) \ {c}
  BY <1>2, <1>3, HoldersAfter
<1>6. \A k \in Keys : c \in Holders(k) <=> r.key = k
  BY <1>1 DEF Holders, Running, Runs
<1>7. \A k \in Keys : \A d \in Holders(k)' : d \in Call /\ d \in Holders(k) /\ call'[d] = call[d]
  BY <1>2, <1>3, <1>5, Updated DEF Holders
<1>8. \A k \in Keys : r.key # k => Holders(k)' = Holders(k)
  BY <1>5, <1>6
<1>9. CASE r.id = "none"
  <2>1. r.key = "none" /\ "none" \notin Keys /\ entries' = entries
    BY <1>9, CallPathAssumption DEF CallOK, PermitOK, Keys, Release
  <2>2. ASSUME NEW k \in Keys
        PROVE  /\ entries'[k] = NoEntry \/ entries'[k].id \in Call
               /\ entries'[k].active = Cardinality(Holders(k)')
               /\ entries'[k].active <= entries'[k].limit
               /\ \A d \in Holders(k)' :
                    entries'[k].id = call'[d].id /\ entries'[k].limit = call'[d].tool.limit
    BY <1>7, <1>8, <2>1 DEF EntriesOK
  <2>3. EntriesOK'
    BY <2>2 DEF EntriesOK, NoEntry, Keys
  <2> QED BY <1>2, <1>3, <1>4, <2>1, <2>3 DEF Typed
<1>10. CASE r.id # "none"
  <2>1. r.key \in Keys /\ c \in Holders(r.key)
    BY <1>1, <1>6, <1>10 DEF CallOK, PermitOK, CallRec
  <2>2. e \in EntryRec /\ e.active \in Nat /\ e.id = r.id
    BY <2>1 DEF Typed, EntriesOK, EntryRec
  <2>3. e.active = Cardinality(Holders(r.key)) /\ e.active # 0 /\ e.id # "none"
        /\ e.active <= e.limit /\ e.limit \in Nat
    BY <1>10, <2>1, <2>2, HoldersFinite, FS_EmptySet DEF EntriesOK, EntryRec
  <2> DEFINE n == e.active - 1
             down == [e EXCEPT !.active = n, !.age = 0]
  <2>4. entries' = [entries EXCEPT ![r.key] = down]
    <3>1. entries' = releaseFunc(entries, r.key, r.id)
      BY <1>10 DEF Release
    <3>2. ~(e.id # r.id \/ e.active = 0)
      BY <2>2, <2>3
    <3>3. entries' = [entries EXCEPT ![r.key].active = @ - 1, ![r.key].age = 0]
      BY Zenon, <3>1, <3>2 DEF releaseFunc
    <3> QED BY <2>1, <3>3 DEF Typed
  <2>5. /\ down \in EntryRec /\ down.id = e.id /\ down.active = e.active - 1
        /\ down.limit = e.limit
    <3>1. n \in Nat
      BY <2>2, <2>3
    <3> HIDE DEF n
    <3> QED BY <2>2, <3>1 DEF EntryRec, n
  <2>6. /\ \A k \in Keys : k = r.key => down.active = Cardinality(Holders(k)')
        /\ down.active <= down.limit
    <3>1. Cardinality(Holders(r.key) \ {c}) = Cardinality(Holders(r.key)) - 1
      BY <2>1, HoldersFinite, FS_RemoveElement
    <3>2. ASSUME NEW k \in Keys, k = r.key PROVE Holders(k)' = Holders(r.key) \ {c}
      BY <1>5, <3>2
    <3>3. e.active - 1 = Cardinality(Holders(r.key) \ {c}) /\ e.active - 1 <= e.limit
      BY <2>2, <2>3, <3>1
    <3> HIDE DEF down, e
    <3> QED BY Zenon, <2>5, <3>2, <3>3
  <2> HIDE DEF down
  <2>7. /\ entries' \in [Keys -> EntryRec] /\ entries'[r.key] = down
        /\ \A k \in Keys : k # r.key => entries'[k] = entries[k]
    BY <2>1, <2>4, <2>5 DEF Typed
  <2>8. ASSUME NEW k \in Keys
        PROVE  /\ entries'[k] = NoEntry \/ entries'[k].id \in Call
               /\ entries'[k].active = Cardinality(Holders(k)')
               /\ entries'[k].active <= entries'[k].limit
               /\ \A d \in Holders(k)' :
                    entries'[k].id = call'[d].id /\ entries'[k].limit = call'[d].tool.limit
    <3>1. CASE k # r.key
      BY <1>7, <1>8, <2>7, <3>1 DEF EntriesOK
    <3>2. CASE k = r.key
      <4>1. e.id \in Call
        BY <2>2, <2>3 DEF EntryRec
      <4>2. ASSUME NEW d \in Holders(k)'
            PROVE  e.id = call'[d].id /\ e.limit = call'[d].tool.limit
        BY <1>7, <3>2, <4>2 DEF EntriesOK
      <4>3. entries'[k].id = e.id /\ entries'[k].limit = e.limit /\ entries'[k] = down
        BY <2>5, <2>7, <3>2
      <4> HIDE DEF e
      <4> QED BY Zenon, <2>6, <3>2, <4>1, <4>2, <4>3
    <3> QED BY <3>1, <3>2
  <2>9. EntriesOK'
    BY <2>8 DEF EntriesOK, NoEntry, Keys
  <2> QED BY <1>2, <1>3, <1>4, <2>7, <2>9
<1> QED BY <1>9, <1>10

LEMMA OlderNat ==
  ASSUME NEW age \in Nat
  PROVE  Older(age) \in Nat /\ Older(age) <= age + 1
BY LimiterAssumption DEF Older

LEMMA EntriesAge ==
  ASSUME Typed, EntriesOK, entries' = AgeEntries(entries), UNCHANGED call
  PROVE  entries' \in [Keys -> EntryRec] /\ EntriesOK'
<1>1. ASSUME NEW k \in Keys
      PROVE  /\ entries'[k] \in EntryRec
             /\ entries'[k] = NoEntry \/ entries'[k].id \in Call
             /\ entries'[k].id = entries[k].id /\ entries'[k].active = entries[k].active
             /\ entries'[k].limit = entries[k].limit
  <2> DEFINE e == entries[k]
  <2>1. e \in EntryRec /\ e.age \in Nat /\ Older(e.age) \in Nat
    BY OlderNat DEF Typed, EntryRec
  <2>2. CASE e = NoEntry
    BY <2>2, NoEntryRec DEF AgeEntries
  <2>3. CASE e # NoEntry
    <3> DEFINE old == [e EXCEPT !.age = Older(e.age)]
    <3>1. entries'[k] = old
      BY <2>3 DEF AgeEntries
    <3>2. old \in EntryRec /\ old.id = e.id /\ old.active = e.active /\ old.limit = e.limit
      BY <2>1 DEF EntryRec
    <3>3. e.id \in Call
      BY <2>3 DEF EntriesOK
    <3> HIDE DEF old
    <3> QED BY <3>1, <3>2, <3>3
  <2> QED BY <2>2, <2>3
<1>2. entries' \in [Keys -> EntryRec]
  BY <1>1 DEF AgeEntries
<1>3. \A k : Holders(k)' = Holders(k)
  BY DEF Holders, Running
<1>4. ASSUME NEW k \in Keys
      PROVE  /\ entries'[k] = NoEntry \/ entries'[k].id \in Call
             /\ entries'[k].active = Cardinality(Holders(k)')
             /\ entries'[k].active <= entries'[k].limit
             /\ \A d \in Holders(k)' :
                  entries'[k].id = call'[d].id /\ entries'[k].limit = call'[d].tool.limit
  BY <1>1, <1>3 DEF EntriesOK
<1>5. EntriesOK'
  BY <1>4 DEF EntriesOK, NoEntry, Keys
<1> QED BY <1>2, <1>5

-----------------------------------------------------------------------------
(* The rate limiter *)

LEMMA NoLimiterRec ==
  NoLimiter \in LimiterRec /\ NoLimiter.tokens = 0 /\ NoLimiter.age = 0 /\ ~NoLimiter.kept
BY DEF NoLimiter, LimiterRec

\* The principal of a bucket that may be dropped has the whole burst.
LEMMA DroppedFull ==
  ASSUME NEW l \in LimiterRec, NEW n \in Int, NEW q \in Nat, BucketOK(l, n, q), l.age > TTL
  PROVE  BucketOK(NoLimiter, n, q)
<1>1. l.kept
  <2>1. ~(0 > TTL)
    BY LimiterAssumption
  <2> QED BY <2>1, NoLimiterRec DEF BucketOK
<1>2. n = Burst
  BY <1>1 DEF BucketOK
<1> QED BY <1>2, NoLimiterRec, LimiterAssumption DEF BucketOK

\* What getLimiter does to the table.
Got(ls, u, g) ==
  /\ g \in [Principal -> LimiterRec]
  /\ \A w \in Principal : w # u => g[w] = ls[w] \/ (g[w] = NoLimiter /\ ls[w].age > TTL)
  /\ \/ ls[u].kept /\ g[u] = [ls[u] EXCEPT !.age = 0]
     \/ ~ls[u].kept /\ g[u] = Bucket(Burst)
     \/ ~ls[u].kept /\ (g[u] = ls[u] \/ g[u] = NoLimiter)

LEMMA GetLimiter ==
  ASSUME NEW ls \in [Principal -> LimiterRec], NEW u \in Principal
  PROVE  Got(ls, u, getLimiter(ls, u))
<1> DEFINE room == dropIdleLimiters(ls)
           g == getLimiter(ls, u)
<1>1. /\ room \in [Principal -> LimiterRec]
      /\ \A w \in Principal : room[w] = ls[w] \/ (room[w] = NoLimiter /\ ls[w].age > TTL)
  BY NoLimiterRec DEF dropIdleLimiters
<1> HIDE DEF room
<1>2. CASE ls[u].kept
  <2>1. g = [ls EXCEPT ![u].age = 0]
    BY <1>2 DEF getLimiter
  <2>2. [ls[u] EXCEPT !.age = 0] \in LimiterRec
    BY DEF LimiterRec
  <2> QED BY <1>2, <2>1, <2>2 DEF Got
<1>3. CASE ~ls[u].kept
  <2>1. g = [room EXCEPT ![u] = Bucket(Burst)] \/ g = room
    BY <1>3 DEF getLimiter, room
  <2>2. Bucket(Burst) \in LimiterRec
    BY LimiterAssumption DEF Bucket, LimiterRec
  <2> HIDE DEF g
  <2>3. CASE g = [room EXCEPT ![u] = Bucket(Burst)]
    BY <1>1, <1>3, <2>2, <2>3 DEF Got, g
  <2>4. CASE g = room
    BY <1>1, <1>3, <2>4 DEF Got, g
  <2> QED BY <2>1, <2>3, <2>4
<1> QED BY <1>2, <1>3

\* What is left of the rate limiter's state.
LimitsTyped ==
  limiters \in [Principal -> LimiterRec] /\ quiet \in [Principal -> Nat]
    /\ credit \in [Principal -> Int]

\* A call that is admitted takes a token that was there.
LEMMA RateStep ==
  ASSUME Typed, LimitersOK, NEW u \in Principal,
         LET h == Handle(limiters, u)
         IN  /\ limiters' = h.limiters
             /\ quiet' = [quiet EXCEPT ![u] = 0]
             /\ credit' = IF h.admitted THEN [credit EXCEPT ![u] = @ - 1] ELSE credit
  PROVE  LimitsTyped' /\ LimitersOK'
<1> DEFINE g == getLimiter(limiters, u)
           l == limiters[u]
           n == credit[u]
<1>1. Got(limiters, u, g)
  BY GetLimiter DEF Typed
<1>2. /\ l \in LimiterRec /\ n \in Int /\ BucketOK(l, n, quiet[u]) /\ l.tokens \in Nat
  BY DEF Typed, LimitersOK, LimiterRec
<1>3. /\ limiters' = IF g[u].tokens > 0 THEN [g EXCEPT ![u].tokens = @ - 1] ELSE g
      /\ credit' = IF g[u].tokens > 0 THEN [credit EXCEPT ![u] = @ - 1] ELSE credit
  BY DEF Handle
<1>0. /\ quiet' \in [Principal -> Nat] /\ quiet'[u] = 0
      /\ \A w \in Principal : w # u => quiet'[w] = quiet[w]
  BY DEF Typed
<1> HIDE DEF g
<1>4. g[u] \in LimiterRec /\ g[u].tokens \in Nat /\ g[u].age \in Nat
  BY <1>1 DEF Got, LimiterRec
<1>9. ~(0 > TTL)
  BY LimiterAssumption
<1>5. BucketOK(g[u], n, 0) /\ (g[u].tokens > 0 => g[u].kept /\ g[u].age = 0)
  <2>1. CASE l.kept /\ g[u] = [l EXCEPT !.age = 0]
    <3>1. g[u].tokens = l.tokens /\ g[u].age = 0 /\ g[u].kept
      BY <1>2, <2>1 DEF LimiterRec
    <3> QED BY <1>2, <1>9, <3>1 DEF BucketOK
  <2>2. CASE ~l.kept /\ g[u] = Bucket(Burst)
    <3>1. g[u].tokens = Burst /\ g[u].age = 0 /\ g[u].kept
      BY <2>2 DEF Bucket
    <3>2. n = Burst
      BY <1>2, <2>2 DEF BucketOK
    <3> QED BY <3>1, <3>2, LimiterAssumption DEF BucketOK
  <2>3. CASE ~l.kept /\ (g[u] = l \/ g[u] = NoLimiter)
    <3>1. l = NoLimiter
      BY <1>2, <2>3 DEF BucketOK
    <3>2. g[u] = l /\ ~(0 > 0)
      BY <2>3, <3>1
    <3> QED BY <1>2, <1>9, <3>1, <3>2, NoLimiterRec DEF BucketOK
  <2> QED BY <1>1, <2>1, <2>2, <2>3 DEF Got
<1>6. ASSUME NEW w \in Principal, w # u
      PROVE  g[w] \in LimiterRec /\ BucketOK(g[w], credit[w], quiet[w])
  BY <1>1, <1>6, DroppedFull DEF Got, Typed, LimitersOK
<1>7. CASE g[u].tokens > 0
  <2> DEFINE t == [g[u] EXCEPT !.tokens = @ - 1]
  <2>1. t \in LimiterRec /\ t.tokens = g[u].tokens - 1 /\ t.age = 0 /\ t.kept
    BY <1>4, <1>5, <1>7 DEF LimiterRec
  <2>2. BucketOK(t, n - 1, 0)
    <3>1. g[u].tokens <= n /\ n <= Burst
      BY <1>5 DEF BucketOK
    <3> HIDE DEF t, n
    <3>2. t.tokens <= n - 1 /\ 0 <= n - 1 /\ n - 1 <= Burst
      BY <1>2, <1>4, <1>7, <2>1, <3>1, LimiterAssumption
    <3> QED BY Zenon, <1>9, <2>1, <3>2 DEF BucketOK
  <2>3. limiters' = [g EXCEPT ![u] = t] /\ credit' = [credit EXCEPT ![u] = n - 1]
    BY <1>3, <1>7
  <2> HIDE DEF t, n
  <2>4. n - 1 \in Int
    BY <1>2
  <2>5. /\ limiters' \in [Principal -> LimiterRec] /\ credit' \in [Principal -> Int]
        /\ limiters'[u] = t /\ credit'[u] = n - 1
        /\ \A w \in Principal : w # u => limiters'[w] = g[w] /\ credit'[w] = credit[w]
    BY <1>1, <2>1, <2>3, <2>4 DEF Got, Typed
  <2>6. ASSUME NEW w \in Principal PROVE BucketOK(limiters'[w], credit'[w], quiet'[w])
    BY <1>0, <1>6, <2>2, <2>5
  <2> QED BY <1>0, <2>5, <2>6 DEF LimitersOK, LimitsTyped, BucketOK, NoLimiter
<1>8. CASE ~(g[u].tokens > 0)
  <2>1. limiters' = g /\ credit' = credit
    BY <1>3, <1>8
  <2>2. ASSUME NEW w \in Principal PROVE BucketOK(limiters'[w], credit'[w], quiet'[w])
    BY <1>0, <1>5, <1>6, <2>1
  <2> QED BY <1>0, <1>1, <2>1, <2>2 DEF LimitersOK, LimitsTyped, BucketOK, NoLimiter, Got, Typed
<1> QED BY <1>7, <1>8

LEMMA RateTick ==
  ASSUME Typed, LimitersOK, limiters' = AgeLimiters(limiters),
         quiet' = [u \in Principal |-> Older(quiet[u])],
         credit' = [u \in Principal |-> IF quiet'[u] > TTL THEN Burst ELSE Refill(credit[u])]
  PROVE  LimitsTyped' /\ LimitersOK'
<1>1. ASSUME NEW w \in Principal
      PROVE  /\ limiters'[w] \in LimiterRec /\ credit'[w] \in Int /\ quiet'[w] \in Nat
             /\ BucketOK(limiters'[w], credit'[w], quiet'[w])
  <2> DEFINE l == limiters[w]
             n == credit[w]
  <2>1. /\ l \in LimiterRec /\ n \in Int /\ quiet[w] \in Nat /\ BucketOK(l, n, quiet[w])
        /\ l.tokens \in Nat /\ l.age \in Nat /\ l.kept \in BOOLEAN
    BY DEF Typed, LimitersOK, LimiterRec
  <2>2. /\ quiet'[w] = Older(quiet[w]) /\ quiet'[w] \in Nat
        /\ credit'[w] = IF quiet'[w] > TTL THEN Burst ELSE Refill(n)
    BY <2>1, OlderNat
  <2>3. /\ credit'[w] \in Int /\ Refill(n) <= credit'[w] /\ 0 <= credit'[w] /\ credit'[w] <= Burst
        /\ n = Burst => credit'[w] = Burst
        /\ quiet'[w] > TTL => credit'[w] = Burst
    BY <2>1, <2>2, LimiterAssumption DEF Refill, BucketOK
  <2>4. CASE l = NoLimiter
    BY <2>1, <2>2, <2>3, <2>4, NoLimiterRec DEF AgeLimiters, BucketOK
  <2>5. CASE l # NoLimiter
    <3> DEFINE m == [l EXCEPT !.age = Older(l.age), !.tokens = Refill(l.tokens)]
    <3>1. limiters'[w] = m
      BY <2>5 DEF AgeLimiters
    <3>2. /\ Refill(l.tokens) \in Nat
          /\ Refill(l.tokens) <= Refill(n) /\ Refill(n) \in Int
      BY <2>1, LimiterAssumption DEF Refill, BucketOK
    <3>3. Older(l.age) \in Nat
      BY <2>1, OlderNat
    <3>4. m \in LimiterRec /\ m.age = Older(l.age) /\ m.tokens = Refill(l.tokens) /\ m.kept = l.kept
      BY <2>1, <3>2, <3>3 DEF LimiterRec
    <3>5. l.kept /\ l.age = quiet[w]
      BY <2>1, <2>5 DEF BucketOK
    <3> HIDE DEF m
    <3>6. m.age = quiet'[w] /\ m.kept
      BY <2>2, <3>4, <3>5
    <3>7. m.tokens <= credit'[w]
      BY <2>3, <3>2, <3>4
    <3> QED BY <2>2, <2>3, <3>1, <3>4, <3>6, <3>7 DEF BucketOK
  <2> QED BY <2>4, <2>5
<1>2. LimitsTyped'
  BY <1>1 DEF AgeLimiters, LimitsTyped
<1>3. LimitersOK'
  BY <1>1 DEF LimitersOK, BucketOK, NoLimiter
<1> QED BY <1>2, <1>3

\* RateLimitMiddleware: the call goes on to the concurrency limit, or is
\* answered.
LEMMA ArriveStep ==
  ASSUME Typed, LimitersOK, EntriesOK, NEW c \in Call, CallOK(call[c]), Arrive(c)
  PROVE  /\ \E new \in CallRec :
              /\ Update(c, new) /\ CallOK(new) /\ ~call[c].admitted /\ ~new.admitted
              /\ new.generation \in {0, call[c].generation}
         /\ LimitsTyped' /\ LimitersOK' /\ EntriesOK'
         /\ UNCHANGED <<entries, cb, active, swaps, ticks, expiries>>
<1> DEFINE r == call[c]
<1>1. r \in CallRec /\ r.stage = "idle" /\ ~Runs(r) /\ ~r.admitted
  BY DEF Typed, Arrive, Runs, CallOK, SentOK, Early
<1>2. UNCHANGED <<entries, cb, active, swaps, ticks, expiries>>
  BY DEF Arrive, World
<1>3. PICK u \in Principal :
        /\ limiters' = Handle(limiters, u).limiters
        /\ quiet' = [quiet EXCEPT ![u] = 0]
        /\ \/ Update(c, [Idle EXCEPT !.stage = "permit", !.principal = u, !.tool = active.tool])
           \/ Answered(c, "rate_limited")
        /\ credit' = IF Handle(limiters, u).admitted THEN [credit EXCEPT ![u] = @ - 1] ELSE credit
  BY DEF Arrive
<1>4. LimitsTyped' /\ LimitersOK'
  BY <1>3, RateStep
<1>5. \E new \in CallRec :
        /\ Update(c, new) /\ CallOK(new) /\ ~new.admitted /\ ~Runs(new)
        /\ new.generation \in {0, r.generation}
  <2>1. CASE Answered(c, "rate_limited")
    <3>1. Update(c, Final(r, "rate_limited"))
      BY <2>1 DEF Answered, Final
    <3>2. "rate_limited" \in Answers
      BY DEF Answers
    <3> QED BY <1>1, <3>1, <3>2, FinalOK
  <2>2. CASE Update(c, [Idle EXCEPT !.stage = "permit", !.principal = u, !.tool = active.tool])
    <3> DEFINE new == [Idle EXCEPT !.stage = "permit", !.principal = u, !.tool = active.tool]
    <3>1. active.tool \in ToolType /\ "permit" \in Stages
      BY Deployed DEF Typed, Stages
    <3>2. new \in CallRec
      BY <3>1, IdleOK DEF CallRec
    <3>3. /\ new.stage = "permit" /\ new.principal = u /\ new.key = Idle.key
          /\ new.id = Idle.id /\ new.sent = Idle.sent /\ new.admitted = Idle.admitted
          /\ new.failed = Idle.failed /\ new.generation = Idle.generation
          /\ Untouched(Idle) => Untouched(new)
      BY IdleOK DEF CallRec, Untouched
    <3>4. Untouched(Idle)
      BY DEF Idle, Untouched, Unbroken
    <3> HIDE DEF new
    <3>5. PhaseOK(new)
      BY <3>2, <3>3, <3>4, UntriedPhase DEF Untried, Early
    <3>6. PermitOK(new)
      BY <3>3 DEF PermitOK, Idle
    <3>7. 0 <= Attempts(new.tool.method)
      BY Naturals
    <3>8. SentOK(new)
      BY Zenon, <3>3, <3>7 DEF SentOK, Early, Idle
    <3> QED BY <2>2, <3>2, <3>3, <3>5, <3>6, <3>8, IdleOK DEF CallOK, Runs, new
  <2> QED BY <1>3, <2>1, <2>2
<1>6. EntriesOK'
  BY <1>1, <1>2, <1>5, EntriesSame
<1> QED BY <1>1, <1>2, <1>4, <1>5, <1>6

-----------------------------------------------------------------------------
(* The breaker *)

LEMMA BreakerFinite ==
  /\ IsFiniteSet(Here) /\ Cardinality(Here) \in Nat
  /\ IsFiniteSet(Lost) /\ Cardinality(Lost) \in Nat
<1>1. Here \in SUBSET Call /\ Lost \in SUBSET Call
  BY DEF Here, Lost
<1> QED BY <1>1, CallPathAssumption, FS_Subset, FS_CardinalityType

\* Who is counted after a step of one call, in the same generation.
LEMMA HereAfter ==
  ASSUME Typed, NEW c \in Call, NEW new \in CallRec, Update(c, new),
         cb'.generation = cb.generation
  PROVE  /\ Here' = IF new.admitted /\ new.generation = cb.generation
                    THEN Here \cup {c} ELSE Here \ {c}
         /\ Lost' = IF new.admitted /\ new.generation = cb.generation /\ new.failed
                    THEN Lost \cup {c} ELSE Lost \ {c}
BY Updated DEF Here, Lost

LEMMA BreakerSame ==
  ASSUME Typed, BreakerOK, NEW c \in Call, NEW new \in CallRec, Update(c, new),
         cb'.generation = cb.generation, cb'.requests = cb.requests, cb'.failures = cb.failures,
         new.admitted = call[c].admitted, new.generation <= cb.generation,
         new.admitted => new.generation = call[c].generation /\ new.failed = call[c].failed
  PROVE  BreakerOK'
<1>1. Here' = Here /\ Lost' = Lost
  BY HereAfter DEF Here, Lost
<1>2. \A d \in Call : call'[d].generation <= cb.generation
  BY Updated DEF BreakerOK
<1> QED BY <1>1, <1>2 DEF BreakerOK

\* A generation starts with nobody.
LEMMA BreakerAnew ==
  ASSUME Typed, NEW state \in {"closed", "open", "half-open"}, cb' = NewGeneration(state),
         call' \in [Call -> CallRec], \A d \in Call : call'[d].generation <= cb.generation
  PROVE  cb' \in BreakerRec /\ BreakerOK'
<1>1. cb.generation \in Nat /\ cb'.generation = cb.generation + 1
      /\ cb'.requests = 0 /\ cb'.failures = 0
  BY DEF Typed, BreakerRec, NewGeneration
<1>2. cb' \in BreakerRec
  BY <1>1 DEF BreakerRec, NewGeneration
<1>3. \A d \in Call : /\ call'[d].generation # cb'.generation
                      /\ call'[d].generation <= cb'.generation
  BY <1>1 DEF CallRec
<1>4. Here' = {} /\ Lost' = {}
  BY <1>3 DEF Here, Lost
<1> QED BY <1>1, <1>2, <1>3, <1>4, FS_EmptySet DEF BreakerOK

LEMMA BreakerAdmits ==
  ASSUME Typed, BreakerOK, NEW c \in Call, NEW new \in CallRec, Update(c, new),
         cb' = [cb EXCEPT !.requests = @ + 1], ~call[c].admitted,
         new.admitted, new.generation = cb.generation, ~new.failed
  PROVE  cb' \in BreakerRec /\ BreakerOK'
<1>1. /\ cb.generation \in Nat /\ cb.requests \in Nat
      /\ cb' \in BreakerRec /\ cb'.generation = cb.generation
      /\ cb'.requests = cb.requests + 1 /\ cb'.failures = cb.failures
  BY DEF Typed, BreakerRec
<1>2. c \notin Here /\ c \notin Lost
  BY DEF Here, Lost
<1>3. Here' = Here \cup {c} /\ Lost' = Lost
  <2>1. Here' = Here \cup {c} /\ Lost' = Lost \ {c}
    BY Zenon, <1>1, HereAfter
  <2> QED BY <1>2, <2>1
<1>4. Cardinality(Here') = cb.requests + 1
  <2>1. Cardinality(Here \cup {c}) = Cardinality(Here) + 1
    BY <1>2, BreakerFinite, FS_AddElement
  <2> QED BY <1>3, <2>1 DEF BreakerOK
<1>5. \A d \in Call : call'[d].generation <= cb.generation
  BY <1>1, Updated DEF BreakerOK
<1> QED BY <1>1, <1>3, <1>4, <1>5 DEF BreakerOK

LEMMA BreakerAfter ==
  ASSUME Typed, BreakerOK, NEW c \in Call, CallOK(call[c]), call[c].stage = "attempt",
         NEW new \in CallRec, Update(c, new), NEW success \in BOOLEAN,
         cb' = afterRequest(c, success),
         new.admitted = call[c].admitted, new.generation = call[c].generation,
         new.failed = ~success
  PROVE  cb' \in BreakerRec /\ BreakerOK'
<1>1. /\ cb \in BreakerRec /\ cb.generation \in Nat /\ cb.failures \in Nat
      /\ cb.successes \in Nat
  BY DEF Typed, BreakerRec
<1>2. call[c].admitted /\ ~call[c].failed /\ call[c].generation <= cb.generation
  BY DEF CallOK, SentOK, BreakerOK
<1>3. \A d \in Call : call'[d].generation <= cb.generation
  BY <1>2, Updated DEF BreakerOK
<1>4. call' \in [Call -> CallRec]
  BY Updated
<1>5. CASE call[c].generation # cb.generation
  <2>1. cb' = cb
    BY <1>5 DEF afterRequest
  <2>2. c \notin Here /\ c \notin Lost
    BY <1>5 DEF Here, Lost
  <2>3. Here' = Here /\ Lost' = Lost
    <3>1. Here' = Here \ {c} /\ Lost' = Lost \ {c}
      BY Zenon, <1>5, <2>1, HereAfter
    <3> QED BY <2>2, <3>1
  <2> QED BY <1>1, <1>3, <2>1, <2>3 DEF BreakerOK
<1>6. CASE call[c].generation = cb.generation /\ success
  <2> DEFINE passed == [cb EXCEPT !.successes = @ + 1]
  <2>1. cb' = NewGeneration("closed") \/ cb' = passed
    BY <1>6 DEF afterRequest
  <2>2. CASE cb' = NewGeneration("closed")
    BY <1>3, <1>4, <2>2, BreakerAnew
  <2>3. CASE cb' = passed
    <3>1. /\ cb' \in BreakerRec /\ cb'.generation = cb.generation
          /\ cb'.requests = cb.requests /\ cb'.failures = cb.failures
      BY <1>1, <2>3 DEF BreakerRec
    <3>2. new.failed = call[c].failed /\ new.generation <= cb.generation
      BY <1>2, <1>6 DEF Typed, CallRec
    <3> QED BY <3>1, <3>2, BreakerSame
  <2> QED BY <2>1, <2>2, <2>3
<1>7. CASE call[c].generation = cb.generation /\ ~success
  <2> DEFINE failed == [cb EXCEPT !.failures = @ + 1]
  <2>1. cb' = NewGeneration("open") \/ cb' = failed
    BY <1>7 DEF afterRequest
  <2>2. CASE cb' = NewGeneration("open")
    BY <1>3, <1>4, <2>2, BreakerAnew
  <2>3. CASE cb' = failed
    <3>1. /\ cb' \in BreakerRec /\ cb'.generation = cb.generation
          /\ cb'.requests = cb.requests /\ cb'.failures = cb.failures + 1
      BY <1>1, <2>3 DEF BreakerRec
    <3>2. c \in Here /\ c \notin Lost
      BY <1>2, <1>7 DEF Here, Lost
    <3>3. Here' = Here /\ Lost' = Lost \cup {c}
      BY <1>2, <1>7, <3>1, <3>2, HereAfter
    <3>4. Cardinality(Lost') = cb.failures + 1
      <4>1. Cardinality(Lost \cup {c}) = Cardinality(Lost) + 1
        BY <3>2, BreakerFinite, FS_AddElement
      <4> QED BY <3>3, <4>1 DEF BreakerOK
    <3> QED BY <1>3, <3>1, <3>3, <3>4 DEF BreakerOK
  <2> QED BY <2>1, <2>2, <2>3
<1> QED BY <1>5, <1>6, <1>7

-----------------------------------------------------------------------------
(* The invariant is inductive *)

LEMMA InitInv == Init => Inv
<1> SUFFICES ASSUME Init PROVE Inv
  OBVIOUS
<1>1. Typed
  BY IdleOK, NoEntryRec, NoLimiterRec, LimiterAssumption DEF Init, Typed, BreakerRec
<1>2. \A c \in Call : CallOK(call[c]) /\ call[c] = Idle
  BY IdleOK DEF Init
<1>3. EntriesOK
  <2>0. Idle.stage = "idle"
    BY DEF Idle
  <2>1. \A k \in Keys : Holders(k) = {}
    BY <1>2, <2>0 DEF Holders, Running
  <2>2. \A k \in Keys : entries[k] = NoEntry
    BY DEF Init
  <2>3. NoEntry.active = 0 /\ NoEntry.limit = 0
    BY DEF NoEntry
  <2> QED BY <2>1, <2>2, <2>3, FS_EmptySet DEF EntriesOK
<1>4. LimitersOK
  <2>1. \A u \in Principal : limiters[u] = NoLimiter /\ credit[u] = Burst /\ quiet[u] = 0
    BY DEF Init
  <2>2. BucketOK(NoLimiter, Burst, 0)
    BY NoLimiterRec, LimiterAssumption DEF BucketOK
  <2> QED BY <2>1, <2>2 DEF LimitersOK
<1>5. BreakerOK
  <2>1. Here = {} /\ Lost = {}
    BY <1>2, IdleOK DEF Here, Lost
  <2>2. cb.requests = 0 /\ cb.failures = 0 /\ cb.generation = 0
    BY DEF Init
  <2> QED BY <1>2, <2>1, <2>2, IdleOK, FS_EmptySet DEF BreakerOK
<1> QED BY <1>1, <1>2, <1>3, <1>4, <1>5 DEF Inv

LEMMA RequestSteps ==
  ASSUME Inv, NEW c \in Call, Admit(c) \/ AttemptAnswered(c) \/ AttemptFails(c)
  PROVE  /\ \E new : Kept(call[c], new) /\ Update(c, new)
         /\ cb' \in BreakerRec /\ BreakerOK'
         /\ UNCHANGED <<entries, limiters, quiet, credit, active, swaps, ticks, expiries>>
<1> DEFINE r == call[c]
<1> USE DEF Limits, World
<1>1. r \in CallRec /\ CallOK(r) /\ Typed /\ BreakerOK /\ cb \in BreakerRec
      /\ r.generation <= cb.generation /\ cb.generation \in Nat
  BY DEF Inv, Typed, BreakerOK, BreakerRec
<1>2. CASE Admit(c)
  <2>1. r.stage = "admit" /\ ~r.admitted
    BY <1>1, <1>2 DEF Admit, CallOK, SentOK, Early
  <2>2. CASE Return(c, "error") /\ UNCHANGED cb
    <3> DEFINE new == [r EXCEPT !.stage = "returning", !.answer = "error"]
    <3>1. Inner(r, new) /\ Update(c, new)
      BY <1>1, <2>1, <2>2, ErrorOK DEF Return, Answers
    <3> HIDE DEF new
    <3>2. BreakerOK'
      BY <1>1, <2>2, <3>1, BreakerSame DEF Inner
    <3> QED BY <1>1, <1>2, <2>1, <2>2, <3>1, <3>2 DEF Inner, Kept, Admit
  <2>3. CASE /\ cb' = [cb EXCEPT !.requests = @ + 1]
             /\ Update(c, [r EXCEPT !.stage = "attempt", !.admitted = TRUE,
                                    !.generation = cb.generation])
    <3> DEFINE new == [r EXCEPT !.stage = "attempt", !.admitted = TRUE,
                                !.generation = cb.generation]
    <3>1. /\ Kept(r, new) /\ new.admitted /\ ~new.failed /\ new.generation = cb.generation
          /\ Update(c, new)
      BY <1>1, <2>1, <2>3, AdmittedOK
    <3> HIDE DEF new
    <3>2. cb' \in BreakerRec /\ BreakerOK'
      BY <1>1, <2>1, <2>3, <3>1, BreakerAdmits DEF Kept
    <3> QED BY <1>2, <3>1, <3>2 DEF Admit
  <2> QED BY <1>2, <2>2, <2>3 DEF Admit
<1>3. CASE AttemptAnswered(c)
  <2>1. PICK status \in {"2xx", "other"} : Update(c, Captured(c, status))
    BY <1>3 DEF AttemptAnswered
  <2> DEFINE new == Captured(c, status)
  <2>2. r.stage = "attempt" /\ ~r.failed /\ cb' = afterRequest(c, TRUE)
    BY <1>1, <1>3 DEF AttemptAnswered, CallOK, SentOK
  <2>3. new \in CallRec /\ Tried(r, new) /\ Ended(new) /\ new.failed = r.failed
    BY <1>1, CapturedRec
  <2> HIDE DEF new
  <2>4. Kept(r, new)
    BY <1>1, <2>2, <2>3, TriedOK
  <2>5. new.admitted = r.admitted /\ new.generation = r.generation /\ new.failed = FALSE
    BY <1>1, <2>2, <2>3 DEF Tried, CallRec
  <2>6. Update(c, new)
    BY <2>1 DEF new
  <2>7. cb' \in BreakerRec /\ BreakerOK'
    BY <1>1, <2>2, <2>3, <2>5, <2>6, BreakerAfter
  <2> QED BY <1>3, <2>4, <2>6, <2>7 DEF AttemptAnswered
<1>4. CASE AttemptFails(c)
  <2>1. PICK transient \in BOOLEAN :
          \/ /\ AttemptsLeft(c)
             /\ Update(c, [r EXCEPT !.sent = @ + 1, !.transient = @ \/ transient])
             /\ UNCHANGED cb
          \/ /\ Update(c, Failed(c, transient))
             /\ cb' = afterRequest(c, FALSE)
    BY <1>4 DEF AttemptFails
  <2>2. r.stage = "attempt"
    BY <1>4 DEF AttemptFails
  <2>3. CASE /\ AttemptsLeft(c)
             /\ Update(c, [r EXCEPT !.sent = @ + 1, !.transient = @ \/ transient])
             /\ UNCHANGED cb
    <3> DEFINE t == r.transient \/ transient
               new == [r EXCEPT !.sent = @ + 1, !.transient = t]
    <3>1. t \in BOOLEAN
      OBVIOUS
    <3>2. Update(c, new)
      BY <2>3
    <3> HIDE DEF t
    <3>3. /\ Kept(r, new) /\ new.failed = r.failed /\ new.admitted = r.admitted
          /\ new.generation = r.generation
      BY <1>1, <2>2, <2>3, <3>1, RetriedOK
    <3> HIDE DEF new
    <3>4. BreakerOK'
      BY <1>1, <2>3, <3>2, <3>3, BreakerSame DEF Kept
    <3> QED BY <1>1, <1>4, <2>3, <3>2, <3>3, <3>4 DEF AttemptFails
  <2>4. CASE Update(c, Failed(c, transient)) /\ cb' = afterRequest(c, FALSE)
    <3> DEFINE new == Failed(c, transient)
    <3>1. /\ Kept(r, new) /\ new.failed /\ new.admitted = r.admitted
          /\ new.generation = r.generation /\ Update(c, new)
      BY <1>1, <2>2, <2>4, FailedRec
    <3> HIDE DEF new
    <3>2. new \in CallRec /\ new.failed = TRUE
      BY <3>1 DEF Kept, CallRec
    <3>3. cb' \in BreakerRec /\ BreakerOK'
      BY <1>1, <2>2, <2>4, <3>1, <3>2, BreakerAfter
    <3> QED BY <1>4, <3>1, <3>3 DEF AttemptFails
  <2> QED BY <2>1, <2>3, <2>4
<1> QED BY <1>2, <1>3, <1>4

LEMMA NextInv == Inv /\ [Next]_vars => Inv'
<1> SUFFICES ASSUME Inv, [Next]_vars PROVE Inv'
  OBVIOUS
<1>0. Typed /\ (\A c \in Call : CallOK(call[c])) /\ EntriesOK /\ LimitersOK /\ BreakerOK
  BY DEF Inv
<1>1. ASSUME NEW c \in Call, Arrive(c) PROVE Inv'
  <2>1. PICK new \in CallRec :
          /\ Update(c, new) /\ CallOK(new) /\ ~call[c].admitted /\ ~new.admitted
          /\ new.generation \in {0, call[c].generation}
    BY <1>0, <1>1, ArriveStep
  <2>2. LimitsTyped' /\ LimitersOK' /\ EntriesOK'
        /\ UNCHANGED <<entries, cb, active, swaps, ticks, expiries>>
    BY <1>0, <1>1, ArriveStep
  <2>3. call' \in [Call -> CallRec]
    BY <1>0, <2>1, Updated
  <2>4. Typed'
    BY <1>0, <2>2, <2>3 DEF Typed, LimitsTyped, Keys, EntryRec, CallRec, LimiterRec, BreakerRec,
                             ToolType, Outcome, Stages, Answers, Policies, Methods
  <2>5. \A d \in Call : CallOK(call[d])'
    BY <1>0, <2>1, CallsOK
  <2>6. new.generation <= cb.generation
    <3>1. cb.generation \in Nat /\ call[c].generation <= cb.generation
      BY <1>0 DEF Typed, BreakerRec, BreakerOK
    <3> QED BY <2>1, <3>1
  <2>7. new.admitted = call[c].admitted
    BY <1>0, <2>1 DEF Typed, CallRec
  <2>8. BreakerOK'
    BY <1>0, <2>1, <2>2, <2>6, <2>7, BreakerSame
  <2> QED BY <2>2, <2>4, <2>5, <2>8 DEF Inv
<1>2. ASSUME NEW c \in Call, ConcurrencyMiddleware(c) \/ Release(c) PROVE Inv'
  <2>1. /\ \E new \in CallRec :
             /\ Update(c, new) /\ CallOK(new)
             /\ new.admitted = call[c].admitted /\ new.generation = call[c].generation
             /\ new.failed = call[c].failed
        /\ entries' \in [Keys -> EntryRec] /\ EntriesOK'
        /\ UNCHANGED <<limiters, quiet, credit, cb, active, swaps, ticks, expiries>>
    BY <1>0, <1>2, ConcurrencyStep, ReleaseStep
  <2>2. PICK new \in CallRec :
             /\ Update(c, new) /\ CallOK(new)
             /\ new.admitted = call[c].admitted /\ new.generation = call[c].generation
             /\ new.failed = call[c].failed
    BY <2>1
  <2>3. call' \in [Call -> CallRec]
    BY <1>0, <2>2, Updated
  <2>4. Typed'
    BY <1>0, <2>1, <2>3 DEF Typed
  <2>5. \A d \in Call : CallOK(call[d])'
    BY <1>0, <2>2, CallsOK
  <2>6. BreakerOK'
    BY <1>0, <2>1, <2>2, BreakerSame DEF BreakerOK
  <2>7. LimitersOK'
    BY <1>0, <2>1 DEF LimitersOK
  <2> QED BY <2>1, <2>4, <2>5, <2>6, <2>7 DEF Inv
<1>3. ASSUME NEW c \in Call, InnerStep(c) PROVE Inv'
  <2>1. /\ \E new : Inner(call[c], new) /\ Update(c, new)
        /\ call[c].stage \notin {"idle", "permit", "answered"}
        /\ UNCHANGED <<entries, limiters, quiet, credit, cb, active, swaps, ticks, expiries>>
    BY <1>0, <1>3, InnerSteps DEF Typed
  <2>2. PICK new : Inner(call[c], new) /\ Update(c, new)
    BY <2>1
  <2>3. /\ new \in CallRec /\ CallOK(new) /\ Runs(new) /\ Runs(call[c])
        /\ new.key = call[c].key /\ new.id = call[c].id /\ new.tool = call[c].tool
        /\ new.admitted = call[c].admitted /\ new.generation = call[c].generation
        /\ new.failed = call[c].failed
    BY <2>1, <2>2 DEF Inner, Runs
  <2>4. call' \in [Call -> CallRec]
    BY <1>0, <2>2, <2>3, Updated
  <2>5. Typed'
    BY <1>0, <2>1, <2>4 DEF Typed
  <2>6. \A d \in Call : CallOK(call[d])'
    BY <1>0, <2>2, <2>3, CallsOK
  <2>7. EntriesOK'
    BY <1>0, <2>1, <2>2, <2>3, EntriesSame
  <2>8. BreakerOK'
    BY <1>0, <2>1, <2>2, <2>3, BreakerSame DEF BreakerOK
  <2>9. LimitersOK'
    BY <1>0, <2>1 DEF LimitersOK
  <2> QED BY <2>5, <2>6, <2>7, <2>8, <2>9 DEF Inv
<1>4. ASSUME NEW c \in Call, Admit(c) \/ AttemptAnswered(c) \/ AttemptFails(c) PROVE Inv'
  <2>1. PICK new : Kept(call[c], new) /\ Update(c, new)
    BY <1>4, RequestSteps
  <2>2. /\ cb' \in BreakerRec /\ BreakerOK'
        /\ UNCHANGED <<entries, limiters, quiet, credit, active, swaps, ticks, expiries>>
    BY <1>4, RequestSteps
  <2>3. /\ new \in CallRec /\ CallOK(new) /\ Runs(new) /\ Runs(call[c])
        /\ new.key = call[c].key /\ new.id = call[c].id /\ new.tool = call[c].tool
    BY <2>1 DEF Kept, Runs
  <2>4. call' \in [Call -> CallRec]
    BY <1>0, <2>1, <2>3, Updated
  <2>5. Typed'
    BY <1>0, <2>2, <2>4 DEF Typed
  <2>6. \A d \in Call : CallOK(call[d])'
    BY <1>0, <2>1, <2>3, CallsOK
  <2>7. EntriesOK'
    BY <1>0, <2>1, <2>2, <2>3, EntriesSame
  <2>8. LimitersOK'
    BY <1>0, <2>2 DEF LimitersOK
  <2> QED BY <2>2, <2>5, <2>6, <2>7, <2>8 DEF Inv
<1>5. ASSUME UNCHANGED <<call, entries, limiters, quiet, credit, cb>>,
             active' \in Deployments, swaps' \in Nat, ticks' \in Nat, expiries' \in Nat
      PROVE  Inv'
  <2>1. Typed'
    BY <1>0, <1>5 DEF Typed
  <2>2. Here' = Here /\ Lost' = Lost /\ \A k : Holders(k)' = Holders(k)
    BY <1>5 DEF Here, Lost, Holders, Running
  <2>3. EntriesOK' /\ LimitersOK' /\ BreakerOK'
    BY <1>0, <1>5, <2>2 DEF EntriesOK, LimitersOK, BreakerOK
  <2> QED BY <1>0, <1>5, <2>1, <2>3 DEF Inv
<1>6. CASE Swap
  <2>1. active' \in Deployments
    BY <1>0, <1>6, CallPathAssumption DEF Swap, Typed
  <2> QED BY <1>0, <1>5, <1>6, <2>1 DEF Swap, Typed
<1>7. CASE UNCHANGED vars
  BY <1>0, <1>5, <1>7 DEF vars, Typed
<1>8. CASE Tick
  <2>1. entries' \in [Keys -> EntryRec] /\ EntriesOK'
    BY <1>0, <1>8, EntriesAge DEF Tick
  <2>2. LimitsTyped' /\ LimitersOK'
    BY <1>0, <1>8, RateTick DEF Tick
  <2>3. Typed'
    BY <1>0, <1>8, <2>1, <2>2 DEF Typed, LimitsTyped, Tick
  <2>4. BreakerOK' /\ \A c \in Call : CallOK(call[c])'
    <3>1. Here' = Here /\ Lost' = Lost /\ call' = call /\ cb' = cb
      BY <1>8 DEF Tick, Here, Lost
    <3> QED BY <1>0, <3>1 DEF BreakerOK
  <2> QED BY <2>1, <2>2, <2>3, <2>4 DEF Inv
<1>9. CASE BreakerExpires
  <2>1. /\ UNCHANGED <<active, call, entries, limiters, quiet, credit, swaps, ticks>>
        /\ expiries' \in Nat
        /\ cb' = NewGeneration("closed") \/ cb' = NewGeneration("half-open")
    BY <1>0, <1>9 DEF BreakerExpires, Typed
  <2>2. cb' \in BreakerRec /\ BreakerOK'
    BY <1>0, <2>1, BreakerAnew DEF Typed, BreakerOK
  <2>3. Typed'
    BY <1>0, <2>1, <2>2 DEF Typed
  <2>4. \A k : Holders(k)' = Holders(k)
    BY <2>1 DEF Holders, Running
  <2>5. EntriesOK' /\ LimitersOK' /\ \A c \in Call : CallOK(call[c])'
    BY <1>0, <2>1, <2>4 DEF EntriesOK, LimitersOK
  <2> QED BY <2>2, <2>3, <2>5 DEF Inv
<1> QED
  BY <1>1, <1>2, <1>3, <1>4, <1>6, <1>7, <1>8, <1>9 DEF Next, Step, InnerStep

LEMMA Invariant == Spec => []Inv
BY InitInv, NextInv, PTL DEF Spec

-----------------------------------------------------------------------------
(* What follows from it *)

\* Types and bounds: attempts, tokens, counters and the progress of the
\* plugins stay in their ranges.
LEMMA TypesHold == Inv => TypeOK
<1> SUFFICES ASSUME Inv PROVE TypeOK
  OBVIOUS
<1>0. Typed /\ EntriesOK /\ LimitersOK /\ BreakerOK
  BY DEF Inv
<1>1. ASSUME NEW c \in Call
      PROVE  /\ call[c].stage \in Stages /\ call[c].answer \in Answers
             /\ call[c].key \in Keys \cup {"none"} /\ call[c].id \in Call \cup {"none"}
             /\ call[c].captured \in {"none", "2xx", "other"}
             /\ {call[c].value, call[c].body} \subseteq {"none", "valid", "invalid"}
             /\ call[c].rawDone \in 0..Len(call[c].raw)
             /\ call[c].afterDone \in 0..Len(call[c].after)
             /\ call[c].sent \in 0..MaxAttempts
  <2> DEFINE r == call[c]
  <2>1. r \in CallRec /\ CallOK(r)
    BY <1>0 DEF Typed, Inv
  <2> HIDE DEF r
  <2>2. /\ r.stage \in Stages /\ r.answer \in Answers
        /\ r.key \in Keys \cup {"none"} /\ r.id \in Call \cup {"none"}
        /\ r.captured \in {"none", "2xx", "other"}
        /\ {r.value, r.body} \subseteq {"none", "valid", "invalid"}
    BY <2>1 DEF CallRec, Outcome
  <2>3. /\ r.rawDone \in Nat /\ r.afterDone \in Nat /\ r.sent \in Nat
        /\ Len(r.raw) \in Nat /\ Len(r.after) \in Nat
    BY <2>1, LenNat DEF CallRec
  <2>4. r.rawDone <= Len(r.raw) /\ r.afterDone <= Len(r.after)
    BY <2>1 DEF CallOK, PhaseOK
  <2>5. r.sent <= MaxAttempts
    <3>1. Attempts(r.tool.method) <= MaxAttempts /\ Attempts(r.tool.method) \in Nat
      BY Naturals DEF Attempts
    <3>2. r.sent <= Attempts(r.tool.method)
      BY <2>1 DEF CallOK, SentOK
    <3> QED BY <2>3, <3>1, <3>2, Naturals
  <2>6. /\ r.rawDone \in 0..Len(r.raw) /\ r.afterDone \in 0..Len(r.after)
        /\ r.sent \in 0..MaxAttempts
    BY <2>3, <2>4, <2>5, Naturals
  <2> QED BY <2>2, <2>6 DEF r
<1>2. \A k \in Keys : entries[k].active \in 0..entries[k].limit
  BY <1>0 DEF Typed, EntryRec, EntriesOK
<1>3. \A u \in Principal : limiters[u].tokens \in 0..Burst
  BY <1>0, Naturals DEF Typed, LimiterRec, LimitersOK, BucketOK
<1>4. cb.failures <= cb.requests
  <2>1. IsFiniteSet(Here) /\ Lost \subseteq Here
    BY BreakerFinite DEF Lost
  <2> QED BY <1>0, <2>1, FS_Subset DEF BreakerOK
<1> QED BY <1>0, <1>1, <1>2, <1>3, <1>4 DEF TypeOK, Typed, BreakerRec

LEMMA PermitsFollow == Inv => PermitsReturn
BY TypesHold DEF Inv, EntriesOK, PermitsReturn

LEMMA ConcurrencyFollows == Inv => ConcurrencyHolds
<1> SUFFICES ASSUME Inv, NEW c \in Call, Running(c), call[c].id # "none"
             PROVE  Cardinality(Holders(call[c].key)) <= call[c].tool.limit
  BY DEF ConcurrencyHolds
<1>1. call[c] \in CallRec /\ PermitOK(call[c]) /\ EntriesOK
  BY DEF Inv, Typed, CallOK
<1>2. call[c].key \in Keys
  BY <1>1 DEF PermitOK, CallRec
<1>3. c \in Holders(call[c].key)
  BY DEF Holders
<1> QED BY <1>1, <1>2, <1>3 DEF EntriesOK

LEMMA RateFollows == Inv => RateHolds
BY DEF Inv, LimitersOK, BucketOK, RateHolds

LEMMA SentFollows == Inv => UnsafeSentOnce
<1> SUFFICES ASSUME Inv, NEW c \in Call, call[c].sent > 1
             PROVE  call[c].tool.method \in {"GET", "HEAD", "OPTIONS"}
  BY DEF UnsafeSentOnce
<1>1. call[c].sent \in Nat /\ call[c].sent <= Attempts(call[c].tool.method)
  BY DEF Inv, Typed, CallRec, CallOK, SentOK
<1>2. Attempts(call[c].tool.method) # 1
  BY <1>1
<1> QED BY <1>2 DEF Attempts, retrySafeMethod

LEMMA BreakerFollows == Inv => BreakerSeesEveryCall
BY DEF Inv, BreakerOK, Here, Lost, BreakerSeesEveryCall

LEMMA SuccessFollows == Inv => SuccessIsWhole
<1> SUFFICES ASSUME Inv, NEW c \in Call,
                    call[c].stage = "returning", call[c].answer = "success"
             PROVE
    /\ call[c].captured = "2xx" /\ call[c].value = "valid" /\ ~call[c].failed
    /\ LET done == [raw |-> call[c].rawDone, after |-> call[c].afterDone]
       IN  \A phase \in DOMAIN done :
             \/ call[c].broken[phase] = 0 /\ done[phase] = Len(call[c][phase])
             \/ /\ call[c].broken[phase] > 0 /\ done[phase] = 0
                /\ call[c][phase][call[c].broken[phase]] = "continue"
  BY DEF SuccessIsWhole
<1>1. CallOK(call[c])
  BY DEF Inv
<1>2. /\ call[c].captured = "2xx" /\ call[c].value = "valid" /\ ~call[c].failed
      /\ RawWhole(call[c]) /\ AfterWhole(call[c])
  BY <1>1 DEF CallOK, SentOK, PhaseOK
<1> QED BY <1>2 DEF RawWhole, AfterWhole

-----------------------------------------------------------------------------
(* The theorems *)

\* Permits are neither lost nor doubled: an entry of the limiter counts the
\* running calls that hold it, whatever calls panic, entries expire or
\* revisions come in (acquire, releaseFunc); with the types of the state.
THEOREM PermitsReturned == Spec => []PermitsReturn
BY Invariant, PermitsFollow, PTL

\* No more calls run under a key than the limit of any of them (acquire).
THEOREM ConcurrencyLimited == Spec => []ConcurrencyHolds
BY Invariant, ConcurrencyFollows, PTL

\* For every size of the table, idle time and burst: dropping idle limiters
\* from a full table lets nobody exceed the rate but by the burst that a
\* principal gets anew after more than the idle time without a call
\* (getLimiter, RateLimitMiddleware.Handle).
THEOREM RateLimited == Spec => []RateHolds
BY Invariant, RateFollows, PTL

\* A principal has earned a token for every tick it was quiet.
Earned == \A u \in Principal : credit[u] = Burst \/ quiet[u] <= credit[u]

LEMMA EarnedStep ==
  ASSUME Inv, Inv', Earned, [Next]_vars, Burst <= TTL + 1
  PROVE  Earned' /\ \A u \in Principal : credit'[u] <= credit[u] + 1
<1>1. /\ credit \in [Principal -> Int] /\ quiet \in [Principal -> Nat]
      /\ credit' \in [Principal -> Int] /\ quiet' \in [Principal -> Nat]
      /\ \A u \in Principal : credit[u] <= Burst /\ 0 <= credit'[u]
  BY DEF Inv, Typed, LimitersOK, BucketOK
<1>2. CASE UNCHANGED <<quiet, credit>>
  <2>1. \A u \in Principal : credit'[u] <= credit[u] + 1
    BY <1>1, <1>2
  <2> QED BY <1>2, <2>1 DEF Earned
<1>3. ASSUME NEW c \in Call, Arrive(c)
      PROVE  Earned' /\ \A u \in Principal : credit'[u] <= credit[u] + 1
  <2>1. PICK u \in Principal :
          /\ quiet' = [quiet EXCEPT ![u] = 0]
          /\ credit' = [credit EXCEPT ![u] = @ - 1] \/ credit' = credit
    BY <1>3 DEF Arrive
  <2>2. quiet'[u] = 0 /\ (credit'[u] = credit[u] - 1 \/ credit'[u] = credit[u])
    BY <1>1, <2>1
  <2>3. ASSUME NEW w \in Principal, w # u
        PROVE  quiet'[w] = quiet[w] /\ credit'[w] = credit[w]
    BY <1>1, <2>1, <2>3
  <2>4. ASSUME NEW w \in Principal
        PROVE  /\ credit'[w] = Burst \/ quiet'[w] <= credit'[w]
               /\ credit'[w] <= credit[w] + 1
    <3>1. CASE w = u
      BY <1>1, <2>2, <3>1
    <3>2. CASE w # u
      BY <1>1, <2>3, <3>2 DEF Earned
    <3> QED BY <3>1, <3>2
  <2> QED BY <2>4 DEF Earned
<1>4. CASE Tick
  <2>1. ASSUME NEW w \in Principal
        PROVE  /\ credit'[w] = Burst \/ quiet'[w] <= credit'[w]
               /\ credit'[w] <= credit[w] + 1
    <3>1. /\ quiet'[w] = Older(quiet[w])
          /\ credit'[w] = IF quiet'[w] > TTL THEN Burst ELSE Refill(credit[w])
      BY <1>4 DEF Tick
    <3>2. /\ credit[w] \in Int /\ quiet[w] \in Nat /\ credit[w] <= Burst
          /\ credit[w] = Burst \/ quiet[w] <= credit[w]
      BY <1>1 DEF Earned
    <3> QED BY <3>1, <3>2, LimiterAssumption DEF Older, Refill
  <2> QED BY <2>1 DEF Earned
<1>5. ASSUME NEW c \in Call, Step(c) PROVE UNCHANGED <<quiet, credit>>
  BY <1>5 DEF Step, ConcurrencyMiddleware, BindRaw, BindAfter, ExecuteNative, prepareERPCall,
     Admit, AttemptAnswered, AttemptFails, Normalize, ReadBody, RawStep, NormalizeRaw,
     AfterStep, Release, Limits
<1>6. CASE Swap \/ BreakerExpires \/ UNCHANGED vars
  BY <1>2, <1>6 DEF Swap, BreakerExpires, vars
<1> QED BY <1>2, <1>3, <1>4, <1>5, <1>6 DEF Next

\* Where the rate fills the burst within the idle time, that exception is
\* none: a principal's tokens only ever grow by one a tick, and forgetting its
\* bucket gives nothing away (getLimiter, limiterIdleTTL).
THEOREM ForgettingIsFree ==
  ASSUME Burst <= TTL + 1
  PROVE  Spec => OneTokenATick
<1>1. Init => Earned
  BY DEF Init, Earned
<1>2. Inv /\ Inv' /\ Earned /\ [Next]_vars => Earned' /\ \A u \in Principal : credit'[u] <= credit[u] + 1
  BY EarnedStep
<1>3. Inv /\ Inv' /\ Earned /\ [Next]_vars => [\A u \in Principal : credit'[u] <= credit[u] + 1]_vars
  BY <1>2
<1> QED BY <1>1, <1>2, <1>3, Invariant, PTL DEF Spec, OneTokenATick

\* A request that is not safe to repeat is sent at most once (call,
\* retrySafeMethod).
THEOREM UnsafeRequestsSentOnce == Spec => []UnsafeSentOnce
BY Invariant, SentFollows, PTL

\* The breaker's counts are the calls and the failed calls of its generation,
\* also when answers of an earlier generation arrive late (afterRequest).
THEOREM BreakerCountsCalls == Spec => []BreakerSeesEveryCall
BY Invariant, BreakerFollows, PTL

\* A success carries a valid value of a response with a success status and the
\* whole work of both phases, but for one whose failed binding may be skipped
\* (executeRawTool, processAfterResponseBindings, handlePluginFailure).
THEOREM SuccessesWhole == Spec => []SuccessIsWhole
BY Invariant, SuccessFollows, PTL
=============================================================================
