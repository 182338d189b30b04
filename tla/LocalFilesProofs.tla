-------------------------- MODULE LocalFilesProofs --------------------------
(***************************************************************************)
(* What holds of the files for every number of processes, every plan, and  *)
(* every set of names, whoever dies and whenever the user edits.           *)
(***************************************************************************)
EXTENDS LocalFiles, TLAPS

Registry == [Names -> API \cup {Missing}]
FileRec  == [present : BOOLEAN, apis : Registry, legacy : BOOLEAN]
ConfigRec ==
  [present : BOOLEAN, contexts : SUBSET Contexts, current : Contexts, edit : 0..MaxEdits]
Todo == {<<>>, <<"context">>, <<"global">>, <<"context", "global">>}
ProcRec ==
  [at : Steps, op : Commands \cup {""}, name : Names \cup Contexts, force : BOOLEAN,
   todo : Todo, apis : Registry, source : SUBSET Names, base : ConfigRec,
   result : Results]

Typed ==
  /\ file \in [Places -> FileRec]
  /\ lock \in [Places -> Proc \cup {None}]
  /\ config \in ConfigRec
  /\ proc \in [Proc -> ProcRec]
  /\ crashes \in 0..MaxCrashes
  /\ installed \subseteq Proc /\ arrived \subseteq Names

-----------------------------------------------------------------------------
(* The invariant of one process *)

Entries == {"register", "set-credential-ref", "delete"}
Writing == {"lock", "reload", "save", "release"}

\* The steps of each command, and what it carries through them.
Control(p, r) ==
  /\ r.op \in Plan[p] \cup {""} /\ (r.at = "idle" => r.op = "")
  /\ r.at = "inspect" => r.op \in Entries \cup {"migrate-registry", "context-set"}
  /\ r.at = "load" => r.op \in Entries
  /\ r.at \in {"source", "target", "remove"} => r.op = "migrate-registry"
  /\ r.at = "stat" => r.op = "scrub-credentials"
  /\ r.at \in Writing => r.op \in Entries \cup {"migrate-registry", "scrub-credentials"}
  /\ r.at \in {"read", "recheck", "rename"} => r.op = "context-set"
  /\ r.at \in {"inspect", "load"} \cup Writing /\ r.op \in Entries => r.name \in Names
  /\ r.at \in {"inspect", "read", "recheck", "rename"} /\ r.op = "context-set" =>
       r.name \in Contexts
  /\ r.at \in {"stat"} \cup Writing /\ r.op = "scrub-credentials" => r.todo # <<>>
  /\ r.at = "release" => r.result # "not_removed"

\* A process has installed something only from its save on.
Before == {"idle", "inspect", "load", "source", "target", "lock", "reload", "save",
           "read", "recheck", "rename"}
Truthful(p, r) ==
  r.op # "scrub-credentials" =>
    /\ r.at \in Before => p \notin installed
    /\ r.at = "release" => (r.result = "ok" <=> p \in installed)
    /\ r.at = "remove" => p \in installed
    /\ r.at = "done" /\ r.op = "migrate-registry" =>
         (r.result \in {"ok", "not_removed"} <=> p \in installed)
    /\ r.at = "done" /\ r.op \in Entries \cup {"context-set"} =>
         (r.result = "ok" <=> p \in installed)

TargetOf(r) == IF r.op = "scrub-credentials" THEN Head(r.todo) ELSE "context"

\* What a process knows of the global registry: a scrub that will write it
\* saw raw credentials, which a migration never passes.
GlobalOK(r) ==
  LET global == file["global"]
  IN  /\ r.op = "scrub-credentials" /\ r.at = "save" /\ TargetOf(r) = "global" =>
           global.legacy
      /\ r.op = "migrate-registry" /\ r.at \in {"target", "remove"} \cup Writing =>
           ~global.legacy
      /\ r.op = "migrate-registry" /\ r.at \in {"target", "lock", "reload", "save"} =>
           GlobalNames \subseteq r.source \/ GlobalNames \subseteq arrived
      /\ r.op = "migrate-registry" /\ (r.at = "remove" \/ (r.at = "release" /\ r.result = "ok")) =>
           GlobalNames \subseteq arrived
      /\ r.op = "migrate-registry" /\ r.at = "done" /\ r.result = "ok" => ~global.present
      /\ r.op \in Entries /\ r.at \in {"load"} \cup Writing => ~global.present

NamedOf(r) ==
  CASE r.op = "migrate-registry" -> r.source
    [] r.op = "scrub-credentials" -> {}
    [] OTHER -> {r.name}

\* What a process will write differs from the file only in what it is about.
ContextOK(r) ==
  /\ r.at \in {"lock", "reload"} /\ r.op # "scrub-credentials" /\ ~file["context"].present =>
       r.apis = Empty
  /\ r.at = "save" => \A n \in Names \ NamedOf(r) : r.apis[n] = file[TargetOf(r)].apis[n]
  /\ r.at = "save" /\ r.op = "migrate-registry" => \A n \in r.source : r.apis[n] # Missing
  /\ r.at = "save" /\ r.op = "register" /\ ~r.force => file["context"].apis[r.name] = Missing

ProcOK(p, r) == Control(p, r) /\ Truthful(p, r) /\ GlobalOK(r) /\ ContextOK(r)

-----------------------------------------------------------------------------
(* The invariants of what the processes share *)

Held(r) == r.at \in {"reload", "save", "release"}

LocksOK ==
  /\ \A p \in Proc : Held(proc[p]) => lock[TargetOf(proc[p])] = p
  /\ \A f \in Places : lock[f] # None =>
       LET r == proc[lock[f]] IN r.at = "dead" \/ (Held(r) /\ TargetOf(r) = f)

FilesOK ==
  /\ ~file["context"].present => file["context"].apis = Empty
  /\ file["global"].present => \A n \in GlobalNames : file["global"].apis[n] # Missing
  /\ ~file["global"].present => ~file["global"].legacy /\ GlobalNames \subseteq arrived

Inv ==
  /\ Typed
  /\ \A p \in Proc : ProcOK(p, proc[p])
  /\ LocksOK /\ FilesOK

\* With one migration: the global registry stays until its removal, and the
\* names that are free in the context registry stay free.
SingleMigration ==
  \A p, q \in Proc : "migrate-registry" \in Plan[p] \cap Plan[q] => p = q

AloneOK(r) ==
  r.op = "migrate-registry" =>
    /\ r.at \in {"source", "target", "remove"} \cup Writing => file["global"].present
    /\ r.at \in {"lock", "reload", "save"} /\ ~r.force =>
         \A n \in r.source : file["context"].apis[n] = Missing
AloneInv == Inv /\ \A p \in Proc : AloneOK(proc[p])

-----------------------------------------------------------------------------
(* Records *)

\* What a step keeps of a command.
Same(r, new) ==
  /\ new.op = r.op /\ new.name = r.name /\ new.force = r.force /\ new.todo = r.todo
  /\ new.source = r.source /\ new.base = r.base

LEMMA TodoFacts ==
  ASSUME NEW todo \in Todo, todo # <<>>
  PROVE  /\ Head(todo) \in Places /\ Tail(todo) \in Todo
         /\ Len(todo) > 1 => Tail(todo) # <<>>
<1>1. CASE todo = <<"context">>
  <2>1. Head(todo) = "context" /\ Tail(todo) = <<>> /\ Len(todo) = 1
    BY <1>1
  <2> QED BY <2>1 DEF Todo, Places
<1>2. CASE todo = <<"global">>
  <2>1. Head(todo) = "global" /\ Tail(todo) = <<>> /\ Len(todo) = 1
    BY <1>2
  <2> QED BY <2>1 DEF Todo, Places
<1>3. CASE todo = <<"context", "global">>
  <2>1. Head(todo) = "context" /\ Tail(todo) = <<"global">>
    BY <1>3
  <2> QED BY <2>1 DEF Todo, Places
<1> QED BY <1>1, <1>2, <1>3 DEF Todo

LEMMA TargetPlace ==
  ASSUME NEW p, NEW r \in ProcRec, Control(p, r), r.at \in {"stat"} \cup Writing
  PROVE  TargetOf(r) \in Places
BY TodoFacts DEF TargetOf, Control, ProcRec, Places

LEMMA EmptyRegistry == Empty \in Registry /\ \A n \in Names : Empty[n] = Missing
BY DEF Empty, Registry

LEMMA NoConfigRec == NoConfig \in ConfigRec /\ NoConfig.edit = 0
BY FilesAssumption DEF NoConfig, ConfigRec, Contexts

LEMMA IdleRec ==
  /\ Idle \in ProcRec
  /\ Idle.at = "idle" /\ Idle.op = "" /\ Idle.result = "" /\ Idle.source = {}
  /\ Idle.apis = Empty /\ Idle.todo = <<>> /\ Idle.base = NoConfig
<1>1. (CHOOSE n \in Names : TRUE) \in Names
  BY FilesAssumption
<1>2. "idle" \in Steps /\ "" \in Results /\ <<>> \in Todo
  BY DEF Steps, Results, Todo
<1>3. 0 \in 0..MaxEdits
  BY FilesAssumption
<1> QED
  BY <1>1, <1>2, <1>3, EmptyRegistry, NoConfigRec DEF Idle, ProcRec

\* The record of a command that returned.
Final(op, result) == [Idle EXCEPT !.at = "done", !.op = op, !.result = result]

LEMMA FinalRec ==
  ASSUME NEW op \in Commands \cup {""}, NEW result \in Results
  PROVE  /\ Final(op, result) \in ProcRec
         /\ Final(op, result).at = "done" /\ Final(op, result).op = op
         /\ Final(op, result).result = result
<1>1. "done" \in Steps
  BY DEF Steps
<1> QED BY <1>1, IdleRec DEF Final, ProcRec

\* A command that returns without having installed anything.
LEMMA ReturnsNothing ==
  ASSUME NEW p, NEW r \in ProcRec, Control(p, r), Truthful(p, r),
         NEW result \in Results, r.at \in Before \cup {"stat"},
         result \in {"ok", "not_removed"} => r.op = "scrub-credentials"
  PROVE  ProcOK(p, Final(r.op, result)) /\ Final(r.op, result) \in ProcRec
<1> DEFINE new == Final(r.op, result)
<1>1. /\ new \in ProcRec /\ new.at = "done" /\ new.op = r.op /\ new.result = result
  BY FinalRec DEF ProcRec
<1> HIDE DEF new
<1>2. Control(p, new)
  BY <1>1 DEF Control, Writing
<1>3. Truthful(p, new)
  BY <1>1 DEF Truthful, Control, Before
<1>4. GlobalOK(new)
  BY <1>1 DEF GlobalOK, Writing
<1>5. ContextOK(new)
  BY <1>1 DEF ContextOK
<1> QED BY <1>1, <1>2, <1>3, <1>4, <1>5 DEF ProcOK, new

-----------------------------------------------------------------------------
(* Steps that change the process only *)

SameLocks(r, new) ==
  /\ Held(r) <=> Held(new)
  /\ Held(r) => TargetOf(new) = TargetOf(r)
  /\ r.at # "dead"

LEMMA Moved ==
  ASSUME Typed, NEW p \in Proc, NEW new \in ProcRec, proc' = [proc EXCEPT ![p] = new]
  PROVE  /\ proc' \in [Proc -> ProcRec] /\ proc'[p] = new
         /\ \A q \in Proc \ {p} : proc'[q] = proc[q]
BY DEF Typed

LEMMA LocksSame ==
  ASSUME Typed, LocksOK, NEW p \in Proc, NEW new \in ProcRec,
         proc' = [proc EXCEPT ![p] = new], SameLocks(proc[p], new), lock' = lock
  PROVE  LocksOK'
<1>1. /\ proc'[p] = new /\ \A q \in Proc \ {p} : proc'[q] = proc[q]
  BY Moved
<1>2. \A q \in Proc : Held(proc'[q]) => lock'[TargetOf(proc'[q])] = q
  BY <1>1 DEF LocksOK, SameLocks
<1>3. ASSUME NEW f \in Places, lock'[f] # None
      PROVE  \/ proc'[lock'[f]].at = "dead"
             \/ Held(proc'[lock'[f]]) /\ TargetOf(proc'[lock'[f]]) = f
  <2>1. lock[f] \in Proc
    BY <1>3 DEF Typed
  <2> QED BY <1>1, <1>3, <2>1 DEF LocksOK, SameLocks
<1> QED BY <1>2, <1>3 DEF LocksOK, Held, TargetOf

LEMMA ProcsSame ==
  ASSUME Inv, NEW p \in Proc, NEW new \in ProcRec, proc' = [proc EXCEPT ![p] = new],
         ProcOK(p, new), UNCHANGED <<file, installed, arrived>>
  PROVE  \A q \in Proc : ProcOK(q, proc[q])'
<1>1. \A q \in Proc : ProcOK(q, proc'[q])
  BY Moved DEF Inv
<1>2. ASSUME NEW q \in Proc PROVE ProcOK(q, proc[q])'
  <2>1. Control(q, proc[q])'
    BY <1>1 DEF ProcOK, Control
  <2>2. Truthful(q, proc[q])'
    BY <1>1 DEF ProcOK, Truthful
  <2>3. GlobalOK(proc[q])'
    BY <1>1 DEF ProcOK, GlobalOK, TargetOf
  <2>4. ContextOK(proc[q])'
    BY <1>1 DEF ProcOK, ContextOK, TargetOf, NamedOf
  <2> QED BY <2>1, <2>2, <2>3, <2>4 DEF ProcOK
<1> QED BY <1>2

LEMMA ReadStep ==
  ASSUME Inv, NEW p \in Proc, NEW new \in ProcRec, proc' = [proc EXCEPT ![p] = new], Reads,
         ProcOK(p, new), SameLocks(proc[p], new)
  PROVE  Inv'
<1>1. Typed /\ LocksOK /\ FilesOK
  BY DEF Inv
<1>2. /\ proc' \in [Proc -> ProcRec] /\ proc'[p] = new
      /\ \A q \in Proc \ {p} : proc'[q] = proc[q]
  BY <1>1, Moved
<1>3. Typed'
  BY <1>1, <1>2 DEF Typed, Reads
<1>4. LocksOK'
  BY <1>1, LocksSame DEF Reads
<1>5. FilesOK'
  BY <1>1 DEF FilesOK, Reads
<1>6. \A q \in Proc : ProcOK(q, proc[q])'
  BY ProcsSame DEF Reads
<1> QED BY <1>3, <1>4, <1>5, <1>6 DEF Inv

LEMMA ReturnStep ==
  ASSUME Inv, NEW p \in Proc, NEW result \in Results, Return(p, result), Reads,
         proc[p].at \in Before \cup {"stat"}, ~Held(proc[p]),
         result \in {"ok", "not_removed"} => proc[p].op = "scrub-credentials"
  PROVE  Inv'
<1> DEFINE r == proc[p]
           new == Final(r.op, result)
<1>1. r \in ProcRec /\ Control(p, r) /\ Truthful(p, r) /\ r.op \in Commands \cup {""}
  BY DEF Inv, Typed, ProcOK, ProcRec
<1>2. ProcOK(p, new) /\ new \in ProcRec /\ new.at = "done"
  BY <1>1, ReturnsNothing, FinalRec
<1>3. SameLocks(r, new)
  BY <1>2 DEF SameLocks, Held, Before
<1>4. proc' = [proc EXCEPT ![p] = new]
  BY DEF Return, Final
<1> QED BY <1>2, <1>3, <1>4, ReadStep

\* The acting process before its step.
LEMMA Acting ==
  ASSUME Inv, NEW p \in Proc
  PROVE  /\ Typed /\ LocksOK /\ FilesOK
         /\ proc[p] \in ProcRec /\ ProcOK(p, proc[p])
         /\ Control(p, proc[p]) /\ Truthful(p, proc[p]) /\ GlobalOK(proc[p]) /\ ContextOK(proc[p])
         /\ file["context"] \in FileRec /\ file["global"] \in FileRec
         /\ file["context"].apis \in Registry
         /\ \A n \in Names : n \in DOMAIN proc[p].apis
BY DEF Inv, Typed, ProcOK, Places, FileRec, ProcRec, Registry

LEMMA StartStep ==
  ASSUME Inv, NEW p \in Proc, Start(p)
  PROVE  Inv'
<1>1. proc[p].at = "idle" /\ Reads
  BY DEF Start
<1>2. PICK op \in Plan[p] :
      \E name \in (IF op = "context-set" THEN Contexts ELSE Names),
         force \in (IF op \in {"register", "migrate-registry"} THEN BOOLEAN ELSE {FALSE}) :
        proc' = [proc EXCEPT ![p] =
          [Idle EXCEPT !.op = op, !.name = name, !.force = force,
             !.at = IF op = "scrub-credentials" THEN "stat" ELSE "inspect",
             !.todo = IF op # "scrub-credentials" THEN <<>>
                      ELSE IF file["context"].present THEN <<"context", "global">>
                      ELSE <<"global">>]]
  BY DEF Start
<1>3. PICK name \in (IF op = "context-set" THEN Contexts ELSE Names),
           force \in (IF op \in {"register", "migrate-registry"} THEN BOOLEAN ELSE {FALSE}) :
        proc' = [proc EXCEPT ![p] =
          [Idle EXCEPT !.op = op, !.name = name, !.force = force,
             !.at = IF op = "scrub-credentials" THEN "stat" ELSE "inspect",
             !.todo = IF op # "scrub-credentials" THEN <<>>
                      ELSE IF file["context"].present THEN <<"context", "global">>
                      ELSE <<"global">>]]
  BY <1>2
<1> DEFINE at == IF op = "scrub-credentials" THEN "stat" ELSE "inspect"
           todo == IF op # "scrub-credentials" THEN <<>>
                   ELSE IF file["context"].present THEN <<"context", "global">>
                   ELSE <<"global">>
           new == [Idle EXCEPT !.op = op, !.name = name, !.force = force,
                               !.at = at, !.todo = todo]
<1>4. proc' = [proc EXCEPT ![p] = new]
  BY <1>3
<1>5. /\ op \in Commands /\ at \in Steps /\ todo \in Todo /\ force \in BOOLEAN
      /\ name \in Names \cup Contexts
  BY FilesAssumption DEF Steps, Todo
<1>6. at = "stat" \/ at = "inspect"
  OBVIOUS
<1>7. at = "stat" => op = "scrub-credentials" /\ todo # <<>>
  OBVIOUS
<1>8. at = "inspect" => op # "scrub-credentials"
  OBVIOUS
<1> HIDE DEF at, todo
<1>9. /\ new \in ProcRec /\ new.op = op /\ new.name = name /\ new.at = at
      /\ new.todo = todo
  BY <1>5, IdleRec DEF ProcRec
<1> HIDE DEF new
<1>10. proc[p].op = "" /\ Truthful(p, proc[p])
  BY <1>1, Acting DEF Control
<1>11. p \notin installed
  BY <1>1, <1>10 DEF Truthful, Before
<1>12. Control(p, new)
  BY <1>5, <1>6, <1>7, <1>8, <1>9 DEF Control, Writing, Commands, Entries
<1>13. Truthful(p, new)
  BY <1>6, <1>9, <1>11 DEF Truthful, Before
<1>14. GlobalOK(new) /\ ContextOK(new)
  BY <1>6, <1>9 DEF GlobalOK, ContextOK, Writing
<1>15. SameLocks(proc[p], new)
  BY <1>1, <1>6, <1>9 DEF SameLocks, Held
<1> QED BY <1>1, <1>4, <1>9, <1>12, <1>13, <1>14, <1>15, ReadStep DEF ProcOK

\* A move to another step that loads nothing.
LEMMA GotoStep ==
  ASSUME Inv, NEW p \in Proc, NEW step \in Steps, Goto(p, step), Reads, ~Held(proc[p]),
         step \notin {"idle", "reload", "save", "release", "rename", "done", "remove"},
         proc[p].at # "dead",
         Control(p, [proc[p] EXCEPT !.at = step]), GlobalOK([proc[p] EXCEPT !.at = step]),
         step = "lock" => proc[p].op = "scrub-credentials",
         proc[p].at \in Before \/ proc[p].op = "scrub-credentials"
  PROVE  Inv'
<1> DEFINE r == proc[p]
           new == [r EXCEPT !.at = step]
<1>1. r \in ProcRec /\ Truthful(p, r)
  BY Acting
<1>2. new \in ProcRec /\ Same(r, new) /\ new.at = step
  BY <1>1 DEF ProcRec, Same
<1>3. proc' = [proc EXCEPT ![p] = new]
  BY DEF Goto
<1>4. Control(p, new) /\ GlobalOK(new)
  OBVIOUS
<1> HIDE DEF new
<1>5. Truthful(p, new)
  BY <1>1, <1>2 DEF Truthful, Before, Same
<1>6. ContextOK(new)
  BY <1>2 DEF ContextOK, Same
<1>7. SameLocks(r, new)
  BY <1>2 DEF SameLocks, Held
<1> QED BY <1>2, <1>3, <1>4, <1>5, <1>6, <1>7, ReadStep DEF ProcOK

LEMMA InspectSteps ==
  ASSUME Inv, NEW p \in Proc, NewRegistryForContext(p) \/ MigrateInspect(p) \/ ContextInspect(p)
  PROVE  Inv'
<1> DEFINE r == proc[p]
<1>0. r \in ProcRec /\ Control(p, r) /\ r.at = "inspect" /\ Reads
  BY Acting DEF NewRegistryForContext, MigrateInspect, ContextInspect
<1>1. ~Held(r) /\ r.at \in Before
  BY <1>0 DEF Held, Before
<1>2. ASSUME NEW result \in {"legacy_registry", "not_configured"}, Return(p, result)
      PROVE  Inv'
  <2>1. result \in Results /\ result \notin {"ok", "not_removed"}
    BY <1>2 DEF Results
  <2> QED BY <1>0, <1>1, <1>2, <2>1, ReturnStep
<1>3. ASSUME NEW step \in {"load", "source", "read", "recheck"}, Goto(p, step),
             step = "load" => r.op \in Entries /\ ~file["global"].present,
             step = "source" => r.op = "migrate-registry",
             step \in {"read", "recheck"} => r.op = "context-set"
      PROVE  Inv'
  <2> DEFINE new == [r EXCEPT !.at = step]
  <2>1. step \in Steps
    BY DEF Steps
  <2>2. new \in ProcRec /\ Same(r, new) /\ new.at = step
    BY <1>0, <2>1 DEF ProcRec, Same
  <2> HIDE DEF new
  <2>3. Control(p, new)
    BY <1>0, <1>3, <2>2 DEF Control, Same, Entries, Writing
  <2>4. GlobalOK(new)
    BY <1>0, <1>3, <2>2 DEF GlobalOK, Same, Writing
  <2> QED BY <1>0, <1>1, <1>3, <2>1, <2>3, <2>4, GotoStep DEF new
<1>4. CASE NewRegistryForContext(p)
  <2>1. r.op \in Entries /\ (Return(p, "legacy_registry") \/
                             (Goto(p, "load") /\ ~file["global"].present))
    BY <1>4 DEF NewRegistryForContext, Entries
  <2> QED BY <1>2, <1>3, <2>1
<1>5. CASE MigrateInspect(p)
  BY <1>2, <1>3, <1>5 DEF MigrateInspect
<1>6. CASE ContextInspect(p)
  BY <1>2, <1>3, <1>6 DEF ContextInspect
<1> QED BY <1>4, <1>5, <1>6

\* load and MigrateTarget: the process read the context registry.
LEMMA LoadStep ==
  ASSUME Inv, NEW p \in Proc, Reads, proc[p].at \in {"load", "target"},
         proc' = [proc EXCEPT ![p].at = "lock", ![p].apis = file["context"].apis]
  PROVE  Inv'
<1> DEFINE r == proc[p]
           new == [r EXCEPT !.at = "lock", !.apis = file["context"].apis]
<1>0. /\ r \in ProcRec /\ Control(p, r) /\ Truthful(p, r) /\ GlobalOK(r) /\ FilesOK /\ Typed
      /\ file["context"].apis \in Registry
  BY Acting
<1>1. proc' = [proc EXCEPT ![p] = new]
  BY <1>0 DEF Typed, ProcRec
<1>2. new \in ProcRec /\ Same(r, new) /\ new.at = "lock" /\ new.apis = file["context"].apis
  <2>1. "lock" \in Steps
    BY DEF Steps
  <2> QED BY <1>0, <2>1 DEF ProcRec, Same
<1> HIDE DEF new
<1>3. Control(p, new)
  BY <1>0, <1>2 DEF Control, Same, Writing, Entries
<1>4. Truthful(p, new)
  BY <1>0, <1>2 DEF Truthful, Same, Before
<1>5. GlobalOK(new)
  BY <1>0, <1>2 DEF GlobalOK, Same, Writing, Control, Entries
<1>6. ContextOK(new)
  BY <1>0, <1>2 DEF ContextOK, FilesOK
<1>7. SameLocks(r, new)
  BY <1>2 DEF SameLocks, Held
<1> QED BY <1>1, <1>2, <1>3, <1>4, <1>5, <1>6, <1>7, ReadStep DEF ProcOK

LEMMA MigrateSteps ==
  ASSUME Inv, NEW p \in Proc, MigrateSource(p) \/ MigrateTarget(p)
  PROVE  Inv'
<1> DEFINE r == proc[p]
<1>0. /\ r \in ProcRec /\ Control(p, r) /\ Truthful(p, r) /\ GlobalOK(r) /\ FilesOK /\ Typed
      /\ Reads /\ r.at \in {"source", "target"}
  BY Acting DEF MigrateSource, MigrateTarget
<1>1. ~Held(r) /\ r.at \in Before
  BY <1>0 DEF Held, Before
<1>2. ASSUME NEW result \in {"legacy_credentials", "conflict"}, Return(p, result)
      PROVE  Inv'
  <2>1. result \in Results /\ result \notin {"ok", "not_removed"}
    BY <1>2 DEF Results
  <2> QED BY <1>0, <1>1, <1>2, <2>1, ReturnStep
<1>3. CASE MigrateTarget(p)
  <2>1. \/ Return(p, "conflict")
        \/ proc' = [proc EXCEPT ![p].at = "lock", ![p].apis = file["context"].apis]
    BY <1>3 DEF MigrateTarget
  <2>2. r.at = "target"
    BY <1>3 DEF MigrateTarget
  <2> QED BY <1>0, <1>2, <2>1, <2>2, LoadStep
<1>4. CASE MigrateSource(p)
  <2> DEFINE held == {n \in Names : file["global"].apis[n] # Missing}
             new == [r EXCEPT !.at = "target", !.source = held]
  <2>1. \/ Return(p, "legacy_credentials")
        \/ ~file["global"].legacy /\ proc' = [proc EXCEPT ![p].at = "target", ![p].source = held]
    BY <1>4 DEF MigrateSource
  <2>2. CASE ~file["global"].legacy
             /\ proc' = [proc EXCEPT ![p].at = "target", ![p].source = held]
    <3>1. proc' = [proc EXCEPT ![p] = new]
      BY <1>0, <2>2 DEF Typed, ProcRec
    <3>2. GlobalNames \subseteq held \/ GlobalNames \subseteq arrived
      BY <1>0, FilesAssumption DEF FilesOK
    <3>3. held \subseteq Names
      OBVIOUS
    <3> HIDE DEF held
    <3>4. new \in ProcRec /\ new.op = r.op /\ new.name = r.name /\ new.at = "target"
          /\ new.source = held
      <4>1. "target" \in Steps
        BY DEF Steps
      <4> QED BY <1>0, <3>3, <4>1 DEF ProcRec
    <3> HIDE DEF new
    <3>5. r.at = "source" /\ r.op = "migrate-registry"
      BY <1>0, <1>4 DEF MigrateSource, Control
    <3>6. Control(p, new)
      BY <1>0, <3>4, <3>5 DEF Control, Writing, Entries
    <3>7. Truthful(p, new)
      BY <1>0, <3>4, <3>5 DEF Truthful, Before
    <3>8. GlobalOK(new)
      BY <2>2, <3>2, <3>4, <3>5 DEF GlobalOK, Writing, Entries
    <3>9. ContextOK(new) /\ SameLocks(r, new)
      BY <3>4, <3>5 DEF ContextOK, SameLocks, Held
    <3> QED BY <1>0, <3>1, <3>4, <3>6, <3>7, <3>8, <3>9, ReadStep DEF ProcOK
  <2> QED BY <1>2, <2>1, <2>2
<1> QED BY <1>0, <1>3, <1>4

LEMMA TimeOutStep ==
  ASSUME Inv, NEW p \in Proc, lockTimesOut(p)
  PROVE  Inv'
<1>1. proc[p].at = "lock" /\ Return(p, "timed_out") /\ Reads
  BY DEF lockTimesOut
<1>2. "timed_out" \in Results /\ "timed_out" \notin {"ok", "not_removed"}
  BY DEF Results
<1> QED BY <1>1, <1>2, ReturnStep DEF Held, Before

LEMMA ConfigReadSteps ==
  ASSUME Inv, NEW p \in Proc, ContextRead(p) \/ replaceRecheck(p)
  PROVE  Inv'
<1> DEFINE r == proc[p]
<1>0. /\ r \in ProcRec /\ Control(p, r) /\ Truthful(p, r) /\ Typed /\ config \in ConfigRec
      /\ Reads /\ r.at \in {"read", "recheck"}
  BY Acting DEF ContextRead, replaceRecheck, Typed
<1>1. ~Held(r) /\ r.at \in Before /\ r.op = "context-set"
  BY <1>0 DEF Held, Before, Control
<1>2. ASSUME NEW result \in {"not_configured", "io", "config_changed"}, Return(p, result)
      PROVE  Inv'
  <2>1. result \in Results /\ result \notin {"ok", "not_removed"}
    BY <1>2 DEF Results
  <2> QED BY <1>0, <1>1, <1>2, <2>1, ReturnStep
<1>3. ASSUME NEW new \in ProcRec, proc' = [proc EXCEPT ![p] = new],
             new.op = r.op, new.name = r.name, new.at \in {"recheck", "rename"}
      PROVE  Inv'
  <2>1. Control(p, new)
    BY <1>0, <1>1, <1>3 DEF Control, Writing, Entries
  <2>2. Truthful(p, new)
    BY <1>0, <1>1, <1>3 DEF Truthful, Before
  <2>3. GlobalOK(new) /\ ContextOK(new) /\ SameLocks(r, new)
    BY <1>0, <1>3 DEF GlobalOK, ContextOK, SameLocks, Held, Writing
  <2> QED BY <1>0, <1>3, <2>1, <2>2, <2>3, ReadStep DEF ProcOK
<1>4. "recheck" \in Steps /\ "rename" \in Steps
  BY DEF Steps
<1>5. CASE ContextRead(p)
  <2> DEFINE new == [r EXCEPT !.at = "recheck", !.base = config]
  <2>1. \/ Return(p, "not_configured")
        \/ proc' = [proc EXCEPT ![p].at = "recheck", ![p].base = config]
    BY <1>5 DEF ContextRead
  <2>2. CASE proc' = [proc EXCEPT ![p].at = "recheck", ![p].base = config]
    <3>1. proc' = [proc EXCEPT ![p] = new]
      BY <1>0, <2>2 DEF Typed, ProcRec
    <3>2. new \in ProcRec /\ new.op = r.op /\ new.name = r.name /\ new.at = "recheck"
      BY <1>0, <1>4 DEF ProcRec
    <3> QED BY <1>3, <3>1, <3>2
  <2> QED BY <1>2, <2>1, <2>2
<1>6. CASE replaceRecheck(p)
  <2> DEFINE new == [r EXCEPT !.at = "rename"]
  <2>1. Return(p, "io") \/ Return(p, "config_changed") \/ Goto(p, "rename")
    BY <1>6 DEF replaceRecheck
  <2>2. CASE Goto(p, "rename")
    <3>1. proc' = [proc EXCEPT ![p] = new]
      BY <1>0, <2>2 DEF Goto, Typed, ProcRec
    <3>2. /\ new \in ProcRec /\ new.op = r.op /\ new.name = r.name /\ new.at = "rename"
      BY <1>0, <1>4 DEF ProcRec
    <3> QED BY <1>3, <3>1, <3>2
  <2> QED BY <1>2, <2>1, <2>2
<1> QED BY <1>5, <1>6

-----------------------------------------------------------------------------
(* Under the lock *)

\* A command reads what is on disk, also where there was no file.
LEMMA ReloadedIsFile ==
  ASSUME Inv, NEW p \in Proc, proc[p].at = "reload", proc[p].op # "scrub-credentials"
  PROVE  Reloaded(p) = file["context"].apis /\ Reloaded(p) \in Registry
<1>1. FilesOK /\ ContextOK(proc[p]) /\ file["context"].apis \in Registry
  BY Acting
<1>2. Target(p) = "context"
  BY DEF Target
<1> QED BY <1>1, <1>2 DEF Reloaded, FilesOK, ContextOK

\* What a command makes of a registry it does not refuse.
LEMMA Changes ==
  ASSUME Inv, NEW p \in Proc, proc[p].at = "reload", proc[p].op # "scrub-credentials",
         NEW apis \in Registry, Refusal(p, apis) = ""
  PROVE  /\ Change(p, apis) \in Registry
         /\ \A n \in Names \ NamedOf(proc[p]) : Change(p, apis)[n] = apis[n]
         /\ proc[p].op = "migrate-registry" =>
              \A n \in proc[p].source : Change(p, apis)[n] # Missing
         /\ proc[p].op = "register" /\ ~proc[p].force => apis[proc[p].name] = Missing
<1> DEFINE r == proc[p]
<1>0. r \in ProcRec /\ Control(p, r)
  BY Acting
<1>1. r.op \in Entries \cup {"migrate-registry"} /\ (r.op \in Entries => r.name \in Names)
  BY <1>0 DEF Control, Writing
<1>2. \A q \in Proc : [owner |-> q, ref |-> None] \in API
  BY DEF API
<1>3. Missing.owner = "nobody" /\ [owner |-> "global", ref |-> None] \in API
      /\ [owner |-> "global", ref |-> None] # Missing
  BY DEF API, Missing
<1>4. CASE r.op = "register"
  <2>1. Change(p, apis) = [apis EXCEPT ![r.name] = [owner |-> p, ref |-> None]]
    BY <1>4 DEF Change
  <2>2. apis[r.name] # Missing => r.force
    BY <1>4 DEF Refusal
  <2>3. NamedOf(r) = {r.name}
    BY <1>4 DEF NamedOf
  <2> QED BY <1>1, <1>2, <1>4, <2>1, <2>2, <2>3 DEF Registry, Entries
<1>5. CASE r.op = "set-credential-ref"
  <2>1. Change(p, apis) = [apis EXCEPT ![r.name].ref = p]
    BY <1>5 DEF Change
  <2>2. apis[r.name] # Missing
    BY <1>5 DEF Refusal
  <2>3. r.name \in Names /\ apis[r.name] \in API
    BY <1>1, <1>5, <2>2 DEF Registry, Entries
  <2>4. [apis[r.name] EXCEPT !.ref = p] \in API
    BY <2>3 DEF API
  <2>5. Change(p, apis) = [apis EXCEPT ![r.name] = [apis[r.name] EXCEPT !.ref = p]]
    BY <2>1
  <2>6. NamedOf(r) = {r.name}
    BY <1>5 DEF NamedOf
  <2> QED BY <1>5, <2>3, <2>4, <2>5, <2>6 DEF Registry
<1>6. CASE r.op = "delete"
  <2>1. Change(p, apis) = [apis EXCEPT ![r.name] = Missing]
    BY <1>6 DEF Change
  <2>2. NamedOf(r) = {r.name}
    BY <1>6 DEF NamedOf
  <2> QED BY <1>1, <1>6, <2>1, <2>2 DEF Registry, Entries
<1>7. CASE r.op = "migrate-registry"
  <2>1. Change(p, apis) = [n \in Names |-> IF n \in r.source
                             THEN Holding(r.source, "global")[n] ELSE apis[n]]
    BY <1>7 DEF Change
  <2>2. \A n \in r.source : n \in Names
                            /\ Holding(r.source, "global")[n] = [owner |-> "global", ref |-> None]
    BY <1>0 DEF Holding, ProcRec
  <2>3. NamedOf(r) = r.source
    BY <1>7 DEF NamedOf
  <2> HIDE DEF r
  <2> QED BY <1>3, <1>7, <2>1, <2>2, <2>3 DEF Registry, r
<1> QED BY <1>1, <1>4, <1>5, <1>6, <1>7 DEF Entries

LEMMA WriteStep ==
  ASSUME Inv, NEW p \in Proc, withWrite(p)
  PROVE  Inv'
<1> DEFINE r == proc[p]
           apis == Reloaded(p)
           no == IF file["context"].legacy THEN "legacy_credentials" ELSE Refusal(p, apis)
           at == IF no = "" THEN "save" ELSE "release"
           next == IF no = "" THEN Change(p, apis) ELSE apis
           new == [r EXCEPT !.at = at, !.apis = next, !.result = no]
<1>0. /\ r \in ProcRec /\ Control(p, r) /\ Truthful(p, r) /\ GlobalOK(r) /\ FilesOK /\ Typed
      /\ Reads /\ r.at = "reload" /\ r.op # "scrub-credentials"
  BY Acting DEF withWrite
<1>1. apis = file["context"].apis /\ apis \in Registry
  BY <1>0, ReloadedIsFile
<1>2. no \in {"", "legacy_credentials", "conflict", "not_found"}
  BY DEF Refusal
<1>3. no = "" => Refusal(p, apis) = ""
  OBVIOUS
<1> HIDE DEF no
<1>4. /\ next \in Registry
      /\ no = "" => /\ \A n \in Names \ NamedOf(r) : next[n] = file["context"].apis[n]
                    /\ r.op = "migrate-registry" => \A n \in r.source : next[n] # Missing
                    /\ r.op = "register" /\ ~r.force => file["context"].apis[r.name] = Missing
  <2>1. CASE no # ""
    BY <1>1, <2>1
  <2>2. CASE no = ""
    <3>1. next = Change(p, apis) /\ Refusal(p, apis) = ""
      BY <1>3, <2>2
    <3> HIDE DEF next, apis
    <3>2. /\ Change(p, apis) \in Registry
          /\ \A n \in Names \ NamedOf(r) : Change(p, apis)[n] = apis[n]
          /\ r.op = "migrate-registry" => \A n \in r.source : Change(p, apis)[n] # Missing
          /\ r.op = "register" /\ ~r.force => apis[r.name] = Missing
      BY <1>0, <1>1, <3>1, Changes
    <3> QED BY <1>1, <3>1, <3>2
  <2> QED BY <2>1, <2>2
<1>5. at \in Steps /\ no \in Results /\ at \in {"save", "release"}
      /\ (at = "release" => no # "") /\ (at = "save" => no = "")
  BY <1>2 DEF Steps, Results
<1>6. proc' = [proc EXCEPT ![p].at = at, ![p].apis = next, ![p].result = no]
  BY DEF withWrite, no
<1> HIDE DEF at, next, apis
<1>7. proc' = [proc EXCEPT ![p] = new]
  BY <1>0, <1>6 DEF Typed, ProcRec
<1>8. /\ new \in ProcRec /\ Same(r, new) /\ new.at = at /\ new.apis = next
      /\ new.result = no
  BY <1>0, <1>4, <1>5 DEF ProcRec, Same
<1> HIDE DEF new
<1>9. Control(p, new)
  BY <1>0, <1>2, <1>5, <1>8 DEF Control, Same, Writing
<1>10. Truthful(p, new)
  BY <1>0, <1>2, <1>5, <1>8 DEF Truthful, Same, Before
<1>11. GlobalOK(new)
  BY <1>0, <1>2, <1>5, <1>8 DEF GlobalOK, Same, Writing
<1>12. NamedOf(new) = NamedOf(r) /\ TargetOf(new) = "context" /\ TargetOf(r) = "context"
  BY <1>0, <1>8 DEF NamedOf, TargetOf, Same
<1>13. ContextOK(new)
  BY <1>0, <1>4, <1>5, <1>8, <1>12 DEF ContextOK, Same
<1>14. SameLocks(r, new)
  BY <1>0, <1>5, <1>8, <1>12 DEF SameLocks, Held
<1> QED BY <1>0, <1>7, <1>8, <1>9, <1>10, <1>11, <1>13, <1>14, ReadStep DEF ProcOK

LEMMA ScrubReadStep ==
  ASSUME Inv, NEW p \in Proc, ScrubCredentials(p)
  PROVE  Inv'
<1> DEFINE r == proc[p]
           f == file[Target(p)]
           at == IF f.present /\ f.legacy THEN "save" ELSE "release"
           new == [r EXCEPT !.apis = f.apis, !.result = "ok", !.at = at]
<1>0. /\ r \in ProcRec /\ Control(p, r) /\ FilesOK /\ Typed
      /\ Reads /\ r.at = "reload" /\ r.op = "scrub-credentials"
  BY Acting DEF ScrubCredentials
<1>1. TargetOf(r) \in Places /\ Target(p) = TargetOf(r)
  BY <1>0, TargetPlace DEF Target, TargetOf, Writing
<1>2. f.apis \in Registry
  BY <1>0, <1>1 DEF Typed, FileRec
<1>3. at \in {"save", "release"} /\ (at = "save" => f.legacy)
  OBVIOUS
<1>4. proc' = [proc EXCEPT ![p].apis = f.apis, ![p].result = "ok", ![p].at = at]
  BY DEF ScrubCredentials
<1> HIDE DEF at, f
<1>5. proc' = [proc EXCEPT ![p] = new]
  BY <1>0, <1>4 DEF Typed, ProcRec
<1>6. "ok" \in Results /\ at \in Steps
  BY <1>3 DEF Results, Steps
<1>7. /\ new \in ProcRec /\ Same(r, new) /\ new.at = at /\ new.apis = f.apis
      /\ new.result = "ok"
  BY <1>0, <1>2, <1>6 DEF ProcRec, Same
<1> HIDE DEF new
<1>8. Control(p, new)
  BY <1>0, <1>3, <1>7 DEF Control, Same, Writing
<1>9. Truthful(p, new)
  BY <1>0, <1>7 DEF Truthful, Same
<1>10. TargetOf(new) = TargetOf(r) /\ NamedOf(new) = {}
  BY <1>0, <1>7 DEF TargetOf, NamedOf, Same
<1>11. GlobalOK(new)
  BY <1>0, <1>1, <1>3, <1>7, <1>10 DEF GlobalOK, Same, Entries, f
<1>12. ContextOK(new)
  BY <1>0, <1>1, <1>3, <1>7, <1>10 DEF ContextOK, Same, f
<1>13. SameLocks(r, new)
  BY <1>0, <1>3, <1>7, <1>10 DEF SameLocks, Held
<1> QED BY <1>0, <1>5, <1>7, <1>8, <1>9, <1>11, <1>12, <1>13, ReadStep DEF ProcOK

LEMMA ScrubStatStep ==
  ASSUME Inv, NEW p \in Proc, ScrubStat(p)
  PROVE  Inv'
<1> DEFINE r == proc[p]
<1>0. /\ r \in ProcRec /\ Control(p, r) /\ FilesOK /\ Typed
      /\ Reads /\ r.at = "stat"
  BY Acting DEF ScrubStat
<1>1. ~Held(r) /\ r.op = "scrub-credentials" /\ r.todo # <<>> /\ r.todo \in Todo
  BY <1>0 DEF Held, Control, ProcRec
<1>2. \/ Goto(p, "lock") \/ Return(p, "ok")
      \/ Len(r.todo) > 1 /\ proc' = [proc EXCEPT ![p].todo = Tail(@)]
  BY DEF ScrubStat
<1>3. CASE Return(p, "ok")
  <2>1. "ok" \in Results
    BY DEF Results
  <2> QED BY <1>0, <1>1, <1>3, <2>1, ReturnStep
<1>4. CASE Goto(p, "lock")
  <2> DEFINE new == [r EXCEPT !.at = "lock"]
  <2>1. "lock" \in Steps
    BY DEF Steps
  <2>2. new \in ProcRec /\ Same(r, new) /\ new.at = "lock"
    BY <1>0, <2>1 DEF ProcRec, Same
  <2> HIDE DEF new
  <2>3. Control(p, new)
    BY <1>0, <1>1, <2>2 DEF Control, Same, Writing, Entries
  <2>4. GlobalOK(new)
    BY <1>1, <2>2 DEF GlobalOK, Same, Entries
  <2> QED BY <1>0, <1>1, <1>4, <2>1, <2>3, <2>4, GotoStep DEF new
<1>5. CASE Len(r.todo) > 1 /\ proc' = [proc EXCEPT ![p].todo = Tail(@)]
  <2> DEFINE rest == Tail(r.todo)
             new == [r EXCEPT !.todo = rest]
  <2>1. rest \in Todo /\ rest # <<>>
    BY <1>1, <1>5, TodoFacts
  <2>2. proc' = [proc EXCEPT ![p].todo = rest]
    BY <1>5
  <2> HIDE DEF rest
  <2>3. proc' = [proc EXCEPT ![p] = new]
    BY <1>0, <2>2 DEF Typed, ProcRec
  <2>4. new \in ProcRec /\ new.op = r.op /\ new.name = r.name /\ new.at = r.at /\ new.todo = rest
    BY <1>0, <2>1 DEF ProcRec
  <2> HIDE DEF new
  <2>5. Control(p, new)
    BY <1>0, <1>1, <2>1, <2>4 DEF Control, Writing
  <2>6. Truthful(p, new) /\ GlobalOK(new) /\ ContextOK(new) /\ SameLocks(r, new)
    BY <1>0, <1>1, <2>4 DEF Truthful, GlobalOK, ContextOK, SameLocks, Held, Entries
  <2> QED BY <1>0, <2>3, <2>4, <2>5, <2>6, ReadStep DEF ProcOK
<1> QED BY <1>2, <1>3, <1>4, <1>5

-----------------------------------------------------------------------------
(* The lock files *)

LEMMA AcquireStep ==
  ASSUME Inv, NEW p \in Proc, acquireRegistryLock(p)
  PROVE  Inv'
<1> DEFINE r == proc[p]
           t == TargetOf(r)
           new == [r EXCEPT !.at = "reload"]
<1>0. /\ r \in ProcRec /\ Control(p, r) /\ Truthful(p, r) /\ GlobalOK(r) /\ ContextOK(r)
      /\ FilesOK /\ LocksOK /\ Typed /\ r.at = "lock"
  BY Acting DEF acquireRegistryLock
<1>1. t \in Places /\ Target(p) = t
  BY <1>0, TargetPlace DEF Target, TargetOf, Writing
<1>2. /\ lock[t] = None /\ lock' = [lock EXCEPT ![t] = p]
      /\ UNCHANGED <<file, config, crashes, installed, arrived>>
      /\ proc' = [proc EXCEPT ![p] = new]
  BY <1>1 DEF acquireRegistryLock, FilesOnly, Goto
<1> HIDE DEF t
<1>3. "reload" \in Steps
  BY DEF Steps
<1>4. new \in ProcRec /\ Same(r, new) /\ new.at = "reload" /\ new.apis = r.apis
  BY <1>0, <1>3 DEF ProcRec, Same
<1> HIDE DEF new
<1>5. /\ proc' \in [Proc -> ProcRec] /\ proc'[p] = new
      /\ \A q \in Proc \ {p} : proc'[q] = proc[q]
  BY <1>0, <1>2, <1>4, Moved
<1>6. TargetOf(new) = t
  BY <1>4 DEF TargetOf, Same, t
<1>7. LocksOK'
  <2>1. ASSUME NEW q \in Proc, Held(proc'[q])
        PROVE  lock'[TargetOf(proc'[q])] = q
    <3>1. CASE q = p
      BY <1>0, <1>1, <1>2, <1>5, <1>6, <3>1 DEF Typed
    <3>2. CASE q # p
      <4>1. Held(proc[q]) /\ lock[TargetOf(proc[q])] = q
        BY <1>0, <1>5, <2>1, <3>2 DEF LocksOK
      <4>2. TargetOf(proc[q]) # t
        BY <1>2, <4>1, FilesAssumption
      <4> QED BY <1>0, <1>2, <1>5, <3>2, <4>1, <4>2 DEF Typed
    <3> QED BY <3>1, <3>2
  <2>2. ASSUME NEW g \in Places, lock'[g] # None
        PROVE  \/ proc'[lock'[g]].at = "dead"
               \/ Held(proc'[lock'[g]]) /\ TargetOf(proc'[lock'[g]]) = g
    <3>1. CASE g = t
      BY <1>0, <1>1, <1>2, <1>4, <1>5, <1>6, <3>1 DEF Typed, Held
    <3>2. CASE g # t
      <4>1. lock'[g] = lock[g] /\ lock[g] \in Proc
        BY <1>0, <1>2, <2>2, <3>2 DEF Typed
      <4>2. lock[g] # p
        BY <1>0, <4>1, FilesAssumption DEF LocksOK, Held
      <4> QED BY <1>0, <1>5, <4>1, <4>2, FilesAssumption DEF LocksOK
    <3> QED BY <3>1, <3>2
  <2> QED BY <2>1, <2>2 DEF LocksOK, Held, TargetOf
<1>8. Control(p, new) /\ Truthful(p, new) /\ GlobalOK(new) /\ ContextOK(new)
  <2>1. Control(p, new)
    BY <1>0, <1>4 DEF Control, Same, Writing
  <2>2. Truthful(p, new)
    BY <1>0, <1>4 DEF Truthful, Same, Before
  <2>3. GlobalOK(new)
    BY <1>0, <1>4 DEF GlobalOK, Same, Writing
  <2>4. ContextOK(new)
    BY <1>0, <1>4 DEF ContextOK, Same
  <2> QED BY <2>1, <2>2, <2>3, <2>4
<1>9. \A q \in Proc : ProcOK(q, proc[q])'
  BY <1>2, <1>4, <1>8, ProcsSame DEF ProcOK
<1>10. Typed' /\ FilesOK'
  BY <1>0, <1>1, <1>2, <1>5 DEF Typed, FilesOK
<1> QED BY <1>7, <1>9, <1>10 DEF Inv

LEMMA ReleaseStep ==
  ASSUME Inv, NEW p \in Proc, release(p)
  PROVE  Inv'
<1> DEFINE r == proc[p]
           t == TargetOf(r)
           todo == IF r.todo = <<>> THEN <<>> ELSE Tail(r.todo)
           cont == [r EXCEPT !.at = AfterRelease(p), !.apis = Empty, !.todo = todo]
<1>0. /\ r \in ProcRec /\ Control(p, r) /\ Truthful(p, r) /\ GlobalOK(r)
      /\ FilesOK /\ LocksOK /\ Typed /\ r.at = "release" /\ r.op \in Commands \cup {""}
      /\ r.result \in Results
  BY Acting DEF release, ProcRec
<1>1. t \in Places /\ Target(p) = t
  BY <1>0, TargetPlace DEF Target, TargetOf, Writing
<1>2. /\ lock' = [lock EXCEPT ![t] = None]
      /\ UNCHANGED <<file, config, crashes, installed, arrived>>
      /\ \/ AfterRelease(p) = "done" /\ Return(p, r.result)
         \/ /\ AfterRelease(p) # "done"
            /\ proc' = [proc EXCEPT ![p].at = AfterRelease(p), ![p].apis = Empty,
                         ![p].todo = IF @ = <<>> THEN <<>> ELSE Tail(@)]
  BY <1>1 DEF release, FilesOnly
<1> HIDE DEF t
<1>3. PICK new \in ProcRec : /\ proc' = [proc EXCEPT ![p] = new] /\ ProcOK(p, new)
                             /\ new.at \in {"done", "remove", "stat"}
  <2>1. CASE AfterRelease(p) = "done" /\ Return(p, r.result)
    <3> DEFINE new == Final(r.op, r.result)
    <3>1. /\ new \in ProcRec /\ new.at = "done" /\ new.op = r.op /\ new.result = r.result
      <4>1. r.op \in Commands \cup {""} /\ r.result \in Results
        BY <1>0
      <4> HIDE DEF r
      <4> QED BY <4>1, FinalRec
    <3>2. proc' = [proc EXCEPT ![p] = new]
      BY <2>1 DEF Return, Final
    <3>3. r.op = "migrate-registry" => r.result # "ok"
      BY <2>1 DEF AfterRelease
    <3> HIDE DEF new
    <3>4. r.op = "migrate-registry" => r.result # "not_removed"
      BY <1>0 DEF Control
    <3>5. Control(p, new)
      BY <1>0, <3>1 DEF Control, Writing
    <3>6. Truthful(p, new)
      BY <1>0, <3>1, <3>3, <3>4 DEF Truthful, Before, Control, Writing, Entries
    <3>7. GlobalOK(new) /\ ContextOK(new)
      BY <3>1, <3>3 DEF GlobalOK, ContextOK, Writing
    <3> QED BY <3>1, <3>2, <3>5, <3>6, <3>7 DEF ProcOK
  <2>2. CASE /\ AfterRelease(p) # "done"
             /\ proc' = [proc EXCEPT ![p].at = AfterRelease(p), ![p].apis = Empty,
                          ![p].todo = IF @ = <<>> THEN <<>> ELSE Tail(@)]
    <3>1. \/ AfterRelease(p) = "remove" /\ r.op = "migrate-registry" /\ r.result = "ok"
          \/ AfterRelease(p) = "stat" /\ r.op = "scrub-credentials" /\ Len(r.todo) > 1
      BY <2>2 DEF AfterRelease
    <3> DEFINE at == AfterRelease(p)
    <3> HIDE DEF at
    <3>2. at \in Steps
      BY <3>1 DEF Steps, at
    <3>3. todo \in Todo
      BY <1>0, TodoFacts DEF Todo, ProcRec
    <3>4. r.op = "scrub-credentials" => todo # <<>>
      <4>1. SUFFICES ASSUME r.op = "scrub-credentials" PROVE todo # <<>>
        OBVIOUS
      <4>2. r.todo # <<>> /\ r.todo \in Todo /\ Len(r.todo) > 1
        BY <1>0, <3>1, <4>1 DEF Control, Writing, ProcRec
      <4> QED BY <4>2, TodoFacts
    <3>5. proc' = [proc EXCEPT ![p].at = at, ![p].apis = Empty, ![p].todo = todo]
      BY <2>2 DEF at
    <3> DEFINE new == [r EXCEPT !.at = at, !.apis = Empty, !.todo = todo]
    <3> HIDE DEF todo
    <3>6. proc' = [proc EXCEPT ![p] = new]
      BY <1>0, <3>5 DEF Typed, ProcRec
    <3>7. /\ new \in ProcRec /\ new.at = at /\ new.op = r.op /\ new.todo = todo
          /\ new.name = r.name /\ new.result = r.result
      BY <1>0, <3>2, <3>3, EmptyRegistry DEF ProcRec
    <3> HIDE DEF new
    <3>8. Control(p, new)
      BY <1>0, <3>1, <3>4, <3>7 DEF Control, Writing, at
    <3>9. Truthful(p, new)
      BY <1>0, <3>1, <3>7 DEF Truthful, Before, at
    <3>10. GlobalOK(new)
      BY <1>0, <3>1, <3>7 DEF GlobalOK, Writing, at, Entries
    <3>11. ContextOK(new)
      BY <3>1, <3>7 DEF ContextOK, at
    <3>12. new.at \in {"remove", "stat"}
      BY <3>1, <3>7 DEF at
    <3> QED BY <3>6, <3>7, <3>8, <3>9, <3>10, <3>11, <3>12 DEF ProcOK
  <2> QED BY <1>2, <2>1, <2>2
<1>4. /\ proc' \in [Proc -> ProcRec] /\ proc'[p] = new
      /\ \A q \in Proc \ {p} : proc'[q] = proc[q]
  BY <1>0, <1>3, Moved
<1>5. LocksOK'
  <2>0. lock[t] = p
    BY <1>0 DEF LocksOK, Held, t
  <2>1. ASSUME NEW q \in Proc, Held(proc'[q])
        PROVE  lock'[TargetOf(proc'[q])] = q
    <3>1. q # p
      BY <1>3, <1>4, <2>1 DEF Held
    <3>2. Held(proc[q]) /\ lock[TargetOf(proc[q])] = q /\ proc'[q] = proc[q]
      BY <1>0, <1>4, <2>1, <3>1 DEF LocksOK
    <3>3. TargetOf(proc[q]) # t
      BY <2>0, <3>1, <3>2
    <3>4. TargetOf(proc[q]) \in Places
      <4>1. proc[q] \in ProcRec /\ Control(q, proc[q]) /\ proc[q].at \in Writing
        BY <3>2, Acting DEF Held, Writing
      <4> QED BY <4>1, TargetPlace
    <3> QED BY <1>0, <1>2, <3>2, <3>3, <3>4 DEF Typed
  <2>2. ASSUME NEW g \in Places, lock'[g] # None
        PROVE  \/ proc'[lock'[g]].at = "dead"
               \/ Held(proc'[lock'[g]]) /\ TargetOf(proc'[lock'[g]]) = g
    <3>1. g # t /\ lock'[g] = lock[g] /\ lock[g] \in Proc
      BY <1>0, <1>2, <2>2 DEF Typed
    <3>2. lock[g] # p
      BY <1>0, <3>1, FilesAssumption DEF LocksOK, t
    <3>3. proc'[lock[g]] = proc[lock[g]] /\ lock[g] # None
      BY <1>4, <3>1, <3>2, FilesAssumption
    <3>4. \/ proc[lock[g]].at = "dead"
          \/ Held(proc[lock[g]]) /\ TargetOf(proc[lock[g]]) = g
      BY <1>0, <3>3 DEF LocksOK
    <3> QED BY <3>1, <3>3, <3>4
  <2> QED BY <2>1, <2>2 DEF LocksOK, Held, TargetOf
<1>6. \A q \in Proc : ProcOK(q, proc[q])'
  BY <1>2, <1>3, ProcsSame
<1>7. Typed' /\ FilesOK'
  BY <1>0, <1>1, <1>2, <1>4 DEF Typed, FilesOK
<1> QED BY <1>5, <1>6, <1>7 DEF Inv

LEMMA CrashStep ==
  ASSUME Inv, NEW p \in Proc, Crash(p)
  PROVE  Inv'
<1> DEFINE r == proc[p]
           new == [Idle EXCEPT !.at = "dead"]
<1>0. Typed /\ LocksOK /\ FilesOK /\ r.at # "dead"
  BY Acting DEF Crash
<1>1. /\ proc' = [proc EXCEPT ![p] = new] /\ crashes' \in 0..MaxCrashes
      /\ UNCHANGED <<file, lock, config, installed, arrived>>
  BY <1>0, FilesAssumption DEF Crash, Typed
<1>2. new \in ProcRec /\ new.at = "dead" /\ new.op = ""
  <2>1. "dead" \in Steps
    BY DEF Steps
  <2> QED BY <2>1, IdleRec DEF ProcRec
<1> HIDE DEF new
<1>3. ProcOK(p, new)
  BY <1>2 DEF ProcOK, Control, Truthful, GlobalOK, ContextOK, Before, Writing, Entries
<1>4. /\ proc' \in [Proc -> ProcRec] /\ proc'[p] = new
      /\ \A q \in Proc \ {p} : proc'[q] = proc[q]
  BY <1>0, <1>1, <1>2, Moved
<1>5. LocksOK'
  <2>1. ASSUME NEW q \in Proc, Held(proc'[q])
        PROVE  lock'[TargetOf(proc'[q])] = q
    BY <1>0, <1>1, <1>2, <1>4, <2>1 DEF LocksOK, Held
  <2>2. ASSUME NEW g \in Places, lock'[g] # None
        PROVE  \/ proc'[lock'[g]].at = "dead"
               \/ Held(proc'[lock'[g]]) /\ TargetOf(proc'[lock'[g]]) = g
    <3>1. lock'[g] = lock[g] /\ lock[g] \in Proc
      BY <1>0, <1>1, <2>2 DEF Typed
    <3>2. CASE lock[g] = p
      BY <1>2, <1>4, <3>1, <3>2
    <3>3. CASE lock[g] # p
      <4>1. proc'[lock[g]] = proc[lock[g]] /\ lock[g] # None
        BY <1>4, <3>1, <3>3, FilesAssumption
      <4>2. \/ proc[lock[g]].at = "dead"
            \/ Held(proc[lock[g]]) /\ TargetOf(proc[lock[g]]) = g
        BY <1>0, <4>1 DEF LocksOK
      <4> QED BY <3>1, <4>1, <4>2
    <3> QED BY <3>2, <3>3
  <2> QED BY <2>1, <2>2 DEF LocksOK, Held, TargetOf
<1>6. \A q \in Proc : ProcOK(q, proc[q])'
  BY <1>1, <1>2, <1>3, ProcsSame
<1>7. Typed' /\ FilesOK'
  BY <1>0, <1>1, <1>4 DEF Typed, FilesOK
<1> QED BY <1>5, <1>6, <1>7 DEF Inv

-----------------------------------------------------------------------------
(* The files *)

LEMMA SaveFails ==
  ASSUME Inv, NEW p \in Proc, proc[p].at = "save", Reads,
         proc' = [proc EXCEPT ![p].at = "release", ![p].result = "io"]
  PROVE  Inv'
<1> DEFINE r == proc[p]
           new == [r EXCEPT !.at = "release", !.result = "io"]
<1>0. /\ r \in ProcRec /\ Control(p, r) /\ Truthful(p, r) /\ GlobalOK(r) /\ Typed
  BY Acting
<1>1. proc' = [proc EXCEPT ![p] = new]
  BY <1>0 DEF Typed, ProcRec
<1>2. "release" \in Steps /\ "io" \in Results
  BY DEF Steps, Results
<1>3. new \in ProcRec /\ Same(r, new) /\ new.at = "release" /\ new.result = "io"
  BY <1>0, <1>2 DEF ProcRec, Same
<1> HIDE DEF new
<1>4. Control(p, new)
  BY <1>0, <1>3 DEF Control, Same, Writing
<1>5. Truthful(p, new)
  BY <1>0, <1>3 DEF Truthful, Same, Before
<1>6. GlobalOK(new)
  BY <1>0, <1>3 DEF GlobalOK, Same, Writing
<1>7. ContextOK(new)
  BY <1>3 DEF ContextOK
<1>8. SameLocks(r, new)
  BY <1>3 DEF SameLocks, Held, TargetOf, Same
<1> QED BY <1>1, <1>3, <1>4, <1>5, <1>6, <1>7, <1>8, ReadStep DEF ProcOK

\* What a save that succeeds leaves.
Saved(p, t) ==
  /\ file' = [file EXCEPT ![t] = Stored(proc[p].apis, FALSE)]
  /\ proc' = [proc EXCEPT ![p].at = "release", ![p].result = "ok"]
  /\ IF t = "context"
       THEN /\ installed' = installed \cup {p}
            /\ arrived' = arrived \cup {n \in Names : proc[p].apis[n] # Missing}
       ELSE UNCHANGED <<installed, arrived>>
  /\ UNCHANGED <<lock, config, crashes>>

LEMMA Excluded ==
  ASSUME Inv, NEW p \in Proc, NEW q \in Proc, p # q, Held(proc[p]), Held(proc[q])
  PROVE  TargetOf(proc[p]) # TargetOf(proc[q])
BY DEF Inv, LocksOK

LEMMA SaveSucceeds ==
  ASSUME Inv, NEW p \in Proc, proc[p].at = "save", Saved(p, TargetOf(proc[p]))
  PROVE  Inv'
<1> DEFINE r == proc[p]
           t == TargetOf(r)
           new == [r EXCEPT !.at = "release", !.result = "ok"]
<1>0. /\ r \in ProcRec /\ Control(p, r) /\ Truthful(p, r) /\ GlobalOK(r) /\ ContextOK(r)
      /\ Typed /\ LocksOK /\ FilesOK /\ r.apis \in Registry
  BY Acting DEF ProcRec
<1>1. t \in Places /\ (t # "context" => t = "global" /\ r.op = "scrub-credentials")
  BY <1>0, TargetPlace DEF TargetOf, Writing, Places
<1>2. proc' = [proc EXCEPT ![p] = new]
  BY <1>0 DEF Saved, Typed, ProcRec
<1>3. "release" \in Steps /\ "ok" \in Results
  BY DEF Steps, Results
<1>4. new \in ProcRec /\ Same(r, new) /\ new.at = "release" /\ new.result = "ok"
  BY <1>0, <1>3 DEF ProcRec, Same
<1> HIDE DEF new
<1>5. /\ proc' \in [Proc -> ProcRec] /\ proc'[p] = new
      /\ \A q \in Proc \ {p} : proc'[q] = proc[q]
  BY <1>0, <1>2, <1>4, Moved
<1>6. TargetOf(new) = t
  BY <1>4 DEF TargetOf, Same
<1>7. LocksOK'
  <2>1. SameLocks(r, new)
    BY <1>4, <1>6 DEF SameLocks, Held
  <2> QED BY <1>0, <1>2, <1>4, <2>1, LocksSame DEF Saved
<1>8. /\ file' \in [Places -> FileRec]
      /\ file'[t].present /\ file'[t].apis = r.apis /\ ~file'[t].legacy
      /\ \A f \in Places \ {t} : file'[f] = file[f]
  <2>1. /\ Stored(r.apis, FALSE) \in FileRec /\ Stored(r.apis, FALSE).present
        /\ Stored(r.apis, FALSE).apis = r.apis /\ ~Stored(r.apis, FALSE).legacy
    BY <1>0 DEF Stored, FileRec
  <2> QED BY <1>0, <1>1, <2>1 DEF Saved, Typed
<1>9. /\ arrived \subseteq arrived' /\ arrived' \subseteq Names
      /\ installed' \subseteq Proc /\ \A q \in Proc \ {p} : q \in installed' <=> q \in installed
      /\ t = "context" => p \in installed' /\ {n \in Names : r.apis[n] # Missing} \subseteq arrived'
      /\ t # "context" => arrived' = arrived
  BY <1>0 DEF Saved, Typed
<1>10. t = "global" => file["global"].legacy /\ file["global"].present
  BY <1>0, <1>1 DEF GlobalOK, FilesOK
<1>11. Typed'
  BY <1>0, <1>5, <1>8, <1>9 DEF Typed, Saved
<1>12. \A n \in GlobalNames : n \in Names
  BY FilesAssumption
<1> HIDE DEF t
<1>13. "context" \in Places /\ "global" \in Places
  BY DEF Places
<1>14. FilesOK'
  <2>1. ~file'["context"].present => file'["context"].apis = Empty
    BY <1>0, <1>8, <1>13 DEF FilesOK
  <2>2. ASSUME file'["global"].present, NEW n \in GlobalNames
        PROVE  file'["global"].apis[n] # Missing
    <3>1. CASE t = "global"
      <4>1. r.op = "scrub-credentials"
        BY <1>1, <3>1
      <4>2. NamedOf(r) = {}
        BY <4>1 DEF NamedOf
      <4>3. r.apis[n] = file["global"].apis[n]
        BY <1>0, <1>12, <3>1, <4>2 DEF ContextOK, t
      <4> QED BY <1>0, <1>8, <1>10, <3>1, <4>3 DEF FilesOK
    <3>2. CASE t # "global"
      BY <1>0, <1>8, <1>13, <2>2, <3>2 DEF FilesOK
    <3> QED BY <3>1, <3>2
  <2>3. ~file'["global"].present => ~file'["global"].legacy /\ GlobalNames \subseteq arrived'
    BY <1>0, <1>8, <1>9, <1>13 DEF FilesOK
  <2> QED BY <2>1, <2>2, <2>3 DEF FilesOK
<1>15. /\ file'["global"].present = file["global"].present
       /\ file'["global"].legacy => file["global"].legacy
       /\ t # "global" => file'["global"] = file["global"]
  BY <1>0, <1>8, <1>10, <1>13 DEF Typed, FileRec
<1>16. ASSUME NEW q \in Proc, q # p
       PROVE  ProcOK(q, proc[q])'
  <2> DEFINE s == proc[q]
  <2>1. Control(q, s) /\ Truthful(q, s) /\ GlobalOK(s) /\ ContextOK(s) /\ proc'[q] = s
    BY <1>5, <1>16, Acting
  <2>2. Control(q, proc[q])'
    BY <2>1 DEF Control
  <2>3. Truthful(q, proc[q])'
    BY <1>9, <1>16, <2>1 DEF Truthful
  <2>4. s.at = "save" => TargetOf(s) # t
    BY <1>16, Excluded DEF Held, t
  <2>5. GlobalOK(proc[q])'
    <3>1. /\ s.op = "scrub-credentials" /\ s.at = "save" /\ TargetOf(s) = "global" =>
               file'["global"].legacy
      BY <1>15, <2>1, <2>4 DEF GlobalOK
    <3>2. /\ s.op = "migrate-registry" /\ s.at \in {"target", "remove"} \cup Writing =>
               ~file'["global"].legacy
          /\ s.op = "migrate-registry" /\ s.at \in {"target", "lock", "reload", "save"} =>
               GlobalNames \subseteq s.source \/ GlobalNames \subseteq arrived'
          /\ s.op = "migrate-registry"
               /\ (s.at = "remove" \/ (s.at = "release" /\ s.result = "ok")) =>
               GlobalNames \subseteq arrived'
          /\ s.op = "migrate-registry" /\ s.at = "done" /\ s.result = "ok" =>
               ~file'["global"].present
          /\ s.op \in Entries /\ s.at \in {"load"} \cup Writing => ~file'["global"].present
      BY <1>9, <1>15, <2>1 DEF GlobalOK
    <3> QED BY <2>1, <3>1, <3>2 DEF GlobalOK, TargetOf
  <2>6. ContextOK(proc[q])'
    <3>1. s.at \in {"lock", "reload"} /\ s.op # "scrub-credentials"
            /\ ~file'["context"].present => s.apis = Empty
      BY <1>8, <1>13, <2>1 DEF ContextOK
    <3>2. s.at = "save" => file'[TargetOf(s)] = file[TargetOf(s)]
      <4>1. s.at = "save" => TargetOf(s) \in Places
        BY <2>1, Acting, TargetPlace DEF Writing
      <4> QED BY <1>8, <2>4, <4>1
    <3>3. s.at = "save" /\ s.op = "register" => TargetOf(s) = "context"
      BY DEF TargetOf
    <3>4. /\ s.at = "save" => \A n \in Names \ NamedOf(s) : s.apis[n] = file'[TargetOf(s)].apis[n]
          /\ s.at = "save" /\ s.op = "migrate-registry" => \A n \in s.source : s.apis[n] # Missing
          /\ s.at = "save" /\ s.op = "register" /\ ~s.force =>
               file'["context"].apis[s.name] = Missing
      BY <2>1, <3>2, <3>3 DEF ContextOK
    <3> QED BY <2>1, <3>1, <3>4 DEF ContextOK, TargetOf, NamedOf
  <2> QED BY <2>2, <2>3, <2>5, <2>6 DEF ProcOK
<1>17. ProcOK(p, proc[p])'
  <2>1. Control(p, proc[p])'
    <3>1. Control(p, new)
      BY <1>0, <1>4 DEF Control, Same, Writing
    <3> QED BY <1>5, <3>1 DEF Control
  <2>2. r.op # "scrub-credentials" => t = "context"
    BY DEF TargetOf, t
  <2>3. Truthful(p, proc[p])'
    BY <1>4, <1>5, <1>9, <2>2 DEF Truthful, Same, Before
  <2>4. r.op = "migrate-registry" => GlobalNames \subseteq arrived'
    BY <1>0, <1>9, <1>12, <2>2 DEF GlobalOK, ContextOK
  <2>5. GlobalOK(proc[p])'
    BY <1>0, <1>4, <1>5, <1>15, <2>4 DEF GlobalOK, Same, Writing
  <2>6. ContextOK(proc[p])'
    BY <1>4, <1>5 DEF ContextOK
  <2> QED BY <2>1, <2>3, <2>5, <2>6 DEF ProcOK
<1> QED BY <1>7, <1>11, <1>14, <1>16, <1>17 DEF Inv

LEMMA SaveStep ==
  ASSUME Inv, NEW p \in Proc, saveLocked(p)
  PROVE  Inv'
<1>1. Target(p) = TargetOf(proc[p]) /\ proc[p].at = "save"
  BY DEF Target, TargetOf, saveLocked
<1>2. \/ Saved(p, TargetOf(proc[p]))
      \/ Reads /\ proc' = [proc EXCEPT ![p].at = "release", ![p].result = "io"]
  BY <1>1 DEF saveLocked, Saved, Reads, FilesOnly
<1> QED BY <1>1, <1>2, SaveSucceeds, SaveFails

LEMMA AbsentRec == /\ Absent \in FileRec /\ ~Absent.present /\ ~Absent.legacy
                   /\ Absent.apis = Empty
BY EmptyRegistry DEF Absent, FileRec

LEMMA RemoveStep ==
  ASSUME Inv, NEW p \in Proc, MigrateRemove(p)
  PROVE  Inv'
<1> DEFINE r == proc[p]
<1>0. /\ r \in ProcRec /\ Control(p, r) /\ Truthful(p, r) /\ GlobalOK(r)
      /\ Typed /\ LocksOK /\ FilesOK /\ r.at = "remove" /\ r.op = "migrate-registry"
      /\ r.op \in Commands \cup {""}
  BY Acting DEF MigrateRemove, Control, ProcRec
<1>1. PICK result \in {"ok", "not_removed"} :
        /\ Return(p, result)
        /\ \/ result = "ok" /\ file' = [file EXCEPT !["global"] = Absent]
           \/ result = "not_removed" /\ file' = file
  BY DEF MigrateRemove
<1>2. UNCHANGED <<lock, config, crashes, installed, arrived>>
  BY DEF MigrateRemove, FilesOnly
<1> DEFINE new == Final(r.op, result)
<1>3. result \in Results
  BY DEF Results
<1>4. new \in ProcRec /\ new.at = "done" /\ new.op = "migrate-registry" /\ new.result = result
  BY <1>0, <1>3, FinalRec
<1>5. proc' = [proc EXCEPT ![p] = new]
  BY <1>1 DEF Return, Final
<1> HIDE DEF new
<1>6. /\ proc' \in [Proc -> ProcRec] /\ proc'[p] = new
      /\ \A q \in Proc \ {p} : proc'[q] = proc[q]
  BY <1>0, <1>4, <1>5, Moved
<1>7. LocksOK'
  <2>1. SameLocks(r, new)
    BY <1>0, <1>4 DEF SameLocks, Held
  <2> QED BY <1>0, <1>2, <1>4, <1>5, <2>1, LocksSame
<1>8. "context" \in Places /\ "global" \in Places /\ \A f \in Places : f = "context" \/ f = "global"
  BY DEF Places
<1>9. p \in installed /\ GlobalNames \subseteq arrived /\ ~file["global"].legacy
  BY <1>0 DEF Truthful, GlobalOK
<1>10. /\ file' \in [Places -> FileRec] /\ file'["context"] = file["context"]
       /\ ~file'["global"].legacy
       /\ file'["global"].present => file["global"].present /\ file'["global"] = file["global"]
       /\ result = "ok" => ~file'["global"].present
  BY <1>0, <1>1, <1>8, <1>9, AbsentRec DEF Typed
<1>11. Typed' /\ FilesOK'
  BY <1>0, <1>2, <1>6, <1>9, <1>10 DEF Typed, FilesOK
<1>12. ASSUME NEW q \in Proc, q # p
       PROVE  ProcOK(q, proc[q])'
  <2> DEFINE s == proc[q]
  <2>1. Control(q, s) /\ Truthful(q, s) /\ GlobalOK(s) /\ ContextOK(s) /\ proc'[q] = s
    BY <1>6, <1>12, Acting
  <2>2. Control(q, proc[q])' /\ Truthful(q, proc[q])'
    BY <1>2, <2>1 DEF Control, Truthful
  <2>3. ~(s.op = "scrub-credentials" /\ s.at = "save" /\ TargetOf(s) = "global")
    BY <1>9, <2>1 DEF GlobalOK
  <2>4. GlobalOK(proc[q])'
    BY <1>2, <1>10, <2>1, <2>3 DEF GlobalOK, TargetOf
  <2>5. s.at = "save" => TargetOf(s) = "context"
    <3>1. s.at = "save" => TargetOf(s) \in Places
      BY <2>1, Acting, TargetPlace DEF Writing
    <3>2. s.op # "scrub-credentials" => TargetOf(s) = "context"
      BY DEF TargetOf
    <3> QED BY <1>8, <2>3, <3>1, <3>2
  <2>6. ContextOK(proc[q])'
    <3>1. /\ s.at \in {"lock", "reload"} /\ s.op # "scrub-credentials"
               /\ ~file'["context"].present => s.apis = Empty
          /\ s.at = "save" => \A n \in Names \ NamedOf(s) : s.apis[n] = file'[TargetOf(s)].apis[n]
          /\ s.at = "save" /\ s.op = "migrate-registry" => \A n \in s.source : s.apis[n] # Missing
          /\ s.at = "save" /\ s.op = "register" /\ ~s.force =>
               file'["context"].apis[s.name] = Missing
      BY <1>10, <2>1, <2>5 DEF ContextOK
    <3> QED BY <2>1, <3>1 DEF ContextOK, TargetOf, NamedOf
  <2> QED BY <2>2, <2>4, <2>6 DEF ProcOK
<1>13. ProcOK(p, proc[p])'
  <2>1. Control(p, proc[p])'
    BY <1>0, <1>4, <1>6 DEF Control, Writing
  <2>2. Truthful(p, proc[p])'
    BY <1>2, <1>4, <1>6, <1>9 DEF Truthful, Before, Entries
  <2>3. GlobalOK(proc[p])'
    BY <1>4, <1>6, <1>10 DEF GlobalOK, Writing
  <2>4. ContextOK(proc[p])'
    BY <1>4, <1>6 DEF ContextOK
  <2> QED BY <2>1, <2>2, <2>3, <2>4 DEF ProcOK
<1> QED BY <1>7, <1>11, <1>12, <1>13 DEF Inv

-----------------------------------------------------------------------------
(* The configuration *)

LEMMA DefaultRec ==
  defaultConfig \in ConfigRec /\ [defaultConfig EXCEPT !.contexts = Contexts] \in ConfigRec
<1>1. 0 \in 0..MaxEdits /\ {"default"} \subseteq Contexts /\ "default" \in Contexts
  BY FilesAssumption DEF Contexts
<1> QED BY <1>1 DEF defaultConfig, ConfigRec

LEMMA ReplacementRec ==
  ASSUME NEW p \in Proc, proc[p] \in ProcRec, proc[p].name \in Contexts
  PROVE  Replacement(p) \in ConfigRec
<1>1. proc[p].base \in ConfigRec
  BY DEF ProcRec
<1> QED BY <1>1, DefaultRec DEF Replacement, ConfigRec

LEMMA RenameStep ==
  ASSUME Inv, NEW p \in Proc, replaceRename(p)
  PROVE  Inv'
<1> DEFINE r == proc[p]
<1>0. /\ r \in ProcRec /\ Control(p, r) /\ Truthful(p, r)
      /\ Typed /\ LocksOK /\ FilesOK /\ r.at = "rename" /\ r.op = "context-set"
      /\ r.op \in Commands \cup {""} /\ r.name \in Contexts
  BY Acting DEF replaceRename, Control, ProcRec
<1>1. PICK result \in {"ok", "io"} :
        /\ Return(p, result)
        /\ \/ result = "ok" /\ config' = Replacement(p) /\ installed' = installed \cup {p}
           \/ result = "io" /\ config' = config /\ installed' = installed
  BY DEF replaceRename
<1>2. UNCHANGED <<file, lock, crashes, arrived>>
  BY DEF replaceRename
<1> DEFINE new == Final(r.op, result)
<1>3. result \in Results
  BY DEF Results
<1>4. new \in ProcRec /\ new.at = "done" /\ new.op = "context-set" /\ new.result = result
  BY <1>0, <1>3, FinalRec
<1>5. proc' = [proc EXCEPT ![p] = new]
  BY <1>1 DEF Return, Final
<1> HIDE DEF new
<1>6. /\ proc' \in [Proc -> ProcRec] /\ proc'[p] = new
      /\ \A q \in Proc \ {p} : proc'[q] = proc[q]
  BY <1>0, <1>4, <1>5, Moved
<1>7. LocksOK'
  <2>1. SameLocks(r, new)
    BY <1>0, <1>4 DEF SameLocks, Held
  <2> QED BY <1>0, <1>2, <1>4, <1>5, <2>1, LocksSame
<1>8. config' \in ConfigRec
  BY <1>0, <1>1, ReplacementRec DEF Typed
<1>9. /\ installed' \subseteq Proc /\ \A q \in Proc \ {p} : q \in installed' <=> q \in installed
      /\ result = "ok" <=> p \in installed'
  BY <1>0, <1>1 DEF Typed, Truthful, Before
<1>10. Typed' /\ FilesOK'
  BY <1>0, <1>2, <1>6, <1>8, <1>9 DEF Typed, FilesOK
<1>11. ASSUME NEW q \in Proc, q # p
       PROVE  ProcOK(q, proc[q])'
  <2>1. /\ Control(q, proc[q]) /\ Truthful(q, proc[q]) /\ GlobalOK(proc[q]) /\ ContextOK(proc[q])
        /\ proc'[q] = proc[q]
    BY <1>6, <1>11, Acting
  <2>2. Control(q, proc[q])'
    BY <2>1 DEF Control
  <2>3. Truthful(q, proc[q])'
    BY <1>9, <1>11, <2>1 DEF Truthful
  <2>4. GlobalOK(proc[q])'
    BY <1>2, <2>1 DEF GlobalOK, TargetOf
  <2>5. ContextOK(proc[q])'
    BY <1>2, <2>1 DEF ContextOK, TargetOf, NamedOf
  <2> QED BY <2>2, <2>3, <2>4, <2>5 DEF ProcOK
<1>12. ProcOK(p, proc[p])'
  <2>1. Control(p, proc[p])'
    BY <1>0, <1>4, <1>6 DEF Control, Writing
  <2>2. Truthful(p, proc[p])'
    BY <1>4, <1>6, <1>9 DEF Truthful, Before, Entries
  <2>3. GlobalOK(proc[p])' /\ ContextOK(proc[p])'
    BY <1>4, <1>6 DEF GlobalOK, ContextOK, Writing, Entries
  <2> QED BY <2>1, <2>2, <2>3 DEF ProcOK
<1> QED BY <1>7, <1>10, <1>11, <1>12 DEF Inv

\* Steps of nobody: the user's edit, and stuttering.
LEMMA NobodyStep ==
  ASSUME Inv, config' \in ConfigRec,
         UNCHANGED <<file, lock, proc, crashes, installed, arrived>>
  PROVE  Inv'
<1>1. Typed /\ LocksOK /\ FilesOK
  BY DEF Inv
<1>2. Typed'
  BY <1>1 DEF Typed
<1>3. LocksOK' /\ FilesOK'
  BY <1>1 DEF LocksOK, FilesOK, Held, TargetOf
<1>4. ASSUME NEW q \in Proc PROVE ProcOK(q, proc[q])'
  <2>1. ProcOK(q, proc[q]) /\ proc' = proc
    BY DEF Inv
  <2>2. Control(q, proc[q])' /\ Truthful(q, proc[q])'
    BY <2>1 DEF ProcOK, Control, Truthful
  <2>3. GlobalOK(proc[q])' /\ ContextOK(proc[q])'
    BY <2>1 DEF ProcOK, GlobalOK, ContextOK, TargetOf, NamedOf
  <2> QED BY <2>2, <2>3 DEF ProcOK
<1> QED BY <1>2, <1>3, <1>4 DEF Inv

LEMMA EditStep ==
  ASSUME Inv, Edit
  PROVE  Inv'
<1>1. config.edit \in 0..MaxEdits
  BY DEF Inv, Typed, ConfigRec
<1>2. config.edit + 1 \in 0..MaxEdits
  BY <1>1, FilesAssumption DEF Edit
<1>3. config' \in ConfigRec
  BY <1>2 DEF Edit, ConfigRec
<1> QED BY <1>3, NobodyStep DEF Edit

-----------------------------------------------------------------------------
(* The invariant is inductive *)

LEMMA FileOfRec ==
  ASSUME NEW names \in SUBSET Names, NEW owner \in {"earlier", "global"}, NEW legacy \in BOOLEAN
  PROVE  /\ FileOf(names, owner, legacy) \in FileRec
         /\ ~FileOf(names, owner, legacy).present =>
              /\ names = {} /\ ~FileOf(names, owner, legacy).legacy
              /\ FileOf(names, owner, legacy).apis = Empty
         /\ FileOf(names, owner, legacy).present =>
              \A n \in names : FileOf(names, owner, legacy).apis[n] # Missing
<1>1. CASE names = {}
  BY <1>1, AbsentRec DEF FileOf
<1>2. CASE names # {}
  <2> DEFINE apis == Holding(names, owner)
             f == Stored(apis, legacy)
  <2>1. [owner |-> owner, ref |-> None] \in API /\ [owner |-> owner, ref |-> None] # Missing
    BY DEF API, Missing
  <2>2. apis \in Registry /\ \A n \in names : apis[n] # Missing
    BY <2>1 DEF Holding, Registry
  <2> HIDE DEF apis
  <2>3. f \in FileRec /\ f.present /\ f.apis = apis
    BY <2>2 DEF Stored, FileRec
  <2>4. FileOf(names, owner, legacy) = f
    BY <1>2 DEF FileOf, apis
  <2> HIDE DEF f
  <2> QED BY <2>2, <2>3, <2>4
<1> QED BY <1>1, <1>2

LEMMA InitInv == Init => Inv
<1> SUFFICES ASSUME Init PROVE Inv
  OBVIOUS
<1>1. PICK held \in SUBSET Names, raw \in SUBSET Places :
        /\ file = [context |-> FileOf(held, "earlier", "context" \in raw),
                   global  |-> FileOf(GlobalNames, "global", "global" \in raw)]
        /\ arrived = held
  BY DEF Init
<1>0. ("context" \in raw) \in BOOLEAN /\ ("global" \in raw) \in BOOLEAN
  OBVIOUS
<1>2. PICK l, m \in BOOLEAN :
        /\ file["context"] = FileOf(held, "earlier", l)
        /\ file["global"] = FileOf(GlobalNames, "global", m)
        /\ file = [f \in Places |-> file[f]]
  BY <1>0, <1>1 DEF Places
<1>3. /\ file["context"] \in FileRec
      /\ ~file["context"].present => file["context"].apis = Empty
  BY <1>2, FileOfRec
<1>4. /\ file["global"] \in FileRec
      /\ file["global"].present => \A n \in GlobalNames : file["global"].apis[n] # Missing
      /\ ~file["global"].present => GlobalNames = {} /\ ~file["global"].legacy
  <2>1. GlobalNames \in SUBSET Names
    BY FilesAssumption
  <2> DEFINE g == FileOf(GlobalNames, "global", m)
  <2>2. g \in FileRec
    BY <2>1, FileOfRec
  <2>3. ~g.present => GlobalNames = {} /\ ~g.legacy
    BY <2>1, FileOfRec
  <2>4. g.present => \A n \in GlobalNames : g.apis[n] # Missing
    BY <2>1, FileOfRec
  <2>5. file["global"] = g
    BY <1>2
  <2> HIDE DEF g
  <2> QED BY <2>2, <2>3, <2>4, <2>5
<1>5. file \in [Places -> FileRec]
  BY <1>2, <1>3, <1>4 DEF Places
<1>6. config \in ConfigRec
  BY NoConfigRec, DefaultRec DEF Init
<1>7. proc = [p \in Proc |-> Idle] /\ installed = {} /\ crashes = 0
      /\ lock = [f \in Places |-> None]
  BY DEF Init
<1>8. Typed
  <2>1. 0 \in 0..MaxCrashes
    BY FilesAssumption
  <2>2. proc \in [Proc -> ProcRec]
    BY <1>7, IdleRec
  <2> QED BY <1>1, <1>5, <1>6, <1>7, <2>1, <2>2 DEF Typed
<1>9. FilesOK
  BY <1>3, <1>4 DEF FilesOK
<1>10. LocksOK
  BY <1>7, IdleRec DEF LocksOK, Held
<1>11. ASSUME NEW p \in Proc PROVE ProcOK(p, proc[p])
  <2>1. proc[p] = Idle
    BY <1>7
  <2>2. Control(p, Idle) /\ Truthful(p, Idle)
    BY <1>7, IdleRec DEF Control, Truthful, Writing
  <2>3. GlobalOK(Idle) /\ ContextOK(Idle)
    BY IdleRec DEF GlobalOK, ContextOK, Entries
  <2> QED BY <2>1, <2>2, <2>3 DEF ProcOK
<1> QED BY <1>8, <1>9, <1>10, <1>11 DEF Inv

LEMMA NextInv == Inv /\ [Next]_vars => Inv'
<1> SUFFICES ASSUME Inv, [Next]_vars PROVE Inv'
  OBVIOUS
<1>1. CASE UNCHANGED vars
  <2>1. config' \in ConfigRec
    BY <1>1 DEF Inv, Typed, vars
  <2> QED BY <1>1, <2>1, NobodyStep DEF vars
<1>2. ASSUME NEW p \in Proc, Step(p) PROVE Inv'
  <2>1. CASE load(p)
    BY <2>1, LoadStep DEF load
  <2> QED
    BY <1>2, <2>1, InspectSteps, AcquireStep, TimeOutStep, WriteStep, SaveStep, ReleaseStep,
       ScrubStatStep, ScrubReadStep, MigrateSteps, RemoveStep, ConfigReadSteps, RenameStep
       DEF Step
<1> QED BY <1>1, <1>2, StartStep, CrashStep, EditStep DEF Next

LEMMA Invariant == Spec => []Inv
BY InitInv, NextInv, PTL DEF Spec

-----------------------------------------------------------------------------
(* What follows from it *)

LEMMA TypesHold == Inv => TypeOK
<1> SUFFICES ASSUME Inv PROVE TypeOK
  OBVIOUS
<1>1. Typed
  BY DEF Inv
<1>2. ASSUME NEW f \in Places
      PROVE  /\ file[f].present \in BOOLEAN /\ file[f].legacy \in BOOLEAN
             /\ file[f].apis \in [Names -> API \cup {Missing}]
  BY <1>1 DEF Typed, FileRec, Registry
<1>3. /\ config.contexts \subseteq Contexts /\ config.current \in Contexts
      /\ config.edit \in 0..MaxEdits
  BY <1>1 DEF Typed, ConfigRec
<1>4. ASSUME NEW p \in Proc
      PROVE  /\ proc[p].at \in Steps /\ proc[p].op \in Commands \cup {""}
             /\ proc[p].name \in Names \cup Contexts /\ proc[p].result \in Results
             /\ proc[p].apis \in [Names -> API \cup {Missing}] /\ proc[p].source \subseteq Names
             /\ proc[p].todo \in {<<>>, <<"context">>, <<"global">>, <<"context", "global">>}
  BY <1>1 DEF Typed, ProcRec, Registry, Todo
<1> QED BY <1>1, <1>2, <1>3, <1>4 DEF TypeOK, Typed

LEMMA LocksFollow == Inv => LocksAreOwned
<1> SUFFICES ASSUME Inv PROVE LocksAreOwned
  OBVIOUS
<1>1. TypeOK /\ LocksOK
  BY TypesHold DEF Inv
<1>2. \A p \in Proc : proc[p].at \in {"reload", "save", "release"} => lock[Target(p)] = p
  BY <1>1 DEF LocksOK, Held, Target, TargetOf
<1>3. \A f \in Places : lock[f] # None => proc[lock[f]].at \in {"reload", "save", "release", "dead"}
  BY <1>1 DEF LocksOK, Held
<1> QED BY <1>1, <1>2, <1>3 DEF LocksAreOwned

LEMMA AnswersFollow == Inv => AnswersAreTrue
<1> SUFFICES ASSUME Inv, NEW p \in Proc, proc[p].at = "done"
             PROVE
      /\ proc[p].op \in {"register", "set-credential-ref", "delete", "context-set"} =>
           (proc[p].result = "ok" <=> p \in installed)
      /\ proc[p].op = "migrate-registry" =>
           /\ proc[p].result \in {"ok", "not_removed"} <=> p \in installed
           /\ proc[p].result = "ok" => ~file["global"].present
  BY DEF AnswersAreTrue
<1>1. Truthful(p, proc[p]) /\ GlobalOK(proc[p])
  BY Acting
<1> QED BY <1>1 DEF Truthful, GlobalOK, Entries

LEMMA MigrationFollows == Inv => MigrationMovesEverything
BY DEF Inv, FilesOK, MigrationMovesEverything

-----------------------------------------------------------------------------
(* Steps *)

LEMMA OnlyActor ==
  ASSUME Typed, NEW p \in Proc, Start(p) \/ Step(p) \/ Crash(p), NEW q \in Proc, q # p
  PROVE  proc'[q] = proc[q]
<1> USE DEF Typed, Goto, Return
<1>1. CASE Start(p)
  BY <1>1 DEF Start
<1>2. CASE NewRegistryForContext(p) \/ load(p) \/ acquireRegistryLock(p) \/ lockTimesOut(p)
  BY <1>2 DEF NewRegistryForContext, load, acquireRegistryLock, lockTimesOut
<1>3. CASE withWrite(p) \/ saveLocked(p) \/ release(p)
  BY <1>3 DEF withWrite, saveLocked, release
<1>4. CASE ScrubStat(p) \/ ScrubCredentials(p)
  BY <1>4 DEF ScrubStat, ScrubCredentials
<1>5. CASE MigrateInspect(p) \/ MigrateSource(p) \/ MigrateTarget(p) \/ MigrateRemove(p)
  BY <1>5 DEF MigrateInspect, MigrateSource, MigrateTarget, MigrateRemove
<1>6. CASE ContextInspect(p) \/ ContextRead(p) \/ replaceRecheck(p) \/ replaceRename(p)
  BY <1>6 DEF ContextInspect, ContextRead, replaceRecheck, replaceRename
<1>7. CASE Crash(p)
  BY <1>7 DEF Crash
<1> QED BY <1>1, <1>2, <1>3, <1>4, <1>5, <1>6, <1>7 DEF Step

\* Files change by a save or by the removal of the global registry.
LEMMA FileChanges ==
  ASSUME Inv, [Next]_vars
  PROVE  \/ file' = file
         \/ \E p \in Proc : proc[p].at = "save" /\ Saved(p, TargetOf(proc[p]))
         \/ \E p \in Proc : MigrateRemove(p) /\ file' = [file EXCEPT !["global"] = Absent]
<1>1. CASE UNCHANGED vars
  BY <1>1 DEF vars
<1>2. CASE Edit
  BY <1>2 DEF Edit
<1>3. ASSUME NEW p \in Proc, Start(p) \/ Crash(p) PROVE file' = file
  BY <1>3 DEF Start, Crash, Reads
<1>4. ASSUME NEW p \in Proc, Step(p), ~saveLocked(p), ~MigrateRemove(p) PROVE file' = file
  BY <1>4 DEF Step, NewRegistryForContext, load, acquireRegistryLock, lockTimesOut, withWrite,
     release, ScrubStat, ScrubCredentials, MigrateInspect, MigrateSource, MigrateTarget,
     ContextInspect, ContextRead, replaceRecheck, replaceRename, Reads
<1>5. ASSUME NEW p \in Proc, saveLocked(p)
      PROVE  file' = file \/ (proc[p].at = "save" /\ Saved(p, TargetOf(proc[p])))
  <2>1. Target(p) = TargetOf(proc[p])
    BY DEF Target, TargetOf
  <2> QED BY <1>5, <2>1 DEF saveLocked, Saved, FilesOnly
<1>6. ASSUME NEW p \in Proc, MigrateRemove(p)
      PROVE  file' = file \/ file' = [file EXCEPT !["global"] = Absent]
  BY <1>6 DEF MigrateRemove
<1> QED BY <1>1, <1>2, <1>3, <1>4, <1>5, <1>6 DEF Next

\* A save of the context registry changes what the command is about.
LEMMA SavedEntries ==
  ASSUME Inv, NEW p \in Proc, proc[p].at = "save", Saved(p, TargetOf(proc[p])),
         NEW n \in Names, Entry(n)' # Entry(n)
  PROVE  TargetOf(proc[p]) = "context" /\ n \in NamedOf(proc[p])
<1> DEFINE t == TargetOf(proc[p])
<1>1. Typed /\ ContextOK(proc[p]) /\ "context" \in Places
  BY Acting DEF Places
<1>2. t = "context" /\ Entry(n)' = proc[p].apis[n]
  <2>1. t # "context" => file'["context"] = file["context"]
    BY <1>1 DEF Saved, Typed
  <2>2. t = "context" => file'["context"].apis = proc[p].apis
    BY <1>1 DEF Saved, Typed, Stored
  <2> QED BY <2>1, <2>2 DEF Entry
<1>3. n \notin NamedOf(proc[p]) => proc[p].apis[n] = Entry(n)
  BY <1>1, <1>2 DEF ContextOK, Entry
<1> QED BY <1>2, <1>3

\* A save leaves a global registry where there was one.
LEMMA SavedGlobal ==
  ASSUME Inv, NEW p \in Proc, Saved(p, TargetOf(proc[p])), file["global"].present
  PROVE  file'["global"].present
<1>1. Typed /\ "global" \in Places
  BY Acting DEF Places
<1>2. CASE TargetOf(proc[p]) = "global"
  BY <1>1, <1>2 DEF Saved, Typed, Stored
<1>3. CASE TargetOf(proc[p]) # "global"
  BY <1>1, <1>3 DEF Saved, Typed
<1> QED BY <1>2, <1>3

LEMMA EntriesStep ==
  ASSUME Inv, [Next]_vars, NEW n \in Names, Entry(n)' # Entry(n)
  PROVE  \E p \in Proc : Saves(p) /\ proc'[p].at = "release" /\ n \in Named(p)
<1>0. Typed
  BY DEF Inv
<1>1. file' # file /\ ~(file' = [file EXCEPT !["global"] = Absent])
  BY <1>0 DEF Entry, Typed, Places
<1>2. PICK p \in Proc : proc[p].at = "save" /\ Saved(p, TargetOf(proc[p]))
  BY <1>1, FileChanges
<1>3. n \in NamedOf(proc[p])
  BY <1>2, SavedEntries
<1>4. proc[p].op # "scrub-credentials" /\ NamedOf(proc[p]) = Named(p)
  BY <1>3 DEF NamedOf, Named
<1>5. proc'[p].at = "release"
  BY <1>0, <1>2 DEF Saved, Typed, ProcRec
<1> QED BY <1>2, <1>3, <1>4, <1>5 DEF Saves

-----------------------------------------------------------------------------
(* One migration *)

Migrating == {"source", "target", "remove"} \cup Writing

LEMMA Returned ==
  ASSUME Typed, NEW p \in Proc, NEW result, Return(p, result)
  PROVE  proc'[p].at = "done"
BY IdleRec DEF Return, Typed, ProcRec

\* How a migration moves on: it finds the global registry, finds its names
\* free, or keeps what it found.
LEMMA MigrationMoves ==
  ASSUME Inv, NEW p \in Proc, Start(p) \/ Step(p) \/ Crash(p), proc'[p] # proc[p],
         proc'[p].op = "migrate-registry", proc'[p].at \in Migrating
  PROVE  LET r == proc[p]
             new == proc'[p]
         IN  \/ new.at = "source" /\ file["global"].present /\ file' = file
             \/ /\ new.at = "lock" /\ r.at = "target" /\ r.op = "migrate-registry"
                /\ file' = file
                /\ new.force \/ \A n \in new.source : file["context"].apis[n] = Missing
             \/ /\ r.op = "migrate-registry" /\ r.at \in Migrating
                /\ new.at \notin {"source", "lock"}
                /\ new.at \in {"reload", "save"} =>
                     /\ r.at \in {"lock", "reload"} /\ file' = file
                     /\ new.source = r.source /\ new.force = r.force
<1> DEFINE r == proc[p]
           new == proc'[p]
<1>0. Typed /\ r \in ProcRec /\ Control(p, r)
  BY Acting
<1>a. proc \in [Proc -> ProcRec]
  BY <1>0 DEF Typed
<1> USE DEF Migrating, Writing
<1>1. CASE Start(p)
  <2>1. new.at \in {"stat", "inspect"}
    <3> DEFINE todo(op) == IF op # "scrub-credentials" THEN <<>>
                           ELSE IF file["context"].present THEN <<"context", "global">>
                           ELSE <<"global">>
    <3>1. PICK op \in Plan[p] :
          \E name \in (IF op = "context-set" THEN Contexts ELSE Names),
             force \in (IF op \in {"register", "migrate-registry"} THEN BOOLEAN ELSE {FALSE}) :
            proc' = [proc EXCEPT ![p] =
              [Idle EXCEPT !.op = op, !.name = name, !.force = force,
                 !.at = IF op = "scrub-credentials" THEN "stat" ELSE "inspect",
                 !.todo = todo(op)]]
      BY <1>1 DEF Start
    <3> HIDE DEF todo
    <3>2. PICK name \in (IF op = "context-set" THEN Contexts ELSE Names),
               force \in (IF op \in {"register", "migrate-registry"} THEN BOOLEAN ELSE {FALSE}) :
            proc' = [proc EXCEPT ![p] =
              [Idle EXCEPT !.op = op, !.name = name, !.force = force,
                 !.at = IF op = "scrub-credentials" THEN "stat" ELSE "inspect",
                 !.todo = todo(op)]]
      BY <3>1
    <3>3. new.at = IF op = "scrub-credentials" THEN "stat" ELSE "inspect"
      BY <1>a, <3>2, IdleRec DEF ProcRec
    <3> QED BY <3>3
  <2> QED BY <2>1
<1>2. CASE Crash(p)
  <2>1. new.at = "dead"
    BY <1>0, <1>2, IdleRec DEF Crash, Typed, ProcRec
  <2> QED BY <2>1
<1>3. ASSUME NEW result, Return(p, result)
      PROVE  FALSE
  BY <1>0, <1>3, Returned
<1>4. ASSUME NEW step, Goto(p, step)
      PROVE  new.at = step /\ new.op = r.op /\ new.source = r.source /\ new.force = r.force
  BY <1>0, <1>4 DEF Goto, Typed, ProcRec
<1>5. CASE NewRegistryForContext(p) \/ ContextInspect(p) \/ ContextRead(p)
           \/ replaceRecheck(p) \/ replaceRename(p) \/ load(p) \/ lockTimesOut(p)
  <2>1. new.op = r.op
    <3>1. CASE \E result : Return(p, result)
      BY <1>3, <3>1
    <3>2. CASE \E step : Goto(p, step)
      BY <1>4, <3>2
    <3>3. CASE \E at, x : \/ proc' = [proc EXCEPT ![p].at = at, ![p].base = x]
                          \/ proc' = [proc EXCEPT ![p].at = at, ![p].apis = x]
      BY <1>a, <3>3 DEF ProcRec
    <3>4. CASE NewRegistryForContext(p) \/ ContextInspect(p)
      BY <3>1, <3>2, <3>4 DEF NewRegistryForContext, ContextInspect
    <3>5. CASE ContextRead(p)
      BY <3>1, <3>3, <3>5 DEF ContextRead
    <3>6. CASE replaceRecheck(p)
      BY <3>1, <3>2, <3>6 DEF replaceRecheck
    <3>7. CASE replaceRename(p) \/ lockTimesOut(p)
      BY <3>1, <3>7 DEF replaceRename, lockTimesOut
    <3>8. CASE load(p)
      BY <3>3, <3>8 DEF load
    <3> QED BY <1>5, <3>4, <3>5, <3>6, <3>7, <3>8
  <2>2. r.op # "migrate-registry" \/ lockTimesOut(p)
    BY <1>0, <1>5 DEF NewRegistryForContext, ContextInspect, ContextRead,
       replaceRecheck, replaceRename, load, Control, Entries
  <2> QED BY <1>3, <2>1, <2>2 DEF lockTimesOut
<1>6. CASE ScrubStat(p) \/ ScrubCredentials(p)
  <2>1. new.op = r.op \/ new.at = "done"
    <3>1. CASE \E x : proc' = [proc EXCEPT ![p].todo = x]
      BY <1>a, <3>1 DEF ProcRec
    <3>2. CASE \E x, y, z : proc' = [proc EXCEPT ![p].apis = x, ![p].result = y, ![p].at = z]
      BY <1>a, <3>2 DEF ProcRec
    <3>3. \/ Goto(p, "lock") \/ Return(p, "ok")
          \/ proc' = [proc EXCEPT ![p].todo = Tail(@)]
          \/ \E x, y, z : proc' = [proc EXCEPT ![p].apis = x, ![p].result = y, ![p].at = z]
      <4>1. CASE ScrubStat(p)
        BY <4>1 DEF ScrubStat
      <4>2. CASE ScrubCredentials(p)
        <5> DEFINE f == file[Target(p)]
                   at == IF f.present /\ f.legacy THEN "save" ELSE "release"
        <5>1. proc' = [proc EXCEPT ![p].apis = f.apis, ![p].result = "ok", ![p].at = at]
          BY <4>2 DEF ScrubCredentials
        <5> HIDE DEF f, at
        <5> QED BY <5>1
      <4> QED BY <1>6, <4>1, <4>2
    <3>4. proc' = [proc EXCEPT ![p].todo = Tail(@)] => \E x : proc' = [proc EXCEPT ![p].todo = x]
      OBVIOUS
    <3> QED BY <1>3, <1>4, <3>1, <3>2, <3>3, <3>4
  <2>2. r.op = "scrub-credentials"
    BY <1>0, <1>6 DEF ScrubStat, ScrubCredentials, Control
  <2> QED BY <2>1, <2>2
<1>7. CASE MigrateInspect(p)
  BY <1>3, <1>4, <1>7 DEF MigrateInspect, Reads
<1>8. CASE MigrateSource(p)
  <2>1. new.at = "target" /\ r.at = "source" /\ r.op = "migrate-registry"
    <3>1. PICK x : proc' = [proc EXCEPT ![p].at = "target", ![p].source = x]
      BY <1>3, <1>8 DEF MigrateSource
    <3>2. new.at = "target"
      BY <1>a, <3>1 DEF ProcRec
    <3> QED BY <1>0, <1>8, <3>2 DEF MigrateSource, Control
  <2> QED BY <2>1
<1>9. CASE MigrateTarget(p)
  <2>1. /\ new.at = "lock" /\ r.at = "target" /\ r.op = "migrate-registry" /\ file' = file
        /\ new.source = r.source /\ new.force = r.force
    <3>1. PICK x : proc' = [proc EXCEPT ![p].at = "lock", ![p].apis = x]
      BY <1>3, <1>9 DEF MigrateTarget
    <3>2. new.at = "lock" /\ new.source = r.source /\ new.force = r.force
      BY <1>a, <3>1 DEF ProcRec
    <3> QED BY <1>0, <1>9, <3>2 DEF MigrateTarget, Control, Reads
  <2>2. r.force \/ \A n \in r.source : file["context"].apis[n] = Missing
    BY <1>3, <1>9 DEF MigrateTarget
  <2> QED BY <2>1, <2>2
<1>10. CASE MigrateRemove(p)
  BY <1>3, <1>10 DEF MigrateRemove
<1>11. CASE acquireRegistryLock(p)
  <2>1. /\ new.at = "reload" /\ r.at = "lock" /\ new.op = r.op /\ file' = file
        /\ new.source = r.source /\ new.force = r.force
    BY <1>4, <1>11 DEF acquireRegistryLock
  <2> QED BY <2>1
<1>12. CASE withWrite(p)
  <2>1. /\ new.at \in {"save", "release"} /\ r.at = "reload" /\ new.op = r.op /\ file' = file
        /\ new.source = r.source /\ new.force = r.force
    BY <1>0, <1>12 DEF withWrite, Typed, ProcRec, Reads
  <2> QED BY <2>1
<1>13. CASE saveLocked(p)
  <2>1. new.at = "release" /\ r.at = "save" /\ new.op = r.op
    <3>1. PICK x : proc' = [proc EXCEPT ![p].at = "release", ![p].result = x]
      BY <1>13 DEF saveLocked
    <3>2. new.at = "release" /\ new.op = r.op
      BY <1>a, <3>1 DEF ProcRec
    <3> QED BY <1>13, <3>2 DEF saveLocked
  <2> QED BY <2>1
<1>14. CASE release(p)
  <2>1. r.at = "release" /\ AfterRelease(p) \in {"remove", "stat", "done"}
    BY <1>14 DEF release, AfterRelease
  <2>2. new.at = AfterRelease(p) /\ new.op = r.op
    <3>1. proc' = [proc EXCEPT ![p].at = AfterRelease(p), ![p].apis = Empty,
                     ![p].todo = IF @ = <<>> THEN <<>> ELSE Tail(@)]
      BY <1>3, <1>14 DEF release
    <3>2. PICK x : proc' = [proc EXCEPT ![p].at = AfterRelease(p), ![p].apis = Empty,
                             ![p].todo = x]
      BY <3>1
    <3> QED BY <1>a, <3>2 DEF ProcRec
  <2> QED BY <2>1, <2>2
<1> QED BY <1>1, <1>2, <1>5, <1>6, <1>7, <1>8, <1>9, <1>10, <1>11, <1>12, <1>13, <1>14 DEF Step

LEMMA AloneStep ==
  ASSUME SingleMigration, AloneInv, [Next]_vars, NEW q \in Proc
  PROVE  AloneOK(proc[q])'
<1> DEFINE r == proc[q]
           new == proc'[q]
<1>0. Inv /\ AloneOK(r) /\ Typed /\ Inv' /\ r \in ProcRec
  BY NextInv, Acting DEF AloneInv, Inv
<1> SUFFICES ASSUME new.op = "migrate-registry", new.at \in Migrating
             PROVE  /\ file'["global"].present
                    /\ new.at \in {"lock", "reload", "save"} /\ ~new.force =>
                         \A n \in new.source : file'["context"].apis[n] = Missing
  BY DEF AloneOK, Migrating, Writing
<1>1. CASE new # r
  <2>1. Start(q) \/ Step(q) \/ Crash(q)
    BY <1>0, <1>1, OnlyActor DEF Next, Edit, vars
  <2>2. \/ new.at = "source" /\ file["global"].present /\ file' = file
        \/ /\ new.at = "lock" /\ r.at = "target" /\ r.op = "migrate-registry"
           /\ file' = file
           /\ new.force \/ \A n \in new.source : file["context"].apis[n] = Missing
        \/ /\ r.op = "migrate-registry" /\ r.at \in Migrating
           /\ new.at \notin {"source", "lock"}
           /\ new.at \in {"reload", "save"} =>
                /\ r.at \in {"lock", "reload"} /\ file' = file
                /\ new.source = r.source /\ new.force = r.force
    BY <1>0, <1>1, <2>1, MigrationMoves
  <2>3. file["global"].present
    BY <1>0, <2>2 DEF AloneOK, Migrating, Writing
  <2>4. file'["global"].present
    <3>1. CASE \E p \in Proc : MigrateRemove(p) /\ file' = [file EXCEPT !["global"] = Absent]
      <4>1. PICK p \in Proc : MigrateRemove(p) /\ file' = [file EXCEPT !["global"] = Absent]
        BY <3>1
      <4>2. p = q
        BY <1>0, <1>1, <4>1, OnlyActor DEF Step
      <4>3. new.at = "done"
        BY <1>0, <4>1, <4>2, Returned DEF MigrateRemove
      <4> QED BY <4>3 DEF Migrating, Writing
    <3>2. CASE \E p \in Proc : proc[p].at = "save" /\ Saved(p, TargetOf(proc[p]))
      BY <1>0, <2>3, <3>2, SavedGlobal
    <3> QED BY <1>0, <2>3, <3>1, <3>2, FileChanges
  <2> QED BY <1>0, <2>2, <2>4 DEF AloneOK
<1>2. CASE new = r
  <2>1. r.op \in Plan[q] /\ file["global"].present
    BY <1>0, <1>2, Acting DEF AloneOK, Migrating, Writing, Control
  <2>2. CASE file' = file
    BY <1>0, <1>2, <2>1, <2>2 DEF AloneOK
  <2>3. ASSUME NEW p \in Proc, MigrateRemove(p)
        PROVE  FALSE
    <3>1. proc[p].op \in Plan[p] /\ proc[p].op = "migrate-registry" /\ proc[p].at = "remove"
      BY <1>0, <2>3, Acting DEF Control, MigrateRemove
    <3>2. p = q
      BY <1>2, <2>1, <3>1 DEF SingleMigration
    <3>3. new.at = "done"
      BY <1>0, <2>3, <3>2, Returned DEF MigrateRemove
    <3> QED BY <1>2, <3>1, <3>2, <3>3
  <2>4. ASSUME NEW p \in Proc, proc[p].at = "save", Saved(p, TargetOf(proc[p]))
        PROVE  /\ file'["global"].present
               /\ \A n \in Names : Entry(n)' = Entry(n)
    <3>1. file'["global"].present
      BY <1>0, <2>1, <2>4, SavedGlobal
    <3>2. p # q
      <4>1. proc'[p].at = "release"
        BY <1>0, <2>4 DEF Saved, Typed, ProcRec
      <4> QED BY <1>2, <2>4, <4>1
    <3>3. Control(p, proc[p]) /\ GlobalOK(proc[p])
      BY <1>0, Acting
    <3>4. proc[p].op # "migrate-registry"
      BY <1>2, <2>1, <3>2, <3>3 DEF SingleMigration, Control
    <3>5. proc[p].op \notin Entries
      BY <2>1, <2>4, <3>3 DEF GlobalOK, Writing
    <3>6. proc[p].op = "scrub-credentials"
      BY <2>4, <3>3, <3>4, <3>5 DEF Control, Writing
    <3>7. NamedOf(proc[p]) = {}
      BY <3>6 DEF NamedOf
    <3> QED BY <1>0, <2>4, <3>1, <3>7, SavedEntries
  <2>5. CASE \E p \in Proc : proc[p].at = "save" /\ Saved(p, TargetOf(proc[p]))
    <3>1. r.source \subseteq Names
      BY <1>0 DEF ProcRec
    <3> QED BY <1>0, <1>2, <2>4, <2>5, <3>1 DEF AloneOK, Entry
  <2> QED BY <1>0, <2>2, <2>3, <2>5, FileChanges
<1> QED BY <1>1, <1>2

LEMMA AloneInvariant ==
  ASSUME SingleMigration
  PROVE  Spec => []AloneInv
<1>1. Init => AloneInv
  <2> SUFFICES ASSUME Init PROVE \A p \in Proc : AloneOK(proc[p])
    BY InitInv DEF AloneInv
  <2> QED BY IdleRec DEF Init, AloneOK
<1>2. AloneInv /\ [Next]_vars => AloneInv'
  BY AloneStep, NextInv DEF AloneInv
<1> QED BY <1>1, <1>2, PTL DEF Spec

\* A save that is not forced keeps every entry there is.
LEMMA ReplaceStep ==
  ASSUME AloneInv, [Next]_vars, NEW p \in Proc, Saves(p), proc'[p].at = "release",
         ~proc[p].force, proc[p].op \in {"register", "migrate-registry"},
         NEW n \in Names, Entry(n) # Missing
  PROVE  Entry(n)' = Entry(n)
<1> SUFFICES ASSUME Entry(n)' # Entry(n) PROVE FALSE
  OBVIOUS
<1>0. Inv /\ Typed /\ AloneOK(proc[p]) /\ ContextOK(proc[p]) /\ proc[p].at = "save"
  BY Acting DEF AloneInv, Saves
<1>1. file' # file /\ ~(file' = [file EXCEPT !["global"] = Absent])
  BY <1>0 DEF Entry, Typed, Places
<1>2. PICK q \in Proc : proc[q].at = "save" /\ Saved(q, TargetOf(proc[q]))
  BY <1>0, <1>1, FileChanges
<1>3. q = p
  <2>1. q # p => proc'[p] = proc[p]
    BY <1>0, <1>2 DEF Saved, Typed
  <2> QED BY <1>0, <2>1
<1>4. n \in NamedOf(proc[p])
  BY <1>0, <1>2, <1>3, SavedEntries
<1> QED BY <1>0, <1>4 DEF NamedOf, ContextOK, AloneOK, Entry

-----------------------------------------------------------------------------
(* Scrubbing *)

\* The registries a scrub has before it.
Listed(f, todo) ==
  \/ f = "global" /\ todo \in {<<"global">>, <<"context", "global">>}
  \/ f = "context" /\ todo \in {<<"context">>, <<"context", "global">>}

\* Raw credentials are only where a scrub has yet to go.
CleanOK(r) ==
  r.op = "scrub-credentials" =>
    /\ r.at \in {"stat"} \cup Writing => \A f \in Places : file[f].legacy => Listed(f, r.todo)
    /\ r.at = "release" /\ r.result = "ok" => ~file[TargetOf(r)].legacy
    /\ r.at = "done" /\ r.result = "ok" => \A f \in Places : ~file[f].legacy

NoneAbsent == \A f \in Places : ~file[f].present => ~file[f].legacy

CleanInv == Inv /\ NoneAbsent /\ \A p \in Proc : CleanOK(proc[p])

LEMMA ListedFacts ==
  ASSUME NEW todo \in Todo, todo # <<>>, NEW f \in Places, Listed(f, todo), f # Head(todo)
  PROVE  Len(todo) > 1 /\ Listed(f, Tail(todo))
<1>1. CASE todo = <<"context">>
  BY <1>1 DEF Listed, Places
<1>2. CASE todo = <<"global">>
  BY <1>2 DEF Listed, Places
<1>3. CASE todo = <<"context", "global">>
  <2>1. Head(todo) = "context" /\ Tail(todo) = <<"global">> /\ Len(todo) = 2
    BY <1>3
  <2> QED BY <2>1 DEF Listed, Places
<1> QED BY <1>1, <1>2, <1>3 DEF Todo

\* No step brings raw credentials back.
LEMMA LegacyGoes ==
  ASSUME CleanInv, [Next]_vars
  PROVE  NoneAbsent' /\ \A f \in Places : file'[f].legacy => file[f].legacy
<1>0. Inv /\ Typed /\ NoneAbsent
  BY DEF CleanInv, Inv
<1>1. CASE file' = file
  BY <1>0, <1>1 DEF NoneAbsent
<1>2. ASSUME NEW t \in Places, NEW g, ~g.legacy, file' = [file EXCEPT ![t] = g]
      PROVE  NoneAbsent' /\ \A f \in Places : file'[f].legacy => file[f].legacy
  BY <1>0, <1>2 DEF NoneAbsent, Typed
<1>3. ASSUME NEW p \in Proc, proc[p].at = "save", Saved(p, TargetOf(proc[p]))
      PROVE  NoneAbsent' /\ \A f \in Places : file'[f].legacy => file[f].legacy
  <2>1. TargetOf(proc[p]) \in Places
    BY <1>0, <1>3, Acting, TargetPlace DEF Writing
  <2>2. ~Stored(proc[p].apis, FALSE).legacy
    BY DEF Stored
  <2> QED BY <1>2, <1>3, <2>1, <2>2 DEF Saved
<1>4. CASE file' = [file EXCEPT !["global"] = Absent]
  <2>1. "global" \in Places
    BY DEF Places
  <2> QED BY <1>2, <1>4, <2>1, AbsentRec
<1> QED BY <1>0, <1>1, <1>3, <1>4, FileChanges

\* A step of a command is a step of that command.
LEMMA SameCommand ==
  ASSUME Typed, NEW p \in Proc, Step(p)
  PROVE  proc'[p].op = proc[p].op
<1>a. proc \in [Proc -> ProcRec]
  BY DEF Typed
<1>1. ASSUME NEW result, Return(p, result) PROVE proc'[p].op = proc[p].op
  BY <1>a, <1>1, IdleRec DEF Return, ProcRec
<1>2. ASSUME NEW step, Goto(p, step) PROVE proc'[p].op = proc[p].op
  BY <1>a, <1>2 DEF Goto, ProcRec
<1>3. CASE NewRegistryForContext(p) \/ acquireRegistryLock(p) \/ lockTimesOut(p)
           \/ MigrateInspect(p) \/ MigrateRemove(p) \/ ContextInspect(p)
           \/ replaceRecheck(p) \/ replaceRename(p)
  BY <1>1, <1>2, <1>3 DEF NewRegistryForContext, acquireRegistryLock, lockTimesOut,
     MigrateInspect, MigrateRemove, ContextInspect, replaceRecheck, replaceRename
<1>4. CASE load(p)
  BY <1>a, <1>4 DEF load, ProcRec
<1>5. CASE withWrite(p)
  <2>1. PICK x, y, z : proc' = [proc EXCEPT ![p].at = x, ![p].apis = y, ![p].result = z]
    BY <1>5 DEF withWrite
  <2> QED BY <1>a, <2>1 DEF ProcRec
<1>6. CASE saveLocked(p)
  <2>1. PICK x : proc' = [proc EXCEPT ![p].at = "release", ![p].result = x]
    BY <1>6 DEF saveLocked
  <2> QED BY <1>a, <2>1 DEF ProcRec
<1>7. CASE release(p)
  <2>1. CASE \E x, y : proc' = [proc EXCEPT ![p].at = x, ![p].apis = Empty, ![p].todo = y]
    BY <1>a, <2>1 DEF ProcRec
  <2>2. CASE proc' = [proc EXCEPT ![p].at = AfterRelease(p), ![p].apis = Empty,
                        ![p].todo = IF @ = <<>> THEN <<>> ELSE Tail(@)]
    BY <2>1, <2>2
  <2> QED BY <1>1, <1>7, <2>2 DEF release
<1>8. CASE ScrubStat(p)
  <2>1. CASE proc' = [proc EXCEPT ![p].todo = Tail(@)]
    BY <1>a, <2>1 DEF ProcRec
  <2> QED BY <1>1, <1>2, <1>8, <2>1 DEF ScrubStat
<1>9. CASE ScrubCredentials(p)
  <2>1. PICK x, y, z : proc' = [proc EXCEPT ![p].apis = x, ![p].result = y, ![p].at = z]
    BY <1>9 DEF ScrubCredentials
  <2> QED BY <1>a, <2>1 DEF ProcRec
<1>10. CASE MigrateSource(p)
  <2>1. CASE \E x : proc' = [proc EXCEPT ![p].at = "target", ![p].source = x]
    BY <1>a, <2>1 DEF ProcRec
  <2> QED BY <1>1, <1>10, <2>1 DEF MigrateSource
<1>11. CASE MigrateTarget(p)
  <2>1. CASE \E x : proc' = [proc EXCEPT ![p].at = "lock", ![p].apis = x]
    BY <1>a, <2>1 DEF ProcRec
  <2> QED BY <1>1, <1>11, <2>1 DEF MigrateTarget
<1>12. CASE ContextRead(p)
  <2>1. CASE \E x : proc' = [proc EXCEPT ![p].at = "recheck", ![p].base = x]
    BY <1>a, <2>1 DEF ProcRec
  <2> QED BY <1>1, <1>12, <2>1 DEF ContextRead
<1> QED BY <1>3, <1>4, <1>5, <1>6, <1>7, <1>8, <1>9, <1>10, <1>11, <1>12 DEF Step

\* A scrub starts with every registry there is, and goes on from one only when
\* it has no raw credentials.
LEMMA ScrubMoves ==
  ASSUME CleanInv, [Next]_vars, NEW p \in Proc, Start(p) \/ Step(p) \/ Crash(p),
         proc'[p].op = "scrub-credentials"
  PROVE  CleanOK(proc[p])'
<1> DEFINE r == proc[p]
           new == proc'[p]
<1>0. /\ Inv /\ Typed /\ NoneAbsent /\ CleanOK(r) /\ r \in ProcRec /\ Control(p, r)
      /\ proc \in [Proc -> ProcRec]
  BY Acting DEF CleanInv, Typed
<1>1. \A f \in Places : file'[f].legacy => file[f].legacy
  BY LegacyGoes
<1>2. ASSUME /\ new.at \in {"stat"} \cup Writing =>
                   \A f \in Places : file[f].legacy => Listed(f, new.todo)
             /\ new.at = "release" /\ new.result = "ok" => ~file'[TargetOf(new)].legacy
             /\ new.at = "done" /\ new.result = "ok" => \A f \in Places : ~file[f].legacy
      PROVE  CleanOK(proc[p])'
  BY <1>1, <1>2 DEF CleanOK, TargetOf
<1>3. CASE Start(p)
  <2> DEFINE todo(op) == IF op # "scrub-credentials" THEN <<>>
                         ELSE IF file["context"].present THEN <<"context", "global">>
                         ELSE <<"global">>
  <2>1. PICK op \in Plan[p] :
        \E name \in (IF op = "context-set" THEN Contexts ELSE Names),
           force \in (IF op \in {"register", "migrate-registry"} THEN BOOLEAN ELSE {FALSE}) :
          proc' = [proc EXCEPT ![p] =
            [Idle EXCEPT !.op = op, !.name = name, !.force = force,
               !.at = IF op = "scrub-credentials" THEN "stat" ELSE "inspect",
               !.todo = todo(op)]]
    BY <1>3 DEF Start
  <2> HIDE DEF todo
  <2>2. PICK name \in (IF op = "context-set" THEN Contexts ELSE Names),
             force \in (IF op \in {"register", "migrate-registry"} THEN BOOLEAN ELSE {FALSE}) :
          proc' = [proc EXCEPT ![p] =
            [Idle EXCEPT !.op = op, !.name = name, !.force = force,
               !.at = IF op = "scrub-credentials" THEN "stat" ELSE "inspect",
               !.todo = todo(op)]]
    BY <2>1
  <2>3. /\ new.at = IF op = "scrub-credentials" THEN "stat" ELSE "inspect"
        /\ new.op = op /\ new.todo = todo(op)
    BY <1>0, <2>2, IdleRec DEF ProcRec
  <2>4. new.at = "stat" /\ new.todo = IF file["context"].present THEN <<"context", "global">>
                                                                ELSE <<"global">>
    BY <2>3 DEF todo
  <2>5. ASSUME NEW f \in Places, file[f].legacy PROVE Listed(f, new.todo)
    <3>1. file[f].present
      BY <1>0, <2>5 DEF NoneAbsent
    <3>2. CASE f = "context"
      BY <2>4, <3>1, <3>2 DEF Listed
    <3>3. CASE f = "global"
      BY <2>4, <3>3 DEF Listed
    <3> QED BY <3>2, <3>3 DEF Places
  <2> QED BY <1>2, <2>4, <2>5
<1>4. CASE Crash(p)
  <2>1. new.op = ""
    BY <1>0, <1>4, IdleRec DEF Crash, ProcRec
  <2> QED BY <2>1
<1>5. CASE Step(p)
  <2>0. r.op = "scrub-credentials" /\ Target(p) = TargetOf(r)
    BY <1>0, <1>5, SameCommand DEF Target, TargetOf
  <2>a. ASSUME NEW result, Return(p, result) PROVE new.at = "done" /\ new.result = result
    BY <1>0, <2>a, IdleRec DEF Return, ProcRec
  <2>b. ASSUME NEW step, Goto(p, step)
        PROVE  new.at = step /\ new.todo = r.todo
    BY <1>0, <2>b DEF Goto, ProcRec
  <2>c. r.at \in {"stat"} \cup Writing => r.todo \in Todo /\ r.todo # <<>> /\ TargetOf(r) \in Places
    BY <1>0, <2>0, TargetPlace DEF Control, ProcRec
  <2>d. ASSUME r.at \in {"stat"} \cup Writing, ~file[Head(r.todo)].legacy
        PROVE  /\ Len(r.todo) > 1 => \A f \in Places : file[f].legacy => Listed(f, Tail(r.todo))
               /\ ~(Len(r.todo) > 1) => \A f \in Places : ~file[f].legacy
    BY <1>0, <2>0, <2>c, <2>d, ListedFacts DEF CleanOK
  <2>1. CASE ScrubStat(p)
    <3>0. r.at = "stat" /\ TargetOf(r) = Head(r.todo) /\ r.at \in {"stat"} \cup Writing
      BY <2>0, <2>1 DEF ScrubStat, TargetOf
    <3>1. CASE file[TargetOf(r)].present
      <4>1. new.at = "lock" /\ new.todo = r.todo
        BY <2>0, <2>1, <2>b, <3>1 DEF ScrubStat
      <4> QED BY <1>0, <1>2, <2>0, <3>0, <4>1 DEF CleanOK
    <3>2. CASE ~file[TargetOf(r)].present
      <4>1. ~file[Head(r.todo)].legacy
        BY <1>0, <2>c, <3>0, <3>2 DEF NoneAbsent
      <4>2. CASE Len(r.todo) > 1
        <5>1. new.at = "stat" /\ new.todo = Tail(r.todo)
          <6>1. proc' = [proc EXCEPT ![p].todo = Tail(@)]
            BY <2>0, <2>1, <3>2, <4>2 DEF ScrubStat
          <6> QED BY <1>0, <3>0, <6>1 DEF ProcRec
        <5> QED BY <1>2, <2>d, <3>0, <4>1, <4>2, <5>1
      <4>3. CASE ~(Len(r.todo) > 1)
        <5>1. new.at = "done"
          BY <2>0, <2>1, <2>a, <3>2, <4>3 DEF ScrubStat
        <5> QED BY <1>2, <2>d, <3>0, <4>1, <4>3, <5>1 DEF Writing
      <4> QED BY <4>2, <4>3
    <3> QED BY <3>1, <3>2
  <2>2. CASE acquireRegistryLock(p)
    <3>1. r.at = "lock" /\ new.at = "reload" /\ new.todo = r.todo
      BY <2>2, <2>b DEF acquireRegistryLock
    <3> QED BY <1>0, <1>2, <2>0, <3>1 DEF CleanOK, Writing
  <2>3. CASE lockTimesOut(p)
    <3>1. new.at = "done" /\ new.result = "timed_out"
      BY <2>3, <2>a DEF lockTimesOut
    <3> QED BY <1>2, <3>1 DEF Writing
  <2>4. CASE ScrubCredentials(p)
    <3> DEFINE g == file[Target(p)]
               at == IF g.present /\ g.legacy THEN "save" ELSE "release"
    <3>1. r.at = "reload" /\ proc' = [proc EXCEPT ![p].apis = g.apis, ![p].result = "ok", ![p].at = at]
      BY <2>4 DEF ScrubCredentials
    <3>2. file' = file
      BY <2>4 DEF ScrubCredentials, Reads
    <3> HIDE DEF at
    <3>3. new.at = at /\ new.todo = r.todo /\ new.op = r.op
      BY <1>0, <3>1 DEF ProcRec
    <3>4. at \in {"save", "release"} /\ (at = "release" => ~(g.present /\ g.legacy))
      BY DEF at
    <3>5. at = "release" => ~file[TargetOf(r)].legacy
      BY <1>0, <2>0, <2>c, <3>1, <3>4 DEF NoneAbsent, Writing
    <3>6. TargetOf(new) = TargetOf(r)
      BY <3>3 DEF TargetOf
    <3> QED BY <1>0, <1>2, <2>0, <3>1, <3>2, <3>3, <3>4, <3>5, <3>6 DEF CleanOK, Writing
  <2>5. CASE saveLocked(p)
    <3>1. PICK x \in {"ok", "io"} :
            /\ proc' = [proc EXCEPT ![p].at = "release", ![p].result = x]
            /\ x = "ok" => file' = [file EXCEPT ![Target(p)] = Stored(r.apis, FALSE)]
      BY <2>5 DEF saveLocked
    <3>2. r.at = "save"
      BY <2>5 DEF saveLocked
    <3>3. new.at = "release" /\ new.todo = r.todo /\ new.op = r.op /\ new.result = x
      BY <1>0, <3>1 DEF ProcRec
    <3>4. TargetOf(new) = TargetOf(r)
      BY <3>3 DEF TargetOf
    <3>5. x = "ok" => ~file'[TargetOf(r)].legacy
      BY <1>0, <2>0, <2>c, <3>1, <3>2 DEF Stored, Typed, Writing
    <3> QED BY <1>0, <1>2, <2>0, <3>2, <3>3, <3>4, <3>5 DEF CleanOK, Writing
  <2>6. CASE release(p)
    <3>0. r.at = "release" /\ r.at \in {"stat"} \cup Writing /\ TargetOf(r) = Head(r.todo)
      BY <2>0, <2>6 DEF release, Writing, TargetOf
    <3>1. CASE AfterRelease(p) = "done"
      <4>1. new.at = "done" /\ new.result = r.result
        BY <2>6, <2>a, <3>1 DEF release
      <4>2. r.result = "ok" => ~(Len(r.todo) > 1) /\ ~file[Head(r.todo)].legacy
        BY <1>0, <2>0, <3>0, <3>1 DEF AfterRelease, CleanOK
      <4> QED BY <1>2, <2>d, <3>0, <4>1, <4>2 DEF Writing
    <3>2. CASE AfterRelease(p) # "done"
      <4>1. AfterRelease(p) = "stat" /\ r.result = "ok" /\ Len(r.todo) > 1
        BY <2>0, <3>2 DEF AfterRelease
      <4>2. proc' = [proc EXCEPT ![p].at = AfterRelease(p), ![p].apis = Empty,
                       ![p].todo = IF @ = <<>> THEN <<>> ELSE Tail(@)]
        BY <2>6, <3>2 DEF release
      <4>3. proc' = [proc EXCEPT ![p].at = "stat", ![p].apis = Empty, ![p].todo = Tail(r.todo)]
        BY <1>0, <2>c, <3>0, <4>1, <4>2
      <4>4. new.at = "stat" /\ new.todo = Tail(r.todo)
        BY <1>0, <4>3 DEF ProcRec
      <4>5. ~file[Head(r.todo)].legacy
        BY <1>0, <2>0, <3>0, <4>1 DEF CleanOK
      <4> QED BY <1>2, <2>d, <3>0, <4>1, <4>4, <4>5
    <3> QED BY <3>1, <3>2
  <2>7. ~(NewRegistryForContext(p) \/ load(p) \/ withWrite(p) \/ MigrateInspect(p)
          \/ MigrateSource(p) \/ MigrateTarget(p) \/ MigrateRemove(p) \/ ContextInspect(p)
          \/ ContextRead(p) \/ replaceRecheck(p) \/ replaceRename(p))
    BY <1>0, <2>0 DEF NewRegistryForContext, load, withWrite, MigrateInspect, MigrateSource,
       MigrateTarget, MigrateRemove, ContextInspect, ContextRead, replaceRecheck, replaceRename,
       Control, Entries
  <2> QED BY <1>5, <2>1, <2>2, <2>3, <2>4, <2>5, <2>6, <2>7 DEF Step
<1> QED BY <1>3, <1>4, <1>5

LEMMA CleanStep == CleanInv /\ [Next]_vars => CleanInv'
<1> SUFFICES ASSUME CleanInv, [Next]_vars PROVE CleanInv'
  OBVIOUS
<1>0. Inv /\ Typed /\ Inv' /\ NoneAbsent'
  BY NextInv, LegacyGoes DEF CleanInv, Inv
<1>1. \A f \in Places : file'[f].legacy => file[f].legacy
  BY LegacyGoes
<1>2. ASSUME NEW q \in Proc PROVE CleanOK(proc[q])'
  <2>1. CASE proc'[q] = proc[q]
    <3>1. proc[q].at = "release" /\ proc[q].op = "scrub-credentials" => TargetOf(proc[q]) \in Places
      BY <1>0, Acting, TargetPlace DEF Writing
    <3> QED BY <1>1, <2>1, <3>1 DEF CleanInv, CleanOK, TargetOf
  <2>2. CASE proc'[q] # proc[q]
    <3>1. Start(q) \/ Step(q) \/ Crash(q)
      BY <1>0, <2>2, OnlyActor DEF Next, Edit, vars
    <3>2. CASE proc'[q].op = "scrub-credentials"
      BY <3>1, <3>2, ScrubMoves
    <3>3. CASE proc'[q].op # "scrub-credentials"
      BY <3>3 DEF CleanOK
    <3> QED BY <3>2, <3>3
  <2> QED BY <2>1, <2>2
<1> QED BY <1>0, <1>2 DEF CleanInv

LEMMA CleanInvariant == Spec => []CleanInv
<1>1. Init => CleanInv
  <2> SUFFICES ASSUME Init PROVE NoneAbsent /\ \A p \in Proc : CleanOK(proc[p])
    BY InitInv DEF CleanInv
  <2>1. PICK held \in SUBSET Names, raw \in SUBSET Places :
          file = [context |-> FileOf(held, "earlier", "context" \in raw),
                  global  |-> FileOf(GlobalNames, "global", "global" \in raw)]
    BY DEF Init
  <2>0. ("context" \in raw) \in BOOLEAN /\ ("global" \in raw) \in BOOLEAN
    OBVIOUS
  <2>2. PICK l, m \in BOOLEAN : /\ file["context"] = FileOf(held, "earlier", l)
                                /\ file["global"] = FileOf(GlobalNames, "global", m)
    BY <2>0, <2>1
  <2>3. GlobalNames \in SUBSET Names
    BY FilesAssumption
  <2>4. ~file["context"].present => ~file["context"].legacy
    BY <2>2, FileOfRec
  <2>5. ~file["global"].present => ~file["global"].legacy
    BY <2>2, <2>3, FileOfRec
  <2>6. \A p \in Proc : CleanOK(proc[p])
    BY IdleRec DEF Init, CleanOK
  <2> QED BY <2>4, <2>5, <2>6 DEF NoneAbsent, Places
<1> QED BY <1>1, CleanStep, PTL DEF Spec

LEMMA CleanFollows == CleanInv => ScrubLeavesNone
BY DEF CleanInv, CleanOK, ScrubLeavesNone

-----------------------------------------------------------------------------
(* The theorems *)

\* A lock file is held by the one process between its lock and its release,
\* or by one that died there (acquireRegistryLock, release); with the types of
\* the state.
THEOREM LocksOwned == Spec => []LocksAreOwned
BY Invariant, LocksFollow, PTL

\* A command answers what it installed, and a migration that answers success
\* left no global registry, though a scrub may write that registry without
\* regard to the migration (ScrubAllRegistries, MigrateGlobalRegistry).
THEOREM AnswersTrue == Spec => []AnswersAreTrue
BY Invariant, AnswersFollow, PTL

\* No API is lost in a migration, wherever it dies and however many run
\* (MigrateGlobalRegistry).
THEOREM MigrationComplete == Spec => []MigrationMovesEverything
BY Invariant, MigrationFollows, PTL

\* No update of the registry is lost (withWrite, saveLocked).
THEOREM NoLostUpdate == Spec => EntriesChangeByName
<1>1. Inv /\ [Next]_vars =>
        [\A n \in Names :
           Entry(n)' # Entry(n) =>
             \E p \in Proc : Saves(p) /\ proc'[p].at = "release" /\ n \in Named(p)]_vars
  BY EntriesStep
<1> QED BY <1>1, Invariant, PTL DEF Spec, EntriesChangeByName

\* A scrub that answers success left no raw credentials, whatever the other
\* processes do to the registries meanwhile (ScrubAllRegistries).
THEOREM NoneLeftByScrub == Spec => []ScrubLeavesNone
BY CleanInvariant, CleanFollows, PTL

\* With at most one process that migrates, nothing is replaced without
\* --force, although the migration looks for collisions before it takes the
\* lock: until it has removed the global registry no other command that could
\* take one of its names gets past NewRegistryForContext.  Two migrations
\* replace each other's entries.
THEOREM ReplacedOnlyWithForce ==
  ASSUME SingleMigration
  PROVE  Spec => ReplacedOnlyByForce
<1>1. AloneInv /\ [Next]_vars =>
        [\A p \in Proc :
           Saves(p) /\ proc'[p].at = "release" /\ ~proc[p].force
             /\ proc[p].op \in {"register", "migrate-registry"} =>
           \A n \in Names : Entry(n) # Missing => Entry(n)' = Entry(n)]_vars
  BY ReplaceStep
<1> QED BY <1>1, AloneInvariant, PTL DEF Spec, ReplacedOnlyByForce
=============================================================================
