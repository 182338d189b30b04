----------------------------- MODULE LocalFiles -----------------------------
(***************************************************************************)
(* The files of a bridgectl user, which concurrent bridgectl processes     *)
(* share: the API registry of one context, the older global registry it    *)
(* replaces, and the configuration file.                                   *)
(*                                                                         *)
(* A registry is rewritten under a lock file created with O_EXCL: reload,  *)
(* change, write a temporary file, rename, remove the lock file.  A writer *)
(* that finds the lock file gives up at a deadline; a process that dies    *)
(* leaves it behind.  The configuration has no lock: a writer compares the *)
(* file with what it read once more before it renames over it.             *)
(***************************************************************************)
EXTENDS Naturals, Sequences, FiniteSets

CONSTANTS Proc,        \* bridgectl processes, each running one command
          Plan,        \* the commands each may run
          Names,       \* names of APIs
          GlobalNames, \* those in the global registry at the start, if there is one
          MaxCrashes,  \* bound on processes that die
          MaxEdits,    \* bound on the user's edits of the configuration
          None

Commands == {"register", "set-credential-ref", "delete", "scrub-credentials",
             "migrate-registry", "context-set"}

ASSUME FilesAssumption ==
  /\ Plan \in [Proc -> SUBSET Commands]
  /\ Names # {} /\ GlobalNames \subseteq Names
  /\ MaxCrashes \in Nat /\ MaxEdits \in Nat
  /\ None \notin Proc

VARIABLES
  file,      \* the two registry files, by place
  lock,      \* their lock files: None, or the process that created it
  config,    \* the configuration file
  proc,      \* the processes
  crashes,
  installed, \* processes that renamed a context registry or configuration into place
  arrived    \* names that were ever in the context registry

vars == <<file, lock, config, proc, crashes, installed, arrived>>

Places   == {"context", "global"}
Contexts == {"default", "production"}

\* An API by who wrote it and who set its credential reference.
API     == [owner : Proc \cup {"earlier", "global"}, ref : Proc \cup {None}]
Missing == [owner |-> "nobody", ref |-> None]
Empty   == [n \in Names |-> Missing]

\* A registry file: absent, or its APIs and whether one has raw credentials.
Absent == [present |-> FALSE, apis |-> Empty, legacy |-> FALSE]
Stored(apis, legacy) == [present |-> TRUE, apis |-> apis, legacy |-> legacy]

\* A configuration, known by the number of the user's last edit.
NoConfig == [present |-> FALSE, contexts |-> {}, current |-> "default", edit |-> 0]
defaultConfig == [present |-> TRUE, contexts |-> {"default"}, current |-> "default", edit |-> 0]

Idle == [at |-> "idle", op |-> "", name |-> CHOOSE n \in Names : TRUE, force |-> FALSE,
         todo |-> <<>>, apis |-> Empty, source |-> {}, base |-> NoConfig,
         result |-> ""]

Steps == {"idle", "inspect", "load", "source", "target", "stat", "lock", "reload",
          "save", "release", "remove", "read", "recheck", "rename", "done", "dead"}
Results == {"", "ok", "legacy_registry", "legacy_credentials", "conflict", "not_found",
            "timed_out", "io", "not_removed", "not_configured", "config_changed"}

TypeOK ==
  /\ \A f \in Places :
       /\ file[f].present \in BOOLEAN /\ file[f].legacy \in BOOLEAN
       /\ file[f].apis \in [Names -> API \cup {Missing}]
  /\ lock \in [Places -> Proc \cup {None}]
  /\ config.contexts \subseteq Contexts /\ config.current \in Contexts
  /\ config.edit \in 0..MaxEdits
  /\ \A p \in Proc :
       /\ proc[p].at \in Steps /\ proc[p].op \in Commands \cup {""}
       /\ proc[p].name \in Names \cup Contexts /\ proc[p].result \in Results
       /\ proc[p].apis \in [Names -> API \cup {Missing}] /\ proc[p].source \subseteq Names
       /\ proc[p].todo \in {<<>>, <<"context">>, <<"global">>, <<"context", "global">>}
  /\ crashes \in 0..MaxCrashes
  /\ installed \subseteq Proc /\ arrived \subseteq Names

Holding(names, owner) ==
  [n \in Names |-> IF n \in names THEN [owner |-> owner, ref |-> None] ELSE Missing]
FileOf(names, owner, legacy) ==
  IF names = {} THEN Absent ELSE Stored(Holding(names, owner), legacy)

\* The context registry is new or has one earlier API; a registry of an earlier
\* version may hold raw credentials.
Init ==
  /\ \E held \in SUBSET Names, raw \in SUBSET Places :
       /\ Cardinality(held) <= 1
       /\ file = [context |-> FileOf(held, "earlier", "context" \in raw),
                  global  |-> FileOf(GlobalNames, "global", "global" \in raw)]
       /\ arrived = held
  /\ lock = [f \in Places |-> None]
  /\ config \in {NoConfig, [defaultConfig EXCEPT !.contexts = Contexts]}
  /\ proc = [p \in Proc |-> Idle]
  /\ crashes = 0 /\ installed = {}

-----------------------------------------------------------------------------
(* Steps of a process *)

Goto(p, step) == proc' = [proc EXCEPT ![p].at = step]
Return(p, result) ==
  proc' = [proc EXCEPT ![p] = [Idle EXCEPT !.at = "done", !.op = proc[p].op, !.result = result]]

FilesOnly == UNCHANGED <<config, crashes>>
Reads     == UNCHANGED <<file, lock, config, crashes, installed, arrived>>

\* The registry a process works on: migration writes the context's, a scrub
\* goes through the ones it listed.
Target(p) == IF proc[p].op = "scrub-credentials" THEN Head(proc[p].todo) ELSE "context"

Start(p) ==
  /\ proc[p].at = "idle"
  /\ \E op \in Plan[p] :
       \E name \in (IF op = "context-set" THEN Contexts ELSE Names),
          force \in (IF op \in {"register", "migrate-registry"} THEN BOOLEAN ELSE {FALSE}) :
         proc' = [proc EXCEPT ![p] =
           [Idle EXCEPT !.op = op, !.name = name, !.force = force,
              !.at = IF op = "scrub-credentials" THEN "stat" ELSE "inspect",
              !.todo = IF op # "scrub-credentials" THEN <<>>
                       ELSE IF file["context"].present THEN <<"context", "global">>
                       ELSE <<"global">>]]
  /\ Reads

\* NewRegistryForContext: refused while the global registry exists.
NewRegistryForContext(p) ==
  /\ proc[p].at = "inspect" /\ proc[p].op \in {"register", "set-credential-ref", "delete"}
  /\ IF file["global"].present THEN Return(p, "legacy_registry") ELSE Goto(p, "load")
  /\ Reads

\* load: a missing file is an empty registry.
load(p) ==
  /\ proc[p].at = "load"
  /\ proc' = [proc EXCEPT ![p].at = "lock", ![p].apis = file["context"].apis]
  /\ Reads

\* Mutation of lockTimesOut: at the deadline the lock is taken over.
lockTakenOver(p) ==
  /\ proc[p].at = "lock" /\ lock[Target(p)] # None
  /\ lock' = [lock EXCEPT ![Target(p)] = p]
  /\ Goto(p, "reload")
  /\ FilesOnly /\ UNCHANGED <<file, installed, arrived>>

\* Mutation of lockTimesOut: no deadline.
lockWaitsForever(p) == FALSE /\ Return(p, "timed_out") /\ Reads

\* acquireRegistryLock creates the lock file or gives up at its deadline.
acquireRegistryLock(p) ==
  /\ proc[p].at = "lock" /\ lock[Target(p)] = None
  /\ lock' = [lock EXCEPT ![Target(p)] = p]
  /\ Goto(p, "reload")
  /\ FilesOnly /\ UNCHANGED <<file, installed, arrived>>

lockTimesOut(p) ==
  /\ proc[p].at = "lock" /\ lock[Target(p)] # None
  /\ Return(p, "timed_out")
  /\ Reads

\* Mutation of Refusal: the registration looks at what it read before the lock.
RefusalStale(p, apis) ==
  CASE proc[p].op = "register" /\ proc[p].apis[proc[p].name] # Missing /\ ~proc[p].force ->
         "conflict"
    [] proc[p].op = "set-credential-ref" /\ apis[proc[p].name] = Missing -> "not_found"
    [] OTHER -> ""

\* What the command makes of the APIs, or why it refuses.
Refusal(p, apis) ==
  CASE proc[p].op = "register" /\ apis[proc[p].name] # Missing /\ ~proc[p].force -> "conflict"
    [] proc[p].op = "set-credential-ref" /\ apis[proc[p].name] = Missing -> "not_found"
    [] OTHER -> ""

Change(p, apis) ==
  CASE proc[p].op = "register" ->
         [apis EXCEPT ![proc[p].name] = [owner |-> p, ref |-> None]]
    [] proc[p].op = "set-credential-ref" -> [apis EXCEPT ![proc[p].name].ref = p]
    [] proc[p].op = "delete" -> [apis EXCEPT ![proc[p].name] = Missing]
    [] proc[p].op = "migrate-registry" ->
         [n \in Names |-> IF n \in proc[p].source
                          THEN Holding(proc[p].source, "global")[n] ELSE apis[n]]
    [] OTHER -> apis

\* Mutation of Reloaded: the registry is not read again under the lock.
ReloadedNot(p) == proc[p].apis

\* withWrite up to the save: what is on disk now, if there is a file, and the
\* refusal of raw credentials.
Reloaded(p) == IF file[Target(p)].present THEN file[Target(p)].apis ELSE proc[p].apis

withWrite(p) ==
  /\ proc[p].at = "reload" /\ proc[p].op # "scrub-credentials"
  /\ LET apis == Reloaded(p)
         no   == IF file["context"].legacy THEN "legacy_credentials" ELSE Refusal(p, apis)
     IN  proc' = [proc EXCEPT ![p].at = IF no = "" THEN "save" ELSE "release",
                              ![p].apis = IF no = "" THEN Change(p, apis) ELSE apis,
                              ![p].result = no]
  /\ Reads

\* Mutation of saveLocked: a failed rename is not noticed.
saveLockedUnnoticed(p) ==
  /\ proc[p].at = "save"
  /\ proc' = [proc EXCEPT ![p].at = "release", ![p].result = "ok"]
  /\ \/ /\ file' = [file EXCEPT ![Target(p)] = Stored(proc[p].apis, FALSE)]
        /\ installed' = installed \cup {p}
        /\ arrived' = arrived \cup {n \in Names : proc[p].apis[n] # Missing}
     \/ UNCHANGED <<file, installed, arrived>>
  /\ FilesOnly /\ UNCHANGED lock

\* saveLocked: the temporary file is complete before the rename; it fails as
\* a whole or is installed.  Raw credentials are not written again.
saveLocked(p) ==
  /\ proc[p].at = "save"
  /\ \/ /\ file' = [file EXCEPT ![Target(p)] = Stored(proc[p].apis, FALSE)]
        /\ proc' = [proc EXCEPT ![p].at = "release", ![p].result = "ok"]
        /\ IF Target(p) = "context"
             THEN /\ installed' = installed \cup {p}
                  /\ arrived' = arrived \cup {n \in Names : proc[p].apis[n] # Missing}
             ELSE UNCHANGED <<installed, arrived>>
     \/ /\ proc' = [proc EXCEPT ![p].at = "release", ![p].result = "io"]
        /\ UNCHANGED <<file, installed, arrived>>
  /\ FilesOnly /\ UNCHANGED lock

\* Mutation of AfterRelease: the global registry goes whatever the save did.
AfterReleaseAlways(p) ==
  CASE proc[p].op = "migrate-registry" -> "remove"
    [] proc[p].op = "scrub-credentials" /\ proc[p].result = "ok" /\ Len(proc[p].todo) > 1 -> "stat"
    [] OTHER -> "done"

\* Mutation of AfterRelease: a scrub ends with the first registry it wrote.
AfterReleaseFirst(p) ==
  IF proc[p].op = "migrate-registry" /\ proc[p].result = "ok" THEN "remove" ELSE "done"

\* release, and what the command goes on to: a migration removes the global
\* registry, a scrub takes the next registry.
AfterRelease(p) ==
  CASE proc[p].op = "migrate-registry" /\ proc[p].result = "ok" -> "remove"
    [] proc[p].op = "scrub-credentials" /\ proc[p].result = "ok" /\ Len(proc[p].todo) > 1 -> "stat"
    [] OTHER -> "done"

release(p) ==
  /\ proc[p].at = "release"
  /\ lock' = [lock EXCEPT ![Target(p)] = None]
  /\ IF AfterRelease(p) = "done" THEN Return(p, proc[p].result)
     ELSE proc' = [proc EXCEPT ![p].at = AfterRelease(p), ![p].apis = Empty,
            ![p].todo = IF @ = <<>> THEN <<>> ELSE Tail(@)]
  /\ FilesOnly /\ UNCHANGED <<file, installed, arrived>>

-----------------------------------------------------------------------------
(* ScrubAllRegistries *)

\* A registry that is missing is done.
ScrubStat(p) ==
  /\ proc[p].at = "stat"
  /\ CASE file[Target(p)].present -> Goto(p, "lock")
       [] ~file[Target(p)].present /\ Len(proc[p].todo) > 1 ->
            proc' = [proc EXCEPT ![p].todo = Tail(@)]
       [] OTHER -> Return(p, "ok")
  /\ Reads

ScrubCredentials(p) ==
  /\ proc[p].at = "reload" /\ proc[p].op = "scrub-credentials"
  /\ LET f == file[Target(p)]
     IN  proc' = [proc EXCEPT ![p].apis = f.apis, ![p].result = "ok",
                    ![p].at = IF f.present /\ f.legacy THEN "save" ELSE "release"]
  /\ Reads

-----------------------------------------------------------------------------
(* MigrateGlobalRegistry *)

MigrateInspect(p) ==
  /\ proc[p].at = "inspect" /\ proc[p].op = "migrate-registry"
  /\ IF file["global"].present THEN Goto(p, "source") ELSE Return(p, "legacy_registry")
  /\ Reads

MigrateSource(p) ==
  /\ proc[p].at = "source"
  /\ IF file["global"].legacy THEN Return(p, "legacy_credentials")
     ELSE proc' = [proc EXCEPT ![p].at = "target",
            ![p].source = {n \in Names : file["global"].apis[n] # Missing}]
  /\ Reads

\* The collisions are looked for in what is on disk before the lock is taken.
MigrateTarget(p) ==
  /\ proc[p].at = "target"
  /\ IF ~proc[p].force /\ \E n \in proc[p].source : file["context"].apis[n] # Missing
     THEN Return(p, "conflict")
     ELSE proc' = [proc EXCEPT ![p].at = "lock", ![p].apis = file["context"].apis]
  /\ Reads

\* The removal fails if another migration was first, or for any other reason.
MigrateRemove(p) ==
  /\ proc[p].at = "remove"
  /\ \/ /\ file["global"].present
        /\ file' = [file EXCEPT !["global"] = Absent]
        /\ Return(p, "ok")
     \/ /\ Return(p, "not_removed")
        /\ UNCHANGED file
  /\ FilesOnly /\ UNCHANGED <<lock, installed, arrived>>

-----------------------------------------------------------------------------
(* SetCurrentContext *)

\* Without a file, a default one is written for the default context.
ContextInspect(p) ==
  /\ proc[p].at = "inspect" /\ proc[p].op = "context-set"
  /\ \/ config.present /\ Goto(p, "read")
     \/ /\ ~config.present
        /\ IF proc[p].name \in defaultConfig.contexts
           THEN Goto(p, "recheck")
           ELSE Return(p, "not_configured")
  /\ Reads

ContextRead(p) ==
  /\ proc[p].at = "read"
  /\ IF proc[p].name \in config.contexts
     THEN proc' = [proc EXCEPT ![p].at = "recheck", ![p].base = config]
     ELSE Return(p, "not_configured")
  /\ Reads

\* replaceConfigFile: the replacement is written, the file is compared with
\* what was read, and the replacement is renamed over it.
Replacement(p) ==
  [IF proc[p].base.present THEN proc[p].base ELSE defaultConfig
     EXCEPT !.current = proc[p].name]

replaceRecheck(p) ==
  /\ proc[p].at = "recheck"
  /\ \/ Return(p, "io")
     \/ /\ config # proc[p].base
        /\ Return(p, "config_changed")
     \/ /\ config = proc[p].base
        /\ Goto(p, "rename")
  /\ Reads

replaceRename(p) ==
  /\ proc[p].at = "rename"
  /\ \/ /\ config' = Replacement(p)
        /\ installed' = installed \cup {p}
        /\ Return(p, "ok")
     \/ /\ Return(p, "io")
        /\ UNCHANGED <<config, installed>>
  /\ UNCHANGED <<file, lock, crashes, arrived>>

-----------------------------------------------------------------------------

\* A process dies; files and lock files stay.
Crash(p) ==
  /\ proc[p].at \notin {"idle", "done", "dead"} /\ crashes < MaxCrashes
  /\ crashes' = crashes + 1
  /\ proc' = [proc EXCEPT ![p] = [Idle EXCEPT !.at = "dead"]]
  /\ UNCHANGED <<file, lock, config, installed, arrived>>

\* The user edits the configuration, and may create it.
Edit ==
  /\ config.edit < MaxEdits
  /\ \E current \in Contexts :
       config' = [present |-> TRUE, contexts |-> Contexts, current |-> current,
                  edit |-> config.edit + 1]
  /\ UNCHANGED <<file, lock, proc, crashes, installed, arrived>>

Step(p) ==
  \/ NewRegistryForContext(p) \/ load(p) \/ acquireRegistryLock(p) \/ lockTimesOut(p)
  \/ withWrite(p) \/ saveLocked(p) \/ release(p)
  \/ ScrubStat(p) \/ ScrubCredentials(p)
  \/ MigrateInspect(p) \/ MigrateSource(p) \/ MigrateTarget(p) \/ MigrateRemove(p)
  \/ ContextInspect(p) \/ ContextRead(p) \/ replaceRecheck(p) \/ replaceRename(p)

Next == (\E p \in Proc : Start(p) \/ Step(p) \/ Crash(p)) \/ Edit

Spec == Init /\ [][Next]_vars

\* A process that is running goes on, or dies.
FairSpec == Spec /\ \A p \in Proc : WF_vars(Step(p))

-----------------------------------------------------------------------------
(* Properties *)

Entry(n) == file["context"].apis[n]
Saves(p) == proc[p].at = "save" /\ proc[p].op # "scrub-credentials"

\* The names a command is about.
Named(p) ==
  CASE proc[p].op = "migrate-registry" -> proc[p].source
    [] proc[p].op = "scrub-credentials" -> {}
    [] OTHER -> {proc[p].name}

\* No update is lost: an entry of the registry changes only in the save of a
\* command about that name, however the commands of other processes, their
\* deadlines and their deaths are interleaved (withWrite, saveLocked).
EntriesChangeByName ==
  [][\A n \in Names :
       Entry(n)' # Entry(n) =>
         \E p \in Proc : Saves(p) /\ proc'[p].at = "release" /\ n \in Named(p)]_vars

\* Nothing is replaced without --force: an entry that another registration or
\* migration wrote survives every registration and migration that is not
\* forced (RegisterWithOptions, MigrateGlobalRegistry).
ReplacedOnlyByForce ==
  [][\A p \in Proc :
       Saves(p) /\ proc'[p].at = "release" /\ ~proc[p].force
         /\ proc[p].op \in {"register", "migrate-registry"} =>
       \A n \in Names : Entry(n) # Missing => Entry(n)' = Entry(n)]_vars

\* A command answers what it did: success and failure are what it installed,
\* also when its save fails or it gives up on the lock; a migration that
\* succeeded left no global registry, and one that wrote the context registry
\* and could not remove the global one says so.
AnswersAreTrue ==
  \A p \in Proc : proc[p].at = "done" =>
    /\ proc[p].op \in {"register", "set-credential-ref", "delete", "context-set"} =>
         (proc[p].result = "ok" <=> p \in installed)
    /\ proc[p].op = "migrate-registry" =>
         /\ proc[p].result \in {"ok", "not_removed"} <=> p \in installed
         /\ proc[p].result = "ok" => ~file["global"].present

\* The global registry goes only once every API it held has been in the
\* context registry, wherever the migration dies (MigrateGlobalRegistry).
MigrationMovesEverything == ~file["global"].present => GlobalNames \subseteq arrived

\* A scrub that answers success left no raw credentials in any registry,
\* although it goes through them one by one while others write, migrate and
\* remove them (ScrubAllRegistries).
ScrubLeavesNone ==
  \A p \in Proc :
    proc[p].at = "done" /\ proc[p].op = "scrub-credentials" /\ proc[p].result = "ok" =>
      \A f \in Places : ~file[f].legacy

\* "An external change between the read and the rename is refused": a switch
\* replaces the configuration it read (SetCurrentContext).  It does not hold:
\* a change that comes after the comparison is overwritten.
ChangesAreRefused ==
  [][\A p \in Proc :
       proc[p].at = "rename" /\ p \in installed' \ installed => config = proc[p].base]_vars

\* In a state of the right types, whoever holds a lock file is between its
\* lock and its release, or died there; nobody else is (acquireRegistryLock,
\* release).
LocksAreOwned ==
  /\ TypeOK
  /\ \A p \in Proc : proc[p].at \in {"reload", "save", "release"} => lock[Target(p)] = p
  /\ \A f \in Places : lock[f] # None =>
       proc[lock[f]].at \in {"reload", "save", "release", "dead"}

\* Every command returns, also behind a lock file that nobody will remove: in
\* the end no process is between its start and its end.
CommandsReturn == <>[](\A p \in Proc : proc[p].at \in {"idle", "done", "dead"})
=============================================================================
