------------------------------ MODULE Executor ------------------------------
(***************************************************************************)
(* Executor::execute: the selected profiles one after the other; in each,  *)
(* graph::build (module DepGraph), then its levels in order, every level   *)
(* in chunks of `parallelism` units, a scope thread per unit of the chunk  *)
(* (module UnitThread), a join, the fold of the results into the report,   *)
(* the fail-fast check after the last chunk of a level, and the drain of   *)
(* the write-through uploads before Ok is returned.                        *)
(***************************************************************************)
EXTENDS DepGraph, UnitThread

CONSTANTS
  Declared,     \* the depends_on maps to consider, for all unit names
  Profiles,     \* the units of each selected profile, in profile order
  Filters,      \* --unit: the names it may leave, a set of sets of names
  Parallelism   \* defaults.parallelism

ASSUME ParallelismPositive == Parallelism \in Nat \ {0}
ASSUME ProfilesAreUnits == Profiles \in Seq(SUBSET Names) \ {<<>>}
ASSUME DeclaredAreMaps == \A f \in Declared : f \in [Names -> SUBSET Names]

VARIABLES
  declared,     \* depends_on of every unit of the workspace
  filter,       \* the names that --unit lets through
  profile,      \* index of the profile being executed
  step,         \* what execute() is doing
  current,      \* index of the level being executed
  rest,         \* targets of the level not yet spawned
  chunk,        \* units of the chunk in flight
  stop,         \* a task failed under fail_fast
  rows          \* ExecutionReport: outcome of every unit joined, by profile

xvars == <<declared, filter, profile, step, current, rest, chunk, stop, rows>>
vars  == <<gvars, tvars, xvars>>

Ended   == {"returned", "errored"}
NoRows  == [u \in Names |-> "none"]
Targets == units \cap filter

Init ==
  /\ declared \in Declared
  /\ filter \in Filters
  /\ TInit
  /\ units = Profiles[1] /\ dependsOn = [u \in Profiles[1] |-> declared[u]]
  /\ GInit
  /\ profile = 1 /\ step = "graph" /\ current = 0
  /\ rest = {} /\ chunk = {} /\ stop = FALSE
  /\ rows = [i \in DOMAIN Profiles |-> NoRows]

BuildGraph ==
  /\ step = "graph"
  /\ GNext
  /\ UNCHANGED <<tvars, xvars>>

(* `?` on graph::build, and on cascade::compute when files of a unit cannot *)
(* be read: execute returns the error at once.                             *)
GraphFails ==
  /\ step = "graph" /\ phase \in Returned
  /\ step' = "errored"
  /\ UNCHANGED <<gvars, tvars, declared, filter, profile, current, rest, chunk, stop, rows>>

(* The next level and its targets, unless the profile is over. *)
EnterLevel ==
  /\ \/ step = "graph" /\ phase = "ok"
     \/ step = "level" /\ rest = {} /\ ~ stop
  /\ current < Len(levels)
  /\ step' = "level"
  /\ current' = current + 1
  /\ rest' = levels[current + 1] \cap filter
  /\ UNCHANGED <<gvars, tvars, declared, filter, profile, chunk, stop, rows>>

(* targets.chunks(parallelism): one thread per unit of the chunk. *)
SpawnChunk ==
  /\ step = "level" /\ rest # {}
  /\ \E c \in SUBSET rest :
       /\ Cardinality(c) = Parallelism \/ (c = rest /\ Cardinality(c) < Parallelism)
       /\ chunk' = c
       /\ rest' = rest \ c
       /\ at' = [u \in Names |-> IF u \in c THEN "spawned" ELSE at[u]]
  /\ step' = "chunk"
  /\ UNCHANGED <<gvars, opts, outcome, probed, slot, installs, uploads,
                 declared, filter, profile, current, stop, rows>>

RunThreads ==
  /\ \/ \E u \in chunk : ThreadStep(u) \/ InstallPopulates(u)
     \/ \E u \in uploads : UploadEnds(u)
  /\ UNCHANGED <<gvars, xvars>>

\* Mutant: the first thread that ends ends the chunk.
Joined_First == step = "chunk" /\ \E u \in chunk : at[u] = "done"

Joined == step = "chunk" /\ \A u \in chunk : at[u] = "done"

(* All threads of the chunk are joined; the first error leaves execute     *)
(* without joining the uploads ...                                         *)
JoinErrored ==
  /\ Joined
  /\ \E u \in chunk : outcome[u] = "error"
  /\ step' = "errored"
  /\ UNCHANGED <<gvars, tvars, declared, filter, profile, current, rest, chunk, stop, rows>>

(* had_failure: some task row of the unit is Failed, and the rows of the   *)
(* notifications are among its task rows; a failed install has no row.     *)
HadFailure(u) == outcome[u] \in {"failed", "notify_failed"}

\* Mutant: the last chunk of a level decides.
StopAfter_LastChunk == opts["fail_fast"] /\ \E u \in chunk : HadFailure(u)

StopAfter == stop \/ (opts["fail_fast"] /\ \E u \in chunk : HadFailure(u))

(* ... and without one the results go into the report. *)
JoinChunk ==
  /\ Joined
  /\ \A u \in chunk : outcome[u] # "error"
  /\ rows' = [rows EXCEPT ![profile] =
                [u \in Names |-> IF u \in chunk THEN outcome[u] ELSE @[u]]]
  /\ stop' = StopAfter
  /\ chunk' = {}
  /\ step' = "level"
  /\ UNCHANGED <<gvars, tvars, declared, filter, profile, current, rest>>

\* Mutant: one level less.
ProfileOver_Early ==
  \/ step = "graph" /\ phase = "ok" /\ current = Len(levels)
  \/ step = "level" /\ rest = {} /\ (stop \/ current + 1 >= Len(levels))

(* After the last level, or after a level that set stop. *)
ProfileOver ==
  \/ step = "graph" /\ phase = "ok" /\ current = Len(levels)
  \/ step = "level" /\ rest = {} /\ (stop \/ current = Len(levels))

(* The next profile: a fresh graph, no unit of it has run.  The install    *)
(* scopes belong to the Executor and stay.                                 *)
NextProfile ==
  /\ ProfileOver /\ ~ stop /\ profile < Len(Profiles)
  /\ profile' = profile + 1
  /\ step' = "graph" /\ current' = 0
  /\ units' = Profiles[profile + 1]
  /\ dependsOn' = [u \in Profiles[profile + 1] |-> declared[u]]
  /\ phase' = "edges" /\ remaining' = [u \in Profiles[profile + 1] |-> 0]
  /\ ready' = {} /\ level' = {} /\ todo' = {} /\ levels' = <<>>
  /\ at' = [u \in Names |-> "idle"] /\ outcome' = NoRows
  /\ installs' = [u \in Names |-> 0]
  /\ UNCHANGED <<opts, probed, slot, uploads, declared, filter, rest, chunk, stop, rows>>

(* drain_write_throughs joins every upload, then Ok(report). *)
DrainAndReturn ==
  /\ ProfileOver /\ (stop \/ profile = Len(Profiles))
  /\ uploads = {}
  /\ step' = "returned"
  /\ UNCHANGED <<gvars, tvars, declared, filter, profile, current, rest, chunk, stop, rows>>

Main == BuildGraph \/ GraphFails \/ EnterLevel \/ SpawnChunk \/ JoinErrored \/ JoinChunk
        \/ NextProfile \/ DrainAndReturn

Next == Main \/ RunThreads

(* execute() itself never waits but for its threads, and a thread goes on: *)
(* installs, task commands and uploads end.                                *)
Fairness ==
  /\ WF_vars(Main)
  /\ \A u \in Names : /\ WF_vars(ThreadStep(u) /\ UNCHANGED <<gvars, xvars>>)
                      /\ WF_vars(UploadEnds(u) /\ UNCHANGED <<gvars, xvars>>)

Spec == Init /\ [][Next]_vars /\ Fairness
-----------------------------------------------------------------------------
TypeOK ==
  /\ GTypeOK /\ TTypeOK
  /\ declared \in Declared /\ filter \in Filters
  /\ profile \in DOMAIN Profiles
  /\ step \in {"graph", "level", "chunk"} \cup Ended
  /\ current \in 0..Len(levels)
  /\ rest \subseteq Targets /\ chunk \subseteq Targets /\ stop \in BOOLEAN
  /\ rows \in [DOMAIN Profiles -> [Names -> Outcomes]]

(* Under fail_fast a failed task holds back every later level and every    *)
(* later profile (its own level still runs to the end).                    *)
FailFastHoldsBack ==
  opts["fail_fast"] =>
    /\ \A i, j \in DOMAIN levels : \A u \in levels[i], v \in levels[j] :
         i < j /\ outcome[u] = "failed" => at[v] = "idle"
    /\ \A i \in DOMAIN Profiles, u \in Names :
         i < profile => rows[i][u] # "failed"

(* exit_code: 0 unless a task or an install failed; notifications do not   *)
(* count.                                                                  *)
ExitsGreen ==
  /\ step = "returned"
  /\ \A i \in DOMAIN Profiles, u \in Names : rows[i][u] \notin {"failed", "install_failed"}

EveryTargetRan ==
  \A i \in DOMAIN Profiles : \A u \in Profiles[i] \cap filter :
     rows[i][u] \in {"ok", "skipped", "notify_failed"}

(* A process that exits 0, its notifications delivered, has a good row for *)
(* every target of every selected profile: nothing was dropped by a level, *)
(* a chunk, a stop or a profile switch.                                    *)
GreenExitIsComplete ==
  ExitsGreen
    /\ (\A i \in DOMAIN Profiles, u \in Names : rows[i][u] # "notify_failed")
    => EveryTargetRan

(* One thread at a time installs in a scope, and a task runs only over     *)
(* dependencies that were installed, or that the probe saw.                *)
InstallsAreExclusive ==
  /\ \A s \in Scopes :
       Cardinality({u \in Names : Scope[u] = s /\ at[u] = "installing"})
         = (IF slot[s] = "running" THEN 1 ELSE 0)
  /\ \A u \in Names : at[u] = "tasks" /\ ~ opts["skip_install"] =>
       \/ slot[Scope[u]] = "ok"
       \/ (probed[u] = "ready" /\ ~ opts["force_install"])

(* A failed install is final: a unit of the scope that has seen it, or that *)
(* must install, runs no task, in this profile or in a later one.  (One     *)
(* whose own directory the half-done install filled may run: the probe      *)
(* looks at the unit, the slot belongs to the scope.)                       *)
BrokenInstallStopsScope ==
  \A u \in Names :
    slot[Scope[u]] = "failed"
      /\ (installs[u] = 1 \/ (opts["force_install"] /\ ~ opts["skip_install"]))
    => at[u] # "tasks" /\ outcome[u] \notin {"ok", "failed"}

(* execute() returns: no thread waits for a slot for ever and every level, *)
(* chunk and profile comes to its end.                                     *)
ExecuteReturns == <>(step \in Ended)

(* The executor implements OrderedRun. *)
Progress(u) == CASE at[u] = "idle" -> "waiting"
                 [] at[u] = "done" -> "finished"
                 [] OTHER          -> "running"

Ordered == INSTANCE OrderedRun WITH
  Units <- Names,
  needs <- [u \in Names |-> IF u \in Targets THEN dependsOn[u] \cap filter ELSE {}],
  run   <- [u \in Names |-> Progress(u)]

ImplementsOrderedRun == Ordered!Spec

(* graph.rs: the graph is used to "refuse to start a dependent unit until  *)
(* all its deps have finished successfully".                               *)
DependentsWaitForSuccess ==
  \A u \in Targets : at[u] # "idle" =>
    \A d \in dependsOn[u] \cap filter : outcome[d] \in {"ok", "skipped", "notify_failed"}

(* docs/deploying.md on notifications: "Failures never fail the build": a   *)
(* process that exits 0 has run every target, its notifications delivered  *)
(* or not.                                                                 *)
FailedNotifyStopsNothing == ExitsGreen => EveryTargetRan
=============================================================================
