------------------------------- MODULE UnitRun -------------------------------
(***************************************************************************)
(* The task loop of Executor::execute_unit with run_or_restore, for one    *)
(* unit over several invocations of `monad ci`, `monad deploy` and `monad  *)
(* notify`.  The tasks run in name order; a plain task restores its output *)
(* from the local or the remote cache or runs its command, with retries; a *)
(* deploy task is skipped when deploys.json has its key, and ships the     *)
(* outputs of the tasks it depends on.  The sources may change under a     *)
(* running task, and a bundle may break on disk.  The contents of a file,  *)
(* bundle or artefact is the version of the sources it was made from.      *)
(***************************************************************************)
EXTENDS Naturals, Sequences, FiniteSets, SequencesExt

CONSTANTS
  Tasks,      \* names of the resolved tasks, in BTreeMap order
  Kind,       \* integration_kind of each task, "none" for adapter and user tasks
  Retry,      \* retry of each task
  Deps,       \* depends_on of each task
  Versions,   \* versions of the sources
  First,      \* the one they are in before the first invocation
  None,       \* nothing there
  Partial,    \* what a command that failed half-way leaves, in the tree or on the platform
  Broken,     \* a bundle that does not extract
  Remote,     \* whether a remote cache is configured
  Options,    \* the CiOptions to consider
  MaxRuns,    \* bound on the invocations
  MaxEdits,   \* bound on the source edits
  MaxOutside  \* bound on what others do to the caches

Names     == ToSet(Tasks)
Kinds     == {"none", "deploy", "deploy_preview", "release", "notify"}
Plain     == {t \in Names : Kind[t] = "none"}
Shippers  == {t \in Names : Kind[t] \in {"deploy", "deploy_preview"}}
Notifiers == {t \in Names : Kind[t] = "notify"}

(* Only integrations declare task dependencies, and only on plain tasks    *)
(* whose names come before theirs.                                         *)
ASSUME TasksAreNamed ==
  /\ Tasks \in Seq(Names) /\ IsInjective(Tasks)
  /\ Kind \in [Names -> Kinds] /\ Retry \in [Names -> Nat]
  /\ \A t \in Plain : Deps[t] = {}
  /\ \A i \in DOMAIN Tasks : Deps[Tasks[i]] \subseteq Plain \cap {Tasks[j] : j \in 1..(i - 1)}
ASSUME BoundsAreNat == MaxRuns \in Nat /\ MaxEdits \in Nat /\ MaxOutside \in Nat
ASSUME MarkersAreDistinct == {None, Partial, Broken} \cap Versions = {} /\ First \in Versions
ASSUME NoneIsNoDeployKey == None \notin UNION {[S -> Versions] : S \in SUBSET Names}

VARIABLES
  src,        \* the version of the sources
  out,        \* what is in the output paths of each plain task
  live,       \* what the platform serves for each deploying task
  local,      \* LocalCache: the bundle of each plain task and key
  remote,     \* RemoteCache: likewise
  record,     \* DeployState: the key of the last recorded deploy
  sidecar,    \* .monad/notification: outcome of the last deploy row
  opts,       \* CiOptions of the invocation, None between invocations
  pc,         \* where it is
  i,          \* index of the task in hand
  keys,       \* computed_task_keys
  attempt,    \* the retry loop
  rows,       \* exec_tasks
  stats,      \* UnitStats
  raced,      \* history: keys computed before an edit that the task then saw
  runs, edits, outside

world == <<src, out, live, local, remote, record, sidecar>>
frame == <<opts, raced, runs, edits, outside>>
vars  == <<world, pc, i, keys, attempt, rows, stats, frame>>

Counters == {"tasks", "hits", "built", "failed", "unchanged", "flaky", "notify_failures"}
NoStats  == [c \in Counters |-> 0]
Places   == {"off", "loop", "local", "remote", "run", "store", "push", "sidecars",
             "notify", "replay", "end", "errored"}
Outcomes == {"hit", "built", "failed", "unchanged"}

Task     == Tasks[i]
Idle     == pc = "off"
Nothing  == [t \in Shippers |-> None]

(* CiOptions::task_allowed. *)
Allowed(t) ==
  /\ Kind[t] # "notify"
  /\ Kind[t] = "none" => opts.task_filter = {} \/ t \in opts.task_filter
  /\ Kind[t] # "none" =>
       IF opts.kind = "any" THEN Kind[t] = "release" ELSE Kind[t] = opts.kind

Init ==
  /\ src = First
  /\ out = [t \in Plain |-> None]
  /\ live = Nothing /\ record = Nothing /\ sidecar = Nothing
  /\ local = [t \in Plain |-> [v \in Versions |-> None]]
  /\ remote = local
  /\ opts = None
  /\ pc = "off" /\ i = 1 /\ keys = <<>> /\ attempt = 0
  /\ rows = <<>> /\ stats = NoStats
  /\ raced = {} /\ runs = 0 /\ edits = 0 /\ outside = 0

(* A new invocation: execute_unit up to the task loop, or notify_only_unit. *)
Start(o) ==
  /\ Idle /\ runs < MaxRuns
  /\ opts' = o
  /\ pc' = IF o.notify_only THEN "replay" ELSE "loop"
  /\ i' = 1 /\ keys' = <<>> /\ attempt' = 0
  /\ rows' = <<>> /\ stats' = NoStats
  /\ runs' = runs + 1
  /\ UNCHANGED <<world, raced, edits, outside>>

Bump(counters) == [c \in Counters |-> stats[c] + (IF c \in counters THEN 1 ELSE 0)]

Counted(outcome, attempts) ==
  {"tasks", IF outcome = "hit" THEN "hits" ELSE outcome}
    \cup (IF outcome = "built" /\ attempts > 1 THEN {"flaky"} ELSE {})

\* Mutant: the loop goes on after a failure.
Stops_Never(outcome) == FALSE

Stops(outcome) == outcome = "failed" /\ opts.fail_fast

(* One row of the report, the counters, record_deploy for a deploy that    *)
(* was built, and the break of the inner fail_fast.                        *)
Close(outcome, attempts) ==
  /\ rows' = Append(rows, [task |-> Task, outcome |-> outcome, attempts |-> attempts,
                           trigger |-> None])
  /\ stats' = Bump(Counted(outcome, attempts))
  /\ IF Stops(outcome)
       THEN pc' = "sidecars" /\ i' = i
       ELSE pc' = "loop" /\ i' = i + 1
  /\ record' = IF outcome = "built" /\ Task \in Shippers
                 THEN [record EXCEPT ![Task] = keys[Task]] ELSE record

SkipTask ==
  /\ pc = "loop" /\ i <= Len(Tasks)
  /\ ~ Allowed(Task)
  /\ i' = i + 1
  /\ UNCHANGED <<world, pc, keys, attempt, rows, stats, frame>>

LoopEnds ==
  /\ pc = "loop" /\ i > Len(Tasks)
  /\ pc' = "sidecars"
  /\ UNCHANGED <<world, i, keys, attempt, rows, stats, frame>>

(* A required variable or binary of an integration is missing: the row has *)
(* no key, and later tasks do not see one.                                 *)
PreflightFails ==
  /\ pc = "loop" /\ i <= Len(Tasks) /\ Allowed(Task)
  /\ Task \notin Plain
  /\ Close("failed", 0)
  /\ UNCHANGED <<src, out, live, local, remote, sidecar, keys, attempt, frame>>

(* compute_key returns an error: `?` leaves execute_unit without sidecars. *)
KeyFails ==
  /\ pc = "loop" /\ i <= Len(Tasks) /\ Allowed(Task)
  /\ pc' = "errored"
  /\ UNCHANGED <<world, i, keys, attempt, rows, stats, frame>>

\* Mutant: depends_on does not enter the key of a deploy.
KeyOf_NoTaskDeps(t) == IF t \in Plain THEN src ELSE <<>>

(* The key of a plain task covers the sources, that of an integration task *)
(* the keys of the tasks it depends on (its own inputs default to none).   *)
KeyOf(t) ==
  IF t \in Plain THEN src ELSE [d \in Deps[t] \cap DOMAIN keys |-> keys[d]]

WithKey == [t \in DOMAIN keys \cup {Task} |-> IF t = Task THEN KeyOf(t) ELSE keys[t]]

Unchanged(t) == t \in Shippers /\ ~ opts.force_deploy /\ record[t] = KeyOf(t)

(* deploy_state_hit: the deploy counts as done. *)
DeployUnchanged ==
  /\ pc = "loop" /\ i <= Len(Tasks) /\ Allowed(Task)
  /\ Unchanged(Task)
  /\ keys' = WithKey
  /\ Close("unchanged", 0)
  /\ UNCHANGED <<src, out, live, local, remote, sidecar, attempt, frame>>

(* Otherwise run_or_restore, which skips the lookup for no_cache. *)
ComputeKey ==
  /\ pc = "loop" /\ i <= Len(Tasks) /\ Allowed(Task)
  /\ ~ Unchanged(Task)
  /\ keys' = WithKey
  /\ pc' = IF Task \in Plain /\ ~ opts.no_cache THEN "local" ELSE "run"
  /\ attempt' = 1
  /\ UNCHANGED <<world, i, rows, stats, frame>>

Bundle(cache) == cache[Task][keys[Task]]

(* The bundle of the task's key is extracted; write_through may push it.   *)
LocalHit ==
  /\ pc = "local" /\ Bundle(local) \notin {None, Broken}
  /\ out' = [out EXCEPT ![Task] = Bundle(local)]
  /\ remote' \in {remote} \cup
       (IF Remote /\ Bundle(remote) = None
          THEN {[remote EXCEPT ![Task][keys[Task]] = Bundle(local)]} ELSE {})
  /\ Close("hit", 0)
  /\ UNCHANGED <<src, live, local, sidecar, keys, attempt, frame>>

(* LocalCache::get fails, perhaps half-way: the task fails, it is not run. *)
LocalBroken ==
  /\ pc = "local" /\ Bundle(local) = Broken
  /\ out' \in {out, [out EXCEPT ![Task] = Partial]}
  /\ Close("failed", 1)
  /\ UNCHANGED <<src, live, local, remote, sidecar, keys, attempt, frame>>

LocalMiss ==
  /\ pc = "local" /\ Bundle(local) = None
  /\ pc' = IF Remote THEN "remote" ELSE "run"
  /\ UNCHANGED <<world, i, keys, attempt, rows, stats, frame>>

\* Mutant: what was fetched is not extracted.
RemoteHit_NotExtracted ==
  /\ pc = "remote" /\ Bundle(remote) \notin {None, Broken}
  /\ local' = [local EXCEPT ![Task][keys[Task]] = Bundle(remote)]
  /\ Close("hit", 0)
  /\ UNCHANGED <<src, out, live, remote, sidecar, keys, attempt, frame>>

(* RemoteCache::has and get, then LocalCache::get of what was fetched.     *)
RemoteHit ==
  /\ pc = "remote" /\ Bundle(remote) \notin {None, Broken}
  /\ local' = [local EXCEPT ![Task][keys[Task]] = Bundle(remote)]
  /\ out' = [out EXCEPT ![Task] = Bundle(remote)]
  /\ Close("hit", 0)
  /\ UNCHANGED <<src, live, remote, sidecar, keys, attempt, frame>>

\* Mutant: a remote that fails is asked again.
RemoteMiss_AsksAgain ==
  /\ pc = "remote"
  /\ UNCHANGED vars

(* A miss, any failure of the remote, or a bundle that was fetched but     *)
(* does not extract, falls through to the command.                         *)
RemoteMiss ==
  /\ pc = "remote"
  /\ \/ UNCHANGED <<local, out>>
     \/ /\ Bundle(remote) = Broken
        /\ local' = [local EXCEPT ![Task][keys[Task]] = Broken]
        /\ out' \in {out, [out EXCEPT ![Task] = Partial]}
  /\ pc' = "run"
  /\ UNCHANGED <<src, live, remote, record, sidecar, i, keys, attempt, rows, stats, frame>>

(* The command exits 0.  A build reads the sources as they are now; a      *)
(* deploy ships the outputs of its dependencies as they are now.           *)
BuildExitsZero ==
  /\ pc = "run" /\ Task \in Plain
  /\ out' = [out EXCEPT ![Task] = src]
  /\ pc' = "store"
  /\ UNCHANGED <<src, live, local, remote, record, sidecar, i, keys, attempt, rows, stats, frame>>

Artefact(t) == [d \in Deps[t] |-> out[d]]

ShipExitsZero ==
  /\ pc = "run" /\ Task \notin Plain
  /\ live' = IF Task \in Shippers THEN [live EXCEPT ![Task] = Artefact(Task)] ELSE live
  /\ Close("built", attempt)
  /\ UNCHANGED <<src, out, local, remote, sidecar, keys, attempt, frame>>

(* It exits with an error, with its outputs half written, or, of a deploy  *)
(* such as `railway up --ci` that ends in CRASHED, when the platform has   *)
(* replaced the release ...                                                *)
Spoilt == IF Task \in Plain THEN {out, [out EXCEPT ![Task] = Partial]} ELSE {out}
Wrecked == IF Task \in Shippers THEN {live, [live EXCEPT ![Task] = Partial]} ELSE {live}

CommandRetried ==
  /\ pc = "run" /\ attempt < Retry[Task] + 1
  /\ out' \in Spoilt /\ live' \in Wrecked
  /\ attempt' = attempt + 1
  /\ UNCHANGED <<src, local, remote, record, sidecar, pc, i, keys, rows, stats, frame>>

\* Mutant: the outputs of a failed command are cached.
CommandFails_Cached ==
  /\ pc = "run" /\ attempt = Retry[Task] + 1
  /\ out' \in Spoilt /\ live' \in Wrecked
  /\ pc' = "store"
  /\ UNCHANGED <<src, local, remote, record, sidecar, i, keys, attempt, rows, stats, frame>>

(* ... and so did the attempts before. *)
CommandFails ==
  /\ pc = "run" /\ attempt = Retry[Task] + 1
  /\ out' \in Spoilt /\ live' \in Wrecked
  /\ Close("failed", attempt)
  /\ UNCHANGED <<src, local, remote, sidecar, keys, attempt, frame>>

(* LocalCache::put bundles what the output paths hold, under the key. *)
StoreBundle ==
  /\ pc = "store"
  /\ local' = [local EXCEPT ![Task][keys[Task]] = out[Task]]
  /\ pc' = "push"
  /\ UNCHANGED <<src, out, live, remote, record, sidecar, i, keys, attempt, rows, stats, frame>>

(* A failed put is a warning, and nothing is pushed. *)
StoreFails ==
  /\ pc = "store"
  /\ Close("built", attempt)
  /\ UNCHANGED <<src, out, live, local, remote, sidecar, keys, attempt, frame>>

(* RemoteCache::put, if there is a remote; its failure is a warning.  The  *)
(* row of the task closes.                                                 *)
PushBundle ==
  /\ pc = "push"
  /\ remote' \in {remote} \cup
       (IF Remote THEN {[remote EXCEPT ![Task][keys[Task]] = Bundle(local)]} ELSE {})
  /\ Close("built", attempt)
  /\ UNCHANGED <<src, out, live, local, sidecar, keys, attempt, frame>>

\* Mutant: only the deploys that shipped.
DeployRows_Built ==
  {n \in DOMAIN rows : Kind[rows[n].task] = "deploy" /\ rows[n].outcome = "built"}

(* exec_tasks_index_deploys: the indices of the rows of Deploy tasks. *)
DeployRows == {n \in DOMAIN rows : Kind[rows[n].task] = "deploy"}

(* One payload per Deploy row, whatever its outcome. *)
WriteSidecars ==
  /\ pc = "sidecars"
  /\ sidecar' = [t \in Shippers |->
       IF \E n \in DeployRows : rows[n].task = t
         THEN rows[CHOOSE n \in DeployRows : rows[n].task = t].outcome
         ELSE sidecar[t]]
  /\ pc' = IF opts.run_notify THEN "notify" ELSE "end"
  /\ UNCHANGED <<src, out, live, local, remote, record, i, keys, attempt, rows, stats, frame>>

(* fan_out_notifications: every Notify task once per trigger, in parallel, *)
(* each with its own result; a failure counts apart.                       *)
Announce(triggers) ==
  LET sent   == Notifiers \X triggers
      Row(x, result) == [task |-> x[1], outcome |-> result[x], attempts |-> 1, trigger |-> x[2]]
  IN  \E result \in [sent -> {"built", "failed"}] :
        /\ rows' = rows \o SetToSeq({Row(x, result) : x \in sent})
        /\ stats' = [stats EXCEPT
             !["tasks"] = @ + Cardinality(sent),
             !["built"] = @ + Cardinality({x \in sent : result[x] = "built"}),
             !["notify_failures"] = @ + Cardinality({x \in sent : result[x] = "failed"})]

Trigger(t, outcome) == [task |-> t, outcome |-> outcome]

FanOut ==
  /\ pc = "notify"
  /\ Announce({Trigger(rows[n].task, rows[n].outcome) : n \in DeployRows})
  /\ pc' = "end"
  /\ UNCHANGED <<world, i, keys, attempt, frame>>

(* notify_only_unit: the persisted payloads are sent again. *)
Replay ==
  /\ pc = "replay"
  /\ Announce({Trigger(t, sidecar[t]) : t \in {s \in Shippers : sidecar[s] # None}})
  /\ pc' = "end"
  /\ UNCHANGED <<world, i, keys, attempt, frame>>

Exit ==
  /\ pc \in {"end", "errored"}
  /\ pc' = "off" /\ opts' = None
  /\ i' = 1 /\ keys' = <<>> /\ attempt' = 0 /\ rows' = <<>> /\ stats' = NoStats
  /\ UNCHANGED <<world, raced, runs, edits, outside>>

(* The user changes the sources; if a plain task has its key and has not   *)
(* run yet, its key and its output may differ.  Once it has run, only the  *)
(* next key looks at the sources, so an edit is as good when it is taken.  *)
Edit(v) ==
  /\ edits < MaxEdits /\ v # src
  /\ pc \in {"off", "loop", "local", "remote", "run"}
  /\ src' = v
  /\ raced' = IF pc \in {"local", "remote", "run"} /\ Task \in Plain
                THEN raced \cup {<<Task, keys[Task]>>} ELSE raced
  /\ edits' = edits + 1
  /\ UNCHANGED <<out, live, local, remote, record, sidecar, pc, i, keys, attempt, rows, stats,
                 opts, runs, outside>>

(* A bundle is damaged on disk, or was by writers the module LocalCache    *)
(* models.                                                                 *)
BundleBreaks(t, v) ==
  /\ local[t][v] # None
  /\ local' = [local EXCEPT ![t][v] = Broken]
  /\ UNCHANGED remote

(* Another machine pushes its bundle of the key, whole or damaged. *)
OtherPushes(t, v) ==
  /\ Remote /\ remote[t][v] = None
  /\ \E b \in {v, Broken} : remote' = [remote EXCEPT ![t][v] = b]
  /\ UNCHANGED local

(* Between invocations: the loop looks at a key once, so what others do in *)
(* the middle of one is seen as if done before it, or not at all.          *)
Outside(t, v) ==
  /\ outside < MaxOutside /\ pc = "off"
  /\ BundleBreaks(t, v) \/ OtherPushes(t, v)
  /\ outside' = outside + 1
  /\ UNCHANGED <<src, out, live, record, sidecar, pc, i, keys, attempt, rows, stats,
                 opts, raced, runs, edits>>

Step ==
  \/ SkipTask \/ LoopEnds \/ PreflightFails \/ KeyFails \/ DeployUnchanged \/ ComputeKey
  \/ LocalHit \/ LocalBroken \/ LocalMiss \/ RemoteHit \/ RemoteMiss
  \/ BuildExitsZero \/ ShipExitsZero \/ CommandRetried \/ CommandFails
  \/ StoreBundle \/ StoreFails \/ PushBundle
  \/ WriteSidecars \/ FanOut \/ Replay \/ Exit

Next ==
  \/ \E o \in Options : Start(o)
  \/ Step
  \/ \E v \in Versions : Edit(v) \/ (\E t \in Plain : Outside(t, v))

(* One thread runs the loop, and commands and requests end. *)
Spec == Init /\ [][Next]_vars /\ WF_vars(Step)
-----------------------------------------------------------------------------
Outputs == Versions \cup {None, Partial}
Stored  == Outputs \cup {Broken}
Rows    == [task : Names, outcome : Outcomes, attempts : Nat,
            trigger : {None} \cup [task : Shippers, outcome : Outcomes]]

TypeOK ==
  /\ src \in Versions /\ out \in [Plain -> Outputs]
  /\ local \in [Plain -> [Versions -> Stored]] /\ remote \in [Plain -> [Versions -> Stored]]
  /\ DOMAIN live = Shippers /\ DOMAIN record = Shippers
  /\ sidecar \in [Shippers -> Outcomes \cup {None}]
  /\ opts \in Options \cup {None} /\ pc \in Places /\ i \in 1..(Len(Tasks) + 1)
  /\ DOMAIN keys \subseteq Names /\ \A t \in Plain \cap DOMAIN keys : keys[t] \in Versions
  /\ attempt \in Nat /\ rows \in Seq(Rows) /\ stats \in [Counters -> Nat]
  /\ raced \subseteq Plain \X Versions

(* A bundle, local or remote, was made from the sources its key names: no  *)
(* failed attempt, no broken bundle and no interrupted download is cached  *)
(* as good.  The exception is a key computed before an edit that the       *)
(* command then read.                                                      *)
CacheIsFaithful ==
  \A t \in Plain, v \in Versions :
    /\ local[t][v] \in {None, Broken, v} \/ <<t, v>> \in raced
    /\ remote[t][v] \in {None, Broken, v} \/ <<t, v>> \in raced

(* A row that is a hit or built leaves in the tree the output of the       *)
(* sources whose key it reports, whichever cache tier or attempt it came   *)
(* from, until the invocation ends.                                        *)
GoodRowGoodOutput ==
  \A n \in DOMAIN rows :
    LET t == rows[n].task IN
      t \in Plain /\ rows[n].outcome \in {"hit", "built"} =>
        out[t] = keys[t] \/ <<t, keys[t]>> \in raced

(* Under fail_fast a deploy command runs only over dependencies that are   *)
(* in place: restored or built in this very invocation.                    *)
ShipsOnlyGoodBuilds ==
  pc = "run" /\ Task \in Shippers /\ opts.fail_fast =>
    \A d \in Deps[Task] : Allowed(d) =>
      \E n \in DOMAIN rows : rows[n].task = d /\ rows[n].outcome \in {"hit", "built"}

RowsWith(P(_)) == Cardinality({n \in DOMAIN rows : P(rows[n])})

Told(t, n) ==
  RowsWith(LAMBDA r : r.task = t /\ r.trigger = Trigger(rows[n].task, rows[n].outcome))

(* Every deploy that ran or could not is announced once to every Notify    *)
(* task of the unit, with the outcome that it has, and never twice; what   *)
(* was unchanged need not be told.                                         *)
EachDeployAnnouncedOnce ==
  pc = "end" /\ opts.run_notify /\ ~ opts.notify_only =>
    \A n \in DOMAIN rows, t \in Notifiers :
      Kind[rows[n].task] = "deploy" =>
        Told(t, n) = 1 \/ (Told(t, n) = 0 /\ rows[n].outcome = "unchanged")

(* TaskOutcome::DeployUnchanged: "the currently-deployed artefact is what  *)
(* we'd have shipped": the platform serves the outputs that are in the     *)
(* tree, whose sources may have been edited and edited back since, unless  *)
(* a build once raced with an edit, or a deploy that failed has replaced   *)
(* the release after the recorded one.                                     *)
UnchangedIsServed ==
  \A n \in DOMAIN rows :
    LET t == rows[n].task IN
      rows[n].outcome = "unchanged" =>
        live[t] \in {Artefact(t), Partial} \/ \E d \in Deps[t] : <<d, keys[d]>> \in raced

(* Every invocation comes to its end. *)
InvocationEnds == (pc # "off") ~> (pc = "off")
=============================================================================
