# A TLA+ model of monad

`monad` builds and deploys monorepos: it reads `unit.toml` files, orders units by
their `depends_on`, installs toolchains and packages, runs or restores tasks through
a content-addressed cache, deploys, and notifies. This directory holds TLA+ modules
for the parts of it that are hard to test, the TLC configurations that check
them on small instances, and proofs checked by TLAPS. Paths below are relative to the
repository; `run.rs` is `crates/monad-core/src/run.rs`.

## The system

| part | state it keeps | operations | talks to |
|---|---|---|---|
| dependency graph (`monad-core/graph.rs`) | in-degrees, queue, levels | `build` | called by the executor and the planner |
| executor, outer loop (`run.rs`, `execute`) | report, `stop`, `pending_writes` | profiles, levels, chunks, join, fold, drain | one scope thread per unit |
| unit thread (`run.rs`, `execute_unit`) | `install_scopes`: a `OnceLock` per scope | toolchain, probe, install, task loop | siblings of an install scope |
| task loop (`run.rs`, `execute_unit`, `run_or_restore`) | `computed_task_keys`, rows, counters | lookup, restore, run, retry, store, push, record, notify | both caches, deploy state, the task commands |
| deploy state (`deploy_state.rs`) | `.monad/state/deploys.json` | load, get, set, save | other invocations, through the file |
| local cache (`monad-cache/local.rs`) | `<key>.tar` files in a user-wide directory | put, get, clear | other processes, through the directory |
| remote cache, login (`remote*.rs`, `token.rs`, `login.rs`) | objects at a bucket or worker, a token | has, get, put, presigned put, login | the local cache directory, the keychain |
| planner and keys (`plan.rs`, `cascade.rs`, `key.rs`) | none | task resolution, signatures, keys, rows | the graph, the adapters, the cache |
| language adapters (`monad-adapters`) | none | detect, fingerprints, defaults, probe | the planner and the unit thread |
| integrations, secrets (`railway.rs`, ..., `secret.rs`) | secrets at the platforms | tasks, environment, put, delete | the task loop, the platforms |
| notifications (`slack_post.rs`, `linear_notify.rs`) | sidecars under `.monad/notification` | payload, replay, post, move issues | Slack, Linear |
| toolchain (`monad-toolchain`) | `<tool>/<version>` trees, `PATH` | ensure, stage, commit, list | unit threads, other processes |
| plugin host and client (`monad-plugin`) | child process, request ids | handshake, call, shutdown | a child over stdin and stdout |
| watcher (`monad-watch`, `monad dev`, `monad serve`) | event queue, child | next_batch, restart | the file system, the child |
| mcp install (`mcp.rs`) | configuration of agent clients | read, merge, replace | the clients |
| init, scaffold, migrate (`init.rs`, `scaffold.rs`, `migrate/`) | profiles, `unit.toml`, agent files | init, unit add, box add, six migrators | every later command, through the files |
| release (`release.rs`) | manifests, git index, commits, tags | bump, rewrite, check, commit, tag | cargo, git, the user |
| command line, MCP server, doctor, reports | none that others read | parse, print | everything |

What is hard about it: threads of a chunk that share an install scope and, through
`set_var`, one `PATH`; invocations that share `deploys.json`, the cache directory, the toolchain
store and configuration files; processes that are killed between an effect and the record of it;
failures that must stop some work and not other work; keys that are computed before the files
they stand for are read; requests whose answer is lost or late. `PROJECT.json` lists each of these
under `hazards` at its line, with the property that would catch it.

What makes each part correct:

- graph: every dependency in an earlier level, every unit in one level and as early as possible,
  a cycle error exactly on cyclic graphs, and an end;
- executor: a unit starts when its dependencies have finished; a failure holds back
  what it should and a green exit hides nothing; `execute` returns;
- install: one installer per scope, nothing runs over a broken install it has seen;
- task loop: a bundle is the output of the sources its key names, a good row leaves a
  good output, a deploy ships good builds, each deploy is announced once;
- deploy state: records name keys that were shipped, the file stays whole, and a skip
  means that the platform serves what would be shipped, unless something that is named has left the record behind;
- local cache: a reader gets a whole bundle or none;
- planner: what it shows as a hit is what a run would make now; after two undisturbed runs `monad ci` finds everything built;
- remote: what was reported as pushed has arrived; a login ends and leaves a token that is found;
- toolchain: what the store lists is whole, and a tool that was ensured is found;
- plugin: an answer belongs to its request, and a call ends;
- dev and serve: after the last edit the child runs the last sources;
- mcp install: a configuration is whole at every moment, and only monad's entry changes;
- notifications: only what a deploy said is told, and only issues that a deploy which did not fail named are moved;
- init, scaffold, migrate: the workspace loads, and the user's text stays, in any sequence of commands;
- release: a tag is of one version in all that a release writes, and cargo takes the other pins for it;
- deploys: a command sees the environment it declares, of the environment that was asked for;
  a green deploy reached every service, and a secret is where the deploys of the same shell go.

## Modules

| module | models | checked by |
|---|---|---|
| `UnitNames` | the unit names, a finite set | all about units |
| `DepGraph` | `graph::build` | `MCDepGraph` |
| `DepGraph_proofs` | theorems about it | tlapm |
| `Adapters` | the thirteen language adapters as records of facts | `MCDepGraph`, `MCServices` |
| `Planner` | `resolve_tasks`, `compute_key`, `cascade::compute`, plan and ci; extends `Adapters` | `MCDepGraph` |
| `Planner_proofs` | theorems about both | tlapm |
| `UnitThread` | `execute_unit` up to the task loop, `ensure_installed` | `MCExecutor` |
| `Executor` | `execute`; extends `DepGraph` and `UnitThread` | `MCExecutor` |
| `Executor_proofs` | theorems about it, on top of `DepGraph_proofs` | tlapm |
| `OrderedRun` | abstract: what the executor promises about order | refined by `Executor` |
| `UnitRun` | the task loop, `run_or_restore`, sidecars, notifications, `monad notify` | `MCUnitRun` |
| `UnitRun_proofs` | theorems about it | tlapm |
| `DeployState` | `deploys.json` under several invocations | `MCDeployState` |
| `DeployState_proofs` | theorems about it | tlapm |
| `LocalCache` | the files of one cache key under several processes | `MCLocalCache` |
| `LocalCache_proofs` | theorems about it | tlapm |
| `AtomicCache` | abstract: one key of a cache directory | refined by `LocalCache` |
| `Toolchain` | `ensure_toolchain`, `Installer`, `Store`, `PATH`, `monad toolchain` | `MCServices` |
| `Plugins` | a plugin, its client and the adapter that shares it | `MCServices` |
| `Supervise` | `monad dev`, `monad serve`, `UnitWatcher` | `MCServices` |
| `HostedCache` | login, token, `BearerRemote::put` | `MCServices` |
| `McpInstall` | `monad mcp install` and the clients | `MCServices` |
| `Announce` | payload, replay, Slack and Linear | `MCServices` |
| `Migrators` | what each of six migrators makes of a repository | `Setup` |
| `Setup` | init, migrate, unit add, box add, `Workspace::load`; extends `Migrators` | `MCServices` |
| `Setup_proofs` | theorems about both | tlapm |
| `Release` | `monad release` | `MCServices` |
| `Deploys` | integrations, required environment, aliases, containers, secrets | `MCServices` |
| `MCServices` | the nine parts that share no state | TLC |
| `Services_proofs` | theorems about the other eight parts and about the composition, on top of `Setup_proofs` | tlapm |

**DepGraph.** `units` and `dependsOn` are the profile as written; `remaining` is the
`BTreeMap` of in-degrees, `ready` the `VecDeque`, `levels` the result; `level` and `todo`
are the level the inner `for` is walking. `phase` is the place in `build` and, in the end,
the `Result`. The code walks a level in alphabetical order, the model in any. The edge loop is
one step: an unknown name is an error whichever edge the loop meets first.

**Adapters and Planner.** An adapter is a record of facts: the files that mark a unit, that enter its key
(`fingerprints`), that never do (`derived`), where a version is pinned, what its default tasks read and leave, which
lockfile an install writes. Files of one role are one file. `ResolveTasks` is `resolve_tasks` with its order of
precedence; `ComputeKey` is the *record* of everything that `compute_key` hashes, so that two keys are equal just when the same
was hashed; `Signatures` is `cascade::compute`. `BeginCi` and `RunUnit` are `monad ci` as the key sees it: signatures are taken once,
before anything runs, an install may write a lockfile before the first key, a build leaves its outputs in the
directory before the next. `Plan` is what `monad plan` prints. `MCDepGraph` composes the two: where the graph is the
chain of the configuration, the planner goes on from the levels that `build` has made.

**UnitThread and Executor.** `at[u]` is where the scope thread of `u` is; `outcome[u]` is
what its rows say: `skipped`, `ok`, `failed` (some task row is Failed), `notify_failed` (only
a notification row is), `install_failed` (no task rows at all) or `error` (an `Err`, which
`?` turns into the result of `execute`). `slot[s]` is the `OnceLock` of an install scope:
`WinSlot` is the caller that runs the closure, `LoseSlot` a sibling that blocks until it has a
value. `probed[u]` is what `install_probe` sees in the unit's own directory;
`InstallPopulates` lets the package manager fill the directories of the scope one by one while it
runs, and the probe of a sibling may come in between. The task loop is one step
here (`RunTasks`), with any outcome. The executor's own variables are the locals of `execute`:
`profile`, `current` (level), `rest` and `chunk` (of `targets.chunks(parallelism)`; any
units may share a chunk), `stop`, `rows`. An error leaves `execute` at once (`JoinErrored`,
`GraphFails`, which is also an error of `cascade::compute`), the other ways out drain the uploads.
A panic of a thread, which is a panic of the process, is not modelled.

**UnitRun.** One unit over several invocations. A file, a bundle or an artefact *is* the version of the
sources it was made from; `Partial` is what a failing command may leave. `KeyOf` gives
a plain task the sources as its key, and an integration task the keys of the tasks it depends on that are
in `computed_task_keys` (its own inputs default to none), as `compute_key` does. The actions follow
the loop: filter, preflight, key, deploy-state lookup, local tier, remote
tier, command with retries, `put`, `remote.put`, row, `record_deploy`, the inner fail-fast, sidecars,
fan-out. A deploy command that fails may have changed what the platform serves (`Wrecked`): `railway up --ci` exits non-zero on
`CRASHED`, after the release was replaced. `Close` is everything that happens between the result of `run_or_restore` and the next
turn of the loop. A failed `put`, `remote.put` or remote read only falls through. Notifications of one
deploy run in parallel and touch nothing they share, so a fan-out is one step. The write-through of a
local hit is part of the hit (its thread is modelled in `UnitThread`). The history variable `raced`
remembers the keys computed before an edit the command may have read.

**DeployState.** `file` is `deploys.json` and `deploys.json.tmp`; `opened[p]` is which of them the file a
process has open is now (a rename by another process moves it). `std::fs::write` is two steps, the
truncation in `SetRecord` and the write in `WriteTmp`, and a document that does not parse is `Torn`.
`mem`, `lock` are `Executor::deploy_state` and its mutex. `Start` is `Executor::new` with
`load_deploy_state`. `Faults` says what the environment may do: overlapping invocations, a kill, a failed
save, a rollback, an edit during a deploy, a deploy command that fails after the platform has replaced the release
(`late_failure`; `Served` is what may be there then). `stale`, `alone`, `overlapped`, `shipped` are history: a
slot is stale when one of these events left its record behind.

**LocalCache.** A path names an inode, so the model knows what the code relies on: `File::create` truncates
an existing file, `rename` moves it, an open file survives `remove_file`. `put` writes `<key>.tar.tmp`,
`remote.get` writes `<key>.tar.remote-tmp`, both chunk by chunk, and rename; `get` and `remote.put` read chunk
by chunk; `clear` removes files one by one; any of them may be killed. The first chunk of a bundle is
`meta.json`, without which `extract_bundle` fails; a bundle cut at an entry boundary extracts as a
smaller one.

**Toolchain.** `tree[t]` is what is under `<tool>/<version>`, `stage[i]` the staging directory of an installer, `path[p]`
the `PATH` of a process, `readPath[i]` what a thread has read of it and not yet written back. An installer is a unit
thread or `monad toolchain install`; python is delegated to `uv`, which is ensured before it (`co_required`).
Download, checksum, extraction, the existence check and the rename are steps of their own.

**Plugins.** `stdin` and `inbox` are the pipe and the channel of `reader_loop`; `holder` is the mutex of
`SubprocessAdapter`; the plugin may answer late, twice, with garbage or not at all, and leave a child that keeps the pipe open,
which may never end: `Drop` kills the plugin and joins the reader, and waits as long as that child does.

**Supervise.** `rx` is the channel of the watcher, `server` the version of the inputs the child has read. `monad dev`
creates the watcher first, `monad serve` the child first: the order is the operator `WatchesFirst`.

**HostedCache.** `token` is the environment, the keychain and the credentials file; `clock` the time a login has spent
polling; `request`, `attempt` and `answer` are one `BearerRemote::put`, in one or in three requests, each retried
once but the PUT to the presigned URL; every request may be served although its answer is lost.

**McpInstall.** The configuration of each client, its temporary file with its fixed name, and two invocations that read,
merge, write and rename while the clients write too.

**Announce.** The sidecar of each deploy, its replay, and the two commands that read a payload on stdin; `posted`,
`moved` and `commented` are Slack and the tracker. A payload names the issues in the names of task and unit (`NamedIssues`) and those in
the output, which an unchanged deploy does not have; `_linear-notify` leaves out the failed deploys only.

**Setup and Migrators.** `disk` holds what each file monad writes says; a command is the sequence of its writes, each of
which truncates before it fills, and a kill leaves the rest undone. `Faults` is `Workspace::load`, `Orphans` the scan
of doctor. A profile has a name of its own, which need not be that of its file: two profiles of one name do not load, and a command that
writes `profiles/prod.toml` beside a `main.toml` named `prod` makes such a pair, which `SetupLeavesItRunnable` names as an exception
(`Misnamed`). The names that `init` writes are taken to need no escaping, which it does not do (`init.rs:207`, `:224`). A migration is computed by a pure operator per tool from a record of what that tool's files say.

**Release.** The version in the root, in `Cargo.lock` and in each pin of a sibling, in the tree, the index and each commit; the user may repair, commit,
discard or undo between two releases. The pins of one file that a release rewrites are one (the file's), those it never rewrites
are apart: `KeptPins`, which are all pins of a member that a pattern of `members` matches, and everywhere those that are tables of their
own or for a target. `Accepts` is cargo's caret.

**Deploys.** `Resolved` is what the integrations, blocks, overrides and `[[notifications]]` of a unit resolve to; `last.sees`
is the environment the latest command got, on the host or through the container's `-e` flags. A command ends up in a `Place`: the target
it names, or for Railway the service in `RAILWAY_SERVICE` or linked with the folder where it names none (`ServiceIn`), and the account, project or environment that
its tokens are of (`AccountEnv`), so that `--env` leads a deploy elsewhere. `stored` are the secrets in each place; `monad secret` has no `--env` and runs in a
shell (`Shells`), and a call with several `--service` flags may set any nonempty part of them. `promised` is what monad said it set.
`SecretIsWhereDeploysGo` is about the deploys that see what that shell had (`AsIn`). Whether a task is skipped or retried is `UnitRun`'s business.

## Runs

Twelve runs; all but `services` (about three minutes) end within one or two minutes on two workers.

| run | instance | shows |
|---|---|---|
| `dep_graph` | every graph over up to 4 units, unknown names included; then plan and ci over a chain of 3 units, 2 languages, 2 edits, 3 runs | the properties of `build`, hits that are fresh, a ci that settles, and that `build` returns |
| `planner_pins` | one language, pins that change | violation: a bumped `[toolchain]` pin leaves every task a hit |
| `executor` | 3 units (two share a scope), 3 shapes of graph, 2 profiles, 2 filters, 5 option sets, 2 threads | `OrderedRun`, fail-fast, completeness, installs, termination |
| `executor_dependents` | one profile, fail-fast | violation: a unit starts over a dependency whose install failed |
| `executor_notify_stops` | one profile, `monad deploy` | violation: a failed notification stops later levels with exit code 0 |
| `deploy_state` | 2 invocations alive, 2 slots, 2 versions, all faults | records, file, soundness of the skip up to `stale` |
| `deploy_state_silent_skip` | overlap only | violation: a silent skip of a changed artefact |
| `unit_run` | build (1 retry), deploy, notification; 3 invocations, 2 edits, remote on, 1 event in the caches (a broken bundle, or one another machine pushed) | the six properties of the loop, termination among them |
| `unit_run_keep_going` | `fail_fast = false` | violation: a skipped deploy whose platform serves a failed build |
| `local_cache` | 3 processes, 2 bundles of 2 chunks, 5 operations, no two writers of one temporary file | `AtomicCache`, whole bundles for readers and the remote |
| `local_cache_overlap` | the same, with two writers | violation: a bundle that is not whole is visible |
| `services` | nine parts, one per behaviour (below) | thirteen properties, two of them liveness |

The violation runs are the project's findings; `PROJECT.json` quotes the comment or document each
of them contradicts. They concern what a document says, not what one may think of the design:
for instance `NeverASilentSkip` and `SkipIsSound` are the same formula but for the events that
`SkipIsSound` excepts.

**One run for nine parts.** `Toolchain`, `Plugins`, `Supervise`, `HostedCache`, `McpInstall`, `Announce`, `Setup`, `Release`
and `Deploys` share no state and no call. `MCServices` gives each behaviour one of them (`part`) and leaves the variables
of the others as they began, so that the state space is the sum of nine, and each property is about its part. The instances: two processes with three installer
threads; two callers of a plugin, three calls; two edits and two pending events; two uploaders, code lifetime 3, poll cap 2,
approval limit 4 and HTTP timeout 1 in place of 60, 900 and 10 s (only their order matters, and that a backoff can pass
the deadline); two clients, two installs; two deploys and two issues; three directories, two profiles, four repositories to begin
with and any two commands; two listed crates, a pin in a table of the root and one of a member that a pattern matches, two releases; six unit configurations and two
commands.

**Why the bounds are enough.** The graph algorithm is proved for every size; four units hold every diamond, self
loop, two cycles and a tail on a cycle. Three units and chunks of two are the least with a full chunk, a
shorter one, a dependent on two units of one level and an install scope with a sibling; the second profile
repeats a unit, so that a slot outlives a profile. A stale record needs three events (ship, ship or edit, start),
which the bounds on runs, edits and faults of `MCDeployState` hold. Two versions of the sources suffice where
properties compare with one other version. A chain of three is the least in which a dependent must follow a unit it does not name;
two edits take an edit back. A torn bundle needs two chunks and a reader beside two writers: three
processes. A torn configuration needs two commands, the one that is killed and the one that comes after; a mixed tag needs a
release that stops and one that begins over what it left. The bounds (`MaxRuns`, `MaxEdits`, `MaxRounds`, `MaxFaults`, `MaxOutside`,
`MaxOps`, `MaxCalls`, `MaxEvents`, `MaxDeploys`, `MaxSetups`, `MaxReleases`, `MaxCommands`) are guards of the actions
that start something new, never of a step of something begun, so they cut no operation in half; `MaxStdin` and `MaxInbox` are the
capacities of pipes. Symmetry is used in `deploy_state` and `local_cache`, over processes, slots and values that no action
tells apart.

**Deadlock** checking is off: an `execute` that has returned, an invocation budget that is used up, and a
`build` that has returned are meant to stop. What must not stop is stated as `ExecuteReturns`, `InvocationEnds`,
`BuildReturns`, `PluginCallEnds` and `EditsAreServed`.

**Fairness.** `DepGraph`: `build` is a loop of one thread, it goes on (WF of its next step). `Executor`: weak
fairness of the main thread and of each unit thread and upload; the operating system schedules threads, and
installs, commands and uploads are taken to end, which the code does not enforce (it sets no time limit on a
command). `InstallPopulates` has no fairness. `UnitRun`: weak fairness of the loop, none of the next
invocation, the edits or the damage. `DeployState`: its properties are safety; the fairness there says that a
running invocation goes on. `LocalCache` states none. `MCServices`: weak fairness of the client of a plugin and of its deadline
(`recv_timeout` returns), of the reader once its pipe is at an end, and of the loop of `supervise_unit`; nothing is asked of the plugin itself, of a
child it has left, the user, the network or the other parts. `PluginCallEnds` says that each call ends, and that a client that is
dropped is gone some time, unless a child of the plugin holds the pipe for ever.

**Type invariants.** One per module, and proved of all but one. Those of `DepGraph` and `DeployState` are properties of their runs; those
of the nine parts are together `ServicesTypeOK`; those of `Executor`, `UnitRun` and `LocalCache` are not among the properties
of the runs, on whose instances they hold as well. `PlannerTypeOK` holds on its instance; what the proofs need of it is `PlanInv`.

## Proofs

What a theorem says holds for every value of the constants that satisfies the assumptions its module names: any number of
units, processes, slots, tasks, clients, and any bounds. Every argument is an inductive invariant: it holds at the start, every
action keeps it (one lemma per action), and it implies the property. Every invariant, every action property and both
refinements that a run checks are proved; liveness is not.

**The planner** (`Planner_proofs`; assumed: units come after what they depend on in the order, each is in it once, and what a build leaves
is `output` or `vendor`). The keys, signatures and sources are recursive functions along the order. The library's induction theorems
take an operator, so `NumberInduction` proves induction for a set instead, from the pigeonhole principle; with it
`SigNodesExist` and `SourceNodesExist` show that the functions exist and `OrderInduction` carries a fact along the order.
`PlanIsShaped` says which files a unit may have. It needs of the thirteen adapters that the lockfile an install writes is in the
fingerprints and marks no other language, and that what a build leaves is no mark (`AdaptersAreOrderly`); then no
step changes the adapter of a unit (`DetectStays`).

- `HitsAreFresh` (`HitIsFresh`): while a run goes on undisturbed the files have only been added to since its signatures were computed (`RunInv`), and
  every entry of the cache is `Explained`: it was made from the sources of some files that every unit still has, and its key holds
  signatures of files that these only added to. Two such keys are equal only when the sources are (`HashTells`,
  `SignatureTells` along the order, `TaskHashTells` for two units with one command), hence `HitTells`. Two premises: pins do not
  change, which `planner_pins` shows to be needed, and `KeysNameSources`, that the key of a task leaves out no file somebody edits, and
  that two units with one command leave out the same files (the key does not name the unit, so that a unit could be served the
  bundle of another). TLC finds the second true of all configurations of the runs (`ConfigsNameSources`).
- `CiDoesSettle` (`CiSettles`): after an undisturbed run, whose own entries a later key need not find, each unit has its lockfile and the outputs of its own sources (`Settled`), so the next
  run changes no file (`SettledStays`), its signatures are those of the end, and all its keys are found again (`Stored`).
- `CompositionPlans`: behaviours of `MCDepGraph` are behaviours of the planner, so both hold where the graph is built first.

**The graph** (`DepGraph_proofs`; assumed: `NamesFinite`). `BuildTypeOK`, `InDegreesAreExact`, `LayersRespectDeps`,
`LayersPartitionProfile` and `BuildAnswersExactly` are the five safety properties of `dep_graph`. The invariant of the first four
has the types, `InDegreeExact` (the counter of an unvisited unit is the number of its unvisited dependencies, and it is
in the queue or in the level just when that is none), and the place of every visited unit (in a closed level or
in the walked part of the open one). None of the four is inductive alone: that a dependency is in an *earlier* level
needs to know that a unit is queued only when all its dependencies are visited, and that what is
visited and not in the open level is in a closed one; the counter argument needs cardinalities of
finite sets, which is where `NamesFinite` and the library's facts on cardinality come in. `BuildIsExact` adds `ExactInv`: every set of
peeled units has one that depends on none of the set (`PeeledAcyclic`), and a queued unit has a dependency in the level that was
closed last (`NoIdleWait`). When the queue runs dry with units left, each of them has an unvisited
dependency, so what is left has no unit that could be first, and the graph is cyclic.

**The executor** (`Executor_proofs`; assumed: profiles are lists of sets of units, options are flags, a chunk has at least one unit).
It extends the proofs about the graph, since `execute` walks the levels that `build` made in the same behaviour.
`InstallInv` is about the scopes: a slot is `running` exactly while one thread of the scope is in its closure, and an install
that was counted has filled its slot; hence `OneInstallAtATime` (with cardinalities, since the property counts) and
`BrokenInstallIsFinal`. `MainInv` is about `execute`: `Ran`, the units of the profile that were joined, is what the levels,
`rest` and `chunk` leave out; a thread has ended if its unit is in `Ran`, may run if it is in the chunk, and is idle otherwise;
the report holds the outcomes of `Ran`; `stop` is set exactly when fail-fast has seen a failure; a profile is left only when all its
targets are in `Ran`. `FailFastIsKept` and `GreenIsComplete` follow. `ExecuteIsOrdered` is the step simulation of `OrderedRun`:
spawning a chunk maps to the starts of its units, which are allowed because what they depend on lies in an earlier level
(`LayersRespectDeps`) and so in `Ran`, and every other step to a step of the abstract machine or a stutter.

**The task loop** (`UnitRun_proofs`; assumed: the tasks of a unit have different names, integration tasks depend on plain tasks before them in the order, the markers
`None`, `Partial` and `Broken` are not versions, and the key of a deploy, a record of keys, is not `None`). One invariant,
`IInv`, gives `UnitRunTypeOK`, `CachesAreFaithful`, `GoodRowsAreTrue`, `ShipsGoodBuilds` and `DeploysAreAnnounced`. Its parts: where the
loop is (`Cursor`); that the key in hand is the one of the sources the command will read, or the pair is in `raced`
(`KeyInHand`); that rows are only of tasks behind the cursor (`RowsArePast`), without which a second row of one task could
go bad when its output is overwritten; and that under fail-fast all plain tasks behind the cursor are good (`GoodSoFar`).
`SkippedIsServed` is about several invocations, and has a premise, `DeploysAreWhole`: every invocation has `fail_fast`, and one that
deploys lets the dependencies of each deploy through its task filter. The first is what `unit_run_keep_going` shows to be needed;
the second is what `monad deploy` does (`main.rs:451`: it filters for `build`, and the deploys of the integrations depend on
`build`). `ServedInv` then says that a record names what is served, or a deploy that failed has replaced it (`RecordIsServed`), and that the key of the deploy in hand
is made of the keys of all that it ships (`ShipKeyIsWhole`).

**Deploy state** (`DeployState_proofs`; assumed: the bounds are naturals, the faults are known ones, and the markers `None`, `Torn`,
`Absent` are not hashes, slots or documents). All five properties of `deploy_state`. `RecordsWereShipped` is made inductive by
`ReadyToRecord`: a thread that is about to
record holds a key in `shipped`, which rests on the thread having computed its key before it runs; the files need
nothing more, since `WriteTmp` only writes the memory of a process and `RenameTmp` only moves what is there.
`SerialRunsKeepFileWhole` needs the whole save protocol (`SaveInv`): a thread is inside a save exactly when it
holds its process's lock (`OneSaver`), a process that is off has no thread (`OffIsIdle`), and without an overlap
there is one process, its save owns the temporary file, and the file is torn while it is being written and whole
when it is renamed (`SerialSave`). It follows that no other thread can truncate the file between
the write and the rename (`SaverIsAlone`), which is just what fails once two invocations overlap.
The two action properties, `SkipsAreSound` and `SerialRecordsStay`, need in addition what the records are worth (`SyncInv`): an
invocation beside another one has made every slot stale (`OneIsAlone`), and so has a deploy that failed late its own; for a slot that is not stale, memory names what is served, but
for a deploy about to be recorded (`MemoryIsServed`), and so does the file, but for a deploy on its way there
(`FileIsServed`); memory never drops a record of the file (`MemoryKeepsFile`).

**Local cache** (`LocalCache_proofs`; assumed: a bundle has at least one chunk, and markers are neither bundles nor inodes). The premise of
all four theorems is `~ Overlap`: no two writers of one temporary file, which is the case that `local_cache_overlap` shows to break the
comment on `put`. Under it `HitsAreNeverTorn`, `RenameIsAtomic` (the very property that run refutes), `FilesAreTyped` and, as a step
simulation, `DirectoryIsAtomic`: the directory implements `AtomicCache`. The invariant says that paths name different inodes, that a writer is
alone with its file wherever the path may have gone (`WritersAreAlone`), that what it has written is a prefix of what it is to
write (`WrittenSoFar`), and that a reader holds a whole bundle no writer will find (`ReadersHoldWhole`); the last is why a
`clear` or a rename under an open file does no harm.

**Remote cache and login** (`Services_proofs`). `PushesArrive`, for any number of uploaders and any loss of requests and
answers: the invariant adds that the request for `complete` is sent only after the bundle has landed (`CompletesLanded`); the
rest is that a put in one request is reported as done only when it was served. `LoginsTakeEffect`, for any lifetime of the code, any
intervals and any keychain: the backoff never passes its cap or the interval it began with (`IntervalIsCapped`), so the clock
stays within one interval and one exchange of the deadline (`WaitIsBounded`), and the token is where `store_cache_token` put it
(`StoredWhereItGoes`). Assumed: the bounds are naturals, and a token is not the mark for none.

**Release** (`Services_proofs`). `TagsAreOfOneVersion` proves `TagsAreWhole` for any crates, versions, bumps and number of releases. The invariant
(`Stage`) says what each stage has established: while manifests are written the index is still the last
commit and so is every file but those touched; after cargo check the tree is the release (a listed crate that needed no
rewrite is right, or cut off, which cargo refuses; a pin no release writes is one cargo takes); after `git add` the index is, after the commit its last entry. Since a
release begins only in a clean tree, what the user does in between needs no invariant beyond types. It is assumed that
the pins of listed members, those no release writes, `Cargo.toml` and `Cargo.lock` are different things.

**Five more parts** (`Services_proofs`), each from the specification of its own module, which has no fairness:

- `CallersGetTheirAnswers` (`AnswersAreOwn`): a timeout kills the child, and a child is spawned once, before anybody waits (`NothingBeforeSpawn`).
- `StoresAreWhole` (`EnsuredToolsAreThere`): what is renamed was extracted from a verified archive (`StageIsWhole`); a unit works on
  its list front first, so that one with python left has had its uv (`UvCameFirst`); and any write of `PATH`, however old the value it
  had read, adds uv again (`PathIsForUv`), which is why a lost update of `PATH` does not lose it.
- `InstallsAreClean` (`InstallIsClean`): of a client whose temporary file was not mixed one install at most is between write and
  rename (`OneWriter`), the temporary file is then its document (`TmpIsMine`), and the document has of others' entries
  what the file has until somebody else writes it (`DocumentIsFresh`).
- `DeploysAreTold` (`OnlyDeploysAreTold`): a payload on disk or in the hands of a teller was made by a deploy (`SidecarsAreEarned`,
  `UnsentAreEarned`), and one that was skipped as unchanged names no issue but those of its names (`OnlyRunsNameIssues`). Assumed: the deploys are finitely many, since
  the replay lists them.
- `DeploysHaveAll` (`DeploysAreEquipped`): a command saw what the preflight of the same invocation looked at (`LastPassedPreflight`); a service
  with a slug of its own is shipped or its task is awaited until something fails (`ShippedOrAwaited`); and a promised secret is in
  the place of its integration's target, if that is one (`PromisesAreKept`, `OneTarget`). What is shipped is where a task of the unit leads in this
  invocation (`ShippedByTasks`), and a deploy of the same shell that sees what the shell has (`SeenAsInShell`) comes to the same place (`SamePlace`). The
  premise `RailwayNamesApart`, about the unit's configuration, says that no other task has the name of a Railway service's, and that services with
  one task name have one slug. A `[[notifications]]` entry named `railway:deploy` would take the place of the deploy (`resolve_tasks` lets
  it); the second half is a fact on concatenated strings, which the prover does not know. The premise holds in every configuration of the run.

**Init, scaffold and migrations** (`Setup_proofs`). `SetupRuns` (`SetupLeavesItRunnable`) and `UsersWorkIsKept` (`UsersWorkStays`), for any
directories, profiles, layouts and configurations of the six tools, and any sequence of commands, kills included. The invariant
`SetupInv` looks at the disk as it will be when the writes to come are done: `EndInv` says that whatever those writes leave,
the faults that were not found at the start are those the command is known to leave (`Allowed`); it is established once, when a
command computes its writes, by one lemma per command and migrator, and a single write keeps it because it only moves a file from the
writes to come to the disk. `CutInv` says that without a kill only the file being written is cut off, `BrokeInv` that each fault on
record is one its command may leave, and `UserInv` that a file of the user's is untouched and will be, or is a profile that only gains
units, or a text with monad's block replaced. For the last, `UsersLinesConcat` and `MergedLines` show that merging keeps the lines
outside the block; `UsersLines` is a recursive function, and its lemmas use `SetInduction`, as in the planner. Assumed: a layout
holds files of the right kind (`LayoutsAreWhole`), a tool's configuration names finitely many directories that exist (`ReposAreHere`;
Rush wants its projects below the root), and a task with the name of a server runs a server (`ServersAreServers`). TLC
finds all three true of the instances of `services`.

**The composition** (`Services_proofs`). `ServicesTyped` proves `ServicesTypeOK` and `ServicesAreSafe` the ten safety properties of the run, of
the specification that the run checks: `ServicesInv` is the conjunction of the nine invariants, and a step of one part is a step
of its own specification and a stutter of the others (`OnePartMoves`). `DeploysAreEquipped` keeps its premise `RailwayNamesApart`.

**Model-checked only, and why.** Liveness under fairness (`BuildReturns`, `ExecuteReturns`, `InvocationEnds`, `PluginCallEnds`, `EditsAreServed`)
and with it ENABLED, which are out of the prover's reach; and `PlannerTypeOK`, where the prover does not know that a literal is a member of
`STRING`.

## Where code and documents differ

Beside the six findings that a run shows, these were met while reading and are modelled as the code does it:

- `tests/e2e/common.rs:678` says that a "second run against the same cache hits across the board", and `plan.rs:775-779` that the key holds "even
  after the first run has littered the unit with generated artefacts". Signatures are taken before anything runs, and a lockfile is in the
  fingerprints: where the install of the first run writes one, the dependents of the unit have other keys in the second run and are built again.
  `CiSettles` therefore asks for hits after two undisturbed runs.
- `run.rs:1759-1761`, of an unchanged deploy: "Notifications only fire for actual state changes — there's nothing new to announce when nothing
  shipped." `exec_tasks_index_deploys` takes every Deploy row, and the sidecar and the fan-out follow: an unchanged deploy is announced.
  `EachDeployAnnouncedOnce` leaves it open. `docs/deploying.md:242` has `linear:notify` move issues "on successful deploy"; `_linear-notify` excludes
  failed ones only, so that an unchanged deploy of a unit named `ENG-12` moves that issue.
- `run.rs:156-159` says of an unchanged deploy that "the currently-deployed artefact is what we'd have shipped". A deploy that exits non-zero after the
  platform has replaced the release (`docs/deploying.md:40`: `railway up --ci` on `CRASHED`) leaves the older record as it is; when the sources
  go back to it, the next deploy is skipped. `SkipIsSound` and `UnchangedIsServed` name the case.
- `docs/deploying.md:38` and `:466`, `docs/configuration.md:169` and `railway.rs:5` say that Railway requires `RAILWAY_TOKEN`; `required_env` is empty
  (`railway.rs:38-49`). Where the source of the alias is unset, `monad deploy --env staging` runs with the `RAILWAY_TOKEN` of the host, which may be of
  another environment. `monad secret` has no `--env`: it reaches the environment of that token.
- `release.rs:9-11` says that a release bumps "every internal `workspace.dependencies.<crate>.version` pin in the root"; only inline tables with a path
  are rewritten (`release.rs:191`), in members those of three sections (`:236-265`), and in members that a pattern of `members` matches none. After a
  patch bump cargo takes the old pins for the new version. `release.rs:6` says that `prerelease` is accepted, which `parse_bump` does not know. The
  commit takes all that is in the index; when the tag fails, the retry is refused because the version equals the current one.
- `docs/configuration.md:181` says that the `name` of a profile must match its file; nothing checks it, and `init` or a migration may write a second
  profile of that name, with which the workspace does not load.
- `docs/plugins.md:61` and `:173` promise a plugin two seconds to exit, then SIGTERM, then SIGKILL. `Client::shutdown` does so, but no command of monad calls
  it: the client is dropped, which kills the plugin at once (`client.rs:332-339`).
- The loser of a race for one tool version errors although the tool is installed (`store.rs:99`).
- `run.rs:2430` says PATH is set single-threaded; `ensure_toolchain` runs in unit threads.
- Signatures (`cascade.rs:3-5`) follow unit-level inputs and fingerprints only; a dependency whose inputs are declared per task changes without
  changing them, and `plan.rs` recommends to remove unit-level inputs.
- In container mode `auto` the image is in the key also of a task that runs on the host.
- `cache push`, `cache pull`, `doctor --cloud` and `prime` look for the token in the environment only; `report.rs` requires `remote_token_env`
  where `build_remote` has a default. `UploadUrlResponse` says that an expired URL is asked for again; the client never does.
- `docs/plugins.md:70` says the host enforces the timeout; a plugin that does not read blocks `write_message` for ever. A failed
  `detect` counts as no match. `monad-mcp` loads no plugins, though it is said to behave like `monad ci`.
- `linear` and `slack` require `LINEAR_API_KEY` and `SLACK_WEBHOOK_URL` also where the block names another variable.
- On the host a command falls back to the variable itself where the source of an alias is unset, in a container it is left out; the comment
  of `build_container_command` says the two match exactly. An integration task that a `[tasks]` block overrides loses its variables.
- Railway services with equal slugs are one task; `secret put` names all services in one call (`railway.rs:71-73`), and runs in the unit's directory where deploy does `cd root`.
- `docs/adopt-existing-repo.md:252` says to run `monad init` again, which refuses; doctor's advice for orphans ends in `UnitAlreadyConfigured`.
- The nx migration leaves `{project}` in the path of its shim; the migrations other than rush drop units from `prod.toml` with `--force`;
  lerna, rush and moon make a task of `dev`; make gives the recipe of a rule with several targets to the last, and writes a target of two
  branches twice. A scaffolded cargo unit builds with `--locked` and has no `Cargo.lock`; a scaffolded python-uv unit says `python`.

## Not modelled, and why

- Parsing of flags and files, printing, wording of errors, diagnostics parsers: sequential, no shared state.
- doctor's reports, `report`, `prime`, `artifacts`, `why`, `--since`: nothing else reads what they say.
- The MCP server: each request loads the workspace and runs the planner or the executor.
- The CAS server, the registry, the platforms, package managers: not in the repository; what they do is an outcome chosen freely.
- The digest of a key and the signing of requests to a bucket: digests are taken not to collide.
- `put_manifest`, cache statistics, `find_by_prefix`: read by people only.
- The commands of adapters and the text of templates, but for what makes a unit runnable; moon's YAML reader, nx's path and input
  patterns, `--dry-run`.
- The re-run of a failed task for its diagnostics, and the capture of output.

## Plan

1. *Done:* graph, planner, executor, install scopes, task loop, deploy state, local cache; toolchain, plugins, watch, hosted cache, mcp
   install, notifications, init and migrations, release, deploys; proofs of every safety property of the runs.
2. *Next, models:* the write-through and clear of many keys at a time; two units of one repository in `UnitRun`, with the
   dependencies between their keys.
