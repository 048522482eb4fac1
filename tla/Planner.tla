------------------------------- MODULE Planner -------------------------------
(***************************************************************************)
(* The plan: which tasks a unit has (resolve_tasks), what their keys are   *)
(* made of (compute_key, cascade::compute), and what monad plan and monad  *)
(* ci make of them, while sources, tools and environment change.  A key is *)
(* the record of what is hashed: digests do not collide.                   *)
(***************************************************************************)
EXTENDS Adapters

CONSTANTS
  Units,     \* the units of the profile
  Order,     \* the same in the order of the levels
  Configs,   \* the unit.toml files to try
  Contents,  \* what a file may hold; a pin of a tool, unless it is NoPin
  NoPin,
  MachineFields, \* what of the machine changes: tool, pin, env, image, host
  MaxEdits, MaxRounds   \* bounds on the edits and on the runs of monad ci

ASSUME PlannerAssumption ==
  /\ Order \in Seq(Units) /\ ToSet(Order) = Units
  /\ \A i, j \in DOMAIN Order : i < j => Order[i] # Order[j]
  /\ NoPin \in Contents /\ MaxEdits \in Nat /\ MaxRounds \in Nat

(* Units come after what they depend on, as in the levels of graph::build; *)
(* what a build leaves is the file "output", or "vendor".                  *)
ASSUME ConfigsFollowOrder ==
  \A c \in Configs, u \in Units :
    /\ c[u].outputs \subseteq {"output", "vendor"}
    /\ c[u].dependsOn \subseteq Units
    /\ \A i, j \in DOMAIN Order : Order[i] \in c[u].dependsOn /\ Order[j] = u => i < j

VARIABLES
  config,    \* unit.toml of each unit
  dir,       \* the files of each unit
  machine,   \* the rest: tools on PATH, the [toolchain] pin, environment, image, host
  cached,    \* entries of the cache: a key, and what its command had seen
  sigs,      \* the signatures that a running monad ci has computed
  stage,     \* units still to run, or the end
  disturbed, \* history: something was edited while monad ci ran
  quiet,     \* history: runs in a row since the last edit
  edits, rounds

plannerVars == <<config, dir, machine, cached, sigs, stage, disturbed, quiet, edits, rounds>>

Unset == "unset"

(* What is in f, and what g has besides. *)
Over(f, g) == [x \in DOMAIN f \cup DOMAIN g |-> IF x \in DOMAIN f THEN f[x] ELSE g[x]]

(* plan::resolve_adapter, in cascade.rs once more. *)
ResolveAdapter(u) ==
  IF config[u].language = Unset THEN Detect(DOMAIN dir[u])
  ELSE IF config[u].language \in ToSet(Builtin) THEN config[u].language ELSE NoAdapter

Facts(u) == AdapterOf[ResolveAdapter(u)]
-----------------------------------------------------------------------------
(* resolve_tasks, in the order in which later ones replace earlier ones. *)
Task(inputs, outputs) ==
  [run |-> "default", inputs |-> inputs, outputs |-> outputs, noCache |-> FALSE, env |-> FALSE,
   dependsOn |-> {}]

(* resolved_from_default: the inputs of the adapter hide those of the unit. *)
DefaultTasks(unit, facts) ==
  [t \in facts.tasks |->
     Task(IF t = "lint" THEN facts.inputs \cup facts.lint ELSE facts.inputs,
          IF t = "build" /\ facts.outputs # {} THEN facts.outputs ELSE unit.outputs)]

(* resolved_from_integration, and the [[notifications]] of the unit. *)
IntegrationTasks(unit) ==
  [t \in unit.integrations |->
     [Task(unit.inputs, {}) EXCEPT !.noCache = TRUE,
                                   !.dependsOn = IF t = "deploy" THEN {"build"} ELSE {}]]

(* [tasks.<name>]: what it does not say is inherited, or the unit's. *)
Overlay(unit, t, inherited) ==
  LET said == unit.tasks[t]
      from == IF t \in DOMAIN inherited THEN inherited[t] ELSE Task(unit.inputs, unit.outputs)
  IN  [from EXCEPT !.run = IF said.run = Unset THEN @ ELSE said.run,
                   !.inputs = IF said.inputs = <<>> THEN @ ELSE Head(said.inputs),
                   !.env = said.env]

OverlayAll(unit, inherited) ==
  Over([t \in DOMAIN unit.tasks |-> Overlay(unit, t, inherited)], inherited)

TasksOf(unit, facts) == OverlayAll(unit, Over(IntegrationTasks(unit), DefaultTasks(unit, facts)))

ResolveTasks(u) == TasksOf(config[u], Facts(u))

(* A task of its own must say what to run. *)
ResolveFails(u) ==
  \E t \in DOMAIN config[u].tasks :
    config[u].tasks[t].run = Unset /\ t \notin Facts(u).tasks \cup config[u].integrations
-----------------------------------------------------------------------------
(* The files that a set of globs matches, without what the adapter derives. *)
Matched(u, files, globs) == Restrict(files, (globs \cap DOMAIN files) \ Facts(u).derived)

(* content_hash: the inputs of the unit and the fingerprints of its adapter. *)
ContentHash(u, files) ==
  [unit |-> u, files |-> Matched(u, files, config[u].inputs \cup Facts(u).fingerprints)]

(* cascade::compute: a signature holds those of the dependencies. *)
Signatures(dirs) ==
  LET Position(u) == CHOOSE i \in DOMAIN Order : Order[i] = u
      sig[i \in DOMAIN Order] ==
        LET u == Order[i] IN
        [content |-> ContentHash(u, dirs[u]),
         deps |-> IF config[u].forceIndependent THEN <<>>
                  ELSE [d \in config[u].dependsOn |-> sig[Position(d)]]]
  IN  [u \in Units |-> sig[Position(u)]]

\* Mutant: the signatures of the dependencies are left out.
DepsForKey_None(u, signatures) == <<>>

DepsForKey(u, signatures) ==
  IF config[u].forceIndependent THEN <<>> ELSE [d \in config[u].dependsOn |-> signatures[d]]

(* probe::memoised: the version of the tool on PATH. *)
ResolvedFingerprint(u) == IF ResolveAdapter(u) = NoAdapter THEN NoPin ELSE machine.tool

(* compute_key.  Neither the name of the unit nor a [toolchain] pin is in  *)
(* it: the version is the one the adapter finds in the files of the unit,  *)
(* and the tool that is probed is the one on PATH.                         *)
ComputeKey(u, t, files, signatures, taskDeps) ==
  LET task == ResolveTasks(u)[t]
      id   == ResolveAdapter(u)
  IN [task |-> t, run |-> task.run, adapter |-> id, image |-> machine.image, host |-> machine.host,
      toolchain |-> IF id = NoAdapter THEN NoPin ELSE RequiredToolchain(id, files, NoPin),
      resolved  |-> ResolvedFingerprint(u),
      env       |-> IF task.env THEN machine.env ELSE NoPin,
      deps      |-> DepsForKey(u, signatures),
      taskDeps  |-> taskDeps,
      files     |-> Matched(u, files, task.inputs \cup Facts(u).fingerprints)]

(* The keys of the tasks of a unit, where `finds[t]` are the files that    *)
(* the task finds: plan_unit looks once, the executor before each task.    *)
KeysOf(u, signatures, finds) ==
  LET tasks == ResolveTasks(u)
      key[t \in DOMAIN tasks] ==
        ComputeKey(u, t, finds[t], signatures, [d \in tasks[t].dependsOn \cap DOMAIN tasks |-> key[d]])
  IN  key

PlanKeys(u) == KeysOf(u, Signatures(dir), [t \in DOMAIN ResolveTasks(u) |-> dir[u]])

Contained(key) == \E e \in cached : e.key = key

(* plan_unit; `clean` are the units that --since found nothing changed in. *)
PlanRow(u, task, key, clean, noCache) ==
  IF u \in clean         THEN "skipped_diff_clean"
  ELSE IF task.noCache   THEN "uncacheable"
  ELSE IF noCache        THEN "force_rerun"
  ELSE IF Contained(key) THEN "hit"
  ELSE                        "never_cached"

PlanUnit(u, clean, noCache) ==
  LET tasks == ResolveTasks(u)
      keys  == PlanKeys(u)
  IN  IF DOMAIN tasks = {} /\ ResolveAdapter(u) = NoAdapter
        THEN {[unit |-> u, task |-> "<none>", row |-> "no_adapter", key |-> <<>>]}
        ELSE {[unit |-> u, task |-> t, row |-> PlanRow(u, tasks[t], keys[t], clean, noCache), key |-> keys[t]] :
                t \in DOMAIN tasks}

(* Planner::compute fails as a whole at a unit that does not resolve. *)
PlanFails == \E u \in Units : ResolveFails(u)

Plan(clean, noCache) ==
  IF PlanFails THEN {} ELSE UNION {PlanUnit(u, clean, noCache) : u \in Units}
-----------------------------------------------------------------------------
(* What the command of a task really depends on: the sources of the unit   *)
(* and of the units it depends on, however they are declared, the tools,   *)
(* and what it asks of the environment.  Not what a build has put there.   *)
Written(u) == Facts(u).derived \cup Facts(u).outputs \cup {"output", "vendor"}

Sources(u, dirs) ==
  LET Position(v) == CHOOSE i \in DOMAIN Order : Order[i] = v
      all[i \in DOMAIN Order] ==
        LET v == Order[i] IN
        [own  |-> Restrict(dirs[v], DOMAIN dirs[v] \ Written(v)),
         deps |-> IF config[v].forceIndependent THEN <<>> ELSE [d \in config[v].dependsOn |-> all[Position(d)]]]
  IN  all[Position(u)]

(* ensure_toolchain: a pin runs the command with a tool of the store. *)
ToolThatRuns(u) ==
  CASE ResolveAdapter(u) = NoAdapter                             -> NoPin
    [] machine.pin # NoPin /\ ResolveAdapter(u) \in Installable -> <<"store", machine.pin>>
    [] OTHER                                                     -> ResolvedFingerprint(u)

Seen(u, t, dirs) ==
  [sources |-> Sources(u, dirs), image |-> machine.image, host |-> machine.host,
   tool |-> ToolThatRuns(u), env |-> IF ResolveTasks(u)[t].env THEN machine.env ELSE NoPin]
-----------------------------------------------------------------------------
PlannerInit ==
  /\ config \in Configs
  /\ dir = [u \in Units |-> [f \in config[u].files |-> NoPin]]
  /\ machine = [tool |-> NoPin, pin |-> NoPin, env |-> NoPin, image |-> NoPin, host |-> NoPin]
  /\ cached = {} /\ sigs = <<>> /\ stage = <<>>
  /\ disturbed = FALSE /\ quiet = 0
  /\ edits = 0 /\ rounds = 0

Idle == stage = <<>>

\* Mutant: the signatures of the first run are kept.
BeginCi_KeepsSignatures ==
  /\ Idle /\ rounds < MaxRounds
  /\ sigs' = IF sigs = <<>> THEN Signatures(dir) ELSE sigs
  /\ stage' = Order
  /\ disturbed' = FALSE
  /\ rounds' = rounds + 1
  /\ UNCHANGED <<config, dir, machine, cached, quiet, edits>>

(* monad ci: the graph, and the signatures for the whole profile. *)
BeginCi ==
  /\ Idle /\ rounds < MaxRounds
  /\ sigs' = Signatures(dir)
  /\ stage' = Order
  /\ disturbed' = FALSE
  /\ rounds' = rounds + 1
  /\ UNCHANGED <<config, dir, machine, cached, quiet, edits>>

(* ensure_install: the adapter's install may write a lockfile. *)
Installed(u) ==
  IF ResolveAdapter(u) = NoAdapter THEN dir[u]
  ELSE Over(dir[u], [f \in AfterInstall(ResolveAdapter(u), DOMAIN dir[u]) |-> NoPin])

(* What the build leaves, or what is restored for it. *)
Outputs(u) ==
  LET built == DOMAIN ResolveTasks(u) \cap {"build"}
  IN  [f \in UNION {ResolveTasks(u)[t].outputs : t \in built} |->
         <<"built", Sources(u, [dir EXCEPT ![u] = Installed(u)]).own>>]

(* execute_unit: the install, then the tasks by name; one that is not in   *)
(* the cache runs, and is stored unless it is no_cache.                    *)
RunUnit ==
  /\ ~ Idle /\ ~ ResolveFails(Head(stage))
  /\ LET u     == Head(stage)
         built == Over(Outputs(u), Installed(u))
         finds == [t \in DOMAIN ResolveTasks(u) |-> IF t = "build" THEN Installed(u) ELSE built]
         keys  == KeysOf(u, sigs, finds)
         ran   == {t \in DOMAIN keys : ~ ResolveTasks(u)[t].noCache /\ ~ Contained(keys[t])}
     IN  /\ dir' = [dir EXCEPT ![u] = built]
         /\ cached' = cached \cup {[key |-> keys[t], saw |-> Seen(u, t, [dir EXCEPT ![u] = Installed(u)]), calm |-> ~ disturbed] : t \in ran}
  /\ stage' = Tail(stage)
  /\ quiet' = IF Len(stage) > 1 THEN quiet
              ELSE IF disturbed  THEN 0
              ELSE IF quiet = 2  THEN 2
              ELSE                    quiet + 1
  /\ UNCHANGED <<config, machine, sigs, disturbed, edits, rounds>>

(* A unit that does not resolve ends monad ci with an error. *)
UnitErrors ==
  /\ ~ Idle /\ ResolveFails(Head(stage))
  /\ stage' = <<>> /\ quiet' = 0
  /\ UNCHANGED <<config, dir, machine, cached, sigs, disturbed, edits, rounds>>

Disturb ==
  /\ edits < MaxEdits /\ edits' = edits + 1
  /\ quiet' = 0 /\ disturbed' = ~ Idle

(* Someone writes a source or a lockfile, or puts it back. *)
EditFile(u) ==
  /\ \E f \in config[u].edited, c \in Contents :
       /\ f \in DOMAIN dir[u] /\ dir[u][f] # c
       /\ dir' = [dir EXCEPT ![u][f] = c]
  /\ Disturb
  /\ UNCHANGED <<config, machine, cached, sigs, stage, rounds>>

(* Another compiler, variable, image or host. *)
ChangeMachine ==
  /\ \E field \in MachineFields, c \in Contents : machine' = [machine EXCEPT ![field] = c]
  /\ machine' # machine
  /\ Disturb
  /\ UNCHANGED <<config, dir, cached, sigs, stage, rounds>>

PlannerNext ==
  \/ BeginCi \/ RunUnit \/ UnitErrors \/ ChangeMachine
  \/ \E u \in Units : EditFile(u)

PlannerSpec == PlannerInit /\ [][PlannerNext]_plannerVars
-----------------------------------------------------------------------------
(* A unit whose inputs name the sources that its dependents must follow. *)
Declares(u) == Facts(u).inputs \subseteq config[u].inputs \cup Facts(u).fingerprints

(* compute_key, cascade::compute: what monad plan shows as a hit was made  *)
(* from the sources as they are now, the unit's and those of all it        *)
(* depends on, with the tools and the environment of now, unless something *)
(* was edited while it was made; in every order of edits and runs, also    *)
(* when an edit is taken back.  Pins do not change (PinBumpInvalidates),   *)
(* and the units name their sources in `inputs`, as content_hash knows no  *)
(* others: without this premise a dependent stays a hit when a source of   *)
(* its dependency changes.                                                 *)
HitIsFresh ==
  (\A v \in Units : Declares(v)) =>
    LET plan == Plan({}, FALSE) IN
    \A e \in cached : e.calm =>
      \A row \in plan :
        row.row = "hit" /\ row.key = e.key => e.saw = Seen(row.unit, row.task, dir)

(* [toolchain], docs/configuration.md:74: a pin "writes the version into   *)
(* monad's content-cache key, so a toolchain bump invalidates every unit   *)
(* that uses it".                                                          *)
PinBumpInvalidates ==
  \A e \in cached : e.calm =>
    \A row \in Plan({}, FALSE) :
      row.row = "hit" /\ row.key = e.key => e.saw.tool = ToolThatRuns(row.unit)

(* Executor::execute: when nothing is edited, two runs build all there is  *)
(* to build, and a third finds nothing to do, although installs write      *)
(* lockfiles and builds write outputs where keys may look.  One run is not *)
(* enough: its signatures are computed before its installs write, so that  *)
(* in the second run the dependents of a unit with a new lockfile miss.    *)
CiSettles ==
  quiet = 2 /\ Idle =>
    \A row \in Plan({}, FALSE) : row.row \in {"hit", "uncacheable", "no_adapter"}

PlannerTypeOK ==
  /\ config \in Configs
  /\ \A u \in Units : DOMAIN dir[u] \subseteq STRING
  /\ \A e \in cached : DOMAIN e = {"key", "saw", "calm"}
  /\ \E n \in 0..Len(Order) : stage = SubSeq(Order, n + 1, Len(Order))
  /\ disturbed \in BOOLEAN /\ quiet \in 0..2 /\ edits \in 0..MaxEdits /\ rounds \in 0..MaxRounds
=============================================================================
