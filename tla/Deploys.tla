------------------------------ MODULE Deploys ------------------------------
(***************************************************************************)
(* monad deploy and monad secret on one unit: the tasks its integrations,  *)
(* notifications and overrides make, the environment their commands see,   *)
(* the platforms they reach, and the secrets these hold.  When a task is   *)
(* restored, retried or not run at all is the business of UnitRun.         *)
(***************************************************************************)
EXTENDS Naturals, Sequences, FiniteSets, SequencesExt, Functions

CONSTANTS
  UnitConfigs,  \* units: files, blocks, overrides, notifications, execution
  SlugOf,       \* what slugify makes of a service name
  Linked,       \* the Railway service linked with the unit's folder and with its
                \* `root`; where no link is, as in a container, the only one there is
  Environments, \* [environments.<name>] of monad.toml: its secrets
  Deploys,      \* invocations: kind, env, secretFrom, notify, failFast, host, runtime, clis
  NoEnv,        \* no --env
  NoDefault,    \* a Worker's environment without a name
  SecretNames,  \* names the user puts and deletes
  MaxCommands   \* bound on the commands

ASSUME DeploysAssumption == Deploys # {} /\ MaxCommands \in Nat /\ NoEnv \notin DOMAIN Environments
ASSUME ServicesAreListed ==
  \A c \in UnitConfigs :
    "railway" \in DOMAIN c.blocks /\ "services" \in DOMAIN c.blocks["railway"]
      => c.blocks["railway"]["services"] \in Seq(DOMAIN SlugOf)

VARIABLES
  unit,      \* the configuration of the unit
  call,      \* the invocation that runs or ran
  deployStage, \* "off", "tasks" or "notify"
  awaited,   \* names of the tasks still to run
  failures,  \* names of the tasks that failed
  shipped,   \* places this invocation deployed to
  last,      \* the last command: its task and the environment it saw
  stored,    \* pairs of a place and a secret that the platforms hold
  promised,  \* what monad said it set: the integration, the secret, the shell
  commands

deployVars == <<unit, call, deployStage, awaited, failures, shipped, last, stored, promised, commands>>

Get(f, k, default) == IF k \in DOMAIN f THEN f[k] ELSE default
Over(f, g) == [k \in DOMAIN f \cup DOMAIN g |-> IF k \in DOMAIN f THEN f[k] ELSE g[k]]
-----------------------------------------------------------------------------
(* The built-in integrations. *)
Integrations == {"vercel", "railway", "cloudflare_worker", "cloudflare_pages", "slack", "linear"}

Detects(i) ==
  CASE i = "vercel"            -> unit.files \cap {"vercel.json", ".vercel/project.json"} # {}
    [] i = "railway"           -> unit.files \cap {"railway.toml", "railway.json", ".railway"} # {}
    [] i = "cloudflare_worker" -> unit.files \cap {"wrangler.toml", "wrangler.jsonc"} # {}
    [] OTHER                   -> FALSE

(* resolve_integrations: found in the folder or named by a block. *)
Active   == {i \in Integrations : Detects(i) \/ i \in DOMAIN unit.blocks}
BlockOf(i) == Get(unit.blocks, i, << >>)

RequiredEnv(i) ==
  CASE i = "vercel" -> {"VERCEL_TOKEN"}
    [] i = "slack"  -> {"SLACK_WEBHOOK_URL"}
    [] i = "linear" -> {"LINEAR_API_KEY"}
    [] OTHER        -> {}

RequiredCli(i) ==
  CASE i \in {"vercel", "railway"}    -> {i}
    [] i \in {"slack", "linear"}      -> {"monad"}
    [] OTHER                          -> {"wrangler"}

(* What the platform's command line tool takes the account, the project or *)
(* the environment from: a Railway token is good for one environment.      *)
AccountEnv(i) ==
  CASE i = "railway" -> {"RAILWAY_TOKEN"}
    [] i = "vercel"  -> {"VERCEL_TOKEN", "VERCEL_ORG_ID", "VERCEL_PROJECT_ID"}
    [] i \in {"cloudflare_worker", "cloudflare_pages"} -> {"CLOUDFLARE_API_TOKEN", "CLOUDFLARE_ACCOUNT_ID"}
    [] OTHER         -> {}

EnvOf(i) == AccountEnv(i) \cup (IF i = "railway" THEN {"RAILWAY_SERVICE"} ELSE {})

Task(name, kind, env, target) == [name |-> name, kind |-> kind, env |-> env, target |-> target]

(* collect_services: the list wins over the single name. *)
Services ==
  Get(BlockOf("railway"), "services",
      IF "service" \in DOMAIN BlockOf("railway") THEN <<BlockOf("railway").service>> ELSE <<>>)

RailwayTarget(service) == <<"railway", "service", service>>
RailwayLink(dir)       == <<"railway", "link", dir>>

(* Where a command line ends up, in an environment: RAILWAY_SERVICE tells  *)
(* the service when the command does not, and then the link of the folder. *)
ServiceIn(dir, env) ==
  LET named == Get(env, "RAILWAY_SERVICE", "") IN RailwayTarget(IF named = "" THEN Linked[dir] ELSE named)

Place(target, env) ==
  <<IF target \in {RailwayLink("unit"), RailwayLink("root")} THEN ServiceIn(target[3], env) ELSE target,
    [v \in AccountEnv(target[1]) |-> Get(env, v, "")]>>

(* build_task: a slug tells the tasks of several services apart. *)
RailwayName(service) ==
  IF Len(Services) > 1 THEN "railway:deploy:" \o SlugOf[service] ELSE "railway:deploy"

RailwayTasks ==
  LET dir == IF "root" \in DOMAIN BlockOf("railway") THEN "root" ELSE "unit" IN
  IF Services = <<>>
  THEN <<Task("railway:deploy", "deploy", EnvOf("railway"), RailwayLink(dir))>>
  ELSE [n \in DOMAIN Services |->
          Task(RailwayName(Services[n]), "deploy", EnvOf("railway"), RailwayTarget(Services[n]))]

VercelTasks ==
  <<Task("vercel:deploy", "deploy", EnvOf("vercel"), <<"vercel", "production">>),
    Task("vercel:preview", "deploy_preview", EnvOf("vercel"), <<"vercel", "preview">>)>>

Wrangler(i) == EnvOf(i) \cup {"CI"}

(* env_flag, pages_project: a deploy and a secret go to the same place.    *)
WorkerTarget == <<"cloudflare_worker", Get(BlockOf("cloudflare_worker"), "env", NoDefault)>>
HasProject   == "project" \in DOMAIN BlockOf("cloudflare_pages")
PagesTarget  == <<"cloudflare_pages", BlockOf("cloudflare_pages").project>>

(* Pages has no task without a project. *)
PagesTasks ==
  IF HasProject
  THEN <<Task("cloudflare_pages:deploy", "deploy", Wrangler("cloudflare_pages"), PagesTarget)>> ELSE <<>>

SlackEnv  == Get(BlockOf("slack"), "webhook_url_env", "SLACK_WEBHOOK_URL")
LinearEnv == Get(BlockOf("linear"), "api_key_env", "LINEAR_API_KEY")

(* detected_tasks *)
DetectedTasks(i) ==
  CASE i = "vercel"            -> VercelTasks
    [] i = "railway"           -> RailwayTasks
    [] i = "cloudflare_worker" -> <<Task("cloudflare_worker:deploy", "deploy", Wrangler(i), WorkerTarget)>>
    [] i = "cloudflare_pages"  -> PagesTasks
    [] i = "slack"             -> <<Task("slack:notify", "notify", {SlackEnv}, <<i>>)>>
    [] i = "linear"            -> <<Task("linear:notify", "notify", {LinearEnv}, <<i>>)>>

(* What the preflight of a task asks for, and its place in the list of its *)
(* integration.                                                            *)
Demanding(t, requires, cli, at) ==
  [name |-> t.name, kind |-> t.kind, env |-> t.env, target |-> t.target,
   requires |-> requires, cli |-> cli, at |-> at]

(* resolved_from_integration *)
Emitted(i) ==
  {Demanding(DetectedTasks(i)[n], RequiredEnv(i), RequiredCli(i), n) : n \in DOMAIN DetectedTasks(i)}

(* [[notifications]]: Notify tasks of the unit's own. *)
Inline ==
  {Demanding(Task(n.name, "notify", n.env, <<"inline", n.name>>), n.requires, n.cli, 0) : n \in unit.notifications}

(* resolve_tasks, of what the adapter has nothing to do with: a later task *)
(* takes the place of one of its name, a notification of any; a block      *)
(* [tasks.<name>] keeps all but the environment, which is the one it says. *)
Resolved ==
  LET all  == UNION {Emitted(i) : i \in Active}
      kept == Inline \cup {t \in all : /\ \A s \in Inline : s.name # t.name
                                       /\ \A s \in all : s.name = t.name => s.at <= t.at} IN
  {IF t.name \in DOMAIN unit.overrides
   THEN [t EXCEPT !.env = unit.overrides[t.name]] ELSE t : t \in kept}
-----------------------------------------------------------------------------
(* resolve_secret_aliases: --secret-from on top of the environment. *)
Aliases == Over(call.secretFrom, Get(Environments, call.env, << >>))
Source(v) == Get(Aliases, v, v)

\* Mutant: the gate looks at the declared variable, not at the one it is read from.
MissingEnv_Declared(t) == {v \in t.requires : Get(call.host, v, "") = ""}

MissingEnv(t) == {v \in t.requires : Get(call.host, Source(v), "") = ""}
MissingCli(t) == t.cli \ call.clis

(* container_plan: without an image or a runtime tasks run on the host. *)
InContainer == unit.execution.mode # "never" /\ unit.execution.image /\ call.runtime

(* run_once, run_notify_task and build_container_command: a declared       *)
(* variable comes from its source, if that is set.  On the host the rest   *)
(* of the environment is there as well; a container gets nothing else.     *)
SeenBy(t) ==
  LET forwarded == [v \in {w \in t.env : Source(w) \in DOMAIN call.host} |-> call.host[Source(v)]] IN
  IF InContainer THEN forwarded ELSE Over(forwarded, call.host)
-----------------------------------------------------------------------------
DeploysInit ==
  /\ unit \in UnitConfigs
  /\ call = CHOOSE d \in Deploys : TRUE
  /\ deployStage = "off" /\ awaited = {} /\ failures = {} /\ shipped = {}
  /\ last = << >> /\ stored = {} /\ promised = {} /\ commands = 0

Count == commands < MaxCommands /\ commands' = commands + 1
Named(kind) == {t.name : t \in {r \in Resolved : r.kind = kind}}

(* Invocations; an environment that is not defined is refused. *)
Asked(kinds) == {d \in Deploys : d.kind \in kinds /\ d.env \in DOMAIN Environments \cup {NoEnv}}

(* run_deploy: a unit with no task of the kind has nothing to do. *)
StartDeploy ==
  /\ deployStage = "off" /\ Count
  /\ call' \in Asked({"deploy", "deploy_preview", "rollback"})
  /\ awaited' = Named(call'.kind) /\ deployStage' = "tasks"
  /\ UNCHANGED <<unit, failures, shipped, last, stored, promised>>

(* run_notify: the notifications again, if a payload was kept, which is up *)
(* to UnitRun.                                                             *)
ReplayNotify ==
  /\ deployStage = "off" /\ Count
  /\ call' \in Asked({"notify"})
  /\ awaited' = Named("notify") /\ deployStage' = "notify"
  /\ UNCHANGED <<unit, failures, shipped, last, stored, promised>>

(* A failed task ends the unit's loop under fail_fast; a failed            *)
(* notification holds no other back.                                       *)
Fail(t) ==
  /\ failures' = failures \cup {t.name}
  /\ awaited' = IF call.failFast /\ deployStage = "tasks" THEN {} ELSE awaited \ {t.name}

PreflightFails(t) ==
  /\ t.name \in awaited
  /\ MissingEnv(t) # {} \/ MissingCli(t) # {}
  /\ Fail(t)
  /\ UNCHANGED <<unit, call, deployStage, shipped, last, stored, promised, commands>>

(* The task's command runs, and ends well or badly. *)
RunTask(t) ==
  /\ t.name \in awaited
  /\ MissingEnv(t) = {} /\ MissingCli(t) = {}
  /\ last' = [task |-> t, sees |-> SeenBy(t)]
  /\ \/ /\ shipped' = shipped \cup {Place(t.target, SeenBy(t))}
        /\ awaited' = awaited \ {t.name} /\ UNCHANGED failures
     \/ Fail(t) /\ UNCHANGED shipped
  /\ UNCHANGED <<unit, call, deployStage, stored, promised, commands>>

(* fan_out_notifications: when there is a Deploy row, unless --no-notify.  *)
(* Several rows repeat the same commands, which is left out.               *)
Announces == deployStage = "tasks" /\ call.notify /\ call.kind = "deploy" /\ Named("deploy") # {}

StartNotify ==
  /\ awaited = {} /\ Announces
  /\ deployStage' = "notify" /\ awaited' = Named("notify")
  /\ UNCHANGED <<unit, call, failures, shipped, last, stored, promised, commands>>

EndDeploy ==
  /\ deployStage # "off" /\ awaited = {} /\ ~ Announces
  /\ deployStage' = "off" /\ failures' = {} /\ shipped' = {} /\ last' = << >>
  /\ UNCHANGED <<unit, call, awaited, stored, promised, commands>>
-----------------------------------------------------------------------------
(* secret::resolve_target: a capable integration of the unit, named by the *)
(* user or the only one; anything else is refused.                         *)
Candidates == Active \cap {"cloudflare_worker", "cloudflare_pages", "railway"}

(* What put_secret and delete_secret of the integration address.  Pages    *)
(* refuses without a project, and wherever a deploy goes, the command runs *)
(* in the folder of the unit.                                              *)
SecretTargets(i) ==
  CASE i = "cloudflare_worker" -> {WorkerTarget}
    [] i = "cloudflare_pages"  -> IF HasProject THEN {PagesTarget} ELSE {}
    [] i = "railway"           -> IF Services = <<>> THEN {RailwayLink("unit")}
                                  ELSE {RailwayTarget(s) : s \in ToSet(Services)}

(* monad secret has no --env and runs on the host: the command sees what   *)
(* the shell has.                                                          *)
Shells == {d.host : d \in Deploys}
SecretPlaces(i, shell) == {Place(x, shell) : x \in SecretTargets(i)}

(* One command names all services, and which of several the platform sets  *)
(* is not known; when it fails, or its answer is lost, it may have done a  *)
(* part.                                                                   *)
PutSecret(i, n, shell) ==
  /\ deployStage = "off" /\ Count
  /\ i \in Candidates
  /\ \E done \in SUBSET SecretPlaces(i, shell) :
       /\ stored' = stored \cup (done \X {n})
       /\ \/ done # {} /\ promised' = promised \cup {<<i, n, shell>>}
          \/ UNCHANGED promised
  /\ UNCHANGED <<unit, call, deployStage, awaited, failures, shipped, last>>

DeleteSecret(i, n, shell) ==
  /\ deployStage = "off" /\ Count
  /\ i \in Candidates
  /\ \E done \in SUBSET SecretPlaces(i, shell) : stored' = stored \ (done \X {n})
  /\ promised' = {p \in promised : p[1] # i \/ p[2] # n}
  /\ UNCHANGED <<unit, call, deployStage, awaited, failures, shipped, last>>

DeploysNext ==
  \/ StartDeploy \/ ReplayNotify \/ StartNotify \/ EndDeploy
  \/ \E t \in Resolved : PreflightFails(t) \/ RunTask(t)
  \/ \E i \in Integrations, n \in SecretNames, shell \in Shells : PutSecret(i, n, shell) \/ DeleteSecret(i, n, shell)

DeploySpec == DeploysInit /\ [][DeploysNext]_deployVars
-----------------------------------------------------------------------------
DeploysTypeOK ==
  /\ unit \in UnitConfigs /\ call \in Deploys /\ deployStage \in {"off", "tasks", "notify"}
  /\ awaited \cup failures \subseteq {t.name : t \in Resolved}
  /\ shipped \subseteq {Place(t.target, SeenBy(t)) : t \in Resolved}
  /\ last # << >> => last.task \in Resolved
  /\ promised \subseteq Integrations \X SecretNames \X Shells
  /\ \A p \in stored : p[2] \in SecretNames
  /\ commands \in 0..MaxCommands

(* The preflight, build_container_command and the host's command agree: a  *)
(* command that runs sees every variable its integration or notification   *)
(* requires, if it declares it too, with the value of the environment that *)
(* was asked for; and in a container no value of another one.  On the host *)
(* an undeclared variable keeps the value it has there.                    *)
CommandIsEquipped ==
  last # << >> =>
    /\ \A v \in last.task.requires \cap last.task.env :
         v \in DOMAIN last.sees /\ last.sees[v] # "" /\ last.sees[v] = call.host[Source(v)]
    /\ InContainer =>
         \A v \in DOMAIN last.sees : v \in last.task.env /\ last.sees[v] = call.host[Source(v)]

(* detected_tasks and resolve_tasks: a deploy that ends green has reached  *)
(* every service the unit lists, but for services whose slugs are equal.   *)
GreenDeployIsWhole ==
  deployStage # "off" /\ awaited = {} /\ failures = {} /\ call.kind = "deploy" /\ "railway" \in Active =>
    \A n \in DOMAIN Services :
      \/ \E place \in shipped : place[1] = RailwayTarget(Services[n])
      \/ \E k \in DOMAIN Services \ {n} : SlugOf[Services[k]] = SlugOf[Services[n]]

(* The tasks of the integration see of its variables what the shell has:   *)
(* no alias names one, and a container is handed all of them.              *)
AsIn(shell, i) ==
  /\ call.host = shell /\ DOMAIN Aliases \cap EnvOf(i) = {}
  /\ InContainer => \A t \in Resolved : t.target[1] = i => EnvOf(i) \subseteq t.env

(* put_secret and detected_tasks lead to the same places: what monad said  *)
(* it set, and nobody deleted, is wherever a deploy goes from that shell,  *)
(* but for Railway with several services, or with a `root` and none.  A    *)
(* deploy that --env or --secret-from sends elsewhere finds no secret      *)
(* there.                                                                  *)
SecretIsWhereDeploysGo ==
  \A p \in promised :
    \/ ~ AsIn(p[3], p[1])
    \/ p[1] = "railway" /\ (Len(Services) > 1 \/ (Services = <<>> /\ "root" \in DOMAIN BlockOf("railway")))
    \/ \A place \in shipped : place[1][1] = p[1] => <<place, p[2]>> \in stored

(* run_deploy, the integrations and monad secret together. *)
DeploysAreEquipped == CommandIsEquipped /\ GreenDeployIsWhole /\ SecretIsWhereDeploysGo
=============================================================================
