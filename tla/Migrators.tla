------------------------------ MODULE Migrators ------------------------------
(***************************************************************************)
(* monad migrate: what each of the six migrators makes of the              *)
(* configuration of the tool a repository leaves.  A configuration is the  *)
(* record of what its files say; a unit is what its unit.toml will hold:   *)
(* name, language, tasks, the one server it names in a comment, and        *)
(* whether a task is written twice.  A migration is the sequence of the    *)
(* directories visited with their units, whether anything was found at     *)
(* all, and the directories it lists whoever wrote their unit.toml.        *)
(* Inputs, outputs and commands of the tasks are left out.                 *)
(***************************************************************************)
EXTENDS Naturals, Sequences, FiniteSets, SequencesExt

CONSTANTS
  RootDir,     \* the root of the repository
  NoName,      \* a package.json or project.json without a name
  NoServerTask \* a unit.toml without a commented [serve]

Unit(name, language, tasks) ==
  [name |-> name, language |-> language, tasks |-> tasks, serve |-> NoServerTask, twice |-> FALSE]

Nothing    == [found |-> FALSE, units |-> <<>>, listed |-> {}]
Found(seq) == [found |-> TRUE, units |-> seq, listed |-> {}]

(* A package names its unit, without the scope; otherwise the directory    *)
(* does.  `base` is the last component of each directory.                  *)
ShortName(name, base, d) == IF name = NoName THEN base[d] ELSE name

(* discover_workspace_packages: each glob in turn, and in each the         *)
(* directories with a package.json; overlapping globs visit one twice.     *)
Visits(globs, has) == FlattenSeq([g \in DOMAIN globs |-> SetToSeq(globs[g] \cap has)])
-----------------------------------------------------------------------------
(* Turborepo: `pipeline` are the tasks of turbo.json that are not          *)
(* persistent, `persistent` those that are; `packages` the package.json.   *)
TurboUnit(repo, base, d) ==
  LET pkg     == repo.packages[d]
      servers == repo.persistent \cap pkg.scripts
  IN  [Unit(ShortName(pkg.name, base, d), "node-npm", repo.pipeline \cap pkg.scripts)
         EXCEPT !.serve = IF servers = {} THEN NoServerTask ELSE CHOOSE t \in servers : TRUE]

(* Without workspaces the root is the one package. *)
TurboPackages(repo) ==
  IF repo.workspaces = <<>> THEN <<RootDir>>
  ELSE Visits(repo.workspaces, DOMAIN repo.packages \ {RootDir})

Turbo(repo, base) ==
  LET dirs == TurboPackages(repo)
  IN  IF repo.pipeline \cup repo.persistent = {} \/ dirs = <<>> THEN Nothing
      ELSE Found([n \in DOMAIN dirs |-> [dir |-> dirs[n], unit |-> TurboUnit(repo, base, dirs[n])]])

(* Lerna: npmClient picks the language; since version 7 a lerna.json that  *)
(* says nothing defers to the workspaces of package.json.  Every script is *)
(* a task.                                                                 *)
LernaLanguage(client) ==
  CASE client = "pnpm" -> "node-pnpm" [] client = "yarn" -> "node-yarn" [] client = "bun" -> "bun"
    [] OTHER -> "node-npm"

LernaGlobs(repo) ==
  IF repo.useWorkspaces = "yes" \/ (repo.useWorkspaces = "unset" /\ repo.globs = <<>>)
  THEN repo.workspaces ELSE repo.globs

LernaUnit(repo, base, d) ==
  Unit(ShortName(repo.packages[d].name, base, d), LernaLanguage(repo.client), repo.packages[d].scripts)

Lerna(repo, base) ==
  LET dirs == Visits(LernaGlobs(repo), DOMAIN repo.packages)
  IN  IF dirs = <<>> THEN Nothing
      ELSE Found([n \in DOMAIN dirs |-> [dir |-> dirs[n], unit |-> LernaUnit(repo, base, dirs[n])]])
-----------------------------------------------------------------------------
(* Nx: the executors whose command does not end, and those with another    *)
(* command of their own; the scopes @nx and @nrwl are one.                 *)
NxServers ==
  {"vite:dev-server", "vite:preview-server", "webpack:dev-server", "storybook:storybook",
   "next:server", "next:start"}

NxCommands ==
  {"run-commands", "run-script", "js:tsc", "js:swc", "jest:jest", "vite:build", "vite:test",
   "webpack:webpack", "eslint:lint", "linter:eslint", "storybook:build", "cypress:cypress",
   "playwright:playwright", "next:build"}

NoExecutor == ""

(* merge_with_defaults: a target without an executor has that of the       *)
(* default of its name.                                                    *)
ExecutorOf(target, name, defaults) ==
  IF target.executor = NoExecutor /\ name \in DOMAIN defaults THEN defaults[name] ELSE target.executor

(* map_executor: a server, a command, or a call of nx itself for an        *)
(* executor that is not known or not there.                                *)
MapExecutor(target, name, defaults) ==
  LET executor == ExecutorOf(target, name, defaults)
  IN  IF executor \in NxServers THEN "server"
      ELSE IF executor \in NxCommands \/ (executor = NoExecutor /\ target.command) THEN "command"
      ELSE "shim"

NxUnit(repo, base, d) ==
  LET project == repo.projects[d]
      Kind(t) == MapExecutor(project.targets[t], t, repo.defaults)
      servers == {t \in DOMAIN project.targets : Kind(t) = "server"}
  IN  [Unit(ShortName(project.name, base, d), "node-npm", DOMAIN project.targets \ servers)
         EXCEPT !.serve = IF servers = {} THEN NoServerTask ELSE CHOOSE t \in servers : TRUE]

(* scan_dirs: the directories of the layout or the whole tree; each        *)
(* project.json once.                                                      *)
NxProjects(repo) == IF repo.layout = {} THEN DOMAIN repo.projects ELSE repo.layout \cap DOMAIN repo.projects

Nx(repo, base) ==
  LET dirs == SetToSeq(NxProjects(repo))
  IN  IF dirs = <<>> THEN Nothing
      ELSE Found([n \in DOMAIN dirs |-> [dir |-> dirs[n], unit |-> NxUnit(repo, base, dirs[n])]])
-----------------------------------------------------------------------------
(* moon: the language is translated, or node-npm; a task that has neither  *)
(* command nor args is left out.                                           *)
MoonLanguage(language) ==
  CASE language = "rust" -> "cargo" [] language \in {"go", "python", "ruby", "php"} -> language
    [] OTHER -> "node-npm"

MoonUnit(repo, base, d) ==
  LET tasks == repo.projects[d].tasks
  IN  Unit(base[d], MoonLanguage(repo.projects[d].language),
           {t \in DOMAIN tasks : tasks[t].command \/ tasks[t].args})

(* `projects` of workspace.yml: globs, of which a directory is visited     *)
(* once, or a map from ids to directories.  `exists` are the directories,  *)
(* DOMAIN projects those with a moon.yml.                                  *)
MoonDirs(repo) ==
  IF repo.byGlob THEN SetToSeq(ToSet(repo.entries) \cap DOMAIN repo.projects)
  ELSE SelectSeq(repo.entries, LAMBDA d : d \in repo.exists)

Moon(repo, base) ==
  LET dirs == SelectSeq(MoonDirs(repo), LAMBDA d : d \in DOMAIN repo.projects)
  IN  IF MoonDirs(repo) = <<>> THEN Nothing
      ELSE Found([n \in DOMAIN dirs |-> [dir |-> dirs[n], unit |-> MoonUnit(repo, base, dirs[n])]])
-----------------------------------------------------------------------------
(* Make: a Makefile is the sequence of its lines, each the header of some  *)
(* targets, a line of a recipe, or another (blank, assignment, directive,  *)
(* .PHONY), which ends a rule.                                             *)
NoTarget == [name |-> NoName, recipe |-> 0]

(* parse_makefile: recipe lines go to the last target of the header above. *)
ParseLine(parsed, line) ==
  LET closed == IF parsed.current = NoTarget THEN parsed.targets ELSE Append(parsed.targets, parsed.current)
      opened == [n \in DOMAIN line.names |-> [name |-> line.names[n], recipe |-> 0]]
  IN  CASE line.kind = "recipe" ->
             IF parsed.current = NoTarget THEN parsed ELSE [parsed EXCEPT !.current.recipe = @ + 1]
        [] line.kind = "header" -> [targets |-> closed \o Front(opened), current |-> Last(opened)]
        [] line.kind = "other"  -> [targets |-> closed, current |-> NoTarget]

ParseMakefile(lines) ==
  LET parsed == FoldLeft(ParseLine, [targets |-> <<>>, current |-> NoTarget], lines)
  IN  IF parsed.current = NoTarget THEN parsed.targets ELSE Append(parsed.targets, parsed.current)

(* The targets with a recipe are the tasks of one unit, the root; the same *)
(* target twice, as in the branches of a conditional, is a table twice.    *)
Make(repo, base) ==
  LET runnable == SelectSeq(ParseMakefile(repo.lines), LAMBDA t : t.recipe > 0)
      names    == {runnable[n].name : n \in DOMAIN runnable}
      unit     == [Unit(base[RootDir], "node-npm", names) EXCEPT !.twice = Len(runnable) # Cardinality(names)]
  IN  IF runnable = <<>> THEN Nothing
      ELSE [Found(<<[dir |-> RootDir, unit |-> unit]>>) EXCEPT !.listed = {RootDir}]
-----------------------------------------------------------------------------
(* Rush: the package manager whose version rush.json names; every script   *)
(* of the package.json, if there is one, is a task; and every project is   *)
(* listed.                                                                 *)
RushLanguage(versions) ==
  IF "pnpm" \in versions THEN "node-pnpm" ELSE IF "yarn" \in versions THEN "node-yarn" ELSE "node-npm"

RushUnit(repo, project) ==
  Unit(project.package, RushLanguage(repo.versions),
       IF project.dir \in DOMAIN repo.packages THEN repo.packages[project.dir].scripts ELSE {})

Rush(repo) ==
  LET projects == repo.projects
  IN  IF projects = <<>> THEN Nothing
      ELSE [Found([n \in DOMAIN projects |-> [dir |-> projects[n].dir, unit |-> RushUnit(repo, projects[n])]])
              EXCEPT !.listed = {projects[n].dir : n \in DOMAIN projects}]
-----------------------------------------------------------------------------
Tools == {"turbo", "lerna", "nx", "moon", "make", "rush"}

(* run_migrate. *)
Migration(tool, repo, base) ==
  CASE tool = "turbo" -> Turbo(repo, base) [] tool = "lerna" -> Lerna(repo, base)
    [] tool = "nx" -> Nx(repo, base) [] tool = "moon" -> Moon(repo, base)
    [] tool = "make" -> Make(repo, base) [] tool = "rush" -> Rush(repo)
=============================================================================
