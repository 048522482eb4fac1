------------------------------ MODULE Adapters ------------------------------
(***************************************************************************)
(* The language adapters of monad-adapters, as the planner and the         *)
(* executor use them: which files mark a unit, which enter its keys, which *)
(* never do, where the version of the tool is written, and what its        *)
(* default tasks read and write.  Files of one role are one file: a glob   *)
(* over the sources of a unit is "source", one over what a build leaves is *)
(* "output", eslint.config.* is "eslint.config".                           *)
(***************************************************************************)
EXTENDS Naturals, Sequences, FiniteSets, SequencesExt

(* What the adapters share; each then states where it differs.  `versions` *)
(* are the files that may pin the tool, the first pin counts; `lockfile`   *)
(* is what an install writes if it is not there; `ready` is the directory  *)
(* or file install_probe looks for, "" where it always says Ready;         *)
(* `shared` says whether installs happen at the root of a workspace;       *)
(* `lint` is what its lint reads besides, and `hooks` are the tasks that   *)
(* run again for diagnostics when they fail.                               *)
LanguageAdapter ==
  [marks |-> {}, fingerprints |-> {}, derived |-> {}, versions |-> <<>>, inputs |-> {"source"},
   lint |-> {}, outputs |-> {}, lockfile |-> "", ready |-> "", shared |-> FALSE,
   tasks |-> {"build", "test", "lint"}, hooks |-> {}]

Go ==
  [LanguageAdapter EXCEPT
     !.marks = {"go.mod"}, !.fingerprints = {"go.mod", "go.sum", ".tool-versions"},
     !.versions = <<"go.mod", ".tool-versions">>, !.inputs = {"source", "go.mod", "go.sum"},
     !.lint = {".golangci.yml"}, !.tasks = @ \cup {"check"}, !.hooks = {"lint"}]

Cargo ==
  [LanguageAdapter EXCEPT
     !.marks = {"Cargo.toml"},
     !.fingerprints = {"Cargo.toml", "Cargo.lock", "rust-toolchain", "rust-toolchain.toml",
                       "clippy.toml", "rustfmt.toml", ".tool-versions"},
     !.versions = <<"rust-toolchain.toml", "rust-toolchain", ".tool-versions">>,
     !.inputs = {"source", "Cargo.toml", "Cargo.lock"}, !.lint = {"clippy.toml"},
     !.tasks = @ \cup {"check"}, !.hooks = {"build", "check", "test", "lint"}]

PythonFiles == {"pyproject.toml", "requirements.txt", "setup.py", ".python-version", ".tool-versions"}

PythonUv ==
  [LanguageAdapter EXCEPT
     !.marks = {"uv.lock"}, !.fingerprints = PythonFiles \cup {"uv.lock"}, !.derived = {"output", "egg-info"},
     !.versions = <<".python-version", "pyproject.toml", ".tool-versions">>,
     !.inputs = {"source", "pyproject.toml", "uv.lock", "setup.py"}, !.lint = {"ruff.toml"},
     !.outputs = {"output"}, !.ready = ".venv", !.hooks = {"lint"}]

Python ==
  [LanguageAdapter EXCEPT
     !.marks = {"pyproject.toml", "requirements.txt"},
     !.fingerprints = PythonFiles \cup {"poetry.lock", "uv.lock"}, !.derived = {"output", "egg-info"},
     !.versions = <<".python-version", "pyproject.toml", ".tool-versions">>,
     !.inputs = {"source", "pyproject.toml", "requirements.txt", "setup.py"}, !.lint = {"ruff.toml"},
     !.outputs = {"output"}, !.hooks = {"lint"}]

RubyVersions == <<".ruby-version", "Gemfile", ".tool-versions">>

Ruby ==
  [LanguageAdapter EXCEPT
     !.marks = {"Gemfile"}, !.fingerprints = {"Gemfile", "Gemfile.lock", ".ruby-version", ".tool-versions"},
     !.derived = {"Gemfile.lock", "vendor"},
     !.versions = RubyVersions,
     !.inputs = {"source", "Gemfile", "Gemfile.lock"}, !.lint = {".rubocop.yml"},
     !.lockfile = "Gemfile.lock"]

Php ==
  [LanguageAdapter EXCEPT
     !.marks = {"composer.json"},
     !.fingerprints = {"composer.json", "composer.lock", ".php-version", ".tool-versions"},
     !.versions = <<".php-version", "composer.json", ".tool-versions">>,
     !.inputs = {"source", "composer.json", "composer.lock"}, !.lint = {"phpstan.neon"},
     !.outputs = {"vendor"}, !.lockfile = "composer.lock", !.ready = "vendor"]

MavenVersions == <<".java-version", ".sdkmanrc", "pom.xml", ".tool-versions">>

Maven ==
  [LanguageAdapter EXCEPT
     !.marks = {"pom.xml"}, !.fingerprints = {"pom.xml", ".java-version", ".sdkmanrc", ".tool-versions"},
     !.versions = MavenVersions,
     !.inputs = {"source", "pom.xml"}, !.lint = {"checkstyle.xml"}, !.outputs = {"output"}]

GradleVersions ==
  <<".java-version", ".sdkmanrc", "libs.versions.toml", "gradle.properties", "build.gradle.kts",
    "build.gradle", ".tool-versions">>

Gradle ==
  [LanguageAdapter EXCEPT
     !.marks = {"build.gradle", "build.gradle.kts", "settings.gradle"},
     !.fingerprints = {"build.gradle", "build.gradle.kts", "settings.gradle", "gradle.properties",
                       "libs.versions.toml", "gradle-wrapper.properties", ".java-version", ".sdkmanrc",
                       ".tool-versions"},
     !.versions = GradleVersions,
     !.inputs = {"source", "build.gradle", "build.gradle.kts", "settings.gradle", "gradle.properties",
                 "libs.versions.toml"},
     !.lint = {"config"}, !.outputs = {"output"}]

Deno ==
  [LanguageAdapter EXCEPT
     !.marks = {"deno.json", "deno.jsonc", "deno.lock"},
     !.fingerprints = {"deno.json", "deno.jsonc", "deno.lock", "import_map.json", ".deno-version",
                       ".tool-versions"},
     !.versions = <<".deno-version", "deno.json", "deno.jsonc", ".tool-versions">>,
     !.inputs = {"source", "deno.json", "deno.jsonc", "deno.lock", "import_map.json"},
     !.outputs = {"output"}]

(* resolve_node_version and base_inputs: what the adapters of Node share. *)
NodeVersions == <<".nvmrc", ".node-version", ".tool-versions", "package.json">>

Node(lock, more) ==
  [LanguageAdapter EXCEPT
     !.marks = {lock},
     !.fingerprints = {"package.json", lock, ".nvmrc", ".node-version", ".tool-versions"} \cup more,
     !.versions = NodeVersions, !.inputs = {"source", "package.json", lock, "tsconfig.json"},
     !.lint = {"eslint.config"}, !.outputs = {"output"}, !.lockfile = lock,
     !.ready = "node_modules", !.shared = TRUE, !.hooks = {"lint"}]

Bun ==
  [Node("bun.lock", {"bun.lockb", "bunfig.toml", ".bun-version"}) EXCEPT
     !.marks = {"bun.lock", "bun.lockb"}, !.inputs = @ \cup {"bun.lockb", "bunfig.toml"},
     !.versions = <<".bun-version", ".tool-versions">> \o NodeVersions]

NodePnpm == Node("pnpm-lock.yaml", {".npmrc"})
NodeYarn == Node("yarn.lock", {".yarnrc.yml"})
NodeNpm  == Node("package-lock.json", {})

(* AdapterRegistry::builtin: in the order in which detect asks them. *)
Builtin ==
  <<"go", "cargo", "python-uv", "python", "ruby", "php", "maven", "gradle", "deno", "bun",
    "node-pnpm", "node-yarn", "node-npm">>

NoAdapter == "none"

(* Installer::builtin and primary_tool_name: the adapters whose tool monad *)
(* can install.                                                            *)
Installable == {"go", "python", "python-uv", "node-pnpm", "node-yarn", "node-npm"}

(* Where no adapter is found there are no default tasks. *)
AdapterOf ==
  [id \in ToSet(Builtin) \cup {NoAdapter} |->
     CASE id = "go" -> Go [] id = "cargo" -> Cargo [] id = "python-uv" -> PythonUv
       [] id = "python" -> Python [] id = "ruby" -> Ruby [] id = "php" -> Php
       [] id = "maven" -> Maven [] id = "gradle" -> Gradle [] id = "deno" -> Deno
       [] id = "bun" -> Bun [] id = "node-pnpm" -> NodePnpm [] id = "node-yarn" -> NodeYarn
       [] id = "node-npm" -> NodeNpm [] id = NoAdapter -> [LanguageAdapter EXCEPT !.tasks = {}]]

(* AdapterRegistry::detect: the first that finds one of its marks. *)
Detect(present) ==
  LET found == {i \in DOMAIN Builtin : AdapterOf[Builtin[i]].marks \cap present # {}}
  IN  IF found = {} THEN NoAdapter ELSE Builtin[Min(found)]

(* required_toolchain: the first of the version files, in the order of the *)
(* adapter, that pins a version.  `contents` maps the files that are there *)
(* to what they hold; NoPin holds none.                                    *)
RequiredToolchain(id, contents, NoPin) ==
  LET pins == SelectSeq(AdapterOf[id].versions,
                        LAMBDA f : f \in DOMAIN contents /\ contents[f] # NoPin)
  IN  IF pins = <<>> THEN NoPin ELSE <<Head(pins), contents[Head(pins)]>>

(* install: a lockfile that is missing is written. *)
AfterInstall(id, present) ==
  present \cup ({AdapterOf[id].lockfile} \ {""})
=============================================================================
