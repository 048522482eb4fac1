-------------------------------- MODULE Setup --------------------------------
(***************************************************************************)
(* The commands that write the configuration of a workspace: monad init,   *)
(* migrate, unit add and box add, one at a time, each a sequence of        *)
(* writes, each of which truncates the file before it fills it; and        *)
(* Workspace::load, which every other command of monad begins with.        *)
(***************************************************************************)
EXTENDS Migrators

Lang == INSTANCE Adapters

CONSTANTS
  Folders,      \* directories of the repository, none inside another but for the root, whose
                \* names a string of TOML holds as they are: no quote and no backslash
  ProfileNames, \* "prod" and others: of the files in profiles/, and of the profiles in them
  AgentFiles,   \* AGENTS.md and CLAUDE.md; one, if one is a link to the other
  Layouts,      \* repositories to begin with
  Repos,        \* per tool: the configurations a migration may find
  Servers,      \* the task names that stand for a server in all of them
  TextLines,    \* lines of a text for agents
  Languages,    \* values of --lang
  MaxSetups     \* bound on the commands

(* The lines of monad's own: the markers, and what it writes. *)
Marks == {"begin", "old", "new", "end", "header"}

ASSUME SetupAssumption ==
  /\ Marks \subseteq TextLines
  /\ RootDir \in Folders /\ "prod" \in ProfileNames /\ MaxSetups \in Nat
  /\ Languages \subseteq ToSet(Lang!Builtin)
  /\ IsFiniteSet(Folders) /\ IsFiniteSet(AgentFiles)

VARIABLES
  disk,     \* the files monad writes
  folders,  \* per directory: the files of its language that are there
  layout,   \* the repository at the beginning, and the names of its directories
  setup,    \* the command that runs: its writes to come, and what it found
  setups,   \* how many there have been
  forced,   \* history: files written with --force
  killed,   \* history: a command was killed
  broke     \* history: the commands after which doctor finds something new, and what

setupVars == <<disk, folders, layout, setup, setups, forced, killed, broke>>

RepoFile   == <<"repo", "monad.toml">>
Profile(p) == <<"profile", p>>
UnitFile(d) == <<"unit", d>>
TextFile(a) == <<"text", a>>
Prod       == Profile("prod")
SetupFiles ==
  {RepoFile} \cup {Profile(p) : p \in ProfileNames} \cup {UnitFile(d) : d \in Folders}
             \cup {TextFile(a) : a \in AgentFiles}

Missing   == [kind |-> "missing"]
Cut       == [kind |-> "cut"]
RepoBody  == [kind |-> "repo"]
Listing(name, units) == [kind |-> "profile", name |-> name, units |-> units]
UnitBody(unit, by) == [kind |-> "unit", unit |-> unit, by |-> by]
Text(lines) == [kind |-> "text", lines |-> lines]
Exists(file) == disk[file] # Missing

(* What a file holds that is all there.  Only the unit.toml of a Makefile, *)
(* at the root, may have a table twice.                                    *)
WholeUnit(d, body) ==
  /\ body = UnitBody(body.unit, body.by)
  /\ body.unit.twice => d = RootDir /\ body.by = "make"
  /\ body.by \in {"turbo", "nx"} => body.unit.tasks \cap Servers = {}

Whole(file, body) ==
  CASE file[1] = "repo"    -> body = RepoBody
    [] file[1] = "profile" -> \E name \in ProfileNames, units \in SUBSET Folders : body = Listing(name, units)
    [] file[1] = "unit"    -> WholeUnit(file[2], body)
    [] file[1] = "text"    -> body = Text(body.lines) /\ body.lines \in Seq(TextLines)

ASSUME LayoutsAreWhole ==
  \A l \in Layouts :
    /\ DOMAIN l.folders = Folders /\ DOMAIN l.files \subseteq SetupFiles
    /\ \A file \in DOMAIN l.files : Whole(file, l.files[file])

(* The configurations name directories that are there, a finite number of  *)
(* them; Rush wants its projects below the root.  A server is one for      *)
(* Turborepo, which runs it without end, and for Nx, by its executor.      *)
ASSUME ReposAreHere ==
  \A tool \in Tools : \A repo \in Repos[tool], l \in Layouts :
    LET visits == ToSet(Migration(tool, repo, l.base).units)
    IN  /\ IsFiniteSet(visits)
        /\ \A v \in visits : v.dir \in Folders /\ (tool = "rush" => v.dir # RootDir)

ASSUME ServersAreServers ==
  /\ \A repo \in Repos["turbo"] : repo.pipeline \cap Servers = {}
  /\ \A repo \in Repos["nx"] : IsFiniteSet(DOMAIN repo.projects) /\ \A d \in DOMAIN repo.projects :
       LET targets == repo.projects[d].targets
       IN  \A t \in DOMAIN targets \cap Servers : ExecutorOf(targets[t], t, repo.defaults) \in NxServers

NoCommand == [kind |-> "none", writes |-> <<>>, began |-> FALSE, found |-> {}]
Write(file, body)  == [to |-> file, body |-> body]
Create(d, name)    == [to |-> d, body |-> [kind |-> "source", name |-> name]]
-----------------------------------------------------------------------------
(* load_units: the directories that some profile of the workspace lists.   *)
(* A workspace is what its files hold: those on the disk, or others.       *)
Wired(files) ==
  UNION {files[Profile(p)].units : p \in {q \in ProfileNames : files[Profile(q)].kind = "profile"}}

Needed(files) == {RepoFile} \cup {Profile(p) : p \in ProfileNames} \cup {UnitFile(d) : d \in Wired(files)}

(* Workspace::load, as the set of the errors it may return: a file that    *)
(* does not parse, for being cut off or for a table that is there twice; a *)
(* listed directory without unit.toml; a name that two units have, or two  *)
(* profiles, which need not be called like their files.                    *)
Faults(files) ==
  LET Units == {d \in Wired(files) : files[UnitFile(d)].kind = "unit"}
      Name(d) == files[UnitFile(d)].unit.name
      Profiles == {p \in ProfileNames : files[Profile(p)].kind = "profile"}
  IN  {f \in {"cut", "twice", "dangling", "duplicate", "profiles"} :
         \/ f = "cut" /\ \E file \in Needed(files) : files[file] = Cut
         \/ f = "twice" /\ \E d \in Units : files[UnitFile(d)].unit.twice
         \/ f = "dangling" /\ \E d \in Wired(files) : files[UnitFile(d)] = Missing
         \/ f = "duplicate" /\ \E d, e \in Units : d # e /\ Name(d) = Name(e)
         \/ f = "profiles" /\ \E p, q \in Profiles : p # q /\ files[Profile(p)].name = files[Profile(q)].name}

(* scan_orphans: a unit.toml that no profile lists; the root's is no unit. *)
Orphans(files) == {d \in Folders \ {RootDir} : files[UnitFile(d)] # Missing /\ d \notin Wired(files)}

(* monad doctor: the error of load fails it, orphans are a warning.        *)
Diagnosis(files) ==
  IF Faults(files) # {} THEN Faults(files) ELSE {f \in {"orphan"} : Orphans(files) # {}}

(* find_workspace_root: monad.toml or profiles/. *)
HasRoot == Exists(RepoFile) \/ \E p \in ProfileNames : Exists(Profile(p))
-----------------------------------------------------------------------------
Block == <<"begin", "new", "end">>

(* str::find: the place of the first such line, 0 if there is none. *)
FirstOf(lines, mark) ==
  LET places == {n \in 1..Len(lines) : lines[n] = mark}
  IN  IF places = {} THEN 0 ELSE Min(places)

\* Mutant: the end of the old block is looked for from the top of the file.
MergeAgentText_FirstEnd(lines) ==
  LET b == FirstOf(lines, "begin")
      e == FirstOf(lines, "end")
  IN  IF b # 0 /\ e # 0 THEN SubSeq(lines, 1, b - 1) \o Block \o SubSeq(lines, e + 1, Len(lines))
      ELSE lines \o Block

(* merge_agent_file: the block between the first marker and the first end  *)
(* after it is replaced, or one is added at the end.                       *)
MergeAgentText(lines) ==
  LET b    == FirstOf(lines, "begin")
      rest == SubSeq(lines, b + 1, Len(lines))
      e    == FirstOf(rest, "end")
  IN  IF b # 0 /\ e # 0 THEN SubSeq(lines, 1, b - 1) \o Block \o SubSeq(rest, e + 1, Len(rest))
      ELSE lines \o Block

TextWrites ==
  LET Merged(a) == IF Exists(TextFile(a)) /\ disk[TextFile(a)] # Cut
                   THEN MergeAgentText(disk[TextFile(a)].lines)
                   ELSE (IF Exists(TextFile(a)) THEN <<>> ELSE <<"header">>) \o Block
      changed == {a \in AgentFiles : Text(Merged(a)) # disk[TextFile(a)]}
      order   == SetToSeq(changed)
  IN  [n \in DOMAIN order |-> Write(TextFile(order[n]), Text(Merged(order[n])))]

Begin(kind, writes) ==
  /\ setup = NoCommand /\ setups < MaxSetups
  /\ setup' = [kind |-> kind, writes |-> writes, began |-> FALSE, found |-> Diagnosis(disk)]
  /\ setups' = setups + 1
  /\ UNCHANGED <<disk, folders, layout, killed, broke>>

(* detect_units: the directories some adapter knows; the root is not one.  *)
DetectedUnits == {d \in Folders \ {RootDir} : Lang!Detect(folders[d]) # Lang!NoAdapter}

UnitWrites(dirs, unitOf, by) ==
  LET order == SetToSeq(dirs)
  IN  [n \in DOMAIN order |-> Write(UnitFile(order[n]), UnitBody(unitOf[order[n]], by))]

(* run_init: monad.toml, then prod.toml with every unit, then the          *)
(* unit.toml that are not there, then the texts for agents.                *)
InitWith(detected) ==
  LET new == {d \in detected : ~ Exists(UnitFile(d))}
  IN  /\ ~ Exists(RepoFile) /\ ~ Exists(Prod)
      /\ Begin("init", <<Write(RepoFile, RepoBody), Write(Prod, Listing("prod", detected))>>
                       \o UnitWrites(new, [d \in new |-> Unit(layout.base[d], Lang!Detect(folders[d]), {})], "init")
                       \o TextWrites)
      /\ UNCHANGED forced

RunInit == InitWith(DetectedUnits) \/ InitWith({})
-----------------------------------------------------------------------------
(* A file that is there is a conflict and stays, unless --force. *)
Kept(file, force) == Exists(file) /\ ~ force

(* The directories of the visits that are written; the second visit of a   *)
(* directory finds the file of the first.                                  *)
Written(m, force) == {v \in ToSet(m.units) : ~ Kept(UnitFile(v.dir), force)}

MigrateWrites(tool, m, force) ==
  LET visits  == SetToSeq(Written(m, force))
      listing == m.listed \cup {v.dir : v \in Written(m, force)}
  IN  [n \in DOMAIN visits |-> Write(UnitFile(visits[n].dir), UnitBody(visits[n].unit, tool))]
      \o (IF Kept(RepoFile, force) THEN <<>> ELSE <<Write(RepoFile, RepoBody)>>)
      \o (IF Kept(Prod, force) THEN <<>> ELSE <<Write(Prod, Listing("prod", listing))>>)

(* run_migrate: the units, then monad.toml, then prod.toml. *)
RunMigrate(tool) ==
  \E repo \in Repos[tool], force \in BOOLEAN :
    LET m      == Migration(tool, repo, layout.base)
        writes == MigrateWrites(tool, m, force)
    IN  /\ m.found
        /\ Begin(tool, writes)
        /\ forced' = IF force THEN forced \cup {writes[n].to : n \in DOMAIN writes} ELSE forced
-----------------------------------------------------------------------------
(* What unit add writes into an empty directory, before its unit.toml: a   *)
(* manifest, sources, and the version of the tool that is installed.       *)
ScaffoldGo     == <<"go.mod", "source">>
ScaffoldJs     == <<"package.json", "tsconfig.json", "source", ".nvmrc">>
ScaffoldPython == <<"pyproject.toml", "source", ".python-version">>
ScaffoldCargo  == <<"Cargo.toml", "source", "rust-toolchain.toml">>
ScaffoldDeno   == <<"deno.json", "source">>
ScaffoldRuby   == <<"Gemfile", "source", ".ruby-version">>
ScaffoldPhp    == <<"composer.json", "source", ".php-version">>
ScaffoldMaven  == <<"pom.xml", "source", ".java-version">>
ScaffoldGradle == <<"settings.gradle", "build.gradle.kts", "source", ".java-version">>

Scaffolded(lang) ==
  CASE lang = "go" -> ScaffoldGo [] lang \in {"python", "python-uv"} -> ScaffoldPython
    [] lang = "cargo" -> ScaffoldCargo [] lang = "deno" -> ScaffoldDeno [] lang = "ruby" -> ScaffoldRuby
    [] lang = "php" -> ScaffoldPhp [] lang = "maven" -> ScaffoldMaven [] lang = "gradle" -> ScaffoldGradle
    [] OTHER -> ScaffoldJs

Empty(d) == folders[d] = {} /\ ~ Exists(UnitFile(d))

(* scaffold: python-uv becomes python until there is a uv.lock. *)
ScaffoldWrites(d, lang) ==
  LET names == Scaffolded(lang)
      unit  == Unit(layout.base[d], IF lang = "python-uv" THEN "python" ELSE lang, {"build", "test", "lint"})
  IN  [n \in DOMAIN names |-> Create(d, names[n])] \o <<Write(UnitFile(d), UnitBody(unit, "add"))>>

(* adopt: the language that is asked for, or that is found. *)
AdoptWrites(d, lang) == <<Write(UnitFile(d), UnitBody(Unit(layout.base[d], lang, {}), "add"))>>

Adoptable(d, lang) ==
  ~ Empty(d) /\ ~ Exists(UnitFile(d)) /\ lang \in (Languages \cup {Lang!Detect(folders[d])}) \ {Lang!NoAdapter}

\* Mutant: the name is not compared with those of the units there are.
IsNew_PathOnly(d) == d \notin Wired(disk)

(* Neither the name nor the path is that of a unit of the workspace. *)
IsNew(d) ==
  /\ d \notin Wired(disk)
  /\ \A e \in Wired(disk) : disk[UnitFile(e)].unit.name # layout.base[d]

(* wire_into_profile, the rest of the file as it is. *)
Wire(d, p) == <<Write(Profile(p), Listing(disk[Profile(p)].name, disk[Profile(p)].units \cup {d}))>>

(* run_unit_add, in a workspace that loads: the profile is asked for by    *)
(* its name, and written where it was read.                                *)
RunUnitAdd(d, p) ==
  /\ HasRoot /\ Faults(disk) = {}
  /\ disk[Profile(p)].kind = "profile" /\ IsNew(d)
  /\ \/ \E lang \in Languages : Empty(d) /\ Begin("add", ScaffoldWrites(d, lang) \o Wire(d, p))
     \/ \E lang \in ToSet(Lang!Builtin) : Adoptable(d, lang) /\ Begin("add", AdoptWrites(d, lang) \o Wire(d, p))
  /\ UNCHANGED forced

(* run_box_add, in any workspace: only the name of the file is looked at.  *)
RunBoxAdd(p) ==
  /\ HasRoot /\ ~ Exists(Profile(p))
  /\ Begin("box", <<Write(Profile(p), Listing(p, {}))>>)
  /\ UNCHANGED forced
-----------------------------------------------------------------------------
Coming == Head(setup.writes)

(* write_file of a source or manifest. *)
CreateFile ==
  /\ setup.writes # <<>> /\ Coming.body.kind = "source"
  /\ folders' = [folders EXCEPT ![Coming.to] = @ \cup {Coming.body.name}]
  /\ setup' = [setup EXCEPT !.writes = Tail(@)]
  /\ UNCHANGED <<disk, layout, setups, forced, killed, broke>>

(* fs::write of a configuration file: truncated, ... *)
BeginFile ==
  /\ setup.writes # <<>> /\ Coming.body.kind # "source" /\ ~ setup.began
  /\ disk' = [disk EXCEPT ![Coming.to] = Cut]
  /\ setup' = [setup EXCEPT !.began = TRUE]
  /\ UNCHANGED <<folders, layout, setups, forced, killed, broke>>

(* ... then filled. *)
FillFile ==
  /\ setup.began
  /\ disk' = [disk EXCEPT ![Coming.to] = Coming.body]
  /\ setup' = [setup EXCEPT !.writes = Tail(@), !.began = FALSE]
  /\ UNCHANGED <<folders, layout, setups, forced, killed, broke>>

EndSetup ==
  /\ setup # NoCommand /\ setup.writes = <<>>
  /\ setup' = NoCommand
  /\ broke' = IF setup.found \subseteq {"orphan"}
              THEN broke \cup {<<setup.kind, f>> : f \in Diagnosis(disk) \ setup.found} ELSE broke
  /\ UNCHANGED <<disk, folders, layout, setups, forced, killed>>

(* Or a write fails. *)
KillSetup ==
  /\ setup # NoCommand
  /\ setup' = NoCommand /\ killed' = TRUE
  /\ UNCHANGED <<disk, folders, layout, setups, forced, broke>>

SetupInit ==
  /\ layout \in Layouts
  /\ disk = [file \in SetupFiles |-> IF file \in DOMAIN layout.files THEN layout.files[file] ELSE Missing]
  /\ folders = layout.folders
  /\ Faults(disk) = {}
  /\ setup = NoCommand /\ setups = 0 /\ forced = {} /\ killed = FALSE /\ broke = {}

SetupNext ==
  \/ RunInit \/ \E tool \in Tools : RunMigrate(tool)
  \/ \E d \in Folders, p \in ProfileNames : RunUnitAdd(d, p)
  \/ \E p \in ProfileNames : RunBoxAdd(p)
  \/ CreateFile \/ BeginFile \/ FillFile \/ EndSetup \/ KillSetup

SetupSpec == SetupInit /\ [][SetupNext]_setupVars
-----------------------------------------------------------------------------
SetupTypeOK ==
  /\ DOMAIN disk = SetupFiles
  /\ \A file \in SetupFiles : disk[file].kind \in {"missing", "cut", file[1]}
  /\ DOMAIN folders = Folders
  /\ setup.kind \in {"none", "init", "add", "box"} \cup Tools
  /\ setups \in 0..MaxSetups /\ forced \subseteq SetupFiles /\ killed \in BOOLEAN
  /\ broke \subseteq ({"init", "add", "box"} \cup Tools)
                     \X {"cut", "twice", "dangling", "duplicate", "profiles", "orphan"}

(* A profile that is not called like its file. *)
Misnamed == \E file \in DOMAIN layout.files : file[1] = "profile" /\ layout.files[file].name # file[2]

(* run_init, run_migrate, scaffold::run, run_box_add: a command that finds *)
(* a workspace that loads leaves one, but for a name that init or a        *)
(* migration gives to two units; a profile that init, a migration or box   *)
(* add writes beside one that has its name in another file; a Makefile     *)
(* that has a target twice; and a unit.toml a kill has cut off and that    *)
(* init, migrate make or migrate rush list unread; and no unit that no     *)
(* profile lists, but for a migration, which keeps prod.toml as it is or,  *)
(* with --force, drops what it did not find.  Monad ci of it does not wait *)
(* for a server: what Turborepo or Nx call a server is no task.            *)
SetupLeavesItRunnable ==
  /\ \A b \in broke :
       \/ b[2] = "duplicate" /\ b[1] \in {"init"} \cup Tools
       \/ b[2] = "profiles" /\ b[1] \in {"init", "box"} \cup Tools /\ Misnamed
       \/ b = <<"make", "twice">>
       \/ b[2] = "orphan" /\ b[1] \in Tools
       \/ b[2] = "cut" /\ killed /\ b[1] \in {"init", "make", "rush"}
  /\ \A d \in Folders :
       disk[UnitFile(d)].kind = "unit" /\ disk[UnitFile(d)].by \in {"turbo", "nx"}
         => disk[UnitFile(d)].unit.tasks \cap Servers = {}

(* The user's lines of a text with at most one block of monad's, or one    *)
(* with stray ends.                                                        *)
UsersLines(lines) ==
  LET kept[n \in 0..Len(lines)] ==
        IF n = 0 THEN <<>> ELSE IF lines[n] \in Marks THEN kept[n - 1] ELSE Append(kept[n - 1], lines[n])
  IN  kept[Len(lines)]
WellMarked(lines) ==
  \A b \in DOMAIN lines : lines[b] = "begin" =>
     /\ \A c \in DOMAIN lines \ {b} : lines[c] # "begin"
     /\ \E e \in DOMAIN lines : e > b /\ lines[e] = "end" /\ UsersLines(SubSeq(lines, b, e)) = <<>>

(* merge_agent_file, wire_into_profile, write_unit_tomls and the conflicts *)
(* of a migration: whatever commands are run, and without a kill in the    *)
(* middle of a write, the unit.toml, the entries of profiles and the text  *)
(* that somebody wrote are there until --force is given for their file.    *)
UsersWorkStays ==
  LET mine == DOMAIN layout.files \ forced
  IN  \A file \in mine :
        CASE layout.files[file].kind \in {"unit", "repo"} -> disk[file] = layout.files[file]
          [] layout.files[file].kind = "profile" ->
               killed \/ disk[file] = Cut \/ layout.files[file].units \subseteq disk[file].units
          [] layout.files[file].kind = "text"    ->
               \/ killed \/ disk[file] = Cut \/ ~ WellMarked(layout.files[file].lines)
               \/ UsersLines(disk[file].lines) = UsersLines(layout.files[file].lines)
=============================================================================
