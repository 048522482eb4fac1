------------------------------ MODULE Toolchain ------------------------------
(***************************************************************************)
(* monad-toolchain: the user-wide store of toolchains, ~/.monad/tools, and *)
(* the installers that fill it: unit threads of `monad ci`, which share    *)
(* one PATH, and `monad toolchain install` in other processes.             *)
(***************************************************************************)
EXTENDS Naturals, Sequences, SequencesExt

CONSTANTS
  Installers,   \* threads that install
  ProcessOf,    \* the process of each: threads of one share its PATH
  SystemUv,     \* whether uv is on the PATH that the processes start with
  Requests,     \* what a unit may ask for, see Resolve
  Hosts         \* operating systems and processors

Processes == {ProcessOf[i] : i \in Installers}

VARIABLES
  tree,      \* <root>/<tool>/<version>, for each tool one version
  stage,     \* <root>/.stage/<pid>-<nanos> of each installer
  mode,      \* what runs the installer: a unit thread, the command, nothing
  jobs,      \* the ensures still to do, the current one first
  place,     \* where the installer is in Installer::ensure
  failed,    \* ensures of the command that failed
  path,      \* the directories of PATH that matter here, per process
  readPath   \* the PATH that prepend_path_env has read

toolchainVars == <<tree, stage, mode, jobs, place, failed, path, readPath>>

(* The tools of Installer::builtin. *)
Builtin   == {"go", "node", "python", "uv"}
Delegated == {"python"}
Dirs      == Builtin \cup {"system"}
CoRequired(tool) == IF tool = "python" THEN <<"uv">> ELSE <<>>

Places  == {"idle", "resolve", "check", "download", "extract", "compare", "rename",
            "read_path", "write_path", "unwind", "ok", "err", "killed"}
Stages  == {"none", "empty", "archive", "bad_archive", "tree", "half_tree"}
-----------------------------------------------------------------------------
(* Resolver::resolve: `use_system` of the unit or of the repository, then  *)
(* the pin of the unit, of the repository, the version the adapter reads   *)
(* in the sources, and the system's tool.                                  *)
Resolve(req) ==
  IF req.unit = "use_system" \/ req.repo = "use_system" THEN "none"
  ELSE IF req.unit = "pin" THEN "unit"
  ELSE IF req.repo = "pin" THEN "repo"
  ELSE IF req.detected     THEN "adapter"
  ELSE                          "system"

(* primary_tool_name: the tool that stands for a language adapter. *)
PrimaryTool(adapter) ==
  CASE adapter \in {"node-npm", "node-pnpm", "node-yarn"} -> "node"
    [] adapter \in {"python", "python-uv"} -> "python"
    [] OTHER -> adapter

Pinned(req) == Resolve(req) \in {"unit", "repo"} /\ PrimaryTool(req.adapter) \in Builtin

(* ensure_toolchain: only an explicit pin of a tool with an installer makes *)
(* work, and what it requires comes first.                                  *)
UnitJobs(req) ==
  IF Pinned(req) THEN CoRequired(PrimaryTool(req.adapter)) \o <<PrimaryTool(req.adapter)>> ELSE <<>>

(* install_all: the pins of all units without duplicates, and before them  *)
(* collect_co_required.                                                    *)
CommandJobs(reqs) ==
  LET planned == {PrimaryTool(r.adapter) : r \in {q \in reqs : Pinned(q)}}
      co      == UNION {ToSet(CoRequired(t)) : t \in planned}
  IN  SetToSeq(co) \o SetToSeq(planned)

(* Store::list: what is on disk outside .stage. *)
Listed == {t \in Builtin \ Delegated : tree[t] # "absent"}
-----------------------------------------------------------------------------
StoreInit ==
  /\ tree = [t \in Builtin \ Delegated |-> "absent"]
  /\ stage = [i \in Installers |-> "none"]
  /\ mode = [i \in Installers |-> "off"]
  /\ jobs = [i \in Installers |-> <<>>]
  /\ place = [i \in Installers |-> "idle"]
  /\ failed = [i \in Installers |-> 0]
  /\ path = [p \in Processes |-> IF SystemUv THEN {"system"} ELSE {}]
  /\ readPath = [i \in Installers |-> {}]

At(i, here) == place[i] = here
Move(i, there) == place' = [place EXCEPT ![i] = there]
Tool(i) == Head(jobs[i])

(* Target::current: Linux and macOS on x86_64 and aarch64. *)
TargetKnown(host) == host.os \in {"linux", "macos"} /\ host.arch \in {"x86_64", "aarch64"}

(* A unit thread calls ensure_toolchain, or `monad toolchain install` runs. *)
AskFor(i, m, reqs, host) ==
  /\ At(i, "idle")
  /\ LET todo == IF ~ TargetKnown(host) THEN <<>>
                 ELSE IF m = "unit" THEN UnitJobs(CHOOSE r \in reqs : TRUE) ELSE CommandJobs(reqs)
     IN  /\ IF m = "unit" THEN \E r \in reqs : reqs = {r}
                            ELSE \A j \in Installers \ {i} : ProcessOf[j] # ProcessOf[i]
         /\ jobs' = [jobs EXCEPT ![i] = todo]
         /\ Move(i, IF todo # <<>> THEN "resolve"
                    ELSE IF m = "install" /\ ~ TargetKnown(host) THEN "err" ELSE "ok")
  /\ mode' = [mode EXCEPT ![i] = m]
  /\ UNCHANGED <<tree, stage, failed, path, readPath>>

(* The end of one ensure.  A unit thread gives up at the first error, the  *)
(* command counts it and goes on.                                          *)
NextJob(i) ==
  /\ jobs' = [jobs EXCEPT ![i] = Tail(@)]
  /\ Move(i, IF Len(jobs[i]) = 1 THEN IF failed'[i] > 0 THEN "err" ELSE "ok" ELSE "resolve")

GiveUp(i) ==
  IF mode[i] = "unit"
    THEN /\ Move(i, "err")
         /\ UNCHANGED <<jobs, failed>>
    ELSE /\ failed' = [failed EXCEPT ![i] = @ + 1]
         /\ NextJob(i)

(* The bin directory of a co-required tool goes on PATH at once. *)
Ensured(i) ==
  IF \E t \in Builtin : Tool(i) \in ToSet(CoRequired(t))
    THEN Move(i, "read_path") /\ UNCHANGED <<jobs, failed>>
    ELSE UNCHANGED failed /\ NextJob(i)

(* resolve_version: node looks a range up in the release index, which may  *)
(* not answer or hold no match.                                            *)
ResolveVersion(i) ==
  /\ At(i, "resolve")
  /\ \/ Move(i, "check") /\ UNCHANGED <<jobs, failed>>
     \/ Tool(i) = "node" /\ GiveUp(i)
  /\ UNCHANGED <<tree, stage, mode, path, readPath>>

UvIsAvailable(i) == path[ProcessOf[i]] \cap {"uv", "system"} # {}

(* PythonTool::delegated_ensure: uv installs and finds the interpreter. *)
DelegatedEnsure(i) ==
  /\ At(i, "check") /\ Tool(i) \in Delegated
  /\ \/ UvIsAvailable(i) /\ Ensured(i)
     \/ GiveUp(i)
  /\ UNCHANGED <<tree, stage, mode, path, readPath>>

(* is_installed: a directory with something in it. *)
CheckInstalled(i) ==
  /\ At(i, "check") /\ Tool(i) \notin Delegated
  /\ IF tree[Tool(i)] = "absent" THEN Move(i, "download") /\ UNCHANGED <<jobs, failed>> ELSE Ensured(i)
  /\ UNCHANGED <<tree, stage, mode, path, readPath>>

(* Store::stage, a directory of its own by process id and nanoseconds, and *)
(* download into it; the body may end early without an error.              *)
Download(i) ==
  /\ At(i, "download")
  /\ \E a \in {"archive", "bad_archive", "empty"} :
       /\ stage' = [stage EXCEPT ![i] = a]
       /\ Move(i, IF a = "empty" THEN "unwind" ELSE "extract")
  /\ UNCHANGED <<tree, mode, jobs, failed, path, readPath>>

(* verify_checksum, in one of its three formats: no line for the archive,  *)
(* no answer, or another digest is an error.                               *)
Verified(i) == stage[i] = "archive"

(* extract, the wrapper directory, and post_extract; each may fail. *)
Extract(i) ==
  /\ At(i, "extract")
  /\ \/ /\ Verified(i)
        /\ stage' = [stage EXCEPT ![i] = IF @ = "archive" THEN "tree" ELSE "half_tree"]
        /\ Move(i, "compare")
     \/ Move(i, "unwind") /\ UNCHANGED stage
  /\ UNCHANGED <<tree, mode, jobs, failed, path, readPath>>

(* commit_stage, first the look at the destination ... *)
CompareDest(i) ==
  /\ At(i, "compare")
  /\ IF tree[Tool(i)] = "absent"
       THEN Move(i, "rename") /\ UNCHANGED <<stage, jobs, failed>>
       ELSE stage' = [stage EXCEPT ![i] = "empty"] /\ Ensured(i)
  /\ UNCHANGED <<tree, mode, path, readPath>>

\* Mutant: the promotion copies the tree, and a crash or a reader may come in between.
RenameStage_Copies(i) ==
  /\ At(i, "rename")
  /\ IF tree[Tool(i)] = "absent"
       THEN tree' = [tree EXCEPT ![Tool(i)] = "half"] /\ UNCHANGED <<stage, place, jobs, failed>>
       ELSE tree' = [tree EXCEPT ![Tool(i)] = "whole"] /\ UNCHANGED stage /\ Ensured(i)
  /\ UNCHANGED <<mode, path, readPath>>

(* ... then the rename.  It fails over a directory that another installer   *)
(* has put there meanwhile.                                                 *)
RenameStage(i) ==
  /\ At(i, "rename")
  /\ IF tree[Tool(i)] = "absent"
       THEN /\ tree' = [tree EXCEPT ![Tool(i)] = IF stage[i] = "tree" THEN "whole" ELSE "half"]
            /\ stage' = [stage EXCEPT ![i] = "empty"]
            /\ Ensured(i)
       ELSE Move(i, "unwind") /\ UNCHANGED <<tree, stage, jobs, failed>>
  /\ UNCHANGED <<mode, path, readPath>>

(* The error path of ensure removes the stage. *)
Unwind(i) ==
  /\ At(i, "unwind")
  /\ stage' = [stage EXCEPT ![i] = "none"]
  /\ GiveUp(i)
  /\ UNCHANGED <<tree, mode, path, readPath>>

(* prepend_path_env: the environment is read ... *)
ReadPath(i) ==
  /\ At(i, "read_path")
  /\ readPath' = [readPath EXCEPT ![i] = path[ProcessOf[i]]]
  /\ Move(i, "write_path")
  /\ UNCHANGED <<tree, stage, mode, jobs, failed, path>>

(* ... and set, and another thread may have set it in between. *)
WritePath(i) ==
  /\ At(i, "write_path")
  /\ path' = [path EXCEPT ![ProcessOf[i]] = readPath[i] \cup {Tool(i)}]
  /\ readPath' = [readPath EXCEPT ![i] = {}]
  /\ failed' = failed /\ NextJob(i)
  /\ UNCHANGED <<tree, stage, mode>>

(* The process is killed: all its threads stop where they are, and its     *)
(* memory is gone.                                                         *)
KillInstallers(p) ==
  /\ \E i \in Installers : ProcessOf[i] = p /\ place[i] \notin {"idle", "ok", "err", "killed"}
  /\ place' = [i \in Installers |-> IF ProcessOf[i] = p THEN "killed" ELSE place[i]]
  /\ jobs' = [i \in Installers |-> IF ProcessOf[i] = p THEN <<>> ELSE jobs[i]]
  /\ failed' = [i \in Installers |-> IF ProcessOf[i] = p THEN 0 ELSE failed[i]]
  /\ path' = [path EXCEPT ![p] = {}]
  /\ readPath' = [i \in Installers |-> IF ProcessOf[i] = p THEN {} ELSE readPath[i]]
  /\ UNCHANGED <<tree, stage, mode>>

InstallerStep(i) ==
  \/ ResolveVersion(i) \/ DelegatedEnsure(i) \/ CheckInstalled(i) \/ Download(i)
  \/ Extract(i) \/ CompareDest(i) \/ RenameStage(i) \/ Unwind(i)
  \/ ReadPath(i) \/ WritePath(i)

StoreNext ==
  \/ \E i \in Installers, m \in {"unit", "install"}, reqs \in SUBSET Requests, host \in Hosts :
       AskFor(i, m, reqs, host)
  \/ \E i \in Installers : InstallerStep(i)
  \/ \E p \in Processes : KillInstallers(p)

StoreSpec == StoreInit /\ [][StoreNext]_toolchainVars
-----------------------------------------------------------------------------
StoreTypeOK ==
  /\ tree \in [Builtin \ Delegated -> {"absent", "half", "whole"}]
  /\ stage \in [Installers -> Stages]
  /\ mode \in [Installers -> {"off", "unit", "install"}]
  /\ jobs \in [Installers -> Seq(Builtin)]
  /\ place \in [Installers -> Places]
  /\ failed \in [Installers -> Nat]
  /\ path \in [Processes -> SUBSET Dirs] /\ readPath \in [Installers -> SUBSET Dirs]

(* store.rs, ensure_toolchain: whatever `monad toolchain list` shows, in    *)
(* any interleaving of installers, failed downloads and kills, is a whole  *)
(* tree of a verified archive; and a unit that ensures python finds the uv *)
(* that it ensured before, in the store and on PATH, also when threads of  *)
(* the process read and set PATH at the same time.                         *)
EnsuredToolsAreThere ==
  /\ \A t \in Listed : tree[t] = "whole"
  /\ \A i \in Installers :
       mode[i] = "unit" /\ Len(jobs[i]) = 1 /\ Tool(i) = "python" =>
         /\ At(i, "resolve") => "uv" \in Listed
         /\ At(i, "check") => UvIsAvailable(i)
=============================================================================
