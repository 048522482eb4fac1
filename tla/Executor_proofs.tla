--------------------------- MODULE Executor_proofs ---------------------------
(***************************************************************************)
(* Proofs about Executor::execute, for any finite set of units, any        *)
(* depends_on, any profiles, filter, options and parallelism: the install  *)
(* scopes, fail-fast, the completeness of a green report, and that the     *)
(* executor implements OrderedRun.                                         *)
(***************************************************************************)
EXTENDS Executor, DepGraph_proofs

(* The units of this profile that were joined and are in the report. *)
Ran ==
  {u \in Targets : \E j \in DOMAIN levels :
     u \in levels[j] /\ (j < current \/ (j = current /\ u \notin rest \cup chunk))}

(* What execute() keeps true of its own variables. *)
Shape ==
  /\ units = Profiles[profile]
  /\ step = "graph" => current = 0 /\ rest = {} /\ chunk = {} /\ ~ stop
  /\ step \in {"level", "chunk"} => phase = "ok" /\ current > 0
  /\ step = "level" => chunk = {}
  /\ rest \cup chunk # {} => current > 0 /\ rest \cup chunk \subseteq levels[current]
  /\ rest \cap chunk = {}

(* A thread has ended if its unit was joined, may be running if it is in   *)
(* the chunk, and was not spawned otherwise.                               *)
ThreadsFit ==
  \A u \in Names :
    /\ u \in Ran => at[u] = "done"
    /\ u \in chunk => at[u] # "idle"
    /\ u \notin Ran \cup chunk => at[u] = "idle"
    /\ at[u] = "done" <=> outcome[u] # "none"

(* The report holds the outcomes of the units that were joined. *)
RowsAreOutcomes ==
  /\ \A u \in Names : rows[profile][u] = IF u \in Ran THEN outcome[u] ELSE "none"
  /\ \A i \in DOMAIN Profiles : i > profile => rows[i] = NoRows
  /\ \A u \in Ran : outcome[u] # "error"

(* Under fail_fast a failure sets stop, and only the level in hand has one. *)
StopIsSeen ==
  /\ stop <=> opts["fail_fast"] /\ \E u \in Ran : HadFailure(u)
  /\ opts["fail_fast"] => \A u \in Ran : HadFailure(u) => u \in levels[current]

(* A profile is left only when all its targets ran and nothing said stop.  *)
EarlierProfiles ==
  \A i \in DOMAIN Profiles : i < profile =>
    /\ \A u \in Profiles[i] \cap filter : rows[i][u] \notin {"none", "error"}
    /\ opts["fail_fast"] => \A u \in Names : rows[i][u] \notin {"failed", "notify_failed"}

ReturnsLast ==
  step = "returned" => stop \/ (profile = Len(Profiles) /\ Targets \subseteq Ran)

(* The OnceLock of a scope is running exactly while one thread of the      *)
(* scope is inside its closure.                                            *)
OneInstaller ==
  /\ \A u \in Names : at[u] = "installing" => slot[Scope[u]] = "running"
  /\ \A s \in Scopes : slot[s] = "running" => \E u \in Names : Scope[u] = s /\ at[u] = "installing"
  /\ \A u, v \in Names :
       Scope[u] = Scope[v] /\ at[u] = "installing" /\ at[v] = "installing" => u = v

(* Tasks run over something that was installed, or seen. *)
TasksAreInstalled ==
  \A u \in Names : at[u] = "tasks" /\ ~ opts["skip_install"] =>
    \/ slot[Scope[u]] = "ok"
    \/ (probed[u] = "ready" /\ ~ opts["force_install"])

(* An install is counted once in a profile, and then its slot is filled.   *)
InstallsAreCounted ==
  \A u \in Names :
    /\ at[u] \in {"idle", "spawned", "probe", "want", "installing"} => installs[u] = 0
    /\ installs[u] = 1 =>
         \/ slot[Scope[u]] = "ok"
         \/ slot[Scope[u]] = "failed" /\ at[u] = "done" /\ outcome[u] = "install_failed"
    /\ opts["force_install"] /\ ~ opts["skip_install"] =>
         (at[u] = "tasks" \/ outcome[u] \in {"ok", "failed"} => slot[Scope[u]] = "ok")

InstallInv == TTypeOK /\ OneInstaller /\ TasksAreInstalled /\ InstallsAreCounted
MainInv    == Shape /\ ThreadsFit /\ RowsAreOutcomes /\ StopIsSeen /\ EarlierProfiles /\ ReturnsLast
XInv       == TypeOK /\ IInv /\ InstallInv /\ MainInv
-----------------------------------------------------------------------------
LEMMA FlagsAreBoolean ==
  ASSUME TTypeOK
  PROVE  \A f \in Flags : opts[f] \in BOOLEAN
  BY OptionsAreFlags DEF TTypeOK

(* A thread moves its own unit only, from somewhere on its way to          *)
(* somewhere on its way or to the end, where it has an outcome.            *)
LEMMA ThreadMoves ==
  ASSUME TTypeOK, NEW u \in Names, at[u] = "done" <=> outcome[u] # "none", ThreadStep(u)
  PROVE  /\ at[u] \notin {"idle", "done"} /\ outcome[u] = "none"
         /\ at'[u] # "idle" /\ (at'[u] = "done" <=> outcome'[u] # "none")
         /\ at' = [at EXCEPT ![u] = at'[u]] /\ outcome' = [outcome EXCEPT ![u] = outcome'[u]]
         /\ outcome'[u] \in Outcomes /\ UNCHANGED opts
<1> USE DEF TTypeOK, Outcomes, Places, Goto, Finish
<1>1. CASE SkipUnit(u) \/ ToolchainFails(u) \/ EnsureToolchain(u) \/ WantInstall(u) \/ WinSlot(u)
  BY <1>1 DEF SkipUnit, ToolchainFails, EnsureToolchain, WantInstall, WinSlot
<1>2. CASE NoInstall(u)
  BY <1>2 DEF NoInstall, AfterInstall
<1>3. CASE LoseSlot(u)
  BY <1>3 DEF LoseSlot, AfterInstall
<1>4. CASE InstallSucceeds(u) \/ InstallFails(u)
  BY <1>4 DEF InstallSucceeds, InstallFails, AfterInstall
<1>5. CASE RunTasks(u)
  BY <1>5 DEF RunTasks
<1> QED
  BY <1>1, <1>2, <1>3, <1>4, <1>5 DEF ThreadStep

(* The install scopes, one step of a thread after the other. *)
LEMMA ThreadKeepsInstallInv ==
  ASSUME InstallInv, NEW u \in Names, at[u] = "done" <=> outcome[u] # "none", ThreadStep(u)
  PROVE  InstallInv'
<1> USE DEF InstallInv, Goto, Finish, Outcomes, Places, Scopes, Siblings
<1>0. opts["skip_install"] \in BOOLEAN /\ opts["force_install"] \in BOOLEAN /\ opts["install_only"] \in BOOLEAN
  BY FlagsAreBoolean DEF Flags
<1>1. CASE SkipUnit(u) \/ ToolchainFails(u) \/ EnsureToolchain(u) \/ WantInstall(u)
  <2> USE <1>1 DEF SkipUnit, ToolchainFails, EnsureToolchain, WantInstall
  <2>1. TTypeOK'
    BY DEF TTypeOK
  <2>2. OneInstaller'
    BY DEF OneInstaller, TTypeOK
  <2>3. TasksAreInstalled'
    BY DEF TasksAreInstalled, TTypeOK
  <2>4. InstallsAreCounted'
    BY DEF InstallsAreCounted, TTypeOK
  <2> QED
    BY <2>1, <2>2, <2>3, <2>4
<1>2. CASE NoInstall(u)
  <2> USE <1>2 DEF NoInstall, AfterInstall
  <2>1. TTypeOK'
    BY DEF TTypeOK
  <2>2. OneInstaller'
    BY DEF OneInstaller, TTypeOK
  <2>3. TasksAreInstalled'
    BY DEF TasksAreInstalled, TTypeOK
  <2>4. InstallsAreCounted'
    BY DEF InstallsAreCounted, TTypeOK
  <2> QED
    BY <2>1, <2>2, <2>3, <2>4
<1>3. CASE WinSlot(u)
  <2> USE <1>3 DEF WinSlot
  <2>1. TTypeOK'
    BY DEF TTypeOK
  <2>2. OneInstaller'
    BY DEF OneInstaller, TTypeOK
  <2>3. TasksAreInstalled'
    BY DEF TasksAreInstalled, TTypeOK
  <2>4. InstallsAreCounted'
    BY DEF InstallsAreCounted, TTypeOK
  <2> QED
    BY <2>1, <2>2, <2>3, <2>4
<1>4. CASE LoseSlot(u)
  <2> USE <1>4 DEF LoseSlot, AfterInstall
  <2>0. installs[u] = 0
    BY DEF InstallsAreCounted
  <2>1. TTypeOK'
    BY <2>0 DEF TTypeOK
  <2>2. OneInstaller'
    BY DEF OneInstaller, TTypeOK
  <2>3. TasksAreInstalled'
    BY DEF TasksAreInstalled, TTypeOK
  <2>4. InstallsAreCounted'
    BY <2>0 DEF InstallsAreCounted, TTypeOK
  <2> QED
    BY <2>1, <2>2, <2>3, <2>4
<1>5. CASE InstallSucceeds(u)
  <2> USE <1>5 DEF InstallSucceeds, AfterInstall
  <2>0. installs[u] = 0 /\ slot[Scope[u]] = "running"
    BY DEF InstallsAreCounted, OneInstaller
  <2>1. TTypeOK'
    BY <2>0 DEF TTypeOK
  <2>2. OneInstaller'
    BY DEF OneInstaller, TTypeOK
  <2>3. TasksAreInstalled'
    BY DEF TasksAreInstalled, TTypeOK
  <2>4. InstallsAreCounted'
    BY <2>0 DEF InstallsAreCounted, TTypeOK
  <2> QED
    BY <2>1, <2>2, <2>3, <2>4
<1>6. CASE InstallFails(u)
  <2> USE <1>6 DEF InstallFails
  <2>0. installs[u] = 0 /\ slot[Scope[u]] = "running"
    BY DEF InstallsAreCounted, OneInstaller
  <2>1. TTypeOK'
    BY <2>0 DEF TTypeOK
  <2>2. OneInstaller'
    BY DEF OneInstaller, TTypeOK
  <2>3. TasksAreInstalled'
    BY <2>0 DEF TasksAreInstalled, TTypeOK
  <2>4. InstallsAreCounted'
    BY <2>0 DEF InstallsAreCounted, TTypeOK
  <2> QED
    BY <2>1, <2>2, <2>3, <2>4
<1>7. CASE RunTasks(u)
  <2> USE <1>7 DEF RunTasks
  <2>1. TTypeOK'
    BY DEF TTypeOK
  <2>2. OneInstaller'
    BY DEF OneInstaller, TTypeOK
  <2>3. TasksAreInstalled'
    BY DEF TasksAreInstalled, TTypeOK
  <2>4. InstallsAreCounted'
    BY DEF InstallsAreCounted, TTypeOK
  <2> QED
    BY <2>1, <2>2, <2>3, <2>4
<1> QED
  BY <1>1, <1>2, <1>3, <1>4, <1>5, <1>6, <1>7 DEF ThreadStep

LEMMA Layers ==
  ASSUME IInv
  PROVE  /\ levels \in Seq(SUBSET units) /\ Len(levels) \in Nat /\ DOMAIN levels = 1..Len(levels)
         /\ \A i, j \in DOMAIN levels : i # j => levels[i] \cap levels[j] = {}
         /\ \A i \in DOMAIN levels : levels[i] \subseteq units
         /\ phase = "ok" => units = UNION {levels[i] : i \in DOMAIN levels}
<1>1. levels \in Seq(SUBSET units)
  BY DEF IInv, GTypeOK
<1>2. ASSUME phase = "ok" PROVE units = Peeled
  BY <1>2 DEF IInv, LoopInv, Visited
<1> QED
  BY <1>1, <1>2 DEF IInv, LayersDisjoint, Peeled

(* A unit that waits to be spawned is in no earlier layer.                 *)
LEMMA RestIsFresh ==
  ASSUME TypeOK, IInv, Shape
  PROVE  (rest \cup chunk) \cap Ran = {} /\ rest \cup chunk \subseteq Names
<1> SUFFICES ASSUME NEW u \in rest \cup chunk PROVE u \notin Ran /\ u \in Names
  OBVIOUS
<1>1. current \in DOMAIN levels /\ u \in levels[current] /\ u \in Names
  BY Layers DEF Shape, TypeOK, Targets, GTypeOK
<1>2. \A j \in DOMAIN levels : u \in levels[j] => j = current
  BY <1>1, Layers
<1> QED
  BY <1>1, <1>2, Layers DEF Ran

(* What else touches the scopes: the files of an install, an upload, and   *)
(* the next profile, which finds nobody installing.                        *)
LEMMA OthersKeepInstallInv ==
  ASSUME TypeOK, IInv, InstallInv, MainInv,
         \/ \E u \in Names : InstallPopulates(u) \/ UploadEnds(u)
         \/ SpawnChunk \/ NextProfile
  PROVE  InstallInv'
<1> USE DEF InstallInv, Outcomes, Places, Scopes, Siblings
<1>1. ASSUME NEW u \in Names, InstallPopulates(u) PROVE InstallInv'
  <2> USE <1>1 DEF InstallPopulates
  <2>1. TTypeOK'
    BY DEF TTypeOK
  <2>2. OneInstaller' /\ TasksAreInstalled' /\ InstallsAreCounted'
    BY DEF OneInstaller, TasksAreInstalled, InstallsAreCounted, TTypeOK
  <2> QED
    BY <2>1, <2>2
<1>2. ASSUME NEW u \in Names, UploadEnds(u) PROVE InstallInv'
  BY <1>2 DEF UploadEnds, TTypeOK, OneInstaller, TasksAreInstalled, InstallsAreCounted
<1>3. CASE SpawnChunk
  <2>1. PICK c \in SUBSET rest : at' = [u \in Names |-> IF u \in c THEN "spawned" ELSE at[u]]
    BY <1>3 DEF SpawnChunk
  <2>2. \A u \in c : u \in Names /\ at[u] = "idle"
    BY RestIsFresh DEF MainInv, ThreadsFit, Shape
  <2>3. UNCHANGED <<opts, outcome, probed, slot, installs, uploads>>
    BY <1>3 DEF SpawnChunk
  <2>4. TTypeOK'
    BY <2>1, <2>3 DEF TTypeOK
  <2>5. OneInstaller'
    BY <2>1, <2>2, <2>3 DEF OneInstaller, TTypeOK
  <2>6. TasksAreInstalled' /\ InstallsAreCounted'
    BY <2>1, <2>2, <2>3 DEF TasksAreInstalled, InstallsAreCounted, TTypeOK
  <2> QED
    BY <2>4, <2>5, <2>6
<1>4. CASE NextProfile
  <2>1. /\ at' = [u \in Names |-> "idle"] /\ outcome' = NoRows /\ installs' = [u \in Names |-> 0]
        /\ UNCHANGED <<opts, probed, slot, uploads>>
    BY <1>4 DEF NextProfile
  <2>2. chunk = {} /\ \A u \in Names : at[u] \in {"idle", "done"}
    BY <1>4 DEF NextProfile, ProfileOver, MainInv, Shape, ThreadsFit
  <2>3. TTypeOK'
    BY <2>1 DEF TTypeOK, NoRows
  <2>4. OneInstaller'
    BY <2>1, <2>2 DEF OneInstaller, TTypeOK
  <2>5. TasksAreInstalled' /\ InstallsAreCounted'
    BY <2>1 DEF TasksAreInstalled, InstallsAreCounted, NoRows
  <2> QED
    BY <2>3, <2>4, <2>5
<1> QED
  BY <1>1, <1>2, <1>3, <1>4

LEMMA StepKeepsInstallInv ==
  ASSUME TypeOK, IInv, InstallInv, MainInv, [Next]_vars
  PROVE  InstallInv'
<1>1. CASE UNCHANGED tvars
  BY <1>1 DEF tvars, InstallInv, TTypeOK, OneInstaller, TasksAreInstalled, InstallsAreCounted
<1>2. ASSUME NEW u \in chunk, ThreadStep(u) PROVE InstallInv'
  <2>1. u \in Names
    BY DEF TypeOK, Targets, GTypeOK
  <2> QED
    BY <1>2, <2>1, ThreadKeepsInstallInv DEF MainInv, ThreadsFit
<1>3. CASE RunThreads
  <2>1. chunk \subseteq Names /\ uploads \subseteq Names
    BY DEF TypeOK, Targets, GTypeOK, TTypeOK
  <2> QED
    BY <1>2, <1>3, <2>1, OthersKeepInstallInv DEF RunThreads
<1>4. CASE SpawnChunk \/ NextProfile
  BY <1>4, OthersKeepInstallInv
<1>5. CASE BuildGraph \/ GraphFails \/ EnterLevel \/ JoinErrored \/ JoinChunk \/ DrainAndReturn
  BY <1>1, <1>5 DEF BuildGraph, GraphFails, EnterLevel, JoinErrored, JoinChunk, DrainAndReturn
<1> QED
  BY <1>1, <1>3, <1>4, <1>5 DEF Next, Main, vars
-----------------------------------------------------------------------------
(* graph::build goes on, or a fresh graph is begun.                        *)
LEMMA StepKeepsIInv ==
  ASSUME TypeOK, IInv, [Next]_vars
  PROVE  IInv'
<1>1. CASE [GNext]_gvars
  BY <1>1, StepInv
<1>2. CASE NextProfile
  <2>1. profile + 1 \in DOMAIN Profiles /\ Profiles[profile + 1] \subseteq Names
    BY <1>2, ProfilesAreUnits DEF NextProfile, TypeOK
  <2>2. declared \in [Names -> SUBSET Names]
    BY DeclaredAreMaps DEF TypeOK
  <2>3. GInit'
    BY <1>2, <2>1, <2>2 DEF NextProfile, GInit
  <2>4. GInit' => IInv'
    BY InitInv, PTL
  <2> QED
    BY <2>3, <2>4
<1>3. CASE BuildGraph \/ GraphFails \/ EnterLevel \/ SpawnChunk \/ JoinErrored \/ JoinChunk
           \/ DrainAndReturn \/ RunThreads
  BY <1>1, <1>3 DEF BuildGraph, GraphFails, EnterLevel, SpawnChunk, JoinErrored, JoinChunk,
                    DrainAndReturn, RunThreads
<1> QED
  BY <1>1, <1>2, <1>3 DEF Next, Main, vars

(* Nothing ran before the first level is entered.                          *)
LEMMA NothingRan ==
  ASSUME IInv, current = 0
  PROVE  Ran = {}
  BY Layers DEF Ran

LEMMA SameRan ==
  ASSUME UNCHANGED <<units, filter, levels, current>>, (rest \cup chunk)' = rest \cup chunk
  PROVE  Ran' = Ran
  BY DEF Ran, Targets

LEMMA InitKeepsXInv == Init => XInv
<1> SUFFICES ASSUME Init PROVE XInv
  OBVIOUS
<1>0. 1 \in DOMAIN Profiles /\ Profiles[1] \subseteq Names /\ declared \in [Names -> SUBSET Names]
  BY ProfilesAreUnits, DeclaredAreMaps DEF Init
<1>1. IInv
  <2>1. GInit
    BY DEF Init
  <2> QED
    BY <2>1, InitInv
<1>2. InstallInv
  BY DEF Init, TInit, InstallInv, TTypeOK, OneInstaller, TasksAreInstalled, InstallsAreCounted,
         Places, Outcomes
<1>3. TypeOK
  <2>1. GTypeOK /\ TTypeOK /\ 0 \in 0..Len(levels)
    BY <1>1, <1>2, Layers DEF IInv, InstallInv
  <2>2. rows \in [DOMAIN Profiles -> [Names -> Outcomes]]
    BY DEF Init, NoRows, Outcomes
  <2> QED
    BY <1>0, <2>1, <2>2 DEF Init, TypeOK, Ended
<1>4. Ran = {}
  BY <1>1, NothingRan DEF Init
<1>5. Shape
  BY DEF Init, Shape
<1>6. ThreadsFit /\ RowsAreOutcomes
  BY <1>0, <1>4 DEF Init, TInit, ThreadsFit, RowsAreOutcomes, NoRows
<1>7. StopIsSeen
  BY <1>2, <1>4, FlagsAreBoolean DEF Init, StopIsSeen, InstallInv, Flags
<1>8. EarlierProfiles /\ ReturnsLast
  BY ProfilesAreUnits DEF Init, EarlierProfiles, ReturnsLast
<1> QED
  BY <1>1, <1>2, <1>3, <1>5, <1>6, <1>7, <1>8 DEF XInv, MainInv

(* The rest of the types, given those of the graph and of the threads.     *)
XTypes ==
  /\ declared \in Declared /\ filter \in Filters
  /\ profile \in DOMAIN Profiles
  /\ step \in {"graph", "level", "chunk"} \cup Ended
  /\ current \in 0..Len(levels)
  /\ rest \subseteq Targets /\ chunk \subseteq Targets /\ stop \in BOOLEAN
  /\ rows \in [DOMAIN Profiles -> [Names -> Outcomes]]

MainStep == XTypes' /\ MainInv'

(* Steps that leave the threads, the report and the levels alone.          *)
LEMMA BuildKeepsMain ==
  ASSUME TypeOK, IInv, IInv', MainInv, BuildGraph
  PROVE  MainStep
<1>1. /\ UNCHANGED <<units, dependsOn>> /\ step = "graph" /\ current = 0
      /\ UNCHANGED <<tvars, xvars>>
  BY DEF BuildGraph, GNext, RejectUnknownDep, CountInDegrees, DrainReady, VisitUnit, CloseLevel,
         ReturnGraph, ReturnCycle, MainInv, Shape
<1>2. 0 \in 0..Len(levels')
  <2>1. levels' \in Seq(SUBSET units')
    BY DEF IInv, GTypeOK
  <2> QED
    BY <2>1
<1>3. Ran = {} /\ Ran' = {}
  <2>1. (\A j \in DOMAIN levels : j \in Nat /\ j > 0) /\ \A j \in DOMAIN levels' : j \in Nat /\ j > 0
    <3>1. levels \in Seq(SUBSET units) /\ levels' \in Seq(SUBSET units')
      BY DEF IInv, GTypeOK
    <3> QED
      BY <3>1
  <2> QED
    BY <1>1, <2>1 DEF Ran, xvars
<1>4. XTypes'
  BY <1>1, <1>2 DEF TypeOK, XTypes, xvars, Targets
<1>5. Shape' /\ ThreadsFit' /\ EarlierProfiles' /\ ReturnsLast'
  BY <1>1, <1>3 DEF MainInv, Shape, ThreadsFit, EarlierProfiles, ReturnsLast, xvars, tvars
<1>6. RowsAreOutcomes' /\ StopIsSeen'
  BY <1>1, <1>3 DEF MainInv, RowsAreOutcomes, StopIsSeen, xvars, tvars
<1> QED
  BY <1>4, <1>5, <1>6 DEF MainInv, MainStep

LEMMA ErrorsKeepMain ==
  ASSUME TypeOK, IInv, MainInv, GraphFails \/ JoinErrored
  PROVE  MainStep
<1>1. /\ step' = "errored"
      /\ UNCHANGED <<gvars, tvars, declared, filter, profile, current, rest, chunk, stop, rows>>
  BY DEF GraphFails, JoinErrored
<1>2. Ran' = Ran
  BY <1>1, SameRan DEF gvars
<1>3. XTypes'
  BY <1>1 DEF TypeOK, XTypes, Targets, gvars, Ended
<1>4. Shape' /\ ThreadsFit' /\ EarlierProfiles' /\ ReturnsLast'
  BY <1>1, <1>2 DEF MainInv, Shape, ThreadsFit, EarlierProfiles, ReturnsLast, gvars, tvars, Ended
<1>5. RowsAreOutcomes' /\ StopIsSeen'
  BY <1>1, <1>2 DEF MainInv, RowsAreOutcomes, StopIsSeen, HadFailure, gvars, tvars
<1> QED
  BY <1>3, <1>4, <1>5 DEF MainInv, MainStep

(* A level is entered when everything of the levels before was joined and  *)
(* nothing of it said stop.                                                *)
LEMMA EnterKeepsMain ==
  ASSUME TypeOK, IInv, MainInv, EnterLevel
  PROVE  MainStep
<1>1. /\ step' = "level" /\ current' = current + 1 /\ rest' = levels[current + 1] \cap filter
      /\ UNCHANGED <<gvars, tvars, declared, filter, profile, chunk, stop, rows>>
      /\ rest = {} /\ chunk = {} /\ ~ stop /\ phase = "ok" /\ current < Len(levels)
  BY DEF EnterLevel, MainInv, Shape
<1>2. current \in Nat /\ current + 1 \in DOMAIN levels /\ levels[current + 1] \subseteq units
  BY <1>1, Layers DEF TypeOK
<1>3. Ran' = Ran
  <2>1. \A j \in DOMAIN levels : j \in Nat /\ (j < current + 1 <=> j < current \/ j = current)
    BY <1>2, Layers
  <2>2. \A u \in Targets, j \in DOMAIN levels :
          u \in levels[j] =>
            ((j < current + 1 \/ (j = current + 1 /\ u \notin rest' \cup chunk'))
               <=> (j < current \/ (j = current /\ u \notin rest \cup chunk)))
    BY <1>1, <2>1 DEF Targets
  <2>3. Ran' = {u \in Targets : \E j \in DOMAIN levels :
           u \in levels[j] /\ (j < current + 1 \/ (j = current + 1 /\ u \notin rest' \cup chunk'))}
    BY <1>1 DEF Ran, Targets, gvars
  <2> QED
    BY <2>2, <2>3 DEF Ran
<1>4. XTypes'
  BY <1>1, <1>2, Layers DEF TypeOK, XTypes, Targets, gvars
<1>5. Shape'
  BY <1>1, <1>2 DEF MainInv, Shape, gvars, Ended
<1>6. ThreadsFit' /\ EarlierProfiles' /\ ReturnsLast'
  BY <1>1, <1>3 DEF MainInv, ThreadsFit, EarlierProfiles, ReturnsLast, tvars
<1>7. RowsAreOutcomes' /\ StopIsSeen'
  BY <1>1, <1>3 DEF MainInv, RowsAreOutcomes, StopIsSeen, HadFailure, tvars
<1> QED
  BY <1>4, <1>5, <1>6, <1>7 DEF MainInv, MainStep

LEMMA SpawnKeepsMain ==
  ASSUME TypeOK, IInv, MainInv, SpawnChunk
  PROVE  MainStep
<1>1. PICK c \in SUBSET rest :
        /\ chunk' = c /\ rest' = rest \ c
        /\ at' = [u \in Names |-> IF u \in c THEN "spawned" ELSE at[u]]
  BY DEF SpawnChunk
<1>2. /\ step = "level" /\ chunk = {} /\ step' = "chunk"
      /\ UNCHANGED <<gvars, opts, outcome, declared, filter, profile, current, stop, rows>>
  BY DEF SpawnChunk, MainInv, Shape
<1>3. (rest \cup chunk)' = rest \cup chunk
  BY <1>1, <1>2
<1>4. Ran' = Ran
  BY <1>2, <1>3, SameRan DEF gvars
<1>5. XTypes'
  BY <1>1, <1>2 DEF TypeOK, XTypes, Targets, gvars
<1>6. Shape'
  BY <1>1, <1>2 DEF MainInv, Shape, gvars, Ended
<1>7. ThreadsFit'
  <2>1. c \subseteq Names /\ c \cap Ran = {}
    BY RestIsFresh DEF MainInv
  <2> QED
    BY <1>1, <1>2, <1>4, <2>1 DEF MainInv, ThreadsFit
<1>8. EarlierProfiles' /\ ReturnsLast'
  BY <1>2 DEF MainInv, EarlierProfiles, ReturnsLast
<1>9. RowsAreOutcomes' /\ StopIsSeen'
  BY <1>2, <1>4 DEF MainInv, RowsAreOutcomes, StopIsSeen, HadFailure, gvars
<1> QED
  BY <1>5, <1>6, <1>7, <1>8, <1>9 DEF MainInv, MainStep

(* A thread of the chunk moves: none of the units that were joined.        *)
LEMMA ThreadKeepsMain ==
  ASSUME TypeOK, IInv, MainInv, RunThreads
  PROVE  MainStep
<1>1. UNCHANGED <<gvars, xvars>>
  BY DEF RunThreads
<1>2. Ran' = Ran
  BY <1>1, SameRan DEF gvars, xvars
<1>3. XTypes' /\ Shape' /\ ReturnsLast' /\ (UNCHANGED opts => EarlierProfiles')
  BY <1>1, <1>2 DEF TypeOK, XTypes, MainInv, Shape, EarlierProfiles, ReturnsLast, Targets, gvars, xvars
<1>4. CASE UNCHANGED <<opts, at, outcome>>
  <2>1. ThreadsFit' /\ RowsAreOutcomes' /\ StopIsSeen'
    BY <1>1, <1>2, <1>4 DEF MainInv, ThreadsFit, RowsAreOutcomes, StopIsSeen, HadFailure, gvars, xvars
  <2> QED
    BY <1>3, <1>4, <2>1 DEF MainInv, MainStep
<1>5. ASSUME NEW u \in chunk, ThreadStep(u)
      PROVE  MainStep
  <2>1. u \in Names /\ u \notin Ran
    BY RestIsFresh DEF MainInv
  <2>2. TTypeOK /\ (at[u] = "done" <=> outcome[u] # "none")
    BY <2>1 DEF TypeOK, MainInv, ThreadsFit
  <2>3. /\ at'[u] # "idle" /\ (at'[u] = "done" <=> outcome'[u] # "none")
        /\ at' = [at EXCEPT ![u] = at'[u]] /\ outcome' = [outcome EXCEPT ![u] = outcome'[u]]
        /\ UNCHANGED opts
    BY <1>5, <2>1, <2>2, ThreadMoves
  <2>4. \A v \in Names \ {u} : at'[v] = at[v] /\ outcome'[v] = outcome[v]
    BY <2>2, <2>3 DEF TTypeOK
  <2>5. ThreadsFit'
    BY <1>1, <1>2, <1>5, <2>1, <2>3, <2>4 DEF MainInv, ThreadsFit, xvars
  <2>6. \A v \in Ran : v \in Names /\ outcome'[v] = outcome[v]
    BY <2>1, <2>4 DEF Ran, Targets, TypeOK, GTypeOK
  <2>7. RowsAreOutcomes'
    BY <1>1, <1>2, <2>6 DEF MainInv, RowsAreOutcomes, xvars
  <2>8. StopIsSeen'
    BY <1>1, <1>2, <2>3, <2>6 DEF MainInv, StopIsSeen, HadFailure, xvars, gvars
  <2> QED
    BY <1>3, <2>3, <2>5, <2>7, <2>8 DEF MainInv, MainStep
<1> QED
  BY <1>4, <1>5 DEF RunThreads, InstallPopulates, UploadEnds

(* The chunk is joined: its units are in the report now.                   *)
LEMMA JoinKeepsMain ==
  ASSUME TypeOK, IInv, MainInv, JoinChunk
  PROVE  MainStep
<1>1. /\ step = "chunk" /\ step' = "level" /\ chunk' = {}
      /\ \A u \in chunk : at[u] = "done" /\ outcome[u] # "error"
      /\ rows' = [rows EXCEPT ![profile] =
                    [u \in Names |-> IF u \in chunk THEN outcome[u] ELSE rows[profile][u]]]
      /\ stop' = (stop \/ (opts["fail_fast"] /\ \E u \in chunk : HadFailure(u)))
      /\ UNCHANGED <<gvars, tvars, declared, filter, profile, current, rest>>
  BY DEF JoinChunk, Joined, StopAfter
<1>2. chunk \subseteq Names /\ chunk \cap Ran = {} /\ current \in Nat
  BY RestIsFresh, Layers DEF MainInv, TypeOK
<1>3. Ran' = Ran \cup chunk
  <2>1. Ran' = {u \in Targets : \E j \in DOMAIN levels :
                  u \in levels[j] /\ (j < current \/ (j = current /\ u \notin rest))}
    BY <1>1 DEF Ran, Targets, gvars
  <2>2. Ran' \subseteq Ran \cup chunk
    BY <2>1 DEF Ran
  <2>3. Ran \subseteq Ran'
    BY <2>1 DEF Ran
  <2>4. chunk \subseteq Ran'
    <3> SUFFICES ASSUME NEW u \in chunk PROVE u \in Ran'
      OBVIOUS
    <3>1. u \in Targets /\ u \in levels[current] /\ u \notin rest /\ current \in DOMAIN levels
      BY Layers DEF TypeOK, MainInv, Shape
    <3> QED
      BY <2>1, <3>1
  <2> QED
    BY <2>2, <2>3, <2>4
<1>4. rows' \in [DOMAIN Profiles -> [Names -> Outcomes]]
  BY <1>1, <1>2 DEF TypeOK, TTypeOK
<1>5. XTypes'
  BY <1>1, <1>4, FlagsAreBoolean DEF TypeOK, XTypes, Targets, gvars, Flags
<1>6. Shape' /\ ThreadsFit' /\ ReturnsLast'
  BY <1>1, <1>2, <1>3 DEF MainInv, Shape, ThreadsFit, ReturnsLast, gvars, tvars, Ended
<1>7. RowsAreOutcomes'
  <2>1. profile \in DOMAIN Profiles /\ rows \in [DOMAIN Profiles -> [Names -> Outcomes]]
    BY DEF TypeOK
  <2>2. \A u \in Names : rows'[profile][u] = IF u \in chunk THEN outcome[u] ELSE rows[profile][u]
    BY <1>1, <2>1
  <2>3. \A i \in DOMAIN Profiles : i # profile => rows'[i] = rows[i]
    BY <1>1, <2>1
  <2>4. \A u \in Names : rows'[profile][u] = IF u \in Ran \cup chunk THEN outcome[u] ELSE "none"
    BY <1>2, <2>2 DEF MainInv, RowsAreOutcomes
  <2>5. \A i \in DOMAIN Profiles : i > profile => rows'[i] = NoRows
    BY <2>1, <2>3, ProfilesAreUnits DEF MainInv, RowsAreOutcomes
  <2>6. \A u \in Ran \cup chunk : outcome[u] # "error"
    BY <1>1 DEF MainInv, RowsAreOutcomes
  <2> QED
    BY <1>1, <1>3, <2>4, <2>5, <2>6 DEF RowsAreOutcomes, tvars
<1>8. StopIsSeen'
  <2>1. chunk \subseteq levels[current]
    BY DEF MainInv, Shape
  <2>3. UNCHANGED <<opts, outcome, levels, current>>
    BY <1>1 DEF tvars, gvars
  <2>4. stop' <=> opts["fail_fast"] /\ \E u \in Ran \cup chunk : HadFailure(u)
    <3>1. stop' <=> stop \/ (opts["fail_fast"] /\ \E u \in chunk : HadFailure(u))
      BY <1>1
    <3>2. stop <=> opts["fail_fast"] /\ \E u \in Ran : HadFailure(u)
      BY DEF MainInv, StopIsSeen
    <3> QED
      BY <3>1, <3>2
  <2>5. opts["fail_fast"] => \A u \in Ran \cup chunk : HadFailure(u) => u \in levels[current]
    BY <2>1 DEF MainInv, StopIsSeen
  <2>6. stop' <=> opts'["fail_fast"] /\ \E u \in Ran' : HadFailure(u)'
    <3>1. (\E u \in Ran \cup chunk : HadFailure(u)) <=> (\E u \in Ran' : HadFailure(u)')
      BY <1>3, <2>3 DEF HadFailure
    <3>2. opts'["fail_fast"] = opts["fail_fast"]
      BY <2>3
    <3> QED
      BY <2>4, <3>1, <3>2, Zenon
  <2>7. opts'["fail_fast"] => \A u \in Ran' : HadFailure(u)' => u \in levels'[current']
    BY <1>3, <2>3, <2>5 DEF HadFailure
  <2> QED
    BY <2>6, <2>7 DEF StopIsSeen
<1>9. EarlierProfiles'
  <2>1. \A i \in DOMAIN Profiles : i # profile => rows'[i] = rows[i]
    BY <1>1 DEF TypeOK
  <2>2. \A i \in DOMAIN Profiles : i < profile => i # profile
    BY ProfilesAreUnits DEF TypeOK
  <2> QED
    BY <1>1, <2>1, <2>2 DEF MainInv, EarlierProfiles, tvars
<1> QED
  BY <1>5, <1>6, <1>7, <1>8, <1>9 DEF MainInv, MainStep

(* When the last level was joined without a stop, all targets ran.         *)
LEMMA AllRan ==
  ASSUME TypeOK, IInv, MainInv, ProfileOver, ~ stop
  PROVE  Targets \subseteq Ran
<1>1. rest = {} /\ chunk = {} /\ phase = "ok" /\ current = Len(levels)
  BY DEF ProfileOver, MainInv, Shape
<1> SUFFICES ASSUME NEW u \in Targets PROVE u \in Ran
  OBVIOUS
<1>2. PICK j \in DOMAIN levels : u \in levels[j]
  BY <1>1, Layers DEF Targets
<1>3. j < current \/ j = current
  BY <1>1, <1>2, Layers
<1> QED
  BY <1>1, <1>2, <1>3 DEF Ran

LEMMA SwitchKeepsMain ==
  ASSUME TypeOK, IInv, IInv', MainInv, NextProfile
  PROVE  MainStep
<1>1. /\ profile' = profile + 1 /\ step' = "graph" /\ current' = 0 /\ levels' = <<>>
      /\ units' = Profiles[profile + 1]
      /\ at' = [u \in Names |-> "idle"] /\ outcome' = NoRows
      /\ UNCHANGED <<opts, declared, filter, rest, chunk, stop, rows>>
      /\ rest = {} /\ chunk = {} /\ ~ stop /\ profile < Len(Profiles)
  BY DEF NextProfile, ProfileOver, MainInv, Shape
<1>2. profile \in Nat /\ profile' \in DOMAIN Profiles
  BY <1>1, ProfilesAreUnits DEF TypeOK
<1>3. Ran' = {}
  BY <1>1 DEF Ran
<1>4. XTypes'
  BY <1>1, <1>2 DEF TypeOK, XTypes
<1>5. Shape' /\ ThreadsFit' /\ ReturnsLast'
  BY <1>1, <1>3 DEF Shape, ThreadsFit, ReturnsLast, NoRows
<1>6. RowsAreOutcomes'
  <2>1. rows[profile + 1] = NoRows /\ \A i \in DOMAIN Profiles : i > profile + 1 => rows[i] = NoRows
    BY <1>1, <1>2, ProfilesAreUnits DEF MainInv, RowsAreOutcomes
  <2> QED
    BY <1>1, <1>3, <2>1 DEF RowsAreOutcomes, NoRows
<1>7. StopIsSeen'
  BY <1>1, <1>3 DEF StopIsSeen
<1>8. EarlierProfiles'
  <2> SUFFICES ASSUME NEW i \in DOMAIN Profiles, i < profile + 1
               PROVE  /\ \A u \in Profiles[i] \cap filter : rows[i][u] \notin {"none", "error"}
                      /\ opts["fail_fast"] => \A u \in Names : rows[i][u] \notin {"failed", "notify_failed"}
    BY <1>1 DEF EarlierProfiles
  <2>1. CASE i < profile
    BY <2>1 DEF MainInv, EarlierProfiles
  <2>2. CASE i = profile
    <3>1. ProfileOver
      BY DEF NextProfile
    <3>2. \A u \in Targets : u \in Ran /\ u \in Names
      BY <1>1, <3>1, AllRan DEF Targets, TypeOK, GTypeOK
    <3>3. \A u \in Targets : rows[i][u] = outcome[u] /\ at[u] = "done" /\ outcome[u] \notin {"none", "error"}
      BY <2>2, <3>2 DEF MainInv, RowsAreOutcomes, ThreadsFit
    <3>4. Profiles[i] \cap filter = Targets
      BY <2>2 DEF MainInv, Shape, Targets
    <3>5. opts["fail_fast"] => \A u \in Ran : ~ HadFailure(u)
      BY <1>1 DEF MainInv, StopIsSeen
    <3>6. opts["fail_fast"] => \A u \in Names : rows[i][u] \notin {"failed", "notify_failed"}
      BY <2>2, <3>5 DEF MainInv, RowsAreOutcomes, HadFailure
    <3> QED
      BY <3>3, <3>4, <3>6
  <2>3. i < profile \/ i = profile
    BY <1>2, ProfilesAreUnits
  <2> QED
    BY <2>1, <2>2, <2>3
<1> QED
  BY <1>4, <1>5, <1>6, <1>7, <1>8 DEF MainInv, MainStep

LEMMA DrainKeepsMain ==
  ASSUME TypeOK, IInv, MainInv, DrainAndReturn
  PROVE  MainStep
<1>1. /\ step' = "returned" /\ ProfileOver /\ (stop \/ profile = Len(Profiles))
      /\ UNCHANGED <<gvars, tvars, declared, filter, profile, current, rest, chunk, stop, rows>>
  BY DEF DrainAndReturn
<1>2. Ran' = Ran
  BY <1>1, SameRan DEF gvars
<1>3. XTypes' /\ Shape' /\ ThreadsFit' /\ EarlierProfiles'
  BY <1>1, <1>2 DEF TypeOK, XTypes, Ended, Targets, MainInv, Shape, ThreadsFit, EarlierProfiles, gvars, tvars
<1>4. RowsAreOutcomes' /\ StopIsSeen'
  BY <1>1, <1>2 DEF MainInv, RowsAreOutcomes, StopIsSeen, HadFailure, gvars, tvars
<1>5. ReturnsLast'
  BY <1>1, <1>2, AllRan DEF ReturnsLast, Targets, gvars
<1> QED
  BY <1>3, <1>4, <1>5 DEF MainInv, MainStep

LEMMA StepKeepsXInv ==
  ASSUME XInv, [Next]_vars
  PROVE  XInv'
<1>1. TypeOK /\ IInv /\ InstallInv /\ MainInv
  BY DEF XInv
<1>2. IInv' /\ InstallInv'
  BY <1>1, StepKeepsIInv, StepKeepsInstallInv
<1>3. MainStep
  <2>1. CASE UNCHANGED vars
    <3>1. UNCHANGED <<gvars, tvars, xvars>> /\ Ran' = Ran
      BY <2>1, SameRan DEF vars, gvars, xvars
    <3>2. XTypes' /\ Shape' /\ ThreadsFit' /\ EarlierProfiles' /\ ReturnsLast'
      BY <1>1, <3>1 DEF TypeOK, XTypes, Targets, MainInv, Shape, ThreadsFit, EarlierProfiles, ReturnsLast,
                        gvars, tvars, xvars
    <3>3. RowsAreOutcomes' /\ StopIsSeen'
      BY <1>1, <3>1 DEF MainInv, RowsAreOutcomes, StopIsSeen, HadFailure, gvars, tvars, xvars
    <3> QED
      BY <3>2, <3>3 DEF MainInv, MainStep
  <2> QED
    BY <1>1, <1>2, <2>1, BuildKeepsMain, ErrorsKeepMain, EnterKeepsMain, SpawnKeepsMain, JoinKeepsMain,
       SwitchKeepsMain, DrainKeepsMain, ThreadKeepsMain DEF Next, Main
<1>4. TypeOK'
  BY <1>2, <1>3 DEF TypeOK, XTypes, MainStep, IInv, InstallInv
<1> QED
  BY <1>2, <1>3, <1>4 DEF XInv, MainStep

LEMMA XInvHolds == Spec => []XInv
  BY InitKeepsXInv, StepKeepsXInv, PTL DEF Spec
-----------------------------------------------------------------------------
(* The variables of execute() and of its threads keep their types.         *)
THEOREM ExecutorTypeOK == Spec => []TypeOK
<1>1. XInv => TypeOK
  BY DEF XInv
<1> QED
  BY <1>1, XInvHolds, PTL

(* ensure_installed with Executor::install_scopes: at any moment one thread *)
(* of a scope installs, the one that holds its OnceLock, and a task runs    *)
(* only where something was installed or the probe saw it.                 *)
THEOREM OneInstallAtATime == Spec => []InstallsAreExclusive
<1>1. ASSUME XInv PROVE InstallsAreExclusive
  <2> SUFFICES ASSUME NEW s \in Scopes
               PROVE  Cardinality({u \in Names : Scope[u] = s /\ at[u] = "installing"})
                        = (IF slot[s] = "running" THEN 1 ELSE 0)
    BY <1>1 DEF InstallsAreExclusive, XInv, InstallInv, TasksAreInstalled
  <2> DEFINE S == {u \in Names : Scope[u] = s /\ at[u] = "installing"}
  <2>1. CASE slot[s] = "running"
    <3>1. PICK u \in Names : Scope[u] = s /\ at[u] = "installing"
      BY <1>1, <2>1 DEF XInv, InstallInv, OneInstaller
    <3>2. S = {u}
      BY <1>1, <3>1 DEF XInv, InstallInv, OneInstaller
    <3>3. Cardinality(S) = 1
      BY <3>2, FS_Singleton
    <3> QED
      BY <2>1, <3>3
  <2>2. CASE slot[s] # "running"
    <3>1. S = {}
      BY <1>1, <2>2 DEF XInv, InstallInv, OneInstaller
    <3>2. Cardinality(S) = 0
      BY <3>1, FS_EmptySet
    <3> QED
      BY <2>2, <3>2
  <2> QED
    BY <2>1, <2>2
<1> QED
  BY <1>1, XInvHolds, PTL

(* A failed install is final for whoever saw it, in any profile.           *)
THEOREM BrokenInstallIsFinal == Spec => []BrokenInstallStopsScope
<1>1. XInv => BrokenInstallStopsScope
  BY DEF XInv, InstallInv, InstallsAreCounted, BrokenInstallStopsScope
<1> QED
  BY <1>1, XInvHolds, PTL

(* CiOptions::fail_fast: no unit of a level after a failure is ever        *)
(* spawned, and no profile after it is begun.                              *)
THEOREM FailFastIsKept == Spec => []FailFastHoldsBack
<1>1. ASSUME XInv PROVE FailFastHoldsBack
  <2> SUFFICES ASSUME opts["fail_fast"]
               PROVE  /\ \A i, j \in DOMAIN levels : \A u \in levels[i], v \in levels[j] :
                           i < j /\ outcome[u] = "failed" => at[v] = "idle"
                      /\ \A i \in DOMAIN Profiles, u \in Names : i < profile => rows[i][u] # "failed"
    BY DEF FailFastHoldsBack
  <2>1. ASSUME NEW i \in DOMAIN levels, NEW j \in DOMAIN levels,
               NEW u \in levels[i], NEW v \in levels[j],
               i < j, outcome[u] = "failed"
        PROVE  at[v] = "idle"
    <3>0. /\ u \in Names /\ v \in Names /\ i \in Nat /\ j \in Nat /\ current \in Nat
          /\ \A k \in DOMAIN levels : k \in Nat /\ (u \in levels[k] => k = i) /\ (v \in levels[k] => k = j)
          /\ (current > 0 => current \in DOMAIN levels)
      BY <1>1, Layers DEF XInv, TypeOK, GTypeOK
    <3>1. u \in Ran \cup chunk
      BY <1>1, <2>1, <3>0 DEF XInv, MainInv, ThreadsFit
    <3>2. u \in levels[current] /\ current > 0
      <4>1. CASE u \in chunk
        BY <1>1, <4>1 DEF XInv, MainInv, Shape
      <4>2. CASE u \in Ran
        <5>1. HadFailure(u)
          BY <2>1 DEF HadFailure
        <5>2. current > 0
          BY <3>0, <4>2, <1>1, NothingRan DEF XInv
        <5> QED
          BY <1>1, <4>2, <5>1, <5>2 DEF XInv, MainInv, StopIsSeen
      <4> QED
        BY <3>1, <4>1, <4>2
    <3>3. i = current
      BY <3>0, <3>2
    <3>4. v \notin chunk
      BY <1>1, <2>1, <3>0, <3>3 DEF XInv, MainInv, Shape
    <3>5. v \notin Ran
      BY <2>1, <3>0, <3>3 DEF Ran
    <3> QED
      BY <1>1, <3>0, <3>4, <3>5 DEF XInv, MainInv, ThreadsFit
  <2>2. \A i \in DOMAIN Profiles, u \in Names : i < profile => rows[i][u] # "failed"
    BY <1>1 DEF XInv, MainInv, EarlierProfiles
  <2> QED
    BY <2>1, <2>2
<1> QED
  BY <1>1, XInvHolds, PTL

(* A green exit is complete: every target of every selected profile has a  *)
(* good row, whatever the levels, the chunks and the profiles were.        *)
THEOREM GreenIsComplete == Spec => []GreenExitIsComplete
<1>1. ASSUME XInv PROVE GreenExitIsComplete
  <2> SUFFICES ASSUME step = "returned",
                      \A i \in DOMAIN Profiles, u \in Names :
                        rows[i][u] \notin {"failed", "install_failed", "notify_failed"},
                      NEW i \in DOMAIN Profiles, NEW u \in Profiles[i] \cap filter
               PROVE  rows[i][u] \in {"ok", "skipped", "notify_failed"}
    BY DEF GreenExitIsComplete, ExitsGreen, EveryTargetRan
  <2>1. u \in Names /\ rows[i][u] \in Outcomes
    BY <1>1, ProfilesAreUnits DEF XInv, TypeOK
  <2>2. ~ stop
    <3> SUFFICES ASSUME stop PROVE FALSE
      OBVIOUS
    <3>1. PICK v \in Ran : HadFailure(v)
      BY <1>1 DEF XInv, MainInv, StopIsSeen
    <3>2. v \in Names /\ profile \in DOMAIN Profiles
      BY <1>1 DEF XInv, TypeOK, Ran, Targets, GTypeOK
    <3>3. rows[profile][v] \in {"failed", "notify_failed"}
      BY <1>1, <3>1, <3>2 DEF XInv, MainInv, RowsAreOutcomes, HadFailure
    <3> QED
      BY <3>2, <3>3
  <2>3. profile = Len(Profiles) /\ Targets \subseteq Ran
    BY <1>1, <2>2 DEF XInv, MainInv, ReturnsLast
  <2>4. CASE i < profile
    BY <1>1, <2>1, <2>4 DEF XInv, MainInv, EarlierProfiles, Outcomes
  <2>5. CASE i = profile
    <3>1. u \in Ran
      BY <1>1, <2>3, <2>5 DEF XInv, MainInv, Shape, Targets
    <3>2. rows[i][u] = outcome[u] /\ outcome[u] \notin {"none", "error"}
      BY <1>1, <2>1, <2>5, <3>1 DEF XInv, MainInv, RowsAreOutcomes, ThreadsFit
    <3> QED
      BY <2>1, <3>2 DEF Outcomes
  <2>6. i < profile \/ i = profile
    BY <2>3, ProfilesAreUnits
  <2> QED
    BY <2>4, <2>5, <2>6
<1> QED
  BY <1>1, XInvHolds, PTL
-----------------------------------------------------------------------------
(* The refinement of OrderedRun.                                           *)
needsBar == [u \in Names |-> IF u \in Targets THEN dependsOn[u] \cap filter ELSE {}]
runBar   == [u \in Names |-> Progress(u)]

LEMMA ProgressIs ==
  \A u \in Names : /\ at[u] = "idle" => Progress(u) = "waiting"
                   /\ at[u] = "done" => Progress(u) = "finished"
                   /\ at[u] \notin {"idle", "done"} => Progress(u) = "running"
  BY DEF Progress

(* A chunk is spawned when all that its units need was joined.             *)
LEMMA SpawnStarts ==
  ASSUME XInv, SpawnChunk
  PROVE  \E S \in SUBSET Names : Ordered!Start(S)
<1>1. PICK c \in SUBSET rest :
        /\ Cardinality(c) = Parallelism \/ (c = rest /\ Cardinality(c) < Parallelism)
        /\ at' = [u \in Names |-> IF u \in c THEN "spawned" ELSE at[u]]
  BY DEF SpawnChunk
<1>2. /\ rest # {} /\ UNCHANGED <<units, dependsOn, filter>> /\ current \in DOMAIN levels
      /\ c \subseteq Names /\ c \subseteq levels[current] /\ c \subseteq Targets
      /\ c \cap (Ran \cup chunk) = {}
  BY RestIsFresh, Layers DEF SpawnChunk, gvars, XInv, TypeOK, MainInv, Shape
<1>3. c # {}
  BY <1>1, <1>2, FS_EmptySet, ParallelismPositive
<1>4. ASSUME NEW u \in c PROVE runBar[u] = "waiting" /\ \A d \in needsBar[u] : runBar[d] = "finished"
  <2>1. u \in Names /\ at[u] = "idle"
    BY <1>2 DEF XInv, MainInv, ThreadsFit
  <2>2. ASSUME NEW d \in needsBar[u] PROVE runBar[d] = "finished"
    <3>1. d \in dependsOn[u] /\ d \in filter
      BY <1>2, <2>1 DEF needsBar
    <3>2. PICK j \in DOMAIN levels : j < current /\ d \in levels[j]
      BY <1>2, <3>1 DEF XInv, IInv, DepsInEarlierLevels
    <3>3. d \in Ran /\ d \in Names
      BY <3>1, <3>2, Layers DEF Ran, Targets, XInv, TypeOK, GTypeOK
    <3> QED
      BY <3>3, ProgressIs DEF XInv, MainInv, ThreadsFit, runBar
  <2> QED
    BY <2>1, <2>2, ProgressIs DEF runBar
<1>5. \A u \in Names : Progress(u)' = IF u \in c THEN "running" ELSE Progress(u)
  BY <1>1, <1>2 DEF Progress
<1>6. runBar' = [u \in Names |-> IF u \in c THEN "running" ELSE runBar[u]] /\ needsBar' = needsBar
  BY <1>2, <1>5 DEF runBar, needsBar, Targets
<1>7. Ordered!Start(c)
  BY <1>3, <1>4, <1>6 DEF Ordered!Start, Ordered!Startable, runBar, needsBar
<1> QED
  BY <1>2, <1>7

LEMMA ThreadFinishes ==
  ASSUME XInv, NEW u \in chunk, ThreadStep(u), UNCHANGED <<gvars, xvars>>
  PROVE  Ordered!Finish(u) \/ UNCHANGED <<needsBar, runBar>>
<1>1. u \in Names /\ TTypeOK /\ (at[u] = "done" <=> outcome[u] # "none")
  BY RestIsFresh DEF XInv, TypeOK, MainInv, ThreadsFit
<1>2. at[u] \notin {"idle", "done"} /\ at'[u] # "idle" /\ at' = [at EXCEPT ![u] = at'[u]]
  BY <1>1, ThreadMoves
<1>3. needsBar' = needsBar
  BY DEF needsBar, Targets, gvars, xvars
<1>4. \A v \in Names \ {u} : Progress(v)' = Progress(v)
  BY <1>1, <1>2 DEF Progress, TTypeOK
<1>5. Progress(u) = "running" /\ Progress(u)' = IF at'[u] = "done" THEN "finished" ELSE "running"
  BY <1>1, <1>2 DEF Progress
<1>6. CASE at'[u] = "done"
  <2>1. runBar' = [runBar EXCEPT ![u] = "finished"] /\ runBar[u] = "running"
    BY <1>1, <1>4, <1>5, <1>6 DEF runBar
  <2> QED
    BY <1>3, <2>1 DEF Ordered!Finish, runBar, needsBar
<1>7. CASE at'[u] # "done"
  <2>1. runBar' = runBar
    BY <1>4, <1>5, <1>7 DEF runBar
  <2> QED
    BY <1>3, <2>1
<1> QED
  BY <1>6, <1>7

LEMMA StepsAreOrdered ==
  ASSUME XInv, XInv', [Next]_vars
  PROVE  [Ordered!Next]_<<needsBar, runBar>>
<1>1. CASE UNCHANGED <<units, dependsOn, filter, at>>
  BY <1>1 DEF needsBar, runBar, Targets, Progress
<1>2. CASE SpawnChunk
  BY <1>2, SpawnStarts DEF Ordered!Next
<1>3. CASE NextProfile
  <2>1. chunk = {} /\ at' = [u \in Names |-> "idle"]
    BY <1>3 DEF NextProfile, ProfileOver, XInv, MainInv, Shape
  <2>2. \A u \in Names : Progress(u) # "running" /\ Progress(u)' = "waiting"
    BY <2>1 DEF Progress, XInv, MainInv, ThreadsFit
  <2>3. \A u \in Targets' : dependsOn'[u] \subseteq Names
    BY DEF XInv, TypeOK, GTypeOK, Targets
  <2>4. needsBar' \in [Names -> SUBSET Names]
    BY <2>3 DEF needsBar
  <2>5. runBar' = [u \in Names |-> "waiting"] /\ \A u \in Names : runBar[u] # "running"
    BY <2>2 DEF runBar
  <2> QED
    BY <2>4, <2>5 DEF Ordered!Next, Ordered!NewProfile, runBar, needsBar
<1>4. CASE RunThreads
  <2>1. UNCHANGED <<gvars, xvars>>
    BY <1>4 DEF RunThreads
  <2>2. CASE \E u \in chunk : ThreadStep(u)
    <3>1. chunk \subseteq Names
      BY RestIsFresh DEF XInv, MainInv
    <3> QED
      BY <2>1, <2>2, <3>1, ThreadFinishes DEF Ordered!Next
  <2>3. CASE UNCHANGED at
    BY <1>1, <2>1, <2>3 DEF gvars, xvars
  <2> QED
    BY <1>4, <2>2, <2>3 DEF RunThreads, InstallPopulates, UploadEnds
<1>5. CASE BuildGraph \/ GraphFails \/ EnterLevel \/ JoinErrored \/ JoinChunk \/ DrainAndReturn
           \/ UNCHANGED vars
  <2>1. UNCHANGED <<units, dependsOn, filter, at>>
    BY <1>5 DEF BuildGraph, GNext, RejectUnknownDep, CountInDegrees, DrainReady, VisitUnit, CloseLevel,
                ReturnGraph, ReturnCycle, GraphFails, EnterLevel, JoinErrored, JoinChunk, DrainAndReturn,
                vars, gvars, tvars, xvars
  <2> QED
    BY <1>1, <2>1
<1> QED
  BY <1>2, <1>3, <1>4, <1>5 DEF Next, Main

(* Executor::execute implements OrderedRun: with its levels, chunks and    *)
(* threads it starts a unit once in a profile and only after everything    *)
(* the unit depends on, in the filter, has finished.                       *)
THEOREM ExecuteIsOrdered == Spec => ImplementsOrderedRun
<1>1. ASSUME Init PROVE Ordered!Init
  <2>1. XInv
    BY <1>1, InitKeepsXInv
  <2>2. \A u \in Names : Progress(u) = "waiting"
    BY <1>1 DEF Init, TInit, Progress
  <2>3. \A u \in Targets : dependsOn[u] \subseteq Names
    BY <2>1 DEF XInv, TypeOK, GTypeOK, Targets
  <2> QED
    BY <2>2, <2>3 DEF Ordered!Init
<1>2. XInv /\ XInv' /\ [Next]_vars => [Ordered!Next]_<<needsBar, runBar>>
  BY StepsAreOrdered
<1> QED
  BY <1>1, <1>2, XInvHolds, PTL DEF Spec, ImplementsOrderedRun, Ordered!Spec, needsBar, runBar
=============================================================================
