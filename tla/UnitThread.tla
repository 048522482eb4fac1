----------------------------- MODULE UnitThread -----------------------------
(***************************************************************************)
(* Executor::execute_unit as the scope thread of one unit runs it: the     *)
(* early returns, ensure_toolchain, ensure_installed with the OnceLock     *)
(* that the units of one install scope share, and the task loop, which is  *)
(* one step here (module UnitRun opens it).  The threads of a chunk        *)
(* interleave.                                                             *)
(***************************************************************************)
EXTENDS Naturals, FiniteSets, UnitNames

CONSTANTS
  Scope,       \* LanguageAdapter::install_scope of each unit
  Options      \* the CiOptions to consider

Flags == {"skip_install", "force_install", "install_only", "fail_fast", "run_notify_kinds"}

ASSUME OptionsAreFlags == Options \subseteq [Flags -> BOOLEAN]
ASSUME ScopeIsMap == DOMAIN Scope = Names

VARIABLES
  opts,        \* the options of this invocation
  at,          \* where the thread of each unit is
  outcome,     \* how execute_unit ended for it
  probed,      \* what install_probe sees in the unit's directory
  slot,        \* Executor::install_scopes: one OnceLock per scope
  installs,    \* ExecutionSummary::installs of the unit's row
  uploads      \* units with a write-through upload in flight

tvars == <<opts, at, outcome, probed, slot, installs, uploads>>

Scopes   == {Scope[u] : u \in Names}
Siblings(u) == {v \in Names : Scope[v] = Scope[u]}
Places   == {"idle", "spawned", "probe", "want", "installing", "tasks", "done"}
Outcomes == {"none", "skipped", "ok", "failed", "notify_failed", "install_failed", "error"}
Active   == {u \in Names : at[u] \notin {"idle", "done"}}

TInit ==
  /\ opts \in Options
  /\ at = [u \in Names |-> "idle"]
  /\ outcome = [u \in Names |-> "none"]
  /\ probed \in [Names -> {"ready", "missing"}]
  /\ slot = [s \in Scopes |-> "empty"]
  /\ installs = [u \in Names |-> 0]
  /\ uploads = {}

Goto(u, place)    == at' = [at EXCEPT ![u] = place]
Finish(u, result) == Goto(u, "done") /\ outcome' = [outcome EXCEPT ![u] = result]

(* A unit without tasks, or without one of the wanted kind, is a Skipped   *)
(* row before anything is installed.                                       *)
SkipUnit(u) ==
  /\ at[u] = "spawned"
  /\ Finish(u, "skipped")
  /\ UNCHANGED <<opts, probed, slot, installs, uploads>>

(* resolve_tasks or ensure_toolchain may fail: `?` leaves execute_unit. *)
ToolchainFails(u) ==
  /\ at[u] = "spawned"
  /\ Finish(u, "error")
  /\ UNCHANGED <<opts, probed, slot, installs, uploads>>

EnsureToolchain(u) ==
  /\ at[u] = "spawned"
  /\ Goto(u, "probe")
  /\ UNCHANGED <<opts, outcome, probed, slot, installs, uploads>>

(* What follows ensure_installed: the tasks, unless `monad install`. *)
AfterInstall(u) ==
  IF opts["install_only"] THEN Finish(u, "ok") ELSE Goto(u, "tasks") /\ UNCHANGED outcome

(* ensure_installed up to the OnceLock: no need to install (nor a way to,  *)
(* for a unit without an adapter, which is none of those modelled) ...     *)
NoInstall(u) ==
  /\ at[u] = "probe"
  /\ \/ opts["skip_install"]
     \/ ~ opts["force_install"] /\ ~ opts["install_only"] /\ probed[u] = "ready"
  /\ AfterInstall(u)
  /\ UNCHANGED <<opts, probed, slot, installs, uploads>>

(* ... or a reason to: the flags, or a probe that says Missing. *)
WantInstall(u) ==
  /\ at[u] = "probe"
  /\ ~ opts["skip_install"]
  /\ opts["force_install"] \/ opts["install_only"] \/ probed[u] = "missing"
  /\ Goto(u, "want")
  /\ UNCHANGED <<opts, outcome, probed, slot, installs, uploads>>

\* Mutant: the slot is looked at, not locked.
WinSlot_Racy(u) ==
  /\ at[u] = "want"
  /\ slot[Scope[u]] \in {"empty", "running"}
  /\ slot' = [slot EXCEPT ![Scope[u]] = "running"]
  /\ Goto(u, "installing")
  /\ UNCHANGED <<opts, outcome, probed, installs, uploads>>

(* OnceLock::get_or_init: the first thread runs the closure ... *)
WinSlot(u) ==
  /\ at[u] = "want"
  /\ slot[Scope[u]] = "empty"
  /\ slot' = [slot EXCEPT ![Scope[u]] = "running"]
  /\ Goto(u, "installing")
  /\ UNCHANGED <<opts, outcome, probed, installs, uploads>>

\* Mutant: the result of the sibling's install is ignored.
LoseSlot_IgnoresError(u) ==
  /\ at[u] = "want"
  /\ slot[Scope[u]] \in {"ok", "failed"}
  /\ AfterInstall(u)
  /\ UNCHANGED <<opts, probed, slot, installs, uploads>>

(* ... the others block until it has run, and get its result. *)
LoseSlot(u) ==
  /\ at[u] = "want"
  /\ \/ /\ slot[Scope[u]] = "ok"
        /\ AfterInstall(u)
        /\ UNCHANGED installs
     \/ /\ slot[Scope[u]] = "failed"
        /\ Finish(u, "install_failed")
        /\ installs' = [installs EXCEPT ![u] = @ + 1]
  /\ UNCHANGED <<opts, probed, slot, uploads>>

(* The package manager fills the directories of the scope one by one. *)
InstallPopulates(u) ==
  /\ at[u] = "installing"
  /\ \E v \in Siblings(u) :
       /\ probed[v] = "missing"
       /\ probed' = [probed EXCEPT ![v] = "ready"]
  /\ UNCHANGED <<opts, at, outcome, slot, installs, uploads>>

InstallSucceeds(u) ==
  /\ at[u] = "installing"
  /\ slot' = [slot EXCEPT ![Scope[u]] = "ok"]
  /\ installs' = [installs EXCEPT ![u] = @ + 1]
  /\ probed' = [v \in Names |-> IF v \in Siblings(u) THEN "ready" ELSE probed[v]]
  /\ AfterInstall(u)
  /\ UNCHANGED <<opts, uploads>>

\* Mutant: a failed install leaves the slot uninitialised but taken.
InstallFails_KeepsSlot(u) ==
  /\ at[u] = "installing"
  /\ installs' = [installs EXCEPT ![u] = @ + 1]
  /\ Finish(u, "install_failed")
  /\ UNCHANGED <<opts, probed, slot, uploads>>

InstallFails(u) ==
  /\ at[u] = "installing"
  /\ slot' = [slot EXCEPT ![Scope[u]] = "failed"]
  /\ installs' = [installs EXCEPT ![u] = @ + 1]
  /\ Finish(u, "install_failed")
  /\ UNCHANGED <<opts, probed, uploads>>

(* The task loop and the notifications after it: all rows green, a failed  *)
(* task, green tasks with a failed notification, or an error of            *)
(* compute_key.  A local cache hit may leave a write-through upload behind, *)
(* whatever happens to the tasks after it.                                 *)
RunTasks(u) ==
  /\ at[u] = "tasks"
  /\ \/ \E result \in {"ok", "failed", "error"} : Finish(u, result)
     \/ opts["run_notify_kinds"] /\ Finish(u, "notify_failed")
  /\ uploads' \in {uploads, uploads \cup {u}}
  /\ UNCHANGED <<opts, probed, slot, installs>>

ThreadStep(u) ==
  \/ SkipUnit(u) \/ ToolchainFails(u) \/ EnsureToolchain(u)
  \/ NoInstall(u) \/ WantInstall(u) \/ WinSlot(u) \/ LoseSlot(u)
  \/ InstallSucceeds(u) \/ InstallFails(u) \/ RunTasks(u)

(* The uploading thread of write_through ends; nobody looks at its result. *)
UploadEnds(u) ==
  /\ u \in uploads
  /\ uploads' = uploads \ {u}
  /\ UNCHANGED <<opts, at, outcome, probed, slot, installs>>

TTypeOK ==
  /\ opts \in Options
  /\ at \in [Names -> Places] /\ outcome \in [Names -> Outcomes]
  /\ probed \in [Names -> {"ready", "missing"}]
  /\ slot \in [Scopes -> {"empty", "running", "ok", "failed"}]
  /\ installs \in [Names -> 0..1] /\ uploads \subseteq Names
=============================================================================
