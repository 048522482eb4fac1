----------------------------- MODULE DeployState -----------------------------
(***************************************************************************)
(* deploy_state.rs and its use in run.rs: the record of "what is already   *)
(* deployed" at .monad/state/deploys.json.  Each invocation of `monad      *)
(* deploy` loads the whole document once, skips a deploy whose key matches *)
(* the record, and after every successful deploy rewrites the whole        *)
(* document through one fixed temporary file and a rename.  Several        *)
(* invocations share the file; inside one, the units deploy in parallel    *)
(* and save under a mutex.                                                 *)
(***************************************************************************)
EXTENDS Naturals, FiniteSets

CONSTANTS
  Procs,     \* invocations of monad that can be alive at once
  Slots,     \* (environment, unit, task) triples
  Hashes,    \* states of the sources; a deploy task has a different key in each
  None,      \* no record, no artefact
  Torn,      \* a document that does not parse
  Absent,    \* no such file
  Faults,    \* what the environment may do, a subset of AllFaults
  MaxRuns,   \* bound on the invocations
  MaxEdits,  \* bound on the source edits
  MaxFaults  \* bound on the events of Faults

AllFaults == {"overlap", "crash", "save_fails", "rollback", "edit_mid_run", "late_failure"}

ASSUME FaultsKnown == Faults \subseteq AllFaults
ASSUME BoundsNat == MaxRuns \in Nat /\ MaxEdits \in Nat /\ MaxFaults \in Nat
ASSUME MarkersDistinct == None \notin Hashes \cup Slots /\ Torn # Absent
ASSUME MarkersAreNoDocuments == {Torn, Absent} \cap [Slots -> Hashes \cup {None}] = {}

VARIABLES
  src,       \* the sources as they are now
  live,      \* what the platform serves
  shipped,   \* history: keys under which a deploy command succeeded
  file,      \* deploys.json.tmp and deploys.json
  opened,    \* which of the two the process is writing to
  kind,      \* what each process was started for
  mem,       \* Executor::deploy_state of each process
  lock,      \* the unit thread that holds its mutex
  at,        \* progress of each unit thread
  key,       \* the key it computed
  alone,     \* history: no other invocation has run beside this one
  overlapped,\* history: two invocations were once alive together
  stale,     \* history: slots whose record an outside event left behind
  runs, edits, faults

vars == <<src, live, shipped, file, opened, kind, mem, lock, at, key, alone, overlapped, stale,
          runs, edits, faults>>

States  == [Slots -> Hashes \cup {None}]
Empty   == [s \in Slots |-> None]
Steps   == {"todo", "run", "record", "write", "rename", "skipped", "done"}
Running == {p \in Procs : kind[p] # "off"}

Init ==
  /\ src \in Hashes
  /\ live = Empty
  /\ shipped = [s \in Slots |-> {}]
  /\ file = [tmp |-> Absent, json |-> Absent]
  /\ opened = [p \in Procs |-> None]
  /\ kind = [p \in Procs |-> "off"]
  /\ mem = [p \in Procs |-> Empty]
  /\ lock = [p \in Procs |-> None]
  /\ at = [p \in Procs |-> [s \in Slots |-> "done"]]
  /\ key = [p \in Procs |-> Empty]
  /\ alone = [p \in Procs |-> TRUE] /\ overlapped = FALSE
  /\ stale = {}
  /\ runs = 0 /\ edits = 0 /\ faults = 0

\* Mutant: a file that is missing or does not parse is not looked for.
Load_Raw(f) == f

\* Mutant: every invocation starts from an empty state.
Load_Nothing(f) == Empty

(* load_deploy_state: a missing or unparsable file is an empty state. *)
Load(f) == IF f \in States THEN f ELSE Empty

(* What the environment did, within the bound. *)
Misfortune(F) ==
  /\ F \subseteq Faults
  /\ faults + Cardinality(F) <= MaxFaults
  /\ faults' = faults + Cardinality(F)

(* Executor::new for `monad deploy [--force | --rollback]` on some units. *)
Start(p, k, targets) ==
  /\ kind[p] = "off"
  /\ runs < MaxRuns
  /\ Misfortune({f \in {"overlap", "rollback"} :
                   IF f = "overlap" THEN Running # {} ELSE k = "rollback"})
  /\ kind' = [kind EXCEPT ![p] = k]
  /\ mem' = [mem EXCEPT ![p] = Load(file.json)]
  /\ at' = [at EXCEPT ![p] = [s \in Slots |-> IF s \in targets THEN "todo" ELSE "done"]]
  /\ alone' = [q \in Procs |-> IF q = p \/ q \in Running THEN Running = {} ELSE alone[q]]
  /\ overlapped' = (overlapped \/ Running # {})
  /\ stale' = IF Running = {} THEN stale ELSE Slots
  /\ runs' = runs + 1
  /\ UNCHANGED <<src, live, shipped, file, opened, lock, key, edits>>

Goto(p, s, step) == at' = [at EXCEPT ![p][s] = step]

\* Mutant: any record counts, whatever its key.
Hit_AnyRecord(p, s) == kind[p] = "deploy" /\ mem[p][s] # None

Hit(p, s) == kind[p] = "deploy" /\ mem[p][s] = src

(* execute_unit: the key of the deploy task, and deploy_state_hit unless   *)
(* the task is a rollback or --force was given.                            *)
ComputeKey(p, s) ==
  /\ at[p][s] = "todo"
  /\ key' = [key EXCEPT ![p][s] = src]
  /\ Goto(p, s, IF Hit(p, s) THEN "skipped" ELSE "run")
  /\ UNCHANGED <<src, live, shipped, file, opened, kind, mem, lock, alone, overlapped,
                 stale, runs, edits, faults>>

(* The deploy command exits 0: it ships the sources as they are now. *)
Ship(p, s) ==
  /\ at[p][s] = "run" /\ kind[p] # "rollback"
  /\ live' = [live EXCEPT ![s] = src]
  /\ shipped' = [shipped EXCEPT ![s] = @ \cup {key[p][s]}]
  /\ stale' = IF src = key[p][s] THEN stale ELSE stale \cup {s}
  /\ Goto(p, s, "record")
  /\ UNCHANGED <<src, file, opened, kind, mem, lock, key, alone, overlapped, runs, edits, faults>>

(* A rollback serves an older artefact and records nothing. *)
RollBack(p, s) ==
  /\ at[p][s] = "run" /\ kind[p] = "rollback"
  /\ \E h \in shipped[s] \ {live[s]} : live' = [live EXCEPT ![s] = h]
  /\ stale' = stale \cup {s}
  /\ Goto(p, s, "done")
  /\ UNCHANGED <<src, shipped, file, opened, kind, mem, lock, key, alone, overlapped, runs, edits, faults>>

\* Mutant: a failed deploy is recorded too.
ShipFails_Recorded(p, s) ==
  /\ at[p][s] = "run"
  /\ Goto(p, s, "record")
  /\ UNCHANGED <<src, live, shipped, file, opened, kind, mem, lock, key, alone, overlapped, stale,
                 runs, edits, faults>>

(* What a failing command may leave on the platform that has replaced the  *)
(* release: the one it was sent, or one of before, or none that works.     *)
Served(p, s) == {None} \cup (IF kind[p] = "rollback" THEN shipped[s] ELSE {src})

(* The command fails: TaskOutcome::Failed is not recorded, and an older    *)
(* record stays.  `railway up --ci` also exits non-zero on CRASHED, when   *)
(* the release has been replaced.                                          *)
ShipFails(p, s) ==
  /\ at[p][s] = "run"
  /\ live' \in {live} \cup {[live EXCEPT ![s] = h] : h \in Served(p, s)}
  /\ Misfortune({f \in {"late_failure"} : live' # live})
  /\ stale' = IF live' = live THEN stale ELSE stale \cup {s}
  /\ Goto(p, s, "done")
  /\ UNCHANGED <<src, shipped, file, opened, kind, mem, lock, key, alone, overlapped, runs, edits>>

\* Mutant: the state is saved without the mutex.
SetRecord_Unlocked(p, s) ==
  /\ at[p][s] = "record"
  /\ mem' = [mem EXCEPT ![p][s] = key[p][s]]
  /\ file' = [file EXCEPT !.tmp = Torn]
  /\ opened' = [opened EXCEPT ![p] = "tmp"]
  /\ Goto(p, s, "write")
  /\ UNCHANGED <<src, live, shipped, kind, lock, key, alone, overlapped, stale, runs, edits, faults>>

(* record_deploy: the mutex, the record in memory, then save_to, whose      *)
(* std::fs::write first creates or truncates deploys.json.tmp ...          *)
SetRecord(p, s) ==
  /\ at[p][s] = "record"
  /\ lock[p] = None
  /\ lock' = [lock EXCEPT ![p] = s]
  /\ mem' = [mem EXCEPT ![p][s] = key[p][s]]
  /\ file' = [file EXCEPT !.tmp = Torn]
  /\ opened' = [opened EXCEPT ![p] = "tmp"]
  /\ Goto(p, s, "write")
  /\ UNCHANGED <<src, live, shipped, kind, key, alone, overlapped, stale, runs, edits, faults>>

(* ... and write the document.  The open file may have been renamed, or    *)
(* replaced, by another process meanwhile; over another writer's text of a *)
(* different length the result does not parse.                             *)
WriteTmp(p, s) ==
  /\ at[p][s] = "write"
  /\ \/ /\ opened[p] \in {"tmp", "json"}
        /\ \E doc \in IF file[opened[p]] = Torn THEN {mem[p]} ELSE {mem[p], Torn} :
             file' = [file EXCEPT ![opened[p]] = doc]
     \/ /\ opened[p] = "gone"
        /\ file' = file
  /\ opened' = [opened EXCEPT ![p] = None]
  /\ Goto(p, s, "rename")
  /\ UNCHANGED <<src, live, shipped, kind, mem, lock, key, alone, overlapped, stale, runs, edits, faults>>

MovedTo(path) ==
  CASE path = "tmp" -> "json" [] path = "json" -> "gone" [] OTHER -> path

(* save_to, std::fs::rename, and the end of record_deploy. *)
RenameTmp(p, s) ==
  /\ at[p][s] = "rename"
  /\ IF file.tmp = Absent
       THEN UNCHANGED <<file, opened>>
       ELSE /\ file' = [tmp |-> Absent, json |-> file.tmp]
            /\ opened' = [q \in Procs |-> MovedTo(opened[q])]
  /\ stale' = IF alone[p] /\ live[s] = key[p][s] THEN stale \ {s} ELSE stale
  /\ lock' = [lock EXCEPT ![p] = None]
  /\ Goto(p, s, "done")
  /\ UNCHANGED <<src, live, shipped, kind, mem, key, alone, overlapped, runs, edits, faults>>

(* An error of save_to is a warning: the record stays in memory only. *)
SaveFails(p, s) ==
  /\ Misfortune({"save_fails"})
  /\ at[p][s] = "record"
  /\ lock[p] = None
  /\ mem' = [mem EXCEPT ![p][s] = key[p][s]]
  /\ stale' = stale \cup {s}
  /\ Goto(p, s, "done")
  /\ UNCHANGED <<src, live, shipped, file, opened, kind, lock, key, alone, overlapped,
                 runs, edits>>

(* The process is gone, and with it all that it had in memory. *)
Forget(p) ==
  /\ kind' = [kind EXCEPT ![p] = "off"]
  /\ at' = [at EXCEPT ![p] = [s \in Slots |-> "done"]]
  /\ mem' = [mem EXCEPT ![p] = Empty]
  /\ key' = [key EXCEPT ![p] = Empty]
  /\ opened' = [opened EXCEPT ![p] = None]
  /\ lock' = [lock EXCEPT ![p] = None]
  /\ alone' = [alone EXCEPT ![p] = TRUE]

Exit(p) ==
  /\ p \in Running
  /\ \A s \in Slots : at[p][s] \in {"done", "skipped"}
  /\ Forget(p)
  /\ UNCHANGED <<src, live, shipped, file, overlapped, stale, runs, edits, faults>>

(* The process is killed.  What it shipped and had not saved is forgotten. *)
Crash(p) ==
  /\ Misfortune({"crash"})
  /\ p \in Running
  /\ Forget(p)
  /\ stale' = stale \cup {s \in Slots : at[p][s] \in {"record", "write", "rename"}}
  /\ UNCHANGED <<src, live, shipped, file, overlapped, runs, edits>>

(* The user edits the sources, or reverts them, possibly while a deploy    *)
(* command is reading them.                                                *)
Edit(h) ==
  /\ edits < MaxEdits
  /\ src # h
  /\ Misfortune({f \in {"edit_mid_run"} : \E p \in Procs, s \in Slots : at[p][s] = "run"})
  /\ src' = h
  /\ edits' = edits + 1
  /\ UNCHANGED <<live, shipped, file, opened, kind, mem, lock, at, key, alone, overlapped,
                 stale, runs>>

ThreadStep(p, s) ==
  \/ ComputeKey(p, s) \/ Ship(p, s) \/ RollBack(p, s) \/ ShipFails(p, s)
  \/ SetRecord(p, s) \/ SaveFails(p, s) \/ WriteTmp(p, s) \/ RenameTmp(p, s)

Next ==
  \/ \E p \in Procs, k \in {"deploy", "force", "rollback"}, targets \in (SUBSET Slots) \ {{}} :
       Start(p, k, targets)
  \/ \E p \in Procs, s \in Slots : ThreadStep(p, s)
  \/ \E p \in Procs : Exit(p) \/ Crash(p)
  \/ \E h \in Hashes : Edit(h)

(* A started process goes on: the operating system schedules its threads   *)
(* and a deploy command ends.  Nothing obliges anyone to start one.        *)
Fairness ==
  /\ \A p \in Procs, s \in Slots : WF_vars(ThreadStep(p, s))
  /\ \A p \in Procs : WF_vars(Exit(p))

Spec == Init /\ [][Next]_vars /\ Fairness
-----------------------------------------------------------------------------
TypeOK ==
  /\ src \in Hashes /\ live \in States
  /\ shipped \in [Slots -> SUBSET Hashes]
  /\ file \in [tmp : States \cup {Absent, Torn}, json : States \cup {Absent, Torn}]
  /\ opened \in [Procs -> {None, "tmp", "json", "gone"}]
  /\ kind \in [Procs -> {"off", "deploy", "force", "rollback"}]
  /\ mem \in [Procs -> States]
  /\ lock \in [Procs -> Slots \cup {None}]
  /\ at \in [Procs -> [Slots -> Steps]]
  /\ key \in [Procs -> States]
  /\ alone \in [Procs -> BOOLEAN] /\ overlapped \in BOOLEAN /\ stale \subseteq Slots
  /\ runs \in 0..MaxRuns /\ edits \in 0..MaxEdits /\ faults \in 0..MaxFaults

(* A record, in memory or on disk, names a key under which a deploy of the *)
(* slot succeeded: a failed, a skipped or a rolled back deploy leaves none, *)
(* in any interleaving of invocations.                                     *)
RecordsWereShipped ==
  \A s \in Slots :
    /\ \A p \in Procs : mem[p][s] # None => mem[p][s] \in shipped[s]
    /\ \A f \in {"tmp", "json"} :
         file[f] \in States /\ file[f][s] # None => file[f][s] \in shipped[s]

(* As long as invocations do not overlap, deploys.json is a whole document *)
(* even when units of one invocation finish together and after a crash in  *)
(* the middle of a save.                                                   *)
SerialRunsKeepFileWhole ==
  file.json = Torn => overlapped

(* DeployUnchanged means that the platform serves what would be shipped,   *)
(* unless an event the state file cannot see came between: another         *)
(* invocation beside the recording one, a crash or a failed save after the *)
(* deploy, a rollback, an edit while the deploy was running, or a deploy   *)
(* that failed when the platform had replaced the release.                 *)
SkipIsSound ==
  [][\A p \in Procs, s \in Slots :
       at[p][s] = "todo" /\ at'[p][s] = "skipped" => live[s] = src \/ s \in stale]_vars

(* An invocation that runs alone never drops the record of another slot. *)
SerialRunsKeepRecords ==
  [][\A s \in Slots :
       ~ overlapped' /\ file.json \in States /\ file.json[s] # None
         => file'.json \in States /\ file'.json[s] # None]_vars

(* deploy_state.rs on concurrent writers: losing a write only causes one   *)
(* extra deploy, "never a silent skip of a changed artefact"; and run.rs   *)
(* on TaskOutcome::DeployUnchanged, of any invocations: "the currently-    *)
(* deployed artefact is what we'd have shipped".                           *)
NeverASilentSkip ==
  [][\A p \in Procs, s \in Slots :
       at[p][s] = "todo" /\ at'[p][s] = "skipped" => live[s] = src]_vars
=============================================================================
