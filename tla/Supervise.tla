------------------------------ MODULE Supervise ------------------------------
(***************************************************************************)
(* monad dev and monad serve for one unit: UnitWatcher, which turns file   *)
(* events into batches, and the loop that kills and respawns the unit's    *)
(* serve command at every batch.                                           *)
(***************************************************************************)
EXTENDS Naturals, Sequences

CONSTANTS
  MaxEdits,   \* bound on the edits
  MaxEvents,  \* bound on the events in the channel of the watcher
  NoServer    \* no process of the serve command

ASSUME SuperviseBounds == MaxEdits \in Nat /\ MaxEvents \in Nat \ {0}

VARIABLES
  command,   \* "dev" or "serve"
  catchAll,  \* no input is declared and no adapter matches: every file counts
  loop,      \* where run_dev or supervise_unit is
  watching,  \* whether the watcher exists
  rx,        \* its channel
  sources,   \* the version of the unit's inputs
  seenFrom,  \* history: their version when the watcher was created
  server,    \* the version of the inputs its process has read
  exited     \* the process ended by itself; only a change starts another

superviseVars == <<command, catchAll, loop, watching, rx, sources, seenFrom, server, exited>>

Boots == {"dev", "serve"}

\* Mutant: every command starts its process before it watches.
WatchesFirst_Never == FALSE

(* run_dev creates the watcher before the process, supervise_unit after it. *)
WatchesFirst == command = "dev"

SuperviseInit ==
  /\ command \in Boots
  /\ catchAll \in BOOLEAN
  /\ loop = IF WatchesFirst THEN "watch" ELSE "spawn"
  /\ watching = FALSE
  /\ rx = <<>>
  /\ sources = 0 /\ seenFrom = 0
  /\ server = NoServer /\ exited = FALSE

(* is_content_event and the glob set of build_matcher: an edit of an input *)
(* counts, an access or an error of the watcher does not, and a file that  *)
(* no glob names counts only if there are no globs.                        *)
Relevant(event) == event = "input" \/ (event = "other" /\ catchAll)

Notice(event) ==
  IF watching THEN Len(rx) < MaxEvents /\ rx' = Append(rx, event) ELSE UNCHANGED rx

(* The world: an edit, a file that is no input (the server may write it), *)
(* an access; and the server may exit.                                     *)
Edit ==
  /\ sources < MaxEdits
  /\ sources' = sources + 1
  /\ Notice("input")
  /\ UNCHANGED <<command, catchAll, loop, watching, seenFrom, server, exited>>

OtherEvent ==
  /\ watching
  /\ \E event \in {"other", "access", "error"} : Notice(event)
  /\ UNCHANGED <<command, catchAll, loop, watching, sources, seenFrom, server, exited>>

ServerExits ==
  /\ server # NoServer
  /\ server' = NoServer /\ exited' = TRUE
  /\ UNCHANGED <<command, catchAll, loop, watching, rx, sources, seenFrom>>

(* UnitWatcher::new; an error ends the command, and the process that       *)
(* supervise_unit has started by then runs on.                             *)
CreateWatcher ==
  /\ loop = "watch"
  /\ \/ /\ watching' = TRUE /\ seenFrom' = sources
        /\ loop' = IF WatchesFirst THEN "spawn" ELSE "idle"
     \/ loop' = "ended" /\ UNCHANGED <<watching, seenFrom>>
  /\ UNCHANGED <<command, catchAll, rx, sources, server, exited>>

(* spawn_serve, spawn_serve_piped: the first process and the ones after a  *)
(* change.                                                                 *)
SpawnServer ==
  /\ loop = "spawn"
  /\ \/ server' = sources /\ loop' = IF watching THEN "idle" ELSE "watch"
     \/ loop' = "ended" /\ UNCHANGED server
  /\ exited' = FALSE
  /\ UNCHANGED <<command, catchAll, watching, rx, sources, seenFrom>>

(* next_batch: the first event that counts starts the debounce ... *)
NextEvent ==
  /\ loop = "idle" /\ rx # <<>>
  /\ rx' = Tail(rx)
  /\ loop' = IF Relevant(Head(rx)) THEN "debounce" ELSE "idle"
  /\ UNCHANGED <<command, catchAll, watching, sources, seenFrom, server, exited>>

(* ... further ones are collected ... *)
CollectEvent ==
  /\ loop = "debounce" /\ rx # <<>>
  /\ rx' = Tail(rx)
  /\ UNCHANGED <<command, catchAll, loop, watching, sources, seenFrom, server, exited>>

(* ... until the deadline, which the first has set; the process is killed *)
(* and waited for.                                                         *)
DebounceEnds ==
  /\ loop = "debounce"
  /\ server' = NoServer
  /\ loop' = "spawn"
  /\ UNCHANGED <<command, catchAll, watching, rx, sources, seenFrom, exited>>

SuperviseStep == CreateWatcher \/ SpawnServer \/ NextEvent \/ DebounceEnds

SuperviseNext ==
  \/ Edit \/ OtherEvent \/ ServerExits
  \/ SuperviseStep \/ CollectEvent

SuperviseSpec == SuperviseInit /\ [][SuperviseNext]_superviseVars
-----------------------------------------------------------------------------
SuperviseTypeOK ==
  /\ command \in Boots /\ catchAll \in BOOLEAN /\ watching \in BOOLEAN
  /\ loop \in {"watch", "spawn", "idle", "debounce", "ended"}
  /\ rx \in Seq({"input", "other", "access", "error"})
  /\ sources \in 0..MaxEdits /\ seenFrom \in 0..MaxEdits
  /\ server \in 0..MaxEdits \cup {NoServer} /\ exited \in BOOLEAN

(* main.rs run_dev, supervise_unit: an edit that no later one follows is   *)
(* served in the end, unless the process exits or the command fails; under *)
(* monad serve, for edits after the watcher was created.                   *)
Served(version) ==
  sources # version \/ server = version \/ exited \/ loop = "ended"

EditsAreServed ==
  \A version \in 1..MaxEdits :
    (sources = version /\ (command = "serve" => watching /\ version > seenFrom))
      ~> Served(version)
=============================================================================
