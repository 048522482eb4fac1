------------------------------ MODULE Release -------------------------------
(***************************************************************************)
(* monad release <version>: bump the Cargo workspace, refresh Cargo.lock,  *)
(* commit and tag, in a repository that its user commits to, resets and    *)
(* repairs between two of them.                                            *)
(***************************************************************************)
EXTENDS Naturals, Sequences, FiniteSets, SequencesExt

CONSTANTS
  RootToml,     \* Cargo.toml of the workspace
  LockFile,     \* Cargo.lock
  ListedCrates, \* members that the workspace lists by their path, in its order
  KeptPins,     \* pins of siblings that no release writes: all that a member has
                \* which a pattern of the list matches; in any manifest those that
                \* are tables of their own ([dependencies.core]) or for a target
  FirstVersion, \* version of the workspace at the start, <<major, minor, patch>>
  Keywords,     \* what the user asks for: some of "patch", "minor" and "major",
  Explicit,     \* or one of these versions
  MaxReleases   \* bound on the releases that begin

Versions == Nat \X Nat \X Nat

ASSUME ReleaseAssumption ==
  /\ ListedCrates \in Seq(ToSet(ListedCrates))
  /\ ToSet(ListedCrates) \cap KeptPins = {}
  /\ {RootToml, LockFile} \cap (ToSet(ListedCrates) \cup KeptPins) = {} /\ RootToml # LockFile
  /\ FirstVersion \in Versions /\ Explicit \subseteq Versions
  /\ Keywords \subseteq {"patch", "minor", "major"} /\ MaxReleases \in Nat

VARIABLES
  work,       \* per file: the version in it, in the working tree; the pins a release
              \* keeps are apart from the file that they are in
  index,      \* per file: the same in git's index
  log,        \* commits, the last one is HEAD
  tags,       \* per tagged version: the commit
  releasing,  \* where the command is
  goal,       \* the version it makes
  touched,    \* files it has written
  releases

releaseVars == <<work, index, log, tags, releasing, goal, touched, releases>>

Pins         == ToSet(ListedCrates) \cup KeptPins
ReleaseFiles == Pins \cup {RootToml, LockFile}
TornText == <<>>

ReleaseInit ==
  /\ work = [f \in ReleaseFiles |-> FirstVersion] /\ index = work
  /\ log = <<work>> /\ tags = << >>
  /\ releasing = "off" /\ goal = FirstVersion /\ touched = {} /\ releases = 0

(* parse_bump *)
Bump(spec, v) ==
  CASE spec = "patch" -> <<v[1], v[2], v[3] + 1>>
    [] spec = "minor" -> <<v[1], v[2] + 1, 0>>
    [] spec = "major" -> <<v[1] + 1, 0, 0>>

(* ensure_clean_working_tree: what git status finds nothing in. *)
Clean == work = Last(log) /\ index = work

(* find_cargo_workspace_root: a Cargo.toml cut off has no [workspace]. *)
HasWorkspace == work[RootToml] # TornText

BeginRelease ==
  /\ releasing = "off" /\ releases < MaxReleases
  /\ Clean /\ HasWorkspace
  /\ \/ \E spec \in Keywords : goal' = Bump(spec, work[RootToml])
     \/ goal' \in Explicit
  /\ goal' # work[RootToml]
  /\ releasing' = "root" /\ touched' = {} /\ releases' = releases + 1
  /\ UNCHANGED <<work, index, log, tags>>

(* rewrite_workspace_versions: the root comes first, its version and the   *)
(* pins of [workspace.dependencies] that are inline tables with a path.    *)
WriteRoot ==
  /\ releasing = "root"
  /\ work' = [work EXCEPT ![RootToml] = goal]
  /\ touched' = {RootToml} /\ releasing' = "members"
  /\ UNCHANGED <<index, log, tags, goal, releases>>

(* rewrite_member_path_pins, one listed member after the other: of its     *)
(* three sections of dependencies the pins that are inline tables with a   *)
(* path. A pattern of the list names no Cargo.toml and is passed over; so  *)
(* is a file whose pins are right, or that holds none.                     *)
ToBump == {n \in DOMAIN ListedCrates : work[ListedCrates[n]] \notin {goal, TornText}}
NextCrate == ListedCrates[CHOOSE n \in ToBump : \A k \in ToBump : n <= k]

WriteMember ==
  /\ releasing = "members" /\ ToBump # {}
  /\ work' = [work EXCEPT ![NextCrate] = goal]
  /\ touched' = touched \cup {NextCrate}
  /\ UNCHANGED <<index, log, tags, releasing, goal, releases>>

(* What cargo makes of a pin "x.y.z" for a sibling of version v. *)
Accepts(pin, v) ==
  LET n == IF v[1] > 0 THEN 1 ELSE IF v[2] > 0 THEN 2 ELSE 3 IN
  /\ pin # TornText
  /\ \A k \in 1..n : pin[k] = v[k]
  /\ n = 1 => pin[2] < v[2] \/ (pin[2] = v[2] /\ pin[3] <= v[3])
  /\ n = 2 => pin[3] <= v[3]

\* Mutant: Cargo.lock is refreshed but not staged.
CargoCheck_LeavesLock ==
  /\ releasing = "members" /\ ToBump = {}
  /\ \A m \in Pins : Accepts(work[m], goal)
  /\ work' = [work EXCEPT ![LockFile] = goal]
  /\ releasing' = "add"
  /\ UNCHANGED <<index, log, tags, goal, touched, releases>>

(* run_cargo_check, when the pins fit and the code compiles. *)
CargoCheck ==
  /\ releasing = "members" /\ ToBump = {}
  /\ \A m \in Pins : Accepts(work[m], goal)
  /\ work' = [work EXCEPT ![LockFile] = goal]
  /\ touched' = touched \cup {LockFile} /\ releasing' = "add"
  /\ UNCHANGED <<index, log, tags, goal, releases>>

(* git_commit_and_tag: the files it wrote are staged, all that is staged   *)
(* is committed, and the tag must be new.                                  *)
GitAdd ==
  /\ releasing = "add"
  /\ index' = [f \in ReleaseFiles |-> IF f \in touched THEN work[f] ELSE index[f]]
  /\ releasing' = "commit"
  /\ UNCHANGED <<work, log, tags, goal, touched, releases>>

GitCommit ==
  /\ releasing = "commit"
  /\ log' = Append(log, index) /\ releasing' = "tag"
  /\ UNCHANGED <<work, index, tags, goal, touched, releases>>

GitTag ==
  /\ releasing = "tag" /\ goal \notin DOMAIN tags
  /\ tags' = [v \in DOMAIN tags \cup {goal} |-> IF v = goal THEN Last(log) ELSE tags[v]]
  /\ releasing' = "off"
  /\ UNCHANGED <<work, index, log, goal, touched, releases>>

(* A command fails or the process is killed, and what was done stays: a    *)
(* file may be cut off, a failed cargo check may have written the lock.    *)
StopRelease ==
  /\ releasing # "off" /\ releasing' = "off"
  /\ \/ UNCHANGED work
     \/ releasing = "root" /\ work' = [work EXCEPT ![RootToml] = TornText]
     \/ releasing = "members" /\ ToBump # {} /\ work' = [work EXCEPT ![NextCrate] = TornText]
     \/ releasing = "members" /\ ToBump = {} /\ work' = [work EXCEPT ![LockFile] = goal]
  /\ UNCHANGED <<index, log, tags, goal, touched, releases>>

(* Between two releases the user repairs a pin, commits what there is,     *)
(* goes back to HEAD, or takes the last commit back as print_next_steps    *)
(* says, perhaps without the tag.                                          *)
RepairPin ==
  /\ releasing = "off" /\ HasWorkspace
  /\ \E m \in Pins : work' = [work EXCEPT ![m] = work[RootToml]]
  /\ UNCHANGED <<index, log, tags, releasing, goal, touched, releases>>

CommitAll ==
  /\ releasing = "off" /\ work # Last(log) /\ Len(log) <= MaxReleases
  /\ log' = Append(log, work) /\ index' = work
  /\ UNCHANGED <<work, tags, releasing, goal, touched, releases>>

ResetTo(commits) ==
  /\ releasing = "off" /\ commits # <<>>
  /\ log' = commits /\ work' = Last(commits) /\ index' = work'
  /\ UNCHANGED <<releasing, goal, touched, releases>>

DeleteTag == tags' = [v \in DOMAIN tags \ {log[Len(log)][RootToml]} |-> tags[v]]

Discard == ResetTo(log) /\ UNCHANGED tags
Undo    == ResetTo(Front(log)) /\ (DeleteTag \/ UNCHANGED tags)

ReleaseNext ==
  \/ BeginRelease \/ WriteRoot \/ WriteMember \/ CargoCheck
  \/ GitAdd \/ GitCommit \/ GitTag \/ StopRelease
  \/ RepairPin \/ CommitAll \/ Discard \/ Undo

ReleaseSpec == ReleaseInit /\ [][ReleaseNext]_releaseVars
-----------------------------------------------------------------------------
Commits == [ReleaseFiles -> Versions \cup {TornText}]

ReleaseTypeOK ==
  /\ work \in Commits /\ index \in Commits /\ log \in Seq(Commits)
  /\ \A v \in DOMAIN tags : tags[v] \in Commits
  /\ releasing \in {"off", "root", "members", "add", "commit", "tag"}
  /\ goal \in Versions /\ touched \subseteq ReleaseFiles /\ releases \in 0..MaxReleases

(* A commit that is one version in all that a release writes, and whose    *)
(* other pins cargo takes for that version.                                *)
IsRelease(commit, v) ==
  /\ \A f \in {RootToml, LockFile} \cup ToSet(ListedCrates) : commit[f] = v
  /\ \A m \in KeptPins : Accepts(commit[m], v)

(* release::run and git_commit_and_tag, whatever was left behind by a      *)
(* release that failed, was killed, committed by hand or taken back: the   *)
(* commit under a tag is of that version in the root, in Cargo.lock and in *)
(* every pin a release writes; the pins that none writes may be of an      *)
(* older version, but cargo takes them for that one.                       *)
TagsAreWhole == \A v \in DOMAIN tags : IsRelease(tags[v], v)
=============================================================================
