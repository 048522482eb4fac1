------------------------------ MODULE LocalCache ------------------------------
(***************************************************************************)
(* The files of one key in the cache directory that all workspaces of a    *)
(* user share, under several processes: LocalCache::put and get, clear,    *)
(* RemoteCache::get into the directory and put out of it.  A file is an    *)
(* inode: creating a path that exists truncates its inode, a rename moves  *)
(* it, and an open file stays open when its path goes.  A bundle is        *)
(* written and read chunk by chunk; its first chunk holds meta.json.       *)
(***************************************************************************)
EXTENDS Naturals, FiniteSets

CONSTANTS
  Procs,      \* processes (or threads) that use the directory
  Bundles,    \* what a put may have to store: builds need not be reproducible
  Size,       \* chunks of a bundle
  None,       \* no bundle, no inode, no answer
  Hole,       \* a chunk that is not written
  Inodes,     \* enough of them: one per process and two that are linked
  Overlap,    \* whether two writers may use one temporary file at a time
  MaxOps      \* bound on the operations

ASSUME SizeIsPositive == Size \in Nat \ {0}
ASSUME OverlapIsFlag  == Overlap \in BOOLEAN /\ MaxOps \in Nat
ASSUME MarkersAreNoData == Hole \notin Bundles /\ None \notin Bundles /\ None \notin Inodes
ASSUME EnoughInodes   == IsFiniteSet(Inodes) /\ Cardinality(Inodes) >= Cardinality(Procs) + 3

VARIABLES
  data,       \* the chunks of every inode
  path,       \* the directory: <key>.tar, <key>.tar.tmp, <key>.tar.remote-tmp
  object,     \* the object of the remote cache
  op,         \* what each process is doing
  at,         \* how far it is
  source,     \* the chunks it writes
  handle,     \* its open file
  offset,     \* chunks written or read so far
  got,        \* the chunks it read
  result,     \* the answer of its last operation
  ops

vars == <<data, path, object, op, at, source, handle, offset, got, result, ops>>

Chunks  == 1..Size
Paths   == {"tar", "tmp", "remote_tmp"}
Blank   == [c \in Chunks |-> Hole]
Whole   == {[c \in Chunks |-> b] : b \in Bundles}
Results == {"none", "ok", "miss", "error"}

Init ==
  /\ data = [n \in Inodes |-> Blank]
  /\ path = [f \in Paths |-> None]
  /\ object = None
  /\ op = [p \in Procs |-> "off"] /\ at = [p \in Procs |-> "off"]
  /\ source = [p \in Procs |-> Blank]
  /\ handle = [p \in Procs |-> None] /\ offset = [p \in Procs |-> 0]
  /\ got = [p \in Procs |-> Blank] /\ result = [p \in Procs |-> "none"]
  /\ ops = 0

\* Mutant: put and remote.get share a temporary file.
TmpOf_Shared(p) == "tmp"

TmpOf(p)   == IF op[p] = "put" THEN "tmp" ELSE "remote_tmp"
Writing(p) == at[p] \in {"write", "rename"}
Linked(n)  == \E f \in Paths : path[f] = n
Held(n)    == \E p \in Procs : handle[p] = n
Free(n)    == ~ Linked(n) /\ ~ Held(n)

Begin(p, what, place, chunks) ==
  /\ op[p] = "off" /\ ops < MaxOps
  /\ op' = [op EXCEPT ![p] = what]
  /\ at' = [at EXCEPT ![p] = place]
  /\ source' = [source EXCEPT ![p] = chunks]
  /\ offset' = [offset EXCEPT ![p] = 0]
  /\ got' = [got EXCEPT ![p] = Blank]
  /\ result' = [result EXCEPT ![p] = "none"]
  /\ ops' = ops + 1
  /\ UNCHANGED <<data, path, object, handle>>

Move(p, place) == at' = [at EXCEPT ![p] = place]

(* The operation returns, and its file is closed. *)
Return(p, answer) ==
  /\ op' = [op EXCEPT ![p] = "off"] /\ Move(p, "off")
  /\ result' = [result EXCEPT ![p] = answer]
  /\ handle' = [handle EXCEPT ![p] = None]
  /\ source' = [source EXCEPT ![p] = Blank]

(* put of what a task left in its output paths; remote.get after remote.has, *)
(* which has the whole body before it writes; clear; get; remote.put.        *)
BeginPut(p)   == \E b \in Bundles : Begin(p, "put", "create", [c \in Chunks |-> b])
BeginFetch(p) == object # None /\ Begin(p, "fetch", "create", object)
BeginGet(p)   == Begin(p, "get", "open", Blank)
BeginPush(p)  == Begin(p, "push", "open", Blank)
BeginClear(p) == Begin(p, "clear", "clear", Blank)

(* File::create, or the creation inside std::fs::write. *)
CreateTmp(p) ==
  LET f == TmpOf(p)
      n == IF path[f] = None THEN CHOOSE m \in Inodes : Free(m) ELSE path[f]
  IN  /\ at[p] = "create"
      /\ path[f] = None => n \in Inodes /\ Free(n)
      /\ Overlap \/ ~ \E q \in Procs \ {p} : op[q] = op[p] /\ Writing(q)
      /\ path' = [path EXCEPT ![f] = n]
      /\ data' = [data EXCEPT ![n] = Blank]
      /\ handle' = [handle EXCEPT ![p] = n]
      /\ Move(p, "write")
      /\ UNCHANGED <<object, op, source, offset, got, result, ops>>

WriteChunk(p) ==
  /\ at[p] = "write" /\ offset[p] < Size
  /\ data' = [data EXCEPT ![handle[p]][offset[p] + 1] = source[p][offset[p] + 1]]
  /\ offset' = [offset EXCEPT ![p] = @ + 1]
  /\ Move(p, IF offset[p] + 1 = Size THEN "rename" ELSE "write")
  /\ UNCHANGED <<path, object, op, source, handle, got, result, ops>>

(* The disk is full, or the output directory cannot be read: put returns   *)
(* an error and leaves its temporary file behind.                          *)
WriteFails(p) ==
  /\ at[p] = "write"
  /\ Return(p, "error")
  /\ UNCHANGED <<data, path, object, offset, got, ops>>

\* Mutant: the file is renamed before it is written to the end.
RenameTmp_Early(p) ==
  LET f == TmpOf(p) IN
  /\ at[p] \in {"write", "rename"} /\ path[f] # None
  /\ path' = [path EXCEPT !["tar"] = path[f], ![f] = None]
  /\ Return(p, "ok")
  /\ UNCHANGED <<data, object, offset, got, ops>>

(* std::fs::rename: an error if the temporary file is gone. *)
RenameTmp(p) ==
  LET f == TmpOf(p) IN
  /\ at[p] = "rename"
  /\ \/ /\ path[f] # None
        /\ path' = [path EXCEPT !["tar"] = path[f], ![f] = None]
        /\ Return(p, "ok")
     \/ /\ path[f] = None
        /\ Return(p, "error")
        /\ UNCHANGED path
  /\ UNCHANGED <<data, object, offset, got, ops>>

(* get, or the read of bundle_path by remote.put: is_file and File::open.  *)
OpenBundle(p) ==
  /\ at[p] = "open" /\ path["tar"] # None
  /\ handle' = [handle EXCEPT ![p] = path["tar"]]
  /\ Move(p, "read")
  /\ UNCHANGED <<data, path, object, op, source, offset, got, result, ops>>

OpenMisses(p) ==
  /\ at[p] = "open" /\ path["tar"] = None
  /\ Return(p, IF op[p] = "get" THEN "miss" ELSE "error")
  /\ UNCHANGED <<data, path, object, offset, got, ops>>

ReadChunk(p) ==
  /\ at[p] = "read" /\ offset[p] < Size
  /\ got' = [got EXCEPT ![p][offset[p] + 1] = data[handle[p]][offset[p] + 1]]
  /\ offset' = [offset EXCEPT ![p] = @ + 1]
  /\ UNCHANGED <<data, path, object, op, at, source, handle, result, ops>>

(* extract_bundle: without meta.json an error; a bundle that stops at an   *)
(* entry boundary ends the archive there.                                  *)
Extracted(p) ==
  /\ at[p] = "read" /\ op[p] = "get" /\ offset[p] = Size
  /\ \/ got[p][1] # Hole /\ Return(p, "ok")
     \/ (\E c \in Chunks : got[p][c] = Hole) /\ Return(p, "error")
  /\ UNCHANGED <<data, path, object, offset, got, ops>>

(* remote.put of the bytes that were read; the object store replaces the   *)
(* object whole, or refuses.                                               *)
Pushed(p) ==
  /\ at[p] = "read" /\ op[p] = "push" /\ offset[p] = Size
  /\ \/ object' = got[p] /\ Return(p, "ok")
     \/ object' = object /\ Return(p, "error")
  /\ UNCHANGED <<data, path, offset, got, ops>>

(* clear: read_dir, then the files one by one; one that another process    *)
(* removed or renamed in between ends it with an error.                    *)
ClearFile(p) ==
  /\ at[p] = "clear"
  /\ \E f \in Paths : path[f] # None /\ path' = [path EXCEPT ![f] = None]
  /\ UNCHANGED <<data, object, op, at, source, handle, offset, got, result, ops>>

ClearEnds(p) ==
  /\ at[p] = "clear"
  /\ \E answer \in {"ok", "error"} : Return(p, answer)
  /\ UNCHANGED <<data, path, object, offset, got, ops>>

(* The process is killed; its files stay as they are. *)
Crash(p) ==
  /\ op[p] # "off"
  /\ Return(p, "none")
  /\ UNCHANGED <<data, path, object, offset, got, ops>>

Next ==
  \E p \in Procs :
    \/ BeginPut(p) \/ BeginFetch(p) \/ BeginGet(p) \/ BeginPush(p) \/ BeginClear(p)
    \/ CreateTmp(p) \/ WriteChunk(p) \/ WriteFails(p) \/ RenameTmp(p)
    \/ OpenBundle(p) \/ OpenMisses(p) \/ ReadChunk(p) \/ Extracted(p) \/ Pushed(p)
    \/ ClearFile(p) \/ ClearEnds(p) \/ Crash(p)

Spec == Init /\ [][Next]_vars
-----------------------------------------------------------------------------
Pieces == [Chunks -> Bundles \cup {Hole}]

TypeOK ==
  /\ data \in [Inodes -> Pieces]
  /\ path \in [Paths -> Inodes \cup {None}]
  /\ object \in Pieces \cup {None}
  /\ op \in [Procs -> {"off", "put", "fetch", "get", "push", "clear"}]
  /\ at \in [Procs -> {"off", "create", "write", "rename", "open", "read", "clear"}]
  /\ source \in [Procs -> Pieces] /\ got \in [Procs -> Pieces]
  /\ handle \in [Procs -> Inodes \cup {None}]
  /\ \A p \in Procs : handle[p] # None <=> at[p] \in {"write", "rename", "read"}
  /\ offset \in [Procs -> 0..Size] /\ result \in [Procs -> Results]
  /\ ops \in 0..MaxOps

(* What a reader was told is a hit, and what is in the remote cache for    *)
(* everyone else, is a whole bundle of one build.                          *)
HitsAreWhole ==
  /\ \A p \in Procs : at[p] = "off" /\ result[p] = "ok" /\ got[p] # Blank => got[p] \in Whole
  /\ object # None => object \in Whole

(* The directory implements AtomicCache: puts, fetches and clears take     *)
(* effect at their rename or unlink, a crash or a failed put leaves what   *)
(* was there, and a reader is not disturbed by any of them.                *)
BundleIn(n) == IF n = None THEN None
               ELSE IF data[n] \in Whole THEN data[n][1] ELSE Hole

Atomic == INSTANCE AtomicCache WITH
  Users   <- Procs,
  Nothing <- None,
  stored  <- BundleIn(path["tar"]),
  reading <- [p \in Procs |-> IF at[p] = "read" THEN BundleIn(handle[p]) ELSE None]

ImplementsAtomicCache == Atomic!Spec

(* local.rs, LocalCache::put: "Write is atomic via rename from a `.tmp`    *)
(* sibling": no reader ever opens a bundle that is not whole.              *)
WriteIsAtomic == path["tar"] # None => data[path["tar"]] \in Whole
=============================================================================
