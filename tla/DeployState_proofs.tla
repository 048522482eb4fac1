-------------------------- MODULE DeployState_proofs --------------------------
(***************************************************************************)
(* Proofs about deploys.json for any number of invocations, slots and      *)
(* versions, whatever the environment does: the state is well typed; every *)
(* record, in memory or in either file, names a key under which the deploy *)
(* command succeeded; while invocations do not overlap, the file is never  *)
(* torn and loses no record; and a skipped deploy is what the platform     *)
(* serves, up to the events after which its slot is stale.                 *)
(***************************************************************************)
EXTENDS DeployState, FiniteSetTheorems, TLAPS

(* A thread that has its key holds a real one, and one that it shipped by  *)
(* the time it is about to record.                                         *)
ReadyToRecord ==
  \A p \in Procs, s \in Slots :
    /\ at[p][s] = "run" => key[p][s] \in Hashes
    /\ at[p][s] = "record" => key[p][s] \in shipped[s] /\ key[p][s] \in Hashes

IInv == TypeOK /\ RecordsWereShipped /\ ReadyToRecord

(* A document whose records were all shipped. *)
Good(doc, done) == \A s \in Slots : doc[s] # None => doc[s] \in done[s]
-----------------------------------------------------------------------------
(* Setting one entry of a table of tables. *)
LEMMA SetEntry ==
  ASSUME NEW A, NEW B, NEW C, NEW f \in [A -> [B -> C]], NEW a \in A, NEW b \in B, NEW c \in C
  PROVE  /\ [f EXCEPT ![a][b] = c] \in [A -> [B -> C]]
         /\ [f EXCEPT ![a][b] = c][a][b] = c
         /\ \A x \in A, y \in B : x # a \/ y # b => [f EXCEPT ![a][b] = c][x][y] = f[x][y]
  OBVIOUS

LEMMA EmptyIsState == Empty \in States /\ \A done : Good(Empty, done)
  BY DEF Empty, States, Good

(* What load_from returns is a document, and a good one if the file was.   *)
LEMMA LoadIsGood ==
  ASSUME NEW f, NEW done, f \in States => Good(f, done)
  PROVE  Load(f) \in States /\ Good(Load(f), done)
  BY EmptyIsState DEF Load

LEMMA FaultsCounted ==
  ASSUME faults \in 0..MaxFaults, NEW F, Misfortune(F)
  PROVE  faults' \in 0..MaxFaults
<1>1. IsFiniteSet(AllFaults)
  <2> DEFINE A == {"overlap"} B == A \cup {"crash"} C == B \cup {"save_fails"}
             D == C \cup {"rollback"} E == D \cup {"edit_mid_run"} G == E \cup {"late_failure"}
  <2>1. IsFiniteSet(A)
    BY FS_Singleton
  <2>2. IsFiniteSet(B)
    BY <2>1, FS_AddElement
  <2>3. IsFiniteSet(C)
    BY <2>2, FS_AddElement
  <2>4. IsFiniteSet(D)
    BY <2>3, FS_AddElement
  <2>5. IsFiniteSet(E)
    BY <2>4, FS_AddElement
  <2>6. IsFiniteSet(G)
    BY <2>5, FS_AddElement
  <2>7. G = AllFaults
    BY DEF AllFaults
  <2>. QED BY <2>6, <2>7
<1>2. IsFiniteSet(F)
  BY <1>1, FaultsKnown, FS_Subset DEF Misfortune
<1>. QED BY <1>2, FS_CardinalityType, BoundsNat DEF Misfortune

(* Replacing one of the two files. *)
LEMMA SetFile ==
  ASSUME NEW S, NEW f \in [tmp : S, json : S], NEW x \in {"tmp", "json"}, NEW d \in S
  PROVE  /\ [f EXCEPT ![x] = d] \in [tmp : S, json : S]
         /\ [f EXCEPT ![x] = d][x] = d
         /\ \A y \in {"tmp", "json"} : y # x => [f EXCEPT ![x] = d][y] = f[y]
<1>1. CASE x = "tmp"
  BY <1>1
<1>2. CASE x = "json"
  BY <1>2
<1>. QED BY <1>1, <1>2
-----------------------------------------------------------------------------
LEMMA InitInv == Init => IInv
<1> SUFFICES ASSUME Init PROVE IInv
  OBVIOUS
<1>1. TypeOK
  <2>1. [s \in Slots |-> {}] \in [Slots -> SUBSET Hashes]
    OBVIOUS
  <2>2. [p \in Procs |-> Empty] \in [Procs -> States]
    BY EmptyIsState
  <2>3. [p \in Procs |-> [s \in Slots |-> "done"]] \in [Procs -> [Slots -> Steps]]
    BY DEF Steps
  <2>4. alone \in [Procs -> BOOLEAN]
    BY Zenon DEF Init
  <2>5. /\ src \in Hashes /\ live \in States /\ overlapped \in BOOLEAN /\ stale \subseteq Slots
        /\ opened \in [Procs -> {None, "tmp", "json", "gone"}]
        /\ kind \in [Procs -> {"off", "deploy", "force", "rollback"}]
        /\ lock \in [Procs -> Slots \cup {None}]
    BY EmptyIsState DEF Init
  <2>6. file \in [tmp : States \cup {Absent, Torn}, json : States \cup {Absent, Torn}]
    BY DEF Init
  <2>7. runs \in 0..MaxRuns /\ edits \in 0..MaxEdits /\ faults \in 0..MaxFaults
    BY BoundsNat DEF Init
  <2>8. shipped \in [Slots -> SUBSET Hashes] /\ mem \in [Procs -> States] /\ key \in [Procs -> States]
        /\ at \in [Procs -> [Slots -> Steps]]
    BY <2>1, <2>2, <2>3 DEF Init
  <2>. QED BY <2>4, <2>5, <2>6, <2>7, <2>8 DEF TypeOK
<1>2. RecordsWereShipped
  <2>1. \A s \in Slots : Empty[s] = None
    BY DEF Empty
  <2>2. \A f \in {"tmp", "json"} : file[f] \notin States
    BY MarkersAreNoDocuments DEF Init, States
  <2>. QED BY <2>1, <2>2 DEF Init, RecordsWereShipped
<1>3. ReadyToRecord
  BY DEF Init, ReadyToRecord
<1>. QED BY <1>1, <1>2, <1>3 DEF IInv

LEMMA StartKeeps ==
  ASSUME IInv, NEW p \in Procs, NEW k \in {"deploy", "force", "rollback"}, NEW targets,
         Start(p, k, targets)
  PROVE  IInv'
<1>1. /\ Load(file.json) \in States
      /\ \A s \in Slots : Load(file.json)[s] # None => Load(file.json)[s] \in shipped[s]
  <2>1. file.json \in States => Good(file.json, shipped)
    BY DEF IInv, RecordsWereShipped, Good
  <2>. QED BY <2>1, LoadIsGood DEF Good
<1>2. faults' \in 0..MaxFaults
  BY FaultsCounted DEF IInv, TypeOK, Start
<1>3. runs' \in 0..MaxRuns
  BY BoundsNat DEF IInv, TypeOK, Start
<1>4. TypeOK'
  BY <1>1, <1>2, <1>3 DEF IInv, TypeOK, Start, Running, Steps
<1>5. RecordsWereShipped'
  BY <1>1 DEF IInv, TypeOK, RecordsWereShipped, Start
<1>6. ReadyToRecord'
  BY DEF IInv, TypeOK, ReadyToRecord, Start
<1>. QED BY <1>4, <1>5, <1>6 DEF IInv

(* One thread moves on, to any step but "run" and "record", and the keys   *)
(* and the history of deploys stay as they are.                            *)
LEMMA MovePast ==
  ASSUME IInv, NEW p \in Procs, NEW s \in Slots, NEW step \in Steps \ {"run", "record"},
         Goto(p, s, step), UNCHANGED <<key, shipped>>
  PROVE  at' \in [Procs -> [Slots -> Steps]] /\ ReadyToRecord'
<1>1. /\ at' \in [Procs -> [Slots -> Steps]] /\ at'[p][s] = step
      /\ \A q \in Procs, t \in Slots : q # p \/ t # s => at'[q][t] = at[q][t]
  BY SetEntry DEF IInv, TypeOK, Goto
<1>. QED BY <1>1 DEF IInv, ReadyToRecord

LEMMA ComputeKeyKeeps ==
  ASSUME IInv, NEW p \in Procs, NEW s \in Slots, ComputeKey(p, s)
  PROVE  IInv'
<1> DEFINE step == IF Hit(p, s) THEN "skipped" ELSE "run"
<1>1. /\ key' \in [Procs -> States] /\ key'[p][s] \in Hashes
      /\ \A q \in Procs, t \in Slots : q # p \/ t # s => key'[q][t] = key[q][t]
  BY SetEntry DEF IInv, TypeOK, ComputeKey, States
<1>2. /\ at' \in [Procs -> [Slots -> Steps]] /\ at'[p][s] = step
      /\ \A q \in Procs, t \in Slots : q # p \/ t # s => at'[q][t] = at[q][t]
  BY SetEntry DEF IInv, TypeOK, ComputeKey, Goto, Steps
<1>3. TypeOK'
  BY <1>1, <1>2 DEF IInv, TypeOK, ComputeKey
<1>4. RecordsWereShipped'
  BY DEF IInv, RecordsWereShipped, ComputeKey
<1>5. ReadyToRecord'
  BY <1>1, <1>2 DEF IInv, ReadyToRecord, ComputeKey
<1>. QED BY <1>3, <1>4, <1>5 DEF IInv

LEMMA ShipKeeps ==
  ASSUME IInv, NEW p \in Procs, NEW s \in Slots, Ship(p, s)
  PROVE  IInv'
<1>1. /\ at' \in [Procs -> [Slots -> Steps]] /\ at'[p][s] = "record"
      /\ \A q \in Procs, t \in Slots : q # p \/ t # s => at'[q][t] = at[q][t]
  BY SetEntry DEF IInv, TypeOK, Ship, Goto, Steps
<1>2. key[p][s] \in Hashes
  BY DEF IInv, ReadyToRecord, Ship
<1>3. /\ shipped' \in [Slots -> SUBSET Hashes] /\ key[p][s] \in shipped'[s]
      /\ \A t \in Slots : shipped[t] \subseteq shipped'[t]
  BY <1>2 DEF IInv, TypeOK, Ship
<1>4. live' \in States
  BY DEF IInv, TypeOK, Ship, States
<1>5. TypeOK'
  BY <1>1, <1>3, <1>4 DEF IInv, TypeOK, Ship
<1>6. RecordsWereShipped'
  BY <1>3 DEF IInv, RecordsWereShipped, Ship
<1>7. ReadyToRecord'
  BY <1>1, <1>2, <1>3 DEF IInv, ReadyToRecord, Ship
<1>. QED BY <1>5, <1>6, <1>7 DEF IInv

LEMMA RollBackKeeps ==
  ASSUME IInv, NEW p \in Procs, NEW s \in Slots, RollBack(p, s)
  PROVE  IInv'
<1>1. at' \in [Procs -> [Slots -> Steps]] /\ ReadyToRecord'
  BY MovePast DEF RollBack, Steps
<1>2. live' \in States
  BY DEF IInv, TypeOK, RollBack, States
<1>3. TypeOK'
  BY <1>1, <1>2 DEF IInv, TypeOK, RollBack
<1>4. RecordsWereShipped'
  BY DEF IInv, RecordsWereShipped, RollBack
<1>. QED BY <1>1, <1>3, <1>4 DEF IInv

LEMMA ShipFailsKeeps ==
  ASSUME IInv, NEW p \in Procs, NEW s \in Slots, ShipFails(p, s)
  PROVE  IInv'
<1>1. at' \in [Procs -> [Slots -> Steps]] /\ ReadyToRecord'
  BY MovePast DEF ShipFails, Steps
<1>2. live' \in States
  BY DEF IInv, TypeOK, ShipFails, Served, States
<1>3. faults' \in 0..MaxFaults
  BY FaultsCounted DEF IInv, TypeOK, ShipFails
<1>4. TypeOK'
  BY <1>1, <1>2, <1>3 DEF IInv, TypeOK, ShipFails
<1>5. RecordsWereShipped'
  BY DEF IInv, RecordsWereShipped, ShipFails
<1>. QED BY <1>1, <1>4, <1>5 DEF IInv

(* The record that a thread sets in memory. *)
LEMMA Recorded ==
  ASSUME IInv, NEW p \in Procs, NEW s \in Slots, at[p][s] = "record",
         mem' = [mem EXCEPT ![p][s] = key[p][s]], shipped' = shipped
  PROVE  /\ mem' \in [Procs -> States]
         /\ \A q \in Procs, t \in Slots : mem'[q][t] # None => mem'[q][t] \in shipped'[t]
<1>1. key[p][s] \in shipped[s] /\ key[p][s] \in Hashes
  BY DEF IInv, ReadyToRecord
<1>2. /\ mem' \in [Procs -> States] /\ mem'[p][s] = key[p][s]
      /\ \A q \in Procs, t \in Slots : q # p \/ t # s => mem'[q][t] = mem[q][t]
  BY <1>1, SetEntry DEF IInv, TypeOK, States
<1>. QED BY <1>1, <1>2 DEF IInv, RecordsWereShipped

LEMMA SetRecordKeeps ==
  ASSUME IInv, NEW p \in Procs, NEW s \in Slots, SetRecord(p, s)
  PROVE  IInv'
<1>1. at' \in [Procs -> [Slots -> Steps]] /\ ReadyToRecord'
  BY MovePast DEF SetRecord, Steps
<1>2. /\ mem' \in [Procs -> States]
      /\ \A q \in Procs, t \in Slots : mem'[q][t] # None => mem'[q][t] \in shipped'[t]
  BY Recorded DEF SetRecord
<1>3. file' \in [tmp : States \cup {Absent, Torn}, json : States \cup {Absent, Torn}]
  BY DEF IInv, TypeOK, SetRecord
<1>4. file'.tmp \notin States /\ file'.json = file.json
  BY MarkersAreNoDocuments DEF IInv, TypeOK, SetRecord, States
<1>5. TypeOK'
  BY <1>1, <1>2, <1>3 DEF IInv, TypeOK, SetRecord
<1>6. RecordsWereShipped'
  BY <1>2, <1>4 DEF IInv, RecordsWereShipped, SetRecord
<1>. QED BY <1>1, <1>5, <1>6 DEF IInv

LEMMA SaveFailsKeeps ==
  ASSUME IInv, NEW p \in Procs, NEW s \in Slots, SaveFails(p, s)
  PROVE  IInv'
<1>1. at' \in [Procs -> [Slots -> Steps]] /\ ReadyToRecord'
  BY MovePast DEF SaveFails, Steps
<1>2. /\ mem' \in [Procs -> States]
      /\ \A q \in Procs, t \in Slots : mem'[q][t] # None => mem'[q][t] \in shipped'[t]
  BY Recorded DEF SaveFails
<1>3. faults' \in 0..MaxFaults
  BY FaultsCounted DEF IInv, TypeOK, SaveFails
<1>4. TypeOK'
  BY <1>1, <1>2, <1>3 DEF IInv, TypeOK, SaveFails
<1>5. RecordsWereShipped'
  BY <1>2 DEF IInv, RecordsWereShipped, SaveFails
<1>. QED BY <1>1, <1>4, <1>5 DEF IInv

LEMMA WriteTmpKeeps ==
  ASSUME IInv, NEW p \in Procs, NEW s \in Slots, WriteTmp(p, s)
  PROVE  IInv'
<1>1. at' \in [Procs -> [Slots -> Steps]] /\ ReadyToRecord'
  BY MovePast DEF WriteTmp, Steps
<1>2. /\ file' \in [tmp : States \cup {Absent, Torn}, json : States \cup {Absent, Torn}]
      /\ \A f \in {"tmp", "json"} : file'[f] = file[f] \/ file'[f] = mem[p] \/ file'[f] = Torn
  <2>1. CASE opened[p] = "gone" /\ file' = file
    BY <2>1 DEF IInv, TypeOK
  <2>2. CASE /\ opened[p] \in {"tmp", "json"}
             /\ \E doc \in IF file[opened[p]] = Torn THEN {mem[p]} ELSE {mem[p], Torn} :
                  file' = [file EXCEPT ![opened[p]] = doc]
    <3> DEFINE D == States \cup {Absent, Torn}
    <3>1. PICK doc \in {mem[p], Torn} : file' = [file EXCEPT ![opened[p]] = doc]
      BY <2>2
    <3>2. doc \in D /\ file \in [tmp : D, json : D]
      BY DEF IInv, TypeOK
    <3>. HIDE DEF D
    <3>3. /\ file' \in [tmp : D, json : D] /\ file'[opened[p]] = doc
          /\ \A y \in {"tmp", "json"} : y # opened[p] => file'[y] = file[y]
      BY <2>2, <3>1, <3>2, SetFile
    <3>. QED BY <3>1, <3>3 DEF D
  <2>. QED BY <2>1, <2>2 DEF WriteTmp
<1>3. TypeOK'
  BY <1>1, <1>2 DEF IInv, TypeOK, WriteTmp
<1>4. RecordsWereShipped'
  <2>1. Torn \notin States
    BY MarkersAreNoDocuments DEF States
  <2>2. mem' = mem /\ shipped' = shipped
    BY DEF WriteTmp
  <2>. QED BY <1>2, <2>1, <2>2 DEF IInv, RecordsWereShipped
<1>. QED BY <1>1, <1>3, <1>4 DEF IInv

LEMMA RenameTmpKeeps ==
  ASSUME IInv, NEW p \in Procs, NEW s \in Slots, RenameTmp(p, s)
  PROVE  IInv'
<1>1. at' \in [Procs -> [Slots -> Steps]] /\ ReadyToRecord'
  BY MovePast DEF RenameTmp, Steps
<1>2. opened' \in [Procs -> {None, "tmp", "json", "gone"}]
  <2>1. \A path \in {None, "tmp", "json", "gone"} : MovedTo(path) \in {None, "tmp", "json", "gone"}
    BY DEF MovedTo
  <2>. QED BY <2>1 DEF IInv, TypeOK, RenameTmp
<1>3. /\ file' \in [tmp : States \cup {Absent, Torn}, json : States \cup {Absent, Torn}]
      /\ \/ file' = file
         \/ file'.tmp = Absent /\ file'.json = file.tmp
  BY DEF IInv, TypeOK, RenameTmp
<1>4. lock' \in [Procs -> Slots \cup {None}] /\ stale' \subseteq Slots
  BY DEF IInv, TypeOK, RenameTmp
<1>5. TypeOK'
  BY <1>1, <1>2, <1>3, <1>4 DEF IInv, TypeOK, RenameTmp
<1>6. RecordsWereShipped'
  <2>1. Absent \notin States
    BY MarkersAreNoDocuments DEF States
  <2>2. mem' = mem /\ shipped' = shipped
    BY DEF RenameTmp
  <2>. QED BY <1>3, <2>1, <2>2 DEF IInv, RecordsWereShipped
<1>. QED BY <1>1, <1>5, <1>6 DEF IInv

(* A process that ends takes its own memory with it and nothing else. *)
LEMMA ForgetKeeps ==
  ASSUME IInv, NEW p \in Procs, Forget(p), UNCHANGED <<src, live, shipped, file, overlapped, runs, edits>>,
         stale' \subseteq Slots, faults' \in 0..MaxFaults
  PROVE  IInv'
<1>1. mem' \in [Procs -> States] /\ key' \in [Procs -> States]
  BY EmptyIsState DEF IInv, TypeOK, Forget
<1>2. at' \in [Procs -> [Slots -> Steps]]
  BY DEF IInv, TypeOK, Forget, Steps
<1>3. TypeOK'
  BY <1>1, <1>2 DEF IInv, TypeOK, Forget
<1>4. \A q \in Procs, t \in Slots : mem'[q][t] # None => mem'[q][t] \in shipped[t]
  BY DEF IInv, TypeOK, RecordsWereShipped, Forget, Empty
<1>5. RecordsWereShipped'
  BY <1>4 DEF IInv, RecordsWereShipped
<1>6. ReadyToRecord'
  BY DEF IInv, TypeOK, ReadyToRecord, Forget
<1>. QED BY <1>3, <1>5, <1>6 DEF IInv

LEMMA ExitKeeps ==
  ASSUME IInv, NEW p \in Procs, Exit(p)
  PROVE  IInv'
<1>1. stale' \subseteq Slots /\ faults' \in 0..MaxFaults
  BY DEF IInv, TypeOK, Exit
<1>. QED BY <1>1, ForgetKeeps DEF Exit

LEMMA CrashKeeps ==
  ASSUME IInv, NEW p \in Procs, Crash(p)
  PROVE  IInv'
<1>1. stale' \subseteq Slots
  BY DEF IInv, TypeOK, Crash
<1>2. faults' \in 0..MaxFaults
  BY FaultsCounted DEF IInv, TypeOK, Crash
<1>. QED BY <1>1, <1>2, ForgetKeeps DEF Crash

LEMMA EditKeeps ==
  ASSUME IInv, NEW h \in Hashes, Edit(h)
  PROVE  IInv'
<1>1. faults' \in 0..MaxFaults
  BY FaultsCounted DEF IInv, TypeOK, Edit
<1>2. edits' \in 0..MaxEdits
  BY BoundsNat DEF IInv, TypeOK, Edit
<1>3. TypeOK'
  BY <1>1, <1>2 DEF IInv, TypeOK, Edit
<1>4. RecordsWereShipped' /\ ReadyToRecord'
  BY DEF IInv, RecordsWereShipped, ReadyToRecord, Edit
<1>. QED BY <1>3, <1>4 DEF IInv

LEMMA StutterKeeps == IInv /\ UNCHANGED vars => IInv'
  BY DEF vars, IInv, TypeOK, RecordsWereShipped, ReadyToRecord

(* The three conjuncts together are inductive. *)
LEMMA NextKeeps == IInv /\ [Next]_vars => IInv'
<1> SUFFICES ASSUME IInv, [Next]_vars PROVE IInv'
  OBVIOUS
<1>1. CASE \E p \in Procs, k \in {"deploy", "force", "rollback"}, targets \in (SUBSET Slots) \ {{}} :
             Start(p, k, targets)
  BY <1>1, StartKeeps
<1>2. ASSUME NEW p \in Procs, NEW s \in Slots, ThreadStep(p, s) PROVE IInv'
  BY <1>2, ComputeKeyKeeps, ShipKeeps, RollBackKeeps, ShipFailsKeeps, SetRecordKeeps,
     SaveFailsKeeps, WriteTmpKeeps, RenameTmpKeeps DEF ThreadStep
<1>3. CASE \E p \in Procs : Exit(p) \/ Crash(p)
  BY <1>3, ExitKeeps, CrashKeeps
<1>4. CASE \E h \in Hashes : Edit(h)
  BY <1>4, EditKeeps
<1>5. CASE UNCHANGED vars
  BY <1>5, StutterKeeps
<1>. QED BY <1>1, <1>2, <1>3, <1>4, <1>5 DEF Next

LEMMA AlwaysIInv == Spec => []IInv
  BY InitInv, NextKeeps, PTL DEF Spec

(* deploy_state.rs, run.rs: every variable keeps its type in every         *)
(* reachable state, for any number of invocations and slots.               *)
THEOREM TypeCorrect == Spec => []TypeOK
  BY AlwaysIInv, PTL DEF IInv

(* deploy_state.rs, record_deploy: no record, in memory or on disk, names  *)
(* a key that no deploy command succeeded under; whatever invocations      *)
(* overlap, crash, or fail to save.                                        *)
THEOREM RecordsAreEarned == Spec => []RecordsWereShipped
  BY AlwaysIInv, PTL DEF IInv
-----------------------------------------------------------------------------
(* The save protocol.  The mutex: a thread of p is between the first       *)
(* system call of save_to and the last exactly when it holds p's lock; a   *)
(* process that is off has no threads.                                     *)
OneSaver ==
  \A p \in Procs, s \in Slots : at[p][s] \in {"write", "rename"} <=> lock[p] = s

OffIsIdle == \A p \in Procs, s \in Slots : kind[p] = "off" => at[p][s] = "done"

(* Without an overlap there is one process, its save owns the temporary    *)
(* file, and that file is whole again before it is renamed.                *)
SerialSave ==
  ~ overlapped =>
    /\ \A p, q \in Running : p = q
    /\ file.json # Torn
    /\ \A p \in Procs, s \in Slots :
         /\ at[p][s] = "write" => opened[p] = "tmp" /\ file.tmp = Torn
         /\ at[p][s] = "rename" => file.tmp # Torn

SaveInv == OneSaver /\ OffIsIdle /\ SerialSave

LEMMA Moved ==
  ASSUME TypeOK, NEW p \in Procs, NEW s \in Slots, NEW step \in Steps, Goto(p, s, step)
  PROVE  /\ at'[p][s] = step
         /\ \A q \in Procs, t \in Slots : q # p \/ t # s => at'[q][t] = at[q][t]
  BY SetEntry DEF TypeOK, Goto

(* When no invocations overlap, no other thread of any process is saving.  *)
LEMMA SaverIsAlone ==
  ASSUME TypeOK, SaveInv, ~ overlapped, NEW p \in Procs, NEW s \in Slots,
         at[p][s] # "done", lock[p] \in {s, None},
         NEW q \in Procs, NEW t \in Slots, q # p \/ t # s
  PROVE  at[q][t] \notin {"write", "rename"}
<1>1. CASE q = p
  BY <1>1, MarkersDistinct DEF SaveInv, OneSaver
<1>2. CASE q # p
  BY <1>2 DEF SaveInv, OffIsIdle, SerialSave, Running
<1>. QED BY <1>1, <1>2

(* A thread that moves on outside of a save leaves the protocol alone.     *)
LEMMA QuietMove ==
  ASSUME TypeOK, SaveInv, NEW p \in Procs, NEW s \in Slots, NEW step \in Steps \ {"write", "rename"},
         at[p][s] \in {"todo", "run", "record"}, Goto(p, s, step),
         UNCHANGED <<file, opened, kind, lock, overlapped>>
  PROVE  SaveInv'
<1>1. /\ at'[p][s] = step
      /\ \A q \in Procs, t \in Slots : q # p \/ t # s => at'[q][t] = at[q][t]
  BY Moved
<1>2. OneSaver'
  BY <1>1 DEF SaveInv, OneSaver
<1>3. OffIsIdle'
  BY <1>1 DEF SaveInv, OffIsIdle
<1>4. SerialSave'
  BY <1>1 DEF SaveInv, SerialSave, Running
<1>. QED BY <1>2, <1>3, <1>4 DEF SaveInv

LEMMA StartSaves ==
  ASSUME TypeOK, SaveInv, NEW p \in Procs, NEW k \in {"deploy", "force", "rollback"}, NEW targets,
         Start(p, k, targets)
  PROVE  SaveInv'
<1>1. /\ \A t \in Slots : at'[p][t] \in {"todo", "done"}
      /\ \A q \in Procs, t \in Slots : q # p => at'[q][t] = at[q][t]
  BY DEF TypeOK, Start
<1>2. /\ kind'[p] = k
      /\ \A q \in Procs : q # p => kind'[q] = kind[q]
  BY DEF TypeOK, Start
<1>3. OneSaver'
  <2>1. \A s \in Slots : lock[p] # s
    BY DEF SaveInv, OneSaver, OffIsIdle, Start
  <2>. QED BY <1>1, <2>1 DEF SaveInv, OneSaver, Start
<1>4. OffIsIdle'
  BY <1>1, <1>2 DEF SaveInv, OffIsIdle
<1>5. SerialSave'
  <2> SUFFICES ASSUME ~ overlapped' PROVE SerialSave'
    BY DEF SerialSave
  <2>1. ~ overlapped /\ Running = {}
    BY DEF Start
  <2>2. \A q \in Running' : q = p
    BY <1>2, <2>1 DEF Running
  <2>3. \A q \in Procs, t \in Slots : at'[q][t] \in {"todo", "done"}
    BY <1>1, <2>1 DEF SaveInv, OffIsIdle, Running
  <2>4. file' = file
    BY DEF Start
  <2>. QED BY <2>1, <2>2, <2>3, <2>4 DEF SaveInv, SerialSave
<1>. QED BY <1>3, <1>4, <1>5 DEF SaveInv

LEMMA SetRecordSaves ==
  ASSUME TypeOK, SaveInv, NEW p \in Procs, NEW s \in Slots, SetRecord(p, s)
  PROVE  SaveInv'
<1>1. /\ at'[p][s] = "write"
      /\ \A q \in Procs, t \in Slots : q # p \/ t # s => at'[q][t] = at[q][t]
  BY Moved DEF SetRecord, Steps
<1>2. lock'[p] = s /\ \A q \in Procs : q # p => lock'[q] = lock[q]
  BY DEF TypeOK, SetRecord
<1>3. OneSaver'
  BY <1>1, <1>2, MarkersDistinct DEF SaveInv, OneSaver, SetRecord
<1>4. OffIsIdle'
  BY <1>1 DEF SaveInv, OffIsIdle, SetRecord
<1>5. SerialSave'
  <2> SUFFICES ASSUME ~ overlapped' PROVE SerialSave'
    BY DEF SerialSave
  <2>1. ~ overlapped /\ Running' = Running
    BY DEF SetRecord, Running
  <2>2. file'.tmp = Torn /\ file'.json = file.json /\ opened'[p] = "tmp"
    BY DEF TypeOK, SetRecord
  <2>3. \A q \in Procs, t \in Slots : q # p \/ t # s => at'[q][t] \notin {"write", "rename"}
    BY <1>1, <2>1, SaverIsAlone DEF SetRecord
  <2>. QED BY <1>1, <2>1, <2>2, <2>3 DEF SaveInv, SerialSave
<1>. QED BY <1>3, <1>4, <1>5 DEF SaveInv

LEMMA WriteTmpSaves ==
  ASSUME TypeOK, SaveInv, NEW p \in Procs, NEW s \in Slots, WriteTmp(p, s)
  PROVE  SaveInv'
<1>1. /\ at'[p][s] = "rename"
      /\ \A q \in Procs, t \in Slots : q # p \/ t # s => at'[q][t] = at[q][t]
  BY Moved DEF WriteTmp, Steps
<1>2. OneSaver'
  BY <1>1 DEF SaveInv, OneSaver, WriteTmp
<1>3. OffIsIdle'
  BY <1>1 DEF SaveInv, OffIsIdle, WriteTmp
<1>4. SerialSave'
  <2> SUFFICES ASSUME ~ overlapped' PROVE SerialSave'
    BY DEF SerialSave
  <2>1. ~ overlapped /\ Running' = Running
    BY DEF WriteTmp, Running
  <2>2. opened[p] = "tmp" /\ file.tmp = Torn
    BY <2>1 DEF SaveInv, SerialSave, WriteTmp
  <2>3. file' = [file EXCEPT !["tmp"] = mem[p]]
    BY <2>2 DEF WriteTmp
  <2>4. file'.tmp # Torn /\ file'.json = file.json
    BY <2>3, MarkersAreNoDocuments DEF TypeOK, States
  <2>5. lock[p] = s
    BY DEF SaveInv, OneSaver, WriteTmp
  <2>6. \A q \in Procs, t \in Slots : q # p \/ t # s => at'[q][t] \notin {"write", "rename"}
    BY <1>1, <2>1, <2>5, SaverIsAlone DEF WriteTmp
  <2>. QED BY <1>1, <2>1, <2>4, <2>6 DEF SaveInv, SerialSave
<1>. QED BY <1>2, <1>3, <1>4 DEF SaveInv

LEMMA RenameTmpSaves ==
  ASSUME TypeOK, SaveInv, NEW p \in Procs, NEW s \in Slots, RenameTmp(p, s)
  PROVE  SaveInv'
<1>1. /\ at'[p][s] = "done"
      /\ \A q \in Procs, t \in Slots : q # p \/ t # s => at'[q][t] = at[q][t]
  BY Moved DEF RenameTmp, Steps
<1>2. lock[p] = s
  BY DEF SaveInv, OneSaver, RenameTmp
<1>3. lock'[p] = None /\ \A q \in Procs : q # p => lock'[q] = lock[q]
  BY DEF TypeOK, RenameTmp
<1>4. OneSaver'
  BY <1>1, <1>2, <1>3, MarkersDistinct DEF SaveInv, OneSaver
<1>5. OffIsIdle'
  BY <1>1 DEF SaveInv, OffIsIdle, RenameTmp
<1>6. SerialSave'
  <2> SUFFICES ASSUME ~ overlapped' PROVE SerialSave'
    BY DEF SerialSave
  <2>1. ~ overlapped /\ Running' = Running
    BY DEF RenameTmp, Running
  <2>2. file'.json # Torn
    BY <2>1 DEF SaveInv, SerialSave, RenameTmp
  <2>3. \A q \in Procs, t \in Slots : at'[q][t] \notin {"write", "rename"}
    BY <1>1, <1>2, <2>1, SaverIsAlone DEF RenameTmp
  <2>. QED BY <2>1, <2>2, <2>3 DEF SaveInv, SerialSave
<1>. QED BY <1>4, <1>5, <1>6 DEF SaveInv

LEMMA ForgetSaves ==
  ASSUME TypeOK, SaveInv, NEW p \in Procs, Forget(p), UNCHANGED <<file, overlapped>>
  PROVE  SaveInv'
<1>1. /\ \A t \in Slots : at'[p][t] = "done"
      /\ \A q \in Procs, t \in Slots : q # p => at'[q][t] = at[q][t]
  BY DEF TypeOK, Forget
<1>2. /\ lock'[p] = None /\ kind'[p] = "off"
      /\ \A q \in Procs : q # p => lock'[q] = lock[q] /\ kind'[q] = kind[q] /\ opened'[q] = opened[q]
  BY DEF TypeOK, Forget
<1>3. OneSaver'
  BY <1>1, <1>2, MarkersDistinct DEF SaveInv, OneSaver
<1>4. OffIsIdle'
  BY <1>1, <1>2 DEF SaveInv, OffIsIdle
<1>5. SerialSave'
  <2>1. Running' \subseteq Running
    BY <1>2 DEF Running
  <2>. QED BY <1>1, <1>2, <2>1 DEF SaveInv, SerialSave
<1>. QED BY <1>3, <1>4, <1>5 DEF SaveInv

LEMMA InitSaves == Init => SaveInv
<1> SUFFICES ASSUME Init PROVE SaveInv
  OBVIOUS
<1>1. OneSaver /\ OffIsIdle
  BY MarkersDistinct DEF Init, OneSaver, OffIsIdle
<1>2. SerialSave
  BY MarkersDistinct DEF Init, SerialSave, Running
<1>. QED BY <1>1, <1>2 DEF SaveInv

LEMMA ThreadStepSaves ==
  ASSUME TypeOK, SaveInv, NEW p \in Procs, NEW s \in Slots, ThreadStep(p, s)
  PROVE  SaveInv'
<1>1. CASE ComputeKey(p, s)
  BY <1>1, QuietMove DEF ComputeKey, Steps
<1>2. CASE Ship(p, s)
  BY <1>2, QuietMove DEF Ship, Steps
<1>3. CASE RollBack(p, s)
  BY <1>3, QuietMove DEF RollBack, Steps
<1>4. CASE ShipFails(p, s)
  BY <1>4, QuietMove DEF ShipFails, Steps
<1>5. CASE SaveFails(p, s)
  BY <1>5, QuietMove DEF SaveFails, Steps
<1>. QED BY <1>1, <1>2, <1>3, <1>4, <1>5, SetRecordSaves, WriteTmpSaves, RenameTmpSaves DEF ThreadStep

LEMMA NextSaves == TypeOK /\ SaveInv /\ [Next]_vars => SaveInv'
<1> SUFFICES ASSUME TypeOK, SaveInv, [Next]_vars PROVE SaveInv'
  OBVIOUS
<1>1. CASE \E p \in Procs, k \in {"deploy", "force", "rollback"}, targets \in (SUBSET Slots) \ {{}} :
             Start(p, k, targets)
  BY <1>1, StartSaves
<1>2. CASE \E p \in Procs, s \in Slots : ThreadStep(p, s)
  BY <1>2, ThreadStepSaves
<1>3. CASE \E p \in Procs : Exit(p) \/ Crash(p)
  BY <1>3, ForgetSaves DEF Exit, Crash
<1>4. CASE UNCHANGED <<file, opened, kind, lock, at, overlapped>>
  BY <1>4 DEF SaveInv, OneSaver, OffIsIdle, SerialSave, Running
<1>. QED BY <1>1, <1>2, <1>3, <1>4 DEF Next, Edit, vars

(* save_to and record_deploy: as long as invocations of monad do not       *)
(* overlap, no reader ever finds a half-written deploys.json, however many *)
(* units finish together and wherever the process is killed.               *)
THEOREM SerialFileIsWhole == Spec => []SerialRunsKeepFileWhole
<1>1. SaveInv => SerialRunsKeepFileWhole
  BY DEF SaveInv, SerialSave, SerialRunsKeepFileWhole
<1>. QED BY <1>1, TypeCorrect, InitSaves, NextSaves, PTL DEF Spec
-----------------------------------------------------------------------------
(* What the records are worth.  An invocation that runs alone is the only  *)
(* one; beside another one every slot counts as stale.                     *)
InFlight == {"record", "write", "rename"}

OneIsAlone ==
  /\ \A p, q \in Running : p # q => ~ alone[p]
  /\ \A p \in Running : ~ alone[p] => overlapped /\ stale = Slots

(* A save that nobody disturbs writes what is in memory. *)
SavesItsMemory ==
  /\ \A p \in Procs, s \in Slots : at[p][s] \in {"write", "rename"} => mem[p][s] = key[p][s]
  /\ \A p \in Running, s \in Slots : alone[p] =>
       /\ at[p][s] = "write" => opened[p] = "tmp" /\ file.tmp = Torn
       /\ at[p][s] = "rename" => file.tmp = mem[p]

(* What is in memory names what is served, but for a deploy that is about  *)
(* to be recorded ...                                                      *)
MemoryIsServed ==
  \A s \in Slots \ stale, p \in Running :
    /\ at[p][s] \in InFlight => live[s] = key[p][s]
    /\ mem[p][s] # None /\ at[p][s] # "record" => mem[p][s] = live[s]

(* ... and so does what is on disk, but for a deploy on its way there.     *)
FileIsServed ==
  \A s \in Slots \ stale :
    file.json \in States /\ file.json[s] # None =>
      file.json[s] = live[s] \/ \E p \in Running : at[p][s] \in InFlight

(* Memory starts from the file and never drops a record. *)
MemoryKeepsFile ==
  \A p \in Running, s \in Slots :
    alone[p] /\ file.json \in States /\ file.json[s] # None => mem[p][s] # None

SyncInv == OneIsAlone /\ SavesItsMemory /\ MemoryIsServed /\ FileIsServed /\ MemoryKeepsFile

(* A thread that is under way belongs to a process that runs; and where a  *)
(* slot is not stale, that process is the only one, and alone.             *)
LEMMA UnderWay ==
  ASSUME SaveInv, SyncInv, NEW p \in Procs, NEW s \in Slots, at[p][s] # "done"
  PROVE  /\ p \in Running
         /\ \A q \in Running, t \in Slots \ stale : q = p /\ alone[p]
         /\ alone[p] => \A q \in Running : q = p
BY DEF SaveInv, OffIsIdle, SyncInv, OneIsAlone, Running

LEMMA InitSyncs == Init => SyncInv
<1> SUFFICES ASSUME Init PROVE SyncInv
  OBVIOUS
<1>1. Running = {} /\ file.json \notin States
  BY MarkersAreNoDocuments DEF Init, Running, States
<1>2. \A p \in Procs, s \in Slots : at[p][s] = "done"
  BY DEF Init
<1> QED
  BY <1>1, <1>2
  DEF SyncInv, OneIsAlone, SavesItsMemory, MemoryIsServed, FileIsServed, MemoryKeepsFile

LEMMA StartSyncs ==
  ASSUME TypeOK, SaveInv, SyncInv, NEW p \in Procs, NEW k \in {"deploy", "force", "rollback"},
         NEW targets, Start(p, k, targets)
  PROVE  SyncInv'
<1>1. /\ p \notin Running /\ Running' = Running \cup {p}
      /\ \A q \in Procs, t \in Slots : q # p => at'[q][t] = at[q][t] /\ mem'[q] = mem[q]
      /\ \A t \in Slots : at'[p][t] \in {"todo", "done"}
      /\ mem'[p] = Load(file.json)
      /\ UNCHANGED <<live, file, opened, key>>
      /\ stale' = IF Running = {} THEN stale ELSE Slots
      /\ overlapped' = (overlapped \/ Running # {})
  BY DEF TypeOK, Start, Running
<1>2. /\ Running = {} => alone'[p]
      /\ Running # {} => \A q \in Running' : ~ alone'[q]
  BY <1>1 DEF Start, Running
<1>3. OneIsAlone'
  BY <1>1, <1>2 DEF SyncInv, OneIsAlone
<1>4. SavesItsMemory'
  <2>1. \A q \in Procs, s \in Slots : at'[q][s] \in {"write", "rename"} => mem'[q][s] = key'[q][s]
    BY <1>1 DEF SyncInv, SavesItsMemory
  <2>2. \A q \in Running', s \in Slots : alone'[q] => at'[q][s] \notin {"write", "rename"}
    BY <1>1, <1>2
  <2> QED
    BY <2>1, <2>2 DEF SavesItsMemory
<1>5. MemoryIsServed' /\ FileIsServed' /\ MemoryKeepsFile'
  <2>1. CASE Running # {}
    BY <1>1, <1>2, <2>1 DEF MemoryIsServed, FileIsServed, MemoryKeepsFile
  <2>2. CASE Running = {}
    <3>1. \A s \in Slots : mem'[p][s] # None => file.json \in States /\ file.json[s] = mem'[p][s]
      BY <1>1 DEF Load, Empty
    <3>2. \A s \in Slots \ stale : file.json \in States /\ file.json[s] # None => file.json[s] = live[s]
      BY <2>2 DEF SyncInv, FileIsServed
    <3>3. file.json \in States => mem'[p] = file.json
      BY <1>1 DEF Load
    <3> QED
      BY <1>1, <2>2, <3>1, <3>2, <3>3 DEF MemoryIsServed, FileIsServed, MemoryKeepsFile, InFlight
  <2> QED
    BY <2>1, <2>2
<1> QED
  BY <1>3, <1>4, <1>5 DEF SyncInv

LEMMA SavesKept ==
  ASSUME SavesItsMemory, UNCHANGED <<file, opened, mem, alone>>, Running' = Running,
         \A q \in Procs, t \in Slots : at'[q][t] \in {"write", "rename"} =>
           at'[q][t] = at[q][t] /\ key'[q][t] = key[q][t]
  PROVE  SavesItsMemory'
<1>1. \A q \in Procs, t \in Slots : at'[q][t] \in {"write", "rename"} => mem'[q][t] = key'[q][t]
  BY DEF SavesItsMemory
<1>2. \A q \in Running, t \in Slots : alone[q] =>
        /\ at'[q][t] = "write" => opened[q] = "tmp" /\ file.tmp = Torn
        /\ at'[q][t] = "rename" => file.tmp = mem[q]
  <2> SUFFICES ASSUME NEW q \in Running, NEW t \in Slots, alone[q],
                      at'[q][t] \in {"write", "rename"}
               PROVE  /\ at'[q][t] = "write" => opened[q] = "tmp" /\ file.tmp = Torn
                      /\ at'[q][t] = "rename" => file.tmp = mem[q]
    OBVIOUS
  <2>1. at'[q][t] = at[q][t]
    BY DEF Running
  <2> QED
    BY <2>1 DEF SavesItsMemory
<1> QED
  BY <1>1, <1>2 DEF SavesItsMemory

(* A key is computed, or a command fails before the platform has acted. *)
LEMMA QuietSyncs ==
  ASSUME TypeOK, SaveInv, SyncInv, NEW p \in Procs, NEW s \in Slots,
         ComputeKey(p, s) \/ (ShipFails(p, s) /\ live' = live)
  PROVE  SyncInv'
<1>1. /\ at[p][s] \in {"todo", "run"} /\ at'[p][s] \in {"skipped", "run", "done"}
      /\ \A q \in Procs, t \in Slots : q # p \/ t # s => at'[q][t] = at[q][t] /\ key'[q][t] = key[q][t]
      /\ UNCHANGED <<live, file, opened, kind, mem, alone, overlapped, stale>>
  <2>1. CASE ShipFails(p, s) /\ live' = live
    BY <2>1, Moved DEF ShipFails, Steps
  <2>2. CASE ComputeKey(p, s)
    <3>1. key \in [Procs -> [Slots -> Hashes \cup {None}]] /\ src \in Hashes \cup {None}
      BY DEF TypeOK, States
    <3>2. key' = [key EXCEPT ![p][s] = src]
      BY <2>2 DEF ComputeKey
    <3>3. \A q \in Procs, t \in Slots : q # p \/ t # s => key'[q][t] = key[q][t]
      BY <3>1, <3>2, SetEntry
    <3>4. /\ at'[p][s] \in {"skipped", "run"}
          /\ \A q \in Procs, t \in Slots : q # p \/ t # s => at'[q][t] = at[q][t]
      BY <2>2, Moved DEF ComputeKey, Steps
    <3> QED
      BY <2>2, <3>3, <3>4 DEF ComputeKey
  <2> QED
    BY <2>1, <2>2
<1>2. Running' = Running
  BY <1>1 DEF Running
<1>3. \A q \in Procs, t \in Slots :
        /\ at'[q][t] \in InFlight <=> at[q][t] \in InFlight
        /\ at[q][t] \in InFlight => at'[q][t] = at[q][t] /\ key'[q][t] = key[q][t]
  BY <1>1 DEF InFlight
<1>4. OneIsAlone' /\ MemoryKeepsFile'
  BY <1>1, <1>2 DEF SyncInv, OneIsAlone, MemoryKeepsFile
<1>5. SavesItsMemory'
  <2>1. \A q \in Procs, t \in Slots : at'[q][t] \in {"write", "rename"} =>
          at'[q][t] = at[q][t] /\ key'[q][t] = key[q][t]
    BY <1>3 DEF InFlight
  <2> QED
    BY <1>1, <1>2, <2>1, SavesKept DEF SyncInv
<1>6. MemoryIsServed'
  BY <1>1, <1>2, <1>3 DEF SyncInv, MemoryIsServed, InFlight, Running
<1>7. FileIsServed'
  BY <1>1, <1>2, <1>3 DEF SyncInv, FileIsServed, Running
<1> QED
  BY <1>4, <1>5, <1>6, <1>7 DEF SyncInv

(* What is served changes. *)
LEMMA ShipSyncs ==
  ASSUME TypeOK, SaveInv, SyncInv, NEW p \in Procs, NEW s \in Slots,
         Ship(p, s) \/ RollBack(p, s) \/ (ShipFails(p, s) /\ live' # live)
  PROVE  SyncInv'
<1>1. /\ at[p][s] = "run" /\ at'[p][s] \in {"record", "done"}
      /\ \A q \in Procs, t \in Slots : q # p \/ t # s => at'[q][t] = at[q][t]
      /\ UNCHANGED <<file, opened, kind, mem, key, alone, overlapped>>
      /\ stale \subseteq stale' /\ stale' \subseteq stale \cup {s}
      /\ \A t \in Slots : t # s => live'[t] = live[t]
      /\ s \notin stale' => at'[p][s] = "record" /\ live'[s] = key[p][s]
  BY Moved DEF Ship, RollBack, ShipFails, Steps, TypeOK, States
<1>2. Running' = Running
  BY <1>1 DEF Running
<1>3. \A q \in Running, t \in Slots \ stale' : q = p
  BY <1>1, UnderWay
<1>4. p \in Running
  BY <1>1, UnderWay
<1>5. OneIsAlone' /\ SavesItsMemory' /\ MemoryKeepsFile'
  <2>1. stale = Slots => stale' = Slots
    BY <1>1 DEF TypeOK
  <2> QED
    <3>1. OneIsAlone'
      BY <1>1, <1>2, <2>1 DEF SyncInv, OneIsAlone
    <3>2. SavesItsMemory'
      <4>1. \A q \in Procs, t \in Slots : at'[q][t] \in {"write", "rename"} =>
              at'[q][t] = at[q][t] /\ key'[q][t] = key[q][t]
        BY <1>1
      <4> QED
        BY <1>1, <1>2, <4>1, SavesKept DEF SyncInv
    <3> QED
      BY <1>1, <1>2, <3>1, <3>2 DEF SyncInv, MemoryKeepsFile
<1>6. MemoryIsServed'
  BY <1>1, <1>2, <1>3 DEF SyncInv, MemoryIsServed, InFlight
<1>7. FileIsServed'
  <2> SUFFICES ASSUME NEW t \in Slots \ stale', file.json \in States, file.json[t] # None
               PROVE  file.json[t] = live'[t] \/ \E q \in Running : at'[q][t] \in InFlight
    BY <1>1, <1>2 DEF FileIsServed
  <2>1. CASE t = s
    BY <1>1, <1>4, <2>1 DEF InFlight
  <2>2. CASE t # s
    <3>1. file.json[t] = live[t] \/ \E q \in Running : at[q][t] \in InFlight
      BY <1>1 DEF SyncInv, FileIsServed
    <3>2. \A q \in Running : at'[q][t] = at[q][t]
      BY <1>1, <2>2 DEF Running
    <3> QED
      BY <1>1, <2>2, <3>1, <3>2
  <2> QED
    BY <2>1, <2>2
<1> QED
  BY <1>5, <1>6, <1>7 DEF SyncInv

(* The record enters the memory; no save of the process is under way. *)
LEMMA RecordSyncs ==
  ASSUME IInv, SaveInv, SyncInv, NEW p \in Procs, NEW s \in Slots,
         SetRecord(p, s) \/ SaveFails(p, s)
  PROVE  SyncInv'
<1>1. /\ at[p][s] = "record" /\ lock[p] = None /\ at'[p][s] \in {"write", "done"}
      /\ \A q \in Procs, t \in Slots : q # p \/ t # s => at'[q][t] = at[q][t]
      /\ mem'[p][s] = key[p][s]
      /\ \A q \in Procs, t \in Slots : q # p \/ t # s => mem'[q][t] = mem[q][t]
      /\ UNCHANGED <<live, kind, key, alone, overlapped>> /\ file'.json = file.json
      /\ stale \subseteq stale' /\ stale' \subseteq stale \cup {s}
      /\ s \notin stale' => at'[p][s] = "write"
      /\ at'[p][s] = "write" => opened'[p] = "tmp" /\ file'.tmp = Torn
      /\ at'[p][s] = "done" => UNCHANGED <<opened, file>>
  <2>1. key[p][s] \in Hashes \cup {None} /\ mem \in [Procs -> [Slots -> Hashes \cup {None}]]
    BY DEF IInv, TypeOK, States
  <2>2. mem' = [mem EXCEPT ![p][s] = key[p][s]] /\ TypeOK
    BY DEF SetRecord, SaveFails, IInv
  <2>3. /\ mem'[p][s] = key[p][s]
        /\ \A q \in Procs, t \in Slots : q # p \/ t # s => mem'[q][t] = mem[q][t]
    BY <2>1, <2>2, SetEntry
  <2>4. CASE SetRecord(p, s)
    <3>1. /\ at'[p][s] = "write"
          /\ \A q \in Procs, t \in Slots : q # p \/ t # s => at'[q][t] = at[q][t]
      BY <2>2, <2>4, Moved DEF SetRecord, Steps
    <3> QED
      BY <2>2, <2>3, <2>4, <3>1 DEF SetRecord, TypeOK
  <2>5. CASE SaveFails(p, s)
    <3>1. /\ at'[p][s] = "done"
          /\ \A q \in Procs, t \in Slots : q # p \/ t # s => at'[q][t] = at[q][t]
      BY <2>2, <2>5, Moved DEF SaveFails, Steps
    <3> QED
      BY <2>3, <2>5, <3>1 DEF SaveFails
  <2> QED
    BY <2>4, <2>5
<1>2. Running' = Running /\ p \in Running
  BY <1>1, UnderWay DEF Running
<1>3. /\ \A q \in Running, t \in Slots \ stale' : q = p
      /\ alone[p] => \A q \in Running : q = p
  BY <1>1, UnderWay
<1>4. \A t \in Slots : at[p][t] \notin {"write", "rename"}
  BY <1>1, MarkersDistinct DEF SaveInv, OneSaver
<1>5. key[p][s] \in Hashes /\ key[p][s] # None
  BY <1>1, MarkersDistinct DEF IInv, ReadyToRecord
<1>6. OneIsAlone'
  <2>1. stale = Slots => stale' = Slots
    BY <1>1 DEF IInv, TypeOK
  <2> QED
    BY <1>1, <1>2, <2>1 DEF SyncInv, OneIsAlone
<1>7. SavesItsMemory'
  <2>1. \A q \in Procs, t \in Slots : at'[q][t] \in {"write", "rename"} => mem'[q][t] = key'[q][t]
    BY <1>1, <1>4 DEF SyncInv, SavesItsMemory
  <2>2. \A q \in Running, t \in Slots : alone[q] /\ at'[q][t] \in {"write", "rename"} => q = p /\ t = s
    <3> SUFFICES ASSUME NEW q \in Running, NEW t \in Slots, alone[q],
                        at'[q][t] \in {"write", "rename"}
                 PROVE  q = p /\ t = s
      OBVIOUS
    <3>1. q = p
      BY <1>2 DEF SyncInv, OneIsAlone
    <3> QED
      BY <1>1, <1>4, <3>1
  <2>3. \A q \in Running, t \in Slots : alone[q] =>
          /\ at'[q][t] = "write" => opened'[q] = "tmp" /\ file'.tmp = Torn
          /\ at'[q][t] = "rename" => file'.tmp = mem'[q]
    BY <1>1, <2>2
  <2> QED
    BY <1>1, <1>2, <2>1, <2>3 DEF SavesItsMemory
<1>8. MemoryIsServed'
  BY <1>1, <1>2, <1>3 DEF SyncInv, MemoryIsServed, InFlight
<1>9. FileIsServed'
  <2> SUFFICES ASSUME NEW t \in Slots \ stale', file.json \in States, file.json[t] # None
               PROVE  file.json[t] = live[t] \/ \E q \in Running : at'[q][t] \in InFlight
    BY <1>1, <1>2 DEF FileIsServed
  <2>1. CASE t = s
    BY <1>1, <1>2, <2>1 DEF InFlight
  <2>2. CASE t # s
    <3>1. file.json[t] = live[t] \/ \E q \in Running : at[q][t] \in InFlight
      BY <1>1 DEF SyncInv, FileIsServed
    <3>2. \A q \in Running : at'[q][t] = at[q][t]
      BY <1>1, <2>2 DEF Running
    <3> QED
      BY <1>1, <2>2, <3>1, <3>2
  <2> QED
    BY <2>1, <2>2
<1>10. MemoryKeepsFile'
  <2> SUFFICES ASSUME NEW q \in Running, NEW t \in Slots, alone[q], file.json \in States,
                      file.json[t] # None
               PROVE  mem'[q][t] # None
    BY <1>1, <1>2 DEF MemoryKeepsFile
  <2>1. mem[q][t] # None /\ q \in Procs
    BY DEF SyncInv, MemoryKeepsFile, Running
  <2>2. CASE q = p /\ t = s
    BY <1>1, <1>5, <2>2
  <2>3. CASE q # p \/ t # s
    BY <1>1, <2>1, <2>3
  <2> QED
    BY <2>2, <2>3
<1> QED
  BY <1>6, <1>7, <1>8, <1>9, <1>10 DEF SyncInv

LEMMA WriteTmpSyncs ==
  ASSUME TypeOK, SaveInv, SyncInv, NEW p \in Procs, NEW s \in Slots, WriteTmp(p, s)
  PROVE  SyncInv'
<1>1. /\ at[p][s] = "write" /\ at'[p][s] = "rename"
      /\ \A q \in Procs, t \in Slots : q # p \/ t # s => at'[q][t] = at[q][t]
      /\ UNCHANGED <<live, kind, mem, key, alone, overlapped, stale>>
  BY Moved DEF WriteTmp, Steps
<1>2. Running' = Running /\ p \in Running
  BY <1>1, UnderWay DEF Running
<1>3. /\ \A q \in Running, t \in Slots \ stale : q = p /\ alone[p]
      /\ alone[p] => \A q \in Running : q = p
  BY <1>1, UnderWay
<1>4. lock[p] = s /\ \A t \in Slots : t # s => at[p][t] \notin {"write", "rename"}
  BY <1>1 DEF SaveInv, OneSaver
<1>5. alone[p] => file'.tmp = mem[p] /\ file'.json = file.json
  <2> SUFFICES ASSUME alone[p] PROVE file'.tmp = mem[p] /\ file'.json = file.json
    OBVIOUS
  <2>1. opened[p] = "tmp" /\ file.tmp = Torn
    BY <1>1, <1>2 DEF SyncInv, SavesItsMemory
  <2>2. file' = [file EXCEPT !["tmp"] = mem[p]]
    BY <2>1 DEF WriteTmp
  <2> QED
    BY <2>2 DEF TypeOK
<1>6. OneIsAlone'
  BY <1>1, <1>2 DEF SyncInv, OneIsAlone
<1>7. SavesItsMemory'
  <2>1. \A q \in Procs, t \in Slots : at'[q][t] \in {"write", "rename"} => mem'[q][t] = key'[q][t]
    BY <1>1 DEF SyncInv, SavesItsMemory
  <2>2. \A q \in Running, t \in Slots : alone[q] /\ at'[q][t] \in {"write", "rename"} => q = p /\ t = s
    <3> SUFFICES ASSUME NEW q \in Running, NEW t \in Slots, alone[q],
                        at'[q][t] \in {"write", "rename"}
                 PROVE  q = p /\ t = s
      OBVIOUS
    <3>1. q = p
      BY <1>2 DEF SyncInv, OneIsAlone
    <3> QED
      BY <1>1, <1>4, <3>1
  <2> QED
    BY <1>1, <1>2, <1>5, <2>1, <2>2 DEF SavesItsMemory
<1>8. MemoryIsServed' /\ MemoryKeepsFile'
  <2>1. MemoryKeepsFile'
    <3> SUFFICES ASSUME NEW q \in Running, NEW t \in Slots, alone[q], file'.json \in States,
                        file'.json[t] # None
                 PROVE  mem[q][t] # None
      BY <1>1, <1>2 DEF MemoryKeepsFile
    <3>1. q = p
      BY <1>2 DEF SyncInv, OneIsAlone
    <3> QED
      BY <1>5, <3>1 DEF SyncInv, MemoryKeepsFile
  <2>2. \A q \in Running, t \in Slots :
          /\ at'[q][t] \in InFlight <=> at[q][t] \in InFlight
          /\ at'[q][t] = "record" <=> at[q][t] = "record"
    BY <1>1 DEF InFlight, Running
  <2> QED
    BY <1>1, <1>2, <2>1, <2>2 DEF SyncInv, MemoryIsServed
<1>9. FileIsServed'
  <2> SUFFICES ASSUME NEW t \in Slots \ stale, file'.json \in States, file'.json[t] # None
               PROVE  file'.json[t] = live[t] \/ \E q \in Running : at'[q][t] \in InFlight
    BY <1>1, <1>2 DEF FileIsServed
  <2>1. file'.json = file.json
    BY <1>2, <1>3, <1>5
  <2>2. file.json[t] = live[t] \/ \E q \in Running : at[q][t] \in InFlight
    BY <2>1 DEF SyncInv, FileIsServed
  <2>3. \A q \in Running : at[q][t] \in InFlight => at'[q][t] \in InFlight
    BY <1>1 DEF InFlight, Running
  <2> QED
    BY <2>1, <2>2, <2>3
<1> QED
  BY <1>6, <1>7, <1>8, <1>9 DEF SyncInv

LEMMA RenameTmpSyncs ==
  ASSUME TypeOK, SaveInv, SyncInv, NEW p \in Procs, NEW s \in Slots, RenameTmp(p, s)
  PROVE  SyncInv'
<1>1. /\ at[p][s] = "rename" /\ at'[p][s] = "done"
      /\ \A q \in Procs, t \in Slots : q # p \/ t # s => at'[q][t] = at[q][t]
      /\ UNCHANGED <<live, kind, mem, key, alone, overlapped>>
      /\ stale' = IF alone[p] /\ live[s] = key[p][s] THEN stale \ {s} ELSE stale
  BY Moved DEF RenameTmp, Steps
<1>2. Running' = Running /\ p \in Running
  BY <1>1, UnderWay DEF Running
<1>3. alone[p] => /\ \A q \in Running : q = p
                  /\ file'.json = mem[p] /\ mem[p][s] = key[p][s]
  <2> SUFFICES ASSUME alone[p]
               PROVE  /\ \A q \in Running : q = p
                      /\ file'.json = mem[p] /\ mem[p][s] = key[p][s]
    OBVIOUS
  <2>1. file.tmp = mem[p] /\ mem[p][s] = key[p][s]
    BY <1>1, <1>2 DEF SyncInv, SavesItsMemory
  <2>2. file.tmp # Absent
    BY <2>1, MarkersAreNoDocuments DEF TypeOK, States
  <2> QED
    BY <1>1, <2>1, <2>2, UnderWay DEF RenameTmp
<1>4. lock[p] = s /\ \A t \in Slots : t # s => at[p][t] \notin {"write", "rename"}
  BY <1>1 DEF SaveInv, OneSaver
<1>5. ~ alone[p] => stale = Slots /\ stale' = Slots /\ \A q \in Running : ~ alone[q]
  BY <1>1, <1>2 DEF SyncInv, OneIsAlone
<1>6. OneIsAlone'
  BY <1>1, <1>2, <1>3, <1>5 DEF SyncInv, OneIsAlone
<1>7. SavesItsMemory'
  <2>1. \A q \in Procs, t \in Slots : at'[q][t] \in {"write", "rename"} => mem'[q][t] = key'[q][t]
    BY <1>1 DEF SyncInv, SavesItsMemory
  <2>2. \A q \in Running, t \in Slots : alone[q] => at'[q][t] \notin {"write", "rename"}
    BY <1>1, <1>3, <1>4, <1>5
  <2> QED
    BY <1>1, <1>2, <2>1, <2>2 DEF SavesItsMemory
<1>8. CASE ~ alone[p]
  <2>1. MemoryIsServed' /\ FileIsServed' /\ MemoryKeepsFile'
    BY <1>1, <1>2, <1>5, <1>8 DEF MemoryIsServed, FileIsServed, MemoryKeepsFile
  <2> QED
    BY <1>6, <1>7, <2>1 DEF SyncInv
<1>9. CASE alone[p]
  <2>1. \A t \in Slots \ stale' :
          /\ at[p][t] \in InFlight => live[t] = key[p][t]
          /\ mem[p][t] # None /\ at[p][t] # "record" => mem[p][t] = live[t]
    <3> TAKE t \in Slots \ stale'
    <3>1. CASE t = s /\ s \in stale
      BY <1>1, <1>3, <1>9, <3>1
    <3>2. CASE t # s \/ s \notin stale
      <4>1. t \notin stale
        BY <1>1, <3>2
      <4> QED
        BY <1>2, <4>1 DEF SyncInv, MemoryIsServed
    <3> QED
      BY <3>1, <3>2
  <2>2. MemoryIsServed'
    BY <1>1, <1>2, <1>3, <1>9, <2>1 DEF MemoryIsServed, InFlight
  <2>3. FileIsServed'
    <3> SUFFICES ASSUME NEW t \in Slots \ stale', mem[p][t] # None
                 PROVE  mem[p][t] = live[t] \/ \E q \in Running : at'[q][t] \in InFlight
      BY <1>1, <1>2, <1>3, <1>9 DEF FileIsServed
    <3>1. CASE at[p][t] = "record"
      BY <1>1, <1>2, <3>1 DEF InFlight
    <3>2. CASE at[p][t] # "record"
      BY <2>1, <3>2
    <3> QED
      BY <3>1, <3>2
  <2>4. MemoryKeepsFile'
    BY <1>1, <1>2, <1>3, <1>9 DEF MemoryKeepsFile
  <2> QED
    BY <1>6, <1>7, <2>2, <2>3, <2>4 DEF SyncInv
<1> QED
  BY <1>8, <1>9

(* A process ends, or is killed: what it had shipped and not saved is      *)
(* stale from then on.                                                     *)
LEMMA ForgetSyncs ==
  ASSUME TypeOK, SaveInv, SyncInv, NEW p \in Procs, Exit(p) \/ Crash(p)
  PROVE  SyncInv'
<1>1. /\ Forget(p) /\ UNCHANGED <<live, file, overlapped>>
      /\ stale \subseteq stale' /\ stale' \subseteq Slots
      /\ \A t \in Slots \ stale' : at[p][t] \notin InFlight
  BY DEF Exit, Crash, InFlight, TypeOK
<1>2. /\ \A t \in Slots : at'[p][t] = "done"
      /\ \A q \in Procs : q # p =>
           /\ at'[q] = at[q] /\ mem'[q] = mem[q] /\ key'[q] = key[q]
           /\ opened'[q] = opened[q] /\ alone'[q] = alone[q]
  BY <1>1 DEF Forget, TypeOK
<1>3. Running' = Running \ {p}
  BY <1>1 DEF Forget, TypeOK, Running
<1>4. OneIsAlone'
  BY <1>1, <1>2, <1>3 DEF SyncInv, OneIsAlone, Running
<1>5. SavesItsMemory'
  <2>1. \A q \in Procs, t \in Slots : at'[q][t] \in {"write", "rename"} => mem'[q][t] = key'[q][t]
    BY <1>2 DEF SyncInv, SavesItsMemory
  <2>2. \A q \in Running', t \in Slots : alone'[q] =>
          /\ at'[q][t] = "write" => opened'[q] = "tmp" /\ file'.tmp = Torn
          /\ at'[q][t] = "rename" => file'.tmp = mem'[q]
    BY <1>1, <1>2, <1>3 DEF SyncInv, SavesItsMemory, Running
  <2> QED
    BY <2>1, <2>2 DEF SavesItsMemory
<1>6. MemoryIsServed' /\ MemoryKeepsFile'
  BY <1>1, <1>2, <1>3 DEF SyncInv, MemoryIsServed, MemoryKeepsFile, Running
<1>7. FileIsServed'
  <2> SUFFICES ASSUME NEW t \in Slots \ stale', file.json \in States, file.json[t] # None
               PROVE  file.json[t] = live[t] \/ \E q \in Running' : at'[q][t] \in InFlight
    BY <1>1 DEF FileIsServed
  <2>1. file.json[t] = live[t] \/ \E q \in Running : at[q][t] \in InFlight
    BY <1>1 DEF SyncInv, FileIsServed
  <2> QED
    BY <1>1, <1>2, <1>3, <2>1 DEF Running
<1> QED
  BY <1>4, <1>5, <1>6, <1>7 DEF SyncInv

LEMMA NextSyncs == IInv /\ SaveInv /\ SyncInv /\ [Next]_vars => SyncInv'
<1> SUFFICES ASSUME IInv, SaveInv, SyncInv, [Next]_vars PROVE SyncInv'
  OBVIOUS
<1>1. CASE \E p \in Procs, k \in {"deploy", "force", "rollback"}, targets \in (SUBSET Slots) \ {{}} :
             Start(p, k, targets)
  BY <1>1, StartSyncs DEF IInv
<1>2. CASE \E p \in Procs, s \in Slots : ThreadStep(p, s)
  BY <1>2, QuietSyncs, ShipSyncs, RecordSyncs, WriteTmpSyncs, RenameTmpSyncs DEF ThreadStep, IInv
<1>3. CASE \E p \in Procs : Exit(p) \/ Crash(p)
  BY <1>3, ForgetSyncs DEF IInv
<1>4. CASE UNCHANGED <<live, file, opened, kind, mem, at, key, alone, overlapped, stale>>
  <2>1. Running' = Running
    BY <1>4 DEF Running
  <2> QED
    BY <1>4, <2>1
    DEF SyncInv, OneIsAlone, SavesItsMemory, MemoryIsServed, FileIsServed, MemoryKeepsFile
<1> QED
  BY <1>1, <1>2, <1>3, <1>4 DEF Next, Edit, vars

LEMMA AlwaysSync == Spec => [](IInv /\ SaveInv /\ SyncInv)
<1>1. IInv => TypeOK
  BY DEF IInv
<1> QED
  BY <1>1, AlwaysIInv, InitSaves, NextSaves, InitSyncs, NextSyncs, PTL DEF Spec

(* Only the lookup of its key makes a thread skip its deploy. *)
LEMMA OnlyHitsSkip ==
  ASSUME TypeOK, Next, NEW p \in Procs, NEW s \in Slots, at[p][s] = "todo", at'[p][s] = "skipped"
  PROVE  Hit(p, s)
<1>1. ASSUME NEW q \in Procs, NEW k \in {"deploy", "force", "rollback"}, NEW targets,
             Start(q, k, targets)
      PROVE  FALSE
  <2>1. \A t \in Slots : at'[q][t] \in {"todo", "done"}
    BY <1>1 DEF Start, TypeOK
  <2>2. \A r \in Procs : r # q => at'[r] = at[r]
    BY <1>1 DEF Start, TypeOK
  <2> QED
    BY <2>1, <2>2
<1>2. ASSUME NEW q \in Procs, NEW t \in Slots, ThreadStep(q, t)
      PROVE  Hit(p, s)
  <2>1. \A step \in Steps : Goto(q, t, step) =>
          /\ at'[q][t] = step
          /\ \A r \in Procs, u \in Slots : r # q \/ u # t => at'[r][u] = at[r][u]
    BY Moved
  <2>2. CASE ComputeKey(q, t)
    <3>1. Goto(q, t, IF Hit(q, t) THEN "skipped" ELSE "run")
      BY <2>2 DEF ComputeKey
    <3>2. q = p /\ t = s
      BY <2>1, <3>1 DEF Steps
    <3> QED
      BY <2>1, <3>1, <3>2 DEF Steps
  <2>3. CASE \E step \in Steps \ {"skipped"} : Goto(q, t, step)
    BY <2>1, <2>3
  <2> QED
    BY <1>2, <2>2, <2>3
    DEF ThreadStep, Ship, RollBack, ShipFails, SetRecord, SaveFails, WriteTmp, RenameTmp, Steps
<1>3. ASSUME NEW q \in Procs, Exit(q) \/ Crash(q)
      PROVE  FALSE
  <2>1. \A t \in Slots : at'[q][t] = "done"
    BY <1>3 DEF Exit, Crash, Forget, TypeOK
  <2>2. \A r \in Procs : r # q => at'[r] = at[r]
    BY <1>3 DEF Exit, Crash, Forget, TypeOK
  <2> QED
    BY <2>1, <2>2
<1>4. ASSUME NEW h \in Hashes, Edit(h)
      PROVE  FALSE
  BY <1>4 DEF Edit
<1> QED
  BY <1>1, <1>2, <1>3, <1>4 DEF Next

(* deploy_state_hit, TaskOutcome::DeployUnchanged: a deploy is skipped     *)
(* only while the platform serves what it would ship, unless one of the    *)
(* events the state file cannot see has made the slot stale.               *)
THEOREM SkipsAreSound == Spec => SkipIsSound
<1> DEFINE Sound == \A p \in Procs, s \in Slots :
             at[p][s] = "todo" /\ at'[p][s] = "skipped" => live[s] = src \/ s \in stale
<1>1. ASSUME IInv, SaveInv, SyncInv, Next PROVE Sound
  <2> SUFFICES ASSUME NEW p \in Procs, NEW s \in Slots, at[p][s] = "todo", at'[p][s] = "skipped",
                      s \notin stale
               PROVE  live[s] = src
    OBVIOUS
  <2>1. Hit(p, s)
    BY <1>1, OnlyHitsSkip DEF IInv
  <2>2. mem[p][s] = src /\ src # None
    BY <1>1, <2>1, MarkersDistinct DEF Hit, IInv, TypeOK
  <2>3. p \in Running
    BY <1>1, UnderWay
  <2> QED
    BY <1>1, <2>2, <2>3 DEF SyncInv, MemoryIsServed
<1>2. IInv /\ SaveInv /\ SyncInv /\ [Next]_vars => [Sound]_vars
  BY <1>1
<1> QED
  BY <1>2, AlwaysSync, PTL DEF Spec, SkipIsSound

(* record_deploy, save_to: an invocation that runs alone never drops the   *)
(* record of another slot.                                                 *)
THEOREM SerialRecordsStay == Spec => SerialRunsKeepRecords
<1> DEFINE Stay == \A s \in Slots :
             ~ overlapped' /\ file.json \in States /\ file.json[s] # None
               => file'.json \in States /\ file'.json[s] # None
<1>1. ASSUME IInv, SaveInv, SyncInv, Next PROVE Stay
  <2> SUFFICES ASSUME NEW s \in Slots, ~ overlapped', file.json \in States, file.json[s] # None
               PROVE  file'.json \in States /\ file'.json[s] # None
    OBVIOUS
  <2>1. ASSUME NEW p \in Procs, NEW t \in Slots, WriteTmp(p, t)
        PROVE  file'.json = file.json
    <3>1. p \in Running /\ ~ overlapped
      BY <1>1, <2>1, UnderWay DEF WriteTmp
    <3>2. opened[p] = "tmp" /\ file.tmp = Torn
      BY <1>1, <2>1, <3>1 DEF SyncInv, OneIsAlone, SavesItsMemory, WriteTmp
    <3>3. file' = [file EXCEPT !["tmp"] = mem[p]]
      BY <2>1, <3>2 DEF WriteTmp
    <3> QED
      BY <1>1, <3>3 DEF IInv, TypeOK
  <2>2. ASSUME NEW p \in Procs, NEW t \in Slots, RenameTmp(p, t)
        PROVE  file'.json \in States /\ file'.json[s] # None
    <3>1. p \in Running /\ ~ overlapped
      BY <1>1, <2>2, UnderWay DEF RenameTmp
    <3>2. alone[p] /\ file.tmp = mem[p]
      BY <1>1, <2>2, <3>1 DEF SyncInv, OneIsAlone, SavesItsMemory, RenameTmp
    <3>3. mem[p] \in States
      BY <1>1 DEF IInv, TypeOK
    <3>4. file'.json = mem[p]
      BY <2>2, <3>2, <3>3, MarkersAreNoDocuments DEF RenameTmp, States
    <3> QED
      BY <1>1, <3>1, <3>2, <3>3, <3>4 DEF SyncInv, MemoryKeepsFile
  <2>3. ASSUME NEW p \in Procs, NEW t \in Slots, SetRecord(p, t)
        PROVE  file'.json = file.json
    BY <1>1, <2>3 DEF SetRecord, IInv, TypeOK
  <2>4. CASE file' = file
    BY <2>4
  <2> QED
    BY <1>1, <2>1, <2>2, <2>3, <2>4
    DEF Next, Start, ThreadStep, ComputeKey, Ship, RollBack, ShipFails, SaveFails, Exit, Crash, Edit
<1>2. IInv /\ SaveInv /\ SyncInv /\ [Next]_vars => [Stay]_vars
  BY <1>1
<1> QED
  BY <1>2, AlwaysSync, PTL DEF Spec, SerialRunsKeepRecords
=============================================================================
